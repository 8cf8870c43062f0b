-------------------------- MODULE ServiceRegistry --------------------------
(***************************************************************************)
(* How a service is found: MgrDynamicFactory, in which the static object   *)
(* of each service class registers it (System/Subsystem/create_dynamic.h), *)
(* and UMgrMessage::registerService, which makes one object per type of    *)
(* the enum and notes which method takes which request.                    *)
(*                                                                         *)
(* Initialize connects before it registers, so the IO thread may queue a   *)
(* request of the server meanwhile.  A type name is a pair: a service type *)
(* (0 is SERVICETYPE_MIN) and whether it ends in _Stub; RPC:: is left out. *)
(* SERVICETYPE_MAX, for which at() would throw, is not a type the server   *)
(* names.                                                                  *)
(***************************************************************************)
EXTENDS Integers, Sequences

CONSTANTS TypeCount,     \* SERVICETYPE_MAX - 1
          ServiceName,   \* of each type, its letters
          Methods,       \* of each type, the request each method takes
          Linked,        \* the service classes in the program
          MaxCalls       \* bound: requests the server makes

ServiceType == 1..TypeCount
TypeName == ServiceType \X BOOLEAN

ASSUME RegistryAssumption ==
  /\ TypeCount \in Nat /\ MaxCalls \in Nat
  /\ DOMAIN Methods = ServiceType /\ DOMAIN ServiceName = ServiceType
  /\ \A t \in ServiceType : Len(Methods[t]) \in Nat
  /\ Linked \subseteq TypeName

VARIABLES
  m_mapCreateService,        \* type name -> class
  phase,                     \* "static" objects, "registering", "on"
  at,                        \* where registerService is: type, stub, method
  m_arrayService,
  m_mapRequest2ServiceInfo,
  MessageQueue,              \* requests of the server: the service they name
  handled                    \* ghost: the service named, and what handled it

vars == <<m_mapCreateService, phase, at, m_arrayService,
          m_mapRequest2ServiceInfo, MessageQueue, handled>>

nullptr == <<0, FALSE>>
With(f, x, v) == [y \in DOMAIN f \cup {x} |-> IF y = x THEN v ELSE f[y]]

Init ==
  /\ m_mapCreateService = << >> /\ phase = "static"
  /\ at = [serviceType |-> 1, stub |-> FALSE, method |-> -1]
  /\ m_arrayService = [t \in 0..TypeCount |-> nullptr]
  /\ m_mapRequest2ServiceInfo = << >>
  /\ MessageQueue = << >> /\ handled = << >>

(* A mistake the type invariant would show; Spec does not use it.          *)
ReadTypeNameVerbatim(name) == name[1]

(* ReadTypeName: a compiler may put the kind of a type before its name.    *)
ReadTypeName(name) ==
  IF Len(name) > 1 /\ name[1] \in {"class", "struct", "enum", "union"}
    THEN name[2] ELSE name[1]

s_mapChar2ServiceType ==
  [C |-> "CLIENT", A |-> "GATESERVER", G |-> "GAMESERVER"]

(* getServiceFromTo: the letters before and after the 2 of a name.         *)
ServerOf(c) ==
  IF c \in DOMAIN s_mapChar2ServiceType THEN s_mapChar2ServiceType[c] ELSE "MIN"
getServiceFromTo(name) ==
  IF Len(name) < 3 THEN [from |-> "MIN", to |-> "MIN"]
  ELSE [from |-> ServerOf(name[1]), to |-> ServerOf(name[3])]

-----------------------------------------------------------------------------
(* Mistakes the properties below would show; Spec uses none of them.       *)

RegisterMethodFromOne ==
  LET t == at.serviceType
  IN  /\ phase = "registering" /\ t \in ServiceType
      /\ at.method \in 0..Len(Methods[t]) - 1
      /\ m_mapRequest2ServiceInfo' = With(m_mapRequest2ServiceInfo,
           Methods[t][at.method + 1],
           [serviceType |-> t, methodIndex |-> at.method + 1,
            server |-> getServiceFromTo(ServiceName[t])])
      /\ at' = [at EXCEPT !.method = @ + 1]
  /\ UNCHANGED <<m_mapCreateService, phase, m_arrayService, MessageQueue,
                 handled>>

AdvanceSkipsStub ==
  at' = [serviceType |-> at.serviceType + 1, stub |-> at.stub, method |-> -1]

TickBeforeRegistered ==
  /\ phase # "static" /\ MessageQueue # << >>
  /\ handled' = Append(handled, [type |-> Head(MessageQueue),
       by |-> IF Head(MessageQueue) \in 0..TypeCount
                THEN m_arrayService[Head(MessageQueue)] ELSE nullptr])
  /\ MessageQueue' = Tail(MessageQueue)
  /\ UNCHANGED <<m_mapCreateService, phase, at, m_arrayService,
                 m_mapRequest2ServiceInfo>>

-----------------------------------------------------------------------------
(* Static objects, before the program's own code runs, in any order        *)

(* RegistService, called by a class's Registor: the first of a name stays. *)
RegistService(class, name) ==
  /\ phase = "static"
  /\ LET type_name == ReadTypeName(name)
     IN  /\ type_name \notin DOMAIN m_mapCreateService
         /\ m_mapCreateService' = With(m_mapCreateService, type_name, class)
  /\ UNCHANGED <<phase, at, m_arrayService, m_mapRequest2ServiceInfo,
                 MessageQueue, handled>>

Registered(class) == \E n \in DOMAIN m_mapCreateService : m_mapCreateService[n] = class

(* Each Registor runs once, with a name as the compiler writes it.         *)
Registor(class) ==
  /\ ~Registered(class)
  /\ \E name \in {<<class>>, <<"class", class>>} : RegistService(class, name)

-----------------------------------------------------------------------------
(* The game thread *)

(* Initialize from Connect on; registerService empties what it will fill.  *)
Initialize ==
  /\ phase = "static" /\ \A class \in Linked : Registered(class)
  /\ phase' = "registering"
  /\ m_arrayService' = [t \in 0..TypeCount |-> nullptr]
  /\ m_mapRequest2ServiceInfo' = << >>
  /\ UNCHANGED <<m_mapCreateService, at, MessageQueue, handled>>

(* The second call of funcParseService, or the next round of the loop.     *)
Advance ==
  at' = [serviceType |-> IF at.stub THEN at.serviceType + 1 ELSE at.serviceType,
         stub |-> ~at.stub, method |-> -1]

(* funcParseService up to its loop: CreateService, and the array.          *)
ParseService ==
  LET type_name == <<at.serviceType, at.stub>>
  IN  /\ phase = "registering" /\ at.serviceType \in ServiceType
      /\ at.method = -1
      /\ IF type_name \in DOMAIN m_mapCreateService
           THEN /\ m_arrayService' = [m_arrayService EXCEPT
                     ![at.serviceType] = m_mapCreateService[type_name]]
                /\ at' = [at EXCEPT !.method = 0]
           ELSE Advance /\ UNCHANGED m_arrayService
  /\ UNCHANGED <<m_mapCreateService, phase, m_mapRequest2ServiceInfo,
                 MessageQueue, handled>>

(* One round of its loop over the methods: a later one overwrites.         *)
RegisterMethod ==
  LET t == at.serviceType
  IN  /\ phase = "registering" /\ t \in ServiceType
      /\ at.method \in 0..Len(Methods[t]) - 1
      /\ m_mapRequest2ServiceInfo' = With(m_mapRequest2ServiceInfo,
           Methods[t][at.method + 1],
           [serviceType |-> t, methodIndex |-> at.method,
            server |-> getServiceFromTo(ServiceName[t])])
      /\ at' = [at EXCEPT !.method = @ + 1]
  /\ UNCHANGED <<m_mapCreateService, phase, m_arrayService, MessageQueue,
                 handled>>

ServiceParsed ==
  /\ phase = "registering" /\ at.serviceType \in ServiceType
  /\ at.method = Len(Methods[at.serviceType])
  /\ Advance
  /\ UNCHANGED <<m_mapCreateService, phase, m_arrayService,
                 m_mapRequest2ServiceInfo, MessageQueue, handled>>

Initialized ==
  /\ phase = "registering" /\ at.serviceType \notin ServiceType
  /\ phase' = "on"
  /\ UNCHANGED <<m_mapCreateService, at, m_arrayService,
                 m_mapRequest2ServiceInfo, MessageQueue, handled>>

(* GetServicePtr: null for a number the enum does not have.                *)
GetServicePtr(t) == IF t \in 0..TypeCount THEN m_arrayService[t] ELSE nullptr

(* TickMessageQueue, which only runs between other work of the thread, and *)
(* serviceHandleRequestMsg's look-up.                                      *)
Tick ==
  /\ phase = "on" /\ MessageQueue # << >>
  /\ handled' = Append(handled, [type |-> Head(MessageQueue),
                                 by |-> GetServicePtr(Head(MessageQueue))])
  /\ MessageQueue' = Tail(MessageQueue)
  /\ UNCHANGED <<m_mapCreateService, phase, at, m_arrayService,
                 m_mapRequest2ServiceInfo>>

-----------------------------------------------------------------------------
(* The server, whose enum may be newer, through the IO thread.             *)
PeerCalls(t) ==
  /\ phase # "static" /\ Len(MessageQueue) + Len(handled) < MaxCalls
  /\ MessageQueue' = Append(MessageQueue, t)
  /\ UNCHANGED <<m_mapCreateService, phase, at, m_arrayService,
                 m_mapRequest2ServiceInfo, handled>>

Next ==
  \/ \E class \in Linked : Registor(class)
  \/ Initialize \/ ParseService \/ RegisterMethod \/ ServiceParsed \/ Initialized
  \/ Tick
  \/ \E t \in (0..TypeCount) \cup {TypeCount + 2} : PeerCalls(t)

Spec == Init /\ [][Next]_vars

-----------------------------------------------------------------------------
(* Properties *)

RegistryTypeOK ==
  /\ DOMAIN m_mapCreateService \subseteq Linked
  /\ \A n \in DOMAIN m_mapCreateService : m_mapCreateService[n] = n
  /\ phase \in {"static", "registering", "on"}
  /\ at.serviceType \in 1..TypeCount + 1 /\ at.stub \in BOOLEAN
  /\ at.method \in Int
  /\ DOMAIN m_arrayService = 0..TypeCount
  /\ \A t \in 0..TypeCount : m_arrayService[t] \in Linked \cup {nullptr}

Classes(t) == {class \in Linked : class[1] = t}

(* A request of the server for a service the program has is never refused  *)
(* with ERR_NO_SERVICE, not even one that came while the services were     *)
(* being registered; nor is one handled by another service's object.       *)
EarlyRequestServed ==
  \A k \in 1..Len(handled) :
    LET h == handled[k]
    IN  IF Classes(h.type) = {} THEN h.by = nullptr ELSE h.by \in Classes(h.type)

(* The request the object of type t takes at index i.                      *)
RequestAt(t, i) == Methods[t][i + 1]

(* Whichever services declare a request and in whatever order the classes  *)
(* registered, what is noted of it agrees: its type has an object, the     *)
(* method of that index takes this very request, and the server it is sent *)
(* to is that service's.                                                   *)
RequestLeadsToDeclarer ==
  \A r \in DOMAIN m_mapRequest2ServiceInfo :
    LET info == m_mapRequest2ServiceInfo[r]
    IN  /\ info.serviceType \in ServiceType
        /\ m_arrayService[info.serviceType] \in Classes(info.serviceType)
        /\ info.methodIndex \in 0..Len(Methods[info.serviceType]) - 1
        /\ RequestAt(info.serviceType, info.methodIndex) = r
        /\ info.server = getServiceFromTo(ServiceName[info.serviceType])

(* Once Initialize is over, no request of a service in the program is      *)
(* unknown, so Send drops none of them.                                    *)
EveryRequestKnown ==
  phase = "on" =>
    \A class \in Linked :
      \A j \in 1..Len(Methods[class[1]]) :
        Methods[class[1]][j] \in DOMAIN m_mapRequest2ServiceInfo
=============================================================================
