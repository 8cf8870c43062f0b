--------------------------- MODULE RegistryProofs ---------------------------
(***************************************************************************)
(* What ServiceRegistry promises, for any enum, any services and any order *)
(* of the static objects.  The induction is on registerService's place:    *)
(* what is behind it has an object and all its requests noted; that what   *)
(* is noted agrees, and that a request is dispatched only when everything  *)
(* is behind, follow.                                                      *)
(***************************************************************************)
EXTENDS ServiceRegistry, TLAPS

(* The class of the current call of funcParseService.                      *)
Current == <<at.serviceType, at.stub>>

(* registerService is done with this class.                                *)
Behind(class) ==
  \/ phase = "on"
  \/ /\ phase = "registering"
     /\ \/ class[1] < at.serviceType
        \/ class[1] = at.serviceType /\ at.stub = TRUE /\ class[2] = FALSE

(* It has made this class's object.                                        *)
Made(class) ==
  Behind(class) \/ (phase = "registering" /\ class = Current /\ at.method # -1)

Factory ==
  /\ DOMAIN m_mapCreateService \subseteq Linked
  /\ \A n \in DOMAIN m_mapCreateService : m_mapCreateService[n] = n
  /\ phase # "static" => \A class \in Linked : class \in DOMAIN m_mapCreateService

Place ==
  /\ phase \in {"static", "registering", "on"}
  /\ at \in [serviceType : 1..TypeCount + 1, stub : BOOLEAN, method : Int]
  /\ phase = "static" =>
       at = [serviceType |-> 1, stub |-> FALSE, method |-> -1]
  /\ phase = "on" => at.serviceType = TypeCount + 1
  /\ at.method # -1 =>
       /\ Current \in Linked /\ at.serviceType \in ServiceType
       /\ at.method \in 0..Len(Methods[at.serviceType])

Objects ==
  /\ m_arrayService \in [0..TypeCount -> Linked \cup {nullptr}]
  /\ \A t \in 0..TypeCount :
       m_arrayService[t] # nullptr => m_arrayService[t] \in Classes(t)
  /\ \A class \in Linked :
       Made(class) => m_arrayService[class[1]] \in Classes(class[1])

Noted(class, n) ==
  \A j \in 1..n : Methods[class[1]][j] \in DOMAIN m_mapRequest2ServiceInfo

Requests ==
  \A class \in Linked :
    /\ Behind(class) => Noted(class, Len(Methods[class[1]]))
    /\ phase = "registering" /\ class = Current => Noted(class, at.method)

RegistryInv ==
  /\ Factory /\ Place /\ Objects /\ Requests
  /\ RequestLeadsToDeclarer /\ EarlyRequestServed
  /\ handled \in Seq([type : Int, by : Linked \cup {nullptr}])
  /\ MessageQueue \in Seq(Int)

tableVars == <<m_arrayService, m_mapRequest2ServiceInfo>>

LEMMA ClassFacts ==
  /\ nullptr \notin Linked
  /\ \A class \in Linked :
       /\ class[1] \in ServiceType /\ class[2] \in BOOLEAN
       /\ class = <<class[1], class[2]>>
<1>1. Linked \subseteq TypeName /\ TypeCount \in Nat
  BY RegistryAssumption
<1> QED BY <1>1 DEF TypeName, ServiceType, nullptr

LEMMA RegistryInit == Init => RegistryInv
<1> SUFFICES ASSUME Init PROVE RegistryInv
  OBVIOUS
<1> USE DEF Init
<1>1. Factory
  BY DEF Factory
<1>2. Place
  <2>1. TypeCount \in Nat
    BY RegistryAssumption
  <2> QED BY <2>1 DEF Place
<1>3. Objects
  BY DEF Objects, Made, Behind
<1>4. Requests
  BY DEF Requests, Behind
<1>5. RequestLeadsToDeclarer /\ EarlyRequestServed
  BY DEF RequestLeadsToDeclarer, EarlyRequestServed
<1> QED BY <1>1, <1>2, <1>3, <1>4, <1>5 DEF RegistryInv

(* Advance leaves the current call, and nothing else, behind.              *)
LEMMA AfterAdvance ==
  ASSUME Place, phase = "registering", phase' = phase,
         at.serviceType \in ServiceType, Advance,
         NEW class \in Linked, Behind(class)'
  PROVE  Behind(class) \/ class = Current
<1> DEFINE s == at.serviceType
<1>1. /\ s \in Int /\ at.stub \in BOOLEAN
      /\ class[1] \in Int /\ class[2] \in BOOLEAN
      /\ class = <<class[1], class[2]>>
  BY ClassFacts DEF Place, ServiceType
<1>2. CASE at.stub = TRUE
  <2>1. at'.serviceType = s + 1 /\ at'.stub = FALSE
    BY <1>2 DEF Advance
  <2>2. class[1] < s + 1
    BY <1>1, <2>1 DEF Behind
  <2>3. CASE class[1] = s /\ class[2] = TRUE
    BY <1>1, <1>2, <2>3 DEF Current
  <2>4. CASE class[1] < s \/ class[2] = FALSE
    <3>1. class[1] < s \/ class[1] = s
      BY <1>1, <2>2
    <3> QED BY <1>2, <2>4, <3>1 DEF Behind
  <2>5. class[1] < s \/ class[1] = s
    BY <1>1, <2>2
  <2> QED BY <1>1, <2>3, <2>4, <2>5
<1>3. CASE at.stub = FALSE
  <2>1. at'.serviceType = s /\ at'.stub = TRUE
    BY <1>3 DEF Advance
  <2>2. class[1] < s \/ (class[1] = s /\ class[2] = FALSE)
    BY <2>1 DEF Behind
  <2>3. CASE class[1] < s
    BY <2>3 DEF Behind
  <2>4. CASE class[1] = s /\ class[2] = FALSE
    BY <1>1, <1>3, <2>4 DEF Current
  <2> QED BY <2>2, <2>3, <2>4
<1> QED BY <1>1, <1>2, <1>3

LEMMA AdvancePlace ==
  ASSUME Place, phase = "registering", phase' = phase,
         at.serviceType \in ServiceType, Advance
  PROVE  Place' /\ at'.method = -1
<1>1. at.serviceType \in 1..TypeCount /\ at.stub \in BOOLEAN /\ TypeCount \in Nat
  BY RegistryAssumption DEF Place, ServiceType
<1>2. /\ at' = [serviceType |-> at'.serviceType, stub |-> at'.stub, method |-> -1]
      /\ at'.serviceType \in {at.serviceType, at.serviceType + 1}
  BY DEF Advance
<1>3. at'.stub \in BOOLEAN
  BY <1>1 DEF Advance
<1>4. at' \in [serviceType : 1..TypeCount + 1, stub : BOOLEAN, method : Int]
  <2>1. at'.serviceType \in 1..TypeCount + 1
    BY <1>1, <1>2
  <2> QED BY <1>2, <1>3, <2>1
<1> QED BY <1>2, <1>4 DEF Place

(* A request's note and object stay right while neither table changes.     *)
LEMMA DeclarerKept ==
  ASSUME RequestLeadsToDeclarer, UNCHANGED tableVars
  PROVE  RequestLeadsToDeclarer'
BY DEF RequestLeadsToDeclarer, tableVars

LEMMA RegistorStep ==
  ASSUME RegistryInv, NEW class \in Linked, Registor(class)
  PROVE  RegistryInv'
<1>1. PICK name \in {<<class>>, <<"class", class>>} : RegistService(class, name)
  BY DEF Registor
<1>2. ReadTypeName(name) = class
  <2>1. CASE name = <<class>>
    BY <2>1 DEF ReadTypeName
  <2>2. CASE name = <<"class", class>>
    BY <2>2 DEF ReadTypeName
  <2> QED BY <2>1, <2>2
<1>3. /\ m_mapCreateService' = With(m_mapCreateService, class, class)
      /\ phase = "static"
      /\ UNCHANGED <<phase, at, tableVars, MessageQueue, handled>>
  BY <1>1, <1>2 DEF RegistService, tableVars
<1>4. Factory'
  BY <1>3 DEF RegistryInv, Factory, With
<1>5. Place' /\ Objects' /\ Requests'
  BY <1>3 DEF RegistryInv, Place, Objects, Requests, Made, Behind, Current,
              Noted, tableVars
<1>6. RequestLeadsToDeclarer' /\ EarlyRequestServed'
  BY <1>3, DeclarerKept DEF RegistryInv, EarlyRequestServed
<1> QED BY <1>3, <1>4, <1>5, <1>6 DEF RegistryInv

LEMMA InitializeStep == ASSUME RegistryInv, Initialize PROVE RegistryInv'
<1>1. /\ phase = "static" /\ phase' = "registering"
      /\ m_arrayService' = [t \in 0..TypeCount |-> nullptr]
      /\ m_mapRequest2ServiceInfo' = << >>
      /\ UNCHANGED <<m_mapCreateService, at, MessageQueue, handled>>
      /\ at = [serviceType |-> 1, stub |-> FALSE, method |-> -1]
  BY DEF Initialize, RegistryInv, Place
<1>2. Factory'
  <2>1. \A class \in Linked : class \in DOMAIN m_mapCreateService
    <3> SUFFICES ASSUME NEW class \in Linked
                 PROVE  class \in DOMAIN m_mapCreateService
      OBVIOUS
    <3>1. PICK n \in DOMAIN m_mapCreateService : m_mapCreateService[n] = class
      BY DEF Initialize, Registered
    <3> QED BY <3>1 DEF RegistryInv, Factory
  <2> QED BY <1>1, <2>1 DEF RegistryInv, Factory
<1>3. Place'
  BY <1>1 DEF RegistryInv, Place
<1>4. \A class \in Linked : ~Behind(class)' /\ ~Made(class)'
  <2>1. \A class \in Linked : class[1] \in Int /\ class[1] >= 1
    BY ClassFacts DEF ServiceType
  <2> QED BY <1>1, <2>1 DEF Behind, Made
<1>5. Objects'
  BY <1>1, <1>4 DEF Objects
<1>6. Requests'
  BY <1>1, <1>4 DEF Requests, Noted
<1>7. RequestLeadsToDeclarer'
  BY <1>1 DEF RequestLeadsToDeclarer
<1>8. EarlyRequestServed'
  BY <1>1 DEF RegistryInv, EarlyRequestServed
<1> QED BY <1>1, <1>2, <1>3, <1>5, <1>6, <1>7, <1>8 DEF RegistryInv

LEMMA ParseServiceStep == ASSUME RegistryInv, ParseService PROVE RegistryInv'
<1> USE DEF RegistryInv
<1> DEFINE t == at.serviceType
<1>1. /\ phase = "registering" /\ t \in ServiceType /\ at.method = -1
      /\ UNCHANGED <<m_mapCreateService, phase, m_mapRequest2ServiceInfo,
                     MessageQueue, handled>>
  BY DEF ParseService
<1>2. Factory' /\ EarlyRequestServed'
  BY <1>1 DEF Factory, EarlyRequestServed
<1>3. CASE Current \in DOMAIN m_mapCreateService
  <2>1. /\ m_arrayService' = [m_arrayService EXCEPT ![t] = Current]
        /\ at' = [at EXCEPT !.method = 0]
        /\ Current \in Linked
    BY <1>3 DEF ParseService, Factory, Current
  <2>2. /\ at'.serviceType = t /\ at'.stub = at.stub /\ at'.method = 0
        /\ Current' = Current
    BY <2>1 DEF Place, Current
  <2>3. Len(Methods[t]) \in Nat
    BY <1>1, RegistryAssumption
  <2>4. Place'
    BY <1>1, <2>1, <2>2, <2>3 DEF Place
  <2>5. Current \in Classes(t) /\ t \in 0..TypeCount
    BY <1>1, <2>1, RegistryAssumption DEF Classes, Current, ServiceType
  <2>6. \A class \in Linked : Made(class)' => Behind(class) \/ class = Current
    BY <1>1, <2>2 DEF Made, Behind
  <2>7. \A u \in 0..TypeCount :
          m_arrayService'[u] = IF u = t THEN Current ELSE m_arrayService[u]
    BY <2>1 DEF Objects
  <2>8. Objects'
    <3>1. m_arrayService' \in [0..TypeCount -> Linked \cup {nullptr}]
      BY <2>1 DEF Objects
    <3>2. \A u \in 0..TypeCount :
            m_arrayService'[u] # nullptr => m_arrayService'[u] \in Classes(u)
      BY <2>5, <2>7 DEF Objects
    <3>3. ASSUME NEW class \in Linked, Made(class)'
          PROVE  m_arrayService'[class[1]] \in Classes(class[1])
      <4>1. class[1] \in 0..TypeCount
        BY ClassFacts DEF ServiceType
      <4>2. CASE class[1] = t
        BY <2>5, <2>7, <4>1, <4>2
      <4>3. CASE class[1] # t
        <5>1. class # Current
          BY <4>3 DEF Current
        <5>2. Made(class)
          BY <2>6, <3>3, <5>1 DEF Made
        <5> QED BY <2>7, <4>1, <4>3, <5>2 DEF Objects
      <4> QED BY <4>2, <4>3
    <3> QED BY <3>1, <3>2, <3>3 DEF Objects
  <2>9. Requests'
    <3> SUFFICES ASSUME NEW class \in Linked
                 PROVE  /\ Behind(class)' => Noted(class, Len(Methods[class[1]]))
                        /\ (phase = "registering" /\ class = Current)' =>
                             Noted(class, 0)
      BY <1>1, <2>2 DEF Requests, Noted
    <3>1. Behind(class)' => Behind(class)
      BY <1>1, <2>2 DEF Behind
    <3> QED BY <3>1 DEF Requests, Noted
  <2>10. RequestLeadsToDeclarer'
    <3> SUFFICES ASSUME NEW r \in DOMAIN m_mapRequest2ServiceInfo,
                        NEW u, u = m_mapRequest2ServiceInfo[r].serviceType
                 PROVE  m_arrayService'[u] \in Classes(u)
      BY <1>1 DEF RequestLeadsToDeclarer
    <3>1. m_arrayService[u] \in Classes(u) /\ u \in 0..TypeCount
      BY DEF RequestLeadsToDeclarer, ServiceType
    <3> QED BY <2>5, <2>7, <3>1
  <2> QED BY <1>1, <1>2, <2>4, <2>8, <2>9, <2>10
<1>4. CASE Current \notin DOMAIN m_mapCreateService
  <2>1. Advance /\ UNCHANGED tableVars
    BY <1>1, <1>4 DEF ParseService, Current, tableVars
  <2>2. Place' /\ at'.method = -1
    BY <1>1, <2>1, AdvancePlace
  <2>3. Current \notin Linked
    BY <1>1, <1>4 DEF Factory
  <2>4. \A class \in Linked : Behind(class)' => Behind(class)
    BY <1>1, <2>1, <2>3, AfterAdvance
  <2>5. Objects'
    BY <2>1, <2>2, <2>4 DEF Objects, Made, tableVars
  <2>6. Requests'
    BY <2>1, <2>2, <2>4 DEF Requests, Noted, tableVars
  <2> QED BY <1>1, <1>2, <2>1, <2>2, <2>5, <2>6, DeclarerKept
<1> QED BY <1>3, <1>4

LEMMA RegisterMethodStep == ASSUME RegistryInv, RegisterMethod PROVE RegistryInv'
<1> USE DEF RegistryInv
<1> DEFINE t == at.serviceType
           i == at.method
           r0 == Methods[t][i + 1]
           info0 == [serviceType |-> t, methodIndex |-> i,
                     server |-> getServiceFromTo(ServiceName[t])]
<1>1. /\ phase = "registering" /\ t \in ServiceType
      /\ i \in 0..Len(Methods[t]) - 1 /\ Len(Methods[t]) \in Nat
      /\ m_mapRequest2ServiceInfo' = With(m_mapRequest2ServiceInfo, r0, info0)
      /\ at' = [at EXCEPT !.method = i + 1]
      /\ UNCHANGED <<m_mapCreateService, phase, m_arrayService, MessageQueue,
                     handled>>
  BY RegistryAssumption DEF RegisterMethod
<1>2. /\ at'.serviceType = t /\ at'.stub = at.stub /\ at'.method = i + 1
      /\ Current' = Current /\ Current \in Linked /\ i # -1
  BY <1>1 DEF Place, Current
<1>3. Factory' /\ EarlyRequestServed'
  BY <1>1 DEF Factory, EarlyRequestServed
<1>4. Place'
  <2>1. at' = [serviceType |-> t, stub |-> at.stub, method |-> i + 1]
    BY <1>1 DEF Place
  <2>2. i + 1 \in 0..Len(Methods[t])
    BY <1>1
  <2>3. t \in 1..TypeCount + 1 /\ at.stub \in BOOLEAN
    BY DEF Place
  <2>4. at' \in [serviceType : 1..TypeCount + 1, stub : BOOLEAN, method : Int]
    BY <2>1, <2>2, <2>3
  <2> QED BY <1>1, <1>2, <2>2, <2>4 DEF Place
<1>5. \A class \in Linked : (Behind(class)' => Behind(class))
                            /\ (Made(class)' => Made(class))
  BY <1>1, <1>2 DEF Behind, Made
<1>6. Objects'
  BY <1>1, <1>5 DEF Objects
<1>7. /\ DOMAIN m_mapRequest2ServiceInfo' = DOMAIN m_mapRequest2ServiceInfo \cup {r0}
      /\ \A r \in DOMAIN m_mapRequest2ServiceInfo' :
           m_mapRequest2ServiceInfo'[r]
             = IF r = r0 THEN info0 ELSE m_mapRequest2ServiceInfo[r]
  BY <1>1 DEF With
<1>8. Requests'
  <2> USE DEF Requests
  <2> TAKE class \in Linked
  <2>1. ASSUME Behind(class)' PROVE Noted(class, Len(Methods[class[1]]))'
    BY <1>5, <1>7, <2>1 DEF Requests, Noted
  <2>2. ASSUME class = Current
        PROVE  \A j \in 1..i + 1 :
                 Methods[class[1]][j] \in DOMAIN m_mapRequest2ServiceInfo'
    <3>1. Noted(class, i) /\ class[1] = t
      BY <1>1, <2>2 DEF Requests, Current
    <3> TAKE j \in 1..i + 1
    <3>2. j \in 1..i \/ j = i + 1
      BY <1>1
    <3>3. CASE j = i + 1
      BY <1>7, <3>1, <3>3
    <3>4. CASE j \in 1..i
      BY <1>7, <3>1, <3>4 DEF Noted
    <3> QED BY <3>2, <3>3, <3>4
  <2>3. (phase = "registering" /\ class = Current)' => Noted(class, at.method)'
    BY <1>2, <2>2 DEF Noted
  <2> QED BY <2>1, <2>3
<1>9. RequestLeadsToDeclarer'
  <2>1. m_arrayService[t] \in Classes(t)
    <3>1. Made(Current) /\ Current[1] = t
      BY <1>1, <1>2 DEF Made, Current
    <3> QED BY <1>2, <3>1 DEF Objects
  <2>2. info0.serviceType = t /\ info0.methodIndex = i
        /\ info0.server = getServiceFromTo(ServiceName[t])
    OBVIOUS
  <2>3. RequestAt(t, i) = r0
    BY DEF RequestAt
  <2> SUFFICES ASSUME NEW r \in DOMAIN m_mapRequest2ServiceInfo',
                      NEW info, info = m_mapRequest2ServiceInfo'[r]
               PROVE  /\ info.serviceType \in ServiceType
                      /\ m_arrayService[info.serviceType] \in Classes(info.serviceType)
                      /\ info.methodIndex \in 0..Len(Methods[info.serviceType]) - 1
                      /\ RequestAt(info.serviceType, info.methodIndex) = r
                      /\ info.server = getServiceFromTo(ServiceName[info.serviceType])
    BY <1>1 DEF RequestLeadsToDeclarer
  <2>4. CASE r = r0
    <3>1. info = info0
      BY <1>7, <2>4
    <3> HIDE DEF info0, r0
    <3> QED BY <1>1, <2>1, <2>2, <2>3, <2>4, <3>1
  <2>5. CASE r # r0
    <3>1. r \in DOMAIN m_mapRequest2ServiceInfo /\ info = m_mapRequest2ServiceInfo[r]
      BY <1>7, <2>5
    <3> QED BY <3>1 DEF RequestLeadsToDeclarer
  <2> QED BY <2>4, <2>5
<1> QED BY <1>1, <1>3, <1>4, <1>6, <1>8, <1>9

LEMMA ServiceParsedStep == ASSUME RegistryInv, ServiceParsed PROVE RegistryInv'
<1> USE DEF RegistryInv
<1> DEFINE t == at.serviceType
<1>1. /\ phase = "registering" /\ t \in ServiceType
      /\ at.method = Len(Methods[t]) /\ Advance /\ Len(Methods[t]) \in Nat
      /\ UNCHANGED <<m_mapCreateService, phase, tableVars, MessageQueue, handled>>
  BY RegistryAssumption DEF ServiceParsed, tableVars
<1>2. Factory' /\ EarlyRequestServed' /\ RequestLeadsToDeclarer'
  BY <1>1, DeclarerKept DEF Factory, EarlyRequestServed
<1>3. Place' /\ at'.method = -1
  BY <1>1, AdvancePlace
<1>4. \A class \in Linked : Behind(class)' => Behind(class) \/ class = Current
  BY <1>1, AfterAdvance
<1>5. Objects'
  <2>1. \A class \in Linked : Made(class)' => Made(class)
    BY <1>1, <1>3, <1>4 DEF Made
  <2> QED BY <1>1, <2>1 DEF Objects, tableVars
<1>6. Requests'
  <2> SUFFICES ASSUME NEW class \in Linked
               PROVE  /\ Behind(class)' => Noted(class, Len(Methods[class[1]]))
                      /\ Noted(class, -1)
    BY <1>1, <1>3 DEF Requests, Noted, tableVars
  <2>1. class = Current => Noted(class, Len(Methods[class[1]]))
    BY <1>1 DEF Requests, Current
  <2> QED BY <1>4, <2>1 DEF Requests, Noted
<1> QED BY <1>1, <1>2, <1>3, <1>5, <1>6

LEMMA InitializedStep == ASSUME RegistryInv, Initialized PROVE RegistryInv'
<1> USE DEF RegistryInv
<1>1. /\ phase = "registering" /\ phase' = "on"
      /\ at.serviceType \notin ServiceType
      /\ UNCHANGED <<m_mapCreateService, at, tableVars, MessageQueue, handled>>
  BY DEF Initialized, tableVars
<1>2. at.serviceType = TypeCount + 1 /\ TypeCount \in Nat
  BY <1>1, RegistryAssumption DEF Place, ServiceType
<1>3. \A class \in Linked : Behind(class)
  <2>1. \A class \in Linked : class[1] \in Int /\ class[1] < TypeCount + 1
    BY <1>2, ClassFacts DEF ServiceType
  <2> QED BY <1>1, <1>2, <2>1 DEF Behind
<1>4. Factory' /\ EarlyRequestServed' /\ RequestLeadsToDeclarer'
  BY <1>1, DeclarerKept DEF Factory, EarlyRequestServed
<1>5. Place'
  BY <1>1, <1>2 DEF Place, Current
<1>6. Objects'
  BY <1>1, <1>3 DEF Objects, Made, tableVars
<1>7. Requests'
  BY <1>1, <1>3 DEF Requests, Noted, tableVars
<1> QED BY <1>1, <1>4, <1>5, <1>6, <1>7

LEMMA TickStep == ASSUME RegistryInv, Tick PROVE RegistryInv'
<1> USE DEF RegistryInv
<1> DEFINE q == Head(MessageQueue)
           h0 == [type |-> q, by |-> GetServicePtr(q)]
<1>1. /\ phase = "on" /\ MessageQueue # << >>
      /\ handled' = Append(handled, h0) /\ MessageQueue' = Tail(MessageQueue)
      /\ UNCHANGED <<m_mapCreateService, phase, at, tableVars>>
  BY DEF Tick, tableVars
<1>2. Factory' /\ Place' /\ Objects' /\ Requests' /\ RequestLeadsToDeclarer'
  BY <1>1, DeclarerKept DEF Factory, Place, Objects, Requests, Made, Behind,
                            Current, Noted, tableVars
<1>3. q \in Int /\ MessageQueue' \in Seq(Int)
  BY <1>1
<1>4. GetServicePtr(q) \in Linked \cup {nullptr}
  BY DEF GetServicePtr, Objects
<1>5. IF Classes(q) = {} THEN GetServicePtr(q) = nullptr
      ELSE GetServicePtr(q) \in Classes(q)
  <2>1. CASE Classes(q) = {}
    BY <2>1 DEF GetServicePtr, Objects
  <2>2. CASE Classes(q) # {}
    <3>1. PICK class \in Linked : class[1] = q
      BY <2>2 DEF Classes
    <3>2. m_arrayService[q] \in Classes(q)
      BY <1>1, <3>1 DEF Objects, Made, Behind
    <3>3. q \in 0..TypeCount
      BY <3>1, ClassFacts DEF ServiceType
    <3> QED BY <2>2, <3>2, <3>3 DEF GetServicePtr
  <2> QED BY <2>1, <2>2
<1>6. handled' \in Seq([type : Int, by : Linked \cup {nullptr}])
  BY <1>1, <1>3, <1>4
<1>7. EarlyRequestServed'
  <2> SUFFICES ASSUME NEW k \in 1..Len(handled')
               PROVE  LET h == handled'[k]
                      IN  IF Classes(h.type) = {} THEN h.by = nullptr
                          ELSE h.by \in Classes(h.type)
    BY DEF EarlyRequestServed
  <2>1. \/ k \in 1..Len(handled) /\ handled'[k] = handled[k]
        \/ handled'[k] = h0
    BY <1>1, <1>3, <1>4
  <2>2. h0.type = q /\ h0.by = GetServicePtr(q)
    OBVIOUS
  <2>3. CASE handled'[k] = h0
    <3> HIDE DEF q, h0
    <3> QED BY <1>5, <2>2, <2>3
  <2>4. CASE k \in 1..Len(handled) /\ handled'[k] = handled[k]
    BY <2>4 DEF EarlyRequestServed
  <2> QED BY <2>1, <2>3, <2>4
<1> QED BY <1>2, <1>3, <1>6, <1>7

LEMMA PeerCallsStep ==
  ASSUME RegistryInv, NEW t \in Int, PeerCalls(t) PROVE RegistryInv'
<1> USE DEF RegistryInv
<1>1. /\ MessageQueue' = Append(MessageQueue, t)
      /\ UNCHANGED <<m_mapCreateService, phase, at, tableVars, handled>>
  BY DEF PeerCalls, tableVars
<1>2. Factory' /\ Place' /\ Objects' /\ Requests' /\ RequestLeadsToDeclarer'
  BY <1>1, DeclarerKept DEF Factory, Place, Objects, Requests, Made, Behind,
                            Current, Noted, tableVars
<1>3. EarlyRequestServed'
  BY <1>1 DEF EarlyRequestServed
<1>4. MessageQueue' \in Seq(Int)
  BY <1>1
<1> QED BY <1>1, <1>2, <1>3, <1>4

LEMMA RegistryStutter == ASSUME RegistryInv, UNCHANGED vars PROVE RegistryInv'
<1>1. UNCHANGED <<m_mapCreateService, phase, at, tableVars, MessageQueue, handled>>
  BY DEF vars, tableVars
<1> QED BY <1>1, DeclarerKept
           DEF RegistryInv, Factory, Place, Objects, Requests, Made, Behind,
               Current, Noted, EarlyRequestServed, tableVars

THEOREM RegistryInvariant == Spec => []RegistryInv
<1>1. RegistryInv /\ [Next]_vars => RegistryInv'
  <2> SUFFICES ASSUME RegistryInv, [Next]_vars PROVE RegistryInv'
    OBVIOUS
  <2>1. ASSUME NEW t \in (0..TypeCount) \cup {TypeCount + 2}, PeerCalls(t)
        PROVE  RegistryInv'
    <3>1. t \in Int
      BY RegistryAssumption
    <3> QED BY <2>1, <3>1, PeerCallsStep
  <2> QED BY <2>1, RegistorStep, InitializeStep, ParseServiceStep,
             RegisterMethodStep, ServiceParsedStep, InitializedStep, TickStep,
             RegistryStutter DEF Next
<1> QED BY <1>1, RegistryInit, PTL DEF Spec

(* Types, with the map of the factory from each name to its own class.     *)
THEOREM RegistryTypeOKThm == Spec => []RegistryTypeOK
<1>1. RegistryInv => RegistryTypeOK
  BY DEF RegistryInv, RegistryTypeOK, Factory, Place, Objects
<1> QED BY <1>1, RegistryInvariant, PTL

(* No request of the server is refused for want of a service that is       *)
(* there, or handled by another's object, though the connection is open    *)
(* before any service is registered.                                       *)
THEOREM EarlyRequestThm == Spec => []EarlyRequestServed
<1>1. RegistryInv => EarlyRequestServed
  BY DEF RegistryInv
<1> QED BY <1>1, RegistryInvariant, PTL

(* What is noted of a request agrees with the object it leads to, whichever*)
(* services share the request and whatever the static objects' order.      *)
THEOREM DeclarerThm == Spec => []RequestLeadsToDeclarer
<1>1. RegistryInv => RequestLeadsToDeclarer
  BY DEF RegistryInv
<1> QED BY <1>1, RegistryInvariant, PTL

(* After Initialize, every request of every linked service is known.       *)
THEOREM EveryRequestKnownThm == Spec => []EveryRequestKnown
<1>1. RegistryInv => EveryRequestKnown
  BY DEF RegistryInv, EveryRequestKnown, Requests, Behind, Noted
<1> QED BY <1>1, RegistryInvariant, PTL
=============================================================================
