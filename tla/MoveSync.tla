------------------------------ MODULE MoveSync ------------------------------
(***************************************************************************)
(* AMyPlayerController (System/MyPlayerController.cpp) tells the backend   *)
(* how the player moves: each tick compares the rotation, the location and *)
(* the speed with the last ones synchronised, and sends a MoveState when   *)
(* they differ.                                                            *)
(*                                                                         *)
(* A location is one coordinate, in whole centimetres, for the fields of   *)
(* Pos are defined outside the repository; a yaw is in units half as large *)
(* as the message's, so that the truncation shows.  What Send gives to a   *)
(* connection arrives in order or not at all (ByteSession), so the backend *)
(* is at, or on its way to, the last state given.  The guid, for now the   *)
(* account, is left out: no property tells one from another.               *)
(***************************************************************************)
EXTENDS Integers

CONSTANTS Yaw, Pitch, Location, Speed,
          Modulus            \* DWORDs are below it: 2^32

ASSUME MoveAssumption ==
  /\ Yaw \subseteq Int /\ 0 \in Yaw /\ 0 \in Pitch
  /\ Location \subseteq Int /\ 0 \in Location
  /\ Modulus \in Nat \ {0}

Rotation == [yaw : Yaw, pitch : Pitch]
ZeroRotation == [yaw |-> 0, pitch |-> 0]

VARIABLES
  now,                   \* what the engine answers: rotation, location, speed
  character,             \* and whether there is a character that moves
  m_lastSyncRotation, m_lastSyncLocation, m_lastSyncSpeed,
  connected,             \* UMgrMessage is
  given                  \* the last state given to this connection, at most one

VARIABLES                \* ghosts
  ticked,                \* nothing has moved since the last tick
  behind                 \* a state held as synchronised was never given

lastVars == <<m_lastSyncRotation, m_lastSyncLocation, m_lastSyncSpeed>>
vars == <<now, character, lastVars, connected, given, ticked, behind>>

Views == [rotation : Rotation, location : Location, speed : Speed]
MoveStates == [rotate : 0..Modulus - 1, pos : Location, speed : Speed]

(* A controller is created with its last state zero.                       *)
Init ==
  /\ now \in Views /\ character \in BOOLEAN
  /\ m_lastSyncRotation = ZeroRotation
  /\ m_lastSyncLocation = 0 /\ m_lastSyncSpeed = 0
  /\ connected = FALSE /\ given = {}
  /\ ticked = FALSE /\ behind = TRUE

-----------------------------------------------------------------------------
DistSquared(a, b) == (a - b) * (a - b)

(* FRotator2Rotate: the cast truncates, and is undefined of a number below *)
(* 0: it wraps or saturates, by the processor.                             *)
FRotator2Rotate(rotation) ==
  LET thousandths == IF rotation.yaw >= 0 THEN rotation.yaw \div 2
                     ELSE -((-rotation.yaw) \div 2)
  IN  IF thousandths >= 0 THEN {thousandths % Modulus}
      ELSE {thousandths % Modulus, 0}

isNeedSyncMove ==
  \/ now.rotation # m_lastSyncRotation
  \/ DistSquared(m_lastSyncLocation, now.location) > 1
  \/ character /\ now.speed # m_lastSyncSpeed

-----------------------------------------------------------------------------
(* A mistake the properties below would show; Spec does not use it.        *)

SendsTheSpeedBefore ==
  /\ m_lastSyncRotation' = now.rotation
  /\ m_lastSyncLocation' = now.location
  /\ m_lastSyncSpeed' = IF character THEN now.speed ELSE m_lastSyncSpeed
  /\ \E rotate \in FRotator2Rotate(now.rotation) :
       given' = IF character /\ connected
                  THEN {[rotate |-> rotate, pos |-> now.location,
                         speed |-> m_lastSyncSpeed]}
                  ELSE given
  /\ behind' = ~(character /\ connected)

-----------------------------------------------------------------------------
(* syncMove holds the rotation and the location as synchronised before it  *)
(* knows of a character, and the speed after; Send is silent when there is *)
(* no connection.                                                          *)
syncMove ==
  /\ m_lastSyncRotation' = now.rotation
  /\ m_lastSyncLocation' = now.location
  /\ m_lastSyncSpeed' = IF character THEN now.speed ELSE m_lastSyncSpeed
  /\ \E rotate \in FRotator2Rotate(now.rotation) :
       given' = IF character /\ connected
                  THEN {[rotate |-> rotate, pos |-> now.location,
                         speed |-> now.speed]}
                  ELSE given
  /\ behind' = ~(character /\ connected)

(* A mistake: nothing is stored before the returns.                        *)
TickStoresForCharacterOnly ==
  /\ IF isNeedSyncMove /\ character THEN syncMove
     ELSE UNCHANGED <<lastVars, given, behind>>
  /\ ticked' = TRUE
  /\ UNCHANGED <<now, character, connected>>

(* A mistake: each tick compares with the tick before, not with what was   *)
(* sent last.                                                              *)
TickComparesWithTickBefore ==
  /\ IF isNeedSyncMove THEN syncMove
     ELSE /\ m_lastSyncLocation' = now.location
          /\ UNCHANGED <<m_lastSyncRotation, m_lastSyncSpeed, given, behind>>
  /\ ticked' = TRUE
  /\ UNCHANGED <<now, character, connected>>

PlayerTick ==
  /\ IF isNeedSyncMove THEN syncMove
     ELSE UNCHANGED <<lastVars, given, behind>>
  /\ ticked' = TRUE
  /\ UNCHANGED <<now, character, connected>>

(* The engine, any number of times between two ticks: the player turns,    *)
(* walks, changes gait, loses its character or possesses another.          *)
Move ==
  /\ \/ \E rotation \in Rotation : now' = [now EXCEPT !.rotation = rotation]
     \/ \E location \in Location : now' = [now EXCEPT !.location = location]
     \/ \E speed \in Speed : now' = [now EXCEPT !.speed = speed]
     \/ now' = now
  /\ character' \in BOOLEAN
  /\ ticked' = FALSE
  /\ UNCHANGED <<lastVars, connected, given, behind>>

(* A level is loaded, with a controller of its own; Move follows.          *)
NewController ==
  /\ m_lastSyncRotation' = ZeroRotation
  /\ m_lastSyncLocation' = 0 /\ m_lastSyncSpeed' = 0
  /\ ticked' = FALSE /\ behind' = TRUE
  /\ UNCHANGED <<now, character, connected, given>>

(* The backend of a new connection has had nothing.                        *)
Connects ==
  /\ ~connected /\ connected' = TRUE
  /\ UNCHANGED <<now, character, lastVars, given, ticked, behind>>

ConnectionEnds ==
  /\ connected /\ connected' = FALSE
  /\ given' = {} /\ behind' = TRUE
  /\ UNCHANGED <<now, character, lastVars, ticked>>

Next ==
  \/ PlayerTick \/ Move \/ NewController
  \/ Connects \/ ConnectionEnds

Spec == Init /\ [][Next]_vars

-----------------------------------------------------------------------------
(* Properties *)

(* Types; and what is given is given to a connection.                      *)
MoveTypeOK ==
  /\ now \in Views /\ character \in BOOLEAN
  /\ m_lastSyncRotation \in Rotation /\ m_lastSyncLocation \in Location
  /\ m_lastSyncSpeed \in Speed \cup {0}
  /\ connected \in BOOLEAN
  /\ given \subseteq MoveStates /\ (given # {} => connected)
  /\ ticked \in BOOLEAN /\ behind \in BOOLEAN

(* A tick settles the matter: until something moves no tick sends again,   *)
(* with a character or without one, though syncMove stores the speed after *)
(* the returns that may skip it.                                           *)
TickSettles == ticked => ~isNeedSyncMove

(* The state the controller compares with is the one the backend was last  *)
(* given, through every order of turns, walks, ticks and levels, unless a  *)
(* tick that had to send could not, or a controller or connection is new.  *)
HeldIsGiven ==
  ~behind => \E state \in given :
               /\ state.rotate \in FRotator2Rotate(m_lastSyncRotation)
               /\ state.pos = m_lastSyncLocation
               /\ state.speed = m_lastSyncSpeed

(* What the backend was last given is what the player does now.            *)
Known ==
  \E state \in given :
    /\ state.rotate \in FRotator2Rotate(now.rotation)
    /\ DistSquared(state.pos, now.location) <= 1
    /\ state.speed = now.speed

(* However many small steps the player takes, after a tick the backend is  *)
(* within the tolerance: the steps do not add up unseen.  Excepted is a    *)
(* backend that is behind: the last state that had to be sent was held as  *)
(* synchronised and not sent, for want of a character or a connection, or  *)
(* none has been sent since the controller or the connection is new.       *)
BackendWithinTolerance == ticked /\ character /\ ~behind => Known

(* The declaration's comment (MyPlayerController.h:28): whether the backend *)
(* needs to be given the movement.  When it is answered no, for a player   *)
(* with a character, the backend that has had a state has the one there is.*)
NoNeedMeansKnown ==
  given # {} /\ ticked /\ character /\ ~isNeedSyncMove => Known

=============================================================================
