----------------------------- MODULE MoveProofs -----------------------------
(***************************************************************************)
(* Theorems about MoveSync, for every choice of the constants.  The four   *)
(* invariants are inductive together: TickSettles gives the tolerance, and *)
(* HeldIsGiven carries it from what is held to what was given.             *)
(***************************************************************************)
EXTENDS MoveSync, TLAPS

Invs == MoveTypeOK /\ TickSettles /\ HeldIsGiven

LEMMA RotateIsDWORD ==
  ASSUME NEW rotation \in Rotation
  PROVE  FRotator2Rotate(rotation) \subseteq 0..Modulus - 1
<1>1. rotation.yaw \in Int
  BY MoveAssumption DEF Rotation
<1>2. PICK thousandths \in Int :
        FRotator2Rotate(rotation) \subseteq {thousandths % Modulus, 0}
  <2> DEFINE half == IF rotation.yaw >= 0 THEN rotation.yaw \div 2
                     ELSE -((-rotation.yaw) \div 2)
  <2>1. half \in Int
    BY <1>1
  <2>2. FRotator2Rotate(rotation) \subseteq {half % Modulus, 0}
    BY DEF FRotator2Rotate
  <2> HIDE DEF half
  <2> QED BY <2>1, <2>2
<1>3. thousandths % Modulus \in 0..Modulus - 1 /\ 0 \in 0..Modulus - 1
  BY MoveAssumption
<1> QED BY <1>2, <1>3

(* Nothing has moved from itself by more than the tolerance.               *)
LEMMA DistSquaredZero ==
  ASSUME NEW a \in Location
  PROVE  DistSquared(a, a) = 0
<1>1. a \in Int
  BY MoveAssumption
<1>2. a - a = 0
  BY <1>1
<1> QED BY <1>2 DEF DistSquared

LEMMA ZeroIsRotation == ZeroRotation \in Rotation
BY MoveAssumption DEF Rotation, ZeroRotation

LEMMA InvsInit == Init => Invs
<1> SUFFICES ASSUME Init PROVE Invs
  OBVIOUS
<1>1. MoveTypeOK
  BY MoveAssumption, ZeroIsRotation DEF Init, MoveTypeOK
<1>2. TickSettles /\ HeldIsGiven
  BY DEF Init, TickSettles, HeldIsGiven
<1> QED BY <1>1, <1>2 DEF Invs

(* What the two outcomes of syncMove have in common, and their state sent. *)
LEMMA SyncStep ==
  ASSUME Invs, syncMove, UNCHANGED <<now, character, connected>>
  PROVE  /\ m_lastSyncRotation' = now.rotation
         /\ m_lastSyncLocation' = now.location
         /\ m_lastSyncSpeed' = IF character THEN now.speed ELSE m_lastSyncSpeed
         /\ given' \subseteq MoveStates /\ (given' # {} => connected)
         /\ HeldIsGiven' /\ ~isNeedSyncMove'
<1>1. now \in Views /\ now.rotation \in Rotation /\ now.location \in Location
      /\ now.speed \in Speed
  BY DEF Invs, MoveTypeOK, Views
<1>2. /\ m_lastSyncRotation' = now.rotation
      /\ m_lastSyncLocation' = now.location
      /\ m_lastSyncSpeed' = IF character THEN now.speed ELSE m_lastSyncSpeed
      /\ behind' = ~(character /\ connected)
  BY DEF syncMove
<1>3. CASE character /\ connected
  <2>1. PICK rotate \in FRotator2Rotate(now.rotation) :
          given' = {[rotate |-> rotate, pos |-> now.location,
                     speed |-> now.speed]}
    BY <1>3 DEF syncMove
  <2>2. [rotate |-> rotate, pos |-> now.location, speed |-> now.speed]
          \in MoveStates
    BY <1>1, <2>1, RotateIsDWORD DEF MoveStates
  <2>3. HeldIsGiven'
    BY <1>2, <1>3, <2>1 DEF HeldIsGiven
  <2>4. given' \subseteq MoveStates
    BY <2>1, <2>2
  <2>5. ~isNeedSyncMove'
    BY <1>1, <1>2, DistSquaredZero DEF isNeedSyncMove
  <2> QED BY <1>2, <1>3, <2>3, <2>4, <2>5
<1>4. CASE ~(character /\ connected)
  <2>1. given' = given
    BY <1>4 DEF syncMove
  <2>2. ~isNeedSyncMove'
    BY <1>1, <1>2, DistSquaredZero DEF isNeedSyncMove
  <2> QED BY <1>2, <1>4, <2>1, <2>2 DEF Invs, MoveTypeOK, HeldIsGiven
<1> QED BY <1>3, <1>4

LEMMA InvsStep == Invs /\ [Next]_vars => Invs'
<1> SUFFICES ASSUME Invs, [Next]_vars PROVE Invs'
  OBVIOUS
<1> USE DEF Invs
<1>1. CASE PlayerTick
  <2>1. CASE isNeedSyncMove
    <3>1. syncMove /\ ticked' = TRUE /\ UNCHANGED <<now, character, connected>>
      BY <1>1, <2>1 DEF PlayerTick
    <3>2. behind' \in BOOLEAN
      BY <3>1 DEF syncMove
    <3>3. MoveTypeOK'
      BY <3>1, <3>2, SyncStep DEF MoveTypeOK, Views
    <3> QED BY <3>1, <3>3, SyncStep DEF TickSettles
  <2>2. CASE ~isNeedSyncMove
    BY <1>1, <2>2
       DEF PlayerTick, lastVars, MoveTypeOK, TickSettles, HeldIsGiven,
           isNeedSyncMove
  <2> QED BY <2>1, <2>2
<1>2. CASE Move
  <2>1. now' \in Views /\ character' \in BOOLEAN
    BY <1>2 DEF Move, MoveTypeOK, Views
  <2> QED BY <1>2, <2>1 DEF Move, lastVars, MoveTypeOK, TickSettles, HeldIsGiven
<1>3. CASE NewController
  <2>1. MoveTypeOK'
    BY <1>3, MoveAssumption, ZeroIsRotation DEF NewController, MoveTypeOK
  <2>2. TickSettles' /\ HeldIsGiven'
    BY <1>3 DEF NewController, TickSettles, HeldIsGiven
  <2> QED BY <2>1, <2>2
<1>4. CASE Connects \/ ConnectionEnds \/ UNCHANGED vars
  <2> USE <1>4 DEF Connects, ConnectionEnds, vars, lastVars
  <2>1. MoveTypeOK'
    BY DEF MoveTypeOK
  <2>2. TickSettles'
    BY DEF TickSettles, isNeedSyncMove
  <2>3. HeldIsGiven'
    BY DEF HeldIsGiven
  <2> QED BY <2>1, <2>2, <2>3
<1> QED BY <1>1, <1>2, <1>3, <1>4 DEF Next

LEMMA ToleranceFollows == Invs => BackendWithinTolerance
<1> SUFFICES ASSUME Invs, ticked, character, ~behind PROVE Known
  BY DEF BackendWithinTolerance
<1>1. PICK state \in given :
        /\ state.rotate \in FRotator2Rotate(m_lastSyncRotation)
        /\ state.pos = m_lastSyncLocation
        /\ state.speed = m_lastSyncSpeed
  BY DEF Invs, HeldIsGiven
<1>2. /\ now.rotation = m_lastSyncRotation
      /\ ~(DistSquared(m_lastSyncLocation, now.location) > 1)
      /\ now.speed = m_lastSyncSpeed
  BY DEF Invs, TickSettles, isNeedSyncMove
<1>3. DistSquared(m_lastSyncLocation, now.location) \in Int
  <2>1. m_lastSyncLocation \in Int /\ now.location \in Int
    BY MoveAssumption DEF Invs, MoveTypeOK, Views
  <2>2. m_lastSyncLocation - now.location \in Int
    BY <2>1
  <2> QED BY <2>2 DEF DistSquared
<1>4. DistSquared(state.pos, now.location) <= 1
  BY <1>1, <1>2, <1>3
<1> QED BY <1>1, <1>2, <1>4 DEF Known

LEMMA InvsAlways == Spec => []Invs
BY InvsInit, InvsStep, PTL DEF Spec

-----------------------------------------------------------------------------
(* Theorems *)

(* Types: what is given is a MoveState whatever the rotation casts to.     *)
THEOREM MoveTypeOKThm == Spec => []MoveTypeOK
<1>1. Invs => MoveTypeOK
  BY DEF Invs
<1> QED BY <1>1, InvsAlways, PTL

(* A player that stands still is synchronised by one tick and no other.    *)
THEOREM TickSettlesThm == Spec => []TickSettles
<1>1. Invs => TickSettles
  BY DEF Invs
<1> QED BY <1>1, InvsAlways, PTL

(* The controller compares with what the backend was last given.           *)
THEOREM HeldIsGivenThm == Spec => []HeldIsGiven
<1>1. Invs => HeldIsGiven
  BY DEF Invs
<1> QED BY <1>1, InvsAlways, PTL

(* Small steps do not add up: after a tick the backend is within the       *)
(* tolerance, for any world and any speeds.                                *)
THEOREM ToleranceThm == Spec => []BackendWithinTolerance
BY InvsAlways, ToleranceFollows, PTL

=============================================================================
