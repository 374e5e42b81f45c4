-------------------------- MODULE SfuManagerProofs --------------------------
(***************************************************************************)
(* The safety of SfuManager for every set of sessions and of Room objects. *)
(***************************************************************************)
EXTENDS SfuManager, TLAPS

USE NoRoomAssumption
USE DEF Goto

LEMMA InitInd == Init => IndInv
  BY DEF Init, IndInv, TypeOK, Phase, RoomInv, UnracedInv, RacedInv,
         DutyInv

LEMMA JoinLookupKeeps ==
  ASSUME IndInv, NEW s \in Session, JoinLookup(s) PROVE IndInv'
<1> USE DEF IndInv, TypeOK, JoinLookup
<1>1. TypeOK'
  BY DEF Phase
<1>2. RoomInv'
  BY DEF RoomInv
<1>3. UnracedInv'
  BY DEF UnracedInv, RoomInv, RacedInv, Deletable, Reachable
<1>4. RacedInv'
  BY DEF UnracedInv, RoomInv, RacedInv, Deletable
<1>5. DutyInv'
  BY DEF DutyInv, UnracedInv, RacedInv, RoomInv, Deletable
<1> QED
  BY <1>1, <1>2, <1>3, <1>4, <1>5

LEMMA JoinAddKeeps ==
  ASSUME IndInv, NEW s \in Session, JoinAdd(s) PROVE IndInv'
<1> USE DEF IndInv, TypeOK, JoinAdd
<1>1. TypeOK'
  BY DEF Phase
<1>2. RoomInv'
  BY DEF RoomInv
<1>3. UnracedInv'
  BY DEF UnracedInv, RoomInv, RacedInv, Deletable, Reachable
<1>4. RacedInv'
  BY DEF UnracedInv, RoomInv, RacedInv, Deletable
<1>5. DutyInv'
  BY DEF DutyInv, UnracedInv, RacedInv, RoomInv, Deletable
<1> QED
  BY <1>1, <1>2, <1>3, <1>4, <1>5

LEMMA OnMessageKeeps ==
  ASSUME IndInv, NEW s \in Session, OnMessage(s) PROVE IndInv'
<1> USE DEF IndInv, TypeOK, OnMessage
<1>1. TypeOK'
  BY DEF Phase
<1>2. RoomInv'
  BY DEF RoomInv
<1>3. UnracedInv'
  BY DEF UnracedInv, RoomInv, RacedInv, Deletable, Reachable
<1>4. RacedInv'
  BY DEF UnracedInv, RoomInv, RacedInv, Deletable
<1>5. DutyInv'
  BY DEF DutyInv, UnracedInv, RacedInv, RoomInv, Deletable
<1> QED
  BY <1>1, <1>2, <1>3, <1>4, <1>5

LEMMA LeaveLookupKeeps ==
  ASSUME IndInv, NEW s \in Session, LeaveLookup(s) PROVE IndInv'
<1> USE DEF IndInv, TypeOK, LeaveLookup
<1>1. TypeOK'
  BY DEF Phase
<1>2. RoomInv'
  BY DEF RoomInv
<1>3. UnracedInv'
  BY DEF UnracedInv, RoomInv, RacedInv, Deletable, Reachable
<1>4. RacedInv'
  BY DEF UnracedInv, RoomInv, RacedInv, Deletable
<1>5. DutyInv'
  BY DEF DutyInv, UnracedInv, RacedInv, RoomInv, Deletable
<1> QED
  BY <1>1, <1>2, <1>3, <1>4, <1>5

LEMMA LeaveRemoveKeeps ==
  ASSUME IndInv, NEW s \in Session, LeaveRemove(s) PROVE IndInv'
<1> USE DEF IndInv, TypeOK, LeaveRemove
<1>1. TypeOK'
  BY DEF Phase
<1>2. RoomInv'
  BY DEF RoomInv
<1>3. UnracedInv'
  BY DEF UnracedInv, RoomInv, RacedInv, Deletable, Reachable
<1>4. RacedInv'
  BY DEF UnracedInv, RoomInv, RacedInv, Deletable
<1>5. DutyInv'
  <2>1. CASE registry = NoRoom
    BY <2>1 DEF DutyInv
  <2>2. CASE registry # NoRoom /\ room[s] # registry
    BY <2>2 DEF DutyInv
  <2>3. CASE registry # NoRoom /\ room[s] = registry
    <3>1. members' = [members EXCEPT ![registry] = members[registry] \ {s}]
      BY <2>3
    <3>2. CASE members'[registry] = {}
      BY <2>3, <3>2 DEF DutyInv
    <3>3. CASE members'[registry] # {}
      <4>1. PICK m \in members[registry] : m # s
        BY <2>3, <3>1, <3>3
      <4>2. m \in Session /\ m \notin raced
        BY <2>3, <4>1 DEF RacedInv
      <4>3. phase[m] \in {"live", "leaving"} /\ room[m] = registry
        BY <2>3, <4>1, <4>2 DEF UnracedInv
      <4>4. m \in members'[registry]
        BY <2>3, <3>1, <4>1
      <4> QED
        BY <2>3, <4>1, <4>2, <4>3, <4>4 DEF DutyInv
    <3> QED
      BY <3>2, <3>3
  <2> QED
    BY <2>1, <2>2, <2>3
<1> QED
  BY <1>1, <1>2, <1>3, <1>4, <1>5

LEMMA LeaveNotFoundKeeps ==
  ASSUME IndInv, NEW s \in Session, LeaveNotFound(s) PROVE IndInv'
<1> USE DEF IndInv, TypeOK, LeaveNotFound
<1>1. TypeOK'
  BY DEF Phase
<1>2. RoomInv'
  BY DEF RoomInv
<1>3. UnracedInv'
  BY DEF UnracedInv, RoomInv, RacedInv, Deletable, Reachable
<1>4. RacedInv'
  BY DEF UnracedInv, RoomInv, RacedInv, Deletable
<1>5. DutyInv'
  BY DEF DutyInv, UnracedInv, RacedInv, RoomInv, Deletable
<1> QED
  BY <1>1, <1>2, <1>3, <1>4, <1>5

LEMMA LeaveCountKeeps ==
  ASSUME IndInv, NEW s \in Session, LeaveCount(s) PROVE IndInv'
<1> USE DEF IndInv, TypeOK, LeaveCount
<1>1. TypeOK'
  BY DEF Phase
<1>2. RoomInv'
  BY DEF RoomInv
<1>3. UnracedInv'
  BY DEF UnracedInv, RoomInv, RacedInv, Deletable, Reachable
<1>4. RacedInv'
  BY DEF UnracedInv, RoomInv, RacedInv, Deletable
<1>5. DutyInv'
  BY DEF DutyInv, UnracedInv, RacedInv, RoomInv, Deletable
<1> QED
  BY <1>1, <1>2, <1>3, <1>4, <1>5

LEMMA LeaveCallbackKeeps ==
  ASSUME IndInv, NEW s \in Session, LeaveCallback(s) PROVE IndInv'
<1> USE DEF IndInv, TypeOK, LeaveCallback
<1>1. TypeOK'
  BY DEF Phase
<1>2. RoomInv'
  BY DEF RoomInv
<1>3. UnracedInv'
  BY DEF UnracedInv, RoomInv, RacedInv, Deletable, Reachable
<1>4. RacedInv'
  BY DEF UnracedInv, RoomInv, RacedInv, Deletable
<1>5. DutyInv'
  BY DEF DutyInv, UnracedInv, RacedInv, RoomInv, Deletable
<1> QED
  BY <1>1, <1>2, <1>3, <1>4, <1>5

LEMMA LeaveDeleteKeeps ==
  ASSUME IndInv, NEW s \in Session, LeaveDelete(s) PROVE IndInv'
<1> USE DEF IndInv, TypeOK, LeaveDelete
<1>1. TypeOK'
  BY DEF Phase
<1>2. RoomInv'
  BY DEF RoomInv
<1>3. UnracedInv'
  BY DEF UnracedInv, RoomInv, RacedInv, Deletable, Reachable
<1>4. RacedInv'
  BY DEF UnracedInv, RoomInv, RacedInv, Deletable
<1>5. DutyInv'
  BY DEF DutyInv, UnracedInv, RacedInv, RoomInv, Deletable
<1> QED
  BY <1>1, <1>2, <1>3, <1>4, <1>5

LEMMA StepInd == IndInv /\ [Next]_vars => IndInv'
<1> SUFFICES ASSUME IndInv, [Next]_vars PROVE IndInv'
  OBVIOUS
<1>1. CASE UNCHANGED vars
  BY <1>1 DEF vars, IndInv, TypeOK, RoomInv, UnracedInv, RacedInv,
              DutyInv
<1>2. ASSUME NEW s \in Session, SessionStep(s) PROVE IndInv'
  BY <1>2, JoinLookupKeeps, JoinAddKeeps, OnMessageKeeps, LeaveLookupKeeps, LeaveRemoveKeeps, LeaveNotFoundKeeps, LeaveCountKeeps, LeaveCallbackKeeps, LeaveDeleteKeeps
     DEF SessionStep
<1> QED
  BY <1>1, <1>2 DEF Next, Finished

(***************************************************************************)
(* The theorems a reader should know of.                                   *)
(***************************************************************************)

\* What OnPeerJoin and OnPeerLeave keep true between any two sections.
THEOREM Invariance == Spec => []IndInv
  BY InitInd, StepInd, PTL DEF Spec

\* Every variable keeps its type: a handler holds no room but one that was
\* allocated.
THEOREM TypeCorrect == Spec => []TypeOK
<1>1. IndInv => TypeOK
  BY DEF IndInv
<1> QED
  BY <1>1, Invariance, PTL

\* Only a session that a deletion overtakes between the two sections of
\* OnPeerJoin can end up out of reach of its messages and of its leave.
THEOREM OnlyRacedAreLostHolds == Spec => []OnlyRacedAreLost
<1>1. IndInv => OnlyRacedAreLost
  <2> SUFFICES ASSUME IndInv, NEW s \in Session \ raced
               PROVE  /\ phase[s] = "live" => Reachable(s)
                      /\ s \notin lost
                      /\ phase[s] = "gone" =>
                            s \in told /\ \A r \in Room : s \notin members[r]
    BY DEF OnlyRacedAreLost
  <2> QED
    BY DEF IndInv, TypeOK, UnracedInv, Reachable
<1> QED
  BY <1>1, Invariance, PTL

\* The registry does not keep a room after its last session, whatever the
\* order in which the leaves find it empty.
THEOREM RegistryEmptiesHolds == Spec => []RegistryEmpties
<1>1. IndInv => RegistryEmpties
  BY DEF IndInv, DutyInv, RegistryEmpties
<1> QED
  BY <1>1, Invariance, PTL

=============================================================================
