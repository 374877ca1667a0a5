--------------------------- MODULE BreakGlass_proofs ---------------------------
(***************************************************************************)
(* Proofs about BreakGlass, for any number of episodes and incidents.  The *)
(* three properties share one inductive invariant: what the gate knows     *)
(* while it holds the command lock stays true, because neither part of a   *)
(* status delivery can run then.                                           *)
(***************************************************************************)
EXTENDS BreakGlass, TLAPS

(* The proof is never older than the last authenticated status. *)
ProofIsFresh == proof # 0 => heard = "LOCKDOWN"

(* Under the lock, the episode of the gate is the proven one and the uplink was
   seen down. *)
LockHolds ==
    Guarded => /\ gate.episode \in Episodes /\ proof = gate.episode
               /\ episode[gate.episode] = "OPEN" /\ uplink = "LOCKDOWN"

(* A frame is counted only after its claim was dispatched, and the request that
   dispatched it has sent none. *)
ClaimBeforeFrame ==
    /\ OneFramePerEpisode
    /\ gate.step = "APPROVED" =>
          claim[gate.episode] = "DISPATCHED" /\ frames[gate.episode] = 0

(* The incident a request was found eligible for has a failed isolation. *)
EligibleIsFounded ==
    /\ \A i \in Incidents : isolation[i] = "FAILED" => i \in failed
    /\ gate.step \in {"ELIGIBLE", "GUARDED"} /\ gate.incident # 0 => gate.incident \in failed
    /\ ClaimIsFounded

IInv == TypeOK /\ ProofIsFresh /\ LockHolds /\ ClaimBeforeFrame /\ EligibleIsFounded

(* The invariant holds of an empty database and a Core that just started. *)
LEMMA InitEstablishes == Init => IInv
  BY BreakGlassAssumption
  DEF Init, IInv, TypeOK, ProofIsFresh, LockHolds, ClaimBeforeFrame, EligibleIsFounded,
      OneFramePerEpisode, ClaimIsFounded, Guarded, Idle, Episodes, Incidents, Steps

(* The two parts of a status delivery and the presence check preserve it: none
   runs while the gate holds the lock. *)
LEMMA DeliveryPreserves ==
  ASSUME IInv, Deliver \/ DeviceOffline
  PROVE  IInv'
<1> USE DEF IInv, TypeOK, ProofIsFresh, LockHolds, ClaimBeforeFrame, EligibleIsFounded,
            OneFramePerEpisode, ClaimIsFounded, Guarded, incident
<1>1. CASE \E state \in {"LOCKDOWN", "NORMAL"} : OnAuthenticatedStatus(state)
  <2>1. PICK state \in {"LOCKDOWN", "NORMAL"} : OnAuthenticatedStatus(state)
    BY <1>1
  <2>2. CASE state = "LOCKDOWN" /\ RecordLockdown
    BY <2>1, <2>2 DEF OnAuthenticatedStatus, RecordLockdown
  <2>3. CASE state = "NORMAL" /\ RecordNormal
    BY <2>1, <2>3 DEF OnAuthenticatedStatus, RecordNormal
  <2>4. CASE RecordFails
    BY <2>1, <2>4 DEF OnAuthenticatedStatus, RecordFails
  <2>5. QED
    BY <2>1, <2>2, <2>3, <2>4 DEF OnAuthenticatedStatus
<1>2. CASE OnStatus
  BY <1>2 DEF OnStatus, rows
<1>3. CASE DeviceOffline
  BY <1>3 DEF DeviceOffline, rows
<1>4. QED
  BY <1>1, <1>2, <1>3 DEF Deliver

(* The alert path and the Recovery operations preserve it: a failed isolation
   stays on record. *)
LEMMA RecoveryPreserves ==
  ASSUME IInv, Recover
  PROVE  IInv'
<1> USE DEF IInv, TypeOK, ProofIsFresh, LockHolds, ClaimBeforeFrame, EligibleIsFounded,
            OneFramePerEpisode, ClaimIsFounded, Guarded, rows, memory
<1>1. CASE BindIncident
  BY <1>1 DEF BindIncident
<1>2. CASE ContainmentChanges
  <2>1. PICK i \in Incidents :
            /\ isolation[i] \in {"VERIFIED", "LOST"}
            /\ isolation' = [isolation EXCEPT ![i] = IF @ = "VERIFIED" THEN "LOST" ELSE "VERIFIED"]
    BY <1>2 DEF ContainmentChanges
  <2>2. QED
    BY <1>2, <2>1 DEF ContainmentChanges
<1>3. CASE CloseIncident
  BY <1>3 DEF CloseIncident
<1>4. CASE \E i \in Incidents, result \in {"FAILED", "VERIFIED"} : RecordIsolation(i, result)
  BY <1>4 DEF RecordIsolation
<1>5. QED
  BY <1>1, <1>2, <1>3, <1>4 DEF Recover

(* Every step of a break-glass request preserves it. *)
LEMMA RequestPreserves ==
  ASSUME IInv, Request
  PROVE  IInv'
<1> USE DEF IInv, TypeOK, ProofIsFresh, LockHolds, ClaimBeforeFrame, EligibleIsFounded,
            OneFramePerEpisode, ClaimIsFounded, Guarded, Steps, incident, memory
<1>1. CASE TakeSnapshot
  BY <1>1 DEF TakeSnapshot, rows
<1>2. CASE FindEpisode
  BY <1>2 DEF FindEpisode, rows
<1>3. CASE CheckEligibility
  BY <1>3 DEF CheckEligibility, IsolationFailed, Advances, rows
<1>4. CASE EnterGuard
  BY <1>4 DEF EnterGuard, Fresh, Advances, rows
<1>5. CASE ClaimBreakGlass
  BY <1>5 DEF ClaimBreakGlass, Advances
<1>6. CASE ApproveBasis
  BY <1>6 DEF ApproveBasis, Advances
<1>7. CASE Publish
  BY <1>7 DEF Publish, Idle, rows
<1>8. CASE Refuse
  BY <1>8 DEF Refuse, Idle, rows
<1>9. QED
  BY <1>1, <1>2, <1>3, <1>4, <1>5, <1>6, <1>7, <1>8 DEF Request

(* So does a restart, which forgets the proof, and a step that changes nothing. *)
LEMMA NextPreserves == IInv /\ [Next]_vars => IInv'
<1> SUFFICES ASSUME IInv, [Next]_vars PROVE IInv'
  OBVIOUS
<1>1. CASE Restart
  BY <1>1 DEF Restart, IInv, TypeOK, ProofIsFresh, LockHolds, ClaimBeforeFrame, EligibleIsFounded,
              OneFramePerEpisode, ClaimIsFounded, Guarded, Idle, Steps, rows, incident
<1>2. CASE UNCHANGED vars
  BY <1>2 DEF vars, IInv, TypeOK, ProofIsFresh, LockHolds, ClaimBeforeFrame, EligibleIsFounded,
              OneFramePerEpisode, ClaimIsFounded, Guarded, rows, incident, memory
<1>3. QED
  BY <1>1, <1>2, DeliveryPreserves, RecoveryPreserves, RequestPreserves DEF Next

(* The inductive invariant holds in every reachable state. *)
THEOREM Invariance == Spec => []IInv
  BY InitEstablishes, NextPreserves, PTL DEF Spec

(* Every variable keeps its type. *)
THEOREM TypeCorrect == Spec => []TypeOK
<1>1. IInv => TypeOK
  BY DEF IInv
<1>2. QED
  BY <1>1, Invariance, PTL

(* At most one break-glass frame leaves per lockdown episode, and none without
   its claim dispatched, for every number of episodes, requests and restarts. *)
THEOREM FrameCorrect == Spec => []OneFramePerEpisode
<1>1. IInv => OneFramePerEpisode
  BY DEF IInv, ClaimBeforeFrame
<1>2. QED
  BY <1>1, Invariance, PTL

(* A claim for an incident rests on a recorded failed isolation of it. *)
THEOREM ClaimCorrect == Spec => []ClaimIsFounded
<1>1. IInv => ClaimIsFounded
  BY DEF IInv, EligibleIsFounded
<1>2. QED
  BY <1>1, Invariance, PTL

(* A frame leaves only while the last authenticated status of this process was a
   LOCKDOWN of the open episode it spends. *)
THEOREM LockdownCorrect == Spec => OnlyUnderLockdown
<1> DEFINE UnderLockdown ==
      \A e \in Episodes : frames'[e] # frames[e] =>
          heard = "LOCKDOWN" /\ uplink = "LOCKDOWN" /\ episode[e] = "OPEN"
<1>1. IInv /\ [Next]_vars => [UnderLockdown]_vars
  <2> SUFFICES ASSUME IInv, Next, NEW e \in Episodes, frames'[e] # frames[e]
               PROVE  heard = "LOCKDOWN" /\ uplink = "LOCKDOWN" /\ episode[e] = "OPEN"
    OBVIOUS
  <2>1. Publish
    BY DEF Next, Deliver, OnAuthenticatedStatus, OnStatus, DeviceOffline, Recover, BindIncident,
           RecordIsolation, ContainmentChanges, CloseIncident, Request, TakeSnapshot, FindEpisode,
           CheckEligibility, EnterGuard, ClaimBreakGlass, ApproveBasis, Refuse, Restart
  <2>2. e = gate.episode /\ Guarded
    BY <2>1 DEF Publish, IInv, TypeOK, Guarded
  <2>3. QED
    BY <2>2 DEF IInv, LockHolds, ProofIsFresh, Episodes
<1>2. QED
  BY <1>1, Invariance, PTL DEF Spec, OnlyUnderLockdown
=============================================================================
