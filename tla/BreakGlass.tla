------------------------------ MODULE BreakGlass ------------------------------
(***************************************************************************)
(* The break-glass RESTORE (local_restore.py, _handle_break_glass): one    *)
(* RESTORE per lockdown episode, without isolation, when the normal path   *)
(* of Recovery is closed.  The episodes and their claims are rows of       *)
(* database.py, the freshness proof and the observed uplink are memory of  *)
(* the supervisor, and four threads touch them: the MQTT thread delivers   *)
(* each authenticated status in two parts, each under the command lock;    *)
(* the gate checks first and takes the command lock to claim and publish;  *)
(* the alert path and the Recovery operations move the incident without    *)
(* that lock.                                                              *)
(***************************************************************************)
EXTENDS Naturals

CONSTANTS
    LastEpisode,  (* bound on the lockdown episodes *)
    LastIncident  (* bound on the incidents *)

ASSUME BreakGlassAssumption == LastEpisode \in Nat /\ LastIncident \in Nat

Episodes == 1..LastEpisode
Incidents == 1..LastIncident

VARIABLES
    episode,    (* lockdown_episodes: NONE (no row), OPEN or CLOSED *)
    claim,      (* restore_break_glass_claims of each episode; DISPATCHED: dispatched_at is set *)
    claimedFor, (* incident_id of the claim, 0 in the case NO_INCIDENT *)
    bound,      (* incidents so far *)
    open,       (* the open incident, or 0 *)
    isolation,  (* latest R3 result of each incident; LOST: verified, no longer contained *)
    failed,     (* incidents with a FAILED R3 result on record *)
    proof,      (* _fresh_lockdown: its episode, or 0 *)
    uplink,     (* status.uplink *)
    delivering, (* status between its authenticated hook and its status callback *)
    heard,      (* history: last authenticated status since the Core started *)
    gate,       (* the request in the gate: snapshot, episode and step *)
    frames      (* history: break-glass frames handed to the client, per episode *)

rows == <<episode, claim, claimedFor>>
incident == <<bound, open, isolation, failed>>
memory == <<proof, uplink, delivering, heard>>
vars == <<rows, incident, memory, gate, frames>>

Steps == {"IDLE", "SNAPSHOT", "UNSPENT", "ELIGIBLE", "GUARDED", "CLAIMED", "APPROVED"}
Idle == [incident |-> 0, episode |-> 0, step |-> "IDLE"]

TypeOK ==
    /\ episode \in [Episodes -> {"NONE", "OPEN", "CLOSED"}]
    /\ claim \in [Episodes -> {"NONE", "CLAIMED", "DISPATCHED"}]
    /\ claimedFor \in [Episodes -> Incidents \cup {0}]
    /\ bound \in Incidents \cup {0} /\ open \in Incidents \cup {0}
    /\ isolation \in [Incidents -> {"NONE", "FAILED", "VERIFIED", "LOST"}]
    /\ failed \subseteq Incidents
    /\ proof \in Episodes \cup {0}
    /\ uplink \in {"UNKNOWN", "LOCKDOWN", "NORMAL"}
    /\ delivering \in {"NONE", "LOCKDOWN", "NORMAL"}
    /\ heard \in {"NONE", "LOCKDOWN", "NORMAL"}
    /\ gate \in [incident : Incidents \cup {0}, episode : Episodes \cup {0}, step : Steps]
    /\ frames \in [Episodes -> Nat]

Init ==
    /\ episode = [e \in Episodes |-> "NONE"]
    /\ claim = [e \in Episodes |-> "NONE"]
    /\ claimedFor = [e \in Episodes |-> 0]
    /\ bound = 0 /\ open = 0
    /\ isolation = [i \in Incidents |-> "NONE"] /\ failed = {}
    /\ proof = 0 /\ uplink = "UNKNOWN" /\ delivering = "NONE" /\ heard = "NONE"
    /\ gate = Idle
    /\ frames = [e \in Episodes |-> 0]

-----------------------------------------------------------------------------
(* The gate holds the supervisor's command lock. *)
Guarded == gate.step \in {"GUARDED", "CLAIMED", "APPROVED"}

(* fresh_lockdown_episode: the proof, while its episode is open. *)
Fresh(e) == e # 0 /\ proof = e /\ episode[e] = "OPEN"

(* The normal path is open: R3 verified on record and by the live read-back. *)
NormalRestoreValid == open # 0 /\ isolation[open] = "VERIFIED"

Advances(step) == gate' = [gate EXCEPT !.step = step]

-----------------------------------------------------------------------------
(* Faulty variants, one plausible slip each; no behaviour of Spec uses them. *)

(* TypeOK: the name of the step is stored for that of the claim. *)
ApproveBasisOfStep ==
    /\ gate.step = "CLAIMED" /\ Advances("APPROVED")
    /\ claim' = [claim EXCEPT ![gate.episode] = gate'.step]
    /\ UNCHANGED <<episode, claimedFor, incident, memory, frames>>

(* OneFramePerEpisode: a publish that raised gives the claim back. *)
PublishAndRefund ==
    /\ gate.step = "APPROVED"
    /\ frames' = [frames EXCEPT ![gate.episode] = @ + 1]
    /\ claim' \in {claim, [claim EXCEPT ![gate.episode] = "NONE"]}
    /\ gate' = Idle
    /\ UNCHANGED <<episode, claimedFor, incident, memory>>

(* OnlyUnderLockdown: the proof outlives a status that could not be recorded. *)
RecordFailsProofStays == UNCHANGED <<episode, proof>>

(* ClaimIsFounded: anything but a verified isolation is taken for a failed one. *)
IsolationNotVerified(i) == isolation[i] # "VERIFIED"

-----------------------------------------------------------------------------
(* _on_authenticated_status, first part of the delivery.  The proof is dropped
   before the episode rows are touched. *)
RecordLockdown ==
    \E e \in Episodes :
        /\ \/ episode[e] = "OPEN"
           \/ /\ \A f \in Episodes : episode[f] # "OPEN"
              /\ episode[e] = "NONE" /\ \A f \in Episodes : f < e => episode[f] # "NONE"
        /\ episode' = [episode EXCEPT ![e] = "OPEN"]
        /\ proof' = e

RecordNormal ==
    /\ episode' = [e \in Episodes |-> IF episode[e] = "OPEN" THEN "CLOSED" ELSE episode[e]]
    /\ proof' = 0

RecordFails ==
    /\ UNCHANGED episode
    /\ proof' = 0

OnAuthenticatedStatus(state) ==
    /\ ~Guarded /\ delivering = "NONE"
    /\ \/ state = "LOCKDOWN" /\ RecordLockdown
       \/ state = "NORMAL" /\ RecordNormal
       \/ RecordFails
    /\ delivering' = state /\ heard' = state
    /\ UNCHANGED <<claim, claimedFor, incident, uplink, gate, frames>>

(* _on_status, second part of the delivery. *)
OnStatus ==
    /\ ~Guarded /\ delivering # "NONE"
    /\ uplink' = delivering /\ delivering' = "NONE"
    /\ UNCHANGED <<rows, incident, proof, heard, gate, frames>>

(* _refresh_device_presence *)
DeviceOffline ==
    /\ ~Guarded
    /\ uplink' = "UNKNOWN"
    /\ UNCHANGED <<rows, incident, proof, delivering, heard, gate, frames>>

-----------------------------------------------------------------------------
(* The incident, at the speed of the alert path and the Recovery operations. *)
BindIncident ==
    /\ open = 0 /\ bound + 1 \in Incidents
    /\ bound' = bound + 1 /\ open' = bound + 1
    /\ UNCHANGED <<rows, isolation, failed, memory, gate, frames>>

(* The row goes to the incident that ISOLATE read, open or not by now. *)
RecordIsolation(i, result) ==
    /\ i <= bound
    /\ isolation' = [isolation EXCEPT ![i] = result]
    /\ failed' = IF result = "FAILED" THEN failed \cup {i} ELSE failed
    /\ UNCHANGED <<rows, bound, open, memory, gate, frames>>

ContainmentChanges ==
    /\ isolation' \in {[isolation EXCEPT ![i] = IF @ = "VERIFIED" THEN "LOST" ELSE "VERIFIED"] :
                          i \in {i \in Incidents : isolation[i] \in {"VERIFIED", "LOST"}}}
    /\ UNCHANGED <<rows, bound, open, failed, memory, gate, frames>>

CloseIncident ==
    /\ open # 0 /\ open' = 0
    /\ UNCHANGED <<rows, bound, isolation, failed, memory, gate, frames>>

-----------------------------------------------------------------------------
(* The gate: incident snapshot, episode, eligibility, all without the lock ... *)
TakeSnapshot ==
    /\ gate.step = "IDLE"
    /\ gate' = [incident |-> open, episode |-> 0, step |-> "SNAPSHOT"]
    /\ UNCHANGED <<rows, incident, memory, frames>>

FindEpisode ==
    /\ gate.step = "SNAPSHOT"
    /\ \E e \in Episodes :
          /\ Fresh(e) /\ claim[e] = "NONE"
          /\ gate' = [gate EXCEPT !.episode = e, !.step = "UNSPENT"]
    /\ UNCHANGED <<rows, incident, memory, frames>>

IsolationFailed(i) == isolation[i] = "FAILED"

(* break_glass_unmet: no incident, or an isolation that was tried and failed. *)
CheckEligibility ==
    /\ gate.step = "UNSPENT" /\ Advances("ELIGIBLE")
    /\ IF gate.incident = 0 THEN open = 0 ELSE open # 0 /\ IsolationFailed(gate.incident)
    /\ UNCHANGED <<rows, incident, memory, frames>>

(* ... then, under the lock, incident and episode compared again, the claim
   written, the basis consumed and the frame published.  The other conditions
   of the lock only refuse. *)
EnterGuard ==
    /\ gate.step = "ELIGIBLE" /\ Advances("GUARDED")
    /\ uplink = "LOCKDOWN"
    /\ open = gate.incident /\ Fresh(gate.episode)
    /\ UNCHANGED <<rows, incident, memory, frames>>

ClaimBreakGlass ==
    /\ gate.step = "GUARDED" /\ Advances("CLAIMED")
    /\ episode[gate.episode] = "OPEN" /\ claim[gate.episode] = "NONE"
    /\ claim' = [claim EXCEPT ![gate.episode] = "CLAIMED"]
    /\ claimedFor' = [claimedFor EXCEPT ![gate.episode] = gate.incident]
    /\ UNCHANGED <<episode, incident, memory, frames>>

(* _restore_basis_approved, consume_break_glass_claim *)
ApproveBasis ==
    /\ gate.step = "CLAIMED" /\ Advances("APPROVED")
    /\ Fresh(gate.episode) /\ claim[gate.episode] = "CLAIMED"
    /\ claim' = [claim EXCEPT ![gate.episode] = "DISPATCHED"]
    /\ UNCHANGED <<episode, claimedFor, incident, memory, frames>>

(* Sent, or raised after the frame left: the claim stays spent. *)
Publish ==
    /\ gate.step = "APPROVED"
    /\ frames' = [frames EXCEPT ![gate.episode] = @ + 1]
    /\ gate' = Idle
    /\ UNCHANGED <<rows, incident, memory>>

(* A check fails, a row cannot be written, containment is pending or nothing
   was sent. *)
Refuse ==
    /\ gate.step # "IDLE" /\ gate' = Idle
    /\ UNCHANGED <<rows, incident, memory, frames>>

-----------------------------------------------------------------------------
(* The Core stops anywhere: its rows stay. *)
Restart ==
    /\ proof' = 0 /\ uplink' = "UNKNOWN" /\ delivering' = "NONE" /\ heard' = "NONE"
    /\ gate' = Idle
    /\ UNCHANGED <<rows, incident, frames>>

Deliver == (\E state \in {"LOCKDOWN", "NORMAL"} : OnAuthenticatedStatus(state)) \/ OnStatus
Recover ==
    \/ BindIncident \/ ContainmentChanges \/ CloseIncident
    \/ \E i \in Incidents, result \in {"FAILED", "VERIFIED"} : RecordIsolation(i, result)
Request ==
    \/ TakeSnapshot \/ FindEpisode \/ CheckEligibility
    \/ EnterGuard \/ ClaimBreakGlass \/ ApproveBasis \/ Publish \/ Refuse
Next == Deliver \/ DeviceOffline \/ Recover \/ Request \/ Restart

Spec == Init /\ [][Next]_vars

-----------------------------------------------------------------------------
(* One frame per lockdown episode, whatever is refused, lost or restarted, and
   none without a spent claim: a publish with an unknown outcome is not retried. *)
OneFramePerEpisode ==
    \A e \in Episodes : frames[e] <= 1 /\ (frames[e] = 1 => claim[e] = "DISPATCHED")

(* A frame leaves only while the last authenticated status this Core process
   heard was a LOCKDOWN of the still open episode it spends, although that
   status arrives in two parts and its record may fail. *)
OnlyUnderLockdown ==
    [][\A e \in Episodes : frames'[e] # frames[e] =>
          heard = "LOCKDOWN" /\ uplink = "LOCKDOWN" /\ episode[e] = "OPEN"]_vars

(* A claim made for an incident rests on an isolation of that incident that was
   tried and recorded as failed, never on one that is missing or was lost. *)
ClaimIsFounded ==
    \A e \in Episodes : claimedFor[e] # 0 => claimedFor[e] \in failed

(* The Core-mediated recovery design, OD-R5-BG-01: eligible "only when the
   normal RESTORE is not valid".  The isolation may be repeated and verified
   during the R2 probe, and is not compared again under the lock. *)
OnlyWhenNormalInvalid ==
    [][gate.step = "ELIGIBLE" /\ gate'.step = "GUARDED" => ~NormalRestoreValid]_vars
=============================================================================
