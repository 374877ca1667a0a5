---------------------------- MODULE CommandArbiter ----------------------------
(***************************************************************************)
(* Who may command the relay.  AegisSupervisor.issue_command               *)
(* (aegis_soc/supervisor.py) is entered by many threads: the CUT and       *)
(* RESTORE gates (local_cut.py, local_restore.py), the MQTT callbacks and  *)
(* the health loop.  One re-entrant lock serialises them; a containment    *)
(* count, taken outside that lock, lets a CUT stop a RESTORE that has not  *)
(* been cleared yet; a CUT that meets an unanswered RESTORE may wait       *)
(* behind it.  Every CUT spends a durable one-shot grant                   *)
(* (cut_authorization.py) and every RESTORE the one durable attempt of its *)
(* incident (database.py); both outlive the process.                       *)
(*                                                                         *)
(* A request stands for one call of a gate and for the command it issues.  *)
(* The frame itself, its number and its rows are the subject of CommandLink*)
(***************************************************************************)
EXTENDS Integers, Sequences, FiniteSets, Functions

CONSTANTS
    Cuts,       (* CUT requests *)
    Patient,    (* the CUT requests made with allow_defer=True, the default of
                   issue_command; the gates of this build pass False *)
    Restores,   (* RESTORE requests *)
    Incidents,  (* incidents a RESTORE may be bound to *)
    NoOne

ASSUME RequestsAssumption ==
    /\ IsFiniteSet(Cuts) /\ Patient \subseteq Cuts
    /\ Cuts \cap Restores = {}
    /\ NoOne \notin Cuts \cup Restores

Requests == Cuts \cup Restores
SlotOf(S) == S \cup {NoOne}

VARIABLES
    incident,    (* the incident each RESTORE request is bound to *)
    lock,        (* the request issued under _command_lock *)
    step,        (* how far it is *)
    waiting,     (* requests whose thread waits for the lock *)
    containment, (* _containment_count; _containment_pending is set while it is positive *)
    pending,     (* pending_command: published and unanswered *)
    deferred,    (* _deferred_cut *)
    told,        (* what the caller was told *)
    grant,       (* cut_authorizations.state *)
    outcome,     (* cut_authorizations.outcome *)
    attempts,    (* incidents with a RESTORE_REQUESTED row *)
    published,   (* commands whose frame reached the MQTT client, in order *)
    overtaken    (* history: RESTOREs published while this CUT was kept waiting *)

memory == <<lock, step, waiting, containment, pending, deferred>>
disk == <<grant, outcome, attempts>>
vars == <<incident, memory, disk, told, published, overtaken>>

TypeOK ==
    /\ incident \in [Restores -> Incidents]
    /\ lock \in SlotOf(Requests)
    /\ step \in {"FREE", "ENTERED", "CLEARED", "ON_WIRE", "UNSENT", "UNKNOWN"}
    /\ waiting \subseteq Requests
    /\ containment \in 0..Cardinality(Cuts)
    /\ pending \in SlotOf(Requests)
    /\ deferred \in SlotOf(Patient)
    /\ told \in [Requests -> {"NEW", "CALLING", "SENT", "QUEUED", "REFUSED", "OUTCOME_UNKNOWN", "LOST"}]
    /\ grant \in [Cuts -> {"NONE", "AUTHORIZED", "CONSUMED", "EXPIRED"}]
    /\ outcome \in [Cuts -> {"PENDING", "PUBLISHED", "NOT_PUBLISHED", "OUTCOME_UNKNOWN"}]
    /\ attempts \subseteq Incidents
    /\ published \in Seq(Requests)
    /\ overtaken \in [Cuts -> Nat]

Init ==
    /\ incident \in [Restores -> Incidents]
    /\ lock = NoOne /\ step = "FREE" /\ waiting = {} /\ containment = 0
    /\ pending = NoOne /\ deferred = NoOne
    /\ told = [n \in Requests |-> "NEW"]
    /\ grant = [c \in Cuts |-> "NONE"]
    /\ outcome = [c \in Cuts |-> "PENDING"]
    /\ attempts = {}
    /\ published = <<>>
    /\ overtaken = [c \in Cuts |-> 0]

(* The caller of a queued CUT has already been answered. *)
Tell(n, answer) == told' = [told EXCEPT ![n] = IF @ = "QUEUED" THEN @ ELSE answer]

(* ContainmentCounted, with the count never lowered: a faulty variant of Leave,
   which no behaviour of Spec uses; the other variants follow below. *)
LeaveUncounted(n) ==
    /\ lock' = NoOne
    /\ step' = "FREE"
    /\ UNCHANGED containment

(* issue_command returns: its finally block counts a CUT out. *)
Leave(n) ==
    /\ lock' = NoOne
    /\ step' = "FREE"
    /\ containment' = IF n \in Cuts THEN containment - 1 ELSE containment

-----------------------------------------------------------------------------
(* Faulty variants of the operations below, one plausible slip each.  No
   behaviour of Spec uses them; substituted for their original they show that
   the property named beside them can fail. *)

(* TypeOK: allow_defer is ignored. *)
EnterCutAlwaysDefers(c) ==
    /\ c \in waiting /\ lock = NoOne
    /\ waiting' = waiting \ {c}
    /\ \/ /\ pending = NoOne
          /\ lock' = c /\ step' = "ENTERED"
          /\ UNCHANGED <<containment, deferred, told>>
       \/ /\ pending # NoOne
          /\ deferred' = IF deferred = NoOne THEN c ELSE deferred
          /\ Tell(c, "QUEUED")
          /\ Leave(c)
    /\ UNCHANGED <<incident, pending, disk, published, overtaken>>

(* OneRestorePerIncident: the attempt is recorded with the best-effort logger. *)
EnterRestoreUnrecorded(r) ==
    /\ r \in waiting /\ lock = NoOne /\ pending = NoOne
    /\ waiting' = waiting \ {r}
    /\ attempts' \in {attempts, attempts \cup {incident[r]}}
    /\ lock' = r /\ step' = "ENTERED"
    /\ UNCHANGED <<incident, containment, pending, deferred, told, grant, outcome, published, overtaken>>

(* OvertakenOnce: the containment flag is not read. *)
ClearRestoreBlindly(r) ==
    /\ lock = r /\ step = "ENTERED" /\ step' = "CLEARED"
    /\ UNCHANGED <<incident, lock, containment, told, waiting, pending, deferred, disk, published, overtaken>>

(* GrantIsOneShot: a raised publish is recorded as not published. *)
OutcomeOptimistic == [ON_WIRE |-> "PUBLISHED", UNSENT |-> "NOT_PUBLISHED", UNKNOWN |-> "NOT_PUBLISHED"]

(* QueuedCutIsServed: the timeout does not drain. *)
AckTimeoutNoDrain ==
    /\ lock = NoOne
    /\ pending # NoOne
    /\ pending' = NoOne
    /\ UNCHANGED <<incident, lock, step, containment, deferred, waiting, disk, told, published, overtaken>>

-----------------------------------------------------------------------------
(* The CUT gate issues the grant and calls issue_command, which counts the
   containment before it waits for the lock.  The gate handles one request at a
   time (_operation_lock) and never asks to be queued; a patient CUT comes from
   any other caller, on a thread of its own. *)
CallCut(c) ==
    /\ told[c] = "NEW"
    /\ c \in Patient \/ \A d \in Cuts \ Patient : told[d] # "CALLING"
    /\ Tell(c, "CALLING")
    /\ grant' = [grant EXCEPT ![c] = "AUTHORIZED"]
    /\ containment' = containment + 1
    /\ waiting' = waiting \cup {c}
    /\ UNCHANGED <<incident, lock, step, pending, deferred, outcome, attempts, published, overtaken>>

(* The RESTORE gate, one request at a time as well, looks for an earlier attempt,
   then waits for the lock. *)
CallRestore(r) ==
    /\ told[r] = "NEW"
    /\ \A s \in Restores : told[s] # "CALLING"
    /\ \/ incident[r] \in attempts /\ Tell(r, "REFUSED") /\ waiting' = waiting
       \/ incident[r] \notin attempts /\ Tell(r, "CALLING") /\ waiting' = waiting \cup {r}
    /\ UNCHANGED <<incident, lock, step, containment, pending, deferred, disk, published, overtaken>>

(* A CUT gets the lock: it goes on, waits behind a RESTORE (the slot holds one
   CUT), or is refused. *)
EnterCut(c) ==
    /\ c \in waiting /\ lock = NoOne
    /\ waiting' = waiting \ {c}
    /\ \/ /\ pending = NoOne
          /\ lock' = c /\ step' = "ENTERED"
          /\ UNCHANGED <<containment, deferred, told>>
       \/ /\ pending \in Restores /\ c \in Patient
          /\ deferred' = IF deferred = NoOne THEN c ELSE deferred
          /\ Tell(c, "QUEUED")
          /\ Leave(c)
       \/ /\ pending \in Cuts \/ (pending \in Restores /\ c \notin Patient)
          /\ Tell(c, "REFUSED")
          /\ Leave(c)
          /\ UNCHANGED deferred
    /\ UNCHANGED <<incident, pending, disk, published, overtaken>>

(* A RESTORE gets the lock: the gate checks again and writes the attempt.  It may
   also be refused for the uplink it observes or an unconfirmed RESTORE. *)
EnterRestore(r) ==
    /\ r \in waiting /\ lock = NoOne
    /\ waiting' = waiting \ {r}
    /\ \/ /\ pending = NoOne /\ incident[r] \notin attempts
          /\ attempts' = attempts \cup {incident[r]}
          /\ lock' = r /\ step' = "ENTERED"
          /\ UNCHANGED told
       \/ Tell(r, "REFUSED") /\ UNCHANGED <<attempts, lock, step>>
    /\ UNCHANGED <<incident, containment, pending, deferred, grant, outcome, published, overtaken>>

(* CONTAINMENT_PENDING is read once, before the RESTORE is published. *)
ClearRestore(r) ==
    /\ lock = r /\ step = "ENTERED"
    /\ \/ containment = 0 /\ step' = "CLEARED" /\ UNCHANGED <<lock, containment, told>>
       \/ containment > 0 /\ Tell(r, "REFUSED") /\ Leave(r)
    /\ UNCHANGED <<incident, waiting, pending, deferred, disk, published, overtaken>>

(* consume: AUTHORIZED becomes CONSUMED or EXPIRED in one transaction; a store
   failure leaves it, and the CUT is refused. *)
ConsumeGrant(c) ==
    /\ lock = c /\ step = "ENTERED"
    /\ \/ /\ grant[c] = "AUTHORIZED"
          /\ grant' = [grant EXCEPT ![c] = "CONSUMED"]
          /\ step' = "CLEARED"
          /\ UNCHANGED <<lock, containment, told, outcome>>
       \/ /\ grant[c] = "AUTHORIZED"
          /\ grant' = [grant EXCEPT ![c] = "EXPIRED"]
          /\ outcome' = [outcome EXCEPT ![c] = "NOT_PUBLISHED"]
          /\ Tell(c, "REFUSED") /\ Leave(c)
       \/ Tell(c, "REFUSED") /\ Leave(c) /\ UNCHANGED <<grant, outcome>>
    /\ UNCHANGED <<incident, waiting, pending, deferred, attempts, published, overtaken>>

KeptWaiting == (waiting \cap Cuts) \cup ({deferred} \ {NoOne})

OnWire(n) ==
    /\ published' = Append(published, n)
    /\ overtaken' = [c \in Cuts |->
          overtaken[c] + IF n \in Restores /\ c \in KeptWaiting THEN 1 ELSE 0]

(* controller.issue after the checks: published, not published, or publish
   raised and nobody knows. *)
Publish(n) ==
    /\ lock = n /\ step = "CLEARED"
    /\ \/ step' = "ON_WIRE" /\ OnWire(n)
       \/ step' = "UNSENT" /\ UNCHANGED <<published, overtaken>>
       \/ step' = "UNKNOWN" /\ (OnWire(n) \/ UNCHANGED <<published, overtaken>>)
    /\ UNCHANGED <<incident, lock, waiting, containment, pending, deferred, disk, told>>

OutcomeOf == [ON_WIRE |-> "PUBLISHED", UNSENT |-> "NOT_PUBLISHED", UNKNOWN |-> "OUTCOME_UNKNOWN"]
AnswerOf == [ON_WIRE |-> "SENT", UNSENT |-> "REFUSED", UNKNOWN |-> "OUTCOME_UNKNOWN"]

(* record_outcome, whose failure is only audited, then pending_command. *)
Settle(n) ==
    /\ lock = n /\ step \in DOMAIN OutcomeOf
    /\ outcome' \in {outcome} \cup
          {[outcome EXCEPT ![c] = OutcomeOf[step]] : c \in {n} \cap Cuts}
    /\ pending' = IF step = "ON_WIRE" THEN n ELSE pending
    /\ Tell(n, AnswerOf[step])
    /\ Leave(n)
    /\ UNCHANGED <<incident, waiting, deferred, grant, attempts, published, overtaken>>

(* pending_command is cleared and, under the same lock, a deferred CUT enters
   issue_command again on the thread that cleared it. *)
ClearPendingAndDrain ==
    /\ pending' = NoOne
    /\ deferred' = NoOne
    /\ IF deferred = NoOne
         THEN UNCHANGED <<lock, step, containment>>
         ELSE /\ lock' = deferred
              /\ step' = "ENTERED"
              /\ containment' = containment + 1
    /\ UNCHANGED <<incident, waiting, disk, told, published, overtaken>>

(* An ACK is heard only for the command that is pending. *)
HandleAck(n) ==
    /\ lock = NoOne
    /\ n = pending
    /\ ClearPendingAndDrain

AckTimeout ==
    /\ lock = NoOne
    /\ pending # NoOne
    /\ ClearPendingAndDrain

(* The Core stops anywhere: what is on disk stays, every thread and every grant
   object is gone. *)
Restart ==
    /\ lock' = NoOne /\ step' = "FREE" /\ waiting' = {} /\ containment' = 0
    /\ pending' = NoOne /\ deferred' = NoOne
    /\ told' = [n \in Requests |-> IF told[n] = "CALLING" THEN "LOST" ELSE told[n]]
    /\ UNCHANGED <<incident, disk, published, overtaken>>

Next ==
    \/ \E c \in Cuts : CallCut(c) \/ EnterCut(c) \/ ConsumeGrant(c)
    \/ \E r \in Restores : CallRestore(r) \/ EnterRestore(r) \/ ClearRestore(r)
    \/ \E n \in Requests : Publish(n) \/ Settle(n)
    \/ \E n \in Range(published) : HandleAck(n)
    \/ AckTimeout
    \/ Restart

(* A thread that can go on does, and the health loop keeps looking at the clock. *)
Fairness ==
    /\ \A c \in Cuts : WF_vars(EnterCut(c)) /\ WF_vars(ConsumeGrant(c))
    /\ \A r \in Restores : WF_vars(EnterRestore(r)) /\ WF_vars(ClearRestore(r))
    /\ \A n \in Requests : WF_vars(Publish(n)) /\ WF_vars(Settle(n))
    /\ WF_vars(AckTimeout)

Spec == Init /\ [][Next]_vars /\ Fairness

-----------------------------------------------------------------------------
(* The flag a RESTORE is held back by counts exactly the CUT calls in progress:
   no early return, queueing or drain loses one or leaves one behind. *)
ContainmentCounted == containment = Cardinality(Cuts \cap (waiting \cup {lock}))

(* A CUT waits in the slot only behind an unanswered RESTORE, so the answer or
   the timeout of that RESTORE always finds it. *)
DeferredBehindRestore == deferred # NoOne => pending \in Restores

Published(n) == \E i \in DOMAIN published : published[i] = n

(* A grant puts at most one frame on the wire, whatever fails or restarts in
   between, and its recorded outcome never contradicts the wire. *)
GrantIsOneShot ==
    \A c \in Cuts :
        /\ Cardinality({i \in DOMAIN published : published[i] = c}) <= 1
        /\ Published(c) => grant[c] = "CONSUMED"
        /\ outcome[c] = "PUBLISHED" => Published(c)
        /\ outcome[c] = "NOT_PUBLISHED" => ~Published(c)

(* One incident never yields two RESTORE frames, across racing requests and
   restarts. *)
OneRestorePerIncident ==
    \A i, j \in DOMAIN published :
        published[i] \in Restores /\ published[j] \in Restores
        /\ incident[published[i]] = incident[published[j]] => i = j

(* While a CUT is kept waiting at most one RESTORE gets on the wire ahead of it:
   the one that was past the containment check when the CUT arrived. *)
OvertakenOnce == \A c \in Cuts : overtaken[c] <= 1

(* Nothing is published while a command awaits its answer. *)
OneInFlight == [][published' # published => pending = NoOne]_vars

(* A queued CUT leaves the slot by entering issue_command, or with the process. *)
QueuedCutEnters ==
    [][deferred # NoOne /\ deferred' # deferred => lock' = deferred \/ Restart]_vars

(* A queued CUT does not wait for ever, even if the device never answers. *)
QueuedCutIsServed == deferred # NoOne ~> deferred = NoOne
=============================================================================
