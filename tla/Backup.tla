--------------------------------- MODULE Backup ---------------------------------
(***************************************************************************)
(* A backup of AEGIS Drive: the job runner of the host backup agent        *)
(* (shared/host-backup-agent/src/job.js, server.js) and the write freeze   *)
(* it asks of Drive (IDEA1-AEGIS_Drive_LC/server/backup/maintenance.js).   *)
(*                                                                         *)
(* The dump of the database and the snapshot of the bytes are taken one    *)
(* after the other, so no request that moves or removes bytes may run from *)
(* the start of the dump to the end of the snapshot.  The agent publishes  *)
(* a lease, Drive polls for it, refuses such requests, lets the ones in    *)
(* flight end, and acknowledges.  Both are processes of one host and read  *)
(* one clock.  The call that starts a job is identified with the job it    *)
(* makes; a job is gone when its process dies, its record is not.          *)
(***************************************************************************)
EXTENDS Naturals

CONSTANTS
    Jobs,         (* calls of requestBackup and requestVerify *)
    None,
    Lease,        (* limits.quiesceLeaseSeconds, in steps of the clock *)
    AckWait,      (* limits.quiesceAckTimeoutSeconds *)
    MaxTime,      (* bound on the clock *)
    MaxRequests,  (* bound on the destructive requests that run at once *)
    Faults        (* HANGUP: a client closes its connection before its request has ended;
                     DEAF: Drive opens its port after a boot poll that reached nobody *)

ASSUME BackupAssumption ==
    /\ None \notin Jobs
    /\ Lease \in Nat \ {0} /\ AckWait \in Nat /\ MaxTime \in Nat /\ MaxRequests \in Nat
    /\ Faults \subseteq {"HANGUP", "DEAF"}

VARIABLES
    now,
    (* the agent *)
    current,   (* the job object of the runner *)
    step,      (* where the code of each call stands *)
    on,        (* the job object that code works on *)
    phase,     (* job.phase *)
    since,     (* job.startedAt *)
    waiter,    (* the call job.ack wakes *)
    record,    (* status of the job in jobs.json *)
    (* Drive *)
    freeze,    (* job and lease Drive holds the freeze for *)
    acked,     (* freeze.acknowledged *)
    inFlight,  (* destructive requests as the gate counts them *)
    running,   (* destructive requests whose handler really runs *)
    tick,      (* step of the coordination loop *)
    heard,     (* the status it works on *)
    open,      (* the port is open *)
    (* between them *)
    acks,      (* acknowledgements under way to the agent *)
    (* history *)
    spoilt,    (* jobs that dumped or copied while a destructive request ran,
                  kept for a runner that has not overlapped *)
    overlapped (* a call took the place of a job that was still at work *)

runner == <<current, step, on, phase, since, waiter, record>>
gate == <<freeze, acked, inFlight, running>>
loop == <<tick, heard, open>>
vars == <<now, runner, gate, loop, acks, spoilt, overlapped>>

(* QUIESCED is entered and left within one turn of the event loop. *)
QuiescedPhases == {"QUIESCE_REQUESTED", "DUMPING", "SNAPSHOTTING"}
Reading == {"DUMPING", "SNAPSHOTTING"}
Phases == QuiescedPhases \cup {"CHECKING", "PRUNING", "VERIFYING"}
Verdicts == {"SUCCESS", "FAILED"}
NoFreeze == [job |-> None, until |-> 0]
Silence == [job |-> None, until |-> 0, quiesce |-> FALSE, asking |-> FALSE, reached |-> FALSE]

TypeOK ==
    /\ now \in 0..MaxTime
    /\ current \in Jobs \cup {None}
    /\ step \in [Jobs -> Phases \cup {"IDLE", "ASKED", "RECORDED", "DONE"}]
    /\ on \in [Jobs -> Jobs] /\ waiter \in [Jobs -> Jobs]
    /\ phase \in [Jobs -> Phases \cup {"IDLE"}]
    /\ since \in [Jobs -> Nat]
    /\ record \in [Jobs -> Verdicts \cup {"NONE", "RUNNING"}]
    /\ freeze \in [job : Jobs \cup {None}, until : Nat]
    /\ {acked, open} \subseteq BOOLEAN
    /\ running \in 0..MaxRequests /\ inFlight \in 0..running
    /\ tick \in {"IDLE", "HEARD", "ACKING"}
    /\ heard \in [job : Jobs \cup {None}, until : Nat, quiesce : BOOLEAN, asking : BOOLEAN,
                  reached : BOOLEAN]
    /\ acks \subseteq Jobs /\ spoilt \subseteq Jobs
    /\ overlapped \in BOOLEAN

Init ==
    /\ now = 0
    /\ current = None
    /\ step = [j \in Jobs |-> "IDLE"] /\ phase = [j \in Jobs |-> "IDLE"]
    /\ on = [j \in Jobs |-> j] /\ waiter = [j \in Jobs |-> j]
    /\ since = [j \in Jobs |-> 0]
    /\ record = [j \in Jobs |-> "NONE"]
    /\ freeze = NoFreeze /\ acked = FALSE /\ inFlight = 0 /\ running = 0
    /\ tick = "IDLE" /\ heard = Silence /\ open = FALSE
    /\ acks = {} /\ spoilt = {} /\ overlapped = FALSE

-----------------------------------------------------------------------------
WithinLease(j) == now < since[j] + Lease

(* The job of a call from its claim to its end. *)
AtWork(r) == step[r] \in Phases \cup {"RECORDED"}

(* finish: the record of job j gets its verdict, and no job is current.  If the
   record cannot be written, the catch of start fails the job of the call; if
   that cannot be written either, the job stays current for good. *)
Finish(r, j, verdict) ==
    /\ step' = [step EXCEPT ![r] = "DONE"]
    /\ \/ record' = [record EXCEPT ![j] = verdict] /\ current' = None
       \/ record' = [record EXCEPT ![j] = verdict, ![r] = "FAILED"] /\ current' = None
       \/ UNCHANGED <<record, current>>
    /\ UNCHANGED phase

Enter(r, j, p) ==
    /\ step' = [step EXCEPT ![r] = p]
    /\ phase' = [phase EXCEPT ![j] = p]
    /\ UNCHANGED <<current, record>>

(* A destructive request and the reading of these jobs go on together. *)
Spoils(js) == spoilt' = IF overlapped THEN spoilt ELSE spoilt \cup js

After(p) == CASE p = "DUMPING" -> "SNAPSHOTTING" [] p = "SNAPSHOTTING" -> "CHECKING" [] OTHER -> "PRUNING"

-----------------------------------------------------------------------------
(* Faulty variants of the operations above and below, one plausible slip each.
   No behaviour of Spec uses them; substituted for their original they show
   that the property named beside them can fail. *)

(* TypeOK: 'finish' and 'close' both release, without the released flag. *)
EndRequestTwice ==
    /\ running > 0 /\ running' = running - 1 /\ inFlight' = inFlight - 2
    /\ UNCHANGED <<now, runner, freeze, acked, loop, acks, spoilt, overlapped>>

(* JobSettles: the deadline counts only while the lease holds. *)
AckTimeoutInLease(r) ==
    /\ step[r] = "QUIESCE_REQUESTED"
    /\ now >= since[on[r]] + AckWait /\ WithinLease(on[r])
    /\ Finish(r, on[r], "FAILED")
    /\ UNCHANGED <<now, on, since, waiter, gate, loop, acks, spoilt, overlapped>>

(* SuccessIsConsistent: the lease is not looked at again. *)
ToolEndsAnyTime(r) ==
    /\ step[r] \in Reading \cup {"CHECKING"}
    /\ Enter(r, on[r], After(step[r])) \/ Finish(r, on[r], "FAILED")
    /\ UNCHANGED <<now, on, since, waiter, gate, loop, acks, spoilt, overlapped>>

-----------------------------------------------------------------------------
(* The agent. *)

(* start: refused while a job is current; the policy is read and the target
   classified before the job becomes current, and another call may do the same
   meanwhile.  A call whose first record cannot be written leaves its job
   current for good. *)
Ask(r) ==
    /\ step[r] = "IDLE" /\ current = None
    /\ now + Lease <= MaxTime
    /\ step' = [step EXCEPT ![r] = "ASKED"]
    /\ since' = [since EXCEPT ![r] = now]
    /\ UNCHANGED <<now, current, on, phase, waiter, record, gate, loop, acks, spoilt, overlapped>>

SetCurrent(r) ==
    /\ step[r] = "ASKED"
    /\ current' = r
    /\ \/ step' = [step EXCEPT ![r] = "RECORDED"] /\ record' = [record EXCEPT ![r] = "RUNNING"]
       \/ step' = [step EXCEPT ![r] = "DONE"] /\ UNCHANGED record
    /\ overlapped' = (overlapped \/ \E s \in Jobs : AtWork(s))
    /\ spoilt' = IF overlapped' THEN {} ELSE spoilt
    /\ UNCHANGED <<now, on, phase, since, waiter, gate, loop, acks>>

(* Once the record is written the code goes on with whatever job is current by
   then: it asks for the freeze, verifies, or gives up on the target. *)
Launch(r) ==
    /\ step[r] = "RECORDED"
    /\ \/ /\ current # None
          /\ on' = [on EXCEPT ![r] = current]
          /\ \/ Enter(r, current, "QUIESCE_REQUESTED") /\ waiter' = [waiter EXCEPT ![current] = r]
             \/ Enter(r, current, "VERIFYING") /\ UNCHANGED waiter
       \/ Finish(r, r, "FAILED") /\ UNCHANGED <<on, waiter>>
    /\ UNCHANGED <<now, since, gate, loop, acks, spoilt, overlapped>>

AckTimeout(r) ==
    /\ step[r] = "QUIESCE_REQUESTED"
    /\ now >= since[on[r]] + AckWait
    /\ Finish(r, on[r], "FAILED")
    /\ UNCHANGED <<now, on, since, waiter, gate, loop, acks, spoilt, overlapped>>

(* acknowledgeQuiesce: the waiting code goes on within the same turn.  The
   reply may be lost, or come after Drive has given the request up. *)
Awaited(j) == current = j /\ phase[j] = "QUIESCE_REQUESTED"

Acknowledge(j) ==
    /\ j \in acks /\ acks' = acks \ {j}
    /\ IF Awaited(j) /\ step[waiter[j]] = "QUIESCE_REQUESTED"
         THEN IF WithinLease(j) THEN Enter(waiter[j], j, "DUMPING") /\ Spoils(IF running > 0 THEN {j} ELSE {})
                                ELSE Finish(waiter[j], j, "FAILED") /\ UNCHANGED spoilt
         ELSE UNCHANGED <<step, phase, current, record, spoilt>>
    /\ acked' \in {acked, acked \/ (Awaited(j) /\ tick = "ACKING" /\ freeze.job = j)}
    /\ UNCHANGED <<now, on, since, waiter, freeze, inFlight, running, loop, overlapped>>

(* pg_dump, restic backup and restic check end in turn; the lease must still
   hold after each of the first two. *)
ToolEnds(r) ==
    /\ step[r] \in Reading \cup {"CHECKING"}
    /\ \/ /\ step[r] \in Reading => WithinLease(on[r])
          /\ Enter(r, on[r], After(step[r]))
       \/ Finish(r, on[r], "FAILED")
    /\ UNCHANGED <<now, on, since, waiter, gate, loop, acks, spoilt, overlapped>>

(* restic forget, or the verification, ends. *)
JobEnds(r) ==
    /\ step[r] \in {"PRUNING", "VERIFYING"}
    /\ \E verdict \in Verdicts : Finish(r, on[r], verdict)
    /\ UNCHANGED <<now, on, since, waiter, gate, loop, acks, spoilt, overlapped>>

(* The agent dies and is started again: what it had in memory is gone, and
   nothing revisits the records. *)
AgentRestart ==
    /\ current' = None
    /\ step' = [j \in Jobs |-> IF step[j] = "IDLE" THEN "IDLE" ELSE "DONE"]
    /\ phase' = [j \in Jobs |-> "IDLE"] /\ since' = [j \in Jobs |-> 0]
    /\ on' = [j \in Jobs |-> j] /\ waiter' = [j \in Jobs |-> j]
    /\ UNCHANGED <<now, record, gate, loop, acks, spoilt, overlapped>>

-----------------------------------------------------------------------------
(* Drive. *)

FreezeActive == freeze.job # None /\ now < freeze.until

(* middleware, runDestructive: a destructive request is refused under an active
   freeze and counted otherwise. *)
Admit ==
    /\ open /\ ~FreezeActive /\ running < MaxRequests
    /\ running' = running + 1 /\ inFlight' = inFlight + 1
    /\ Spoils({on[r] : r \in {s \in Jobs : step[s] \in Reading}})
    /\ UNCHANGED <<now, runner, freeze, acked, loop, acks, overlapped>>

(* A handler ends and its count is released; a closed connection releases the
   count of a handler that goes on. *)
EndRequest ==
    /\ running > 0
    /\ running' \in {running - 1} \cup IF "HANGUP" \in Faults THEN {running} ELSE {}
    /\ inFlight' \in {inFlight - 1, inFlight} \cap 0..running'
    /\ UNCHANGED <<now, runner, freeze, acked, loop, acks, spoilt, overlapped>>

(* tick: the status is asked for and answered, or nobody answers.  Of a job that
   needs no freeze Drive uses nothing more. *)
Status ==
    IF current # None /\ phase[current] \in QuiescedPhases /\ WithinLease(current)
      THEN [job |-> current, until |-> since[current] + Lease, quiesce |-> TRUE,
            asking |-> phase[current] = "QUIESCE_REQUESTED", reached |-> TRUE]
      ELSE [Silence EXCEPT !.reached = TRUE]

Poll ==
    /\ tick = "IDLE" /\ tick' = "HEARD"
    /\ heard' \in {Status} \cup IF open \/ "DEAF" \in Faults THEN {Silence} ELSE {}
    /\ UNCHANGED <<now, runner, gate, open, acks, spoilt, overlapped>>

(* The freeze is taken, kept or lifted, and acknowledged once nothing counted
   is in flight.  The port opens when the first tick is over. *)
Hear ==
    /\ tick = "HEARD"
    /\ freeze' = IF ~heard.reached THEN (IF FreezeActive THEN freeze ELSE NoFreeze)
                 ELSE IF ~heard.quiesce THEN NoFreeze
                 ELSE IF freeze.job = heard.job THEN freeze
                 ELSE [job |-> heard.job, until |-> heard.until]
    /\ acked' = (acked /\ freeze' = freeze)
    /\ IF heard.quiesce /\ heard.asking /\ now < freeze'.until /\ ~acked' /\ inFlight = 0
         THEN tick' = "ACKING" /\ acks' = acks \cup {heard.job} /\ UNCHANGED open
         ELSE tick' = "IDLE" /\ open' = TRUE /\ UNCHANGED acks
    /\ heard' = Silence
    /\ UNCHANGED <<now, runner, inFlight, running, spoilt, overlapped>>

(* The reply arrived, or did not in time; the request may be lost with it. *)
AckEnds ==
    /\ tick = "ACKING" /\ tick' = "IDLE" /\ open' = TRUE
    /\ acks' \in {acks, acks \ {freeze.job}}
    /\ UNCHANGED <<now, runner, gate, heard, spoilt, overlapped>>

(* Drive dies with its requests and is started again; the port opens once the
   first poll is over. *)
DriveRestart ==
    /\ freeze' = NoFreeze /\ acked' = FALSE /\ inFlight' = 0 /\ running' = 0
    /\ tick' = "IDLE" /\ heard' = Silence /\ open' = FALSE
    /\ UNCHANGED <<now, runner, acks, spoilt, overlapped>>

-----------------------------------------------------------------------------
Pass == now < MaxTime /\ now' = now + 1 /\ UNCHANGED <<runner, gate, loop, acks, spoilt, overlapped>>

Agent == \E r \in Jobs : Ask(r) \/ SetCurrent(r) \/ Launch(r) \/ AckTimeout(r) \/ Acknowledge(r) \/ ToolEnds(r) \/ JobEnds(r)
Drive == Admit \/ EndRequest \/ Poll \/ Hear \/ AckEnds
Next == Pass \/ Agent \/ AgentRestart \/ Drive \/ DriveRestart

Spec == Init /\ [][Next]_vars

-----------------------------------------------------------------------------
(* A backup is recorded as a success only if no request that moves or removes
   bytes ran from the start of its dump to the end of its snapshot.  The freeze,
   the counting of requests in flight, the acknowledgement and both lease tests
   are there for this, over lost polls, late acknowledgements, restarts of
   either side, records that cannot be written and leases that run out at any
   point.  It takes a runner that has worked on one job at a time so far. *)
SuccessIsConsistent == ~overlapped => \A j \in Jobs : record[j] = "SUCCESS" => j \notin spoilt

(* tests/job.test.js, JOB-11: only one job runs at a time.  But start looks
   whether the runner is free before it reads the policy and claims its place
   after. *)
OneJobAtATime == \A r, s \in Jobs : AtWork(r) /\ AtWork(s) => r = s

(* A job that was started ends, whether Drive ever answers or not. *)
JobSettles == \A j \in Jobs : step[j] = "RECORDED" ~> step[j] = "DONE"

(* The clock runs; the code of a job goes on, since the acknowledgement has a
   timer and every tool a time limit.  Nothing is asked of Drive. *)
FairSpec ==
    /\ Spec /\ WF_now(Pass)
    /\ \A r \in Jobs : WF_step(Launch(r) \/ AckTimeout(r) \/ ToolEnds(r) \/ JobEnds(r))
=================================================================================
