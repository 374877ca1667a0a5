------------------------------- MODULE Backup_proofs -------------------------------
(***************************************************************************)
(* Theorems about Backup, for any number of jobs and requests and any      *)
(* lease: a backup recorded as a success is consistent, over lost polls,   *)
(* late acknowledgements, records that cannot be written and restarts of   *)
(* either side, without the two faults and until a call takes the place of *)
(* a job at work.                                                          *)
(***************************************************************************)
EXTENDS Backup, TLAPS

Early(j) == step[j] \in {"IDLE", "ASKED", "RECORDED"}
Working(j) == step[j] \in Phases

(* A call at work is on its own job, which is the current one; a current job has
   been claimed, and stays current after its end if its record was not written. *)
JobInv ==
    /\ \A r \in Jobs : on[r] = r /\ waiter[r] = r
    /\ \A r \in Jobs : AtWork(r) => current = r
    /\ \A r \in Jobs : current = r => step[r] \notin {"IDLE", "ASKED"}
    /\ \A r \in Jobs : (Working(r) => phase[r] = step[r]) /\ (Early(r) => phase[r] = "IDLE")

(* What Drive has heard, holds and has acknowledged is about a job that asked
   for the freeze, and ends with that job's lease. *)
Told(j, until) == j \in Jobs /\ ~Early(j) /\ (Working(j) => until = since[j] + Lease)
DriveInv ==
    /\ inFlight = running
    /\ heard.quiesce => heard.reached /\ Told(heard.job, heard.until)
    /\ freeze.job # None => Told(freeze.job, freeze.until)
    /\ \A j \in acks : ~Early(j)
    /\ tick = "HEARD" /\ ~heard.reached => open

(* A job that reads, or can begin to with an acknowledgement under way, has
   within its lease the gate closed: nothing runs, and the freeze is its own or
   Drive has not opened its port.  A poll Drive still works on says the same. *)
Owed(j) == step[j] \in Reading \/ (step[j] = "QUIESCE_REQUESTED" /\ j \in acks)
Frozen(j) == freeze.job = j /\ freeze.until = since[j] + Lease
Closed(j) == running = 0 /\ (Frozen(j) \/ (~open /\ tick # "ACKING"))
Confirmed(j) == tick = "HEARD" /\ heard.reached => heard.quiesce /\ heard.job = j
FreezeInv == \A j \in Jobs : Owed(j) /\ WithinLease(j) => Closed(j) /\ Confirmed(j)

(* A request spoils a job only after the job's lease, and a spoilt job gets no
   further than the tool that reads. *)
SpoiltInv ==
    /\ \A j \in spoilt : step[j] = "DONE" \/ (step[j] \in Reading /\ ~WithinLease(j))
    /\ \A j \in Jobs : record[j] = "SUCCESS" => step[j] = "DONE" /\ j \notin spoilt

IInv == TypeOK /\ JobInv /\ DriveInv /\ FreezeInv /\ SpoiltInv
(* What the types say of the parts the invariant speaks of. *)
Steps == Phases \cup {"IDLE", "ASKED", "RECORDED", "DONE"}
Typed ==
    /\ now \in Nat /\ Lease \in Nat \ {0} /\ None \notin Jobs
    /\ step \in [Jobs -> Steps] /\ since \in [Jobs -> Nat]
    /\ on \in [Jobs -> Jobs] /\ waiter \in [Jobs -> Jobs]
    /\ phase \in [Jobs -> Phases \cup {"IDLE"}]
    /\ record \in [Jobs -> Verdicts \cup {"NONE", "RUNNING"}]
    /\ current \in Jobs \cup {None}
    /\ freeze.job \in Jobs \cup {None} /\ freeze.until \in Nat
    /\ heard.job \in Jobs \cup {None} /\ heard.until \in Nat
    /\ heard.quiesce \in BOOLEAN /\ heard.reached \in BOOLEAN
    /\ running \in Nat /\ inFlight \in 0..running
    /\ acks \subseteq Jobs /\ spoilt \subseteq Jobs

-----------------------------------------------------------------------------
(* The types, in the form the other proofs use. *)
LEMMA TypeFacts == TypeOK => Typed
  BY BackupAssumption DEF TypeOK, Typed, Steps

(* Before the first job all of it holds. *)
LEMMA InitHolds == Init => IInv
  <1>. SUFFICES ASSUME Init PROVE IInv
    OBVIOUS
  <1>. USE BackupAssumption DEF Init, NoFreeze, Silence
  <1>1. TypeOK
    <2>1. NoFreeze \in [job : Jobs \cup {None}, until : Nat]
      OBVIOUS
    <2>2. Silence \in [job : Jobs \cup {None}, until : Nat, quiesce : BOOLEAN, asking : BOOLEAN, reached : BOOLEAN]
      OBVIOUS
    <2>3. step \in [Jobs -> Phases \cup {"IDLE", "ASKED", "RECORDED", "DONE"}] /\ since \in [Jobs -> Nat]
      OBVIOUS
    <2>4. on \in [Jobs -> Jobs] /\ waiter \in [Jobs -> Jobs] /\ phase \in [Jobs -> Phases \cup {"IDLE"}]
      OBVIOUS
    <2>5. record \in [Jobs -> Verdicts \cup {"NONE", "RUNNING"}]
      OBVIOUS
    <2>6. running \in 0..MaxRequests /\ inFlight \in 0..running /\ now \in 0..MaxTime
      OBVIOUS
    <2>7. freeze \in [job : Jobs \cup {None}, until : Nat]
      BY <2>1
    <2>8. heard \in [job : Jobs \cup {None}, until : Nat, quiesce : BOOLEAN, asking : BOOLEAN, reached : BOOLEAN]
      BY <2>2
    <2>9. current \in Jobs \cup {None} /\ {acked, open} \subseteq BOOLEAN /\ acks \subseteq Jobs /\ spoilt \subseteq Jobs
          /\ tick \in {"IDLE", "HEARD", "ACKING"} /\ overlapped \in BOOLEAN
      OBVIOUS
    <2>. HIDE DEF NoFreeze, Silence, Init
    <2>. QED BY <2>3, <2>4, <2>5, <2>6, <2>7, <2>8, <2>9 DEF TypeOK
  <1>2. JobInv
    BY DEF JobInv, Early, Working, AtWork, Phases, QuiescedPhases
  <1>3. DriveInv
    BY DEF DriveInv
  <1>4. FreezeInv /\ SpoiltInv
    BY DEF FreezeInv, SpoiltInv, Owed, Reading
  <1>. QED BY <1>1, <1>2, <1>3, <1>4 DEF IInv

-----------------------------------------------------------------------------
(* The types. *)

(* A call that goes on or ends keeps the types of the runner. *)
LEMMA CallTypes ==
    ASSUME TypeOK, NEW r \in Jobs, NEW j \in Jobs,
           \/ \E p \in Phases : Enter(r, j, p)
           \/ \E verdict \in Verdicts : Finish(r, j, verdict)
    PROVE  /\ step' \in [Jobs -> Steps] /\ phase' \in [Jobs -> Phases \cup {"IDLE"}]
           /\ record' \in [Jobs -> Verdicts \cup {"NONE", "RUNNING"}]
           /\ current' \in Jobs \cup {None}
  <1>1. ASSUME NEW p \in Phases, Enter(r, j, p) PROVE step' \in [Jobs -> Steps] /\ phase' \in [Jobs -> Phases \cup {"IDLE"}]
                                                      /\ UNCHANGED <<record, current>>
    BY <1>1 DEF TypeOK, Enter, Steps
  <1>2. ASSUME NEW verdict \in Verdicts, Finish(r, j, verdict)
        PROVE  /\ step' \in [Jobs -> Steps] /\ phase' = phase /\ current' \in {current, None}
               /\ record' \in [Jobs -> Verdicts \cup {"NONE", "RUNNING"}]
    <2>1. step' \in [Jobs -> Steps] /\ phase' = phase /\ current' \in {current, None}
      BY <1>2 DEF TypeOK, Finish, Steps
    <2>2. "FAILED" \in Verdicts /\ record \in [Jobs -> Verdicts \cup {"NONE", "RUNNING"}]
      BY DEF Verdicts, TypeOK
    <2>. QED BY <1>2, <2>1, <2>2 DEF Finish
  <1>. QED BY <1>1, <1>2 DEF TypeOK

(* A status that demands a freeze names its job. *)
TellsOfJob == heard.quiesce => heard.job # None

LEMMA SilenceTyped ==
  Silence \in [job : Jobs \cup {None}, until : Nat, quiesce : BOOLEAN, asking : BOOLEAN, reached : BOOLEAN]
  BY DEF Silence

LEMMA TellsStep == TellsOfJob /\ [Next]_vars => TellsOfJob'
  <1>. SUFFICES ASSUME TellsOfJob, [Next]_vars PROVE TellsOfJob'
    OBVIOUS
  <1>1. CASE UNCHANGED heard
    BY <1>1 DEF TellsOfJob
  <1>2. CASE heard' \in {Status, Silence}
    <2>1. Status.quiesce => Status.job # None
      BY DEF Status, Silence
    <2>2. ~Silence.quiesce
      BY DEF Silence
    <2>. HIDE DEF Status, Silence
    <2>. QED BY <1>2, <2>1, <2>2 DEF TellsOfJob
  <1>3. Poll \/ Hear \/ DriveRestart => heard' \in {Status, Silence}
    BY DEF Poll, Hear, DriveRestart
  <1>4. Agent \/ AgentRestart \/ Pass \/ Admit \/ EndRequest \/ AckEnds \/ UNCHANGED vars => UNCHANGED heard
    BY DEF Agent, Ask, SetCurrent, Launch, AckTimeout, Acknowledge, ToolEnds, JobEnds, AgentRestart,
           Pass, Admit, EndRequest, AckEnds, vars, loop
  <1>. QED BY <1>1, <1>2, <1>3, <1>4 DEF Next, Drive

(* Every step keeps the types, with any faults. *)
LEMMA TypeStep == TypeOK /\ TellsOfJob /\ [Next]_vars => TypeOK'
  <1>. SUFFICES ASSUME TypeOK, TellsOfJob, [Next]_vars PROVE TypeOK'
    OBVIOUS
  <1>. USE BackupAssumption
  <1>. DEFINE RunnerTypes == /\ step \in [Jobs -> Steps] /\ phase \in [Jobs -> Phases \cup {"IDLE"}]
                             /\ record \in [Jobs -> Verdicts \cup {"NONE", "RUNNING"}]
                             /\ current \in Jobs \cup {None}
  <1>0. Typed
    BY TypeFacts
  <1>1. CASE UNCHANGED vars
    BY <1>1 DEF TypeOK, vars, runner, gate, loop
  <1>2. CASE Pass
    BY <1>2 DEF Pass, TypeOK, runner, gate, loop
  <1>3. ASSUME NEW r \in Jobs, Ask(r) PROVE TypeOK'
    <2>1. now \in Nat
      BY <1>0 DEF Typed
    <2>. QED BY <1>3, <2>1 DEF Ask, TypeOK, gate, loop
  <1>4. ASSUME NEW r \in Jobs, SetCurrent(r) PROVE TypeOK'
    <2>1. overlapped' \in BOOLEAN
      BY <1>4, Zenon DEF SetCurrent
    <2>2. step' \in [Jobs -> Steps] /\ record' \in [Jobs -> Verdicts \cup {"NONE", "RUNNING"}] /\ spoilt' \subseteq Jobs
      BY <1>4 DEF SetCurrent, TypeOK, Steps
    <2>. QED BY <1>4, <2>1, <2>2 DEF SetCurrent, TypeOK, gate, loop, Steps
  <1>5. ASSUME NEW r \in Jobs, Launch(r) PROVE TypeOK'
    <2>1. "QUIESCE_REQUESTED" \in Phases /\ "VERIFYING" \in Phases /\ "FAILED" \in Verdicts
      BY DEF Phases, QuiescedPhases, Verdicts
    <2>2. \E j \in Jobs : (\E p \in Phases : Enter(r, j, p)) \/ (\E verdict \in Verdicts : Finish(r, j, verdict))
      BY <1>5, <2>1 DEF Launch, TypeOK
    <2>3. RunnerTypes'
      BY <2>2, CallTypes
    <2>4. on' \in [Jobs -> Jobs] /\ waiter' \in [Jobs -> Jobs]
      BY <1>5 DEF Launch, TypeOK
    <2>. QED BY <1>5, <2>3, <2>4 DEF Launch, TypeOK, gate, loop, Steps
  <1>6. ASSUME NEW r \in Jobs, AckTimeout(r) PROVE TypeOK'
    <2>1. RunnerTypes'
      BY <1>6, CallTypes DEF AckTimeout, TypeOK, Verdicts
    <2>. QED BY <1>6, <2>1 DEF AckTimeout, TypeOK, gate, loop, Steps
  <1>7. ASSUME NEW j \in Jobs, Acknowledge(j) PROVE TypeOK'
    <2>1. waiter[j] \in Jobs /\ "DUMPING" \in Phases /\ "FAILED" \in Verdicts
      BY DEF TypeOK, Phases, QuiescedPhases, Verdicts
    <2>2. RunnerTypes'
      <3>1. CASE UNCHANGED <<step, phase, current, record>>
        BY <3>1 DEF TypeOK, Steps
      <3>2. CASE Enter(waiter[j], j, "DUMPING") \/ Finish(waiter[j], j, "FAILED")
        BY <3>2, <2>1, CallTypes
      <3>. QED BY <1>7, <3>1, <3>2 DEF Acknowledge
    <2>3. spoilt' \subseteq Jobs /\ acks' \subseteq Jobs
      BY <1>7 DEF Acknowledge, Spoils, TypeOK
    <2>4. acked' \in BOOLEAN
      BY <1>7 DEF Acknowledge, TypeOK, Awaited
    <2>. QED BY <1>7, <2>2, <2>3, <2>4 DEF Acknowledge, TypeOK, loop, Steps
  <1>8. ASSUME NEW r \in Jobs, ToolEnds(r) PROVE TypeOK'
    <2>1. on[r] \in Jobs /\ After(step[r]) \in Phases /\ "FAILED" \in Verdicts
      BY <1>8 DEF ToolEnds, TypeOK, After, Reading, Phases, QuiescedPhases, Verdicts
    <2>2. RunnerTypes'
      BY <1>8, <2>1, CallTypes DEF ToolEnds
    <2>. QED BY <1>8, <2>2 DEF ToolEnds, TypeOK, gate, loop, Steps
  <1>9. ASSUME NEW r \in Jobs, JobEnds(r) PROVE TypeOK'
    <2>1. RunnerTypes'
      BY <1>9, CallTypes DEF JobEnds, TypeOK
    <2>. QED BY <1>9, <2>1 DEF JobEnds, TypeOK, gate, loop, Steps
  <1>10. CASE AgentRestart
    BY <1>10 DEF AgentRestart, TypeOK, gate, loop
  <1>11. CASE Admit
    <2>1. spoilt' \subseteq Jobs
      BY <1>11, <1>0 DEF Admit, Spoils, Typed
    <2>. QED BY <1>11, <2>1 DEF Admit, TypeOK, runner, loop
  <1>12. CASE EndRequest
    <2>1. running' \in 0..MaxRequests /\ inFlight' \in 0..running'
      BY <1>12, <1>0 DEF EndRequest, TypeOK, Typed
    <2>. QED BY <1>12, <2>1 DEF EndRequest, TypeOK, runner, loop
  <1>13. CASE Poll
    <2>1. Status \in [job : Jobs \cup {None}, until : Nat, quiesce : BOOLEAN, asking : BOOLEAN, reached : BOOLEAN]
      <3>1. current # None => current \in Jobs /\ since[current] + Lease \in Nat
        BY <1>0 DEF Typed
      <3>. QED BY <3>1, SilenceTyped DEF Status
    <2>2. heard' \in [job : Jobs \cup {None}, until : Nat, quiesce : BOOLEAN, asking : BOOLEAN, reached : BOOLEAN]
      BY <1>13, <2>1, SilenceTyped DEF Poll
    <2>. QED BY <1>13, <2>2 DEF Poll, TypeOK, runner, gate
  <1>14. CASE Hear
    <2>1. freeze' \in [job : Jobs \cup {None}, until : Nat]
      BY <1>14 DEF Hear, TypeOK, NoFreeze
    <2>2. acks' \subseteq Jobs
      BY <1>14, <1>0 DEF Hear, Typed, TellsOfJob
    <2>3. acked' \in BOOLEAN /\ open' \in BOOLEAN /\ tick' \in {"IDLE", "HEARD", "ACKING"}
      BY <1>14 DEF Hear, TypeOK
    <2>4. heard' \in [job : Jobs \cup {None}, until : Nat, quiesce : BOOLEAN, asking : BOOLEAN, reached : BOOLEAN]
      BY <1>14, SilenceTyped DEF Hear
    <2>. QED BY <1>14, <2>1, <2>2, <2>3, <2>4 DEF Hear, TypeOK, runner
  <1>15. CASE AckEnds
    BY <1>15 DEF AckEnds, TypeOK, runner, gate
  <1>16. CASE DriveRestart
    <2>1. NoFreeze \in [job : Jobs \cup {None}, until : Nat]
      BY DEF NoFreeze
    <2>2. freeze' = NoFreeze /\ heard' = Silence /\ running' = 0 /\ inFlight' = 0 /\ acked' = FALSE
          /\ tick' = "IDLE" /\ open' = FALSE
      BY <1>16 DEF DriveRestart
    <2>3. running' \in 0..MaxRequests /\ inFlight' \in 0..running'
      BY <2>2
    <2>4. UNCHANGED <<now, runner, acks, spoilt, overlapped>>
      BY <1>16 DEF DriveRestart
    <2>. QED BY <2>1, <2>2, <2>3, <2>4, SilenceTyped DEF TypeOK, runner
  <1>. QED BY <1>1, <1>2, <1>3, <1>4, <1>5, <1>6, <1>7, <1>8, <1>9, <1>10, <1>11, <1>12, <1>13, <1>14,
              <1>15, <1>16 DEF Next, Agent, Drive

-----------------------------------------------------------------------------
(* The calls of the agent. *)

(* The call that works goes on, with its own job, or ends. *)
CallStep(r) ==
    /\ step[r] \in Phases \cup {"RECORDED"}
    /\ (\E p \in Phases : Enter(r, r, p)) \/ (\E verdict \in Verdicts : Finish(r, r, verdict))
    /\ UNCHANGED on /\ waiter' \in {waiter, [waiter EXCEPT ![r] = r]}
    /\ UNCHANGED since

(* Every step of the agent on a job is one of the call that made it. *)
LEMMA OwnJob ==
    ASSUME Typed, JobInv, NEW r \in Jobs,
           Launch(r) \/ AckTimeout(r) \/ ToolEnds(r) \/ JobEnds(r) \/ Acknowledge(r)
    PROVE  \/ CallStep(r)
           \/ UNCHANGED <<step, phase, current, record, on, waiter, since>>
  <1>. USE DEF Phases, QuiescedPhases, Reading, Verdicts
  <1>1. on[r] = r /\ waiter[r] = r /\ on \in [Jobs -> Jobs] /\ waiter \in [Jobs -> Jobs] /\ None \notin Jobs
    BY DEF JobInv, Typed
  <1>2. CASE Launch(r)
    <2>1. current = r
      BY <1>2 DEF Launch, JobInv, AtWork
    <2>2. [on EXCEPT ![r] = r] = on
      BY <1>1
    <2>. QED BY <1>2, <2>1, <2>2, <1>1 DEF Launch, CallStep
  <1>3. CASE AckTimeout(r)
    BY <1>1, <1>3 DEF AckTimeout, CallStep
  <1>4. CASE ToolEnds(r)
    BY <1>1, <1>4 DEF ToolEnds, CallStep, After
  <1>5. CASE JobEnds(r)
    BY <1>1, <1>5 DEF JobEnds, CallStep
  <1>6. CASE Acknowledge(r)
    BY <1>1, <1>6 DEF Acknowledge, CallStep
  <1>. QED BY <1>2, <1>3, <1>4, <1>5, <1>6

(* What such a step does to each call. *)
LEMMA CallEffect ==
    ASSUME Typed, NEW r \in Jobs, CallStep(r)
    PROVE  /\ \A s \in Jobs : s # r => step'[s] = step[s] /\ phase'[s] = phase[s] /\ record'[s] = record[s]
           /\ \/ step'[r] \in Phases /\ phase'[r] = step'[r] /\ current' = current /\ record' = record
              \/ step'[r] = "DONE" /\ phase'[r] = phase[r] /\ current' \in {None, current}
           /\ UNCHANGED <<on, since>> /\ waiter' \in {waiter, [waiter EXCEPT ![r] = r]}
  <1>1. ASSUME NEW p \in Phases, Enter(r, r, p)
        PROVE  /\ \A s \in Jobs : s # r => step'[s] = step[s] /\ phase'[s] = phase[s] /\ record'[s] = record[s]
               /\ step'[r] \in Phases /\ phase'[r] = step'[r] /\ current' = current /\ record' = record
    BY <1>1 DEF Enter, Typed
  <1>2. ASSUME NEW verdict \in Verdicts, Finish(r, r, verdict)
        PROVE  /\ \A s \in Jobs : s # r => step'[s] = step[s] /\ phase'[s] = phase[s] /\ record'[s] = record[s]
               /\ step'[r] = "DONE" /\ phase'[r] = phase[r] /\ current' \in {None, current}
    BY <1>2 DEF Finish, Typed
  <1>. QED BY <1>1, <1>2 DEF CallStep

(* While no call takes the place of a job at work, the job at work is current. *)
LEMMA JobStep ==
    ASSUME Faults = {}, IInv, [Next]_vars, ~overlapped'
    PROVE  JobInv'
  <1>0. Typed /\ JobInv
    BY TypeFacts DEF IInv
  <1>. USE DEF Early, Working
  <1>1. CASE UNCHANGED <<current, step, on, phase, waiter>>
    BY <1>0, <1>1 DEF JobInv, AtWork
  <1>2. ASSUME NEW r \in Jobs, Ask(r) PROVE JobInv'
    <2>1. step'[r] = "ASKED" /\ \A s \in Jobs : s # r => step'[s] = step[s]
      BY <1>0, <1>2 DEF Ask, Typed
    <2>2. UNCHANGED <<current, on, phase, waiter>> /\ current = None /\ step[r] = "IDLE"
      BY <1>2 DEF Ask
    <2>3. "ASKED" \notin Phases \cup {"RECORDED"}
      BY DEF Phases, QuiescedPhases
    <2>. QED BY <1>0, <2>1, <2>2, <2>3 DEF JobInv, Typed, AtWork
  <1>3. ASSUME NEW r \in Jobs, SetCurrent(r) PROVE JobInv'
    <2>1. step'[r] \in {"RECORDED", "DONE"} /\ \A s \in Jobs : s # r => step'[s] = step[s]
      BY <1>0, <1>3 DEF SetCurrent, Typed
    <2>2. UNCHANGED <<on, phase, waiter>> /\ current' = r /\ step[r] = "ASKED"
      BY <1>3 DEF SetCurrent
    <2>3. \A s \in Jobs : ~AtWork(s)
      BY <1>3, Zenon DEF SetCurrent
    <2>4. {"RECORDED", "DONE"} \cap Phases = {}
      BY DEF Phases, QuiescedPhases
    <2>. QED BY <1>0, <2>1, <2>2, <2>3, <2>4 DEF JobInv, Typed, AtWork
  <1>4. ASSUME NEW r \in Jobs, CallStep(r) PROVE JobInv'
    <2>1. current = r
      BY <1>0, <1>4 DEF CallStep, JobInv, AtWork
    <2>2. \A s \in Jobs : s # r => ~AtWork(s)
      BY <1>0, <2>1 DEF JobInv
    <2>3. on' = on /\ \A s \in Jobs : waiter'[s] = s
      BY <1>0, <1>4, CallEffect DEF JobInv, Typed
    <2>4. None \notin Jobs /\ {"IDLE", "ASKED", "RECORDED", "DONE"} \cap Phases = {}
      BY <1>0 DEF Typed, Phases, QuiescedPhases
    <2>5. \A s \in Jobs : s # r => step'[s] = step[s] /\ phase'[s] = phase[s]
      BY <1>0, <1>4, CallEffect
    <2>6. CASE step'[r] \in Phases /\ phase'[r] = step'[r] /\ current' = current
      BY <1>0, <2>1, <2>2, <2>3, <2>4, <2>5, <2>6 DEF JobInv, AtWork
    <2>7. CASE step'[r] = "DONE" /\ current' \in {None, current}
      BY <1>0, <2>1, <2>2, <2>3, <2>4, <2>5, <2>7 DEF JobInv, AtWork
    <2>. QED BY <1>0, <1>4, CallEffect, <2>6, <2>7
  <1>5. CASE AgentRestart
    <2>1. \A s \in Jobs : step'[s] \in {"IDLE", "DONE"} /\ phase'[s] = "IDLE" /\ on'[s] = s /\ waiter'[s] = s
      BY <1>5 DEF AgentRestart
    <2>2. current' = None /\ None \notin Jobs /\ {"IDLE", "DONE"} \cap Phases = {}
      BY <1>0, <1>5 DEF AgentRestart, Typed, Phases, QuiescedPhases
    <2>. QED BY <2>1, <2>2 DEF JobInv, AtWork
  <1>6. Pass \/ Drive \/ DriveRestart \/ UNCHANGED vars => UNCHANGED <<current, step, on, phase, waiter>>
    BY DEF Pass, Drive, Admit, EndRequest, Poll, Hear, AckEnds, DriveRestart, vars, runner
  <1>. QED BY <1>0, <1>1, <1>2, <1>3, <1>4, <1>5, <1>6, OwnJob DEF Next, Agent

-----------------------------------------------------------------------------
(* The freeze. *)

(* What every step of the agent leaves to Drive: a job begins only once, its
   lease is fixed, and nothing but Drive lets a job begin to read. *)
Tame ==
    /\ \A j \in Jobs : ~Early(j) => ~Early(j)' /\ (Working(j)' => Working(j) /\ since'[j] = since[j])
    /\ \A j \in Jobs : Owed(j)' => Owed(j) /\ since'[j] = since[j]
    /\ acks' \subseteq acks
    /\ UNCHANGED <<now, freeze, inFlight, running, tick, heard, open>>

LEMMA AgentIsTame ==
    ASSUME Faults = {}, IInv, Agent \/ AgentRestart
    PROVE  Tame
  <1>0. Typed /\ JobInv /\ DriveInv
    BY TypeFacts DEF IInv
  <1>. USE DEF Early, Working, Owed, Reading, Phases, QuiescedPhases
  <1>1. ASSUME NEW r \in Jobs, Ask(r) \/ SetCurrent(r) PROVE Tame
    <2>1. \A s \in Jobs : s # r => step'[s] = step[s] /\ since'[s] = since[s]
      BY <1>0, <1>1 DEF Ask, SetCurrent, Typed
    <2>2. step[r] \in {"IDLE", "ASKED"} /\ step'[r] \in {"ASKED", "RECORDED", "DONE"}
      BY <1>0, <1>1 DEF Ask, SetCurrent, Typed
    <2>3. UNCHANGED <<acks, now, freeze, inFlight, running, tick, heard, open>>
      BY <1>1 DEF Ask, SetCurrent, gate, loop
    <2>. QED BY <2>1, <2>2, <2>3 DEF Tame
  <1>2. ASSUME NEW r \in Jobs, Launch(r) \/ AckTimeout(r) \/ ToolEnds(r) \/ JobEnds(r) \/ Acknowledge(r)
        PROVE  Tame
    <2>1. acks' \subseteq acks /\ UNCHANGED <<now, freeze, inFlight, running, tick, heard, open>>
      BY <1>2 DEF Launch, AckTimeout, ToolEnds, JobEnds, Acknowledge, gate, loop
    <2>2. CASE UNCHANGED <<step, phase, current, record, on, waiter, since>>
      BY <2>1, <2>2 DEF Tame
    <2>3. CASE CallStep(r)
      <3>1. step[r] # "IDLE" /\ step[r] # "ASKED" /\ step[r] # "DONE"
        BY <2>3 DEF CallStep
      <3>2. \A s \in Jobs : s # r => step'[s] = step[s]
        BY <1>0, <2>3, CallEffect
      <3>3. step'[r] \in Phases \cup {"DONE"} /\ since' = since
        BY <1>0, <2>3, CallEffect
      <3>4. Owed(r)' => Owed(r)
        <4>1. CASE Launch(r)
          <5>1. r \notin acks /\ current = r
            BY <1>0, <4>1 DEF Launch, DriveInv, JobInv, AtWork
          <5>2. step'[r] \in {"QUIESCE_REQUESTED", "VERIFYING", "DONE"}
            BY <1>0, <4>1, <5>1 DEF Launch, Enter, Finish, Typed
          <5>. QED BY <2>1, <5>1, <5>2
        <4>2. CASE AckTimeout(r) \/ JobEnds(r)
          <5>1. step'[r] = "DONE"
            BY <1>0, <4>2 DEF AckTimeout, JobEnds, Finish, Typed
          <5>. QED BY <5>1
        <4>3. CASE ToolEnds(r)
          <5>1. step[r] \in {"DUMPING", "SNAPSHOTTING"} \/ step'[r] \in {"PRUNING", "DONE"}
            BY <1>0, <4>3 DEF ToolEnds, Enter, Finish, After, Typed
          <5>. QED BY <5>1
        <4>4. CASE Acknowledge(r)
          <5>1. waiter[r] = r
            BY <1>0 DEF JobInv
          <5>2. (step[r] = "QUIESCE_REQUESTED" /\ r \in acks) \/ step' = step
            BY <4>4, <5>1 DEF Acknowledge
          <5>. QED BY <5>2, <2>1
        <4>. QED BY <1>2, <4>1, <4>2, <4>3, <4>4
      <3>. HIDE DEF Owed
      <3>5. ASSUME NEW j \in Jobs, Owed(j)' PROVE Owed(j)
        <4>1. CASE j = r
          BY <3>4, <3>5, <4>1
        <4>2. CASE j # r
          BY <2>1, <3>2, <3>5, <4>2 DEF Owed
        <4>. QED BY <4>1, <4>2
      <3>6. \A j \in Jobs : ~Early(j) => ~Early(j)' /\ (Working(j)' => Working(j) /\ since'[j] = since[j])
        BY <1>0, <3>1, <3>2, <3>3 DEF Typed, Steps
      <3>. QED BY <2>1, <3>3, <3>5, <3>6 DEF Tame
    <2>. QED BY <1>0, <1>2, <2>2, <2>3, OwnJob
  <1>3. CASE AgentRestart
    <2>1. \A s \in Jobs : step'[s] = (IF step[s] = "IDLE" THEN "IDLE" ELSE "DONE")
      BY <1>3 DEF AgentRestart
    <2>2. UNCHANGED <<acks, now, freeze, inFlight, running, tick, heard, open>>
      BY <1>3 DEF AgentRestart, gate, loop
    <2>. QED BY <2>1, <2>2 DEF Tame
  <1>. QED BY <1>1, <1>2, <1>3 DEF Agent

(* What Drive knows of a job, after a step. *)
ToldNext(j, until) ==
    /\ j \in Jobs /\ step'[j] \notin {"IDLE", "ASKED", "RECORDED"}
    /\ step'[j] \in Phases => until = since'[j] + Lease

LEMMA DriveNext ==
    ASSUME inFlight' = running', heard'.quiesce => heard'.reached /\ ToldNext(heard'.job, heard'.until),
           freeze'.job # None => ToldNext(freeze'.job, freeze'.until),
           \A j \in acks' : ~Early(j)', tick' = "HEARD" /\ ~heard'.reached => open'
    PROVE  DriveInv'
  BY DEF DriveInv, Told, ToldNext, Early, Working

(* Such a step takes nothing from what Drive knows. *)
LEMMA TameKeeps ==
    ASSUME Typed, DriveInv, FreezeInv, Tame
    PROVE  DriveInv' /\ FreezeInv'
  <1>1. ASSUME NEW j, NEW until, Told(j, until) PROVE ToldNext(j, until)
    BY <1>1 DEF Tame, Told, ToldNext, Early, Working
  <1>2. DriveInv'
    <2>1. \A j \in acks' : ~Early(j)'
      BY DEF DriveInv, Tame, Typed
    <2>2. heard.quiesce => heard.reached /\ ToldNext(heard.job, heard.until)
      BY <1>1 DEF DriveInv
    <2>3. freeze.job # None => ToldNext(freeze.job, freeze.until)
      BY <1>1 DEF DriveInv
    <2>4. UNCHANGED <<freeze, inFlight, running, tick, heard, open>>
      BY DEF Tame
    <2>. QED BY <2>1, <2>2, <2>3, <2>4, DriveNext DEF DriveInv
  <1>3. FreezeInv'
    <2>1. ASSUME NEW j \in Jobs, Owed(j)', WithinLease(j)' PROVE (Closed(j) /\ Confirmed(j))'
      <3>1. Owed(j) /\ since'[j] = since[j] /\ WithinLease(j)
        BY <2>1 DEF Tame, WithinLease
      <3>. QED BY <3>1 DEF FreezeInv, Closed, Confirmed, Frozen, Tame
    <2>. QED BY <2>1 DEF FreezeInv
  <1>. QED BY <1>2, <1>3

(* Steps of Drive, and the clock, leave the jobs as they are. *)
JobsRest == UNCHANGED <<step, since>>

(* What Drive hears, holds and acknowledges. *)
LEMMA DriveStep ==
    ASSUME Faults = {}, IInv, Pass \/ Drive \/ DriveRestart \/ UNCHANGED vars
    PROVE  DriveInv'
  <1>0. Typed /\ JobInv /\ DriveInv
    BY TypeFacts DEF IInv
  <1>1. JobsRest
    BY DEF Pass, Drive, Admit, EndRequest, Poll, Hear, AckEnds, DriveRestart, vars, runner, JobsRest
  <1>2. \A j, until : Told(j, until) => ToldNext(j, until)
    BY <1>1 DEF Told, ToldNext, Early, Working, JobsRest
  <1>3. \A j \in Jobs : ~Early(j) => ~Early(j)'
    BY <1>1 DEF Early, JobsRest
  <1>4. CASE UNCHANGED <<freeze, heard, tick, open, acks>> /\ inFlight' = running'
    BY <1>0, <1>2, <1>3, <1>4, DriveNext DEF DriveInv, Typed
  <1>5. Pass \/ Admit \/ UNCHANGED vars => UNCHANGED <<freeze, heard, tick, open, acks>> /\ inFlight' = running'
    BY <1>0 DEF Pass, Admit, vars, gate, loop, DriveInv
  <1>6. EndRequest => UNCHANGED <<freeze, heard, tick, open, acks>> /\ inFlight' = running'
    BY <1>0 DEF EndRequest, loop, DriveInv, Typed
  <1>7. CASE Poll
    <2>1. Status.quiesce => Told(Status.job, Status.until)
      <3>1. CASE current \in Jobs /\ phase[current] \in QuiescedPhases
        <4>1. ~Early(current)
          BY <1>0, <3>1 DEF JobInv, QuiescedPhases
        <4>. QED BY <1>0, <3>1, <4>1 DEF Status, Silence, Told, Typed
      <3>. QED BY <1>0, <3>1 DEF Status, Silence, Typed
    <2>2. heard' = Status \/ (heard' = Silence /\ open)
      BY <1>7 DEF Poll
    <2>3. ~Silence.quiesce /\ ~Silence.reached /\ Status.reached
      BY DEF Silence, Status
    <2>4. UNCHANGED <<freeze, inFlight, running, acks, open>>
      BY <1>7 DEF Poll, gate
    <2>. HIDE DEF Status, Silence
    <2>5. heard'.quiesce => Told(heard'.job, heard'.until)
      BY <2>1, <2>2, <2>3
    <2>6. heard'.quiesce => ToldNext(heard'.job, heard'.until)
      BY <2>5, <1>2
    <2>. QED BY <1>0, <1>2, <1>3, <2>2, <2>3, <2>4, <2>6, DriveNext DEF DriveInv, Typed
  <1>8. CASE Hear
    <2>1. freeze' \in {freeze, NoFreeze} \/ (heard.quiesce /\ freeze' = [job |-> heard.job, until |-> heard.until])
      BY <1>8 DEF Hear
    <2>2. freeze'.job # None => Told(freeze'.job, freeze'.until)
      BY <1>0, <2>1 DEF DriveInv, NoFreeze
    <2>3. \A j \in acks' : j \in acks \/ (heard.quiesce /\ j = heard.job)
      BY <1>8 DEF Hear
    <2>4. \A j \in acks' : j \in Jobs /\ ~Early(j)
      BY <1>0, <2>3 DEF DriveInv, Told, Typed
    <2>5. ~heard'.quiesce /\ tick' # "HEARD"
      BY <1>8 DEF Hear, Silence
    <2>6. freeze'.job # None => ToldNext(freeze'.job, freeze'.until)
      BY <1>2, <2>2
    <2>7. \A j \in acks' : ~Early(j)'
      BY <1>3, <2>4
    <2>8. inFlight' = running'
      BY <1>0, <1>8 DEF Hear, DriveInv
    <2>. QED BY <2>5, <2>6, <2>7, <2>8, DriveNext
  <1>9. CASE AckEnds
    <2>1. UNCHANGED <<freeze, heard, inFlight, running>> /\ tick' = "IDLE" /\ acks' \subseteq acks
      BY <1>9 DEF AckEnds, gate
    <2>. QED BY <1>0, <1>2, <1>3, <2>1, DriveNext DEF DriveInv, Typed
  <1>10. CASE DriveRestart
    <2>1. inFlight' = running' /\ freeze'.job = None /\ ~heard'.quiesce /\ tick' = "IDLE" /\ acks' = acks
      BY <1>10 DEF DriveRestart, NoFreeze, Silence
    <2>. QED BY <1>0, <1>3, <2>1, DriveNext DEF DriveInv, Typed
  <1>. QED BY <1>4, <1>5, <1>6, <1>7, <1>8, <1>9, <1>10 DEF Drive

(* A job that reads or may begin to is current, in the phase its code is in. *)
LEMMA OwedIsCurrent ==
    ASSUME Typed, JobInv, NEW j \in Jobs, Owed(j)
    PROVE  current = j /\ Working(j) /\ phase[j] = step[j] /\ phase[j] \in QuiescedPhases
  BY DEF JobInv, Owed, Working, AtWork, Reading, Phases, QuiescedPhases

(* Within the lease of a job that reads, Drive admits nothing and keeps the
   freeze, whatever it hears, loses or forgets. *)
LEMMA FreezeStep ==
    ASSUME Faults = {}, IInv, Pass \/ Drive \/ DriveRestart \/ UNCHANGED vars
    PROVE  FreezeInv'
  <1>0. Typed /\ JobInv /\ DriveInv /\ FreezeInv
    BY TypeFacts DEF IInv
  <1>1. JobsRest /\ now' \in {now, now + 1}
    BY DEF Pass, Drive, Admit, EndRequest, Poll, Hear, AckEnds, DriveRestart, vars, runner, JobsRest
  <1>. SUFFICES ASSUME NEW j \in Jobs, Owed(j)', WithinLease(j)' PROVE (Closed(j) /\ Confirmed(j))'
    BY DEF FreezeInv
  <1>2. WithinLease(j) /\ since[j] \in Nat /\ since' = since /\ step' = step
    BY <1>0, <1>1 DEF WithinLease, Typed, JobsRest
  <1>3. Owed(j) => Closed(j) /\ Confirmed(j)
    BY <1>0, <1>2 DEF FreezeInv
  <1>4. acks' \subseteq acks => Owed(j)
    BY <1>2 DEF Owed
  <1>5. Frozen(j) => FreezeActive
    BY <1>0, <1>2 DEF Frozen, FreezeActive, WithinLease, Typed
  <1>6. CASE Pass \/ UNCHANGED vars
    <2>1. UNCHANGED <<acks, running, freeze, open, tick, heard>>
      BY <1>6 DEF Pass, vars, gate, loop
    <2>. QED BY <2>1, <1>2, <1>3, <1>4 DEF Closed, Confirmed, Frozen
  <1>7. CASE Admit
    <2>1. Owed(j) /\ open /\ ~FreezeActive
      BY <1>4, <1>7 DEF Admit
    <2>. QED BY <2>1, <1>3, <1>5 DEF Closed
  <1>8. CASE EndRequest
    <2>1. Owed(j) /\ running > 0
      BY <1>4, <1>8 DEF EndRequest
    <2>. QED BY <2>1, <1>3 DEF Closed
  <1>9. CASE Poll
    <2>1. Owed(j) /\ UNCHANGED <<running, freeze, open>> /\ tick = "IDLE" /\ tick' = "HEARD"
      BY <1>4, <1>9 DEF Poll, gate
    <2>2. current = j /\ phase[j] \in QuiescedPhases /\ None \notin Jobs
      BY <1>0, <2>1, OwedIsCurrent DEF Typed
    <2>3. heard' \in {Status, Silence}
      BY <1>9 DEF Poll
    <2>4. heard'.reached => heard'.quiesce /\ heard'.job = j
      <3>1. Status.quiesce /\ Status.job = j
        BY <1>2, <2>2 DEF Status
      <3>2. ~Silence.reached
        BY DEF Silence
      <3>. HIDE DEF Status, Silence
      <3>. QED BY <2>3, <3>1, <3>2
    <2>. QED BY <2>1, <2>4, <1>2, <1>3 DEF Closed, Confirmed, Frozen
  <1>10. CASE Hear
    <2>1. running' = running /\ inFlight = running /\ tick = "HEARD" /\ tick' # "HEARD"
      BY <1>0, <1>10 DEF Hear, DriveInv
    <2>2. CASE Owed(j)
      <3>1. Closed(j) /\ Confirmed(j) /\ Working(j)
        BY <1>0, <1>3, <2>2, OwedIsCurrent
      <3>2. CASE ~heard.reached
        <4>1. Frozen(j) /\ FreezeActive
          BY <1>0, <1>5, <2>1, <3>1, <3>2 DEF Closed, DriveInv
        <4>2. freeze' = freeze
          BY <1>10, <3>2, <4>1 DEF Hear
        <4>. QED BY <1>2, <2>1, <3>1, <4>1, <4>2 DEF Closed, Confirmed, Frozen
      <3>3. CASE heard.reached
        <4>1. heard.quiesce /\ heard.job = j
          BY <2>1, <3>1, <3>3 DEF Confirmed
        <4>2. heard.until = since[j] + Lease
          BY <1>0, <3>1, <4>1 DEF DriveInv, Told
        <4>3. freeze.job = j => freeze.until = since[j] + Lease
          BY <1>0, <3>1 DEF DriveInv, Told, Typed
        <4>4. freeze'.job = j /\ freeze'.until = since[j] + Lease
          BY <1>10, <3>3, <4>1, <4>2, <4>3 DEF Hear
        <4>. QED BY <1>2, <2>1, <3>1, <4>4 DEF Closed, Confirmed, Frozen
      <3>. QED BY <3>2, <3>3
    <2>3. CASE ~Owed(j)
      <3>1. j \in acks' /\ j \notin acks /\ step[j] = "QUIESCE_REQUESTED"
        BY <1>2, <2>3 DEF Owed
      <3>2. heard.quiesce /\ inFlight = 0 /\ heard.job = j
        BY <1>10, <3>1 DEF Hear
      <3>3. Working(j)
        BY <3>1 DEF Working, Phases, QuiescedPhases
      <3>4. heard.until = since[j] + Lease /\ (freeze.job = j => freeze.until = since[j] + Lease)
        BY <1>0, <3>2, <3>3 DEF DriveInv, Told, Typed
      <3>5. freeze'.job = j /\ freeze'.until = since[j] + Lease
        <4>1. CASE heard.reached
          BY <1>10, <3>2, <3>4, <4>1 DEF Hear
        <4>2. CASE ~heard.reached
          BY <1>0, <3>2, <4>2 DEF DriveInv
        <4>. QED BY <4>1, <4>2
      <3>. QED BY <1>2, <2>1, <3>2, <3>5 DEF Closed, Confirmed, Frozen
    <2>. QED BY <2>2, <2>3
  <1>11. CASE AckEnds
    <2>1. Owed(j) /\ UNCHANGED <<running, freeze>> /\ tick = "ACKING" /\ tick' = "IDLE"
      BY <1>4, <1>11 DEF AckEnds, gate
    <2>. QED BY <2>1, <1>2, <1>3 DEF Closed, Confirmed, Frozen
  <1>12. CASE DriveRestart
    BY <1>12 DEF DriveRestart, Closed, Confirmed
  <1>. QED BY <1>6, <1>7, <1>8, <1>9, <1>10, <1>11, <1>12 DEF Drive

-----------------------------------------------------------------------------
(* A job is spoilt only outside its lease, and then it fails. *)
LEMMA SpoiltStep ==
    ASSUME Faults = {}, IInv, [Next]_vars, ~overlapped'
    PROVE  SpoiltInv'
  <1>0. Typed /\ JobInv /\ DriveInv /\ FreezeInv /\ SpoiltInv
    BY TypeFacts DEF IInv
  <1>. USE DEF Reading
  <1>1. CASE Pass
    <2>1. \A j \in Jobs : ~WithinLease(j) => ~WithinLease(j)'
      BY <1>0, <1>1 DEF Pass, WithinLease, Typed, runner
    <2>2. UNCHANGED <<spoilt, step, record>>
      BY <1>1 DEF Pass, runner
    <2>. QED BY <1>0, <2>1, <2>2 DEF SpoiltInv, Typed
  <1>2. ASSUME NEW r \in Jobs, Ask(r) \/ SetCurrent(r) PROVE SpoiltInv'
    <2>1. \A s \in Jobs : s # r => step'[s] = step[s] /\ since'[s] = since[s] /\ record'[s] = record[s]
      BY <1>0, <1>2 DEF Ask, SetCurrent, Typed
    <2>2. step[r] \in {"IDLE", "ASKED"} /\ record'[r] \in {record[r], "RUNNING"} /\ now' = now /\ spoilt' = spoilt
      BY <1>0, <1>2 DEF Ask, SetCurrent, Typed
    <2>3. r \notin spoilt /\ record[r] # "SUCCESS"
      BY <1>0, <2>2 DEF SpoiltInv
    <2>. QED BY <1>0, <2>1, <2>2, <2>3 DEF SpoiltInv, WithinLease, Typed
  <1>3. ASSUME NEW r \in Jobs, Launch(r) \/ AckTimeout(r) \/ ToolEnds(r) \/ JobEnds(r) \/ Acknowledge(r)
        PROVE  SpoiltInv'
    <2>1. now' = now /\ since' = since
      BY <1>3 DEF Launch, AckTimeout, ToolEnds, JobEnds, Acknowledge
    <2>2. spoilt' = spoilt
      <3>1. CASE Acknowledge(r) /\ Owed(r) /\ WithinLease(r)
        <4>1. running = 0
          BY <1>0, <3>1 DEF FreezeInv, Closed
        <4>. QED BY <3>1, <4>1 DEF Acknowledge, Spoils
      <3>2. CASE Acknowledge(r) /\ ~(Owed(r) /\ WithinLease(r))
        <4>1. waiter[r] = r
          BY <1>0 DEF JobInv
        <4>. QED BY <3>2, <4>1 DEF Acknowledge, Owed
      <3>3. CASE ~Acknowledge(r)
        BY <1>3, <3>3 DEF Launch, AckTimeout, ToolEnds, JobEnds
      <3>. QED BY <3>1, <3>2, <3>3
    <2>3. CASE UNCHANGED <<step, phase, current, record, on, waiter, since>>
      BY <1>0, <2>1, <2>2, <2>3 DEF SpoiltInv, WithinLease, Typed
    <2>4. CASE CallStep(r) /\ ~UNCHANGED <<step, phase, current, record, on, waiter, since>>
      <3>1. \A s \in Jobs : s # r => step'[s] = step[s] /\ record'[s] = record[s]
        BY <1>0, <2>4, CallEffect
      <3>2. step[r] # "DONE" /\ record[r] # "SUCCESS"
        BY <1>0, <2>4 DEF CallStep, Phases, QuiescedPhases, SpoiltInv
      <3>3. r \in spoilt => step[r] \in Reading /\ ~WithinLease(r)
        BY <1>0, <3>2 DEF SpoiltInv
      <3>4. r \in spoilt => step'[r] = "DONE" /\ record'[r] # "SUCCESS"
        <4>. SUFFICES ASSUME r \in spoilt PROVE step'[r] = "DONE" /\ record'[r] # "SUCCESS"
          OBVIOUS
        <4>1. on[r] = r /\ waiter[r] = r
          BY <1>0 DEF JobInv
        <4>2. CASE ToolEnds(r)
          BY <1>0, <3>2, <3>3, <4>1, <4>2 DEF ToolEnds, Finish, Typed
        <4>3. CASE ~ToolEnds(r) /\ ~Acknowledge(r)
          BY <1>3, <2>4, <3>3, <4>3 DEF Launch, AckTimeout, JobEnds
        <4>4. CASE Acknowledge(r)
          BY <2>4, <3>3, <4>1, <4>4 DEF Acknowledge
        <4>. QED BY <4>2, <4>3, <4>4
      <3>5. record'[r] = "SUCCESS" => step'[r] = "DONE"
        <4>1. step'[r] \in Phases => record' = record
          BY <1>0, <2>4, CallEffect DEF Phases, QuiescedPhases
        <4>2. step'[r] \in Phases \cup {"DONE"}
          BY <1>0, <2>4, CallEffect
        <4>. QED BY <3>2, <4>1, <4>2
      <3>. QED BY <1>0, <2>1, <2>2, <3>1, <3>4, <3>5 DEF SpoiltInv, WithinLease, Typed
    <2>. QED BY <1>0, <1>3, <2>3, <2>4, OwnJob
  <1>4. CASE AgentRestart
    <2>1. \A s \in Jobs : step'[s] = (IF step[s] = "IDLE" THEN "IDLE" ELSE "DONE")
      BY <1>4 DEF AgentRestart
    <2>2. UNCHANGED <<spoilt, record>>
      BY <1>4 DEF AgentRestart
    <2>. QED BY <1>0, <2>1, <2>2 DEF SpoiltInv, Typed
  <1>5. CASE Admit
    <2>1. UNCHANGED <<step, since, record, now>>
      BY <1>5 DEF Admit, runner
    <2>2. ASSUME NEW j \in spoilt' \ spoilt PROVE step[j] \in Reading /\ ~WithinLease(j) /\ j \in Jobs
      <3>1. j \in Jobs /\ \E r \in Jobs : step[r] \in Reading /\ on[r] = j
        <4>1. Spoils({on[r] : r \in {s \in Jobs : step[s] \in Reading}})
          BY <1>5 DEF Admit
        <4>2. j \in {on[r] : r \in {s \in Jobs : step[s] \in Reading}}
          BY <2>2, <4>1 DEF Spoils
        <4>. QED BY <1>0, <4>2 DEF Typed
      <3>2. step[j] \in Reading /\ Owed(j)
        BY <1>0, <3>1 DEF JobInv, Owed
      <3>3. ASSUME WithinLease(j) PROVE FALSE
        <4>1. Closed(j)
          BY <1>0, <3>1, <3>2, <3>3 DEF FreezeInv
        <4>2. FreezeActive
          BY <1>0, <1>5, <3>1, <3>3, <4>1 DEF Closed, Frozen, Admit, FreezeActive, WithinLease, Typed
        <4>. QED BY <1>5, <4>2 DEF Admit
      <3>. QED BY <3>1, <3>2, <3>3
    <2>. QED BY <1>0, <2>1, <2>2 DEF SpoiltInv, WithinLease
  <1>6. CASE UNCHANGED <<spoilt, step, since, record, now>>
    BY <1>0, <1>6 DEF SpoiltInv, WithinLease
  <1>7. EndRequest \/ Poll \/ Hear \/ AckEnds \/ DriveRestart \/ UNCHANGED vars
        => UNCHANGED <<spoilt, step, since, record, now>>
    BY DEF EndRequest, Poll, Hear, AckEnds, DriveRestart, vars, runner
  <1>. QED BY <1>1, <1>2, <1>3, <1>4, <1>5, <1>6, <1>7 DEF Next, Agent, Drive

-----------------------------------------------------------------------------
(* What has overlapped has overlapped for good. *)
LEMMA OverlapLasts == overlapped /\ [Next]_vars => overlapped'
  BY Zenon DEF Next, Pass, Agent, Ask, SetCurrent, Launch, AckTimeout, Acknowledge, ToolEnds, JobEnds,
     AgentRestart, Drive, Admit, EndRequest, Poll, Hear, AckEnds, DriveRestart, vars

(* The invariant holds, without faults, until a call takes the place of a job
   at work. *)
THEOREM Invariance == ASSUME Faults = {} PROVE Spec => [](overlapped \/ IInv)
  <1>1. IInv => TellsOfJob
    BY BackupAssumption DEF IInv, DriveInv, Told, TellsOfJob
  <1>2. ASSUME IInv, [Next]_vars, ~overlapped' PROVE IInv'
    <2>1. TypeOK'
      BY <1>1, <1>2, TypeStep DEF IInv
    <2>2. JobInv' /\ SpoiltInv'
      BY <1>2, JobStep, SpoiltStep
    <2>3. DriveInv' /\ FreezeInv'
      <3>1. CASE Agent \/ AgentRestart
        BY <1>2, <3>1, AgentIsTame, TameKeeps, TypeFacts DEF IInv
      <3>2. CASE Pass \/ Drive \/ DriveRestart \/ UNCHANGED vars
        BY <1>2, <3>2, DriveStep, FreezeStep
      <3>. QED BY <1>2, <3>1, <3>2 DEF Next
    <2>. QED BY <2>1, <2>2, <2>3 DEF IInv
  <1>3. (overlapped \/ IInv) /\ [Next]_vars => (overlapped \/ IInv)'
    BY <1>2, OverlapLasts
  <1>. QED BY InitHolds, <1>3, PTL DEF Spec

(* Every variable keeps its type, with any of the faults: in particular Drive
   never counts more requests than run (maintenance.js). *)
THEOREM TypeCorrect == Spec => []TypeOK
  <1>1. Init => TypeOK /\ TellsOfJob
    BY InitHolds DEF IInv, Init, Silence, TellsOfJob
  <1>2. (TypeOK /\ TellsOfJob) /\ [Next]_vars => (TypeOK /\ TellsOfJob)'
    BY TypeStep, TellsStep
  <1>. QED BY <1>1, <1>2, PTL DEF Spec

(* A backup recorded as a success read nothing while a request that moves or
   removes bytes ran: the freeze, its acknowledgement and the two lease tests of
   job.js hold up against everything but the two faults and a call that takes
   the place of a job at work. *)
THEOREM ConsistentCorrect == ASSUME Faults = {} PROVE Spec => []SuccessIsConsistent
  <1>1. overlapped \/ IInv => SuccessIsConsistent
    BY DEF IInv, SpoiltInv, SuccessIsConsistent
  <1>. QED BY Invariance, <1>1, PTL
===================================================================================
