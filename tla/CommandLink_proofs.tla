-------------------------- MODULE CommandLink_proofs --------------------------
(***************************************************************************)
(* Proofs about CommandLink, DeadMan and their composition Relay, for all  *)
(* values of their constants.                                              *)
(*                                                                         *)
(* The command path: one inductive invariant, IInv, carries all of it.     *)
(* The device part orders what the relay executed, the evidence part ties  *)
(* replies to executions, the issuer part ties rows and verdicts to        *)
(* frames.  The dead-man switch: DeadInv, with the arithmetic of millis()  *)
(* and a counting argument for the ring.  The device: each of its steps is *)
(* a step of one module and leaves the other alone, or a step of both.     *)
(***************************************************************************)
EXTENDS Relay, FiniteSetTheorems, TLAPS

(* Every executed number is at or below the RAM mark, the RAM mark never runs
   ahead of flash, and a command between persist and relay is newer than all
   that ran. *)
DeviceInv ==
    /\ ExecutedInOrder
    /\ \A i \in DOMAIN executed : executed[i] <= hwm
    /\ hwm <= nvs
    /\ stage # "IDLE" => current \in sent /\ current.seq <= hwm
    /\ stage = "PERSISTED" => \A i \in DOMAIN executed : executed[i] < current.seq
    /\ stage = "ACTUATED" => current.seq \in ExecutedSeqs
    /\ ExecutedSeqs \subseteq SentSeqs

EvidenceInv ==
    /\ \A m \in acks : m.result = "ACCEPTED" => m.seq \in ExecutedSeqs
    /\ \A m \in statuses : m.reason = "COMMAND" => m.seq \in ExecutedSeqs
    /\ EvidenceIsTrue

(* A number with no row was never sent nor reported on, and a number in the
   issuing thread's hand is sent exactly when the thread is past publish. *)
IssuerInv ==
    /\ UnsentIsUnsent
    /\ \A s \in Seqs : row[s] # "FREE" => s <= alloc
    /\ \A s \in Seqs : row[s] = "FREE" => s \notin SentSeqs /\ told[s] = "NONE"
    /\ phase # "IDLE" => inHand \in Commands /\ told[inHand.seq] = "NONE"
                         /\ row[inHand.seq] = "RESERVED"
    /\ phase = "RESERVED" => inHand.seq \notin SentSeqs
    /\ phase = "ON_WIRE" => inHand \in sent

IInv == TypeOK /\ DeviceInv /\ EvidenceInv /\ IssuerInv

-----------------------------------------------------------------------------
(* What Actuate does to the executed history: one more number, and every old
   entry keeps its place. *)
LEMMA ActuateAppends ==
    ASSUME TypeOK, current \in Commands, Actuate
    PROVE  /\ executed' \in Seq(Seqs)
           /\ DOMAIN executed' = DOMAIN executed \cup {Len(executed) + 1}
           /\ DOMAIN executed = 1..Len(executed) /\ Len(executed) \in Nat
           /\ executed'[Len(executed) + 1] = current.seq
           /\ \A i \in DOMAIN executed : executed'[i] = executed[i]
           /\ ExecutedSeqs' = ExecutedSeqs \cup {current.seq}
<1>1. executed \in Seq(Seqs) /\ current.seq \in Seqs /\ executed' = Append(executed, current.seq)
  BY DEF TypeOK, Actuate, Commands
<1>2. /\ executed' \in Seq(Seqs)
      /\ DOMAIN executed = 1..Len(executed) /\ Len(executed) \in Nat
      /\ DOMAIN executed' = 1..(Len(executed) + 1)
  BY <1>1
<1>3. DOMAIN executed' = DOMAIN executed \cup {Len(executed) + 1}
  BY <1>2
<1>4. /\ executed'[Len(executed) + 1] = current.seq
      /\ \A i \in DOMAIN executed : executed'[i] = executed[i]
  BY <1>1, <1>2
<1>5. ExecutedSeqs' = ExecutedSeqs \cup {current.seq}
  BY <1>3, <1>4 DEF ExecutedSeqs
<1> QED BY <1>2, <1>3, <1>4, <1>5

(* The initial states satisfy the inductive invariant. *)
LEMMA InitIInv == Init => IInv
<1> SUFFICES ASSUME Init PROVE IInv
  OBVIOUS
<1> USE CeilingAssumption, MarksAssumption
<1>0. executed = <<>> /\ DOMAIN executed = {} /\ ExecutedSeqs = {} /\ SentSeqs = {}
  BY DEF Init, ExecutedSeqs, SentSeqs
<1>1. TypeOK
  BY <1>0 DEF Init, TypeOK, Seqs, RowStates, Outcomes
<1>2. DeviceInv
  BY <1>0 DEF Init, DeviceInv, ExecutedInOrder
<1>3. EvidenceInv
  BY <1>0 DEF Init, EvidenceInv, EvidenceIsTrue
<1>4. IssuerInv
  BY <1>0 DEF Init, IssuerInv, UnsentIsUnsent, OpenStates
<1> QED BY <1>1, <1>2, <1>3, <1>4 DEF IInv

-----------------------------------------------------------------------------
(* Every step keeps every variable in its type. *)
LEMMA TypeStep == IInv /\ [Next]_vars => TypeOK'
<1> SUFFICES ASSUME IInv, [Next]_vars PROVE TypeOK'
  OBVIOUS
<1> USE CeilingAssumption
<1> USE DEF IInv
<1>1. ASSUME NEW a \in Actions, Reserve(a) PROVE TypeOK'
  BY <1>1 DEF Reserve, TypeOK, Seqs, Commands, RowStates, network, device
<1>2. CASE Withdraw
  <2>1. inHand.seq \in Seqs
    BY <1>2 DEF Withdraw, IssuerInv, Commands
  <2>2. row' \in [Seqs -> RowStates] /\ told' \in [Seqs -> Outcomes]
    BY <1>2, <2>1 DEF Withdraw, TypeOK, RowStates, Outcomes
  <2> QED BY <1>2, <2>2 DEF Withdraw, TypeOK, network, device
<1>3. CASE Publish
  BY <1>3 DEF Publish, TypeOK, IssuerInv, store, device
<1>4. CASE PublishRaises
  <2>1. inHand \in Commands /\ inHand.seq \in Seqs
    BY <1>4 DEF PublishRaises, IssuerInv, Commands
  <2> QED BY <1>4, <2>1 DEF PublishRaises, TypeOK, Outcomes, store, device
<1>5. CASE RecordPublished
  <2>1. inHand.seq \in Seqs
    BY <1>5 DEF RecordPublished, IssuerInv, Commands
  <2>2. row' \in [Seqs -> RowStates] /\ told' \in [Seqs -> Outcomes]
    BY <1>5, <2>1 DEF RecordPublished, TypeOK, RowStates, Outcomes
  <2> QED BY <1>5, <2>2 DEF RecordPublished, TypeOK, network, device
<1>6. CASE CoreRestart
  <2>1. row' \in [Seqs -> RowStates]
    BY <1>6 DEF CoreRestart, TypeOK, RowStates
  <2> QED BY <1>6, <2>1 DEF CoreRestart, TypeOK, network, device
<1>7. ASSUME NEW m \in acks, ConsumeAck(m) PROVE TypeOK'
  <2>1. m.seq \in Seqs /\ m.result \in Results
    BY DEF TypeOK, Acks
  <2>2. row' \in [Seqs -> RowStates] /\ ack' \in [Seqs -> Results \cup {"NONE"}]
    BY <1>7, <2>1 DEF ConsumeAck, TypeOK, RowStates
  <2> QED BY <1>7, <2>2 DEF ConsumeAck, TypeOK, issuer, network, device
<1>8. ASSUME NEW m \in statuses, CorrelateStatus(m) PROVE TypeOK'
  <2>1. m.seq \in Seqs
    BY DEF TypeOK, Statuses
  <2> QED BY <1>8, <2>1 DEF CorrelateStatus, TypeOK, issuer, network, device
<1>9. ASSUME NEW m \in statuses, ResyncForward(m) PROVE TypeOK'
  <2>1. m.hwm \in Nat
    BY DEF TypeOK, Statuses
  <2>2. alloc' \in 0..Ceiling
    BY <1>9, <2>1 DEF ResyncForward, Lesser, TypeOK
  <2> QED BY <1>9, <2>2 DEF ResyncForward, TypeOK, issuer, network, device
<1>10. ASSUME NEW c \in sent, RejectExpired(c) PROVE TypeOK'
  <2>1. [seq |-> c.seq, result |-> "REJECTED_EXPIRED"] \in Acks
    BY DEF TypeOK, Commands, Acks, Results
  <2> QED BY <1>10, <2>1 DEF RejectExpired, TypeOK, store, issuer, device
<1>11. ASSUME NEW c \in sent, RejectSequence(c) PROVE TypeOK'
  <2>1. /\ [seq |-> c.seq, result |-> "REJECTED_SEQUENCE"] \in Acks
        /\ [seq |-> c.seq, reason |-> "SEQUENCE_REJECTED", hwm |-> hwm] \in Statuses
    BY DEF TypeOK, Commands, Acks, Results, Statuses
  <2> QED BY <1>11, <2>1 DEF RejectSequence, TypeOK, store, issuer, device
<1>12. ASSUME NEW c \in sent, RejectPersist(c) PROVE TypeOK'
  <2>1. [seq |-> c.seq, result |-> "REJECTED_PERSIST"] \in Acks /\ c.seq \in Nat
    BY DEF TypeOK, Commands, Seqs, Acks, Results
  <2> QED BY <1>12, <2>1 DEF RejectPersist, TypeOK, store, issuer
<1>13. ASSUME NEW c \in sent, Accept(c) PROVE TypeOK'
  <2>1. c \in Commands /\ c.seq \in Nat
    BY DEF TypeOK, Commands, Seqs
  <2> QED BY <1>13, <2>1 DEF Accept, TypeOK, store, issuer, network
<1>14. CASE Actuate
  <2>1. current \in Commands
    BY <1>14 DEF Actuate, DeviceInv, TypeOK
  <2>2. executed' \in Seq(Seqs)
    BY <1>14, <2>1, ActuateAppends
  <2> QED BY <1>14, <2>2 DEF Actuate, TypeOK, store, issuer, network
<1>15. CASE Report
  <2>1. current \in Commands
    BY <1>15 DEF Report, DeviceInv, TypeOK
  <2>2. /\ [seq |-> current.seq, result |-> "ACCEPTED"] \in Acks
        /\ [seq |-> current.seq, reason |-> "COMMAND", hwm |-> hwm] \in Statuses
    BY <2>1 DEF TypeOK, Commands, Acks, Results, Statuses
  <2> QED BY <1>15, <2>2 DEF Report, TypeOK, store, issuer
<1>16. CASE FailSecure
  BY <1>16 DEF FailSecure, TypeOK, store, issuer, network
<1>17. CASE DeviceReboot
  BY <1>17 DEF DeviceReboot, TypeOK, store, issuer, network
<1>18. CASE UNCHANGED vars
  BY <1>18 DEF TypeOK, vars, store, issuer, network, device
<1> QED BY <1>1, <1>2, <1>3, <1>4, <1>5, <1>6, <1>7, <1>8, <1>9, <1>10, <1>11, <1>12,
           <1>13, <1>14, <1>15, <1>16, <1>17, <1>18
        DEF Next, Issue, Receive, Handle

-----------------------------------------------------------------------------
(* Frames once sent stay sent, and only Actuate extends the executed history. *)
LEMMA HistoryGrows ==
    ASSUME IInv, [Next]_vars
    PROVE  /\ sent \subseteq sent'
           /\ SentSeqs \subseteq SentSeqs'
           /\ ExecutedSeqs \subseteq ExecutedSeqs'
           /\ ~Actuate => executed' = executed
<1>1. sent \subseteq sent'
  BY DEF Next, Issue, Reserve, Withdraw, Publish, PublishRaises, RecordPublished, CoreRestart,
         Receive, ConsumeAck, CorrelateStatus, ResyncForward, Handle, RejectExpired,
         RejectSequence, RejectPersist, Accept, Actuate, Report, FailSecure, DeviceReboot,
         vars, network
<1>2. ~Actuate => executed' = executed
  BY DEF Next, Issue, Reserve, Withdraw, Publish, PublishRaises, RecordPublished, CoreRestart,
         Receive, ConsumeAck, CorrelateStatus, ResyncForward, Handle, RejectExpired,
         RejectSequence, RejectPersist, Accept, Report, FailSecure, DeviceReboot,
         vars, device
<1>3. ExecutedSeqs \subseteq ExecutedSeqs'
  <2>1. CASE Actuate
    <3>1. current \in Commands
      BY <2>1 DEF Actuate, IInv, DeviceInv, TypeOK
    <3> QED BY <2>1, <3>1, ActuateAppends DEF IInv
  <2>2. CASE ~Actuate
    BY <1>2, <2>2 DEF ExecutedSeqs
  <2> QED BY <2>1, <2>2
<1> QED BY <1>1, <1>2, <1>3 DEF SentSeqs

(* The device steps.  Accept is the only one that lifts a mark, Actuate the only
   one that extends the history; a reboot reloads a mark that is never behind. *)
LEMMA DeviceStep == IInv /\ [Next]_vars => DeviceInv'
<1> SUFFICES ASSUME IInv, [Next]_vars PROVE DeviceInv'
  OBVIOUS
<1> USE DEF IInv
<1>0. /\ sent \subseteq sent' /\ SentSeqs \subseteq SentSeqs' /\ hwm \in Nat /\ nvs \in Nat
      /\ \A c \in sent : c.seq \in Nat /\ c.seq \in SentSeqs
      /\ \A i \in DOMAIN executed : executed[i] \in Nat
  <2>1. sent \subseteq sent' /\ SentSeqs \subseteq SentSeqs'
    BY HistoryGrows
  <2>2. hwm \in Nat /\ nvs \in Nat /\ sent \subseteq Commands /\ executed \in Seq(Seqs)
    BY DEF TypeOK
  <2>3. \A c \in sent : c.seq \in Nat /\ c.seq \in SentSeqs
    BY <2>2 DEF Commands, Seqs, SentSeqs
  <2>4. \A i \in DOMAIN executed : executed[i] \in Nat
    <3>1. \A i \in DOMAIN executed : executed[i] \in Seqs
      BY <2>2
    <3>2. Seqs \subseteq Nat
      BY CeilingAssumption DEF Seqs
    <3> QED BY <3>1, <3>2
  <2> QED BY <2>1, <2>2, <2>3, <2>4
<1>1. ASSUME UNCHANGED device PROVE DeviceInv'
  BY <1>0, <1>1 DEF device, DeviceInv, ExecutedInOrder, ExecutedSeqs
<1>2. ASSUME NEW c \in sent, RejectPersist(c) PROVE DeviceInv'
  BY <1>0, <1>2 DEF RejectPersist, DeviceInv, ExecutedInOrder, ExecutedSeqs
<1>3. ASSUME NEW c \in sent, Accept(c) PROVE DeviceInv'
  <2>1. \A i \in DOMAIN executed : executed[i] < c.seq
    BY <1>0, <1>3 DEF Accept, DeviceInv
  <2>2. \A i \in DOMAIN executed : executed[i] <= c.seq
    BY <1>0, <2>1
  <2> QED BY <1>0, <1>3, <2>1, <2>2 DEF Accept, DeviceInv, ExecutedInOrder, ExecutedSeqs
<1>4. CASE Actuate
  <2>0. current \in Commands /\ current \in sent /\ current.seq \in Nat /\ current.seq <= hwm
        /\ current.seq \in SentSeqs
    BY <1>0, <1>4 DEF Actuate, DeviceInv, TypeOK
  <2>1. /\ DOMAIN executed' = DOMAIN executed \cup {Len(executed) + 1}
        /\ DOMAIN executed = 1..Len(executed) /\ Len(executed) \in Nat
        /\ executed'[Len(executed) + 1] = current.seq
        /\ \A i \in DOMAIN executed : executed'[i] = executed[i]
        /\ ExecutedSeqs' = ExecutedSeqs \cup {current.seq}
    BY <1>4, <2>0, ActuateAppends
  <2>2. \A i \in DOMAIN executed : executed[i] < current.seq
    BY <1>4 DEF Actuate, DeviceInv
  <2>3. ExecutedInOrder'
    <3> SUFFICES ASSUME NEW i \in DOMAIN executed', NEW j \in DOMAIN executed', i < j
                 PROVE  executed'[i] < executed'[j]
      BY DEF ExecutedInOrder
    <3>1. i \in DOMAIN executed
      BY <2>1
    <3>2. CASE j \in DOMAIN executed
      BY <2>1, <3>1, <3>2 DEF DeviceInv, ExecutedInOrder
    <3>3. CASE j = Len(executed) + 1
      BY <2>1, <2>2, <3>1, <3>3
    <3> QED BY <2>1, <3>2, <3>3
  <2>4. \A i \in DOMAIN executed' : executed'[i] <= hwm'
    BY <1>4, <2>0, <2>1 DEF Actuate, DeviceInv
  <2>5. (ExecutedSeqs \subseteq SentSeqs)'
    BY <1>0, <2>0, <2>1 DEF DeviceInv
  <2> QED BY <1>0, <1>4, <2>0, <2>1, <2>3, <2>4, <2>5 DEF Actuate, DeviceInv
<1>5. CASE Report
  BY <1>0, <1>5 DEF Report, DeviceInv, ExecutedInOrder, ExecutedSeqs
<1>6. CASE FailSecure
  BY <1>0, <1>6 DEF FailSecure, DeviceInv, ExecutedInOrder, ExecutedSeqs
<1>7. CASE DeviceReboot
  <2>1. \A i \in DOMAIN executed : executed[i] <= nvs
    BY <1>0 DEF DeviceInv
  <2> QED BY <1>0, <1>7, <2>1 DEF DeviceReboot, DeviceInv, ExecutedInOrder, ExecutedSeqs
<1> QED BY <1>1, <1>2, <1>3, <1>4, <1>5, <1>6, <1>7
        DEF Next, Issue, Reserve, Withdraw, Publish, PublishRaises, RecordPublished, CoreRestart,
            Receive, ConsumeAck, CorrelateStatus, ResyncForward, Handle, RejectExpired,
            RejectSequence, vars, device

(* A reply that speaks of an execution is sent only after it, and the Core
   records only what a reply said. *)
LEMMA EvidenceStep == IInv /\ [Next]_vars => EvidenceInv'
<1> SUFFICES ASSUME IInv, [Next]_vars PROVE EvidenceInv'
  OBVIOUS
<1> USE DEF IInv
<1>0. ExecutedSeqs \subseteq ExecutedSeqs'
  BY HistoryGrows
<1>1. ASSUME UNCHANGED <<acks, statuses, ack, correlated>> PROVE EvidenceInv'
  BY <1>0, <1>1 DEF EvidenceInv, EvidenceIsTrue
<1>2. ASSUME NEW m \in acks, ConsumeAck(m) PROVE EvidenceInv'
  <2>1. \A s \in Seqs : ack'[s] = "ACCEPTED" => ack[s] = "ACCEPTED" \/ s \in ExecutedSeqs
    BY <1>2 DEF ConsumeAck, EvidenceInv, TypeOK
  <2> QED BY <1>0, <1>2, <2>1 DEF ConsumeAck, EvidenceInv, EvidenceIsTrue, network
<1>3. ASSUME NEW m \in statuses, CorrelateStatus(m) PROVE EvidenceInv'
  BY <1>0, <1>3 DEF CorrelateStatus, EvidenceInv, EvidenceIsTrue, network
<1>4. ASSUME NEW c \in sent, RejectExpired(c) PROVE EvidenceInv'
  BY <1>0, <1>4 DEF RejectExpired, store, EvidenceInv, EvidenceIsTrue
<1>5. ASSUME NEW c \in sent, RejectSequence(c) PROVE EvidenceInv'
  BY <1>0, <1>5 DEF RejectSequence, store, EvidenceInv, EvidenceIsTrue
<1>6. ASSUME NEW c \in sent, RejectPersist(c) PROVE EvidenceInv'
  BY <1>0, <1>6 DEF RejectPersist, store, EvidenceInv, EvidenceIsTrue
<1>7. CASE Report
  <2>1. current.seq \in ExecutedSeqs
    BY <1>7 DEF Report, DeviceInv
  <2> QED BY <1>0, <1>7, <2>1 DEF Report, store, EvidenceInv, EvidenceIsTrue
<1> QED BY <1>1, <1>2, <1>3, <1>4, <1>5, <1>6, <1>7
        DEF Next, Issue, Reserve, Withdraw, Publish, PublishRaises, RecordPublished, CoreRestart,
            Receive, ResyncForward, Handle, Accept, Actuate, FailSecure, DeviceReboot,
            vars, store, network

(* The issuing thread: one fresh number at a time, its row ahead of its frame,
   its verdict after both. *)
LEMMA IssuerStep == IInv /\ [Next]_vars => IssuerInv'
<1> SUFFICES ASSUME IInv, [Next]_vars PROVE IssuerInv'
  OBVIOUS
<1> USE DEF IInv
<1>a. /\ SentSeqs \subseteq SentSeqs' /\ ExecutedSeqs \subseteq SentSeqs
      /\ alloc \in Nat /\ row \in [Seqs -> RowStates] /\ told \in [Seqs -> Outcomes]
      /\ \A s \in Seqs : s \in Nat
  BY CeilingAssumption, HistoryGrows DEF DeviceInv, TypeOK, Seqs
<1>b. ExecutedSeqs' \subseteq SentSeqs'
  BY DeviceStep DEF DeviceInv
<1>c. phase # "IDLE" => inHand.seq \in Seqs
  BY DEF IssuerInv, Commands
<1>1. ASSUME UNCHANGED <<alloc, row, phase, inHand, told, sent>> PROVE IssuerInv'
  BY <1>b, <1>1 DEF IssuerInv, UnsentIsUnsent, SentSeqs, OpenStates
<1>2. ASSUME NEW a \in Actions, Reserve(a) PROVE IssuerInv'
  <2>1. alloc + 1 \in Seqs /\ row[alloc + 1] = "FREE"
    BY <1>2, <1>a, CeilingAssumption DEF Reserve, Seqs, IssuerInv
  <2>2. /\ alloc + 1 \notin SentSeqs /\ told[alloc + 1] = "NONE"
        /\ inHand'.seq = alloc + 1 /\ inHand' \in Commands
        /\ row' = [row EXCEPT ![alloc + 1] = "RESERVED"]
        /\ SentSeqs' = SentSeqs /\ told' = told /\ ExecutedSeqs' = ExecutedSeqs
    BY <1>2, <2>1 DEF Reserve, IssuerInv, Commands, SentSeqs, ExecutedSeqs, network, device
  <2> QED BY <1>2, <1>a, <1>b, <2>1, <2>2 DEF Reserve, IssuerInv, UnsentIsUnsent, OpenStates
<1>3. CASE Withdraw
  <2>1. /\ SentSeqs' = SentSeqs /\ ExecutedSeqs' = ExecutedSeqs
        /\ inHand.seq \notin SentSeqs /\ row[inHand.seq] = "RESERVED"
        /\ inHand.seq \in Seqs /\ alloc' = alloc
    BY <1>3, <1>c DEF Withdraw, IssuerInv, SentSeqs, ExecutedSeqs, network, device
  <2>2. \A s \in Seqs : /\ row'[s] = row[s] \/ (s = inHand.seq /\ row'[s] = "NOT_PUBLISHED")
                        /\ told'[s] = told[s] \/ (s = inHand.seq /\ told'[s] = "NOT_SENT")
                        /\ row'[s] = "FREE" => told'[s] = told[s]
    BY <1>3, <1>a, <2>1 DEF Withdraw
  <2> QED BY <1>3, <1>a, <1>b, <2>1, <2>2 DEF Withdraw, IssuerInv, UnsentIsUnsent, OpenStates
<1>4. ASSUME sent' = sent \cup {inHand}, phase = "RESERVED", row' = row
      PROVE  /\ SentSeqs' = SentSeqs \cup {inHand.seq}
             /\ row'[inHand.seq] = "RESERVED"
  BY <1>4 DEF SentSeqs, IssuerInv
<1>5. CASE Publish
  <2>1. /\ SentSeqs' = SentSeqs \cup {inHand.seq} /\ row[inHand.seq] = "RESERVED"
        /\ row' = row /\ told' = told /\ alloc' = alloc /\ executed' = executed
    BY <1>4, <1>5 DEF Publish, store, device
  <2>2. told[inHand.seq] = "NONE" /\ inHand \in Commands
    BY <1>5 DEF Publish, IssuerInv
  <2>3. \A s \in Seqs : told[s] = "NOT_SENT" \/ row[s] = "NOT_PUBLISHED" => s # inHand.seq
    BY <2>1, <2>2
  <2>4. UnsentIsUnsent'
    BY <1>a, <1>b, <2>1, <2>3 DEF UnsentIsUnsent, IssuerInv, ExecutedSeqs, OpenStates
  <2> QED BY <1>5, <1>a, <2>1, <2>2, <2>4 DEF Publish, IssuerInv
<1>6. CASE PublishRaises
  <2>1. /\ SentSeqs' \subseteq SentSeqs \cup {inHand.seq} /\ row[inHand.seq] = "RESERVED"
        /\ row' = row /\ alloc' = alloc /\ ExecutedSeqs' = ExecutedSeqs
        /\ inHand.seq \in Seqs
    BY <1>4, <1>6, <1>c DEF PublishRaises, store, device, SentSeqs, IssuerInv, ExecutedSeqs
  <2>2. \A s \in Seqs : told'[s] = IF s = inHand.seq THEN "OUTCOME_UNKNOWN" ELSE told[s]
    BY <1>6, <1>a DEF PublishRaises
  <2>3. UnsentIsUnsent'
    BY <1>a, <1>b, <2>1, <2>2 DEF UnsentIsUnsent, IssuerInv, OpenStates
  <2> QED BY <1>6, <1>a, <2>1, <2>2, <2>3 DEF PublishRaises, IssuerInv
<1>7. CASE RecordPublished
  <2>1. /\ SentSeqs' = SentSeqs /\ ExecutedSeqs' = ExecutedSeqs
        /\ inHand.seq \in SentSeqs /\ row[inHand.seq] = "RESERVED"
        /\ inHand.seq \in Seqs /\ alloc' = alloc
    BY <1>7, <1>c DEF RecordPublished, IssuerInv, SentSeqs, ExecutedSeqs, network, device
  <2>2. \A s \in Seqs : /\ row'[s] = row[s] \/ (s = inHand.seq /\ row'[s] = "PUBLISHED")
                        /\ told'[s] = IF s = inHand.seq THEN "SENT" ELSE told[s]
    BY <1>7, <1>a, <2>1 DEF RecordPublished
  <2>3. UnsentIsUnsent'
    BY <1>a, <1>b, <2>1, <2>2 DEF UnsentIsUnsent, IssuerInv, OpenStates
  <2> QED BY <1>7, <1>a, <2>1, <2>2, <2>3 DEF RecordPublished, IssuerInv
<1>8. CASE CoreRestart
  <2>1. \A s \in Seqs : row'[s] = row[s] \/ (row[s] # "FREE" /\ row'[s] = "CLOSED")
    BY <1>8 DEF CoreRestart, UnresolvedStates
  <2>2. /\ SentSeqs' = SentSeqs /\ told' = told /\ alloc' = alloc /\ phase' = "IDLE"
        /\ ExecutedSeqs' = ExecutedSeqs
    BY <1>8 DEF CoreRestart, network, device, SentSeqs, ExecutedSeqs
  <2>3. UnsentIsUnsent'
    BY <1>a, <1>b, <2>1, <2>2 DEF UnsentIsUnsent, IssuerInv, OpenStates
  <2> QED BY <1>a, <2>1, <2>2, <2>3 DEF IssuerInv
<1>9. ASSUME NEW m \in acks, ConsumeAck(m) PROVE IssuerInv'
  <2>1. /\ \A s \in Seqs : row'[s] = row[s] \/ (row[s] = "PUBLISHED" /\ row'[s] = "ACK_CONSUMED")
        /\ inHand' = inHand /\ phase' = phase /\ told' = told /\ sent' = sent /\ alloc' = alloc
        /\ SentSeqs' = SentSeqs /\ ExecutedSeqs' = ExecutedSeqs
    BY <1>9, <1>a DEF ConsumeAck, issuer, network, device, SentSeqs, ExecutedSeqs
  <2>2. UnsentIsUnsent'
    BY <1>a, <1>b, <2>1 DEF UnsentIsUnsent, IssuerInv, OpenStates
  <2>3. phase # "IDLE" => row'[inHand.seq] = "RESERVED"
    BY <1>c, <2>1 DEF IssuerInv
  <2> QED BY <1>a, <1>c, <2>1, <2>2, <2>3 DEF IssuerInv
<1>10. ASSUME NEW m \in statuses, ResyncForward(m) PROVE IssuerInv'
  <2>1. alloc' \in Nat /\ alloc' > alloc
    BY <1>10, <1>a DEF ResyncForward, Lesser, TypeOK, Statuses
  <2> QED BY <1>10, <1>a, <1>b, <2>1
          DEF ResyncForward, IssuerInv, UnsentIsUnsent, issuer, network, SentSeqs, OpenStates
<1> QED BY <1>1, <1>2, <1>3, <1>5, <1>6, <1>7, <1>8, <1>9, <1>10
        DEF Next, Issue, Receive, CorrelateStatus, Handle, RejectExpired, RejectSequence,
            RejectPersist, Accept, Actuate, Report, FailSecure, DeviceReboot,
            vars, store, issuer, network

-----------------------------------------------------------------------------
(* The inductive invariant holds in every reachable state. *)
THEOREM Invariance == Spec => []IInv
<1>1. Init => IInv
  BY InitIInv
<1>2. IInv /\ [Next]_vars => IInv'
  BY TypeStep, DeviceStep, EvidenceStep, IssuerStep DEF IInv
<1> QED BY <1>1, <1>2, PTL DEF Spec

(* Every variable keeps its type, for any ceiling and any mark in flash. *)
THEOREM TypeCorrect == Spec => []TypeOK
<1>1. IInv => TypeOK
  BY DEF IInv
<1> QED BY <1>1, Invariance, PTL

(* The relay obeys each number at most once and in the order of issue. *)
THEOREM OrderCorrect == Spec => []ExecutedInOrder
<1>1. IInv => ExecutedInOrder
  BY DEF IInv, DeviceInv
<1> QED BY <1>1, Invariance, PTL

(* What the store holds as device evidence did happen. *)
THEOREM EvidenceCorrect == Spec => []EvidenceIsTrue
<1>1. IInv => EvidenceIsTrue
  BY DEF IInv, EvidenceInv
<1> QED BY <1>1, Invariance, PTL

(* NOT_SENT and NOT_PUBLISHED are never said of a frame that went out. *)
THEOREM VerdictCorrect == Spec => []UnsentIsUnsent
<1>1. IInv => UnsentIsUnsent
  BY DEF IInv, IssuerInv
<1> QED BY <1>1, Invariance, PTL

-----------------------------------------------------------------------------
(* What a reply says of the device's mark stays true: marks only grow. *)
ReplyInv ==
    /\ \A m \in acks : m.result = "REJECTED_SEQUENCE" =>
           m.seq <= hwm /\ (stage = "PERSISTED" => m.seq < current.seq)
    /\ \A m \in statuses : m.hwm <= hwm
    /\ NumbersNeverReused

(* ReplyInv is inductive relative to IInv. *)
LEMMA ReplyStep == IInv /\ ReplyInv /\ [Next]_vars => ReplyInv'
<1> SUFFICES ASSUME IInv, ReplyInv, [Next]_vars PROVE ReplyInv'
  OBVIOUS
<1> USE DEF IInv
<1>a. /\ hwm \in Nat /\ nvs \in Nat /\ hwm <= nvs /\ alloc \in Nat /\ alloc <= Ceiling
      /\ \A s \in Seqs : s \in Nat
      /\ \A c \in sent : c.seq \in Nat
      /\ \A m \in acks : m.seq \in Nat
      /\ \A m \in statuses : m.hwm \in Nat
      /\ row \in [Seqs -> RowStates]
  BY CeilingAssumption DEF DeviceInv, TypeOK, Commands, Acks, Statuses, Seqs
<1>1. ASSUME UNCHANGED <<alloc, row, acks, statuses, hwm, stage, current>> PROVE ReplyInv'
  BY <1>1 DEF ReplyInv, NumbersNeverReused
<1>2. ASSUME NEW a \in Actions, Reserve(a) PROVE ReplyInv'
  BY <1>2, <1>a DEF Reserve, ReplyInv, NumbersNeverReused, network, device
<1>3. ASSUME UNCHANGED <<alloc, acks, statuses, hwm, stage, current>>,
             \A s \in Seqs : (row'[s] = "FREE") = (row[s] = "FREE")
      PROVE  ReplyInv'
  BY <1>3 DEF ReplyInv, NumbersNeverReused
<1>4. CASE Withdraw \/ RecordPublished
  <2>1. \A s \in Seqs : (row'[s] = "FREE") = (row[s] = "FREE")
    BY <1>4, <1>a DEF Withdraw, RecordPublished, IssuerInv
  <2> QED BY <1>3, <1>4, <2>1 DEF Withdraw, RecordPublished, network, device
<1>5. CASE CoreRestart
  <2>1. \A s \in Seqs : (row'[s] = "FREE") = (row[s] = "FREE")
    BY <1>5 DEF CoreRestart, UnresolvedStates
  <2> QED BY <1>3, <1>5, <2>1 DEF CoreRestart, network, device
<1>6. ASSUME NEW m \in acks, ConsumeAck(m) PROVE ReplyInv'
  <2>1. \A s \in Seqs : (row'[s] = "FREE") = (row[s] = "FREE")
    BY <1>6, <1>a DEF ConsumeAck
  <2> QED BY <1>3, <1>6, <2>1 DEF ConsumeAck, network, device
<1>7. ASSUME NEW m \in statuses, ResyncForward(m) PROVE ReplyInv'
  <2>1. alloc' \in Nat /\ alloc' > alloc /\ alloc' <= hwm
    BY <1>7, <1>a, CeilingAssumption DEF ResyncForward, Lesser, ReplyInv
  <2> QED BY <1>7, <1>a, <2>1 DEF ResyncForward, ReplyInv, NumbersNeverReused, network, device
<1>8. ASSUME NEW c \in sent, RejectExpired(c) \/ RejectPersist(c) PROVE ReplyInv'
  BY <1>8 DEF RejectExpired, RejectPersist, ReplyInv, NumbersNeverReused, store, device
<1>9. ASSUME NEW c \in sent, RejectSequence(c) PROVE ReplyInv'
  BY <1>9, <1>a DEF RejectSequence, ReplyInv, NumbersNeverReused, store, device
<1>10. ASSUME NEW c \in sent, Accept(c) PROVE ReplyInv'
  BY <1>10, <1>a DEF Accept, ReplyInv, NumbersNeverReused, store, network
<1>11. CASE Actuate
  BY <1>11 DEF Actuate, ReplyInv, NumbersNeverReused, store, network
<1>12. CASE Report
  BY <1>12, <1>a DEF Report, ReplyInv, NumbersNeverReused, store
<1>13. CASE DeviceReboot
  BY <1>13, <1>a DEF DeviceReboot, ReplyInv, NumbersNeverReused, store, network
<1> QED BY <1>1, <1>2, <1>4, <1>5, <1>6, <1>7, <1>8, <1>9, <1>10, <1>11, <1>12, <1>13
        DEF Next, Issue, Receive, Handle, Publish, PublishRaises, CorrelateStatus, FailSecure,
            vars, store, network, device

(* IInv and ReplyInv together hold in every reachable state. *)
LEMMA ReplyInvariance == Spec => [](IInv /\ ReplyInv)
<1>1. Init => IInv /\ ReplyInv
  <2>1. Init => ReplyInv
    BY MarksAssumption, CeilingAssumption DEF Init, ReplyInv, NumbersNeverReused, Seqs
  <2> QED BY <2>1, InitIInv
<1>2. IInv /\ ReplyInv /\ [Next]_vars => (IInv /\ ReplyInv)'
  BY TypeStep, DeviceStep, EvidenceStep, IssuerStep, ReplyStep DEF IInv
<1> QED BY <1>1, <1>2, PTL DEF Spec

(* No number is handed out twice, and resynchronising skips only numbers the
   device has burned. *)
THEOREM NumbersCorrect == Spec => []NumbersNeverReused
<1>1. ReplyInv => NumbersNeverReused
  BY DEF ReplyInv
<1> QED BY <1>1, ReplyInvariance, PTL

(* A number the device refused for its sequence is never executed later. *)
THEOREM RefusalCorrect == Spec => RefusedSequenceIsFinal
<1>1. ASSUME IInv, ReplyInv, [Next]_vars, NEW m \in acks, m.result = "REJECTED_SEQUENCE",
             m.seq \notin ExecutedSeqs
      PROVE  m.seq \notin ExecutedSeqs'
  <2>1. CASE Actuate
    <3>1. ExecutedSeqs' = ExecutedSeqs \cup {current.seq} /\ current \in Commands
      BY <2>1, <1>1, ActuateAppends DEF IInv, DeviceInv, TypeOK, Actuate
    <3>2. m.seq < current.seq /\ m.seq \in Nat /\ current.seq \in Nat
      BY <2>1, <1>1, <3>1 DEF Actuate, ReplyInv, IInv, TypeOK, Acks, Commands, Seqs
    <3> QED BY <1>1, <3>1, <3>2
  <2>2. CASE ~Actuate
    BY <1>1, <2>2, HistoryGrows DEF ExecutedSeqs
  <2> QED BY <2>1, <2>2
<1>2. IInv /\ ReplyInv /\ [Next]_vars =>
        [\A m \in acks : m.result = "REJECTED_SEQUENCE" /\ m.seq \notin ExecutedSeqs =>
           m.seq \notin ExecutedSeqs']_vars
  BY <1>1
<1> QED BY <1>2, ReplyInvariance, PTL DEF Spec, RefusedSequenceIsFinal

(* The relay is released only by executing a RESTORE frame the Core sent. *)
THEOREM ReleaseCorrect == Spec => ReleasedOnlyByRestore
<1>1. ASSUME IInv, [Next]_vars, Releases
      PROVE  \E c \in sent : c.action = "RESTORE_UPLINK" /\ executed' = Append(executed, c.seq)
  <2>1. Actuate
    BY <1>1
    DEF Next, Issue, Reserve, Withdraw, Publish, PublishRaises, RecordPublished, CoreRestart,
        Receive, ConsumeAck, CorrelateStatus, ResyncForward, Handle, RejectExpired,
        RejectSequence, RejectPersist, Accept, Report, FailSecure, DeviceReboot, vars, device, Releases
  <2>2. current \in sent /\ current.action \in Actions
    BY <1>1, <2>1 DEF IInv, DeviceInv, TypeOK, Commands, Actuate
  <2>3. current.action # "CUT_UPLINK"
    BY <1>1, <2>1 DEF Actuate, Releases
  <2>4. executed' = Append(executed, current.seq)
    BY <2>1 DEF Actuate
  <2> QED BY <2>2, <2>3, <2>4 DEF Actions
<1>2. IInv /\ [Next]_vars =>
        [Releases =>
          \E c \in sent : /\ c.action = "RESTORE_UPLINK"
                          /\ executed' = Append(executed, c.seq)]_vars
  BY <1>1
<1> QED BY <1>2, Invariance, PTL DEF Spec, ReleasedOnlyByRestore

-----------------------------------------------------------------------------
(* An ACK result belongs to a row that consumed it, so it is written once. *)
AckInv == \A s \in Seqs : ack[s] # "NONE" => row[s] \in {"ACK_CONSUMED", "CLOSED"}

(* AckInv is inductive relative to IInv. *)
LEMMA AckStep == IInv /\ AckInv /\ [Next]_vars => AckInv'
<1> SUFFICES ASSUME IInv, AckInv, [Next]_vars PROVE AckInv'
  OBVIOUS
<1> USE DEF IInv
<1>a. row \in [Seqs -> RowStates] /\ ack \in [Seqs -> Results \cup {"NONE"}] /\ alloc \in Nat
  BY CeilingAssumption DEF TypeOK
<1>1. ASSUME UNCHANGED <<row, ack>> PROVE AckInv'
  BY <1>1 DEF AckInv
<1>2. ASSUME NEW a \in Actions, Reserve(a) PROVE AckInv'
  <2>1. alloc + 1 \in Seqs /\ row[alloc + 1] = "FREE"
    BY <1>2, <1>a, CeilingAssumption DEF Reserve, Seqs, IssuerInv
  <2> QED BY <1>2, <1>a, <2>1 DEF Reserve, AckInv
<1>3. CASE Withdraw \/ RecordPublished
  BY <1>3, <1>a DEF Withdraw, RecordPublished, AckInv, IssuerInv
<1>4. CASE CoreRestart
  BY <1>4 DEF CoreRestart, AckInv
<1>5. ASSUME NEW m \in acks, ConsumeAck(m) PROVE AckInv'
  BY <1>5, <1>a DEF ConsumeAck, AckInv
<1> QED BY <1>1, <1>2, <1>3, <1>4, <1>5
        DEF Next, Issue, Receive, CorrelateStatus, ResyncForward, Handle, RejectExpired,
            RejectSequence, RejectPersist, Accept, Actuate, Report, FailSecure, DeviceReboot,
            Publish, PublishRaises, vars, store

(* IInv and AckInv together hold in every reachable state. *)
LEMMA AckInvariance == Spec => [](IInv /\ AckInv)
<1>1. Init => IInv /\ AckInv
  <2>1. Init => AckInv
    BY DEF Init, AckInv
  <2> QED BY <2>1, InitIInv
<1>2. IInv /\ AckInv /\ [Next]_vars => (IInv /\ AckInv)'
  BY TypeStep, DeviceStep, EvidenceStep, IssuerStep, AckStep DEF IInv
<1> QED BY <1>1, <1>2, PTL DEF Spec

(* A row moves forward only and its evidence is written once. *)
THEOREM ForwardCorrect == Spec => RowIsForwardOnly
<1>1. ASSUME IInv, AckInv, [Next]_vars, NEW s \in Seqs
      PROVE  /\ row[s] \in {"NOT_PUBLISHED", "CLOSED"} =>
                   row'[s] = row[s] /\ ack'[s] = ack[s] /\ (s \in correlated') = (s \in correlated)
             /\ row[s] = "ACK_CONSUMED" => row'[s] \in {"ACK_CONSUMED", "CLOSED"}
             /\ row[s] = "PUBLISHED" => row'[s] \in {"PUBLISHED", "ACK_CONSUMED", "CLOSED"}
             /\ ack[s] # "NONE" => ack'[s] = ack[s]
  <2>a. row \in [Seqs -> RowStates] /\ ack \in [Seqs -> Results \cup {"NONE"}]
    BY <1>1 DEF IInv, TypeOK
  <2>1. CASE UNCHANGED <<row, ack, correlated>>
    BY <2>1
  <2>2. ASSUME NEW a \in Actions, Reserve(a)
        PROVE  ack' = ack /\ correlated' = correlated /\ (row'[s] = row[s] \/ row[s] = "FREE")
    <3>1. alloc + 1 \in Seqs /\ row[alloc + 1] = "FREE"
      BY <1>1, <2>2, CeilingAssumption DEF Reserve, Seqs, IInv, TypeOK, IssuerInv
    <3> QED BY <2>2, <2>a, <3>1 DEF Reserve
  <2>3. ASSUME Withdraw \/ RecordPublished
        PROVE  ack' = ack /\ correlated' = correlated /\ (row'[s] = row[s] \/ row[s] = "RESERVED")
    BY <1>1, <2>3, <2>a DEF Withdraw, RecordPublished
  <2>4. CASE CoreRestart
    BY <2>4 DEF CoreRestart, UnresolvedStates
  <2>5. ASSUME NEW m \in acks, ConsumeAck(m)
        PROVE  /\ correlated' = correlated
               /\ \/ row'[s] = row[s] /\ ack'[s] = ack[s]
                  \/ row[s] = "PUBLISHED" /\ row'[s] = "ACK_CONSUMED" /\ ack[s] = "NONE"
    BY <1>1, <2>5, <2>a DEF ConsumeAck, AckInv
  <2>6. ASSUME NEW m \in statuses, CorrelateStatus(m)
        PROVE  /\ row' = row /\ ack' = ack
               /\ row[s] \notin OpenStates => (s \in correlated') = (s \in correlated)
    BY <2>6 DEF CorrelateStatus
  <2>7. [Next]_vars /\ AckInv
    BY <1>1
  <2> QED BY <2>1, <2>2, <2>3, <2>4, <2>5, <2>6, <2>7
          DEF Next, Issue, Receive, ResyncForward, Handle, RejectExpired, RejectSequence,
              RejectPersist, Accept, Actuate, Report, FailSecure, DeviceReboot, Publish,
              PublishRaises, vars, store, OpenStates, AckInv
<1>2. IInv /\ AckInv /\ [Next]_vars =>
        [\A s \in Seqs :
        /\ row[s] \in {"NOT_PUBLISHED", "CLOSED"} =>
              row'[s] = row[s] /\ ack'[s] = ack[s] /\ (s \in correlated') = (s \in correlated)
        /\ row[s] = "ACK_CONSUMED" => row'[s] \in {"ACK_CONSUMED", "CLOSED"}
        /\ row[s] = "PUBLISHED" => row'[s] \in {"PUBLISHED", "ACK_CONSUMED", "CLOSED"}
        /\ ack[s] # "NONE" => ack'[s] = ack[s]]_vars
  BY <1>1
<1> QED BY <1>2, AckInvariance, PTL DEF Spec, RowIsForwardOnly

-----------------------------------------------------------------------------
(* CommandLink refines RelayCommands: the initial states agree. *)
LEMMA InitRefines == Init => Promise!RInit
BY DEF Init, Promise!RInit

(* Leaving the five mapped quantities alone is a stutter of RelayCommands. *)
LEMMA StutterRefines ==
    ASSUME UNCHANGED <<sent, executed, locked, ack, correlated>>,
           \A s \in Seqs : (told'[s] = "NOT_SENT") = (told[s] = "NOT_SENT")
    PROVE  UNCHANGED Promise!rvars
BY DEF Promise!rvars

(* Every step of CommandLink is a step of RelayCommands or a stutter. *)
LEMMA StepRefines == IInv /\ AckInv /\ [Next]_vars => [Promise!RNext]_(Promise!rvars)
<1> SUFFICES ASSUME IInv, AckInv, [Next]_vars PROVE Promise!RNext \/ UNCHANGED Promise!rvars
  OBVIOUS
<1> USE DEF IInv
<1>a. /\ told \in [Seqs -> Outcomes] /\ ack \in [Seqs -> Results \cup {"NONE"}]
      /\ sent \subseteq Commands /\ ExecutedSeqs = Promise!Obeyed
      /\ phase # "IDLE" => inHand \in Commands /\ inHand.seq \in Seqs
  BY DEF TypeOK, ExecutedSeqs, Promise!Obeyed, IssuerInv, Commands
<1>b. Commands = [seq : Seqs, action : Promise!Kinds]
  BY DEF Commands, Actions, Promise!Kinds
<1>1. ASSUME UNCHANGED <<sent, executed, locked, ack, correlated, told>>
      PROVE  UNCHANGED Promise!rvars
  BY <1>1, StutterRefines
<1>2. CASE Withdraw
  <2>1. inHand.seq \notin SentSeqs /\ inHand.seq \in Seqs
    BY <1>2, <1>a DEF Withdraw, IssuerInv
  <2>2. /\ UNCHANGED <<sent, executed, locked, ack, correlated>>
        /\ \A s \in Seqs : told'[s] = IF s = inHand.seq THEN "NOT_SENT" ELSE told[s]
    BY <1>2, <1>a, <2>1 DEF Withdraw, network, device
  <2>3. \A c \in sent : c.seq # inHand.seq
    BY <2>1 DEF SentSeqs
  <2>4. \E n \in Seqs : Promise!WithdrawNumber(n)
    BY <2>1, <2>2, <2>3 DEF Promise!WithdrawNumber
  <2> QED BY <2>4 DEF Promise!RNext
<1>3. ASSUME phase = "RESERVED", sent' = sent \cup {inHand},
             UNCHANGED <<executed, locked, ack, correlated>>,
             \A s \in Seqs : (told'[s] = "NOT_SENT") = (told[s] = "NOT_SENT")
      PROVE  Promise!RNext
  <2>1. inHand \in Commands /\ told[inHand.seq] = "NONE" /\ \A d \in sent : d.seq # inHand.seq
    BY <1>3 DEF IssuerInv, SentSeqs
  <2>2. Promise!Offer(inHand)
    BY <1>3, <2>1 DEF Promise!Offer
  <2> QED BY <1>b, <2>1, <2>2 DEF Promise!RNext
<1>4. CASE Publish
  BY <1>3, <1>4 DEF Publish, store, device
<1>5. CASE PublishRaises
  <2>1. \A s \in Seqs : (told'[s] = "NOT_SENT") = (told[s] = "NOT_SENT")
    BY <1>5, <1>a DEF PublishRaises, IssuerInv
  <2>2. CASE sent' = sent
    BY <1>5, <2>1, <2>2, StutterRefines DEF PublishRaises, store, device
  <2>3. CASE sent' = sent \cup {inHand}
    BY <1>5, <1>3, <2>1, <2>3 DEF PublishRaises, store, device
  <2> QED BY <1>5, <2>2, <2>3 DEF PublishRaises
<1>6. CASE RecordPublished
  <2>1. \A s \in Seqs : (told'[s] = "NOT_SENT") = (told[s] = "NOT_SENT")
    BY <1>6, <1>a DEF RecordPublished, IssuerInv
  <2> QED BY <1>6, <2>1, StutterRefines DEF RecordPublished, network, device
<1>7. ASSUME NEW n \in Seqs, n \in ExecutedSeqs,
             UNCHANGED <<sent, told, executed, locked>>,
             \A s \in Seqs : (ack'[s] = "ACCEPTED" \/ s \in correlated')
                             = (ack[s] = "ACCEPTED" \/ s \in correlated \/ s = n)
      PROVE  Promise!RNext
  <2>1. Promise!Believe(n)
    BY <1>7, <1>a DEF Promise!Believe
  <2> QED BY <2>1 DEF Promise!RNext
<1>8. ASSUME NEW m \in acks, ConsumeAck(m) PROVE Promise!RNext \/ UNCHANGED Promise!rvars
  <2>0. m.seq \in Seqs /\ ack[m.seq] = "NONE"
    BY <1>8 DEF ConsumeAck, AckInv, TypeOK, Acks
  <2>1. UNCHANGED <<sent, told, executed, locked, correlated>>
    BY <1>8 DEF ConsumeAck, issuer, network, device
  <2>2. \A s \in Seqs : ack'[s] = IF s = m.seq THEN m.result ELSE ack[s]
    BY <1>8, <1>a DEF ConsumeAck
  <2>3. CASE m.result = "ACCEPTED"
    <3>1. m.seq \in ExecutedSeqs
      BY <2>3 DEF EvidenceInv
    <3> QED BY <1>7, <2>0, <2>1, <2>2, <2>3, <3>1
  <2>4. CASE m.result # "ACCEPTED"
    <3>1. \A s \in Seqs : (ack'[s] = "ACCEPTED") = (ack[s] = "ACCEPTED")
      BY <2>0, <2>2, <2>4
    <3> QED BY <2>1, <3>1 DEF Promise!rvars
  <2> QED BY <2>3, <2>4
<1>9. ASSUME NEW m \in statuses, CorrelateStatus(m) PROVE Promise!RNext
  <2>1. m.seq \in Seqs /\ m.seq \in ExecutedSeqs
    BY <1>9 DEF CorrelateStatus, EvidenceInv, TypeOK, Statuses
  <2>2. /\ UNCHANGED <<sent, told, executed, locked, ack>>
        /\ correlated' = correlated \cup {m.seq}
    BY <1>9 DEF CorrelateStatus, issuer, network, device
  <2> QED BY <1>7, <2>1, <2>2
<1>10. CASE Actuate
  <2>1. /\ current \in sent /\ current.action \in Actions
        /\ \A n \in Promise!Obeyed : n < current.seq
    BY <1>10, <1>a DEF Actuate, DeviceInv, TypeOK, Commands, Promise!Obeyed
  <2>2. /\ UNCHANGED <<sent, told, ack, correlated>>
        /\ executed' = Append(executed, current.seq)
        /\ locked' = (current.action = "CUT_UPLINK")
    BY <1>10 DEF Actuate, store, issuer, network
  <2>3. Promise!Obey(current)
    BY <2>1, <2>2 DEF Promise!Obey
  <2> QED BY <2>1, <2>3 DEF Promise!RNext
<1>11. ASSUME locked', UNCHANGED <<sent, told, executed, ack, correlated>> PROVE Promise!RNext
  <2>1. Promise!Lock
    BY <1>11 DEF Promise!Lock
  <2> QED BY <2>1 DEF Promise!RNext
<1>12. CASE FailSecure \/ DeviceReboot
  BY <1>11, <1>12 DEF FailSecure, DeviceReboot, store, issuer, network
<1> QED BY <1>1, <1>2, <1>4, <1>5, <1>6, <1>8, <1>9, <1>10, <1>12
        DEF Next, Issue, Reserve, CoreRestart, Receive, ResyncForward, Handle, RejectExpired,
            RejectSequence, RejectPersist, Accept, Report, vars, store, issuer, network, device

(* The command path keeps the abstract promise of RelayCommands. *)
THEOREM Refinement == Spec => KeepsPromise
BY InitRefines, StepRefines, AckInvariance, PTL DEF Spec, KeepsPromise, Promise!RSpec

-----------------------------------------------------------------------------

(* Unsigned subtraction and the wrap of millis(), as the case distinctions they are. *)
LEMMA Unsigned ==
  ASSUME NEW n \in Nat \ {0}, NEW a \in 0..(n - 1), NEW b \in 0..(n - 1)
  PROVE  /\ (a - b) % n = IF b <= a THEN a - b ELSE a - b + n
         /\ (a + 1) % n = IF a + 1 < n THEN a + 1 ELSE 0
<1>1. \A x \in 0..(n - 1) : x % n = x
  OBVIOUS
<1>2. \A x \in (-n)..(-1) : x % n = x + n
  OBVIOUS
<1>3. n % n = 0
  OBVIOUS
<1>4. CASE b <= a
  BY <1>1, <1>3, <1>4
<1>5. CASE a < b
  <2>1. a - b \in (-n)..(-1)
    BY <1>5
  <2>2. QED
    BY <1>1, <1>2, <1>3, <1>5, <2>1
<1>6. QED
  BY <1>4, <1>5

(* Ageing keeps to the cap. *)
LEMMA Ageing ==
  ASSUME NEW cap \in Nat, NEW age \in 0..cap
  PROVE  OlderThan(cap, age) \in 0..cap /\ OlderThan(cap, age) <= age + 1
  BY DEF OlderThan

(* The ring after one more entry. *)
LEMMA Remembering ==
  ASSUME NEW S, heartbeatReplay \in Seq(S), Len(heartbeatReplay) <= Slots, NEW age \in S
  PROVE  LET r == heartbeatReplay
             n == Len(r)
             d == IF n < Slots THEN 0 ELSE 1
         IN  /\ Remember(age) \in Seq(S)
             /\ Len(Remember(age)) = n + 1 - d
             /\ n \in Nat /\ DOMAIN r = 1..n
             /\ DOMAIN Remember(age) = 1..(n + 1 - d)
             /\ Remember(age)[n + 1 - d] = age
             /\ \A i \in 1..(n - d) : Remember(age)[i] = r[i + d]
<1> USE BoundsAssumption
<1>1. CASE Len(heartbeatReplay) < Slots
  BY <1>1 DEF Remember
<1>2. CASE ~(Len(heartbeatReplay) < Slots)
  <2>1. Len(heartbeatReplay) \in Nat /\ Len(heartbeatReplay) > 0
    BY <1>2
  <2>2. heartbeatReplay # <<>>
    BY <2>1
  <2>3. /\ Tail(heartbeatReplay) \in Seq(S)
        /\ Len(Tail(heartbeatReplay)) = Len(heartbeatReplay) - 1
        /\ \A i \in 1..(Len(heartbeatReplay) - 1) : Tail(heartbeatReplay)[i] = heartbeatReplay[i + 1]
    BY <2>1, <2>2
  <2>4. Remember(age) = Append(Tail(heartbeatReplay), age)
    BY <1>2 DEF Remember
  <2>5. QED
    BY <1>2, <2>1, <2>3, <2>4
<1>3. QED
  BY <1>1, <1>2

(* What is assumed of the constants, one by one, and the caps they give. *)
LEMMA Bounds ==
  /\ Wrap \in Nat /\ Deadman \in Nat /\ Grace \in Nat /\ Holdover \in Nat
  /\ Skew \in Nat /\ Slots \in Nat /\ Block \in Nat
  /\ Wrap > 0 /\ Skew > 0 /\ Slots > 0 /\ Block > 0
  /\ Deadman <= Grace /\ Grace + 2 * Block < Wrap /\ 2 * Skew < Slots
  /\ QuietCap \in Nat /\ AloneCap \in Nat /\ SyncCap \in Nat
<1>1. /\ Wrap \in Nat \ {0} /\ Deadman \in Nat \ {0} /\ Grace \in Nat \ {0} /\ Holdover \in Nat \ {0}
      /\ Skew \in Nat \ {0} /\ Slots \in Nat \ {0} /\ Block \in Nat \ {0}
  BY BoundsAssumption
<1>2. QED
  BY <1>1, BoundsAssumption DEF QuietCap, AloneCap, SyncCap

(* The type invariant, one variable at a time. *)
Typed ==
    /\ millis \in 0..(Wrap - 1) /\ lastHeartbeatMs \in 0..(Wrap - 1) /\ lastTimeSyncMs \in 0..(Wrap - 1)
    /\ heartbeatReplay \in Seq(0..(Skew + 1)) /\ Len(heartbeatReplay) <= Slots
    /\ isLockedDown \in BOOLEAN /\ deadmanTriggered \in BOOLEAN /\ issued \in BOOLEAN
    /\ spent \in 0..Block
    /\ wire \subseteq Ages /\ heard \subseteq Ages
    /\ quiet \in 0..QuietCap /\ alone \in 0..AloneCap /\ syncAge \in 0..SyncCap

LEMMA TypedIsTypeOK == Typed <=> DTypeOK
  BY DEF Typed, DTypeOK

(* What one pass of checkDeadman does to the relay and its latch. *)
LEMMA CheckDeadmanCases ==
  ASSUME isLockedDown \in BOOLEAN, deadmanTriggered \in BOOLEAN, CheckDeadman
  PROVE  /\ isLockedDown' \in BOOLEAN /\ deadmanTriggered' \in BOOLEAN /\ spent' = 0
         /\ lastHeartbeatMs = 0 /\ ~isLockedDown' => ~isLockedDown /\ ~(millis > Grace)
         /\ lastHeartbeatMs # 0 /\ ~deadmanTriggered' =>
              ~deadmanTriggered /\ ~(Elapsed(lastHeartbeatMs) > Deadman)
<1> DEFINE fires == Elapsed(lastHeartbeatMs) > Deadman /\ ~deadmanTriggered
<1>1. CASE lastHeartbeatMs = 0
  <2>1. isLockedDown' = (isLockedDown \/ millis > Grace) /\ deadmanTriggered' = deadmanTriggered /\ spent' = 0
    BY <1>1 DEF CheckDeadman
  <2>2. QED
    BY <1>1, <2>1, Zenon
<1>2. CASE lastHeartbeatMs # 0
  <2>1. isLockedDown' = (isLockedDown \/ fires) /\ deadmanTriggered' = (deadmanTriggered \/ fires) /\ spent' = 0
    BY <1>2 DEF CheckDeadman
  <2>2. QED
    BY <1>2, <2>1, Zenon
<1>3. QED
  BY <1>1, <1>2

LEMMA InitTypes == DInit => Typed
<1> SUFFICES ASSUME DInit PROVE Typed
  OBVIOUS
<1>1. heartbeatReplay \in Seq(0..(Skew + 1)) /\ Len(heartbeatReplay) = 0
  BY DEF DInit
<1>2. /\ millis = 0 /\ lastHeartbeatMs = 0 /\ lastTimeSyncMs = 0 /\ spent = 0
      /\ quiet = 0 /\ alone = 0 /\ syncAge = 0 /\ wire = {} /\ heard = {}
      /\ isLockedDown = TRUE /\ deadmanTriggered = FALSE /\ issued = FALSE
  BY DEF DInit
<1>3. 0 \in 0..(Wrap - 1) /\ 0 \in 0..Block /\ 0 \in 0..QuietCap /\ 0 \in 0..AloneCap
      /\ 0 \in 0..SyncCap /\ 0 <= Slots
  BY Bounds
<1>4. QED
  BY <1>1, <1>2, <1>3, Zenon DEF Typed

LEMMA NextKeepsTypes == Typed /\ [DNext]_dvars => Typed'
<1> SUFFICES ASSUME Typed, [DNext]_dvars PROVE Typed'
  OBVIOUS
<1> USE Bounds DEF Typed, clocks, relay, beats, core
<1>1. CASE SendHeartbeat
  BY <1>1 DEF SendHeartbeat, Ages
<1>2. CASE OnTimeSync
  <2>1. lastTimeSyncMs' \in 0..(Wrap - 1) /\ syncAge' \in 0..SyncCap
    BY <1>2 DEF OnTimeSync
  <2>2. QED
    BY <1>2, <2>1 DEF OnTimeSync
<1>3. ASSUME NEW age \in wire, HandleHeartbeat(age) PROVE Typed'
  <2>1. age \in Ages /\ age \in 0..(Skew + 1)
    BY DEF Ages
  <2>2. heartbeatReplay' \in Seq(0..(Skew + 1)) /\ Len(heartbeatReplay') <= Slots
    <3>1. /\ Remember(age) \in Seq(0..(Skew + 1)) /\ Len(heartbeatReplay) \in Nat
          /\ Len(Remember(age)) = Len(heartbeatReplay) + 1 - (IF Len(heartbeatReplay) < Slots THEN 0 ELSE 1)
      BY <2>1, Remembering
    <3>2. QED
      BY <1>3, <3>1 DEF HandleHeartbeat
  <2>3. quiet' \in 0..QuietCap /\ alone' \in 0..AloneCap
    BY <1>3 DEF HandleHeartbeat
  <2>4. QED
    BY <1>3, <2>1, <2>2, <2>3 DEF HandleHeartbeat
<1>4. ASSUME NEW action \in {"CUT_UPLINK", "RESTORE_UPLINK"}, HandleCommand(action) PROVE Typed'
  BY <1>4 DEF HandleCommand
<1>5. CASE CheckDeadman
  <2>1. isLockedDown' \in BOOLEAN /\ deadmanTriggered' \in BOOLEAN /\ spent' = 0
    BY <1>5, CheckDeadmanCases
  <2>2. UNCHANGED <<clocks, beats, core, alone>>
    BY <1>5 DEF CheckDeadman
  <2>3. QED
    BY <2>1, <2>2
<1>6. CASE Tick
  <2>1. millis' \in 0..(Wrap - 1)
    BY <1>6, Unsigned DEF Tick
  <2>2. heartbeatReplay' \in Seq(0..(Skew + 1)) /\ Len(heartbeatReplay') <= Slots
    <3>1. \A i \in DOMAIN heartbeatReplay : OlderThan(Skew + 1, heartbeatReplay[i]) \in 0..(Skew + 1)
      <4> SUFFICES ASSUME NEW i \in DOMAIN heartbeatReplay
                   PROVE  OlderThan(Skew + 1, heartbeatReplay[i]) \in 0..(Skew + 1)
        OBVIOUS
      <4>1. heartbeatReplay[i] \in 0..(Skew + 1)
        OBVIOUS
      <4>2. QED
        BY <4>1, Ageing
    <3>2. DOMAIN heartbeatReplay = 1..Len(heartbeatReplay) /\ Len(heartbeatReplay) \in Nat
      OBVIOUS
    <3>3. heartbeatReplay' = [i \in 1..Len(heartbeatReplay) |-> OlderThan(Skew + 1, heartbeatReplay[i])]
      BY <1>6, <3>2 DEF Tick
    <3>4. heartbeatReplay' \in [1..Len(heartbeatReplay) -> 0..(Skew + 1)]
      BY <3>1, <3>2, <3>3
    <3>5. heartbeatReplay' \in Seq(0..(Skew + 1)) /\ Len(heartbeatReplay') = Len(heartbeatReplay)
      BY <3>2, <3>4
    <3>6. QED
      BY <3>5
  <2>3. quiet' \in 0..QuietCap /\ alone' \in 0..AloneCap /\ syncAge' \in 0..SyncCap
    BY <1>6, Ageing DEF Tick
  <2>4. spent' \in 0..Block /\ wire' \subseteq Ages /\ heard' \subseteq Ages /\ issued' = FALSE
    BY <1>6 DEF Tick
  <2>5. QED
    BY <1>6, <2>1, <2>2, <2>3, <2>4 DEF Tick
<1>7. CASE PowerCycle
  <2>1. heartbeatReplay' \in Seq(0..(Skew + 1)) /\ Len(heartbeatReplay') = 0
    BY <1>7 DEF PowerCycle
  <2>2. /\ millis' = 0 /\ lastHeartbeatMs' = 0 /\ lastTimeSyncMs' = 0 /\ spent' = 0
        /\ quiet' = 0 /\ alone' = 0 /\ syncAge' = 0 /\ heard' = {} /\ UNCHANGED <<wire, issued>>
        /\ isLockedDown' = TRUE /\ deadmanTriggered' = FALSE
    BY <1>7 DEF PowerCycle
  <2>3. 0 \in 0..(Wrap - 1) /\ 0 \in 0..Block /\ 0 \in 0..QuietCap /\ 0 \in 0..AloneCap
        /\ 0 \in 0..SyncCap /\ 0 <= Slots
    OBVIOUS
  <2>4. QED
    BY <2>1, <2>2, <2>3, Zenon
<1>8. CASE UNCHANGED dvars
  BY <1>8 DEF dvars
<1>9. QED
  BY <1>1, <1>2, <1>3, <1>4, <1>5, <1>6, <1>7, <1>8 DEF DNext

-----------------------------------------------------------------------------
SinceBeat ==
    lastHeartbeatMs # 0 /\ ~deadmanTriggered =>
        Elapsed(lastHeartbeatMs) = quiet /\ quiet <= Deadman + spent

BeforeBeat ==
    lastHeartbeatMs = 0 /\ ~isLockedDown =>
        \/ alone <= spent
        \/ alone <= millis + Block /\ millis <= Grace + spent

SilenceInv == SinceBeat /\ BeforeBeat

LEMMA NextKeepsSilence == Typed /\ SilenceInv /\ [DNext]_dvars => SilenceInv'
<1> SUFFICES ASSUME Typed, SilenceInv, [DNext]_dvars PROVE SilenceInv'
  OBVIOUS
<1>0. /\ millis \in 0..(Wrap - 1) /\ lastHeartbeatMs \in 0..(Wrap - 1)
      /\ spent \in 0..Block /\ quiet \in 0..QuietCap /\ alone \in 0..AloneCap
      /\ isLockedDown \in BOOLEAN /\ deadmanTriggered \in BOOLEAN
  BY DEF Typed
<1> USE Bounds
<1>1. CASE SendHeartbeat \/ OnTimeSync \/ UNCHANGED dvars
  BY <1>1 DEF SendHeartbeat, OnTimeSync, dvars, clocks, relay, beats, SilenceInv, SinceBeat, BeforeBeat, Elapsed
<1>2. ASSUME NEW age \in wire, HandleHeartbeat(age) PROVE SilenceInv'
  <2>1. millis' = millis /\ lastHeartbeatMs' = millis /\ quiet' = 0 /\ alone' = 0 /\ spent' = spent
    BY <1>2 DEF HandleHeartbeat, clocks
  <2>2. Elapsed(lastHeartbeatMs)' = 0
    BY <1>0, <2>1, Unsigned DEF Elapsed
  <2>3. QED
    BY <1>0, <2>1, <2>2 DEF SilenceInv, SinceBeat, BeforeBeat
<1>3. ASSUME NEW action \in {"CUT_UPLINK", "RESTORE_UPLINK"}, HandleCommand(action) PROVE SilenceInv'
  BY <1>0, <1>3 DEF HandleCommand, clocks, beats, SilenceInv, SinceBeat, BeforeBeat, Elapsed
<1>4. CASE CheckDeadman
  <2>1. UNCHANGED <<millis, lastHeartbeatMs, quiet, alone>>
    BY <1>4 DEF CheckDeadman, clocks, beats
  <2>2. QED
    BY <1>0, <1>4, <2>1, CheckDeadmanCases DEF SilenceInv, SinceBeat, BeforeBeat, Elapsed
<1>5. CASE Tick
  <2>1. /\ spent < Block /\ spent' = spent + 1
        /\ quiet' <= quiet + 1 /\ alone' <= alone + 1
        /\ quiet < QuietCap => quiet' = quiet + 1
        /\ UNCHANGED <<lastHeartbeatMs, isLockedDown, deadmanTriggered>>
    BY <1>0, <1>5 DEF Tick, OlderThan, relay
  <2>2. millis' = IF millis + 1 < Wrap THEN millis + 1 ELSE 0
    BY <1>0, <1>5, Unsigned DEF Tick
  <2>3. /\ Elapsed(lastHeartbeatMs) = IF lastHeartbeatMs <= millis THEN millis - lastHeartbeatMs
                                                                  ELSE millis - lastHeartbeatMs + Wrap
        /\ Elapsed(lastHeartbeatMs)' = IF lastHeartbeatMs <= millis' THEN millis' - lastHeartbeatMs
                                                                    ELSE millis' - lastHeartbeatMs + Wrap
    BY <1>0, <2>1, <2>2, Unsigned DEF Elapsed
  <2>4. SinceBeat'
    BY <1>0, <2>1, <2>2, <2>3 DEF SilenceInv, SinceBeat, QuietCap
  <2>5. BeforeBeat'
    <3>1. alone' \in 0..AloneCap
      BY <1>0, <1>5, Ageing DEF Tick
    <3>2. QED
      BY <1>0, <2>1, <2>2, <3>1 DEF SilenceInv, BeforeBeat
  <2>6. QED
    BY <2>4, <2>5 DEF SilenceInv
<1>6. CASE PowerCycle
  BY <1>0, <1>6 DEF PowerCycle, SilenceInv, SinceBeat, BeforeBeat
<1>7. QED
  BY <1>1, <1>2, <1>3, <1>4, <1>5, <1>6 DEF DNext

LEMMA SilenceBounded == Typed /\ SilenceInv => SilenceBound
  BY Bounds DEF Typed, SilenceInv, SinceBeat, BeforeBeat, SilenceBound
-----------------------------------------------------------------------------
Old == Skew + 1
Ring == DOMAIN heartbeatReplay

(* The entries after i that have grown too old to matter. *)
Gone(i) == {j \in Ring : j > i /\ heartbeatReplay[j] = Old}

(* No age twice among those that matter, since the Core issues one heartbeat a tick;
   and an entry of some age has seen at most that many later ones grow old. *)
RingInv ==
    /\ \A i, j \in Ring : heartbeatReplay[i] = heartbeatReplay[j] => i = j \/ heartbeatReplay[i] = Old
    /\ \A i \in Ring : heartbeatReplay[i] # Old => Cardinality(Gone(i)) <= heartbeatReplay[i]

LEMMA RingIsFinite ==
  ASSUME Typed
  PROVE  /\ Len(heartbeatReplay) \in Nat /\ Ring = 1..Len(heartbeatReplay)
         /\ \A i \in Ring : heartbeatReplay[i] \in 0..Old
         /\ IsFiniteSet(Ring)
         /\ \A i : IsFiniteSet(Gone(i)) /\ Cardinality(Gone(i)) \in Nat
<1>1. Len(heartbeatReplay) \in Nat /\ Ring = 1..Len(heartbeatReplay)
  BY DEF Typed, Ring
<1>2. \A i \in Ring : heartbeatReplay[i] \in 0..Old
  <2> SUFFICES ASSUME NEW i \in DOMAIN heartbeatReplay PROVE heartbeatReplay[i] \in 0..(Skew + 1)
    BY DEF Ring, Old
  <2>1. QED
    BY Bounds DEF Typed
<1>3. IsFiniteSet(Ring)
  BY <1>1, FS_Interval
<1>4. \A i : Gone(i) \in SUBSET Ring
  BY DEF Gone
<1>5. \A i : IsFiniteSet(Gone(i))
  BY <1>3, <1>4, FS_Subset
<1>6. QED
  BY <1>1, <1>2, <1>3, <1>5, FS_CardinalityType

(* A tick makes at most one entry too old. *)
LEMMA TickKeepsRing ==
  ASSUME Typed, RingInv, HeardIsRemembered, Tick
  PROVE  RingInv' /\ HeardIsRemembered'
<1> DEFINE r == heartbeatReplay
<1>1. Ring' = Ring /\ \A i \in Ring : r[i] \in 0..Old /\ r'[i] = IF r[i] < Old THEN r[i] + 1 ELSE Old
  BY RingIsFinite DEF Tick, Ring, OlderThan, Old
<1>2. Skew \in Nat /\ Old \in Nat /\ Old = Skew + 1
  BY Bounds DEF Old
<1>3. ASSUME NEW i \in Ring, NEW j \in Ring, r'[i] = r'[j], r'[i] # Old
      PROVE  i = j
  <2>1. r[i] = r[j] /\ r[i] # Old
    BY <1>1, <1>2, <1>3
  <2>2. QED
    BY <2>1 DEF RingInv
<1>4. ASSUME NEW i \in Ring, r'[i] # Old
      PROVE  Cardinality(Gone(i)') <= r'[i]
  <2>1. r[i] # Old /\ r'[i] = r[i] + 1
    BY <1>1, <1>2, <1>4
  <2>2. \E x : Gone(i)' \subseteq Gone(i) \cup {x}
    <3>1. \A j \in Gone(i)' : j \in Gone(i) \/ (j \in Ring /\ r[j] = Skew)
      BY <1>1, <1>2 DEF Gone
    <3>2. \A j, k \in Ring : r[j] = Skew /\ r[k] = Skew => j = k
      BY <1>2 DEF RingInv
    <3>3. CASE \E j \in Ring : r[j] = Skew
      BY <3>1, <3>2, <3>3
    <3>4. CASE ~\E j \in Ring : r[j] = Skew
      BY <3>1, <3>4
    <3>5. QED
      BY <3>3, <3>4
  <2>3. PICK x : Gone(i)' \subseteq Gone(i) \cup {x}
    BY <2>2
  <2>4. IsFiniteSet(Gone(i)) /\ Cardinality(Gone(i)) \in Nat
    BY RingIsFinite
  <2>5. IsFiniteSet(Gone(i) \cup {x}) /\ Cardinality(Gone(i) \cup {x}) <= Cardinality(Gone(i)) + 1
    <3>1. /\ IsFiniteSet(Gone(i) \cup {x})
          /\ Cardinality(Gone(i) \cup {x}) =
               IF x \in Gone(i) THEN Cardinality(Gone(i)) ELSE Cardinality(Gone(i)) + 1
      BY <2>4, FS_AddElement
    <3>2. QED
      BY <2>4, <3>1
  <2>6. Cardinality(Gone(i)') <= Cardinality(Gone(i) \cup {x}) /\ IsFiniteSet(Gone(i)')
    BY <2>3, <2>5, FS_Subset
  <2>7. Cardinality(Gone(i)') \in Nat /\ Cardinality(Gone(i) \cup {x}) \in Nat
    BY <2>5, <2>6, FS_CardinalityType
  <2>8. Cardinality(Gone(i)) <= r[i] /\ r[i] \in 0..Old
    BY <1>1, <2>1 DEF RingInv
  <2>9. QED
    BY <1>2, <2>1, <2>4, <2>5, <2>6, <2>7, <2>8
<1>5. RingInv'
  BY <1>1, <1>3, <1>4 DEF RingInv, Old
<1>6. HeardIsRemembered'
  <2> SUFFICES ASSUME NEW a \in heard' PROVE a \in Range(heartbeatReplay')
    BY DEF HeardIsRemembered
  <2>1. PICK b \in heard : a = b + 1 /\ a \in Ages
    BY DEF Tick
  <2>2. PICK i \in Ring : r[i] = b
    BY DEF HeardIsRemembered, Range, Ring
  <2>3. r'[i] = a
    BY <1>1, <1>2, <2>1, <2>2 DEF Ages
  <2>4. QED
    BY <1>1, <2>3 DEF Range, Ring
<1>7. QED
  BY <1>5, <1>6

(* Slots exceeds twice the window, so what the full ring drops no longer matters:
   a first entry of age a has at most a old ones after it, and those after it that
   matter have ages of their own, neither a nor that of the newcomer. *)
LEMMA DroppedIsOld ==
  ASSUME Typed, RingInv, NEW age \in Ages \ Range(heartbeatReplay),
         Len(heartbeatReplay) = Slots
  PROVE  heartbeatReplay[1] = Old
<1> DEFINE r == heartbeatReplay
           Rest == 2..Slots
           Young == {j \in Rest : r[j] # Old}
           Free == (Ages \ {r[1]}) \ {age}
           aged == [j \in Young |-> r[j]]
<1>1. Ring = 1..Slots /\ \A i \in Ring : r[i] \in 0..Old
  BY RingIsFinite
<1>2. Skew \in Nat /\ Slots \in Nat /\ Slots > 0 /\ 2 * Skew < Slots /\ Old = Skew + 1
  BY Bounds DEF Old
<1> SUFFICES ASSUME r[1] # Old PROVE FALSE
  OBVIOUS
<1>3. r[1] \in Ages /\ age # r[1] /\ 1 \in Ring
  BY <1>1, <1>2 DEF Ages, Range, Ring
<1>4. IsFiniteSet(Free) /\ Cardinality(Free) = Skew - 1
  <2>1. IsFiniteSet(Ages) /\ Cardinality(Ages) = Skew + 1
    <3>1. IsFiniteSet(0..Skew) /\ Cardinality(0..Skew) = IF 0 > Skew THEN 0 ELSE Skew - 0 + 1
      BY <1>2, FS_Interval
    <3>2. QED
      BY <1>2, <3>1 DEF Ages
  <2>2. IsFiniteSet(Ages \ {r[1]}) /\ Cardinality(Ages \ {r[1]}) = Skew
    <3>1. /\ IsFiniteSet(Ages \ {r[1]})
          /\ Cardinality(Ages \ {r[1]}) =
               IF r[1] \in Ages THEN Cardinality(Ages) - 1 ELSE Cardinality(Ages)
      BY <2>1, FS_RemoveElement
    <3>2. QED
      BY <1>2, <1>3, <2>1, <3>1
  <2>3. age \in Ages \ {r[1]}
    BY <1>3
  <2>4. QED
    <3>1. /\ IsFiniteSet(Free)
          /\ Cardinality(Free) = IF age \in Ages \ {r[1]} THEN Cardinality(Ages \ {r[1]}) - 1
                                                        ELSE Cardinality(Ages \ {r[1]})
      BY <2>2, FS_RemoveElement
    <3>2. QED
      BY <1>2, <2>2, <2>3, <3>1
<1>5. aged \in Injection(Young, Free)
  <2>1. \A j \in Young : r[j] \in Free
    <3> SUFFICES ASSUME NEW j \in Young PROVE r[j] \in Free
      OBVIOUS
    <3>1. j \in Ring /\ j # 1 /\ r[j] # Old
      BY <1>1, <1>2
    <3>2. r[j] \in Ages
      BY <1>1, <1>2, <3>1 DEF Ages
    <3>3. r[j] # r[1]
      BY <1>3, <3>1 DEF RingInv
    <3>4. r[j] # age
      BY <3>1 DEF Range, Ring
    <3>5. QED
      BY <3>2, <3>3, <3>4
  <2>2. \A j, k \in Young : r[j] = r[k] => j = k
    BY <1>1, <1>2 DEF RingInv
  <2>3. aged \in [Young -> Free]
    BY <2>1
  <2>4. QED
    BY <2>2, <2>3 DEF Injection, IsInjective
<1>6. IsFiniteSet(Young) /\ Cardinality(Young) <= Skew - 1
  BY <1>4, <1>5, FS_Injection
<1>7. IsFiniteSet(Gone(1)) /\ Cardinality(Gone(1)) \in Nat /\ Cardinality(Gone(1)) <= Skew
  <2>1. Cardinality(Gone(1)) <= r[1] /\ r[1] \in 0..Skew
    BY <1>3 DEF RingInv, Ages
  <2>2. IsFiniteSet(Gone(1)) /\ Cardinality(Gone(1)) \in Nat
    BY RingIsFinite
  <2>3. QED
    BY <1>2, <2>1, <2>2
<1>8. Rest = Young \cup Gone(1)
  BY <1>1, <1>2 DEF Gone
<1>9. IsFiniteSet(Rest) /\ Cardinality(Rest) = Slots - 1
  BY <1>2, FS_Interval
<1>10. Cardinality(Young) \in Nat /\ Cardinality(Young \cap Gone(1)) \in Nat
  BY <1>6, <1>7, FS_CardinalityType, FS_Intersection
<1>11. Cardinality(Rest) = Cardinality(Young) + Cardinality(Gone(1)) - Cardinality(Young \cap Gone(1))
  BY <1>6, <1>7, <1>8, FS_Union
<1>12. QED
  BY <1>2, <1>6, <1>7, <1>9, <1>10, <1>11

(* A heartbeat is accepted only if its age is new to the ring. *)
LEMMA HeartbeatKeepsRing ==
  ASSUME Typed, RingInv, HeardIsRemembered, NEW age \in wire, HandleHeartbeat(age)
  PROVE  RingInv' /\ HeardIsRemembered'
<1> DEFINE r == heartbeatReplay
           n == Len(heartbeatReplay)
           d == IF n < Slots THEN 0 ELSE 1
<1>1. /\ age \in Ages /\ age \notin Range(r) /\ age # Old /\ age \in 0..Old
      /\ r' = Remember(age) /\ heard' = heard \cup {age}
  BY Bounds DEF HandleHeartbeat, Typed, Ages, Old
<1>2. n \in Nat /\ Ring = 1..n /\ n <= Slots /\ Slots \in Nat /\ Slots > 0
      /\ \A i \in Ring : r[i] \in 0..Old
  BY RingIsFinite, Bounds DEF Typed
<1>3. d \in {0, 1} /\ n - d \in Nat
  BY <1>2
<1>4. /\ Ring' = 1..(n + 1 - d)
      /\ r'[n + 1 - d] = age
      /\ \A i \in 1..(n - d) : r'[i] = r[i + d] /\ i + d \in Ring
  <2>1. r \in Seq(0..Old) /\ Len(r) <= Slots
    BY DEF Typed, Old
  <2>2. /\ n \in Nat /\ DOMAIN r = 1..n
        /\ DOMAIN Remember(age) = 1..(n + 1 - d)
        /\ Remember(age)[n + 1 - d] = age
        /\ \A i \in 1..(n - d) : Remember(age)[i] = r[i + d]
    BY <1>1, <2>1, Remembering
  <2>3. \A i \in 1..(n - d) : i + d \in 1..n
    BY <1>2, <1>3
  <2>4. QED
    BY <1>1, <2>2, <2>3 DEF Ring
<1>5. \A i \in Ring' : i = n + 1 - d \/ i \in 1..(n - d)
  BY <1>2, <1>3, <1>4
<1>6. \A i \in Ring : r[i] # age
  BY <1>1 DEF Range, Ring
<1>7. ASSUME NEW i \in Ring', NEW j \in Ring', r'[i] = r'[j], r'[i] # Old
      PROVE  i = j
  <2>1. CASE i \in 1..(n - d) /\ j \in 1..(n - d)
    <3>1. r[i + d] = r[j + d] /\ r[i + d] # Old /\ i + d \in Ring /\ j + d \in Ring
      BY <1>4, <1>7, <2>1
    <3>2. i + d = j + d
      BY <3>1 DEF RingInv
    <3>3. QED
      BY <1>3, <2>1, <3>2
  <2>2. CASE ~(i \in 1..(n - d) /\ j \in 1..(n - d))
    <3>1. \A k \in 1..(n - d) : r'[k] # age
      BY <1>4, <1>6
    <3>2. i = n + 1 - d \/ j = n + 1 - d
      BY <1>5, <2>2
    <3>3. r'[i] = age /\ r'[j] = age
      BY <1>4, <1>7, <3>2
    <3>4. i \notin 1..(n - d) /\ j \notin 1..(n - d)
      BY <3>1, <3>3
    <3>5. QED
      BY <1>5, <3>4
  <2>3. QED
    BY <2>1, <2>2
<1>8. ASSUME NEW i \in Ring', r'[i] # Old
      PROVE  Cardinality(Gone(i)') <= r'[i]
  <2>1. CASE i = n + 1 - d
    <3>1. Gone(i)' = {}
      BY <1>2, <1>3, <1>4, <2>1 DEF Gone
    <3>2. QED
      <4>1. Cardinality(Gone(i)') = 0
        BY <3>1, FS_EmptySet
      <4>2. r'[i] = age /\ age \in 0..Old /\ Old \in Nat
        BY <1>1, <1>4, <2>1, Bounds DEF Old
      <4>3. QED
        BY <4>1, <4>2
  <2>2. CASE i \in 1..(n - d)
    <3> DEFINE back == [j \in Gone(i)' |-> j + d]
    <3>1. r'[i] = r[i + d] /\ i + d \in Ring
      BY <1>4, <2>2
    <3>2. \A j \in Gone(i)' : j \in 1..(n - d) /\ j > i /\ r'[j] = Old
      BY <1>1, <1>4, <1>5 DEF Gone
    <3>3. \A j \in Gone(i)' : j + d \in Gone(i + d)
      BY <1>3, <1>4, <2>2, <3>2 DEF Gone, Old
    <3>4. back \in [Gone(i)' -> Gone(i + d)]
      BY <3>3
    <3>5. \A j, k \in Gone(i)' : back[j] = back[k] => j = k
      BY <1>3, <3>2
    <3>6. back \in Injection(Gone(i)', Gone(i + d))
      BY <3>4, <3>5 DEF Injection, IsInjective
    <3>7. IsFiniteSet(Gone(i + d)) /\ Cardinality(Gone(i + d)) \in Nat
      BY RingIsFinite
    <3>8. IsFiniteSet(Gone(i)') /\ Cardinality(Gone(i)') <= Cardinality(Gone(i + d))
      BY <3>6, <3>7, FS_Injection
    <3>9. Cardinality(Gone(i)') \in Nat
      BY <3>8, FS_CardinalityType
    <3>10. Cardinality(Gone(i + d)) <= r[i + d] /\ r[i + d] \in 0..Old
      BY <1>2, <1>8, <3>1 DEF RingInv
    <3>11. QED
      BY <3>1, <3>7, <3>8, <3>9, <3>10, Bounds DEF Old
  <2>3. QED
    BY <1>5, <2>1, <2>2
<1>9. RingInv'
  BY <1>7, <1>8 DEF RingInv, Old
<1>10. HeardIsRemembered'
  <2> SUFFICES ASSUME NEW a \in heard' PROVE a \in Range(heartbeatReplay')
    BY DEF HeardIsRemembered
  <2>1. CASE a = age
    <3>1. n + 1 - d \in DOMAIN heartbeatReplay'
      BY <1>2, <1>3, <1>4 DEF Ring
    <3>2. QED
      BY <1>4, <2>1, <3>1 DEF Range
  <2>2. CASE a \in heard
    <3>1. PICK i \in Ring : r[i] = a
      BY <2>2 DEF HeardIsRemembered, Range, Ring
    <3>2. a # Old
      BY <2>2, Bounds DEF Typed, Ages, Old
    <3>3. i - d \in 1..(n - d)
      <4>1. CASE d = 0
        BY <1>2, <4>1
      <4>2. CASE d = 1
        <5>1. n = Slots
          BY <1>2, <4>2
        <5>2. r[1] = Old
          BY <1>1, <5>1, DroppedIsOld
        <5>3. i # 1
          BY <3>1, <3>2, <5>2
        <5>4. QED
          BY <1>2, <4>2, <5>3
      <4>3. QED
        BY <1>3, <4>1, <4>2
    <3>4. r'[i - d] = a /\ i - d \in DOMAIN heartbeatReplay'
      <4>1. r'[i - d] = r[(i - d) + d]
        BY <1>4, <3>3
      <4>2. (i - d) + d = i
        BY <1>2, <1>3
      <4>3. QED
        BY <1>2, <1>3, <1>4, <3>1, <3>3, <4>1, <4>2 DEF Ring
    <3>5. QED
      BY <3>4 DEF Range
  <2>3. QED
    BY <1>1, <2>1, <2>2
<1>11. QED
  BY <1>9, <1>10

LEMMA NextKeepsRing ==
  Typed /\ RingInv /\ HeardIsRemembered /\ [DNext]_dvars => RingInv' /\ HeardIsRemembered'
<1> SUFFICES ASSUME Typed, RingInv, HeardIsRemembered, [DNext]_dvars
             PROVE  RingInv' /\ HeardIsRemembered'
  OBVIOUS
<1>1. CASE UNCHANGED <<heartbeatReplay, heard>>
  BY <1>1 DEF RingInv, HeardIsRemembered, Gone, Ring
<1>2. CASE PowerCycle
  <2>1. DOMAIN heartbeatReplay' = {} /\ heard' = {}
    BY <1>2 DEF PowerCycle
  <2>2. QED
    BY <2>1 DEF RingInv, HeardIsRemembered, Ring
<1>3. QED
  BY <1>1, <1>2, TickKeepsRing, HeartbeatKeepsRing
  DEF DNext, SendHeartbeat, OnTimeSync, HandleCommand, CheckDeadman, dvars, beats

-----------------------------------------------------------------------------
(* The dead-man invariants, and with them the heartbeats remembered. *)
DeadInv == Typed /\ SilenceInv /\ RingInv /\ HeardIsRemembered

LEMMA DeadInvariance == DInit /\ [][DNext]_dvars => []DeadInv
<1>1. DInit => DeadInv
  <2> SUFFICES ASSUME DInit PROVE DeadInv
    OBVIOUS
  <2>1. SilenceInv
    BY DEF DInit, SilenceInv, SinceBeat, BeforeBeat
  <2>2. RingInv /\ HeardIsRemembered
    <3>1. DOMAIN heartbeatReplay = {} /\ heard = {}
      BY DEF DInit
    <3>2. QED
      BY <3>1 DEF RingInv, Ring, HeardIsRemembered
  <2>3. QED
    BY <2>1, <2>2, InitTypes DEF DeadInv
<1>2. DeadInv /\ [DNext]_dvars => DeadInv'
  BY NextKeepsTypes, NextKeepsSilence, NextKeepsRing DEF DeadInv
<1>3. QED
  BY <1>1, <1>2, PTL

(* Every variable of the dead-man switch keeps its type, for any timeouts,
   window, ring and wrap the assumption admits. *)
THEOREM DeadManTypeCorrect == DSpec => []DTypeOK
<1>1. DeadInv => DTypeOK
  BY TypedIsTypeOK DEF DeadInv
<1>2. QED
  BY <1>1, DeadInvariance, PTL DEF DSpec

(* Silence locks the relay in time, across the wrap of millis(). *)
THEOREM SilenceCorrect == DSpec => []SilenceBound
<1>1. DeadInv => SilenceBound
  BY SilenceBounded DEF DeadInv
<1>2. QED
  BY <1>1, DeadInvariance, PTL DEF DSpec

(* No accepted heartbeat that is fresh enough to pass again leaves the ring. *)
THEOREM HeardCorrect == DSpec => []HeardIsRemembered
<1>1. DeadInv => HeardIsRemembered
  BY DEF DeadInv
<1>2. QED
  BY <1>1, DeadInvariance, PTL DEF DSpec
-----------------------------------------------------------------------------
(* What checkDeadman leaves of the relay: as it was, or locked. *)
LEMMA CheckDeadmanLocks ==
  ASSUME isLockedDown \in BOOLEAN, CheckDeadman
  PROVE  isLockedDown' = isLockedDown \/ (~isLockedDown /\ isLockedDown' = TRUE)
<1>1. CASE lastHeartbeatMs = 0
  <2>1. isLockedDown' = (isLockedDown \/ millis > Grace)
    BY <1>1 DEF CheckDeadman
  <2>2. QED
    BY <2>1, Zenon
<1>2. CASE lastHeartbeatMs # 0
  <2>1. isLockedDown' = (isLockedDown \/ (Elapsed(lastHeartbeatMs) > Deadman /\ ~deadmanTriggered))
    BY <1>2 DEF CheckDeadman
  <2>2. QED
    BY <2>1, Zenon
<1>3. QED
  BY <1>1, <1>2

(* What the Core does leaves the device alone. *)
LEMMA CoreLeavesDevice == CoreStep => UNCHANGED device /\ UNCHANGED dvars
BY DEF CoreStep, Issue, Receive, CoreRestart, Reserve, Withdraw, Publish, PublishRaises,
       RecordPublished, ConsumeAck, CorrelateStatus, ResyncForward

(* The composed device.  Each of its steps is a step of the command path, or
   leaves it alone. *)
LEMMA RelayStepIsLinkStep == IInv /\ OneOutput /\ RelayNext => [Next]_vars
<1> SUFFICES ASSUME IInv, OneOutput, RelayNext PROVE Next \/ UNCHANGED vars
  OBVIOUS
<1>1. CASE CoreStep
  BY <1>1 DEF CoreStep, Next
<1>2. CASE TakeCommand
  BY <1>2 DEF TakeCommand, Next, Handle
<1>3. CASE MoveRelay \/ AnswerCommand
  BY <1>3 DEF MoveRelay, AnswerCommand, Next, Handle
<1>4. CASE LoopChecks
  <2>1. locked' = locked \/ (~locked /\ locked' = TRUE)
    BY <1>4, CheckDeadmanLocks DEF LoopChecks, OneOutput, IInv, TypeOK
  <2>2. UNCHANGED besidesOutput /\ stage = "IDLE"
    BY <1>4 DEF LoopChecks
  <2>3. CASE locked' = locked
    BY <2>2, <2>3 DEF besidesOutput, vars, device
  <2>4. CASE ~locked /\ locked' = TRUE
    <3>1. FailSecure
      BY <2>2, <2>4 DEF FailSecure, besidesOutput
    <3>2. QED
      BY <3>1 DEF Next
  <2>5. QED
    BY <2>1, <2>3, <2>4
<1>5. CASE Restart
  BY <1>5 DEF Restart, Next
<1>6. CASE CoreBeats \/ TakeHeartbeat \/ Clock
  BY <1>6 DEF CoreBeats, TakeHeartbeat, Clock
<1>7. QED
  BY <1>1, <1>2, <1>3, <1>4, <1>5, <1>6 DEF RelayNext

(* Each of its steps is a step of the dead-man switch, or leaves it alone. *)
LEMMA RelayStepIsDeadmanStep == IInv /\ RelayNext => [DNext]_dvars
<1> SUFFICES ASSUME IInv, RelayNext PROVE DNext \/ UNCHANGED dvars
  OBVIOUS
<1>1. CASE CoreStep \/ TakeCommand \/ AnswerCommand
  BY <1>1 DEF CoreStep, TakeCommand, AnswerCommand
<1>2. CASE MoveRelay
  <2>1. current.action \in {"CUT_UPLINK", "RESTORE_UPLINK"}
    BY <1>2 DEF MoveRelay, Actuate, IInv, DeviceInv, TypeOK, Commands, Actions
  <2>2. QED
    BY <1>2, <2>1 DEF MoveRelay, DNext
<1>3. CASE TakeHeartbeat \/ CoreBeats \/ Clock \/ LoopChecks \/ Restart
  BY <1>3 DEF TakeHeartbeat, CoreBeats, Clock, LoopChecks, Restart, DNext
<1>4. QED
  BY <1>1, <1>2, <1>3 DEF RelayNext

(* Both modules see every movement of the relay. *)
LEMMA OneOutputStep == OneOutput /\ [RelayNext]_relayVars => OneOutput'
<1> SUFFICES ASSUME OneOutput, [RelayNext]_relayVars PROVE OneOutput'
  OBVIOUS
<1>1. CASE UNCHANGED <<locked, isLockedDown>>
  BY <1>1 DEF OneOutput
<1>2. CASE CoreStep \/ UNCHANGED relayVars
  BY <1>1, <1>2, CoreLeavesDevice DEF relayVars, vars, device, dvars, relay
<1>3. CASE TakeCommand \/ AnswerCommand
  BY <1>1, <1>3 DEF TakeCommand, RejectExpired, RejectSequence, RejectPersist, Accept,
                    AnswerCommand, Report, device, dvars, relay
<1>4. CASE MoveRelay
  BY <1>4 DEF MoveRelay, Actuate, HandleCommand, OneOutput
<1>5. CASE LoopChecks \/ Restart
  BY <1>5 DEF LoopChecks, Restart, DeviceReboot, PowerCycle, OneOutput
<1>6. CASE TakeHeartbeat \/ CoreBeats \/ Clock
  BY <1>1, <1>6 DEF TakeHeartbeat, HandleHeartbeat, CoreBeats, SendHeartbeat, Clock, OnTimeSync,
                    Tick, relay, vars, device
<1>7. QED
  BY <1>2, <1>3, <1>4, <1>5, <1>6 DEF RelayNext

LEMMA RelayInvariance == RelaySpec => [](IInv /\ OneOutput)
<1>1. RelayInit => IInv /\ OneOutput
  BY InitIInv DEF RelayInit, Init, DInit, OneOutput
<1>2. IInv /\ OneOutput /\ [RelayNext]_relayVars => (IInv /\ OneOutput)'
  <2> SUFFICES ASSUME IInv, OneOutput, [RelayNext]_relayVars PROVE IInv' /\ OneOutput'
    OBVIOUS
  <2>1. [Next]_vars
    BY RelayStepIsLinkStep DEF relayVars
  <2>2. IInv'
    BY <2>1, TypeStep, DeviceStep, EvidenceStep, IssuerStep DEF IInv
  <2>3. QED
    BY <2>2, OneOutputStep
<1>3. QED
  BY <1>1, <1>2, PTL DEF RelaySpec

(* The composed device obeys the command path of CommandLink, so everything
   proved there holds of it. *)
THEOREM RelayFollowsCommandLink == RelaySpec => FollowsCommandLink
<1>1. RelayInit => Init
  BY DEF RelayInit
<1>2. IInv /\ OneOutput /\ [RelayNext]_relayVars => [Next]_vars
  BY RelayStepIsLinkStep DEF relayVars
<1>3. QED
  BY <1>1, <1>2, RelayInvariance, PTL DEF RelaySpec, FollowsCommandLink, Spec

(* And it obeys the dead-man switch of DeadMan, whose safety holds of it too. *)
THEOREM RelayFollowsDeadMan == RelaySpec => FollowsDeadMan
<1>1. RelayInit => DInit
  BY DEF RelayInit
<1>2. IInv /\ [RelayNext]_relayVars => [DNext]_dvars
  BY RelayStepIsDeadmanStep DEF relayVars
<1>3. QED
  BY <1>1, <1>2, RelayInvariance, PTL DEF RelaySpec, FollowsDeadMan

-----------------------------------------------------------------------------
(* One frame carries a number, and while the relay is NORMAL the newest number it
   executed was carried by a RESTORE. *)
FramesUnique == \A c, d \in sent : c.seq = d.seq => c = d
NewestIsRestore ==
    ~locked =>
        /\ executed # <<>>
        /\ \A c \in sent : c.seq = executed[Len(executed)] => c.action = "RESTORE_UPLINK"

LEMMA NewestExecuted ==
  ASSUME IInv, executed # <<>>
  PROVE  executed[Len(executed)] \in ExecutedSeqs
<1>1. executed \in Seq(Seqs)
  BY DEF IInv, TypeOK
<1>2. Len(executed) \in DOMAIN executed
  BY <1>1
<1>3. QED
  BY <1>2 DEF ExecutedSeqs

(* The only frame a step puts on the wire has a number that was never sent. *)
LEMMA FrameIsNew ==
  ASSUME IInv, [Next]_vars
  PROVE  sent' = sent \/ (sent' = sent \cup {inHand} /\ inHand.seq \notin SentSeqs
                          /\ UNCHANGED <<executed, locked>>)
<1>1. CASE Publish \/ PublishRaises
  BY <1>1 DEF Publish, PublishRaises, IInv, IssuerInv, device
<1>2. QED
  BY <1>1 DEF Next, Issue, Receive, Handle, Reserve, Withdraw, RecordPublished, CoreRestart,
              ConsumeAck, CorrelateStatus, ResyncForward, RejectExpired, RejectSequence,
              RejectPersist, Accept, Actuate, Report, FailSecure, DeviceReboot, vars, network

(* A step that leaves the relay NORMAL executed a RESTORE or moved nothing. *)
LEMMA NormalStep ==
  ASSUME IInv, [Next]_vars, ~locked'
  PROVE  UNCHANGED <<executed, locked>> \/ (Actuate /\ current.action = "RESTORE_UPLINK" /\ sent' = sent)
<1>1. CASE Actuate
  <2>1. current.action \in Actions
    BY <1>1 DEF Actuate, IInv, DeviceInv, TypeOK, Commands
  <2>2. QED
    BY <1>1, <2>1 DEF Actuate, Actions, network
<1>2. QED
  BY <1>1 DEF Next, Issue, Receive, Handle, Reserve, Withdraw, Publish, PublishRaises,
              RecordPublished, CoreRestart, ConsumeAck, CorrelateStatus, ResyncForward,
              RejectExpired, RejectSequence, RejectPersist, Accept, Report, FailSecure,
              DeviceReboot, vars, device

LEMMA NewestStep ==
  IInv /\ FramesUnique /\ NewestIsRestore /\ [Next]_vars => FramesUnique' /\ NewestIsRestore'
<1> SUFFICES ASSUME IInv, FramesUnique, NewestIsRestore, [Next]_vars
             PROVE  FramesUnique' /\ NewestIsRestore'
  OBVIOUS
<1>1. FramesUnique'
  <2>1. CASE sent' = sent
    BY <2>1 DEF FramesUnique
  <2>2. CASE sent' = sent \cup {inHand} /\ inHand.seq \notin SentSeqs
    BY <2>2 DEF FramesUnique, SentSeqs
  <2>3. QED
    BY <2>1, <2>2, FrameIsNew
<1>2. NewestIsRestore'
  <2> SUFFICES ASSUME ~locked'
               PROVE  /\ executed' # <<>>
                      /\ \A c \in sent' : c.seq = executed'[Len(executed')] => c.action = "RESTORE_UPLINK"
    BY DEF NewestIsRestore
  <2>1. CASE UNCHANGED <<executed, locked>>
    <3>1. executed # <<>> /\ executed[Len(executed)] \in SentSeqs
      BY <2>1, NewestExecuted DEF NewestIsRestore, IInv, DeviceInv
    <3>2. \A c \in sent' : c \in sent \/ c.seq \notin SentSeqs
      BY FrameIsNew
    <3>3. QED
      BY <2>1, <3>1, <3>2 DEF NewestIsRestore
  <2>2. CASE Actuate /\ current.action = "RESTORE_UPLINK" /\ sent' = sent
    <3>1. current \in sent /\ current \in Commands
      BY <2>2 DEF Actuate, IInv, DeviceInv, TypeOK
    <3>2. executed' \in Seq(Seqs) /\ executed'[Len(executed) + 1] = current.seq
          /\ DOMAIN executed' = DOMAIN executed \cup {Len(executed) + 1}
          /\ DOMAIN executed = 1..Len(executed) /\ Len(executed) \in Nat
      BY <2>2, <3>1, ActuateAppends DEF IInv
    <3>3. executed \in Seq(Seqs) /\ executed' = Append(executed, current.seq) /\ current.seq \in Seqs
      BY <2>2, <3>1 DEF Actuate, IInv, TypeOK, Commands
    <3>4. Len(executed') = Len(executed) + 1 /\ executed' # <<>>
      BY <3>3
    <3>5. QED
      BY <2>2, <3>1, <3>2, <3>4 DEF FramesUnique
  <2>3. QED
    BY <2>1, <2>2, NormalStep
<1>3. QED
  BY <1>1, <1>2

LEMMA NewestInvariance == Spec => [](IInv /\ FramesUnique /\ NewestIsRestore)
<1>1. Init => IInv /\ FramesUnique /\ NewestIsRestore
  <2>1. Init => FramesUnique /\ NewestIsRestore
    BY DEF Init, FramesUnique, NewestIsRestore
  <2>2. QED
    BY <2>1, InitIInv
<1>2. IInv /\ FramesUnique /\ NewestIsRestore /\ [Next]_vars => (IInv /\ FramesUnique /\ NewestIsRestore)'
  BY TypeStep, DeviceStep, EvidenceStep, IssuerStep, NewestStep DEF IInv
<1>3. QED
  BY <1>1, <1>2, PTL DEF Spec

(* The relay is NORMAL by the newest command it executed, and only while the Core is
   heard or the dead-man has already fired. *)
THEOREM NormalCorrect == RelaySpec => []NormalIsEarned
<1>1. IInv /\ FramesUnique /\ NewestIsRestore /\ DeadInv /\ OneOutput => NormalIsEarned
  <2> SUFFICES ASSUME IInv, NewestIsRestore, DeadInv, OneOutput, ~locked PROVE NormalIsEarned
    BY DEF NormalIsEarned
  <2>1. executed # <<>> /\ executed[Len(executed)] \in SentSeqs
    BY NewestExecuted DEF NewestIsRestore, IInv, DeviceInv
  <2>2. SilenceBound
    BY SilenceBounded DEF DeadInv
  <2>3. QED
    BY <2>1, <2>2 DEF NormalIsEarned, NewestIsRestore, SilenceBound, OneOutput
<1>2. QED
  BY <1>1, RelayFollowsCommandLink, RelayFollowsDeadMan, RelayInvariance, NewestInvariance, DeadInvariance, PTL
  DEF FollowsCommandLink, FollowsDeadMan
=============================================================================
