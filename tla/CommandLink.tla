------------------------------ MODULE CommandLink ------------------------------
(***************************************************************************)
(* The Protocol v1 command path of IDEA3 for one relay: the Core's durable *)
(* protocol store (aegis_soc/protocol_store.py), the controller steps that *)
(* reserve, publish and record a command (aegis_soc/controller.py), the    *)
(* Core's handling of ACK and STATUS (aegis_soc/mqtt_client.py) and the    *)
(* ESP32 command handler with its NVS sequence (firmware/src/main.cpp).    *)
(*                                                                         *)
(* A command is identified by its sequence number: rows are UNIQUE on      *)
(* (device_id, seq), and msg_id is a fresh 128-bit value per row.  The     *)
(* broker is external.  A frame that was sent stays in a set from which it *)
(* may be delivered late, out of order, again, or never.                   *)
(***************************************************************************)
EXTENDS Integers, Sequences

CONSTANTS
    Ceiling,        (* SEQUENCE_CEILING: the last number the store can hand out *)
    InitialMarks    (* values seq_hi may have in NVS when this Core store is new *)

ASSUME CeilingAssumption == Ceiling \in Nat \ {0}
ASSUME MarksAssumption == InitialMarks \subseteq Nat

Seqs == 1..Ceiling
Actions == {"CUT_UPLINK", "RESTORE_UPLINK"}
Commands == [seq : Seqs, action : Actions]
Results == {"ACCEPTED", "REJECTED_EXPIRED", "REJECTED_SEQUENCE", "REJECTED_PERSIST"}
Acks == [seq : Seqs, result : Results]
Statuses == [seq : Seqs, reason : {"COMMAND", "SEQUENCE_REJECTED"}, hwm : Nat]
RowStates == {"FREE", "RESERVED", "PUBLISHED", "NOT_PUBLISHED", "ACK_CONSUMED", "CLOSED"}
OpenStates == {"PUBLISHED", "ACK_CONSUMED"}
UnresolvedStates == {"RESERVED", "PUBLISHED", "ACK_CONSUMED"}
Outcomes == {"NONE", "SENT", "NOT_SENT", "OUTCOME_UNKNOWN"}
NoCommand == [seq |-> 0, action |-> "NONE"]

VARIABLES
    alloc,      (* protocol_sequence.last_allocated_seq *)
    row,        (* protocol_commands.state by sequence number; FREE: no row *)
    ack,        (* protocol_commands.ack_result; NONE until an ACK is consumed *)
    correlated, (* the numbers whose status_correlated is 1 *)
    phase,      (* where the issuing thread is inside _issue_v1 *)
    inHand,     (* the command that thread reserved *)
    told,       (* CommandResult returned to the caller of issue *)
    sent,       (* COMMAND frames the MQTT client accepted *)
    acks,       (* ACK frames the device published *)
    statuses,   (* correlated STATUS frames the device published *)
    nvs,        (* seq_hi in the device's flash *)
    hwm,        (* highestSequence in the device's RAM *)
    locked,     (* isLockedDown, the relay output *)
    stage,      (* where the device is inside handleCommand *)
    current,    (* the command it is handling *)
    executed    (* history: the numbers whose setLockdown ran, in order *)

store == <<alloc, row, ack, correlated>>
issuer == <<phase, inHand, told>>
network == <<sent, acks, statuses>>
device == <<nvs, hwm, locked, stage, current, executed>>
vars == <<store, issuer, network, device>>

Lesser(a, b) == IF a <= b THEN a ELSE b
ExecutedSeqs == {executed[i] : i \in DOMAIN executed}
SentSeqs == {c.seq : c \in sent}

TypeOK ==
    /\ alloc \in 0..Ceiling
    /\ row \in [Seqs -> RowStates]
    /\ ack \in [Seqs -> Results \cup {"NONE"}]
    /\ correlated \subseteq Seqs
    /\ phase \in {"IDLE", "RESERVED", "ON_WIRE"}
    /\ inHand \in Commands \cup {NoCommand}
    /\ told \in [Seqs -> Outcomes]
    /\ sent \subseteq Commands
    /\ acks \subseteq Acks
    /\ statuses \subseteq Statuses
    /\ nvs \in Nat
    /\ hwm \in Nat
    /\ locked \in BOOLEAN
    /\ stage \in {"IDLE", "PERSISTED", "ACTUATED"}
    /\ current \in Commands \cup {NoCommand}
    /\ executed \in Seq(Seqs)

Init ==
    /\ alloc = 0
    /\ row = [s \in Seqs |-> "FREE"]
    /\ ack = [s \in Seqs |-> "NONE"]
    /\ correlated = {}
    /\ phase = "IDLE"
    /\ inHand = NoCommand
    /\ told = [s \in Seqs |-> "NONE"]
    /\ sent = {}
    /\ acks = {}
    /\ statuses = {}
    /\ nvs \in InitialMarks
    /\ hwm = nvs
    /\ locked = TRUE
    /\ stage = "IDLE"
    /\ current = NoCommand
    /\ executed = <<>>

-----------------------------------------------------------------------------
(* Faulty variants of the operations below, one plausible slip each.  No
   behaviour of Spec uses them; substituted for their original they show that
   the property named beside them can fail. *)

(* TypeOK: the ceiling is not checked. *)
ReservePastCeiling(a) ==
    /\ phase = "IDLE"
    /\ alloc' = alloc + 1
    /\ row' = [row EXCEPT ![alloc + 1] = "RESERVED"]
    /\ phase' = "RESERVED"
    /\ inHand' = [seq |-> alloc + 1, action |-> a]
    /\ UNCHANGED <<ack, correlated, told, network, device>>

(* NumbersNeverReused: the device's mark is taken over even when it is lower. *)
ResyncAnyDirection(m) ==
    /\ m.reason = "SEQUENCE_REJECTED"
    /\ row[m.seq] \in OpenStates
    /\ alloc' = Lesser(m.hwm, Ceiling)
    /\ UNCHANGED <<row, ack, correlated, issuer, network, device>>

(* RefusedSequenceIsFinal: the mark is raised in RAM only. *)
AcceptUnpersisted(c) ==
    /\ stage = "IDLE"
    /\ c.seq > hwm
    /\ hwm' = c.seq
    /\ stage' = "PERSISTED"
    /\ current' = c
    /\ UNCHANGED <<store, issuer, network, nvs, locked, executed>>

(* KeepsPromise: the current mark is still acceptable. *)
AcceptAgain(c) ==
    /\ stage = "IDLE"
    /\ c.seq >= hwm
    /\ nvs' = c.seq
    /\ hwm' = c.seq
    /\ stage' = "PERSISTED"
    /\ current' = c
    /\ UNCHANGED <<store, issuer, network, locked, executed>>

-----------------------------------------------------------------------------
(* The issuing thread.  AegisSupervisor._command_lock admits one at a time. *)

(* reserve_command: the next number is allocated and its row committed before
   anything is published; at the ceiling nothing is reserved. *)
Reserve(a) ==
    /\ phase = "IDLE"
    /\ alloc < Ceiling
    /\ alloc' = alloc + 1
    /\ row' = [row EXCEPT ![alloc + 1] = "RESERVED"]
    /\ phase' = "RESERVED"
    /\ inHand' = [seq |-> alloc + 1, action |-> a]
    /\ UNCHANGED <<ack, correlated, told, network, device>>

(* The caller is told that nothing was sent: encoding failed, pre_publish
   raised or publish returned False.  The row is marked unless the store write
   fails, which _mark_not_published only logs. *)
Withdraw ==
    /\ phase = "RESERVED"
    /\ \/ row' = [row EXCEPT ![inHand.seq] = IF @ = "RESERVED" THEN "NOT_PUBLISHED" ELSE @]
       \/ row' = row
    /\ told' = [told EXCEPT ![inHand.seq] = "NOT_SENT"]
    /\ phase' = "IDLE"
    /\ inHand' = NoCommand
    /\ UNCHANGED <<alloc, ack, correlated, network, device>>

(* mqtt.publish returned True: the frame is out, the row still says RESERVED. *)
Publish ==
    /\ phase = "RESERVED"
    /\ sent' = sent \cup {inHand}
    /\ phase' = "ON_WIRE"
    /\ UNCHANGED <<store, inHand, told, acks, statuses, device>>

(* mqtt.publish raised: the frame may or may not be out, and the row is left. *)
PublishRaises ==
    /\ phase = "RESERVED"
    /\ sent' \in {sent, sent \cup {inHand}}
    /\ told' = [told EXCEPT ![inHand.seq] = "OUTCOME_UNKNOWN"]
    /\ phase' = "IDLE"
    /\ inHand' = NoCommand
    /\ UNCHANGED <<store, acks, statuses, device>>

(* mark_published follows the publish; a failed write is logged and the caller
   is told SENT either way. *)
RecordPublished ==
    /\ phase = "ON_WIRE"
    /\ \/ row' = [row EXCEPT ![inHand.seq] = IF @ = "RESERVED" THEN "PUBLISHED" ELSE @]
       \/ row' = row
    /\ told' = [told EXCEPT ![inHand.seq] = "SENT"]
    /\ phase' = "IDLE"
    /\ inHand' = NoCommand
    /\ UNCHANGED <<alloc, ack, correlated, network, device>>

(* The Core stops anywhere and starts again: the thread is gone and
   close_open_commands_after_restart runs before MQTT starts. *)
CoreRestart ==
    /\ row' = [s \in Seqs |-> IF row[s] \in UnresolvedStates THEN "CLOSED" ELSE row[s]]
    /\ phase' = "IDLE"
    /\ inHand' = NoCommand
    /\ UNCHANGED <<alloc, ack, correlated, told, network, device>>

-----------------------------------------------------------------------------
(* The MQTT callback thread of the Core, concurrent with the issuing thread. *)

(* consume_ack takes only a row that already says PUBLISHED. *)
ConsumeAck(m) ==
    /\ row[m.seq] = "PUBLISHED"
    /\ row' = [row EXCEPT ![m.seq] = "ACK_CONSUMED"]
    /\ ack' = [ack EXCEPT ![m.seq] = m.result]
    /\ UNCHANGED <<alloc, correlated, issuer, network, device>>

(* correlate_status: once per open command, before or after its ACK. *)
CorrelateStatus(m) ==
    /\ m.reason = "COMMAND"
    /\ row[m.seq] \in OpenStates
    /\ m.seq \notin correlated
    /\ correlated' = correlated \cup {m.seq}
    /\ UNCHANGED <<alloc, row, ack, issuer, network, device>>

(* resync_forward: only for an open command, and only forward. *)
ResyncForward(m) ==
    /\ m.reason = "SEQUENCE_REJECTED"
    /\ row[m.seq] \in OpenStates
    /\ Lesser(m.hwm, Ceiling) > alloc
    /\ alloc' = Lesser(m.hwm, Ceiling)
    /\ UNCHANGED <<row, ack, correlated, issuer, network, device>>

-----------------------------------------------------------------------------
(* The device.  Its loop is one thread, so handleCommand and checkDeadman never
   overlap, but the power can fail between any two steps. *)

(* The skew and expiry checks depend on two clocks, so either verdict is
   possible for any frame; REJECTED_EXPIRED changes nothing on the device. *)
RejectExpired(c) ==
    /\ stage = "IDLE"
    /\ acks' = acks \cup {[seq |-> c.seq, result |-> "REJECTED_EXPIRED"]}
    /\ UNCHANGED <<store, issuer, sent, statuses, device>>

RejectSequence(c) ==
    /\ stage = "IDLE"
    /\ c.seq <= hwm
    /\ acks' = acks \cup {[seq |-> c.seq, result |-> "REJECTED_SEQUENCE"]}
    /\ statuses' = statuses \cup {[seq |-> c.seq, reason |-> "SEQUENCE_REJECTED", hwm |-> hwm]}
    /\ UNCHANGED <<store, issuer, sent, device>>

(* putULong64 reported 0; the flash may hold the value all the same. *)
RejectPersist(c) ==
    /\ stage = "IDLE"
    /\ c.seq > hwm
    /\ nvs' \in {nvs, c.seq}
    /\ acks' = acks \cup {[seq |-> c.seq, result |-> "REJECTED_PERSIST"]}
    /\ UNCHANGED <<store, issuer, sent, statuses, hwm, locked, stage, current, executed>>

Accept(c) ==
    /\ stage = "IDLE"
    /\ c.seq > hwm
    /\ nvs' = c.seq
    /\ hwm' = c.seq
    /\ stage' = "PERSISTED"
    /\ current' = c
    /\ UNCHANGED <<store, issuer, network, locked, executed>>

Actuate ==
    /\ stage = "PERSISTED"
    /\ locked' = (current.action = "CUT_UPLINK")
    /\ executed' = Append(executed, current.seq)
    /\ stage' = "ACTUATED"
    /\ UNCHANGED <<store, issuer, network, nvs, hwm, current>>

(* sendAck then publishStatus; losing either is never delivering it. *)
Report ==
    /\ stage = "ACTUATED"
    /\ acks' = acks \cup {[seq |-> current.seq, result |-> "ACCEPTED"]}
    /\ statuses' = statuses \cup {[seq |-> current.seq, reason |-> "COMMAND", hwm |-> hwm]}
    /\ stage' = "IDLE"
    /\ current' = NoCommand
    /\ UNCHANGED <<store, issuer, sent, nvs, hwm, locked, executed>>

(* checkDeadman locks the relay; when it does is the subject of DeadMan. *)
FailSecure ==
    /\ stage = "IDLE"
    /\ ~locked
    /\ locked' = TRUE
    /\ UNCHANGED <<store, issuer, network, nvs, hwm, stage, current, executed>>

DeviceReboot ==
    /\ hwm' = nvs
    /\ locked' = TRUE
    /\ stage' = "IDLE"
    /\ current' = NoCommand
    /\ UNCHANGED <<store, issuer, network, nvs, executed>>

-----------------------------------------------------------------------------
Issue == (\E a \in Actions : Reserve(a)) \/ Withdraw \/ Publish \/ PublishRaises \/ RecordPublished
Receive ==
    \/ \E m \in acks : ConsumeAck(m)
    \/ \E m \in statuses : CorrelateStatus(m) \/ ResyncForward(m)
Handle ==
    \/ \E c \in sent : RejectExpired(c) \/ RejectSequence(c) \/ RejectPersist(c) \/ Accept(c)
    \/ Actuate
    \/ Report
Next == Issue \/ CoreRestart \/ Receive \/ Handle \/ FailSecure \/ DeviceReboot

Spec == Init /\ [][Next]_vars

-----------------------------------------------------------------------------
(* The device obeys each command at most once and only in the order the Core
   issued them, across replays, lost frames, failed flash writes and power
   cycles of either side: an old RESTORE can never undo a newer CUT. *)
ExecutedInOrder ==
    \A i, j \in DOMAIN executed : i < j => executed[i] < executed[j]

(* What the Core recorded as device evidence did happen: an ACCEPTED ACK or a
   correlated COMMAND status in the store means setLockdown ran for that row. *)
EvidenceIsTrue ==
    \A s \in Seqs : ack[s] = "ACCEPTED" \/ s \in correlated => s \in ExecutedSeqs

(* The publish is the point of no return: a caller told NOT_SENT, or a row that
   says NOT_PUBLISHED, never had a frame on the wire, so the relay never moved
   for it.  Conversely a row that says PUBLISHED did. *)
UnsentIsUnsent ==
    \A s \in Seqs :
        /\ told[s] = "NOT_SENT" \/ row[s] = "NOT_PUBLISHED" => s \notin SentSeqs \cup ExecutedSeqs
        /\ row[s] \in OpenStates => s \in SentSeqs

(* No number is ever handed out twice, and a number the allocator skipped is one
   the device had already burned: resynchronising wastes nothing usable and
   never moves back onto a row that exists. *)
NumbersNeverReused ==
    \A s \in Seqs :
        /\ row[s] # "FREE" => s <= alloc
        /\ row[s] = "FREE" /\ s <= alloc => s <= hwm

(* A row only moves forward, its ACK result is written once, and a row that was
   closed or never published takes no evidence afterwards. *)
RowIsForwardOnly ==
    [][\A s \in Seqs :
        /\ row[s] \in {"NOT_PUBLISHED", "CLOSED"} =>
              row'[s] = row[s] /\ ack'[s] = ack[s] /\ (s \in correlated') = (s \in correlated)
        /\ row[s] = "ACK_CONSUMED" => row'[s] \in {"ACK_CONSUMED", "CLOSED"}
        /\ row[s] = "PUBLISHED" => row'[s] \in {"PUBLISHED", "ACK_CONSUMED", "CLOSED"}
        /\ ack[s] # "NONE" => ack'[s] = ack[s]]_vars

(* Once the device has refused a number for its sequence and not executed it, no
   replay or reboot lets it execute later. *)
RefusedSequenceIsFinal ==
    [][\A m \in acks : m.result = "REJECTED_SEQUENCE" /\ m.seq \notin ExecutedSeqs =>
          m.seq \notin ExecutedSeqs']_vars

Releases == locked /\ ~locked'

(* The relay is released only by executing a RESTORE frame that the Core put on
   the wire, never by a reboot, a timer or a CUT. *)
ReleasedOnlyByRestore ==
    [][Releases =>
          \E c \in sent : /\ c.action = "RESTORE_UPLINK"
                          /\ executed' = Append(executed, c.seq)]_vars

(* The abstract promise this protocol keeps, with the frames on the wire as the
   offered commands and the store's device evidence as the Core's belief. *)
Promise == INSTANCE RelayCommands WITH
    Numbers <- Seqs,
    offered <- sent,
    withdrawn <- {s \in Seqs : told[s] = "NOT_SENT"},
    obeyed <- executed,
    output <- IF locked THEN "LOCKDOWN" ELSE "NORMAL",
    believed <- {s \in Seqs : ack[s] = "ACCEPTED" \/ s \in correlated}

(* Every step of the command path is a step of RelayCommands or invisible to it. *)
KeepsPromise == Promise!RSpec

(* The Protocol v1 design, section 6.1 stage 8: a CUT whose sequence cannot be
   persisted continues (fail-secure), only a RESTORE is refused. *)
CutSurvivesPersistFailure ==
    \A c \in sent : c.action = "CUT_UPLINK" =>
        [seq |-> c.seq, result |-> "REJECTED_PERSIST"] \notin acks
=============================================================================
