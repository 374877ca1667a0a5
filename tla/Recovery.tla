------------------------------- MODULE Recovery -------------------------------
(***************************************************************************)
(* The life of an incident in the Core (aegis_soc/recovery_core.py, the    *)
(* normal path of local_restore.py, historical_disposition.py and their    *)
(* rows in database.py): an alert binds it, the operator isolates its      *)
(* address, the owner restores the uplink once, the Core closes it.        *)
(*                                                                         *)
(* Three threads of the Core touch it.  The alert path takes _bind_lock;   *)
(* the Recovery operations run one at a time under _lock, through slow     *)
(* probes, and take _bind_lock only to close; the RESTORE gate runs one    *)
(* request at a time and takes the supervisor's command lock.  Nothing     *)
(* orders the gate and the Recovery operations but what they re-read.      *)
(***************************************************************************)
EXTENDS Integers, Sequences, FiniteSets

CONSTANTS
    Addresses,    (* attacker addresses an alert may carry *)
    NoAddress,
    LastIncident, (* bound on the incidents opened *)
    Attempts      (* bound on the ISOLATE requests audited *)

ASSUME RecoveryAssumption ==
    /\ NoAddress \notin Addresses
    /\ LastIncident \in Nat \ {0}
    /\ Attempts \in Nat

Ids == 1..LastIncident
IsolationResults == {"R3_VERIFIED", "R3_FAILED"}
Events == {"BOUND_CREATED", "BOUND_IP_SET", "R3_REQUESTED", "RESTORE_REQUESTED",
           "RESTORE_PUBLISHED", "R8_CLOSE", "DISPOSED"} \cup IsolationResults
Nothing == [id |-> 0, ip |-> NoAddress, step |-> "IDLE"]

VARIABLES
    state,      (* incidents.state; NONE: no such row *)
    attacker,   (* incidents.attacker_ip *)
    log,        (* the audit rows of each incident, in order of id *)
    contained,  (* addresses in the kernel's containment set *)
    operation,  (* the Recovery operation that holds _lock, its incident snapshot and step *)
    gate,       (* the RESTORE request in the gate, its incident snapshot and step *)
    uplink,     (* status.uplink *)
    physical,   (* awaiting_physical_confirmation: incident whose RESTORE it is, observed state *)
    acked,      (* incidents whose RESTORE has a consumed ACCEPTED ack *)
    correlated, (* incidents whose RESTORE has status_correlated *)
    wire,       (* incidents whose RESTORE frame is out and was not obeyed *)
    obeyed      (* incidents whose RESTORE the device obeyed *)

incidents == <<state, attacker>>
core == <<uplink, physical>>
evidence == <<acked, correlated>>
device == <<wire, obeyed>>
vars == <<incidents, log, contained, operation, gate, core, evidence, device>>

OperationSteps == {"IDLE", "ISOLATE", "BLOCK", "READ_BACK", "RESTORED", "PROBED", "COMPLETE", "AUDITED"}
                  \cup IsolationResults
GateSteps == {"IDLE", "SNAPSHOT", "ISOLATED", "CLEARED", "GUARDED", "REQUESTED", "PUBLISHED"}
Requests(steps) == [id : Ids \cup {0}, ip : Addresses \cup {NoAddress}, step : steps]

TypeOK ==
    /\ state \in [Ids -> {"NONE", "OPEN", "CLOSED"}]
    /\ attacker \in [Ids -> Addresses \cup {NoAddress}]
    /\ log \in [Ids -> Seq([event : Events, ip : Addresses \cup {NoAddress}])]
    /\ contained \subseteq Addresses
    /\ operation \in Requests(OperationSteps)
    /\ gate \in Requests(GateSteps)
    /\ uplink \in {"UNKNOWN", "LOCKDOWN", "NORMAL"}
    /\ physical \in [restore : Ids \cup {0}, observed : {"NONE", "NORMAL"}]
    /\ {acked, correlated, wire, obeyed} \subseteq SUBSET Ids

(* The database may hold an open incident without an address, opened by the
   desktop wizard before this Core took over. *)
Init ==
    /\ state \in {[i \in Ids |-> "NONE"], [i \in Ids |-> IF i = 1 THEN "OPEN" ELSE "NONE"]}
    /\ attacker = [i \in Ids |-> NoAddress]
    /\ log = [i \in Ids |-> <<>>]
    /\ contained = {}
    /\ operation = Nothing /\ gate = Nothing
    /\ uplink = "UNKNOWN" /\ physical = [restore |-> 0, observed |-> "NONE"]
    /\ acked = {} /\ correlated = {} /\ wire = {} /\ obeyed = {}

-----------------------------------------------------------------------------
Opened == {i \in Ids : state[i] = "OPEN"}

(* get_open_incident: the newest one. *)
Current == IF Opened = {} THEN 0 ELSE CHOOSE i \in Opened : \A j \in Opened : j <= i

Row(event, ip) == [event |-> event, ip |-> ip]
Mentions(rows, events) == \E k \in DOMAIN rows : rows[k].event \in events
Logged(i, events) == Mentions(log[i], events)
LogRow(i, row) == log' = [log EXCEPT ![i] = Append(@, row)]

IsolationRequests ==
    UNION {{<<i, k>> : k \in {k \in DOMAIN log[i] : log[i][k].event = "R3_REQUESTED"}} : i \in Ids}

(* restore_attempt_exists *)
Spent(i) == Logged(i, {"RESTORE_REQUESTED"})

(* _isolation_gate: the latest R3 result is VERIFIED, for the same address. *)
IsolationRecorded(i, ip) ==
    \E k \in DOMAIN log[i] :
        /\ log[i][k] = Row("R3_VERIFIED", ip)
        /\ \A l \in DOMAIN log[i] : l > k => log[i][l].event \notin IsolationResults

-----------------------------------------------------------------------------
(* Faulty variants of the operations below, one plausible slip each.  No
   behaviour of Spec uses them; substituted for their original they show that
   the property named beside them can fail. *)

(* TypeOK: the wrong column is kept. *)
TakeSnapshotOfState ==
    /\ gate.step = "IDLE" /\ Opened # {}
    /\ gate' = [id |-> Current, ip |-> state[Current], step |-> "SNAPSHOT"]
    /\ UNCHANGED <<incidents, log, contained, operation, core, evidence, device>>

(* AtMostOneOpen: an alert for another address opens another incident. *)
BindPerAddress(ip) ==
    /\ operation.step # "AUDITED"
    /\ LET i == Cardinality({j \in Ids : state[j] # "NONE"}) + 1
       IN /\ i \in Ids /\ \A j \in Opened : attacker[j] # ip
          /\ state' = [state EXCEPT ![i] = "OPEN"]
          /\ attacker' = [attacker EXCEPT ![i] = ip]
          /\ LogRow(i, Row("BOUND_CREATED", ip))
    /\ UNCHANGED <<contained, operation, gate, core, evidence, device>>

(* RestoreFollowsIsolation: containment seen live stands for the record. *)
CheckIsolationLiveOnly ==
    /\ gate.step = "SNAPSHOT"
    /\ gate' = [gate EXCEPT !.step = "ISOLATED"]
    /\ gate.ip # NoAddress /\ Cardinality(Opened) = 1
    /\ UNCHANGED <<incidents, log, contained, operation, core, evidence, device>>

(* ClosedIsRestored: a correlated status is taken for enough. *)
RestoreVerifiedUnacked(i) ==
    /\ Spent(i) /\ Logged(i, {"RESTORE_PUBLISHED"})
    /\ i \in correlated

(* DisposedNeverRestored: the incident is not compared again under the lock. *)
EnterGuardUnchecked ==
    /\ gate.step = "CLEARED"
    /\ gate' = [gate EXCEPT !.step = "GUARDED"]
    /\ uplink = "LOCKDOWN"
    /\ ~Spent(gate.id)
    /\ UNCHANGED <<incidents, log, contained, operation, core, evidence, device>>

(* _restore_gate *)
RestoreVerified(i) ==
    /\ Spent(i) /\ Logged(i, {"RESTORE_PUBLISHED"})
    /\ i \in acked /\ i \in correlated
    /\ physical = [restore |-> i, observed |-> "NORMAL"]

(* The gate holds the command lock. *)
Guarded == gate.step \in {"GUARDED", "REQUESTED"}

-----------------------------------------------------------------------------
(* The alert path.  An alert for the bound address, or for another one while an
   incident is bound, changes no incident. *)
BindIncident(ip) ==
    /\ operation.step # "AUDITED"  \* _bind_lock
    /\ LET new == Cardinality({i \in Ids : state[i] # "NONE"}) + 1
           i == IF Opened = {} THEN new ELSE Current
           event == IF Opened = {} THEN "BOUND_CREATED" ELSE "BOUND_IP_SET"
       IN /\ i \in Ids
          /\ attacker[i] = NoAddress
          /\ state' = [state EXCEPT ![i] = "OPEN"]
          /\ attacker' = [attacker EXCEPT ![i] = ip]
          /\ LogRow(i, Row(event, ip)) \/ UNCHANGED log
    /\ UNCHANGED <<contained, operation, gate, core, evidence, device>>

-----------------------------------------------------------------------------
(* ISOLATE: the incident is read, the request audited, the address blocked and
   read back, the result audited. *)
Isolate ==
    /\ operation.step = "IDLE" /\ Opened # {}
    /\ attacker[Current] # NoAddress
    /\ Cardinality(IsolationRequests) < Attempts
    /\ operation' = [id |-> Current, ip |-> attacker[Current], step |-> "ISOLATE"]
    /\ UNCHANGED <<incidents, log, contained, gate, core, evidence, device>>

Becomes(step) == operation' = [operation EXCEPT !.step = step]

RequestIsolation ==
    /\ operation.step = "ISOLATE" /\ Becomes("BLOCK")
    /\ LogRow(operation.id, Row("R3_REQUESTED", operation.ip))
    /\ UNCHANGED <<incidents, contained, gate, core, evidence, device>>

Block ==
    /\ operation.step = "BLOCK"
    /\ \/ contained' = contained \cup {operation.ip} /\ Becomes("READ_BACK")
       \/ contained' \in {contained, contained \cup {operation.ip}} /\ Becomes("R3_FAILED")
    /\ UNCHANGED <<incidents, log, gate, core, evidence, device>>

ReadBack ==
    /\ operation.step = "READ_BACK"
    /\ \/ operation.ip \in contained /\ Becomes("R3_VERIFIED")
       \/ Becomes("R3_FAILED")
    /\ UNCHANGED <<incidents, log, contained, gate, core, evidence, device>>

RecordIsolation ==
    /\ operation.step \in IsolationResults
    /\ LogRow(operation.id, Row(operation.step, operation.ip))
    /\ operation' = Nothing
    /\ UNCHANGED <<incidents, contained, gate, core, evidence, device>>

(* CLOSE: R1 and R5 are evaluated, then the probes of R2, R6 and R7, then R3
   live and R4; the incident is compared again under _bind_lock. *)
Close ==
    /\ operation.step = "IDLE" /\ Opened # {}
    /\ attacker[Current] # NoAddress /\ RestoreVerified(Current)
    /\ operation' = [id |-> Current, ip |-> attacker[Current], step |-> "RESTORED"]
    /\ UNCHANGED <<incidents, log, contained, gate, core, evidence, device>>

ProbeServices ==
    /\ operation.step = "RESTORED" /\ uplink = "NORMAL" /\ Becomes("PROBED")
    /\ UNCHANGED <<incidents, log, contained, gate, core, evidence, device>>

CheckClosure ==
    /\ operation.step = "PROBED" /\ Becomes("COMPLETE")
    /\ IsolationRecorded(operation.id, operation.ip) /\ operation.ip \in contained
    /\ Spent(operation.id)
    /\ UNCHANGED <<incidents, log, contained, gate, core, evidence, device>>

AuditClosure ==
    /\ operation.step = "COMPLETE" /\ Becomes("AUDITED")
    /\ Current = operation.id /\ attacker[operation.id] = operation.ip
    /\ LogRow(operation.id, Row("R8_CLOSE", operation.ip))
    /\ UNCHANGED <<incidents, contained, gate, core, evidence, device>>

CloseIncident ==
    /\ operation.step = "AUDITED"
    /\ state' = [state EXCEPT ![operation.id] = "CLOSED"]
    /\ operation' = Nothing
    /\ UNCHANGED <<attacker, log, contained, gate, core, evidence, device>>

(* A probe fails, a gate is incomplete or an audit row cannot be written. *)
Abandon ==
    /\ operation.step \in {"ISOLATE", "RESTORED", "PROBED", "COMPLETE"} \cup IsolationResults
    /\ operation' = Nothing
    /\ UNCHANGED <<incidents, log, contained, gate, core, evidence, device>>

-----------------------------------------------------------------------------
(* The RESTORE gate: one snapshot of the incident, checked without any lock ... *)
TakeSnapshot ==
    /\ gate.step = "IDLE" /\ Opened # {}
    /\ ~Spent(Current)
    /\ gate' = [id |-> Current, ip |-> attacker[Current], step |-> "SNAPSHOT"]
    /\ UNCHANGED <<incidents, log, contained, operation, core, evidence, device>>

Advances(step) == gate' = [gate EXCEPT !.step = step]

CheckIsolation ==
    /\ gate.step = "SNAPSHOT" /\ Advances("ISOLATED")
    /\ gate.ip # NoAddress /\ Cardinality(Opened) = 1
    /\ IsolationRecorded(gate.id, gate.ip)
    /\ UNCHANGED <<incidents, log, contained, operation, core, evidence, device>>

CheckContainment ==
    /\ gate.step = "ISOLATED" /\ Advances("CLEARED")
    /\ gate.ip \in contained
    /\ UNCHANGED <<incidents, log, contained, operation, core, evidence, device>>

(* ... and compared again under the command lock; the attempt is written once.
   The lock's other conditions (a pending command, a RESTORE still awaited) only
   refuse: RefuseRestore. *)
EnterGuard ==
    /\ gate.step = "CLEARED" /\ Advances("GUARDED")
    /\ uplink = "LOCKDOWN"
    /\ Current = gate.id /\ attacker[gate.id] = gate.ip
    /\ ~Spent(gate.id)
    /\ UNCHANGED <<incidents, log, contained, operation, core, evidence, device>>

RequestRestore ==
    /\ gate.step = "GUARDED" /\ Advances("REQUESTED")
    /\ ~Spent(gate.id)  \* ux_audit_restore_requested_incident
    /\ LogRow(gate.id, Row("RESTORE_REQUESTED", gate.ip))
    /\ UNCHANGED <<incidents, contained, operation, core, evidence, device>>

(* A publish that raised may have sent the frame, but the gate is told that it
   was not sent and links nothing. *)
PublishRestore ==
    /\ gate.step = "REQUESTED"
    /\ wire' = wire \cup {gate.id}
    /\ \/ Advances("PUBLISHED") /\ physical' = [restore |-> gate.id, observed |-> "NONE"]
       \/ gate' = Nothing /\ UNCHANGED physical
    /\ UNCHANGED <<incidents, log, contained, operation, uplink, evidence, obeyed>>

LinkRestore ==
    /\ gate.step = "PUBLISHED" /\ gate' = Nothing
    /\ LogRow(gate.id, Row("RESTORE_PUBLISHED", gate.ip)) \/ UNCHANGED log
    /\ UNCHANGED <<incidents, contained, operation, core, evidence, device>>

(* A check fails, the command is refused or nothing was sent. *)
RefuseRestore ==
    /\ gate.step \in GateSteps \ {"IDLE", "PUBLISHED"}
    /\ gate' = Nothing
    /\ UNCHANGED <<incidents, log, contained, operation, core, evidence, device>>

-----------------------------------------------------------------------------
(* dispose_historical_incident_atomic: one transaction, once, and only for the
   single open incident, bound by one alert and without any recovery evidence. *)
DisposeHistorical(i) ==
    /\ Opened = {i} /\ attacker[i] # NoAddress
    /\ \A j \in Ids : ~Logged(j, {"DISPOSED"})
    /\ Logged(i, {"BOUND_CREATED"})
    /\ ~Logged(i, {"R3_REQUESTED", "RESTORE_REQUESTED", "R8_CLOSE"} \cup IsolationResults)
    /\ state' = [state EXCEPT ![i] = "CLOSED"]
    /\ LogRow(i, Row("DISPOSED", attacker[i]))
    /\ UNCHANGED <<attacker, contained, operation, gate, core, evidence, device>>

(* The containment set follows other requests, and a host reboot empties it. *)
ContainmentChanges(ip) ==
    /\ contained' \in {contained \cup {ip}, contained \ {ip}}
    /\ UNCHANGED <<incidents, log, operation, gate, core, evidence, device>>

-----------------------------------------------------------------------------
(* The device and what the Core hears of it.  CommandLink says which frames it
   obeys; here a RESTORE frame is obeyed at most once, at any later time. *)
ObeyRestore(i) ==
    /\ i \in wire
    /\ wire' = wire \ {i} /\ obeyed' = obeyed \cup {i}
    /\ UNCHANGED <<incidents, log, contained, operation, gate, core, evidence>>

(* A CUT or a break-glass RESTORE takes over the Core's record of its last command. *)
OtherCommand ==
    /\ ~Guarded
    /\ physical' = [restore |-> 0, observed |-> "NONE"]
    /\ UNCHANGED <<incidents, log, contained, operation, gate, uplink, evidence, device>>

HearAck(i) ==
    /\ i \in obeyed
    /\ acked' = acked \cup {i}
    /\ UNCHANGED <<incidents, log, contained, operation, gate, core, correlated, device>>

(* The COMMAND status of a RESTORE says NORMAL, whatever the relay did since.
   Its row is updated first, the Core's records under the command lock after. *)
HearCommandStatus(i) ==
    /\ ~Guarded
    /\ i \in obeyed \ correlated
    /\ correlated' = correlated \cup {i}
    /\ uplink' = "NORMAL"
    /\ physical' = [physical EXCEPT !.observed = IF physical.restore = i THEN "NORMAL" ELSE @]
    /\ UNCHANGED <<incidents, log, contained, operation, gate, acked, device>>

(* A periodic status, perhaps older than what the relay did since, or
   DEVICE_OFFLINE_SEC of silence. *)
HearStatus ==
    /\ ~Guarded
    /\ uplink' \in {"LOCKDOWN", "NORMAL", "UNKNOWN"}
    /\ UNCHANGED <<incidents, log, contained, operation, gate, physical, evidence, device>>

(* The Core stops anywhere: its rows stay, its threads and records are gone. *)
Restart ==
    /\ operation' = Nothing /\ gate' = Nothing
    /\ uplink' = "UNKNOWN" /\ physical' = [restore |-> 0, observed |-> "NONE"]
    /\ UNCHANGED <<incidents, log, contained, evidence, device>>

Operate ==
    \/ Isolate \/ RequestIsolation \/ Block \/ ReadBack \/ RecordIsolation
    \/ Close \/ ProbeServices \/ CheckClosure \/ AuditClosure \/ CloseIncident
    \/ Abandon
Restore ==
    \/ TakeSnapshot \/ CheckIsolation \/ CheckContainment \/ EnterGuard
    \/ RequestRestore \/ PublishRestore \/ LinkRestore \/ RefuseRestore
Next ==
    \/ \E ip \in Addresses : BindIncident(ip) \/ ContainmentChanges(ip)
    \/ Operate
    \/ Restore
    \/ \E i \in Ids : DisposeHistorical(i) \/ ObeyRestore(i) \/ HearAck(i) \/ HearCommandStatus(i)
    \/ OtherCommand \/ HearStatus
    \/ Restart

Spec == Init /\ [][Next]_vars

-----------------------------------------------------------------------------
(* One open incident, one bound target: whatever alerts, operations and
   restarts interleave, no second incident is open. *)
AtMostOneOpen == Cardinality(Opened) <= 1

(* A bound address is never replaced, so what was isolated, restored and closed
   is what the alert named. *)
TargetIsFixed ==
    [][\A i \in Ids : attacker[i] # NoAddress => attacker'[i] = attacker[i]]_vars

Precedes(rows, first, event) ==
    \E k, l \in DOMAIN rows : k < l /\ rows[k] = first /\ rows[l].event = event

(* No RESTORE before isolation (R3 before R5): whenever an attempt is on record
   or its frame left the Core, the address of that incident had been blocked and
   read back, on record, before the attempt was written. *)
RestoreFollowsIsolation ==
    \A i \in Ids : Spent(i) \/ i \in wire \cup obeyed =>
        Precedes(log[i], Row("R3_VERIFIED", attacker[i]), "RESTORE_REQUESTED")

(* An incident closed by the Core has a complete chain: isolated, restored once
   by a frame the device acknowledged and obeyed, published, then closed. *)
ClosedIsRestored ==
    \A i \in Ids : state[i] = "CLOSED" /\ ~Logged(i, {"DISPOSED"}) =>
        /\ i \in acked \cap correlated \cap obeyed
        /\ Precedes(log[i], Row("R3_VERIFIED", attacker[i]), "RESTORE_REQUESTED")
        /\ Precedes(log[i], Row("RESTORE_PUBLISHED", attacker[i]), "R8_CLOSE")

(* An incident disposed of as historical never sees a RESTORE, although the gate
   and ISOLATE may hold a snapshot of it from before. *)
DisposedNeverRestored ==
    \A i \in Ids : Logged(i, {"DISPOSED"}) => ~Spent(i) /\ i \notin wire \cup obeyed
=============================================================================
