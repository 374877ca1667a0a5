--------------------------- MODULE Recovery_proofs ---------------------------
(***************************************************************************)
(* Theorems about Recovery, for any addresses, and any bounds on incidents *)
(* and ISOLATE requests.  The inductive invariant says what each snapshot  *)
(* still shares with the rows it was taken from; the audit log only grows, *)
(* so what was once found in it stays found.                               *)
(***************************************************************************)
EXTENDS Recovery, FiniteSetTheorems, TLAPS

Has(rows, row) == \E k \in DOMAIN rows : rows[k] = row

OneInv == \A i, j \in Opened : i = j

(* The ids that were given out are the first ones. *)
IdsInv ==
    /\ \E n \in 0..LastIncident : \A i \in Ids : state[i] # "NONE" <=> i =< n
    /\ \A i \in Ids : attacker[i] # NoAddress => state[i] # "NONE"

(* A Recovery operation works for an address that was bound and stays bound; one
   that closes has the evidence of a restored incident. *)
OperInv ==
    operation.step # "IDLE" =>
        /\ operation.id \in Ids /\ operation.ip \in Addresses /\ attacker[operation.id] = operation.ip
        /\ operation.step \in {"RESTORED", "PROBED", "COMPLETE", "AUDITED"} =>
              /\ operation.id \in acked /\ operation.id \in correlated /\ Spent(operation.id)
              /\ Has(log[operation.id], Row("RESTORE_PUBLISHED", operation.ip))
        /\ operation.step = "AUDITED" =>
              Precedes(log[operation.id], Row("RESTORE_PUBLISHED", operation.ip), "R8_CLOSE")

(* So does a RESTORE in the gate; past the checks its isolation is on record, and
   under the command lock its incident was not disposed of, nor can it be. *)
GateInv ==
    gate.step # "IDLE" =>
        /\ gate.id \in Ids
        /\ gate.ip # NoAddress => attacker[gate.id] = gate.ip
        /\ gate.step # "SNAPSHOT" => gate.ip \in Addresses /\ Has(log[gate.id], Row("R3_VERIFIED", gate.ip))
        /\ gate.step \in {"GUARDED", "REQUESTED", "PUBLISHED"} => ~Logged(gate.id, {"DISPOSED"})
        /\ gate.step \in {"REQUESTED", "PUBLISHED"} => Spent(gate.id)

(* A published RESTORE is on record under the address of its incident. *)
RowsInv ==
    \A i \in Ids : \A ip \in Addresses \cup {NoAddress} :
        Has(log[i], Row("RESTORE_PUBLISHED", ip)) => ip = attacker[i] /\ ip # NoAddress

(* The evidence of a RESTORE leads back to its attempt, and that to the isolation. *)
RestoreInv ==
    /\ \A i \in Ids : Spent(i) =>
          attacker[i] # NoAddress /\ Precedes(log[i], Row("R3_VERIFIED", attacker[i]), "RESTORE_REQUESTED")
    /\ \A i \in Ids : i \in wire \/ i \in obeyed => Spent(i)
    /\ \A i \in Ids : i \in acked \/ i \in correlated => i \in obeyed

DisposedInv == \A i \in Ids : Logged(i, {"DISPOSED"}) => state[i] = "CLOSED" /\ ~Spent(i)

IInv ==
    /\ TypeOK /\ OneInv /\ IdsInv /\ OperInv /\ GateInv
    /\ RowsInv /\ RestoreInv /\ ClosedIsRestored /\ DisposedInv

(* What the types say of the parts the invariant speaks of. *)
Typed ==
    /\ \A i \in Ids : attacker[i] \in Addresses \cup {NoAddress} /\ state[i] \in {"NONE", "OPEN", "CLOSED"}
    /\ operation.id \in Ids \cup {0} /\ operation.ip \in Addresses \cup {NoAddress}
    /\ operation.step \in OperationSteps
    /\ gate.id \in Ids \cup {0} /\ gate.ip \in Addresses \cup {NoAddress} /\ gate.step \in GateSteps
    /\ acked \subseteq Ids /\ correlated \subseteq Ids /\ wire \subseteq Ids /\ obeyed \subseteq Ids
    /\ contained \subseteq Addresses

-----------------------------------------------------------------------------
(* The types, one part at a time. *)
LEMMA TypeFacts == TypeOK => Typed
  <1>. SUFFICES ASSUME TypeOK PROVE Typed
    OBVIOUS
  <1>1. operation.id \in Ids \cup {0} /\ operation.ip \in Addresses \cup {NoAddress} /\ operation.step \in OperationSteps
    BY DEF TypeOK, Requests
  <1>2. gate.id \in Ids \cup {0} /\ gate.ip \in Addresses \cup {NoAddress} /\ gate.step \in GateSteps
    BY DEF TypeOK, Requests
  <1>3. acked \subseteq Ids /\ correlated \subseteq Ids /\ wire \subseteq Ids /\ obeyed \subseteq Ids
    BY DEF TypeOK
  <1>. QED BY <1>1, <1>2, <1>3 DEF Typed, TypeOK

(* Where there is one open incident, it is the current one. *)
LEMMA TheCurrent == ASSUME TypeOK, OneInv, Opened # {}
                    PROVE  Current \in Ids /\ state[Current] = "OPEN" /\ Opened = {Current}
  <1>1. PICK i \in Opened : Opened = {i}
    BY DEF OneInv
  <1>2. i \in Nat /\ \A j \in Opened : j <= i
    BY <1>1, RecoveryAssumption DEF Opened, Ids
  <1>3. Current \in Opened
    BY <1>1, <1>2 DEF Current
  <1>. QED BY <1>1, <1>3 DEF Opened

Rows == [event : Events, ip : Addresses \cup {NoAddress}]

(* What one more row of the audit log changes. *)
LEMMA LogGrows ==
  ASSUME NEW R, NEW rows \in Seq(R), NEW row \in R
  PROVE  /\ Append(rows, row) \in Seq(R)
         /\ \A E : Mentions(Append(rows, row), E) <=> (Mentions(rows, E) \/ row.event \in E)
         /\ \A r : Has(Append(rows, row), r) <=> (Has(rows, r) \/ row = r)
         /\ \A r, e : (Precedes(rows, r, e) \/ (row.event = e /\ Has(rows, r))) => Precedes(Append(rows, row), r, e)
  <1>. DEFINE more == Append(rows, row)
              n == Len(rows)
  <1>1. /\ more \in Seq(R) /\ n \in Nat /\ DOMAIN rows = 1..n /\ DOMAIN more = 1..(n + 1)
        /\ \A k \in 1..n : more[k] = rows[k]
        /\ more[n + 1] = row
    OBVIOUS
  <1>. HIDE DEF more, n
  <1>2. \A k \in 1..(n + 1) : k \in 1..n \/ k = n + 1
    BY <1>1
  <1>3. \A k \in 1..n : k \in 1..(n + 1) /\ k < n + 1
    BY <1>1
  <1>4. n + 1 \in 1..(n + 1)
    BY <1>1
  <1>5. \A E : Mentions(more, E) <=> (Mentions(rows, E) \/ row.event \in E)
    BY <1>1, <1>2, <1>3, <1>4 DEF Mentions
  <1>6. \A r : Has(more, r) <=> (Has(rows, r) \/ row = r)
    BY <1>1, <1>2, <1>3, <1>4 DEF Has
  <1>7. ASSUME NEW r, NEW e, Precedes(rows, r, e) PROVE Precedes(more, r, e)
    <2>1. PICK k \in 1..n, l \in 1..n : k < l /\ rows[k] = r /\ rows[l].event = e
      BY <1>1, <1>7 DEF Precedes
    <2>. QED BY <2>1, <1>1, <1>3 DEF Precedes
  <1>8. ASSUME NEW r, NEW e, row.event = e, Has(rows, r) PROVE Precedes(more, r, e)
    <2>1. PICK k \in 1..n : rows[k] = r
      BY <1>1, <1>8 DEF Has
    <2>. QED BY <2>1, <1>1, <1>3, <1>4, <1>8 DEF Precedes
  <1>. QED BY <1>1, <1>5, <1>6, <1>7, <1>8 DEF more

(* The same for the logs of all incidents, where at most that of i has the row. *)
LEMMA LogFacts ==
  ASSUME log \in [Ids -> Seq(Rows)], NEW i \in Ids, NEW row \in Rows,
         \A j \in Ids : log'[j] = log[j] \/ (j = i /\ log'[j] = Append(log[j], row))
  PROVE  /\ \A j \in Ids : \A E : Mentions(log[j], E) => Mentions(log'[j], E)
         /\ \A j \in Ids : \A r : Has(log[j], r) => Has(log'[j], r)
         /\ \A j \in Ids : \A r, e : Precedes(log[j], r, e) => Precedes(log'[j], r, e)
         /\ \A j \in Ids : \A E : Mentions(log'[j], E) => (Mentions(log[j], E) \/ (j = i /\ row.event \in E))
         /\ \A j \in Ids : \A r : Has(log'[j], r) => (Has(log[j], r) \/ (j = i /\ row = r))
  <1>. SUFFICES ASSUME NEW j \in Ids
                PROVE  /\ \A E : Mentions(log[j], E) => Mentions(log'[j], E)
                       /\ \A r : Has(log[j], r) => Has(log'[j], r)
                       /\ \A r, e : Precedes(log[j], r, e) => Precedes(log'[j], r, e)
                       /\ \A E : Mentions(log'[j], E) => (Mentions(log[j], E) \/ (j = i /\ row.event \in E))
                       /\ \A r : Has(log'[j], r) => (Has(log[j], r) \/ (j = i /\ row = r))
    OBVIOUS
  <1>1. CASE log'[j] = log[j]
    BY <1>1
  <1>2. CASE j = i /\ log'[j] = Append(log[j], row)
    <2>1. log[j] \in Seq(Rows)
      OBVIOUS
    <2>2. /\ \A E : Mentions(log'[j], E) <=> (Mentions(log[j], E) \/ row.event \in E)
          /\ \A r : Has(log'[j], r) <=> (Has(log[j], r) \/ row = r)
          /\ \A r, e : (Precedes(log[j], r, e) \/ (row.event = e /\ Has(log[j], r))) => Precedes(log'[j], r, e)
      BY <1>2, <2>1, LogGrows
    <2>. QED BY <1>2, <2>2
  <1>. QED BY <1>1, <1>2

(* A row is told by its event and its address. *)
LEMMA RowFacts ==
  /\ \A e, ip : Row(e, ip).event = e /\ Row(e, ip).ip = ip
  /\ \A e, ip : (e \in Events /\ ip \in Addresses \cup {NoAddress}) => Row(e, ip) \in Rows
  BY DEF Row, Rows

(* Before the first alert all of it holds. *)
LEMMA InitHolds == Init => IInv
  <1>. SUFFICES ASSUME Init PROVE IInv
    OBVIOUS
  <1>. USE RecoveryAssumption DEF Ids
  <1>0. \A i \in Ids : \A E, r : ~Logged(i, E) /\ ~Has(log[i], r)
    BY DEF Init, Logged, Mentions, Has
  <1>s. state \in [Ids -> {"NONE", "OPEN"}] /\ \A i \in Ids : state[i] = "OPEN" => i = 1
    BY DEF Init
  <1>t. operation.step = "IDLE" /\ gate.step = "IDLE"
    BY DEF Init, Nothing
  <1>1. TypeOK
    <2>1. Nothing \in Requests(OperationSteps) /\ Nothing \in Requests(GateSteps)
      BY DEF Nothing, Requests, OperationSteps, GateSteps
    <2>2. physical \in [restore : Ids \cup {0}, observed : {"NONE", "NORMAL"}]
      BY DEF Init
    <2>3. log \in [Ids -> Seq([event : Events, ip : Addresses \cup {NoAddress}])]
      BY DEF Init
    <2>4. {acked, correlated, wire, obeyed} \subseteq SUBSET Ids
      BY DEF Init
    <2>. QED BY <2>1, <2>2, <2>3, <2>4, <1>s DEF Init, TypeOK
  <1>2. OneInv
    BY <1>s DEF OneInv, Opened
  <1>3. IdsInv
    <2>1. (\A i \in Ids : state[i] # "NONE" <=> i =< 0) \/ (\A i \in Ids : state[i] # "NONE" <=> i =< 1)
      BY DEF Init
    <2>2. 0 \in 0..LastIncident /\ 1 \in 0..LastIncident
      OBVIOUS
    <2>3. \A i \in Ids : attacker[i] # NoAddress => state[i] # "NONE"
      BY DEF Init
    <2>. QED BY <2>1, <2>2, <2>3 DEF IdsInv
  <1>4. OperInv
    BY <1>t DEF OperInv
  <1>5. GateInv
    BY <1>t DEF GateInv
  <1>6. RowsInv
    BY <1>0 DEF RowsInv
  <1>7. RestoreInv
    BY <1>0 DEF RestoreInv, Spent, Init
  <1>8. ClosedIsRestored
    BY <1>s DEF ClosedIsRestored
  <1>9. DisposedInv
    BY <1>0 DEF DisposedInv
  <1>. QED BY <1>1, <1>2, <1>3, <1>4, <1>5, <1>6, <1>7, <1>8, <1>9 DEF IInv

(* ISOLATE begins with a bound incident. *)
LEMMA IsolateKeeps ==
  ASSUME IInv, Isolate
  PROVE  IInv'
  <1>. USE RecoveryAssumption DEF IInv
  <1>t. Typed
    BY TypeFacts
  <1>c. Current \in Ids /\ state[Current] = "OPEN" /\ Opened = {Current}
    BY TheCurrent DEF Isolate
  <1>1. TypeOK'
    <2>1. operation' \in Requests(OperationSteps) /\ gate' \in Requests(GateSteps)
      BY <1>t, <1>c DEF Isolate, incidents, evidence, device, core, Typed, TypeOK, Requests, OperationSteps, GateSteps, IsolationResults, Nothing
    <2>2. acked' \subseteq Ids /\ correlated' \subseteq Ids /\ wire' \subseteq Ids /\ obeyed' \subseteq Ids /\ contained' \subseteq Addresses
      BY <1>t, <1>c DEF Isolate, incidents, evidence, device, core, Typed, OperInv, GateInv
    <2>3. log' \in [Ids -> Seq([event : Events, ip : Addresses \cup {NoAddress}])]
      BY <1>t, <1>c DEF Isolate, incidents, evidence, device, core, TypeOK, Rows
    <2>4. /\ state' \in [Ids -> {"NONE", "OPEN", "CLOSED"}] /\ attacker' \in [Ids -> Addresses \cup {NoAddress}]
          /\ uplink' \in {"UNKNOWN", "LOCKDOWN", "NORMAL"}
      BY <1>t, <1>c DEF Isolate, incidents, evidence, device, core, TypeOK
    <2>5. physical' \in [restore : Ids \cup {0}, observed : {"NONE", "NORMAL"}]
      BY <1>t, <1>c DEF Isolate, incidents, evidence, device, core, TypeOK, Typed, GateInv
    <2>6. {acked', correlated', wire', obeyed'} \subseteq SUBSET Ids
      BY <2>2
    <2>. QED BY <2>1, <2>2, <2>3, <2>4, <2>5, <2>6 DEF TypeOK
  <1>2. OneInv'
    BY <1>t, <1>c DEF Isolate, incidents, evidence, device, core, Typed, OneInv, Opened
  <1>3. IdsInv'
    BY <1>t, <1>c DEF Isolate, incidents, evidence, device, core, Typed, IdsInv
  <1>4. OperInv'
    BY <1>t, <1>c DEF Isolate, incidents, evidence, device, core, Typed, OperInv, Spent, Logged
  <1>5. GateInv'
    BY <1>t, <1>c DEF Isolate, incidents, evidence, device, core, Typed, GateInv, Spent, Logged
  <1>6. RowsInv'
    BY <1>t, <1>c DEF Isolate, incidents, evidence, device, core, Typed, RowsInv
  <1>7. RestoreInv'
    BY <1>t, <1>c DEF Isolate, incidents, evidence, device, core, Typed, RestoreInv, Spent, Logged
  <1>8. ClosedIsRestored'
    BY <1>t, <1>c DEF Isolate, incidents, evidence, device, core, Typed, ClosedIsRestored, Spent, Logged
  <1>9. DisposedInv'
    BY <1>t, <1>c DEF Isolate, incidents, evidence, device, core, Typed, DisposedInv, Spent, Logged
  <1>. QED BY <1>1, <1>2, <1>3, <1>4, <1>5, <1>6, <1>7, <1>8, <1>9 DEF IInv

(* Its request is audited. *)
LEMMA RequestIsolationKeeps ==
  ASSUME IInv, RequestIsolation
  PROVE  IInv'
  <1>. USE RecoveryAssumption DEF IInv
  <1>t. Typed
    BY TypeFacts
  <1>i. operation.id \in Ids /\ "R3_REQUESTED" \in Events /\ Row("R3_REQUESTED", operation.ip) \in Rows
    BY <1>t, RowFacts DEF RequestIsolation, incidents, Becomes, evidence, device, core, Typed, OperInv, GateInv, Events, IsolationResults, Opened
  <1>l. log \in [Ids -> Seq(Rows)]
    BY DEF TypeOK, Rows
  <1>g. LogRow(operation.id, Row("R3_REQUESTED", operation.ip))
    BY DEF RequestIsolation, incidents, Becomes, evidence, device, core
  <1>m. log' \in [Ids -> Seq(Rows)] /\ \A j \in Ids : log'[j] = log[j] \/ (j = operation.id /\ log'[j] = Append(log[j], Row("R3_REQUESTED", operation.ip)))
    BY <1>i, <1>l, <1>g, LogGrows DEF LogRow
  <1>n. log'[operation.id] = Append(log[operation.id], Row("R3_REQUESTED", operation.ip))
    BY <1>i, <1>l, <1>g DEF LogRow
  <1>o. /\ \A j \in Ids : \A E : Mentions(log[j], E) => Mentions(log'[j], E)
        /\ \A j \in Ids : \A r : Has(log[j], r) => Has(log'[j], r)
        /\ \A j \in Ids : \A r, e : Precedes(log[j], r, e) => Precedes(log'[j], r, e)
    BY <1>i, <1>l, <1>m, LogFacts
  <1>p. /\ \A j \in Ids : \A E : Mentions(log'[j], E) => (Mentions(log[j], E) \/ (j = operation.id /\ Row("R3_REQUESTED", operation.ip).event \in E))
        /\ \A j \in Ids : \A r : Has(log'[j], r) => (Has(log[j], r) \/ (j = operation.id /\ Row("R3_REQUESTED", operation.ip) = r))
    <2>. DEFINE row == Row("R3_REQUESTED", operation.ip)
    <2>1. row \in Rows /\ \A j \in Ids : log'[j] = log[j] \/ (j = operation.id /\ log'[j] = Append(log[j], row))
      BY <1>i, <1>m
    <2>. HIDE DEF row
    <2>2. /\ \A j \in Ids : \A E : Mentions(log'[j], E) => (Mentions(log[j], E) \/ (j = operation.id /\ row.event \in E))
          /\ \A j \in Ids : \A r : Has(log'[j], r) => (Has(log[j], r) \/ (j = operation.id /\ row = r))
      BY <2>1, <1>i, <1>l, LogFacts
    <2>. QED BY <2>2 DEF row
  <1>w. /\ \A j \in Ids : Mentions(log[j], {"RESTORE_REQUESTED"}) => Mentions(log'[j], {"RESTORE_REQUESTED"})
        /\ \A j \in Ids : Mentions(log'[j], {"RESTORE_REQUESTED"}) => Mentions(log[j], {"RESTORE_REQUESTED"})
        /\ \A j \in Ids : Mentions(log[j], {"DISPOSED"}) => Mentions(log'[j], {"DISPOSED"})
        /\ \A j \in Ids : Mentions(log'[j], {"DISPOSED"}) => Mentions(log[j], {"DISPOSED"})
        /\ \A j \in Ids, a \in Addresses \cup {NoAddress} : Has(log'[j], Row("RESTORE_PUBLISHED", a)) => Has(log[j], Row("RESTORE_PUBLISHED", a))
        /\ \A j \in Ids : \A r : Has(log[j], r) => Has(log'[j], r)
        /\ \A j \in Ids : \A r, e : Precedes(log[j], r, e) => Precedes(log'[j], r, e)
    <2>1. \A j \in Ids : Mentions(log[j], {"RESTORE_REQUESTED"}) => Mentions(log'[j], {"RESTORE_REQUESTED"})
      BY <1>o
    <2>2. \A j \in Ids : Mentions(log'[j], {"RESTORE_REQUESTED"}) => Mentions(log[j], {"RESTORE_REQUESTED"})
      BY <1>i, <1>p, RowFacts
    <2>3. \A j \in Ids : Mentions(log[j], {"DISPOSED"}) => Mentions(log'[j], {"DISPOSED"})
      BY <1>o
    <2>4. \A j \in Ids : Mentions(log'[j], {"DISPOSED"}) => Mentions(log[j], {"DISPOSED"})
      BY <1>i, <1>p, RowFacts
    <2>5. \A j \in Ids, a \in Addresses \cup {NoAddress} : Has(log'[j], Row("RESTORE_PUBLISHED", a)) => Has(log[j], Row("RESTORE_PUBLISHED", a))
      BY <1>i, <1>p, RowFacts
    <2>6. \A j \in Ids : \A r : Has(log[j], r) => Has(log'[j], r)
      BY <1>o
    <2>7. \A j \in Ids : \A r, e : Precedes(log[j], r, e) => Precedes(log'[j], r, e)
      BY <1>o
    <2>. QED BY <2>1, <2>2, <2>3, <2>4, <2>5, <2>6, <2>7
  <1>x. /\ \A E : "R3_REQUESTED" \in E => Mentions(log'[operation.id], E)
        /\ \A r : Has(log[operation.id], r) => Precedes(log'[operation.id], r, "R3_REQUESTED")
    BY <1>i, <1>l, <1>n, LogGrows, RowFacts
  <1>1. TypeOK'
    <2>1. operation' \in Requests(OperationSteps) /\ gate' \in Requests(GateSteps)
      BY <1>t, <1>i, <1>w, <1>m, <1>x DEF RequestIsolation, incidents, Becomes, evidence, device, core, Typed, TypeOK, Requests, OperationSteps, GateSteps, IsolationResults, Nothing
    <2>2. acked' \subseteq Ids /\ correlated' \subseteq Ids /\ wire' \subseteq Ids /\ obeyed' \subseteq Ids /\ contained' \subseteq Addresses
      BY <1>t, <1>i, <1>w, <1>m, <1>x DEF RequestIsolation, incidents, Becomes, evidence, device, core, Typed, OperInv, GateInv
    <2>3. log' \in [Ids -> Seq([event : Events, ip : Addresses \cup {NoAddress}])]
      BY <1>t, <1>i, <1>w, <1>m, <1>x DEF RequestIsolation, incidents, Becomes, evidence, device, core, TypeOK, Rows
    <2>4. /\ state' \in [Ids -> {"NONE", "OPEN", "CLOSED"}] /\ attacker' \in [Ids -> Addresses \cup {NoAddress}]
          /\ uplink' \in {"UNKNOWN", "LOCKDOWN", "NORMAL"}
      BY <1>t, <1>i, <1>w, <1>m, <1>x DEF RequestIsolation, incidents, Becomes, evidence, device, core, TypeOK
    <2>5. physical' \in [restore : Ids \cup {0}, observed : {"NONE", "NORMAL"}]
      BY <1>t, <1>i, <1>w, <1>m, <1>x DEF RequestIsolation, incidents, Becomes, evidence, device, core, TypeOK, Typed, GateInv
    <2>6. {acked', correlated', wire', obeyed'} \subseteq SUBSET Ids
      BY <2>2
    <2>. QED BY <2>1, <2>2, <2>3, <2>4, <2>5, <2>6 DEF TypeOK
  <1>2. OneInv'
    BY <1>t, <1>i, <1>w, <1>m, <1>x DEF RequestIsolation, incidents, Becomes, evidence, device, core, Typed, OneInv, Opened
  <1>3. IdsInv'
    BY <1>t, <1>i, <1>w, <1>m, <1>x DEF RequestIsolation, incidents, Becomes, evidence, device, core, Typed, IdsInv
  <1>4. OperInv'
    BY <1>t, <1>i, <1>w, <1>m, <1>x DEF RequestIsolation, incidents, Becomes, evidence, device, core, Typed, OperInv, Spent, Logged
  <1>5. GateInv'
    BY <1>t, <1>i, <1>w, <1>m, <1>x DEF RequestIsolation, incidents, Becomes, evidence, device, core, Typed, GateInv, Spent, Logged
  <1>6. RowsInv'
    BY <1>t, <1>i, <1>w, <1>m, <1>x DEF RequestIsolation, incidents, Becomes, evidence, device, core, Typed, RowsInv
  <1>7. RestoreInv'
    BY <1>t, <1>i, <1>w, <1>m, <1>x DEF RequestIsolation, incidents, Becomes, evidence, device, core, Typed, RestoreInv, Spent, Logged
  <1>8. ClosedIsRestored'
    BY <1>t, <1>i, <1>w, <1>m, <1>x DEF RequestIsolation, incidents, Becomes, evidence, device, core, Typed, ClosedIsRestored, Spent, Logged
  <1>9. DisposedInv'
    BY <1>t, <1>i, <1>w, <1>m, <1>x DEF RequestIsolation, incidents, Becomes, evidence, device, core, Typed, DisposedInv, Spent, Logged
  <1>. QED BY <1>1, <1>2, <1>3, <1>4, <1>5, <1>6, <1>7, <1>8, <1>9 DEF IInv

(* The block and the reading back change no row. *)
LEMMA BlockKeeps ==
  ASSUME IInv, Block
  PROVE  IInv'
  <1>. USE RecoveryAssumption DEF IInv
  <1>t. Typed
    BY TypeFacts
  <1>e. operation'.id = operation.id /\ operation'.ip = operation.ip /\ operation'.step \in {"READ_BACK", "R3_VERIFIED", "R3_FAILED"}
        /\ operation.step # "IDLE"
    BY <1>t DEF Block, Becomes, TypeOK, Requests
  <1>1. TypeOK'
    <2>1. operation' \in Requests(OperationSteps) /\ gate' \in Requests(GateSteps)
      BY <1>t, <1>e DEF Block, Becomes, incidents, evidence, device, core, Typed, TypeOK, Requests, OperationSteps, GateSteps, IsolationResults, Nothing
    <2>2. acked' \subseteq Ids /\ correlated' \subseteq Ids /\ wire' \subseteq Ids /\ obeyed' \subseteq Ids /\ contained' \subseteq Addresses
      BY <1>t, <1>e DEF Block, Becomes, incidents, evidence, device, core, Typed, OperInv, GateInv
    <2>3. log' \in [Ids -> Seq([event : Events, ip : Addresses \cup {NoAddress}])]
      BY <1>t, <1>e DEF Block, Becomes, incidents, evidence, device, core, TypeOK, Rows
    <2>4. /\ state' \in [Ids -> {"NONE", "OPEN", "CLOSED"}] /\ attacker' \in [Ids -> Addresses \cup {NoAddress}]
          /\ uplink' \in {"UNKNOWN", "LOCKDOWN", "NORMAL"}
      BY <1>t, <1>e DEF Block, Becomes, incidents, evidence, device, core, TypeOK
    <2>5. physical' \in [restore : Ids \cup {0}, observed : {"NONE", "NORMAL"}]
      BY <1>t, <1>e DEF Block, Becomes, incidents, evidence, device, core, TypeOK, Typed, GateInv
    <2>6. {acked', correlated', wire', obeyed'} \subseteq SUBSET Ids
      BY <2>2
    <2>. QED BY <2>1, <2>2, <2>3, <2>4, <2>5, <2>6 DEF TypeOK
  <1>2. OneInv'
    BY <1>t, <1>e DEF Block, Becomes, incidents, evidence, device, core, Typed, OneInv, Opened
  <1>3. IdsInv'
    BY <1>t, <1>e DEF Block, Becomes, incidents, evidence, device, core, Typed, IdsInv
  <1>4. OperInv'
    BY <1>t, <1>e DEF Block, incidents, evidence, OperInv, Spent, Logged
  <1>5. GateInv'
    BY <1>t, <1>e DEF Block, Becomes, incidents, evidence, device, core, Typed, GateInv, Spent, Logged
  <1>6. RowsInv'
    BY <1>t, <1>e DEF Block, Becomes, incidents, evidence, device, core, Typed, RowsInv
  <1>7. RestoreInv'
    BY <1>t, <1>e DEF Block, Becomes, incidents, evidence, device, core, Typed, RestoreInv, Spent, Logged
  <1>8. ClosedIsRestored'
    BY <1>t, <1>e DEF Block, Becomes, incidents, evidence, device, core, Typed, ClosedIsRestored, Spent, Logged
  <1>9. DisposedInv'
    BY <1>t, <1>e DEF Block, Becomes, incidents, evidence, device, core, Typed, DisposedInv, Spent, Logged
  <1>. QED BY <1>1, <1>2, <1>3, <1>4, <1>5, <1>6, <1>7, <1>8, <1>9 DEF IInv

(* Nor does the reading back. *)
LEMMA ReadBackKeeps ==
  ASSUME IInv, ReadBack
  PROVE  IInv'
  <1>. USE RecoveryAssumption DEF IInv
  <1>t. Typed
    BY TypeFacts
  <1>e. operation'.id = operation.id /\ operation'.ip = operation.ip /\ operation'.step \in {"READ_BACK", "R3_VERIFIED", "R3_FAILED"}
        /\ operation.step # "IDLE"
    BY <1>t DEF ReadBack, Becomes, TypeOK, Requests
  <1>1. TypeOK'
    <2>1. operation' \in Requests(OperationSteps) /\ gate' \in Requests(GateSteps)
      BY <1>t, <1>e DEF ReadBack, Becomes, incidents, evidence, device, core, Typed, TypeOK, Requests, OperationSteps, GateSteps, IsolationResults, Nothing
    <2>2. acked' \subseteq Ids /\ correlated' \subseteq Ids /\ wire' \subseteq Ids /\ obeyed' \subseteq Ids /\ contained' \subseteq Addresses
      BY <1>t, <1>e DEF ReadBack, Becomes, incidents, evidence, device, core, Typed, OperInv, GateInv
    <2>3. log' \in [Ids -> Seq([event : Events, ip : Addresses \cup {NoAddress}])]
      BY <1>t, <1>e DEF ReadBack, Becomes, incidents, evidence, device, core, TypeOK, Rows
    <2>4. /\ state' \in [Ids -> {"NONE", "OPEN", "CLOSED"}] /\ attacker' \in [Ids -> Addresses \cup {NoAddress}]
          /\ uplink' \in {"UNKNOWN", "LOCKDOWN", "NORMAL"}
      BY <1>t, <1>e DEF ReadBack, Becomes, incidents, evidence, device, core, TypeOK
    <2>5. physical' \in [restore : Ids \cup {0}, observed : {"NONE", "NORMAL"}]
      BY <1>t, <1>e DEF ReadBack, Becomes, incidents, evidence, device, core, TypeOK, Typed, GateInv
    <2>6. {acked', correlated', wire', obeyed'} \subseteq SUBSET Ids
      BY <2>2
    <2>. QED BY <2>1, <2>2, <2>3, <2>4, <2>5, <2>6 DEF TypeOK
  <1>2. OneInv'
    BY <1>t, <1>e DEF ReadBack, Becomes, incidents, evidence, device, core, Typed, OneInv, Opened
  <1>3. IdsInv'
    BY <1>t, <1>e DEF ReadBack, Becomes, incidents, evidence, device, core, Typed, IdsInv
  <1>4. OperInv'
    BY <1>t, <1>e DEF ReadBack, incidents, evidence, OperInv, Spent, Logged
  <1>5. GateInv'
    BY <1>t, <1>e DEF ReadBack, Becomes, incidents, evidence, device, core, Typed, GateInv, Spent, Logged
  <1>6. RowsInv'
    BY <1>t, <1>e DEF ReadBack, Becomes, incidents, evidence, device, core, Typed, RowsInv
  <1>7. RestoreInv'
    BY <1>t, <1>e DEF ReadBack, Becomes, incidents, evidence, device, core, Typed, RestoreInv, Spent, Logged
  <1>8. ClosedIsRestored'
    BY <1>t, <1>e DEF ReadBack, Becomes, incidents, evidence, device, core, Typed, ClosedIsRestored, Spent, Logged
  <1>9. DisposedInv'
    BY <1>t, <1>e DEF ReadBack, Becomes, incidents, evidence, device, core, Typed, DisposedInv, Spent, Logged
  <1>. QED BY <1>1, <1>2, <1>3, <1>4, <1>5, <1>6, <1>7, <1>8, <1>9 DEF IInv

(* The result is audited; RESTORE_PUBLISHED and DISPOSED rows are not its. *)
LEMMA RecordIsolationKeeps ==
  ASSUME IInv, RecordIsolation
  PROVE  IInv'
  <1>. USE RecoveryAssumption DEF IInv
  <1>t. Typed
    BY TypeFacts
  <1>i. operation.id \in Ids /\ operation.step \in Events /\ Row(operation.step, operation.ip) \in Rows /\ operation.step \in IsolationResults
    BY <1>t, RowFacts DEF RecordIsolation, incidents, evidence, device, core, IsolationResults, Nothing, Typed, OperInv, GateInv, Events, IsolationResults, Opened
  <1>l. log \in [Ids -> Seq(Rows)]
    BY DEF TypeOK, Rows
  <1>g. LogRow(operation.id, Row(operation.step, operation.ip))
    BY DEF RecordIsolation, incidents, evidence, device, core, IsolationResults, Nothing
  <1>m. log' \in [Ids -> Seq(Rows)] /\ \A j \in Ids : log'[j] = log[j] \/ (j = operation.id /\ log'[j] = Append(log[j], Row(operation.step, operation.ip)))
    BY <1>i, <1>l, <1>g, LogGrows DEF LogRow
  <1>n. log'[operation.id] = Append(log[operation.id], Row(operation.step, operation.ip))
    BY <1>i, <1>l, <1>g DEF LogRow
  <1>o. /\ \A j \in Ids : \A E : Mentions(log[j], E) => Mentions(log'[j], E)
        /\ \A j \in Ids : \A r : Has(log[j], r) => Has(log'[j], r)
        /\ \A j \in Ids : \A r, e : Precedes(log[j], r, e) => Precedes(log'[j], r, e)
    BY <1>i, <1>l, <1>m, LogFacts
  <1>p. /\ \A j \in Ids : \A E : Mentions(log'[j], E) => (Mentions(log[j], E) \/ (j = operation.id /\ Row(operation.step, operation.ip).event \in E))
        /\ \A j \in Ids : \A r : Has(log'[j], r) => (Has(log[j], r) \/ (j = operation.id /\ Row(operation.step, operation.ip) = r))
    <2>. DEFINE row == Row(operation.step, operation.ip)
    <2>1. row \in Rows /\ \A j \in Ids : log'[j] = log[j] \/ (j = operation.id /\ log'[j] = Append(log[j], row))
      BY <1>i, <1>m
    <2>. HIDE DEF row
    <2>2. /\ \A j \in Ids : \A E : Mentions(log'[j], E) => (Mentions(log[j], E) \/ (j = operation.id /\ row.event \in E))
          /\ \A j \in Ids : \A r : Has(log'[j], r) => (Has(log[j], r) \/ (j = operation.id /\ row = r))
      BY <2>1, <1>i, <1>l, LogFacts
    <2>. QED BY <2>2 DEF row
  <1>w. /\ \A j \in Ids : Mentions(log[j], {"RESTORE_REQUESTED"}) => Mentions(log'[j], {"RESTORE_REQUESTED"})
        /\ \A j \in Ids : Mentions(log'[j], {"RESTORE_REQUESTED"}) => Mentions(log[j], {"RESTORE_REQUESTED"})
        /\ \A j \in Ids : Mentions(log[j], {"DISPOSED"}) => Mentions(log'[j], {"DISPOSED"})
        /\ \A j \in Ids : Mentions(log'[j], {"DISPOSED"}) => Mentions(log[j], {"DISPOSED"})
        /\ \A j \in Ids, a \in Addresses \cup {NoAddress} : Has(log'[j], Row("RESTORE_PUBLISHED", a)) => Has(log[j], Row("RESTORE_PUBLISHED", a))
        /\ \A j \in Ids : \A r : Has(log[j], r) => Has(log'[j], r)
        /\ \A j \in Ids : \A r, e : Precedes(log[j], r, e) => Precedes(log'[j], r, e)
    <2>1. \A j \in Ids : Mentions(log[j], {"RESTORE_REQUESTED"}) => Mentions(log'[j], {"RESTORE_REQUESTED"})
      BY <1>o DEF IsolationResults
    <2>2. \A j \in Ids : Mentions(log'[j], {"RESTORE_REQUESTED"}) => Mentions(log[j], {"RESTORE_REQUESTED"})
      BY <1>i, <1>p, RowFacts DEF IsolationResults
    <2>3. \A j \in Ids : Mentions(log[j], {"DISPOSED"}) => Mentions(log'[j], {"DISPOSED"})
      BY <1>o DEF IsolationResults
    <2>4. \A j \in Ids : Mentions(log'[j], {"DISPOSED"}) => Mentions(log[j], {"DISPOSED"})
      BY <1>i, <1>p, RowFacts DEF IsolationResults
    <2>5. \A j \in Ids, a \in Addresses \cup {NoAddress} : Has(log'[j], Row("RESTORE_PUBLISHED", a)) => Has(log[j], Row("RESTORE_PUBLISHED", a))
      BY <1>i, <1>p, RowFacts DEF IsolationResults
    <2>6. \A j \in Ids : \A r : Has(log[j], r) => Has(log'[j], r)
      BY <1>o DEF IsolationResults
    <2>7. \A j \in Ids : \A r, e : Precedes(log[j], r, e) => Precedes(log'[j], r, e)
      BY <1>o DEF IsolationResults
    <2>. QED BY <2>1, <2>2, <2>3, <2>4, <2>5, <2>6, <2>7
  <1>x. /\ \A E : operation.step \in E => Mentions(log'[operation.id], E)
        /\ \A r : Has(log[operation.id], r) => Precedes(log'[operation.id], r, operation.step)
    BY <1>i, <1>l, <1>n, LogGrows, RowFacts
  <1>1. TypeOK'
    <2>1. operation' \in Requests(OperationSteps) /\ gate' \in Requests(GateSteps)
      BY <1>t, <1>i, <1>w, <1>m, <1>x DEF RecordIsolation, incidents, evidence, device, core, IsolationResults, Nothing, Typed, TypeOK, Requests, OperationSteps, GateSteps, IsolationResults, Nothing
    <2>2. acked' \subseteq Ids /\ correlated' \subseteq Ids /\ wire' \subseteq Ids /\ obeyed' \subseteq Ids /\ contained' \subseteq Addresses
      BY <1>t, <1>i, <1>w, <1>m, <1>x DEF RecordIsolation, incidents, evidence, device, core, IsolationResults, Nothing, Typed, OperInv, GateInv
    <2>3. log' \in [Ids -> Seq([event : Events, ip : Addresses \cup {NoAddress}])]
      BY <1>t, <1>i, <1>w, <1>m, <1>x DEF RecordIsolation, incidents, evidence, device, core, IsolationResults, Nothing, TypeOK, Rows
    <2>4. /\ state' \in [Ids -> {"NONE", "OPEN", "CLOSED"}] /\ attacker' \in [Ids -> Addresses \cup {NoAddress}]
          /\ uplink' \in {"UNKNOWN", "LOCKDOWN", "NORMAL"}
      BY <1>t, <1>i, <1>w, <1>m, <1>x DEF RecordIsolation, incidents, evidence, device, core, IsolationResults, Nothing, TypeOK
    <2>5. physical' \in [restore : Ids \cup {0}, observed : {"NONE", "NORMAL"}]
      BY <1>t, <1>i, <1>w, <1>m, <1>x DEF RecordIsolation, incidents, evidence, device, core, IsolationResults, Nothing, TypeOK, Typed, GateInv
    <2>6. {acked', correlated', wire', obeyed'} \subseteq SUBSET Ids
      BY <2>2
    <2>. QED BY <2>1, <2>2, <2>3, <2>4, <2>5, <2>6 DEF TypeOK
  <1>2. OneInv'
    BY <1>t, <1>i, <1>w, <1>m, <1>x DEF RecordIsolation, incidents, evidence, device, core, IsolationResults, Nothing, Typed, OneInv, Opened
  <1>3. IdsInv'
    BY <1>t, <1>i, <1>w, <1>m, <1>x DEF RecordIsolation, incidents, evidence, device, core, IsolationResults, Nothing, Typed, IdsInv
  <1>4. OperInv'
    BY <1>t, <1>i, <1>w, <1>m, <1>x DEF RecordIsolation, incidents, evidence, device, core, IsolationResults, Nothing, Typed, OperInv, Spent, Logged
  <1>5. GateInv'
    BY <1>t, <1>i, <1>w, <1>m, <1>x DEF RecordIsolation, incidents, evidence, device, core, IsolationResults, Nothing, Typed, GateInv, Spent, Logged
  <1>6. RowsInv'
    BY <1>t, <1>i, <1>w, <1>m, <1>x DEF RecordIsolation, incidents, evidence, device, core, IsolationResults, Nothing, Typed, RowsInv
  <1>7. RestoreInv'
    BY <1>t, <1>i, <1>w, <1>m, <1>x DEF RecordIsolation, incidents, evidence, device, core, IsolationResults, Nothing, Typed, RestoreInv, Spent, Logged
  <1>8. ClosedIsRestored'
    BY <1>t, <1>i, <1>w, <1>m, <1>x DEF RecordIsolation, incidents, evidence, device, core, IsolationResults, Nothing, Typed, ClosedIsRestored, Spent, Logged
  <1>9. DisposedInv'
    BY <1>t, <1>i, <1>w, <1>m, <1>x DEF RecordIsolation, incidents, evidence, device, core, IsolationResults, Nothing, Typed, DisposedInv, Spent, Logged
  <1>. QED BY <1>1, <1>2, <1>3, <1>4, <1>5, <1>6, <1>7, <1>8, <1>9 DEF IInv

(* CLOSE begins with a RESTORE verified by rows that name the bound address. *)
LEMMA CloseKeeps ==
  ASSUME IInv, Close
  PROVE  IInv'
  <1>. USE RecoveryAssumption DEF IInv
  <1>t. Typed
    BY TypeFacts
  <1>c. Current \in Ids /\ state[Current] = "OPEN" /\ Opened = {Current}
    BY TheCurrent DEF Close
  <1>p. Spent(Current) /\ Current \in acked /\ Current \in correlated /\ Has(log[Current], Row("RESTORE_PUBLISHED", attacker[Current]))
    <2>1. Spent(Current) /\ Current \in acked /\ Current \in correlated /\ Logged(Current, {"RESTORE_PUBLISHED"})
      BY DEF Close, RestoreVerified
    <2>2. PICK k \in DOMAIN log[Current] : log[Current][k].event = "RESTORE_PUBLISHED"
      BY <2>1 DEF Logged, Mentions
    <2>3. log[Current][k] \in [event : Events, ip : Addresses \cup {NoAddress}]
      <3>1. log[Current] \in Seq(Rows)
        BY <1>c DEF TypeOK, Rows
      <3>2. log[Current][k] \in Rows
        BY <3>1, <2>2
      <3>. QED BY <3>2 DEF Rows
    <2>4. log[Current][k] = Row("RESTORE_PUBLISHED", log[Current][k].ip)
      BY <2>2, <2>3 DEF Row
    <2>5. log[Current][k].ip = attacker[Current]
      BY <2>2, <2>3, <2>4, <1>c DEF RowsInv, Has
    <2>. QED BY <2>1, <2>2, <2>4, <2>5 DEF Has
  <1>1. TypeOK'
    <2>1. operation' \in Requests(OperationSteps) /\ gate' \in Requests(GateSteps)
      BY <1>t, <1>c, <1>p DEF Close, incidents, evidence, device, core, Typed, TypeOK, Requests, OperationSteps, GateSteps, IsolationResults, Nothing
    <2>2. acked' \subseteq Ids /\ correlated' \subseteq Ids /\ wire' \subseteq Ids /\ obeyed' \subseteq Ids /\ contained' \subseteq Addresses
      BY <1>t, <1>c, <1>p DEF Close, incidents, evidence, device, core, Typed, OperInv, GateInv
    <2>3. log' \in [Ids -> Seq([event : Events, ip : Addresses \cup {NoAddress}])]
      BY <1>t, <1>c, <1>p DEF Close, incidents, evidence, device, core, TypeOK, Rows
    <2>4. /\ state' \in [Ids -> {"NONE", "OPEN", "CLOSED"}] /\ attacker' \in [Ids -> Addresses \cup {NoAddress}]
          /\ uplink' \in {"UNKNOWN", "LOCKDOWN", "NORMAL"}
      BY <1>t, <1>c, <1>p DEF Close, incidents, evidence, device, core, TypeOK
    <2>5. physical' \in [restore : Ids \cup {0}, observed : {"NONE", "NORMAL"}]
      BY <1>t, <1>c, <1>p DEF Close, incidents, evidence, device, core, TypeOK, Typed, GateInv
    <2>6. {acked', correlated', wire', obeyed'} \subseteq SUBSET Ids
      BY <2>2
    <2>. QED BY <2>1, <2>2, <2>3, <2>4, <2>5, <2>6 DEF TypeOK
  <1>2. OneInv'
    BY <1>t, <1>c, <1>p DEF Close, incidents, evidence, device, core, Typed, OneInv, Opened
  <1>3. IdsInv'
    BY <1>t, <1>c, <1>p DEF Close, incidents, evidence, device, core, Typed, IdsInv
  <1>4. OperInv'
    BY <1>t, <1>c, <1>p DEF Close, incidents, evidence, device, core, Typed, OperInv, Spent, Logged
  <1>5. GateInv'
    BY <1>t, <1>c, <1>p DEF Close, incidents, evidence, device, core, Typed, GateInv, Spent, Logged
  <1>6. RowsInv'
    BY <1>t, <1>c, <1>p DEF Close, incidents, evidence, device, core, Typed, RowsInv
  <1>7. RestoreInv'
    BY <1>t, <1>c, <1>p DEF Close, incidents, evidence, device, core, Typed, RestoreInv, Spent, Logged
  <1>8. ClosedIsRestored'
    BY <1>t, <1>c, <1>p DEF Close, incidents, evidence, device, core, Typed, ClosedIsRestored, Spent, Logged
  <1>9. DisposedInv'
    BY <1>t, <1>c, <1>p DEF Close, incidents, evidence, device, core, Typed, DisposedInv, Spent, Logged
  <1>. QED BY <1>1, <1>2, <1>3, <1>4, <1>5, <1>6, <1>7, <1>8, <1>9 DEF IInv

(* The services are probed. *)
LEMMA ProbeServicesKeeps ==
  ASSUME IInv, ProbeServices
  PROVE  IInv'
  <1>. USE RecoveryAssumption DEF IInv
  <1>t. Typed
    BY TypeFacts
  <1>1. TypeOK'
    <2>1. operation' \in Requests(OperationSteps) /\ gate' \in Requests(GateSteps)
      BY <1>t DEF ProbeServices, incidents, evidence, device, core, Becomes, Nothing, Typed, TypeOK, Requests, OperationSteps, GateSteps, IsolationResults, Nothing
    <2>2. acked' \subseteq Ids /\ correlated' \subseteq Ids /\ wire' \subseteq Ids /\ obeyed' \subseteq Ids /\ contained' \subseteq Addresses
      BY <1>t DEF ProbeServices, incidents, evidence, device, core, Becomes, Nothing, Typed, OperInv, GateInv
    <2>3. log' \in [Ids -> Seq([event : Events, ip : Addresses \cup {NoAddress}])]
      BY <1>t DEF ProbeServices, incidents, evidence, device, core, Becomes, Nothing, TypeOK, Rows
    <2>4. /\ state' \in [Ids -> {"NONE", "OPEN", "CLOSED"}] /\ attacker' \in [Ids -> Addresses \cup {NoAddress}]
          /\ uplink' \in {"UNKNOWN", "LOCKDOWN", "NORMAL"}
      BY <1>t DEF ProbeServices, incidents, evidence, device, core, Becomes, Nothing, TypeOK
    <2>5. physical' \in [restore : Ids \cup {0}, observed : {"NONE", "NORMAL"}]
      BY <1>t DEF ProbeServices, incidents, evidence, device, core, Becomes, Nothing, TypeOK, Typed, GateInv
    <2>6. {acked', correlated', wire', obeyed'} \subseteq SUBSET Ids
      BY <2>2
    <2>. QED BY <2>1, <2>2, <2>3, <2>4, <2>5, <2>6 DEF TypeOK
  <1>2. OneInv'
    BY <1>t DEF ProbeServices, incidents, evidence, device, core, Becomes, Nothing, Typed, OneInv, Opened
  <1>3. IdsInv'
    BY <1>t DEF ProbeServices, incidents, evidence, device, core, Becomes, Nothing, Typed, IdsInv
  <1>4. OperInv'
    BY <1>t DEF ProbeServices, incidents, evidence, device, core, Becomes, Nothing, Typed, OperInv, Spent, Logged
  <1>5. GateInv'
    BY <1>t DEF ProbeServices, incidents, evidence, device, core, Becomes, Nothing, Typed, GateInv, Spent, Logged
  <1>6. RowsInv'
    BY <1>t DEF ProbeServices, incidents, evidence, device, core, Becomes, Nothing, Typed, RowsInv
  <1>7. RestoreInv'
    BY <1>t DEF ProbeServices, incidents, evidence, device, core, Becomes, Nothing, Typed, RestoreInv, Spent, Logged
  <1>8. ClosedIsRestored'
    BY <1>t DEF ProbeServices, incidents, evidence, device, core, Becomes, Nothing, Typed, ClosedIsRestored, Spent, Logged
  <1>9. DisposedInv'
    BY <1>t DEF ProbeServices, incidents, evidence, device, core, Becomes, Nothing, Typed, DisposedInv, Spent, Logged
  <1>. QED BY <1>1, <1>2, <1>3, <1>4, <1>5, <1>6, <1>7, <1>8, <1>9 DEF IInv

(* The gates are evaluated. *)
LEMMA CheckClosureKeeps ==
  ASSUME IInv, CheckClosure
  PROVE  IInv'
  <1>. USE RecoveryAssumption DEF IInv
  <1>t. Typed
    BY TypeFacts
  <1>1. TypeOK'
    <2>1. operation' \in Requests(OperationSteps) /\ gate' \in Requests(GateSteps)
      BY <1>t DEF CheckClosure, incidents, evidence, device, core, Becomes, Nothing, Typed, TypeOK, Requests, OperationSteps, GateSteps, IsolationResults, Nothing
    <2>2. acked' \subseteq Ids /\ correlated' \subseteq Ids /\ wire' \subseteq Ids /\ obeyed' \subseteq Ids /\ contained' \subseteq Addresses
      BY <1>t DEF CheckClosure, incidents, evidence, device, core, Becomes, Nothing, Typed, OperInv, GateInv
    <2>3. log' \in [Ids -> Seq([event : Events, ip : Addresses \cup {NoAddress}])]
      BY <1>t DEF CheckClosure, incidents, evidence, device, core, Becomes, Nothing, TypeOK, Rows
    <2>4. /\ state' \in [Ids -> {"NONE", "OPEN", "CLOSED"}] /\ attacker' \in [Ids -> Addresses \cup {NoAddress}]
          /\ uplink' \in {"UNKNOWN", "LOCKDOWN", "NORMAL"}
      BY <1>t DEF CheckClosure, incidents, evidence, device, core, Becomes, Nothing, TypeOK
    <2>5. physical' \in [restore : Ids \cup {0}, observed : {"NONE", "NORMAL"}]
      BY <1>t DEF CheckClosure, incidents, evidence, device, core, Becomes, Nothing, TypeOK, Typed, GateInv
    <2>6. {acked', correlated', wire', obeyed'} \subseteq SUBSET Ids
      BY <2>2
    <2>. QED BY <2>1, <2>2, <2>3, <2>4, <2>5, <2>6 DEF TypeOK
  <1>2. OneInv'
    BY <1>t DEF CheckClosure, incidents, evidence, device, core, Becomes, Nothing, Typed, OneInv, Opened
  <1>3. IdsInv'
    BY <1>t DEF CheckClosure, incidents, evidence, device, core, Becomes, Nothing, Typed, IdsInv
  <1>4. OperInv'
    BY <1>t DEF CheckClosure, incidents, evidence, device, core, Becomes, Nothing, Typed, OperInv, Spent, Logged
  <1>5. GateInv'
    BY <1>t DEF CheckClosure, incidents, evidence, device, core, Becomes, Nothing, Typed, GateInv, Spent, Logged
  <1>6. RowsInv'
    BY <1>t DEF CheckClosure, incidents, evidence, device, core, Becomes, Nothing, Typed, RowsInv
  <1>7. RestoreInv'
    BY <1>t DEF CheckClosure, incidents, evidence, device, core, Becomes, Nothing, Typed, RestoreInv, Spent, Logged
  <1>8. ClosedIsRestored'
    BY <1>t DEF CheckClosure, incidents, evidence, device, core, Becomes, Nothing, Typed, ClosedIsRestored, Spent, Logged
  <1>9. DisposedInv'
    BY <1>t DEF CheckClosure, incidents, evidence, device, core, Becomes, Nothing, Typed, DisposedInv, Spent, Logged
  <1>. QED BY <1>1, <1>2, <1>3, <1>4, <1>5, <1>6, <1>7, <1>8, <1>9 DEF IInv

(* The operation is given up. *)
LEMMA AbandonKeeps ==
  ASSUME IInv, Abandon
  PROVE  IInv'
  <1>. USE RecoveryAssumption DEF IInv
  <1>t. Typed
    BY TypeFacts
  <1>1. TypeOK'
    <2>1. operation' \in Requests(OperationSteps) /\ gate' \in Requests(GateSteps)
      BY <1>t DEF Abandon, incidents, evidence, device, core, Becomes, Nothing, Typed, TypeOK, Requests, OperationSteps, GateSteps, IsolationResults, Nothing
    <2>2. acked' \subseteq Ids /\ correlated' \subseteq Ids /\ wire' \subseteq Ids /\ obeyed' \subseteq Ids /\ contained' \subseteq Addresses
      BY <1>t DEF Abandon, incidents, evidence, device, core, Becomes, Nothing, Typed, OperInv, GateInv
    <2>3. log' \in [Ids -> Seq([event : Events, ip : Addresses \cup {NoAddress}])]
      BY <1>t DEF Abandon, incidents, evidence, device, core, Becomes, Nothing, TypeOK, Rows
    <2>4. /\ state' \in [Ids -> {"NONE", "OPEN", "CLOSED"}] /\ attacker' \in [Ids -> Addresses \cup {NoAddress}]
          /\ uplink' \in {"UNKNOWN", "LOCKDOWN", "NORMAL"}
      BY <1>t DEF Abandon, incidents, evidence, device, core, Becomes, Nothing, TypeOK
    <2>5. physical' \in [restore : Ids \cup {0}, observed : {"NONE", "NORMAL"}]
      BY <1>t DEF Abandon, incidents, evidence, device, core, Becomes, Nothing, TypeOK, Typed, GateInv
    <2>6. {acked', correlated', wire', obeyed'} \subseteq SUBSET Ids
      BY <2>2
    <2>. QED BY <2>1, <2>2, <2>3, <2>4, <2>5, <2>6 DEF TypeOK
  <1>2. OneInv'
    BY <1>t DEF Abandon, incidents, evidence, device, core, Becomes, Nothing, Typed, OneInv, Opened
  <1>3. IdsInv'
    BY <1>t DEF Abandon, incidents, evidence, device, core, Becomes, Nothing, Typed, IdsInv
  <1>4. OperInv'
    BY <1>t DEF Abandon, incidents, evidence, device, core, Becomes, Nothing, Typed, OperInv, Spent, Logged
  <1>5. GateInv'
    BY <1>t DEF Abandon, incidents, evidence, device, core, Becomes, Nothing, Typed, GateInv, Spent, Logged
  <1>6. RowsInv'
    BY <1>t DEF Abandon, incidents, evidence, device, core, Becomes, Nothing, Typed, RowsInv
  <1>7. RestoreInv'
    BY <1>t DEF Abandon, incidents, evidence, device, core, Becomes, Nothing, Typed, RestoreInv, Spent, Logged
  <1>8. ClosedIsRestored'
    BY <1>t DEF Abandon, incidents, evidence, device, core, Becomes, Nothing, Typed, ClosedIsRestored, Spent, Logged
  <1>9. DisposedInv'
    BY <1>t DEF Abandon, incidents, evidence, device, core, Becomes, Nothing, Typed, DisposedInv, Spent, Logged
  <1>. QED BY <1>1, <1>2, <1>3, <1>4, <1>5, <1>6, <1>7, <1>8, <1>9 DEF IInv

(* The closure is audited after the publication. *)
LEMMA AuditClosureKeeps ==
  ASSUME IInv, AuditClosure
  PROVE  IInv'
  <1>. USE RecoveryAssumption DEF IInv
  <1>t. Typed
    BY TypeFacts
  <1>i. operation.id \in Ids /\ "R8_CLOSE" \in Events /\ Row("R8_CLOSE", operation.ip) \in Rows
    BY <1>t, RowFacts DEF AuditClosure, incidents, Becomes, evidence, device, core, Typed, OperInv, GateInv, Events, IsolationResults, Opened
  <1>l. log \in [Ids -> Seq(Rows)]
    BY DEF TypeOK, Rows
  <1>g. LogRow(operation.id, Row("R8_CLOSE", operation.ip))
    BY DEF AuditClosure, incidents, Becomes, evidence, device, core
  <1>m. log' \in [Ids -> Seq(Rows)] /\ \A j \in Ids : log'[j] = log[j] \/ (j = operation.id /\ log'[j] = Append(log[j], Row("R8_CLOSE", operation.ip)))
    BY <1>i, <1>l, <1>g, LogGrows DEF LogRow
  <1>n. log'[operation.id] = Append(log[operation.id], Row("R8_CLOSE", operation.ip))
    BY <1>i, <1>l, <1>g DEF LogRow
  <1>o. /\ \A j \in Ids : \A E : Mentions(log[j], E) => Mentions(log'[j], E)
        /\ \A j \in Ids : \A r : Has(log[j], r) => Has(log'[j], r)
        /\ \A j \in Ids : \A r, e : Precedes(log[j], r, e) => Precedes(log'[j], r, e)
    BY <1>i, <1>l, <1>m, LogFacts
  <1>p. /\ \A j \in Ids : \A E : Mentions(log'[j], E) => (Mentions(log[j], E) \/ (j = operation.id /\ Row("R8_CLOSE", operation.ip).event \in E))
        /\ \A j \in Ids : \A r : Has(log'[j], r) => (Has(log[j], r) \/ (j = operation.id /\ Row("R8_CLOSE", operation.ip) = r))
    <2>. DEFINE row == Row("R8_CLOSE", operation.ip)
    <2>1. row \in Rows /\ \A j \in Ids : log'[j] = log[j] \/ (j = operation.id /\ log'[j] = Append(log[j], row))
      BY <1>i, <1>m
    <2>. HIDE DEF row
    <2>2. /\ \A j \in Ids : \A E : Mentions(log'[j], E) => (Mentions(log[j], E) \/ (j = operation.id /\ row.event \in E))
          /\ \A j \in Ids : \A r : Has(log'[j], r) => (Has(log[j], r) \/ (j = operation.id /\ row = r))
      BY <2>1, <1>i, <1>l, LogFacts
    <2>. QED BY <2>2 DEF row
  <1>w. /\ \A j \in Ids : Mentions(log[j], {"RESTORE_REQUESTED"}) => Mentions(log'[j], {"RESTORE_REQUESTED"})
        /\ \A j \in Ids : Mentions(log'[j], {"RESTORE_REQUESTED"}) => Mentions(log[j], {"RESTORE_REQUESTED"})
        /\ \A j \in Ids : Mentions(log[j], {"DISPOSED"}) => Mentions(log'[j], {"DISPOSED"})
        /\ \A j \in Ids : Mentions(log'[j], {"DISPOSED"}) => Mentions(log[j], {"DISPOSED"})
        /\ \A j \in Ids, a \in Addresses \cup {NoAddress} : Has(log'[j], Row("RESTORE_PUBLISHED", a)) => Has(log[j], Row("RESTORE_PUBLISHED", a))
        /\ \A j \in Ids : \A r : Has(log[j], r) => Has(log'[j], r)
        /\ \A j \in Ids : \A r, e : Precedes(log[j], r, e) => Precedes(log'[j], r, e)
    <2>1. \A j \in Ids : Mentions(log[j], {"RESTORE_REQUESTED"}) => Mentions(log'[j], {"RESTORE_REQUESTED"})
      BY <1>o
    <2>2. \A j \in Ids : Mentions(log'[j], {"RESTORE_REQUESTED"}) => Mentions(log[j], {"RESTORE_REQUESTED"})
      BY <1>i, <1>p, RowFacts
    <2>3. \A j \in Ids : Mentions(log[j], {"DISPOSED"}) => Mentions(log'[j], {"DISPOSED"})
      BY <1>o
    <2>4. \A j \in Ids : Mentions(log'[j], {"DISPOSED"}) => Mentions(log[j], {"DISPOSED"})
      BY <1>i, <1>p, RowFacts
    <2>5. \A j \in Ids, a \in Addresses \cup {NoAddress} : Has(log'[j], Row("RESTORE_PUBLISHED", a)) => Has(log[j], Row("RESTORE_PUBLISHED", a))
      BY <1>i, <1>p, RowFacts
    <2>6. \A j \in Ids : \A r : Has(log[j], r) => Has(log'[j], r)
      BY <1>o
    <2>7. \A j \in Ids : \A r, e : Precedes(log[j], r, e) => Precedes(log'[j], r, e)
      BY <1>o
    <2>. QED BY <2>1, <2>2, <2>3, <2>4, <2>5, <2>6, <2>7
  <1>x. /\ \A E : "R8_CLOSE" \in E => Mentions(log'[operation.id], E)
        /\ \A r : Has(log[operation.id], r) => Precedes(log'[operation.id], r, "R8_CLOSE")
    BY <1>i, <1>l, <1>n, LogGrows, RowFacts
  <1>1. TypeOK'
    <2>1. operation' \in Requests(OperationSteps) /\ gate' \in Requests(GateSteps)
      BY <1>t, <1>i, <1>w, <1>m, <1>x DEF AuditClosure, incidents, Becomes, evidence, device, core, Typed, TypeOK, Requests, OperationSteps, GateSteps, IsolationResults, Nothing
    <2>2. acked' \subseteq Ids /\ correlated' \subseteq Ids /\ wire' \subseteq Ids /\ obeyed' \subseteq Ids /\ contained' \subseteq Addresses
      BY <1>t, <1>i, <1>w, <1>m, <1>x DEF AuditClosure, incidents, Becomes, evidence, device, core, Typed, OperInv, GateInv
    <2>3. log' \in [Ids -> Seq([event : Events, ip : Addresses \cup {NoAddress}])]
      BY <1>t, <1>i, <1>w, <1>m, <1>x DEF AuditClosure, incidents, Becomes, evidence, device, core, TypeOK, Rows
    <2>4. /\ state' \in [Ids -> {"NONE", "OPEN", "CLOSED"}] /\ attacker' \in [Ids -> Addresses \cup {NoAddress}]
          /\ uplink' \in {"UNKNOWN", "LOCKDOWN", "NORMAL"}
      BY <1>t, <1>i, <1>w, <1>m, <1>x DEF AuditClosure, incidents, Becomes, evidence, device, core, TypeOK
    <2>5. physical' \in [restore : Ids \cup {0}, observed : {"NONE", "NORMAL"}]
      BY <1>t, <1>i, <1>w, <1>m, <1>x DEF AuditClosure, incidents, Becomes, evidence, device, core, TypeOK, Typed, GateInv
    <2>6. {acked', correlated', wire', obeyed'} \subseteq SUBSET Ids
      BY <2>2
    <2>. QED BY <2>1, <2>2, <2>3, <2>4, <2>5, <2>6 DEF TypeOK
  <1>2. OneInv'
    BY <1>t, <1>i, <1>w, <1>m, <1>x DEF AuditClosure, incidents, Becomes, evidence, device, core, Typed, OneInv, Opened
  <1>3. IdsInv'
    BY <1>t, <1>i, <1>w, <1>m, <1>x DEF AuditClosure, incidents, Becomes, evidence, device, core, Typed, IdsInv
  <1>4. OperInv'
    BY <1>t, <1>i, <1>w, <1>m, <1>x DEF AuditClosure, incidents, Becomes, evidence, device, core, Typed, OperInv, Spent, Logged
  <1>5. GateInv'
    BY <1>t, <1>i, <1>w, <1>m, <1>x DEF AuditClosure, incidents, Becomes, evidence, device, core, Typed, GateInv, Spent, Logged
  <1>6. RowsInv'
    BY <1>t, <1>i, <1>w, <1>m, <1>x DEF AuditClosure, incidents, Becomes, evidence, device, core, Typed, RowsInv
  <1>7. RestoreInv'
    BY <1>t, <1>i, <1>w, <1>m, <1>x DEF AuditClosure, incidents, Becomes, evidence, device, core, Typed, RestoreInv, Spent, Logged
  <1>8. ClosedIsRestored'
    BY <1>t, <1>i, <1>w, <1>m, <1>x DEF AuditClosure, incidents, Becomes, evidence, device, core, Typed, ClosedIsRestored, Spent, Logged
  <1>9. DisposedInv'
    BY <1>t, <1>i, <1>w, <1>m, <1>x DEF AuditClosure, incidents, Becomes, evidence, device, core, Typed, DisposedInv, Spent, Logged
  <1>. QED BY <1>1, <1>2, <1>3, <1>4, <1>5, <1>6, <1>7, <1>8, <1>9 DEF IInv

(* The incident is closed with its chain complete. *)
LEMMA CloseIncidentKeeps ==
  ASSUME IInv, CloseIncident
  PROVE  IInv'
  <1>. USE RecoveryAssumption DEF IInv
  <1>t. Typed
    BY TypeFacts
  <1>1. TypeOK'
    <2>1. operation' \in Requests(OperationSteps) /\ gate' \in Requests(GateSteps)
      BY <1>t DEF CloseIncident, Nothing, evidence, device, core, Typed, TypeOK, Requests, OperationSteps, GateSteps, IsolationResults, Nothing
    <2>2. acked' \subseteq Ids /\ correlated' \subseteq Ids /\ wire' \subseteq Ids /\ obeyed' \subseteq Ids /\ contained' \subseteq Addresses
      BY <1>t DEF CloseIncident, Nothing, evidence, device, core, Typed, OperInv, GateInv
    <2>3. log' \in [Ids -> Seq([event : Events, ip : Addresses \cup {NoAddress}])]
      BY <1>t DEF CloseIncident, Nothing, evidence, device, core, TypeOK, Rows
    <2>4. /\ state' \in [Ids -> {"NONE", "OPEN", "CLOSED"}] /\ attacker' \in [Ids -> Addresses \cup {NoAddress}]
          /\ uplink' \in {"UNKNOWN", "LOCKDOWN", "NORMAL"}
      BY <1>t DEF CloseIncident, Nothing, evidence, device, core, TypeOK
    <2>5. physical' \in [restore : Ids \cup {0}, observed : {"NONE", "NORMAL"}]
      BY <1>t DEF CloseIncident, Nothing, evidence, device, core, TypeOK, Typed, GateInv
    <2>6. {acked', correlated', wire', obeyed'} \subseteq SUBSET Ids
      BY <2>2
    <2>. QED BY <2>1, <2>2, <2>3, <2>4, <2>5, <2>6 DEF TypeOK
  <1>2. OneInv'
    BY <1>t DEF CloseIncident, Nothing, evidence, device, core, Typed, OneInv, Opened
  <1>3. IdsInv'
    <2>1. PICK n \in 0..LastIncident : \A i \in Ids : state[i] # "NONE" <=> i =< n
      BY DEF IdsInv
    <2>2. operation.id \in Ids /\ state[operation.id] # "NONE"
      BY <1>t DEF CloseIncident, OperInv, IdsInv
    <2>3. \A i \in Ids : state'[i] # "NONE" <=> state[i] # "NONE"
      BY <2>2 DEF CloseIncident, TypeOK
    <2>. QED BY <2>1, <2>3 DEF IdsInv, CloseIncident
  <1>4. OperInv'
    BY <1>t DEF CloseIncident, Nothing, evidence, device, core, Typed, OperInv, Spent, Logged
  <1>5. GateInv'
    BY <1>t DEF CloseIncident, Nothing, evidence, device, core, Typed, GateInv, Spent, Logged
  <1>6. RowsInv'
    BY <1>t DEF CloseIncident, Nothing, evidence, device, core, Typed, RowsInv
  <1>7. RestoreInv'
    BY <1>t DEF CloseIncident, Nothing, evidence, device, core, Typed, RestoreInv, Spent, Logged
  <1>8. ClosedIsRestored'
    BY <1>t DEF CloseIncident, Nothing, evidence, device, core, Typed, ClosedIsRestored, Spent, Logged, OperInv, RestoreInv
  <1>9. DisposedInv'
    BY <1>t DEF CloseIncident, Nothing, evidence, device, core, Typed, DisposedInv, Spent, Logged
  <1>. QED BY <1>1, <1>2, <1>3, <1>4, <1>5, <1>6, <1>7, <1>8, <1>9 DEF IInv

(* A RESTORE takes its snapshot. *)
LEMMA TakeSnapshotKeeps ==
  ASSUME IInv, TakeSnapshot
  PROVE  IInv'
  <1>. USE RecoveryAssumption DEF IInv
  <1>t. Typed
    BY TypeFacts
  <1>c. Current \in Ids /\ state[Current] = "OPEN" /\ Opened = {Current}
    BY TheCurrent DEF TakeSnapshot
  <1>1. TypeOK'
    <2>1. operation' \in Requests(OperationSteps) /\ gate' \in Requests(GateSteps)
      BY <1>t, <1>c DEF TakeSnapshot, incidents, evidence, device, core, Typed, TypeOK, Requests, OperationSteps, GateSteps, IsolationResults, Nothing
    <2>2. acked' \subseteq Ids /\ correlated' \subseteq Ids /\ wire' \subseteq Ids /\ obeyed' \subseteq Ids /\ contained' \subseteq Addresses
      BY <1>t, <1>c DEF TakeSnapshot, incidents, evidence, device, core, Typed, OperInv, GateInv
    <2>3. log' \in [Ids -> Seq([event : Events, ip : Addresses \cup {NoAddress}])]
      BY <1>t, <1>c DEF TakeSnapshot, incidents, evidence, device, core, TypeOK, Rows
    <2>4. /\ state' \in [Ids -> {"NONE", "OPEN", "CLOSED"}] /\ attacker' \in [Ids -> Addresses \cup {NoAddress}]
          /\ uplink' \in {"UNKNOWN", "LOCKDOWN", "NORMAL"}
      BY <1>t, <1>c DEF TakeSnapshot, incidents, evidence, device, core, TypeOK
    <2>5. physical' \in [restore : Ids \cup {0}, observed : {"NONE", "NORMAL"}]
      BY <1>t, <1>c DEF TakeSnapshot, incidents, evidence, device, core, TypeOK, Typed, GateInv
    <2>6. {acked', correlated', wire', obeyed'} \subseteq SUBSET Ids
      BY <2>2
    <2>. QED BY <2>1, <2>2, <2>3, <2>4, <2>5, <2>6 DEF TypeOK
  <1>2. OneInv'
    BY <1>t, <1>c DEF TakeSnapshot, incidents, evidence, device, core, Typed, OneInv, Opened
  <1>3. IdsInv'
    BY <1>t, <1>c DEF TakeSnapshot, incidents, evidence, device, core, Typed, IdsInv
  <1>4. OperInv'
    BY <1>t, <1>c DEF TakeSnapshot, incidents, evidence, device, core, Typed, OperInv, Spent, Logged
  <1>5. GateInv'
    BY <1>t, <1>c DEF TakeSnapshot, incidents, evidence, device, core, Typed, GateInv, Spent, Logged
  <1>6. RowsInv'
    BY <1>t, <1>c DEF TakeSnapshot, incidents, evidence, device, core, Typed, RowsInv
  <1>7. RestoreInv'
    BY <1>t, <1>c DEF TakeSnapshot, incidents, evidence, device, core, Typed, RestoreInv, Spent, Logged
  <1>8. ClosedIsRestored'
    BY <1>t, <1>c DEF TakeSnapshot, incidents, evidence, device, core, Typed, ClosedIsRestored, Spent, Logged
  <1>9. DisposedInv'
    BY <1>t, <1>c DEF TakeSnapshot, incidents, evidence, device, core, Typed, DisposedInv, Spent, Logged
  <1>. QED BY <1>1, <1>2, <1>3, <1>4, <1>5, <1>6, <1>7, <1>8, <1>9 DEF IInv

(* It finds the isolation on record. *)
LEMMA CheckIsolationKeeps ==
  ASSUME IInv, CheckIsolation
  PROVE  IInv'
  <1>. USE RecoveryAssumption DEF IInv
  <1>t. Typed
    BY TypeFacts
  <1>h. gate.ip \in Addresses /\ Has(log[gate.id], Row("R3_VERIFIED", gate.ip))
    BY <1>t DEF CheckIsolation, IsolationRecorded, Has, Typed
  <1>1. TypeOK'
    <2>1. operation' \in Requests(OperationSteps) /\ gate' \in Requests(GateSteps)
      BY <1>t, <1>h DEF CheckIsolation, Advances, incidents, evidence, device, core, Typed, TypeOK, Requests, OperationSteps, GateSteps, IsolationResults, Nothing
    <2>2. acked' \subseteq Ids /\ correlated' \subseteq Ids /\ wire' \subseteq Ids /\ obeyed' \subseteq Ids /\ contained' \subseteq Addresses
      BY <1>t, <1>h DEF CheckIsolation, Advances, incidents, evidence, device, core, Typed, OperInv, GateInv
    <2>3. log' \in [Ids -> Seq([event : Events, ip : Addresses \cup {NoAddress}])]
      BY <1>t, <1>h DEF CheckIsolation, Advances, incidents, evidence, device, core, TypeOK, Rows
    <2>4. /\ state' \in [Ids -> {"NONE", "OPEN", "CLOSED"}] /\ attacker' \in [Ids -> Addresses \cup {NoAddress}]
          /\ uplink' \in {"UNKNOWN", "LOCKDOWN", "NORMAL"}
      BY <1>t, <1>h DEF CheckIsolation, Advances, incidents, evidence, device, core, TypeOK
    <2>5. physical' \in [restore : Ids \cup {0}, observed : {"NONE", "NORMAL"}]
      BY <1>t, <1>h DEF CheckIsolation, Advances, incidents, evidence, device, core, TypeOK, Typed, GateInv
    <2>6. {acked', correlated', wire', obeyed'} \subseteq SUBSET Ids
      BY <2>2
    <2>. QED BY <2>1, <2>2, <2>3, <2>4, <2>5, <2>6 DEF TypeOK
  <1>2. OneInv'
    BY <1>t, <1>h DEF CheckIsolation, Advances, incidents, evidence, device, core, Typed, OneInv, Opened
  <1>3. IdsInv'
    BY <1>t, <1>h DEF CheckIsolation, Advances, incidents, evidence, device, core, Typed, IdsInv
  <1>4. OperInv'
    BY <1>t, <1>h DEF CheckIsolation, Advances, incidents, evidence, device, core, Typed, OperInv, Spent, Logged
  <1>5. GateInv'
    BY <1>t, <1>h DEF CheckIsolation, Advances, incidents, evidence, device, core, Typed, GateInv, Spent, Logged
  <1>6. RowsInv'
    BY <1>t, <1>h DEF CheckIsolation, Advances, incidents, evidence, device, core, Typed, RowsInv
  <1>7. RestoreInv'
    BY <1>t, <1>h DEF CheckIsolation, Advances, incidents, evidence, device, core, Typed, RestoreInv, Spent, Logged
  <1>8. ClosedIsRestored'
    BY <1>t, <1>h DEF CheckIsolation, Advances, incidents, evidence, device, core, Typed, ClosedIsRestored, Spent, Logged
  <1>9. DisposedInv'
    BY <1>t, <1>h DEF CheckIsolation, Advances, incidents, evidence, device, core, Typed, DisposedInv, Spent, Logged
  <1>. QED BY <1>1, <1>2, <1>3, <1>4, <1>5, <1>6, <1>7, <1>8, <1>9 DEF IInv

(* It finds the address contained. *)
LEMMA CheckContainmentKeeps ==
  ASSUME IInv, CheckContainment
  PROVE  IInv'
  <1>. USE RecoveryAssumption DEF IInv
  <1>t. Typed
    BY TypeFacts
  <1>1. TypeOK'
    <2>1. operation' \in Requests(OperationSteps) /\ gate' \in Requests(GateSteps)
      BY <1>t DEF CheckContainment, Advances, incidents, evidence, device, core, Typed, TypeOK, Requests, OperationSteps, GateSteps, IsolationResults, Nothing
    <2>2. acked' \subseteq Ids /\ correlated' \subseteq Ids /\ wire' \subseteq Ids /\ obeyed' \subseteq Ids /\ contained' \subseteq Addresses
      BY <1>t DEF CheckContainment, Advances, incidents, evidence, device, core, Typed, OperInv, GateInv
    <2>3. log' \in [Ids -> Seq([event : Events, ip : Addresses \cup {NoAddress}])]
      BY <1>t DEF CheckContainment, Advances, incidents, evidence, device, core, TypeOK, Rows
    <2>4. /\ state' \in [Ids -> {"NONE", "OPEN", "CLOSED"}] /\ attacker' \in [Ids -> Addresses \cup {NoAddress}]
          /\ uplink' \in {"UNKNOWN", "LOCKDOWN", "NORMAL"}
      BY <1>t DEF CheckContainment, Advances, incidents, evidence, device, core, TypeOK
    <2>5. physical' \in [restore : Ids \cup {0}, observed : {"NONE", "NORMAL"}]
      BY <1>t DEF CheckContainment, Advances, incidents, evidence, device, core, TypeOK, Typed, GateInv
    <2>6. {acked', correlated', wire', obeyed'} \subseteq SUBSET Ids
      BY <2>2
    <2>. QED BY <2>1, <2>2, <2>3, <2>4, <2>5, <2>6 DEF TypeOK
  <1>2. OneInv'
    BY <1>t DEF CheckContainment, Advances, incidents, evidence, device, core, Typed, OneInv, Opened
  <1>3. IdsInv'
    BY <1>t DEF CheckContainment, Advances, incidents, evidence, device, core, Typed, IdsInv
  <1>4. OperInv'
    BY <1>t DEF CheckContainment, Advances, incidents, evidence, device, core, Typed, OperInv, Spent, Logged
  <1>5. GateInv'
    BY <1>t DEF CheckContainment, Advances, incidents, evidence, device, core, Typed, GateInv, Spent, Logged
  <1>6. RowsInv'
    BY <1>t DEF CheckContainment, Advances, incidents, evidence, device, core, Typed, RowsInv
  <1>7. RestoreInv'
    BY <1>t DEF CheckContainment, Advances, incidents, evidence, device, core, Typed, RestoreInv, Spent, Logged
  <1>8. ClosedIsRestored'
    BY <1>t DEF CheckContainment, Advances, incidents, evidence, device, core, Typed, ClosedIsRestored, Spent, Logged
  <1>9. DisposedInv'
    BY <1>t DEF CheckContainment, Advances, incidents, evidence, device, core, Typed, DisposedInv, Spent, Logged
  <1>. QED BY <1>1, <1>2, <1>3, <1>4, <1>5, <1>6, <1>7, <1>8, <1>9 DEF IInv

(* Under the lock the incident is the open one, so it was not disposed of. *)
LEMMA EnterGuardKeeps ==
  ASSUME IInv, EnterGuard
  PROVE  IInv'
  <1>. USE RecoveryAssumption DEF IInv
  <1>t. Typed
    BY TypeFacts
  <1>h. ~Logged(gate.id, {"DISPOSED"})
    <2>1. gate.id \in Ids /\ Current = gate.id
      BY DEF EnterGuard, GateInv
    <2>2. Opened # {}
      BY <2>1, RecoveryAssumption DEF Current, Ids
    <2>3. state[gate.id] = "OPEN"
      BY <2>1, <2>2, TheCurrent
    <2>. QED BY <2>1, <2>3 DEF DisposedInv
  <1>1. TypeOK'
    <2>1. operation' \in Requests(OperationSteps) /\ gate' \in Requests(GateSteps)
      BY <1>t, <1>h DEF EnterGuard, Advances, incidents, evidence, device, core, Typed, TypeOK, Requests, OperationSteps, GateSteps, IsolationResults, Nothing
    <2>2. acked' \subseteq Ids /\ correlated' \subseteq Ids /\ wire' \subseteq Ids /\ obeyed' \subseteq Ids /\ contained' \subseteq Addresses
      BY <1>t, <1>h DEF EnterGuard, Advances, incidents, evidence, device, core, Typed, OperInv, GateInv
    <2>3. log' \in [Ids -> Seq([event : Events, ip : Addresses \cup {NoAddress}])]
      BY <1>t, <1>h DEF EnterGuard, Advances, incidents, evidence, device, core, TypeOK, Rows
    <2>4. /\ state' \in [Ids -> {"NONE", "OPEN", "CLOSED"}] /\ attacker' \in [Ids -> Addresses \cup {NoAddress}]
          /\ uplink' \in {"UNKNOWN", "LOCKDOWN", "NORMAL"}
      BY <1>t, <1>h DEF EnterGuard, Advances, incidents, evidence, device, core, TypeOK
    <2>5. physical' \in [restore : Ids \cup {0}, observed : {"NONE", "NORMAL"}]
      BY <1>t, <1>h DEF EnterGuard, Advances, incidents, evidence, device, core, TypeOK, Typed, GateInv
    <2>6. {acked', correlated', wire', obeyed'} \subseteq SUBSET Ids
      BY <2>2
    <2>. QED BY <2>1, <2>2, <2>3, <2>4, <2>5, <2>6 DEF TypeOK
  <1>2. OneInv'
    BY <1>t, <1>h DEF EnterGuard, Advances, incidents, evidence, device, core, Typed, OneInv, Opened
  <1>3. IdsInv'
    BY <1>t, <1>h DEF EnterGuard, Advances, incidents, evidence, device, core, Typed, IdsInv
  <1>4. OperInv'
    BY <1>t, <1>h DEF EnterGuard, Advances, incidents, evidence, device, core, Typed, OperInv, Spent, Logged
  <1>5. GateInv'
    BY <1>t, <1>h DEF EnterGuard, Advances, incidents, evidence, device, core, Typed, GateInv, Spent, Logged
  <1>6. RowsInv'
    BY <1>t, <1>h DEF EnterGuard, Advances, incidents, evidence, device, core, Typed, RowsInv
  <1>7. RestoreInv'
    BY <1>t, <1>h DEF EnterGuard, Advances, incidents, evidence, device, core, Typed, RestoreInv, Spent, Logged
  <1>8. ClosedIsRestored'
    BY <1>t, <1>h DEF EnterGuard, Advances, incidents, evidence, device, core, Typed, ClosedIsRestored, Spent, Logged
  <1>9. DisposedInv'
    BY <1>t, <1>h DEF EnterGuard, Advances, incidents, evidence, device, core, Typed, DisposedInv, Spent, Logged
  <1>. QED BY <1>1, <1>2, <1>3, <1>4, <1>5, <1>6, <1>7, <1>8, <1>9 DEF IInv

(* The attempt is written after the isolation. *)
LEMMA RequestRestoreKeeps ==
  ASSUME IInv, RequestRestore
  PROVE  IInv'
  <1>. USE RecoveryAssumption DEF IInv
  <1>t. Typed
    BY TypeFacts
  <1>i. gate.id \in Ids /\ "RESTORE_REQUESTED" \in Events /\ Row("RESTORE_REQUESTED", gate.ip) \in Rows
    BY <1>t, RowFacts DEF RequestRestore, incidents, Advances, evidence, device, core, Typed, OperInv, GateInv, Events, IsolationResults, Opened
  <1>l. log \in [Ids -> Seq(Rows)]
    BY DEF TypeOK, Rows
  <1>g. LogRow(gate.id, Row("RESTORE_REQUESTED", gate.ip))
    BY DEF RequestRestore, incidents, Advances, evidence, device, core
  <1>m. log' \in [Ids -> Seq(Rows)] /\ \A j \in Ids : log'[j] = log[j] \/ (j = gate.id /\ log'[j] = Append(log[j], Row("RESTORE_REQUESTED", gate.ip)))
    BY <1>i, <1>l, <1>g, LogGrows DEF LogRow
  <1>n. log'[gate.id] = Append(log[gate.id], Row("RESTORE_REQUESTED", gate.ip))
    BY <1>i, <1>l, <1>g DEF LogRow
  <1>o. /\ \A j \in Ids : \A E : Mentions(log[j], E) => Mentions(log'[j], E)
        /\ \A j \in Ids : \A r : Has(log[j], r) => Has(log'[j], r)
        /\ \A j \in Ids : \A r, e : Precedes(log[j], r, e) => Precedes(log'[j], r, e)
    BY <1>i, <1>l, <1>m, LogFacts
  <1>p. /\ \A j \in Ids : \A E : Mentions(log'[j], E) => (Mentions(log[j], E) \/ (j = gate.id /\ Row("RESTORE_REQUESTED", gate.ip).event \in E))
        /\ \A j \in Ids : \A r : Has(log'[j], r) => (Has(log[j], r) \/ (j = gate.id /\ Row("RESTORE_REQUESTED", gate.ip) = r))
    <2>. DEFINE row == Row("RESTORE_REQUESTED", gate.ip)
    <2>1. row \in Rows /\ \A j \in Ids : log'[j] = log[j] \/ (j = gate.id /\ log'[j] = Append(log[j], row))
      BY <1>i, <1>m
    <2>. HIDE DEF row
    <2>2. /\ \A j \in Ids : \A E : Mentions(log'[j], E) => (Mentions(log[j], E) \/ (j = gate.id /\ row.event \in E))
          /\ \A j \in Ids : \A r : Has(log'[j], r) => (Has(log[j], r) \/ (j = gate.id /\ row = r))
      BY <2>1, <1>i, <1>l, LogFacts
    <2>. QED BY <2>2 DEF row
  <1>w. /\ \A j \in Ids : Mentions(log[j], {"RESTORE_REQUESTED"}) => Mentions(log'[j], {"RESTORE_REQUESTED"})
        /\ \A j \in Ids : Mentions(log'[j], {"RESTORE_REQUESTED"}) => (Mentions(log[j], {"RESTORE_REQUESTED"}) \/ j = gate.id)
        /\ \A j \in Ids : Mentions(log[j], {"DISPOSED"}) => Mentions(log'[j], {"DISPOSED"})
        /\ \A j \in Ids : Mentions(log'[j], {"DISPOSED"}) => Mentions(log[j], {"DISPOSED"})
        /\ \A j \in Ids, a \in Addresses \cup {NoAddress} : Has(log'[j], Row("RESTORE_PUBLISHED", a)) => Has(log[j], Row("RESTORE_PUBLISHED", a))
        /\ \A j \in Ids : \A r : Has(log[j], r) => Has(log'[j], r)
        /\ \A j \in Ids : \A r, e : Precedes(log[j], r, e) => Precedes(log'[j], r, e)
    <2>1. \A j \in Ids : Mentions(log[j], {"RESTORE_REQUESTED"}) => Mentions(log'[j], {"RESTORE_REQUESTED"})
      BY <1>o
    <2>2. \A j \in Ids : Mentions(log'[j], {"RESTORE_REQUESTED"}) => (Mentions(log[j], {"RESTORE_REQUESTED"}) \/ j = gate.id)
      BY <1>i, <1>p, RowFacts
    <2>3. \A j \in Ids : Mentions(log[j], {"DISPOSED"}) => Mentions(log'[j], {"DISPOSED"})
      BY <1>o
    <2>4. \A j \in Ids : Mentions(log'[j], {"DISPOSED"}) => Mentions(log[j], {"DISPOSED"})
      BY <1>i, <1>p, RowFacts
    <2>5. \A j \in Ids, a \in Addresses \cup {NoAddress} : Has(log'[j], Row("RESTORE_PUBLISHED", a)) => Has(log[j], Row("RESTORE_PUBLISHED", a))
      BY <1>i, <1>p, RowFacts
    <2>6. \A j \in Ids : \A r : Has(log[j], r) => Has(log'[j], r)
      BY <1>o
    <2>7. \A j \in Ids : \A r, e : Precedes(log[j], r, e) => Precedes(log'[j], r, e)
      BY <1>o
    <2>. QED BY <2>1, <2>2, <2>3, <2>4, <2>5, <2>6, <2>7
  <1>x. /\ \A E : "RESTORE_REQUESTED" \in E => Mentions(log'[gate.id], E)
        /\ \A r : Has(log[gate.id], r) => Precedes(log'[gate.id], r, "RESTORE_REQUESTED")
    BY <1>i, <1>l, <1>n, LogGrows, RowFacts
  <1>1. TypeOK'
    <2>1. operation' \in Requests(OperationSteps) /\ gate' \in Requests(GateSteps)
      BY <1>t, <1>i, <1>w, <1>m, <1>x DEF RequestRestore, incidents, Advances, evidence, device, core, Typed, TypeOK, Requests, OperationSteps, GateSteps, IsolationResults, Nothing
    <2>2. acked' \subseteq Ids /\ correlated' \subseteq Ids /\ wire' \subseteq Ids /\ obeyed' \subseteq Ids /\ contained' \subseteq Addresses
      BY <1>t, <1>i, <1>w, <1>m, <1>x DEF RequestRestore, incidents, Advances, evidence, device, core, Typed, OperInv, GateInv
    <2>3. log' \in [Ids -> Seq([event : Events, ip : Addresses \cup {NoAddress}])]
      BY <1>t, <1>i, <1>w, <1>m, <1>x DEF RequestRestore, incidents, Advances, evidence, device, core, TypeOK, Rows
    <2>4. /\ state' \in [Ids -> {"NONE", "OPEN", "CLOSED"}] /\ attacker' \in [Ids -> Addresses \cup {NoAddress}]
          /\ uplink' \in {"UNKNOWN", "LOCKDOWN", "NORMAL"}
      BY <1>t, <1>i, <1>w, <1>m, <1>x DEF RequestRestore, incidents, Advances, evidence, device, core, TypeOK
    <2>5. physical' \in [restore : Ids \cup {0}, observed : {"NONE", "NORMAL"}]
      BY <1>t, <1>i, <1>w, <1>m, <1>x DEF RequestRestore, incidents, Advances, evidence, device, core, TypeOK, Typed, GateInv
    <2>6. {acked', correlated', wire', obeyed'} \subseteq SUBSET Ids
      BY <2>2
    <2>. QED BY <2>1, <2>2, <2>3, <2>4, <2>5, <2>6 DEF TypeOK
  <1>2. OneInv'
    BY <1>t, <1>i, <1>w, <1>m, <1>x DEF RequestRestore, incidents, Advances, evidence, device, core, Typed, OneInv, Opened
  <1>3. IdsInv'
    BY <1>t, <1>i, <1>w, <1>m, <1>x DEF RequestRestore, incidents, Advances, evidence, device, core, Typed, IdsInv
  <1>4. OperInv'
    BY <1>t, <1>i, <1>w, <1>m, <1>x DEF RequestRestore, incidents, Advances, evidence, device, core, Typed, OperInv, Spent, Logged
  <1>5. GateInv'
    BY <1>t, <1>i, <1>w, <1>m, <1>x DEF RequestRestore, incidents, Advances, evidence, device, core, Typed, GateInv, Spent, Logged
  <1>6. RowsInv'
    BY <1>t, <1>i, <1>w, <1>m, <1>x DEF RequestRestore, incidents, Advances, evidence, device, core, Typed, RowsInv
  <1>7. RestoreInv'
    BY <1>t, <1>i, <1>w, <1>m, <1>x DEF RequestRestore, incidents, Advances, evidence, device, core, Typed, RestoreInv, Spent, Logged, GateInv
  <1>8. ClosedIsRestored'
    BY <1>t, <1>i, <1>w, <1>m, <1>x DEF RequestRestore, incidents, Advances, evidence, device, core, Typed, ClosedIsRestored, Spent, Logged
  <1>9. DisposedInv'
    BY <1>t, <1>i, <1>w, <1>m, <1>x DEF RequestRestore, incidents, Advances, evidence, device, core, Typed, DisposedInv, Spent, Logged, GateInv
  <1>. QED BY <1>1, <1>2, <1>3, <1>4, <1>5, <1>6, <1>7, <1>8, <1>9 DEF IInv

(* The frame leaves after the attempt. *)
LEMMA PublishRestoreKeeps ==
  ASSUME IInv, PublishRestore
  PROVE  IInv'
  <1>. USE RecoveryAssumption DEF IInv
  <1>t. Typed
    BY TypeFacts
  <1>e. gate' = Nothing \/ (gate'.id = gate.id /\ gate'.ip = gate.ip /\ gate'.step = "PUBLISHED" /\ gate' \in Requests(GateSteps))
    BY <1>t DEF PublishRestore, Advances, TypeOK, Requests, GateSteps
  <1>h. gate.step = "REQUESTED" /\ wire' = wire \cup {gate.id}
    BY DEF PublishRestore
  <1>1. TypeOK'
    <2>1. operation' \in Requests(OperationSteps) /\ gate' \in Requests(GateSteps)
      BY <1>t, <1>e, <1>h DEF PublishRestore, Advances, incidents, evidence, Nothing, Typed, TypeOK, Requests, OperationSteps, GateSteps, IsolationResults, Nothing
    <2>2. acked' \subseteq Ids /\ correlated' \subseteq Ids /\ wire' \subseteq Ids /\ obeyed' \subseteq Ids /\ contained' \subseteq Addresses
      BY <1>t, <1>e, <1>h DEF PublishRestore, Advances, incidents, evidence, Nothing, Typed, OperInv, GateInv
    <2>3. log' \in [Ids -> Seq([event : Events, ip : Addresses \cup {NoAddress}])]
      BY <1>t, <1>e, <1>h DEF PublishRestore, Advances, incidents, evidence, Nothing, TypeOK, Rows
    <2>4. /\ state' \in [Ids -> {"NONE", "OPEN", "CLOSED"}] /\ attacker' \in [Ids -> Addresses \cup {NoAddress}]
          /\ uplink' \in {"UNKNOWN", "LOCKDOWN", "NORMAL"}
      BY <1>t, <1>e, <1>h DEF PublishRestore, Advances, incidents, evidence, Nothing, TypeOK
    <2>5. physical' \in [restore : Ids \cup {0}, observed : {"NONE", "NORMAL"}]
      BY <1>t, <1>e, <1>h DEF PublishRestore, Advances, incidents, evidence, Nothing, TypeOK, Typed, GateInv
    <2>6. {acked', correlated', wire', obeyed'} \subseteq SUBSET Ids
      BY <2>2
    <2>. QED BY <2>1, <2>2, <2>3, <2>4, <2>5, <2>6 DEF TypeOK
  <1>2. OneInv'
    BY <1>t, <1>e, <1>h DEF PublishRestore, Advances, incidents, evidence, Nothing, Typed, OneInv, Opened
  <1>3. IdsInv'
    BY <1>t, <1>e, <1>h DEF PublishRestore, Advances, incidents, evidence, Nothing, Typed, IdsInv
  <1>4. OperInv'
    BY <1>t, <1>e, <1>h DEF PublishRestore, Advances, incidents, evidence, Nothing, Typed, OperInv, Spent, Logged
  <1>5. GateInv'
    BY <1>t, <1>e, <1>h DEF PublishRestore, incidents, Nothing, GateInv, Spent, Logged
  <1>6. RowsInv'
    BY <1>t, <1>e, <1>h DEF PublishRestore, Advances, incidents, evidence, Nothing, Typed, RowsInv
  <1>7. RestoreInv'
    BY <1>t, <1>e, <1>h DEF PublishRestore, Advances, incidents, evidence, Nothing, Typed, RestoreInv, Spent, Logged, GateInv
  <1>8. ClosedIsRestored'
    BY <1>t, <1>e, <1>h DEF PublishRestore, Advances, incidents, evidence, Nothing, Typed, ClosedIsRestored, Spent, Logged
  <1>9. DisposedInv'
    BY <1>t, <1>e, <1>h DEF PublishRestore, Advances, incidents, evidence, Nothing, Typed, DisposedInv, Spent, Logged
  <1>. QED BY <1>1, <1>2, <1>3, <1>4, <1>5, <1>6, <1>7, <1>8, <1>9 DEF IInv

(* The publication is linked. *)
LEMMA LinkRestoreKeeps ==
  ASSUME IInv, LinkRestore
  PROVE  IInv'
  <1>. USE RecoveryAssumption DEF IInv
  <1>t. Typed
    BY TypeFacts
  <1>i. gate.id \in Ids /\ "RESTORE_PUBLISHED" \in Events /\ Row("RESTORE_PUBLISHED", gate.ip) \in Rows
    BY <1>t, RowFacts DEF LinkRestore, incidents, evidence, device, core, Nothing, Typed, OperInv, GateInv, Events, IsolationResults, Opened
  <1>l. log \in [Ids -> Seq(Rows)]
    BY DEF TypeOK, Rows
  <1>g. LogRow(gate.id, Row("RESTORE_PUBLISHED", gate.ip)) \/ UNCHANGED log
    BY DEF LinkRestore, incidents, evidence, device, core, Nothing
  <1>m. log' \in [Ids -> Seq(Rows)] /\ \A j \in Ids : log'[j] = log[j] \/ (j = gate.id /\ log'[j] = Append(log[j], Row("RESTORE_PUBLISHED", gate.ip)))
    <2>1. CASE UNCHANGED log
      BY <2>1, <1>l
    <2>2. CASE LogRow(gate.id, Row("RESTORE_PUBLISHED", gate.ip))
      BY <2>2, <1>i, <1>l, LogGrows DEF LogRow
    <2>. QED BY <2>1, <2>2, <1>g
  <1>o. /\ \A j \in Ids : \A E : Mentions(log[j], E) => Mentions(log'[j], E)
        /\ \A j \in Ids : \A r : Has(log[j], r) => Has(log'[j], r)
        /\ \A j \in Ids : \A r, e : Precedes(log[j], r, e) => Precedes(log'[j], r, e)
    BY <1>i, <1>l, <1>m, LogFacts
  <1>p. /\ \A j \in Ids : \A E : Mentions(log'[j], E) => (Mentions(log[j], E) \/ (j = gate.id /\ Row("RESTORE_PUBLISHED", gate.ip).event \in E))
        /\ \A j \in Ids : \A r : Has(log'[j], r) => (Has(log[j], r) \/ (j = gate.id /\ Row("RESTORE_PUBLISHED", gate.ip) = r))
    <2>. DEFINE row == Row("RESTORE_PUBLISHED", gate.ip)
    <2>1. row \in Rows /\ \A j \in Ids : log'[j] = log[j] \/ (j = gate.id /\ log'[j] = Append(log[j], row))
      BY <1>i, <1>m
    <2>. HIDE DEF row
    <2>2. /\ \A j \in Ids : \A E : Mentions(log'[j], E) => (Mentions(log[j], E) \/ (j = gate.id /\ row.event \in E))
          /\ \A j \in Ids : \A r : Has(log'[j], r) => (Has(log[j], r) \/ (j = gate.id /\ row = r))
      BY <2>1, <1>i, <1>l, LogFacts
    <2>. QED BY <2>2 DEF row
  <1>w. /\ \A j \in Ids : Mentions(log[j], {"RESTORE_REQUESTED"}) => Mentions(log'[j], {"RESTORE_REQUESTED"})
        /\ \A j \in Ids : Mentions(log'[j], {"RESTORE_REQUESTED"}) => Mentions(log[j], {"RESTORE_REQUESTED"})
        /\ \A j \in Ids : Mentions(log[j], {"DISPOSED"}) => Mentions(log'[j], {"DISPOSED"})
        /\ \A j \in Ids : Mentions(log'[j], {"DISPOSED"}) => Mentions(log[j], {"DISPOSED"})
        /\ \A j \in Ids, ip \in Addresses \cup {NoAddress} : Has(log'[j], Row("RESTORE_PUBLISHED", ip)) => (Has(log[j], Row("RESTORE_PUBLISHED", ip)) \/ (j = gate.id /\ ip = gate.ip))
        /\ \A j \in Ids : \A r : Has(log[j], r) => Has(log'[j], r)
        /\ \A j \in Ids : \A r, e : Precedes(log[j], r, e) => Precedes(log'[j], r, e)
    <2>1. \A j \in Ids : Mentions(log[j], {"RESTORE_REQUESTED"}) => Mentions(log'[j], {"RESTORE_REQUESTED"})
      BY <1>o
    <2>2. \A j \in Ids : Mentions(log'[j], {"RESTORE_REQUESTED"}) => Mentions(log[j], {"RESTORE_REQUESTED"})
      BY <1>i, <1>p, RowFacts
    <2>3. \A j \in Ids : Mentions(log[j], {"DISPOSED"}) => Mentions(log'[j], {"DISPOSED"})
      BY <1>o
    <2>4. \A j \in Ids : Mentions(log'[j], {"DISPOSED"}) => Mentions(log[j], {"DISPOSED"})
      BY <1>i, <1>p, RowFacts
    <2>5. \A j \in Ids, ip \in Addresses \cup {NoAddress} : Has(log'[j], Row("RESTORE_PUBLISHED", ip)) => (Has(log[j], Row("RESTORE_PUBLISHED", ip)) \/ (j = gate.id /\ ip = gate.ip))
      BY <1>i, <1>p, RowFacts
    <2>6. \A j \in Ids : \A r : Has(log[j], r) => Has(log'[j], r)
      BY <1>o
    <2>7. \A j \in Ids : \A r, e : Precedes(log[j], r, e) => Precedes(log'[j], r, e)
      BY <1>o
    <2>. QED BY <2>1, <2>2, <2>3, <2>4, <2>5, <2>6, <2>7
  <1>1. TypeOK'
    <2>1. operation' \in Requests(OperationSteps) /\ gate' \in Requests(GateSteps)
      BY <1>t, <1>i, <1>w, <1>m DEF LinkRestore, incidents, evidence, device, core, Nothing, Typed, TypeOK, Requests, OperationSteps, GateSteps, IsolationResults, Nothing
    <2>2. acked' \subseteq Ids /\ correlated' \subseteq Ids /\ wire' \subseteq Ids /\ obeyed' \subseteq Ids /\ contained' \subseteq Addresses
      BY <1>t, <1>i, <1>w, <1>m DEF LinkRestore, incidents, evidence, device, core, Nothing, Typed, OperInv, GateInv
    <2>3. log' \in [Ids -> Seq([event : Events, ip : Addresses \cup {NoAddress}])]
      BY <1>t, <1>i, <1>w, <1>m DEF LinkRestore, incidents, evidence, device, core, Nothing, TypeOK, Rows
    <2>4. /\ state' \in [Ids -> {"NONE", "OPEN", "CLOSED"}] /\ attacker' \in [Ids -> Addresses \cup {NoAddress}]
          /\ uplink' \in {"UNKNOWN", "LOCKDOWN", "NORMAL"}
      BY <1>t, <1>i, <1>w, <1>m DEF LinkRestore, incidents, evidence, device, core, Nothing, TypeOK
    <2>5. physical' \in [restore : Ids \cup {0}, observed : {"NONE", "NORMAL"}]
      BY <1>t, <1>i, <1>w, <1>m DEF LinkRestore, incidents, evidence, device, core, Nothing, TypeOK, Typed, GateInv
    <2>6. {acked', correlated', wire', obeyed'} \subseteq SUBSET Ids
      BY <2>2
    <2>. QED BY <2>1, <2>2, <2>3, <2>4, <2>5, <2>6 DEF TypeOK
  <1>2. OneInv'
    BY <1>t, <1>i, <1>w, <1>m DEF LinkRestore, incidents, evidence, device, core, Nothing, Typed, OneInv, Opened
  <1>3. IdsInv'
    BY <1>t, <1>i, <1>w, <1>m DEF LinkRestore, incidents, evidence, device, core, Nothing, Typed, IdsInv
  <1>4. OperInv'
    BY <1>t, <1>i, <1>w, <1>m DEF LinkRestore, incidents, evidence, device, core, Nothing, Typed, OperInv, Spent, Logged
  <1>5. GateInv'
    BY <1>t, <1>i, <1>w, <1>m DEF LinkRestore, incidents, evidence, device, core, Nothing, Typed, GateInv, Spent, Logged
  <1>6. RowsInv'
    BY <1>t, <1>i, <1>w, <1>m DEF LinkRestore, incidents, evidence, device, core, Nothing, Typed, RowsInv, GateInv
  <1>7. RestoreInv'
    BY <1>t, <1>i, <1>w, <1>m DEF LinkRestore, incidents, evidence, device, core, Nothing, Typed, RestoreInv, Spent, Logged
  <1>8. ClosedIsRestored'
    BY <1>t, <1>i, <1>w, <1>m DEF LinkRestore, incidents, evidence, device, core, Nothing, Typed, ClosedIsRestored, Spent, Logged
  <1>9. DisposedInv'
    BY <1>t, <1>i, <1>w, <1>m DEF LinkRestore, incidents, evidence, device, core, Nothing, Typed, DisposedInv, Spent, Logged
  <1>. QED BY <1>1, <1>2, <1>3, <1>4, <1>5, <1>6, <1>7, <1>8, <1>9 DEF IInv

(* A RESTORE is refused. *)
LEMMA RefuseRestoreKeeps ==
  ASSUME IInv, RefuseRestore
  PROVE  IInv'
  <1>. USE RecoveryAssumption DEF IInv
  <1>t. Typed
    BY TypeFacts
  <1>1. TypeOK'
    <2>1. operation' \in Requests(OperationSteps) /\ gate' \in Requests(GateSteps)
      BY <1>t DEF RefuseRestore, incidents, evidence, device, core, Nothing, Typed, TypeOK, Requests, OperationSteps, GateSteps, IsolationResults, Nothing
    <2>2. acked' \subseteq Ids /\ correlated' \subseteq Ids /\ wire' \subseteq Ids /\ obeyed' \subseteq Ids /\ contained' \subseteq Addresses
      BY <1>t DEF RefuseRestore, incidents, evidence, device, core, Nothing, Typed, OperInv, GateInv
    <2>3. log' \in [Ids -> Seq([event : Events, ip : Addresses \cup {NoAddress}])]
      BY <1>t DEF RefuseRestore, incidents, evidence, device, core, Nothing, TypeOK, Rows
    <2>4. /\ state' \in [Ids -> {"NONE", "OPEN", "CLOSED"}] /\ attacker' \in [Ids -> Addresses \cup {NoAddress}]
          /\ uplink' \in {"UNKNOWN", "LOCKDOWN", "NORMAL"}
      BY <1>t DEF RefuseRestore, incidents, evidence, device, core, Nothing, TypeOK
    <2>5. physical' \in [restore : Ids \cup {0}, observed : {"NONE", "NORMAL"}]
      BY <1>t DEF RefuseRestore, incidents, evidence, device, core, Nothing, TypeOK, Typed, GateInv
    <2>6. {acked', correlated', wire', obeyed'} \subseteq SUBSET Ids
      BY <2>2
    <2>. QED BY <2>1, <2>2, <2>3, <2>4, <2>5, <2>6 DEF TypeOK
  <1>2. OneInv'
    BY <1>t DEF RefuseRestore, incidents, evidence, device, core, Nothing, Typed, OneInv, Opened
  <1>3. IdsInv'
    BY <1>t DEF RefuseRestore, incidents, evidence, device, core, Nothing, Typed, IdsInv
  <1>4. OperInv'
    BY <1>t DEF RefuseRestore, incidents, evidence, device, core, Nothing, Typed, OperInv, Spent, Logged
  <1>5. GateInv'
    BY <1>t DEF RefuseRestore, incidents, evidence, device, core, Nothing, Typed, GateInv, Spent, Logged
  <1>6. RowsInv'
    BY <1>t DEF RefuseRestore, incidents, evidence, device, core, Nothing, Typed, RowsInv
  <1>7. RestoreInv'
    BY <1>t DEF RefuseRestore, incidents, evidence, device, core, Nothing, Typed, RestoreInv, Spent, Logged
  <1>8. ClosedIsRestored'
    BY <1>t DEF RefuseRestore, incidents, evidence, device, core, Nothing, Typed, ClosedIsRestored, Spent, Logged
  <1>9. DisposedInv'
    BY <1>t DEF RefuseRestore, incidents, evidence, device, core, Nothing, Typed, DisposedInv, Spent, Logged
  <1>. QED BY <1>1, <1>2, <1>3, <1>4, <1>5, <1>6, <1>7, <1>8, <1>9 DEF IInv

(* The containment set follows others. *)
LEMMA ContainmentChangesKeeps ==
  ASSUME IInv, NEW ip \in Addresses, ContainmentChanges(ip)
  PROVE  IInv'
  <1>. USE RecoveryAssumption DEF IInv
  <1>t. Typed
    BY TypeFacts
  <1>1. TypeOK'
    <2>1. operation' \in Requests(OperationSteps) /\ gate' \in Requests(GateSteps)
      BY <1>t DEF ContainmentChanges, incidents, evidence, device, core, Typed, TypeOK, Requests, OperationSteps, GateSteps, IsolationResults, Nothing
    <2>2. acked' \subseteq Ids /\ correlated' \subseteq Ids /\ wire' \subseteq Ids /\ obeyed' \subseteq Ids /\ contained' \subseteq Addresses
      BY <1>t DEF ContainmentChanges, incidents, evidence, device, core, Typed, OperInv, GateInv
    <2>3. log' \in [Ids -> Seq([event : Events, ip : Addresses \cup {NoAddress}])]
      BY <1>t DEF ContainmentChanges, incidents, evidence, device, core, TypeOK, Rows
    <2>4. /\ state' \in [Ids -> {"NONE", "OPEN", "CLOSED"}] /\ attacker' \in [Ids -> Addresses \cup {NoAddress}]
          /\ uplink' \in {"UNKNOWN", "LOCKDOWN", "NORMAL"}
      BY <1>t DEF ContainmentChanges, incidents, evidence, device, core, TypeOK
    <2>5. physical' \in [restore : Ids \cup {0}, observed : {"NONE", "NORMAL"}]
      BY <1>t DEF ContainmentChanges, incidents, evidence, device, core, TypeOK, Typed, GateInv
    <2>6. {acked', correlated', wire', obeyed'} \subseteq SUBSET Ids
      BY <2>2
    <2>. QED BY <2>1, <2>2, <2>3, <2>4, <2>5, <2>6 DEF TypeOK
  <1>2. OneInv'
    BY <1>t DEF ContainmentChanges, incidents, evidence, device, core, Typed, OneInv, Opened
  <1>3. IdsInv'
    BY <1>t DEF ContainmentChanges, incidents, evidence, device, core, Typed, IdsInv
  <1>4. OperInv'
    BY <1>t DEF ContainmentChanges, incidents, evidence, device, core, Typed, OperInv, Spent, Logged
  <1>5. GateInv'
    BY <1>t DEF ContainmentChanges, incidents, evidence, device, core, Typed, GateInv, Spent, Logged
  <1>6. RowsInv'
    BY <1>t DEF ContainmentChanges, incidents, evidence, device, core, Typed, RowsInv
  <1>7. RestoreInv'
    BY <1>t DEF ContainmentChanges, incidents, evidence, device, core, Typed, RestoreInv, Spent, Logged
  <1>8. ClosedIsRestored'
    BY <1>t DEF ContainmentChanges, incidents, evidence, device, core, Typed, ClosedIsRestored, Spent, Logged
  <1>9. DisposedInv'
    BY <1>t DEF ContainmentChanges, incidents, evidence, device, core, Typed, DisposedInv, Spent, Logged
  <1>. QED BY <1>1, <1>2, <1>3, <1>4, <1>5, <1>6, <1>7, <1>8, <1>9 DEF IInv

(* The device obeys. *)
LEMMA ObeyRestoreKeeps ==
  ASSUME IInv, NEW i \in Ids, ObeyRestore(i)
  PROVE  IInv'
  <1>. USE RecoveryAssumption DEF IInv
  <1>t. Typed
    BY TypeFacts
  <1>1. TypeOK'
    <2>1. operation' \in Requests(OperationSteps) /\ gate' \in Requests(GateSteps)
      BY <1>t DEF ObeyRestore, incidents, evidence, device, core, Typed, TypeOK, Requests, OperationSteps, GateSteps, IsolationResults, Nothing
    <2>2. acked' \subseteq Ids /\ correlated' \subseteq Ids /\ wire' \subseteq Ids /\ obeyed' \subseteq Ids /\ contained' \subseteq Addresses
      BY <1>t DEF ObeyRestore, incidents, evidence, device, core, Typed, OperInv, GateInv
    <2>3. log' \in [Ids -> Seq([event : Events, ip : Addresses \cup {NoAddress}])]
      BY <1>t DEF ObeyRestore, incidents, evidence, device, core, TypeOK, Rows
    <2>4. /\ state' \in [Ids -> {"NONE", "OPEN", "CLOSED"}] /\ attacker' \in [Ids -> Addresses \cup {NoAddress}]
          /\ uplink' \in {"UNKNOWN", "LOCKDOWN", "NORMAL"}
      BY <1>t DEF ObeyRestore, incidents, evidence, device, core, TypeOK
    <2>5. physical' \in [restore : Ids \cup {0}, observed : {"NONE", "NORMAL"}]
      BY <1>t DEF ObeyRestore, incidents, evidence, device, core, TypeOK, Typed, GateInv
    <2>6. {acked', correlated', wire', obeyed'} \subseteq SUBSET Ids
      BY <2>2
    <2>. QED BY <2>1, <2>2, <2>3, <2>4, <2>5, <2>6 DEF TypeOK
  <1>2. OneInv'
    BY <1>t DEF ObeyRestore, incidents, evidence, device, core, Typed, OneInv, Opened
  <1>3. IdsInv'
    BY <1>t DEF ObeyRestore, incidents, evidence, device, core, Typed, IdsInv
  <1>4. OperInv'
    BY <1>t DEF ObeyRestore, incidents, evidence, device, core, Typed, OperInv, Spent, Logged
  <1>5. GateInv'
    BY <1>t DEF ObeyRestore, incidents, evidence, device, core, Typed, GateInv, Spent, Logged
  <1>6. RowsInv'
    BY <1>t DEF ObeyRestore, incidents, evidence, device, core, Typed, RowsInv
  <1>7. RestoreInv'
    BY <1>t DEF ObeyRestore, incidents, evidence, device, core, Typed, RestoreInv, Spent, Logged
  <1>8. ClosedIsRestored'
    BY <1>t DEF ObeyRestore, incidents, evidence, device, core, Typed, ClosedIsRestored, Spent, Logged
  <1>9. DisposedInv'
    BY <1>t DEF ObeyRestore, incidents, evidence, device, core, Typed, DisposedInv, Spent, Logged
  <1>. QED BY <1>1, <1>2, <1>3, <1>4, <1>5, <1>6, <1>7, <1>8, <1>9 DEF IInv

(* Its answer is heard. *)
LEMMA HearAckKeeps ==
  ASSUME IInv, NEW i \in Ids, HearAck(i)
  PROVE  IInv'
  <1>. USE RecoveryAssumption DEF IInv
  <1>t. Typed
    BY TypeFacts
  <1>1. TypeOK'
    <2>1. operation' \in Requests(OperationSteps) /\ gate' \in Requests(GateSteps)
      BY <1>t DEF HearAck, incidents, evidence, device, core, Typed, TypeOK, Requests, OperationSteps, GateSteps, IsolationResults, Nothing
    <2>2. acked' \subseteq Ids /\ correlated' \subseteq Ids /\ wire' \subseteq Ids /\ obeyed' \subseteq Ids /\ contained' \subseteq Addresses
      BY <1>t DEF HearAck, incidents, evidence, device, core, Typed, OperInv, GateInv
    <2>3. log' \in [Ids -> Seq([event : Events, ip : Addresses \cup {NoAddress}])]
      BY <1>t DEF HearAck, incidents, evidence, device, core, TypeOK, Rows
    <2>4. /\ state' \in [Ids -> {"NONE", "OPEN", "CLOSED"}] /\ attacker' \in [Ids -> Addresses \cup {NoAddress}]
          /\ uplink' \in {"UNKNOWN", "LOCKDOWN", "NORMAL"}
      BY <1>t DEF HearAck, incidents, evidence, device, core, TypeOK
    <2>5. physical' \in [restore : Ids \cup {0}, observed : {"NONE", "NORMAL"}]
      BY <1>t DEF HearAck, incidents, evidence, device, core, TypeOK, Typed, GateInv
    <2>6. {acked', correlated', wire', obeyed'} \subseteq SUBSET Ids
      BY <2>2
    <2>. QED BY <2>1, <2>2, <2>3, <2>4, <2>5, <2>6 DEF TypeOK
  <1>2. OneInv'
    BY <1>t DEF HearAck, incidents, evidence, device, core, Typed, OneInv, Opened
  <1>3. IdsInv'
    BY <1>t DEF HearAck, incidents, evidence, device, core, Typed, IdsInv
  <1>4. OperInv'
    BY <1>t DEF HearAck, incidents, evidence, device, core, Typed, OperInv, Spent, Logged
  <1>5. GateInv'
    BY <1>t DEF HearAck, incidents, evidence, device, core, Typed, GateInv, Spent, Logged
  <1>6. RowsInv'
    BY <1>t DEF HearAck, incidents, evidence, device, core, Typed, RowsInv
  <1>7. RestoreInv'
    BY <1>t DEF HearAck, incidents, evidence, device, core, Typed, RestoreInv, Spent, Logged
  <1>8. ClosedIsRestored'
    BY <1>t DEF HearAck, incidents, evidence, device, core, Typed, ClosedIsRestored, Spent, Logged
  <1>9. DisposedInv'
    BY <1>t DEF HearAck, incidents, evidence, device, core, Typed, DisposedInv, Spent, Logged
  <1>. QED BY <1>1, <1>2, <1>3, <1>4, <1>5, <1>6, <1>7, <1>8, <1>9 DEF IInv

(* And its status. *)
LEMMA HearCommandStatusKeeps ==
  ASSUME IInv, NEW i \in Ids, HearCommandStatus(i)
  PROVE  IInv'
  <1>. USE RecoveryAssumption DEF IInv
  <1>t. Typed
    BY TypeFacts
  <1>1. TypeOK'
    <2>1. operation' \in Requests(OperationSteps) /\ gate' \in Requests(GateSteps)
      BY <1>t DEF HearCommandStatus, incidents, evidence, device, core, Typed, TypeOK, Requests, OperationSteps, GateSteps, IsolationResults, Nothing
    <2>2. acked' \subseteq Ids /\ correlated' \subseteq Ids /\ wire' \subseteq Ids /\ obeyed' \subseteq Ids /\ contained' \subseteq Addresses
      BY <1>t DEF HearCommandStatus, incidents, evidence, device, core, Typed, OperInv, GateInv
    <2>3. log' \in [Ids -> Seq([event : Events, ip : Addresses \cup {NoAddress}])]
      BY <1>t DEF HearCommandStatus, incidents, evidence, device, core, TypeOK, Rows
    <2>4. /\ state' \in [Ids -> {"NONE", "OPEN", "CLOSED"}] /\ attacker' \in [Ids -> Addresses \cup {NoAddress}]
          /\ uplink' \in {"UNKNOWN", "LOCKDOWN", "NORMAL"}
      BY <1>t DEF HearCommandStatus, incidents, evidence, device, core, TypeOK
    <2>5. physical' \in [restore : Ids \cup {0}, observed : {"NONE", "NORMAL"}]
      BY <1>t DEF HearCommandStatus, incidents, evidence, device, core, TypeOK, Typed, GateInv
    <2>6. {acked', correlated', wire', obeyed'} \subseteq SUBSET Ids
      BY <2>2
    <2>. QED BY <2>1, <2>2, <2>3, <2>4, <2>5, <2>6 DEF TypeOK
  <1>2. OneInv'
    BY <1>t DEF HearCommandStatus, incidents, evidence, device, core, Typed, OneInv, Opened
  <1>3. IdsInv'
    BY <1>t DEF HearCommandStatus, incidents, evidence, device, core, Typed, IdsInv
  <1>4. OperInv'
    BY <1>t DEF HearCommandStatus, incidents, evidence, device, core, Typed, OperInv, Spent, Logged
  <1>5. GateInv'
    BY <1>t DEF HearCommandStatus, incidents, evidence, device, core, Typed, GateInv, Spent, Logged
  <1>6. RowsInv'
    BY <1>t DEF HearCommandStatus, incidents, evidence, device, core, Typed, RowsInv
  <1>7. RestoreInv'
    BY <1>t DEF HearCommandStatus, incidents, evidence, device, core, Typed, RestoreInv, Spent, Logged
  <1>8. ClosedIsRestored'
    BY <1>t DEF HearCommandStatus, incidents, evidence, device, core, Typed, ClosedIsRestored, Spent, Logged
  <1>9. DisposedInv'
    BY <1>t DEF HearCommandStatus, incidents, evidence, device, core, Typed, DisposedInv, Spent, Logged
  <1>. QED BY <1>1, <1>2, <1>3, <1>4, <1>5, <1>6, <1>7, <1>8, <1>9 DEF IInv

(* Another command takes over the Core's record. *)
LEMMA OtherCommandKeeps ==
  ASSUME IInv, OtherCommand
  PROVE  IInv'
  <1>. USE RecoveryAssumption DEF IInv
  <1>t. Typed
    BY TypeFacts
  <1>1. TypeOK'
    <2>1. operation' \in Requests(OperationSteps) /\ gate' \in Requests(GateSteps)
      BY <1>t DEF OtherCommand, incidents, evidence, device, core, Nothing, Typed, TypeOK, Requests, OperationSteps, GateSteps, IsolationResults, Nothing
    <2>2. acked' \subseteq Ids /\ correlated' \subseteq Ids /\ wire' \subseteq Ids /\ obeyed' \subseteq Ids /\ contained' \subseteq Addresses
      BY <1>t DEF OtherCommand, incidents, evidence, device, core, Nothing, Typed, OperInv, GateInv
    <2>3. log' \in [Ids -> Seq([event : Events, ip : Addresses \cup {NoAddress}])]
      BY <1>t DEF OtherCommand, incidents, evidence, device, core, Nothing, TypeOK, Rows
    <2>4. /\ state' \in [Ids -> {"NONE", "OPEN", "CLOSED"}] /\ attacker' \in [Ids -> Addresses \cup {NoAddress}]
          /\ uplink' \in {"UNKNOWN", "LOCKDOWN", "NORMAL"}
      BY <1>t DEF OtherCommand, incidents, evidence, device, core, Nothing, TypeOK
    <2>5. physical' \in [restore : Ids \cup {0}, observed : {"NONE", "NORMAL"}]
      BY <1>t DEF OtherCommand, incidents, evidence, device, core, Nothing, TypeOK, Typed, GateInv
    <2>6. {acked', correlated', wire', obeyed'} \subseteq SUBSET Ids
      BY <2>2
    <2>. QED BY <2>1, <2>2, <2>3, <2>4, <2>5, <2>6 DEF TypeOK
  <1>2. OneInv'
    BY <1>t DEF OtherCommand, incidents, evidence, device, core, Nothing, Typed, OneInv, Opened
  <1>3. IdsInv'
    BY <1>t DEF OtherCommand, incidents, evidence, device, core, Nothing, Typed, IdsInv
  <1>4. OperInv'
    BY <1>t DEF OtherCommand, incidents, evidence, device, core, Nothing, Typed, OperInv, Spent, Logged
  <1>5. GateInv'
    BY <1>t DEF OtherCommand, incidents, evidence, device, core, Nothing, Typed, GateInv, Spent, Logged
  <1>6. RowsInv'
    BY <1>t DEF OtherCommand, incidents, evidence, device, core, Nothing, Typed, RowsInv
  <1>7. RestoreInv'
    BY <1>t DEF OtherCommand, incidents, evidence, device, core, Nothing, Typed, RestoreInv, Spent, Logged
  <1>8. ClosedIsRestored'
    BY <1>t DEF OtherCommand, incidents, evidence, device, core, Nothing, Typed, ClosedIsRestored, Spent, Logged
  <1>9. DisposedInv'
    BY <1>t DEF OtherCommand, incidents, evidence, device, core, Nothing, Typed, DisposedInv, Spent, Logged
  <1>. QED BY <1>1, <1>2, <1>3, <1>4, <1>5, <1>6, <1>7, <1>8, <1>9 DEF IInv

(* A periodic status is heard. *)
LEMMA HearStatusKeeps ==
  ASSUME IInv, HearStatus
  PROVE  IInv'
  <1>. USE RecoveryAssumption DEF IInv
  <1>t. Typed
    BY TypeFacts
  <1>1. TypeOK'
    <2>1. operation' \in Requests(OperationSteps) /\ gate' \in Requests(GateSteps)
      BY <1>t DEF HearStatus, incidents, evidence, device, core, Nothing, Typed, TypeOK, Requests, OperationSteps, GateSteps, IsolationResults, Nothing
    <2>2. acked' \subseteq Ids /\ correlated' \subseteq Ids /\ wire' \subseteq Ids /\ obeyed' \subseteq Ids /\ contained' \subseteq Addresses
      BY <1>t DEF HearStatus, incidents, evidence, device, core, Nothing, Typed, OperInv, GateInv
    <2>3. log' \in [Ids -> Seq([event : Events, ip : Addresses \cup {NoAddress}])]
      BY <1>t DEF HearStatus, incidents, evidence, device, core, Nothing, TypeOK, Rows
    <2>4. /\ state' \in [Ids -> {"NONE", "OPEN", "CLOSED"}] /\ attacker' \in [Ids -> Addresses \cup {NoAddress}]
          /\ uplink' \in {"UNKNOWN", "LOCKDOWN", "NORMAL"}
      BY <1>t DEF HearStatus, incidents, evidence, device, core, Nothing, TypeOK
    <2>5. physical' \in [restore : Ids \cup {0}, observed : {"NONE", "NORMAL"}]
      BY <1>t DEF HearStatus, incidents, evidence, device, core, Nothing, TypeOK, Typed, GateInv
    <2>6. {acked', correlated', wire', obeyed'} \subseteq SUBSET Ids
      BY <2>2
    <2>. QED BY <2>1, <2>2, <2>3, <2>4, <2>5, <2>6 DEF TypeOK
  <1>2. OneInv'
    BY <1>t DEF HearStatus, incidents, evidence, device, core, Nothing, Typed, OneInv, Opened
  <1>3. IdsInv'
    BY <1>t DEF HearStatus, incidents, evidence, device, core, Nothing, Typed, IdsInv
  <1>4. OperInv'
    BY <1>t DEF HearStatus, incidents, evidence, device, core, Nothing, Typed, OperInv, Spent, Logged
  <1>5. GateInv'
    BY <1>t DEF HearStatus, incidents, evidence, device, core, Nothing, Typed, GateInv, Spent, Logged
  <1>6. RowsInv'
    BY <1>t DEF HearStatus, incidents, evidence, device, core, Nothing, Typed, RowsInv
  <1>7. RestoreInv'
    BY <1>t DEF HearStatus, incidents, evidence, device, core, Nothing, Typed, RestoreInv, Spent, Logged
  <1>8. ClosedIsRestored'
    BY <1>t DEF HearStatus, incidents, evidence, device, core, Nothing, Typed, ClosedIsRestored, Spent, Logged
  <1>9. DisposedInv'
    BY <1>t DEF HearStatus, incidents, evidence, device, core, Nothing, Typed, DisposedInv, Spent, Logged
  <1>. QED BY <1>1, <1>2, <1>3, <1>4, <1>5, <1>6, <1>7, <1>8, <1>9 DEF IInv

(* The Core restarts. *)
LEMMA RestartKeeps ==
  ASSUME IInv, Restart
  PROVE  IInv'
  <1>. USE RecoveryAssumption DEF IInv
  <1>t. Typed
    BY TypeFacts
  <1>1. TypeOK'
    <2>1. operation' \in Requests(OperationSteps) /\ gate' \in Requests(GateSteps)
      BY <1>t DEF Restart, incidents, evidence, device, core, Nothing, Typed, TypeOK, Requests, OperationSteps, GateSteps, IsolationResults, Nothing
    <2>2. acked' \subseteq Ids /\ correlated' \subseteq Ids /\ wire' \subseteq Ids /\ obeyed' \subseteq Ids /\ contained' \subseteq Addresses
      BY <1>t DEF Restart, incidents, evidence, device, core, Nothing, Typed, OperInv, GateInv
    <2>3. log' \in [Ids -> Seq([event : Events, ip : Addresses \cup {NoAddress}])]
      BY <1>t DEF Restart, incidents, evidence, device, core, Nothing, TypeOK, Rows
    <2>4. /\ state' \in [Ids -> {"NONE", "OPEN", "CLOSED"}] /\ attacker' \in [Ids -> Addresses \cup {NoAddress}]
          /\ uplink' \in {"UNKNOWN", "LOCKDOWN", "NORMAL"}
      BY <1>t DEF Restart, incidents, evidence, device, core, Nothing, TypeOK
    <2>5. physical' \in [restore : Ids \cup {0}, observed : {"NONE", "NORMAL"}]
      BY <1>t DEF Restart, incidents, evidence, device, core, Nothing, TypeOK, Typed, GateInv
    <2>6. {acked', correlated', wire', obeyed'} \subseteq SUBSET Ids
      BY <2>2
    <2>. QED BY <2>1, <2>2, <2>3, <2>4, <2>5, <2>6 DEF TypeOK
  <1>2. OneInv'
    BY <1>t DEF Restart, incidents, evidence, device, core, Nothing, Typed, OneInv, Opened
  <1>3. IdsInv'
    BY <1>t DEF Restart, incidents, evidence, device, core, Nothing, Typed, IdsInv
  <1>4. OperInv'
    BY <1>t DEF Restart, incidents, evidence, device, core, Nothing, Typed, OperInv, Spent, Logged
  <1>5. GateInv'
    BY <1>t DEF Restart, incidents, evidence, device, core, Nothing, Typed, GateInv, Spent, Logged
  <1>6. RowsInv'
    BY <1>t DEF Restart, incidents, evidence, device, core, Nothing, Typed, RowsInv
  <1>7. RestoreInv'
    BY <1>t DEF Restart, incidents, evidence, device, core, Nothing, Typed, RestoreInv, Spent, Logged
  <1>8. ClosedIsRestored'
    BY <1>t DEF Restart, incidents, evidence, device, core, Nothing, Typed, ClosedIsRestored, Spent, Logged
  <1>9. DisposedInv'
    BY <1>t DEF Restart, incidents, evidence, device, core, Nothing, Typed, DisposedInv, Spent, Logged
  <1>. QED BY <1>1, <1>2, <1>3, <1>4, <1>5, <1>6, <1>7, <1>8, <1>9 DEF IInv

(* A step that changes nothing. *)
LEMMA StutterKeeps ==
  ASSUME IInv, UNCHANGED vars
  PROVE  IInv'
  <1>. USE RecoveryAssumption DEF IInv
  <1>t. Typed
    BY TypeFacts
  <1>1. TypeOK'
    <2>1. operation' \in Requests(OperationSteps) /\ gate' \in Requests(GateSteps)
      BY <1>t DEF vars, incidents, evidence, device, core, Typed, TypeOK, Requests, OperationSteps, GateSteps, IsolationResults, Nothing
    <2>2. acked' \subseteq Ids /\ correlated' \subseteq Ids /\ wire' \subseteq Ids /\ obeyed' \subseteq Ids /\ contained' \subseteq Addresses
      BY <1>t DEF vars, incidents, evidence, device, core, Typed, OperInv, GateInv
    <2>3. log' \in [Ids -> Seq([event : Events, ip : Addresses \cup {NoAddress}])]
      BY <1>t DEF vars, incidents, evidence, device, core, TypeOK, Rows
    <2>4. /\ state' \in [Ids -> {"NONE", "OPEN", "CLOSED"}] /\ attacker' \in [Ids -> Addresses \cup {NoAddress}]
          /\ uplink' \in {"UNKNOWN", "LOCKDOWN", "NORMAL"}
      BY <1>t DEF vars, incidents, evidence, device, core, TypeOK
    <2>5. physical' \in [restore : Ids \cup {0}, observed : {"NONE", "NORMAL"}]
      BY <1>t DEF vars, incidents, evidence, device, core, TypeOK, Typed, GateInv
    <2>6. {acked', correlated', wire', obeyed'} \subseteq SUBSET Ids
      BY <2>2
    <2>. QED BY <2>1, <2>2, <2>3, <2>4, <2>5, <2>6 DEF TypeOK
  <1>2. OneInv'
    BY <1>t DEF vars, incidents, evidence, device, core, Typed, OneInv, Opened
  <1>3. IdsInv'
    BY <1>t DEF vars, incidents, evidence, device, core, Typed, IdsInv
  <1>4. OperInv'
    BY <1>t DEF vars, incidents, evidence, device, core, Typed, OperInv, Spent, Logged
  <1>5. GateInv'
    BY <1>t DEF vars, incidents, evidence, device, core, Typed, GateInv, Spent, Logged
  <1>6. RowsInv'
    BY <1>t DEF vars, incidents, evidence, device, core, Typed, RowsInv
  <1>7. RestoreInv'
    BY <1>t DEF vars, incidents, evidence, device, core, Typed, RestoreInv, Spent, Logged
  <1>8. ClosedIsRestored'
    BY <1>t DEF vars, incidents, evidence, device, core, Typed, ClosedIsRestored, Spent, Logged
  <1>9. DisposedInv'
    BY <1>t DEF vars, incidents, evidence, device, core, Typed, DisposedInv, Spent, Logged
  <1>. QED BY <1>1, <1>2, <1>3, <1>4, <1>5, <1>6, <1>7, <1>8, <1>9 DEF IInv

(* An alert binds an incident: no other is open, none was disposed of, and nothing
   was done for it yet. *)
LEMMA BindKeeps ==
  ASSUME IInv, NEW ip \in Addresses, NEW i \in Ids, NEW event \in {"BOUND_CREATED", "BOUND_IP_SET"},
         attacker[i] = NoAddress, state[i] \in {"NONE", "OPEN"}, Opened' = {i}, IdsInv',
         state' = [state EXCEPT ![i] = "OPEN"], attacker' = [attacker EXCEPT ![i] = ip],
         LogRow(i, Row(event, ip)) \/ UNCHANGED log,
         UNCHANGED <<contained, operation, gate, core, evidence, device>>
  PROVE  IInv'
  <1>. USE RecoveryAssumption DEF IInv
  <1>t. Typed
    BY TypeFacts
  <1>i. i \in Ids /\ event \in Events /\ Row(event, ip) \in Rows /\ event \in {"BOUND_CREATED", "BOUND_IP_SET"}
    BY <1>t, RowFacts DEF core, evidence, device, Typed, OperInv, GateInv, Events, IsolationResults, Opened
  <1>l. log \in [Ids -> Seq(Rows)]
    BY DEF TypeOK, Rows
  <1>g. LogRow(i, Row(event, ip)) \/ UNCHANGED log
    BY DEF core, evidence, device
  <1>m. log' \in [Ids -> Seq(Rows)] /\ \A j \in Ids : log'[j] = log[j] \/ (j = i /\ log'[j] = Append(log[j], Row(event, ip)))
    <2>1. CASE UNCHANGED log
      BY <2>1, <1>l
    <2>2. CASE LogRow(i, Row(event, ip))
      BY <2>2, <1>i, <1>l, LogGrows DEF LogRow
    <2>. QED BY <2>1, <2>2, <1>g
  <1>o. /\ \A j \in Ids : \A E : Mentions(log[j], E) => Mentions(log'[j], E)
        /\ \A j \in Ids : \A r : Has(log[j], r) => Has(log'[j], r)
        /\ \A j \in Ids : \A r, e : Precedes(log[j], r, e) => Precedes(log'[j], r, e)
    BY <1>i, <1>l, <1>m, LogFacts
  <1>p. /\ \A j \in Ids : \A E : Mentions(log'[j], E) => (Mentions(log[j], E) \/ (j = i /\ Row(event, ip).event \in E))
        /\ \A j \in Ids : \A r : Has(log'[j], r) => (Has(log[j], r) \/ (j = i /\ Row(event, ip) = r))
    <2>. DEFINE row == Row(event, ip)
    <2>1. row \in Rows /\ \A j \in Ids : log'[j] = log[j] \/ (j = i /\ log'[j] = Append(log[j], row))
      BY <1>i, <1>m
    <2>. HIDE DEF row
    <2>2. /\ \A j \in Ids : \A E : Mentions(log'[j], E) => (Mentions(log[j], E) \/ (j = i /\ row.event \in E))
          /\ \A j \in Ids : \A r : Has(log'[j], r) => (Has(log[j], r) \/ (j = i /\ row = r))
      BY <2>1, <1>i, <1>l, LogFacts
    <2>. QED BY <2>2 DEF row
  <1>w. /\ \A j \in Ids : Mentions(log[j], {"RESTORE_REQUESTED"}) => Mentions(log'[j], {"RESTORE_REQUESTED"})
        /\ \A j \in Ids : Mentions(log'[j], {"RESTORE_REQUESTED"}) => Mentions(log[j], {"RESTORE_REQUESTED"})
        /\ \A j \in Ids : Mentions(log[j], {"DISPOSED"}) => Mentions(log'[j], {"DISPOSED"})
        /\ \A j \in Ids : Mentions(log'[j], {"DISPOSED"}) => Mentions(log[j], {"DISPOSED"})
        /\ \A j \in Ids, a \in Addresses \cup {NoAddress} : Has(log'[j], Row("RESTORE_PUBLISHED", a)) => Has(log[j], Row("RESTORE_PUBLISHED", a))
        /\ \A j \in Ids : \A r : Has(log[j], r) => Has(log'[j], r)
        /\ \A j \in Ids : \A r, e : Precedes(log[j], r, e) => Precedes(log'[j], r, e)
    <2>1. \A j \in Ids : Mentions(log[j], {"RESTORE_REQUESTED"}) => Mentions(log'[j], {"RESTORE_REQUESTED"})
      BY <1>o DEF IsolationResults
    <2>2. \A j \in Ids : Mentions(log'[j], {"RESTORE_REQUESTED"}) => Mentions(log[j], {"RESTORE_REQUESTED"})
      BY <1>i, <1>p, RowFacts DEF IsolationResults
    <2>3. \A j \in Ids : Mentions(log[j], {"DISPOSED"}) => Mentions(log'[j], {"DISPOSED"})
      BY <1>o DEF IsolationResults
    <2>4. \A j \in Ids : Mentions(log'[j], {"DISPOSED"}) => Mentions(log[j], {"DISPOSED"})
      BY <1>i, <1>p, RowFacts DEF IsolationResults
    <2>5. \A j \in Ids, a \in Addresses \cup {NoAddress} : Has(log'[j], Row("RESTORE_PUBLISHED", a)) => Has(log[j], Row("RESTORE_PUBLISHED", a))
      BY <1>i, <1>p, RowFacts DEF IsolationResults
    <2>6. \A j \in Ids : \A r : Has(log[j], r) => Has(log'[j], r)
      BY <1>o DEF IsolationResults
    <2>7. \A j \in Ids : \A r, e : Precedes(log[j], r, e) => Precedes(log'[j], r, e)
      BY <1>o DEF IsolationResults
    <2>. QED BY <2>1, <2>2, <2>3, <2>4, <2>5, <2>6, <2>7
  <1>s. \A j \in Ids \ {i} : state'[j] = state[j] /\ attacker'[j] = attacker[j]
    BY DEF TypeOK
  <1>q. /\ state'[i] = "OPEN" /\ attacker'[i] = ip /\ ip # NoAddress
        /\ ~Spent(i) /\ ~Logged(i, {"DISPOSED"})
        /\ \A a \in Addresses \cup {NoAddress} : ~Has(log[i], Row("RESTORE_PUBLISHED", a))
        /\ operation.step # "IDLE" => operation.id # i
        /\ (gate.step # "IDLE" /\ gate.ip # NoAddress) => gate.id # i
    BY <1>t DEF TypeOK, RestoreInv, DisposedInv, RowsInv, OperInv, GateInv
  <1>1. TypeOK'
    <2>1. operation' \in Requests(OperationSteps) /\ gate' \in Requests(GateSteps)
      BY <1>t, <1>i, <1>w, <1>m, <1>s, <1>q DEF core, evidence, device, Typed, TypeOK, Requests, OperationSteps, GateSteps, IsolationResults, Nothing
    <2>2. acked' \subseteq Ids /\ correlated' \subseteq Ids /\ wire' \subseteq Ids /\ obeyed' \subseteq Ids /\ contained' \subseteq Addresses
      BY <1>t, <1>i, <1>w, <1>m, <1>s, <1>q DEF core, evidence, device, Typed, OperInv, GateInv
    <2>3. log' \in [Ids -> Seq([event : Events, ip : Addresses \cup {NoAddress}])]
      BY <1>t, <1>i, <1>w, <1>m, <1>s, <1>q DEF core, evidence, device, TypeOK, Rows
    <2>4. /\ state' \in [Ids -> {"NONE", "OPEN", "CLOSED"}] /\ attacker' \in [Ids -> Addresses \cup {NoAddress}]
          /\ uplink' \in {"UNKNOWN", "LOCKDOWN", "NORMAL"}
      BY <1>t, <1>i, <1>w, <1>m, <1>s, <1>q DEF core, evidence, device, TypeOK
    <2>5. physical' \in [restore : Ids \cup {0}, observed : {"NONE", "NORMAL"}]
      BY <1>t, <1>i, <1>w, <1>m, <1>s, <1>q DEF core, evidence, device, TypeOK, Typed, GateInv
    <2>6. {acked', correlated', wire', obeyed'} \subseteq SUBSET Ids
      BY <2>2
    <2>. QED BY <2>1, <2>2, <2>3, <2>4, <2>5, <2>6 DEF TypeOK
  <1>2. OneInv'
    BY DEF OneInv
  <1>3. IdsInv'
    OBVIOUS
  <1>4. OperInv'
    BY <1>t, <1>i, <1>w, <1>m, <1>s, <1>q DEF core, evidence, device, Typed, OperInv, Spent, Logged
  <1>5. GateInv'
    BY <1>t, <1>i, <1>w, <1>m, <1>s, <1>q DEF core, evidence, device, Typed, GateInv, Spent, Logged
  <1>6. RowsInv'
    BY <1>t, <1>i, <1>w, <1>m, <1>s, <1>q DEF core, evidence, device, Typed, RowsInv
  <1>7. RestoreInv'
    BY <1>t, <1>i, <1>w, <1>m, <1>s, <1>q DEF core, evidence, device, Typed, RestoreInv, Spent, Logged, OperInv
  <1>8. ClosedIsRestored'
    BY <1>t, <1>i, <1>w, <1>m, <1>s, <1>q DEF core, evidence, device, Typed, ClosedIsRestored, Spent, Logged
  <1>9. DisposedInv'
    BY <1>t, <1>i, <1>w, <1>m, <1>s, <1>q DEF core, evidence, device, Typed, DisposedInv, Spent, Logged
  <1>. QED BY <1>1, <1>2, <1>3, <1>4, <1>5, <1>6, <1>7, <1>8, <1>9 DEF IInv

(* BindIncident opens the next incident, or gives the open one its address. *)
LEMMA BindIncidentKeeps ==
  ASSUME IInv, NEW ip \in Addresses, BindIncident(ip)
  PROVE  IInv'
  <1>. USE RecoveryAssumption
  <1>. DEFINE new == Cardinality({j \in Ids : state[j] # "NONE"}) + 1
              i == IF Opened = {} THEN new ELSE Current
              event == IF Opened = {} THEN "BOUND_CREATED" ELSE "BOUND_IP_SET"
  <1>1. /\ i \in Ids /\ attacker[i] = NoAddress
        /\ state' = [state EXCEPT ![i] = "OPEN"] /\ attacker' = [attacker EXCEPT ![i] = ip]
        /\ LogRow(i, Row(event, ip)) \/ UNCHANGED log
        /\ UNCHANGED <<contained, operation, gate, core, evidence, device>>
    BY DEF BindIncident
  <1>2. event \in {"BOUND_CREATED", "BOUND_IP_SET"}
    OBVIOUS
  <1>3. PICK n \in 0..LastIncident : \A j \in Ids : state[j] # "NONE" <=> j =< n
    BY DEF IInv, IdsInv
  <1>4. new = n + 1
    <2>1. {j \in Ids : state[j] # "NONE"} = 1..n
      BY <1>3 DEF Ids
    <2>2. Cardinality(1..n) = n
      BY FS_Interval
    <2>. QED BY <2>1, <2>2
  <1>. HIDE DEF new
  <1>5. CASE Opened = {}
    <2>1. i = n + 1 /\ state[i] = "NONE"
      BY <1>5, <1>4, <1>1, <1>3 DEF Ids
    <2>2. Opened' = {i}
      BY <1>5, <1>1 DEF IInv, TypeOK, Opened
    <2>3. n + 1 \in 0..LastIncident /\ \A j \in Ids : state'[j] # "NONE" <=> j =< n + 1
      BY <2>1, <1>1, <1>3 DEF Ids, IInv, TypeOK
    <2>4. \A j \in Ids : attacker'[j] # NoAddress => state'[j] # "NONE"
      BY <1>1 DEF IInv, IdsInv, TypeOK
    <2>5. IdsInv'
      BY <2>3, <2>4 DEF IdsInv
    <2>. HIDE DEF i, event
    <2>. QED BY <2>1, <2>2, <2>5, <1>1, <1>2, BindKeeps
  <1>6. CASE Opened # {}
    <2>1. i = Current /\ state[i] = "OPEN" /\ Opened = {i}
      BY <1>6, TheCurrent DEF IInv
    <2>2. Opened' = {i}
      BY <2>1, <1>1 DEF IInv, TypeOK, Opened
    <2>3. \A j \in Ids : state'[j] # "NONE" <=> j =< n
      BY <2>1, <1>1, <1>3 DEF IInv, TypeOK
    <2>4. \A j \in Ids : attacker'[j] # NoAddress => state'[j] # "NONE"
      BY <1>1 DEF IInv, IdsInv, TypeOK
    <2>5. IdsInv'
      BY <2>3, <2>4 DEF IdsInv
    <2>. HIDE DEF i, event
    <2>. QED BY <2>1, <2>2, <2>5, <1>1, <1>2, BindKeeps
  <1>. QED BY <1>5, <1>6

(* A disposal closes an incident without any recovery evidence, which no RESTORE
   past its checks can be for. *)
LEMMA DisposeHistoricalKeeps ==
  ASSUME IInv, NEW i \in Ids, DisposeHistorical(i)
  PROVE  IInv'
  <1>. USE RecoveryAssumption DEF IInv
  <1>t. Typed
    BY TypeFacts
  <1>i. i \in Ids /\ "DISPOSED" \in Events /\ Row("DISPOSED", attacker[i]) \in Rows
    BY <1>t, RowFacts DEF DisposeHistorical, core, evidence, device, Typed, OperInv, GateInv, Events, IsolationResults, Opened
  <1>l. log \in [Ids -> Seq(Rows)]
    BY DEF TypeOK, Rows
  <1>g. LogRow(i, Row("DISPOSED", attacker[i]))
    BY DEF DisposeHistorical, core, evidence, device
  <1>m. log' \in [Ids -> Seq(Rows)] /\ \A j \in Ids : log'[j] = log[j] \/ (j = i /\ log'[j] = Append(log[j], Row("DISPOSED", attacker[i])))
    BY <1>i, <1>l, <1>g, LogGrows DEF LogRow
  <1>n. log'[i] = Append(log[i], Row("DISPOSED", attacker[i]))
    BY <1>i, <1>l, <1>g DEF LogRow
  <1>o. /\ \A j \in Ids : \A E : Mentions(log[j], E) => Mentions(log'[j], E)
        /\ \A j \in Ids : \A r : Has(log[j], r) => Has(log'[j], r)
        /\ \A j \in Ids : \A r, e : Precedes(log[j], r, e) => Precedes(log'[j], r, e)
    BY <1>i, <1>l, <1>m, LogFacts
  <1>p. /\ \A j \in Ids : \A E : Mentions(log'[j], E) => (Mentions(log[j], E) \/ (j = i /\ Row("DISPOSED", attacker[i]).event \in E))
        /\ \A j \in Ids : \A r : Has(log'[j], r) => (Has(log[j], r) \/ (j = i /\ Row("DISPOSED", attacker[i]) = r))
    <2>. DEFINE row == Row("DISPOSED", attacker[i])
    <2>1. row \in Rows /\ \A j \in Ids : log'[j] = log[j] \/ (j = i /\ log'[j] = Append(log[j], row))
      BY <1>i, <1>m
    <2>. HIDE DEF row
    <2>2. /\ \A j \in Ids : \A E : Mentions(log'[j], E) => (Mentions(log[j], E) \/ (j = i /\ row.event \in E))
          /\ \A j \in Ids : \A r : Has(log'[j], r) => (Has(log[j], r) \/ (j = i /\ row = r))
      BY <2>1, <1>i, <1>l, LogFacts
    <2>. QED BY <2>2 DEF row
  <1>w. /\ \A j \in Ids : Mentions(log[j], {"RESTORE_REQUESTED"}) => Mentions(log'[j], {"RESTORE_REQUESTED"})
        /\ \A j \in Ids : Mentions(log'[j], {"RESTORE_REQUESTED"}) => Mentions(log[j], {"RESTORE_REQUESTED"})
        /\ \A j \in Ids : Mentions(log[j], {"DISPOSED"}) => Mentions(log'[j], {"DISPOSED"})
        /\ \A j \in Ids : Mentions(log'[j], {"DISPOSED"}) => (Mentions(log[j], {"DISPOSED"}) \/ j = i)
        /\ \A j \in Ids, a \in Addresses \cup {NoAddress} : Has(log'[j], Row("RESTORE_PUBLISHED", a)) => Has(log[j], Row("RESTORE_PUBLISHED", a))
        /\ \A j \in Ids : \A r : Has(log[j], r) => Has(log'[j], r)
        /\ \A j \in Ids : \A r, e : Precedes(log[j], r, e) => Precedes(log'[j], r, e)
    <2>1. \A j \in Ids : Mentions(log[j], {"RESTORE_REQUESTED"}) => Mentions(log'[j], {"RESTORE_REQUESTED"})
      BY <1>o
    <2>2. \A j \in Ids : Mentions(log'[j], {"RESTORE_REQUESTED"}) => Mentions(log[j], {"RESTORE_REQUESTED"})
      BY <1>i, <1>p, RowFacts
    <2>3. \A j \in Ids : Mentions(log[j], {"DISPOSED"}) => Mentions(log'[j], {"DISPOSED"})
      BY <1>o
    <2>4. \A j \in Ids : Mentions(log'[j], {"DISPOSED"}) => (Mentions(log[j], {"DISPOSED"}) \/ j = i)
      BY <1>i, <1>p, RowFacts
    <2>5. \A j \in Ids, a \in Addresses \cup {NoAddress} : Has(log'[j], Row("RESTORE_PUBLISHED", a)) => Has(log[j], Row("RESTORE_PUBLISHED", a))
      BY <1>i, <1>p, RowFacts
    <2>6. \A j \in Ids : \A r : Has(log[j], r) => Has(log'[j], r)
      BY <1>o
    <2>7. \A j \in Ids : \A r, e : Precedes(log[j], r, e) => Precedes(log'[j], r, e)
      BY <1>o
    <2>. QED BY <2>1, <2>2, <2>3, <2>4, <2>5, <2>6, <2>7
  <1>x. /\ \A E : "DISPOSED" \in E => Mentions(log'[i], E)
        /\ \A r : Has(log[i], r) => Precedes(log'[i], r, "DISPOSED")
    BY <1>i, <1>l, <1>n, LogGrows, RowFacts
  <1>s. state'[i] = "CLOSED" /\ state[i] = "OPEN" /\ attacker' = attacker /\ \A j \in Ids \ {i} : state'[j] = state[j]
    BY DEF DisposeHistorical, TypeOK, Opened
  <1>q. ~Spent(i) /\ \A a : ~Has(log[i], Row("R3_VERIFIED", a))
    BY RowFacts DEF DisposeHistorical, IsolationResults, Spent, Logged, Mentions, Has
  <1>1. TypeOK'
    <2>1. operation' \in Requests(OperationSteps) /\ gate' \in Requests(GateSteps)
      BY <1>t, <1>i, <1>w, <1>m, <1>x, <1>s, <1>q DEF DisposeHistorical, core, evidence, device, Typed, TypeOK, Requests, OperationSteps, GateSteps, IsolationResults, Nothing
    <2>2. acked' \subseteq Ids /\ correlated' \subseteq Ids /\ wire' \subseteq Ids /\ obeyed' \subseteq Ids /\ contained' \subseteq Addresses
      BY <1>t, <1>i, <1>w, <1>m, <1>x, <1>s, <1>q DEF DisposeHistorical, core, evidence, device, Typed, OperInv, GateInv
    <2>3. log' \in [Ids -> Seq([event : Events, ip : Addresses \cup {NoAddress}])]
      BY <1>t, <1>i, <1>w, <1>m, <1>x, <1>s, <1>q DEF DisposeHistorical, core, evidence, device, TypeOK, Rows
    <2>4. /\ state' \in [Ids -> {"NONE", "OPEN", "CLOSED"}] /\ attacker' \in [Ids -> Addresses \cup {NoAddress}]
          /\ uplink' \in {"UNKNOWN", "LOCKDOWN", "NORMAL"}
      BY <1>t, <1>i, <1>w, <1>m, <1>x, <1>s, <1>q DEF DisposeHistorical, core, evidence, device, TypeOK
    <2>5. physical' \in [restore : Ids \cup {0}, observed : {"NONE", "NORMAL"}]
      BY <1>t, <1>i, <1>w, <1>m, <1>x, <1>s, <1>q DEF DisposeHistorical, core, evidence, device, TypeOK, Typed, GateInv
    <2>6. {acked', correlated', wire', obeyed'} \subseteq SUBSET Ids
      BY <2>2
    <2>. QED BY <2>1, <2>2, <2>3, <2>4, <2>5, <2>6 DEF TypeOK
  <1>2. OneInv'
    BY <1>t, <1>i, <1>w, <1>m, <1>x, <1>s, <1>q DEF DisposeHistorical, core, evidence, device, Typed, OneInv, Opened
  <1>3. IdsInv'
    BY <1>t, <1>i, <1>w, <1>m, <1>x, <1>s, <1>q DEF DisposeHistorical, core, evidence, device, Typed, IdsInv
  <1>4. OperInv'
    BY <1>t, <1>i, <1>w, <1>m, <1>x, <1>s, <1>q DEF DisposeHistorical, core, evidence, device, Typed, OperInv, Spent, Logged
  <1>5. GateInv'
    <2>1. (gate.step # "IDLE" /\ gate.step # "SNAPSHOT") => gate.id # i
      BY <1>q DEF GateInv
    <2>. QED BY <2>1, <1>t, <1>w, <1>s DEF DisposeHistorical, GateInv, Spent, Logged
  <1>6. RowsInv'
    BY <1>t, <1>i, <1>w, <1>m, <1>x, <1>s, <1>q DEF DisposeHistorical, core, evidence, device, Typed, RowsInv
  <1>7. RestoreInv'
    BY <1>t, <1>i, <1>w, <1>m, <1>x, <1>s, <1>q DEF DisposeHistorical, core, evidence, device, Typed, RestoreInv, Spent, Logged
  <1>8. ClosedIsRestored'
    BY <1>t, <1>i, <1>w, <1>m, <1>x, <1>s, <1>q DEF DisposeHistorical, core, evidence, device, Typed, ClosedIsRestored, Spent, Logged
  <1>9. DisposedInv'
    BY <1>t, <1>i, <1>w, <1>m, <1>x, <1>s, <1>q DEF DisposeHistorical, core, evidence, device, Typed, DisposedInv, Spent, Logged
  <1>. QED BY <1>1, <1>2, <1>3, <1>4, <1>5, <1>6, <1>7, <1>8, <1>9 DEF IInv

(* Every step keeps the invariant. *)
LEMMA NextKeeps == IInv /\ [Next]_vars => IInv'
  <1>. SUFFICES ASSUME IInv, [Next]_vars PROVE IInv'
    OBVIOUS
  <1>1. CASE Operate
    BY <1>1, IsolateKeeps, RequestIsolationKeeps, BlockKeeps, ReadBackKeeps, RecordIsolationKeeps, CloseKeeps,
       ProbeServicesKeeps, CheckClosureKeeps, AuditClosureKeeps, CloseIncidentKeeps, AbandonKeeps DEF Operate
  <1>2. CASE Restore
    BY <1>2, TakeSnapshotKeeps, CheckIsolationKeeps, CheckContainmentKeeps, EnterGuardKeeps, RequestRestoreKeeps,
       PublishRestoreKeeps, LinkRestoreKeeps, RefuseRestoreKeeps DEF Restore
  <1>3. CASE \E ip \in Addresses : BindIncident(ip) \/ ContainmentChanges(ip)
    BY <1>3, BindIncidentKeeps, ContainmentChangesKeeps
  <1>4. CASE \E i \in Ids : DisposeHistorical(i) \/ ObeyRestore(i) \/ HearAck(i) \/ HearCommandStatus(i)
    BY <1>4, DisposeHistoricalKeeps, ObeyRestoreKeeps, HearAckKeeps, HearCommandStatusKeeps
  <1>5. CASE OtherCommand \/ HearStatus \/ Restart
    BY <1>5, OtherCommandKeeps, HearStatusKeeps, RestartKeeps
  <1>6. CASE UNCHANGED vars
    BY <1>6, StutterKeeps
  <1>. QED BY <1>1, <1>2, <1>3, <1>4, <1>5, <1>6 DEF Next

(* The inductive invariant holds in every reachable state. *)
THEOREM Invariance == Spec => []IInv
  BY InitHolds, NextKeeps, PTL DEF Spec

(* Every variable keeps its type. *)
THEOREM TypeCorrect == Spec => []TypeOK
  <1>1. IInv => TypeOK
    BY DEF IInv
  <1>. QED BY <1>1, Invariance, PTL

(* No second incident is ever open. *)
THEOREM OneOpenCorrect == Spec => []AtMostOneOpen
  <1>1. IInv => AtMostOneOpen
    <2>. SUFFICES ASSUME IInv PROVE Cardinality(Opened) <= 1
      BY DEF AtMostOneOpen
    <2>1. Opened = {} \/ \E i : Opened = {i}
      BY DEF IInv, OneInv
    <2>2. Cardinality(Opened) = 0 \/ Cardinality(Opened) = 1
      BY <2>1, FS_EmptySet, FS_Singleton
    <2>. QED BY <2>2
  <1>. QED BY <1>1, Invariance, PTL

(* No RESTORE before isolation, for any interleaving of the gate, the Recovery
   operations, alerts, disposals and restarts. *)
THEOREM IsolationCorrect == Spec => []RestoreFollowsIsolation
  <1>1. IInv => RestoreFollowsIsolation
    BY DEF IInv, RestoreInv, RestoreFollowsIsolation
  <1>. QED BY <1>1, Invariance, PTL

(* An incident the Core closed has its complete chain on record. *)
THEOREM ClosedCorrect == Spec => []ClosedIsRestored
  <1>1. IInv => ClosedIsRestored
    BY DEF IInv
  <1>. QED BY <1>1, Invariance, PTL

(* An incident disposed of as historical never sees a RESTORE. *)
THEOREM DisposedCorrect == Spec => []DisposedNeverRestored
  <1>1. IInv => DisposedNeverRestored
    BY DEF IInv, RestoreInv, DisposedInv, DisposedNeverRestored
  <1>. QED BY <1>1, Invariance, PTL

(* A bound address is never replaced. *)
THEOREM TargetCorrect == Spec => TargetIsFixed
  <1>1. IInv /\ [Next]_vars => [\A i \in Ids : attacker[i] # NoAddress => attacker'[i] = attacker[i]]_vars
    <2>. SUFFICES ASSUME IInv, Next, NEW i \in Ids, attacker[i] # NoAddress PROVE attacker'[i] = attacker[i]
      OBVIOUS
    <2>1. CASE \E ip \in Addresses : BindIncident(ip)
      BY <2>1 DEF BindIncident, IInv, TypeOK
    <2>2. CASE ~\E ip \in Addresses : BindIncident(ip)
      BY <2>2 DEF Next, Operate, Restore, incidents, ContainmentChanges, DisposeHistorical, ObeyRestore, HearAck,
         HearCommandStatus, OtherCommand, HearStatus, Restart, Isolate, RequestIsolation, Block, ReadBack,
         RecordIsolation, Close, ProbeServices, CheckClosure, AuditClosure, CloseIncident, Abandon, TakeSnapshot,
         CheckIsolation, CheckContainment, EnterGuard, RequestRestore, PublishRestore, LinkRestore, RefuseRestore
    <2>. QED BY <2>1, <2>2
  <1>. QED BY <1>1, Invariance, PTL DEF Spec, TargetIsFixed
=============================================================================
