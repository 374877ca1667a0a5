----------------------------- MODULE Streams_proofs -----------------------------
(***************************************************************************)
(* Theorems about Streams, for any streams, lease, clock difference and    *)
(* number of engine starts.  The inductive invariant follows a lease from  *)
(* the database through the grants under way to the engine's demands.      *)
(***************************************************************************)
EXTENDS Streams, TLAPS

Granting(m) == m.kind \in {"attach", "refresh"}

(* The clocks stay close, and no lease reaches further than one from now. *)
ClockInv ==
    /\ hubNow =< now + Skew /\ now =< hubNow + Skew
    /\ \A s \in Streams : end[s] =< now + Lease

(* What a grant or a demand of the engine allows ends before the lease it was
   cut from, by the difference of the clocks. *)
GrantLease == \A m \in net : Granting(m) => m.expiry + Skew =< end[m.stream]
HeldLease ==
    \A s \in Streams : held[s].expiry > 0 =>
        hubNow < held[s].expiry /\ (held[s].revoked \/ held[s].expiry + Skew =< end[s])
ViewerHeld == \A s \in viewers : held[s].expiry > 0 /\ ~held[s].revoked
BarLease == \A s \in Streams : barredAt[s] # 0 => end[s] =< barredAt[s] + Lease

(* Only the newest epoch is open, and only an epoch that is over is retired. *)
EpochInv ==
    /\ \A g \in 1..last \ over : g = last
    /\ retired => cur \in over
    /\ \A m \in net : m.kind = "retire" => gen[m.stream] \in over

(* Nothing is sent for a stream before it begins, and no revoke before it ends. *)
SentInv == \A m \in net : pc[m.stream] # "IDLE" /\ (~Granting(m) => pc[m.stream] = "DONE")

(* A revoked stream is over, and its tombstone outlives every grant under way,
   unless a newer epoch has taken its place. *)
TombState ==
    \A s \in revoked : pc[s] = "DONE" /\ gen[s] =< cur /\ grant[s].state # "RESERVED" /\ s \notin viewers
TombGuard ==
    \A s \in revoked : gen[s] < cur \/
        \A m \in net : (Granting(m) /\ m.stream = s) => (held[s].revoked /\ m.expiry =< held[s].expiry)

(* A stream has one attach grant; once it was used none that the engine would
   take is left. *)
GrantBegun == \A s \in Streams : grant[s].state # "NONE" => pc[s] # "IDLE" /\ gen[s] =< cur
OneExpiry ==
    /\ \A m, n \in net : (m.kind = "attach" /\ n.kind = "attach" /\ m.stream = n.stream) => m.expiry = n.expiry
    /\ \A m \in net : (m.kind = "attach" /\ grant[m.stream].state # "NONE") => m.expiry = grant[m.stream].expiry
UsedOnce ==
    \A s \in Streams : opened[s] = 1 =>
        /\ pc[s] # "IDLE" /\ grant[s].state # "RESERVED"
        /\ grant[s].state # "NONE" \/ gen[s] < cur \/ \A m \in net : ~(m.kind = "attach" /\ m.stream = s)

IInv ==
    /\ TypeOK /\ ClockInv
    /\ GrantLease /\ HeldLease /\ ViewerHeld /\ BarLease
    /\ EpochInv /\ SentInv /\ TombState /\ TombGuard
    /\ GrantBegun /\ OneExpiry /\ UsedOnce

(* What the types say of the parts the invariant speaks of. *)
Typed ==
    /\ now \in Nat /\ hubNow \in Nat /\ boot \in Nat /\ cur \in Nat /\ last \in Nat
    /\ end \in [Streams -> Nat] /\ gen \in [Streams -> Nat] /\ barredAt \in [Streams -> Nat]
    /\ \A s \in Streams : bootOf[s] \in Nat /\ grant[s].expiry \in Nat /\ held[s].expiry \in Nat
    /\ \A m \in net : m.stream \in Streams /\ m.expiry \in Nat
    /\ viewers \subseteq Streams /\ revoked \subseteq Streams /\ retired \in BOOLEAN

-----------------------------------------------------------------------------
(* The types, one variable at a time, as the arithmetic needs them. *)
LEMMA TypeFacts == TypeOK => Typed
  <1>. SUFFICES ASSUME TypeOK PROVE Typed
    OBVIOUS
  <1>1. \A s \in Streams : bootOf[s] \in Nat /\ grant[s].expiry \in Nat /\ held[s].expiry \in Nat
    BY DEF TypeOK
  <1>2. gen \in [Streams -> Nat] /\ cur \in Nat
    BY DEF TypeOK
  <1>3. \A m \in net : m.stream \in Streams /\ m.expiry \in Nat
    BY DEF TypeOK, Message
  <1>. QED BY <1>1, <1>2, <1>3 DEF Typed, TypeOK

(* Before the first stream all of it holds. *)
LEMMA InitHolds == Init => IInv
  <1>. SUFFICES ASSUME Init PROVE IInv
    OBVIOUS
  <1>. USE StreamsAssumption DEF Init, NoGrant, NoDemand
  <1>1. TypeOK
    <2>1. [state |-> "NONE", expiry |-> 0] \in [state : {"NONE", "RESERVED", "USED", "REVOKED"}, expiry : Nat]
      OBVIOUS
    <2>2. [revoked |-> FALSE, expiry |-> 0] \in [revoked : BOOLEAN, expiry : Nat]
      OBVIOUS
    <2>3. epochEnd \in [1..last -> Nat]
      OBVIOUS
    <2>4. opened \in [Streams -> 0..1]
      OBVIOUS
    <2>8. gen \in [Streams -> 0..last]
      OBVIOUS
    <2>9. pc \in [Streams -> {"IDLE", "OPEN", "DONE"}]
      OBVIOUS
    <2>5. grant \in [Streams -> [state : {"NONE", "RESERVED", "USED", "REVOKED"}, expiry : Nat]]
      BY <2>1
    <2>6. held \in [Streams -> [revoked : BOOLEAN, expiry : Nat]]
      BY <2>2
    <2>7. end \in [Streams -> Nat] /\ barredAt \in [Streams -> Nat] /\ bootOf \in [Streams -> Nat]
      OBVIOUS
    <2>10. cur \in 0..last /\ over \subseteq 1..last /\ last \in Nat
      OBVIOUS
    <2>11. now \in Nat /\ hubNow \in Nat /\ boot \in Nat /\ retired \in BOOLEAN
      OBVIOUS
    <2>12. live \subseteq Streams /\ net \subseteq Message /\ viewers \subseteq Streams /\ revoked \subseteq Streams
      OBVIOUS
    <2>. HIDE DEF Init, NoGrant, NoDemand
    <2>. QED BY <2>3, <2>4, <2>5, <2>6, <2>7, <2>8, <2>9, <2>10, <2>11, <2>12 DEF TypeOK
  <1>2. ClockInv
    BY DEF ClockInv
  <1>3. GrantLease
    BY DEF GrantLease
  <1>4. HeldLease
    BY DEF HeldLease
  <1>5. ViewerHeld
    BY DEF ViewerHeld
  <1>6. BarLease
    BY DEF BarLease
  <1>7. EpochInv
    BY DEF EpochInv
  <1>8. SentInv
    BY DEF SentInv
  <1>9. TombState
    BY DEF TombState
  <1>10. TombGuard
    BY DEF TombGuard
  <1>11. GrantBegun
    BY DEF GrantBegun
  <1>12. OneExpiry
    BY DEF OneExpiry
  <1>13. UsedOnce
    BY DEF UsedOnce
  <1>. QED
    BY <1>1, <1>2, <1>3, <1>4, <1>5, <1>6, <1>7, <1>8, <1>9, <1>10, <1>11, <1>12, <1>13 DEF IInv

(* The database's clock: it runs at most Skew ahead of the engine's. *)
LEMMA PassKeeps ==
  ASSUME IInv, Pass
  PROVE IInv'
  <1>. USE StreamsAssumption DEF IInv
  <1>1. TypeOK'
    BY DEF Pass, TypeOK, database, monitor, hub
  <1>2. ClockInv'
    BY DEF Pass, ClockInv, TypeOK, database, monitor, hub
  <1>3. GrantLease'
    BY DEF Pass, GrantLease, ClockInv, TypeOK, database, monitor, hub, Granting, Message
  <1>4. HeldLease'
    BY DEF Pass, HeldLease, ClockInv, GrantLease, TypeOK, database, monitor, hub
  <1>5. ViewerHeld'
    BY DEF Pass, ViewerHeld, HeldLease, TypeOK, database, monitor, hub
  <1>6. BarLease'
    BY DEF Pass, BarLease, ClockInv, TypeOK, database, monitor, hub
  <1>7. EpochInv'
    BY DEF Pass, EpochInv, TypeOK, database, monitor, hub, Granting, Message
  <1>8. SentInv'
    BY DEF Pass, SentInv, TypeOK, database, monitor, hub, Granting, Message
  <1>9. TombState'
    BY DEF Pass, TombState, TypeOK, database, monitor, hub
  <1>10. TombGuard'
    BY DEF Pass, TombGuard, TypeOK, database, monitor, hub, Granting, Message
  <1>11. GrantBegun'
    BY DEF Pass, GrantBegun, SentInv, TypeOK, database, monitor, hub
  <1>12. OneExpiry'
    BY DEF Pass, OneExpiry, GrantBegun, TypeOK, database, monitor, hub, Granting, Message
  <1>13. UsedOnce'
    BY DEF Pass, UsedOnce, OneExpiry, GrantBegun, TypeOK, database, monitor, hub, Granting, Message
  <1>. QED
    BY <1>1, <1>2, <1>3, <1>4, <1>5, <1>6, <1>7, <1>8, <1>9, <1>10, <1>11, <1>12, <1>13 DEF IInv

(* A stream begins: its demand ends one lease from now, its grant Skew earlier,
   and an epoch is opened only when every older one is over. *)
LEMMA AcquireKeeps ==
  ASSUME IInv, NEW s \in Streams, Acquire(s)
  PROVE IInv'
  <1>. USE StreamsAssumption DEF IInv
  <1>t. Typed
    BY TypeFacts
  <1>a. /\ pc[s] = "IDLE" /\ barredAt[s] = 0
       /\ live' \subseteq Streams /\ over \subseteq over' /\ over' \subseteq 1..last
       /\ end' = [end EXCEPT ![s] = now + Lease]
    BY DEF Acquire, StillLive, OverNow, TypeOK
  <1>u. UNCHANGED <<now, barredAt, hubNow, boot, cur, retired, grant, held, viewers, opened, revoked>>
    BY DEF Acquire, hub
  <1>b. PICK g \in IF 1..last \subseteq over' THEN {last + 1} ELSE 1..last \ over' :
         /\ gen' = [gen EXCEPT ![s] = g]
         /\ last' = IF g > last THEN g ELSE last
         /\ epochEnd' = [h \in 1..last' |-> IF h = g THEN now + Lease ELSE epochEnd[h]]
    BY DEF Acquire
  <1>c. /\ g \in 1..last' /\ last' \in Nat /\ last =< last'
       /\ \A h \in 1..last' \ over' : h = last'
    BY <1>a, <1>b DEF TypeOK, EpochInv
  <1>d. PICK answer \in {"LOST", "NO_ENGINE", "ATTACH"} :
         /\ pc' = [pc EXCEPT ![s] = IF answer = "LOST" THEN "DONE" ELSE "OPEN"]
         /\ bootOf' = [bootOf EXCEPT ![s] = IF answer = "ATTACH" THEN boot ELSE 0]
         /\ Send(IF answer = "ATTACH" THEN {"attach"} ELSE {}, s, GrantExpiry(now + Lease))
    BY DEF Acquire
  <1>f. bootOf'[s] \in Nat /\ GrantExpiry(now + Lease) = now + Lease - Skew /\ now + Lease - Skew \in Nat
    BY <1>d, <1>t DEF TypeOK, GrantExpiry
  <1>e. \A m \in net' : m \in net \/
         m = [kind |-> "attach", stream |-> s, boot |-> bootOf'[s], expiry |-> now + Lease - Skew]
    BY <1>d, <1>f DEF Send
  <1>h. net' \subseteq Message
    BY <1>e, <1>f DEF TypeOK, Message
  <1>g. /\ \A m \in net : m.stream # s
       /\ grant[s].state = "NONE" /\ s \notin revoked
    BY <1>a DEF SentInv, GrantBegun, TombState
  <1>p. /\ end'[s] = now + Lease /\ gen'[s] = g /\ pc'[s] # "IDLE"
       /\ \A t \in Streams \ {s} : end'[t] = end[t] /\ gen'[t] = gen[t] /\ pc'[t] = pc[t]
    BY <1>a, <1>b, <1>d DEF TypeOK
  <1>k. \A m \in net' : (m \in net /\ m.stream \in Streams \ {s})
                      \/ (m.kind = "attach" /\ m.stream = s /\ m.expiry = now + Lease - Skew)
    <2>. TAKE m \in net'
    <2>1. CASE m \in net
      BY <2>1, <1>g, <1>t DEF Typed
    <2>2. CASE m = [kind |-> "attach", stream |-> s, boot |-> bootOf'[s], expiry |-> now + Lease - Skew]
      BY <2>2
    <2>. QED BY <2>1, <2>2, <1>e
  <1>1. TypeOK'
    <2>1. epochEnd' \in [1..last' -> Nat]
      BY <1>b, <1>c DEF TypeOK
    <2>2. gen' \in [Streams -> 0..last'] /\ end' \in [Streams -> Nat] /\ over' \subseteq 1..last' /\ cur' \in 0..last'
      BY <1>a, <1>b, <1>c, <1>u DEF TypeOK
    <2>3. pc' \in [Streams -> {"IDLE", "OPEN", "DONE"}] /\ bootOf' \in [Streams -> Nat]
      BY <1>d DEF TypeOK
    <2>. QED BY <2>1, <2>2, <2>3, <1>a, <1>c, <1>h, <1>u DEF TypeOK
  <1>2. ClockInv'
    BY <1>t, <1>u, <1>a, <1>p DEF Typed, ClockInv
  <1>3. GrantLease'
    BY <1>t, <1>u, <1>a, <1>g, <1>k, <1>p DEF Typed, GrantLease, ClockInv, Granting
  <1>4. HeldLease'
    BY <1>t, <1>u, <1>a, <1>p DEF Typed, HeldLease, ClockInv, GrantLease
  <1>5. ViewerHeld'
    BY <1>t, <1>u DEF Typed, ViewerHeld, HeldLease
  <1>6. BarLease'
    BY <1>t, <1>u, <1>a, <1>p DEF Typed, BarLease, ClockInv
  <1>7. EpochInv'
    BY <1>t, <1>u, <1>a, <1>c, <1>k, <1>p, <1>t DEF Typed, EpochInv, Granting
  <1>8. SentInv'
    BY <1>t, <1>u, <1>a, <1>g, <1>k, <1>p DEF Typed, SentInv, Granting
  <1>9. TombState'
    BY <1>t, <1>u, <1>a, <1>g, <1>k, <1>p DEF Typed, TombState
  <1>10. TombGuard'
    BY <1>t, <1>u, <1>a, <1>g, <1>k, <1>p DEF Typed, TombGuard, Granting
  <1>11. GrantBegun'
    BY <1>t, <1>u, <1>a, <1>g, <1>k, <1>p DEF Typed, GrantBegun, SentInv
  <1>12. OneExpiry'
    BY <1>t, <1>u, <1>a, <1>g, <1>k, <1>p DEF Typed, OneExpiry, GrantBegun, Granting
  <1>13. UsedOnce'
    BY <1>t, <1>u, <1>a, <1>g, <1>k, <1>p DEF Typed, UsedOnce, OneExpiry, GrantBegun, Granting
  <1>. QED
    BY <1>1, <1>2, <1>3, <1>4, <1>5, <1>6, <1>7, <1>8, <1>9, <1>10, <1>11, <1>12, <1>13 DEF IInv

(* A renewal moves the lease before the refresh is cut from it, and happens only
   while the user may watch. *)
LEMMA RenewKeeps ==
  ASSUME IInv, NEW s \in Streams, Renew(s)
  PROVE IInv'
  <1>. USE StreamsAssumption DEF IInv
  <1>t. Typed
    BY TypeFacts
  <1>a. /\ pc[s] = "OPEN" /\ barredAt[s] = 0
       /\ live' \subseteq Streams /\ over \subseteq over' /\ over' \subseteq 1..last
       /\ end' = [end EXCEPT ![s] = now + Lease]
       /\ epochEnd' = [epochEnd EXCEPT ![gen[s]] = now + Lease]
    BY DEF Renew, StillLive, OverNow, TypeOK
  <1>u. UNCHANGED <<now, barredAt, hubNow, boot, last, gen, pc, bootOf, cur, retired, grant, held, viewers, opened, revoked>>
    BY DEF Renew, hub
  <1>f. GrantExpiry(now + Lease) = now + Lease - Skew /\ now + Lease - Skew \in Nat
    BY <1>t DEF Typed, GrantExpiry
  <1>b. \A m \in net' : m \in net \/
         m = [kind |-> "refresh", stream |-> s, boot |-> bootOf'[s], expiry |-> now + Lease - Skew]
    BY <1>f DEF Renew, Send
  <1>h. net' \subseteq Message
    BY <1>b, <1>f, <1>u, <1>t DEF TypeOK, Message, Typed
  <1>g. s \notin revoked
    BY <1>a DEF TombState
  <1>p. end'[s] = now + Lease /\ \A t \in Streams \ {s} : end'[t] = end[t]
    BY <1>a DEF TypeOK
  <1>k. \A m \in net' : m \in net \/ (m.kind = "refresh" /\ m.stream = s /\ m.expiry = now + Lease - Skew)
    BY <1>b
  <1>1. TypeOK'
    <2>1. now + Lease \in Nat
      BY <1>t DEF Typed
    <2>3. epochEnd' \in [1..last -> Nat]
      BY <2>1, <1>a DEF TypeOK
    <2>2. end' \in [Streams -> Nat]
      BY <1>a DEF TypeOK
    <2>. QED BY <2>3, <2>2, <1>a, <1>h, <1>u DEF TypeOK
  <1>2. ClockInv'
    BY <1>t, <1>u, <1>a, <1>p DEF Typed, ClockInv
  <1>3. GrantLease'
    BY <1>t, <1>u, <1>a, <1>g, <1>k, <1>p DEF Typed, GrantLease, ClockInv, Granting
  <1>4. HeldLease'
    BY <1>t, <1>u, <1>a, <1>p DEF Typed, HeldLease, ClockInv, GrantLease
  <1>5. ViewerHeld'
    BY <1>t, <1>u DEF Typed, ViewerHeld, HeldLease
  <1>6. BarLease'
    BY <1>t, <1>u, <1>a, <1>p DEF Typed, BarLease, ClockInv
  <1>7. EpochInv'
    BY <1>t, <1>u, <1>a, <1>g, <1>k, <1>p DEF Typed, EpochInv, Granting
  <1>8. SentInv'
    BY <1>t, <1>u, <1>a, <1>g, <1>k, <1>p DEF Typed, SentInv, Granting
  <1>9. TombState'
    BY <1>t, <1>u DEF Typed, TombState
  <1>10. TombGuard'
    BY <1>t, <1>u, <1>a, <1>g, <1>k, <1>p DEF Typed, TombGuard, Granting
  <1>11. GrantBegun'
    BY <1>t, <1>u DEF Typed, GrantBegun, SentInv
  <1>12. OneExpiry'
    BY <1>t, <1>u, <1>a, <1>g, <1>k, <1>p DEF Typed, OneExpiry, GrantBegun, Granting
  <1>13. UsedOnce'
    BY <1>t, <1>u, <1>a, <1>g, <1>k, <1>p DEF Typed, UsedOnce, OneExpiry, GrantBegun, Granting
  <1>. QED
    BY <1>1, <1>2, <1>3, <1>4, <1>5, <1>6, <1>7, <1>8, <1>9, <1>10, <1>11, <1>12, <1>13 DEF IInv

(* A stream ends; the retirement is sent only for an epoch the release left over. *)
LEMMA ReleaseKeeps ==
  ASSUME IInv, NEW s \in Streams, Release(s)
  PROVE IInv'
  <1>. USE StreamsAssumption DEF IInv
  <1>t. Typed
    BY TypeFacts
  <1>a. /\ pc[s] = "OPEN" /\ pc' = [pc EXCEPT ![s] = "DONE"]
       /\ live' \subseteq Streams /\ over \subseteq over' /\ over' \subseteq 1..last
    BY DEF Release, StillLive, OverNow, TypeOK
  <1>u. UNCHANGED <<now, last, epochEnd, gen, end, barredAt, hubNow, boot, bootOf, cur, retired, grant, held, viewers, opened, revoked>>
    BY DEF Release, hub
  <1>b. \A m \in net' : m \in net \/
         /\ m \in [kind : {"revoke", "retire"}, stream : {s}, boot : {bootOf[s]}, expiry : {now + Lease - 1}]
         /\ m.kind = "retire" => gen[s] \in over'
    BY DEF Release, Send, Farewell
  <1>c. bootOf[s] \in Nat /\ now + Lease - 1 \in Nat
    BY <1>t DEF Typed
  <1>h. net' \subseteq Message
    BY <1>b, <1>c DEF TypeOK, Message
  <1>p. pc'[s] = "DONE" /\ \A t \in Streams \ {s} : pc'[t] = pc[t]
    BY <1>a DEF TypeOK
  <1>k. \A m \in net' : m \in net \/ (m.kind \in {"revoke", "retire"} /\ m.stream = s /\ (m.kind = "retire" => gen[s] \in over'))
    BY <1>b
  <1>1. TypeOK'
    BY <1>a, <1>h, <1>u DEF TypeOK
  <1>2. ClockInv'
    BY <1>t, <1>u, <1>a, <1>k, <1>p DEF Typed, ClockInv
  <1>3. GrantLease'
    BY <1>t, <1>u, <1>a, <1>k, <1>p DEF Typed, GrantLease, ClockInv, Granting
  <1>4. HeldLease'
    BY <1>t, <1>u, <1>a, <1>k, <1>p DEF Typed, HeldLease, ClockInv, GrantLease
  <1>5. ViewerHeld'
    BY <1>t, <1>u, <1>a, <1>k, <1>p DEF Typed, ViewerHeld, HeldLease
  <1>6. BarLease'
    BY <1>t, <1>u, <1>a, <1>k, <1>p DEF Typed, BarLease, ClockInv
  <1>7. EpochInv'
    BY <1>t, <1>u, <1>a, <1>k, <1>p DEF Typed, EpochInv, Granting
  <1>8. SentInv'
    BY <1>t, <1>u, <1>a, <1>k, <1>p DEF Typed, SentInv, Granting
  <1>9. TombState'
    BY <1>t, <1>u, <1>a, <1>k, <1>p DEF Typed, TombState
  <1>10. TombGuard'
    BY <1>t, <1>u, <1>a, <1>k, <1>p DEF Typed, TombGuard, Granting
  <1>11. GrantBegun'
    BY <1>t, <1>u, <1>a, <1>k, <1>p DEF Typed, GrantBegun, SentInv
  <1>12. OneExpiry'
    BY <1>t, <1>u, <1>a, <1>k, <1>p DEF Typed, OneExpiry, GrantBegun, Granting
  <1>13. UsedOnce'
    BY <1>t, <1>u, <1>a, <1>k, <1>p DEF Typed, UsedOnce, OneExpiry, GrantBegun, Granting
  <1>. QED
    BY <1>1, <1>2, <1>3, <1>4, <1>5, <1>6, <1>7, <1>8, <1>9, <1>10, <1>11, <1>12, <1>13 DEF IInv

(* Monitor dies: streams end, nothing is sent. *)
LEMMA MonitorRestartKeeps ==
  ASSUME IInv, MonitorRestart
  PROVE IInv'
  <1>. USE StreamsAssumption DEF IInv
  <1>1. TypeOK'
    BY DEF MonitorRestart, TypeOK, database, monitor, hub
  <1>2. ClockInv'
    BY DEF MonitorRestart, ClockInv, TypeOK, database, monitor, hub
  <1>3. GrantLease'
    BY DEF MonitorRestart, GrantLease, ClockInv, TypeOK, database, monitor, hub, Granting, Message
  <1>4. HeldLease'
    BY DEF MonitorRestart, HeldLease, ClockInv, GrantLease, TypeOK, database, monitor, hub
  <1>5. ViewerHeld'
    BY DEF MonitorRestart, ViewerHeld, HeldLease, TypeOK, database, monitor, hub
  <1>6. BarLease'
    BY DEF MonitorRestart, BarLease, ClockInv, TypeOK, database, monitor, hub
  <1>7. EpochInv'
    BY DEF MonitorRestart, EpochInv, TypeOK, database, monitor, hub, Granting, Message
  <1>8. SentInv'
    BY DEF MonitorRestart, SentInv, TypeOK, database, monitor, hub, Granting, Message
  <1>9. TombState'
    BY DEF MonitorRestart, TombState, TypeOK, database, monitor, hub
  <1>10. TombGuard'
    BY DEF MonitorRestart, TombGuard, TypeOK, database, monitor, hub, Granting, Message
  <1>11. GrantBegun'
    BY DEF MonitorRestart, GrantBegun, SentInv, TypeOK, database, monitor, hub
  <1>12. OneExpiry'
    BY DEF MonitorRestart, OneExpiry, GrantBegun, TypeOK, database, monitor, hub, Granting, Message
  <1>13. UsedOnce'
    BY DEF MonitorRestart, UsedOnce, OneExpiry, GrantBegun, TypeOK, database, monitor, hub, Granting, Message
  <1>. QED
    BY <1>1, <1>2, <1>3, <1>4, <1>5, <1>6, <1>7, <1>8, <1>9, <1>10, <1>11, <1>12, <1>13 DEF IInv

(* The user is barred: no lease reaches further than one from now. *)
LEMMA BarKeeps ==
  ASSUME IInv, NEW s \in Streams, Bar(s)
  PROVE IInv'
  <1>. USE StreamsAssumption DEF IInv
  <1>1. TypeOK'
    BY DEF Bar, TypeOK, database, monitor, hub
  <1>2. ClockInv'
    BY DEF Bar, ClockInv, TypeOK, database, monitor, hub
  <1>3. GrantLease'
    BY DEF Bar, GrantLease, ClockInv, TypeOK, database, monitor, hub, Granting, Message
  <1>4. HeldLease'
    BY DEF Bar, HeldLease, ClockInv, GrantLease, TypeOK, database, monitor, hub
  <1>5. ViewerHeld'
    BY DEF Bar, ViewerHeld, HeldLease, TypeOK, database, monitor, hub
  <1>6. BarLease'
    BY DEF Bar, BarLease, ClockInv, TypeOK, database, monitor, hub
  <1>7. EpochInv'
    BY DEF Bar, EpochInv, TypeOK, database, monitor, hub, Granting, Message
  <1>8. SentInv'
    BY DEF Bar, SentInv, TypeOK, database, monitor, hub, Granting, Message
  <1>9. TombState'
    BY DEF Bar, TombState, TypeOK, database, monitor, hub
  <1>10. TombGuard'
    BY DEF Bar, TombGuard, TypeOK, database, monitor, hub, Granting, Message
  <1>11. GrantBegun'
    BY DEF Bar, GrantBegun, SentInv, TypeOK, database, monitor, hub
  <1>12. OneExpiry'
    BY DEF Bar, OneExpiry, GrantBegun, TypeOK, database, monitor, hub, Granting, Message
  <1>13. UsedOnce'
    BY DEF Bar, UsedOnce, OneExpiry, GrantBegun, TypeOK, database, monitor, hub, Granting, Message
  <1>. QED
    BY <1>1, <1>2, <1>3, <1>4, <1>5, <1>6, <1>7, <1>8, <1>9, <1>10, <1>11, <1>12, <1>13 DEF IInv

(* A viewer opens; the reservation is spent, so it opens one at most. *)
LEMMA AttachKeeps ==
  ASSUME IInv, NEW s \in Streams, Attach(s)
  PROVE IInv'
  <1>. USE StreamsAssumption DEF IInv
  <1>1. TypeOK'
    <2>1. opened[s] = 0
      BY DEF Attach, UsedOnce, TypeOK
    <2>2. opened' \in [Streams -> 0..1]
      BY <2>1 DEF Attach, TypeOK
    <2>3. grant' \in [Streams -> [state : {"NONE", "RESERVED", "USED", "REVOKED"}, expiry : Nat]]
      BY DEF Attach, TypeOK
    <2>. QED BY <2>2, <2>3 DEF Attach, TypeOK, database, monitor
  <1>2. ClockInv'
    BY DEF Attach, ClockInv, TypeOK, database, monitor, hub, Acceptable
  <1>3. GrantLease'
    BY DEF Attach, GrantLease, ClockInv, TypeOK, database, monitor, hub, Granting, Message, Acceptable
  <1>4. HeldLease'
    BY DEF Attach, HeldLease, ClockInv, GrantLease, TypeOK, database, monitor, hub, Acceptable
  <1>5. ViewerHeld'
    BY DEF Attach, ViewerHeld, HeldLease, TypeOK, database, monitor, hub, Acceptable
  <1>6. BarLease'
    BY DEF Attach, BarLease, ClockInv, TypeOK, database, monitor, hub, Acceptable
  <1>7. EpochInv'
    BY DEF Attach, EpochInv, TypeOK, database, monitor, hub, Granting, Message, Acceptable
  <1>8. SentInv'
    BY DEF Attach, SentInv, TypeOK, database, monitor, hub, Granting, Message, Acceptable
  <1>9. TombState'
    BY DEF Attach, TombState, TypeOK, database, monitor, hub, Acceptable
  <1>10. TombGuard'
    BY DEF Attach, TombGuard, TypeOK, database, monitor, hub, Granting, Message, Acceptable
  <1>11. GrantBegun'
    BY DEF Attach, GrantBegun, SentInv, TypeOK, database, monitor, hub, Acceptable
  <1>12. OneExpiry'
    BY DEF Attach, OneExpiry, GrantBegun, TypeOK, database, monitor, hub, Granting, Message, Acceptable
  <1>13. UsedOnce'
    BY DEF Attach, UsedOnce, OneExpiry, GrantBegun, TypeOK, database, monitor, hub, Granting, Message, Acceptable
  <1>. QED
    BY <1>1, <1>2, <1>3, <1>4, <1>5, <1>6, <1>7, <1>8, <1>9, <1>10, <1>11, <1>12, <1>13 DEF IInv

(* A viewer leaves. *)
LEMMA DisconnectKeeps ==
  ASSUME IInv, NEW s \in Streams, Disconnect(s)
  PROVE IInv'
  <1>. USE StreamsAssumption DEF IInv
  <1>1. TypeOK'
    BY DEF Disconnect, TypeOK, database, monitor, hub
  <1>2. ClockInv'
    BY DEF Disconnect, ClockInv, TypeOK, database, monitor, hub
  <1>3. GrantLease'
    BY DEF Disconnect, GrantLease, ClockInv, TypeOK, database, monitor, hub, Granting, Message
  <1>4. HeldLease'
    BY DEF Disconnect, HeldLease, ClockInv, GrantLease, TypeOK, database, monitor, hub
  <1>5. ViewerHeld'
    BY DEF Disconnect, ViewerHeld, HeldLease, TypeOK, database, monitor, hub
  <1>6. BarLease'
    BY DEF Disconnect, BarLease, ClockInv, TypeOK, database, monitor, hub
  <1>7. EpochInv'
    BY DEF Disconnect, EpochInv, TypeOK, database, monitor, hub, Granting, Message
  <1>8. SentInv'
    BY DEF Disconnect, SentInv, TypeOK, database, monitor, hub, Granting, Message
  <1>9. TombState'
    BY DEF Disconnect, TombState, TypeOK, database, monitor, hub
  <1>10. TombGuard'
    BY DEF Disconnect, TombGuard, TypeOK, database, monitor, hub, Granting, Message
  <1>11. GrantBegun'
    BY DEF Disconnect, GrantBegun, SentInv, TypeOK, database, monitor, hub
  <1>12. OneExpiry'
    BY DEF Disconnect, OneExpiry, GrantBegun, TypeOK, database, monitor, hub, Granting, Message
  <1>13. UsedOnce'
    BY DEF Disconnect, UsedOnce, OneExpiry, GrantBegun, TypeOK, database, monitor, hub, Granting, Message
  <1>. QED
    BY <1>1, <1>2, <1>3, <1>4, <1>5, <1>6, <1>7, <1>8, <1>9, <1>10, <1>11, <1>12, <1>13 DEF IInv

(* The engine's clock sweeps demands, grants and viewers alike. *)
LEMMA HubPassKeeps ==
  ASSUME IInv, HubPass
  PROVE IInv'
  <1>. USE StreamsAssumption DEF IInv
  <1>1. TypeOK'
    <2>1. grant' \in [Streams -> [state : {"NONE", "RESERVED", "USED", "REVOKED"}, expiry : Nat]]
      BY DEF HubPass, TypeOK, NoGrant
    <2>2. held' \in [Streams -> [revoked : BOOLEAN, expiry : Nat]]
      BY DEF HubPass, TypeOK, NoDemand
    <2>3. hubNow' \in Nat /\ viewers' \subseteq Streams /\ net' \subseteq Message
      BY DEF HubPass, TypeOK
    <2>. QED BY <2>1, <2>2, <2>3 DEF HubPass, TypeOK, database
  <1>2. ClockInv'
    BY DEF HubPass, ClockInv, TypeOK, database, monitor, hub, NoGrant, NoDemand
  <1>3. GrantLease'
    BY DEF HubPass, GrantLease, ClockInv, TypeOK, database, monitor, hub, Granting, Message, NoGrant, NoDemand
  <1>4. HeldLease'
    BY DEF HubPass, HeldLease, ClockInv, GrantLease, TypeOK, database, monitor, hub, NoGrant, NoDemand
  <1>5. ViewerHeld'
    BY DEF HubPass, ViewerHeld, HeldLease, TypeOK, database, monitor, hub, NoGrant, NoDemand
  <1>6. BarLease'
    BY DEF HubPass, BarLease, ClockInv, TypeOK, database, monitor, hub, NoGrant, NoDemand
  <1>7. EpochInv'
    BY DEF HubPass, EpochInv, TypeOK, database, monitor, hub, Granting, Message, NoGrant, NoDemand
  <1>8. SentInv'
    BY DEF HubPass, SentInv, TypeOK, database, monitor, hub, Granting, Message, NoGrant, NoDemand
  <1>9. TombState'
    BY DEF HubPass, TombState, TypeOK, database, monitor, hub, NoGrant, NoDemand
  <1>10. TombGuard'
    BY DEF HubPass, TombGuard, TypeOK, database, monitor, hub, Granting, Message, NoGrant, NoDemand
  <1>11. GrantBegun'
    BY DEF HubPass, GrantBegun, SentInv, TypeOK, database, monitor, hub, NoGrant, NoDemand
  <1>12. OneExpiry'
    BY DEF HubPass, OneExpiry, GrantBegun, TypeOK, database, monitor, hub, Granting, Message, NoGrant, NoDemand
  <1>13. UsedOnce'
    BY DEF HubPass, UsedOnce, OneExpiry, GrantBegun, TypeOK, database, monitor, hub, Granting, Message, NoGrant, NoDemand
  <1>. QED
    BY <1>1, <1>2, <1>3, <1>4, <1>5, <1>6, <1>7, <1>8, <1>9, <1>10, <1>11, <1>12, <1>13 DEF IInv

(* A restart forgets all and leaves no grant under way that the new boot takes. *)
LEMMA EngineRestartKeeps ==
  ASSUME IInv, EngineRestart
  PROVE IInv'
  <1>. USE StreamsAssumption DEF IInv
  <1>1. TypeOK'
    <2>1. grant' \in [Streams -> [state : {"NONE", "RESERVED", "USED", "REVOKED"}, expiry : Nat]]
      BY DEF EngineRestart, NoGrant
    <2>2. held' \in [Streams -> [revoked : BOOLEAN, expiry : Nat]]
      BY DEF EngineRestart, NoDemand
    <2>3. boot' \in Nat /\ last' = last /\ cur' = 0
      BY DEF EngineRestart, TypeOK, database
    <2>4. cur' \in 0..last'
      BY <2>3 DEF TypeOK
    <2>. QED BY <2>1, <2>2, <2>3, <2>4 DEF EngineRestart, TypeOK, database
  <1>2. ClockInv'
    BY DEF EngineRestart, ClockInv, TypeOK, database, monitor, hub, NoGrant, NoDemand
  <1>3. GrantLease'
    BY DEF EngineRestart, GrantLease, ClockInv, TypeOK, database, monitor, hub, Granting, Message, NoGrant, NoDemand
  <1>4. HeldLease'
    BY DEF EngineRestart, HeldLease, ClockInv, GrantLease, TypeOK, database, monitor, hub, NoGrant, NoDemand
  <1>5. ViewerHeld'
    BY DEF EngineRestart, ViewerHeld, HeldLease, TypeOK, database, monitor, hub, NoGrant, NoDemand
  <1>6. BarLease'
    BY DEF EngineRestart, BarLease, ClockInv, TypeOK, database, monitor, hub, NoGrant, NoDemand
  <1>7. EpochInv'
    BY DEF EngineRestart, EpochInv, TypeOK, database, monitor, hub, Granting, Message, NoGrant, NoDemand
  <1>8. SentInv'
    BY DEF EngineRestart, SentInv, TypeOK, database, monitor, hub, Granting, Message, NoGrant, NoDemand
  <1>9. TombState'
    BY DEF EngineRestart, TombState, TypeOK, database, monitor, hub, NoGrant, NoDemand
  <1>10. TombGuard'
    BY DEF EngineRestart, TombGuard, TypeOK, database, monitor, hub, Granting, Message, NoGrant, NoDemand
  <1>11. GrantBegun'
    BY DEF EngineRestart, GrantBegun, SentInv, TypeOK, database, monitor, hub, NoGrant, NoDemand
  <1>12. OneExpiry'
    BY DEF EngineRestart, OneExpiry, GrantBegun, TypeOK, database, monitor, hub, Granting, Message, NoGrant, NoDemand
  <1>13. UsedOnce'
    BY DEF EngineRestart, UsedOnce, OneExpiry, GrantBegun, TypeOK, database, monitor, hub, Granting, Message, NoGrant, NoDemand
  <1>. QED
    BY <1>1, <1>2, <1>3, <1>4, <1>5, <1>6, <1>7, <1>8, <1>9, <1>10, <1>11, <1>12, <1>13 DEF IInv

(* A reservation: the tombstone of a revoked stream refuses it while a grant lives. *)
LEMMA ReserveKeeps ==
  ASSUME IInv, NEW m \in net, Reserve(m)
  PROVE IInv'
  <1>. USE StreamsAssumption DEF IInv
  <1>t. Typed
    BY TypeFacts
  <1>m. m.stream \in Streams /\ m.expiry \in Nat /\ gen[m.stream] \in 0..last
    BY <1>t DEF TypeOK, Typed
  <1>a. /\ m.kind = "attach" /\ hubNow < m.expiry
       /\ grant[m.stream].state = "NONE" /\ ~held[m.stream].revoked
    BY DEF Reserve, Authentic
  <1>u. UNCHANGED <<now, last, over, epochEnd, gen, end, live, barredAt, pc, bootOf, net, hubNow, boot, opened, revoked>>
    BY DEF Reserve, database, monitor
  <1>c. cur' = gen[m.stream] /\ gen[m.stream] >= cur /\ ~retired'
    <2>1. Adopt(gen[m.stream]) /\ Acceptable(gen[m.stream]) /\ cur \in Nat /\ gen[m.stream] \in Nat
      BY <1>m, <1>t DEF Reserve, Typed
    <2>2. CASE gen[m.stream] > cur
      <3>1. ~(gen[m.stream] =< cur) /\ gen[m.stream] >= cur
        BY <2>1, <2>2
      <3>. QED BY <2>1, <2>2, <3>1 DEF Adopt
    <2>3. CASE gen[m.stream] = cur /\ ~retired
      <3>1. ~(gen[m.stream] > cur) /\ gen[m.stream] >= cur
        BY <2>1, <2>3
      <3>. QED BY <2>1, <2>3, <3>1 DEF Adopt
    <2>. QED BY <2>1, <2>2, <2>3 DEF Acceptable
  <1>n. m.stream \notin revoked
    BY <1>m, <1>a, <1>c, <1>t DEF TombGuard, Granting, Typed
  <1>o. opened[m.stream] # 1
    BY <1>m, <1>a, <1>c, <1>t DEF UsedOnce, Typed
  <1>g. /\ grant'[m.stream] = [state |-> "RESERVED", expiry |-> m.expiry]
       /\ \A t \in Streams \ {m.stream} :
            grant'[t] = grant[t] \/ (grant'[t].state = "NONE" /\ gen[m.stream] > cur)
    BY <1>m DEF Reserve, Kept, NoGrant, TypeOK
  <1>x. Kept(gen[m.stream], held, NoDemand) \in [Streams -> [revoked : BOOLEAN, expiry : Nat]]
    BY DEF Kept, NoDemand, TypeOK
  <1>h. \A t \in Streams : (held'[t] = held[t])
         \/ (gen[m.stream] > cur /\ held'[t].expiry = 0)
         \/ (t = m.stream /\ held'[t].expiry = m.expiry /\ ~held'[t].revoked)
    <2>1. CASE held[m.stream].expiry > 0
      BY <2>1 DEF Reserve
    <2>2. CASE ~(held[m.stream].expiry > 0)
      <3>1. held' = [Kept(gen[m.stream], held, NoDemand) EXCEPT ![m.stream] = [revoked |-> FALSE, expiry |-> m.expiry]]
        BY <2>2 DEF Reserve
      <3>2. \A t \in Streams : (Kept(gen[m.stream], held, NoDemand)[t] = held[t])
                               \/ (gen[m.stream] > cur /\ Kept(gen[m.stream], held, NoDemand)[t].expiry = 0)
        BY DEF Kept, NoDemand
      <3>. QED BY <3>1, <3>2, <1>m, <1>x
    <2>. QED BY <2>1, <2>2
  <1>v. viewers' \subseteq viewers /\ \A t \in viewers' : held'[t] = held[t]
    BY <1>m, <1>x, <1>t DEF Reserve, Kept, KeptViewers, ViewerHeld, Typed
  <1>1. TypeOK'
    <2>1. grant' \in [Streams -> [state : {"NONE", "RESERVED", "USED", "REVOKED"}, expiry : Nat]]
      BY <1>m DEF Reserve, Kept, NoGrant, TypeOK
    <2>2. held' \in [Streams -> [revoked : BOOLEAN, expiry : Nat]]
      BY <1>m DEF Reserve, Kept, NoDemand, TypeOK
    <2>3. cur' \in 0..last /\ retired' \in BOOLEAN /\ viewers' \subseteq Streams /\ revoked' \subseteq Streams
      BY <1>m, <1>c, <1>u DEF Reserve, Adopt, KeptViewers, TypeOK
    <2>. QED BY <2>1, <2>2, <2>3, <1>u DEF TypeOK
  <1>2. ClockInv'
    BY <1>t, <1>m, <1>a, <1>u, <1>c, <1>g, <1>h DEF Typed, ClockInv
  <1>3. GrantLease'
    BY <1>t, <1>m, <1>a, <1>u, <1>c, <1>g, <1>h DEF Typed, GrantLease, ClockInv, Granting
  <1>4. HeldLease'
    BY <1>t, <1>m, <1>a, <1>u, <1>c, <1>g, <1>h DEF Typed, HeldLease, ClockInv, GrantLease, Granting
  <1>5. ViewerHeld'
    BY <1>t, <1>u, <1>v DEF Typed, ViewerHeld, HeldLease
  <1>6. BarLease'
    BY <1>t, <1>m, <1>a, <1>u, <1>c, <1>g, <1>h DEF Typed, BarLease, ClockInv
  <1>7. EpochInv'
    BY <1>t, <1>m, <1>a, <1>u, <1>c, <1>g, <1>h DEF Typed, EpochInv, Granting
  <1>8. SentInv'
    BY <1>t, <1>m, <1>a, <1>u, <1>c, <1>g, <1>h DEF Typed, SentInv, Granting
  <1>9. TombState'
    BY <1>t, <1>m, <1>a, <1>u, <1>c, <1>n, <1>g, <1>v DEF Typed, TombState
  <1>10. TombGuard'
    BY <1>t, <1>m, <1>a, <1>u, <1>c, <1>n, <1>h DEF Typed, TombGuard, Granting, TombState
  <1>11. GrantBegun'
    BY <1>t, <1>m, <1>a, <1>u, <1>c, <1>g DEF Typed, GrantBegun, SentInv
  <1>12. OneExpiry'
    BY <1>t, <1>m, <1>a, <1>u, <1>c, <1>g DEF Typed, OneExpiry, GrantBegun, Granting
  <1>13. UsedOnce'
    BY <1>t, <1>m, <1>a, <1>u, <1>c, <1>o, <1>g DEF Typed, UsedOnce, OneExpiry, GrantBegun, Granting
  <1>. QED
    BY <1>1, <1>2, <1>3, <1>4, <1>5, <1>6, <1>7, <1>8, <1>9, <1>10, <1>11, <1>12, <1>13 DEF IInv

(* A refresh raises a deadline to one cut from a newer lease. *)
LEMMA RefreshKeeps ==
  ASSUME IInv, NEW m \in net, Refresh(m)
  PROVE IInv'
  <1>. USE StreamsAssumption DEF IInv
  <1>t. Typed
    BY TypeFacts
  <1>m. m.stream \in Streams /\ m.expiry \in Nat /\ gen[m.stream] \in 0..last
    BY <1>t DEF TypeOK, Typed
  <1>u. UNCHANGED <<now, last, over, epochEnd, gen, end, live, barredAt, pc, bootOf, net, hubNow, boot, cur, retired, grant, viewers, opened, revoked>>
    BY DEF Refresh, database, monitor
  <1>a. /\ m.kind = "refresh" /\ hubNow < m.expiry /\ held[m.stream].expiry > 0 /\ ~held[m.stream].revoked
       /\ gen[m.stream] = cur
    BY DEF Refresh, Authentic
  <1>n. m.stream \notin revoked
    BY <1>m, <1>a, <1>t DEF TombGuard, Granting, Typed
  <1>x. held' \in [Streams -> [revoked : BOOLEAN, expiry : Nat]]
    BY <1>m DEF Refresh, TypeOK
  <1>h. /\ held'[m.stream].expiry = m.expiry /\ ~held'[m.stream].revoked
       /\ \A t \in Streams \ {m.stream} : held'[t] = held[t]
    BY <1>m, <1>a DEF Refresh, TypeOK
  <1>1. TypeOK'
    BY <1>u, <1>x DEF TypeOK
  <1>2. ClockInv'
    BY <1>t, <1>u DEF Typed, ClockInv
  <1>3. GrantLease'
    BY <1>t, <1>u DEF Typed, GrantLease, ClockInv, Granting
  <1>4. HeldLease'
    BY <1>t, <1>m, <1>a, <1>u, <1>h DEF Typed, HeldLease, ClockInv, GrantLease, Granting
  <1>5. ViewerHeld'
    BY <1>t, <1>m, <1>a, <1>u, <1>h DEF Typed, ViewerHeld, HeldLease
  <1>6. BarLease'
    BY <1>t, <1>u DEF Typed, BarLease, ClockInv
  <1>7. EpochInv'
    BY <1>t, <1>u DEF Typed, EpochInv, Granting
  <1>8. SentInv'
    BY <1>t, <1>u DEF Typed, SentInv, Granting
  <1>9. TombState'
    BY <1>t, <1>u DEF Typed, TombState
  <1>10. TombGuard'
    BY <1>t, <1>m, <1>u, <1>a, <1>n, <1>h DEF Typed, TombGuard, Granting
  <1>11. GrantBegun'
    BY <1>t, <1>u DEF Typed, GrantBegun, SentInv
  <1>12. OneExpiry'
    BY <1>t, <1>u DEF Typed, OneExpiry, GrantBegun, Granting
  <1>13. UsedOnce'
    BY <1>t, <1>u DEF Typed, UsedOnce, OneExpiry, GrantBegun, Granting
  <1>. QED
    BY <1>1, <1>2, <1>3, <1>4, <1>5, <1>6, <1>7, <1>8, <1>9, <1>10, <1>11, <1>12, <1>13 DEF IInv

(* A revoke: its tombstone outlives every grant under way. *)
LEMMA RevokeKeeps ==
  ASSUME IInv, NEW m \in net, Revoke(m)
  PROVE IInv'
  <1>. USE StreamsAssumption DEF IInv
  <1>t. Typed
    BY TypeFacts
  <1>m. m.stream \in Streams /\ m.expiry \in Nat /\ gen[m.stream] \in 0..last
    BY <1>t DEF TypeOK, Typed
  <1>a. m.kind = "revoke" /\ revoked' = revoked \cup {m.stream}
    BY DEF Revoke
  <1>u. UNCHANGED <<now, last, over, epochEnd, gen, end, live, barredAt, pc, bootOf, net, hubNow, boot, opened>>
    BY DEF Revoke, database, monitor
  <1>q. Adopt(gen[m.stream]) /\ gen[m.stream] >= cur /\ cur \in Nat /\ gen[m.stream] \in Nat
    BY <1>m, <1>t DEF Revoke, Typed
  <1>c. cur' = gen[m.stream] /\ gen[m.stream] >= cur
    BY <1>q DEF Adopt
  <1>r. retired' => retired /\ cur' = cur
    <2>1. retired' = (retired /\ gen[m.stream] =< cur)
      BY <1>q DEF Adopt
    <2>2. gen[m.stream] =< cur => cur' = cur
      BY <1>q, <1>c
    <2>. QED BY <2>1, <2>2
  <1>n. pc[m.stream] = "DONE"
    BY <1>a DEF SentInv, Granting
  <1>g. \A t \in Streams :
         (grant'[t].state = "NONE" /\ (gen[m.stream] > cur \/ grant[t].state = "NONE"))
         \/ (t # m.stream /\ grant'[t] = grant[t])
         \/ (grant'[t].state = "REVOKED" /\ grant[t].state # "NONE" /\ grant'[t].expiry = grant[t].expiry)
    BY <1>m DEF Revoke, Kept, NoGrant, TypeOK
  <1>x. Kept(gen[m.stream], held, NoDemand) \in [Streams -> [revoked : BOOLEAN, expiry : Nat]]
    BY DEF Kept, NoDemand, TypeOK
  <1>h. /\ held'[m.stream].revoked /\ held'[m.stream].expiry = hubNow + Lease
       /\ \A t \in Streams \ {m.stream} : held'[t] = held[t] \/ (gen[m.stream] > cur /\ held'[t].expiry = 0)
    BY <1>m, <1>x DEF Revoke, Kept, NoDemand
  <1>v. viewers' \subseteq viewers \ {m.stream} /\ \A t \in viewers' : held'[t] = held[t]
    BY <1>m, <1>x, <1>t DEF Revoke, Kept, KeptViewers, Typed
  <1>w. \A n \in net : Granting(n) => n.expiry =< hubNow + Lease
    BY <1>t DEF GrantLease, ClockInv, Typed
  <1>1. TypeOK'
    <2>1. grant' \in [Streams -> [state : {"NONE", "RESERVED", "USED", "REVOKED"}, expiry : Nat]]
      BY <1>m DEF Revoke, Kept, NoGrant, TypeOK
    <2>2. held' \in [Streams -> [revoked : BOOLEAN, expiry : Nat]]
      BY <1>m, <1>x, <1>t DEF Revoke, Typed
    <2>3. cur' \in 0..last /\ retired' \in BOOLEAN /\ viewers' \subseteq Streams /\ revoked' \subseteq Streams
      BY <1>m, <1>c, <1>u DEF Revoke, Adopt, KeptViewers, TypeOK
    <2>. QED BY <2>1, <2>2, <2>3, <1>u DEF TypeOK
  <1>2. ClockInv'
    BY <1>t, <1>m, <1>a, <1>u, <1>c, <1>g DEF Typed, ClockInv
  <1>3. GrantLease'
    BY <1>t, <1>m, <1>a, <1>u, <1>c, <1>g DEF Typed, GrantLease, ClockInv, Granting
  <1>4. HeldLease'
    BY <1>t, <1>m, <1>u, <1>h DEF Typed, HeldLease, ClockInv, GrantLease
  <1>5. ViewerHeld'
    BY <1>t, <1>m, <1>u, <1>v DEF Typed, ViewerHeld, HeldLease
  <1>6. BarLease'
    BY <1>t, <1>m, <1>a, <1>u, <1>c, <1>g DEF Typed, BarLease, ClockInv
  <1>7. EpochInv'
    BY <1>t, <1>m, <1>u, <1>c, <1>r DEF Typed, EpochInv, Granting
  <1>8. SentInv'
    BY <1>t, <1>m, <1>a, <1>u, <1>c, <1>g DEF Typed, SentInv, Granting
  <1>9. TombState'
    BY <1>t, <1>m, <1>a, <1>u, <1>c, <1>n, <1>g, <1>v DEF Typed, TombState
  <1>10. TombGuard'
    BY <1>t, <1>m, <1>a, <1>u, <1>c, <1>h, <1>w DEF Typed, TombGuard, Granting, TombState
  <1>11. GrantBegun'
    BY <1>t, <1>m, <1>a, <1>u, <1>c, <1>g DEF Typed, GrantBegun, SentInv
  <1>12. OneExpiry'
    BY <1>t, <1>m, <1>a, <1>u, <1>c, <1>g DEF Typed, OneExpiry, GrantBegun, Granting
  <1>13. UsedOnce'
    BY <1>t, <1>m, <1>a, <1>u, <1>c, <1>g DEF Typed, UsedOnce, OneExpiry, GrantBegun, Granting
  <1>. QED
    BY <1>1, <1>2, <1>3, <1>4, <1>5, <1>6, <1>7, <1>8, <1>9, <1>10, <1>11, <1>12, <1>13 DEF IInv

(* A retirement only ever reaches an epoch that is over. *)
LEMMA RetireKeeps ==
  ASSUME IInv, NEW m \in net, Retire(m)
  PROVE IInv'
  <1>. USE StreamsAssumption DEF IInv
  <1>t. Typed
    BY TypeFacts
  <1>m. m.stream \in Streams /\ m.expiry \in Nat /\ gen[m.stream] \in 0..last
    BY <1>t DEF TypeOK, Typed
  <1>a. m.kind = "retire" /\ gen[m.stream] \in over
    BY DEF Retire, EpochInv
  <1>u. UNCHANGED <<now, last, over, epochEnd, gen, end, live, barredAt, pc, bootOf, net, hubNow, boot, opened, revoked>>
    BY DEF Retire, database, monitor
  <1>c. cur' = gen[m.stream] /\ gen[m.stream] >= cur /\ viewers' = {}
    BY DEF Retire
  <1>g. \A t \in Streams : grant'[t] = grant[t] \/ (grant'[t].state = "NONE" /\ gen[m.stream] > cur)
    BY <1>m DEF Retire, Kept, NoGrant, TypeOK
  <1>h. \A t \in Streams : held'[t] = held[t] \/ (gen[m.stream] > cur /\ held'[t].expiry = 0)
    BY <1>m DEF Retire, Kept, NoDemand, TypeOK
  <1>1. TypeOK'
    <2>1. grant' \in [Streams -> [state : {"NONE", "RESERVED", "USED", "REVOKED"}, expiry : Nat]]
      BY <1>m DEF Retire, Kept, NoGrant, TypeOK
    <2>2. held' \in [Streams -> [revoked : BOOLEAN, expiry : Nat]]
      BY <1>m DEF Retire, Kept, NoDemand, TypeOK
    <2>3. cur' \in 0..last /\ retired' \in BOOLEAN /\ viewers' \subseteq Streams /\ revoked' \subseteq Streams
      BY <1>m, <1>c, <1>u DEF Retire, TypeOK
    <2>. QED BY <2>1, <2>2, <2>3, <1>u DEF TypeOK
  <1>2. ClockInv'
    BY <1>t, <1>m, <1>a, <1>u, <1>c DEF Typed, ClockInv
  <1>3. GrantLease'
    BY <1>t, <1>m, <1>a, <1>u, <1>c DEF Typed, GrantLease, ClockInv, Granting
  <1>4. HeldLease'
    BY <1>t, <1>m, <1>u, <1>h DEF Typed, HeldLease, ClockInv, GrantLease
  <1>5. ViewerHeld'
    BY <1>t, <1>c DEF Typed, ViewerHeld, HeldLease
  <1>6. BarLease'
    BY <1>t, <1>m, <1>a, <1>u, <1>c DEF Typed, BarLease, ClockInv
  <1>7. EpochInv'
    BY <1>t, <1>m, <1>a, <1>u, <1>c DEF Typed, EpochInv, Granting
  <1>8. SentInv'
    BY <1>t, <1>m, <1>a, <1>u, <1>c DEF Typed, SentInv, Granting
  <1>9. TombState'
    BY <1>t, <1>m, <1>u, <1>c, <1>g DEF Typed, TombState
  <1>10. TombGuard'
    BY <1>t, <1>m, <1>u, <1>c, <1>h DEF Typed, TombGuard, Granting, TombState
  <1>11. GrantBegun'
    BY <1>t, <1>m, <1>u, <1>c, <1>g DEF Typed, GrantBegun, SentInv
  <1>12. OneExpiry'
    BY <1>t, <1>m, <1>u, <1>c, <1>g DEF Typed, OneExpiry, GrantBegun, Granting
  <1>13. UsedOnce'
    BY <1>t, <1>m, <1>u, <1>c, <1>g DEF Typed, UsedOnce, OneExpiry, GrantBegun, Granting
  <1>. QED
    BY <1>1, <1>2, <1>3, <1>4, <1>5, <1>6, <1>7, <1>8, <1>9, <1>10, <1>11, <1>12, <1>13 DEF IInv

(* A step that changes nothing. *)
LEMMA StutterKeeps == ASSUME IInv, UNCHANGED vars PROVE IInv'
  <1>. USE DEF IInv, vars, database, monitor, hub
  <1>1. TypeOK'
    BY DEF TypeOK, Granting, Message
  <1>2. ClockInv'
    BY DEF ClockInv, Granting, Message
  <1>3. GrantLease'
    BY DEF GrantLease, Granting, Message
  <1>4. HeldLease'
    BY DEF HeldLease, Granting, Message
  <1>5. ViewerHeld'
    BY DEF ViewerHeld, Granting, Message
  <1>6. BarLease'
    BY DEF BarLease, Granting, Message
  <1>7. EpochInv'
    BY DEF EpochInv, Granting, Message
  <1>8. SentInv'
    BY DEF SentInv, Granting, Message
  <1>9. TombState'
    BY DEF TombState, Granting, Message
  <1>10. TombGuard'
    BY DEF TombGuard, Granting, Message
  <1>11. GrantBegun'
    BY DEF GrantBegun, Granting, Message
  <1>12. OneExpiry'
    BY DEF OneExpiry, Granting, Message
  <1>13. UsedOnce'
    BY DEF UsedOnce, Granting, Message
  <1>. QED
    BY <1>1, <1>2, <1>3, <1>4, <1>5, <1>6, <1>7, <1>8, <1>9, <1>10, <1>11, <1>12, <1>13 DEF IInv

(* One lemma per action: the invariant survives every step. *)
LEMMA NextKeeps == IInv /\ [Next]_vars => IInv'
  <1>. SUFFICES ASSUME IInv, [Next]_vars PROVE IInv'
    OBVIOUS
  <1>1. CASE Pass
    BY <1>1, PassKeeps
  <1>2. CASE Monitor
    BY <1>2, MonitorRestartKeeps, AcquireKeeps, RenewKeeps, ReleaseKeeps, BarKeeps DEF Monitor
  <1>3. CASE Engine
    BY <1>3, HubPassKeeps, EngineRestartKeeps, AttachKeeps, DisconnectKeeps,
       ReserveKeeps, RefreshKeeps, RevokeKeeps, RetireKeeps DEF Engine
  <1>4. CASE UNCHANGED vars
    BY <1>4, StutterKeeps
  <1>. QED BY <1>1, <1>2, <1>3, <1>4 DEF Next

(* The inductive invariant holds in every reachable state. *)
THEOREM Invariance == Spec => []IInv
  BY InitHolds, NextKeeps, PTL DEF Spec

(* Every variable keeps its type; a grant opens at most one viewer. *)
THEOREM TypeCorrect == Spec => []TypeOK
  <1>1. IInv => TypeOK
    BY DEF IInv
  <1>. QED BY <1>1, Invariance, PTL

(* The engine's deadline and the difference of the clocks lie within the lease. *)
LEMMA LeaseCovers == IInv => ServedWithinLease
  <1>. SUFFICES ASSUME IInv, NEW s \in viewers PROVE now < end[s]
    BY DEF ServedWithinLease
  <1>1. Typed
    BY TypeFacts DEF IInv
  <1>2. s \in Streams /\ held[s].expiry + Skew =< end[s] /\ hubNow < held[s].expiry
    BY <1>1 DEF IInv, ViewerHeld, HeldLease, Typed
  <1>. QED BY <1>1, <1>2, StreamsAssumption DEF IInv, ClockInv, Typed

(* The engine serves a viewer only while the database's lease of its demand holds,
   for every number of streams, every lease and every clock difference below it. *)
THEOREM ServedCorrect == Spec => []ServedWithinLease
  BY LeaseCovers, Invariance, PTL

(* A user who loses the right to watch is off the camera within one lease. *)
THEOREM BarredCorrect == Spec => []RevocationBites
  <1>1. IInv => RevocationBites
    <2>. SUFFICES ASSUME IInv, NEW s \in viewers, barredAt[s] # 0 PROVE now < barredAt[s] + Lease
      BY DEF RevocationBites
    <2>1. Typed
      BY TypeFacts DEF IInv
    <2>2. now < end[s] /\ s \in Streams
      BY <2>1, LeaseCovers DEF ServedWithinLease, Typed
    <2>3. end[s] =< barredAt[s] + Lease
      BY <2>2 DEF IInv, BarLease
    <2>. QED BY <2>1, <2>2, <2>3, StreamsAssumption DEF Typed
  <1>. QED BY <1>1, Invariance, PTL

(* The engine never locks out the epoch the database holds open, and no second
   epoch is ever open. *)
THEOREM EpochCorrect == Spec => []OpenEpochIsAccepted
  <1>1. IInv => OpenEpochIsAccepted
    <2>. SUFFICES ASSUME IInv, NEW g \in 1..last \ over
                  PROVE  Acceptable(g) /\ \A h \in 1..last \ over : g = h
      BY DEF OpenEpochIsAccepted
    <2>1. g = last /\ \A h \in 1..last \ over : g = h
      BY DEF IInv, EpochInv
    <2>2. cur \in Nat /\ last \in Nat /\ cur =< last
      BY DEF IInv, TypeOK
    <2>3. cur = g => ~retired
      BY DEF IInv, EpochInv
    <2>. QED BY <2>1, <2>2, <2>3 DEF Acceptable
  <1>. QED BY <1>1, Invariance, PTL

(* Once the engine was told to revoke a stream, nothing under way brings its
   viewer back. *)
THEOREM RevokedCorrect == Spec => []RevokedStaysOut
  <1>1. IInv => RevokedStaysOut
    BY DEF IInv, TombState, RevokedStaysOut
  <1>. QED BY <1>1, Invariance, PTL
=================================================================================
