--------------------------------- MODULE Streams --------------------------------
(***************************************************************************)
(* Live streams of one camera of AEGIS Monitor (IDEA2).  The camera must   *)
(* not run without an operator who may watch it now.  Each stream is an    *)
(* HTTP request that Monitor proxies (server/routes/api.js); for it Monitor *)
(* takes a demand in PostgreSQL under the camera's current producer epoch  *)
(* (server/db/producerLifecycle.js), both leases on the database's clock,  *)
(* and sends the Detection Engine grants cut from that lease               *)
(* (server/auth/producerDemandGrant.js).  The engine's StreamHub           *)
(* (aegis_engine/stream_hub.py, local_api.py) keeps what it was granted on *)
(* its own clock.  Requests to the engine may be late, repeated or lost,   *)
(* and either side may be restarted.                                       *)
(***************************************************************************)
EXTENDS Naturals

CONSTANTS
    Streams,  (* requests for the live stream; each has a demand owner of its own *)
    Lease,    (* DEMAND_LEASE_MS = PRODUCER_LEASE_MS, and the longest life of a grant *)
    Skew,     (* the clock difference mintDemandGrant subtracts *)
    MaxTime,  (* bound on the clocks *)
    MaxBoot   (* bound on the starts of the engine *)

ASSUME StreamsAssumption ==
    Lease \in Nat /\ Skew \in Nat /\ Skew < Lease /\ MaxTime \in Nat /\ MaxBoot \in Nat

VARIABLES
    now,        (* the database's clock *)
    (* PostgreSQL *)
    last,       (* newest producer_generation *)
    over,       (* generations with released_at set *)
    epochEnd,   (* lease_expires_at of an epoch *)
    gen, end,   (* producer_generation and lease_expires_at of a stream's demand *)
    live,       (* streams whose demand has no released_at *)
    barredAt,   (* since when the stream's user may not watch; 0: may watch *)
    (* Monitor *)
    pc,         (* step of the proxy *)
    bootOf,     (* engineBoot: the engine it attached to; 0: none *)
    net,        (* requests to the engine that may still arrive *)
    (* StreamHub *)
    hubNow,     (* authority_now_ms *)
    boot,       (* producer_boot_id *)
    cur,        (* _current_producer_generation; 0: None *)
    retired,    (* _producer_generation_retired *)
    grant,      (* _grants: the attach grant of each stream *)
    held,       (* _demands *)
    viewers,    (* _viewer_demands *)
    (* history *)
    opened,     (* viewers ever opened for a stream *)
    revoked     (* streams this engine was told to revoke *)

database == <<last, over, epochEnd, gen, end, live>>
monitor == <<pc, bootOf, net>>
hub == <<cur, retired, grant, held, viewers, opened, revoked>>
vars == <<now, database, barredAt, monitor, hubNow, boot, hub>>

Message == [kind : {"attach", "refresh", "revoke", "retire"}, stream : Streams, boot : Nat, expiry : Nat]
NoGrant == [state |-> "NONE", expiry |-> 0]
NoDemand == [revoked |-> FALSE, expiry |-> 0]

(* A grant opens at most one viewer. *)
TypeOK ==
    /\ now \in Nat /\ hubNow \in Nat /\ boot \in Nat
    /\ last \in Nat /\ cur \in 0..last /\ over \subseteq 1..last
    /\ epochEnd \in [1..last -> Nat]
    /\ gen \in [Streams -> 0..last] /\ end \in [Streams -> Nat]
    /\ live \subseteq Streams
    /\ barredAt \in [Streams -> Nat] /\ bootOf \in [Streams -> Nat]
    /\ pc \in [Streams -> {"IDLE", "OPEN", "DONE"}]
    /\ net \subseteq Message
    /\ retired \in BOOLEAN
    /\ grant \in [Streams -> [state : {"NONE", "RESERVED", "USED", "REVOKED"}, expiry : Nat]]
    /\ held \in [Streams -> [revoked : BOOLEAN, expiry : Nat]]
    /\ viewers \subseteq Streams /\ revoked \subseteq Streams
    /\ opened \in [Streams -> 0..1]

Init ==
    /\ now = 1 /\ hubNow = 1 /\ boot = 1
    /\ last = 0 /\ over = {} /\ epochEnd = [g \in 1..last |-> 0] /\ live = {}
    /\ gen = [s \in Streams |-> 0] /\ end = [s \in Streams |-> 0]
    /\ barredAt = [s \in Streams |-> 0]
    /\ pc = [s \in Streams |-> "IDLE"] /\ bootOf = [s \in Streams |-> 0] /\ net = {}
    /\ cur = 0 /\ retired = FALSE /\ viewers = {}
    /\ grant = [s \in Streams |-> NoGrant] /\ held = [s \in Streams |-> NoDemand]
    /\ opened = [s \in Streams |-> 0] /\ revoked = {}

-----------------------------------------------------------------------------
(* PostgreSQL.  A transaction holds the camera's row and is one step. *)

(* retire, first half: the demands it leaves without released_at. *)
StillLive(L) == {s \in L : now < end[s] /\ now < epochEnd[gen[s]] /\ gen[s] \notin over}

(* retire, second half: an epoch that ran out or has no live demand is over. *)
OverNow(L) == over \cup {g \in 1..last : epochEnd[g] <= now \/ \A s \in L : gen[s] # g}

(* A faulty variant, by which ServedWithinLease can fail: the clocks are taken to agree. *)
GrantExpiryUncut(lease) == lease

(* mintDemandGrant: nothing is added to the lease the database gave. *)
GrantExpiry(lease) == lease - Skew

(* Messages sent by the request s to the engine it attached to. *)
Send(kinds, s, expiry) ==
    net' = net \cup {[kind |-> k, stream |-> s, boot |-> bootOf'[s], expiry |-> expiry] : k \in kinds}

-----------------------------------------------------------------------------
(* The engine. *)

Authentic(m) == m.boot = boot /\ hubNow < m.expiry /\ m.expiry <= hubNow + Lease

(* _prepare_producer_generation_locked: a newer generation sweeps out all that
   an older one was granted. *)
Acceptable(g) == g > cur \/ (g = cur /\ ~retired)

Adopt(g) == cur' = (IF g > cur THEN g ELSE cur) /\ retired' = (retired /\ g <= cur)

Kept(g, f, none) == IF g > cur THEN [s \in Streams |-> none] ELSE f

KeptViewers(g) == IF g > cur THEN {} ELSE viewers

-----------------------------------------------------------------------------
(* Faulty variants of the operations above and below, one plausible slip each.
   No behaviour of Spec uses them; substituted for their original they show
   that the property named beside them can fail. *)

(* RevocationBites: a renewal relies on the check made when the stream opened. *)
RenewUnchecked(s) ==
    /\ pc[s] = "OPEN" /\ bootOf[s] # 0 /\ now + Lease <= MaxTime
    /\ s \in StillLive(live)
    /\ live' = StillLive(live) /\ over' = OverNow(live')
    /\ end' = [end EXCEPT ![s] = now + Lease]
    /\ epochEnd' = [epochEnd EXCEPT ![gen[s]] = now + Lease]
    /\ UNCHANGED <<last, gen, pc, bootOf>>
    /\ Send(IF bootOf[s] = boot THEN {"refresh"} ELSE {}, s, GrantExpiry(now + Lease))
    /\ UNCHANGED <<now, barredAt, hubNow, boot, hub>>

(* OpenEpochIsAccepted: the epoch is retired with every stream that ends. *)
FarewellAlways(s, done) == IF bootOf[s] = 0 THEN {} ELSE {"revoke", "retire"}

(* RevokedStaysOut: a revoked demand is forgotten, not kept as a tombstone. *)
RevokeForgets(m) ==
    /\ m.kind = "revoke" /\ Authentic(m) /\ gen[m.stream] >= cur
    /\ Adopt(gen[m.stream])
    /\ held' = [Kept(gen[m.stream], held, NoDemand) EXCEPT ![m.stream] = NoDemand]
    /\ grant' = [Kept(gen[m.stream], grant, NoGrant) EXCEPT ![m.stream] = NoGrant]
    /\ viewers' = KeptViewers(gen[m.stream]) \ {m.stream}
    /\ revoked' = revoked \cup {m.stream}
    /\ UNCHANGED <<now, database, barredAt, monitor, hubNow, boot, opened>>

(* TypeOK: the reservation is not marked as used, and a stream may attach again. *)
AttachAgain(s) ==
    /\ grant[s].state = "RESERVED" /\ held[s].expiry > 0 /\ ~held[s].revoked
    /\ s \notin viewers /\ Acceptable(gen[s])
    /\ viewers' = viewers \cup {s}
    /\ opened' = [opened EXCEPT ![s] = @ + 1]
    /\ UNCHANGED <<now, database, barredAt, monitor, hubNow, boot, cur, retired, grant, held, revoked>>

-----------------------------------------------------------------------------
(* Monitor: one request for the stream, from acquire to its clean-up. *)

(* acquire: checks the user's authority, retires what ran out, joins the open
   epoch or opens the next one, and takes a demand; the epoch then ends with the
   newest demand.  The answer may be lost, the client gone or the engine silent;
   otherwise the attach grant leaves with the request for the stream. *)
Acquire(s) ==
    /\ pc[s] = "IDLE" /\ barredAt[s] = 0 /\ now + Lease <= MaxTime
    /\ over' = OverNow(StillLive(live))
    /\ \E g \in IF 1..last \subseteq over' THEN {last + 1} ELSE 1..last \ over' :
        /\ gen' = [gen EXCEPT ![s] = g]
        /\ last' = IF g > last THEN g ELSE last
        /\ epochEnd' = [h \in 1..last' |-> IF h = g THEN now + Lease ELSE epochEnd[h]]
    /\ live' = StillLive(live) \cup {s}
    /\ end' = [end EXCEPT ![s] = now + Lease]
    /\ \E answer \in {"LOST", "NO_ENGINE", "ATTACH"} :
        /\ pc' = [pc EXCEPT ![s] = IF answer = "LOST" THEN "DONE" ELSE "OPEN"]
        /\ bootOf' = [bootOf EXCEPT ![s] = IF answer = "ATTACH" THEN boot ELSE 0]
        /\ Send(IF answer = "ATTACH" THEN {"attach"} ELSE {}, s, GrantExpiry(now + Lease))
    /\ UNCHANGED <<now, barredAt, hubNow, boot, hub>>

(* revalidate: the session and the access are read again, the demand is renewed,
   and the engine, if it is still the same, is sent the new lease.  A renewal
   that is denied or unanswered, or an engine that does not take it, ends the
   stream, after a second attempt at most. *)
Renew(s) ==
    /\ pc[s] = "OPEN" /\ bootOf[s] # 0 /\ barredAt[s] = 0 /\ now + Lease <= MaxTime
    /\ s \in StillLive(live)
    /\ live' = StillLive(live) /\ over' = OverNow(live')
    /\ end' = [end EXCEPT ![s] = now + Lease]
    /\ epochEnd' = [epochEnd EXCEPT ![gen[s]] = now + Lease]
    /\ UNCHANGED <<last, gen, pc, bootOf>>
    /\ Send(IF bootOf[s] = boot THEN {"refresh"} ELSE {}, s, GrantExpiry(now + Lease))
    /\ UNCHANGED <<now, barredAt, hubNow, boot, hub>>

(* The controls sent after a release: the epoch is retired only if the release
   left it over. *)
Farewell(s, done) ==
    IF bootOf[s] = 0 THEN {} ELSE {"revoke"} \cup IF gen[s] \in done THEN {"retire"} ELSE {}

(* The stream ends: the browser, the engine, a watchdog or a revalidation ended
   it.  release goes by the handle alone, whoever may watch; then the engine is
   told.  If the database does not answer, the leases end it all. *)
Release(s) ==
    /\ pc[s] = "OPEN" /\ pc' = [pc EXCEPT ![s] = "DONE"]
    /\ \/ /\ IF s \in live /\ gen[s] \notin over
               THEN live' = StillLive(live \ {s}) /\ over' = OverNow(live')
               ELSE UNCHANGED <<live, over>>
          /\ UNCHANGED bootOf
          /\ Send(Farewell(s, over'), s, now + Lease - 1)
       \/ UNCHANGED <<live, over, bootOf, net>>
    /\ UNCHANGED <<now, last, epochEnd, gen, end, barredAt, hubNow, boot, hub>>

(* Monitor dies: no stream is cleaned up. *)
MonitorRestart ==
    /\ pc' = [s \in Streams |-> IF pc[s] = "IDLE" THEN "IDLE" ELSE "DONE"]
    /\ UNCHANGED <<now, database, barredAt, bootOf, net, hubNow, boot, hub>>

(* The user is deactivated, or the camera assigned to someone else. *)
Bar(s) ==
    /\ pc[s] = "OPEN" /\ barredAt[s] = 0 /\ barredAt' = [barredAt EXCEPT ![s] = now]
    /\ UNCHANGED <<now, database, monitor, hubNow, boot, hub>>

-----------------------------------------------------------------------------
(* The engine: StreamHub, each method under its lock.  Every method first sweeps
   what has run out, so it is swept here as the clock passes. *)

(* reserve_demand: the route accepts an attach grant once. *)
Reserve(m) ==
    LET s == m.stream IN
    /\ m.kind = "attach" /\ Authentic(m)
    /\ grant[s].state = "NONE" /\ ~held[s].revoked /\ Acceptable(gen[s])
    /\ Adopt(gen[s])
    /\ grant' = [Kept(gen[s], grant, NoGrant) EXCEPT ![s] = [state |-> "RESERVED", expiry |-> m.expiry]]
    /\ held' = IF held[s].expiry > 0 THEN held
               ELSE [Kept(gen[s], held, NoDemand) EXCEPT ![s] = [revoked |-> FALSE, expiry |-> m.expiry]]
    /\ viewers' = KeptViewers(gen[s])
    /\ UNCHANGED <<now, database, barredAt, monitor, hubNow, boot, opened, revoked>>

(* attach_demand: the body of the response begins; a newer generation, a revoke
   or a retirement may have come first. *)
Attach(s) ==
    /\ grant[s].state = "RESERVED" /\ held[s].expiry > 0 /\ ~held[s].revoked
    /\ s \notin viewers /\ Acceptable(gen[s])
    /\ grant' = [grant EXCEPT ![s].state = "USED"]
    /\ viewers' = viewers \cup {s}
    /\ opened' = [opened EXCEPT ![s] = @ + 1]
    /\ UNCHANGED <<now, database, barredAt, monitor, hubNow, boot, cur, retired, held, revoked>>

(* control_demand. *)
Refresh(m) ==
    LET s == m.stream IN
    /\ m.kind = "refresh" /\ Authentic(m)
    /\ gen[s] = cur /\ ~retired
    /\ held[s].expiry > 0 /\ ~held[s].revoked /\ m.expiry > held[s].expiry
    /\ held' = [held EXCEPT ![s].expiry = m.expiry]
    /\ UNCHANGED <<now, database, barredAt, monitor, hubNow, boot, cur, retired, grant, viewers, opened, revoked>>

(* The tombstone keeps out an attach grant that was under way, for as long as
   any grant can live. *)
Revoke(m) ==
    LET s == m.stream IN
    /\ m.kind = "revoke" /\ Authentic(m) /\ gen[s] >= cur
    /\ Adopt(gen[s])
    /\ held' = [Kept(gen[s], held, NoDemand) EXCEPT ![s] = [revoked |-> TRUE, expiry |-> hubNow + Lease]]
    /\ grant' = [t \in Streams |-> LET kept == Kept(gen[s], grant, NoGrant)[t]
                                   IN IF t = s /\ kept.state # "NONE" THEN [kept EXCEPT !.state = "REVOKED"] ELSE kept]
    /\ viewers' = KeptViewers(gen[s]) \ {s}
    /\ revoked' = revoked \cup {s}
    /\ UNCHANGED <<now, database, barredAt, monitor, hubNow, boot, opened>>

(* A late retirement of an older epoch does nothing to a newer one. *)
Retire(m) ==
    LET g == gen[m.stream] IN
    /\ m.kind = "retire" /\ Authentic(m) /\ g >= cur
    /\ cur' = g /\ retired' = TRUE /\ viewers' = {}
    /\ grant' = Kept(g, grant, NoGrant) /\ held' = Kept(g, held, NoDemand)
    /\ UNCHANGED <<now, database, barredAt, monitor, hubNow, boot, opened, revoked>>

(* remove_viewer: the connection ends. *)
Disconnect(s) ==
    /\ s \in viewers /\ viewers' = viewers \ {s}
    /\ UNCHANGED <<now, database, barredAt, monitor, hubNow, boot, cur, retired, grant, held, opened, revoked>>

(* _sweep_locked as the engine's clock passes. *)
HubPass ==
    /\ hubNow < MaxTime /\ hubNow < now + Skew
    /\ hubNow' = hubNow + 1
    /\ held' = [s \in Streams |-> IF held[s].expiry > hubNow' THEN held[s] ELSE NoDemand]
    /\ grant' = [s \in Streams |-> IF grant[s].expiry > hubNow' THEN grant[s] ELSE NoGrant]
    /\ viewers' = {s \in viewers : held[s].expiry > hubNow'}
    /\ net' = {m \in net : m.expiry > hubNow'}
    /\ UNCHANGED <<now, database, barredAt, pc, bootOf, boot, cur, retired, opened, revoked>>

(* The engine is started again under a new boot id, which no older grant names. *)
EngineRestart ==
    /\ boot < MaxBoot /\ boot' = boot + 1
    /\ cur' = 0 /\ retired' = FALSE /\ viewers' = {} /\ revoked' = {} /\ net' = {}
    /\ grant' = [s \in Streams |-> NoGrant] /\ held' = [s \in Streams |-> NoDemand]
    /\ UNCHANGED <<now, database, barredAt, pc, bootOf, hubNow, opened>>

-----------------------------------------------------------------------------
Pass ==
    /\ now < MaxTime /\ now < hubNow + Skew /\ now' = now + 1
    /\ UNCHANGED <<database, barredAt, monitor, hubNow, boot, hub>>

Monitor == MonitorRestart \/ \E s \in Streams : Acquire(s) \/ Renew(s) \/ Release(s) \/ Bar(s)
Engine ==
    \/ HubPass \/ EngineRestart
    \/ \E s \in Streams : Attach(s) \/ Disconnect(s)
    \/ \E m \in net : Reserve(m) \/ Refresh(m) \/ Revoke(m) \/ Retire(m)
Next == Pass \/ Monitor \/ Engine

Spec == Init /\ [][Next]_vars

-----------------------------------------------------------------------------
(* The engine serves a viewer only while the database's lease of its demand
   holds, although it hears of the lease late and keeps it on a clock of its
   own: the grant is cut by the difference the two clocks may have. *)
ServedWithinLease == \A s \in viewers : now < end[s]

(* A user who loses the right to watch is off the camera within one lease,
   whatever was renewed, refreshed, delayed or repeated meanwhile. *)
RevocationBites == \A s \in viewers : barredAt[s] # 0 => now < barredAt[s] + Lease

(* The engine never locks out the epoch the database holds open: it has adopted
   no newer generation, and has not retired this one, although a retirement is
   sent after the transaction it rests on and may come late.  No second epoch is
   ever open, which the unique index would answer with an error. *)
OpenEpochIsAccepted ==
    \A g \in 1..last \ over : Acceptable(g) /\ \A h \in 1..last \ over : g = h

(* Once the engine was told to revoke a stream, no attach or refresh that was
   still under way brings its viewer back. *)
RevokedStaysOut == revoked \cap viewers = {}
=================================================================================
