------------------------------- MODULE NodeSessions ------------------------------
(***************************************************************************)
(* One detection node of AEGIS Monitor (IDEA2) and its identity agent: the *)
(* challenge, the session and the signed write requests                    *)
(* (server/nodeIdentity, routes/agentAuth.js,                              *)
(* middleware/authenticateDetectionIngest.js; aegis_identity_agent).       *)
(* Monitor answers a request in two turns, with a read of the registry in  *)
(* between.  The agent sends one request at a time but gives up on a slow  *)
(* one, so requests reach Monitor late, out of order, repeated or never.   *)
(* A session is named by the challenge it was opened with.                 *)
(***************************************************************************)
EXTENDS Naturals, FiniteSets

CONSTANTS
    MaxChallenge,  (* bound on the challenges *)
    MaxSequence,   (* bound on the requests of one session *)
    MaxRequests,   (* bound on the requests under way *)
    MaxChecks,     (* bound on those being checked at once *)
    MaxTime,       (* bound on the clock *)
    ChallengeTtl, SessionTtl,
    MaxAge,        (* how old the timestamp of a request may be, and how long its nonce is kept *)
    MaxPerNode,    (* challenges a node may have open *)
    Window,        (* bits of the replay bitmap *)
    MaxNonces      (* nonces a session keeps *)

ASSUME NodeSessionsAssumption ==
    /\ {MaxChallenge, MaxSequence, MaxRequests, MaxChecks, MaxTime, MaxAge, MaxPerNode, MaxNonces} \subseteq Nat
    /\ {ChallengeTtl, SessionTtl, Window} \subseteq Nat \ {0}

Ids == 1..MaxChallenge
Request == [session : Ids, sequence : 1..MaxSequence, time : 0..MaxTime]
(* A message may be delivered any number of times, twice at once at most. *)
Copies == {1, 2}

VARIABLES
    now,
    (* Monitor *)
    issued,      (* newest challenge *)
    challenges,  (* ChallengeStore.#entries *)
    born,        (* issuedAtMs of the challenge, and then of its session *)
    verifying,   (* verify calls between their two turns *)
    sessions,    (* AgentSessionStore.#sessions *)
    current,     (* #nodeSessions of the node; 0: none *)
    highest, seen, nonces,  (* the ReplayWindow of each session *)
    checking,    (* write requests between their two turns, with the session object they hold *)
    (* the agent *)
    mine,        (* its session; 0: none *)
    sequence,    (* its SequenceAllocator *)
    asked,       (* the challenge it waits to see verified; 0: none *)
    (* the network *)
    net,         (* write requests that may still arrive *)
    (* history *)
    made,        (* sessions opened with a challenge *)
    accepted,    (* requests let through to the routes *)
    again        (* and those let through once more *)

store == <<issued, challenges, born, verifying, sessions, current>>
replay == <<highest, seen, nonces>>
agent == <<mine, sequence, asked>>
vars == <<now, store, replay, checking, agent, net, made, accepted, again>>

(* A challenge opens at most one session. *)
TypeOK ==
    /\ now \in 0..MaxTime
    /\ issued \in 0..MaxChallenge
    /\ challenges \subseteq Ids /\ sessions \subseteq Ids
    /\ born \in [Ids -> 0..MaxTime]
    /\ verifying \subseteq Ids \X Copies
    /\ {current, mine, asked} \subseteq Ids \cup {0}
    /\ highest \in [Ids -> 0..MaxSequence] /\ seen \in [Ids -> SUBSET (1..MaxSequence)]
    /\ nonces \in [Ids -> SUBSET Request]
    /\ net \subseteq Request
    /\ checking \subseteq Request \X Copies /\ {accepted, again} \subseteq SUBSET Request
    /\ sequence \in 0..MaxSequence
    /\ made \in [Ids -> 0..1]

Init ==
    /\ now = 0
    /\ issued = 0 /\ challenges = {} /\ verifying = {} /\ sessions = {} /\ current = 0
    /\ born = [c \in Ids |-> 0]
    /\ highest = [c \in Ids |-> 0] /\ seen = [c \in Ids |-> {}] /\ nonces = [c \in Ids |-> {}]
    /\ checking = {}
    /\ mine = 0 /\ sequence = 0 /\ asked = 0
    /\ net = {}
    /\ made = [c \in Ids |-> 0] /\ accepted = {} /\ again = {}

-----------------------------------------------------------------------------
(* A faulty variant, by which AcceptedOnce can fail: a sequence below the window
   is not refused. *)
FreshBelow(s, q) == q > highest[s] \/ q \notin seen[s]

(* acceptSequence: above the highest, or within the window and not seen. *)
Fresh(s, q) == q > highest[s] \/ (q + Window > highest[s] /\ q \notin seen[s])

Timely(r, t) == t <= r.time + MaxAge

-----------------------------------------------------------------------------
(* Faulty variants of the operations above and below, one plausible slip each.
   No behaviour of Spec uses them; substituted for their original they show
   that the property named beside them can fail. *)

(* TypeOK: the challenge is not looked up again after the await. *)
VerifyTwice(c, i) ==
    /\ <<c, i>> \in verifying /\ verifying' = verifying \ {<<c, i>>}
    /\ challenges' = challenges \ {c}
    /\ sessions' = (sessions \ {current}) \cup {c} /\ current' = c
    /\ born' = [born EXCEPT ![c] = now]
    /\ made' = [made EXCEPT ![c] = @ + 1]
    /\ UNCHANGED <<now, issued, replay, checking, agent, net, accepted, again>>

-----------------------------------------------------------------------------
(* The agent. *)

(* ensure_session: without a session, or with one near its end, it asks for a
   challenge; one that never comes leaves it what it has. *)
Ask ==
    /\ asked = 0 /\ issued < MaxChallenge
    /\ Cardinality(challenges) < MaxPerNode
    /\ issued' = issued + 1 /\ challenges' = challenges \cup {issued'}
    /\ born' = [born EXCEPT ![issued'] = now]
    /\ asked' \in {0, issued'}
    /\ UNCHANGED <<now, verifying, sessions, current, replay, checking, mine, sequence,
                   net, made, accepted, again>>

(* submit: the request is numbered, signed and sent.  The agent does not send it
   again, and may give up waiting for the answer. *)
Submit ==
    /\ mine # 0 /\ asked = 0 /\ sequence < MaxSequence
    /\ sequence' = sequence + 1
    /\ Cardinality(net) < MaxRequests
    /\ net' = net \cup {[session |-> mine, sequence |-> sequence', time |-> now]}
    /\ UNCHANGED <<now, store, replay, checking, mine, asked, made, accepted, again>>

(* invalidate: a request was refused, or the agent starts again. *)
Invalidate ==
    /\ mine' = 0 /\ sequence' = 0 /\ asked' = 0
    /\ UNCHANGED <<now, store, replay, checking, net, made, accepted, again>>

-----------------------------------------------------------------------------
(* Monitor. *)

(* verify, first turn: the challenge is there.  The agent waits for the answer,
   or its HTTP timeout comes first. *)
VerifyBegin(c, i) ==
    /\ c \in challenges /\ <<c, i>> \notin verifying
    /\ c = asked \/ \E j \in Copies : <<c, j>> \in verifying
    /\ verifying' = verifying \cup {<<c, i>>} /\ asked' \in {0, asked}
    /\ UNCHANGED <<now, issued, challenges, born, sessions, current, replay, checking, mine, sequence,
                   net, made, accepted, again>>

(* verify, second turn: if the registry agrees (the node and its camera active,
   the key the same, the signature by that key) and the challenge is still there,
   it is spent, and the new session takes the place of the old one. *)
VerifyEnd(c, i) ==
    /\ <<c, i>> \in verifying /\ verifying' = verifying \ {<<c, i>>}
    /\ \E agrees \in BOOLEAN : IF agrees /\ c \in challenges
         THEN /\ challenges' = challenges \ {c}
              /\ sessions' = (sessions \ {current}) \cup {c} /\ current' = c
              /\ born' = [born EXCEPT ![c] = now]
              /\ made' = [made EXCEPT ![c] = @ + 1]
              /\ IF asked = c THEN mine' = c /\ sequence' = 0 ELSE UNCHANGED <<mine, sequence>>
         ELSE UNCHANGED <<challenges, sessions, current, born, made, mine, sequence>>
    /\ asked' = IF asked = c THEN 0 ELSE asked
    /\ UNCHANGED <<now, issued, replay, checking, net, accepted, again>>

(* authenticateDetectionIngest, first turn: the timestamp and the session. *)
Arrive(r, i) ==
    /\ Cardinality(checking) < MaxChecks
    /\ r \in net /\ <<r, i>> \notin checking /\ (i = 2 => <<r, 1>> \in checking)
    /\ r.session \in sessions
    /\ checking' = checking \cup {<<r, i>>}
    /\ UNCHANGED <<now, store, replay, agent, net, made, accepted, again>>

(* Second turn: the registry agrees with the session, and the session's replay
   window takes the request; a nonce it cannot take undoes the sequence. *)
Accept(r, i) ==
    LET s == r.session IN
    /\ <<r, i>> \in checking /\ checking' = checking \ {<<r, i>>}
    /\ \E agrees \in BOOLEAN :
         IF agrees /\ Fresh(s, r.sequence) /\ r \notin nonces[s] /\ Cardinality(nonces[s]) < MaxNonces
           THEN /\ highest' = [highest EXCEPT ![s] = IF r.sequence > @ THEN r.sequence ELSE @]
                /\ seen' = [seen EXCEPT ![s] = {q \in @ \cup {r.sequence} : q + Window > highest'[s]}]
                /\ nonces' = [nonces EXCEPT ![s] = @ \cup {r}]
                /\ accepted' = accepted \cup {r} /\ again' = again \cup (accepted \cap {r})
           ELSE UNCHANGED <<replay, accepted, again>>
    /\ UNCHANGED <<now, store, agent, net, made>>

(* The clock passes.  Both stores and the nonces begin every call by forgetting
   what ran out; a request that is too old, or of a session that is gone, can only
   be refused; and of a session object no request holds, nothing is left. *)
Pass ==
    /\ now < MaxTime /\ now' = now + 1
    /\ challenges' = {c \in challenges : now' < born[c] + ChallengeTtl}
    /\ sessions' = {s \in sessions : now' < born[s] + SessionTtl}
    /\ current' = IF current \in sessions' THEN current ELSE 0
    /\ net' = {r \in net : Timely(r, now') /\ r.session \in sessions'}
    /\ LET Used(s) == s \in sessions' \/ \E x \in checking : x[1].session = s
       IN /\ nonces' = [s \in Ids |-> {r \in nonces[s] : Timely(r, now') /\ Used(s)}]
          /\ highest' = [s \in Ids |-> IF Used(s) THEN highest[s] ELSE 0]
          /\ seen' = [s \in Ids |-> IF Used(s) THEN seen[s] ELSE {}]
    /\ accepted' = {r \in accepted : r \in net' \/ \E i \in Copies : <<r, i>> \in checking}
    /\ UNCHANGED <<issued, born, verifying, checking, agent, made, again>>

(* Monitor starts again: its stores are empty, its requests are gone. *)
MonitorRestart ==
    /\ challenges' = {} /\ verifying' = {} /\ sessions' = {} /\ current' = 0 /\ checking' = {}
    /\ UNCHANGED <<now, issued, born, replay, agent, net, made, accepted, again>>

-----------------------------------------------------------------------------
Agent == Ask \/ Submit \/ Invalidate
Monitor ==
    \/ Pass \/ MonitorRestart
    \/ \E c \in Ids, i \in Copies : VerifyBegin(c, i) \/ VerifyEnd(c, i)
    \/ \E r \in net, i \in Copies : Arrive(r, i)
    \/ \E x \in checking : Accept(x[1], x[2])
Next == Agent \/ Monitor

Spec == Init /\ [][Next]_vars

-----------------------------------------------------------------------------
(* A signed request is let through to the routes at most once, though copies of
   it are checked at the same time, later requests overtake it, nonces run out
   and the sequence window moves past it. *)
AcceptedOnce == again = {}

(* The node has one session, the one #nodeSessions names, through renewal,
   expiry, repeated proofs and restarts. *)
OneSession == sessions = IF current = 0 THEN {} ELSE {current}

(* The design: a request of a replaced session is refused ("missing/expired/replaced
   Agent session", write not allowed).  The session is looked up before the registry
   is awaited and not again, so one replaced meanwhile is still served.  One that
   ran out or was lost with a restart (current = 0) is not in question here. *)
ReplacedIsRefused == [][\A x \in accepted' \ accepted : current \in {0, x.session}]_vars
=================================================================================
