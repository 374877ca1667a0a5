----------------------------- MODULE NodeSessions_proofs ----------------------------
(***************************************************************************)
(* Theorems about NodeSessions, for every bound: a signed request is let   *)
(* through at most once, and the node has at most one session.             *)
(***************************************************************************)
EXTENDS NodeSessions, TLAPS

(* A request that was let through is refused by the replay window for as long as
   a copy of it can still be taken: its sequence lies below the window, or in it
   and was seen. *)
Spent(r) ==
    /\ r.sequence <= highest[r.session]
    /\ r.sequence + Window > highest[r.session] => r.sequence \in seen[r.session]
SpentInv == \A r \in accepted : r \in Request /\ Spent(r)

(* A challenge in the store was issued and has opened no session. *)
UnusedInv ==
    /\ \A c \in Ids : c > issued => made[c] = 0
    /\ \A c \in challenges : made[c] = 0 /\ c <= issued

IInv == TypeOK /\ UnusedInv /\ SpentInv /\ AcceptedOnce /\ OneSession

-----------------------------------------------------------------------------
(* The bounds are natural numbers. *)
LEMMA Bounds ==
    /\ MaxChallenge \in Nat /\ MaxSequence \in Nat /\ MaxTime \in Nat
    /\ Window \in Nat \ {0} /\ 0 \notin Ids /\ Ids \subseteq Nat
  BY NodeSessionsAssumption DEF Ids

(* A request has a session, a sequence number and a time. *)
LEMMA RequestParts ==
    ASSUME NEW r \in Request
    PROVE  r.session \in Ids /\ r.sequence \in 1..MaxSequence /\ r.time \in 0..MaxTime
  BY DEF Request

(* Before the first challenge all of it holds. *)
LEMMA InitHolds == Init => IInv
  BY Bounds DEF Init, IInv, TypeOK, UnusedInv, SpentInv, AcceptedOnce, OneSession

-----------------------------------------------------------------------------
(* Every step keeps the types; a challenge that opens a session had opened none. *)
LEMMA TypeStep == IInv /\ [Next]_vars => TypeOK'
  <1>. SUFFICES ASSUME IInv, [Next]_vars PROVE TypeOK'
    OBVIOUS
  <1>. USE Bounds
  <1>1. TypeOK /\ UnusedInv
    BY DEF IInv
  <1>2. CASE UNCHANGED vars
    BY <1>1, <1>2 DEF TypeOK, vars, store, replay, agent
  <1>3. CASE Ask
    <2>1. issued + 1 \in Ids
      BY <1>1, <1>3 DEF Ask, TypeOK, Ids
    <2>. QED BY <1>1, <1>3, <2>1 DEF Ask, TypeOK, replay
  <1>4. CASE Submit
    <2>1. sequence' \in 1..MaxSequence /\ mine \in Ids
      BY <1>1, <1>4 DEF Submit, TypeOK
    <2>2. [session |-> mine, sequence |-> sequence', time |-> now] \in Request
      BY <1>1, <2>1 DEF Request, TypeOK
    <2>. QED BY <1>1, <1>4, <2>1, <2>2 DEF Submit, TypeOK, store, replay
  <1>5. CASE Invalidate
    BY <1>1, <1>5 DEF Invalidate, TypeOK, store, replay
  <1>6. CASE Pass
    <2>1. challenges' \subseteq challenges /\ sessions' \subseteq sessions /\ net' \subseteq net
      BY <1>6 DEF Pass
    <2>2. current' \in {0, current} /\ accepted' \subseteq accepted
      BY <1>6 DEF Pass
    <2>3. now' \in 0..MaxTime
      BY <1>1, <1>6 DEF Pass, TypeOK
    <2>4. nonces' \in [Ids -> SUBSET Request]
      BY <1>1, <1>6 DEF Pass, TypeOK
    <2>5. highest' \in [Ids -> 0..MaxSequence] /\ seen' \in [Ids -> SUBSET (1..MaxSequence)]
      BY <1>1, <1>6 DEF Pass, TypeOK
    <2>6. UNCHANGED <<issued, born, verifying, checking, agent, made, again>>
      BY <1>6 DEF Pass
    <2>. QED BY <1>1, <2>1, <2>2, <2>3, <2>4, <2>5, <2>6 DEF TypeOK, agent
  <1>7. CASE MonitorRestart
    BY <1>1, <1>7 DEF MonitorRestart, TypeOK, agent, replay
  <1>8. ASSUME NEW c \in Ids, NEW i \in Copies, VerifyBegin(c, i) PROVE TypeOK'
    BY <1>1, <1>8 DEF VerifyBegin, TypeOK, replay
  <1>9. ASSUME NEW c \in Ids, NEW i \in Copies, VerifyEnd(c, i) PROVE TypeOK'
    <2>1. c \in challenges => made[c] + 1 = 1
      BY <1>1 DEF UnusedInv
    <2>2. made' \in [Ids -> 0..1]
      BY <1>1, <1>9, <2>1 DEF VerifyEnd, TypeOK
    <2>3. /\ verifying' \subseteq verifying /\ challenges' \subseteq challenges
          /\ sessions' \subseteq sessions \cup {c} /\ current' \in {current, c}
          /\ mine' \in {mine, c} /\ sequence' \in {sequence, 0} /\ asked' \in {asked, 0}
          /\ born' \in {born, [born EXCEPT ![c] = now]}
      BY <1>9 DEF VerifyEnd
    <2>4. born' \in [Ids -> 0..MaxTime]
      BY <1>1, <2>3 DEF TypeOK
    <2>5. UNCHANGED <<now, issued, replay, checking, net, accepted, again>>
      BY <1>9 DEF VerifyEnd
    <2>. QED BY <1>1, <2>2, <2>3, <2>4, <2>5 DEF TypeOK, replay
  <1>10. ASSUME NEW r \in net, NEW i \in Copies, Arrive(r, i) PROVE TypeOK'
    BY <1>1, <1>10 DEF Arrive, TypeOK, replay, store, agent
  <1>11. ASSUME NEW x \in checking, Accept(x[1], x[2]) PROVE TypeOK'
    <2>. DEFINE r == x[1]
    <2>1. r \in Request /\ r.session \in Ids /\ r.sequence \in 1..MaxSequence
      BY <1>1, RequestParts DEF TypeOK
    <2>2. highest' \in [Ids -> 0..MaxSequence]
      BY <1>1, <1>11, <2>1 DEF Accept, TypeOK, replay
    <2>3. seen' \in [Ids -> SUBSET (1..MaxSequence)]
      BY <1>1, <1>11, <2>1 DEF Accept, TypeOK, replay
    <2>4. nonces' \in [Ids -> SUBSET Request]
      BY <1>1, <1>11, <2>1 DEF Accept, TypeOK, replay
    <2>. QED BY <1>1, <1>11, <2>1, <2>2, <2>3, <2>4 DEF Accept, TypeOK, store, agent
  <1>. QED BY <1>2, <1>3, <1>4, <1>5, <1>6, <1>7, <1>8, <1>9, <1>10, <1>11 DEF Next, Agent, Monitor

(* A challenge leaves the store when it opens a session, and is issued once. *)
LEMMA UnusedStep == IInv /\ [Next]_vars => UnusedInv'
  <1>. SUFFICES ASSUME IInv, [Next]_vars PROVE UnusedInv'
    OBVIOUS
  <1>. USE Bounds
  <1>1. TypeOK /\ UnusedInv
    BY DEF IInv
  <1>2. CASE Ask
    <2>1. issued + 1 \in Ids /\ issued \in Nat
      BY <1>1, <1>2 DEF Ask, TypeOK, Ids
    <2>. QED BY <1>1, <1>2, <2>1 DEF Ask, UnusedInv, TypeOK
  <1>3. CASE Pass
    BY <1>1, <1>3 DEF Pass, UnusedInv
  <1>4. CASE MonitorRestart
    BY <1>1, <1>4 DEF MonitorRestart, UnusedInv
  <1>5. ASSUME NEW c \in Ids, NEW i \in Copies, VerifyEnd(c, i) PROVE UnusedInv'
    <2>1. c \in challenges => c <= issued
      BY <1>1 DEF UnusedInv
    <2>2. issued' = issued /\ issued \in Nat /\ challenges \subseteq Ids /\ made \in [Ids -> 0..1]
      BY <1>1, <1>5 DEF VerifyEnd, TypeOK
    <2>3. \/ challenges' = challenges /\ made' = made
          \/ /\ c \in challenges /\ challenges' = challenges \ {c}
             /\ made' = [made EXCEPT ![c] = @ + 1]
      BY <1>5 DEF VerifyEnd
    <2>4. CASE challenges' = challenges /\ made' = made
      BY <1>1, <2>2, <2>4 DEF UnusedInv
    <2>5. CASE c \in challenges /\ challenges' = challenges \ {c} /\ made' = [made EXCEPT ![c] = @ + 1]
      <3>1. \A d \in Ids : d # c => made'[d] = made[d]
        BY <2>2, <2>5
      <3>2. c <= issued /\ ~(c > issued)
        BY <2>1, <2>2, <2>5
      <3>. QED BY <1>1, <2>2, <2>5, <3>1, <3>2 DEF UnusedInv
    <2>. QED BY <2>3, <2>4, <2>5
  <1>6. CASE UNCHANGED <<issued, challenges, made>>
    BY <1>1, <1>6 DEF UnusedInv
  <1>7. Submit \/ Invalidate \/ UNCHANGED vars => UNCHANGED <<issued, challenges, made>>
    BY DEF Submit, Invalidate, vars, store
  <1>8. \A c \in Ids, i \in Copies : VerifyBegin(c, i) => UNCHANGED <<issued, challenges, made>>
    BY DEF VerifyBegin
  <1>9. \A r \in net, i \in Copies : Arrive(r, i) => UNCHANGED <<issued, challenges, made>>
    BY DEF Arrive, store
  <1>10. \A x \in checking : Accept(x[1], x[2]) => UNCHANGED <<issued, challenges, made>>
    BY DEF Accept, store
  <1>. QED BY <1>2, <1>3, <1>4, <1>5, <1>6, <1>7, <1>8, <1>9, <1>10 DEF Next, Agent, Monitor

-----------------------------------------------------------------------------
(* A request that is let through was not spent and is spent afterwards; the window
   only moves up over those let through before. *)
LEMMA AcceptSpends ==
    ASSUME IInv, NEW x \in checking, Accept(x[1], x[2])
    PROVE  SpentInv' /\ AcceptedOnce'
  <1>. USE Bounds
  <1>. DEFINE r == x[1]
              s == r.session
  <1>1. TypeOK /\ SpentInv /\ AcceptedOnce
    BY DEF IInv
  <1>2. r \in Request /\ s \in Ids /\ r.sequence \in 1..MaxSequence
    BY <1>1, RequestParts DEF TypeOK
  <1>3. CASE UNCHANGED <<replay, accepted, again>>
    BY <1>1, <1>3 DEF SpentInv, Spent, AcceptedOnce, replay
  <1>4. CASE /\ Fresh(s, r.sequence)
             /\ highest' = [highest EXCEPT ![s] = IF r.sequence > @ THEN r.sequence ELSE @]
             /\ seen' = [seen EXCEPT ![s] = {q \in @ \cup {r.sequence} : q + Window > highest'[s]}]
             /\ accepted' = accepted \cup {r} /\ again' = again \cup (accepted \cap {r})
    <2>1. highest[s] \in 0..MaxSequence /\ highest \in [Ids -> 0..MaxSequence]
          /\ seen \in [Ids -> SUBSET (1..MaxSequence)] /\ MaxSequence \in Nat
      BY <1>1, <1>2 DEF TypeOK
    <2>2. r \notin accepted
      BY <1>1, <1>4, <2>1, <1>2 DEF SpentInv, Spent, Fresh
    <2>3. highest'[s] >= highest[s] /\ highest'[s] >= r.sequence /\ highest'[s] \in Nat
      BY <1>4, <2>1, <1>2
    <2>4. seen'[s] = {q \in seen[s] \cup {r.sequence} : q + Window > highest'[s]}
      BY <1>4, <2>1, <1>2
    <2>5. \A t \in Ids : t # s => highest'[t] = highest[t] /\ seen'[t] = seen[t]
      BY <1>4, <2>1
    <2>6. Spent(r)'
      BY <2>3, <2>4, <1>2 DEF Spent
    <2>7. ASSUME NEW q \in accepted PROVE Spent(q)'
      <3>1. q \in Request /\ q.session \in Ids /\ q.sequence \in 1..MaxSequence /\ Spent(q)
        BY <1>1, RequestParts DEF SpentInv
      <3>2. CASE q.session = s
        BY <3>1, <3>2, <2>1, <2>3, <2>4 DEF Spent
      <3>3. CASE q.session # s
        BY <3>1, <3>3, <2>5 DEF Spent
      <3>. QED BY <3>2, <3>3
    <2>8. \A q \in accepted' : q \in Request /\ Spent(q)'
      BY <1>1, <1>2, <1>4, <2>6, <2>7 DEF SpentInv
    <2>. QED BY <1>1, <1>4, <2>2, <2>8 DEF SpentInv, AcceptedOnce
  <1>. QED BY <1>3, <1>4 DEF Accept

(* The window of a session is forgotten only when nothing of it can arrive or is
   being checked. *)
LEMMA PassKeeps == IInv /\ Pass => SpentInv' /\ AcceptedOnce'
  <1>. SUFFICES ASSUME IInv, Pass PROVE SpentInv' /\ AcceptedOnce'
    OBVIOUS
  <1>. DEFINE Used(s) == s \in sessions' \/ \E x \in checking : x[1].session = s
  <1>1. TypeOK /\ SpentInv /\ AcceptedOnce
    BY DEF IInv
  <1>2. ASSUME NEW r \in accepted' PROVE r \in Request /\ Spent(r)'
    <2>1. r \in accepted /\ r \in Request /\ Spent(r) /\ r.session \in Ids
      BY <1>1, <1>2, RequestParts DEF Pass, SpentInv
    <2>2. Used(r.session)
      <3>1. CASE r \in net'
        BY <3>1 DEF Pass
      <3>2. CASE \E i \in Copies : <<r, i>> \in checking
        <4>1. PICK i \in Copies : <<r, i>> \in checking
          BY <3>2
        <4>2. <<r, i>>[1].session = r.session
          OBVIOUS
        <4>. QED BY <4>1, <4>2
      <3>. QED BY <3>1, <3>2 DEF Pass
    <2>3. highest'[r.session] = highest[r.session] /\ seen'[r.session] = seen[r.session]
      <3>1. highest' = [s \in Ids |-> IF Used(s) THEN highest[s] ELSE 0]
            /\ seen' = [s \in Ids |-> IF Used(s) THEN seen[s] ELSE {}]
        BY DEF Pass
      <3>. HIDE DEF Used
      <3>. QED BY <3>1, <2>1, <2>2
    <2>. QED BY <2>1, <2>3 DEF Spent
  <1>. QED BY <1>1, <1>2 DEF SpentInv, AcceptedOnce, Pass

(* No other step lets a request through or touches a window. *)
LEMMA SpentStep == IInv /\ [Next]_vars => SpentInv' /\ AcceptedOnce'
  <1>. SUFFICES ASSUME IInv, [Next]_vars PROVE SpentInv' /\ AcceptedOnce'
    OBVIOUS
  <1>1. SpentInv /\ AcceptedOnce
    BY DEF IInv
  <1>2. CASE UNCHANGED <<highest, seen, accepted, again>>
    BY <1>1, <1>2 DEF SpentInv, Spent, AcceptedOnce
  <1>3. Agent \/ MonitorRestart \/ UNCHANGED vars => UNCHANGED <<highest, seen, accepted, again>>
    BY DEF Agent, Ask, Submit, Invalidate, MonitorRestart, vars, replay
  <1>4. \A c \in Ids, i \in Copies :
          VerifyBegin(c, i) \/ VerifyEnd(c, i) => UNCHANGED <<highest, seen, accepted, again>>
    BY DEF VerifyBegin, VerifyEnd, replay
  <1>5. \A r \in net, i \in Copies : Arrive(r, i) => UNCHANGED <<highest, seen, accepted, again>>
    BY DEF Arrive, replay
  <1>. QED BY <1>2, <1>3, <1>4, <1>5, AcceptSpends, PassKeeps DEF Next, Monitor

(* A session is opened in the place of the current one. *)
LEMMA SessionStep == IInv /\ [Next]_vars => OneSession'
  <1>. SUFFICES ASSUME IInv, [Next]_vars PROVE OneSession'
    OBVIOUS
  <1>. USE Bounds
  <1>1. TypeOK /\ OneSession
    BY DEF IInv
  <1>2. CASE UNCHANGED <<sessions, current>>
    BY <1>1, <1>2 DEF OneSession
  <1>3. CASE Pass
    <2>1. sessions' \subseteq sessions /\ current' = IF current \in sessions' THEN current ELSE 0
      BY <1>3 DEF Pass
    <2>2. 0 \notin sessions
      BY <1>1 DEF TypeOK
    <2>. QED BY <1>1, <2>1, <2>2 DEF OneSession
  <1>4. CASE MonitorRestart
    BY <1>4 DEF MonitorRestart, OneSession
  <1>5. ASSUME NEW c \in Ids, NEW i \in Copies, VerifyEnd(c, i) PROVE OneSession'
    <2>1. \/ UNCHANGED <<sessions, current>>
          \/ sessions' = (sessions \ {current}) \cup {c} /\ current' = c
      BY <1>5 DEF VerifyEnd
    <2>. QED BY <1>1, <2>1 DEF OneSession
  <1>6. Agent \/ UNCHANGED vars => UNCHANGED <<sessions, current>>
    BY DEF Agent, Ask, Submit, Invalidate, vars, store
  <1>7. \A c \in Ids, i \in Copies : VerifyBegin(c, i) => UNCHANGED <<sessions, current>>
    BY DEF VerifyBegin
  <1>8. \A r \in net, i \in Copies : Arrive(r, i) => UNCHANGED <<sessions, current>>
    BY DEF Arrive, store
  <1>9. \A x \in checking : Accept(x[1], x[2]) => UNCHANGED <<sessions, current>>
    BY DEF Accept, store
  <1>. QED BY <1>2, <1>3, <1>4, <1>5, <1>6, <1>7, <1>8, <1>9 DEF Next, Monitor

-----------------------------------------------------------------------------
(* The invariant holds in every state of every behaviour. *)
THEOREM Invariance == Spec => []IInv
  <1>1. IInv /\ [Next]_vars => IInv'
    BY TypeStep, UnusedStep, SpentStep, SessionStep DEF IInv
  <1>. QED BY InitHolds, <1>1, PTL DEF Spec

(* Every variable keeps its type; in particular a challenge opens one session at
   most, though its proof may be verified twice at once (challengeStore.js). *)
THEOREM TypeCorrect == Spec => []TypeOK
  <1>1. IInv => TypeOK
    BY DEF IInv
  <1>. QED BY Invariance, <1>1, PTL

(* A signed request is let through to the routes at most once, whatever is
   repeated, overtaken or late, and whatever the window forgets (replayWindow.js). *)
THEOREM AcceptedCorrect == Spec => []AcceptedOnce
  <1>1. IInv => AcceptedOnce
    BY DEF IInv
  <1>. QED BY Invariance, <1>1, PTL

(* A node has the one session #nodeSessions names, or none (agentSessionStore.js). *)
THEOREM SessionCorrect == Spec => []OneSession
  <1>1. IInv => OneSession
    BY DEF IInv
  <1>. QED BY Invariance, <1>1, PTL
=================================================================================
