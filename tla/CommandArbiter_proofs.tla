------------------------ MODULE CommandArbiter_proofs ------------------------
(***************************************************************************)
(* Theorems about CommandArbiter, for any requests and incidents, with a   *)
(* finite number of CUT requests.  The inductive invariant says what the   *)
(* lock, the queue and the slot may hold at once, and which requests can   *)
(* still reach the wire.                                                   *)
(***************************************************************************)
EXTENDS CommandArbiter, FiniteSetTheorems, TLAPS

(* TypeOK without the bound of the count, which the counting gives. *)
Typed ==
    /\ incident \in [Restores -> Incidents]
    /\ lock \in SlotOf(Requests)
    /\ step \in {"FREE", "ENTERED", "CLEARED", "ON_WIRE", "UNSENT", "UNKNOWN"}
    /\ waiting \subseteq Requests
    /\ containment \in Nat
    /\ pending \in SlotOf(Requests)
    /\ deferred \in SlotOf(Patient)
    /\ told \in [Requests -> {"NEW", "CALLING", "SENT", "QUEUED", "REFUSED", "OUTCOME_UNKNOWN", "LOST"}]
    /\ grant \in [Cuts -> {"NONE", "AUTHORIZED", "CONSUMED", "EXPIRED"}]
    /\ outcome \in [Cuts -> {"PENDING", "PUBLISHED", "NOT_PUBLISHED", "OUTCOME_UNKNOWN"}]
    /\ attempts \subseteq Incidents
    /\ published \in Seq(Requests)
    /\ overtaken \in [Cuts -> Nat]

(* The lock is held by a request that no longer waits, and only while nothing
   is unanswered. *)
LockInv ==
    /\ lock = NoOne <=> step = "FREE"
    /\ lock \notin waiting
    /\ lock # NoOne => pending = NoOne

(* The slot is taken only behind an unanswered RESTORE, by a CUT that was told so. *)
SlotInv ==
    deferred # NoOne => pending \in Restores /\ deferred \notin waiting /\ told[deferred] = "QUEUED"

(* A request that was not called is nowhere. *)
CalledInv == \A n \in Requests : told[n] = "NEW" => n \notin waiting /\ n # lock

(* What can still reach the wire is not on it yet, and what was recorded as on it is. *)
FreshInv ==
    /\ \A n \in Requests :
          (told[n] = "NEW" \/ n \in waiting \/ n = deferred
              \/ (n = lock /\ step \in {"ENTERED", "CLEARED", "UNSENT"})) => ~Published(n)
    /\ step = "ON_WIRE" => Published(lock)

GrantInv ==
    \A c \in Cuts : (Published(c) \/ (lock = c /\ step # "ENTERED")) => grant[c] = "CONSUMED"

(* An outcome is recorded when the request is over. *)
OutcomeInv ==
    \A c \in Cuts :
        /\ outcome[c] # "PENDING" => (told[c] # "NEW" /\ c \notin waiting /\ c # lock /\ c # deferred)
        /\ outcome[c] = "PUBLISHED" => Published(c)
        /\ outcome[c] = "NOT_PUBLISHED" => ~Published(c)

OnceInv == \A i, j \in DOMAIN published : published[i] = published[j] => i = j

(* A RESTORE on its way has the durable attempt of its incident to itself. *)
AttemptInv ==
    \A r \in Restores :
        /\ Published(r) => incident[r] \in attempts
        /\ (lock = r /\ step \in {"ENTERED", "CLEARED"}) =>
              /\ incident[r] \in attempts
              /\ \A q \in Restores : Published(q) => incident[q] # incident[r]
RestoreInv ==
    \A q, r \in Restores : (Published(q) /\ Published(r) /\ incident[q] = incident[r]) => q = r

(* A RESTORE past the containment check overtakes only CUTs that came after it. *)
OvertakenInv ==
    \A c \in Cuts :
        /\ overtaken[c] =< 1
        /\ told[c] = "NEW" => overtaken[c] = 0
        /\ (lock \in Restores /\ step = "CLEARED" /\ c \in KeptWaiting) => overtaken[c] = 0

IInv ==
    /\ Typed /\ ContainmentCounted /\ LockInv /\ SlotInv /\ CalledInv /\ FreshInv
    /\ GrantInv /\ OutcomeInv /\ OnceInv /\ AttemptInv /\ RestoreInv /\ OvertakenInv

-----------------------------------------------------------------------------
(* The count of a set of CUTs that one CUT joins or leaves. *)
LEMMA Counting ==
  ASSUME NEW S \in SUBSET Cuts, NEW c \in Cuts
  PROVE  /\ IsFiniteSet(S) /\ Cardinality(S) \in Nat
         /\ c \notin S => Cardinality(S \cup {c}) = Cardinality(S) + 1
         /\ c \in S => Cardinality(S \ {c}) = Cardinality(S) - 1
         /\ c \in S => Cardinality(S) # 0
  <1>1. IsFiniteSet(S)
    BY FS_Subset, RequestsAssumption
  <1>2. Cardinality(S) \in Nat
    BY <1>1, FS_CardinalityType
  <1>3. c \notin S => Cardinality(S \cup {c}) = Cardinality(S) + 1
    BY <1>1, FS_AddElement
  <1>4. c \in S => Cardinality(S \ {c}) = Cardinality(S) - 1
    BY <1>1, FS_RemoveElement
  <1>5. Cardinality(S) = 0 <=> S = {}
    BY <1>1, FS_EmptySet
  <1>. QED BY <1>1, <1>2, <1>3, <1>4, <1>5

(* What a frame on the wire changes. *)
LEMMA Appending ==
  ASSUME NEW n \in Requests, published \in Seq(Requests), published' = Append(published, n)
  PROVE  /\ published' \in Seq(Requests)
         /\ \A k : Published(k)' <=> (Published(k) \/ k = n)
         /\ (OnceInv /\ ~Published(n)) => OnceInv'
  <1>1. /\ published' \in Seq(Requests) /\ Len(published) \in Nat /\ Len(published') = Len(published) + 1
        /\ \A i \in 1..Len(published) : published'[i] = published[i]
        /\ published'[Len(published) + 1] = n
        /\ DOMAIN published = 1..Len(published) /\ DOMAIN published' = 1..(Len(published) + 1)
    OBVIOUS
  <1>2. \A k : Published(k)' <=> (Published(k) \/ k = n)
    BY <1>1 DEF Published
  <1>3. (OnceInv /\ ~Published(n)) => OnceInv'
    <2>. SUFFICES ASSUME OnceInv, ~Published(n), NEW i \in DOMAIN published', NEW j \in DOMAIN published',
                         published'[i] = published'[j]
                  PROVE  i = j
      BY DEF OnceInv
    <2>1. CASE i \in 1..Len(published) /\ j \in 1..Len(published)
      BY <2>1, <1>1 DEF OnceInv
    <2>2. CASE i = Len(published) + 1 /\ j \in 1..Len(published)
      BY <2>2, <1>1 DEF Published
    <2>3. CASE j = Len(published) + 1 /\ i \in 1..Len(published)
      BY <2>3, <1>1 DEF Published
    <2>. QED BY <2>1, <2>2, <2>3, <1>1
  <1>. QED BY <1>1, <1>2, <1>3

(* Where nothing is published the wire says the same of every request. *)
LEMMA SameWire == UNCHANGED published => (\A k : Published(k)' <=> Published(k)) /\ (OnceInv => OnceInv')
  BY DEF Published, OnceInv

(* Before the first call all of it holds. *)
LEMMA InitHolds == Init => IInv
  <1>. SUFFICES ASSUME Init PROVE IInv
    OBVIOUS
  <1>0. \A k : ~Published(k)
    BY DEF Init, Published
  <1>1. Typed
    BY DEF Init, Typed, SlotOf, Requests
  <1>2. ContainmentCounted
    <2>1. Cuts \cap (waiting \cup {lock}) = {}
      BY RequestsAssumption DEF Init
    <2>. QED BY <2>1, FS_EmptySet DEF Init, ContainmentCounted
  <1>9. OnceInv
    BY DEF Init, OnceInv
  <1>3. LockInv
    BY <1>0, <1>1, RequestsAssumption DEF Init, Typed, Requests, SlotOf, KeptWaiting, LockInv
  <1>4. SlotInv
    BY <1>0, <1>1, RequestsAssumption DEF Init, Typed, Requests, SlotOf, KeptWaiting, SlotInv
  <1>5. CalledInv
    BY <1>0, <1>1, RequestsAssumption DEF Init, Typed, Requests, SlotOf, KeptWaiting, CalledInv
  <1>6. FreshInv
    BY <1>0, <1>1, RequestsAssumption DEF Init, Typed, Requests, SlotOf, KeptWaiting, FreshInv
  <1>7. GrantInv
    BY <1>0, <1>1, RequestsAssumption DEF Init, Typed, Requests, SlotOf, KeptWaiting, GrantInv
  <1>8. OutcomeInv
    BY <1>0, <1>1, RequestsAssumption DEF Init, Typed, Requests, SlotOf, KeptWaiting, OutcomeInv
  <1>10. AttemptInv
    BY <1>0, <1>1, RequestsAssumption DEF Init, Typed, Requests, SlotOf, KeptWaiting, AttemptInv
  <1>11. RestoreInv
    BY <1>0, <1>1, RequestsAssumption DEF Init, Typed, Requests, SlotOf, KeptWaiting, RestoreInv
  <1>12. OvertakenInv
    BY <1>0, <1>1, RequestsAssumption DEF Init, Typed, Requests, SlotOf, KeptWaiting, OvertakenInv
  <1>. QED BY <1>1, <1>2, <1>3, <1>4, <1>5, <1>6, <1>7, <1>8, <1>9, <1>10, <1>11, <1>12 DEF IInv

(* A CUT is called: it is counted from here on. *)
LEMMA CallCutKeeps ==
  ASSUME IInv, NEW c \in Cuts, CallCut(c)
  PROVE  IInv'
  <1>. USE RequestsAssumption DEF IInv, Requests, SlotOf
  <1>w. \A k : Published(k)' <=> Published(k)
    BY SameWire DEF CallCut
  <1>s. Cuts \cap (waiting' \cup {lock'}) = (Cuts \cap (waiting \cup {lock})) \cup {c} /\ c \notin Cuts \cap (waiting \cup {lock})
    BY DEF CallCut, CalledInv, Typed
  <1>1. Typed'
    BY <1>w DEF CallCut, Typed, Tell, Leave
  <1>2. ContainmentCounted'
    BY <1>s, Counting DEF CallCut, ContainmentCounted
  <1>3. LockInv'
    BY <1>w DEF CallCut, Typed, LockInv, Tell, Leave, CalledInv
  <1>4. SlotInv'
    BY <1>w DEF CallCut, Typed, SlotInv, Tell, Leave
  <1>5. CalledInv'
    BY <1>w DEF CallCut, Typed, CalledInv, Tell, Leave
  <1>6. FreshInv'
    BY <1>w DEF CallCut, Typed, FreshInv, Tell, Leave
  <1>7. GrantInv'
    BY <1>w DEF CallCut, Typed, GrantInv, Tell, Leave, CalledInv, FreshInv
  <1>8. OutcomeInv'
    BY <1>w DEF CallCut, Typed, OutcomeInv, Tell, Leave
  <1>9. OnceInv'
    BY SameWire DEF CallCut
  <1>10. AttemptInv'
    BY <1>w DEF CallCut, Typed, AttemptInv, Tell, Leave
  <1>11. RestoreInv'
    BY <1>w DEF CallCut, Typed, RestoreInv, Tell, Leave
  <1>12. OvertakenInv'
    BY <1>w DEF CallCut, Typed, OvertakenInv, Tell, Leave, KeptWaiting
  <1>. QED BY <1>1, <1>2, <1>3, <1>4, <1>5, <1>6, <1>7, <1>8, <1>9, <1>10, <1>11, <1>12 DEF IInv

(* A RESTORE is called. *)
LEMMA CallRestoreKeeps ==
  ASSUME IInv, NEW r \in Restores, CallRestore(r)
  PROVE  IInv'
  <1>. USE RequestsAssumption DEF IInv, Requests, SlotOf
  <1>w. \A k : Published(k)' <=> Published(k)
    BY SameWire DEF CallRestore
  <1>s. Cuts \cap (waiting' \cup {lock'}) = Cuts \cap (waiting \cup {lock}) /\ containment' = containment
    BY DEF CallRestore, Typed, LockInv, Leave
  <1>1. Typed'
    BY <1>w DEF CallRestore, disk, Typed, Tell, Leave
  <1>2. ContainmentCounted'
    BY <1>s DEF ContainmentCounted
  <1>3. LockInv'
    BY <1>w DEF CallRestore, disk, Typed, LockInv, Tell, Leave, CalledInv
  <1>4. SlotInv'
    BY <1>w DEF CallRestore, disk, Typed, SlotInv, Tell, Leave
  <1>5. CalledInv'
    BY <1>w DEF CallRestore, disk, Typed, CalledInv, Tell, Leave
  <1>6. FreshInv'
    BY <1>w DEF CallRestore, disk, Typed, FreshInv, Tell, Leave
  <1>7. GrantInv'
    BY <1>w DEF CallRestore, disk, Typed, GrantInv, Tell, Leave
  <1>8. OutcomeInv'
    BY <1>w DEF CallRestore, disk, Typed, OutcomeInv, Tell, Leave
  <1>9. OnceInv'
    BY SameWire DEF CallRestore, disk
  <1>10. AttemptInv'
    BY <1>w DEF CallRestore, disk, Typed, AttemptInv, Tell, Leave
  <1>11. RestoreInv'
    BY <1>w DEF CallRestore, disk, Typed, RestoreInv, Tell, Leave
  <1>12. OvertakenInv'
    BY <1>w DEF CallRestore, disk, Typed, OvertakenInv, Tell, Leave, KeptWaiting
  <1>. QED BY <1>1, <1>2, <1>3, <1>4, <1>5, <1>6, <1>7, <1>8, <1>9, <1>10, <1>11, <1>12 DEF IInv

(* A CUT gets the lock: it stays counted if it goes on, and is counted out if not. *)
LEMMA EnterCutKeeps ==
  ASSUME IInv, NEW c \in Cuts, EnterCut(c)
  PROVE  IInv'
  <1>. USE RequestsAssumption DEF IInv, Requests, SlotOf
  <1>w. \A k : Published(k)' <=> Published(k)
    BY SameWire DEF EnterCut
  <1>s. (Cuts \cap (waiting' \cup {lock'}) = Cuts \cap (waiting \cup {lock}) /\ containment' = containment)
         \/ (Cuts \cap (waiting' \cup {lock'}) = (Cuts \cap (waiting \cup {lock})) \ {c} /\ c \in Cuts \cap (waiting \cup {lock}) /\ containment' = containment - 1)
    BY DEF EnterCut, Typed, Leave
  <1>d. containment - 1 \in Nat
    BY Counting DEF EnterCut, ContainmentCounted
  <1>1. Typed'
    BY <1>w, <1>d DEF EnterCut, disk, Typed, Tell, Leave
  <1>2. ContainmentCounted'
    BY <1>s, Counting DEF ContainmentCounted
  <1>3. LockInv'
    BY <1>w, <1>d DEF EnterCut, disk, Typed, LockInv, Tell, Leave
  <1>4. SlotInv'
    BY <1>w, <1>d DEF EnterCut, disk, Typed, SlotInv, Tell, Leave
  <1>5. CalledInv'
    BY <1>w, <1>d DEF EnterCut, disk, Typed, CalledInv, Tell, Leave
  <1>6. FreshInv'
    BY <1>w, <1>d DEF EnterCut, disk, Typed, FreshInv, Tell, Leave, SlotInv
  <1>7. GrantInv'
    BY <1>w, <1>d DEF EnterCut, disk, Typed, GrantInv, Tell, Leave
  <1>8. OutcomeInv'
    BY <1>w, <1>d DEF EnterCut, disk, Typed, OutcomeInv, Tell, Leave, SlotInv
  <1>9. OnceInv'
    BY SameWire DEF EnterCut, disk
  <1>10. AttemptInv'
    BY <1>w, <1>d DEF EnterCut, disk, Typed, AttemptInv, Tell, Leave
  <1>11. RestoreInv'
    BY <1>w, <1>d DEF EnterCut, disk, Typed, RestoreInv, Tell, Leave
  <1>12. OvertakenInv'
    BY <1>w, <1>d DEF EnterCut, disk, Typed, OvertakenInv, Tell, Leave, KeptWaiting, LockInv
  <1>. QED BY <1>1, <1>2, <1>3, <1>4, <1>5, <1>6, <1>7, <1>8, <1>9, <1>10, <1>11, <1>12 DEF IInv

(* A RESTORE gets the lock: no RESTORE of its incident is on the wire. *)
LEMMA EnterRestoreKeeps ==
  ASSUME IInv, NEW r \in Restores, EnterRestore(r)
  PROVE  IInv'
  <1>. USE RequestsAssumption DEF IInv, Requests, SlotOf
  <1>w. \A k : Published(k)' <=> Published(k)
    BY SameWire DEF EnterRestore
  <1>s. Cuts \cap (waiting' \cup {lock'}) = Cuts \cap (waiting \cup {lock}) /\ containment' = containment
    BY DEF EnterRestore, Typed, LockInv, Leave
  <1>1. Typed'
    BY <1>w DEF EnterRestore, Typed, Tell, Leave
  <1>2. ContainmentCounted'
    BY <1>s DEF ContainmentCounted
  <1>3. LockInv'
    BY <1>w DEF EnterRestore, Typed, LockInv, Tell, Leave
  <1>4. SlotInv'
    BY <1>w DEF EnterRestore, Typed, SlotInv, Tell, Leave
  <1>5. CalledInv'
    BY <1>w DEF EnterRestore, Typed, CalledInv, Tell, Leave
  <1>6. FreshInv'
    BY <1>w DEF EnterRestore, Typed, FreshInv, Tell, Leave
  <1>7. GrantInv'
    BY <1>w DEF EnterRestore, Typed, GrantInv, Tell, Leave
  <1>8. OutcomeInv'
    BY <1>w DEF EnterRestore, Typed, OutcomeInv, Tell, Leave
  <1>9. OnceInv'
    BY SameWire DEF EnterRestore
  <1>10. AttemptInv'
    BY <1>w DEF EnterRestore, Typed, AttemptInv, Tell, Leave
  <1>11. RestoreInv'
    BY <1>w DEF EnterRestore, Typed, RestoreInv, Tell, Leave
  <1>12. OvertakenInv'
    BY <1>w DEF EnterRestore, Typed, OvertakenInv, Tell, Leave, KeptWaiting
  <1>. QED BY <1>1, <1>2, <1>3, <1>4, <1>5, <1>6, <1>7, <1>8, <1>9, <1>10, <1>11, <1>12 DEF IInv

(* A RESTORE is cleared while no CUT is counted, so none waits. *)
LEMMA ClearRestoreKeeps ==
  ASSUME IInv, NEW r \in Restores, ClearRestore(r)
  PROVE  IInv'
  <1>. USE RequestsAssumption DEF IInv, Requests, SlotOf
  <1>w. \A k : Published(k)' <=> Published(k)
    BY SameWire DEF ClearRestore
  <1>s. Cuts \cap (waiting' \cup {lock'}) = Cuts \cap (waiting \cup {lock}) /\ containment' = containment
    BY DEF ClearRestore, Typed, LockInv, Leave
  <1>n. containment = 0 => \A c \in Cuts : c \notin waiting
    BY Counting DEF ContainmentCounted
  <1>1. Typed'
    BY <1>w, <1>n DEF ClearRestore, disk, Typed, Tell, Leave
  <1>2. ContainmentCounted'
    BY <1>s DEF ContainmentCounted
  <1>3. LockInv'
    BY <1>w, <1>n DEF ClearRestore, disk, Typed, LockInv, Tell, Leave
  <1>4. SlotInv'
    BY <1>w, <1>n DEF ClearRestore, disk, Typed, SlotInv, Tell, Leave
  <1>5. CalledInv'
    BY <1>w, <1>n DEF ClearRestore, disk, Typed, CalledInv, Tell, Leave
  <1>6. FreshInv'
    BY <1>w, <1>n DEF ClearRestore, disk, Typed, FreshInv, Tell, Leave
  <1>7. GrantInv'
    BY <1>w, <1>n DEF ClearRestore, disk, Typed, GrantInv, Tell, Leave
  <1>8. OutcomeInv'
    BY <1>w, <1>n DEF ClearRestore, disk, Typed, OutcomeInv, Tell, Leave
  <1>9. OnceInv'
    BY SameWire DEF ClearRestore, disk
  <1>10. AttemptInv'
    BY <1>w, <1>n DEF ClearRestore, disk, Typed, AttemptInv, Tell, Leave
  <1>11. RestoreInv'
    BY <1>w, <1>n DEF ClearRestore, disk, Typed, RestoreInv, Tell, Leave
  <1>12. OvertakenInv'
    BY <1>w, <1>n DEF ClearRestore, disk, Typed, OvertakenInv, Tell, Leave, KeptWaiting, LockInv, SlotInv
  <1>. QED BY <1>1, <1>2, <1>3, <1>4, <1>5, <1>6, <1>7, <1>8, <1>9, <1>10, <1>11, <1>12 DEF IInv

(* A CUT spends its grant. *)
LEMMA ConsumeGrantKeeps ==
  ASSUME IInv, NEW c \in Cuts, ConsumeGrant(c)
  PROVE  IInv'
  <1>. USE RequestsAssumption DEF IInv, Requests, SlotOf
  <1>w. \A k : Published(k)' <=> Published(k)
    BY SameWire DEF ConsumeGrant
  <1>s. (Cuts \cap (waiting' \cup {lock'}) = Cuts \cap (waiting \cup {lock}) /\ containment' = containment)
         \/ (Cuts \cap (waiting' \cup {lock'}) = (Cuts \cap (waiting \cup {lock})) \ {c} /\ c \in Cuts \cap (waiting \cup {lock}) /\ containment' = containment - 1)
    BY DEF ConsumeGrant, LockInv, Typed, Leave
  <1>d. containment - 1 \in Nat
    BY Counting DEF ConsumeGrant, ContainmentCounted
  <1>1. Typed'
    BY <1>w, <1>d DEF ConsumeGrant, Typed, Tell, Leave
  <1>2. ContainmentCounted'
    BY <1>s, Counting DEF ContainmentCounted
  <1>3. LockInv'
    BY <1>w, <1>d DEF ConsumeGrant, Typed, LockInv, Tell, Leave
  <1>4. SlotInv'
    BY <1>w, <1>d DEF ConsumeGrant, Typed, SlotInv, Tell, Leave
  <1>5. CalledInv'
    BY <1>w, <1>d DEF ConsumeGrant, Typed, CalledInv, Tell, Leave
  <1>6. FreshInv'
    BY <1>w, <1>d DEF ConsumeGrant, Typed, FreshInv, Tell, Leave
  <1>7. GrantInv'
    BY <1>w, <1>d DEF ConsumeGrant, Typed, GrantInv, Tell, Leave, FreshInv
  <1>8. OutcomeInv'
    BY <1>w, <1>d DEF ConsumeGrant, Typed, OutcomeInv, Tell, Leave, LockInv, SlotInv, FreshInv
  <1>9. OnceInv'
    BY SameWire DEF ConsumeGrant
  <1>10. AttemptInv'
    BY <1>w, <1>d DEF ConsumeGrant, Typed, AttemptInv, Tell, Leave
  <1>11. RestoreInv'
    BY <1>w, <1>d DEF ConsumeGrant, Typed, RestoreInv, Tell, Leave
  <1>12. OvertakenInv'
    BY <1>w, <1>d DEF ConsumeGrant, Typed, OvertakenInv, Tell, Leave, KeptWaiting
  <1>. QED BY <1>1, <1>2, <1>3, <1>4, <1>5, <1>6, <1>7, <1>8, <1>9, <1>10, <1>11, <1>12 DEF IInv

(* A frame leaves: the request was not on the wire, and only CUTs that came
   after the check were kept waiting. *)
LEMMA PublishKeeps ==
  ASSUME IInv, NEW n \in Requests, Publish(n)
  PROVE  IInv'
  <1>. USE RequestsAssumption DEF IInv, Requests, SlotOf
  <1>a. lock = n /\ step = "CLEARED" /\ ~Published(n)
    BY DEF Publish, FreshInv
  <1>b. (OnWire(n) /\ step' \in {"ON_WIRE", "UNKNOWN"})
         \/ (published' = published /\ overtaken' = overtaken /\ step' \in {"UNSENT", "UNKNOWN"})
    BY DEF Publish
  <1>u. UNCHANGED <<incident, lock, waiting, containment, pending, deferred, grant, outcome, attempts, told>>
    BY DEF Publish, disk
  <1>w. published' \in Seq(Requests) /\ OnceInv'
       /\ \A k : Published(k)' <=> (Published(k) \/ (k = n /\ OnWire(n)))
    <2>1. CASE OnWire(n)
      BY <2>1, <1>a, Appending DEF Typed, OnWire
    <2>2. CASE ~OnWire(n)
      BY <2>2, <1>b, SameWire DEF Typed
    <2>. QED BY <2>1, <2>2
  <1>o. \A c \in Cuts : overtaken'[c] = overtaken[c] + (IF OnWire(n) /\ n \in Restores /\ c \in KeptWaiting THEN 1 ELSE 0)
    BY <1>b, <1>a DEF Typed, OnWire
  <1>p. overtaken' \in [Cuts -> Nat]
    BY <1>b, <1>a DEF Typed, OnWire
  <1>1. Typed'
    BY <1>b, <1>u, <1>w, <1>p DEF Typed
  <1>2. ContainmentCounted'
    BY <1>u DEF ContainmentCounted
  <1>3. LockInv'
    BY <1>a, <1>b, <1>u, <1>w DEF Typed, Typed, LockInv, Tell, Leave
  <1>4. SlotInv'
    BY <1>a, <1>b, <1>u, <1>w DEF Typed, Typed, SlotInv, Tell, Leave
  <1>5. CalledInv'
    BY <1>a, <1>b, <1>u, <1>w DEF Typed, Typed, CalledInv, Tell, Leave
  <1>6. FreshInv'
    <2>1. told[n] # "NEW" /\ n \notin waiting /\ n # deferred
      BY <1>a DEF CalledInv, LockInv, SlotInv
    <2>2. step' = "ON_WIRE" => Published(lock)'
      BY <1>a, <1>b, <1>u, <1>w
    <2>3. step' = "UNSENT" => ~OnWire(n)
      BY <1>a, <1>b DEF OnWire, Typed
    <2>. QED BY <2>1, <2>2, <2>3, <1>a, <1>b, <1>u, <1>w DEF FreshInv
  <1>7. GrantInv'
    BY <1>a, <1>b, <1>u, <1>w DEF Typed, Typed, GrantInv, Tell, Leave, LockInv
  <1>8. OutcomeInv'
    BY <1>a, <1>b, <1>u, <1>w DEF Typed, Typed, OutcomeInv, Tell, Leave, LockInv
  <1>9. OnceInv'
    BY <1>w
  <1>10. AttemptInv'
    BY <1>a, <1>b, <1>u, <1>w DEF Typed, Typed, AttemptInv, Tell, Leave, LockInv
  <1>11. RestoreInv'
    BY <1>a, <1>b, <1>u, <1>w DEF Typed, Typed, RestoreInv, Tell, Leave, AttemptInv
  <1>12. OvertakenInv'
    BY <1>a, <1>b, <1>u, <1>o, <1>p DEF Typed, OvertakenInv, CalledInv, LockInv, SlotInv, KeptWaiting
  <1>. QED BY <1>1, <1>2, <1>3, <1>4, <1>5, <1>6, <1>7, <1>8, <1>9, <1>10, <1>11, <1>12 DEF IInv

(* The outcome is recorded of what the wire shows, and the request is over. *)
LEMMA SettleKeeps ==
  ASSUME IInv, NEW n \in Requests, Settle(n)
  PROVE  IInv'
  <1>. USE RequestsAssumption DEF IInv, Requests, SlotOf
  <1>w. \A k : Published(k)' <=> Published(k)
    BY SameWire DEF Settle
  <1>a. lock = n /\ step \in {"ON_WIRE", "UNSENT", "UNKNOWN"} /\ lock' = NoOne /\ step' = "FREE"
    BY DEF Settle, OutcomeOf, Leave
  <1>b. containment' = IF n \in Cuts THEN containment - 1 ELSE containment
    BY DEF Settle, Leave
  <1>f. \E v \in {"PUBLISHED", "NOT_PUBLISHED", "OUTCOME_UNKNOWN"} :
          /\ v = OutcomeOf[step]
          /\ step = "ON_WIRE" => v = "PUBLISHED"
          /\ step = "UNSENT" => v = "NOT_PUBLISHED"
          /\ step = "UNKNOWN" => v = "OUTCOME_UNKNOWN"
    BY <1>a DEF OutcomeOf
  <1>g. outcome' = outcome \/ (n \in Cuts /\ outcome' = [outcome EXCEPT ![n] = OutcomeOf[step]])
    BY DEF Settle
  <1>c. outcome' \in [Cuts -> {"PENDING", "PUBLISHED", "NOT_PUBLISHED", "OUTCOME_UNKNOWN"}]
       /\ \A c \in Cuts : outcome'[c] = outcome[c] \/ (c = n /\ outcome'[c] =
             IF step = "ON_WIRE" THEN "PUBLISHED" ELSE IF step = "UNSENT" THEN "NOT_PUBLISHED" ELSE "OUTCOME_UNKNOWN")
    BY <1>a, <1>f, <1>g DEF Typed
  <1>t. told' \in [Requests -> {"NEW", "CALLING", "SENT", "QUEUED", "REFUSED", "OUTCOME_UNKNOWN", "LOST"}]
       /\ told'[n] # "NEW" /\ \A k \in Requests \ {n} : told'[k] = told[k]
    BY <1>a DEF Settle, Tell, AnswerOf, Typed
  <1>u. UNCHANGED <<incident, waiting, deferred, grant, attempts, published, overtaken>> /\ pending' \in {n, pending}
    BY DEF Settle
  <1>s. (n \notin Cuts /\ Cuts \cap (waiting' \cup {lock'}) = Cuts \cap (waiting \cup {lock}))
         \/ (Cuts \cap (waiting' \cup {lock'}) = (Cuts \cap (waiting \cup {lock})) \ {n} /\ n \in Cuts \cap (waiting \cup {lock}))
    BY <1>a, <1>u DEF LockInv
  <1>d. n \in Cuts => containment - 1 \in Nat
    <2>. SUFFICES ASSUME n \in Cuts PROVE containment - 1 \in Nat
      OBVIOUS
    <2>1. n \in Cuts \cap (waiting \cup {lock}) /\ containment \in Nat
      BY <1>a DEF Typed
    <2>. QED BY <2>1, Counting DEF ContainmentCounted
  <1>e. deferred = NoOne
    BY <1>a DEF SlotInv, LockInv
  <1>1. Typed'
    BY <1>w, <1>a, <1>b, <1>c, <1>t, <1>u, <1>d, <1>e DEF Typed, Typed, Tell, Leave
  <1>2. ContainmentCounted'
    BY <1>s, <1>b, Counting DEF ContainmentCounted
  <1>3. LockInv'
    BY <1>w, <1>a, <1>b, <1>c, <1>t, <1>u, <1>d, <1>e DEF Typed, Typed, LockInv, Tell, Leave
  <1>4. SlotInv'
    BY <1>w, <1>a, <1>b, <1>c, <1>t, <1>u, <1>d, <1>e DEF Typed, Typed, SlotInv, Tell, Leave
  <1>5. CalledInv'
    BY <1>w, <1>a, <1>b, <1>c, <1>t, <1>u, <1>d, <1>e DEF Typed, Typed, CalledInv, Tell, Leave
  <1>6. FreshInv'
    BY <1>w, <1>a, <1>b, <1>c, <1>t, <1>u, <1>d, <1>e DEF Typed, Typed, FreshInv, Tell, Leave, LockInv
  <1>7. GrantInv'
    BY <1>w, <1>a, <1>b, <1>c, <1>t, <1>u, <1>d, <1>e DEF Typed, Typed, GrantInv, Tell, Leave
  <1>8. OutcomeInv'
    BY <1>w, <1>a, <1>b, <1>c, <1>t, <1>u, <1>d, <1>e DEF Typed, Typed, OutcomeInv, Tell, Leave, FreshInv, LockInv
  <1>9. OnceInv'
    BY <1>u, SameWire
  <1>10. AttemptInv'
    BY <1>w, <1>a, <1>b, <1>c, <1>t, <1>u, <1>d, <1>e DEF Typed, Typed, AttemptInv, Tell, Leave
  <1>11. RestoreInv'
    BY <1>w, <1>a, <1>b, <1>c, <1>t, <1>u, <1>d, <1>e DEF Typed, Typed, RestoreInv, Tell, Leave
  <1>12. OvertakenInv'
    BY <1>w, <1>a, <1>b, <1>c, <1>t, <1>u, <1>d, <1>e DEF Typed, Typed, OvertakenInv, Tell, Leave, KeptWaiting
  <1>. QED BY <1>1, <1>2, <1>3, <1>4, <1>5, <1>6, <1>7, <1>8, <1>9, <1>10, <1>11, <1>12 DEF IInv

(* The pending command is answered or given up, and the queued CUT enters. *)
LEMMA DrainKeeps ==
  ASSUME IInv, lock = NoOne, ClearPendingAndDrain
  PROVE  IInv'
  <1>. USE RequestsAssumption DEF IInv, Requests, SlotOf
  <1>w. \A k : Published(k)' <=> Published(k)
    BY SameWire DEF ClearPendingAndDrain
  <1>a. deferred # NoOne => deferred \in Cuts /\ deferred \notin waiting /\ told[deferred] = "QUEUED"
    BY DEF SlotInv, Typed
  <1>u. UNCHANGED <<incident, waiting, told, grant, outcome, attempts, published, overtaken>> /\ pending' = NoOne /\ deferred' = NoOne
    BY DEF ClearPendingAndDrain, disk
  <1>b. (deferred = NoOne /\ lock' = lock /\ step' = step /\ containment' = containment)
         \/ (deferred # NoOne /\ lock' = deferred /\ step' = "ENTERED" /\ containment' = containment + 1)
    BY DEF ClearPendingAndDrain
  <1>s. (Cuts \cap (waiting' \cup {lock'}) = Cuts \cap (waiting \cup {lock}) /\ containment' = containment)
         \/ (deferred \in Cuts /\ Cuts \cap (waiting' \cup {lock'}) = (Cuts \cap (waiting \cup {lock})) \cup {deferred}
             /\ deferred \notin Cuts \cap (waiting \cup {lock}) /\ containment' = containment + 1)
    BY <1>a, <1>b, <1>u
  <1>1. Typed'
    BY <1>w, <1>a, <1>u, <1>b DEF Typed, Typed, Tell, Leave
  <1>2. ContainmentCounted'
    BY <1>s, Counting DEF ContainmentCounted
  <1>3. LockInv'
    BY <1>w, <1>a, <1>u, <1>b DEF Typed, Typed, LockInv, Tell, Leave
  <1>4. SlotInv'
    BY <1>w, <1>a, <1>u, <1>b DEF Typed, Typed, SlotInv, Tell, Leave
  <1>5. CalledInv'
    BY <1>w, <1>a, <1>u, <1>b DEF Typed, Typed, CalledInv, Tell, Leave
  <1>6. FreshInv'
    BY <1>w, <1>a, <1>u, <1>b DEF Typed, Typed, FreshInv, Tell, Leave
  <1>7. GrantInv'
    BY <1>w, <1>a, <1>u, <1>b DEF Typed, Typed, GrantInv, Tell, Leave
  <1>8. OutcomeInv'
    BY <1>w, <1>a, <1>u, <1>b DEF Typed, Typed, OutcomeInv, Tell, Leave
  <1>9. OnceInv'
    BY <1>u, SameWire
  <1>10. AttemptInv'
    BY <1>w, <1>a, <1>u, <1>b DEF Typed, Typed, AttemptInv, Tell, Leave, LockInv
  <1>11. RestoreInv'
    BY <1>w, <1>a, <1>u, <1>b DEF Typed, Typed, RestoreInv, Tell, Leave
  <1>12. OvertakenInv'
    BY <1>w, <1>a, <1>u, <1>b DEF Typed, Typed, OvertakenInv, Tell, Leave, KeptWaiting
  <1>. QED BY <1>1, <1>2, <1>3, <1>4, <1>5, <1>6, <1>7, <1>8, <1>9, <1>10, <1>11, <1>12 DEF IInv

(* A restart forgets every thread and the slot. *)
LEMMA RestartKeeps ==
  ASSUME IInv, Restart
  PROVE  IInv'
  <1>. USE RequestsAssumption DEF IInv, Requests, SlotOf
  <1>w. \A k : Published(k)' <=> Published(k)
    BY SameWire DEF Restart
  <1>s. Cuts \cap (waiting' \cup {lock'}) = {} /\ containment' = 0
    BY DEF Restart
  <1>1. Typed'
    BY <1>w DEF Restart, disk, Typed, Tell, Leave
  <1>2. ContainmentCounted'
    BY <1>s, FS_EmptySet DEF ContainmentCounted
  <1>3. LockInv'
    BY <1>w DEF Restart, disk, Typed, LockInv, Tell, Leave
  <1>4. SlotInv'
    BY <1>w DEF Restart, disk, Typed, SlotInv, Tell, Leave
  <1>5. CalledInv'
    BY <1>w DEF Restart, disk, Typed, CalledInv, Tell, Leave
  <1>6. FreshInv'
    BY <1>w DEF Restart, disk, Typed, FreshInv, Tell, Leave
  <1>7. GrantInv'
    BY <1>w DEF Restart, disk, Typed, GrantInv, Tell, Leave
  <1>8. OutcomeInv'
    BY <1>w DEF Restart, disk, Typed, OutcomeInv, Tell, Leave
  <1>9. OnceInv'
    BY SameWire DEF Restart, disk
  <1>10. AttemptInv'
    BY <1>w DEF Restart, disk, Typed, AttemptInv, Tell, Leave
  <1>11. RestoreInv'
    BY <1>w DEF Restart, disk, Typed, RestoreInv, Tell, Leave
  <1>12. OvertakenInv'
    BY <1>w DEF Restart, disk, Typed, OvertakenInv, Tell, Leave, KeptWaiting
  <1>. QED BY <1>1, <1>2, <1>3, <1>4, <1>5, <1>6, <1>7, <1>8, <1>9, <1>10, <1>11, <1>12 DEF IInv

(* A step that changes nothing. *)
LEMMA StutterKeeps == IInv /\ UNCHANGED vars => IInv'
  BY DEF IInv, vars, memory, disk, Typed, ContainmentCounted, LockInv, SlotInv, CalledInv, FreshInv,
         GrantInv, OutcomeInv, OnceInv, AttemptInv, RestoreInv, OvertakenInv, KeptWaiting, Published

(* Every step keeps the invariant. *)
LEMMA NextKeeps == IInv /\ [Next]_vars => IInv'
  <1>. SUFFICES ASSUME IInv, [Next]_vars PROVE IInv'
    OBVIOUS
  <1>1. ASSUME NEW n \in Range(published), HandleAck(n) PROVE IInv'
    BY <1>1, DrainKeeps DEF HandleAck
  <1>2. ASSUME AckTimeout PROVE IInv'
    BY <1>2, DrainKeeps DEF AckTimeout
  <1>. QED
    BY <1>1, <1>2, CallCutKeeps, CallRestoreKeeps, EnterCutKeeps, EnterRestoreKeeps, ClearRestoreKeeps,
       ConsumeGrantKeeps, PublishKeeps, SettleKeeps, RestartKeeps, StutterKeeps DEF Next

(* The inductive invariant holds in every reachable state; fairness is not used. *)
THEOREM Invariance == Spec => []IInv
  BY InitHolds, NextKeeps, PTL DEF Spec

(* Every variable keeps its type; the count stays between zero and the CUTs. *)
THEOREM TypeCorrect == Spec => []TypeOK
  <1>1. IInv => TypeOK
    <2>. SUFFICES ASSUME IInv PROVE TypeOK
      OBVIOUS
    <2>1. containment \in Nat /\ containment =< Cardinality(Cuts)
      <3>1. Cuts \cap (waiting \cup {lock}) \in SUBSET Cuts /\ IsFiniteSet(Cuts)
        BY RequestsAssumption
      <3>2. Cardinality(Cuts \cap (waiting \cup {lock})) =< Cardinality(Cuts)
        BY <3>1, FS_Subset
      <3>. QED BY <3>2 DEF IInv, Typed, ContainmentCounted
    <2>2. Cardinality(Cuts) \in Nat
      BY FS_CardinalityType, RequestsAssumption
    <2>3. containment \in 0..Cardinality(Cuts)
      BY <2>1, <2>2
    <2>. QED BY <2>3 DEF IInv, Typed, TypeOK
  <1>. QED BY <1>1, Invariance, PTL

(* The count a RESTORE is held back by is that of the CUT calls in progress. *)
THEOREM CountCorrect == Spec => []ContainmentCounted
  <1>1. IInv => ContainmentCounted
    BY DEF IInv
  <1>. QED BY <1>1, Invariance, PTL

(* A queued CUT waits behind an unanswered RESTORE and behind nothing else. *)
THEOREM SlotCorrect == Spec => []DeferredBehindRestore
  <1>1. IInv => DeferredBehindRestore
    BY DEF IInv, SlotInv, DeferredBehindRestore
  <1>. QED BY <1>1, Invariance, PTL

(* A grant puts at most one frame on the wire, and its outcome never contradicts
   the wire, for any number of requests, failures and restarts. *)
THEOREM GrantCorrect == Spec => []GrantIsOneShot
  <1>1. IInv => GrantIsOneShot
    <2>. SUFFICES ASSUME IInv, NEW c \in Cuts
                  PROVE  /\ Cardinality({i \in DOMAIN published : published[i] = c}) <= 1
                         /\ Published(c) => grant[c] = "CONSUMED"
                         /\ outcome[c] = "PUBLISHED" => Published(c)
                         /\ outcome[c] = "NOT_PUBLISHED" => ~Published(c)
      BY DEF GrantIsOneShot
    <2>1. Cardinality({i \in DOMAIN published : published[i] = c}) <= 1
      <3>. DEFINE S == {i \in DOMAIN published : published[i] = c}
      <3>1. \A i, j \in S : i = j
        BY DEF IInv, OnceInv
      <3>. HIDE DEF S
      <3>2. S = {} \/ \E i : S = {i}
        BY <3>1
      <3>3. Cardinality(S) = 0 \/ Cardinality(S) = 1
        BY <3>2, FS_EmptySet, FS_Singleton
      <3>4. Cardinality(S) <= 1
        BY <3>3
      <3>. QED BY <3>4 DEF S
    <2>. QED BY <2>1 DEF IInv, GrantInv, OutcomeInv
  <1>. QED BY <1>1, Invariance, PTL

(* One incident never yields two RESTORE frames, across any races and restarts. *)
THEOREM RestoreCorrect == Spec => []OneRestorePerIncident
  <1>1. IInv => OneRestorePerIncident
    <2>. SUFFICES ASSUME IInv, NEW i \in DOMAIN published, NEW j \in DOMAIN published,
                         published[i] \in Restores, published[j] \in Restores,
                         incident[published[i]] = incident[published[j]]
                  PROVE  i = j
      BY DEF OneRestorePerIncident
    <2>1. published[i] = published[j]
      BY DEF IInv, RestoreInv, Published
    <2>. QED BY <2>1 DEF IInv, OnceInv
  <1>. QED BY <1>1, Invariance, PTL

(* While a CUT is kept waiting, one RESTORE at most gets ahead of it. *)
THEOREM OvertakenCorrect == Spec => []OvertakenOnce
  <1>1. IInv => OvertakenOnce
    BY DEF IInv, OvertakenInv, OvertakenOnce
  <1>. QED BY <1>1, Invariance, PTL

(* Nothing is published while a command awaits its answer. *)
THEOREM InFlightCorrect == Spec => OneInFlight
  <1>1. IInv /\ [Next]_vars => [published' # published => pending = NoOne]_vars
    <2>. SUFFICES ASSUME IInv, Next, published' # published PROVE pending = NoOne
      OBVIOUS
    <2>1. PICK n \in Requests : lock = n
      BY DEF Next, CallCut, CallRestore, EnterCut, EnterRestore, ClearRestore, ConsumeGrant, Publish,
             Settle, HandleAck, AckTimeout, ClearPendingAndDrain, Restart
    <2>. QED BY <2>1, RequestsAssumption DEF IInv, LockInv, Requests
  <1>. QED BY <1>1, Invariance, PTL DEF Spec, OneInFlight

(* A queued CUT leaves the slot by entering issue_command, or with the process. *)
THEOREM QueuedCorrect == Spec => QueuedCutEnters
  <1>1. [Next]_vars => [deferred # NoOne /\ deferred' # deferred => lock' = deferred \/ Restart]_vars
    BY DEF Next, CallCut, CallRestore, EnterCut, EnterRestore, ClearRestore, ConsumeGrant, Publish,
           Settle, HandleAck, AckTimeout, ClearPendingAndDrain
  <1>. QED BY <1>1, PTL DEF Spec, QueuedCutEnters
=============================================================================
