----------------------------- MODULE Uploads_proofs -----------------------------
(***************************************************************************)
(* Proofs about Uploads, for any number of chunks, versions, requests and  *)
(* crashes.  What a hole in the file excludes and what a files row         *)
(* excludes are shown with every fault allowed; that the bytes stay those  *)
(* that were hashed, for a client that never changes its file; and that    *)
(* they stay where the row says, without faults.  Together they give that  *)
(* Uploads implements UploadOutcome.                                       *)
(***************************************************************************)
EXTENDS Uploads, FiniteSetTheorems, TLAPS

Whole(bytesOf) == \A i \in Chunks : bytesOf[i] # "HOLE"

(* A chunk is recorded, or about to be, only once it was written, and what was
   written once never becomes a hole again; a commit goes on only with every
   chunk recorded, and hashes what it publishes. *)
HoleInv ==
    /\ \A i \in chunks : content[i] # "HOLE"
    /\ \A p \in Puts : put[p].step # "IDLE" => put[p].bytes \in Versions
    /\ \A p \in Puts : put[p].step = "WRITTEN" => content[put[p].chunk] # "HOLE"
    /\ \A c \in Commits : commit[c] \notin {"NEW", "LOADED", "DONE"} => Whole(content)
    /\ \A c \in Commits : commit[c] \in {"HASHED", "RENAMED"} => Whole(verified[c])
    /\ NoHoles

(* The row that the recovery has locked is a committing one, and once a files row
   was written the upload is never open nor committing again. *)
FileInv ==
    /\ Locked => status = "COMMITTING"
    /\ opening # "DONE" => status = "NONE"
    /\ status \in {"OPEN", "COMMITTING"} \/ opening # "DONE" => files = {}
    /\ \A c, d \in files : c = d

IInv == TypeOK /\ HoleInv /\ FileInv

(* Before anything was uploaded all of it holds. *)
LEMMA InitEstablishes == Init => IInv
<1> SUFFICES ASSUME Init PROVE IInv
  OBVIOUS
<1>1. TypeOK
  <2>1. Empty \in Contents
    BY DEF Empty, Contents
  <2>2. NoPut \in [step : PutSteps, chunk : Chunks, bytes : Versions \cup {"HOLE"}]
    BY UploadsAssumption DEF NoPut, PutSteps
  <2>3. crashes \in 0..Crashes
    BY UploadsAssumption DEF Init
  <2>4. QED
    BY <2>1, <2>2, <2>3 DEF Init, TypeOK, CommitSteps
<1>2. HoleInv
  BY DEF Init, HoleInv, NoHoles, Whole, NoPut
<1>3. FileInv
  BY DEF Init, FileInv, Locked
<1>4. QED
  BY <1>1, <1>2, <1>3 DEF IInv

(* Opening the upload preserves it. *)
LEMMA OpenPreserves ==
  ASSUME IInv, Open
  PROVE  IInv'
<1> USE DEF IInv, TypeOK, HoleInv, FileInv, NoHoles, Whole, Locked, Contents, rows, bytes, jobs
<1>1. CASE CreateStagedPart
  BY <1>1 DEF CreateStagedPart
<1>2. CASE CreateUploadSession
  <2>1. TypeOK'
    BY <1>2 DEF CreateUploadSession, RemoveStaged
  <2>2. HoleInv'
    BY <1>2 DEF CreateUploadSession, RemoveStaged
  <2>3. FileInv'
    BY <1>2 DEF CreateUploadSession, RemoveStaged
  <2>4. QED
    BY <2>1, <2>2, <2>3
<1>3. QED
  BY <1>1, <1>2 DEF Open

(* A chunk request preserves it: its bytes are written before it is recorded. *)
LEMMA PutPreserves ==
  ASSUME IInv, NEW p \in Puts, Put(p)
  PROVE  IInv'
<1> USE UploadsAssumption
<1> USE DEF IInv, TypeOK, HoleInv, FileInv, NoHoles, Whole, Locked, Contents, NoPut, PutSteps,
            PutBecomes, rows, bytes, jobs
<1>1. CASE \E i \in Chunks, v \in Versions : LoadForPut(p, i, v)
  BY <1>1 DEF LoadForPut
<1>2. CASE OpenPart(p)
  BY <1>2 DEF OpenPart
<1>3. CASE BeginWrite(p)
  BY <1>3 DEF BeginWrite
<1>4. CASE EndWrite(p)
  BY <1>4 DEF EndWrite
<1>5. CASE RecordUploadChunk(p)
  BY <1>5 DEF RecordUploadChunk
<1>6. CASE PutFails(p)
  BY <1>6 DEF PutFails
<1>7. QED
  BY <1>1, <1>2, <1>3, <1>4, <1>5, <1>6 DEF Put

(* A step that touches neither the bytes nor the files, records no chunk and takes
   no commit past the check of its chunks keeps out the holes. *)
LEMMA QuietKeepsHoles ==
  ASSUME HoleInv, UNCHANGED <<chunks, content, put, verified, files>>,
         \A c \in Commits : commit'[c] \notin {"NEW", "LOADED", "DONE"} =>
             commit[c] \notin {"NEW", "LOADED", "DONE"},
         \A c \in Commits : commit'[c] \in {"HASHED", "RENAMED"} => commit[c] \in {"HASHED", "RENAMED"}
  PROVE  HoleInv'
  BY DEF HoleInv, NoHoles, Whole

(* The claim writes three columns at once. *)
LEMMA ClaimKeepsTypes ==
  ASSUME TypeOK, NEW c \in Commits, Claim(c)
  PROVE  TypeOK'
<1>1. {stale', expired', dir', full'} \subseteq BOOLEAN
  BY DEF Claim, TypeOK, bytes
<1>2. commit' \in [Commits -> CommitSteps]
  BY DEF Claim, TypeOK, CommitBecomes, CommitSteps
<1>3. status' \in {status, "COMMITTING"} /\ intent' \in {intent, c}
  BY DEF Claim
<1>4. UNCHANGED <<chunks, files, place, content, verified, opening, put, cancel, cleanup, recovery, crashes>>
  BY DEF Claim, bytes, jobs
<1>5. QED
  BY <1>1, <1>2, <1>3, <1>4 DEF TypeOK, Contents

(* A commit request preserves it. *)
LEMMA CommitPreserves ==
  ASSUME IInv, NEW c \in Commits, LoadForCommit(c) \/ CommitGoesOn(c)
  PROVE  IInv'
<1> USE UploadsAssumption
<1> USE DEF IInv, TypeOK, HoleInv, FileInv, NoHoles, Whole, Locked, Contents, CommitSteps,
            CommitBecomes, rows, bytes, jobs
<1>1. CASE LoadForCommit(c)
  BY <1>1 DEF LoadForCommit
<1>2. CASE CheckComplete(c)
  BY <1>2 DEF CheckComplete
<1>3. CASE Claim(c)
  <2>1. TypeOK'
    BY <1>3, ClaimKeepsTypes
  <2>2. \A d \in Commits : commit'[d] = commit[d] \/ (d = c /\ commit'[d] \in {"CLAIMED", "DONE"})
    BY <1>3 DEF Claim
  <2>3. HoleInv'
    BY <1>3, <2>2, QuietKeepsHoles DEF Claim
  <2>4. FileInv'
    BY <1>3 DEF Claim
  <2>5. QED
    BY <2>1, <2>3, <2>4
<1>4. CASE MeasurePart(c)
  BY <1>4 DEF MeasurePart
<1>5. CASE HashPart(c)
  BY <1>5 DEF HashPart
<1>6. CASE PublishPart(c)
  BY <1>6 DEF PublishPart
<1>7. CASE FinishUploadCommit(c)
  <2>1. TypeOK'
    BY <1>7 DEF FinishUploadCommit
  <2>2. HoleInv'
    BY <1>7 DEF FinishUploadCommit
  <2>3. FileInv'
    BY <1>7 DEF FinishUploadCommit
  <2>4. QED
    BY <2>1, <2>2, <2>3
<1>8. CASE UndoPublish(c)
  <2>1. CASE Restore(c) /\ CommitBecomes(c, "RELEASE")
    BY <1>8, <2>1 DEF UndoPublish, Restore
  <2>2. CASE CommitBecomes(c, "REMOVE_KEY") /\ UNCHANGED bytes
    BY <1>8, <2>2 DEF UndoPublish
  <2>3. QED
    BY <1>8, <2>1, <2>2 DEF UndoPublish
<1>9. CASE RemoveKey(c)
  BY <1>9 DEF RemoveKey
<1>10. CASE Release(c)
  <2>1. TypeOK'
    BY <1>10 DEF Release, Reopen
  <2>2. HoleInv'
    BY <1>10 DEF Release, Reopen
  <2>3. FileInv'
    BY <1>10 DEF Release, Reopen
  <2>4. QED
    BY <2>1, <2>2, <2>3
<1>11. CASE AbortUpload(c)
  BY <1>11 DEF AbortUpload, SetStatus
<1>12. CASE DiscardStaged(c)
  <2>1. commit[c] \in {"CLEAN", "DISCARD"} /\ \E step \in {"DONE", "ABORT"} : CommitBecomes(c, step)
    BY <1>12 DEF DiscardStaged
  <2>2. TypeOK'
    <3>1. {stale', expired', dir', full'} \subseteq BOOLEAN
      BY <1>12 DEF DiscardStaged, RemoveStaged
    <3>2. QED
      BY <1>12, <2>1, <3>1 DEF DiscardStaged, RemoveStaged
  <2>3. HoleInv'
    BY <1>12, <2>1 DEF DiscardStaged, RemoveStaged
  <2>4. FileInv'
    BY <1>12 DEF DiscardStaged, RemoveStaged
  <2>5. QED
    BY <2>2, <2>3, <2>4
<1>13. CASE CommitFails(c)
  BY <1>13 DEF CommitFails
<1>14. QED
  BY <1>1, <1>2, <1>3, <1>4, <1>5, <1>6, <1>7, <1>8, <1>9, <1>10, <1>11, <1>12, <1>13 DEF CommitGoesOn

(* Cancelling preserves it: it deletes the row and the staged file, neither of
   which the invariant needs. *)
LEMMA CancelPreserves ==
  ASSUME IInv, Cancel
  PROVE  IInv'
<1> USE DEF IInv, TypeOK, HoleInv, FileInv, NoHoles, Whole, Locked, Contents, rows, bytes, jobs
<1>1. CASE LoadForCancel
  BY <1>1 DEF LoadForCancel
<1>2. CASE CancelRemove
  BY <1>2 DEF CancelRemove, RemoveStaged
<1>3. CASE CancelDelete
  BY <1>3 DEF CancelDelete, DeleteRow
<1>4. QED
  BY <1>1, <1>2, <1>3 DEF Cancel

(* So does a clean-up round, which deletes open and aborted rows only. *)
LEMMA CleanUpPreserves ==
  ASSUME IInv, CleanUp
  PROVE  IInv'
<1> USE DEF IInv, TypeOK, HoleInv, FileInv, NoHoles, Whole, Locked, Contents, Cleanable,
            CleanupBecomes, rows, bytes, requests
<1>1. CASE ListExpired
  BY <1>1 DEF ListExpired
<1>2. CASE RemoveExpired
  BY <1>2 DEF RemoveExpired, RemoveStaged
<1>3. CASE DeleteExpired
  BY <1>3 DEF DeleteExpired, DeleteRow
<1>4. CASE ListLive
  BY <1>4 DEF ListLive
<1>5. CASE ReadStagingRoot
  BY <1>5 DEF ReadStagingRoot
<1>6. CASE RemoveOrphan
  BY <1>6 DEF RemoveOrphan, RemoveStaged
<1>7. QED
  BY <1>1, <1>2, <1>3, <1>4, <1>5, <1>6 DEF CleanUp

(* And the recovery, which reopens a row only while it holds its lock. *)
LEMMA RecoverPreserves ==
  ASSUME IInv, Recover
  PROVE  IInv'
<1> USE DEF IInv, TypeOK, HoleInv, FileInv, NoHoles, Whole, Locked, Contents,
            RecoveryBecomes, rows, bytes, requests
<1>1. CASE TakeStaleCommit
  BY <1>1 DEF TakeStaleCommit
<1>2. CASE RecoverBytes
  <2>1. TypeOK'
    BY <1>2 DEF RecoverBytes, Restore
  <2>2. HoleInv'
    BY <1>2 DEF RecoverBytes, Restore
  <2>3. FileInv'
    BY <1>2 DEF RecoverBytes, Restore
  <2>4. QED
    BY <2>1, <2>2, <2>3
<1>3. CASE SettleRecovery
  BY <1>3 DEF SettleRecovery, SetStatus, Reopen
<1>4. QED
  BY <1>1, <1>2, <1>3 DEF Recover

(* Time, the death of the process and a step that changes nothing. *)
LEMMA NextPreserves == IInv /\ [Next]_vars => IInv'
<1> SUFFICES ASSUME IInv, [Next]_vars PROVE IInv'
  OBVIOUS
<1>1. CASE Time
  <2> USE DEF IInv, TypeOK, HoleInv, FileInv, NoHoles, Whole, Locked, Contents, bytes, requests, jobs
  <2>1. CASE UploadExpires
    BY <2>1 DEF UploadExpires
  <2>2. CASE LeaseExpires
    BY <2>2 DEF LeaseExpires
  <2>3. QED
    BY <1>1, <2>1, <2>2 DEF Time
<1>2. CASE Crash
  BY <1>2, UploadsAssumption
  DEF Crash, IInv, TypeOK, HoleInv, FileInv, NoHoles, Whole, Locked, Contents, NoPut, PutSteps,
      CommitSteps, rows, bytes
<1>3. CASE UNCHANGED vars
  BY <1>3 DEF vars, IInv, TypeOK, HoleInv, FileInv, NoHoles, Whole, Locked, Contents, rows, bytes,
              requests, jobs
<1>4. QED
  BY <1>1, <1>2, <1>3, OpenPreserves, PutPreserves, CommitPreserves, CancelPreserves,
     CleanUpPreserves, RecoverPreserves DEF Next

(* The inductive invariant holds in every reachable state. *)
THEOREM Invariance == Spec => []IInv
  BY InitEstablishes, NextPreserves, PTL DEF Spec

(* Every variable keeps its type. *)
THEOREM TypeCorrect == Spec => []TypeOK
<1>1. IInv => TypeOK
  BY DEF IInv
<1>2. QED
  BY <1>1, Invariance, PTL

(* No file is published with a chunk that never arrived, whatever crashes, retries
   and recoveries came between the chunks and the commit. *)
THEOREM WholeCorrect == Spec => []NoHoles
<1>1. IInv => NoHoles
  BY DEF IInv, HoleInv
<1>2. QED
  BY <1>1, Invariance, PTL

(* One upload is published at most once, even when a commit outlives its lease or
   an answer of the database is lost. *)
THEOREM OnceCorrect == Spec => []OneFilePerUpload
<1>1. ASSUME FileInv PROVE OneFilePerUpload
  <2>1. CASE files = {}
    BY <2>1, FS_EmptySet DEF OneFilePerUpload
  <2>2. CASE files # {}
    <3>1. PICK c \in files : files = {c}
      BY <1>1, <2>2 DEF FileInv
    <3>2. QED
      BY <3>1, FS_Singleton DEF OneFilePerUpload
  <2>3. QED
    BY <2>1, <2>2
<1>2. QED
  BY <1>1, Invariance, PTL DEF IInv

-----------------------------------------------------------------------------
(* The client that never changes its file. *)
OneVersion == \A v, w \in Versions : v = w

Settled == \A i \in Chunks : content[i] \in Versions

(* Bytes of such a client, once whole, stay what they are through every later
   write, so that what was hashed is what is published. *)
SteadyInv ==
    /\ \A i \in chunks : content[i] \in Versions
    /\ \A p \in Puts : put[p].step = "WRITTEN" => content[put[p].chunk] \in Versions
    /\ \A c \in Commits : commit[c] \notin {"NEW", "LOADED", "DONE"} => Settled
    /\ \A c \in Commits : commit[c] \in {"HASHED", "RENAMED"} => verified[c] = content
    /\ files # {} => Settled
    /\ PublishedAsVerified

(* A step that touches neither the bytes nor the files, records no chunk and takes
   no commit further than its end preserves it. *)
LEMMA QuietKeepsSteady ==
  ASSUME SteadyInv, chunks' \subseteq chunks, UNCHANGED <<content, verified, files>>,
         \A p \in Puts : put'[p].step = "WRITTEN" => put'[p] = put[p],
         \A c \in Commits : commit'[c] = commit[c] \/ commit'[c] \in {"NEW", "LOADED", "DONE"}
  PROVE  SteadyInv'
  BY DEF SteadyInv, Settled, PublishedAsVerified

(* A chunk request preserves it: a chunk that is written again keeps its bytes. *)
LEMMA PutKeepsSteady ==
  ASSUME OneVersion, IInv, SteadyInv, NEW p \in Puts, Put(p)
  PROVE  SteadyInv'
<1> USE UploadsAssumption DEF IInv, TypeOK, Contents, NoPut, PutBecomes, rows, bytes
<1>1. CASE \E i \in Chunks, v \in Versions : LoadForPut(p, i, v)
  BY <1>1, QuietKeepsSteady DEF LoadForPut
<1>2. CASE OpenPart(p)
  BY <1>2, QuietKeepsSteady DEF OpenPart
<1>3. CASE BeginWrite(p) \/ EndWrite(p)
  <2>1. put[p].bytes \in Versions /\ put[p].chunk \in Chunks
    BY <1>3 DEF BeginWrite, EndWrite, HoleInv
  <2>2. \A i \in Chunks : content[i] \in Versions => content'[i] = content[i]
    BY <1>3, <2>1 DEF BeginWrite, EndWrite, OneVersion
  <2>3. content' \in Contents
    BY <1>3, <2>1 DEF BeginWrite, EndWrite
  <2>4. Settled => content' = content
    BY <2>2, <2>3 DEF Settled
  <2>5. put'[p].step = "WRITTEN" => content'[put[p].chunk] \in Versions
    BY <1>3, <2>1 DEF BeginWrite, EndWrite
  <2>6. UNCHANGED <<chunks, files, verified, commit>> /\ chunks \subseteq Chunks
    BY <1>3 DEF BeginWrite, EndWrite
  <2>7. \A q \in Puts \ {p} : put'[q] = put[q] /\ put[q].chunk \in Chunks
    BY <1>3 DEF BeginWrite, EndWrite
  <2>8. put'[p].chunk = put[p].chunk
    BY <1>3 DEF BeginWrite, EndWrite
  <2>9. \A q \in Puts : put'[q].step = "WRITTEN" => content'[put'[q].chunk] \in Versions
    BY <2>2, <2>5, <2>7, <2>8 DEF SteadyInv
  <2>10. Settled => Settled'
    BY <2>4 DEF Settled
  <2>11. \A i \in chunks : content'[i] \in Versions
    BY <2>2, <2>6 DEF SteadyInv
  <2>12. QED
    BY <2>4, <2>6, <2>9, <2>10, <2>11 DEF SteadyInv, PublishedAsVerified
<1>4. CASE RecordUploadChunk(p)
  BY <1>4 DEF RecordUploadChunk, SteadyInv, Settled, PublishedAsVerified
<1>5. CASE PutFails(p)
  BY <1>5, QuietKeepsSteady DEF PutFails
<1>6. QED
  BY <1>1, <1>2, <1>3, <1>4, <1>5 DEF Put

(* A commit request preserves it: it starts from recorded chunks. *)
LEMMA CommitKeepsSteady ==
  ASSUME OneVersion, IInv, SteadyInv, NEW c \in Commits, LoadForCommit(c) \/ CommitGoesOn(c)
  PROVE  SteadyInv'
<1> USE DEF IInv, TypeOK, SteadyInv, Settled, PublishedAsVerified, CommitBecomes, rows, bytes
<1>1. CASE LoadForCommit(c)
  BY <1>1 DEF LoadForCommit
<1>2. CASE CheckComplete(c)
  BY <1>2 DEF CheckComplete
<1>3. CASE Claim(c)
  BY <1>3 DEF Claim
<1>4. CASE MeasurePart(c)
  BY <1>4 DEF MeasurePart
<1>5. CASE HashPart(c)
  BY <1>5 DEF HashPart
<1>6. CASE PublishPart(c)
  BY <1>6 DEF PublishPart
<1>7. CASE FinishUploadCommit(c)
  BY <1>7 DEF FinishUploadCommit
<1>8. CASE UndoPublish(c)
  BY <1>8 DEF UndoPublish, Restore
<1>9. CASE RemoveKey(c)
  BY <1>9 DEF RemoveKey
<1>10. CASE Release(c)
  BY <1>10 DEF Release, Reopen
<1>11. CASE AbortUpload(c)
  BY <1>11 DEF AbortUpload, SetStatus
<1>12. CASE DiscardStaged(c)
  BY <1>12 DEF DiscardStaged, RemoveStaged
<1>13. CASE CommitFails(c)
  BY <1>13 DEF CommitFails
<1>14. QED
  BY <1>1, <1>2, <1>3, <1>4, <1>5, <1>6, <1>7, <1>8, <1>9, <1>10, <1>11, <1>12, <1>13 DEF CommitGoesOn

(* The other steps are quiet. *)
LEMMA OtherKeepsSteady ==
  ASSUME SteadyInv, Open \/ Cancel \/ CleanUp \/ Recover \/ Time \/ Crash \/ UNCHANGED vars
  PROVE  SteadyInv'
<1> USE QuietKeepsSteady DEF rows, bytes, requests, jobs, RemoveStaged
<1>1. CASE Open
  BY <1>1 DEF Open, CreateStagedPart, CreateUploadSession
<1>2. CASE Cancel
  BY <1>2 DEF Cancel, LoadForCancel, CancelRemove, CancelDelete, DeleteRow
<1>3. CASE CleanUp
  BY <1>3 DEF CleanUp, CleanupBecomes, ListExpired, RemoveExpired, DeleteExpired, ListLive,
              ReadStagingRoot, RemoveOrphan, DeleteRow
<1>4. CASE Recover
  BY <1>4 DEF Recover, RecoveryBecomes, TakeStaleCommit, RecoverBytes, SettleRecovery, Restore,
              SetStatus, Reopen
<1>5. CASE Time
  BY <1>5 DEF Time, UploadExpires, LeaseExpires
<1>6. CASE Crash
  BY <1>6 DEF Crash, NoPut
<1>7. CASE UNCHANGED vars
  BY <1>7 DEF vars
<1>8. QED
  BY <1>1, <1>2, <1>3, <1>4, <1>5, <1>6, <1>7

(* With such a client it holds in every reachable state. *)
LEMMA Steadiness ==
  ASSUME OneVersion
  PROVE  Spec => []SteadyInv
<1>1. Init => SteadyInv
  BY DEF Init, SteadyInv, Settled, PublishedAsVerified, NoPut
<1>2. IInv /\ SteadyInv /\ [Next]_vars => SteadyInv'
  BY OneVersion, PutKeepsSteady, CommitKeepsSteady, OtherKeepsSteady DEF Next
<1>3. QED
  BY <1>1, <1>2, Invariance, PTL DEF Spec

(* The bytes of a published file are those its SHA-256 was computed from, for a
   client that never changes its file: retries, repeated chunks, chunk requests
   still writing during the commit, crashes and recoveries included. *)
THEOREM VerifiedCorrect ==
  ASSUME OneVersion
  PROVE  Spec => []PublishedAsVerified
<1>1. SteadyInv => PublishedAsVerified
  BY DEF SteadyInv
<1>2. Spec => []SteadyInv
  BY OneVersion, Steadiness
<1>3. QED
  BY <1>1, <1>2, PTL
-----------------------------------------------------------------------------
(* The steps of a commit between its claim and the end of what the claim is for. *)
Holding == {"CLAIMED", "MEASURED", "MISMATCH", "HASHED", "RENAMED", "UNDO", "RELEASE", "REMOVE_KEY",
            "DISCARD", "ABORT"}

(* Without faults a claim has one owner, and no recovery beside it; so the bytes a
   commit renamed stay under its key, and those of a file for ever. *)
OwnerInv ==
    /\ opening # "DONE" => \A c \in Commits : commit[c] = "NEW"
    /\ Locked => stale
    /\ \A c \in Commits : commit[c] \in Holding =>
         status = "NONE" \/ (status = "COMMITTING" /\ intent = c /\ ~stale)
    /\ \A c \in Commits : commit[c] = "RENAMED" => place = c
    /\ \A c \in files : commit[c] \in {"CLEAN", "DONE"}
    /\ FileHasBytes

(* A step by which no commit goes on, nothing but staged bytes moves and the row
   is at most deleted preserves it. *)
LEMMA QuietKeepsOwner ==
  ASSUME IInv, OwnerInv, UNCHANGED <<intent, stale, files, commit>>,
         opening' = opening,
         status' \in {status, "NONE"},
         recovery' \in {recovery, "IDLE"},
         place' = place \/ place = "PART"
  PROVE  OwnerInv'
<1>1. \A c \in Commits : place = c => place' = c
  BY UploadsAssumption
<1>2. files \subseteq Commits
  BY DEF IInv, TypeOK
<1>3. QED
  BY <1>1, <1>2 DEF OwnerInv, Locked, FileHasBytes

(* Before the upload is open there are no commits. *)
LEMMA OpenKeepsOwner ==
  ASSUME IInv, OwnerInv, Open
  PROVE  OwnerInv'
<1>1. \A c \in Commits : commit[c] = "NEW"
  BY DEF Open, CreateStagedPart, CreateUploadSession, OwnerInv
<1>2. files = {} /\ files' = {}
  BY DEF Open, CreateStagedPart, CreateUploadSession, IInv, FileInv, rows
<1>3. UNCHANGED <<stale, commit, recovery>>
  BY DEF Open, CreateStagedPart, CreateUploadSession, rows, jobs
<1>4. QED
  BY <1>1, <1>2, <1>3 DEF OwnerInv, Locked, FileHasBytes, Holding

(* A commit preserves it: only the owner of the claim gives it back or ends it. *)
LEMMA CommitKeepsOwner ==
  ASSUME Faults = {}, IInv, OwnerInv, NEW c \in Commits, LoadForCommit(c) \/ CommitGoesOn(c)
  PROVE  OwnerInv'
<1> USE UploadsAssumption
<1>1. commit \in [Commits -> CommitSteps] /\ files \subseteq Commits
  BY DEF IInv, TypeOK
<1>2. Locked => status = "COMMITTING"
  BY DEF IInv, FileInv
<1>3. status = "OPEN" \/ status = "COMMITTING" => files = {}
  BY DEF IInv, FileInv
<1>4. commit[c] # "NEW" => opening = "DONE"
  BY DEF OwnerInv
<1>5. status = "OPEN" => opening = "DONE"
  BY DEF IInv, FileInv
<1> USE DEF OwnerInv, Locked, FileHasBytes, Holding, CommitBecomes, rows, bytes, jobs
<1>6. CASE LoadForCommit(c)
  BY <1>1, <1>5, <1>6 DEF LoadForCommit
<1>7. CASE CheckComplete(c)
  BY <1>1, <1>4, <1>7 DEF CheckComplete
<1>8. CASE Claim(c)
  BY <1>1, <1>2, <1>3, <1>4, <1>8 DEF Claim
<1>9. CASE MeasurePart(c)
  BY <1>1, <1>4, <1>9 DEF MeasurePart
<1>10. CASE HashPart(c)
  BY <1>1, <1>4, <1>10 DEF HashPart
<1>11. CASE PublishPart(c)
  BY <1>1, <1>4, <1>11 DEF PublishPart
<1>12. CASE FinishUploadCommit(c)
  BY <1>1, <1>3, <1>4, <1>12 DEF FinishUploadCommit
<1>13. CASE UndoPublish(c)
  BY <1>1, <1>4, <1>13 DEF UndoPublish, Restore
<1>14. CASE RemoveKey(c)
  BY <1>1, <1>4, <1>14 DEF RemoveKey
<1>15. CASE Release(c)
  BY <1>1, <1>4, <1>15 DEF Release, Reopen
<1>16. CASE AbortUpload(c)
  BY <1>1, <1>4, <1>16 DEF AbortUpload, SetStatus
<1>17. CASE DiscardStaged(c)
  BY <1>1, <1>4, <1>17 DEF DiscardStaged, RemoveStaged
<1>18. CASE CommitFails(c)
  BY <1>1, <1>4, <1>18 DEF CommitFails
<1>19. QED
  BY <1>6, <1>7, <1>8, <1>9, <1>10, <1>11, <1>12, <1>13, <1>14, <1>15, <1>16, <1>17, <1>18
  DEF CommitGoesOn

(* The recovery finds no owner: the lease it waited for runs out after the request. *)
LEMMA RecoverKeepsOwner ==
  ASSUME IInv, OwnerInv, Recover
  PROVE  OwnerInv'
<1>1. status = "COMMITTING" /\ stale /\ files = {}
  BY DEF Recover, TakeStaleCommit, RecoverBytes, SettleRecovery, IInv, FileInv, OwnerInv, Locked
<1>2. \A c \in Commits : commit[c] \notin Holding
  BY <1>1 DEF OwnerInv
<1>3. UNCHANGED <<opening, commit, files>>
  BY DEF Recover, TakeStaleCommit, RecoverBytes, SettleRecovery, RecoveryBecomes, SetStatus, Reopen,
         rows, requests
<1>4. recovery' # "IDLE" => stale' = stale
  BY DEF Recover, TakeStaleCommit, RecoverBytes, SettleRecovery, RecoveryBecomes, rows
<1>5. QED
  BY <1>1, <1>2, <1>3, <1>4 DEF OwnerInv, Locked, FileHasBytes, Holding

(* Without LEASE the lease outlives the request, and a crash ends every request. *)
LEMMA TimeKeepsOwner ==
  ASSUME Faults = {}, IInv, OwnerInv, Time \/ Crash
  PROVE  OwnerInv'
<1>1. commit \in [Commits -> CommitSteps] /\ files \subseteq Commits
  BY DEF IInv, TypeOK
<1>2. CASE UploadExpires
  BY <1>2, QuietKeepsOwner DEF UploadExpires, bytes, requests, jobs
<1>3. CASE LeaseExpires
  <2>1. \A c \in Commits : commit[c] \notin Holding
    BY <1>3 DEF LeaseExpires, Holding
  <2>2. QED
    BY <1>3, <2>1 DEF LeaseExpires, OwnerInv, Locked, FileHasBytes, Holding, bytes, requests, jobs
<1>4. CASE Crash
  BY <1>1, <1>4 DEF Crash, OwnerInv, Locked, FileHasBytes, Holding, rows, bytes
<1>5. QED
  BY <1>2, <1>3, <1>4 DEF Time

(* Chunks, cancels and clean-ups do not touch what is under a key. *)
LEMMA OtherKeepsOwner ==
  ASSUME IInv, OwnerInv, Cancel \/ CleanUp \/ (\E p \in Puts : Put(p)) \/ UNCHANGED vars
  PROVE  OwnerInv'
<1> USE QuietKeepsOwner DEF rows, bytes, requests, jobs, RemoveStaged
<1>1. CASE Cancel
  BY <1>1 DEF Cancel, LoadForCancel, CancelRemove, CancelDelete, DeleteRow
<1>2. CASE CleanUp
  BY <1>2 DEF CleanUp, CleanupBecomes, ListExpired, RemoveExpired, DeleteExpired, ListLive,
              ReadStagingRoot, RemoveOrphan, DeleteRow
<1>3. CASE \E p \in Puts : Put(p)
  BY <1>3 DEF Put, LoadForPut, OpenPart, BeginWrite, EndWrite, RecordUploadChunk, PutFails
<1>4. CASE UNCHANGED vars
  BY <1>4 DEF vars
<1>5. QED
  BY <1>1, <1>2, <1>3, <1>4

(* Without faults it holds in every reachable state. *)
LEMMA Ownership ==
  ASSUME Faults = {}
  PROVE  Spec => []OwnerInv
<1>1. Init => OwnerInv
  BY DEF Init, OwnerInv, Locked, FileHasBytes, Holding
<1>2. IInv /\ OwnerInv /\ [Next]_vars => OwnerInv'
  BY Faults = {}, OpenKeepsOwner, CommitKeepsOwner, RecoverKeepsOwner, TimeKeepsOwner, OtherKeepsOwner
  DEF Next
<1>3. QED
  BY <1>1, <1>2, Invariance, PTL DEF Spec

(* Without faults a file the user sees keeps its bytes where its row says, through
   every race of commits, cancel, clean-up and recovery and any number of crashes. *)
THEOREM BytesCorrect ==
  ASSUME Faults = {}
  PROVE  Spec => []FileHasBytes
<1>1. OwnerInv => FileHasBytes
  BY DEF OwnerInv
<1>2. Spec => []OwnerInv
  BY Faults = {}, Ownership
<1>3. QED
  BY <1>1, <1>2, PTL

-----------------------------------------------------------------------------
(* Uploads implements UploadOutcome. *)
Gone == status = "ABORTED" \/ (status = "NONE" /\ opening = "DONE")

(* What a commit does when its transaction is applied. *)
Publishes(c) ==
    /\ files = {} /\ files' = {c} /\ ~Gone
    /\ UNCHANGED verified

(* No step of a commit request publishes anything but the last of them, and none
   brings an upload back that is gone. *)
LEMMA CommitDecides ==
  ASSUME IInv, NEW c \in Commits, LoadForCommit(c) \/ CommitGoesOn(c)
  PROVE  (files' = files /\ (Gone => Gone')) \/ Publishes(c)
<1>1. status = "OPEN" \/ status = "COMMITTING" => files = {}
  BY DEF IInv, FileInv
<1> USE <1>1 DEF Gone, rows, bytes
<1>2. CASE FinishUploadCommit(c)
  BY <1>2 DEF FinishUploadCommit, Publishes
<1>3. CASE Claim(c)
  BY <1>3 DEF Claim
<1>4. CASE Release(c)
  BY <1>4 DEF Release, Reopen
<1>5. CASE AbortUpload(c)
  BY <1>5 DEF AbortUpload, SetStatus
<1>6. CASE UNCHANGED <<rows, opening>>
  BY <1>6
<1>7. QED
  BY <1>2, <1>3, <1>4, <1>5, <1>6
  DEF CommitGoesOn, LoadForCommit, CheckComplete, MeasurePart, HashPart, PublishPart, UndoPublish,
      RemoveKey, DiscardStaged, CommitFails

(* Nor does any other step. *)
LEMMA OtherDecides ==
  ASSUME IInv, Open \/ Cancel \/ CleanUp \/ Recover \/ Time \/ Crash \/ (\E p \in Puts : Put(p))
               \/ UNCHANGED vars
  PROVE  files' = files /\ (Gone => Gone')
<1>1. opening # "DONE" => status = "NONE"
  BY DEF IInv, FileInv
<1>2. Locked => status = "COMMITTING"
  BY DEF IInv, FileInv
<1> USE <1>1 DEF Gone, rows, requests
<1>3. CASE Open
  BY <1>3 DEF Open, CreateStagedPart, CreateUploadSession
<1>4. CASE Cancel
  BY <1>4 DEF Cancel, LoadForCancel, CancelRemove, CancelDelete, DeleteRow
<1>5. CASE CleanUp
  BY <1>5 DEF CleanUp, CleanupBecomes, ListExpired, RemoveExpired, DeleteExpired, ListLive,
              ReadStagingRoot, RemoveOrphan, DeleteRow, Cleanable
<1>6. CASE Recover
  BY <1>2, <1>6 DEF Recover, RecoveryBecomes, TakeStaleCommit, RecoverBytes, SettleRecovery,
              SetStatus, Reopen, Locked
<1>7. CASE Time
  BY <1>7 DEF Time, UploadExpires, LeaseExpires
<1>8. CASE Crash
  BY <1>8 DEF Crash
<1>9. CASE \E p \in Puts : Put(p)
  BY <1>9 DEF Put, LoadForPut, OpenPart, BeginWrite, EndWrite, RecordUploadChunk, PutFails
<1>10. CASE UNCHANGED vars
  BY <1>10 DEF vars
<1>11. QED
  BY <1>3, <1>4, <1>5, <1>6, <1>7, <1>8, <1>9, <1>10

(* So a step leaves a decided upload as it is, or decides it. *)
LEMMA StepDecides ==
  ASSUME IInv, [Next]_vars
  PROVE  \/ files' = files /\ (Gone => Gone')
         \/ \E c \in Commits : Publishes(c)
  BY CommitDecides, OtherDecides DEF Next

(* A published upload stays published and a dropped one dropped, even when a commit
   outlives its lease or an answer of the database is lost. *)
THEOREM DecidedCorrect == Spec => DecidedOnce
<1>1. IInv /\ [Next]_vars => [Fate # "UNDECIDED" => Fate' = Fate]_vars
  <2> SUFFICES ASSUME IInv, [Next]_vars, Fate # "UNDECIDED" PROVE Fate' = Fate
    OBVIOUS
  <2>1. CASE files' = files /\ (Gone => Gone')
    BY <2>1 DEF Fate, Gone
  <2>2. CASE \E c \in Commits : Publishes(c)
    BY <2>2 DEF Fate, Gone, Publishes
  <2>3. QED
    BY <2>1, <2>2, StepDecides
<1>2. QED
  BY <1>1, Invariance, PTL DEF Spec, DecidedOnce

Shown == {[key |-> c, bytes |-> StoredUnder(c), hashed |-> verified[c]] : c \in files}

(* In a state where the files have their bytes, and these are the hashed ones, what
   the user sees follows from the checksums alone. *)
LEMMA ShownIsHashed ==
  ASSUME FileHasBytes, PublishedAsVerified
  PROVE  Shown = {[key |-> c, bytes |-> verified[c], hashed |-> verified[c]] : c \in files}
  BY DEF Shown, StoredUnder, FileHasBytes, PublishedAsVerified

(* The checksum of a published file is never computed again. *)
LEMMA HashStays ==
  ASSUME IInv, OwnerInv, [Next]_vars
  PROVE  \A c \in files : verified'[c] = verified[c]
<1> SUFFICES ASSUME NEW d \in files PROVE verified'[d] = verified[d]
  OBVIOUS
<1>1. d \in Commits /\ commit[d] # "MEASURED" /\ verified \in [Commits -> Contents]
  BY DEF IInv, TypeOK, OwnerInv
<1> USE <1>1 DEF rows, bytes, requests, RemoveStaged, Restore
<1>2. CASE Open
  BY <1>2 DEF Open, CreateStagedPart, CreateUploadSession
<1>3. CASE Cancel
  BY <1>3 DEF Cancel, LoadForCancel, CancelRemove, CancelDelete
<1>4. CASE CleanUp
  BY <1>4 DEF CleanUp, ListExpired, RemoveExpired, DeleteExpired, ListLive, ReadStagingRoot, RemoveOrphan
<1>5. CASE Recover
  BY <1>5 DEF Recover, TakeStaleCommit, RecoverBytes, SettleRecovery
<1>6. CASE Time \/ Crash \/ UNCHANGED vars
  BY <1>6 DEF Time, UploadExpires, LeaseExpires, Crash, vars
<1>7. CASE \E p \in Puts : Put(p)
  BY <1>7 DEF Put, LoadForPut, OpenPart, BeginWrite, EndWrite, RecordUploadChunk, PutFails
<1>8. ASSUME NEW c \in Commits, LoadForCommit(c) \/ CommitGoesOn(c) PROVE verified'[d] = verified[d]
  <2>1. CASE HashPart(c)
    BY <2>1 DEF HashPart
  <2>2. CASE UNCHANGED verified
    BY <2>2
  <2>3. QED
    BY <1>8, <2>1, <2>2
    DEF CommitGoesOn, LoadForCommit, CheckComplete, Claim, MeasurePart, PublishPart, FinishUploadCommit,
        UndoPublish, RemoveKey, Release, AbortUpload, DiscardStaged, CommitFails
<1>9. QED
  BY <1>2, <1>3, <1>4, <1>5, <1>6, <1>7, <1>8 DEF Next

(* Every step of an upload is a step of UploadOutcome or invisible to it. *)
LEMMA StepKeepsOutcome ==
  ASSUME IInv, SteadyInv, OwnerInv, IInv', SteadyInv', OwnerInv', [Next]_vars
  PROVE  [Outcome!ONext]_(Outcome!ovars)
<1>1. FileHasBytes /\ PublishedAsVerified /\ FileHasBytes' /\ PublishedAsVerified'
  BY DEF OwnerInv, SteadyInv
<1>2. Shown = {[key |-> c, bytes |-> verified[c], hashed |-> verified[c]] : c \in files}
  BY <1>1, ShownIsHashed
<1>3. Shown' = {[key |-> c, bytes |-> verified'[c], hashed |-> verified'[c]] : c \in files'}
  BY <1>1 DEF Shown, StoredUnder, FileHasBytes, PublishedAsVerified
<1>4. CASE files' = files /\ (Gone => Gone')
  <2>1. Shown' = Shown
    BY <1>2, <1>3, <1>4, HashStays
  <2>2. Fate' = Fate \/ (Fate = "UNDECIDED" /\ Fate' = "DROPPED")
    BY <1>4 DEF Fate, Gone
  <2>3. QED
    BY <2>1, <2>2 DEF Shown, Outcome!ONext, Outcome!Drop, Outcome!ovars
<1>5. ASSUME NEW c \in Commits, Publishes(c) PROVE Outcome!ONext
  <2>1. Fate = "UNDECIDED" /\ Fate' = "PUBLISHED"
    BY <1>5 DEF Publishes, Fate, Gone
  <2>2. Shown' = {[key |-> c, bytes |-> verified'[c], hashed |-> verified'[c]]}
    BY <1>3, <1>5 DEF Publishes
  <2>3. verified'[c] \in [Chunks -> Versions]
    <3>1. content' = verified'[c]
      BY <1>1, <1>5 DEF PublishedAsVerified, Publishes
    <3>2. content' \in Contents'
      BY DEF IInv, TypeOK
    <3>3. \A i \in Chunks : content'[i] \in Versions
      BY <1>5 DEF SteadyInv, Settled, Publishes
    <3>4. QED
      BY <3>1, <3>2, <3>3 DEF Contents
  <2>4. PICK b \in [Chunks -> Versions] : b = verified'[c]
    BY <2>3
  <2>5. Outcome!Publish(c, b)
    BY <2>1, <2>2, <2>4 DEF Outcome!Publish, Shown
  <2>6. QED
    BY <2>5 DEF Outcome!ONext
<1>6. QED
  BY <1>4, <1>5, StepDecides

(* Without faults and for a client that never changes its file, an upload keeps the
   promise of UploadOutcome: decided once, published whole with the bytes that were
   hashed, for ever, or dropped for ever. *)
THEOREM OutcomeCorrect ==
  ASSUME Faults = {}, OneVersion
  PROVE  Spec => KeepsOutcome
<1>1. Init => Outcome!OInit
  BY DEF Init, Outcome!OInit, Fate
<1>2. IInv /\ IInv' /\ SteadyInv /\ SteadyInv' /\ OwnerInv /\ OwnerInv' /\ [Next]_vars =>
        [Outcome!ONext]_(Outcome!ovars)
  BY StepKeepsOutcome
<1>3. (Spec => []SteadyInv) /\ (Spec => []OwnerInv)
  BY Faults = {}, OneVersion, Steadiness, Ownership
<1>4. QED
  BY <1>1, <1>2, <1>3, Invariance, PTL DEF Spec, KeepsOutcome, Outcome!OSpec
=============================================================================
