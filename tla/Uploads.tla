-------------------------------- MODULE Uploads --------------------------------
(***************************************************************************)
(* One resumable upload of AEGIS Drive: its requests (routes/uploads.js),  *)
(* its staged bytes (storage/uploadStaging.js), its rows (db/store.js),    *)
(* the clean-up of abandoned uploads (storage/uploadCleanup.js) and the    *)
(* recovery of interrupted commits (storage/commitRecovery.js).            *)
(*                                                                         *)
(* Rows and bytes live in two stores without a common transaction, and     *)
(* every await between them is a place where another request runs or the   *)
(* process dies.  An upload has one file on disk for its whole life: it is *)
(* created once, then only renamed, so it is enough to know under which    *)
(* name it lies.  Uploads share nothing, since ids and keys are random.    *)
(***************************************************************************)
EXTENDS Integers, FiniteSets

CONSTANTS
    Chunks,    (* chunk indices *)
    Last,      (* the index whose bytes give the file its full size *)
    Versions,  (* bytes a client may send for a chunk; one if it never changes its file *)
    Puts,      (* chunk requests that may run at the same time *)
    Commits,   (* commit requests, each with the storage key it draws *)
    NoKey,
    Crashes,   (* bound on the deaths of the server process *)
    Faults     (* LEASE: a commit may outlive its lease; ANSWER: the answer to the
                  COMMIT of finishUploadCommit may be lost *)

ASSUME UploadsAssumption ==
    /\ Last \in Chunks
    /\ NoKey \notin Commits
    /\ {"NOWHERE", "PART"} \cap Commits = {}
    /\ {"HOLE", "TORN"} \cap Versions = {}
    /\ Crashes \in Nat
    /\ Faults \subseteq {"LEASE", "ANSWER"}

VARIABLES
    status,    (* upload_sessions.status; NONE: no such row *)
    intent,    (* commit_storage_key *)
    stale,     (* commit_started_at lies further back than the lease *)
    expired,   (* expires_at is past *)
    chunks,    (* indices with an upload_session_chunks row *)
    files,     (* keys a files row was written for *)
    place,     (* the name of the file: PART, a storage key, or NOWHERE *)
    dir,       (* the staging directory exists *)
    content,   (* what the file holds for each chunk *)
    full,      (* the file has its full size *)
    verified,  (* the content each commit computed its SHA-256 from *)
    opening,   (* the request that opens the upload *)
    put,       (* chunk requests: step, index and bytes *)
    commit,    (* step of each commit request *)
    cancel,    (* step of the cancel request *)
    cleanup,   (* step of the clean-up round *)
    recovery,  (* step of the recovery, which holds the row's lock unless IDLE *)
    crashes

rows == <<status, intent, stale, expired, chunks, files>>
bytes == <<place, dir, content, full, verified>>
requests == <<opening, put, commit, cancel>>
jobs == <<cleanup, recovery, crashes>>
vars == <<rows, bytes, requests, jobs>>

Contents == [Chunks -> Versions \cup {"HOLE", "TORN"}]
NoPut == [step |-> "IDLE", chunk |-> Last, bytes |-> "HOLE"]
PutSteps == {"IDLE", "LOADED", "OPENED", "WRITING", "WRITTEN"}
CommitSteps == {"NEW", "LOADED", "COMPLETE", "CLAIMED", "MEASURED", "MISMATCH", "HASHED", "RENAMED", "UNDO",
                "RELEASE", "REMOVE_KEY", "DISCARD", "ABORT", "CLEAN", "DONE"}

TypeOK ==
    /\ status \in {"NONE", "OPEN", "COMMITTING", "COMMITTED", "ABORTED"}
    /\ intent \in Commits \cup {NoKey}
    /\ {stale, expired, dir, full} \subseteq BOOLEAN
    /\ chunks \subseteq Chunks
    /\ files \subseteq Commits
    /\ place \in Commits \cup {"NOWHERE", "PART"}
    /\ content \in Contents
    /\ verified \in [Commits -> Contents]
    /\ opening \in {"NEW", "STAGED", "DONE"}
    /\ put \in [Puts -> [step : PutSteps, chunk : Chunks, bytes : Versions \cup {"HOLE"}]]
    /\ commit \in [Commits -> CommitSteps]
    /\ cancel \in {"NEW", "LOADED", "REMOVED", "DONE"}
    /\ cleanup \in {"IDLE", "REMOVE", "DELETE", "LISTED", "LIVE_LISTED", "ORPHAN"}
    /\ recovery \in {"IDLE", "TAKEN", "RESTORED", "LOST"}
    /\ crashes \in 0..Crashes

Empty == [i \in Chunks |-> "HOLE"]

Init ==
    /\ status = "NONE" /\ intent = NoKey /\ stale = FALSE /\ expired = FALSE
    /\ chunks = {} /\ files = {}
    /\ place = "NOWHERE" /\ dir = FALSE /\ content = Empty /\ full = FALSE
    /\ verified = [c \in Commits |-> Empty]
    /\ opening = "NEW" /\ put = [p \in Puts |-> NoPut]
    /\ commit = [c \in Commits |-> "NEW"] /\ cancel = "NEW"
    /\ cleanup = "IDLE" /\ recovery = "IDLE" /\ crashes = 0

-----------------------------------------------------------------------------
(* The row is locked FOR UPDATE by the recovery.  Statements that look for an
   open row do not wait for it, since what they see is a committing one. *)
Locked == recovery # "IDLE"

(* removeStagedSession *)
RemoveStaged ==
    /\ dir' = FALSE
    /\ place' = IF place = "PART" THEN "NOWHERE" ELSE place
    /\ UNCHANGED <<content, full, verified>>

(* restoreStagedPart: the directory is made again and the file renamed back. *)
Restore(key) ==
    /\ place = key
    /\ place' = "PART" /\ dir' = TRUE
    /\ UNCHANGED <<content, full, verified>>

(* The row and, by cascade, its chunks. *)
DeleteRow ==
    /\ status' = "NONE" /\ chunks' = {}
    /\ UNCHANGED <<intent, stale, expired, files>>

SetStatus(to) ==
    /\ status' = IF status = "NONE" THEN status ELSE to
    /\ UNCHANGED <<intent, stale, expired, chunks, files>>

(* Back to open, the commit intent cleared. *)
Reopen ==
    /\ status' = "OPEN" /\ intent' = NoKey /\ stale' = FALSE
    /\ UNCHANGED <<expired, chunks, files>>

PutBecomes(p, step) == put' = [put EXCEPT ![p].step = step]
CommitBecomes(c, step) == commit' = [commit EXCEPT ![c] = step]
CleanupBecomes(step) == cleanup' = step /\ UNCHANGED <<recovery, crashes, requests>>
RecoveryBecomes(step) == recovery' = step /\ UNCHANGED <<cleanup, crashes, requests>>

-----------------------------------------------------------------------------
(* Faulty variants of the operations below, one plausible slip each.  No
   behaviour of Spec uses them; substituted for their original they show that
   the property named beside them can fail. *)

(* TypeOK: the bytes are recorded in the place of the index. *)
RecordChunkSwapped(p) ==
    /\ put[p].step = "WRITTEN" /\ ~Locked
    /\ chunks' = IF status = "NONE" THEN chunks ELSE chunks \cup {put[p].bytes}
    /\ put' = [put EXCEPT ![p] = NoPut]
    /\ UNCHANGED <<status, intent, stale, expired, files, bytes, opening, commit, cancel, jobs>>

(* KeepsOutcome: the chunk is recorded without waiting for the pipeline. *)
BeginWriteAndRecord(p) ==
    /\ put[p].step = "OPENED" /\ PutBecomes(p, "WRITING")
    /\ content' = [content EXCEPT ![put[p].chunk] = IF @ = put[p].bytes THEN @ ELSE "TORN"]
    /\ full' = (full \/ put[p].chunk = Last)
    /\ chunks' = IF status = "NONE" THEN chunks ELSE chunks \cup {put[p].chunk}
    /\ UNCHANGED <<status, intent, stale, expired, files, place, dir, verified, opening, commit, cancel, jobs>>

(* NoHoles: complete once the last index has arrived. *)
CheckCompleteByLast(c) ==
    /\ commit[c] = "LOADED"
    /\ CommitBecomes(c, IF Last \in chunks THEN "COMPLETE" ELSE "DONE")
    /\ UNCHANGED <<rows, bytes, opening, put, cancel, jobs>>

(* OneFilePerUpload: the claim is not confirmed in the transaction. *)
FinishUnconfirmed(c) ==
    /\ commit[c] = "RENAMED" /\ ~Locked
    /\ \/ /\ status' = IF status = "NONE" THEN status ELSE "COMMITTED"
          /\ files' = files \cup {c} /\ CommitBecomes(c, "CLEAN")
       \/ UNCHANGED <<status, files>> /\ CommitBecomes(c, "UNDO")
    /\ UNCHANGED <<intent, stale, expired, chunks, bytes, opening, put, cancel, jobs>>

(* DecidedOnce: the row is reopened whatever became of it meanwhile. *)
ReleaseAny(c) ==
    /\ commit[c] = "RELEASE" /\ ~Locked /\ CommitBecomes(c, "DONE")
    /\ IF status # "NONE" THEN Reopen ELSE UNCHANGED rows
    /\ UNCHANGED <<bytes, opening, put, cancel, jobs>>

(* FileHasBytes: the audit row is written inside the try, so that its failure
   undoes a commit that was applied. *)
FinishAndAudit(c) ==
    /\ commit[c] = "RENAMED" /\ ~Locked
    /\ \/ /\ status = "COMMITTING"
          /\ status' = "COMMITTED" /\ files' = files \cup {c}
          /\ CommitBecomes(c, "CLEAN") \/ CommitBecomes(c, "UNDO")
       \/ UNCHANGED <<status, files>> /\ CommitBecomes(c, "UNDO")
    /\ UNCHANGED <<intent, stale, expired, chunks, bytes, opening, put, cancel, jobs>>

(* CommitSettles: an upload whose bytes are unusable is passed over. *)
SettleUsable ==
    /\ recovery \in {"RESTORED", "LOST"} /\ RecoveryBecomes("IDLE")
    /\ IF intent \in files /\ place = intent THEN SetStatus("COMMITTED")
       ELSE IF recovery = "RESTORED" /\ place = "PART" /\ full THEN Reopen
       ELSE UNCHANGED rows
    /\ UNCHANGED bytes

-----------------------------------------------------------------------------
(* The upload is opened: first its file, then its row. *)
CreateStagedPart ==
    /\ opening = "NEW" /\ opening' = "STAGED"
    /\ place' = "PART" /\ dir' = TRUE
    /\ UNCHANGED <<rows, content, full, verified, put, commit, cancel, jobs>>

CreateUploadSession ==
    /\ opening = "STAGED" /\ opening' = "DONE"
    /\ \/ status' = "OPEN" /\ UNCHANGED <<intent, stale, expired, chunks, files, bytes>>
       \/ RemoveStaged /\ UNCHANGED rows
    /\ UNCHANGED <<put, commit, cancel, jobs>>

-----------------------------------------------------------------------------
(* PUT of a chunk: the session is read, the file opened, the bytes streamed to
   their place, the chunk recorded. *)
LoadForPut(p, i, v) ==
    /\ put[p].step = "IDLE" /\ status = "OPEN" /\ ~expired
    /\ put' = [put EXCEPT ![p] = [step |-> "LOADED", chunk |-> i, bytes |-> v]]
    /\ UNCHANGED <<rows, bytes, opening, commit, cancel, jobs>>

OpenPart(p) ==
    /\ put[p].step = "LOADED" /\ place = "PART" /\ PutBecomes(p, "OPENED")
    /\ UNCHANGED <<rows, bytes, opening, commit, cancel, jobs>>

(* The descriptor follows the file under any name.  Bytes that are there already
   do not change while they are written again. *)
BeginWrite(p) ==
    /\ put[p].step = "OPENED" /\ PutBecomes(p, "WRITING")
    /\ content' = [content EXCEPT ![put[p].chunk] = IF @ = put[p].bytes THEN @ ELSE "TORN"]
    /\ UNCHANGED <<rows, place, dir, full, verified, opening, commit, cancel, jobs>>

EndWrite(p) ==
    /\ put[p].step = "WRITING" /\ PutBecomes(p, "WRITTEN")
    /\ content' = [content EXCEPT ![put[p].chunk] = put[p].bytes]
    /\ full' = (full \/ put[p].chunk = Last)
    /\ UNCHANGED <<rows, place, dir, verified, opening, commit, cancel, jobs>>

RecordUploadChunk(p) ==
    /\ put[p].step = "WRITTEN" /\ ~Locked
    /\ chunks' = IF status = "NONE" THEN chunks ELSE chunks \cup {put[p].chunk}
    /\ put' = [put EXCEPT ![p] = NoPut]
    /\ UNCHANGED <<status, intent, stale, expired, files, bytes, opening, commit, cancel, jobs>>

(* The client goes away, sends too much or too little, or the disk fails. *)
PutFails(p) ==
    /\ put[p].step # "IDLE"
    /\ put' = [put EXCEPT ![p] = NoPut]
    /\ UNCHANGED <<rows, bytes, opening, commit, cancel, jobs>>

-----------------------------------------------------------------------------
(* POST commit. *)
LoadForCommit(c) ==
    /\ commit[c] = "NEW" /\ status = "OPEN" /\ ~expired
    /\ CommitBecomes(c, "LOADED")
    /\ UNCHANGED <<rows, bytes, opening, put, cancel, jobs>>

CheckComplete(c) ==
    /\ commit[c] = "LOADED"
    /\ CommitBecomes(c, IF chunks = Chunks THEN "COMPLETE" ELSE "DONE")
    /\ UNCHANGED <<rows, bytes, opening, put, cancel, jobs>>

(* claimUploadSessionForCommit: open becomes committing, with the key, at once. *)
Claim(c) ==
    /\ commit[c] = "COMPLETE"
    /\ IF status = "OPEN"
         THEN /\ status' = "COMMITTING" /\ intent' = c /\ stale' = FALSE
              /\ CommitBecomes(c, "CLAIMED")
         ELSE CommitBecomes(c, "DONE") /\ UNCHANGED <<status, intent, stale>>
    /\ UNCHANGED <<expired, chunks, files, bytes, opening, put, cancel, jobs>>

MeasurePart(c) ==
    /\ commit[c] = "CLAIMED"
    /\ CommitBecomes(c, IF place = "PART" /\ full THEN "MEASURED" ELSE "RELEASE")
    /\ UNCHANGED <<rows, bytes, opening, put, cancel, jobs>>

(* The hash of the bytes on disk; it may differ from the one the client claims. *)
HashPart(c) ==
    /\ commit[c] = "MEASURED" /\ place = "PART"
    /\ \/ CommitBecomes(c, "HASHED") \/ CommitBecomes(c, "MISMATCH")
    /\ verified' = [verified EXCEPT ![c] = content]
    /\ UNCHANGED <<rows, place, dir, content, full, opening, put, cancel, jobs>>

PublishPart(c) ==
    /\ commit[c] = "HASHED" /\ place = "PART"
    /\ place' = c /\ CommitBecomes(c, "RENAMED")
    /\ UNCHANGED <<rows, dir, content, full, verified, opening, put, cancel, jobs>>

(* finishUploadCommit, one transaction: applied, rolled back, or applied with its
   answer lost. *)
FinishUploadCommit(c) ==
    /\ commit[c] = "RENAMED" /\ ~Locked
    /\ \/ /\ status = "COMMITTING"
          /\ status' = "COMMITTED" /\ files' = files \cup {c}
          /\ \/ CommitBecomes(c, "CLEAN")
             \/ "ANSWER" \in Faults /\ CommitBecomes(c, "UNDO")
       \/ UNCHANGED <<status, files>> /\ CommitBecomes(c, "UNDO")
    /\ UNCHANGED <<intent, stale, expired, chunks, bytes, opening, put, cancel, jobs>>

(* The transaction failed: the bytes go back to staging, or everything goes. *)
UndoPublish(c) ==
    /\ commit[c] = "UNDO"
    /\ \/ Restore(c) /\ CommitBecomes(c, "RELEASE")
       \/ CommitBecomes(c, "REMOVE_KEY") /\ UNCHANGED bytes
    /\ UNCHANGED <<rows, opening, put, cancel, jobs>>

RemoveKey(c) ==
    /\ commit[c] = "REMOVE_KEY" /\ CommitBecomes(c, "DISCARD")
    /\ place' \in {place, IF place = c THEN "NOWHERE" ELSE place}
    /\ UNCHANGED <<rows, dir, content, full, verified, opening, put, cancel, jobs>>

Release(c) ==
    /\ commit[c] = "RELEASE" /\ ~Locked /\ CommitBecomes(c, "DONE")
    /\ IF status = "COMMITTING" THEN Reopen ELSE UNCHANGED rows
    /\ UNCHANGED <<bytes, opening, put, cancel, jobs>>

AbortUpload(c) ==
    /\ ~Locked /\ SetStatus("ABORTED")
    /\ \/ commit[c] = "MISMATCH" /\ CommitBecomes(c, "CLEAN")
       \/ commit[c] = "ABORT" /\ CommitBecomes(c, "DONE")
    /\ UNCHANGED <<bytes, opening, put, cancel, jobs>>

DiscardStaged(c) ==
    /\ \/ commit[c] = "CLEAN" /\ CommitBecomes(c, "DONE")
       \/ commit[c] = "DISCARD" /\ CommitBecomes(c, "ABORT")
    /\ RemoveStaged
    /\ UNCHANGED <<rows, opening, put, cancel, jobs>>

(* A query or a file operation fails and the request ends where it is. *)
CommitFails(c) ==
    /\ commit[c] \in {"LOADED", "COMPLETE", "CLAIMED", "MEASURED", "MISMATCH", "HASHED", "RELEASE", "ABORT"}
    /\ CommitBecomes(c, "DONE")
    /\ UNCHANGED <<rows, bytes, opening, put, cancel, jobs>>

-----------------------------------------------------------------------------
(* DELETE of the upload: its status is read once, at the start. *)
LoadForCancel ==
    /\ cancel = "NEW" /\ status \in {"OPEN", "ABORTED"} /\ cancel' = "LOADED"
    /\ UNCHANGED <<rows, bytes, opening, put, commit, jobs>>

CancelRemove ==
    /\ cancel = "LOADED" /\ cancel' = "REMOVED" /\ RemoveStaged
    /\ UNCHANGED <<rows, opening, put, commit, jobs>>

CancelDelete ==
    /\ cancel = "REMOVED" /\ ~Locked /\ cancel' = "DONE" /\ DeleteRow
    /\ UNCHANGED <<bytes, opening, put, commit, jobs>>

-----------------------------------------------------------------------------
(* A clean-up round: expired uploads, then directories without a row. *)
Cleanable == status \in {"OPEN", "ABORTED"}

ListExpired ==
    /\ cleanup = "IDLE" /\ CleanupBecomes(IF Cleanable /\ expired THEN "REMOVE" ELSE "LISTED")
    /\ UNCHANGED <<rows, bytes>>

RemoveExpired ==
    /\ cleanup = "REMOVE" /\ CleanupBecomes("DELETE")
    /\ RemoveStaged /\ UNCHANGED rows

DeleteExpired ==
    /\ cleanup = "DELETE" /\ CleanupBecomes("LISTED")
    /\ IF Cleanable THEN DeleteRow ELSE UNCHANGED rows
    /\ UNCHANGED bytes

ListLive ==
    /\ cleanup = "LISTED" /\ CleanupBecomes(IF status = "NONE" THEN "LIVE_LISTED" ELSE "IDLE")
    /\ UNCHANGED <<rows, bytes>>

ReadStagingRoot ==
    /\ cleanup = "LIVE_LISTED" /\ CleanupBecomes(IF dir THEN "ORPHAN" ELSE "IDLE")
    /\ UNCHANGED <<rows, bytes>>

RemoveOrphan ==
    /\ cleanup = "ORPHAN" /\ CleanupBecomes("IDLE")
    /\ RemoveStaged /\ UNCHANGED rows

-----------------------------------------------------------------------------
(* Recovery of a commit whose lease ran out, inside one transaction. *)
TakeStaleCommit ==
    /\ recovery = "IDLE" /\ status = "COMMITTING" /\ stale
    /\ RecoveryBecomes("TAKEN")
    /\ UNCHANGED <<rows, bytes>>

(* A key with a files row is left alone; bytes under a key without one go back. *)
RecoverBytes ==
    /\ recovery = "TAKEN"
    /\ IF intent \in files
         THEN RecoveryBecomes("LOST") /\ UNCHANGED bytes
         ELSE \/ Restore(intent) /\ RecoveryBecomes("RESTORED")
              \/ RecoveryBecomes(IF place = intent THEN "LOST" ELSE "RESTORED") /\ UNCHANGED bytes
    /\ UNCHANGED rows

SettleRecovery ==
    /\ recovery \in {"RESTORED", "LOST"} /\ RecoveryBecomes("IDLE")
    /\ IF intent \in files /\ place = intent THEN SetStatus("COMMITTED")
       ELSE IF recovery = "RESTORED" /\ place = "PART" /\ full THEN Reopen
       ELSE SetStatus("ABORTED")
    /\ UNCHANGED bytes

-----------------------------------------------------------------------------
(* Time: the upload expires; the lease of a commit runs out, without LEASE only
   after the request that took it has ended. *)
UploadExpires ==
    /\ status # "NONE" /\ ~expired /\ expired' = TRUE
    /\ UNCHANGED <<status, intent, stale, chunks, files, bytes, requests, jobs>>

LeaseExpires ==
    /\ status = "COMMITTING" /\ ~stale /\ stale' = TRUE
    /\ "LEASE" \in Faults \/ \A c \in Commits : commit[c] \in {"NEW", "LOADED", "COMPLETE", "DONE"}
    /\ UNCHANGED <<status, intent, expired, chunks, files, bytes, requests, jobs>>

(* The process dies: rows and bytes stay, an open transaction is rolled back. *)
Crash ==
    /\ crashes < Crashes /\ crashes' = crashes + 1
    /\ opening' = IF opening = "STAGED" THEN "DONE" ELSE opening
    /\ put' = [p \in Puts |-> NoPut]
    /\ commit' = [c \in Commits |-> IF commit[c] = "NEW" THEN "NEW" ELSE "DONE"]
    /\ cancel' = IF cancel = "NEW" THEN "NEW" ELSE "DONE"
    /\ cleanup' = "IDLE" /\ recovery' = "IDLE"
    /\ UNCHANGED <<rows, bytes>>

Open == CreateStagedPart \/ CreateUploadSession
Put(p) ==
    \/ \E i \in Chunks, v \in Versions : LoadForPut(p, i, v)
    \/ OpenPart(p) \/ BeginWrite(p) \/ EndWrite(p) \/ RecordUploadChunk(p) \/ PutFails(p)
CommitGoesOn(c) ==
    \/ CheckComplete(c) \/ Claim(c) \/ MeasurePart(c) \/ HashPart(c) \/ PublishPart(c)
    \/ FinishUploadCommit(c) \/ UndoPublish(c) \/ RemoveKey(c) \/ Release(c)
    \/ AbortUpload(c) \/ DiscardStaged(c) \/ CommitFails(c)
Cancel == LoadForCancel \/ CancelRemove \/ CancelDelete
CleanUp == ListExpired \/ RemoveExpired \/ DeleteExpired \/ ListLive \/ ReadStagingRoot \/ RemoveOrphan
Recover == TakeStaleCommit \/ RecoverBytes \/ SettleRecovery
Time == UploadExpires \/ LeaseExpires

Next ==
    \/ Open \/ Cancel \/ CleanUp \/ Recover \/ Time \/ Crash
    \/ \E p \in Puts : Put(p)
    \/ \E c \in Commits : LoadForCommit(c) \/ CommitGoesOn(c)

(* A commit request that runs ends, the lease runs out, and the recovery comes
   round every few minutes. *)
Fairness ==
    /\ \A c \in Commits : WF_vars(CommitGoesOn(c))
    /\ WF_vars(Recover) /\ WF_vars(LeaseExpires)

Spec == Init /\ [][Next]_vars /\ Fairness

-----------------------------------------------------------------------------
(* A file the user sees has its bytes where its row says, through every race of
   commit, cancel, clean-up, recovery and crash. *)
FileHasBytes == \A c \in files : place = c

(* The bytes of a file are those its recorded SHA-256 was computed from. *)
PublishedAsVerified == \A c \in files : content = verified[c]

(* No file is published with a chunk that never arrived. *)
NoHoles == \A c \in files, i \in Chunks : verified[c][i] # "HOLE"

(* One upload gives at most one file, or one version of a file. *)
OneFilePerUpload == Cardinality(files) <= 1

(* No upload stays in committing. *)
CommitSettles == status = "COMMITTING" ~> status # "COMMITTING"

(* routes/uploads.js: an upload cannot be cancelled while its commit works. *)
CancelSparesCommit == [][status = "COMMITTING" => status' # "NONE"]_vars

(* storage/uploadCleanup.js: a clean-up round is safe beside running uploads, so
   an upload nobody cancelled, committed or let expire keeps its file. *)
OpenKeepsPart ==
    status = "OPEN" /\ ~expired /\ cancel = "NEW" /\ (\A c \in Commits : commit[c] = "NEW") =>
        place = "PART"
-----------------------------------------------------------------------------
(* The fate of the upload: published with its files row, dropped when it can
   never be open again. *)
Fate ==
    IF files # {} THEN "PUBLISHED"
    ELSE IF status = "ABORTED" \/ (status = "NONE" /\ opening = "DONE") THEN "DROPPED"
    ELSE "UNDECIDED"

(* What lies under a key. *)
StoredUnder(c) == IF place = c THEN content ELSE Empty

Outcome == INSTANCE UploadOutcome WITH
    Pieces <- Versions,
    Keys <- Commits,
    fate <- Fate,
    shown <- {[key |-> c, bytes |-> StoredUnder(c), hashed |-> verified[c]] : c \in files}

(* An upload is decided once: published or dropped, it stays so, whatever requests,
   jobs, faults and crashes come after. *)
DecidedOnce == [][Fate # "UNDECIDED" => Fate' = Fate]_vars

(* Every step of an upload, of any request, job or crash, is a step of
   UploadOutcome or invisible to it: an upload is decided once and for ever. *)
KeepsOutcome == Outcome!OSpec
=============================================================================
