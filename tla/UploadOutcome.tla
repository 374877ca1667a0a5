----------------------------- MODULE UploadOutcome -----------------------------
(***************************************************************************)
(* What a resumable upload promises the user, with no requests, rows,      *)
(* staged bytes, leases or crashes: it is decided once.  Either one file   *)
(* appears, complete, with its bytes and the checksum of these very bytes, *)
(* and no later request or job of the upload takes it away, changes it or  *)
(* publishes a second one; or the upload is dropped, and no file ever      *)
(* comes of it.  Uploads implements this specification.                    *)
(***************************************************************************)

CONSTANTS
    Chunks,  (* the pieces a file consists of *)
    Pieces,  (* what a client may send for a piece *)
    Keys     (* the names a file may be stored under *)

VARIABLES
    fate,    (* of the upload *)
    shown    (* the files the user sees *)

ovars == <<fate, shown>>

OInit == fate = "UNDECIDED" /\ shown = {}

(* A file appears, with its bytes and their checksum. *)
Publish(k, b) ==
    /\ fate = "UNDECIDED"
    /\ fate' = "PUBLISHED"
    /\ shown' = {[key |-> k, bytes |-> b, hashed |-> b]}

Drop ==
    /\ fate = "UNDECIDED"
    /\ fate' = "DROPPED"
    /\ UNCHANGED shown

ONext == Drop \/ \E k \in Keys, b \in [Chunks -> Pieces] : Publish(k, b)

OSpec == OInit /\ [][ONext]_ovars
=============================================================================
