--------------------------- MODULE MCCommandArbiter ---------------------------
(* TLC instances of CommandArbiter: two CUT and two or three RESTORE requests,
   each bound to either of two incidents. *)
EXTENDS CommandArbiter, TLC

(* RESTORE requests are interchangeable, and so are incidents; the CUT requests
   are not, one of them being patient. *)
Interchangeable == Permutations(Restores) \cup Permutations(Incidents)
=============================================================================
