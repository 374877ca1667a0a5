----------------------------- MODULE MCCommandLink -----------------------------
(* TLC instances of CommandLink: a small ceiling stands for 2^63 - 1. *)
EXTENDS CommandLink, FiniteSets

(* Bound on the replies a behaviour explores: at most this many distinct ACK and
   STATUS frames on the wire. *)
FewReplies == Cardinality(acks) + Cardinality(statuses) <= 3
=============================================================================
