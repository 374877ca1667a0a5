-------------------------------- MODULE MCRelay --------------------------------
(* TLC instances of Relay. *)
EXTENDS Relay, FiniteSets

(* Bound on what a behaviour explores: few replies on the wire, few heartbeats in
   the ring (the full ring is DeadMan's subject). *)
FewFrames == Cardinality(acks) + Cardinality(statuses) <= 2 /\ Len(heartbeatReplay) <= 1
=============================================================================
