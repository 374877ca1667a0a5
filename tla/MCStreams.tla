------------------------------- MODULE MCStreams -------------------------------
(* A small instance of Streams for TLC: any permutation of the streams takes a
   behaviour to a behaviour. *)
EXTENDS Streams, TLC

Symmetry == Permutations(Streams)
=================================================================================
