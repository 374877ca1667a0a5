------------------------------ MODULE MCRecovery ------------------------------
(* A small instance of Recovery.  No operation compares two addresses but for
   equality, so they are interchangeable. *)
EXTENDS Recovery, TLC

AddressSymmetry == Permutations(Addresses)
=============================================================================
