---------------------------- MODULE MCRetention ----------------------------
(* Instances of retention for TLC. *)
EXTENDS RetentionProperties, TLC

\* Projects differ in how they come about, and file names in which is the main one.
Symmetry == Permutations(Cleaners)
===========================================================================
