----------------------------- MODULE MCProcess -----------------------------
(* Instances of Process for TLC. *)
EXTENDS Process, TLC

\* The CPUs are interchangeable (used for the safety run only).
Symmetry == Permutations(CPU)
=============================================================================
