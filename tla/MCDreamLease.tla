------------------------------- MODULE MCDreamLease -------------------------------
(* DreamLease on a small instance: runs as model values, a lease of a few ticks. *)
EXTENDS DreamLease, TLC

\* Runs that fence their writes differ in nothing but their name.
RunSymmetry == Permutations(Fenced)

=============================================================================
