-------------------------------- MODULE MCRecomp --------------------------------
(* Recomp on small instances. *)
EXTENDS Recomp, TLC

Symmetry == Permutations(Procs)

=============================================================================
