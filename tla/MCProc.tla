------------------------------- MODULE MCProc -------------------------------
(* Model values for Proc; the CPUs are interchangeable. *)
EXTENDS Proc, TLC

OnlyIO == {IO}
Symmetry == Permutations(Cpus)
=============================================================================
