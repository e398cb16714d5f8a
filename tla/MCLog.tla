-------------------------------- MODULE MCLog --------------------------------
(* Model values for Log: processes, blocks and contents are interchangeable. *)
EXTENDS Log, TLC

Symmetry == Permutations(Procs) \cup Permutations(Blocks) \cup Permutations(Vals)
=============================================================================
