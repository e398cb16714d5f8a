------------------------------ MODULE MCBcache ------------------------------
EXTENDS Bcache, TLC

\* A kernel that has panicked stays as it is.
MCSpec == Init /\ [][Next \/ (panic /\ UNCHANGED vars)]_vars

\* Uses and blocks are interchangeable.
Symmetry == Permutations(Uses) \cup Permutations(Blocks)
=============================================================================
