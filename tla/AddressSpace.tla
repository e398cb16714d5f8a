---------------------------- MODULE AddressSpace ----------------------------
(***************************************************************************)
(* What processes are promised of memory: each has an array of pages of    *)
(* its own, that only its own calls and stores change.                     *)
(***************************************************************************)
EXTENDS Integers, Sequences

CONSTANTS Procs, Values, Images,   \* the pages of the programs exec can load
          NoSpace

VARIABLE space

\* The first process starts with initcode.
SpaceInit == \E p \in Procs : space = [q \in Procs |-> IF q = p THEN <<"initcode">> ELSE NoSpace]

\* Only the space of p changes, to what the action says of space'[p].
Only(p) == space' = [space EXCEPT ![p] = space'[p]]

Fork(p, q) == Only(q) /\ space[q] = NoSpace /\ space'[q] = space[p]

Exec(p) == space'[p] \in Images

\* The process, or a call it makes, writes some of its pages.
StoreIn(p) ==
    /\ Len(space'[p]) = Len(space[p])
    /\ \A i \in DOMAIN space[p] : space'[p][i] = space[p][i] \/ space'[p][i] \in Values

Shrink(p) ==
    /\ Len(space'[p]) <= Len(space[p])
    /\ space'[p] = SubSeq(space[p], 1, Len(space'[p]))

Grow(p) ==
    /\ Len(space'[p]) > Len(space[p])
    /\ \A i \in DOMAIN space'[p] :
          space'[p][i] = IF i <= Len(space[p]) THEN space[p][i] ELSE "zero"

SpaceNext ==
    \E p \in Procs : /\ space[p] # NoSpace
                     /\ \/ \E q \in Procs : Fork(p, q)
                        \/ Only(p) /\ space'[p] = NoSpace
                        \/ /\ Only(p) /\ space'[p] # NoSpace
                           /\ Exec(p) \/ StoreIn(p) \/ Shrink(p) \/ Grow(p)

SpaceSpec == SpaceInit /\ [][SpaceNext]_space
=============================================================================
