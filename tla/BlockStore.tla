----------------------------- MODULE BlockStore -----------------------------
(***************************************************************************)
(* What the buffer cache promises: blocks with one content each, which one *)
(* process at a time has locked and can read and change in place.          *)
(***************************************************************************)
CONSTANTS Uses, Blocks, Vals, None

VARIABLES content,   \* of every block
          holds,     \* the block a process has locked
          view       \* what it finds there

storeVars == <<content, holds, view>>

StoreInit ==
    /\ content \in [Blocks -> Vals]
    /\ holds = [p \in Uses |-> None]
    /\ view = [p \in Uses |-> None]

Lock(p, b) ==
    /\ holds[p] = None /\ \A q \in Uses : holds[q] # b
    /\ holds' = [holds EXCEPT ![p] = b]
    /\ view' = [view EXCEPT ![p] = content[b]]
    /\ UNCHANGED content

Change(p, v) ==
    /\ holds[p] # None
    /\ content' = [content EXCEPT ![holds[p]] = v]
    /\ view' = [view EXCEPT ![p] = v]
    /\ UNCHANGED holds

Unlock(p) ==
    /\ holds[p] # None
    /\ holds' = [holds EXCEPT ![p] = None]
    /\ view' = [view EXCEPT ![p] = None]
    /\ UNCHANGED content

StoreNext == \E p \in Uses :
    \/ \E b \in Blocks : Lock(p, b)
    \/ \E v \in Vals : Change(p, v)
    \/ Unlock(p)

StoreSpec == StoreInit /\ [][StoreNext]_storeVars
=============================================================================
