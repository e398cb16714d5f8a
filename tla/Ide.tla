-------------------------------- MODULE Ide --------------------------------
(***************************************************************************)
(* The disk driver (ide.c): a queue of buffers whose head is the request   *)
(* the controller works on, the processes asleep on the buffer they        *)
(* queued, and the interrupt that finishes one request and starts the      *)
(* next.  A step is a critical section of idelock.                         *)
(***************************************************************************)
EXTENDS Naturals, Sequences, FiniteSets

CONSTANTS Uses,          \* of buffers, each from its bread to its brelse
          Blocks, Vals, NBUF,
          None           \* no block, no use, no request

Bufs == 1 .. NBUF

\* What the controller is told: the block, the direction, the data.
Requests == [blk : Blocks, write : BOOLEAN, data : Vals \cup {None}]

ASSUME SizesAssumption == NBUF \in Nat /\ IsFiniteSet(Uses) /\ Vals # {}
ASSUME NoneAssumption ==
    None \notin Uses /\ None \notin Blocks /\ None \notin Bufs /\ None \notin Requests

VARIABLES disk,          \* the blocks on the disk
          buf,           \* struct buf: blk, valid, dirty, ref, data, and the
                         \* use that holds its sleep lock
          idequeue,
          ctl,           \* the request given to the controller
          irq,           \* the controller has raised its interrupt
          pc, mine,      \* per use: place in the code, its buffer
          panic

ideVars == <<disk, buf, idequeue, ctl, irq, pc, mine, panic>>

Goto(p, from, to) == pc[p] = from /\ pc' = [pc EXCEPT ![p] = to]

\* VALID and not DIRTY: the request is finished.
Synced(b) == buf[b].valid /\ ~buf[b].dirty

\* idestart: the data of a write goes to the controller now.
Request(b) == [blk |-> buf[b].blk, write |-> buf[b].dirty,
               data |-> IF buf[b].dirty THEN buf[b].data ELSE None]

\* iderw: queue the buffer, start the disk when it is idle.
Iderw(p) ==
    LET b == mine[p] IN
    /\ pc[p] = "iderw"
    /\ IF Synced(b) \/ buf[b].lock # p
       THEN panic' = TRUE /\ UNCHANGED <<pc, idequeue, ctl>>
       ELSE /\ pc' = [pc EXCEPT ![p] = "wait"]
            /\ idequeue' = Append(idequeue, b)
            /\ ctl' = IF idequeue = <<>> THEN Request(b) ELSE ctl
            /\ UNCHANGED panic
    /\ UNCHANGED <<disk, buf, irq, mine>>

\* The while loop of iderw, entered with idelock held.
IderwSleep(p) ==
    /\ Goto(p, "wait", "asleep")
    /\ ~Synced(mine[p])
    /\ UNCHANGED <<disk, buf, idequeue, ctl, irq, mine, panic>>

IderwDone(p) ==
    /\ Goto(p, "wait", "have")
    /\ Synced(mine[p])
    /\ UNCHANGED <<disk, buf, idequeue, ctl, irq, mine, panic>>

\* A kill makes the sleeper runnable; the loop tests the flags again.
Roused(p) ==
    /\ Goto(p, "asleep", "wait")
    /\ UNCHANGED <<disk, buf, idequeue, ctl, irq, mine, panic>>

\* The controller (external): the request is carried out, the interrupt raised.
DiskDone ==
    /\ ctl # None /\ ~irq
    /\ irq' = TRUE
    /\ IF ctl.write THEN disk' = [disk EXCEPT ![ctl.blk] = ctl.data] /\ UNCHANGED ctl
       ELSE ctl' = [ctl EXCEPT !.data = disk[ctl.blk]] /\ UNCHANGED disk
    /\ UNCHANGED <<buf, idequeue, pc, mine, panic>>

MutantIntrNext == None

\* The request the interrupt handler starts next.
IntrNext == IF Len(idequeue) > 1 THEN Request(idequeue[2]) ELSE None

\* ideintr: the head of the queue is finished, its waiter woken.  With an
\* empty queue the handler returns at once, which changes nothing.
IdeIntr ==
    /\ irq /\ idequeue # <<>>
    /\ irq' = FALSE
    /\ LET b == Head(idequeue) IN
       /\ buf' = [buf EXCEPT ![b].valid = TRUE, ![b].dirty = FALSE,
                             ![b].data = IF buf[b].dirty THEN @ ELSE ctl.data]
       /\ pc' = [p \in Uses |-> IF pc[p] = "asleep" /\ mine[p] = b THEN "wait" ELSE pc[p]]
    /\ idequeue' = Tail(idequeue)
    /\ ctl' = IntrNext
    /\ UNCHANGED <<disk, mine, panic>>
=============================================================================
