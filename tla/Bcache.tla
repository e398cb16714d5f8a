------------------------------- MODULE Bcache -------------------------------
(***************************************************************************)
(* The buffer cache (bio.c) over the disk driver, as the file system and   *)
(* the log use it: a use gets one block (bread), may change it and then    *)
(* hands it to the log (log_write sets B_DIRTY, which pins the buffer) or  *)
(* to the disk (bwrite), and releases it.  A process is in one use of the  *)
(* cache at a time, or in two: bmap keeps the indirect block while balloc  *)
(* reads the bitmap, and the log copies from one buffer into another.      *)
(*                                                                         *)
(* A step is a critical section of bcache.lock or of idelock, or the       *)
(* moment a buffer's sleep lock changes hands (module SleepLock).          *)
(***************************************************************************)
EXTENDS Ide

CONSTANT MaxPinned     \* bound: buffers the log keeps dirty

ASSUME PinAssumption == MaxPinned \in Nat

VARIABLES want,        \* per use: the block asked of bread
          lru          \* the list from bcache.head: most recently used first

vars == <<ideVars, want, lru>>

\* binit; bufs hold no block of the device yet.
Init ==
    /\ disk = [k \in Blocks |-> CHOOSE v \in Vals : TRUE]
    /\ buf = [b \in Bufs |-> [blk |-> None, valid |-> FALSE, dirty |-> FALSE, ref |-> 0,
                              lock |-> None, data |-> CHOOSE v \in Vals : TRUE]]
    /\ idequeue = <<>>
    /\ ctl = None
    /\ irq = FALSE
    /\ pc = [p \in Uses |-> "idle"]
    /\ mine = [p \in Uses |-> None]
    /\ want = [p \in Uses |-> None]
    /\ lru = [i \in Bufs |-> NBUF + 1 - i]
    /\ panic = FALSE

Cached(k) == {b \in Bufs : buf[b].blk = k}
MutantUnused == {i \in DOMAIN lru : buf[lru[i]].ref = 0 /\ ~buf[lru[i]].valid}
Unused == {i \in DOMAIN lru : buf[lru[i]].ref = 0 /\ ~buf[lru[i]].dirty}
Victim == lru[CHOOSE i \in Unused : \A j \in Unused : j <= i]
Pinned == {b \in Bufs : buf[b].dirty}

MutantReuse(b, k) == [buf EXCEPT ![b].blk = k, ![b].ref = 1]
Reuse(b, k) == [buf EXCEPT ![b].blk = k, ![b].ref = 1, ![b].valid = FALSE]

\* bget up to the release of bcache.lock.
Bget(p, k) ==
    /\ Goto(p, "idle", "lock")
    /\ want' = [want EXCEPT ![p] = k]
    /\ \/ \E b \in Cached(k) :
             /\ mine' = [mine EXCEPT ![p] = b]
             /\ buf' = [buf EXCEPT ![b].ref = @ + 1]
             /\ UNCHANGED panic
       \/ /\ Cached(k) = {} /\ Unused # {}
          /\ mine' = [mine EXCEPT ![p] = Victim]
          /\ buf' = Reuse(Victim, k)
          /\ UNCHANGED panic
       \/ /\ Cached(k) = {} /\ Unused = {}
          /\ panic' = TRUE
          /\ UNCHANGED <<buf, mine>>
    /\ UNCHANGED <<disk, idequeue, ctl, irq, lru>>

\* acquiresleep of bget, and bread's test of B_VALID.
BreadLocked(p) ==
    LET b == mine[p] IN
    /\ pc[p] = "lock" /\ buf[b].lock = None
    /\ Goto(p, "lock", IF buf[b].valid THEN "have" ELSE "iderw")
    /\ buf' = [buf EXCEPT ![b].lock = p]
    /\ UNCHANGED <<disk, idequeue, ctl, irq, mine, panic, want, lru>>

\* The caller changes the data.
Modify(p, v) ==
    /\ pc[p] \in {"have", "changed"} /\ pc' = [pc EXCEPT ![p] = "changed"]
    /\ buf' = [buf EXCEPT ![mine[p]].data = v]
    /\ UNCHANGED <<disk, idequeue, ctl, irq, mine, panic, want, lru>>

\* log_write, as far as the buffer goes.
LogWrite(p) ==
    /\ Goto(p, "changed", "have")
    /\ Cardinality(Pinned \cup {mine[p]}) <= MaxPinned
    /\ buf' = [buf EXCEPT ![mine[p]].dirty = TRUE]
    /\ UNCHANGED <<disk, idequeue, ctl, irq, mine, panic, want, lru>>

\* bwrite up to the call of iderw: a change that is not logged, or the commit
\* of one that is.
Bwrite(p) ==
    /\ pc[p] = "changed" \/ (pc[p] = "have" /\ buf[mine[p]].dirty)
    /\ pc' = [pc EXCEPT ![p] = "iderw"]
    /\ buf' = [buf EXCEPT ![mine[p]].dirty = TRUE]
    /\ UNCHANGED <<disk, idequeue, ctl, irq, mine, panic, want, lru>>

\* brelse up to releasesleep.
BrelseUnlock(p) ==
    /\ Goto(p, "have", "put")
    /\ buf' = [buf EXCEPT ![mine[p]].lock = None]
    /\ UNCHANGED <<disk, idequeue, ctl, irq, mine, panic, want, lru>>

MutantReleased(b) == buf[b].ref
Released(b) == buf[b].ref - 1

\* The buffer is unlinked and put in front of the list.
MoveToFront(b) ==
    LET k == CHOOSE i \in DOMAIN lru : lru[i] = b IN
    [i \in DOMAIN lru |-> IF i = 1 THEN b ELSE IF i <= k THEN lru[i - 1] ELSE lru[i]]

\* The rest of brelse, under bcache.lock: the last user moves the buffer to
\* the front of the list.
BrelsePut(p) ==
    LET b == mine[p] IN
    /\ Goto(p, "put", "idle")
    /\ buf' = [buf EXCEPT ![b].ref = Released(b)]
    /\ lru' = IF Released(b) = 0 THEN MoveToFront(b) ELSE lru
    /\ mine' = [mine EXCEPT ![p] = None]
    /\ want' = [want EXCEPT ![p] = None]
    /\ UNCHANGED <<disk, idequeue, ctl, irq, panic>>

Drive(p) == (Iderw(p) \/ IderwSleep(p) \/ IderwDone(p) \/ Roused(p)) /\ UNCHANGED <<want, lru>>
Hardware == (DiskDone \/ IdeIntr) /\ UNCHANGED <<want, lru>>

Step(p) ==
    \/ Drive(p) \/ BreadLocked(p) \/ LogWrite(p) \/ Bwrite(p) \/ BrelseUnlock(p) \/ BrelsePut(p)
    \/ \E k \in Blocks : Bget(p, k)
    \/ \E v \in Vals : Modify(p, v)

Next == ~panic /\ (Hardware \/ \E p \in Uses : Step(p))

Spec == Init /\ [][Next]_vars

-----------------------------------------------------------------------------
(* Properties *)

\* Two buffers never cache the same block, a locked buffer is one its holder
\* has counted, and the queue of the driver has each waiting buffer once.
OneBufferPerBlock ==
    /\ \A k \in Blocks : Cardinality(Cached(k)) <= 1
    /\ \A b \in Bufs : buf[b].ref = Cardinality({p \in Uses : mine[p] = b})
    /\ \A b \in Bufs : Cardinality({i \in DOMAIN idequeue : idequeue[i] = b}) <= 1

Content(k) ==
    IF \E b \in Cached(k) : buf[b].valid
    THEN buf[CHOOSE b \in Cached(k) : buf[b].valid].data ELSE disk[k]

InUse(p) == pc[p] \in {"have", "changed"} \/ (pc[p] \in {"iderw", "wait", "asleep"} /\ buf[mine[p]].valid)

Store == INSTANCE BlockStore WITH
    content <- [k \in Blocks |-> Content(k)],
    holds <- [p \in Uses |-> IF InUse(p) THEN want[p] ELSE None],
    view <- [p \in Uses |-> IF InUse(p) THEN buf[mine[p]].data ELSE None]

\* Seen through bread and brelse, the disk is a store of blocks: whoever has
\* a block locked sees what was last written to it, whether that is on the
\* disk, on its way there or pinned in memory, and nobody else sees it change.
BlocksAreAtomic == Store!StoreSpec

Active == {p \in Uses : pc[p] # "idle"}

\* No buffer is lost to a count that is never lowered or to a dirty bit that is
\* never cleared: bget finds a victim whenever the uses under way, its own
\* included, and the buffers the log may pin are no more than NBUF.  Beyond that
\* it panics, which the kernel's constants do not exclude.  iderw's panics are
\* not reached.
BufferAvailable == Cardinality(Active) + MaxPinned <= NBUF => ~panic

\* A process asleep in iderw is never forgotten: its buffer is queued, the
\* request at the head of the queue is with the controller, and nobody sleeps
\* on a buffer that is already synchronised.
RequestPending ==
    /\ idequeue = <<>> <=> ctl = None
    /\ idequeue # <<>> => ctl.blk = buf[Head(idequeue)].blk
    /\ \A p \in Uses : pc[p] = "asleep" => \E i \in DOMAIN idequeue : idequeue[i] = mine[p]
=============================================================================
