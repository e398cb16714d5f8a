-------------------------------- MODULE Mlfq --------------------------------
(***************************************************************************)
(* The process table with the MLFQ build of scheduler(): five ring buffers *)
(* of struct proc pointers, a time slice per level, demotion at the end of *)
(* a full slice and the ageing pass every Ageing_const ticks.              *)
(*                                                                         *)
(* Every step is a step of Proc together with what the same critical       *)
(* section does to the rings.  A CPU that gets control back from a process *)
(* runs on to the end of scheduler()'s loop body, so the ageing pass       *)
(* belongs to that step.                                                   *)
(***************************************************************************)
EXTENDS Proc, Sequences

CONSTANTS Slice,        \* slice[]: ticks per level; its length is the number of levels
          Ageing_const,
          Cpu0          \* the CPU whose timer advances ticks

ASSUME SliceAssumption == Slice \in Seq(Nat \ {0}) /\ Len(Slice) > 0
ASSUME AgeingAssumption == Ageing_const \in Nat

Levels == 0 .. Len(Slice) - 1
Lowest == Len(Slice) - 1

\* The scheduler looks at the clock only through differences of ticks, and at
\* those only to see whether they exceed Ageing_const: they saturate above it.
Cap(n) == IF n > Ageing_const THEN Ageing_const + 1 ELSE n

VARIABLES rq,       \* ptable.queue, every p->queue, the scheduler's panics, and
                    \* (history) whether ageing has moved a process yet
          used,     \* a, the slices the process on each CPU has used up
          uptime,   \* ticks
          idle,     \* ticks - p->last_executed
          since     \* ticks - ageing_update of each CPU

clockVars == <<uptime, idle, since>>
schedVars == <<rq, used, uptime, idle, since>>
mvars == <<vars, schedVars>>

-----------------------------------------------------------------------------
(* The rings.  rq.ring[q] lists the entries of ptable.queue[q] from          *)
(* queue_head[q] up to queue_tail[q].                                        *)

MutantEnqueueFront(r, q, p) ==
    [r EXCEPT !.ring[q] = <<p>> \o @, !.level[p] = q]

\* enqueue(): nothing stops tail from catching up with head, and then the ring
\* counts as empty.
Enqueue(r, q, p) ==
    IF q \notin Levels
    THEN [r EXCEPT !.panic = "out of bound quenumber"]
    ELSE [r EXCEPT !.ring[q] = IF Len(@) + 1 = NPROC THEN <<>> ELSE Append(@, p),
                   !.level[p] = q]

\* dequeue() drops whatever is at the head.  On an empty ring head overtakes
\* tail and NPROC - 1 old pointers come back to life; the model stops there.
Dequeue(r, q) ==
    IF r.ring[q] = <<>> THEN [r EXCEPT !.panic = "head overtakes tail"]
    ELSE [r EXCEPT !.ring[q] = Tail(@)]

\* wakeup1 and kill enqueue each process of S at its own level, in table order;
\* woken[n] is the state of the rings after n slots.
Requeue(r, S) ==
    LET one(w, p) == IF p \in S THEN Enqueue(w, w.level[p], p) ELSE w
        woken[n \in 0 .. NPROC] == IF n = 0 THEN r ELSE one(woken[n - 1], n - 1)
    IN  woken[NPROC]

Busy(r) == {q \in Levels : r.ring[q] # <<>>}

MutantChoice(r) == IF Busy(r) = {} THEN NoProc ELSE Head(r.ring[Max(Busy(r))])

\* The choice of scheduler(): the head of the first ring that is not empty.
Choice(r) == IF Busy(r) = {} THEN NoProc ELSE Head(r.ring[Min(Busy(r))])

-----------------------------------------------------------------------------
(* Ageing *)

\* Bound on the entries one pass visits in a ring: a visit that appends to
\* the ring it walks also lowers some p->queue.
MaxVisits == NPROC * (Len(Slice) + 1)

TooLong(waited, p) == waited[p] > Ageing_const

\* One turn of the loop over ring q, for the k-th entry p that the ring had or
\* got since the loop began: when p has waited too long, the HEAD of the ring
\* is dequeued and p is enqueued one level above its own.  w.gone counts those
\* heads.
Visit(w, q, waited, k) ==
    LET ring == w.r.ring[q]
        p == ring[k - w.gone]
    IN  IF w.r.panic # "none" \/ k - w.gone > Len(ring) \/ ~TooLong(waited, p) THEN w
        ELSE [r |-> [Enqueue(Dequeue(w.r, q), w.r.level[p] - 1, p) EXCEPT !.aged = TRUE],
              gone |-> w.gone + 1]

\* The loop over ring q, from the head it had at the start to its tail.
AgeLevel(r, q, waited) ==
    LET walk[k \in 0 .. MaxVisits] ==
          IF k = 0 THEN [r |-> r, gone |-> 0]
          ELSE CHOOSE v \in {Visit(w, q, waited, k) : w \in {walk[k - 1]}} : TRUE
    IN  walk[MaxVisits].r

AgeAll(r, waited) ==
    LET pass[q \in Levels] ==
          IF q = 0 THEN r ELSE AgeLevel(pass[q - 1], q, waited)
    IN  pass[Lowest]

\* The end of scheduler()'s loop body on CPU c, entered with the rings r and
\* with elapsed ticks since each CPU's last pass.
LoopEnd(c, r, elapsed) ==
    LET due == elapsed[c] > Ageing_const IN
    /\ rq' = IF due THEN AgeAll(r, idle') ELSE r
    /\ since' = IF due THEN [elapsed EXCEPT ![c] = 0] ELSE elapsed

-----------------------------------------------------------------------------
(* The scheduler *)

\* The rings after userinit has enqueued init (and scheduler() has not run
\* its one-time reset after that, see Boot).
MlfqInit ==
    /\ Init
    /\ rq = [ring  |-> [q \in Levels |-> IF q = 0 THEN <<Initproc>> ELSE <<>>],
             level |-> [p \in Slots |-> 0],
             panic |-> "none",
             aged  |-> FALSE]
    /\ used = [c \in Cpus |-> 0]
    /\ uptime = 0
    /\ idle = [p \in Slots |-> 0]
    /\ since = [c \in Cpus |-> 0]

\* Switch to the chosen process: dequeue() on the ring of its own level.
Pick(c, p) ==
    /\ cpu[c] = NoProc /\ p = Choice(rq)
    /\ Dispatch(c, p)
    /\ used' = [used EXCEPT ![c] = 0]
    /\ rq' = Dequeue(rq, rq.level[p])
    /\ UNCHANGED clockVars

\* scheduler() finds a process in a ring that is not RUNNABLE.
PickPanic(c, p) ==
    /\ LockFree /\ cpu[c] = NoProc /\ p = Choice(rq)
    /\ state[p] # "RUNNABLE"
    /\ rq' = [rq EXCEPT !.panic = "process is sleeping"]
    /\ UNCHANGED <<vars, used, clockVars>>

\* The rings are empty: the loop body only looks at the clock.
IdleLoop(c) ==
    /\ LockFree /\ cpu[c] = NoProc /\ Choice(rq) = NoProc
    /\ since[c] > Ageing_const
    /\ UNCHANGED <<vars, used, uptime, idle>>
    /\ LoopEnd(c, rq, since)

\* The timer interrupt: CPU 0 advances ticks, and the process that runs on the
\* interrupted CPU sets its last_executed to ticks.
Ticked(c, f) == IF c = Cpu0 THEN [x \in DOMAIN f |-> Cap(f[x] + 1)] ELSE f

TimerTick(c) ==
    /\ uptime' = IF c = Cpu0 THEN Cap(uptime + 1) ELSE uptime
    /\ idle' = [p \in Slots |-> IF On(c, p) THEN 0 ELSE Ticked(c, idle)[p]]

TimerIdle(c) ==
    /\ cpu[c] = NoProc
    /\ TimerTick(c)
    /\ since' = Ticked(c, since)
    /\ UNCHANGED <<vars, rq, used>>

\* The timer hits inside a slice: yield() and the slice loop give p the CPU
\* again in one critical section.
TimerSlice(c, p) ==
    /\ LockFree /\ On(c, p) /\ used[c] + 1 < Slice[rq.level[p] + 1]
    /\ TimerTick(c)
    /\ since' = Ticked(c, since)
    /\ used' = [used EXCEPT ![c] = @ + 1]
    /\ UNCHANGED <<vars, rq>>

\* p->queue after a full slice.
Demoted(p) == IF rq.level[p] < Lowest THEN rq.level[p] + 1 ELSE Lowest

\* The timer hits at the end of the slice: p goes to the next lower level.
TimerExpire(c, p) ==
    /\ On(c, p) /\ used[c] + 1 >= Slice[rq.level[p] + 1]
    /\ TimerTick(c)
    /\ Yield(c, p)
    /\ LoopEnd(c, Enqueue(rq, Demoted(p), p), Ticked(c, since))
    /\ used' = [used EXCEPT ![c] = 0]

\* The scheduler comes back from a process that went to sleep or exited.
Leave(c, r) ==
    /\ UNCHANGED <<uptime, idle>>
    /\ LoopEnd(c, r, since)
    /\ used' = [used EXCEPT ![c] = 0]

\* The calls that enqueue without going through the scheduler.
Queue(r) == rq' = r /\ UNCHANGED <<used, clockVars>>

\* exit(): the parent is enqueued before init.
ExitQueue(p) ==
    LET first == SleepersOn(parent[p]) IN
    Requeue(Requeue(rq, first), ExitWakes(p) \ first)

\* allocproc(): level 0, last_executed 0.
MlfqFork(c, p) ==
    /\ ForkAlloc(c, p)
    /\ rq' = [rq EXCEPT !.level[Min(Unused)] = 0]
    /\ idle' = [idle EXCEPT ![Min(Unused)] = uptime]
    /\ UNCHANGED <<used, uptime, since>>

MutantForkDone(c, p) == ForkDone(c, p) /\ Queue(rq)

MlfqForkDone(c, p) == ForkDone(c, p) /\ Queue(Enqueue(rq, 0, child[p]))

MlfqWakeup(ch) == Wakeup(ch) /\ Queue(Requeue(rq, SleepersOn(ch)))

MlfqKill(c, p, k) == Kill(c, p, k) /\ Queue(Requeue(rq, KillWakes(k)))

MlfqSleep(c, p) ==
    /\ WaitSleep(c, p) \/ IoSleep(c, p) \/ DiskSleep(c, p)
    /\ Leave(c, rq)

MlfqExit(c, p) == ExitDone(c, p) /\ Leave(c, ExitQueue(p))

\* The steps that touch no ring.
MlfqOther(c, p) ==
    /\ \/ Syscall(c, p) \/ Return(c, p) \/ Fault(c, p) \/ ForkFail(c, p)
       \/ ExitBegin(c, p) \/ WaitReap(c, p) \/ WaitNone(c, p) \/ SleepCheck(c, p)
    /\ UNCHANGED schedVars

Halted == panic # "none" \/ rq.panic # "none"

MlfqHalt == Halted /\ UNCHANGED mvars

MlfqStep(c, p) ==
    \/ Pick(c, p) \/ PickPanic(c, p) \/ TimerSlice(c, p) \/ TimerExpire(c, p)
    \/ MlfqFork(c, p) \/ MlfqForkDone(c, p) \/ MlfqSleep(c, p) \/ MlfqExit(c, p)
    \/ MlfqOther(c, p)
    \/ \E k \in KillPids : MlfqKill(c, p, k)

MlfqNext ==
    \/ /\ ~Halted
       /\ \/ \E c \in Cpus, p \in Slots : MlfqStep(c, p)
          \/ \E c \in Cpus : IdleLoop(c) \/ TimerIdle(c)
          \/ \E ch \in Chans : MlfqWakeup(ch)
    \/ MlfqHalt

MlfqSpec == MlfqInit /\ [][MlfqNext]_mvars

\* A CPU in scheduler() keeps looking for work, its timer keeps ticking, and a
\* process that holds the lock goes on.
MlfqFairness ==
    \A c \in Cpus :
        /\ WF_mvars(~Halted /\ \E p \in Slots : Pick(c, p))
        /\ WF_mvars(~Halted /\ \E p \in Slots : TimerSlice(c, p) \/ TimerExpire(c, p))
        /\ WF_mvars(~Halted /\ \E p \in Slots :
               /\ Rescan(c, p)
               /\ IF cpu'[c] = p THEN UNCHANGED schedVars ELSE Leave(c, rq))

FairMlfqSpec == MlfqSpec /\ MlfqFairness

-----------------------------------------------------------------------------
(* Properties *)

\* The number of places p has in ring q.
Places(p, q) == Cardinality({i \in DOMAIN rq.ring[q] : rq.ring[q][i] = p})

\* Until ageing moves a process for the first time, a process is RUNNABLE
\* exactly when it has one place in the ring of its own level, and nothing else
\* is in any ring: no enqueue is forgotten or doubled by fork, wakeup1, kill or
\* the scheduler.
RunnableQueuedOnce ==
    ~rq.aged => \A p \in Slots, q \in Levels :
        Places(p, q) = IF state[p] = "RUNNABLE" /\ rq.level[p] = q THEN 1 ELSE 0

\* Until then, the CPU is given to a process of the best level that has a
\* RUNNABLE one.
BestLevelFirst ==
    [][~rq.aged => \A p, q \in Slots :
          /\ state[p] = "RUNNABLE" /\ state'[p] = "RUNNING"
          /\ state[q] = "RUNNABLE"
          => rq.level[p] <= rq.level[q]]_mvars

\* Until then, a process that waits in the queue of the best level gets the
\* CPU, whatever the processes that sleep and wake up at that level do.
TopLevelRuns ==
    \A p \in Slots :
        state[p] = "RUNNABLE" /\ rq.level[p] = 0
            ~> state[p] # "RUNNABLE" \/ Halted \/ rq.aged

\* The scheduler never panics: the process it finds in a ring is RUNNABLE.
NoSchedulerPanic == rq.panic = "none"
=============================================================================
