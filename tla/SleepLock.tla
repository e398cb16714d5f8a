------------------------------ MODULE SleepLock ------------------------------
(***************************************************************************)
(* Sleep locks (sleeplock.c) on top of sleep/wakeup (proc.c) and spin      *)
(* locks (spinlock.c), at the grain of single lock operations.             *)
(*                                                                         *)
(* Every process loops: acquiresleep(lk), use the protected object,        *)
(* releasesleep(lk).  Two spin locks are involved: lk->lk, which guards    *)
(* the fields of the sleep lock, and ptable.lock, which guards every       *)
(* process's state and chan.  The delicate part is sleep(): it must take   *)
(* ptable.lock before it lets lk->lk go, or a wakeup can fall in between.  *)
(* kill() may make a sleeper runnable at any time, so a return from sleep  *)
(* says nothing about the lock.                                            *)
(*                                                                         *)
(* There is one action per stretch of code between two lock operations.    *)
(* Which RUNNABLE process is given a CPU, and when, is the scheduler's     *)
(* choice: Resume may happen to any of them, and nothing here forces it.   *)
(***************************************************************************)
EXTENDS Naturals, FiniteSets

CONSTANTS Procs,    \* the processes that use the lock
          NoProc    \* a free spin lock, or a sleep lock whose pid is 0

ASSUME NoProcAssumption == NoProc \notin Procs

VARIABLES pc,       \* where each process is in the code
          ptable,   \* the holder of ptable.lock
          lk,       \* the holder of the spin lock lk->lk
          locked,   \* lk->locked
          pid,      \* lk->pid
          state,    \* p->state of each process
          chan      \* p->chan: TRUE when the process sleeps on lk

vars == <<pc, ptable, lk, locked, pid, state, chan>>

PCs == {"idle", "test", "sleep", "sleep1", "sleep2", "asleep", "woken",
        "relock", "crit", "release", "wakeup", "wakeup1", "unlock"}

\* A process inside its critical section: acquiresleep has returned and
\* releasesleep has not yet cleared lk->locked.
Holding == {"crit", "release"}

\* What holdingsleep returns to p.
HoldingSleep(p) == locked /\ pid = p

Init ==
    /\ pc = [p \in Procs |-> "idle"]
    /\ ptable = NoProc
    /\ lk = NoProc
    /\ locked = FALSE
    /\ pid = NoProc
    /\ state = [p \in Procs |-> "RUNNING"]
    /\ chan = [p \in Procs |-> FALSE]

Goto(p, from, to) == pc[p] = from /\ pc' = [pc EXCEPT ![p] = to]

-----------------------------------------------------------------------------
\* acquiresleep: acquire(&lk->lk).
AcquireSleep(p) ==
    /\ Goto(p, "idle", "test")
    /\ lk = NoProc
    /\ lk' = p
    /\ UNCHANGED <<ptable, locked, pid, state, chan>>

MutantTestTaken(p) ==
    /\ Goto(p, "test", "crit")
    /\ locked' = TRUE
    /\ pid' = p
    /\ lk' = NoProc
    /\ UNCHANGED <<ptable, state, chan>>

\* The exit of the while loop: the lock is free, so take it and let lk->lk go.
TestFree(p) ==
    /\ Goto(p, "test", "crit")
    /\ ~locked
    /\ locked' = TRUE
    /\ pid' = p
    /\ lk' = NoProc
    /\ UNCHANGED <<ptable, state, chan>>

\* The body of the while loop: the lock is taken, so call sleep(lk, &lk->lk).
TestTaken(p) ==
    /\ Goto(p, "test", "sleep")
    /\ locked
    /\ UNCHANGED <<ptable, lk, locked, pid, state, chan>>

MutantSleepUnlocked(p) ==
    /\ Goto(p, "sleep", "sleep1")
    /\ UNCHANGED <<ptable, lk, locked, pid, state, chan>>

\* sleep: lk is not ptable.lock, so acquire(&ptable.lock) first ...
SleepAcquire(p) ==
    /\ Goto(p, "sleep", "sleep1")
    /\ ptable = NoProc
    /\ ptable' = p
    /\ UNCHANGED <<lk, locked, pid, state, chan>>

\* ... and only then release(lk).
SleepRelease(p) ==
    /\ Goto(p, "sleep1", "sleep2")
    /\ lk' = NoProc
    /\ UNCHANGED <<ptable, locked, pid, state, chan>>

MutantGoToSleep(p) ==
    /\ Goto(p, "sleep2", "asleep")
    /\ chan' = [chan EXCEPT ![p] = TRUE]
    /\ state' = [state EXCEPT ![p] = "ZOMBIE"]
    /\ ptable' = NoProc
    /\ UNCHANGED <<lk, locked, pid>>

\* sleep: set chan and state and call sched(); the scheduler this CPU returns
\* to releases ptable.lock at the end of its iteration.
GoToSleep(p) ==
    /\ Goto(p, "sleep2", "asleep")
    /\ chan' = [chan EXCEPT ![p] = TRUE]
    /\ state' = [state EXCEPT ![p] = "SLEEPING"]
    /\ ptable' = NoProc
    /\ UNCHANGED <<lk, locked, pid>>

\* The scheduler of some CPU takes ptable.lock and switches to p, which
\* returns from sched() inside sleep() and clears its chan.
Resume(p) ==
    /\ Goto(p, "asleep", "woken")
    /\ state[p] = "RUNNABLE"
    /\ ptable = NoProc
    /\ ptable' = p
    /\ state' = [state EXCEPT ![p] = "RUNNING"]
    /\ chan' = [chan EXCEPT ![p] = FALSE]
    /\ UNCHANGED <<lk, locked, pid>>

\* sleep: release(&ptable.lock) ...
SleepReturn(p) ==
    /\ Goto(p, "woken", "relock")
    /\ ptable' = NoProc
    /\ UNCHANGED <<lk, locked, pid, state, chan>>

\* ... and acquire(lk) again; the while loop of acquiresleep tests once more.
Reacquire(p) ==
    /\ Goto(p, "relock", "test")
    /\ lk = NoProc
    /\ lk' = p
    /\ UNCHANGED <<ptable, locked, pid, state, chan>>

-----------------------------------------------------------------------------
\* releasesleep: acquire(&lk->lk).
ReleaseSleep(p) ==
    /\ Goto(p, "crit", "release")
    /\ lk = NoProc
    /\ lk' = p
    /\ UNCHANGED <<ptable, locked, pid, state, chan>>

\* releasesleep: clear locked and pid.
ClearLock(p) ==
    /\ Goto(p, "release", "wakeup")
    /\ locked' = FALSE
    /\ pid' = NoProc
    /\ UNCHANGED <<ptable, lk, state, chan>>

\* wakeup: acquire(&ptable.lock).
WakeupAcquire(p) ==
    /\ Goto(p, "wakeup", "wakeup1")
    /\ ptable = NoProc
    /\ ptable' = p
    /\ UNCHANGED <<lk, locked, pid, state, chan>>

MutantNoWakeup(p) ==
    /\ Goto(p, "wakeup1", "unlock")
    /\ UNCHANGED state
    /\ ptable' = NoProc
    /\ UNCHANGED <<lk, locked, pid, chan>>

\* wakeup1 makes every process that sleeps on lk RUNNABLE; wakeup then
\* releases ptable.lock.
Wakeup1(p) ==
    /\ Goto(p, "wakeup1", "unlock")
    /\ state' = [q \in Procs |-> IF state[q] = "SLEEPING" /\ chan[q]
                                 THEN "RUNNABLE" ELSE state[q]]
    /\ ptable' = NoProc
    /\ UNCHANGED <<lk, locked, pid, chan>>

\* releasesleep: release(&lk->lk).
Unlock(p) ==
    /\ Goto(p, "unlock", "idle")
    /\ lk' = NoProc
    /\ UNCHANGED <<ptable, locked, pid, state, chan>>

\* kill(pid of p), by a process outside this protocol: a sleeper becomes
\* RUNNABLE whatever it sleeps on (one critical section of ptable.lock).
Kill(p) ==
    /\ ptable = NoProc
    /\ state[p] = "SLEEPING"
    /\ state' = [state EXCEPT ![p] = "RUNNABLE"]
    /\ UNCHANGED <<pc, ptable, lk, locked, pid, chan>>

-----------------------------------------------------------------------------
\* The steps that spin on a lock until it is free, acquiresleep's first apart.
Spin(p) ==
    SleepAcquire(p) \/ Reacquire(p) \/ ReleaseSleep(p) \/ WakeupAcquire(p)

\* The steps a process takes inside a critical section of a spin lock.
Straight(p) ==
    \/ TestFree(p) \/ TestTaken(p) \/ SleepRelease(p) \/ GoToSleep(p)
    \/ SleepReturn(p) \/ ClearLock(p) \/ Wakeup1(p) \/ Unlock(p)

Next == \E p \in Procs :
    AcquireSleep(p) \/ Spin(p) \/ Resume(p) \/ Straight(p) \/ Kill(p)

\* A CPU never stops between two instructions (interrupts are off while a
\* spin lock is held), and a CPU that spins on xchg wins the lock eventually
\* if the lock becomes free again and again.  The holder of the sleep lock
\* releases it in the end.  Nothing forces a kill, nor a new acquiresleep,
\* nor that a RUNNABLE process is dispatched.
Fairness == \A p \in Procs : WF_vars(Straight(p)) /\ SF_vars(Spin(p))

Spec == Init /\ [][Next]_vars

FairSpec == Spec /\ Fairness

-----------------------------------------------------------------------------
(* Properties *)

\* Type invariant of the sleep lock and of the process fields it uses.
TypeOK ==
    /\ pc \in [Procs -> PCs]
    /\ ptable \in Procs \cup {NoProc}
    /\ lk \in Procs \cup {NoProc}
    /\ locked \in BOOLEAN
    /\ pid \in Procs \cup {NoProc}
    /\ state \in [Procs -> {"RUNNING", "RUNNABLE", "SLEEPING"}]
    /\ chan \in [Procs -> BOOLEAN]

\* At most one process is between the return of acquiresleep and the clearing
\* of lk->locked in releasesleep, and holdingsleep() tells exactly that process
\* that it has the lock.
MutualExclusion ==
    \A p \in Procs : pc[p] \in Holding =>
        \A q \in Procs : (HoldingSleep(q) <=> q = p) /\ (pc[q] \in Holding => q = p)

\* A process is asleep on lk only while the lock is held or its releaser is
\* still on the way to wakeup1: no wakeup falls between the test of
\* lk->locked in acquiresleep and the state change in sleep().
NoLostWakeup ==
    (\E p \in Procs : state[p] = "SLEEPING")
        => locked \/ \E q \in Procs : pc[q] \in {"wakeup", "wakeup1"}

\* What LockPassesOn asks of scheduler(): no process stays RUNNABLE forever.
\* No build promises it in every situation: DEFAULT, PBS and FCFS can all pass
\* a process over as long as others keep coming first.
Dispatched == \A p \in Procs : []<>(state[p] # "RUNNABLE")

\* A contended lock is taken again: if the scheduler dispatches, then when
\* some process waits in acquiresleep, some process gets through; sleep,
\* wakeup and kill leave nobody waiting for a wakeup that has already gone.
LockPassesOn ==
    Dispatched =>
        ((\E p \in Procs : pc[p] = "test" \/ pc[p] = "asleep")
            ~> (\E p \in Procs : pc[p] = "crit"))
=============================================================================
