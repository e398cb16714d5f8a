-------------------------------- MODULE Proc --------------------------------
(***************************************************************************)
(* The process table of proc.c: fork, exit, wait and waitx, kill, sleep    *)
(* and wakeup, yield, and the hand-over of a CPU between the scheduler and *)
(* a process.                                                              *)
(*                                                                         *)
(* The grain is one critical section of ptable.lock, from acquire to the   *)
(* matching release, the part that the scheduler executes with the lock it *)
(* was handed by sched() included.  Code that runs without the lock (the   *)
(* second half of allocproc, the body of fork, the first half of exit, the *)
(* reads of p->killed) is split from those sections, because a timer       *)
(* interrupt or another CPU may come in between.                           *)
(*                                                                         *)
(* Which RUNNABLE process a CPU picks is left open here: the modules       *)
(* Policies and Mlfq fix it as the four builds of scheduler() do.          *)
(***************************************************************************)
EXTENDS Integers, FiniteSets, FiniteSetsExt

CONSTANTS NPROC,     \* size of the process table
          Cpus,      \* the CPUs
          MaxPid,    \* bound: pids are handed out up to MaxPid
          KillPids,  \* the arguments kill() is called with
          Chans      \* the wait channels in use besides processes

ASSUME NPROCAssumption == NPROC \in Nat \ {0}
ASSUME MaxPidAssumption == MaxPid \in Nat \ {0}
ASSUME KillPidsAssumption == KillPids \subseteq Nat

\* Wait channels that are not processes: IO stands for those whose sleepers
\* test p->killed first (pipes, console, sys_sleep), DISK for those whose
\* sleepers do not (disk, log, sleep locks).
NoChan == -1
IO == -2
DISK == -3

ASSUME ChansAssumption == Chans \subseteq {IO, DISK}

Slots == 0 .. NPROC - 1
NoProc == -1          \* a null struct proc pointer
Initproc == 0         \* userinit gets the first slot of the table

VARIABLES state, pid, parent, chan, killed,   \* fields of struct proc
          pc,        \* where the process's kernel thread stands
          child,     \* np, the slot a process in fork() is filling in
          cpu,       \* c->proc of every CPU
          nextpid,
          panic      \* the message of panic(), or "none"

tableVars == <<state, pid, parent, chan, killed>>
vars == <<state, pid, parent, chan, killed, pc, child, cpu, nextpid, panic>>

\* "user": in user mode; "sys": in a system call; "fork": between allocproc
\* and the end of fork; "presleep": has seen p->killed = 0 and is about to
\* sleep; "wait": inside wait(); "exit": inside exit(), before its lock.

On(c, p) == cpu[c] = p

\* A process that is back from sleep() inside wait() still holds the lock that
\* scheduler() handed to it, until it has scanned the table again.
LockFree == \A c \in Cpus : cpu[c] # NoProc => pc[cpu[c]] # "wait"

\* The state once userinit has run: init is RUNNABLE in slot 0.
Init ==
    /\ state = [p \in Slots |-> IF p = Initproc THEN "RUNNABLE" ELSE "UNUSED"]
    /\ pid = [p \in Slots |-> IF p = Initproc THEN 1 ELSE 0]
    /\ parent = [p \in Slots |-> NoProc]
    /\ chan = [p \in Slots |-> NoChan]
    /\ killed = [p \in Slots |-> FALSE]
    /\ pc = [p \in Slots |-> "user"]
    /\ child = [p \in Slots |-> NoProc]
    /\ cpu = [c \in Cpus |-> NoProc]
    /\ nextpid = 2
    /\ panic = "none"

-----------------------------------------------------------------------------
(* sleep and wakeup *)

Unused == {p \in Slots : state[p] = "UNUSED"}
Children(p) == {q \in Slots : parent[q] = p}
Zombies(p) == {q \in Children(p) : state[q] = "ZOMBIE"}

\* wakeup1(ch): the processes it makes RUNNABLE.
SleepersOn(ch) == {p \in Slots : state[p] = "SLEEPING" /\ chan[p] = ch}

MakeRunnable(S) == [p \in Slots |-> IF p \in S THEN "RUNNABLE" ELSE state[p]]

\* sleep(): p, which runs on c, gives up the CPU for ch.
SleepOn(c, p, ch) ==
    /\ state' = [state EXCEPT ![p] = "SLEEPING"]
    /\ chan' = [chan EXCEPT ![p] = ch]
    /\ cpu' = [cpu EXCEPT ![c] = NoProc]

\* wakeup(ch), called by an interrupt handler or by another process.
Wakeup(ch) ==
    /\ LockFree /\ SleepersOn(ch) # {}
    /\ state' = MakeRunnable(SleepersOn(ch))
    /\ UNCHANGED <<pid, parent, chan, killed, pc, child, cpu, nextpid, panic>>

-----------------------------------------------------------------------------
(* The CPU *)

MutantDispatch(c, p) ==
    /\ LockFree /\ cpu[c] = NoProc
    /\ state[p] = "RUNNABLE"
    /\ chan' = [chan EXCEPT ![p] = NoChan]
    /\ cpu' = [cpu EXCEPT ![c] = p]
    /\ UNCHANGED <<state, pid, parent, killed, pc, child, nextpid, panic>>

\* scheduler(): an idle CPU switches to a RUNNABLE process; one that returns
\* from sched() inside sleep() clears its chan.
Dispatch(c, p) ==
    /\ LockFree /\ cpu[c] = NoProc
    /\ state[p] = "RUNNABLE"
    /\ state' = [state EXCEPT ![p] = "RUNNING"]
    /\ chan' = [chan EXCEPT ![p] = NoChan]
    /\ cpu' = [cpu EXCEPT ![c] = p]
    /\ UNCHANGED <<pid, parent, killed, pc, child, nextpid, panic>>

\* yield() on a timer interrupt, and the return to the scheduler.
Yield(c, p) ==
    /\ LockFree /\ On(c, p)
    /\ state' = [state EXCEPT ![p] = "RUNNABLE"]
    /\ cpu' = [cpu EXCEPT ![c] = NoProc]
    /\ UNCHANGED <<pid, parent, chan, killed, pc, child, nextpid, panic>>

\* trap(): a system call starts unless the process has been killed.
Syscall(c, p) ==
    /\ On(c, p) /\ pc[p] = "user" /\ ~killed[p]
    /\ pc' = [pc EXCEPT ![p] = "sys"]
    /\ UNCHANGED <<tableVars, child, cpu, nextpid, panic>>

\* A system call returns.
Return(c, p) ==
    /\ On(c, p) /\ pc[p] = "sys"
    /\ pc' = [pc EXCEPT ![p] = "user"]
    /\ UNCHANGED <<tableVars, child, cpu, nextpid, panic>>

\* trap(), default case: the process misbehaved in user space.
Fault(c, p) ==
    /\ On(c, p) /\ pc[p] = "user" /\ ~killed[p]
    /\ killed' = [killed EXCEPT ![p] = TRUE]
    /\ UNCHANGED <<state, pid, parent, chan, pc, child, cpu, nextpid, panic>>

-----------------------------------------------------------------------------
(* fork *)

MutantAllocProc(np) ==
    /\ state' = [state EXCEPT ![np] = "RUNNABLE"]
    /\ pid' = [pid EXCEPT ![np] = nextpid]
    /\ nextpid' = nextpid + 1

\* allocproc() under the lock: p->killed keeps the value the slot had.
AllocProc(np) ==
    /\ state' = [state EXCEPT ![np] = "EMBRYO"]
    /\ pid' = [pid EXCEPT ![np] = nextpid]
    /\ nextpid' = nextpid + 1

\* fork(): take the first UNUSED slot of the table.
ForkAlloc(c, p) ==
    /\ LockFree /\ On(c, p) /\ pc[p] = "sys"
    /\ Unused # {} /\ nextpid <= MaxPid
    /\ AllocProc(Min(Unused))
    /\ child' = [child EXCEPT ![p] = Min(Unused)]
    /\ pc' = [pc EXCEPT ![p] = "fork"]
    /\ UNCHANGED <<parent, chan, killed, cpu, panic>>

\* kalloc() or copyuvm() fails: the slot is given back, its pid stays.
ForkFail(c, p) ==
    /\ On(c, p) /\ pc[p] = "fork"
    /\ state' = [state EXCEPT ![child[p]] = "UNUSED"]
    /\ child' = [child EXCEPT ![p] = NoProc]
    /\ pc' = [pc EXCEPT ![p] = "sys"]
    /\ UNCHANGED <<pid, parent, chan, killed, cpu, nextpid, panic>>

\* The rest of fork(): set the parent, make the child RUNNABLE.
ForkDone(c, p) ==
    /\ LockFree /\ On(c, p) /\ pc[p] = "fork"
    /\ state' = [state EXCEPT ![child[p]] = "RUNNABLE"]
    /\ parent' = [parent EXCEPT ![child[p]] = p]
    /\ child' = [child EXCEPT ![p] = NoProc]
    /\ pc' = [pc EXCEPT ![p] = "sys", ![child[p]] = "user"]
    /\ UNCHANGED <<pid, chan, killed, cpu, nextpid, panic>>

-----------------------------------------------------------------------------
(* exit *)

\* exit(): by system call, or because trap() found the process killed.  The
\* initial process must not exit.
ExitBegin(c, p) ==
    /\ On(c, p)
    /\ pc[p] = "sys" \/ (pc[p] = "user" /\ killed[p])
    /\ pc' = [pc EXCEPT ![p] = IF p = Initproc THEN @ ELSE "exit"]
    /\ panic' = IF p = Initproc THEN "init exiting" ELSE panic
    /\ UNCHANGED <<tableVars, child, cpu, nextpid>>

MutantExitWakes(p) == SleepersOn(parent[p])

\* exit(): wakeup1 of the parent, and of init when it inherits a zombie.
ExitWakes(p) ==
    SleepersOn(parent[p]) \cup (IF Zombies(p) # {} THEN SleepersOn(Initproc) ELSE {})

MutantReparent(p) == parent

\* exit(): pass abandoned children to init.
Reparent(p) == [q \in Slots |-> IF parent[q] = p THEN Initproc ELSE parent[q]]

\* exit() under the lock, up to the switch to the scheduler.
ExitDone(c, p) ==
    /\ LockFree /\ On(c, p) /\ pc[p] = "exit"
    /\ state' = [MakeRunnable(ExitWakes(p)) EXCEPT ![p] = "ZOMBIE"]
    /\ parent' = Reparent(p)
    /\ cpu' = [cpu EXCEPT ![c] = NoProc]
    /\ UNCHANGED <<pid, chan, killed, pc, child, nextpid, panic>>

-----------------------------------------------------------------------------
(* wait and waitx *)

\* wait() is called, or goes round its loop after sleep().
InWait(c, p) == On(c, p) /\ (pc[p] = "wait" \/ (pc[p] = "sys" /\ LockFree))

\* A zombie child was found: the first in table order is reaped.
WaitReap(c, p) ==
    /\ InWait(c, p) /\ Zombies(p) # {}
    /\ LET z == Min(Zombies(p)) IN
         /\ state' = [state EXCEPT ![z] = "UNUSED"]
         /\ pid' = [pid EXCEPT ![z] = 0]
         /\ parent' = [parent EXCEPT ![z] = NoProc]
         /\ killed' = [killed EXCEPT ![z] = FALSE]
    /\ pc' = [pc EXCEPT ![p] = "sys"]
    /\ UNCHANGED <<chan, child, cpu, nextpid, panic>>

\* No children, or killed: wait returns -1.
WaitNone(c, p) ==
    /\ InWait(c, p)
    /\ Zombies(p) = {}
    /\ Children(p) = {} \/ killed[p]
    /\ pc' = [pc EXCEPT ![p] = "sys"]
    /\ UNCHANGED <<tableVars, child, cpu, nextpid, panic>>

\* Children but no zombie: sleep on the own struct proc.  sleep() is called
\* with ptable.lock itself, so scan and sleep are one critical section.
WaitSleep(c, p) ==
    /\ InWait(c, p)
    /\ Zombies(p) = {}
    /\ Children(p) # {} /\ ~killed[p]
    /\ SleepOn(c, p, p)
    /\ pc' = [pc EXCEPT ![p] = "wait"]
    /\ UNCHANGED <<pid, parent, killed, child, nextpid, panic>>

-----------------------------------------------------------------------------
(* Sleeping for devices and for other processes *)

\* pipe, console and sys_sleep test p->killed before they call sleep() ...
SleepCheck(c, p) ==
    /\ IO \in Chans
    /\ On(c, p) /\ pc[p] = "sys" /\ ~killed[p]
    /\ pc' = [pc EXCEPT ![p] = "presleep"]
    /\ UNCHANGED <<tableVars, child, cpu, nextpid, panic>>

\* ... which takes ptable.lock only afterwards.
IoSleep(c, p) ==
    /\ LockFree /\ On(c, p) /\ pc[p] = "presleep"
    /\ SleepOn(c, p, IO)
    /\ pc' = [pc EXCEPT ![p] = "sys"]
    /\ UNCHANGED <<pid, parent, killed, child, nextpid, panic>>

\* The disk, the log and sleep locks do not look at p->killed; exit() too
\* waits for them.
DiskSleep(c, p) ==
    /\ DISK \in Chans
    /\ LockFree /\ On(c, p) /\ pc[p] \in {"sys", "exit"}
    /\ SleepOn(c, p, DISK)
    /\ UNCHANGED <<pid, parent, killed, pc, child, nextpid, panic>>

-----------------------------------------------------------------------------
(* kill *)

\* The slots kill(k) matches; it stops at the first.
Matching(k) == {q \in Slots : pid[q] = k}

\* The process kill(k) wakes up if it sleeps.
KillWakes(k) == {q \in {Min(Matching(k))} : state[q] = "SLEEPING"}

Kill(c, p, k) ==
    /\ LockFree /\ On(c, p) /\ pc[p] = "sys"
    /\ Matching(k) # {}
    /\ killed' = [killed EXCEPT ![Min(Matching(k))] = TRUE]
    /\ state' = MakeRunnable(KillWakes(k))
    /\ UNCHANGED <<pid, parent, chan, pc, child, cpu, nextpid, panic>>

-----------------------------------------------------------------------------
\* panic() stops the machine.
Halt == panic # "none" /\ UNCHANGED vars

Step(c, p) ==
    \/ Dispatch(c, p) \/ Yield(c, p) \/ Syscall(c, p) \/ Return(c, p)
    \/ Fault(c, p) \/ ForkAlloc(c, p) \/ ForkFail(c, p) \/ ForkDone(c, p)
    \/ ExitBegin(c, p) \/ ExitDone(c, p)
    \/ WaitReap(c, p) \/ WaitNone(c, p) \/ WaitSleep(c, p)
    \/ SleepCheck(c, p) \/ IoSleep(c, p) \/ DiskSleep(c, p)
    \/ \E k \in KillPids : Kill(c, p, k)

Next ==
    \/ /\ panic = "none"
       /\ \/ \E c \in Cpus, p \in Slots : Step(c, p)
          \/ \E ch \in Chans : Wakeup(ch)
    \/ Halt

Spec == Init /\ [][Next]_vars

\* The scan of the table by a process that has come back from sleep().
Rescan(c, p) ==
    pc[p] = "wait" /\ (WaitReap(c, p) \/ WaitNone(c, p) \/ WaitSleep(c, p))

-----------------------------------------------------------------------------
(* Properties *)

\* A process is RUNNING exactly while some CPU has it as c->proc, and no two
\* CPUs have the same process (they would run on the same kernel stack).
OneCpuPerProcess ==
    /\ \A p \in Slots : state[p] = "RUNNING" <=> \E c \in Cpus : cpu[c] = p
    /\ \A c, d \in Cpus : cpu[c] = cpu[d] /\ cpu[c] # NoProc => c = d

\* No exit is missed: a process asleep in wait() has a child to wait for, has no
\* zombie child and is not killed, because exit() wakes the parent, or init when
\* init inherits the zombie, in the critical section that makes the zombie, and
\* wait() tests p->killed under the lock that kill() takes.
NoMissedExit ==
    \A p \in Slots : state[p] = "SLEEPING" /\ chan[p] = p =>
        Children(p) # {} /\ Zombies(p) = {} /\ ~killed[p]

\* exit() leaves no process behind whose parent slot is free, half built or
\* dead: every parent pointer leads to a process that can still call wait().
ParentAlive ==
    \A q \in Slots : parent[q] # NoProc =>
        state[parent[q]] \in {"SLEEPING", "RUNNABLE", "RUNNING"}

\* Every EMBRYO slot belongs to exactly one fork() in progress, so a failed or
\* interrupted fork leaks no slot and two forks never share one.
EmbryoOwned ==
    /\ \A q \in Slots : state[q] = "EMBRYO" => \E p \in Slots : child[p] = q
    /\ \A p, q \in Slots : child[p] = child[q] /\ child[p] # NoProc => p = q
    /\ \A p \in Slots : child[p] # NoProc => state[child[p]] = "EMBRYO" /\ pc[p] = "fork"
=============================================================================
