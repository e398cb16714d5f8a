-------------------------------- MODULE Boot --------------------------------
(***************************************************************************)
(* The boot of a multiprocessor with the MLFQ build (main.c, entryother.S, *)
(* userinit and the start of scheduler() in proc.c).                       *)
(*                                                                         *)
(* The boot processor starts the others one by one through one page of     *)
(* memory they share, creates the first process, and then enters           *)
(* scheduler() like the others.  The first CPU that finds flag = 0 there   *)
(* resets the heads and tails of the run queues, without a lock.  Only the *)
(* queue of level 0 can be in use that early, with init as its only entry. *)
(***************************************************************************)
EXTENDS Naturals

CONSTANT NCPU   \* CPU 0 boots the machine and starts 1 .. NCPU - 1

Cpus == 0 .. NCPU - 1

VARIABLES pc,        \* where each CPU is in the boot code
          next,      \* c in the loop of startothers
          args,      \* the stack stored in the page at 0x7000
          stack,     \* the stack each CPU runs on
          started,   \* c->started
          flag,      \* the CPUs that have reset the run queues
          head, tail,    \* queue_head[0] and queue_tail[0]
          initproc   \* the state of the first process

vars == <<pc, next, args, stack, started, flag, head, tail, initproc>>
queueVars == <<flag, head, tail, initproc>>

Goto(c, from, to) == pc[c] = from /\ pc' = [pc EXCEPT ![c] = to]

Init ==
    /\ pc = [c \in Cpus |-> IF c = 0 THEN "startothers" ELSE "off"]
    /\ next = 1
    /\ args = 0
    /\ stack = [c \in Cpus |-> 0]
    /\ started = [c \in Cpus |-> FALSE]
    /\ flag = 0
    /\ head = 0
    /\ tail = 0
    /\ initproc = "UNUSED"

-----------------------------------------------------------------------------
(* The boot processor *)

\* startothers: a fresh stack for the next CPU goes into the shared page.
SetArgs ==
    /\ Goto(0, "startothers", "ipi")
    /\ next < NCPU
    /\ args' = next
    /\ UNCHANGED <<next, stack, started, queueVars>>

\* lapicstartap.
StartAp ==
    /\ pc[0] = "ipi"
    /\ pc' = [pc EXCEPT ![0] = "wait", ![next] = "entry"]
    /\ UNCHANGED <<next, args, stack, started, queueVars>>

\* while(c->started == 0) ;
ApUp == started[next]

WaitStarted ==
    /\ Goto(0, "wait", "startothers")
    /\ ApUp
    /\ next' = next + 1
    /\ UNCHANGED <<args, stack, started, queueVars>>

StartedAll ==
    /\ Goto(0, "startothers", "userinit")
    /\ next = NCPU
    /\ UNCHANGED <<next, args, stack, started, queueVars>>

\* userinit: the first process becomes RUNNABLE and is enqueued at level 0.
Userinit ==
    /\ Goto(0, "userinit", "mpmain")
    /\ initproc' = "RUNNABLE"
    /\ tail' = tail + 1
    /\ UNCHANGED <<next, args, stack, started, flag, head>>

-----------------------------------------------------------------------------
(* Every processor *)

\* entryother.S: a started CPU loads the stack from the shared page.
Entry(c) ==
    /\ Goto(c, "entry", "mpmain")
    /\ stack' = [stack EXCEPT ![c] = args]
    /\ UNCHANGED <<next, args, started, queueVars>>

\* mpmain: tell startothers, call scheduler().
Mpmain(c) ==
    /\ Goto(c, "mpmain", "flag")
    /\ started' = [started EXCEPT ![c] = TRUE]
    /\ UNCHANGED <<next, args, stack, queueVars>>

\* scheduler: if (!flag)
MustReset == flag = 0

TestFlag(c) ==
    /\ Goto(c, "flag", IF MustReset THEN "reset" ELSE "loop")
    /\ UNCHANGED <<next, args, stack, started, queueVars>>

ResetHead(c) ==
    /\ Goto(c, "reset", "reset2")
    /\ head' = 0
    /\ UNCHANGED <<next, args, stack, started, flag, tail, initproc>>

ResetTail(c) ==
    /\ Goto(c, "reset2", "reset3")
    /\ tail' = 0
    /\ UNCHANGED <<next, args, stack, started, flag, head, initproc>>

\* flag++
SetFlag(c) ==
    /\ Goto(c, "reset3", "loop")
    /\ flag' = flag + 1
    /\ UNCHANGED <<next, args, stack, started, head, tail, initproc>>

\* The scheduler's loop finds init in its ring; a process that is not RUNNABLE
\* there is a panic, with ptable.lock held for ever.
RunInit(c) ==
    /\ \A d \in Cpus : pc[d] # "panic"
    /\ head = 0 /\ tail = 1
    /\ Goto(c, "loop", IF initproc = "RUNNABLE" THEN "run" ELSE "panic")
    /\ initproc' = IF initproc = "RUNNABLE" THEN "RUNNING" ELSE initproc
    /\ head' = IF initproc = "RUNNABLE" THEN 1 ELSE head
    /\ UNCHANGED <<next, args, stack, started, flag, tail>>

\* CPUs that have nothing to run loop for ever, and so does a panic.
Spinning ==
    /\ \A c \in Cpus : pc[c] \in {"loop", "run", "panic"}
    /\ UNCHANGED vars

Step(c) ==
    \/ Entry(c) \/ Mpmain(c) \/ TestFlag(c) \/ ResetHead(c) \/ ResetTail(c)
    \/ SetFlag(c) \/ RunInit(c)

BspStep == SetArgs \/ StartAp \/ WaitStarted \/ StartedAll \/ Userinit

Next == BspStep \/ (\E c \in Cpus : Step(c)) \/ Spinning

Spec == Init /\ [][Next]_vars

\* No CPU stops.
FairSpec == Spec /\ WF_vars(BspStep) /\ \A c \in Cpus : WF_vars(Step(c))

-----------------------------------------------------------------------------
(* Properties *)

\* The first process runs: making it RUNNABLE lets some core pick it.
InitRuns == initproc = "RUNNABLE" ~> initproc = "RUNNING"
=============================================================================
