------------------------------ MODULE Policies ------------------------------
(***************************************************************************)
(* The process table with the three builds of scheduler() that search the  *)
(* table: DEFAULT, PBS (priority based) and FCFS (first come first         *)
(* served), together with the clock fields they read, and chpr().          *)
(*                                                                         *)
(* FCFS reads only ctime and PBS only last_executed, and both only compare *)
(* times with each other, so the model keeps the ranks of the times that   *)
(* the build reads instead of the times; 0 stays 0.                        *)
(***************************************************************************)
EXTENDS Proc

CONSTANTS Builds,       \* the values of SCHEDULER the kernel may be built with
          Priorities,   \* the arguments chpr() is called with
          TimerCpu          \* the CPU whose timer advances ticks

ASSUME BuildsAssumption == Builds \subseteq {"DEFAULT", "PBS", "FCFS"}
ASSUME PrioritiesAssumption == Priorities \subseteq Int

VARIABLES build,        \* SCHEDULER of the Makefile; never changes
          priority,     \* p->priority
          clk           \* ticks, and ctime and last_executed of every process

pvars == <<vars, build, priority, clk>>

DefaultPriority == 60

-----------------------------------------------------------------------------
(* Time *)

\* The same times with the gaps between them closed, and those that the build
\* never reads left at 0.
Ranked(k) ==
    LET read == IF build = "FCFS" THEN k.ctime ELSE k.last
        times == {0, k.ticks} \cup {read[p] : p \in Slots}
        rank(t) == Cardinality({u \in times : u < t})
        ranks == [p \in Slots |-> rank(read[p])]
        zero == [p \in Slots |-> 0]
    IN  [ticks |-> IF build = "DEFAULT" THEN 0 ELSE rank(k.ticks),
         ctime |-> IF build = "FCFS" THEN ranks ELSE zero,
         last  |-> IF build = "PBS" THEN ranks ELSE zero]

\* The timer interrupt on CPU c: CPU 0 advances ticks, the process on the CPU
\* sets last_executed.
PoliciesTicked(c) ==
    LET now == IF c = TimerCpu THEN clk.ticks + 1 ELSE clk.ticks IN
    Ranked([clk EXCEPT !.ticks = now,
                       !.last = [p \in Slots |-> IF On(c, p) THEN now ELSE @[p]]])

-----------------------------------------------------------------------------
(* The search of the table *)

MutantBeats(p, best) ==
    CASE build = "DEFAULT" -> FALSE
      [] build = "FCFS" -> clk.ctime[p] > clk.ctime[best]
      [] build = "PBS" -> priority[best] > priority[p]

\* Does the loop over the table replace its candidate best by p, which comes
\* later in the table?
Beats(p, best) ==
    CASE build = "DEFAULT" -> FALSE
      [] build = "FCFS" -> clk.ctime[p] < clk.ctime[best]
      [] build = "PBS" -> \/ priority[best] > priority[p]
                           \/ /\ priority[best] = priority[p]
                              /\ clk.last[p] < clk.last[best]

Runnable == {p \in Slots : state[p] = "RUNNABLE"}

\* The loop body: p becomes the candidate.
Replaces(p, best) == p \in Runnable /\ (best = NoProc \/ Beats(p, best))

\* The candidate at the end of the loop over the table, NoProc when nothing is
\* RUNNABLE; best[n] is the candidate after n slots.
Search ==
    LET best[n \in 0 .. NPROC] ==
          IF n = 0 THEN NoProc
          ELSE IF Replaces(n - 1, best[n - 1]) THEN n - 1 ELSE best[n - 1]
    IN  best[NPROC]

-----------------------------------------------------------------------------
PoliciesInit ==
    /\ Init
    /\ build \in Builds
    /\ priority = [p \in Slots |-> IF p = Initproc THEN DefaultPriority ELSE 0]
    /\ clk = [ticks |-> 0, ctime |-> [p \in Slots |-> 0], last |-> [p \in Slots |-> 0]]

\* An idle CPU switches to the process found; PBS stamps last_executed.
PoliciesPick(c, p) ==
    /\ cpu[c] = NoProc /\ p = Search
    /\ Dispatch(c, p)
    /\ clk' = IF build = "PBS" THEN Ranked([clk EXCEPT !.last[p] = clk.ticks]) ELSE clk
    /\ UNCHANGED <<build, priority>>

PoliciesIdle(c) ==
    /\ cpu[c] = NoProc
    /\ clk' = PoliciesTicked(c)
    /\ UNCHANGED <<vars, build, priority>>

TimerYield(c, p) ==
    /\ Yield(c, p)
    /\ clk' = PoliciesTicked(c)
    /\ UNCHANGED <<build, priority>>

\* allocproc(): priority 60, never executed; created now, or see StampChild.
PoliciesFork(c, p) ==
    /\ ForkAlloc(c, p)
    /\ priority' = [priority EXCEPT ![Min(Unused)] = DefaultPriority]
    /\ clk' = Ranked([clk EXCEPT !.ctime[Min(Unused)] = clk.ticks,
                                 !.last[Min(Unused)] = 0])
    /\ UNCHANGED build

\* allocproc() sets ctime after it has released the lock, in some later tick if
\* the timer comes in between: of the stamps taken until fork() ends, the last
\* one stands.
StampChild(c, p) ==
    /\ On(c, p) /\ pc[p] = "fork"
    /\ clk' = Ranked([clk EXCEPT !.ctime[child[p]] = clk.ticks])
    /\ UNCHANGED <<vars, build, priority>>

\* chpr(n): the first slot with the caller's pid gets the priority.
Chpr(c, p, n) ==
    /\ LockFree /\ On(c, p) /\ pc[p] = "sys"
    /\ priority' = [priority EXCEPT ![Min(Matching(pid[p]))] = n]
    /\ UNCHANGED <<vars, build, clk>>

\* The steps that read no clock and no priority.
PoliciesOther(c, p) ==
    /\ \/ Syscall(c, p) \/ Return(c, p) \/ Fault(c, p)
       \/ ForkFail(c, p) \/ ForkDone(c, p) \/ ExitBegin(c, p) \/ ExitDone(c, p)
       \/ WaitReap(c, p) \/ WaitNone(c, p) \/ WaitSleep(c, p)
       \/ SleepCheck(c, p) \/ IoSleep(c, p) \/ DiskSleep(c, p)
       \/ \E k \in KillPids : Kill(c, p, k)
    /\ UNCHANGED <<build, priority, clk>>

PoliciesWakeup(ch) == Wakeup(ch) /\ UNCHANGED <<build, priority, clk>>

PoliciesHalt == panic # "none" /\ UNCHANGED pvars

PoliciesNext ==
    \/ /\ panic = "none"
       /\ \/ \E c \in Cpus, p \in Slots :
                \/ PoliciesPick(c, p) \/ TimerYield(c, p) \/ PoliciesFork(c, p)
                \/ StampChild(c, p) \/ PoliciesOther(c, p)
                \/ \E n \in Priorities : Chpr(c, p, n)
          \/ \E c \in Cpus : PoliciesIdle(c)
          \/ \E ch \in Chans : PoliciesWakeup(ch)
    \/ PoliciesHalt

PoliciesSpec == PoliciesInit /\ [][PoliciesNext]_pvars

\* A CPU in scheduler() keeps looking for work, its timer keeps ticking, and a
\* process that holds the lock goes on.
PoliciesFairness ==
    \A c \in Cpus :
        /\ WF_pvars(\E p \in Slots : PoliciesPick(c, p))
        /\ WF_pvars(PoliciesIdle(c) \/ \E p \in Slots : TimerYield(c, p))
        /\ WF_pvars(\E p \in Slots : Rescan(c, p) /\ UNCHANGED <<build, priority, clk>>)

FairPoliciesSpec == PoliciesSpec /\ PoliciesFairness

-----------------------------------------------------------------------------
(* Properties *)

\* The process p gets a CPU in this step although q could have had it.
PickedOver(p, q) ==
    state[p] = "RUNNABLE" /\ state'[p] = "RUNNING" /\ state[q] = "RUNNABLE"

\* The search of the PBS build ends with a process no RUNNABLE process beats:
\* a lower priority number, or the same number and an older last_executed.
PbsPicksBest ==
    [][build = "PBS" => \A p, q \in Slots : PickedOver(p, q) =>
          \/ priority[p] < priority[q]
          \/ priority[p] = priority[q] /\ clk.last[p] <= clk.last[q]]_pvars

\* The FCFS build never runs a process while a process created in an earlier
\* tick is RUNNABLE.
FcfsPicksOldest ==
    [][build = "FCFS" => \A p, q \in Slots : PickedOver(p, q) =>
          clk.ctime[p] <= clk.ctime[q]]_pvars

Live(p) == state[p] # "UNUSED"

\* With equal priorities the PBS build is a round robin: a RUNNABLE process
\* gets the CPU, unless some process has another priority meanwhile.
EqualsRoundRobin ==
    \A p \in Slots :
        build = "PBS" /\ state[p] = "RUNNABLE"
            ~> \/ state[p] # "RUNNABLE" \/ panic # "none"
               \/ \E q \in Slots : Live(q) /\ priority[q] # priority[p]
=============================================================================
