----------------------------- MODULE ProcProofs -----------------------------
(***************************************************************************)
(* The process table for every number of slots, CPUs, pids and channels:   *)
(* one CPU per process, no forgotten exit, no orphan, no leaked slot.      *)
(* Then the four builds of the scheduler: each is a scheduler of that      *)
(* table, PBS and FCFS pick the process they promise, and the rings of     *)
(* MLFQ hold each RUNNABLE process once until ageing moves one.            *)
(***************************************************************************)
EXTENDS Mlfq, Policies, FiniteSetTheorems, WellFoundedInduction, TLAPS

\* The provers of a leaf that names none, in this order.
USE SMTT(60), ZenonT(60)

Alive == {"SLEEPING", "RUNNABLE", "RUNNING"}
States == Alive \cup {"UNUSED", "EMBRYO", "ZOMBIE"}
PCs == {"user", "sys", "fork", "presleep", "wait", "exit"}

ProcTypeOK ==
    /\ state \in [Slots -> States]
    /\ pid \in [Slots -> Nat]
    /\ parent \in [Slots -> Slots \cup {NoProc}]
    /\ chan \in [Slots -> Slots \cup {NoChan, IO, DISK}]
    /\ killed \in [Slots -> BOOLEAN]
    /\ pc \in [Slots -> PCs]
    /\ child \in [Slots -> Slots \cup {NoProc}]
    /\ cpu \in [Cpus -> Slots \cup {NoProc}]
    /\ nextpid \in Nat

\* A process in fork() owns a slot and does not sleep meanwhile.
ForkInv ==
    /\ EmbryoOwned
    /\ \A p \in Slots : pc[p] = "fork" =>
          child[p] # NoProc /\ state[p] \in {"RUNNABLE", "RUNNING"}

\* Only processes that fork() has finished have a parent, nobody is its own
\* parent, and init, which inherits the orphans, has none and never dies.
ParentInv ==
    /\ ParentAlive
    /\ \A q \in Slots : parent[q] # NoProc =>
          parent[q] # q /\ state[q] \in Alive \cup {"ZOMBIE"}
    /\ parent[Initproc] = NoProc
    /\ state[Initproc] \in Alive /\ pc[Initproc] # "exit"

ProcIInv == ProcTypeOK /\ OneCpuPerProcess /\ ForkInv /\ ParentInv /\ NoMissedExit

-----------------------------------------------------------------------------
(* Lemmas *)

\* The null pointer and the channels that are not processes are not slots.
LEMMA SlotFacts ==
    /\ Slots \subseteq Nat /\ Initproc \in Slots
    /\ NoProc \notin Slots /\ NoChan \notin Slots /\ IO \notin Slots /\ DISK \notin Slots
  BY NPROCAssumption DEF Slots, Initproc, NoProc, NoChan, IO, DISK

\* A set of numbers that is not empty has a least one.
LEMMA LeastNat == ASSUME NEW S, S \subseteq Nat, S # {} PROVE \E x \in S : \A y \in S : x <= y
<1> DEFINE R == OpToRel(<, Nat)
<1>1. IsWellFoundedOn(R, Nat)
  BY NatLessThanWellFounded, ZenonT(60)
<1>2. \A y, x \in Nat : y < x => <<y, x>> \in R
  BY DEF OpToRel
<1> HIDE DEF R
<1>3. PICK x \in S : \A y \in S : ~(<<y, x>> \in R)
  BY <1>1, WFMin, ZenonT(60)
<1>4. ASSUME NEW y \in S PROVE x <= y
  <2>1. x \in Nat /\ y \in Nat /\ ~(y < x)
    BY <1>2, <1>3, <1>4, ZenonT(60)
  <2> QED
    BY <2>1
<1> QED
  BY <1>4, ZenonT(60)

\* A scan of the table from its first slot finds a slot it looks for: Min of a
\* set that is not empty is its least member.
LEMMA MinInSet ==
    ASSUME NEW S, S \subseteq Nat, S # {}
    PROVE  Min(S) \in S /\ \A y \in S : Min(S) <= y
<1>1. PICK x \in S : \A y \in S : x <= y
  BY LeastNat, ZenonT(60)
<1> QED
  BY <1>1, ZenonT(60) DEF Min

\* The slot allocproc() takes is UNUSED.
LEMMA FirstUnused ==
    Unused # {} => Min(Unused) \in Slots /\ state[Min(Unused)] = "UNUSED"
  BY MinInSet, SlotFacts, ZenonT(60) DEF Unused

\* The child wait() reaps is a ZOMBIE child of the caller.
LEMMA FirstZombie ==
    ASSUME NEW p, Zombies(p) # {}
    PROVE  /\ Min(Zombies(p)) \in Slots
           /\ parent[Min(Zombies(p))] = p /\ state[Min(Zombies(p))] = "ZOMBIE"
  BY MinInSet, SlotFacts, ZenonT(60) DEF Zombies, Children

\* The process kill() marks is a slot of the table.
LEMMA FirstMatching ==
    ASSUME NEW k, Matching(k) # {} PROVE Min(Matching(k)) \in Slots
  BY MinInSet, SlotFacts, ZenonT(60) DEF Matching

-----------------------------------------------------------------------------
(* The inductive invariant *)

\* The table userinit leaves behind satisfies the inductive invariant.
LEMMA InitProcIInv == Init => ProcIInv
  BY SlotFacts DEF Init, ProcIInv, ProcTypeOK, OneCpuPerProcess, ForkInv, EmbryoOwned,
     ParentInv, ParentAlive, NoMissedExit, States, Alive, PCs

\* Every step keeps the variables in their types.
LEMMA NextProcTypeOK == ProcTypeOK /\ ForkInv /\ [Next]_vars => ProcTypeOK'
<1> SUFFICES ASSUME ProcTypeOK, ForkInv, [Next]_vars PROVE ProcTypeOK'
  OBVIOUS
<1> USE SlotFacts DEF tableVars, ProcTypeOK, States, Alive, PCs
<1>1. ASSUME NEW c \in Cpus, NEW p \in Slots, Dispatch(c, p) PROVE ProcTypeOK'
  BY <1>1 DEF Dispatch
<1>2. ASSUME NEW c \in Cpus, NEW p \in Slots, Yield(c, p) PROVE ProcTypeOK'
  BY <1>2 DEF Yield
<1>3. ASSUME NEW c \in Cpus, NEW p \in Slots, Syscall(c, p) PROVE ProcTypeOK'
  BY <1>3 DEF Syscall
<1>4. ASSUME NEW c \in Cpus, NEW p \in Slots, Return(c, p) PROVE ProcTypeOK'
  BY <1>4 DEF Return
<1>5. ASSUME NEW c \in Cpus, NEW p \in Slots, Fault(c, p) PROVE ProcTypeOK'
  BY <1>5 DEF Fault
<1>6. ASSUME NEW c \in Cpus, NEW p \in Slots, ForkAlloc(c, p) PROVE ProcTypeOK'
  BY <1>6, FirstUnused DEF ForkAlloc, AllocProc
<1>7. ASSUME NEW c \in Cpus, NEW p \in Slots, ForkFail(c, p) PROVE ProcTypeOK'
  BY <1>7 DEF ForkFail, ForkInv
<1>8. ASSUME NEW c \in Cpus, NEW p \in Slots, ForkDone(c, p) PROVE ProcTypeOK'
  BY <1>8 DEF ForkDone, ForkInv
<1>9. ASSUME NEW c \in Cpus, NEW p \in Slots, ExitBegin(c, p) PROVE ProcTypeOK'
  BY <1>9, ZenonT(60) DEF ExitBegin
<1>10. ASSUME NEW c \in Cpus, NEW p \in Slots, ExitDone(c, p) PROVE ProcTypeOK'
  BY <1>10 DEF ExitDone, ExitWakes, SleepersOn, MakeRunnable, Reparent, Zombies, Children
<1>11. ASSUME NEW c \in Cpus, NEW p \in Slots, WaitReap(c, p) PROVE ProcTypeOK'
  BY <1>11, FirstZombie, ZenonT(60) DEF WaitReap, InWait, Zombies, Children
<1>12. ASSUME NEW c \in Cpus, NEW p \in Slots, WaitNone(c, p) PROVE ProcTypeOK'
  BY <1>12 DEF WaitNone, InWait
<1>13. ASSUME NEW c \in Cpus, NEW p \in Slots, WaitSleep(c, p) PROVE ProcTypeOK'
  BY <1>13 DEF WaitSleep, InWait, SleepOn
<1>14. ASSUME NEW c \in Cpus, NEW p \in Slots, SleepCheck(c, p) PROVE ProcTypeOK'
  BY <1>14 DEF SleepCheck
<1>15. ASSUME NEW c \in Cpus, NEW p \in Slots, IoSleep(c, p) PROVE ProcTypeOK'
  BY <1>15 DEF IoSleep, SleepOn
<1>16. ASSUME NEW c \in Cpus, NEW p \in Slots, DiskSleep(c, p) PROVE ProcTypeOK'
  BY <1>16 DEF DiskSleep, SleepOn
<1>17. ASSUME NEW c \in Cpus, NEW p \in Slots, NEW k \in KillPids, Kill(c, p, k) PROVE ProcTypeOK'
  BY <1>17, FirstMatching DEF Kill, KillWakes, MakeRunnable
<1>18. ASSUME NEW ch \in Chans, Wakeup(ch) PROVE ProcTypeOK'
  BY <1>18 DEF Wakeup, MakeRunnable, SleepersOn
<1>19. CASE UNCHANGED vars
  BY <1>19 DEF vars
<1> QED
  BY <1>1, <1>2, <1>3, <1>4, <1>5, <1>6, <1>7, <1>8, <1>9, <1>10, <1>11,
     <1>12, <1>13, <1>14, <1>15, <1>16, <1>17, <1>18, <1>19, ZenonT(60) DEF Next, Step,
     Halt

\* Steps that keep the RUNNING processes and the CPUs as they are.
CpusKept ==
    /\ UNCHANGED cpu
    /\ \A q \in Slots : state'[q] = "RUNNING" <=> state[q] = "RUNNING"

\* Steps in which p gives up CPU c.
CpuLeft(c, p) ==
    /\ cpu' = [cpu EXCEPT ![c] = NoProc] /\ On(c, p) /\ state'[p] # "RUNNING"
    /\ \A q \in Slots \ {p} : state'[q] = "RUNNING" <=> state[q] = "RUNNING"

\* Every step keeps RUNNING processes and CPUs in correspondence: only the
\* scheduler makes a process RUNNING, and it takes a RUNNABLE one.
LEMMA NextOneCpu ==
    ProcTypeOK /\ OneCpuPerProcess /\ ForkInv /\ [Next]_vars => OneCpuPerProcess'
<1> SUFFICES ASSUME ProcTypeOK, OneCpuPerProcess, ForkInv, [Next]_vars
             PROVE  OneCpuPerProcess'
  OBVIOUS
<1>1. ASSUME CpusKept PROVE OneCpuPerProcess'
  BY <1>1 DEF OneCpuPerProcess, CpusKept
<1>2. ASSUME NEW c \in Cpus, NEW p \in Slots, CpuLeft(c, p) PROVE OneCpuPerProcess'
  BY <1>2, SlotFacts DEF OneCpuPerProcess, CpuLeft, On, ProcTypeOK
<1>3. ASSUME NEW c \in Cpus, NEW p \in Slots, Dispatch(c, p) PROVE OneCpuPerProcess'
  <2>1. \A d \in Cpus : cpu[d] # p
    BY <1>3 DEF Dispatch, OneCpuPerProcess
  <2> QED
    BY <1>3, <2>1, SlotFacts DEF Dispatch, OneCpuPerProcess, ProcTypeOK
<1>4. ASSUME NEW c \in Cpus, NEW p \in Slots,
             \/ Syscall(c, p) \/ Return(c, p) \/ Fault(c, p) \/ ExitBegin(c, p)
             \/ WaitNone(c, p) \/ SleepCheck(c, p)
      PROVE  CpusKept
  BY <1>4, ZenonT(60) DEF Syscall, Return, Fault, ExitBegin, WaitNone, SleepCheck, tableVars, CpusKept
<1>5. ASSUME NEW c \in Cpus, NEW p \in Slots, ForkAlloc(c, p) PROVE CpusKept
  BY <1>5, FirstUnused DEF ForkAlloc, AllocProc, CpusKept, ProcTypeOK
<1>6. ASSUME NEW c \in Cpus, NEW p \in Slots, ForkFail(c, p) \/ ForkDone(c, p) PROVE CpusKept
  <2>1. child[p] \in Slots /\ state[child[p]] = "EMBRYO"
    BY <1>6 DEF ForkFail, ForkDone, ForkInv, EmbryoOwned, ProcTypeOK
  <2> QED
    BY <1>6, <2>1 DEF ForkFail, ForkDone, CpusKept, ProcTypeOK
<1>7. ASSUME NEW c \in Cpus, NEW p \in Slots, WaitReap(c, p) PROVE CpusKept
  BY <1>7, FirstZombie DEF WaitReap, CpusKept, ProcTypeOK
<1>8. ASSUME NEW c \in Cpus, NEW p \in Slots, NEW k \in KillPids, Kill(c, p, k) PROVE CpusKept
  BY <1>8 DEF Kill, KillWakes, MakeRunnable, CpusKept
<1>9. ASSUME NEW ch \in Chans, Wakeup(ch) PROVE CpusKept
  BY <1>9 DEF Wakeup, SleepersOn, MakeRunnable, CpusKept
<1>10. ASSUME NEW c \in Cpus, NEW p \in Slots,
              \/ Yield(c, p) \/ WaitSleep(c, p) \/ IoSleep(c, p) \/ DiskSleep(c, p)
       PROVE  CpuLeft(c, p)
  BY <1>10 DEF Yield, WaitSleep, IoSleep, DiskSleep, InWait, On, SleepOn, CpuLeft, ProcTypeOK
<1>11. ASSUME NEW c \in Cpus, NEW p \in Slots, ExitDone(c, p) PROVE CpuLeft(c, p)
  BY <1>11 DEF ExitDone, ExitWakes, SleepersOn, MakeRunnable, CpuLeft
<1>12. ASSUME UNCHANGED vars PROVE CpusKept
  BY <1>12 DEF vars, CpusKept
<1> QED
  BY <1>1, <1>2, <1>3, <1>4, <1>5, <1>6, <1>7, <1>8, <1>9, <1>10, <1>11, <1>12
  DEF Next, Step, Halt

\* Steps that keep the EMBRYO slots and the forks in progress as they are.
ForksKept ==
    /\ UNCHANGED child
    /\ \A q \in Slots : /\ state'[q] = "EMBRYO" <=> state[q] = "EMBRYO"
                        /\ pc'[q] = "fork" <=> pc[q] = "fork"
                        /\ pc[q] = "fork" => state'[q] \in {"RUNNABLE", "RUNNING"}

\* Every step keeps the EMBRYO slots and the forks in progress in one-to-one
\* correspondence.
LEMMA NextForkInv ==
    ProcTypeOK /\ OneCpuPerProcess /\ ForkInv /\ [Next]_vars => ForkInv'
<1> SUFFICES ASSUME ProcTypeOK, OneCpuPerProcess, ForkInv, [Next]_vars PROVE ForkInv'
  OBVIOUS
<1>1. ASSUME ForksKept PROVE ForkInv'
  <2>1. \A p \in Slots : child[p] # NoProc => child[p] \in Slots
    BY DEF ProcTypeOK
  <2> QED
    BY <1>1, <2>1 DEF ForkInv, EmbryoOwned, ForksKept
<1>2. \A c \in Cpus, p \in Slots : On(c, p) => state[p] = "RUNNING"
  BY DEF OneCpuPerProcess, On
<1>3. \A p \in Slots : child[p] # NoProc => child[p] \in Slots /\ state[child[p]] = "EMBRYO"
  BY DEF ForkInv, EmbryoOwned, ProcTypeOK
<1>4. ASSUME NEW c \in Cpus, NEW p \in Slots, ForkAlloc(c, p) PROVE ForkInv'
  <2> DEFINE np == Min(Unused)
  <2>1. np \in Slots /\ state[np] = "UNUSED" /\ state[p] = "RUNNING"
    BY <1>2, <1>4, FirstUnused DEF ForkAlloc
  <2>2. \A q \in Slots : child[q] # np
    BY <1>3, <2>1, SlotFacts
  <2>3. /\ state' = [state EXCEPT ![np] = "EMBRYO"] /\ child' = [child EXCEPT ![p] = np]
        /\ pc' = [pc EXCEPT ![p] = "fork"] /\ pc[p] = "sys"
    BY <1>4 DEF ForkAlloc, AllocProc
  <2> HIDE DEF np
  <2>4. child[p] = NoProc
    BY <2>3 DEF ForkInv, EmbryoOwned
  <2>5. EmbryoOwned'
    BY <1>3, <2>1, <2>2, <2>3, <2>4, SlotFacts DEF ForkInv, EmbryoOwned, ProcTypeOK
  <2> QED
    BY <2>1, <2>3, <2>5, SlotFacts DEF ForkInv, ProcTypeOK
<1>5. ASSUME NEW c \in Cpus, NEW p \in Slots, ForkFail(c, p) \/ ForkDone(c, p) PROVE ForkInv'
  <2>1. child[p] \in Slots /\ state[child[p]] = "EMBRYO" /\ state[p] = "RUNNING"
    BY <1>2, <1>3, <1>5 DEF ForkInv, ForkFail, ForkDone
  <2>2. PICK s \in {"UNUSED", "RUNNABLE"} : state' = [state EXCEPT ![child[p]] = s]
    BY <1>5 DEF ForkFail, ForkDone
  <2>3. /\ child' = [child EXCEPT ![p] = NoProc]
        /\ \A q \in Slots : pc'[q] = "fork" <=> pc[q] = "fork" /\ q # p
    BY <1>5, <2>1 DEF ForkFail, ForkDone, ForkInv, ProcTypeOK
  <2>4. EmbryoOwned'
    BY <1>3, <2>1, <2>2, <2>3, SlotFacts DEF ForkInv, EmbryoOwned, ProcTypeOK
  <2> QED
    BY <1>3, <2>1, <2>2, <2>3, <2>4, SlotFacts DEF ForkInv, EmbryoOwned, ProcTypeOK
<1>6. ASSUME NEW c \in Cpus, NEW p \in Slots,
             \/ Syscall(c, p) \/ Return(c, p) \/ Fault(c, p) \/ ExitBegin(c, p)
             \/ WaitNone(c, p) \/ SleepCheck(c, p)
      PROVE  ForksKept
  BY <1>6, ZenonT(60) DEF Syscall, Return, Fault, ExitBegin, WaitNone, InWait, SleepCheck, tableVars,
              ForksKept, ForkInv, ProcTypeOK
<1>7. ASSUME NEW c \in Cpus, NEW p \in Slots, Dispatch(c, p) \/ Yield(c, p) PROVE ForksKept
  BY <1>2, <1>7 DEF Dispatch, Yield, ForksKept, ForkInv, ProcTypeOK
<1>8. ASSUME NEW c \in Cpus, NEW p \in Slots, WaitReap(c, p) PROVE ForksKept
  BY <1>8, FirstZombie DEF WaitReap, InWait, ForksKept, ForkInv, ProcTypeOK
<1>9. ASSUME NEW c \in Cpus, NEW p \in Slots,
             WaitSleep(c, p) \/ IoSleep(c, p) \/ DiskSleep(c, p)
      PROVE  ForksKept
  BY <1>2, <1>9 DEF WaitSleep, IoSleep, DiskSleep, InWait, SleepOn, ForksKept, ForkInv, ProcTypeOK
<1>10. ASSUME NEW c \in Cpus, NEW p \in Slots, ExitDone(c, p) PROVE ForksKept
  BY <1>2, <1>10 DEF ExitDone, ExitWakes, SleepersOn, MakeRunnable, ForksKept, ForkInv
<1>11. ASSUME NEW c \in Cpus, NEW p \in Slots, NEW k \in KillPids, Kill(c, p, k) PROVE ForksKept
  BY <1>11 DEF Kill, KillWakes, MakeRunnable, ForksKept, ForkInv
<1>12. ASSUME NEW ch \in Chans, Wakeup(ch) PROVE ForksKept
  BY <1>12 DEF Wakeup, SleepersOn, MakeRunnable, ForksKept, ForkInv
<1>13. ASSUME UNCHANGED vars PROVE ForksKept
  BY <1>13 DEF vars, ForksKept, ForkInv
<1> QED
  BY <1>1, <1>4, <1>5, <1>6, <1>7, <1>8, <1>9, <1>10, <1>11, <1>12, <1>13
  DEF Next, Step, Halt

\* Steps that keep the parent pointers and lose no process.
ParentsKept ==
    /\ UNCHANGED parent
    /\ pc'[Initproc] # "exit"
    /\ \A q \in Slots : /\ state[q] \in Alive => state'[q] \in Alive
                        /\ state[q] = "ZOMBIE" => state'[q] = "ZOMBIE"

\* Every step keeps parent pointers pointing at live processes.  The step that
\* matters is exit(): it makes init the parent of all children it leaves.
LEMMA NextParentInv ==
    ProcTypeOK /\ OneCpuPerProcess /\ ForkInv /\ ParentInv /\ [Next]_vars => ParentInv'
<1> SUFFICES ASSUME ProcTypeOK, OneCpuPerProcess, ForkInv, ParentInv, [Next]_vars
             PROVE  ParentInv'
  OBVIOUS
<1> USE SlotFacts
<1>1. ASSUME ParentsKept PROVE ParentInv'
  <2>1. \A q \in Slots : parent[q] # NoProc => parent[q] \in Slots
    BY DEF ProcTypeOK
  <2> QED
    BY <1>1, <2>1, ZenonT(60) DEF ParentInv, ParentAlive, ParentsKept, Alive
<1>2. \A c \in Cpus, p \in Slots : On(c, p) => state[p] = "RUNNING"
  BY DEF OneCpuPerProcess, On
<1>3. ASSUME NEW c \in Cpus, NEW p \in Slots,
             \/ Syscall(c, p) \/ Return(c, p) \/ Fault(c, p) \/ WaitNone(c, p)
             \/ SleepCheck(c, p) \/ Dispatch(c, p) \/ Yield(c, p)
      PROVE  ParentsKept
  <2>1. CASE Dispatch(c, p) \/ Yield(c, p)
    BY <1>2, <2>1 DEF Dispatch, Yield, ParentsKept, ParentInv, ProcTypeOK, Alive
  <2>2. CASE Fault(c, p)
    BY <2>2 DEF Fault, ParentsKept, ParentInv
  <2>3. CASE Syscall(c, p) \/ Return(c, p) \/ WaitNone(c, p) \/ SleepCheck(c, p)
    <3>1. UNCHANGED <<state, parent>> /\ pc'[Initproc] # "exit"
      BY <2>3 DEF Syscall, Return, WaitNone, SleepCheck, tableVars, ParentInv, ProcTypeOK
    <3> QED
      BY <3>1 DEF ParentsKept
  <2> QED
    BY <1>3, <2>1, <2>2, <2>3
<1>4. ASSUME NEW c \in Cpus, NEW p \in Slots, ExitBegin(c, p) PROVE ParentsKept
  BY <1>4, ZenonT(60) DEF ExitBegin, tableVars, ParentsKept, ParentInv, ProcTypeOK
<1>5. ASSUME NEW c \in Cpus, NEW p \in Slots, ForkAlloc(c, p) PROVE ParentsKept
  BY <1>5, FirstUnused DEF ForkAlloc, AllocProc, ParentsKept, ParentInv, ProcTypeOK, Alive
<1>6. ASSUME NEW c \in Cpus, NEW p \in Slots, ForkFail(c, p) \/ ForkDone(c, p)
      PROVE  child[p] \in Slots /\ state[child[p]] = "EMBRYO"
  BY <1>6 DEF ForkFail, ForkDone, ForkInv, EmbryoOwned, ProcTypeOK
<1>7. ASSUME NEW c \in Cpus, NEW p \in Slots, ForkFail(c, p) PROVE ParentsKept
  BY <1>6, <1>7, ZenonT(60) DEF ForkFail, ParentsKept, ParentInv, ProcTypeOK, Alive
<1>8. ASSUME NEW c \in Cpus, NEW p \in Slots, ForkDone(c, p) PROVE ParentInv'
  <2>1. /\ child[p] \in Slots /\ state[child[p]] = "EMBRYO" /\ state[p] = "RUNNING"
        /\ state' = [state EXCEPT ![child[p]] = "RUNNABLE"]
        /\ parent' = [parent EXCEPT ![child[p]] = p]
        /\ pc' = [pc EXCEPT ![p] = "sys", ![child[p]] = "user"]
    BY <1>2, <1>6, <1>8, ZenonT(60) DEF ForkDone
  <2>2. \A q \in Slots : parent[q] # NoProc => parent[q] \in Slots
    BY DEF ProcTypeOK
  <2>3. ParentAlive'
    <3> SUFFICES ASSUME NEW q \in Slots, parent'[q] # NoProc
                 PROVE  state'[parent'[q]] \in {"SLEEPING", "RUNNABLE", "RUNNING"}
      BY ZenonT(60) DEF ParentAlive
    <3>1. state \in [Slots -> States] /\ parent \in [Slots -> Slots \cup {NoProc}]
      BY DEF ProcTypeOK
    <3>2. CASE q = child[p]
      BY <2>1, <3>1, <3>2
    <3>3. CASE q # child[p]
      <4>1. parent'[q] = parent[q] /\ parent[q] # NoProc /\ parent[q] \in Slots
        BY <2>1, <2>2, <3>1, <3>3
      <4>2. state[parent[q]] \in {"SLEEPING", "RUNNABLE", "RUNNING"}
        BY <4>1, ZenonT(60) DEF ParentInv, ParentAlive
      <4> QED
        BY <2>1, <3>1, <4>1, <4>2
    <3> QED
      BY <3>2, <3>3
  <2> QED
    BY <2>1, <2>2, <2>3, ZenonT(60) DEF ParentInv, ProcTypeOK, Alive
<1>9. ASSUME NEW c \in Cpus, NEW p \in Slots, ExitDone(c, p) PROVE ParentInv'
  <2>1. /\ state[p] = "RUNNING" /\ p # Initproc /\ pc' = pc
        /\ \A q \in Slots : parent'[q] = IF parent[q] = p THEN Initproc ELSE parent[q]
    BY <1>2, <1>9 DEF ExitDone, Reparent, ParentInv
  <2>2. /\ state'[p] = "ZOMBIE"
        /\ \A q \in Slots \ {p} : /\ state[q] \in Alive => state'[q] \in Alive
                                  /\ state[q] = "ZOMBIE" => state'[q] = "ZOMBIE"
    BY <1>9 DEF ExitDone, ExitWakes, SleepersOn, MakeRunnable, Alive
  <2>3. \A q \in Slots : parent[q] # NoProc => parent[q] \in Slots
    BY DEF ProcTypeOK
  <2>4. ASSUME NEW q \in Slots, parent'[q] # NoProc PROVE state'[parent'[q]] \in Alive
    <3>1. CASE parent[q] = p
      BY <2>1, <2>2, <3>1 DEF ParentInv
    <3>2. CASE parent[q] # p
      BY <2>1, <2>2, <2>3, <2>4, <3>2, ZenonT(60) DEF ParentInv, ParentAlive, Alive
    <3> QED
      BY <3>1, <3>2
  <2>5. ParentAlive'
    BY <2>4 DEF ParentAlive, Alive
  <2> QED
    BY <2>1, <2>2, <2>3, <2>5 DEF ParentInv, Alive
<1>10. ASSUME NEW c \in Cpus, NEW p \in Slots, WaitReap(c, p) PROVE ParentInv'
  <2> DEFINE z == Min(Zombies(p))
  <2>1. z \in Slots /\ parent[z] = p /\ state[z] = "ZOMBIE"
    BY <1>10, FirstZombie DEF WaitReap
  <2>2. /\ state' = [state EXCEPT ![z] = "UNUSED"]
        /\ parent' = [parent EXCEPT ![z] = NoProc] /\ pc' = [pc EXCEPT ![p] = "sys"]
    BY <1>10 DEF WaitReap
  <2> HIDE DEF z
  <2>3. \A q \in Slots : parent[q] # NoProc => parent[q] \in Slots
    BY DEF ProcTypeOK
  <2>4. ParentAlive'
    BY <2>1, <2>2, <2>3 DEF ParentInv, ParentAlive, ProcTypeOK
  <2> QED
    BY <2>1, <2>2, <2>3, <2>4 DEF ParentInv, ProcTypeOK, Alive
<1>11. ASSUME NEW c \in Cpus, NEW p \in Slots,
              WaitSleep(c, p) \/ IoSleep(c, p) \/ DiskSleep(c, p)
       PROVE  ParentsKept
  BY <1>11, <1>2 DEF WaitSleep, IoSleep, DiskSleep, InWait, SleepOn, ParentsKept, ParentInv,
                     ProcTypeOK, Alive
<1>12. ASSUME NEW c \in Cpus, NEW p \in Slots, NEW k \in KillPids, Kill(c, p, k)
       PROVE  ParentsKept
  BY <1>12 DEF Kill, KillWakes, MakeRunnable, ParentsKept, ParentInv, Alive
<1>13. ASSUME NEW ch \in Chans, Wakeup(ch) PROVE ParentsKept
  BY <1>13 DEF Wakeup, SleepersOn, MakeRunnable, ParentsKept, ParentInv, Alive
<1>14. ASSUME UNCHANGED vars PROVE ParentsKept
  BY <1>14 DEF vars, ParentsKept, ParentInv
<1> QED
  BY <1>1, <1>3, <1>4, <1>5, <1>7, <1>8, <1>9, <1>10, <1>11, <1>12, <1>13, <1>14
  DEF Next, Step, Halt

\* Steps that keep the families, make no zombie, and put nobody to sleep in
\* wait() or kill one that sleeps there.
SleepersKept ==
    /\ UNCHANGED parent
    /\ \A q \in Slots : /\ state'[q] = "ZOMBIE" => state[q] = "ZOMBIE"
                        /\ state'[q] = "SLEEPING" /\ chan'[q] = q =>
                              /\ state[q] = "SLEEPING" /\ chan[q] = q
                              /\ killed'[q] => killed[q]

\* Every step leaves the sleepers of wait() something to wait for.  The steps
\* that matter: exit() wakes the parent and, if it hands over a zombie, init,
\* and wait() sleeps in the critical section in which it has found no zombie.
LEMMA NextNoMissedExit == ProcIInv /\ [Next]_vars => NoMissedExit'
<1> SUFFICES ASSUME ProcTypeOK, OneCpuPerProcess, ForkInv, ParentInv, NoMissedExit,
                    [Next]_vars
             PROVE  NoMissedExit'
  BY DEF ProcIInv
<1> USE SlotFacts
<1>1. ASSUME SleepersKept PROVE NoMissedExit'
  <2>1. \A q \in Slots : Children(q)' = Children(q) /\ Zombies(q)' \subseteq Zombies(q)
    BY <1>1, ZenonT(60) DEF SleepersKept, Children, Zombies
  <2> QED
    BY <1>1, <2>1 DEF NoMissedExit, SleepersKept
<1>2. \A c \in Cpus, p \in Slots : On(c, p) => state[p] = "RUNNING"
  BY DEF OneCpuPerProcess, On
<1>3. ASSUME NEW c \in Cpus, NEW p \in Slots,
             \/ Syscall(c, p) \/ Return(c, p) \/ WaitNone(c, p) \/ ExitBegin(c, p)
             \/ SleepCheck(c, p) \/ Dispatch(c, p) \/ Yield(c, p)
      PROVE  SleepersKept
  BY <1>3, ZenonT(60) DEF Syscall, Return, WaitNone, SleepCheck, Dispatch, Yield, ExitBegin, tableVars,
              SleepersKept, ProcTypeOK
<1>4. ASSUME NEW c \in Cpus, NEW p \in Slots, Fault(c, p) PROVE SleepersKept
  BY <1>2, <1>4, ZenonT(60) DEF Fault, SleepersKept, ProcTypeOK
<1>5. ASSUME NEW c \in Cpus, NEW p \in Slots, ForkAlloc(c, p) PROVE SleepersKept
  BY <1>5, FirstUnused DEF ForkAlloc, AllocProc, SleepersKept, ProcTypeOK
<1>6. ASSUME NEW c \in Cpus, NEW p \in Slots, ForkFail(c, p) \/ ForkDone(c, p)
      PROVE  child[p] \in Slots /\ state[child[p]] = "EMBRYO"
  BY <1>6 DEF ForkFail, ForkDone, ForkInv, EmbryoOwned, ProcTypeOK
<1>7. ASSUME NEW c \in Cpus, NEW p \in Slots, ForkFail(c, p) PROVE SleepersKept
  BY <1>6, <1>7 DEF ForkFail, SleepersKept, ProcTypeOK
<1>8. ASSUME NEW c \in Cpus, NEW p \in Slots, ForkDone(c, p) PROVE NoMissedExit'
  <2>1. /\ child[p] \in Slots /\ state[child[p]] = "EMBRYO" /\ state[p] = "RUNNING"
        /\ state' = [state EXCEPT ![child[p]] = "RUNNABLE"]
        /\ parent' = [parent EXCEPT ![child[p]] = p]
        /\ chan' = chan /\ killed' = killed
    BY <1>2, <1>6, <1>8, ZenonT(60) DEF ForkDone
  <2>2. parent[child[p]] = NoProc
    BY <2>1, ZenonT(60) DEF ParentInv, Alive
  <2> QED
    BY <2>1, <2>2 DEF NoMissedExit, Children, Zombies, ProcTypeOK
<1>9. ASSUME NEW c \in Cpus, NEW p \in Slots, ExitDone(c, p) PROVE NoMissedExit'
  <2>1. /\ state[p] = "RUNNING" /\ p # Initproc /\ chan' = chan /\ killed' = killed
        /\ \A q \in Slots : parent'[q] = IF parent[q] = p THEN Initproc ELSE parent[q]
    BY <1>2, <1>9 DEF ExitDone, Reparent, ParentInv
  <2>2. /\ state'[p] = "ZOMBIE"
        /\ \A q \in Slots \ {p} : state'[q] = IF q \in ExitWakes(p) THEN "RUNNABLE" ELSE state[q]
    BY <1>9 DEF ExitDone, ExitWakes, SleepersOn, MakeRunnable, ProcTypeOK
  <2>3. SUFFICES ASSUME NEW q \in Slots, state'[q] = "SLEEPING", chan[q] = q
                 PROVE  Children(q)' # {} /\ Zombies(q)' = {} /\ ~killed[q]
    BY <2>1 DEF NoMissedExit
  <2>4. q # p /\ q \notin ExitWakes(p) /\ state[q] = "SLEEPING"
    BY <2>2, <2>3
  <2>5. Children(q) # {} /\ Zombies(q) = {} /\ ~killed[q]
    BY <2>3, <2>4 DEF NoMissedExit
  <2>6. Children(q)' # {}
    BY <2>1, <2>4, <2>5, ZenonT(60) DEF Children
  <2>7. parent[p] # q /\ parent[p] # p
    BY <2>3, <2>4 DEF ExitWakes, SleepersOn, ParentInv
  <2>8. ASSUME NEW r \in Slots, parent'[r] = q, state'[r] = "ZOMBIE" PROVE FALSE
    <3>1. r # p
      BY <2>1, <2>7, <2>8
    <3>2. state[r] = "ZOMBIE"
      BY <2>2, <2>8, <3>1
    <3>3. parent[r] = p /\ q = Initproc
      BY <2>1, <2>5, <2>8, <3>2 DEF Zombies, Children
    <3> QED
      BY <2>3, <2>4, <3>2, <3>3 DEF ExitWakes, SleepersOn, Zombies, Children
  <2> QED
    BY <2>5, <2>6, <2>8, ZenonT(60) DEF Zombies, Children
<1>10. ASSUME NEW c \in Cpus, NEW p \in Slots, WaitReap(c, p) PROVE NoMissedExit'
  <2> DEFINE z == Min(Zombies(p))
  <2>1. z \in Slots /\ parent[z] = p /\ state[z] = "ZOMBIE" /\ state[p] = "RUNNING"
    BY <1>2, <1>10, FirstZombie DEF WaitReap, InWait
  <2>2. /\ state' = [state EXCEPT ![z] = "UNUSED"] /\ chan' = chan
        /\ parent' = [parent EXCEPT ![z] = NoProc] /\ killed' = [killed EXCEPT ![z] = FALSE]
    BY <1>10 DEF WaitReap
  <2> HIDE DEF z
  <2> QED
    BY <2>1, <2>2 DEF NoMissedExit, Children, Zombies, ProcTypeOK
<1>11. ASSUME NEW c \in Cpus, NEW p \in Slots, WaitSleep(c, p) PROVE NoMissedExit'
  BY <1>11 DEF WaitSleep, SleepOn, NoMissedExit, Children, Zombies, ProcTypeOK
<1>12. ASSUME NEW c \in Cpus, NEW p \in Slots, IoSleep(c, p) \/ DiskSleep(c, p)
       PROVE  SleepersKept
  BY <1>12 DEF IoSleep, DiskSleep, SleepOn, SleepersKept, ProcTypeOK
<1>13. ASSUME NEW c \in Cpus, NEW p \in Slots, NEW k \in KillPids, Kill(c, p, k)
       PROVE  SleepersKept
  BY <1>13 DEF Kill, KillWakes, MakeRunnable, SleepersKept, ProcTypeOK
<1>14. ASSUME NEW ch \in Chans, Wakeup(ch) PROVE SleepersKept
  BY <1>14 DEF Wakeup, SleepersOn, MakeRunnable, SleepersKept
<1>15. ASSUME UNCHANGED vars PROVE SleepersKept
  BY <1>15 DEF vars, SleepersKept
<1> QED
  BY <1>1, <1>3, <1>4, <1>5, <1>7, <1>8, <1>9, <1>10, <1>11, <1>12, <1>13, <1>14, <1>15
  DEF Next, Step, Halt

\* The inductive invariant holds in every reachable state.
THEOREM ProcInductive == Spec => []ProcIInv
<1>1. ProcIInv /\ [Next]_vars => ProcIInv'
  BY NextProcTypeOK, NextOneCpu, NextForkInv, NextParentInv, NextNoMissedExit DEF ProcIInv
<1> QED
  BY <1>1, InitProcIInv, PTL DEF Spec

-----------------------------------------------------------------------------
(* What the table promises *)

\* With any number of CPUs, a process runs on one CPU at a time: RUNNING and
\* c->proc always agree, across yield, sleep, exit and the scheduler.
THEOREM ProcOneCpu == Spec => []OneCpuPerProcess
  BY ProcInductive, PTL DEF ProcIInv

\* However fork, exit, wait and kill interleave, a parent asleep in wait() has
\* a living child, no zombie and no pending kill.
THEOREM ProcNoMissedExit == Spec => []NoMissedExit
  BY ProcInductive, PTL DEF ProcIInv

\* Whatever order parents and children exit in, every parent pointer leads to
\* a live process.
THEOREM ProcParentAlive == Spec => []ParentAlive
<1>1. ProcIInv => ParentAlive
  BY DEF ProcIInv, ParentInv
<1> QED
  BY <1>1, ProcInductive, PTL

\* No fork leaks its slot and no two forks share one.
THEOREM ProcEmbryoOwned == Spec => []EmbryoOwned
<1>1. ProcIInv => EmbryoOwned
  BY DEF ProcIInv, ForkInv
<1> QED
  BY <1>1, ProcInductive, PTL

-----------------------------------------------------------------------------
(* MLFQ is a scheduler of the process table *)

\* Every step of the build is a step of the process table, or changes only the
\* rings and the clock.
LEMMA MlfqStepIs == [MlfqNext]_mvars => [Next]_vars
<1> SUFFICES ASSUME [MlfqNext]_mvars PROVE Next \/ UNCHANGED vars
  OBVIOUS
<1>1. ASSUME panic = "none", NEW c \in Cpus, NEW p \in Slots,
             \/ Pick(c, p) \/ TimerExpire(c, p) \/ MlfqFork(c, p) \/ MlfqForkDone(c, p)
             \/ MlfqSleep(c, p) \/ MlfqExit(c, p) \/ MlfqOther(c, p)
             \/ \E k \in KillPids : MlfqKill(c, p, k)
      PROVE  Next
  <2>1. Step(c, p)
    BY <1>1, ZenonT(60) DEF Pick, TimerExpire, MlfqFork, MlfqForkDone, MlfqSleep, MlfqExit, MlfqOther,
       MlfqKill, Step
  <2> QED
    BY <1>1, <2>1, ZenonT(60) DEF Next
<1>2. ASSUME NEW c \in Cpus, NEW p \in Slots, PickPanic(c, p) \/ TimerSlice(c, p)
      PROVE  UNCHANGED vars
  BY <1>2, ZenonT(60) DEF PickPanic, TimerSlice
<1>3. ASSUME NEW c \in Cpus, IdleLoop(c) \/ TimerIdle(c) PROVE UNCHANGED vars
  BY <1>3, ZenonT(60) DEF IdleLoop, TimerIdle
<1>4. ASSUME panic = "none", NEW ch \in Chans, MlfqWakeup(ch) PROVE Next
  BY <1>4, ZenonT(60) DEF MlfqWakeup, Next
<1>5. ASSUME UNCHANGED mvars PROVE UNCHANGED vars
  BY <1>5, ZenonT(60) DEF mvars
<1> QED
  BY <1>1, <1>2, <1>3, <1>4, <1>5, ZenonT(60) DEF MlfqNext, MlfqStep, MlfqHalt, Halted

\* The MLFQ build only narrows the choice that Proc leaves open.
THEOREM MlfqImplementsProc == MlfqSpec => Spec
<1>1. MlfqInit => Init
  BY DEF MlfqInit
<1> QED
  BY <1>1, MlfqStepIs, PTL DEF MlfqSpec, Spec

\* What fork, exit, wait, kill and sleep promise, they promise under the MLFQ
\* build, whatever its ageing pass does to the rings.
THEOREM MlfqKeepsTable ==
    MlfqSpec => [](OneCpuPerProcess /\ NoMissedExit /\ ParentAlive /\ EmbryoOwned)
  BY MlfqImplementsProc, ProcOneCpu, ProcNoMissedExit, ProcParentAlive, ProcEmbryoOwned, PTL

-----------------------------------------------------------------------------
(* The rings of MLFQ *)

Ready == {p \in Slots : state[p] = "RUNNABLE"}

Panics == {"none", "out of bound quenumber", "head overtakes tail", "process is sleeping"}

Rings == [ring : [Levels -> Seq(Slots)], level : [Slots -> Levels],
          panic : Panics, aged : BOOLEAN]

\* The rings hold each process of S once, at its own level, and nothing else.
Queued(r, S) ==
    /\ r \in Rings
    /\ \A q \in Levels : \A i \in 1 .. Len(r.ring[q]) :
          r.ring[q][i] \in S /\ r.level[r.ring[q][i]] = q
    /\ \A q \in Levels : \A i, j \in 1 .. Len(r.ring[q]) : r.ring[q][i] = r.ring[q][j] => i = j
    /\ \A p \in S : \E i \in 1 .. Len(r.ring[r.level[p]]) : r.ring[r.level[p]][i] = p

\* A ring has room for p as long as some other slot is not in the rings.
LEMMA RingShort ==
    ASSUME NEW r, NEW S, S \subseteq Slots, Queued(r, S), NEW q \in Levels,
           NEW p \in Slots, NEW u \in Slots, p \notin S, u \notin S, u # p
    PROVE  Len(r.ring[q]) \in Nat /\ Len(r.ring[q]) + 1 < NPROC
<1>1. IsFiniteSet(Slots) /\ Cardinality(Slots) = NPROC /\ NPROC \in Nat
  <2>1. 0 \in Int /\ NPROC - 1 \in Int /\ NPROC \in Nat /\ ~(0 > NPROC - 1)
    BY NPROCAssumption
  <2>2. IsFiniteSet(0 .. NPROC - 1) /\ Cardinality(0 .. NPROC - 1) = (NPROC - 1) - 0 + 1
    BY <2>1, FS_Interval, ZenonT(60)
  <2> QED
    BY <2>1, <2>2 DEF Slots
<1> DEFINE s == r.ring[q]
           image == {s[i] : i \in 1 .. Len(s)}
<1>2. s \in Seq(Slots)
  BY DEF Queued, Rings
<1>3. \A i \in 1 .. Len(s) : s[i] \in S
  BY DEF Queued
<1>4. \A i, j \in 1 .. Len(s) : s[i] = s[j] => i = j
  BY DEF Queued
<1> HIDE DEF s
<1>5. Len(s) \in Nat /\ DOMAIN s = 1 .. Len(s) /\ s \in [1 .. Len(s) -> Slots]
  BY <1>2
<1>6. s \in Bijection(1 .. Len(s), image)
  <2>1. s \in [1 .. Len(s) -> image]
    BY <1>5
  <2>2. s \in Injection(1 .. Len(s), image)
    BY <1>4, <1>5, <2>1 DEF Injection, IsInjective
  <2>3. s \in Surjection(1 .. Len(s), image)
    BY <2>1 DEF Surjection
  <2> QED
    BY <2>2, <2>3 DEF Bijection
<1>7. Cardinality(image) = Len(s)
  BY <1>5, <1>6, FS_CountingElements DEF ExistsBijection
<1>8. image \subseteq (Slots \ {p}) \ {u}
  BY <1>3
<1> HIDE DEF image
<1>9. /\ IsFiniteSet(Slots \ {p}) /\ Cardinality(Slots \ {p}) = NPROC - 1
      /\ IsFiniteSet((Slots \ {p}) \ {u}) /\ Cardinality((Slots \ {p}) \ {u}) = NPROC - 2
  <2>1. IsFiniteSet(Slots \ {p}) /\ Cardinality(Slots \ {p}) = NPROC - 1
    BY <1>1, FS_RemoveElement
  <2>2. u \in Slots \ {p}
    OBVIOUS
  <2>3. IsFiniteSet((Slots \ {p}) \ {u}) /\ Cardinality((Slots \ {p}) \ {u}) = Cardinality(Slots \ {p}) - 1
    BY <2>1, <2>2, FS_RemoveElement, ZenonT(60)
  <2> QED
    BY <1>1, <2>1, <2>3
<1>10. Cardinality(image) <= NPROC - 2
  BY <1>8, <1>9, FS_Subset
<1> QED
  BY <1>1, <1>5, <1>7, <1>10 DEF s

\* e is r with p at the tail of ring q.
Added(e, r, q, p) ==
    /\ e \in Rings
    /\ e.ring = [r.ring EXCEPT ![q] = Append(r.ring[q], p)]
    /\ e.level = [r.level EXCEPT ![p] = q]
    /\ e.panic = r.panic
    /\ e.aged = r.aged

\* enqueue() on a ring that has room, field by field.
LEMMA EnqueueIs ==
    ASSUME NEW r \in Rings, NEW q \in Levels, NEW p \in Slots, Len(r.ring[q]) + 1 # NPROC
    PROVE  Added(Enqueue(r, q, p), r, q, p)
<1>1. r.ring \in [Levels -> Seq(Slots)] /\ r.level \in [Slots -> Levels]
  BY DEF Rings
<1>2. /\ [r.ring EXCEPT ![q] = Append(r.ring[q], p)] \in [Levels -> Seq(Slots)]
      /\ [r.level EXCEPT ![p] = q] \in [Slots -> Levels]
  BY <1>1
<1>3. Enqueue(r, q, p) = [r EXCEPT !.ring = [r.ring EXCEPT ![q] = Append(r.ring[q], p)],
                                   !.level = [r.level EXCEPT ![p] = q]]
  BY <1>1 DEF Enqueue
<1> QED
  BY <1>2, <1>3, ZenonT(60) DEF Rings, Added

\* Enqueueing a process that is in no ring.
LEMMA EnqueueQueued ==
    ASSUME NEW r, NEW S, S \subseteq Slots, Queued(r, S), NEW q \in Levels,
           NEW p \in Slots, NEW u \in Slots, p \notin S, u \notin S, u # p
    PROVE  /\ Queued(Enqueue(r, q, p), S \cup {p})
           /\ Enqueue(r, q, p).panic = r.panic
           /\ Enqueue(r, q, p).aged = r.aged
<1>1. r \in Rings /\ Len(r.ring[q]) \in Nat /\ Len(r.ring[q]) + 1 # NPROC /\ NPROC \in Nat
  <2>1. r \in Rings
    BY ZenonT(60) DEF Queued
  <2>2. Len(r.ring[q]) \in Nat /\ Len(r.ring[q]) + 1 < NPROC
    BY RingShort, ZenonT(60)
  <2> QED
    BY <2>1, <2>2, NPROCAssumption
<1>2. PICK e : e = Enqueue(r, q, p)
  OBVIOUS
<1>3. /\ e \in Rings /\ e.ring = [r.ring EXCEPT ![q] = Append(r.ring[q], p)]
      /\ e.level = [r.level EXCEPT ![p] = q] /\ e.panic = r.panic /\ e.aged = r.aged
  <2>1. Added(e, r, q, p)
    BY <1>1, <1>2, EnqueueIs, ZenonT(60)
  <2> QED
    BY <2>1, ZenonT(60) DEF Added
<1>4. r.ring \in [Levels -> Seq(Slots)] /\ r.level \in [Slots -> Levels]
  BY <1>1 DEF Rings
<1>5. PICK n \in Nat : n = Len(r.ring[q])
  BY <1>1
<1>6. /\ Len(e.ring[q]) = n + 1 /\ e.ring[q][n + 1] = p
      /\ \A i \in 1 .. n : e.ring[q][i] = r.ring[q][i]
      /\ \A x \in Levels : x # q => e.ring[x] = r.ring[x]
  BY <1>3, <1>4, <1>5
<1>7. e.level[p] = q /\ \A x \in Slots : x # p => e.level[x] = r.level[x]
  BY <1>3, <1>4
<1>8. \A x \in Levels : \A i \in 1 .. Len(r.ring[x]) : r.ring[x][i] \in S /\ r.level[r.ring[x][i]] = x
  BY DEF Queued
<1>9. \A x \in Levels : \A i, j \in 1 .. Len(r.ring[x]) : r.ring[x][i] = r.ring[x][j] => i = j
  BY DEF Queued
<1>10. \A x \in S : \E i \in 1 .. Len(r.ring[r.level[x]]) : r.ring[r.level[x]][i] = x
  BY DEF Queued
<1>11. \A i \in 1 .. n + 1 : i \in 1 .. n \/ i = n + 1
  OBVIOUS
<1>12. ASSUME NEW x \in Levels, NEW i \in 1 .. Len(e.ring[x])
       PROVE  e.ring[x][i] \in S \cup {p} /\ e.level[e.ring[x][i]] = x
  <2>1. CASE x # q
    <3>1. e.ring[x][i] = r.ring[x][i] /\ i \in 1 .. Len(r.ring[x])
      BY <1>6, <1>12, <2>1
    <3> QED
      BY <1>7, <1>8, <3>1
  <2>2. CASE x = q /\ i = n + 1
    BY <1>6, <1>7, <2>2
  <2>3. CASE x = q /\ i \in 1 .. n
    <3>1. e.ring[x][i] = r.ring[x][i] /\ i \in 1 .. Len(r.ring[x])
      BY <1>5, <1>6, <2>3
    <3> QED
      BY <1>7, <1>8, <3>1
  <2> QED
    <3>1. x = q => i \in 1 .. n + 1
      BY <1>6, <1>12
    <3> QED
      BY <1>11, <2>1, <2>2, <2>3, <3>1, ZenonT(60)
<1>13. ASSUME NEW x \in Levels, NEW i \in 1 .. Len(e.ring[x]), NEW j \in 1 .. Len(e.ring[x]),
              e.ring[x][i] = e.ring[x][j]
       PROVE  i = j
  <2>1. CASE x # q
    <3>1. e.ring[x] = r.ring[x]
      BY <1>6, <2>1, ZenonT(60)
    <3> QED
      BY <1>9, <1>13, <3>1, ZenonT(60)
  <2>2. CASE x = q
    <3>1. i \in 1 .. n + 1 /\ j \in 1 .. n + 1
      BY <1>6, <2>2
    <3>2. ASSUME NEW k \in 1 .. n PROVE e.ring[q][k] = r.ring[q][k] /\ e.ring[q][k] # p
      <4>1. k \in 1 .. Len(r.ring[q])
        BY <1>5
      <4>2. r.ring[q][k] \in S
        BY <1>8, <4>1, ZenonT(60)
      <4> QED
        BY <1>6, <4>2, ZenonT(60)
    <3>3. ASSUME NEW k \in 1 .. n, NEW l \in 1 .. n, e.ring[q][k] = e.ring[q][l] PROVE k = l
      <4>1. k \in 1 .. Len(r.ring[q]) /\ l \in 1 .. Len(r.ring[q])
        BY <1>5
      <4>2. r.ring[q][k] = r.ring[q][l]
        BY <1>6, <3>3, ZenonT(60)
      <4> QED
        BY <1>9, <4>1, <4>2, ZenonT(60)
    <3> QED
      BY <1>6, <1>11, <1>13, <2>2, <3>1, <3>2, <3>3
  <2> QED
    BY <2>1, <2>2
<1>14. ASSUME NEW x \in S \cup {p} PROVE \E i \in 1 .. Len(e.ring[e.level[x]]) : e.ring[e.level[x]][i] = x
  <2>1. CASE x = p
    <3>1. n + 1 \in 1 .. Len(e.ring[q])
      BY <1>6
    <3> QED
      BY <1>6, <1>7, <2>1, <3>1
  <2>2. CASE x # p
    <3>1. x \in S /\ e.level[x] = r.level[x] /\ r.level[x] \in Levels
      BY <1>4, <1>7, <2>2
    <3>2. PICK i \in 1 .. Len(r.ring[r.level[x]]) : r.ring[r.level[x]][i] = x
      BY <1>10, <3>1
    <3>3. i \in 1 .. Len(e.ring[e.level[x]]) /\ e.ring[e.level[x]][i] = x
      <4>1. CASE r.level[x] = q
        <5>1. i \in 1 .. n /\ e.level[x] = q
          BY <1>5, <3>1, <3>2, <4>1, ZenonT(60)
        <5>2. i \in 1 .. n + 1
          BY <1>5, <5>1
        <5> QED
          BY <1>6, <3>2, <4>1, <5>1, <5>2, ZenonT(60)
      <4>2. CASE r.level[x] # q
        BY <1>6, <3>1, <3>2, <4>2, ZenonT(60)
      <4> QED
        BY <4>1, <4>2
    <3> QED
      BY <3>3
  <2> QED
    BY <2>1, <2>2
<1>15. Queued(e, S \cup {p})
  BY <1>3, <1>12, <1>13, <1>14, ZenonT(60) DEF Queued
<1> QED
  BY <1>2, <1>3, <1>15

\* dequeue() on the ring of the process at its head.
LEMMA DequeueQueued ==
    ASSUME NEW r, NEW S, S \subseteq Slots, Queued(r, S), NEW q \in Levels, r.ring[q] # <<>>
    PROVE  /\ Head(r.ring[q]) \in S /\ r.level[Head(r.ring[q])] = q
           /\ Queued(Dequeue(r, q), S \ {Head(r.ring[q])})
           /\ Dequeue(r, q).panic = r.panic /\ Dequeue(r, q).aged = r.aged
<1>1. r \in Rings /\ r.ring \in [Levels -> Seq(Slots)] /\ r.level \in [Slots -> Levels]
  BY ZenonT(60) DEF Queued, Rings
<1>2. PICK d : d = Dequeue(r, q)
  OBVIOUS
<1>3. [r.ring EXCEPT ![q] = Tail(r.ring[q])] \in [Levels -> Seq(Slots)]
  BY <1>1
<1>4. d = [r EXCEPT !.ring = [r.ring EXCEPT ![q] = Tail(r.ring[q])]]
  BY <1>1, <1>2 DEF Dequeue
<1>5. /\ d \in Rings /\ d.ring = [r.ring EXCEPT ![q] = Tail(r.ring[q])]
      /\ d.level = r.level /\ d.panic = r.panic /\ d.aged = r.aged
  BY <1>1, <1>3, <1>4, ZenonT(60) DEF Rings
<1>6. PICK n \in Nat : n = Len(r.ring[q])
  BY <1>1
<1>7. PICK p : p = Head(r.ring[q])
  OBVIOUS
<1>8. n >= 1 /\ p = r.ring[q][1] /\ 1 \in 1 .. n
  BY <1>1, <1>6, <1>7
<1>9. /\ Len(d.ring[q]) = n - 1
      /\ \A i \in 1 .. n - 1 : d.ring[q][i] = r.ring[q][i + 1]
      /\ \A x \in Levels : x # q => d.ring[x] = r.ring[x]
  BY <1>1, <1>5, <1>6, <1>8
<1>10. \A x \in Levels : \A i \in 1 .. Len(r.ring[x]) : r.ring[x][i] \in S /\ r.level[r.ring[x][i]] = x
  BY DEF Queued
<1>11. \A x \in Levels : \A i, j \in 1 .. Len(r.ring[x]) : r.ring[x][i] = r.ring[x][j] => i = j
  BY DEF Queued
<1>12. \A x \in S : \E i \in 1 .. Len(r.ring[r.level[x]]) : r.ring[r.level[x]][i] = x
  BY DEF Queued
<1>13. p \in S /\ r.level[p] = q
  BY <1>6, <1>8, <1>10
<1>14. \A i \in 1 .. n - 1 : i + 1 \in 1 .. n /\ i + 1 # 1
  BY <1>8
<1>15. ASSUME NEW x \in Levels, NEW i \in 1 .. Len(d.ring[x])
       PROVE  d.ring[x][i] \in S \ {p} /\ d.level[d.ring[x][i]] = x
  <2>1. CASE x # q
    <3>1. d.ring[x][i] = r.ring[x][i] /\ i \in 1 .. Len(r.ring[x])
      BY <1>9, <1>15, <2>1
    <3> QED
      BY <1>5, <1>10, <1>13, <2>1, <3>1
  <2>2. CASE x = q
    <3>1. i \in 1 .. n - 1
      BY <1>9, <2>2
    <3>2. d.ring[x][i] = r.ring[q][i + 1] /\ i + 1 \in 1 .. Len(r.ring[q])
      BY <1>6, <1>9, <1>14, <2>2, <3>1, ZenonT(60)
    <3>3. r.ring[q][i + 1] # p
      BY <1>6, <1>8, <1>11, <1>14, <3>1
    <3> QED
      BY <1>5, <1>10, <2>2, <3>2, <3>3
  <2> QED
    BY <2>1, <2>2
<1>16. ASSUME NEW x \in Levels, NEW i \in 1 .. Len(d.ring[x]), NEW j \in 1 .. Len(d.ring[x]),
              d.ring[x][i] = d.ring[x][j]
       PROVE  i = j
  <2>1. CASE x # q
    <3>1. d.ring[x] = r.ring[x]
      BY <1>9, <2>1, ZenonT(60)
    <3> QED
      BY <1>11, <1>16, <3>1, ZenonT(60)
  <2>2. CASE x = q
    <3>1. i \in 1 .. n - 1 /\ j \in 1 .. n - 1
      BY <1>9, <2>2
    <3>2. r.ring[q][i + 1] = r.ring[q][j + 1]
      BY <1>9, <1>16, <2>2, <3>1
    <3>3. i + 1 = j + 1
      BY <1>6, <1>11, <1>14, <3>1, <3>2
    <3> QED
      BY <3>1, <3>3
  <2> QED
    BY <2>1, <2>2
<1>17. ASSUME NEW x \in S \ {p} PROVE \E i \in 1 .. Len(d.ring[d.level[x]]) : d.ring[d.level[x]][i] = x
  <2>1. PICK i \in 1 .. Len(r.ring[r.level[x]]) : r.ring[r.level[x]][i] = x
    BY <1>12
  <2>2. r.level[x] \in Levels /\ d.level[x] = r.level[x]
    BY <1>1, <1>5
  <2>3. CASE r.level[x] # q
    BY <1>9, <2>1, <2>2, <2>3
  <2>4. CASE r.level[x] = q
    <3>1. i \in 1 .. n /\ i # 1
      BY <1>6, <1>8, <2>1, <2>4
    <3>2. i - 1 \in 1 .. n - 1 /\ (i - 1) + 1 = i
      BY <3>1
    <3>3. d.ring[q][i - 1] = x
      BY <1>9, <2>1, <2>4, <3>2, ZenonT(60)
    <3> QED
      BY <1>9, <2>2, <2>4, <3>2, <3>3
  <2> QED
    BY <2>3, <2>4
<1>18. Queued(d, S \ {p})
  BY <1>5, <1>15, <1>16, <1>17, ZenonT(60) DEF Queued
<1> QED
  BY <1>2, <1>5, <1>7, <1>13, <1>18

-----------------------------------------------------------------------------
(* wakeup1 *)

\* wakeup1's loop body for slot p.
One(w, p, T) == IF p \in T THEN Enqueue(w, w.level[p], p) ELSE w

\* Some function is the loop over the first n slots.
WokenTo(r, T, n) == \E g : g = [i \in 0 .. n |-> IF i = 0 THEN r ELSE One(g[i - 1], i - 1, T)]

\* The loop over the first n slots computes something.
LEMMA WokenExists ==
    ASSUME NEW r, NEW T, NEW n \in Nat
    PROVE  WokenTo(r, T, n)
<1> USE DEF WokenTo
<1> DEFINE Loop(m) == \E g : g = [i \in 0 .. m |-> IF i = 0 THEN r ELSE One(g[i - 1], i - 1, T)]
           Bad == {m \in Nat : ~Loop(m)}
<1>1. ASSUME Bad # {} PROVE FALSE
  <2>1. PICK m \in Bad : \A y \in Bad : m <= y
    BY <1>1, LeastNat, ZenonT(60)
  <2>2. CASE m = 0
    <3> DEFINE g == [i \in 0 .. 0 |-> r]
    <3>1. g = [i \in 0 .. 0 |-> IF i = 0 THEN r ELSE One(g[i - 1], i - 1, T)]
      OBVIOUS
    <3>2. Loop(0)
      BY <3>1, ZenonT(60)
    <3> QED
      BY <2>2, <3>2
  <2>3. CASE m # 0
    <3>1. m - 1 \in Nat /\ ~(m <= m - 1)
      BY <2>3
    <3>2. Loop(m - 1)
      BY <2>1, <3>1
    <3>3. PICK g : g = [i \in 0 .. m - 1 |-> IF i = 0 THEN r ELSE One(g[i - 1], i - 1, T)]
      BY <3>2
    <3> DEFINE h == [i \in 0 .. m |-> IF i = m THEN One(g[m - 1], m - 1, T) ELSE g[i]]
    <3>4. ASSUME NEW i \in 0 .. m PROVE h[i] = IF i = 0 THEN r ELSE One(h[i - 1], i - 1, T)
      <4>1. CASE i = m
        <5>1. h[m - 1] = g[m - 1]
          BY <3>1
        <5> QED
          BY <2>3, <4>1, <5>1
      <4>2. CASE i # m
        <5>1. i \in 0 .. m - 1
          BY <4>2
        <5>2. h[i] = g[i] /\ (i # 0 => h[i - 1] = g[i - 1])
          BY <4>2, <5>1
        <5>3. g[i] = IF i = 0 THEN r ELSE One(g[i - 1], i - 1, T)
          BY <3>3, <5>1
        <5> QED
          BY <5>2, <5>3, ZenonT(60)
      <4> QED
        BY <4>1, <4>2
    <3>5. h = [i \in 0 .. m |-> h[i]]
      OBVIOUS
    <3> HIDE DEF h
    <3>6. h = [i \in 0 .. m |-> IF i = 0 THEN r ELSE One(h[i - 1], i - 1, T)]
      BY <3>4, <3>5, ZenonT(60)
    <3> QED
      BY <2>1, <3>6
  <2> QED
    BY <2>2, <2>3
<1> QED
  BY <1>1, ZenonT(60)

\* g[n] is the state of the rings after the first n slots.
Woken(g, r, T) == g[0] = r /\ \A i \in 1 .. NPROC : g[i] = One(g[i - 1], i - 1, T)

\* Requeue is the state of the rings at the end of the loop.
LEMMA RequeueIs == ASSUME NEW r, NEW T PROVE \E g : Woken(g, r, T) /\ Requeue(r, T) = g[NPROC]
<1> DEFINE woken == CHOOSE g : g = [i \in 0 .. NPROC |-> IF i = 0 THEN r ELSE One(g[i - 1], i - 1, T)]
<1>1. woken = [i \in 0 .. NPROC |-> IF i = 0 THEN r ELSE One(woken[i - 1], i - 1, T)]
  <2>1. NPROC \in Nat
    BY NPROCAssumption
  <2>2. WokenTo(r, T, NPROC)
    BY <2>1, WokenExists, ZenonT(60)
  <2> QED
    BY <2>2, ZenonT(60) DEF WokenTo
<1>2. Requeue(r, T) = woken[NPROC]
  BY ZenonT(60) DEF Requeue, One
<1> HIDE DEF woken
<1>3. Woken(woken, r, T)
  BY <1>1, NPROCAssumption DEF Woken
<1> QED
  BY <1>2, <1>3, ZenonT(60)

Below(T, n) == {p \in T : p < n}

\* The slots the loop has passed.
LEMMA BelowStep ==
    ASSUME NEW S, NEW T, T \subseteq Slots
    PROVE  /\ Below(T, 0) = {} /\ Below(T, NPROC) = T
           /\ \A n \in 1 .. NPROC : n - 1 \notin T => Below(T, n) = Below(T, n - 1)
           /\ \A n \in 1 .. NPROC : n - 1 \in T =>
                 /\ S \cup Below(T, n) = (S \cup Below(T, n - 1)) \cup {n - 1}
                 /\ n - 1 \notin Below(T, n - 1)
<1>1. \A x \in T : x \in Nat /\ x < NPROC
  BY NPROCAssumption DEF Slots
<1>2. \A x \in T : \A n \in 1 .. NPROC : x < n <=> x < n - 1 \/ x = n - 1
  BY <1>1, NPROCAssumption
<1>3. Below(T, 0) = {} /\ Below(T, NPROC) = T
  BY <1>1 DEF Below
<1>4. ASSUME NEW n \in 1 .. NPROC, n - 1 \notin T PROVE Below(T, n) = Below(T, n - 1)
  BY <1>2, <1>4 DEF Below
<1>5. ASSUME NEW n \in 1 .. NPROC, n - 1 \in T
      PROVE  S \cup Below(T, n) = (S \cup Below(T, n - 1)) \cup {n - 1}
  BY <1>2, <1>5 DEF Below
<1>6. \A n \in 1 .. NPROC : n - 1 \notin Below(T, n - 1)
  BY NPROCAssumption DEF Below
<1> QED
  BY <1>3, <1>4, <1>5, <1>6

\* wakeup1 and kill enqueue every process of T, at its level, and only those.
LEMMA RequeueQueued ==
    ASSUME NEW r, NEW S, S \subseteq Slots, Queued(r, S), NEW T, T \subseteq Slots,
           \A p \in T : p \notin S, NEW u \in Slots, u \notin S, u \notin T
    PROVE  /\ Queued(Requeue(r, T), S \cup T)
           /\ Requeue(r, T).panic = r.panic /\ Requeue(r, T).aged = r.aged
<1>1. PICK g : Woken(g, r, T) /\ Requeue(r, T) = g[NPROC]
  BY RequeueIs, ZenonT(60)
<1> DEFINE Good(n) == /\ Queued(g[n], S \cup Below(T, n))
                      /\ g[n].panic = r.panic /\ g[n].aged = r.aged
           Bad == {n \in 0 .. NPROC : ~Good(n)}
<1>0. NPROC \in Nat
  BY NPROCAssumption
<1>2. ASSUME Bad # {} PROVE FALSE
  <2>1. PICK n \in Bad : \A y \in Bad : n <= y
    <3>1. Bad \subseteq Nat
      OBVIOUS
    <3> QED
      BY <1>2, <3>1, LeastNat, ZenonT(60)
  <2>2. n # 0
    <3>1. S \cup Below(T, 0) = S
      BY BelowStep, ZenonT(60)
    <3>2. Good(0)
      BY <1>1, <3>1, ZenonT(60) DEF Woken
    <3> QED
      BY <3>2
  <2>3. n \in 1 .. NPROC /\ n - 1 \in 0 .. NPROC /\ n - 1 \in Slots /\ ~(n <= n - 1) /\ ~Good(n)
    BY <1>0, <2>2 DEF Slots
  <2>4. Good(n - 1)
    BY <2>1, <2>3, ZenonT(60)
  <2>5. g[n] = One(g[n - 1], n - 1, T)
    BY <1>1, <2>3, ZenonT(60) DEF Woken
  <2>6. CASE n - 1 \notin T
    <3>1. Below(T, n) = Below(T, n - 1)
      BY <2>3, <2>6, BelowStep, ZenonT(60)
    <3>2. g[n] = g[n - 1]
      BY <2>5, <2>6, ZenonT(60) DEF One
    <3> QED
      BY <2>3, <2>4, <3>1, <3>2, ZenonT(60)
  <2>7. CASE n - 1 \in T
    <3>1. S \cup Below(T, n) = (S \cup Below(T, n - 1)) \cup {n - 1} /\ n - 1 \notin Below(T, n - 1)
      <4>1. \A k \in 1 .. NPROC : k - 1 \in T =>
                /\ S \cup Below(T, k) = (S \cup Below(T, k - 1)) \cup {k - 1}
                /\ k - 1 \notin Below(T, k - 1)
        BY BelowStep
      <4> QED
        BY <2>3, <2>7, <4>1, ZenonT(60)
    <3>2. PICK m \in Slots : m = n - 1
      BY <2>3, ZenonT(60)
    <3>3. PICK w : w = g[n - 1]
      OBVIOUS
    <3>4. PICK D : D = S \cup Below(T, n - 1)
      BY ZenonT(60)
    <3>5. D \subseteq Slots /\ m \notin D /\ u \notin D /\ u # m
      BY <2>7, <3>1, <3>2, <3>4, ZenonT(60) DEF Below
    <3>6. Queued(w, D) /\ w.panic = r.panic /\ w.aged = r.aged
      BY <2>4, <3>3, <3>4, ZenonT(60)
    <3>7. PICK l \in Levels : l = w.level[m]
      BY <3>6, ZenonT(60) DEF Queued, Rings
    <3> HIDE DEF Good, Bad
    <3>8. /\ Queued(Enqueue(w, l, m), D \cup {m})
          /\ Enqueue(w, l, m).panic = r.panic /\ Enqueue(w, l, m).aged = r.aged
      <4>1. D \subseteq Slots /\ m \in Slots /\ l \in Levels /\ m \notin D /\ u \notin D /\ u # m
        BY <3>2, <3>5, <3>7, ZenonT(60)
      <4>2. /\ Queued(Enqueue(w, l, m), D \cup {m})
            /\ Enqueue(w, l, m).panic = w.panic /\ Enqueue(w, l, m).aged = w.aged
        BY <3>6, <4>1, EnqueueQueued, ZenonT(60)
      <4> QED
        BY <3>6, <4>2, ZenonT(60)
    <3>9. g[n] = Enqueue(w, l, m)
      BY <2>5, <2>7, <3>2, <3>3, <3>7, ZenonT(60) DEF One
    <3>10. Good(n)
      BY <3>1, <3>2, <3>4, <3>8, <3>9, ZenonT(60) DEF Good
    <3> QED
      BY <2>3, <3>10, ZenonT(60)
  <2> QED
    BY <2>6, <2>7, ZenonT(60)
<1>3. S \cup Below(T, NPROC) = S \cup T
  BY BelowStep, ZenonT(60)
<1>4. NPROC \in 0 .. NPROC
  BY <1>0
<1>5. Good(NPROC)
  BY <1>2, <1>4, ZenonT(60)
<1> QED
  BY <1>1, <1>3, <1>5, ZenonT(60)

-----------------------------------------------------------------------------
(* Ageing *)

\* Ageing has moved a process.
Marked(r) == "aged" \in DOMAIN r /\ r.aged = TRUE

\* s comes from r by a pass that has moved no process, or that says so.
Passed(r, s) == s = r \/ Marked(s)

\* enqueue() and dequeue() keep the mark.
LEMMA MarkKept ==
    ASSUME NEW r, NEW q, NEW p, "aged" \in DOMAIN r
    PROVE  /\ "aged" \in DOMAIN Enqueue(r, q, p) /\ "aged" \in DOMAIN Dequeue(r, q)
           /\ Marked(r) => Marked(Enqueue(r, q, p)) /\ Marked(Dequeue(r, q))
<1>1. "aged" \in DOMAIN Enqueue(r, q, p) /\ Enqueue(r, q, p).aged = r.aged
  BY DEF Enqueue
<1>2. "aged" \in DOMAIN Dequeue(r, q) /\ Dequeue(r, q).aged = r.aged
  BY DEF Dequeue
<1> QED
  BY <1>1, <1>2, ZenonT(60) DEF Marked

Turn(w, q, waited, k) == CHOOSE v \in {Visit(x, q, waited, k) : x \in {w}} : TRUE

\* A turn of the loop over a ring leaves everything as it is or marks the rings.
LEMMA TurnPasses ==
    ASSUME NEW w, NEW q, NEW waited, NEW k, "aged" \in DOMAIN w.r
    PROVE  Passed(w.r, Turn(w, q, waited, k).r)
<1>1. Turn(w, q, waited, k) = Visit(w, q, waited, k)
  BY DEF Turn
<1> DEFINE p == w.r.ring[q][k - w.gone]
           e == Enqueue(Dequeue(w.r, q), w.r.level[p] - 1, p)
<1>2. "aged" \in DOMAIN e
  BY MarkKept, ZenonT(60)
<1>3. Visit(w, q, waited, k) = w \/ Visit(w, q, waited, k) = [r |-> [e EXCEPT !.aged = TRUE], gone |-> w.gone + 1]
  BY ZenonT(60) DEF Visit
<1> HIDE DEF e
<1>4. Marked([e EXCEPT !.aged = TRUE])
  BY <1>2 DEF Marked
<1>5. CASE Visit(w, q, waited, k) = w
  BY <1>1, <1>5, ZenonT(60) DEF Passed
<1>6. CASE Visit(w, q, waited, k) = [r |-> [e EXCEPT !.aged = TRUE], gone |-> w.gone + 1]
  <2>1. Turn(w, q, waited, k).r = [e EXCEPT !.aged = TRUE]
    BY <1>1, <1>6
  <2> QED
    BY <1>4, <2>1, ZenonT(60) DEF Passed
<1> QED
  BY <1>3, <1>5, <1>6, ZenonT(60)

\* g[k] is the state of the loop over ring q after k entries.
Walk(g, r, q, waited, n) ==
    g = [i \in 0 .. n |-> IF i = 0 THEN [r |-> r, gone |-> 0] ELSE Turn(g[i - 1], q, waited, i)]

\* The loop over one ring computes something.
LEMMA WalkExists ==
    ASSUME NEW r, NEW q, NEW waited, NEW n \in Nat
    PROVE  \E g : Walk(g, r, q, waited, n)
<1> DEFINE Loop(m) == \E g : g = [i \in 0 .. m |-> IF i = 0 THEN [r |-> r, gone |-> 0] ELSE Turn(g[i - 1], q, waited, i)]
           Bad == {m \in Nat : ~Loop(m)}
<1>1. ASSUME Bad # {} PROVE FALSE
  <2>1. PICK m \in Bad : \A y \in Bad : m <= y
    BY <1>1, LeastNat, ZenonT(60)
  <2>2. CASE m = 0
    <3> DEFINE g == [i \in 0 .. 0 |-> [r |-> r, gone |-> 0]]
    <3>1. g = [i \in 0 .. 0 |-> IF i = 0 THEN [r |-> r, gone |-> 0] ELSE Turn(g[i - 1], q, waited, i)]
      OBVIOUS
    <3>2. Loop(0)
      BY <3>1, ZenonT(60)
    <3> QED
      BY <2>2, <3>2
  <2>3. CASE m # 0
    <3>1. m - 1 \in Nat /\ ~(m <= m - 1)
      BY <2>3
    <3>2. Loop(m - 1)
      BY <2>1, <3>1
    <3>3. PICK g : g = [i \in 0 .. m - 1 |-> IF i = 0 THEN [r |-> r, gone |-> 0] ELSE Turn(g[i - 1], q, waited, i)]
      BY <3>2
    <3> DEFINE h == [i \in 0 .. m |-> IF i = m THEN Turn(g[m - 1], q, waited, m) ELSE g[i]]
    <3>4. ASSUME NEW i \in 0 .. m PROVE h[i] = IF i = 0 THEN [r |-> r, gone |-> 0] ELSE Turn(h[i - 1], q, waited, i)
      <4>1. CASE i = m
        <5>1. h[m - 1] = g[m - 1]
          BY <3>1
        <5>2. h[m] = Turn(g[m - 1], q, waited, m)
          OBVIOUS
        <5> HIDE DEF h
        <5> QED
          BY <2>3, <4>1, <5>1, <5>2, ZenonT(60)
      <4>2. CASE i # m
        <5>1. i \in 0 .. m - 1
          BY <4>2
        <5>2. h[i] = g[i] /\ (i # 0 => h[i - 1] = g[i - 1])
          BY <4>2, <5>1
        <5>3. g[i] = IF i = 0 THEN [r |-> r, gone |-> 0] ELSE Turn(g[i - 1], q, waited, i)
          BY <3>3, <5>1
        <5> QED
          BY <5>2, <5>3, ZenonT(60)
      <4> QED
        BY <4>1, <4>2, ZenonT(60)
    <3>5. h = [i \in 0 .. m |-> h[i]]
      OBVIOUS
    <3> HIDE DEF h
    <3>6. h = [i \in 0 .. m |-> IF i = 0 THEN [r |-> r, gone |-> 0] ELSE Turn(h[i - 1], q, waited, i)]
      BY <3>4, <3>5, ZenonT(60)
    <3> QED
      BY <2>1, <3>6
  <2> QED
    BY <2>2, <2>3
<1>2. Loop(n)
  BY <1>1, ZenonT(60)
<1> QED
  BY <1>2, ZenonT(60) DEF Walk

\* The loop over one ring leaves everything as it is or marks the rings.
LEMMA AgeLevelPasses ==
    ASSUME NEW r, NEW q, NEW waited, "aged" \in DOMAIN r
    PROVE  Passed(r, AgeLevel(r, q, waited))
<1> DEFINE walk == CHOOSE g : g = [i \in 0 .. MaxVisits |-> IF i = 0 THEN [r |-> r, gone |-> 0] ELSE Turn(g[i - 1], q, waited, i)]
<1>0. MaxVisits \in Nat
  BY NPROCAssumption, SliceAssumption DEF MaxVisits
<1>1. walk = [i \in 0 .. MaxVisits |-> IF i = 0 THEN [r |-> r, gone |-> 0] ELSE Turn(walk[i - 1], q, waited, i)]
  <2>1. \E g : Walk(g, r, q, waited, MaxVisits)
    BY <1>0, WalkExists, ZenonT(60)
  <2> QED
    BY <2>1, ZenonT(60) DEF Walk
<1>2. AgeLevel(r, q, waited) = walk[MaxVisits].r
  BY ZenonT(60) DEF AgeLevel, Turn
<1> HIDE DEF walk
<1>3. walk[0].r = r
  BY <1>0, <1>1
<1>4. \A i \in 1 .. MaxVisits : walk[i] = Turn(walk[i - 1], q, waited, i)
  BY <1>0, <1>1
<1> DEFINE Good(n) == Passed(r, walk[n].r)
           Bad == {n \in 0 .. MaxVisits : ~Good(n)}
<1>5. ASSUME Bad # {} PROVE FALSE
  <2>1. PICK n \in Bad : \A y \in Bad : n <= y
    <3>1. Bad \subseteq Nat
      OBVIOUS
    <3> QED
      BY <1>5, <3>1, LeastNat, ZenonT(60)
  <2>2. n # 0
    BY <1>3, ZenonT(60) DEF Passed
  <2>3. n \in 1 .. MaxVisits /\ n - 1 \in 0 .. MaxVisits /\ ~(n <= n - 1)
    BY <1>0, <2>2
  <2>4. Good(n - 1) /\ ~Good(n)
    BY <2>1, <2>3, ZenonT(60)
  <2>5. PICK w : w = walk[n - 1]
    OBVIOUS
  <2>6. "aged" \in DOMAIN w.r /\ Passed(r, w.r)
    BY <2>4, <2>5, ZenonT(60) DEF Passed, Marked
  <2>7. walk[n] = Turn(w, q, waited, n)
    BY <1>4, <2>3, <2>5, ZenonT(60)
  <2>8. Passed(w.r, walk[n].r)
    BY <2>6, <2>7, TurnPasses, ZenonT(60)
  <2> QED
    BY <2>4, <2>6, <2>8, ZenonT(60) DEF Passed
<1>6. MaxVisits \in 0 .. MaxVisits
  BY <1>0
<1> QED
  BY <1>2, <1>5, <1>6, ZenonT(60)

\* Some function is the ageing pass over the levels up to n.
PassTo(r, waited, n) ==
    \E g : g = [i \in 0 .. n |-> IF i = 0 THEN r ELSE AgeLevel(g[i - 1], i, waited)]

\* The loop over the levels computes something.
LEMMA PassExists == ASSUME NEW r, NEW waited, NEW n \in Nat PROVE PassTo(r, waited, n)
<1> USE DEF PassTo
<1> DEFINE Loop(m) == \E g : g = [i \in 0 .. m |-> IF i = 0 THEN r ELSE AgeLevel(g[i - 1], i, waited)]
           Bad == {m \in Nat : ~Loop(m)}
<1>1. ASSUME Bad # {} PROVE FALSE
  <2>1. PICK m \in Bad : \A y \in Bad : m <= y
    BY <1>1, LeastNat, ZenonT(60)
  <2>2. CASE m = 0
    <3> DEFINE g == [i \in 0 .. 0 |-> r]
    <3>1. g = [i \in 0 .. 0 |-> IF i = 0 THEN r ELSE AgeLevel(g[i - 1], i, waited)]
      OBVIOUS
    <3>2. Loop(0)
      BY <3>1, ZenonT(60)
    <3> QED
      BY <2>2, <3>2
  <2>3. CASE m # 0
    <3>1. m - 1 \in Nat /\ ~(m <= m - 1)
      BY <2>3
    <3>2. Loop(m - 1)
      BY <2>1, <3>1, ZenonT(60)
    <3>3. PICK g : g = [i \in 0 .. m - 1 |-> IF i = 0 THEN r ELSE AgeLevel(g[i - 1], i, waited)]
      BY <3>2
    <3> DEFINE h == [i \in 0 .. m |-> IF i = m THEN AgeLevel(g[m - 1], m, waited) ELSE g[i]]
    <3>4. ASSUME NEW i \in 0 .. m PROVE h[i] = IF i = 0 THEN r ELSE AgeLevel(h[i - 1], i, waited)
      <4>1. CASE i = m
        <5>1. h[m - 1] = g[m - 1]
          BY <3>1
        <5> QED
          BY <2>3, <4>1, <5>1
      <4>2. CASE i # m
        <5>1. i \in 0 .. m - 1
          BY <4>2
        <5>2. h[i] = g[i] /\ (i # 0 => h[i - 1] = g[i - 1])
          BY <4>2, <5>1
        <5>3. g[i] = IF i = 0 THEN r ELSE AgeLevel(g[i - 1], i, waited)
          BY <3>3, <5>1
        <5> QED
          BY <5>2, <5>3, ZenonT(60)
      <4> QED
        BY <4>1, <4>2
    <3>5. h = [i \in 0 .. m |-> h[i]]
      OBVIOUS
    <3> HIDE DEF h
    <3>6. h = [i \in 0 .. m |-> IF i = 0 THEN r ELSE AgeLevel(h[i - 1], i, waited)]
      BY <3>4, <3>5, ZenonT(60)
    <3> QED
      BY <2>1, <3>6
  <2> QED
    BY <2>2, <2>3
<1> QED
  BY <1>1, ZenonT(60)

\* The ageing pass leaves everything as it is or marks the rings.
LEMMA AgeAllPasses ==
    ASSUME NEW r, NEW waited, "aged" \in DOMAIN r
    PROVE  Passed(r, AgeAll(r, waited))
<1> DEFINE pass == CHOOSE g : g = [i \in 0 .. Lowest |-> IF i = 0 THEN r ELSE AgeLevel(g[i - 1], i, waited)]
<1>0. Lowest \in Nat /\ Levels = 0 .. Lowest
  BY SliceAssumption DEF Lowest, Levels
<1>1. pass = [i \in 0 .. Lowest |-> IF i = 0 THEN r ELSE AgeLevel(pass[i - 1], i, waited)]
  <2>1. PassTo(r, waited, Lowest)
    BY <1>0, PassExists, ZenonT(60)
  <2> QED
    BY <2>1, ZenonT(60) DEF PassTo
<1>2. AgeAll(r, waited) = pass[Lowest]
  BY <1>0, ZenonT(60) DEF AgeAll
<1> HIDE DEF pass
<1>3. pass[0] = r
  BY <1>0, <1>1
<1>4. \A i \in 1 .. Lowest : pass[i] = AgeLevel(pass[i - 1], i, waited)
  BY <1>0, <1>1
<1> DEFINE Good(n) == Passed(r, pass[n])
           Bad == {n \in 0 .. Lowest : ~Good(n)}
<1>5. ASSUME Bad # {} PROVE FALSE
  <2>1. PICK n \in Bad : \A y \in Bad : n <= y
    <3>1. Bad \subseteq Nat
      BY <1>0
    <3> QED
      BY <1>5, <3>1, LeastNat, ZenonT(60)
  <2>2. n # 0
    BY <1>3, ZenonT(60) DEF Passed
  <2>3. n \in 1 .. Lowest /\ n - 1 \in 0 .. Lowest /\ ~(n <= n - 1)
    BY <1>0, <2>2
  <2>4. Good(n - 1) /\ ~Good(n)
    BY <2>1, <2>3, ZenonT(60)
  <2>5. PICK w : w = pass[n - 1]
    OBVIOUS
  <2>6. "aged" \in DOMAIN w /\ Passed(r, w)
    BY <2>4, <2>5, ZenonT(60) DEF Passed, Marked
  <2>7. pass[n] = AgeLevel(w, n, waited)
    BY <1>4, <2>3, <2>5, ZenonT(60)
  <2>8. Passed(w, pass[n])
    BY <2>6, <2>7, AgeLevelPasses, ZenonT(60)
  <2> QED
    BY <2>4, <2>6, <2>8, ZenonT(60) DEF Passed
<1>6. Lowest \in 0 .. Lowest
  BY <1>0
<1> QED
  BY <1>2, <1>5, <1>6, ZenonT(60)

\* wakeup1 keeps the mark.
LEMMA RequeueMarked == ASSUME NEW r, NEW T, Marked(r) PROVE Marked(Requeue(r, T))
<1>1. PICK g : Woken(g, r, T) /\ Requeue(r, T) = g[NPROC]
  BY RequeueIs, ZenonT(60)
<1> DEFINE Bad == {n \in 0 .. NPROC : ~Marked(g[n])}
<1>0. NPROC \in Nat
  BY NPROCAssumption
<1>2. ASSUME Bad # {} PROVE FALSE
  <2>1. PICK n \in Bad : \A y \in Bad : n <= y
    <3>1. Bad \subseteq Nat
      OBVIOUS
    <3> QED
      BY <1>2, <3>1, LeastNat, ZenonT(60)
  <2>2. n # 0
    BY <1>1, ZenonT(60) DEF Woken
  <2>3. n \in 1 .. NPROC /\ n - 1 \in 0 .. NPROC /\ ~(n <= n - 1)
    BY <1>0, <2>2
  <2>4. Marked(g[n - 1]) /\ ~Marked(g[n])
    BY <2>1, <2>3, ZenonT(60)
  <2>5. g[n] = One(g[n - 1], n - 1, T)
    BY <1>1, <2>3, ZenonT(60) DEF Woken
  <2>6. Marked(Enqueue(g[n - 1], g[n - 1].level[n - 1], n - 1))
    BY <2>4, MarkKept, ZenonT(60) DEF Marked
  <2> QED
    BY <2>4, <2>5, <2>6, ZenonT(60) DEF One
<1>3. NPROC \in 0 .. NPROC
  BY <1>0
<1> QED
  BY <1>1, <1>2, <1>3, ZenonT(60)

-----------------------------------------------------------------------------
(* The inductive invariant of MLFQ *)

\* As long as ageing has moved nothing, the rings hold the RUNNABLE processes
\* and the scheduler has not panicked.
Held(r, S) == r.aged = FALSE /\ r.panic = "none" /\ Queued(r, S)

Fresh == Held(rq, Ready)

MlfqInv == Marked(rq) \/ Fresh

\* Once ageing has moved a process, the mark stays.
LEMMA MarkStays == ASSUME Marked(rq), MlfqNext PROVE Marked(rq')
<1>a. "aged" \in DOMAIN rq
  BY DEF Marked
<1>1. ASSUME NEW c, NEW r, NEW elapsed, Marked(r), LoopEnd(c, r, elapsed) PROVE Marked(rq')
  <2>1. PICK waited : waited = idle'
    OBVIOUS
  <2>2. rq' = AgeAll(r, waited) \/ rq' = r
    BY <1>1, <2>1, ZenonT(60) DEF LoopEnd
  <2>3. Marked(AgeAll(r, waited))
    BY <1>1, AgeAllPasses, ZenonT(60) DEF Passed, Marked
  <2> QED
    BY <1>1, <2>2, <2>3, ZenonT(60)
<1>2. ASSUME NEW c \in Cpus, NEW p \in Slots, Pick(c, p) PROVE Marked(rq')
  BY <1>2, <1>a, MarkKept, ZenonT(60) DEF Pick
<1>3. ASSUME NEW c \in Cpus, NEW p \in Slots, PickPanic(c, p) PROVE Marked(rq')
  BY <1>3, ZenonT(60) DEF PickPanic, Marked
<1>4. ASSUME NEW c \in Cpus, NEW p \in Slots, TimerExpire(c, p) PROVE Marked(rq')
  <2>1. Marked(Enqueue(rq, Demoted(p), p))
    BY <1>a, MarkKept, ZenonT(60)
  <2> QED
    BY <1>1, <1>4, <2>1, ZenonT(60) DEF TimerExpire
<1>5. ASSUME NEW c \in Cpus, NEW p \in Slots, MlfqFork(c, p) PROVE Marked(rq')
  BY <1>5 DEF MlfqFork, Marked
<1>6. ASSUME NEW c \in Cpus, NEW p \in Slots, MlfqForkDone(c, p) PROVE Marked(rq')
  BY <1>6, <1>a, MarkKept, ZenonT(60) DEF MlfqForkDone, Queue
<1>7. ASSUME NEW c \in Cpus, NEW p \in Slots, MlfqSleep(c, p) PROVE Marked(rq')
  BY <1>1, <1>7, ZenonT(60) DEF MlfqSleep, Leave
<1>8. ASSUME NEW c \in Cpus, NEW p \in Slots, MlfqExit(c, p) PROVE Marked(rq')
  <2>1. Marked(ExitQueue(p))
    BY RequeueMarked, ZenonT(60) DEF ExitQueue
  <2> QED
    BY <1>1, <1>8, <2>1, ZenonT(60) DEF MlfqExit, Leave
<1>9. ASSUME NEW c \in Cpus, NEW p \in Slots, NEW k \in KillPids, MlfqKill(c, p, k) PROVE Marked(rq')
  BY <1>9, RequeueMarked, ZenonT(60) DEF MlfqKill, Queue
<1>10. ASSUME NEW ch \in Chans, MlfqWakeup(ch) PROVE Marked(rq')
  BY <1>10, RequeueMarked, ZenonT(60) DEF MlfqWakeup, Queue
<1>11. ASSUME NEW c \in Cpus, NEW p \in Slots, TimerSlice(c, p) \/ MlfqOther(c, p) PROVE rq' = rq
  BY <1>11, ZenonT(60) DEF TimerSlice, MlfqOther, schedVars
<1>12. ASSUME NEW c \in Cpus, IdleLoop(c) PROVE Marked(rq')
  BY <1>1, <1>12, ZenonT(60) DEF IdleLoop
<1>13. ASSUME NEW c \in Cpus, TimerIdle(c) PROVE rq' = rq
  BY <1>13, ZenonT(60) DEF TimerIdle
<1>14. ASSUME MlfqHalt PROVE rq' = rq
  BY <1>14, ZenonT(60) DEF MlfqHalt, mvars, schedVars
<1> QED
  BY <1>2, <1>3, <1>4, <1>5, <1>6, <1>7, <1>8, <1>9, <1>10, <1>11, <1>12, <1>13, <1>14, ZenonT(60)
  DEF MlfqNext, MlfqStep

\* The levels are numbers.
LEMMA LevelFacts == Levels \subseteq Nat /\ Lowest \in Levels /\ 0 \in Levels
  BY SliceAssumption DEF Levels, Lowest

\* scheduler() finds the process at the head of the best ring that is not empty.
LEMMA ChoiceIs ==
    ASSUME NEW r, Choice(r) \in Slots
    PROVE  \E q \in Levels : /\ r.ring[q] # <<>> /\ Choice(r) = Head(r.ring[q])
                             /\ \A x \in Levels : r.ring[x] # <<>> => q <= x
<1>1. Busy(r) # {}
  BY SlotFacts DEF Choice
<1>2. Busy(r) \subseteq Nat
  BY LevelFacts, ZenonT(60) DEF Busy
<1>3. Min(Busy(r)) \in Busy(r) /\ \A y \in Busy(r) : Min(Busy(r)) <= y
  BY <1>1, <1>2, MinInSet, ZenonT(60)
<1>4. Choice(r) = Head(r.ring[Min(Busy(r))])
  BY <1>1, ZenonT(60) DEF Choice
<1> QED
  BY <1>3, <1>4, ZenonT(60) DEF Busy

\* What the steps of the process table do to the set of RUNNABLE processes.
LEMMA ReadyLeaves ==
    ASSUME ProcTypeOK, NEW c \in Cpus, NEW p \in Slots, Dispatch(c, p)
    PROVE  Ready' = Ready \ {p}
  BY DEF Ready, Dispatch, ProcTypeOK

LEMMA ReadyJoins ==
    ASSUME ProcIInv, NEW c \in Cpus, NEW p \in Slots
    PROVE  /\ Yield(c, p) => Ready' = Ready \cup {p} /\ p \notin Ready
           /\ ForkDone(c, p) => /\ child[p] \in Slots
                                /\ Ready' = Ready \cup {child[p]} /\ child[p] \notin Ready
<1>1. ASSUME Yield(c, p) PROVE Ready' = Ready \cup {p} /\ p \notin Ready
  <2>1. state[p] = "RUNNING" /\ state \in [Slots -> States]
    BY <1>1 DEF Yield, On, ProcIInv, OneCpuPerProcess, ProcTypeOK
  <2> QED
    BY <1>1, <2>1 DEF Ready, Yield
<1>2. ASSUME ForkDone(c, p)
      PROVE  child[p] \in Slots /\ Ready' = Ready \cup {child[p]} /\ child[p] \notin Ready
  <2>1. /\ child[p] \in Slots /\ state[child[p]] = "EMBRYO" /\ state \in [Slots -> States]
    BY <1>2 DEF ForkDone, ProcIInv, ForkInv, EmbryoOwned, ProcTypeOK
  <2>2. PICK q \in Slots : q = child[p]
    BY <2>1
  <2> QED
    BY <1>2, <2>1, <2>2 DEF Ready, ForkDone
<1> QED
  BY <1>1, <1>2

\* wakeup, kill and exit make sleeping processes RUNNABLE.
LEMMA ReadyWakes ==
    ASSUME ProcIInv
    PROVE  /\ \A ch : Wakeup(ch) => Ready' = Ready \cup SleepersOn(ch)
           /\ \A c \in Cpus, p \in Slots : \A k : Kill(c, p, k) =>
                 Ready' = Ready \cup KillWakes(k) /\ KillWakes(k) \subseteq Slots
           /\ \A c \in Cpus, p \in Slots : ExitDone(c, p) =>
                 Ready' = Ready \cup ExitWakes(p)
<1>1. ASSUME NEW ch, Wakeup(ch) PROVE Ready' = Ready \cup SleepersOn(ch)
  BY <1>1 DEF Wakeup, Ready, MakeRunnable, SleepersOn
<1>2. ASSUME NEW c \in Cpus, NEW p \in Slots, NEW k, Kill(c, p, k)
      PROVE  Ready' = Ready \cup KillWakes(k) /\ KillWakes(k) \subseteq Slots
  <2>1. KillWakes(k) \subseteq Slots
    BY <1>2, FirstMatching DEF Kill, KillWakes
  <2> QED
    BY <1>2, <2>1 DEF Kill, Ready, MakeRunnable
<1>3. ASSUME NEW c \in Cpus, NEW p \in Slots, ExitDone(c, p)
      PROVE  Ready' = Ready \cup ExitWakes(p)
  <2>1. state[p] = "RUNNING"
    BY <1>3 DEF ExitDone, On, ProcIInv, OneCpuPerProcess
  <2>2. ExitWakes(p) \subseteq Slots /\ \A q \in ExitWakes(p) : state[q] = "SLEEPING"
    BY DEF ExitWakes, SleepersOn
  <2>3. \A q \in Slots : state'[q] = IF q = p THEN "ZOMBIE" ELSE IF q \in ExitWakes(p) THEN "RUNNABLE" ELSE state[q]
    BY <1>3 DEF ExitDone, MakeRunnable
  <2> HIDE DEF ExitWakes
  <2> QED
    BY <2>1, <2>2, <2>3 DEF Ready
<1> QED
  BY <1>1, <1>2, <1>3

\* The other steps make nothing RUNNABLE.
LEMMA ReadyStays ==
    ASSUME ProcIInv, NEW c \in Cpus, NEW p \in Slots,
           \/ ForkAlloc(c, p) \/ ForkFail(c, p) \/ WaitSleep(c, p) \/ IoSleep(c, p)
           \/ DiskSleep(c, p) \/ WaitReap(c, p)
           \/ Syscall(c, p) \/ Return(c, p) \/ Fault(c, p) \/ ExitBegin(c, p)
           \/ WaitNone(c, p) \/ SleepCheck(c, p)
    PROVE  Ready' = Ready
<1>0. state \in [Slots -> States]
  BY DEF ProcIInv, ProcTypeOK
<1>1. CASE ForkAlloc(c, p)
  <2>1. PICK n \in Slots : n = Min(Unused) /\ state[n] = "UNUSED"
    BY <1>1, FirstUnused DEF ForkAlloc
  <2>2. state' = [state EXCEPT ![n] = "EMBRYO"]
    BY <1>1, <2>1 DEF ForkAlloc, AllocProc
  <2> QED
    BY <1>0, <2>1, <2>2 DEF Ready
<1>2. CASE ForkFail(c, p)
  <2>1. PICK n \in Slots : n = child[p] /\ state[n] = "EMBRYO"
    BY <1>2 DEF ForkFail, ProcIInv, ForkInv, EmbryoOwned, ProcTypeOK
  <2>2. state' = [state EXCEPT ![n] = "UNUSED"]
    BY <1>2, <2>1 DEF ForkFail
  <2>3. ASSUME NEW s \in Slots PROVE state'[s] = "RUNNABLE" <=> state[s] = "RUNNABLE"
    <3>1. state'[n] = "UNUSED" /\ (s # n => state'[s] = state[s])
      BY <1>0, <2>2
    <3> QED
      BY <2>1, <3>1, ZenonT(60)
  <2> QED
    BY <2>3, ZenonT(60) DEF Ready
<1>3. CASE WaitSleep(c, p) \/ IoSleep(c, p) \/ DiskSleep(c, p)
  <2>1. state' = [state EXCEPT ![p] = "SLEEPING"] /\ state[p] = "RUNNING"
    BY <1>3, ZenonT(60) DEF WaitSleep, IoSleep, DiskSleep, SleepOn, InWait, On, ProcIInv, OneCpuPerProcess
  <2> QED
    BY <1>0, <2>1 DEF Ready
<1>4. CASE WaitReap(c, p)
  <2>1. PICK n \in Slots : n = Min(Zombies(p)) /\ state[n] = "ZOMBIE"
    BY <1>4, FirstZombie DEF WaitReap
  <2>2. state' = [state EXCEPT ![n] = "UNUSED"]
    BY <1>4, <2>1 DEF WaitReap
  <2> QED
    BY <1>0, <2>1, <2>2 DEF Ready
<1>5. CASE Syscall(c, p) \/ Return(c, p) \/ Fault(c, p) \/ ExitBegin(c, p) \/ WaitNone(c, p) \/ SleepCheck(c, p)
  <2>1. state' = state
    BY <1>5, ZenonT(60) DEF Syscall, Return, Fault, ExitBegin, WaitNone, SleepCheck, tableVars
  <2> QED
    BY <2>1 DEF Ready
<1> QED
  BY <1>1, <1>2, <1>3, <1>4, <1>5, ZenonT(60)

\* The end of scheduler()'s loop leaves the rings as they are or marks them.
LEMMA LoopEndKeeps ==
    ASSUME NEW c, NEW r, NEW elapsed, NEW S, Held(r, S), LoopEnd(c, r, elapsed)
    PROVE  Marked(rq') \/ Held(rq', S)
<1>1. PICK waited : waited = idle'
  OBVIOUS
<1>2. rq' = AgeAll(r, waited) \/ rq' = r
  BY <1>1, ZenonT(60) DEF LoopEnd
<1>3. "aged" \in DOMAIN r
  BY ZenonT(60) DEF Held, Queued, Rings
<1>4. AgeAll(r, waited) = r \/ Marked(AgeAll(r, waited))
  BY <1>3, AgeAllPasses, ZenonT(60) DEF Passed
<1> QED
  BY <1>2, <1>4, ZenonT(60)

\* allocproc() resets p->queue of a slot that is in no ring.
LEMMA LevelReset ==
    ASSUME NEW r, NEW S, S \subseteq Slots, Held(r, S), NEW n \in Slots, n \notin S
    PROVE  Held([r EXCEPT !.level[n] = 0], S)
<1> DEFINE e == [r EXCEPT !.level[n] = 0]
<1>1. r \in Rings /\ r.level \in [Slots -> Levels] /\ r.ring \in [Levels -> Seq(Slots)]
  BY ZenonT(60) DEF Held, Queued, Rings
<1>2. /\ e \in Rings /\ e.ring = r.ring /\ e.level = [r.level EXCEPT ![n] = 0]
      /\ e.panic = r.panic /\ e.aged = r.aged
  BY <1>1, LevelFacts, ZenonT(60) DEF Rings
<1>3. \A p \in Slots : p # n => e.level[p] = r.level[p]
  BY <1>1, <1>2
<1> HIDE DEF e
<1>4. \A q \in Levels : \A i \in 1 .. Len(e.ring[q]) :
          e.ring[q][i] \in S /\ e.level[e.ring[q][i]] = q
  <2> SUFFICES ASSUME NEW q \in Levels, NEW i \in 1 .. Len(r.ring[q])
               PROVE  r.ring[q][i] \in S /\ e.level[r.ring[q][i]] = q
    BY <1>2
  <2>1. r.ring[q][i] \in S /\ r.level[r.ring[q][i]] = q /\ r.ring[q][i] \in Slots
    BY <1>1 DEF Held, Queued
  <2> QED
    BY <1>3, <2>1, ZenonT(60)
<1>5. \A q \in Levels : \A i, j \in 1 .. Len(e.ring[q]) : e.ring[q][i] = e.ring[q][j] => i = j
  BY <1>2 DEF Held, Queued
<1>6. ASSUME NEW p \in S PROVE \E i \in 1 .. Len(e.ring[e.level[p]]) : e.ring[e.level[p]][i] = p
  <2>1. e.level[p] = r.level[p] /\ e.ring = r.ring
    BY <1>2, <1>3, <1>6
  <2>2. \E i \in 1 .. Len(r.ring[r.level[p]]) : r.ring[r.level[p]][i] = p
    BY DEF Held, Queued
  <2> QED
    BY <2>1, <2>2
<1>7. Queued(e, S)
  BY <1>2, <1>4, <1>5, <1>6 DEF Queued
<1> QED
  BY <1>2, <1>7 DEF e, Held

\* Every step keeps the RUNNABLE processes in the rings, each once, or is the
\* first in which ageing moves a process.
LEMMA FreshStays ==
    ASSUME ProcIInv, Fresh, MlfqNext, Unused' # {}
    PROVE  Marked(rq') \/ Held(rq', Ready')
<1>0. /\ Held(rq, Ready) /\ Queued(rq, Ready) /\ rq \in Rings /\ rq.level \in [Slots -> Levels]
      /\ Ready \subseteq Slots
  BY ZenonT(60) DEF Fresh, Held, Queued, Rings, Ready
<1>u. PICK u \in Slots : u \notin Ready'
  BY DEF Unused, Ready
<1>1. ASSUME NEW c \in Cpus, NEW p \in Slots, p = Choice(rq)
      PROVE  /\ p \in Ready /\ Held(Dequeue(rq, rq.level[p]), Ready \ {p})
  <2>1. PICK q \in Levels : rq.ring[q] # <<>> /\ p = Head(rq.ring[q])
    BY <1>1, ChoiceIs, ZenonT(60)
  <2>2. /\ p \in Ready /\ rq.level[p] = q /\ Queued(Dequeue(rq, q), Ready \ {p})
        /\ Dequeue(rq, q).panic = rq.panic /\ Dequeue(rq, q).aged = rq.aged
    BY <1>0, <2>1, DequeueQueued, ZenonT(60)
  <2> QED
    BY <1>0, <2>2, ZenonT(60) DEF Held
<1>2. ASSUME NEW p \in Slots, NEW q \in Levels, p \notin Ready, Ready' = Ready \cup {p}
      PROVE  Held(Enqueue(rq, q, p), Ready')
  <2>1. u \notin Ready /\ u # p
    BY <1>u, <1>2, ZenonT(60)
  <2>2. /\ Queued(Enqueue(rq, q, p), Ready \cup {p})
        /\ Enqueue(rq, q, p).panic = rq.panic /\ Enqueue(rq, q, p).aged = rq.aged
    BY <1>0, <1>2, <2>1, EnqueueQueued, ZenonT(60)
  <2> QED
    BY <1>0, <1>2, <2>2, ZenonT(60) DEF Held
<1>3. ASSUME NEW r, NEW S, S \subseteq Slots, Held(r, S), NEW T, T \subseteq Slots,
             \A p \in T : p \notin S, u \notin S \cup T
      PROVE  Held(Requeue(r, T), S \cup T)
  <2>1. u \notin S /\ u \notin T
    BY <1>3, ZenonT(60)
  <2>2. Queued(r, S)
    BY <1>3, ZenonT(60) DEF Held
  <2>3. /\ Queued(Requeue(r, T), S \cup T)
        /\ Requeue(r, T).panic = r.panic /\ Requeue(r, T).aged = r.aged
    BY <1>3, <2>1, <2>2, RequeueQueued, ZenonT(60)
  <2> QED
    BY <1>3, <2>3, ZenonT(60) DEF Held
<1>4. ASSUME NEW T, T \subseteq Slots, \A p \in T : p \notin Ready, Ready' = Ready \cup T
      PROVE  Held(Requeue(rq, T), Ready')
  BY <1>0, <1>u, <1>3, <1>4, ZenonT(60)
<1>5. ASSUME NEW c \in Cpus, NEW p \in Slots, Pick(c, p) PROVE Held(rq', Ready')
  <2>1. Ready' = Ready \ {p}
    BY <1>5, ReadyLeaves, ZenonT(60) DEF Pick, ProcIInv
  <2> QED
    BY <1>1, <1>5, <2>1, ZenonT(60) DEF Pick
<1>6. ASSUME NEW c \in Cpus, NEW p \in Slots, PickPanic(c, p) PROVE FALSE
  BY <1>1, <1>6, ZenonT(60) DEF PickPanic, Ready
<1>7. ASSUME NEW c \in Cpus, NEW p \in Slots, TimerExpire(c, p) PROVE Marked(rq') \/ Held(rq', Ready')
  <2>1. Ready' = Ready \cup {p} /\ p \notin Ready
    BY <1>7, ReadyJoins, ZenonT(60) DEF TimerExpire
  <2>2. Demoted(p) \in Levels
    BY <1>0, SliceAssumption DEF Demoted, Levels, Lowest
  <2>3. Held(Enqueue(rq, Demoted(p), p), Ready')
    BY <1>2, <2>1, <2>2, ZenonT(60)
  <2>4. LoopEnd(c, Enqueue(rq, Demoted(p), p), Ticked(c, since))
    BY <1>7, ZenonT(60) DEF TimerExpire
  <2> QED
    BY <2>3, <2>4, LoopEndKeeps, ZenonT(60)
<1>8. ASSUME NEW c \in Cpus, NEW p \in Slots, MlfqFork(c, p) PROVE Held(rq', Ready')
  <2>1. PICK n \in Slots : n = Min(Unused) /\ state[n] = "UNUSED"
    BY <1>8, FirstUnused DEF MlfqFork, ForkAlloc
  <2>2. Ready' = Ready
    BY <1>8, ReadyStays, ZenonT(60) DEF MlfqFork
  <2>3. rq' = [rq EXCEPT !.level[n] = 0]
    BY <1>8, <2>1, ZenonT(60) DEF MlfqFork
  <2>4. n \notin Ready
    BY <2>1 DEF Ready
  <2>5. Held([rq EXCEPT !.level[n] = 0], Ready)
    BY <1>0, <2>4, LevelReset, ZenonT(60)
  <2> QED
    BY <2>2, <2>3, <2>5, ZenonT(60)
<1>9. ASSUME NEW c \in Cpus, NEW p \in Slots, MlfqForkDone(c, p) PROVE Held(rq', Ready')
  <2>1. child[p] \in Slots /\ Ready' = Ready \cup {child[p]} /\ child[p] \notin Ready
    BY <1>9, ReadyJoins, ZenonT(60) DEF MlfqForkDone
  <2>2. rq' = Enqueue(rq, 0, child[p])
    BY <1>9, ZenonT(60) DEF MlfqForkDone, Queue
  <2> QED
    BY <1>2, <2>1, <2>2, LevelFacts, ZenonT(60)
<1>10. ASSUME NEW c \in Cpus, NEW p \in Slots, MlfqSleep(c, p) PROVE Marked(rq') \/ Held(rq', Ready')
  <2>1. Ready' = Ready
    BY <1>10, ReadyStays, ZenonT(60) DEF MlfqSleep
  <2>2. LoopEnd(c, rq, since)
    BY <1>10, ZenonT(60) DEF MlfqSleep, Leave
  <2> QED
    BY <1>0, <2>1, <2>2, LoopEndKeeps, ZenonT(60)
<1>11. ASSUME NEW c \in Cpus, NEW p \in Slots, MlfqExit(c, p) PROVE Marked(rq') \/ Held(rq', Ready')
  <2>1. Ready' = Ready \cup ExitWakes(p)
    BY <1>11, ReadyWakes, ZenonT(60) DEF MlfqExit
  <2> DEFINE first == SleepersOn(parent[p])
             rest == ExitWakes(p) \ first
  <2>2. /\ first \subseteq Slots /\ \A q \in first : q \notin Ready
        /\ rest \subseteq Slots /\ \A q \in rest : q \notin Ready \cup first
    BY DEF ExitWakes, SleepersOn, Ready
  <2>3. Ready' = (Ready \cup first) \cup rest
    BY <2>1 DEF ExitWakes
  <2>4. ExitQueue(p) = Requeue(Requeue(rq, first), rest)
    BY ZenonT(60) DEF ExitQueue
  <2> HIDE DEF first, rest
  <2>5. u \notin Ready \cup first /\ u \notin (Ready \cup first) \cup rest /\ Ready \cup first \subseteq Slots
    BY <1>0, <1>u, <2>2, <2>3, ZenonT(60)
  <2>6. Held(Requeue(rq, first), Ready \cup first)
    BY <1>0, <1>3, <2>2, <2>5, ZenonT(60)
  <2>7. Held(Requeue(Requeue(rq, first), rest), (Ready \cup first) \cup rest)
    BY <1>3, <2>2, <2>5, <2>6, ZenonT(60)
  <2>8. LoopEnd(c, ExitQueue(p), since)
    BY <1>11, ZenonT(60) DEF MlfqExit, Leave
  <2> QED
    BY <2>3, <2>4, <2>7, <2>8, LoopEndKeeps, ZenonT(60)
<1>12. ASSUME NEW c \in Cpus, NEW p \in Slots, NEW k \in KillPids, MlfqKill(c, p, k) PROVE Held(rq', Ready')
  <2>1. Ready' = Ready \cup KillWakes(k) /\ KillWakes(k) \subseteq Slots
    BY <1>12, ReadyWakes, ZenonT(60) DEF MlfqKill
  <2>2. \A q \in KillWakes(k) : q \notin Ready
    BY DEF KillWakes, Ready
  <2> QED
    BY <1>4, <1>12, <2>1, <2>2, ZenonT(60) DEF MlfqKill, Queue
<1>13. ASSUME NEW ch \in Chans, MlfqWakeup(ch) PROVE Held(rq', Ready')
  <2>1. Ready' = Ready \cup SleepersOn(ch)
    BY <1>13, ReadyWakes, ZenonT(60) DEF MlfqWakeup
  <2>2. SleepersOn(ch) \subseteq Slots /\ \A q \in SleepersOn(ch) : q \notin Ready
    BY DEF SleepersOn, Ready
  <2> QED
    BY <1>4, <1>13, <2>1, <2>2, ZenonT(60) DEF MlfqWakeup, Queue
<1>14. ASSUME NEW c \in Cpus, NEW p \in Slots, MlfqOther(c, p) PROVE Held(rq', Ready')
  <2>1. Ready' = Ready
    BY <1>14, ReadyStays, ZenonT(60) DEF MlfqOther
  <2> QED
    BY <1>0, <1>14, <2>1, ZenonT(60) DEF MlfqOther, schedVars
<1>15. ASSUME state' = state, rq' = rq PROVE Held(rq', Ready')
  BY <1>0, <1>15, ZenonT(60) DEF Ready
<1>16. ASSUME NEW c \in Cpus, NEW p \in Slots, TimerSlice(c, p) PROVE state' = state /\ rq' = rq
  BY <1>16, ZenonT(60) DEF TimerSlice, vars
<1>17. ASSUME NEW c \in Cpus, TimerIdle(c) PROVE state' = state /\ rq' = rq
  BY <1>17, ZenonT(60) DEF TimerIdle, vars
<1>18. ASSUME NEW c \in Cpus, IdleLoop(c) PROVE Marked(rq') \/ Held(rq', Ready')
  <2>1. Ready' = Ready
    BY <1>18, ZenonT(60) DEF IdleLoop, vars, Ready
  <2> QED
    BY <1>0, <1>18, <2>1, LoopEndKeeps, ZenonT(60) DEF IdleLoop
<1>19. ASSUME MlfqHalt PROVE state' = state /\ rq' = rq
  BY <1>19, ZenonT(60) DEF MlfqHalt, mvars, vars, schedVars
<1>20. ASSUME NEW c \in Cpus, NEW p \in Slots, MlfqStep(c, p) PROVE Marked(rq') \/ Held(rq', Ready')
  BY <1>5, <1>6, <1>7, <1>8, <1>9, <1>10, <1>11, <1>12, <1>14, <1>15, <1>16, <1>20, ZenonT(60) DEF MlfqStep
<1> QED
  BY <1>13, <1>15, <1>17, <1>18, <1>19, <1>20, ZenonT(60) DEF MlfqNext

\* userinit() enqueues init, the only process there is, at level 0.
LEMMA InitFresh == MlfqInit => Fresh
<1> SUFFICES ASSUME MlfqInit PROVE Fresh
  OBVIOUS
<1>1. Ready = {Initproc}
  BY SlotFacts DEF MlfqInit, Init, Ready
<1>2. /\ rq.ring = [q \in Levels |-> IF q = 0 THEN <<Initproc>> ELSE <<>>]
      /\ rq.level = [p \in Slots |-> 0] /\ rq.panic = "none" /\ rq.aged = FALSE
  BY ZenonT(60) DEF MlfqInit
<1>3. rq \in Rings
  <2>1. rq.ring \in [Levels -> Seq(Slots)]
    <3>1. <<Initproc>> \in Seq(Slots) /\ <<>> \in Seq(Slots)
      BY SlotFacts
    <3> QED
      BY <1>2, <3>1, ZenonT(60)
  <2>2. rq.level \in [Slots -> Levels]
    BY <1>2, LevelFacts
  <2>3. PICK a, b : /\ a \in [Levels -> Seq(Slots)] /\ b \in [Slots -> Levels]
                    /\ rq = [ring |-> a, level |-> b, panic |-> "none", aged |-> FALSE]
    BY <1>2, <2>1, <2>2, ZenonT(60) DEF MlfqInit
  <2>4. "none" \in Panics
    BY ZenonT(60) DEF Panics
  <2> QED
    BY <2>3, <2>4, ZenonT(60) DEF Rings
<1>4. \A q \in Levels : q # 0 => Len(rq.ring[q]) = 0
  BY <1>2
<1>5. Len(rq.ring[0]) = 1 /\ rq.ring[0][1] = Initproc /\ rq.level[Initproc] = 0
  BY <1>2, LevelFacts, SlotFacts
<1>6. ASSUME NEW q \in Levels, NEW i \in 1 .. Len(rq.ring[q]) PROVE q = 0 /\ i = 1
  <2>1. CASE q = 0
    <3>1. i \in 1 .. Len(rq.ring[0])
      BY <2>1
    <3> QED
      BY <1>5, <2>1, <3>1
  <2>2. CASE q # 0
    BY <1>4, <2>2
  <2> QED
    BY <2>1, <2>2
<1> QED
  BY <1>1, <1>2, <1>3, <1>5, <1>6 DEF Fresh, Held, Queued

\* A step that leaves some slot UNUSED keeps the invariant.
LEMMA MlfqInvStep == ProcIInv /\ MlfqInv /\ [MlfqNext]_mvars /\ Unused' # {} => MlfqInv'
<1> SUFFICES ASSUME ProcIInv, MlfqInv, [MlfqNext]_mvars, Unused' # {} PROVE MlfqInv'
  OBVIOUS
<1>1. ASSUME UNCHANGED mvars PROVE MlfqInv'
  BY <1>1, ZenonT(60) DEF MlfqInv, Fresh, Ready, mvars, vars, schedVars
<1>2. ASSUME MlfqNext PROVE Marked(rq') \/ Held(rq', Ready')
  BY <1>2, MarkStays, FreshStays, ZenonT(60) DEF MlfqInv
<1> QED
  BY <1>1, <1>2, ZenonT(60) DEF MlfqInv, Fresh

\* As long as a slot of the table is UNUSED, the rings hold exactly the RUNNABLE
\* processes or ageing has moved one.  The condition is needed: a ring of
\* NPROC entries counts as empty when enqueue() fills its last one.
THEOREM MlfqInductive == MlfqSpec /\ [](Unused # {}) => [](ProcIInv /\ MlfqInv)
<1>1. MlfqSpec => []ProcIInv
  BY MlfqImplementsProc, ProcInductive, PTL
<1>2. MlfqInit => MlfqInv
  BY InitFresh DEF MlfqInv
<1>3. ProcIInv /\ MlfqInv /\ [MlfqNext]_mvars /\ (Unused # {})' => MlfqInv'
  BY MlfqInvStep
<1> QED
  BY <1>1, <1>2, <1>3, PTL DEF MlfqSpec

-----------------------------------------------------------------------------
(* What the rings promise *)

\* The number of places of p in ring q.
LEMMA PlacesIs ==
    ASSUME Fresh, NEW p \in Slots, NEW q \in Levels
    PROVE  Places(p, q) = IF state[p] = "RUNNABLE" /\ rq.level[p] = q THEN 1 ELSE 0
<1> DEFINE s == rq.ring[q]
           At == {i \in DOMAIN s : s[i] = p}
<1>1. s \in Seq(Slots)
  BY DEF Fresh, Held, Queued, Rings
<1>d. DOMAIN s = 1 .. Len(s)
  BY <1>1
<1>2. CASE p \in Ready /\ rq.level[p] = q
  <2>1. PICK i \in 1 .. Len(s) : s[i] = p
    BY <1>2, ZenonT(60) DEF Fresh, Held, Queued
  <2>2. \A j \in 1 .. Len(s) : s[j] = p => j = i
    BY <2>1, ZenonT(60) DEF Fresh, Held, Queued
  <2>3. At = {i}
    BY <1>d, <2>1, <2>2
  <2>4. Cardinality(At) = 1
    BY <2>3, FS_Singleton, ZenonT(60)
  <2> QED
    BY <1>2, <2>4, ZenonT(60) DEF Places, Ready
<1>3. CASE ~(p \in Ready /\ rq.level[p] = q)
  <2>1. ASSUME NEW j \in 1 .. Len(s), s[j] = p PROVE FALSE
    <3>1. p \in Ready /\ rq.level[p] = q
      BY <2>1 DEF Fresh, Held, Queued
    <3> QED
      BY <1>3, <3>1
  <2>2. At = {}
    BY <1>d, <2>1, ZenonT(60)
  <2>3. Cardinality(At) = 0
    BY <2>2, FS_EmptySet, ZenonT(60)
  <2> QED
    BY <1>3, <2>3, ZenonT(60) DEF Places, Ready
<1> QED
  BY <1>2, <1>3

\* fork, wakeup1, kill, exit and the scheduler enqueue every RUNNABLE process
\* once, at its own level, and dequeue it when it gets a CPU.
THEOREM MlfqQueuedOnce == MlfqSpec /\ [](Unused # {}) => []RunnableQueuedOnce
<1>1. MlfqInv => RunnableQueuedOnce
  BY PlacesIs, ZenonT(60) DEF MlfqInv, Marked, RunnableQueuedOnce
<1> QED
  BY <1>1, MlfqInductive, PTL

\* Until ageing moves a process, scheduler() finds a RUNNABLE process in the
\* ring it looks at, and no level is out of bounds: it does not panic.
THEOREM MlfqPanicsOnlyAged ==
    MlfqSpec /\ [](Unused # {}) => [](rq.aged \/ NoSchedulerPanic)
<1>1. MlfqInv => rq.aged \/ NoSchedulerPanic
  BY ZenonT(60) DEF MlfqInv, Marked, Fresh, Held, NoSchedulerPanic
<1> QED
  BY <1>1, MlfqInductive, PTL

\* Only scheduler()'s switch takes a process out of RUNNABLE.
LEMMA LeavesByPick ==
    ASSUME ProcIInv, [MlfqNext]_mvars, NEW p \in Ready, p \notin Ready'
    PROVE  p = Choice(rq)
<1>1. ASSUME NEW c \in Cpus, NEW r \in Slots, Pick(c, r) PROVE p = Choice(rq)
  <2>1. Ready' = Ready \ {r} /\ r = Choice(rq)
    BY <1>1, ReadyLeaves, ZenonT(60) DEF Pick, ProcIInv
  <2> QED
    BY <2>1, ZenonT(60)
<1>2. ASSUME NEW c \in Cpus, NEW r \in Slots,
             TimerExpire(c, r) \/ MlfqForkDone(c, r) \/ MlfqExit(c, r) \/ \E k \in KillPids : MlfqKill(c, r, k)
      PROVE  FALSE
  <2>1. \E T : Ready' = Ready \cup T
    BY <1>2, ReadyJoins, ReadyWakes, ZenonT(60) DEF TimerExpire, MlfqForkDone, MlfqExit, MlfqKill
  <2> QED
    BY <2>1, ZenonT(60)
<1>3. ASSUME NEW c \in Cpus, NEW r \in Slots, MlfqFork(c, r) \/ MlfqSleep(c, r) \/ MlfqOther(c, r)
      PROVE  FALSE
  <2>1. Ready' = Ready
    BY <1>3, ReadyStays, ZenonT(60) DEF MlfqFork, MlfqSleep, MlfqOther
  <2> QED
    BY <2>1, ZenonT(60)
<1>4. ASSUME NEW ch \in Chans, MlfqWakeup(ch) PROVE FALSE
  <2>1. Ready' = Ready \cup SleepersOn(ch)
    BY <1>4, ReadyWakes, ZenonT(60) DEF MlfqWakeup
  <2> QED
    BY <2>1, ZenonT(60)
<1>5. ASSUME UNCHANGED vars PROVE FALSE
  BY <1>5, ZenonT(60) DEF vars, Ready
<1>6. ASSUME NEW c \in Cpus, NEW r \in Slots, PickPanic(c, r) \/ TimerSlice(c, r) PROVE UNCHANGED vars
  BY <1>6, ZenonT(60) DEF PickPanic, TimerSlice
<1>7. ASSUME NEW c \in Cpus, IdleLoop(c) \/ TimerIdle(c) PROVE UNCHANGED vars
  BY <1>7, ZenonT(60) DEF IdleLoop, TimerIdle
<1>8. ASSUME MlfqHalt \/ UNCHANGED mvars PROVE UNCHANGED vars
  BY <1>8, ZenonT(60) DEF MlfqHalt, mvars
<1> QED
  BY <1>1, <1>2, <1>3, <1>4, <1>5, <1>6, <1>7, <1>8, ZenonT(60) DEF MlfqNext, MlfqStep

\* The process scheduler() finds has the best level of all RUNNABLE ones.
LEMMA ChoiceBest ==
    ASSUME Fresh, Choice(rq) \in Slots, NEW r \in Ready
    PROVE  rq.level[Choice(rq)] <= rq.level[r]
<1>1. PICK q \in Levels : /\ rq.ring[q] # <<>> /\ Choice(rq) = Head(rq.ring[q])
                          /\ \A x \in Levels : rq.ring[x] # <<>> => q <= x
  BY ChoiceIs, ZenonT(60)
<1>2. Queued(rq, Ready) /\ Ready \subseteq Slots
  BY DEF Fresh, Held, Ready
<1>3. rq.level[Choice(rq)] = q
  <2>1. rq.level[Head(rq.ring[q])] = q
    BY <1>1, <1>2, DequeueQueued, ZenonT(60)
  <2> QED
    BY <1>1, <2>1, ZenonT(60)
<1>a. rq.level \in [Slots -> Levels]
  BY <1>2 DEF Queued, Rings
<1>4. PICK x \in Levels : x = rq.level[r]
  BY <1>2, <1>a
<1>5. \E i \in 1 .. Len(rq.ring[x]) : rq.ring[x][i] = r
  BY <1>2, <1>4, ZenonT(60) DEF Queued
<1>6. rq.ring[x] # <<>>
  BY <1>5
<1> QED
  BY <1>1, <1>3, <1>4, <1>6, ZenonT(60)

\* scheduler() gives the CPU to a process of the best level that has a RUNNABLE
\* one, until ageing moves a process.
THEOREM MlfqBestLevel == MlfqSpec /\ [](Unused # {}) => BestLevelFirst
<1> DEFINE Best == ~rq.aged => \A p, q \in Slots :
              /\ state[p] = "RUNNABLE" /\ state'[p] = "RUNNING"
              /\ state[q] = "RUNNABLE"
              => rq.level[p] <= rq.level[q]
<1>1. ProcIInv /\ MlfqInv /\ [MlfqNext]_mvars => Best
  <2> SUFFICES ASSUME ProcIInv, MlfqInv, [MlfqNext]_mvars, ~rq.aged, NEW p \in Slots, NEW q \in Slots,
                      state[p] = "RUNNABLE", state'[p] = "RUNNING", state[q] = "RUNNABLE"
               PROVE  rq.level[p] <= rq.level[q]
    BY ZenonT(60)
  <2>1. p \in Ready /\ p \notin Ready' /\ q \in Ready
    BY DEF Ready
  <2>2. p = Choice(rq)
    BY <2>1, LeavesByPick, ZenonT(60)
  <2>3. Fresh
    BY ZenonT(60) DEF MlfqInv, Marked
  <2> QED
    BY <2>1, <2>2, <2>3, ChoiceBest, ZenonT(60)
<1>2. ProcIInv /\ MlfqInv /\ [MlfqNext]_mvars => [Best]_mvars
  BY <1>1
<1> HIDE DEF Best
<1>3. MlfqSpec /\ [](Unused # {}) => [][Best]_mvars
  BY <1>2, MlfqInductive, PTL DEF MlfqSpec
<1> QED
  BY <1>3 DEF BestLevelFirst, Best

-----------------------------------------------------------------------------
(* DEFAULT, PBS and FCFS are schedulers of the process table *)

\* Every step of a build is a step of the process table, or changes only the
\* fields the builds add.
LEMMA PoliciesStep == [PoliciesNext]_pvars => [Next]_vars
<1> SUFFICES ASSUME [PoliciesNext]_pvars PROVE Next \/ UNCHANGED vars
  OBVIOUS
<1>1. ASSUME panic = "none", NEW c \in Cpus, NEW p \in Slots,
             \/ PoliciesPick(c, p) \/ TimerYield(c, p) \/ PoliciesFork(c, p) \/ PoliciesOther(c, p)
      PROVE  Next
  <2>1. Step(c, p)
    BY <1>1, ZenonT(60) DEF PoliciesPick, TimerYield, PoliciesFork, PoliciesOther, Step
  <2> QED
    BY <1>1, <2>1, ZenonT(60) DEF Next
<1>2. ASSUME NEW c \in Cpus, NEW p \in Slots, StampChild(c, p) \/ \E n \in Priorities : Chpr(c, p, n)
      PROVE  UNCHANGED vars
  BY <1>2, ZenonT(60) DEF StampChild, Chpr
<1>3. ASSUME NEW c \in Cpus, PoliciesIdle(c) PROVE UNCHANGED vars
  BY <1>3, ZenonT(60) DEF PoliciesIdle
<1>4. ASSUME panic = "none", NEW ch \in Chans, PoliciesWakeup(ch) PROVE Next
  BY <1>4, ZenonT(60) DEF PoliciesWakeup, Next
<1>5. ASSUME UNCHANGED pvars PROVE UNCHANGED vars
  BY <1>5, ZenonT(60) DEF pvars
<1> QED
  BY <1>1, <1>2, <1>3, <1>4, <1>5, ZenonT(60) DEF PoliciesNext, PoliciesHalt

\* The three builds only narrow the choice that Proc leaves open.
THEOREM PoliciesImplementProc == PoliciesSpec => Spec
<1>1. PoliciesInit => Init
  BY DEF PoliciesInit
<1> QED
  BY <1>1, PoliciesStep, PTL DEF PoliciesSpec, Spec

\* What fork, exit, wait, kill and sleep promise, they promise under each of
\* the three builds.
THEOREM PoliciesKeepTable ==
    PoliciesSpec => [](OneCpuPerProcess /\ NoMissedExit /\ ParentAlive /\ EmbryoOwned)
  BY PoliciesImplementProc, ProcOneCpu, ProcNoMissedExit, ProcParentAlive, ProcEmbryoOwned, PTL

-----------------------------------------------------------------------------
(* The search of PBS and FCFS *)

\* The candidate after slot n - 1, when it was x before.
After(n, x) == IF Replaces(n - 1, x) THEN n - 1 ELSE x

\* The loop over the first n slots computes something.
LEMMA LoopExists ==
    ASSUME NEW n \in Nat
    PROVE  \E g : g = [i \in 0 .. n |-> IF i = 0 THEN NoProc ELSE After(i, g[i - 1])]
<1> DEFINE Loop(m) == \E g : g = [i \in 0 .. m |-> IF i = 0 THEN NoProc ELSE After(i, g[i - 1])]
           Bad == {m \in Nat : ~Loop(m)}
<1>1. ASSUME Bad # {} PROVE FALSE
  <2>1. PICK m \in Bad : \A y \in Bad : m <= y
    BY <1>1, LeastNat, ZenonT(60)
  <2>2. CASE m = 0
    <3> DEFINE g == [i \in 0 .. 0 |-> NoProc]
    <3>1. g = [i \in 0 .. 0 |-> IF i = 0 THEN NoProc ELSE After(i, g[i - 1])]
      OBVIOUS
    <3>2. Loop(0)
      BY <3>1, ZenonT(60)
    <3> QED
      BY <2>2, <3>2
  <2>3. CASE m # 0
    <3>1. m - 1 \in Nat /\ ~(m <= m - 1)
      BY <2>3
    <3>2. Loop(m - 1)
      BY <2>1, <3>1, ZenonT(60)
    <3>3. PICK g : g = [i \in 0 .. m - 1 |-> IF i = 0 THEN NoProc ELSE After(i, g[i - 1])]
      BY <3>2
    <3> DEFINE h == [i \in 0 .. m |-> IF i = m THEN After(m, g[m - 1]) ELSE g[i]]
    <3>4. ASSUME NEW i \in 0 .. m PROVE h[i] = IF i = 0 THEN NoProc ELSE After(i, h[i - 1])
      <4>1. CASE i = m
        <5>1. h[m - 1] = g[m - 1]
          BY <3>1
        <5> QED
          BY <2>3, <4>1, <5>1
      <4>2. CASE i # m
        <5>1. i \in 0 .. m - 1
          BY <4>2
        <5>2. h[i] = g[i] /\ (i # 0 => h[i - 1] = g[i - 1])
          BY <4>2, <5>1
        <5>3. g[i] = IF i = 0 THEN NoProc ELSE After(i, g[i - 1])
          BY <3>3, <5>1
        <5> QED
          BY <5>2, <5>3, ZenonT(60)
      <4> QED
        BY <4>1, <4>2
    <3>5. h = [i \in 0 .. m |-> h[i]]
      OBVIOUS
    <3> HIDE DEF h
    <3>6. h = [i \in 0 .. m |-> IF i = 0 THEN NoProc ELSE After(i, h[i - 1])]
      BY <3>4, <3>5, ZenonT(60)
    <3> QED
      BY <2>1, <3>6
  <2> QED
    BY <2>2, <2>3
<1> QED
  BY <1>1, ZenonT(60)

\* Search is the candidate that the loop over the whole table ends with.
LEMMA SearchIs ==
    \E g : /\ g = [i \in 0 .. NPROC |-> IF i = 0 THEN NoProc ELSE After(i, g[i - 1])]
           /\ Search = g[NPROC]
<1> DEFINE best == CHOOSE g : g = [i \in 0 .. NPROC |-> IF i = 0 THEN NoProc ELSE After(i, g[i - 1])]
<1>1. best = [i \in 0 .. NPROC |-> IF i = 0 THEN NoProc ELSE After(i, best[i - 1])]
  <2>1. NPROC \in Nat
    BY NPROCAssumption
  <2>2. \E g : g = [i \in 0 .. NPROC |-> IF i = 0 THEN NoProc ELSE After(i, g[i - 1])]
    BY <2>1, LoopExists, ZenonT(60)
  <2> QED
    BY <2>2, ZenonT(60)
<1>2. Search = best[NPROC]
  BY ZenonT(60) DEF Search, After
<1> QED
  BY <1>1, <1>2, ZenonT(60)

-----------------------------------------------------------------------------
(* The orders of PBS and FCFS *)

Clocks == [ticks : Nat, ctime : [Slots -> Nat], last : [Slots -> Nat]]

PoliciesTypeOK ==
    /\ build \in {"DEFAULT", "PBS", "FCFS"}
    /\ priority \in [Slots -> Int]
    /\ clk \in Clocks

\* No process replaces itself, and what did not replace the old candidate does
\* not replace the one that beats it.
LEMMA BeatsOrder ==
    ASSUME PoliciesTypeOK
    PROVE  /\ \A p \in Slots : ~Beats(p, p)
           /\ \A p, q, b \in Slots : Beats(p, b) /\ ~Beats(q, b) => ~Beats(q, p)
<1>1. /\ \A p \in Slots : priority[p] \in Int /\ clk.ctime[p] \in Nat /\ clk.last[p] \in Nat
      /\ build \in {"DEFAULT", "PBS", "FCFS"}
  BY DEF PoliciesTypeOK, Clocks
<1>2. CASE build = "DEFAULT"
  BY <1>2 DEF Beats
<1>3. CASE build = "FCFS"
  <2>1. \A p, b \in Slots : Beats(p, b) <=> clk.ctime[p] < clk.ctime[b]
    BY <1>3 DEF Beats
  <2> QED
    BY <1>1, <2>1
<1>4. CASE build = "PBS"
  <2>1. \A p, b \in Slots :
           Beats(p, b) <=> \/ priority[b] > priority[p]
                           \/ priority[b] = priority[p] /\ clk.last[p] < clk.last[b]
    BY <1>4 DEF Beats
  <2> QED
    BY <1>1, <2>1
<1> QED
  BY <1>1, <1>2, <1>3, <1>4

\* The loop ends with a RUNNABLE process that no RUNNABLE process beats, if
\* there is a RUNNABLE process.
LEMMA SearchBest ==
    ASSUME PoliciesTypeOK, Search \in Slots
    PROVE  Search \in Runnable /\ \A q \in Runnable : ~Beats(q, Search)
<1>1. PICK g : /\ g = [i \in 0 .. NPROC |-> IF i = 0 THEN NoProc ELSE After(i, g[i - 1])]
               /\ Search = g[NPROC]
  BY SearchIs, ZenonT(60)
<1>0. Runnable \subseteq Slots /\ Slots \subseteq Nat /\ NoProc \notin Slots /\ NPROC \in Nat
  BY SlotFacts, NPROCAssumption DEF Runnable
<1> DEFINE None(n) == g[n] = NoProc /\ \A q \in Runnable : ~(q < n)
           Best(n) == g[n] \in Runnable /\ \A q \in Runnable : q < n => ~Beats(q, g[n])
           Bad == {n \in 0 .. NPROC : ~(None(n) \/ Best(n))}
<1>2. ASSUME Bad # {} PROVE FALSE
  <2>1. Bad \subseteq Nat
    OBVIOUS
  <2>2. PICK n \in Bad : \A y \in Bad : n <= y
    BY <1>2, <2>1, LeastNat, ZenonT(60)
  <2>3. n # 0
    <3>1. g[0] = NoProc
      BY <1>0, <1>1
    <3>2. None(0)
      BY <1>0, <3>1
    <3> QED
      BY <3>2
  <2>4. /\ n \in Nat /\ n - 1 \in 0 .. NPROC /\ n - 1 \in Slots /\ ~(n <= n - 1)
        /\ n \in 0 .. NPROC /\ ~None(n) /\ ~Best(n)
    BY <2>3, <1>0 DEF Slots
  <2>5. None(n - 1) \/ Best(n - 1)
    BY <2>2, <2>4
  <2>6. g[n] = IF Replaces(n - 1, g[n - 1]) THEN n - 1 ELSE g[n - 1]
    <3>1. g[n] = After(n, g[n - 1])
      BY <1>1, <2>3, <2>4
    <3> QED
      BY <3>1 DEF After
  <2>7. \A q \in Runnable : q < n <=> q < n - 1 \/ q = n - 1
    BY <1>0, <2>4
  <2> PICK x : x = g[n - 1]
    OBVIOUS
  <2> PICK m : m = n - 1
    OBVIOUS
  <2>8. CASE Replaces(m, x)
    <3>1. g[n] = m /\ m \in Runnable /\ (x = NoProc \/ Beats(m, x))
      BY <2>6, <2>8 DEF Replaces
    <3>2. \A q \in Runnable : q < m => ~Beats(q, m)
      BY <1>0, <2>5, <3>1, BeatsOrder, ZenonT(60)
    <3> QED
      BY <1>0, <2>4, <2>7, <3>1, <3>2, BeatsOrder
  <2>9. CASE ~Replaces(m, x)
    <3>1. g[n] = x /\ (m \in Runnable => x # NoProc /\ ~Beats(m, x))
      BY <2>6, <2>9 DEF Replaces
    <3> QED
      BY <1>0, <2>4, <2>5, <2>7, <3>1
  <2> QED
    BY <2>8, <2>9
<1>3. None(NPROC) \/ Best(NPROC)
  BY <1>0, <1>2
<1>4. \A q \in Runnable : q < NPROC
  BY <1>0 DEF Slots
<1> QED
  BY <1>0, <1>1, <1>3, <1>4

-----------------------------------------------------------------------------
(* What the search picks *)

\* Closing the gaps between times gives times.
LEMMA RankedClocks == ASSUME NEW k \in Clocks PROVE Ranked(k) \in Clocks
<1> DEFINE read == IF build = "FCFS" THEN k.ctime ELSE k.last
           image == {read[p] : p \in Slots}
           times == {0, k.ticks} \cup image
           rank(t) == Cardinality({u \in times : u < t})
<1>1. read \in [Slots -> Nat] /\ k.ticks \in Nat
  BY DEF Clocks
<1> HIDE DEF read
<1>2. IsFiniteSet(image)
  <2>1. IsFiniteSet(Slots)
    BY FS_Interval, NPROCAssumption DEF Slots
  <2>2. read \in Surjection(Slots, image)
    BY <1>1 DEF Surjection
  <2> QED
    BY <2>1, <2>2, FS_Surjection
<1> HIDE DEF image
<1>3. IsFiniteSet(times)
  <2>1. IsFiniteSet({0, k.ticks})
    <3>1. IsFiniteSet({0}) /\ {0, k.ticks} = {0} \cup {k.ticks}
      BY FS_Singleton
    <3> QED
      BY <3>1, FS_AddElement
  <2> QED
    BY <1>2, <2>1, FS_Union, ZenonT(60)
<1> HIDE DEF times
<1>4. \A t : rank(t) \in Nat
  BY <1>3, FS_Subset, FS_CardinalityType
<1> HIDE DEF rank
<1>5. Ranked(k) = [ticks |-> IF build = "DEFAULT" THEN 0 ELSE rank(k.ticks),
                   ctime |-> IF build = "FCFS" THEN [p \in Slots |-> rank(read[p])] ELSE [p \in Slots |-> 0],
                   last  |-> IF build = "PBS" THEN [p \in Slots |-> rank(read[p])] ELSE [p \in Slots |-> 0]]
  BY ZenonT(60) DEF Ranked, rank, times, image, read
<1> QED
  BY <1>4, <1>5 DEF Clocks

\* The clocks and priorities keep their types.
LEMMA NextPoliciesTypeOK ==
    ASSUME PoliciesTypeOK, ProcTypeOK, ForkInv, [PoliciesNext]_pvars PROVE PoliciesTypeOK'
<1> USE DEF PoliciesTypeOK
<1>1. ASSUME NEW c \in Cpus, NEW p \in Slots, PoliciesPick(c, p) PROVE PoliciesTypeOK'
  <2>1. [clk EXCEPT !.last[p] = clk.ticks] \in Clocks
    BY DEF Clocks
  <2> QED
    BY <1>1, <2>1, RankedClocks DEF PoliciesPick
<1>2. ASSUME NEW c \in Cpus PROVE PoliciesTicked(c) \in Clocks
  <2> DEFINE now == IF c = TimerCpu THEN clk.ticks + 1 ELSE clk.ticks
  <2>1. now \in Nat
    BY DEF Clocks
  <2> HIDE DEF now
  <2>2. [clk EXCEPT !.ticks = now, !.last = [p \in Slots |-> IF On(c, p) THEN now ELSE @[p]]] \in Clocks
    BY <2>1, ZenonT(60) DEF Clocks
  <2>3. PoliciesTicked(c) = Ranked([clk EXCEPT !.ticks = now,
                                       !.last = [p \in Slots |-> IF On(c, p) THEN now ELSE @[p]]])
    BY ZenonT(60) DEF PoliciesTicked, now
  <2> QED
    BY <2>2, <2>3, RankedClocks
<1>3. ASSUME NEW c \in Cpus, NEW p \in Slots, TimerYield(c, p) \/ PoliciesIdle(c) PROVE PoliciesTypeOK'
  BY <1>2, <1>3 DEF TimerYield, PoliciesIdle
<1>4. ASSUME NEW c \in Cpus, NEW p \in Slots, PoliciesFork(c, p) PROVE PoliciesTypeOK'
  <2>1. Unused # {} /\ build' = build
    BY <1>4 DEF PoliciesFork, ForkAlloc
  <2>2. PICK n \in Slots : n = Min(Unused)
    BY <2>1, FirstUnused
  <2>3. [clk EXCEPT !.ctime[n] = clk.ticks, !.last[n] = 0] \in Clocks
    BY ZenonT(60) DEF Clocks
  <2>4. /\ priority' = [priority EXCEPT ![n] = DefaultPriority]
        /\ clk' = Ranked([clk EXCEPT !.ctime[n] = clk.ticks, !.last[n] = 0])
    BY <1>4, <2>2 DEF PoliciesFork
  <2> QED
    BY <2>1, <2>3, <2>4, RankedClocks DEF DefaultPriority
<1>5. ASSUME NEW c \in Cpus, NEW p \in Slots, StampChild(c, p) PROVE PoliciesTypeOK'
  <2>1. PICK n \in Slots : n = child[p]
    BY <1>5 DEF StampChild, ForkInv, ProcTypeOK
  <2>2. [clk EXCEPT !.ctime[n] = clk.ticks] \in Clocks
    BY DEF Clocks
  <2> QED
    BY <1>5, <2>1, <2>2, RankedClocks DEF StampChild
<1>6. ASSUME NEW c \in Cpus, NEW p \in Slots, NEW n \in Priorities, Chpr(c, p, n) PROVE PoliciesTypeOK'
  <2>1. n \in Int
    BY PrioritiesAssumption
  <2> QED
    BY <1>6, <2>1, ZenonT(60) DEF Chpr
<1>7. ASSUME UNCHANGED <<build, priority, clk>> PROVE PoliciesTypeOK'
  BY <1>7
<1>8. ASSUME NEW c \in Cpus, NEW p \in Slots, PoliciesOther(c, p) PROVE UNCHANGED <<build, priority, clk>>
  BY <1>8, ZenonT(60) DEF PoliciesOther
<1>9. ASSUME NEW ch \in Chans, PoliciesWakeup(ch) PROVE UNCHANGED <<build, priority, clk>>
  BY <1>9, ZenonT(60) DEF PoliciesWakeup
<1>10. ASSUME UNCHANGED pvars PROVE UNCHANGED <<build, priority, clk>>
  BY <1>10, ZenonT(60) DEF pvars
<1>11. ASSUME NEW c \in Cpus, PoliciesIdle(c) PROVE PoliciesTypeOK'
  BY <1>3, <1>11, SlotFacts, ZenonT(60)
<1> HIDE DEF PoliciesTypeOK
<1> QED
  BY <1>1, <1>3, <1>4, <1>5, <1>6, <1>7, <1>8, <1>9, <1>10, <1>11, ZenonT(60) DEF PoliciesNext, PoliciesHalt

\* A process gets a CPU only by the search.
LEMMA PickedBySearch ==
    ASSUME ProcTypeOK, ForkInv, [PoliciesNext]_pvars,
           NEW p \in Slots, state[p] = "RUNNABLE", state'[p] = "RUNNING"
    PROVE  p = Search
<1>1. ASSUME NEW c \in Cpus, NEW r \in Slots, PoliciesPick(c, r) PROVE p = Search
  BY <1>1 DEF PoliciesPick, Dispatch, ProcTypeOK
<1>2. ASSUME NEW c \in Cpus, NEW r \in Slots, TimerYield(c, r) PROVE FALSE
  BY <1>2 DEF TimerYield, Yield, ProcTypeOK
<1>3. ASSUME NEW c \in Cpus, NEW r \in Slots, PoliciesFork(c, r) PROVE FALSE
  BY <1>3 DEF PoliciesFork, ForkAlloc, AllocProc, ProcTypeOK
<1>4. ASSUME NEW c \in Cpus, NEW r \in Slots, StampChild(c, r) \/ \E n \in Priorities : Chpr(c, r, n)
      PROVE  FALSE
  BY <1>4 DEF StampChild, Chpr, vars
<1>5. ASSUME NEW c \in Cpus, NEW r \in Slots,
             \/ Syscall(c, r) \/ Return(c, r) \/ Fault(c, r) \/ ExitBegin(c, r)
             \/ WaitNone(c, r) \/ SleepCheck(c, r)
      PROVE  FALSE
  BY <1>5, ZenonT(60) DEF Syscall, Return, Fault, ExitBegin, WaitNone, SleepCheck, tableVars
<1>6. ASSUME NEW c \in Cpus, NEW r \in Slots, ForkFail(c, r) \/ ForkDone(c, r) PROVE FALSE
  BY <1>6 DEF ForkFail, ForkDone, ProcTypeOK
<1>7. ASSUME NEW c \in Cpus, NEW r \in Slots, ExitDone(c, r) PROVE FALSE
  BY <1>7 DEF ExitDone, MakeRunnable, ProcTypeOK
<1>8. ASSUME NEW c \in Cpus, NEW r \in Slots, WaitReap(c, r) PROVE FALSE
  BY <1>8 DEF WaitReap, ProcTypeOK
<1>9. ASSUME NEW c \in Cpus, NEW r \in Slots, WaitSleep(c, r) \/ IoSleep(c, r) \/ DiskSleep(c, r) PROVE FALSE
  BY <1>9 DEF WaitSleep, IoSleep, DiskSleep, SleepOn, ProcTypeOK
<1>10. ASSUME NEW c \in Cpus, NEW r \in Slots, \E k \in KillPids : Kill(c, r, k) PROVE FALSE
  BY <1>10 DEF Kill, MakeRunnable
<1>11. ASSUME NEW ch \in Chans, PoliciesWakeup(ch) PROVE FALSE
  BY <1>11 DEF PoliciesWakeup, Wakeup, MakeRunnable
<1>12. ASSUME NEW c \in Cpus, PoliciesIdle(c) PROVE FALSE
  BY <1>12 DEF PoliciesIdle, vars
<1>13. ASSUME UNCHANGED pvars PROVE FALSE
  BY <1>13 DEF pvars, vars
<1>14. ASSUME NEW c \in Cpus, NEW r \in Slots, PoliciesOther(c, r) PROVE FALSE
  BY <1>5, <1>6, <1>7, <1>8, <1>9, <1>10, <1>14, ZenonT(60) DEF PoliciesOther
<1> QED
  BY <1>1, <1>2, <1>3, <1>4, <1>11, <1>12, <1>13, <1>14, ZenonT(60) DEF PoliciesNext, PoliciesHalt

\* The invariant of the builds, on top of the process table's.
THEOREM PoliciesInductive == PoliciesSpec => [](PoliciesTypeOK /\ ProcIInv)
<1>1. PoliciesInit => PoliciesTypeOK
  BY BuildsAssumption, SlotFacts DEF PoliciesInit, PoliciesTypeOK, Clocks, DefaultPriority
<1>2. PoliciesTypeOK /\ ProcIInv /\ [PoliciesNext]_pvars => PoliciesTypeOK'
  BY NextPoliciesTypeOK DEF ProcIInv
<1> QED
  BY <1>1, <1>2, PoliciesImplementProc, ProcInductive, PTL DEF PoliciesSpec

\* Of all RUNNABLE processes, the PBS build gives the CPU to one with the
\* lowest priority number, and among those to one that ran longest ago.
THEOREM PoliciesPbs == PoliciesSpec => PbsPicksBest
<1> DEFINE Best == build = "PBS" => \A p, q \in Slots : PickedOver(p, q) =>
               \/ priority[p] < priority[q]
               \/ priority[p] = priority[q] /\ clk.last[p] <= clk.last[q]
<1>1. PoliciesTypeOK /\ ProcIInv /\ [PoliciesNext]_pvars => Best
  <2> SUFFICES ASSUME PoliciesTypeOK, ProcIInv, [PoliciesNext]_pvars, build = "PBS",
                      NEW p \in Slots, NEW q \in Slots, PickedOver(p, q)
               PROVE  \/ priority[p] < priority[q]
                      \/ priority[p] = priority[q] /\ clk.last[p] <= clk.last[q]
    OBVIOUS
  <2>1. p = Search /\ q \in Runnable
    BY PickedBySearch DEF PickedOver, Runnable, ProcIInv
  <2>2. ~Beats(q, p)
    BY <2>1, SearchBest
  <2>3. /\ priority[p] \in Int /\ priority[q] \in Int /\ clk.last[p] \in Nat /\ clk.last[q] \in Nat
        /\ ~(priority[p] > priority[q] \/ (priority[p] = priority[q] /\ clk.last[q] < clk.last[p]))
    BY <2>2 DEF Beats, PoliciesTypeOK, Clocks
  <2> QED
    BY <2>3
<1>2. PoliciesTypeOK /\ ProcIInv /\ [PoliciesNext]_pvars => [Best]_pvars
  BY <1>1
<1> HIDE DEF Best
<1>3. PoliciesSpec => [][Best]_pvars
  BY <1>2, PoliciesInductive, PTL DEF PoliciesSpec
<1> QED
  BY <1>3 DEF PbsPicksBest, Best

\* The FCFS build gives the CPU to a RUNNABLE process that no RUNNABLE process
\* was created before.
THEOREM PoliciesFcfs == PoliciesSpec => FcfsPicksOldest
<1> DEFINE Oldest == build = "FCFS" => \A p, q \in Slots : PickedOver(p, q) =>
                         clk.ctime[p] <= clk.ctime[q]
<1>1. PoliciesTypeOK /\ ProcIInv /\ [PoliciesNext]_pvars => Oldest
  <2> SUFFICES ASSUME PoliciesTypeOK, ProcIInv, [PoliciesNext]_pvars, build = "FCFS",
                      NEW p \in Slots, NEW q \in Slots, PickedOver(p, q)
               PROVE  clk.ctime[p] <= clk.ctime[q]
    OBVIOUS
  <2>1. p = Search /\ q \in Runnable
    BY PickedBySearch DEF PickedOver, Runnable, ProcIInv
  <2>2. ~Beats(q, p)
    BY <2>1, SearchBest
  <2>3. clk.ctime[p] \in Nat /\ clk.ctime[q] \in Nat /\ ~(clk.ctime[q] < clk.ctime[p])
    BY <2>2 DEF Beats, PoliciesTypeOK, Clocks
  <2> QED
    BY <2>3
<1>2. PoliciesTypeOK /\ ProcIInv /\ [PoliciesNext]_pvars => [Oldest]_pvars
  BY <1>1
<1> HIDE DEF Oldest
<1>3. PoliciesSpec => [][Oldest]_pvars
  BY <1>2, PoliciesInductive, PTL DEF PoliciesSpec
<1> QED
  BY <1>3 DEF FcfsPicksOldest, Oldest
=============================================================================
