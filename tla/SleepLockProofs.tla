--------------------------- MODULE SleepLockProofs ---------------------------
(***************************************************************************)
(* Mutual exclusion and the absence of lost wakeups of a sleep lock, for   *)
(* any number of processes.                                                *)
(***************************************************************************)
EXTENDS SleepLock, TLAPS

\* Where a process holds ptable.lock, and where it holds lk->lk.
HasPtable == {"sleep1", "sleep2", "woken", "wakeup1"}
HasLk == {"test", "sleep", "sleep1", "release", "wakeup", "wakeup1", "unlock"}

\* The spin locks are held exactly where the code says, and the fields of the
\* sleep lock and of the processes agree with the program counters.
LocksInv ==
    /\ \A p \in Procs : pc[p] \in HasPtable <=> ptable = p
    /\ \A p \in Procs : pc[p] \in HasLk <=> lk = p
    /\ \A p \in Procs : pc[p] \in Holding <=> locked /\ pid = p
    /\ locked => pid \in Procs
    /\ \A p \in Procs : (state[p] # "RUNNING") <=> pc[p] = "asleep"
    /\ \A p \in Procs : chan[p] <=> pc[p] = "asleep"

\* A process that is asleep, or has decided to sleep.
Committed(p) == state[p] = "SLEEPING" \/ pc[p] \in {"sleep", "sleep1", "sleep2"}

Waker == locked \/ \E q \in Procs : pc[q] \in {"wakeup", "wakeup1"}

\* A process on its way into sleep() can rely on a later wakeup.
WakerInv == \A p \in Procs : Committed(p) => Waker

IInv == TypeOK /\ LocksInv /\ WakerInv

-----------------------------------------------------------------------------
\* The initial state satisfies the inductive invariant.
LEMMA InitIInv == Init => IInv
  BY NoProcAssumption
  DEF Init, IInv, TypeOK, LocksInv, WakerInv, Committed, Waker, PCs, HasPtable, HasLk, Holding

\* Every step keeps the variables in their types.
LEMMA NextTypeOK == TypeOK /\ [Next]_vars => TypeOK'
<1> SUFFICES ASSUME TypeOK, [Next]_vars PROVE TypeOK'
  OBVIOUS
<1> USE DEF TypeOK, PCs, Goto
<1>1. ASSUME NEW p \in Procs, AcquireSleep(p) PROVE TypeOK'
  BY <1>1 DEF AcquireSleep
<1>2. ASSUME NEW p \in Procs, Spin(p) PROVE TypeOK'
  BY <1>2 DEF Spin, SleepAcquire, Reacquire, ReleaseSleep, WakeupAcquire
<1>3. ASSUME NEW p \in Procs, Straight(p) PROVE TypeOK'
  BY <1>3 DEF Straight, TestFree, TestTaken, SleepRelease, GoToSleep, SleepReturn,
              ClearLock, Wakeup1, Unlock
<1>4. ASSUME NEW p \in Procs, Kill(p) PROVE TypeOK'
  BY <1>4 DEF Kill
<1>5. ASSUME NEW p \in Procs, Resume(p) PROVE TypeOK'
  BY <1>5 DEF Resume
<1>6. CASE UNCHANGED vars
  BY <1>6 DEF vars
<1> QED
  BY <1>1, <1>2, <1>3, <1>4, <1>5, <1>6 DEF Next

\* Every step keeps the locks and the program counters in agreement.
LEMMA NextLocksInv == TypeOK /\ LocksInv /\ [Next]_vars => LocksInv'
<1> SUFFICES ASSUME TypeOK, LocksInv, [Next]_vars PROVE LocksInv'
  OBVIOUS
<1> USE NoProcAssumption DEF TypeOK, LocksInv, PCs, HasPtable, HasLk, Holding, Goto
<1>1. ASSUME NEW p \in Procs, AcquireSleep(p) PROVE LocksInv'
  BY <1>1 DEF AcquireSleep
<1>2. ASSUME NEW p \in Procs, Spin(p) PROVE LocksInv'
  <2>1. CASE SleepAcquire(p)
    BY <2>1 DEF SleepAcquire
  <2>2. CASE Reacquire(p)
    BY <2>2 DEF Reacquire
  <2>3. CASE ReleaseSleep(p)
    BY <2>3 DEF ReleaseSleep
  <2>4. CASE WakeupAcquire(p)
    BY <2>4 DEF WakeupAcquire
  <2> QED
    BY <1>2, <2>1, <2>2, <2>3, <2>4 DEF Spin
<1>3. ASSUME NEW p \in Procs, Straight(p) PROVE LocksInv'
  <2>1. CASE TestFree(p)
    BY <2>1 DEF TestFree
  <2>2. CASE TestTaken(p)
    BY <2>2 DEF TestTaken
  <2>3. CASE SleepRelease(p)
    BY <2>3 DEF SleepRelease
  <2>4. CASE GoToSleep(p)
    BY <2>4 DEF GoToSleep
  <2>5. CASE SleepReturn(p)
    BY <2>5 DEF SleepReturn
  <2>6. CASE ClearLock(p)
    BY <2>6 DEF ClearLock
  <2>7. CASE Wakeup1(p)
    BY <2>7 DEF Wakeup1
  <2>8. CASE Unlock(p)
    BY <2>8 DEF Unlock
  <2> QED
    BY <1>3, <2>1, <2>2, <2>3, <2>4, <2>5, <2>6, <2>7, <2>8 DEF Straight
<1>4. ASSUME NEW p \in Procs, Kill(p) PROVE LocksInv'
  BY <1>4 DEF Kill
<1>5. ASSUME NEW p \in Procs, Resume(p) PROVE LocksInv'
  BY <1>5 DEF Resume
<1>6. CASE UNCHANGED vars
  BY <1>6 DEF vars
<1> QED
  BY <1>1, <1>2, <1>3, <1>4, <1>5, <1>6 DEF Next

\* Every step keeps a waker for the processes that sleep or are about to.  The
\* two steps that matter: releasesleep clears lk->locked only when it has
\* lk->lk, so nobody is between the test and sleep(), and wakeup1 runs with
\* both locks, so that every committed process is already SLEEPING on lk.
LEMMA NextWakerInv == IInv /\ [Next]_vars => WakerInv'
<1> SUFFICES ASSUME TypeOK, LocksInv, WakerInv, [Next]_vars PROVE WakerInv'
  BY DEF IInv
<1> USE NoProcAssumption
    DEF TypeOK, LocksInv, WakerInv, Committed, Waker, PCs, HasPtable, HasLk, Holding, Goto
<1>1. ASSUME NEW p \in Procs, AcquireSleep(p) PROVE WakerInv'
  BY <1>1 DEF AcquireSleep
<1>2. ASSUME NEW p \in Procs, Spin(p) PROVE WakerInv'
  <2>1. CASE SleepAcquire(p)
    BY <2>1 DEF SleepAcquire
  <2>2. CASE Reacquire(p)
    BY <2>2 DEF Reacquire
  <2>3. CASE ReleaseSleep(p)
    BY <2>3 DEF ReleaseSleep
  <2>4. CASE WakeupAcquire(p)
    BY <2>4 DEF WakeupAcquire
  <2> QED
    BY <1>2, <2>1, <2>2, <2>3, <2>4 DEF Spin
<1>3. ASSUME NEW p \in Procs, Straight(p) PROVE WakerInv'
  <2>1. CASE TestFree(p)
    BY <2>1 DEF TestFree
  <2>2. CASE TestTaken(p)
    BY <2>2 DEF TestTaken
  <2>3. CASE SleepRelease(p)
    BY <2>3 DEF SleepRelease
  <2>4. CASE GoToSleep(p)
    BY <2>4 DEF GoToSleep
  <2>5. CASE SleepReturn(p)
    BY <2>5 DEF SleepReturn
  <2>6. CASE ClearLock(p)
    BY <2>6 DEF ClearLock
  <2>7. CASE Wakeup1(p)
    BY <2>7 DEF Wakeup1
  <2>8. CASE Unlock(p)
    BY <2>8 DEF Unlock
  <2> QED
    BY <1>3, <2>1, <2>2, <2>3, <2>4, <2>5, <2>6, <2>7, <2>8 DEF Straight
<1>4. ASSUME NEW p \in Procs, Kill(p) PROVE WakerInv'
  BY <1>4 DEF Kill
<1>5. ASSUME NEW p \in Procs, Resume(p) PROVE WakerInv'
  BY <1>5 DEF Resume
<1>6. CASE UNCHANGED vars
  BY <1>6 DEF vars
<1> QED
  BY <1>1, <1>2, <1>3, <1>4, <1>5, <1>6 DEF Next

-----------------------------------------------------------------------------
\* The inductive invariant holds in every reachable state.
THEOREM Inductive == Spec => []IInv
<1>1. IInv /\ [Next]_vars => IInv'
  BY NextTypeOK, NextLocksInv, NextWakerInv DEF IInv
<1> QED
  BY InitIInv, <1>1, PTL DEF Spec

\* acquiresleep and releasesleep enforce mutual exclusion, and lk->pid names
\* the holder, for any number of processes.
THEOREM SleepLockExclusive == Spec => []MutualExclusion
<1>1. IInv => MutualExclusion
  BY DEF IInv, LocksInv, MutualExclusion, HoldingSleep
<1> QED
  BY Inductive, <1>1, PTL

\* No wakeup is lost between the test of lk->locked and the state change in
\* sleep(), for any number of processes.
THEOREM SleepLockWakes == Spec => []NoLostWakeup
<1>1. IInv => NoLostWakeup
  BY DEF IInv, WakerInv, Committed, Waker, NoLostWakeup
<1> QED
  BY Inductive, <1>1, PTL

\* Type correctness of the sleep lock.
THEOREM SleepLockTypes == Spec => []TypeOK
<1>1. IInv => TypeOK
  BY DEF IInv
<1> QED
  BY Inductive, <1>1, PTL
=============================================================================
