------------------------------ MODULE VmSteps -------------------------------
(***************************************************************************)
(* The steps of the system of processes on their pages, for any number of  *)
(* processes: each step changes the memory of one process, by pages that   *)
(* it takes from or gives to the free list, and is a step of AddressSpace. *)
(***************************************************************************)
EXTENDS Umalloc, PageTableProofs

\* Zenon is the prover of a leaf that names no other.
USE ZenonT(60)

-----------------------------------------------------------------------------
(* The pages of all processes *)

\* A slot of the process table.
InUse(pr) ==
    /\ pr = [state |-> pr.state, kstack |-> pr.kstack, pd |-> pr.pd, sz |-> pr.sz]
    /\ pr.state \in {"run", "zombie"} /\ pr.kstack \in Frames
    /\ pr.pd \in Pgdirs /\ Distinct(pr.pd) /\ pr.pd.dir # 0 /\ pr.kstack \notin Held(pr.pd)
    /\ pr.sz \in Nat /\ pr.sz < KERNBASE /\ (Spans(pr.pd, pr.sz) \/ NoPages(pr.pd))

OkProc(pr) == pr = Unused \/ InUse(pr)

\* The pages of a process: see Owned.
Has(pr) == Held(pr.pd) \cup ({pr.kstack} \ {0})

\* Memory n and process table P: every page is free or has one owner.
GoodVm(n, P) ==
    /\ n \in Mems /\ n.panic = "none" /\ P = [p \in Procs |-> P[p]]
    /\ \A p \in Procs : OkProc(P[p]) /\ n.free \cap Has(P[p]) = {}
    /\ \A p, q \in Procs : p # q => Has(P[p]) \cap Has(P[q]) = {}
    /\ \A x \in Frames : x \in n.free \/ \E p \in Procs : x \in Has(P[p])

VmIInv == GoodVm(m, proc)

\* A call replaces the memory n by n2 and the slot pr by pr2: the pages of the
\* one are those of the other, and no other pages are written.
Turnover(n, pr, n2, pr2) ==
    /\ n2 \in Mems /\ n2.panic = "none" /\ OkProc(pr2)
    /\ n2.free \cap Has(pr2) = {} /\ n2.free \cup Has(pr2) = n.free \cup Has(pr)
    /\ \A x \in Frames \ (n.free \cup Has(pr)) : n2.mem[x] = n.mem[x]

\* An unused slot has no pages.
LEMMA UnusedHas ==
    Unused.pd = NoPgdir /\ Unused.kstack = 0 /\ Unused.state = "unused" /\ Has(Unused) = {}
<1>1. Unused.pd = NoPgdir /\ Unused.kstack = 0 /\ Unused.state = "unused"
  BY SMTT(60) DEF Unused
<1>2. Has(Unused) = Held(NoPgdir) \cup ({0} \ {0})
  BY <1>1 DEF Has
<1> QED
  BY <1>1, <1>2, NoPgdirFacts, SMTT(60)

\* A slot in use has its pages, and its stack besides.
LEMMA InUseHolds ==
    ASSUME NEW n, n \in Mems, NEW pr, InUse(pr), n.free \cap Has(pr) = {}
    PROVE  /\ Has(pr) = Held(pr.pd) \cup {pr.kstack} /\ Holds(n, pr.pd, n.free \cup Held(pr.pd))
           /\ pr.kstack \notin n.free \cup Held(pr.pd)
<1>1. PICK H, k, F : H = Held(pr.pd) /\ k = pr.kstack /\ F = n.free
  OBVIOUS
<1>2. k # 0 /\ k \notin H /\ pr.pd \in Pgdirs /\ Distinct(pr.pd)
  BY <1>1, FrameFacts DEF InUse
<1>3. Has(pr) = H \cup ({k} \ {0}) /\ F \cap Has(pr) = {}
  BY <1>1 DEF Has
<1>4. Has(pr) = H \cup {k} /\ F \cap H = {} /\ k \notin F \cup H
  BY <1>2, <1>3, SMTT(60)
<1> QED
  BY <1>1, <1>2, <1>4 DEF Holds

\* A turn of a slot does not depend on the number of pages other calls leave.
LEMMA RecountedTurn ==
    ASSUME NEW n, NEW pr, NEW n2, NEW pr2, Turnover(n, pr, n2, pr2), NEW n3, Recounted(n2, n3)
    PROVE  Turnover(n, pr, n3, pr2)
  BY DEF Turnover, Recounted

-----------------------------------------------------------------------------
(* fork *)

\* np is a copy of pr, page by page.
CopyOf(n, pr, n2, np) ==
    \A u \in Vpns : /\ np.pd.pte[u].pa # 0 <=> pr.pd.pte[u].pa # 0
                    /\ pr.pd.pte[u].pa # 0 => n2.mem[np.pd.pte[u].pa] = n.mem[pr.pd.pte[u].pa]

-----------------------------------------------------------------------------
(* sbrk and exec *)

\* A process with another page table.
WithSpace(pr, pd, sz) == [state |-> pr.state, kstack |-> pr.kstack, pd |-> pd, sz |-> sz]

Made(pr, a, b, c, d) == pr = [state |-> a, kstack |-> b, pd |-> c, sz |-> d]

Moved(P, p, pd, sz) == [P EXCEPT ![p].pd = pd, ![p].sz = sz]
At(P, p, np) == [P EXCEPT ![p] = np]

\* It has the pages that the old one and the free list had.
LEMMA SpaceTurn ==
    ASSUME NEW n, n \in Mems, NEW pr, InUse(pr), n.free \cap Has(pr) = {}, NEW n2, NEW pd, NEW sz,
           NEW R, R = n.free \cup Held(pr.pd), Holds(n2, pd, R), n2.panic = "none", pd.dir # 0,
           sz \in Nat, sz < KERNBASE, Spans(pd, sz) \/ NoPages(pd), \A x \in Frames \ R : n2.mem[x] = n.mem[x]
    PROVE  Turnover(n, pr, n2, WithSpace(pr, pd, sz)) /\ InUse(WithSpace(pr, pd, sz))
<1>1. PICK np : np = WithSpace(pr, pd, sz)
  OBVIOUS
<1>2. /\ np.state = pr.state /\ np.kstack = pr.kstack /\ np.pd = pd /\ np.sz = sz
      /\ np = [state |-> np.state, kstack |-> np.kstack, pd |-> np.pd, sz |-> np.sz]
  BY <1>1, SMTT(60) DEF WithSpace
<1>3. PICK k, H, C, F : k = pr.kstack /\ H = Held(pr.pd) /\ C = Held(pd) /\ F = n.free
  OBVIOUS
<1>4. Has(pr) = H \cup {k} /\ k \notin F \cup H
  BY <1>3, InUseHolds
<1>5. n2 \in Mems /\ pd \in Pgdirs /\ Distinct(pd) /\ n2.free \cap C = {} /\ n2.free \cup C = F \cup H
  BY <1>3 DEF Holds
<1>6. k \notin C /\ k \notin n2.free
  BY <1>4, <1>5, SMTT(60)
<1>7. pr.state \in {"run", "zombie"} /\ k \in Frames /\ k # 0
  BY <1>3, FrameFacts DEF InUse
<1>8. InUse(np)
  BY <1>2, <1>3, <1>5, <1>6, <1>7 DEF InUse
<1>9. Has(np) = C \cup ({k} \ {0})
  BY <1>2, <1>3 DEF Has
<1>10. n2.free \cap Has(np) = {} /\ n2.free \cup Has(np) = F \cup Has(pr)
  BY <1>4, <1>5, <1>6, <1>7, <1>9, SMTT(60)
<1>11. \A x \in Frames \ (F \cup Has(pr)) : n2.mem[x] = n.mem[x]
  <2>1. \A x \in Frames \ (F \cup Has(pr)) : x \in Frames \ R
    BY <1>3, <1>4, SMTT(60)
  <2> QED
    BY <2>1
<1> QED
  BY <1>1, <1>3, <1>5, <1>8, <1>10, <1>11 DEF Turnover, OkProc

-----------------------------------------------------------------------------
(* exit, wait, and the kernel's use of user memory *)

\* What a record has.
LEMMA MadeFields ==
    ASSUME NEW pr, NEW a, NEW b, NEW c, NEW d, Made(pr, a, b, c, d)
    PROVE  /\ pr.state = a /\ pr.kstack = b /\ pr.pd = c /\ pr.sz = d
           /\ pr = [state |-> pr.state, kstack |-> pr.kstack, pd |-> pr.pd, sz |-> pr.sz]
  BY SMTT(60) DEF Made

Ended(pr) == [pr EXCEPT !.state = "zombie"]

\* A process that runs.
LEMMA RunsFacts ==
    ASSUME GoodVm(m, proc), NEW p \in Procs, Runs(p), NEW pr, pr = proc[p]
    PROVE  /\ InUse(pr) /\ Spans(pr.pd, pr.sz) /\ m.free \cap Has(pr) = {} /\ pr.state = "run"
           /\ pr.sz \in Nat \ {0} /\ pr.sz < KERNBASE /\ m \in Mems /\ m.panic = "none"
<1>1. OkProc(pr) /\ m.free \cap Has(pr) = {} /\ m \in Mems /\ m.panic = "none"
  BY DEF GoodVm
<1>2. pr.state = "run" /\ 0 \in Vpns /\ pr.pd.pte[0].pa # 0
  BY DEF Runs, Up, Mapped
<1>3. "run" # "unused"
  BY SMTT(60)
<1>4. InUse(pr)
  BY <1>1, <1>2, <1>3, UnusedHas DEF OkProc
<1>5. Spans(pr.pd, pr.sz) /\ pr.sz \in Nat /\ pr.sz < KERNBASE
  BY <1>2, <1>4 DEF InUse, NoPages
<1>6. PICK s : s = pr.sz
  OBVIOUS
<1>7. 0 < PageUp(s)
  BY <1>2, <1>5, <1>6 DEF Spans
<1>8. s \in Nat /\ 0 * PGSIZE < s
  BY <1>5, <1>6, <1>7, PageUpBelow, SMTT(60)
<1>9. s \in Nat \ {0}
  BY <1>8, UserPart, SMTT(60)
<1> QED
  BY <1>1, <1>2, <1>4, <1>5, <1>6, <1>9

-----------------------------------------------------------------------------
(* The steps of the system *)

\* The memory a call finds, and the memory it leaves.
LEMMA MemoriesAre == ASSUME Counting, m \in Mems, NEW n \in Memories PROVE Recounted(m, n)
<1>1. Cardinality(m.free) \in Nat
  BY MemFields, PagesCounted
<1>2. PICK j \in 0 .. Cardinality(m.free) : n = [m EXCEPT !.left = j]
  BY DEF Memories
<1>3. j \in Nat
  BY <1>1, <1>2, SMTT(60)
<1> QED
  BY <1>2, <1>3, SetLeft

\* After a call the number of pages left for it is forgotten.
LEMMA DoneIs == ASSUME NEW n \in Mems, Done(n) PROVE Recounted(n, m')
<1>1. m' = [n EXCEPT !.left = 0]
  BY DEF Done
<1>2. 0 \in Nat
  BY SMTT(60)
<1> QED
  BY <1>1, <1>2, SetLeft

\* One slot changes.
Turned(p, np) == Turnover(m, proc[p], m', np) /\ proc' = [proc EXCEPT ![p] = np]

\* Between the two memories, the pages np keeps from pr are as they were, and
\* its others are zero.
Regrown(n, pr, n2, np) ==
    \A u \in Vpns : np.pd.pte[u].pa # 0 =>
        /\ pr.pd.pte[u].pa # 0 => n2.mem[np.pd.pte[u].pa] = n.mem[pr.pd.pte[u].pa]
        /\ pr.pd.pte[u].pa = 0 => n2.mem[np.pd.pte[u].pa] = "zero"

\* The pages of pr are as they were, or hold what was stored there.
StoredIn(n, pr, n2) ==
    \A u \in Vpns : pr.pd.pte[u].pa # 0 =>
        n2.mem[pr.pd.pte[u].pa] = n.mem[pr.pd.pte[u].pa] \/ n2.mem[pr.pd.pte[u].pa] \in Values

\* What the steps do: fork, sbrk, exec, exit, wait and stores.
Copies(p) ==
    \E q \in Procs : \E np : /\ Turned(q, np) /\ proc[q] = Unused
                             /\ np = Unused \/ (np.state = "run" /\ CopyOf(m, proc[p], m', np))
Regrows(p) ==
    \E np : Turned(p, np) /\ InUse(np) /\ Regrown(m, proc[p], m', np)
Replaces(p) ==
    \E np : \E prog \in Programs : Turned(p, np) /\ InUse(np) /\ HasImage(m', np.pd, np.sz, prog)
Ends(p) == Turned(p, Ended(proc[p])) /\ m' = m /\ InUse(proc[p])
Reaps(p) == Turned(p, Unused)
Writes(p) == Turned(p, proc[p]) /\ StoredIn(m, proc[p], m')

\* A call that leaves the slots alone.
LEMMA Unturned ==
    ASSUME GoodVm(m, proc), NEW p \in Procs, UNCHANGED proc PROVE proc' = [proc EXCEPT ![p] = proc[p]]
<1>1. proc = [q \in Procs |-> proc[q]]
  BY DEF GoodVm
<1> QED
  BY <1>1, SMTT(60)

\* fork: a free slot gets a copy of the parent, or nothing changes.
LEMMA ForkStep ==
    ASSUME Counting
    PROVE  \A p \in Procs :
               /\ GoodVm(m, proc)
               /\ Fork(p)
               => Copies(p)
<1> DEFINE ForkEnd(c, page, sz) ==
               IF c.pd.dir = 0 THEN [m |-> Kfree(c.m, {page}), np |-> Unused]
               ELSE [m |-> c.m, np |-> [state |-> "run", kstack |-> page, pd |-> c.pd, sz |-> sz]]
<1> DEFINE ForkStack(k, pd, sz) ==
               IF k.page = 0 THEN [m |-> k.m, np |-> Unused]
               ELSE Let(Copyuvm(k.m, pd, sz), LAMBDA c : ForkEnd(c, k.page, sz))
\* fork's part in memory: a stack and a copy of the parent, or everything as it was.
<1> DEFINE ForkTurns(n, pr, f) ==
               /\ Turnover(n, Unused, f.m, f.np)
               /\ f.np = Unused \/ (f.np.state = "run" /\ CopyOf(n, pr, f.m, f.np))
<1> HIDE DEF ForkEnd, ForkStack, ForkTurns
\* Nothing changes.
<1>1. ASSUME NEW n, n \in Mems, n.panic = "none", NEW pr, OkProc(pr), n.free \cap Has(pr) = {}
      PROVE  Turnover(n, pr, n, pr)
  BY <1>1 DEF Turnover
<1>2. ASSUME NEW n, n \in Mems, n.panic = "none", NEW p, NEW pr, pr = proc[p], InUse(pr), Spans(pr.pd, pr.sz),
             n.free \cap Has(pr) = {}, NEW f, f = Forked(n, p)
      PROVE  ForkTurns(n, pr, f)
  <2> USE <1>2
  <2>1. PICK pd, sz : pd = pr.pd /\ sz = pr.sz
    OBVIOUS
  <2>2. pd \in Pgdirs /\ sz \in Nat /\ sz < KERNBASE /\ Spans(pd, sz) /\ Holds(n, pd, n.free \cup Held(pd))
    BY <2>1, InUseHolds DEF InUse
  <2>3. PICK k : k = Kalloc(n)
    OBVIOUS
  <2>4. Taken(n, k)
    BY <2>3, KallocTakes
  <2>5. f = ForkStack(k, pd, sz)
    <3>1. (CHOOSE y \in {ForkStack(w, proc[p].pd, proc[p].sz) : w \in {k}} : TRUE) = ForkStack(k, proc[p].pd, proc[p].sz)
      BY SMTT(60)
    <3>2. f = ForkStack(k, proc[p].pd, proc[p].sz)
      BY <2>3, <3>1 DEF Forked, Let, ForkStack, ForkEnd
    <3> QED
      BY <2>1, <3>2
  <2>6. CASE k.page = 0
    <3>1. f = [m |-> n, np |-> Unused]
      BY <2>4, <2>5, <2>6, FrameFacts DEF ForkStack, Taken
    <3>2. f.m = n /\ f.np = Unused
      BY <3>1, SMTT(60)
    <3>3. n.free \cap Has(Unused) = {} /\ OkProc(Unused)
      BY UnusedHas DEF OkProc
    <3> QED
      BY <3>2, <3>3, <1>1 DEF ForkTurns
  <2>7. CASE k.page # 0
    <3>1. PICK x, g, R : x = k.m /\ g = k.page /\ R = x.free
      OBVIOUS
    <3>2. /\ x \in Mems /\ x.panic = n.panic /\ x.mem = n.mem
          /\ g \in n.free /\ g \in Frames /\ g # 0 /\ R = n.free \ {g}
      BY <2>4, <2>7, <3>1 DEF Taken
    <3>3. PICK F, H : F = n.free /\ H = Held(pd)
      OBVIOUS
    <3>4. F \cap H = {} /\ F \subseteq Frames
      BY <2>2, <3>3, MemFields DEF Holds
    <3>5. H \cap R = {} /\ R \cup {g} = F /\ g \notin R /\ R \subseteq F
      BY <3>2, <3>3, <3>4, SMTT(60)
    <3>6. Other(pd, x.free)
      BY <2>2, <3>1, <3>3, <3>5 DEF Other
    <3>7. PICK c : c = Copyuvm(x, pd, sz)
      OBVIOUS
    <3>8. PICK v : v = PageUp(sz) - 1
      OBVIOUS
    <3>9. Copying(x, pd, R, v, c)
      <4>1. Copying(x, pd, x.free, PageUp(sz) - 1, Copyuvm(x, pd, sz))
        BY <2>2, <3>2, <3>6, CopyuvmCopies
      <4> QED
        BY <3>1, <3>7, <3>8, <4>1
    <3>10. f = ForkEnd(c, g, sz)
      <4>1. (CHOOSE y \in {ForkEnd(w, g, sz) : w \in {c}} : TRUE) = ForkEnd(c, g, sz)
        BY SMTT(60)
      <4> QED
        BY <2>5, <2>7, <3>1, <3>7, <4>1 DEF ForkStack, Let
    <3>11. c.m.panic = n.panic /\ \A y \in Frames \ R : c.m.mem[y] = n.mem[y]
      BY <3>2, <3>9 DEF Copying
    <3>12. CASE c.pd = NoPgdir /\ c.m \in Mems /\ c.m.free = R
      <4>1. c.pd.dir = 0
        BY <3>12, NoPgdirFacts
      <4>2. PICK y : y = Kfree(c.m, {g})
        OBVIOUS
      <4>3. {g} \subseteq Frames
        BY <3>2, SMTT(60)
      <4>4. Given(c.m, {g}, y)
        BY <3>12, <4>2, <4>3, KfreeGives
      <4>5. y \in Mems /\ y.panic = "none" /\ y.free = F
        BY <3>5, <3>11, <3>12, <4>4 DEF Given
      <4>6. ASSUME NEW a \in Frames \ F PROVE y.mem[a] = n.mem[a]
        <5>1. a \in Frames /\ a \notin R /\ a \notin {g}
          BY <3>5, <4>6, SMTT(60)
        <5> QED
          BY <3>11, <4>4, <5>1 DEF Given
      <4>7. f = [m |-> y, np |-> Unused]
        BY <3>10, <4>1, <4>2 DEF ForkEnd
      <4>8. f.m = y /\ f.np = Unused
        BY <4>7, SMTT(60)
      <4>9. F \cup Has(Unused) = F /\ F \cap Has(Unused) = {} /\ OkProc(Unused)
        BY UnusedHas, SMTT(60) DEF OkProc
      <4>10. Turnover(n, Unused, y, Unused)
        BY <3>3, <4>5, <4>6, <4>9 DEF Turnover
      <4> QED
        BY <4>8, <4>10 DEF ForkTurns
    <3>13. CASE /\ c.pd.dir # 0 /\ Holds(c.m, c.pd, R)
                /\ \A u \in Vpns : IF u <= v THEN c.pd.pte[u].pa # 0 /\ c.m.mem[c.pd.pte[u].pa] = x.mem[pd.pte[u].pa]
                                   ELSE c.pd.pte[u].pa = 0
      <4>1. PICK np : np = [state |-> "run", kstack |-> g, pd |-> c.pd, sz |-> sz]
        OBVIOUS
      <4>2. f = [m |-> c.m, np |-> np]
        BY <3>10, <3>13, <4>1 DEF ForkEnd
      <4>3. f.m = c.m /\ f.np = np
        BY <4>2, SMTT(60)
      <4>4. /\ np.state = "run" /\ np.kstack = g /\ np.pd = c.pd /\ np.sz = sz
            /\ np = [state |-> np.state, kstack |-> np.kstack, pd |-> np.pd, sz |-> np.sz]
        BY <4>1, SMTT(60)
      <4>5. \A u \in Vpns : u <= v <=> u < PageUp(sz)
        <5>1. PageUp(sz) \in Nat /\ Vpns \subseteq Nat
          BY <2>2, PageUpBelow, VpnFacts
        <5> QED
          BY <3>8, <5>1, SMTT(60)
      <4>6. Spans(c.pd, sz)
        BY <3>13, <4>5 DEF Spans
      <4>7. PICK C : C = Held(c.pd)
        OBVIOUS
      <4>8. c.m \in Mems /\ c.pd \in Pgdirs /\ Distinct(c.pd) /\ c.m.free \cap C = {} /\ c.m.free \cup C = R
        BY <3>13, <4>7 DEF Holds
      <4>9. g \notin C /\ g \notin c.m.free
        BY <3>5, <4>8, SMTT(60)
      <4>10. InUse(np)
        BY <2>2, <3>2, <3>13, <4>4, <4>6, <4>7, <4>8, <4>9 DEF InUse
      <4>11. Has(np) = C \cup ({g} \ {0})
        BY <4>4, <4>7 DEF Has
      <4>12. c.m.free \cap Has(np) = {} /\ c.m.free \cup Has(np) = F /\ F \cup Has(Unused) = F
        BY <3>2, <3>5, <4>8, <4>9, <4>11, UnusedHas, SMTT(60)
      <4>13. \A a \in Frames \ F : c.m.mem[a] = n.mem[a]
        BY <3>5, <3>11, SMTT(60)
      <4>14. Turnover(n, Unused, c.m, np)
        BY <3>3, <3>11, <4>8, <4>10, <4>12, <4>13 DEF Turnover, OkProc
      <4>15. CopyOf(n, pr, c.m, np)
        BY <2>1, <2>2, <3>2, <3>13, <4>4, <4>5 DEF CopyOf, Spans
      <4> QED
        BY <4>3, <4>4, <4>14, <4>15 DEF ForkTurns
    <3> QED
      BY <3>9, <3>12, <3>13 DEF Copying
  <2> QED
    BY <2>6, <2>7
<1>3. ASSUME GoodVm(m, proc), NEW p \in Procs, Fork(p) PROVE Copies(p)
  <2> USE <1>3
  <2>1. Runs(p)
    BY DEF Fork
  <2>2. PICK q \in Procs, n \in Memories : proc[q] = Unused /\ \E f \in {Forked(n, p)} : Done(f.m) /\ proc' = [proc EXCEPT ![q] = f.np]
    BY DEF Fork
  <2>3. PICK f : f = Forked(n, p) /\ Done(f.m) /\ proc' = [proc EXCEPT ![q] = f.np]
    BY <2>2
  <2>4. PICK pr : pr = proc[p]
    OBVIOUS
  <2>5. InUse(pr) /\ Spans(pr.pd, pr.sz) /\ m.free \cap Has(pr) = {} /\ m \in Mems /\ m.panic = "none"
    BY <2>1, <2>4, RunsFacts
  <2>6. Recounted(m, n)
    BY <2>5, MemoriesAre
  <2>7. n \in Mems /\ n.panic = "none" /\ n.free = m.free /\ n.mem = m.mem
    BY <2>5, <2>6 DEF Recounted
  <2>8. n.free \cap Has(pr) = {}
    BY <2>5, <2>7
  <2>9. ForkTurns(n, pr, f)
    BY <2>3, <2>4, <2>5, <2>7, <2>8, <1>2
  <2>10. PICK x, np : x = f.m /\ np = f.np
    OBVIOUS
  <2>11. Turnover(n, Unused, x, np) /\ (np = Unused \/ (np.state = "run" /\ CopyOf(n, pr, x, np)))
    BY <2>9, <2>10 DEF ForkTurns
  <2>12. Recounted(x, m')
    BY <2>3, <2>10, <2>11, DoneIs DEF Turnover
  <2>13. Turnover(n, Unused, m', np)
    BY <2>11, <2>12, RecountedTurn
  <2>14. Turnover(m, proc[q], m', np)
    BY <2>2, <2>7, <2>13 DEF Turnover
  <2>15. np = Unused \/ (np.state = "run" /\ CopyOf(m, pr, m', np))
    BY <2>7, <2>11, <2>12 DEF CopyOf, Recounted
  <2> QED
    BY <2>2, <2>3, <2>4, <2>10, <2>14, <2>15 DEF Copies, Turned
<1> QED
  BY <1>3

\* growproc and exec change the page table and the size of a slot.
LEMMA MovedIs ==
    \A p \in Procs :
        /\ GoodVm(m, proc)
        /\ InUse(proc[p])
        => \A pd, sz : Moved(proc, p, pd, sz) = At(proc, p, WithSpace(proc[p], pd, sz))
<1> DEFINE Table(P) == P = [q \in Procs |-> P[q]]
<1> HIDE DEF Table
<1>1. ASSUME NEW pr, NEW a, NEW b, NEW c, NEW d, Made(pr, a, b, c, d), NEW pd, NEW sz
      PROVE  Made([[pr EXCEPT !.pd = pd] EXCEPT !.sz = sz], a, b, pd, sz)
  <2> USE <1>1
  <2>0. pr = [state |-> a, kstack |-> b, pd |-> c, sz |-> d]
    BY DEF Made
  <2>1. PICK x : x = [pr EXCEPT !.pd = pd]
    OBVIOUS
  <2>2. x = [state |-> a, kstack |-> b, pd |-> pd, sz |-> d]
    BY <2>0, <2>1, SMTT(60)
  <2>3. [x EXCEPT !.sz = sz] = [state |-> a, kstack |-> b, pd |-> pd, sz |-> sz]
    BY <2>2, SMTT(60)
  <2> QED
    BY <2>1, <2>3 DEF Made
<1>2. ASSUME NEW pr, InUse(pr), NEW pd, NEW sz
      PROVE  [[pr EXCEPT !.pd = pd] EXCEPT !.sz = sz] = WithSpace(pr, pd, sz)
  <2> USE <1>2
  <2>1. Made(pr, pr.state, pr.kstack, pr.pd, pr.sz)
    BY DEF InUse, Made
  <2>2. Made([[pr EXCEPT !.pd = pd] EXCEPT !.sz = sz], pr.state, pr.kstack, pd, sz)
    BY <2>1, <1>1
  <2> QED
    BY <2>2 DEF WithSpace, Made
<1>3. ASSUME NEW P, P = [q \in Procs |-> P[q]], NEW p \in Procs, NEW a, NEW b
      PROVE  [P EXCEPT ![p].pd = a, ![p].sz = b] = [P EXCEPT ![p] = [[P[p] EXCEPT !.pd = a] EXCEPT !.sz = b]]
  BY <1>3
<1>4. ASSUME NEW P, Table(P), NEW p \in Procs, InUse(P[p]), NEW pd, NEW sz
      PROVE  Moved(P, p, pd, sz) = At(P, p, WithSpace(P[p], pd, sz))
  <2> USE <1>4
  <2>1. [[P[p] EXCEPT !.pd = pd] EXCEPT !.sz = sz] = WithSpace(P[p], pd, sz)
    BY <1>2
  <2> QED
    BY <2>1, <1>3 DEF Table, Moved, At
<1>5. ASSUME GoodVm(m, proc), NEW p \in Procs, InUse(proc[p])
      PROVE  \A pd, sz : Moved(proc, p, pd, sz) = At(proc, p, WithSpace(proc[p], pd, sz))
  <2> USE <1>5
  <2>1. Table(proc)
    BY DEF GoodVm, Table
  <2> QED
    BY <2>1, <1>4
<1> QED
  BY <1>5

\* sbrk, and malloc's morecore.
LEMMA GrowStep ==
    ASSUME Counting
    PROVE  \A p \in Procs : \A delta \in Int : \A n \in Memories : \A r :
               /\ GoodVm(m, proc)
               /\ Runs(p)
               /\ r = Growproc(n, p, delta)
               /\ Done(r.m)
               /\ proc' = Moved(proc, p, r.pd, r.sz)
               => Regrows(p)
\* sbrk.
<1>1. ASSUME NEW n, n \in Mems, n.panic = "none", NEW p, NEW pr, pr = proc[p], InUse(pr), Spans(pr.pd, pr.sz),
             n.free \cap Has(pr) = {}, NEW delta \in Int, NEW r, r = Growproc(n, p, delta)
      PROVE  /\ Turnover(n, pr, r.m, WithSpace(pr, r.pd, r.sz)) /\ InUse(WithSpace(pr, r.pd, r.sz))
             /\ Resized(n, pr.pd, pr.sz, r)
  <2> USE <1>1
  <2>1. PICK pd, sz : pd = pr.pd /\ sz = pr.sz
    OBVIOUS
  <2>2. /\ sz \in Nat /\ sz < KERNBASE /\ Spans(pd, sz) /\ Holds(n, pd, n.free \cup Held(pd)) /\ pd.dir # 0
        /\ pd = proc[p].pd /\ sz = proc[p].sz
    BY <2>1, InUseHolds DEF InUse
  <2>3. Resized(n, pd, sz, r)
    BY <2>2, GrowprocResizes
  <2>4. PICK R : R = n.free \cup Held(pd)
    OBVIOUS
  <2>5. /\ Holds(r.m, r.pd, R) /\ r.m.panic = "none" /\ r.pd.dir # 0 /\ r.sz \in Nat /\ r.sz < KERNBASE
        /\ Spans(r.pd, r.sz) \/ NoPages(r.pd)
        /\ \A x \in Frames \ R : r.m.mem[x] = n.mem[x]
    BY <2>2, <2>3, <2>4 DEF Resized
  <2>6. PICK n2, q, s : n2 = r.m /\ q = r.pd /\ s = r.sz
    OBVIOUS
  <2>7. Turnover(n, pr, n2, WithSpace(pr, q, s)) /\ InUse(WithSpace(pr, q, s))
    <3>1. /\ Holds(n2, q, R) /\ n2.panic = "none" /\ q.dir # 0 /\ s \in Nat /\ s < KERNBASE
          /\ Spans(q, s) \/ NoPages(q)
          /\ \A x \in Frames \ R : n2.mem[x] = n.mem[x]
      BY <2>5, <2>6
    <3>2. R = n.free \cup Held(pr.pd)
      BY <2>1, <2>4
    <3> QED
      BY <3>1, <3>2, SpaceTurn
  <2> QED
    BY <2>1, <2>3, <2>6, <2>7
<1>2. ASSUME GoodVm(m, proc), NEW p \in Procs, Runs(p), NEW delta \in Int, NEW n \in Memories,
             NEW r, r = Growproc(n, p, delta), Done(r.m), proc' = Moved(proc, p, r.pd, r.sz)
      PROVE  Regrows(p)
  <2> USE <1>2
  <2>1. PICK pr : pr = proc[p]
    OBVIOUS
  <2>2. /\ InUse(pr) /\ Spans(pr.pd, pr.sz) /\ m.free \cap Has(pr) = {} /\ m \in Mems /\ m.panic = "none"
    BY <2>1, RunsFacts
  <2>3. Recounted(m, n)
    BY <2>2, MemoriesAre
  <2>4. n \in Mems /\ n.panic = "none" /\ n.free = m.free /\ n.mem = m.mem
    BY <2>2, <2>3 DEF Recounted
  <2>5. n.free \cap Has(pr) = {}
    BY <2>2, <2>4
  <2>6. PICK np : np = WithSpace(pr, r.pd, r.sz)
    OBVIOUS
  <2>7. Turnover(n, pr, r.m, np) /\ InUse(np) /\ Resized(n, pr.pd, pr.sz, r)
    BY <2>1, <2>2, <2>4, <2>5, <2>6, <1>1
  <2>8. np.pd = r.pd
    BY <2>6, SMTT(60) DEF WithSpace
  <2>9. r.m \in Mems
    BY <2>7 DEF Turnover
  <2>10. Recounted(r.m, m')
    BY <2>9, DoneIs
  <2>11. Turnover(n, pr, m', np)
    BY <2>7, <2>10, RecountedTurn
  <2>12. Turnover(m, pr, m', np)
    BY <2>4, <2>11 DEF Turnover
  <2>13. InUse(proc[p])
    BY <2>1, <2>2
  <2>14. \A pd, sz : Moved(proc, p, pd, sz) = At(proc, p, WithSpace(proc[p], pd, sz))
    BY <2>13, MovedIs
  <2>15. proc' = At(proc, p, np)
    BY <2>1, <2>6, <2>14
  <2>16. proc' = [proc EXCEPT ![p] = np]
    BY <2>15 DEF At
  <2>17. Regrown(m, pr, m', np)
    <3>1. m'.mem = r.m.mem
      BY <2>10 DEF Recounted
    <3>2. \A u \in Vpns : (pr.pd.pte[u].pa # 0 => u < PageUp(pr.sz)) /\ (pr.pd.pte[u].pa = 0 => PageUp(pr.sz) <= u)
      <4>1. PageUp(pr.sz) \in Nat /\ Vpns \subseteq Nat
        BY <2>2, PageUpBelow, VpnFacts DEF InUse
      <4>2. \A u \in Vpns : u < PageUp(pr.sz) \/ PageUp(pr.sz) <= u
        BY <4>1, NatOrder
      <4> QED
        BY <2>2, <4>2 DEF Spans
    <3> QED
      BY <2>4, <2>7, <2>8, <3>1, <3>2 DEF Regrown, Resized
  <2> QED
    BY <2>1, <2>7, <2>12, <2>16, <2>17 DEF Regrows, Turned
<1> QED
  BY <1>2

\* exec: the new image replaces the old one, or nothing changes but free pages.
LEMMA ExecStep ==
    ASSUME Counting
    PROVE  \A p \in Procs : \A prog \in Programs :
               /\ GoodVm(m, proc)
               /\ Exec(p, prog)
               => Replaces(p) \/ Writes(p) \/ UNCHANGED <<m, proc>>
<1> DEFINE ExecTurns(n, pr, prog, r, k) ==
               /\ Turnover(n, pr, k, WithSpace(pr, r.pd, r.sz)) /\ InUse(WithSpace(pr, r.pd, r.sz))
               /\ HasImage(k, r.pd, r.sz, prog)
\* exec that fails: everything is as it was.
<1> DEFINE Untouched(n, n2) == \A x \in Frames \ n.free : n2.mem[x] = n.mem[x]
<1> HIDE DEF ExecTurns, Untouched
\* exec: the old page table is freed once the new one is there.
<1>1. ASSUME NEW n, n \in Mems, n.panic = "none", NEW pr, InUse(pr), n.free \cap Has(pr) = {},
             NEW prog \in Programs, NEW r, r = Loaded(n, prog), r.ok, NEW k, k = Freevm(r.m, pr.pd)
      PROVE  ExecTurns(n, pr, prog, r, k)
  <2> USE <1>1
  <2>1. Loads(n, prog, r)
    BY LoadedLoads
  <2>2. PICK old, new, x, sz : old = pr.pd /\ new = r.pd /\ x = r.m /\ sz = r.sz
    OBVIOUS
  <2>3. /\ x.panic = n.panic /\ new.dir # 0 /\ Holds(x, new, n.free) /\ HasImage(x, new, sz, prog)
        /\ \A a \in Frames \ n.free : x.mem[a] = n.mem[a]
    BY <2>1, <2>2 DEF Loads
  <2>4. PICK F, X, C, H : F = n.free /\ X = x.free /\ C = Held(new) /\ H = Held(old)
    OBVIOUS
  <2>5. x \in Mems /\ new \in Pgdirs /\ Distinct(new) /\ X \cap C = {} /\ X \cup C = F
    BY <2>3, <2>4 DEF Holds
  <2>6. F \cap H = {} /\ old \in Pgdirs /\ Distinct(old)
    BY <2>2, <2>4, InUseHolds DEF Holds
  <2>7. X \cap H = {} /\ C \cap H = {} /\ C \cap X = {} /\ C \subseteq F
    BY <2>5, <2>6, SMTT(60)
  <2>8. PICK Q : Q = X \cup H
    OBVIOUS
  <2>9. Holds(x, old, Q)
    BY <2>4, <2>5, <2>6, <2>7, <2>8 DEF Holds
  <2>10. AllFree(x, Q, k)
    <3>1. old.dir # 0
      BY <2>2 DEF InUse
    <3> QED
      BY <2>2, <2>9, <3>1, FreevmFrees
  <2>11. k \in Mems /\ k.panic = "none" /\ k.free = Q /\ \A a \in Frames \ Q : k.mem[a] = x.mem[a]
    BY <2>3, <2>10 DEF AllFree
  <2>12. PICK R : R = F \cup H
    OBVIOUS
  <2>13. Q \cap C = {} /\ Q \cup C = R
    BY <2>5, <2>7, <2>8, <2>12, SMTT(60)
  <2>14. Holds(k, new, R)
    BY <2>4, <2>5, <2>11, <2>13 DEF Holds
  <2>15. ASSUME NEW a \in Frames \ R PROVE k.mem[a] = n.mem[a]
    <3>1. a \in Frames \ Q /\ a \in Frames \ F
      BY <2>5, <2>8, <2>12, <2>15, SMTT(60)
    <3> QED
      BY <2>3, <2>4, <2>11, <3>1
  <2>16. ASSUME NEW u \in Vpns, new.pte[u].pa # 0 PROVE k.mem[new.pte[u].pa] = x.mem[new.pte[u].pa]
    <3>1. PICK a : a = new.pte[u].pa
      OBVIOUS
    <3>2. a \in C
      BY <2>4, <2>16, <3>1, InHeld
    <3>3. a \in Frames
      BY <2>5, <2>16, <3>1, PdFields, SMTT(60)
    <3>4. a \in Frames \ Q
      BY <2>13, <3>2, <3>3, SMTT(60)
    <3> QED
      BY <2>11, <3>1, <3>4
  <2>17. HasImage(k, new, sz, prog)
    <3>1. sz \in Nat /\ sz < KERNBASE /\ Spans(new, sz)
      BY <2>3 DEF HasImage
    <3>2. PICK top \in Nat :
             /\ Tops(prog, Len(prog.segs), top) /\ PageUp(sz) = PageUp(top) + 2
             /\ \A u \in Vpns : u < PageUp(top) => x.mem[new.pte[u].pa] = Contents(prog, Len(prog.segs), u)
             /\ x.mem[new.pte[PageUp(top)].pa] = "zero" /\ x.mem[new.pte[PageUp(top) + 1].pa] = "args"
      BY <2>3 DEF HasImage
    <3>3. PICK t : t = PageUp(top)
      OBVIOUS
    <3>4. t \in Nat /\ PageUp(sz) <= UserPages /\ Vpns = 0 .. UserPages - 1 /\ UserPages \in Nat
      <4>1. sz <= KERNBASE
        BY <3>1, UserPart, SMTT(60)
      <4> QED
        BY <3>1, <3>3, <4>1, PageUpBelow, PageUpOrder, VpnFacts, UserPart, SMTT(60)
    <3>5. t \in Vpns /\ t + 1 \in Vpns /\ t < PageUp(sz) /\ t + 1 < PageUp(sz) /\ \A u \in Vpns : u < t => u < PageUp(sz)
      BY <3>2, <3>3, <3>4, SMTT(60)
    <3>6. k.mem[new.pte[t].pa] = "zero" /\ k.mem[new.pte[t + 1].pa] = "args"
      BY <2>16, <3>1, <3>2, <3>3, <3>5 DEF Spans
    <3>7. \A u \in Vpns : u < t => k.mem[new.pte[u].pa] = Contents(prog, Len(prog.segs), u)
      BY <2>16, <3>1, <3>2, <3>3, <3>5 DEF Spans
    <3> QED
      BY <3>1, <3>2, <3>3, <3>6, <3>7 DEF HasImage
  <2>18. sz \in Nat /\ sz < KERNBASE /\ Spans(new, sz)
    BY <2>17 DEF HasImage
  <2>19. Turnover(n, pr, k, WithSpace(pr, new, sz)) /\ InUse(WithSpace(pr, new, sz))
    <3>1. R = n.free \cup Held(pr.pd)
      BY <2>2, <2>4, <2>12
    <3> QED
      <4>1. Spans(new, sz) \/ NoPages(new)
        BY <2>18
      <4>2. k.panic = "none" /\ new.dir # 0
        BY <2>3, <2>11
      <4>3. \A a \in Frames \ R : k.mem[a] = n.mem[a]
        BY <2>15
      <4> QED
        BY <2>14, <2>18, <3>1, <4>1, <4>2, <4>3, SpaceTurn, ZenonT(60)
  <2> QED
    BY <2>2, <2>17, <2>19 DEF ExecTurns
\* That is how it leaves memory.
<1>2. ASSUME NEW n, n \in Mems, n.panic = "none", NEW pr, OkProc(pr), n.free \cap Has(pr) = {},
             NEW prog \in Programs, NEW r, r = Loaded(n, prog), ~r.ok
      PROVE  Turnover(n, pr, r.m, pr) /\ Untouched(n, r.m)
  <2> USE <1>2
  <2>1. Loads(n, prog, r)
    BY LoadedLoads
  <2>2. /\ r.m.panic = n.panic /\ r.m \in Mems /\ r.m.free = n.free
        /\ \A x \in Frames \ n.free : r.m.mem[x] = n.mem[x]
    BY <2>1 DEF Loads
  <2>3. \A x \in Frames \ (n.free \cup Has(pr)) : x \in Frames \ n.free
    BY SMTT(60)
  <2> QED
    BY <2>2, <2>3 DEF Turnover, Untouched
<1>3. ASSUME GoodVm(m, proc), NEW p \in Procs, NEW prog \in Programs, Exec(p, prog), ~UNCHANGED <<m, proc>>
      PROVE  Replaces(p) \/ Writes(p)
  <2> USE <1>3
  <2>1. Runs(p)
    BY DEF Exec
  <2>2. PICK n, r :
           /\ n \in Memories /\ r = Loaded(n, prog)
           /\ r.ok => Done(Freevm(r.m, proc[p].pd)) /\ proc' = Moved(proc, p, r.pd, r.sz)
           /\ ~r.ok => Done(r.m) /\ UNCHANGED proc
    <3>1. PICK n \in Memories : \E r \in {Loaded(n, prog)} :
             \/ IF r.ok THEN Done(Freevm(r.m, proc[p].pd)) /\ proc' = Moved(proc, p, r.pd, r.sz)
                ELSE Done(r.m) /\ UNCHANGED proc
             \/ r.stray /\ Fault("exec")
      BY DEF Exec, Moved
    <3>2. ~Fault("exec")
      BY DEF Fault
    <3> QED
      BY <3>1, <3>2
  <2>3. PICK pr : pr = proc[p]
    OBVIOUS
  <2>4. InUse(pr) /\ m.free \cap Has(pr) = {} /\ m \in Mems /\ m.panic = "none"
    BY <2>1, <2>3, RunsFacts
  <2>5. Recounted(m, n)
    BY <2>2, <2>4, MemoriesAre
  <2>6. n \in Mems /\ n.panic = "none" /\ n.free = m.free /\ n.mem = m.mem
    BY <2>4, <2>5 DEF Recounted
  <2>7. n.free \cap Has(pr) = {}
    BY <2>4, <2>6
  <2>8. CASE r.ok
    <3>1. PICK k : k = Freevm(r.m, pr.pd)
      OBVIOUS
    <3>2. ExecTurns(n, pr, prog, r, k)
      BY <2>2, <2>4, <2>6, <2>7, <2>8, <3>1, <1>1
    <3>3. PICK np : np = WithSpace(pr, r.pd, r.sz)
      OBVIOUS
    <3>4. np.pd = r.pd /\ np.sz = r.sz
      BY <3>3, SMTT(60) DEF WithSpace
    <3>5. Turnover(n, pr, k, np) /\ InUse(np) /\ HasImage(k, np.pd, np.sz, prog)
      BY <3>2, <3>3, <3>4 DEF ExecTurns
    <3>6. k \in Mems /\ Done(k)
      BY <2>2, <2>3, <2>8, <3>1, <3>5 DEF Turnover
    <3>7. Recounted(k, m')
      BY <3>6, DoneIs
    <3>8. Turnover(n, pr, m', np)
      BY <3>5, <3>7, RecountedTurn
    <3>9. Turnover(m, pr, m', np)
      BY <2>6, <3>8 DEF Turnover
    <3>10. HasImage(m', np.pd, np.sz, prog)
      BY <3>5, <3>7 DEF HasImage, Recounted
    <3>11. InUse(proc[p])
      BY <2>3, <2>4
    <3>12. \A pd, sz : Moved(proc, p, pd, sz) = At(proc, p, WithSpace(proc[p], pd, sz))
      BY <3>11, MovedIs
    <3>13. proc' = At(proc, p, np)
      BY <2>2, <2>3, <2>8, <3>3, <3>12
    <3>14. proc' = [proc EXCEPT ![p] = np]
      BY <3>13 DEF At
    <3>15. Turned(p, np)
      BY <2>3, <3>9, <3>14 DEF Turned
    <3> QED
      BY <3>5, <3>10, <3>15 DEF Replaces
  <2>9. CASE ~r.ok
    <3>1. Turnover(n, pr, r.m, pr) /\ Untouched(n, r.m)
      <4>1. OkProc(pr) /\ r = Loaded(n, prog)
        BY <2>2, <2>4 DEF OkProc
      <4> QED
        BY <2>6, <2>7, <2>9, <4>1, <1>2
    <3>2. r.m \in Mems /\ Done(r.m) /\ UNCHANGED proc
      BY <2>2, <2>9, <3>1 DEF Turnover
    <3>3. Recounted(r.m, m')
      BY <3>2, DoneIs
    <3>4. Turnover(n, pr, m', pr)
      BY <3>1, <3>3, RecountedTurn
    <3>5. Turnover(m, pr, m', pr)
      BY <2>6, <3>4 DEF Turnover
    <3>6. \A x \in Frames \ m.free : m'.mem[x] = m.mem[x]
      BY <2>6, <3>1, <3>3 DEF Recounted, Untouched
    <3>7. ASSUME NEW u \in Vpns, pr.pd.pte[u].pa # 0 PROVE m'.mem[pr.pd.pte[u].pa] = m.mem[pr.pd.pte[u].pa]
      <4>1. PICK x, H : x = pr.pd.pte[u].pa /\ H = Has(pr)
        OBVIOUS
      <4>2. x \in H
        BY <3>7, <4>1, InHeld DEF Has
      <4>3. x \in Frames
        BY <2>4, <3>7, <4>1, PdFields DEF InUse
      <4>4. x \in Frames \ m.free
        BY <2>4, <4>1, <4>2, <4>3, SMTT(60)
      <4> QED
        BY <3>6, <4>1, <4>4
    <3>8. StoredIn(m, pr, m')
      BY <3>7 DEF StoredIn
    <3>9. proc' = [proc EXCEPT ![p] = proc[p]]
      BY <3>2, Unturned
    <3> QED
      BY <2>3, <3>5, <3>8, <3>9 DEF Writes, Turned
  <2> QED
    BY <2>8, <2>9
<1> QED
  BY <1>3

\* A process that has ended or runs is in use.
LEMMA StateFacts ==
    ASSUME GoodVm(m, proc), NEW p \in Procs, NEW pr, pr = proc[p], pr.state # "unused"
    PROVE  InUse(pr) /\ m.free \cap Has(pr) = {} /\ m \in Mems /\ m.panic = "none"
  BY UnusedHas DEF GoodVm, OkProc

\* exit: the slot keeps its pages.
LEMMA ExitStep ==
    \A p \in Procs :
        /\ GoodVm(m, proc)
        /\ Exit(p)
        => Ends(p)
<1>1. ASSUME NEW pr, NEW a, NEW b, NEW c, NEW d, Made(pr, a, b, c, d)
      PROVE  Made([pr EXCEPT !.state = "zombie"], "zombie", b, c, d)
  <2> USE <1>1
  <2>1. pr = [state |-> a, kstack |-> b, pd |-> c, sz |-> d]
    BY DEF Made
  <2>2. [pr EXCEPT !.state = "zombie"] = [state |-> "zombie", kstack |-> b, pd |-> c, sz |-> d]
    BY <2>1, SMTT(60)
  <2> QED
    BY <2>2 DEF Made
\* exit keeps the memory for wait.
<1>2. ASSUME NEW n, n \in Mems, n.panic = "none", NEW pr, InUse(pr), n.free \cap Has(pr) = {}
      PROVE  /\ Turnover(n, pr, n, Ended(pr)) /\ InUse(Ended(pr))
             /\ Ended(pr).state = "zombie" /\ Ended(pr).pd = pr.pd
  <2> USE <1>2
  <2>1. Made(pr, pr.state, pr.kstack, pr.pd, pr.sz)
    BY DEF InUse, Made
  <2>2. PICK z : z = Ended(pr)
    OBVIOUS
  <2>3. Made(z, "zombie", pr.kstack, pr.pd, pr.sz)
    BY <2>1, <2>2, <1>1 DEF Ended
  <2>4. /\ z.state = "zombie" /\ z.kstack = pr.kstack /\ z.pd = pr.pd /\ z.sz = pr.sz
        /\ z = [state |-> z.state, kstack |-> z.kstack, pd |-> z.pd, sz |-> z.sz]
    BY <2>3, MadeFields
  <2>5. z.state \in {"run", "zombie"}
    BY <2>4, SMTT(60)
  <2>6. /\ pr.kstack \in Frames /\ pr.pd \in Pgdirs /\ Distinct(pr.pd) /\ pr.pd.dir # 0 /\ pr.kstack \notin Held(pr.pd)
        /\ pr.sz \in Nat /\ pr.sz < KERNBASE /\ (Spans(pr.pd, pr.sz) \/ NoPages(pr.pd))
    BY DEF InUse
  <2>7. InUse(z)
    BY <2>4, <2>5, <2>6 DEF InUse
  <2>8. Has(z) = Has(pr)
    BY <2>4 DEF Has
  <2>9. Turnover(n, pr, n, z)
    BY <2>7, <2>8 DEF Turnover, OkProc
  <2> QED
    BY <2>2, <2>4, <2>7, <2>9
<1>3. ASSUME GoodVm(m, proc), NEW p \in Procs, Exit(p) PROVE Ends(p)
  <2> USE <1>3
  <2>1. PICK pr : pr = proc[p]
    OBVIOUS
  <2>2. pr.state # "unused"
    BY <2>1, SMTT(60) DEF Exit
  <2>3. InUse(pr) /\ m.free \cap Has(pr) = {} /\ m \in Mems /\ m.panic = "none"
    BY <2>1, <2>2, StateFacts
  <2>4. Turnover(m, pr, m, Ended(pr))
    BY <2>3, <1>2
  <2>5. m' = m /\ proc' = [proc EXCEPT ![p].state = "zombie"]
    BY DEF Exit
  <2>6. [proc EXCEPT ![p].state = "zombie"] = [proc EXCEPT ![p] = Ended(proc[p])]
    BY DEF Ended
  <2> QED
    BY <2>1, <2>3, <2>4, <2>5, <2>6 DEF Ends, Turned
<1> QED
  BY <1>3

\* wait: the pages of the slot are free again.
LEMMA WaitStep ==
    \A p \in Procs :
        /\ GoodVm(m, proc)
        /\ Wait(p)
        => Reaps(p)
\* wait frees all that the process had.
<1>1. ASSUME NEW n, n \in Mems, n.panic = "none", NEW pr, InUse(pr), n.free \cap Has(pr) = {},
             NEW z, z = Freevm(Kfree(n, {pr.kstack}), pr.pd)
      PROVE  Turnover(n, pr, z, Unused)
  <2> USE <1>1
  <2>1. PICK k, pd, F, H : k = pr.kstack /\ pd = pr.pd /\ F = n.free /\ H = Held(pd)
    OBVIOUS
  <2>2. PICK R : R = F \cup H
    OBVIOUS
  <2>3. Has(pr) = H \cup {k} /\ Holds(n, pd, R) /\ k \notin R /\ k \in Frames
    BY <2>1, <2>2, InUseHolds DEF InUse
  <2>4. PICK y : y = Kfree(n, {k})
    OBVIOUS
  <2>5. {k} \subseteq Frames
    BY <2>3, SMTT(60)
  <2>6. Given(n, {k}, y)
    BY <2>4, <2>5, KfreeGives
  <2>7. PICK Q : Q = R \cup {k}
    OBVIOUS
  <2>8. Holds(y, pd, Q)
    BY <2>3, <2>6, <2>7, GiveBack
  <2>9. AllFree(y, Q, z)
    <3>1. pd.dir # 0
      BY <2>1 DEF InUse
    <3> QED
      BY <2>1, <2>4, <2>8, <3>1, FreevmFrees
  <2>10. z \in Mems /\ z.panic = "none" /\ z.free = Q
    BY <2>6, <2>9 DEF AllFree, Given
  <2>11. Q = F \cup Has(pr)
    BY <2>2, <2>3, <2>7, SMTT(60)
  <2>12. ASSUME NEW x \in Frames \ Q PROVE z.mem[x] = n.mem[x]
    <3>1. x \in Frames \ {k}
      BY <2>7, <2>12, SMTT(60)
    <3> QED
      BY <2>6, <2>9, <2>12, <3>1 DEF AllFree, Given
  <2>13. Has(Unused) = {} /\ OkProc(Unused)
    BY UnusedHas DEF OkProc
  <2>14. z.free \cap Has(Unused) = {} /\ z.free \cup Has(Unused) = Q
    BY <2>10, <2>13, SMTT(60)
  <2> QED
    BY <2>1, <2>10, <2>11, <2>12, <2>13, <2>14 DEF Turnover
<1>2. ASSUME GoodVm(m, proc), NEW p \in Procs, Wait(p) PROVE Reaps(p)
  <2> USE <1>2
  <2>1. PICK pr : pr = proc[p]
    OBVIOUS
  <2>2. pr.state # "unused"
    BY <2>1, SMTT(60) DEF Wait
  <2>3. InUse(pr) /\ m.free \cap Has(pr) = {} /\ m \in Mems /\ m.panic = "none"
    BY <2>1, <2>2, StateFacts
  <2>4. PICK z : z = Freevm(Kfree(m, {pr.kstack}), pr.pd)
    OBVIOUS
  <2>5. Turnover(m, pr, z, Unused)
    BY <2>3, <2>4, <1>1
  <2>6. Done(z) /\ proc' = [proc EXCEPT ![p] = Unused] /\ z \in Mems
    BY <2>1, <2>4, <2>5 DEF Wait, Turnover
  <2>7. Recounted(z, m')
    BY <2>6, DoneIs
  <2>8. Turnover(m, pr, m', Unused)
    BY <2>5, <2>7, RecountedTurn
  <2> QED
    BY <2>1, <2>6, <2>8 DEF Reaps, Turned
<1> QED
  BY <1>2

\* User memory is written.
LEMMA FillStep ==
    \A p \in Procs : \A V : \A val \in Values :
        /\ GoodVm(m, proc)
        /\ Runs(p)
        /\ V \subseteq Vpns
        /\ m' = Fill(m, proc[p].pd, V, val)
        /\ UNCHANGED proc
        => Writes(p)
\* Pages of the process are written.
<1> DEFINE Overwritten(n, pr, V, val, f) ==
               \A u \in Vpns : pr.pd.pte[u].pa # 0 =>
                   f.mem[pr.pd.pte[u].pa] = IF u \in V THEN val ELSE n.mem[pr.pd.pte[u].pa]
<1> HIDE DEF Overwritten
\* Fill does that.
<1>1. ASSUME NEW n, n \in Mems, n.panic = "none", NEW pr, InUse(pr), n.free \cap Has(pr) = {},
             NEW V, V \subseteq Vpns, NEW val, val \in Values, NEW f, f = Fill(n, pr.pd, V, val)
      PROVE  Turnover(n, pr, f, pr) /\ Overwritten(n, pr, V, val, f)
  <2> USE <1>1
  <2>1. PICK pd : pd = pr.pd
    OBVIOUS
  <2>2. PICK R : R = n.free \cup Held(pd)
    OBVIOUS
  <2>3. Holds(n, pd, R) /\ Has(pr) = Held(pd) \cup {pr.kstack}
    BY <2>1, <2>2, InUseHolds
  <2>4. val \in Fillings
    BY SMTT(60) DEF Fillings
  <2>5. Filled(n, pd, V, val, f)
    BY <2>1, <2>4, FillFills
  <2>6. FillKept(n, pd, R, V, val, f)
    BY <2>3, <2>5, FilledKeeps
  <2>7. f \in Mems /\ f.free = n.free /\ f.panic = "none"
    BY <2>5 DEF Filled, Written
  <2>8. \A x \in Frames \ (n.free \cup Has(pr)) : x \in Frames \ R
    BY <2>2, <2>3, SMTT(60)
  <2>9. \A x \in Frames \ (n.free \cup Has(pr)) : f.mem[x] = n.mem[x]
    BY <2>6, <2>8 DEF FillKept
  <2>10. Turnover(n, pr, f, pr)
    BY <2>7, <2>9 DEF Turnover, OkProc
  <2> QED
    BY <2>1, <2>6, <2>10 DEF FillKept, Overwritten
<1>2. ASSUME GoodVm(m, proc), NEW p \in Procs, Runs(p), NEW V, V \subseteq Vpns, NEW val \in Values,
             m' = Fill(m, proc[p].pd, V, val), UNCHANGED proc
      PROVE  Writes(p)
  <2> USE <1>2
  <2>1. PICK pr : pr = proc[p]
    OBVIOUS
  <2>2. InUse(pr) /\ m.free \cap Has(pr) = {} /\ m \in Mems /\ m.panic = "none"
    BY <2>1, RunsFacts
  <2>3. PICK f : f = Fill(m, pr.pd, V, val)
    OBVIOUS
  <2>4. Turnover(m, pr, f, pr) /\ Overwritten(m, pr, V, val, f)
    BY <2>2, <2>3, <1>1
  <2>5. m' = f
    BY <2>1, <2>3
  <2>6. StoredIn(m, pr, m')
    BY <2>4, <2>5 DEF StoredIn, Overwritten
  <2>7. proc' = [proc EXCEPT ![p] = proc[p]]
    BY Unturned
  <2> QED
    BY <2>1, <2>4, <2>5, <2>6, <2>7 DEF Writes, Turned
<1> QED
  BY <1>2

\* The pages of addresses that are inside the process are there.
LEMMA PagesThere ==
    ASSUME GoodVm(m, proc), NEW p \in Procs, Runs(p), NEW va \in Nat, NEW len \in Int, va + len <= proc[p].sz
    PROVE  \A v \in PagesOf(va, len) : Mapped(p, v) /\ v \in Vpns
<1>1. PICK pr : pr = proc[p]
  OBVIOUS
<1>2. Spans(pr.pd, pr.sz) /\ pr.sz \in Nat \ {0} /\ pr.sz < KERNBASE
  BY <1>1, RunsFacts
<1>3. PICK s : s = pr.sz
  OBVIOUS
<1>4. s \in Nat /\ s <= KERNBASE /\ va + len <= s
  BY <1>1, <1>2, <1>3, UserPart, SMTT(60)
<1>5. \A v \in PagesOf(va, len) : v \in Vpns /\ v < PageUp(s)
  BY <1>4, PagesBelow
<1> QED
  BY <1>1, <1>2, <1>3, <1>5 DEF Mapped, Spans

\* fetchstr reads pages that are mapped, and changes nothing.
LEMMA LookAtStep ==
    ASSUME Counting, GoodVm(m, proc), NEW p \in Procs, NEW i \in Addrs(p), NEW nul \in Addrs(p), LookAt(p, i, nul)
    PROVE  UNCHANGED <<m, proc>>
<1>1. PICK s, S : s = proc[p].sz /\ S = {nul + 1, s}
  OBVIOUS
<1>2. Runs(p) /\ i < s /\ Uses(p, PagesOf(i, Min(S) - i), m)
  BY <1>1 DEF LookAt
<1>3. s \in Nat \ {0} /\ s < KERNBASE
  BY <1>1, <1>2, RunsFacts
<1>4. i \in Nat /\ nul \in Nat
  <2>1. i \in {0, s - 1, s, Wrap - 1} /\ nul \in {0, s - 1, s, Wrap - 1} /\ Wrap = 2 * KERNBASE
    BY <1>1 DEF Addrs, Wrap
  <2> QED
    BY <1>3, <2>1, UserPart, SMTT(60)
<1>5. S \subseteq Nat /\ S # {} /\ s \in S
  BY <1>1, <1>3, <1>4, SMTT(60)
<1>6. PICK x : x = Min(S)
  OBVIOUS
<1>7. x \in Nat /\ x <= s
  <2>1. \E y \in S : \A z \in S : y <= z
    BY <1>5, LeastNat
  <2>2. Min(S) = CHOOSE y \in S : \A z \in S : y <= z
    BY DEF Min
  <2>3. Min(S) \in S /\ \A z \in S : Min(S) <= z
    BY <2>1, <2>2
  <2> QED
    BY <1>5, <1>6, <2>3
<1>8. x - i \in Int /\ i + (x - i) <= s
  BY <1>4, <1>7, <1>3, SMTT(60)
<1>9. PICK V : V = PagesOf(i, x - i)
  OBVIOUS
<1>10. \A v \in V : Mapped(p, v)
  BY <1>1, <1>2, <1>4, <1>8, <1>9, PagesThere
<1> QED
  BY <1>2, <1>6, <1>9, <1>10 DEF Uses

\* What a step does to the memory of processes.
VmStepOf(p) ==
    \/ Runs(p) /\ (Copies(p) \/ Regrows(p) \/ Replaces(p) \/ Writes(p))
    \/ proc[p].state # "unused" /\ (Ends(p) \/ Reaps(p))

\* Every step is one of them.
LEMMA NextSteps ==
    ASSUME Counting
    PROVE  
               /\ GoodVm(m, proc)
               /\ [Next]_vars
               => UNCHANGED <<m, proc>> \/ \E p \in Procs : VmStepOf(p)
<1>1. ASSUME GoodVm(m, proc), NEW p \in Procs, NEW v, NEW val \in Values, Store(p, v, val) PROVE Writes(p)
  <2> USE <1>1
  <2>1. Runs(p) /\ v \in Vpns /\ m' = Fill(m, proc[p].pd, {v}, val) /\ UNCHANGED proc
    BY DEF Store, User
  <2>2. {v} \subseteq Vpns
    BY <2>1, SMTT(60)
  <2> QED
    BY <2>1, <2>2, FillStep, SMTT(60)
<1>2. ASSUME GoodVm(m, proc), NEW p \in Procs, NEW i \in Addrs(p), NEW size \in Sizes, NEW val \in Values,
             ReadInto(p, i, size, val)
      PROVE  Writes(p)
  <2> USE <1>2
  <2>1. PICK V : V = PagesOf(i, size)
    OBVIOUS
  <2>2. Runs(p) /\ Argptr(proc[p].sz, i, size) /\ Uses(p, V, Fill(m, proc[p].pd, V, val))
    BY <2>1 DEF ReadInto
  <2>3. PICK s : s = proc[p].sz
    OBVIOUS
  <2>4. s \in Nat \ {0} /\ s < KERNBASE
    BY <2>2, <2>3, RunsFacts
  <2>5. i \in Nat /\ size \in Nat /\ size <= KERNBASE
    <3>1. i \in {0, s - 1, s, Wrap - 1} /\ Wrap = 2 * KERNBASE
      BY <2>3 DEF Addrs, Wrap
    <3>2. size \in {1, PGSIZE + 1, KERNBASE - 1}
      BY DEF Sizes
    <3>3. PGSIZE \in Nat /\ KERNBASE \in Nat /\ PGSIZE < KERNBASE
      BY AddressAssumption, SMTT(60)
    <3> QED
      BY <2>4, <3>1, <3>2, <3>3, SMTT(60)
  <2>6. i + size <= s
    <3>1. i < s /\ (i + size) % Wrap <= s /\ Wrap = 2 * KERNBASE
      BY <2>2, <2>3 DEF Argptr, Wrap
    <3>2. i + size \in 0 .. 2 * KERNBASE - 1
      BY <2>4, <2>5, <3>1, UserPart, SMTT(60)
    <3>3. (i + size) % (2 * KERNBASE) = i + size
      BY <3>2, UserPart, SMTT(60)
    <3> QED
      BY <3>1, <3>3, SMTT(60)
  <2>7. \A v \in V : Mapped(p, v) /\ v \in Vpns
    <3>1. i + size <= proc[p].sz /\ size \in Int
      BY <2>3, <2>5, <2>6, SMTT(60)
    <3> QED
      BY <2>1, <2>2, <2>5, <3>1, PagesThere
  <2>8. m' = Fill(m, proc[p].pd, V, val) /\ UNCHANGED proc /\ V \subseteq Vpns
    BY <2>2, <2>7 DEF Uses
  <2> QED
    BY <2>2, <2>8, FillStep
\* getpinfo writes pages that are there, or makes an access nothing has checked.
<1>3. ASSUME GoodVm(m, proc), NEW p \in Procs, NEW i, NEW val \in Values, Getpinfo(p, i, val)
      PROVE  UNCHANGED <<m, proc>> \/ Writes(p)
  <2> USE <1>3
  <2>1. PICK V : V = PagesOf(i, StatSize)
    OBVIOUS
  <2>2. Runs(p) /\ IF \A v \in V : Mapped(p, v)
                   THEN m' = Fill(m, proc[p].pd, V, val) /\ UNCHANGED <<proc, fault>>
                   ELSE Fault("getpinfo")
    BY <2>1 DEF Getpinfo
  <2>3. CASE \A v \in V : Mapped(p, v)
    <3>1. V \subseteq Vpns /\ m' = Fill(m, proc[p].pd, V, val) /\ UNCHANGED proc
      BY <2>2, <2>3 DEF Mapped
    <3> QED
      BY <2>2, <3>1, FillStep
  <2>4. CASE ~ \A v \in V : Mapped(p, v)
    BY <2>2, <2>4 DEF Fault
  <2> QED
    BY <2>3, <2>4
<1>4. ASSUME GoodVm(m, proc), NEW p \in Procs, KernelCall(p) PROVE UNCHANGED <<m, proc>> \/ VmStepOf(p)
  <2> USE <1>4
  <2>1. CASE Fork(p)
    BY <2>1, ForkStep DEF VmStepOf, Fork
  <2>2. CASE Exit(p)
    <3>1. proc[p].state # "unused"
      BY <2>2, SMTT(60) DEF Exit
    <3> QED
      BY <2>2, <3>1, ExitStep DEF VmStepOf
  <2>3. CASE Wait(p)
    <3>1. proc[p].state # "unused"
      BY <2>3, SMTT(60) DEF Wait
    <3> QED
      BY <2>3, <3>1, WaitStep DEF VmStepOf
  <2>4. ASSUME NEW d \in Deltas, Sbrk(p, d), ~UNCHANGED <<m, proc>> PROVE VmStepOf(p)
    <3>1. PICK n \in Memories : \E r \in {Growproc(n, p, d)} : Done(r.m) /\ proc' = Moved(proc, p, r.pd, r.sz)
      <4>1. ~Fault("sbrk")
        BY <2>4 DEF Fault
      <4> QED
        BY <2>4, <4>1 DEF Sbrk, Moved
    <3>2. PICK r : r = Growproc(n, p, d) /\ Done(r.m) /\ proc' = Moved(proc, p, r.pd, r.sz)
      BY <3>1
    <3>3. d \in Int /\ Runs(p)
      BY <2>4, HeapAssumption DEF Sbrk
    <3>4. Regrows(p)
      BY <3>2, <3>3, GrowStep
    <3> QED
      BY <3>3, <3>4 DEF VmStepOf
  <2>5. ASSUME NEW prog \in Programs, Exec(p, prog) PROVE UNCHANGED <<m, proc>> \/ VmStepOf(p)
    BY <2>5, ExecStep DEF VmStepOf, Exec
  <2>6. ASSUME NEW i \in Addrs(p), NEW size \in Sizes, NEW val \in Values, ReadInto(p, i, size, val)
        PROVE  VmStepOf(p)
    BY <2>6, <1>2 DEF VmStepOf, ReadInto
  <2>7. ASSUME NEW i \in Addrs(p), NEW nul \in Addrs(p), LookAt(p, i, nul) PROVE UNCHANGED <<m, proc>>
    BY <2>7, LookAtStep
  <2>8. ASSUME NEW v \in Vpns, NEW val \in Values, Store(p, v, val) PROVE VmStepOf(p)
    BY <2>8, <1>1 DEF VmStepOf, Store
  <2>9. ASSUME NEW i, NEW val \in Values, Getpinfo(p, i, val) PROVE UNCHANGED <<m, proc>> \/ VmStepOf(p)
    BY <2>9, <1>3 DEF VmStepOf, Getpinfo
  <2> QED
    BY <2>1, <2>2, <2>3, <2>4, <2>5, <2>6, <2>7, <2>8, <2>9 DEF KernelCall
\* malloc's block sizes.
<1>5. ASSUME NEW n \in Requests PROVE MoreUnits(n) \in Int
  <2>1. n \in Nat /\ MinUnits \in Nat
    BY HeapAssumption, SMTT(60)
  <2>2. PICK S : S = {n, MinUnits}
    OBVIOUS
  <2>3. \E y \in S : \A z \in S : y >= z
    BY <2>1, <2>2, SMTT(60)
  <2>4. MoreUnits(n) = CHOOSE y \in S : \A z \in S : y >= z
    BY <2>2 DEF MoreUnits, Max
  <2>5. MoreUnits(n) \in S
    BY <2>3, <2>4
  <2> QED
    BY <2>1, <2>2, <2>5, SMTT(60)
<1>6. ASSUME GoodVm(m, proc), [Next]_vars PROVE UNCHANGED <<m, proc>> \/ \E p \in Procs : VmStepOf(p)
  <2> USE <1>6
  <2>1. App \in Procs
    BY HeapAssumption
  <2>2. CASE UNCHANGED vars
    BY <2>2 DEF vars, vmVars
  <2>3. ASSUME NEW p \in Procs, KernelCall(p) PROVE UNCHANGED <<m, proc>> \/ VmStepOf(p)
    BY <2>3, <1>4
  <2>4. ASSUME NEW prog \in Programs, AppExec(prog) PROVE UNCHANGED <<m, proc>> \/ VmStepOf(App)
    <3>1. Exec(App, prog)
      BY <2>4 DEF AppExec
    <3> QED
      BY <2>1, <3>1, ExecStep DEF VmStepOf, Exec
  <2>5. ASSUME NEW n \in Requests, MallocFound(n) PROVE UNCHANGED <<m, proc>>
    BY <2>5 DEF MallocFound, vmVars
  <2>6. ASSUME NEW k \in Requests, MallocMore(k) PROVE VmStepOf(App)
    <3>1. PICK n, r : /\ n \in Memories /\ r = Growproc(n, App, MoreUnits(k)) /\ Done(r.m)
                      /\ proc' = Moved(proc, App, r.pd, r.sz) /\ Runs(App)
      BY <2>6 DEF MallocMore, Moved
    <3>2. MoreUnits(k) \in Int
      BY <1>5
    <3>3. Regrows(App)
      BY <2>1, <3>1, <3>2, GrowStep
    <3> QED
      BY <3>1, <3>3 DEF VmStepOf
  <2>7. ASSUME NEW bp \in live, Free(bp) PROVE UNCHANGED <<m, proc>>
    BY <2>7 DEF Free, vmVars
  <2>8. CASE Next
    BY <2>1, <2>3, <2>4, <2>5, <2>6, <2>7, <2>8 DEF Next, HeapCall
  <2> QED
    BY <2>2, <2>8
<1> QED
  BY <1>6

\* The kernel boots with every page owned once.
LEMMA VmInitGood == ASSUME Counting, VmInit PROVE GoodVm(m, proc)
<1>1. m = Booted.m /\ proc = [p \in Procs |-> IF p = 1 THEN Booted.init ELSE Unused]
  BY DEF VmInit
<1>2. 1 \in Procs
  BY VmAssumption, SMTT(60) DEF Procs
<1>3. PICK pr, k : pr = Booted.init /\ BootedOk(m, pr, k)
  BY <1>1, BootedIs
<1>4. proc[1] = pr /\ (\A p \in Procs : p # 1 => proc[p] = Unused) /\ proc = [p \in Procs |-> proc[p]]
  BY <1>1, <1>2, <1>3, SMTT(60)
<1>5. PICK pd, R : pd = pr.pd /\ R = Frames \ {k}
  OBVIOUS
<1>6. /\ m \in Mems /\ m.panic = "none" /\ k \in Frames /\ Holds(m, pd, R) /\ pd.dir # 0 /\ Spans(pd, PGSIZE)
      /\ Made(pr, "run", k, pd, PGSIZE)
  BY <1>3, <1>5 DEF BootedOk, Made
<1>7. /\ pr.state = "run" /\ pr.kstack = k /\ pr.pd = pd /\ pr.sz = PGSIZE
      /\ pr = [state |-> pr.state, kstack |-> pr.kstack, pd |-> pr.pd, sz |-> pr.sz]
  BY <1>6, MadeFields
<1>8. PICK H : H = Held(pd)
  OBVIOUS
<1>9. pd \in Pgdirs /\ Distinct(pd) /\ m.free \cap H = {} /\ m.free \cup H = R
  BY <1>6, <1>8 DEF Holds
<1>10. k \notin H /\ k \notin m.free /\ k # 0
  <2>1. k # 0
    BY <1>6, FrameFacts
  <2> QED
    BY <1>5, <1>9, <2>1, SMTT(60)
<1>11. PGSIZE \in Nat /\ PGSIZE < KERNBASE
  BY AddressAssumption, SMTT(60)
<1>12. pr.state \in {"run", "zombie"}
  BY <1>7, SMTT(60)
<1>13. InUse(pr)
  BY <1>6, <1>7, <1>8, <1>9, <1>10, <1>11, <1>12 DEF InUse
<1>14. Has(pr) = H \cup ({k} \ {0})
  BY <1>7, <1>8 DEF Has
<1>15. m.free \cap Has(pr) = {} /\ m.free \cup Has(pr) = Frames
  BY <1>5, <1>6, <1>9, <1>10, <1>14, SMTT(60)
<1>16. ASSUME NEW p \in Procs PROVE OkProc(proc[p]) /\ m.free \cap Has(proc[p]) = {}
  <2>1. CASE p = 1
    BY <1>4, <1>13, <1>15, <2>1 DEF OkProc
  <2>2. CASE p # 1
    <3>1. m.free \cap Has(Unused) = {}
      BY UnusedHas, SMTT(60)
    <3> QED
      BY <1>4, <2>2, <3>1 DEF OkProc
  <2> QED
    BY <2>1, <2>2
<1>17. ASSUME NEW p \in Procs, NEW q \in Procs, p # q PROVE Has(proc[p]) \cap Has(proc[q]) = {}
  <2>1. Has(proc[p]) = {} \/ Has(proc[q]) = {}
    BY <1>4, <1>17, UnusedHas
  <2> QED
    BY <2>1, SMTT(60)
<1>18. \A x \in Frames : x \in m.free \/ \E p \in Procs : x \in Has(proc[p])
  <2>1. \A x \in Frames : x \in m.free \/ x \in Has(proc[1])
    BY <1>4, <1>15, SMTT(60)
  <2> QED
    BY <1>2, <2>1
<1> QED
  BY <1>4, <1>6, <1>16, <1>17, <1>18 DEF GoodVm

-----------------------------------------------------------------------------
(* The page tables implement private memory *)

\* The first k pages are there, and no others; what is in them.
Prefix(pd, k) == k \in 0 .. UserPages /\ \A v \in Vpns : pd.pte[v].pa # 0 <=> v < k
Cells(n, pd, k) == [i \in 1 .. k |-> n.mem[pd.pte[i - 1].pa]]

\* Space, of any memory and any process.
SpaceOf(n, pr) ==
    IF pr.state = "unused" THEN NoSpace
    ELSE Cells(n, pr.pd, Cardinality({v \in Vpns : pr.pd.pte[v].pa # 0}))

\* The pages up to a size are the first ones.
LEMMA SpansPrefix ==
    ASSUME NEW pd, NEW sz \in Nat, sz < KERNBASE, Spans(pd, sz) PROVE Prefix(pd, PageUp(sz))
<1>1. UserPages \in Nat /\ KERNBASE \in Nat
  BY UserPart, SMTT(60)
<1>2. sz <= KERNBASE /\ KERNBASE <= KERNBASE
  BY <1>1, SMTT(60)
<1>3. PageUp(sz) <= PageUp(KERNBASE) /\ PageUp(KERNBASE) <= UserPages
  BY <1>1, <1>2, PageUpOrder
<1>4. PageUp(sz) \in Nat /\ PageUp(KERNBASE) \in Nat
  BY <1>1, PageUpBelow
<1>5. PageUp(sz) \in 0 .. UserPages
  BY <1>1, <1>3, <1>4, SMTT(60)
<1> QED
  BY <1>5 DEF Prefix, Spans

\* The pages of a process are the first ones.
LEMMA HasPrefix == ASSUME NEW pr, InUse(pr) PROVE \E k : Prefix(pr.pd, k)
<1>1. PICK pd, sz : pd = pr.pd /\ sz = pr.sz
  OBVIOUS
<1>2. sz \in Nat /\ sz < KERNBASE /\ (Spans(pd, sz) \/ NoPages(pd))
  BY <1>1 DEF InUse
<1>3. UserPages \in Nat /\ KERNBASE \in Nat
  BY UserPart, SMTT(60)
<1>4. CASE Spans(pd, sz)
  BY <1>1, <1>2, <1>4, SpansPrefix
<1>5. CASE NoPages(pd)
  <2>1. 0 \in 0 .. UserPages
    BY <1>3, SMTT(60)
  <2>2. \A v \in Vpns : ~(v < 0)
    BY VpnFacts, SMTT(60)
  <2>3. \A v \in Vpns : pd.pte[v].pa # 0 <=> v < 0
    BY <1>5, <2>2 DEF NoPages
  <2> QED
    BY <1>1, <2>1, <2>3 DEF Prefix
<1> QED
  BY <1>2, <1>4, <1>5

\* What a process finds in its memory.
LEMMA SpaceIs ==
    ASSUME Counting
    PROVE  \A n, pr, k :
               /\ InUse(pr)
               /\ Prefix(pr.pd, k)
               => SpaceOf(n, pr) = Cells(n, pr.pd, k)
\* They number k.
<1>1. ASSUME NEW pd, NEW k, Prefix(pd, k) PROVE Cardinality({v \in Vpns : pd.pte[v].pa # 0}) = k
  <2> USE <1>1
  <2>1. k \in 0 .. UserPages /\ UserPages \in Nat
    BY UserPart DEF Prefix
  <2>2. {v \in Vpns : pd.pte[v].pa # 0} = {v \in Vpns : v < k}
    BY SMTT(60) DEF Prefix
  <2>3. {v \in Vpns : v < k} = 0 .. k - 1
    BY <2>1, VpnFacts, SMTT(60)
  <2>4. Cardinality(0 .. k - 1) = k
    <3>1. k - 1 \in Int /\ 0 \in Int /\ 0 <= k - 1 + 1 /\ k - 1 - 0 + 1 = k
      BY <2>1, SMTT(60)
    <3>2. Cardinality(0 .. k - 1) = k - 1 - 0 + 1
      BY <3>1 DEF Counting
    <3> QED
      BY <3>1, <3>2
  <2> QED
    BY <2>2, <2>3, <2>4
<1>2. ASSUME NEW n, NEW pr, InUse(pr), NEW k, Prefix(pr.pd, k) PROVE SpaceOf(n, pr) = Cells(n, pr.pd, k)
  <2> USE <1>2
  <2>1. pr.state \in {"run", "zombie"}
    BY DEF InUse
  <2>2. pr.state # "unused"
    BY <2>1, SMTT(60)
  <2>3. Cardinality({v \in Vpns : pr.pd.pte[v].pa # 0}) = k
    BY <1>1
  <2> QED
    BY <2>2, <2>3 DEF SpaceOf
<1> QED
  BY <1>2

\* The i-th page is a page of the user, and of physical memory.
LEMMA PrefixPage ==
    ASSUME NEW pd \in Pgdirs, NEW k, Prefix(pd, k), NEW i \in 1 .. k
    PROVE  /\ i - 1 \in Vpns /\ pd.pte[i - 1].pa # 0
           /\ pd.pte[i - 1].pa \in Held(pd) /\ pd.pte[i - 1].pa \in Frames
<1>1. k \in 0 .. UserPages /\ UserPages \in Nat
  BY UserPart DEF Prefix
<1>2. PICK v : v = i - 1
  OBVIOUS
<1>3. v \in Vpns /\ v < k
  BY <1>1, <1>2, VpnFacts, SMTT(60)
<1>4. pd.pte[v].pa # 0
  BY <1>3 DEF Prefix
<1>5. pd.pte[v].pa \in Frames \cup {0}
  BY <1>3, PdFields
<1>6. pd.pte[v].pa \in Held(pd)
  BY <1>3, <1>4, InHeld
<1> QED
  BY <1>2, <1>3, <1>4, <1>5, <1>6, SMTT(60)

\* The memory of a process is an array of pages, and so is not NoSpace.
LEMMA SpaceShaped ==
    ASSUME Counting, NEW n \in Mems, NEW pr, InUse(pr), NEW k, Prefix(pr.pd, k)
    PROVE  Cells(n, pr.pd, k) \in [1 .. k -> Fillings] /\ SpaceOf(n, pr) # NoSpace
<1>1. PICK pd, f : pd = pr.pd /\ f = n.mem
  OBVIOUS
<1>2. pd \in Pgdirs /\ f \in [Frames -> Fillings] /\ Prefix(pd, k)
  BY <1>1, MemFields DEF InUse
<1>3. \A i \in 1 .. k : f[pd.pte[i - 1].pa] \in Fillings
  <2>1. \A i \in 1 .. k : pd.pte[i - 1].pa \in Frames
    BY <1>2, PrefixPage
  <2>2. \A x \in Frames : f[x] \in Fillings
    BY <1>2, SMTT(60)
  <2> QED
    BY <2>1, <2>2
<1>4. PICK c : c = Cells(n, pr.pd, k)
  OBVIOUS
<1>5. c = [i \in 1 .. k |-> f[pd.pte[i - 1].pa]]
  BY <1>1, <1>4 DEF Cells
<1>6. c \in [1 .. k -> Fillings]
  BY <1>3, <1>5, SMTT(60)
<1>7. k \in 0 .. KERNBASE \div PGSIZE
  BY <1>2 DEF Prefix, UserPages
<1>8. c # NoSpace
  BY <1>6, <1>7, SpaceAssumption
<1> QED
  BY <1>4, <1>6, <1>8, SpaceIs

\* A call for one process leaves the memory of the others alone.
LEMMA SpaceOther ==
    ASSUME Counting, GoodVm(m, proc), NEW q \in Procs, NEW np, Turned(q, np), NEW r \in Procs, r # q
    PROVE  SpaceOf(m', proc'[r]) = SpaceOf(m, proc[r])
<1>1. PICK pr, pq : pr = proc[r] /\ pq = proc[q]
  OBVIOUS
<1>2. proc'[r] = pr
  BY <1>1 DEF Turned, GoodVm
<1>3. CASE pr = Unused
  BY <1>1, <1>2, <1>3, UnusedHas DEF SpaceOf
<1>4. CASE InUse(pr)
  <2>1. PICK pd : pd = pr.pd
    OBVIOUS
  <2>2. PICK k : Prefix(pd, k)
    BY <1>4, <2>1, HasPrefix
  <2>3. pd \in Pgdirs
    BY <1>4, <2>1 DEF InUse
  <2>4. \A x \in Held(pd) : x \in Frames => m'.mem[x] = m.mem[x]
    <3>1. Held(pd) \subseteq Has(pr)
      BY <2>1, SMTT(60) DEF Has
    <3>2. m.free \cap Has(pr) = {} /\ Has(pr) \cap Has(pq) = {}
      BY <1>1 DEF GoodVm
    <3>3. \A x \in Frames \ (m.free \cup Has(pq)) : m'.mem[x] = m.mem[x]
      BY <1>1 DEF Turned, Turnover
    <3> QED
      BY <3>1, <3>2, <3>3, SMTT(60)
  <2>5. \A i \in 1 .. k : m'.mem[pd.pte[i - 1].pa] = m.mem[pd.pte[i - 1].pa]
    BY <2>2, <2>3, <2>4, PrefixPage
  <2>6. Cells(m', pd, k) = Cells(m, pd, k)
    BY <2>5 DEF Cells
  <2>7. SpaceOf(m', pr) = Cells(m', pd, k) /\ SpaceOf(m, pr) = Cells(m, pd, k)
    BY <1>4, <2>1, <2>2, SpaceIs
  <2> QED
    BY <1>1, <1>2, <2>6, <2>7
<1> QED
  BY <1>1, <1>3, <1>4 DEF GoodVm, OkProc

\* AddressSpace's StoreIn, Shrink and Grow, of one memory before and after.
StoresIn(s, t) == Len(t) = Len(s) /\ \A i \in DOMAIN s : t[i] = s[i] \/ t[i] \in Values
Shrinks(s, t) == Len(t) <= Len(s) /\ t = SubSeq(s, 1, Len(t))
Grows(s, t) ==
    Len(t) > Len(s) /\ \A i \in DOMAIN t : t[i] = IF i <= Len(s) THEN s[i] ELSE "zero"

\* The array of pages, page by page.
Array(n, pd, k, s) ==
    /\ k \in Nat /\ Len(s) = k /\ DOMAIN s = 1 .. k
    /\ \A i \in 1 .. k : s[i] = n.mem[pd.pte[i - 1].pa]

\* Cells is that array.
LEMMA CellsFacts ==
    ASSUME NEW n, NEW pd, NEW k, Prefix(pd, k), NEW s, s = Cells(n, pd, k) PROVE Array(n, pd, k, s)
<1>1. k \in Nat
  BY UserPart, SMTT(60) DEF Prefix
<1>2. PICK f : f = [i \in 1 .. k |-> n.mem[pd.pte[i - 1].pa]]
  OBVIOUS
<1>3. DOMAIN f = 1 .. k /\ Len(f) = k /\ \A i \in 1 .. k : f[i] = n.mem[pd.pte[i - 1].pa]
  BY <1>1, <1>2, SMTT(60)
<1>4. s = f
  BY <1>2 DEF Cells
<1> QED
  BY <1>1, <1>3, <1>4 DEF Array

\* sbrk.
LEMMA RegrowCells ==
    \A n, pr, k, n2, np, h, s, t :
        /\ InUse(pr)
        /\ Prefix(pr.pd, k)
        /\ InUse(np)
        /\ Prefix(np.pd, h)
        /\ Regrown(n, pr, n2, np)
        /\ s = Cells(n, pr.pd, k)
        /\ t = Cells(n2, np.pd, h)
        => Shrinks(s, t) \/ Grows(s, t)
\* The first h elements.
<1> DEFINE Start(s, h) == SubSeq(s, 1, h) = [i \in 1 .. h |-> s[i]]
<1> HIDE DEF Start
\* SubSeq takes them.
<1>1. ASSUME NEW s, NEW h \in Nat PROVE Start(s, h)
  <2>1. SubSeq(s, 1, h) = [i \in 1 .. (1 + h - 1) |-> s[i + 1 - 1]]
    BY SMTT(60)
  <2> QED
    BY <2>1, SMTT(60) DEF Start
<1>2. ASSUME NEW n, NEW pr, InUse(pr), NEW k, Prefix(pr.pd, k),
             NEW n2, NEW np, InUse(np), NEW h, Prefix(np.pd, h), Regrown(n, pr, n2, np),
             NEW s, s = Cells(n, pr.pd, k), NEW t, t = Cells(n2, np.pd, h)
      PROVE  Shrinks(s, t) \/ Grows(s, t)
  <2> USE <1>2
  <2>1. PICK pd, pd2 : pd = pr.pd /\ s = Cells(n, pd, k) /\ pd2 = np.pd /\ t = Cells(n2, pd2, h)
    OBVIOUS
  <2>2. pd \in Pgdirs /\ Prefix(pd, k) /\ pd2 \in Pgdirs /\ Prefix(pd2, h)
    BY <2>1 DEF InUse
  <2>3. /\ k \in Nat /\ Len(s) = k /\ DOMAIN s = 1 .. k /\ \A i \in 1 .. k : s[i] = n.mem[pd.pte[i - 1].pa]
        /\ h \in Nat /\ Len(t) = h /\ DOMAIN t = 1 .. h /\ \A i \in 1 .. h : t[i] = n2.mem[pd2.pte[i - 1].pa]
    <3>1. Array(n, pd, k, s) /\ Array(n2, pd2, h, t)
      BY <2>1, <2>2, CellsFacts
    <3> QED
      BY <3>1 DEF Array
  <2>4. ASSUME NEW i \in 1 .. h PROVE (i <= k => t[i] = s[i]) /\ (k < i => t[i] = "zero")
    <3>1. PICK v : v = i - 1
      OBVIOUS
    <3>2. v \in Vpns /\ pd2.pte[v].pa # 0
      BY <2>2, <3>1, PrefixPage
    <3>3. t[i] = n2.mem[pd2.pte[v].pa]
      BY <2>3, <3>1
    <3>4. pd.pte[v].pa # 0 => n2.mem[pd2.pte[v].pa] = n.mem[pd.pte[v].pa]
      BY <2>1, <3>2 DEF Regrown
    <3>5. pd.pte[v].pa = 0 => n2.mem[pd2.pte[v].pa] = "zero"
      BY <2>1, <3>2 DEF Regrown
    <3>6. pd.pte[v].pa # 0 <=> v < k
      BY <2>2, <3>2 DEF Prefix
    <3>7. v < k <=> i <= k
      BY <2>3, <3>1, SMTT(60)
    <3>8. i <= k => s[i] = n.mem[pd.pte[v].pa]
      <4>1. i <= k => i \in 1 .. k
        BY <2>3, SMTT(60)
      <4> QED
        BY <2>3, <3>1, <4>1
    <3>9. k < i => ~(i <= k)
      BY <2>3, SMTT(60)
    <3> QED
      BY <3>3, <3>4, <3>5, <3>6, <3>7, <3>8, <3>9
  <2>5. CASE h <= k
    <3>1. \A i \in 1 .. h : t[i] = s[i]
      BY <2>3, <2>4, <2>5, SMTT(60)
    <3>2. t = [i \in 1 .. h |-> n2.mem[pd2.pte[i - 1].pa]]
      BY <2>1 DEF Cells
    <3>3. t = [i \in 1 .. h |-> t[i]]
      BY <3>2, SMTT(60)
    <3>4. SubSeq(s, 1, h) = [i \in 1 .. h |-> s[i]]
      <4>1. Start(s, h)
        BY <2>3, <1>1
      <4> QED
        BY <4>1 DEF Start
    <3>5. t = SubSeq(s, 1, h)
      BY <3>1, <3>3, <3>4
    <3> QED
      BY <2>1, <2>3, <2>5, <3>5 DEF Shrinks
  <2>6. CASE k < h
    <3>1. Len(t) > Len(s)
      BY <2>3, <2>6, SMTT(60)
    <3>2. ASSUME NEW i \in DOMAIN t PROVE t[i] = IF i <= Len(s) THEN s[i] ELSE "zero"
      BY <2>3, <2>4, SMTT(60)
    <3>3. Grows(s, t)
      BY <3>1, <3>2 DEF Grows
    <3> QED
      BY <2>1, <3>3
  <2> QED
    BY <2>3, <2>5, <2>6, SMTT(60)
<1> TAKE n, pr, k, n2, np, h, s, t
<1> HAVE /\ InUse(pr) /\ Prefix(pr.pd, k) /\ InUse(np) /\ Prefix(np.pd, h) /\ Regrown(n, pr, n2, np)
         /\ s = Cells(n, pr.pd, k) /\ t = Cells(n2, np.pd, h)
<1> QED
  BY <1>2

\* exec: the process finds its program.
LEMMA ImageCells ==
    \A n \in Mems : \A pd \in Pgdirs : \A sz : \A prog \in Programs :
        /\ HasImage(n, pd, sz, prog)
        => Prefix(pd, PageUp(sz)) /\ Cells(n, pd, PageUp(sz)) = Image(prog)
\* A sequence with two more elements.
<1> DEFINE JoinedTo(c, f, x, y) == c = f \o <<x, y>>
\* The end of the segments.
<1> DEFINE SegmentEnds(prog) == {0} \cup {prog.segs[i].vaddr + prog.segs[i].memsz : i \in DOMAIN prog.segs}
<1> HIDE DEF JoinedTo, SegmentEnds
\* Element by element.
<1>1. ASSUME NEW S, NEW a \in Nat, NEW f \in [1 .. a -> S], NEW x \in S, NEW y \in S,
             NEW c \in [1 .. a + 2 -> S], \A i \in 1 .. a : c[i] = f[i], c[a + 1] = x, c[a + 2] = y
      PROVE  JoinedTo(c, f, x, y)
  <2> USE <1>1
  <2>1. f \in Seq(S) /\ Len(f) = a /\ c \in Seq(S) /\ Len(c) = a + 2
    BY SMTT(60)
  <2>2. <<x, y>> \in Seq(S) /\ Len(<<x, y>>) = 2 /\ <<x, y>>[1] = x /\ <<x, y>>[2] = y
    BY SMTT(60)
  <2>3. PICK d : d = f \o <<x, y>>
    OBVIOUS
  <2>4. d \in Seq(S) /\ Len(d) = a + 2
    BY <2>1, <2>2, <2>3, SMTT(60)
  <2>5. \A i \in 1 .. a + 2 : c[i] = d[i]
    BY <2>1, <2>2, <2>3, SMTT(60)
  <2>6. c = d
    BY <2>1, <2>4, <2>5, SMTT(60)
  <2> QED
    BY <2>3, <2>6 DEF JoinedTo
\* Is what loading them came to.
<1>2. ASSUME NEW prog \in Programs, NEW top \in Nat, Tops(prog, Len(prog.segs), top)
      PROVE  Max(SegmentEnds(prog)) = top
  <2> USE <1>2
  <2>1. PICK segs, n : segs = prog.segs /\ n = Len(segs)
    OBVIOUS
  <2>2. /\ n \in Nat /\ DOMAIN segs = 1 .. n
        /\ \A i \in 1 .. n : segs[i].vaddr \in Nat /\ segs[i].memsz \in Nat
    <3>1. segs \in Seq([vaddr : 0 .. Wrap - 1, memsz : 0 .. Wrap - 1, filesz : 0 .. Wrap - 1, avail : Nat])
      BY <2>1, VmAssumption
    <3>2. Wrap \in Nat
      BY UserPart, SMTT(60) DEF Wrap
    <3>3. n \in Nat /\ DOMAIN segs = 1 .. n
      BY <2>1, <3>1, SMTT(60)
    <3>5. \A i \in 1 .. n : segs[i].vaddr \in 0 .. Wrap - 1 /\ segs[i].memsz \in 0 .. Wrap - 1
      BY <2>1, SegFields
    <3> QED
      BY <3>2, <3>3, <3>5, SMTT(60)
  <2>3. PICK E : E = SegmentEnds(prog)
    OBVIOUS
  <2>4. E = {0} \cup {segs[i].vaddr + segs[i].memsz : i \in 1 .. n}
    BY <2>1, <2>2, <2>3 DEF SegmentEnds
  <2>5. top \in E
    <3>1. (n = 0 /\ top = 0) \/ \E j \in 1 .. n : top = segs[j].vaddr + segs[j].memsz
      BY <2>1 DEF Tops
    <3> QED
      BY <2>4, <3>1, SMTT(60)
  <2>6. \A y \in E : y \in Nat /\ y <= top
    <3>1. \A j \in 1 .. n : segs[j].vaddr + segs[j].memsz <= top
      BY <2>1 DEF Tops
    <3> QED
      BY <2>2, <2>4, <3>1, SMTT(60)
  <2>7. PICK x : x = Max(E)
    OBVIOUS
  <2>8. x \in E /\ \A y \in E : x >= y
    <3>1. x = CHOOSE z \in E : \A y \in E : z >= y
      BY <2>7 DEF Max
    <3>2. \A y \in E : top >= y
      BY <2>6, SMTT(60)
    <3> QED
      BY <2>5, <3>1, <3>2
  <2>9. x = top
    BY <2>5, <2>6, <2>8, SMTT(60)
  <2> QED
    BY <2>3, <2>7, <2>9
<1>3. ASSUME NEW n \in Mems, NEW pd \in Pgdirs, NEW sz, NEW prog \in Programs, HasImage(n, pd, sz, prog)
      PROVE  Prefix(pd, PageUp(sz)) /\ Cells(n, pd, PageUp(sz)) = Image(prog)
  <2> USE <1>3
  <2>1. sz \in Nat /\ sz < KERNBASE /\ Spans(pd, sz)
    BY DEF HasImage
  <2>2. PICK k : k = PageUp(sz)
    OBVIOUS
  <2>3. Prefix(pd, k)
    BY <2>1, <2>2, SpansPrefix
  <2>4. PICK top \in Nat :
           /\ Tops(prog, Len(prog.segs), top) /\ k = PageUp(top) + 2
           /\ \A u \in Vpns : u < PageUp(top) => n.mem[pd.pte[u].pa] = Contents(prog, Len(prog.segs), u)
           /\ n.mem[pd.pte[PageUp(top)].pa] = "zero" /\ n.mem[pd.pte[PageUp(top) + 1].pa] = "args"
    BY <2>2 DEF HasImage
  <2>5. PICK a, N : a = PageUp(top) /\ N = Len(prog.segs)
    OBVIOUS
  <2>6. a \in Nat /\ k = a + 2
    BY <2>4, <2>5, PageUpBelow
  <2>7. PICK c : c = Cells(n, pd, k)
    OBVIOUS
  <2>8. PICK f : f = [i \in 1 .. a |-> Contents(prog, N, i - 1)]
    OBVIOUS
  <2>9. Array(n, pd, k, c)
    BY <2>3, <2>7, CellsFacts
  <2>10. \A i \in 1 .. k : c[i] = n.mem[pd.pte[i - 1].pa] /\ i - 1 \in Vpns
    <3>1. \A i \in 1 .. k : i - 1 \in Vpns
      BY <2>3, PrefixPage
    <3> QED
      BY <2>9, <3>1 DEF Array
  <2>11. c \in [1 .. a + 2 -> Fillings]
    <3>1. n.mem \in [Frames -> Fillings]
      BY MemFields
    <3>2. \A i \in 1 .. k : pd.pte[i - 1].pa \in Frames
      BY <2>3, PrefixPage
    <3>3. \A i \in 1 .. k : n.mem[pd.pte[i - 1].pa] \in Fillings
      BY <3>1, <3>2, SMTT(60)
    <3>4. c = [i \in 1 .. k |-> n.mem[pd.pte[i - 1].pa]]
      BY <2>7 DEF Cells
    <3>5. c \in [1 .. k -> Fillings]
      BY <3>3, <3>4, SMTT(60)
    <3> QED
      BY <2>6, <3>5
  <2>12. \A i \in 1 .. a : c[i] = f[i] /\ f[i] \in Fillings
    <3> SUFFICES ASSUME NEW i \in 1 .. a PROVE c[i] = f[i] /\ f[i] \in Fillings
      BY SMTT(60)
    <3>1. PICK v : v = i - 1
      OBVIOUS
    <3>2. i \in 1 .. k /\ v < a
      BY <2>6, <3>1, SMTT(60)
    <3>3. c[i] = n.mem[pd.pte[v].pa] /\ v \in Vpns /\ c[i] \in Fillings
      BY <2>6, <2>10, <2>11, <3>1, <3>2, SMTT(60)
    <3>4. n.mem[pd.pte[v].pa] = Contents(prog, N, v)
      BY <2>4, <2>5, <3>2, <3>3
    <3>5. f[i] = Contents(prog, N, v)
      BY <2>8, <3>1, SMTT(60)
    <3> QED
      BY <3>3, <3>4, <3>5
  <2>13. f \in [1 .. a -> Fillings]
    <3>1. \A i \in 1 .. a : f[i] \in Fillings
      BY <2>12
    <3>2. f = [i \in 1 .. a |-> f[i]]
      BY <2>8, SMTT(60)
    <3> QED
      BY <3>1, <3>2
  <2>14. c[a + 1] = "zero" /\ c[a + 2] = "args"
    <3>1. a + 1 \in 1 .. k /\ a + 2 \in 1 .. k /\ (a + 1) - 1 = a /\ (a + 2) - 1 = a + 1
      BY <2>6, SMTT(60)
    <3>2. c[a + 1] = n.mem[pd.pte[a].pa] /\ c[a + 2] = n.mem[pd.pte[a + 1].pa]
      BY <2>10, <3>1
    <3> QED
      BY <2>4, <2>5, <3>2
  <2>15. "zero" \in Fillings /\ "args" \in Fillings
    BY SMTT(60) DEF Fillings
  <2>16. c = f \o <<"zero", "args">>
    <3>1. \A i \in 1 .. a : c[i] = f[i]
      BY <2>12
    <3>2. JoinedTo(c, f, "zero", "args")
      BY <2>6, <2>11, <2>13, <2>14, <2>15, <3>1, <1>1
    <3> QED
      BY <3>2 DEF JoinedTo
  <2>17. Max(SegmentEnds(prog)) = top
    BY <2>4, <1>2
  <2>18. DOMAIN prog.segs = 1 .. N
    <3>1. prog.segs \in Seq([vaddr : 0 .. Wrap - 1, memsz : 0 .. Wrap - 1, filesz : 0 .. Wrap - 1, avail : Nat])
      BY VmAssumption
    <3> QED
      BY <2>5, <3>1, SMTT(60)
  <2>19. Image(prog) = f \o <<"zero", "args">>
    <3>1. Image(prog) = [i \in 1 .. PageUp(Max(SegmentEnds(prog))) |->
                            IF \E j \in DOMAIN prog.segs : i - 1 \in PagesOf(prog.segs[j].vaddr, prog.segs[j].filesz)
                            THEN prog.tag ELSE "zero"] \o <<"zero", "args">>
      BY DEF Image, SegmentEnds
    <3>2. \A i : Contents(prog, N, i - 1) =
                    IF \E j \in DOMAIN prog.segs : i - 1 \in PagesOf(prog.segs[j].vaddr, prog.segs[j].filesz)
                    THEN prog.tag ELSE "zero"
      BY <2>18 DEF Contents, InFile
    <3>3. f = [i \in 1 .. PageUp(Max(SegmentEnds(prog))) |->
                            IF \E j \in DOMAIN prog.segs : i - 1 \in PagesOf(prog.segs[j].vaddr, prog.segs[j].filesz)
                            THEN prog.tag ELSE "zero"]
      BY <2>5, <2>8, <2>17, <3>2
    <3> QED
      BY <3>1, <3>3
  <2> QED
    BY <2>2, <2>3, <2>7, <2>16, <2>19
<1> QED
  BY <1>3

\* All memories; only the one of p changes; AddressSpace's next-state relation.
Spaces(n, P) == [p \in Procs |-> SpaceOf(n, P[p])]
Alone(S, T, p) == T = [S EXCEPT ![p] = T[p]]
Changes(s, t) ==
    /\ t # NoSpace
    /\ t \in {Image(prog) : prog \in Programs} \/ StoresIn(s, t) \/ Shrinks(s, t) \/ Grows(s, t)
Moves(S, T) ==
    \E p \in Procs : /\ S[p] # NoSpace
                     /\ \/ \E q \in Procs : Alone(S, T, q) /\ S[q] = NoSpace /\ T[q] = S[p]
                        \/ Alone(S, T, p) /\ T[p] = NoSpace
                        \/ Alone(S, T, p) /\ Changes(S[p], T[p])

\* A call for q changes its memory only, from s to t.
Lone(S, T, q, a, b) == Alone(S, T, q) /\ S[q] = a /\ T[q] = b /\ (S[q] = T[q] => S = T)

\* As every call does.
LEMMA TurnAlone ==
    ASSUME Counting, GoodVm(m, proc), NEW q \in Procs, NEW np, Turned(q, np),
           NEW S, S = Spaces(m, proc), NEW T, T = Spaces(m', proc')
    PROVE  Lone(S, T, q, SpaceOf(m, proc[q]), SpaceOf(m', np))
<1>1. (\A p \in Procs : S[p] = SpaceOf(m, proc[p]) /\ T[p] = SpaceOf(m', proc'[p])) /\ DOMAIN S = Procs /\ DOMAIN T = Procs
  BY DEF Spaces
<1>2. S = [p \in Procs |-> S[p]] /\ T = [p \in Procs |-> T[p]]
  BY <1>1 DEF Spaces
<1>3. \A p \in Procs : p # q => T[p] = S[p]
  BY <1>1, SpaceOther
<1>4. proc'[q] = np
  BY DEF Turned, GoodVm
<1>5. Alone(S, T, q)
  BY <1>2, <1>3, SMTT(60) DEF Alone
<1>6. S[q] = T[q] => S = T
  BY <1>2, <1>3, SMTT(60)
<1> QED
  BY <1>1, <1>4, <1>5, <1>6 DEF Lone

\* The memory of a process that is not unused.
LEMMA SpaceThere ==
    ASSUME Counting, GoodVm(m, proc), NEW p \in Procs, proc[p].state # "unused"
    PROVE  InUse(proc[p]) /\ SpaceOf(m, proc[p]) # NoSpace
<1>1. OkProc(proc[p]) /\ m \in Mems
  BY DEF GoodVm
<1>2. InUse(proc[p])
  BY <1>1, UnusedHas DEF OkProc
<1>3. PICK k : Prefix(proc[p].pd, k)
  BY <1>2, HasPrefix
<1> QED
  BY <1>1, <1>2, <1>3, SpaceShaped

\* fork.
LEMMA CopiesMove ==
    ASSUME Counting
    PROVE  \A p \in Procs : \A S, T :
               /\ GoodVm(m, proc)
               /\ Runs(p)
               /\ Copies(p)
               /\ S = Spaces(m, proc)
               /\ T = Spaces(m', proc')
               => S = T \/ Moves(S, T)
\* Two page tables with the same contents.
<1> DEFINE SameCells(n2, pd2, n, pd, k) == Cells(n2, pd2, k) = Cells(n, pd, k)
<1> HIDE DEF SameCells
\* fork: the child finds what its parent has.
<1>1. ASSUME NEW n, NEW pr, InUse(pr), NEW k, Prefix(pr.pd, k), NEW n2, NEW np, CopyOf(n, pr, n2, np)
      PROVE  Prefix(np.pd, k) /\ SameCells(n2, np.pd, n, pr.pd, k)
  <2> USE <1>1
  <2>1. PICK pd, pd2 : pd = pr.pd /\ pd2 = np.pd
    OBVIOUS
  <2>2. \A v \in Vpns : (pd2.pte[v].pa # 0 <=> pd.pte[v].pa # 0) /\ (pd.pte[v].pa # 0 => n2.mem[pd2.pte[v].pa] = n.mem[pd.pte[v].pa])
    BY <2>1 DEF CopyOf
  <2>3. Prefix(pd2, k)
    BY <2>1, <2>2 DEF Prefix
  <2>4. pd \in Pgdirs /\ Prefix(pd, k)
    BY <2>1 DEF InUse
  <2>5. \A i \in 1 .. k : i - 1 \in Vpns /\ pd.pte[i - 1].pa # 0
    BY <2>4, PrefixPage
  <2>6. \A i \in 1 .. k : n2.mem[pd2.pte[i - 1].pa] = n.mem[pd.pte[i - 1].pa]
    BY <2>2, <2>5
  <2>7. Cells(n2, pd2, k) = Cells(n, pd, k)
    BY <2>6 DEF Cells
  <2> QED
    BY <2>1, <2>3, <2>7 DEF SameCells
<1>2. ASSUME GoodVm(m, proc), NEW p \in Procs, Runs(p), Copies(p),
             NEW S, S = Spaces(m, proc), NEW T, T = Spaces(m', proc')
      PROVE  S = T \/ Moves(S, T)
  <2> USE <1>2
  <2>1. PICK q, np : q \in Procs /\ Turned(q, np) /\ proc[q] = Unused /\ (np = Unused \/ (np.state = "run" /\ CopyOf(m, proc[p], m', np)))
    BY DEF Copies
  <2>2. Alone(S, T, q) /\ S[q] = SpaceOf(m, proc[q]) /\ T[q] = SpaceOf(m', np) /\ (S[q] = T[q] => S = T)
    <3>1. Lone(S, T, q, SpaceOf(m, proc[q]), SpaceOf(m', np))
      BY <2>1, TurnAlone
    <3> QED
      BY <3>1 DEF Lone
  <2>3. S[q] = NoSpace /\ (np = Unused => T[q] = NoSpace)
    <3>1. \A n, pr : pr = Unused => SpaceOf(n, pr) = NoSpace
      BY UnusedHas DEF SpaceOf
    <3> QED
      BY <2>1, <2>2, <3>1
  <2>4. CASE np = Unused
    BY <2>2, <2>3, <2>4
  <2>5. CASE np.state = "run" /\ CopyOf(m, proc[p], m', np)
    <3>1. proc[p].state = "run" /\ "run" # "unused"
      BY DEF Runs
    <3>2. InUse(proc[p]) /\ SpaceOf(m, proc[p]) # NoSpace
      BY <3>1, SpaceThere
    <3>3. S[p] = SpaceOf(m, proc[p])
      BY DEF Spaces
    <3>4. PICK k : Prefix(proc[p].pd, k)
      BY <3>2, HasPrefix
    <3>5. Prefix(np.pd, k) /\ Cells(m', np.pd, k) = Cells(m, proc[p].pd, k)
      <4>1. PICK pr : pr = proc[p]
        OBVIOUS
      <4>2. Prefix(np.pd, k) /\ SameCells(m', np.pd, m, pr.pd, k)
        BY <2>5, <3>2, <3>4, <4>1, <1>1
      <4> QED
        BY <4>1, <4>2 DEF SameCells
    <3>6. InUse(np)
      <4>1. np = Unused \/ InUse(np)
        BY <2>1 DEF Turned, Turnover, OkProc
      <4>2. np # Unused
        BY <2>5, <3>1, UnusedHas
      <4> QED
        BY <4>1, <4>2
    <3>7. SpaceOf(m', np) = Cells(m', np.pd, k) /\ SpaceOf(m, proc[p]) = Cells(m, proc[p].pd, k)
      BY <3>2, <3>4, <3>5, <3>6, SpaceIs
    <3>8. T[q] = S[p]
      BY <2>2, <3>3, <3>5, <3>7
    <3> QED
      BY <2>1, <2>2, <2>3, <3>2, <3>3, <3>8 DEF Moves
  <2> QED
    BY <2>1, <2>4, <2>5
<1> QED
  BY <1>2

\* sbrk, exec and stores.
LEMMA RunMoves ==
    ASSUME Counting
    PROVE  \A p \in Procs : \A S, T :
               /\ GoodVm(m, proc)
               /\ Runs(p)
               /\ (Regrows(p) \/ Replaces(p) \/ Writes(p))
               /\ S = Spaces(m, proc)
               /\ T = Spaces(m', proc')
               => Moves(S, T)
\* A store, or a call that fills a buffer.
<1>1. ASSUME NEW n, NEW pr, InUse(pr), NEW k, Prefix(pr.pd, k), NEW n2, StoredIn(n, pr, n2)
      PROVE  StoresIn(Cells(n, pr.pd, k), Cells(n2, pr.pd, k))
  <2> USE <1>1
  <2>1. PICK pd, s, t : pd = pr.pd /\ s = Cells(n, pd, k) /\ t = Cells(n2, pd, k)
    OBVIOUS
  <2>2. pd \in Pgdirs /\ Prefix(pd, k)
    BY <2>1 DEF InUse
  <2>3. /\ Len(s) = k /\ DOMAIN s = 1 .. k /\ \A i \in 1 .. k : s[i] = n.mem[pd.pte[i - 1].pa]
        /\ Len(t) = k /\ \A i \in 1 .. k : t[i] = n2.mem[pd.pte[i - 1].pa]
    <3>1. Array(n, pd, k, s) /\ Array(n2, pd, k, t)
      BY <2>1, <2>2, CellsFacts
    <3> QED
      BY <3>1 DEF Array
  <2>4. \A i \in 1 .. k : i - 1 \in Vpns /\ pd.pte[i - 1].pa # 0
    BY <2>2, PrefixPage
  <2>5. \A v \in Vpns : pd.pte[v].pa # 0 => n2.mem[pd.pte[v].pa] = n.mem[pd.pte[v].pa] \/ n2.mem[pd.pte[v].pa] \in Values
    BY <2>1 DEF StoredIn
  <2>6. \A i \in 1 .. k : t[i] = s[i] \/ t[i] \in Values
    <3> SUFFICES ASSUME NEW i \in 1 .. k PROVE t[i] = s[i] \/ t[i] \in Values
      BY SMTT(60)
    <3>1. n2.mem[pd.pte[i - 1].pa] = n.mem[pd.pte[i - 1].pa] \/ n2.mem[pd.pte[i - 1].pa] \in Values
      BY <2>4, <2>5
    <3>2. s[i] = n.mem[pd.pte[i - 1].pa] /\ t[i] = n2.mem[pd.pte[i - 1].pa]
      BY <2>3
    <3> QED
      BY <3>1, <3>2
  <2>7. StoresIn(s, t)
    BY <2>3, <2>6 DEF StoresIn
  <2> QED
    BY <2>1, <2>7
\* A new memory that follows from the old one.
<1>2. ASSUME GoodVm(m, proc), NEW p \in Procs, NEW np, Turned(p, np), InUse(np), proc[p].state # "unused",
             Changes(SpaceOf(m, proc[p]), SpaceOf(m', np)),
             NEW S, S = Spaces(m, proc), NEW T, T = Spaces(m', proc')
      PROVE  Moves(S, T)
  <2> USE <1>2
  <2>1. Alone(S, T, p) /\ S[p] = SpaceOf(m, proc[p]) /\ T[p] = SpaceOf(m', np)
    <3>1. Lone(S, T, p, SpaceOf(m, proc[p]), SpaceOf(m', np))
      BY TurnAlone
    <3> QED
      BY <3>1 DEF Lone
  <2>2. S[p] # NoSpace
    BY <2>1, SpaceThere
  <2> QED
    BY <2>1, <2>2 DEF Moves
<1>3. ASSUME GoodVm(m, proc), NEW p \in Procs, Runs(p), Regrows(p) \/ Replaces(p) \/ Writes(p),
             NEW S, S = Spaces(m, proc), NEW T, T = Spaces(m', proc')
      PROVE  Moves(S, T)
  <2> USE <1>3
  <2>1. PICK pr : pr = proc[p]
    OBVIOUS
  <2>2. proc[p].state = "run" /\ "run" # "unused"
    BY DEF Runs
  <2>3. InUse(pr) /\ proc[p].state # "unused"
    BY <2>1, <2>2, SpaceThere
  <2>4. PICK k : Prefix(pr.pd, k)
    BY <2>3, HasPrefix
  <2>5. SpaceOf(m, pr) = Cells(m, pr.pd, k)
    BY <2>3, <2>4, SpaceIs
  <2>6. ASSUME NEW np, Turned(p, np), InUse(np), NEW h, Prefix(np.pd, h)
        PROVE  SpaceOf(m', np) = Cells(m', np.pd, h) /\ SpaceOf(m', np) # NoSpace
    <3>1. m' \in Mems
      BY <2>6 DEF Turned, Turnover
    <3> QED
      BY <2>6, <3>1, SpaceIs, SpaceShaped
  <2>7. CASE Regrows(p)
    <3>1. PICK np : Turned(p, np) /\ InUse(np) /\ Regrown(m, pr, m', np)
      BY <2>1, <2>7 DEF Regrows
    <3>2. PICK h : Prefix(np.pd, h)
      BY <3>1, HasPrefix
    <3>3. PICK s, t : s = Cells(m, pr.pd, k) /\ t = Cells(m', np.pd, h)
      OBVIOUS
    <3>4. Shrinks(s, t) \/ Grows(s, t)
      BY <2>3, <2>4, <3>1, <3>2, <3>3, RegrowCells
    <3>5. SpaceOf(m', np) = t /\ t # NoSpace /\ SpaceOf(m, proc[p]) = s
      BY <2>1, <2>5, <2>6, <3>1, <3>2, <3>3
    <3>6. Changes(SpaceOf(m, proc[p]), SpaceOf(m', np))
      BY <3>4, <3>5 DEF Changes
    <3> QED
      BY <2>3, <3>1, <3>6, <1>2
  <2>8. CASE Replaces(p)
    <3>1. PICK np, prog : prog \in Programs /\ Turned(p, np) /\ InUse(np) /\ HasImage(m', np.pd, np.sz, prog)
      BY <2>8 DEF Replaces
    <3>2. m' \in Mems /\ np.pd \in Pgdirs
      BY <3>1 DEF Turned, Turnover, InUse
    <3>3. Prefix(np.pd, PageUp(np.sz)) /\ Cells(m', np.pd, PageUp(np.sz)) = Image(prog)
      BY <3>1, <3>2, ImageCells
    <3>4. SpaceOf(m', np) = Image(prog) /\ SpaceOf(m', np) # NoSpace
      BY <2>6, <3>1, <3>3
    <3>5. Changes(SpaceOf(m, proc[p]), SpaceOf(m', np))
      BY <3>1, <3>4 DEF Changes
    <3> QED
      BY <2>3, <3>1, <3>5, <1>2
  <2>9. CASE Writes(p)
    <3>1. Turned(p, pr) /\ StoredIn(m, pr, m')
      BY <2>1, <2>9 DEF Writes
    <3>2. SpaceOf(m', pr) = Cells(m', pr.pd, k) /\ SpaceOf(m', pr) # NoSpace
      BY <2>3, <2>4, <2>6, <3>1
    <3>3. StoresIn(Cells(m, pr.pd, k), Cells(m', pr.pd, k))
      BY <2>3, <2>4, <3>1, <1>1
    <3>4. Changes(SpaceOf(m, proc[p]), SpaceOf(m', pr))
      BY <2>1, <2>5, <3>2, <3>3 DEF Changes
    <3> QED
      BY <2>3, <3>1, <3>4, <1>2
  <2> QED
    BY <2>7, <2>8, <2>9
<1> QED
  BY <1>3

\* exit, which leaves the memory as it is, and wait.
LEMMA EndMoves ==
    ASSUME Counting, GoodVm(m, proc), NEW p \in Procs, proc[p].state # "unused", Ends(p) \/ Reaps(p),
           NEW S, S = Spaces(m, proc), NEW T, T = Spaces(m', proc')
    PROVE  S = T \/ Moves(S, T)
<1>1. CASE Ends(p)
  <2>1. PICK pr, np : pr = proc[p] /\ np = Ended(pr)
    OBVIOUS
  <2>2. Turned(p, np) /\ m' = m /\ InUse(pr)
    BY <1>1, <2>1 DEF Ends
  <2>3. np.state = "zombie" /\ np.pd = pr.pd
    <3>1. PICK a, b, c, d : Made(pr, a, b, c, d)
      BY <2>2 DEF InUse, Made
    <3>2. pr = [state |-> a, kstack |-> b, pd |-> c, sz |-> d]
      BY <3>1 DEF Made
    <3>3. np = [state |-> "zombie", kstack |-> b, pd |-> c, sz |-> d]
      BY <2>1, <3>2, SMTT(60) DEF Ended
    <3> QED
      BY <3>2, <3>3, SMTT(60)
  <2>4. pr.state # "unused" /\ np.state # "unused"
    <3>1. "zombie" # "unused"
      BY SMTT(60)
    <3> QED
      BY <2>1, <2>3, <3>1
  <2>5. SpaceOf(m', np) = SpaceOf(m, pr)
    BY <2>2, <2>3, <2>4 DEF SpaceOf
  <2>6. S[p] = SpaceOf(m, pr) /\ T[p] = SpaceOf(m', np) /\ (S[p] = T[p] => S = T)
    <3>1. Lone(S, T, p, SpaceOf(m, proc[p]), SpaceOf(m', np))
      BY <2>2, TurnAlone
    <3> QED
      BY <2>1, <3>1 DEF Lone
  <2> QED
    BY <2>5, <2>6
<1>2. CASE Reaps(p)
  <2>1. Turned(p, Unused)
    BY <1>2 DEF Reaps
  <2>2. Alone(S, T, p) /\ S[p] = SpaceOf(m, proc[p]) /\ T[p] = SpaceOf(m', Unused)
    <3>1. Lone(S, T, p, SpaceOf(m, proc[p]), SpaceOf(m', Unused))
      BY <2>1, TurnAlone
    <3> QED
      BY <3>1 DEF Lone
  <2>3. SpaceOf(m', Unused) = NoSpace
    BY UnusedHas DEF SpaceOf
  <2>4. SpaceOf(m, proc[p]) # NoSpace
    BY SpaceThere
  <2> QED
    BY <2>2, <2>3, <2>4 DEF Moves
<1> QED
  BY <1>1, <1>2
=============================================================================
