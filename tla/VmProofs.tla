------------------------------ MODULE VmProofs ------------------------------
(***************************************************************************)
(* The memory of processes (vm.c, exec.c and proc.c), for any number of    *)
(* pages, processes and programs: every page has one owner, a size is what *)
(* is mapped, nothing panics, and the page tables implement the private    *)
(* memories of AddressSpace, up to an access that nothing has checked.     *)
(***************************************************************************)
EXTENDS VmSteps, FiniteSetTheorems, WellFoundedInduction

\* Zenon is the prover of a leaf that names no other.
USE ZenonT(60)

-----------------------------------------------------------------------------
(* Counting *)

\* There are finitely many pages, of either kind, and tables.
LEMMA FinitePages == IsFiniteSet(Vpns) /\ IsFiniteSet(Tables) /\ IsFiniteSet(Frames)
<1>1. IsFiniteSet(Vpns)
  BY VpnFacts, UserPart, FS_Interval, SMTT(60)
<1>2. IsFiniteSet(Tables)
  <2> DEFINE f == [v \in Vpns |-> v \div NPT]
  <2>1. f \in Surjection(Vpns, Tables)
    BY SMTT(60) DEF Surjection, Tables
  <2> QED
    BY <1>1, <2>1, FS_Surjection
<1>3. IsFiniteSet(Frames)
  <2>1. End \in Nat \ {0} /\ PHYSTOP \in Nat \ {0} /\ PGSIZE \in Nat \ {0}
    BY AddressAssumption, SMTT(60)
  <2>2. PageUp(End) \in Nat /\ PHYSTOP \div PGSIZE \in Int
    BY <2>1, PageUpBelow, Division, SMTT(60)
  <2> QED
    BY <2>2, FS_Interval, SMTT(60) DEF Frames
<1> QED
  BY <1>1, <1>2, <1>3

\* The hypothesis of the lemmas about the calls holds.
LEMMA CountingHolds == Counting
<1>1. ASSUME NEW S \in SUBSET Nat, S # {} PROVE \E x \in S : \A y \in S : x <= y
  <2> DEFINE R == OpToRel(<, Nat)
  <2>1. IsWellFoundedOn(R, Nat)
    BY NatLessThanWellFounded
  <2>2. \A y, x \in Nat : y < x => <<y, x>> \in R
    BY SMTT(60) DEF OpToRel
  <2> HIDE DEF R
  <2>3. PICK x \in S : \A y \in S : ~(<<y, x>> \in R)
    BY <1>1, <2>1, WFMin
  <2>4. ASSUME NEW y \in S PROVE x <= y
    <3>1. x \in Nat /\ y \in Nat /\ ~(y < x)
      BY <2>2, <2>3, <2>4
    <3> QED
      BY <3>1, SMTT(60)
  <2> QED
    BY <2>4
<1>2. ASSUME NEW S \in SUBSET Frames PROVE IsFiniteSet(S)
  BY FinitePages, FS_Subset
<1>3. ASSUME NEW S \in SUBSET Frames PROVE Cardinality(S) \in Nat
  BY <1>2, FS_CardinalityType
<1>4. ASSUME NEW S \in SUBSET Frames, NEW x \in S PROVE Cardinality(S \ {x}) = Cardinality(S) - 1
  BY <1>2, FS_RemoveElement
<1>5. ASSUME NEW i \in Int, NEW j \in Int, i <= j + 1 PROVE Cardinality(i .. j) = j - i + 1
  <2>1. Cardinality(i .. j) = IF i > j THEN 0 ELSE j - i + 1
    BY FS_Interval
  <2> QED
    BY <1>5, <2>1, SMTT(60)
<1>6. Cardinality({}) = 0
  BY FS_EmptySet
<1> QED
  BY <1>1, <1>3, <1>4, <1>5, <1>6 DEF Counting

-----------------------------------------------------------------------------
(* The invariants *)

\* Whatever fork, exec, sbrk, exit and wait do, and wherever they run out of
\* memory, every page is on the free list or has one place in one process, no
\* panic is reached, and a process has the pages below its size or none.
THEOREM VmInvariant == Spec => []VmIInv
\* Such a call keeps the pages of all processes apart.
<1>1. ASSUME NEW n, NEW P, GoodVm(n, P), NEW p \in Procs, NEW n2, NEW pr2, Turnover(n, P[p], n2, pr2),
             NEW P2, P2 = [P EXCEPT ![p] = pr2]
      PROVE  GoodVm(n2, P2)
  <2> USE <1>1
  <2>1. P = [q \in Procs |-> P[q]]
    BY DEF GoodVm
  <2>2. P2 = [q \in Procs |-> P2[q]] /\ P2[p] = pr2 /\ \A q \in Procs : q # p => P2[q] = P[q]
    BY <2>1, SMTT(60)
  <2>3. /\ n2 \in Mems /\ n2.panic = "none" /\ OkProc(pr2) /\ n2.free \cap Has(pr2) = {}
        /\ n2.free \cup Has(pr2) = n.free \cup Has(P[p])
    BY DEF Turnover
  <2>4. /\ \A q \in Procs : OkProc(P[q]) /\ n.free \cap Has(P[q]) = {}
        /\ \A q, r \in Procs : q # r => Has(P[q]) \cap Has(P[r]) = {}
        /\ \A x \in Frames : x \in n.free \/ \E q \in Procs : x \in Has(P[q])
    BY DEF GoodVm
  <2>5. PICK F, H, F2, H2 : F = n.free /\ H = Has(P[p]) /\ F2 = n2.free /\ H2 = Has(pr2)
    OBVIOUS
  <2>6. ASSUME NEW q \in Procs, q # p PROVE F2 \cap Has(P2[q]) = {} /\ H2 \cap Has(P2[q]) = {}
    <3>1. PICK Q : Q = Has(P[q])
      OBVIOUS
    <3>2. F \cap Q = {} /\ H \cap Q = {} /\ F2 \cup H2 = F \cup H
      BY <2>3, <2>4, <2>5, <2>6, <3>1
    <3>3. F2 \cap Q = {} /\ H2 \cap Q = {}
      BY <3>2, SMTT(60)
    <3> QED
      BY <2>2, <2>6, <3>1, <3>3
  <2>7. ASSUME NEW q \in Procs PROVE OkProc(P2[q]) /\ n2.free \cap Has(P2[q]) = {}
    <3>1. CASE q = p
      BY <2>2, <2>3, <3>1
    <3>2. CASE q # p
      BY <2>2, <2>4, <2>5, <2>6, <3>2
    <3> QED
      BY <3>1, <3>2
  <2>8. ASSUME NEW q \in Procs, NEW r \in Procs, q # r PROVE Has(P2[q]) \cap Has(P2[r]) = {}
    <3>1. CASE q = p
      BY <2>2, <2>5, <2>6, <2>8, <3>1
    <3>2. CASE r = p
      <4>1. H2 \cap Has(P2[q]) = {}
        BY <2>6, <2>8, <3>2
      <4>2. Has(P2[q]) \cap H2 = {}
        BY <4>1, SMTT(60)
      <4> QED
        BY <2>2, <2>5, <3>2, <4>2
    <3>3. CASE q # p /\ r # p
      BY <2>2, <2>4, <2>8, <3>3
    <3> QED
      BY <3>1, <3>2, <3>3
  <2>9. ASSUME NEW x \in Frames PROVE x \in n2.free \/ \E q \in Procs : x \in Has(P2[q])
    <3>1. CASE x \in F \cup H
      <4>1. x \in F2 \/ x \in H2
        BY <2>3, <2>5, <3>1, SMTT(60)
      <4> QED
        BY <2>2, <2>5, <4>1
    <3>2. CASE \E q \in Procs : q # p /\ x \in Has(P[q])
      BY <2>2, <3>2
    <3>3. x \in F \cup H \/ \E q \in Procs : q # p /\ x \in Has(P[q])
      BY <2>4, <2>5, <2>9
    <3> QED
      BY <3>1, <3>2, <3>3
  <2> QED
    BY <2>2, <2>3, <2>7, <2>8, <2>9 DEF GoodVm
\* Each step changes one slot at most.
<1>2. ASSUME NEW p \in Procs, VmStepOf(p) PROVE \E q \in Procs : \E np : Turned(q, np)
  BY <1>2 DEF VmStepOf, Copies, Regrows, Replaces, Ends, Reaps, Writes
<1>3. ASSUME GoodVm(m, proc), [Next]_vars PROVE GoodVm(m', proc')
  <2> USE <1>3
  <2>1. CASE UNCHANGED <<m, proc>>
    <3>1. m' = m /\ proc' = proc
      BY <2>1
    <3> QED
      BY <3>1
  <2>2. ASSUME NEW p \in Procs, VmStepOf(p) PROVE GoodVm(m', proc')
    <3>1. PICK q, np : q \in Procs /\ Turned(q, np)
      BY <2>2, <1>2
    <3>2. Turnover(m, proc[q], m', np) /\ proc' = [proc EXCEPT ![q] = np]
      BY <3>1 DEF Turned
    <3> QED
      BY <3>1, <3>2, <1>1
  <2> QED
    BY CountingHolds, <2>1, <2>2, NextSteps
<1>4. Init => VmIInv
  BY CountingHolds, VmInitGood DEF Init, VmIInv
<1>5. VmIInv /\ [Next]_vars => VmIInv'
  <2> SUFFICES ASSUME VmIInv, [Next]_vars PROVE VmIInv'
    BY SMTT(60)
  <2>1. GoodVm(m, proc)
    BY DEF VmIInv
  <2>2. GoodVm(m', proc')
    BY <2>1, <1>3
  <2> QED
    BY <2>2 DEF VmIInv
<1> QED
  BY <1>4, <1>5, PTL DEF Spec

\* Every page of memory is on the free list, or is one page of one process:
\* whatever runs out of memory in fork, exec or sbrk gives back all it took, and
\* wait gives back all the process had, once.
THEOREM EveryPageOwnedOnce == Spec => []PagesOwnedOnce
\* Things in one place each are as many as the places.
<1>1. ASSUME NEW S, IsFiniteSet(S), NEW f, \A x, y \in S : f[x] = f[y] => x = y
      PROVE  IsFiniteSet({f[x] : x \in S}) /\ Cardinality({f[x] : x \in S}) = Cardinality(S)
  <2> USE <1>1
  <2>1. PICK T : T = {f[x] : x \in S}
    OBVIOUS
  <2>2. PICK g : g = [x \in S |-> f[x]]
    OBVIOUS
  <2>3. g \in [S -> T] /\ DOMAIN g = S /\ \A x \in S : g[x] = f[x]
    BY <2>1, <2>2, SMTT(60)
  <2>4. IsInjective(g)
    BY <2>3 DEF IsInjective
  <2>5. \A t \in T : \E x \in S : g[x] = t
    BY <2>1, <2>3
  <2>6. g \in Bijection(S, T)
    BY <2>3, <2>4, <2>5 DEF Bijection, Injection, Surjection
  <2>7. ExistsBijection(S, T)
    BY <2>6 DEF ExistsBijection
  <2> QED
    BY <2>1, <2>7, FS_Bijection
\* Disjoint sets.
<1>2. ASSUME NEW S, IsFiniteSet(S), NEW T, IsFiniteSet(T), S \cap T = {}
      PROVE  IsFiniteSet(S \cup T) /\ Cardinality(S \cup T) = Cardinality(S) + Cardinality(T)
  <2> USE <1>2
  <2>1. Cardinality(S) \in Nat /\ Cardinality(T) \in Nat /\ Cardinality(S \cap T) = 0
    BY FS_CardinalityType, FS_EmptySet, SMTT(60)
  <2>2. IsFiniteSet(S \cup T) /\ Cardinality(S \cup T) = Cardinality(S) + Cardinality(T) - Cardinality(S \cap T)
    BY FS_Union, SMTT(60)
  <2> QED
    BY <2>1, <2>2, SMTT(60)
\* A process has as many pages as its page table has entries, and a stack.
<1>3. ASSUME NEW pr, InUse(pr) PROVE Cardinality(Has(pr)) = Entries(pr.pd) + 1
  <2> USE <1>3
  <2>1. PICK pd, k : pd = pr.pd /\ k = pr.kstack
    OBVIOUS
  <2>2. pd \in Pgdirs /\ Distinct(pd) /\ pd.dir # 0 /\ k \notin Held(pd) /\ k \in Frames /\ k # 0
    BY <2>1, FrameFacts DEF InUse
  <2>3. PICK U, W : U = {v \in Vpns : pd.pte[v].pa # 0} /\ W = {t \in Tables : pd.tab[t] # 0}
    OBVIOUS
  <2>4. PICK E, B, K, d : E = PtePages(pd) /\ B = {pd.tab[t] : t \in W} /\ K = pd.ktab /\ d = pd.dir
    OBVIOUS
  <2>5. IsFiniteSet(U) /\ IsFiniteSet(W) /\ IsFiniteSet(K) /\ K \subseteq Frames
    <3>1. U \subseteq Vpns /\ W \subseteq Tables
      BY <2>3, SMTT(60)
    <3>2. K \subseteq Frames
      BY <2>2, <2>4, PdFields
    <3> QED
      BY <3>1, <3>2, FinitePages, FS_Subset
  <2>6. IsFiniteSet(E) /\ Cardinality(E) = Cardinality(U)
    <3>1. PICK f : f = [v \in Vpns |-> pd.pte[v].pa]
      OBVIOUS
    <3>2. \A v \in Vpns : f[v] = pd.pte[v].pa
      BY <3>1, SMTT(60)
    <3>3. E = {f[v] : v \in U}
      BY <2>3, <2>4, <3>2, SMTT(60) DEF PtePages
    <3>4. \A u, v \in U : f[u] = f[v] => u = v
      <4>1. \A u \in U : u \in Vpns /\ pd.pte[u].pa # 0 /\ f[u] = pd.pte[u].pa
        BY <2>3, <3>2, SMTT(60)
      <4>2. \A u, v \in Vpns : pd.pte[u].pa # 0 /\ pd.pte[u].pa = pd.pte[v].pa => u = v
        BY <2>2 DEF Distinct
      <4> QED
        BY <4>1, <4>2
    <3> QED
      BY <2>5, <3>3, <3>4, <1>1
  <2>7. IsFiniteSet(B) /\ Cardinality(B) = Cardinality(W)
    <3>1. PICK f : f = pd.tab
      OBVIOUS
    <3>2. B = {f[t] : t \in W}
      BY <2>4, <3>1, SMTT(60)
    <3>3. \A s, t \in W : f[s] = f[t] => s = t
      BY <2>2, <2>3, <3>1 DEF Distinct
    <3> QED
      BY <2>5, <3>2, <3>3, <1>1
  <2>8. TablePages(pd) = B \cup K \cup {d}
    <3>1. TablePages(pd) = ({pd.tab[t] : t \in Tables} \cup K \cup {d}) \ {0}
      BY <2>4 DEF TablePages
    <3>2. {pd.tab[t] : t \in Tables} \ {0} = B
      BY <2>3, <2>4, SMTT(60)
    <3>3. 0 \notin K /\ d # 0
      BY <2>2, <2>4, <2>5, FrameFacts, SMTT(60)
    <3> QED
      BY <3>1, <3>2, <3>3, SMTT(60)
  <2>9. Has(pr) = E \cup (B \cup K \cup {d}) \cup {k} /\ k \notin E \cup (B \cup K \cup {d})
    <3>1. Held(pd) = E \cup (B \cup K \cup {d})
      BY <2>4, <2>8 DEF Held
    <3>2. Has(pr) = Held(pd) \cup ({k} \ {0})
      BY <2>1 DEF Has
    <3> QED
      BY <2>2, <3>1, <3>2, SMTT(60)
  <2>10. E \cap (B \cup K \cup {d}) = {}
    <3>1. \A v \in Vpns : pd.pte[v].pa \notin B \cup K \cup {d}
      BY <2>2, <2>8 DEF Distinct
    <3> QED
      BY <2>4, <3>1, SMTT(60) DEF PtePages
  <2>11. B \cap K = {} /\ d \notin B \cup K
    <3>1. \A t \in W : pd.tab[t] \notin K /\ pd.tab[t] # d
      BY <2>2, <2>3, <2>4 DEF Distinct
    <3>2. d \notin K
      BY <2>2, <2>4 DEF Distinct
    <3> QED
      BY <2>4, <3>1, <3>2, SMTT(60)
  <2>12. IsFiniteSet(B \cup K) /\ Cardinality(B \cup K) = Cardinality(B) + Cardinality(K)
    BY <2>5, <2>7, <2>11, <1>2
  <2>13. PICK T : T = B \cup K \cup {d}
    OBVIOUS
  <2>14. IsFiniteSet(T) /\ Cardinality(T) = Cardinality(B) + Cardinality(K) + 1
    <3>1. PICK S : S = B \cup K
      OBVIOUS
    <3>2. T = S \cup {d} /\ d \notin S /\ IsFiniteSet(S)
      BY <2>11, <2>12, <2>13, <3>1
    <3>3. IsFiniteSet(T) /\ Cardinality(T) = Cardinality(S) + 1
      BY <3>2, FS_AddElement, SMTT(60)
    <3> QED
      BY <2>12, <3>1, <3>3, SMTT(60)
  <2>15. IsFiniteSet(E \cup T) /\ Cardinality(E \cup T) = Cardinality(E) + Cardinality(T)
    <3>1. E \cap T = {}
      BY <2>10, <2>13
    <3> QED
      BY <2>6, <2>14, <3>1, <1>2
  <2>16. Cardinality(Has(pr)) = Cardinality(E \cup T) + 1
    <3>1. Has(pr) = (E \cup T) \cup {k} /\ k \notin E \cup T
      BY <2>9, <2>13
    <3> QED
      BY <2>15, <3>1, FS_AddElement
  <2>17. Entries(pd) = Cardinality(U) + Cardinality(W) + Cardinality(K) + 1
    BY <2>3, <2>4 DEF Entries
  <2>18. Cardinality(E) \in Nat /\ Cardinality(B) \in Nat /\ Cardinality(K) \in Nat
    BY <2>5, <2>6, <2>7, FS_CardinalityType
  <2> QED
    BY <2>1, <2>6, <2>7, <2>14, <2>15, <2>16, <2>17, <2>18, SMTT(60)
<1>4. VmIInv => PagesOwnedOnce
  <2> SUFFICES ASSUME VmIInv PROVE PagesOwnedOnce
    BY SMTT(60)
  <2>1. GoodVm(m, proc)
    BY DEF VmIInv
  <2>2. \A p \in Procs : Owned(p) = Has(proc[p])
    BY DEF Owned, Has, Held
  <2>3. Pages = Frames
    <3>1. m.mem \in [Frames -> Fillings]
      BY <2>1, MemFields DEF GoodVm
    <3> QED
      BY <3>1 DEF Pages
  <2>4. Frames = m.free \cup UNION {Owned(p) : p \in Procs}
    <3>1. \A x \in Frames : x \in m.free \/ \E p \in Procs : x \in Owned(p)
      <4>1. \A x \in Frames : x \in m.free \/ \E p \in Procs : x \in Has(proc[p])
        BY <2>1 DEF GoodVm
      <4>2. \A p \in Procs : \A x : x \in Has(proc[p]) => x \in Owned(p)
        BY <2>2, SMTT(60)
      <4> QED
        BY <4>1, <4>2
    <3>2. m.free \subseteq Frames
      BY <2>1, MemFields DEF GoodVm
    <3>3. ASSUME NEW p \in Procs PROVE Has(proc[p]) \subseteq Frames
      <4>1. CASE proc[p] = Unused
        BY <4>1, UnusedHas, SMTT(60)
      <4>2. CASE InUse(proc[p])
        <5>1. PICK pr : pr = proc[p]
          OBVIOUS
        <5>2. pr.pd \in Pgdirs /\ pr.kstack \in Frames
          BY <4>2, <5>1 DEF InUse
        <5>3. ASSUME NEW x \in Held(pr.pd) PROVE x \in Frames
          <6>1. PICK pd : pd = pr.pd
            OBVIOUS
          <6>2. /\ x # 0
                /\ (\E v \in Vpns : pd.pte[v].pa = x) \/ (\E t \in Tables : pd.tab[t] = x) \/ x \in pd.ktab \/ x = pd.dir
            BY <5>3, <6>1, InHeld
          <6>3. /\ pd.dir \in Frames \cup {0} /\ pd.ktab \subseteq Frames
                /\ \A v \in Vpns : pd.pte[v].pa \in Frames \cup {0}
                /\ \A t \in Tables : pd.tab[t] \in Frames \cup {0}
            BY <5>2, <6>1, PdFields
          <6> QED
            BY <6>2, <6>3, SMTT(60)
        <5>4. Has(pr) = Held(pr.pd) \cup ({pr.kstack} \ {0})
          BY DEF Has
        <5>5. Has(pr) \subseteq Frames
          BY <5>2, <5>3, <5>4, SMTT(60)
        <5> QED
          BY <5>1, <5>5
      <4> QED
        BY <2>1, <4>1, <4>2 DEF GoodVm, OkProc
    <3>4. \A p \in Procs : Owned(p) \subseteq Frames
      BY <2>2, <3>3
    <3> QED
      BY <3>1, <3>2, <3>4, SMTT(60)
  <2>5. ASSUME NEW p \in Procs
        PROVE  /\ m.free \cap Owned(p) = {} /\ \A q \in Procs \ {p} : Owned(p) \cap Owned(q) = {}
               /\ proc[p] # Unused => Cardinality(Owned(p)) = Entries(proc[p].pd) + 1
    <3>1. m.free \cap Owned(p) = {}
      BY <2>1, <2>2 DEF GoodVm
    <3>2. \A q \in Procs \ {p} : q \in Procs /\ p # q
      BY SMTT(60)
    <3>3. \A q \in Procs \ {p} : Owned(p) \cap Owned(q) = {}
      BY <2>1, <2>2, <3>2 DEF GoodVm
    <3>4. proc[p] # Unused => InUse(proc[p])
      BY <2>1 DEF GoodVm, OkProc
    <3>5. proc[p] # Unused => Cardinality(Owned(p)) = Entries(proc[p].pd) + 1
      BY <2>2, <3>4, <1>3
    <3> QED
      BY <3>1, <3>3, <3>5
  <2> QED
    BY <2>3, <2>4, <2>5 DEF PagesOwnedOnce
<1> QED
  BY <1>4, VmInvariant, PTL

\* The pages of a process that can run are those below its size: growproc,
\* allocuvm, deallocuvm and exec keep the size and the page table together.
THEOREM SizeIsMapped == Spec => []SizeMapped
<1>1. VmIInv => SizeMapped
  <2> SUFFICES ASSUME VmIInv, NEW p \in Procs, Runs(p), NEW v \in Vpns
               PROVE  Mapped(p, v) <=> v * PGSIZE < proc[p].sz
    BY DEF SizeMapped
  <2>1. PICK pr : pr = proc[p]
    OBVIOUS
  <2>2. Spans(pr.pd, pr.sz) /\ pr.sz \in Nat \ {0}
    BY <2>1, RunsFacts DEF VmIInv
  <2>3. PICK s : s = pr.sz
    OBVIOUS
  <2>4. s \in Nat /\ v \in Int
    BY <2>2, <2>3, VpnFacts, SMTT(60)
  <2>5. v * PGSIZE < s <=> v < PageUp(s)
    BY <2>4, PageUpBelow
  <2>6. Mapped(p, v) <=> v < PageUp(s)
    BY <2>1, <2>2, <2>3 DEF Mapped, Spans
  <2> QED
    BY <2>1, <2>3, <2>5, <2>6
<1> QED
  BY <1>1, VmInvariant, PTL

\* No sequence of calls reaches a panic of kalloc.c or vm.c, or a page fault of
\* the kernel in memory that it has checked: the only accesses that go wrong are
\* the three that the model names and stops at.
THEOREM VmDoesNotPanic == Spec => []VmNeverPanics
<1>1. VmIInv => VmNeverPanics
  BY DEF VmIInv, GoodVm, VmNeverPanics
<1> QED
  BY <1>1, VmInvariant, PTL

-----------------------------------------------------------------------------
(* The page tables implement private memory *)

\* The page tables implement private memory: whatever fork, exec, sbrk, exit
\* and wait do with pages, a process finds in its memory what it or its own calls
\* stored there, its parent's memory at the fork, or its program, up to an access
\* that nothing has checked (Fault).
THEOREM SpacesPrivate == Spec => SpacesArePrivate
\* Space(p) reads physical memory and the slot of p.
<1>1. \A p : Space(p) = SpaceOf(m, proc[p]) /\ Space(p)' = SpaceOf(m', proc'[p])
  <2>1. \A p : {v \in Vpns : Mapped(p, v)} = {v \in Vpns : proc[p].pd.pte[v].pa # 0}
    BY SMTT(60) DEF Mapped
  <2>2. \A p : {v \in Vpns : Mapped(p, v)}' = {v \in Vpns : proc'[p].pd.pte[v].pa # 0}
    BY SMTT(60) DEF Mapped
  <2> QED
    BY <2>1, <2>2 DEF Space, SpaceOf, Cells
\* Every step of the system is a step of private memories, or of none.
<1>2. ASSUME GoodVm(m, proc), [Next]_vars, NEW S, S = Spaces(m, proc), NEW T, T = Spaces(m', proc')
      PROVE  S = T \/ Moves(S, T)
  <2> USE <1>2
  <2>1. CASE UNCHANGED <<m, proc>>
    BY <2>1
  <2>2. ASSUME NEW p \in Procs, VmStepOf(p) PROVE S = T \/ Moves(S, T)
    BY CountingHolds, <2>2, CopiesMove, RunMoves, EndMoves DEF VmStepOf
  <2> QED
    BY CountingHolds, <2>1, <2>2, NextSteps
\* The kernel starts with initcode in the memory of the first process.
<1>3. ASSUME VmInit PROVE Spaces(m, proc) = [q \in Procs |-> IF q = 1 THEN <<"initcode">> ELSE NoSpace]
  <2> USE <1>3
  <2>1. m = Booted.m /\ proc = [p \in Procs |-> IF p = 1 THEN Booted.init ELSE Unused]
    BY DEF VmInit
  <2>2. 1 \in Procs
    BY VmAssumption, SMTT(60) DEF Procs
  <2>3. PICK pr, k : pr = Booted.init /\ BootedOk(m, pr, k)
    BY CountingHolds, <2>1, BootedIs
  <2>4. proc[1] = pr /\ \A p \in Procs : p # 1 => proc[p] = Unused
    BY <2>1, <2>2, <2>3, SMTT(60)
  <2>5. PICK pd : pd = pr.pd
    OBVIOUS
  <2>6. Spans(pd, PGSIZE) /\ Made(pr, "run", k, pd, PGSIZE) /\ m.mem[pd.pte[0].pa] = "initcode"
    BY <2>3, <2>5 DEF BootedOk, Made
  <2>7. pr.state = "run" /\ pr.state # "unused"
    <3>1. pr.state = "run" /\ "run" # "unused"
      BY <2>6, MadeFields
    <3> QED
      BY <3>1
  <2>8. InUse(pr)
    <3>1. GoodVm(m, proc)
      BY CountingHolds, VmInitGood
    <3>2. proc[1].state # "unused"
      BY <2>4, <2>7
    <3> QED
      BY CountingHolds, <2>2, <2>4, <3>1, <3>2, SpaceThere
  <2>9. PageUp(PGSIZE) = 1 /\ PGSIZE \in Nat /\ PGSIZE < KERNBASE
    <3>1. PGSIZE \in Nat \ {0} /\ PGSIZE < KERNBASE
      BY AddressAssumption, SMTT(60)
    <3>2. PageUp(PGSIZE) \in Nat /\ \A v \in Int : v * PGSIZE < PGSIZE <=> v < PageUp(PGSIZE)
      BY <3>1, PageUpBelow, SMTT(60)
    <3>3. 0 * PGSIZE < PGSIZE /\ ~(1 * PGSIZE < PGSIZE)
      BY <3>1, SMTT(60)
    <3> QED
      BY <3>1, <3>2, <3>3, SMTT(60)
  <2>10. Prefix(pd, 1)
    BY <2>6, <2>9, SpansPrefix
  <2>11. SpaceOf(m, pr) = Cells(m, pd, 1)
    BY CountingHolds, <2>5, <2>8, <2>10, SpaceIs
  <2>12. Cells(m, pd, 1) = <<"initcode">>
    <3>1. Array(m, pd, 1, Cells(m, pd, 1))
      BY <2>10, CellsFacts
    <3>2. PICK c : c = Cells(m, pd, 1)
      OBVIOUS
    <3>3. 1 \in 1 .. 1 /\ 1 - 1 = 0
      BY SMTT(60)
    <3>4. c[1] = "initcode"
      BY <2>6, <3>1, <3>2, <3>3 DEF Array
    <3>5. c = [i \in 1 .. 1 |-> c[i]]
      BY <3>2 DEF Cells
    <3>6. c = <<"initcode">>
      BY <3>4, <3>5, SMTT(60)
    <3> QED
      BY <3>2, <3>6
  <2>13. \A q \in Procs : SpaceOf(m, proc[q]) = IF q = 1 THEN <<"initcode">> ELSE NoSpace
    <3>1. \A n, u : u = Unused => SpaceOf(n, u) = NoSpace
      BY UnusedHas DEF SpaceOf
    <3> QED
      BY <2>4, <2>11, <2>12, <3>1
  <2> QED
    BY <2>13 DEF Spaces
<1>4. [p \in Procs |-> Space(p)] = Spaces(m, proc) /\ [p \in Procs |-> Space(p)]' = Spaces(m', proc')
  BY <1>1 DEF Spaces
<1>5. Init => A!SpaceInit
  <2> SUFFICES ASSUME Init PROVE A!SpaceInit
    BY SMTT(60)
  <2>1. Spaces(m, proc) = [q \in Procs |-> IF q = 1 THEN <<"initcode">> ELSE NoSpace]
    BY <1>3 DEF Init
  <2>2. 1 \in Procs
    BY VmAssumption, SMTT(60) DEF Procs
  <2> QED
    BY <1>4, <2>1, <2>2 DEF A!SpaceInit
<1>6. VmIInv /\ [Next]_vars => [A!SpaceNext]_[p \in Procs |-> Space(p)]
  <2> SUFFICES ASSUME VmIInv, [Next]_vars PROVE [A!SpaceNext]_[p \in Procs |-> Space(p)]
    BY SMTT(60)
  <2>1. PICK S, T : S = Spaces(m, proc) /\ T = Spaces(m', proc')
    OBVIOUS
  <2>2. S = T \/ Moves(S, T)
    BY <2>1, <1>2 DEF VmIInv
  <2>3. S = [p \in Procs |-> Space(p)] /\ T = [p \in Procs |-> Space(p)]'
    BY <1>4, <2>1
  <2>4. CASE S = T
    BY <2>3, <2>4
  <2>5. CASE Moves(S, T)
    <3>1. A!SpaceNext
      BY <2>3, <2>5 DEF A!SpaceNext, A!Only, A!Fork, A!Exec, A!StoreIn, A!Shrink, A!Grow,
                              Moves, Alone, Changes, StoresIn, Shrinks, Grows
    <3> QED
      BY <3>1
  <2> QED
    BY <2>2, <2>4, <2>5
<1> QED
  BY <1>5, <1>6, VmInvariant, PTL DEF Spec, SpacesArePrivate, A!SpaceSpec
=============================================================================
