-------------------------- MODULE PageTableProofs ---------------------------
(***************************************************************************)
(* The calls on pages and page tables (kalloc.c, vm.c, exec.c, and growproc *)
(* of proc.c), for any number of pages and any programs: what each call    *)
(* takes from the free list, gives back and puts in the table, when it     *)
(* succeeds and when it runs out of memory half way.                       *)
(***************************************************************************)
EXTENDS Vm, TLAPS

\* Zenon is the prover of a leaf that names no other.
USE ZenonT(60)

-----------------------------------------------------------------------------
(* Numbers *)

\* The pages of physical memory.
Frames == PageUp(End) .. PHYSTOP \div PGSIZE - 1

\* What takes an induction: a set of numbers has a least one, and pages can be
\* counted.  The libraries of theorems have it; it is a hypothesis of the lemmas
\* here, and VmProofs proves it, because in the scope of the libraries each of the
\* proofs below takes several times as long.
Counting ==
    /\ \A S \in SUBSET Nat : S # {} => \E x \in S : \A y \in S : x <= y
    /\ Cardinality({}) = 0
    /\ \A S \in SUBSET Frames : Cardinality(S) \in Nat
    /\ \A S \in SUBSET Frames : \A x \in S : Cardinality(S \ {x}) = Cardinality(S) - 1
    /\ \A i, j \in Int : i <= j + 1 => Cardinality(i .. j) = j - i + 1

\* A set of natural numbers that is not empty has a least element.
LEMMA LeastNat == ASSUME Counting, NEW S, S \subseteq Nat, S # {} PROVE \E x \in S : \A y \in S : x <= y
BY DEF Counting

\* The number of pages in a set.
LEMMA PagesCounted ==
    ASSUME Counting, NEW S, S \subseteq Frames
    PROVE  /\ Cardinality({}) = 0 /\ Cardinality(S) \in Nat
           /\ \A x \in S : Cardinality(S \ {x}) = Cardinality(S) - 1
BY DEF Counting

\* Products keep the order.
LEMMA TimesLess ==
    ASSUME NEW a \in Int, NEW b \in Int, NEW d \in Nat \ {0}, a < b PROVE a * d + d <= b * d
<1>1. PICK c \in Nat : b = a + 1 + c
  <2>1. b - a - 1 \in Nat /\ b = a + 1 + (b - a - 1)
    BY SMTT(60)
  <2> QED
    BY <2>1, SMTT(60)
<1>2. b * d = a * d + d + c * d
  BY <1>1, SMTT(60)
<1>3. c * d \in Nat /\ a * d \in Int /\ b * d \in Int
  BY SMTT(60)
<1> QED
  BY <1>2, <1>3, SMTT(60)

\* Division rounds down.
LEMMA Division ==
    ASSUME NEW a \in Int, NEW d \in Nat \ {0}
    PROVE  /\ a \div d \in Int
           /\ (a \div d) * d <= a /\ a < (a \div d) * d + d
BY SMTT(60)

\* The quotient is the only number with a between its multiples.
LEMMA Quotient ==
    ASSUME NEW a \in Int, NEW d \in Nat \ {0}, NEW q \in Int, q * d <= a, a < q * d + d
    PROVE  a \div d = q
<1>1. PICK e \in Int : e = a \div d /\ e * d <= a /\ a < e * d + d
  BY Division, SMTT(60)
<1>2. ~(e < q)
  <2>1. SUFFICES ASSUME e < q PROVE FALSE
    BY SMTT(60)
  <2>2. e * d + d <= q * d
    BY <2>1, TimesLess, SMTT(60)
  <2>3. e * d \in Int /\ q * d \in Int
    BY SMTT(60)
  <2> QED
    BY <1>1, <2>2, <2>3, SMTT(60)
<1>3. ~(q < e)
  <2>1. SUFFICES ASSUME q < e PROVE FALSE
    BY SMTT(60)
  <2>2. q * d + d <= e * d
    BY <2>1, TimesLess, SMTT(60)
  <2>3. e * d \in Int /\ q * d \in Int
    BY SMTT(60)
  <2> QED
    BY <1>1, <2>2, <2>3, SMTT(60)
<1> QED
  BY <1>1, <1>2, <1>3, SMTT(60)

\* The number of pages below KERNBASE.
UserPages == KERNBASE \div PGSIZE

\* The user part is made of whole pages, two at least.
LEMMA UserPart ==
    /\ PGSIZE \in Nat \ {0} /\ NPT \in Nat \ {0} /\ KERNBASE \in Nat \ {0}
    /\ UserPages \in Nat /\ UserPages * PGSIZE = KERNBASE /\ 2 <= UserPages
<1>1. PGSIZE \in Nat \ {0} /\ NPT \in Nat \ {0} /\ KERNBASE \in Nat \ {0} /\ PGSIZE < KERNBASE
  BY AddressAssumption, SMTT(60)
<1>2. UserPages \in Int /\ UserPages * PGSIZE <= KERNBASE /\ KERNBASE < UserPages * PGSIZE + PGSIZE
  BY <1>1, Division, SMTT(60) DEF UserPages
<1>3. UserPages * PGSIZE = KERNBASE
  BY <1>1, AddressAssumption, SMTT(60) DEF UserPages
<1>4. ~(UserPages < 2)
  <2>1. SUFFICES ASSUME UserPages < 2 PROVE FALSE
    BY SMTT(60)
  <2>2. UserPages * PGSIZE + PGSIZE <= 2 * PGSIZE
    BY <1>1, <1>2, <2>1, TimesLess, SMTT(60)
  <2> QED
    BY <1>1, <1>3, <2>2, SMTT(60)
<1> QED
  BY <1>1, <1>2, <1>3, <1>4, SMTT(60)

\* The pages below an address: those before PageUp of it.
LEMMA PageUpBelow ==
    ASSUME NEW a \in Nat
    PROVE  PageUp(a) \in Nat /\ \A v \in Int : v * PGSIZE < a <=> v < PageUp(a)
<1>0. PGSIZE \in Nat \ {0}
  BY UserPart, SMTT(60)
<1>1. PICK q \in Int : q = PageUp(a) /\ q * PGSIZE <= a + PGSIZE - 1 /\ a + PGSIZE - 1 < q * PGSIZE + PGSIZE
  BY <1>0, Division, SMTT(60) DEF PageUp
<1>2. ASSUME NEW v \in Int, v < q PROVE v * PGSIZE < a
  <2>1. v * PGSIZE + PGSIZE <= q * PGSIZE
    BY <1>0, <1>2, TimesLess, SMTT(60)
  <2> QED
    BY <1>0, <1>1, <2>1, SMTT(60)
<1>3. ASSUME NEW v \in Int, ~(v < q) PROVE ~(v * PGSIZE < a)
  <2>1. v = q \/ q * PGSIZE + PGSIZE <= v * PGSIZE
    BY <1>0, <1>3, TimesLess, SMTT(60)
  <2> QED
    BY <1>0, <1>1, <2>1, SMTT(60)
<1>4. ~(q < 0)
  BY <1>0, <1>3, <1>1, SMTT(60)
<1> QED
  BY <1>1, <1>2, <1>3, <1>4, SMTT(60)

\* PageUp keeps the order, and the pages below KERNBASE are the user's.
LEMMA PageUpOrder ==
    ASSUME NEW a \in Nat, NEW b \in Nat, a <= b
    PROVE  PageUp(a) <= PageUp(b) /\ (b <= KERNBASE => PageUp(b) <= UserPages)
<1>1. /\ PageUp(a) \in Nat /\ \A v \in Int : v * PGSIZE < a <=> v < PageUp(a)
      /\ PageUp(b) \in Nat /\ \A v \in Int : v * PGSIZE < b <=> v < PageUp(b)
  BY PageUpBelow, SMTT(60)
<1>2. PageUp(a) <= PageUp(b)
  <2>1. PICK v \in Nat : v = PageUp(b)
    BY <1>1, SMTT(60)
  <2>2. ~(v * PGSIZE < b)
    BY <1>1, <2>1, SMTT(60)
  <2>3. ~(v * PGSIZE < a)
    BY <2>2, UserPart, SMTT(60)
  <2> QED
    BY <1>1, <2>1, <2>3, SMTT(60)
<1>3. ASSUME b <= KERNBASE PROVE PageUp(b) <= UserPages
  <2>1. UserPages \in Nat /\ ~(UserPages * PGSIZE < b)
    BY <1>3, UserPart, SMTT(60)
  <2> QED
    BY <1>1, <2>1, SMTT(60)
<1> QED
  BY <1>2, <1>3, SMTT(60)

\* The addresses of whole pages.
LEMMA WholePages ==
    ASSUME NEW k \in Nat PROVE PageUp(k * PGSIZE) = k /\ (k * PGSIZE) \div PGSIZE = k
<1>0. PGSIZE \in Nat \ {0} /\ k * PGSIZE \in Nat
  BY UserPart, SMTT(60)
<1>1. (k * PGSIZE) \div PGSIZE = k
  BY <1>0, Quotient, SMTT(60)
<1>2. (k * PGSIZE + PGSIZE - 1) \div PGSIZE = k
  BY <1>0, Quotient, SMTT(60)
<1> QED
  BY <1>1, <1>2, SMTT(60) DEF PageUp

\* The tables that page numbers select.
LEMMA VpnFacts ==
    /\ Vpns = 0 .. UserPages - 1 /\ 0 \in Vpns /\ Vpns \subseteq Nat
    /\ \A v \in Vpns : v \div NPT \in Tables
<1>1. Vpns = 0 .. UserPages - 1 /\ 0 \in Vpns /\ Vpns \subseteq Nat
  BY UserPart, SMTT(60) DEF Vpns, UserPages
<1> QED
  BY <1>1, SMTT(60) DEF Tables

-----------------------------------------------------------------------------
(* Pages *)

\* Physical memory.
Panics == {"none", "kfree", "freevm: no pgdir", "remap", "copyuvm", "loaduvm", "clearpteu", "trap"}
Mems == [free : SUBSET Frames, left : Nat, panic : Panics, mem : [Frames -> Fillings]]

\* 0 is not a page.
LEMMA FrameFacts == 0 \notin Frames /\ Frames \subseteq Nat
<1>1. End \in Nat \ {0} /\ PHYSTOP \in Nat \ {0} /\ PGSIZE \in Nat \ {0}
  BY AddressAssumption, SMTT(60)
<1>2. PageUp(End) \in Nat /\ 0 < PageUp(End)
  <2>1. 0 * PGSIZE < End
    BY <1>1, SMTT(60)
  <2> QED
    BY <1>1, <2>1, PageUpBelow, SMTT(60)
<1>3. PHYSTOP \div PGSIZE \in Int
  BY <1>1, Division, SMTT(60)
<1> QED
  BY <1>2, <1>3, SMTT(60) DEF Frames

\* The fields of a memory.
LEMMA MemFields ==
    ASSUME NEW n \in Mems
    PROVE  n.free \subseteq Frames /\ n.left \in Nat /\ n.mem \in [Frames -> Fillings]
<1>1. n.free \subseteq Frames
  BY SMTT(60) DEF Mems
<1>2. n.left \in Nat
  BY SMTT(60) DEF Mems
<1>3. n.mem \in [Frames -> Fillings]
  BY SMTT(60) DEF Mems
<1> QED
  BY <1>1, <1>2, <1>3

\* kalloc: memory is short and nothing happens, or a free page is taken.
Taken(n, k) ==
    /\ k.m \in Mems /\ k.m.panic = n.panic /\ k.m.mem = n.mem
    /\ \/ k.page = 0 /\ k.m = n /\ (n.left = 0 \/ n.free = {})
       \/ /\ k.page \in n.free /\ k.page \in Frames /\ k.page # 0 /\ n.left # 0
          /\ k.m.free = n.free \ {k.page} /\ k.m.left = n.left - 1

\* kalloc does that.
LEMMA KallocTakes ==
    ASSUME Counting
    PROVE  \A n \in Mems :
               Taken(n, Kalloc(n))
\* The page kalloc takes: Min of a set that is not empty is one of its members.
<1>1. ASSUME NEW S, S \subseteq Nat, S # {} PROVE Min(S) \in S
  <2> USE <1>1
  <2>1. PICK x \in S : \A y \in S : x <= y
    BY LeastNat
  <2> QED
    BY <2>1 DEF Min
<1>2. ASSUME NEW n \in Mems PROVE Taken(n, Kalloc(n))
  <2>1. CASE n.left = 0 \/ n.free = {}
    <3>1. PICK k : k = Kalloc(n)
      OBVIOUS
    <3>2. k = [m |-> n, page |-> 0]
      BY <2>1, <3>1 DEF Kalloc
    <3>3. k.m = n /\ k.page = 0
      BY <3>2, SMTT(60)
    <3> QED
      BY <2>1, <3>1, <3>3 DEF Taken
  <2>2. CASE n.left # 0 /\ n.free # {}
    <3>1. PICK a : a = Min(n.free)
      OBVIOUS
    <3>2. n.free \subseteq Frames /\ n.free \subseteq Nat /\ n.left \in Nat
      <4>1. n.free \subseteq Frames /\ n.left \in Nat
        BY MemFields
      <4> QED
        BY <4>1, FrameFacts
    <3>3. a \in n.free
      BY <2>2, <3>1, <3>2, <1>1
    <3>4. Kalloc(n) = [m |-> [n EXCEPT !.free = n.free \ {a}, !.left = n.left - 1], page |-> a]
      BY <2>2, <3>1 DEF Kalloc
    <3>5. PICK n2 : n2 = [n EXCEPT !.free = n.free \ {a}, !.left = n.left - 1]
      OBVIOUS
    <3>6. n2 \in Mems /\ n2.panic = n.panic /\ n2.mem = n.mem /\ n2.free = n.free \ {a} /\ n2.left = n.left - 1
      <4>1. n.free \ {a} \in SUBSET Frames /\ n.left - 1 \in Nat
        BY <2>2, <3>2, SMTT(60)
      <4> QED
        BY <3>5, <4>1 DEF Mems
    <3>7. a \in Frames /\ a # 0
      BY <3>2, <3>3, FrameFacts
    <3>8. PICK k : k = Kalloc(n)
      OBVIOUS
    <3>9. k.m = n2 /\ k.page = a
      <4>1. k = [m |-> n2, page |-> a]
        BY <3>4, <3>5, <3>8
      <4> QED
        BY <4>1, SMTT(60)
    <3> QED
      BY <2>2, <3>3, <3>6, <3>7, <3>8, <3>9 DEF Taken
  <2> QED
    BY <2>1, <2>2
<1> QED
  BY <1>2

\* kalloc and memset do, but for the contents of the page.
Cleared(n, k) ==
    /\ k.m \in Mems /\ k.m.panic = n.panic
    /\ \/ k.page = 0 /\ k.m = n /\ (n.left = 0 \/ n.free = {})
       \/ /\ k.page \in n.free /\ k.page \in Frames /\ k.page # 0 /\ n.left # 0
          /\ k.m.free = n.free \ {k.page} /\ k.m.left = n.left - 1
          /\ k.m.mem[k.page] = "zero" /\ \A a \in Frames : a # k.page => k.m.mem[a] = n.mem[a]

\* kalloc and memset do that.
LEMMA KzallocClears == ASSUME Counting, NEW n \in Mems PROVE Cleared(n, Kzalloc(n))
<1> DEFINE ZeroPage(k) == IF k.page = 0 THEN k ELSE [k EXCEPT !.m.mem[k.page] = "zero"]
<1> HIDE DEF ZeroPage
<1>1. PICK k : k = Kalloc(n)
  OBVIOUS
<1>2. Taken(n, k)
  BY <1>1, KallocTakes
<1>3. Kzalloc(n) = ZeroPage(k)
  <2>1. (CHOOSE x \in {ZeroPage(v) : v \in {k}} : TRUE) = ZeroPage(k)
    BY SMTT(60)
  <2>2. Kzalloc(n) = (CHOOSE x \in {ZeroPage(v) : v \in {k}} : TRUE)
    BY <1>1 DEF Kzalloc, Let, ZeroPage
  <2> QED
    BY <2>1, <2>2
<1>4. CASE k.page = 0
  BY <1>2, <1>3, <1>4, FrameFacts DEF Taken, Cleared, ZeroPage
<1>5. CASE k.page # 0
  <2>1. /\ k.m \in Mems /\ k.m.panic = n.panic /\ k.m.mem = n.mem
        /\ k.page \in n.free /\ k.page \in Frames /\ k.page # 0 /\ n.left # 0
        /\ k.m.free = n.free \ {k.page} /\ k.m.left = n.left - 1
    BY <1>2, <1>5 DEF Taken
  <2>2. PICK z : z = ZeroPage(k)
    OBVIOUS
  <2>3. z.page = k.page /\ z.m = [k.m EXCEPT !.mem = [k.m.mem EXCEPT ![k.page] = "zero"]]
    <3>1. k = [m |-> k.m, page |-> k.page]
      BY <1>1, <1>5, SMTT(60) DEF Kalloc
    <3>2. z = [k EXCEPT !.m = [k.m EXCEPT !.mem = [k.m.mem EXCEPT ![k.page] = "zero"]]]
      BY <1>5, <2>2 DEF ZeroPage
    <3> QED
      BY <3>1, <3>2, SMTT(60)
  <2>4. PICK f : f = [k.m.mem EXCEPT ![k.page] = "zero"]
    OBVIOUS
  <2>5. f \in [Frames -> Fillings] /\ f[k.page] = "zero" /\ \A a \in Frames : a # k.page => f[a] = n.mem[a]
    BY <2>1, <2>4, SMTT(60) DEF Mems, Fillings
  <2>6. z.m \in Mems /\ z.m.panic = k.m.panic /\ z.m.free = k.m.free /\ z.m.left = k.m.left /\ z.m.mem = f
    BY <2>1, <2>3, <2>4, <2>5 DEF Mems
  <2> QED
    BY <1>3, <2>1, <2>2, <2>3, <2>5, <2>6 DEF Cleared
<1> QED
  BY <1>4, <1>5

-----------------------------------------------------------------------------
(* Page tables *)

\* An entry that the user can use has a page.
Ptes == {e \in [pa : Frames \cup {0}, user : BOOLEAN] : e.pa = 0 => e.user = FALSE}
Pgdirs == [dir : Frames \cup {0}, ktab : SUBSET Frames, tab : [Tables -> Frames \cup {0}],
           pte : [Vpns -> Ptes]]

\* The pages that a page table has: the user's, and those it is made of.
Held(pd) == PtePages(pd) \cup TablePages(pd)

\* It has each of them in one place, and a table for each page of the user.
Distinct(pd) ==
    /\ \A u, v \in Vpns : pd.pte[u].pa # 0 /\ pd.pte[u].pa = pd.pte[v].pa => u = v
    /\ \A s, t \in Tables : pd.tab[s] # 0 /\ pd.tab[s] = pd.tab[t] => s = t
    /\ \A v \in Vpns : pd.pte[v].pa \notin TablePages(pd)
    /\ \A t \in Tables : pd.tab[t] # 0 => pd.tab[t] \notin pd.ktab /\ pd.tab[t] # pd.dir
    /\ pd.dir \notin pd.ktab
    /\ \A v \in Vpns : pd.pte[v].pa # 0 => pd.tab[v \div NPT] # 0

\* A call that works on the pages R has them all: free, or in pd.
Holds(n, pd, R) ==
    /\ n \in Mems /\ pd \in Pgdirs /\ Distinct(pd)
    /\ n.free \cap Held(pd) = {} /\ n.free \cup Held(pd) = R

\* The fields of a page table.
LEMMA PdFields ==
    ASSUME NEW pd \in Pgdirs
    PROVE  /\ pd.dir \in Frames \cup {0} /\ pd.ktab \subseteq Frames
           /\ pd.tab \in [Tables -> Frames \cup {0}] /\ pd.pte \in [Vpns -> Ptes]
           /\ \A v \in Vpns : pd.pte[v] \in Ptes /\ pd.pte[v].pa \in Frames \cup {0}
           /\ \A t \in Tables : pd.tab[t] \in Frames \cup {0}
<1>1. pd.dir \in Frames \cup {0}
  BY DEF Pgdirs
<1>2. pd.ktab \in SUBSET Frames
  BY DEF Pgdirs
<1>3. pd.tab \in [Tables -> Frames \cup {0}]
  BY DEF Pgdirs
<1>4. pd.pte \in [Vpns -> Ptes]
  BY DEF Pgdirs
<1>5. \A v \in Vpns : pd.pte[v] \in Ptes
  BY <1>4
<1>6. \A e \in Ptes : e.pa \in Frames \cup {0}
  BY DEF Ptes
<1> QED
  BY <1>1, <1>2, <1>3, <1>4, <1>5, <1>6

\* Page tables with other entries, or other tables.
WithPte(pd, f) == [pd EXCEPT !.pte = f]
PteMaps == [Vpns -> Ptes]
HasParts(q, pd, tab, pte) ==
    q \in Pgdirs /\ q.dir = pd.dir /\ q.ktab = pd.ktab /\ q.tab = tab /\ q.pte = pte

\* Changing the entries leaves the rest of a page table as it is.
LEMMA PteExcept ==
    ASSUME NEW pd \in Pgdirs, NEW f \in PteMaps PROVE HasParts(WithPte(pd, f), pd, pd.tab, f)
BY DEF Pgdirs, WithPte, PteMaps, HasParts

\* What is in a page table.
LEMMA InHeld ==
    ASSUME NEW pd, NEW a
    PROVE  a \in Held(pd) <=> /\ a # 0
                              /\ \/ \E v \in Vpns : pd.pte[v].pa = a
                                 \/ \E t \in Tables : pd.tab[t] = a
                                 \/ a \in pd.ktab \/ a = pd.dir
BY DEF Held, PtePages, TablePages

\* A free page is put aside.
LEMMA TakeFree ==
    ASSUME NEW n, NEW pd, NEW R, Holds(n, pd, R), NEW n2 \in Mems, NEW k \in n.free,
           n2.free = n.free \ {k}
    PROVE  Holds(n2, pd, R \ {k}) /\ k \in R /\ k \in Frames
<1>1. n.free \cap Held(pd) = {} /\ n.free \cup Held(pd) = R /\ n \in Mems /\ pd \in Pgdirs /\ Distinct(pd)
  BY DEF Holds
<1>2. n2.free \cap Held(pd) = {} /\ n2.free \cup Held(pd) = R \ {k}
  BY <1>1
<1>3. k \in Frames
  BY <1>1, MemFields
<1> QED
  BY <1>1, <1>2, <1>3 DEF Holds

\* mappages: the new entry with its table, or no memory for the table.
Entered(n, pd, R, v, e, a) ==
    /\ a.m \in Mems /\ a.m.panic = n.panic
    /\ \A x \in Frames \ n.free : a.m.mem[x] = n.mem[x]
    /\ \/ /\ a.ok /\ Holds(a.m, a.pd, R \cup {e.pa}) /\ a.pd.dir = pd.dir
          /\ a.pd.pte = [pd.pte EXCEPT ![v] = e]
       \/ ~a.ok /\ a.pd = pd /\ a.m = n /\ (n.left = 0 \/ n.free = {})

\* mappages for one page that is not mapped yet, a new second-level table included;
\* it fails only without memory, and then changes nothing.
LEMMA MappageEnters ==
    ASSUME Counting
    PROVE  \A n, pd, R : \A v \in Vpns : \A e \in Ptes :
               /\ Holds(n, pd, R)
               /\ pd.pte[v].pa = 0
               /\ e.pa \in Frames
               /\ e.pa \notin R
               => Entered(n, pd, R, v, e, Mappage(n, pd, v, e))
<1> DEFINE WithTab(pd, f) == [pd EXCEPT !.tab = f]
<1> DEFINE TabMaps == [Tables -> Frames \cup {0}]
<1> DEFINE TableFor(n, pd, v) == IF pd.tab[v \div NPT] # 0 THEN [m |-> n, page |-> pd.tab[v \div NPT]] ELSE Kzalloc(n)
<1> DEFINE MapWith(k, pd, v, e) ==
               [m |-> IF pd.pte[v].pa # 0 THEN Panic(k.m, "remap") ELSE k.m,
                pd |-> IF k.page = 0 THEN pd ELSE [pd EXCEPT !.tab[v \div NPT] = k.page, !.pte[v] = e],
                ok |-> k.page # 0]
<1> HIDE DEF WithTab, TabMaps, TableFor, MapWith
<1>1. ASSUME NEW pd \in Pgdirs, NEW f \in TabMaps PROVE HasParts(WithTab(pd, f), pd, f, pd.pte)
  BY DEF Pgdirs, WithTab, TabMaps, HasParts
\* A page of nobody becomes a page of the user.
<1>2. ASSUME NEW n, NEW pd, NEW R, Holds(n, pd, R), NEW v \in Vpns, pd.pte[v].pa = 0,
             pd.tab[v \div NPT] # 0, NEW e \in Ptes, e.pa \in Frames, e.pa \notin R,
             NEW q, q = WithPte(pd, [pd.pte EXCEPT ![v] = e])
      PROVE  Holds(n, q, R \cup {e.pa})
  <2> USE <1>2
  <2>1. PICK k : k = e.pa
    OBVIOUS
  <2>2. k \in Frames /\ k \notin R /\ k # 0
    BY <2>1, FrameFacts
  <2>3. pd \in Pgdirs /\ n \in Mems /\ Distinct(pd)
    BY DEF Holds
  <2>4. [pd.pte EXCEPT ![v] = e] \in PteMaps
    BY <2>3, PdFields, SMTT(60) DEF PteMaps
  <2>5. q \in Pgdirs /\ q.dir = pd.dir /\ q.ktab = pd.ktab /\ q.tab = pd.tab /\ q.pte = [pd.pte EXCEPT ![v] = e]
    <3>1. HasParts(q, pd, pd.tab, [pd.pte EXCEPT ![v] = e])
      BY <2>3, <2>4, PteExcept
    <3> QED
      BY <3>1 DEF HasParts
  <2>6. q.pte[v].pa = k /\ \A u \in Vpns : u # v => q.pte[u].pa = pd.pte[u].pa
    <3>1. pd.pte \in [Vpns -> Ptes]
      BY <2>3, PdFields
    <3>2. q.pte[v] = e /\ \A u \in Vpns : u # v => q.pte[u] = pd.pte[u]
      BY <2>5, <3>1, SMTT(60)
    <3> QED
      BY <2>1, <3>2
  <2>7. TablePages(q) = TablePages(pd)
    BY <2>5, SMTT(60) DEF TablePages
  <2>8. PtePages(q) = PtePages(pd) \cup {k}
    BY <2>2, <2>6, SMTT(60) DEF PtePages
  <2>9. PtePages(pd) \subseteq R /\ TablePages(pd) \subseteq R
    BY DEF Holds, Held
  <2>10. \A u \in Vpns : pd.pte[u].pa # k
    BY <2>2, <2>9 DEF PtePages
  <2>11. Distinct(q)
    <3>1. \A u, w \in Vpns : q.pte[u].pa # 0 /\ q.pte[u].pa = q.pte[w].pa => u = w
      BY <2>3, <2>6, <2>10, SMTT(60) DEF Distinct
    <3>2. \A u \in Vpns : q.pte[u].pa \notin TablePages(q)
      BY <2>2, <2>3, <2>6, <2>7, <2>9 DEF Distinct
    <3>3. \A u \in Vpns : q.pte[u].pa # 0 => q.tab[u \div NPT] # 0
      BY <2>3, <2>5, <2>6 DEF Distinct
    <3>4. /\ \A s, t \in Tables : q.tab[s] # 0 /\ q.tab[s] = q.tab[t] => s = t
          /\ \A t \in Tables : q.tab[t] # 0 => q.tab[t] \notin q.ktab /\ q.tab[t] # q.dir
          /\ q.dir \notin q.ktab
      BY <2>3, <2>5, SMTT(60) DEF Distinct
    <3> QED
      BY <3>1, <3>2, <3>3, <3>4 DEF Distinct
  <2>12. n.free \cap Held(pd) = {} /\ n.free \cup Held(pd) = R
    BY DEF Holds
  <2>13. Held(q) = Held(pd) \cup {k}
    BY <2>7, <2>8 DEF Held
  <2>14. n.free \cap Held(q) = {} /\ n.free \cup Held(q) = R \cup {k}
    BY <2>2, <2>12, <2>13
  <2> QED
    BY <2>1, <2>3, <2>5, <2>11, <2>14 DEF Holds
\* A page of nobody becomes a table.
<1>3. ASSUME NEW n, NEW pd, NEW R, Holds(n, pd, R), NEW t \in Tables, pd.tab[t] = 0,
             NEW k \in Frames, k \notin R,
             NEW q, q = WithTab(pd, [pd.tab EXCEPT ![t] = k])
      PROVE  Holds(n, q, R \cup {k})
  <2> USE <1>3
  <2>1. k # 0
    BY FrameFacts
  <2>2. pd \in Pgdirs /\ n \in Mems /\ Distinct(pd)
    BY DEF Holds
  <2>3. pd.tab \in [Tables -> Frames \cup {0}]
    BY <2>2, PdFields
  <2>4. [pd.tab EXCEPT ![t] = k] \in TabMaps
    BY <2>3, SMTT(60) DEF TabMaps
  <2>5. q \in Pgdirs /\ q.dir = pd.dir /\ q.ktab = pd.ktab /\ q.pte = pd.pte /\ q.tab = [pd.tab EXCEPT ![t] = k]
    <3>1. HasParts(q, pd, [pd.tab EXCEPT ![t] = k], pd.pte)
      BY <2>2, <2>4, <1>1
    <3> QED
      BY <3>1 DEF HasParts
  <2>6. q.tab[t] = k /\ \A s \in Tables : s # t => q.tab[s] = pd.tab[s]
    BY <2>3, <2>5, SMTT(60)
  <2>7. TablePages(q) = TablePages(pd) \cup {k}
    BY <2>1, <2>5, <2>6, SMTT(60) DEF TablePages
  <2>8. PtePages(q) = PtePages(pd)
    BY <2>5, SMTT(60) DEF PtePages
  <2>9. PtePages(pd) \subseteq R /\ TablePages(pd) \subseteq R
    BY DEF Holds, Held
  <2>10. /\ \A s \in Tables : pd.tab[s] # k
         /\ k \notin pd.ktab /\ k # pd.dir /\ \A u \in Vpns : pd.pte[u].pa # k
    BY <2>1, <2>9 DEF PtePages, TablePages
  <2>11. Distinct(q)
    <3>1. \A u, w \in Vpns : q.pte[u].pa # 0 /\ q.pte[u].pa = q.pte[w].pa => u = w
      BY <2>2, <2>5, SMTT(60) DEF Distinct
    <3>2. \A u \in Vpns : q.pte[u].pa \notin TablePages(q)
      <4>1. \A u \in Vpns : pd.pte[u].pa \notin TablePages(pd)
        BY <2>2 DEF Distinct
      <4> QED
        BY <2>5, <2>7, <2>10, <4>1, SMTT(60)
    <3>3. \A u \in Vpns : q.pte[u].pa # 0 => q.tab[u \div NPT] # 0
      <4>1. \A u \in Vpns : pd.pte[u].pa # 0 => pd.tab[u \div NPT] # 0
        BY <2>2 DEF Distinct
      <4>2. \A u \in Vpns : u \div NPT \in Tables
        BY VpnFacts
      <4>3. \A s \in Tables : pd.tab[s] # 0 => q.tab[s] # 0
        BY <2>1, <2>6
      <4> QED
        BY <2>5, <4>1, <4>2, <4>3, SMTT(60)
    <3>4. \A r, s \in Tables : q.tab[r] # 0 /\ q.tab[r] = q.tab[s] => r = s
      <4>1. \A r, s \in Tables : pd.tab[r] # 0 /\ pd.tab[r] = pd.tab[s] => r = s
        BY <2>2 DEF Distinct
      <4> QED
        BY <2>6, <2>10, <4>1, SMTT(60)
    <3>5. \A s \in Tables : q.tab[s] # 0 => q.tab[s] \notin q.ktab /\ q.tab[s] # q.dir
      <4>1. \A s \in Tables : pd.tab[s] # 0 => pd.tab[s] \notin pd.ktab /\ pd.tab[s] # pd.dir
        BY <2>2 DEF Distinct
      <4> QED
        BY <2>5, <2>6, <2>10, <4>1, SMTT(60)
    <3>6. q.dir \notin q.ktab
      BY <2>2, <2>5 DEF Distinct
    <3> QED
      BY <3>1, <3>2, <3>3, <3>4, <3>5, <3>6 DEF Distinct
  <2>12. n.free \cap Held(pd) = {} /\ n.free \cup Held(pd) = R
    BY DEF Holds
  <2>13. Held(q) = Held(pd) \cup {k}
    BY <2>7, <2>8 DEF Held
  <2>14. n.free \cap Held(q) = {} /\ n.free \cup Held(q) = R \cup {k}
    BY <2>12, <2>13
  <2> QED
    BY <2>2, <2>5, <2>11, <2>14 DEF Holds
<1>4. ASSUME NEW n, NEW pd, NEW R, Holds(n, pd, R), NEW v \in Vpns, pd.pte[v].pa = 0,
             NEW e \in Ptes, e.pa \in Frames, e.pa \notin R
      PROVE  Entered(n, pd, R, v, e, Mappage(n, pd, v, e))
  <2> USE <1>4
  <2>1. PICK t : t = v \div NPT
    OBVIOUS
  <2>2. PICK k : k = TableFor(n, pd, v)
    OBVIOUS
  <2>3. PICK a : a = Mappage(n, pd, v, e)
    OBVIOUS
  <2>4. a = MapWith(k, pd, v, e)
    <3>1. (CHOOSE x \in {MapWith(w, pd, v, e) : w \in {k}} : TRUE) = MapWith(k, pd, v, e)
      BY SMTT(60)
    <3>2. a = (CHOOSE x \in {MapWith(w, pd, v, e) : w \in {k}} : TRUE)
      BY <2>2, <2>3 DEF Mappage, Let, MapWith, TableFor
    <3> QED
      BY <3>1, <3>2
  <2>5. /\ a.m = k.m
        /\ a.pd = IF k.page = 0 THEN pd ELSE [pd EXCEPT !.tab[t] = k.page, !.pte[v] = e]
        /\ a.ok <=> k.page # 0
    <3>1. /\ a.m = k.m
          /\ a.pd = IF k.page = 0 THEN pd ELSE [pd EXCEPT !.tab[t] = k.page, !.pte[v] = e]
          /\ a.ok = (k.page # 0)
      BY <2>1, <2>4, SMTT(60) DEF MapWith
    <3> QED
      BY <3>1
  <2>6. pd \in Pgdirs /\ n \in Mems /\ t \in Tables
    BY <2>1, VpnFacts DEF Holds
  <2>7. CASE pd.tab[t] # 0
    <3>1. k.m = n /\ k.page = pd.tab[t]
      BY <2>1, <2>2, <2>7, SMTT(60) DEF TableFor
    <3>2. pd.tab \in [Tables -> Frames \cup {0}] /\ pd.pte \in [Vpns -> Ptes]
      BY <2>6, PdFields
    <3>3. [pd.tab EXCEPT ![t] = k.page] = pd.tab
      BY <2>6, <3>1, <3>2, SMTT(60)
    <3>4. a.pd = WithPte(pd, [pd.pte EXCEPT ![v] = e])
      <4>1. PICK f : f = [pd.tab EXCEPT ![t] = k.page]
        OBVIOUS
      <4>2. PICK g : g = [pd.pte EXCEPT ![v] = e]
        OBVIOUS
      <4>3. a.pd = WithPte(WithTab(pd, f), g)
        BY <2>5, <2>6, <2>7, <3>1, <4>1, <4>2, SMTT(60) DEF Pgdirs, WithPte, WithTab
      <4>4. WithTab(pd, pd.tab) = pd
        BY <2>6, SMTT(60) DEF Pgdirs, WithTab
      <4>5. f = pd.tab
        BY <3>3, <4>1
      <4>6. a.pd = WithPte(pd, g)
        BY <4>3, <4>4, <4>5
      <4> QED
        BY <4>2, <4>6
    <3>5. Holds(a.m, a.pd, R \cup {e.pa})
      BY <2>1, <2>5, <2>7, <3>1, <3>4, <1>2
    <3>6. [pd.pte EXCEPT ![v] = e] \in PteMaps
      BY <3>2, SMTT(60) DEF PteMaps
    <3>7. a.pd.dir = pd.dir /\ a.pd.pte = [pd.pte EXCEPT ![v] = e]
      <4>1. HasParts(a.pd, pd, pd.tab, [pd.pte EXCEPT ![v] = e])
        BY <2>6, <3>4, <3>6, PteExcept
      <4> QED
        BY <4>1 DEF HasParts
    <3>8. a.ok
      BY <2>5, <2>7, <3>1, SMTT(60)
    <3> QED
      BY <2>3, <2>5, <2>6, <3>1, <3>5, <3>7, <3>8 DEF Entered
  <2>8. CASE pd.tab[t] = 0
    <3>1. Cleared(n, k)
      BY <2>1, <2>2, <2>6, <2>8, KzallocClears DEF TableFor
    <3>2. CASE k.page = 0
      <4>1. k.m = n /\ (n.left = 0 \/ n.free = {})
        BY <3>1, <3>2, FrameFacts DEF Cleared
      <4>2. ~a.ok /\ a.pd = pd
        BY <2>5, <3>2, SMTT(60)
      <4> QED
        BY <2>3, <2>5, <2>6, <4>1, <4>2 DEF Entered
    <3>3. CASE k.page # 0
      <4>1. /\ k.m \in Mems /\ k.m.panic = n.panic
            /\ k.page \in n.free /\ k.page \in Frames /\ k.m.free = n.free \ {k.page}
            /\ \A x \in Frames : x # k.page => k.m.mem[x] = n.mem[x]
        BY <3>1, <3>3 DEF Cleared
      <4>2. Holds(k.m, pd, R \ {k.page}) /\ k.page \in R
        BY <4>1, TakeFree
      <4>3. PICK q : q = WithTab(pd, [pd.tab EXCEPT ![t] = k.page])
        OBVIOUS
      <4>4. Holds(k.m, q, (R \ {k.page}) \cup {k.page})
        BY <2>6, <2>8, <4>1, <4>2, <4>3, <1>3
      <4>5. (R \ {k.page}) \cup {k.page} = R
        BY <4>2, SMTT(60)
      <4>6. pd.tab \in [Tables -> Frames \cup {0}] /\ pd.pte \in [Vpns -> Ptes]
        BY <2>6, PdFields
      <4>7. [pd.tab EXCEPT ![t] = k.page] \in TabMaps /\ [pd.tab EXCEPT ![t] = k.page][t] = k.page
        BY <2>6, <4>1, <4>6, SMTT(60) DEF TabMaps
      <4>8. q \in Pgdirs /\ q.pte = pd.pte /\ q.dir = pd.dir /\ q.tab[t] = k.page
        <5>1. HasParts(q, pd, [pd.tab EXCEPT ![t] = k.page], pd.pte)
          BY <2>6, <4>3, <4>7, <1>1
        <5> QED
          BY <4>7, <5>1 DEF HasParts
      <4>9. a.pd = WithPte(q, [q.pte EXCEPT ![v] = e])
        BY <2>5, <2>6, <3>3, <4>3, <4>8, SMTT(60) DEF Pgdirs, WithTab, WithPte
      <4>10. Holds(k.m, a.pd, R \cup {e.pa})
        BY <2>1, <3>3, <4>4, <4>5, <4>8, <4>9, <1>2
      <4>11. [q.pte EXCEPT ![v] = e] \in PteMaps
        BY <4>6, <4>8, SMTT(60) DEF PteMaps
      <4>12. a.pd.dir = pd.dir /\ a.pd.pte = [pd.pte EXCEPT ![v] = e]
        <5>1. HasParts(a.pd, q, q.tab, [q.pte EXCEPT ![v] = e])
          BY <4>8, <4>9, <4>11, PteExcept
        <5> QED
          BY <4>8, <5>1 DEF HasParts
      <4>13. a.ok
        BY <2>5, <3>3, SMTT(60)
      <4>14. \A x \in Frames \ n.free : k.m.mem[x] = n.mem[x]
        BY <4>1
      <4> QED
        BY <2>3, <2>5, <4>1, <4>10, <4>12, <4>13, <4>14 DEF Entered
    <3> QED
      BY <3>2, <3>3
  <2> QED
    BY <2>7, <2>8
<1> QED
  BY <1>4

\* kfree of the pages S.
Given(n, S, k) ==
    /\ k \in Mems /\ k.panic = n.panic /\ k.left = n.left /\ k.free = n.free \cup S
    /\ \A x \in Frames \ S : k.mem[x] = n.mem[x]

\* kfree does that.
LEMMA KfreeGives == ASSUME NEW n \in Mems, NEW S, S \subseteq Frames PROVE Given(n, S, Kfree(n, S))
<1>1. n.free \subseteq Frames /\ n.mem \in [Frames -> Fillings]
  BY MemFields
<1>2. PICK f : f = [a \in DOMAIN n.mem |-> IF a \in S THEN "junk" ELSE n.mem[a]]
  OBVIOUS
<1>3. DOMAIN n.mem = Frames
  BY <1>1, SMTT(60)
<1>4. f \in [Frames -> Fillings]
  BY <1>1, <1>2, <1>3, SMTT(60) DEF Fillings
<1>5. \A x \in Frames \ S : f[x] = n.mem[x]
  BY <1>2, <1>3
<1>6. n.free \cup S \in SUBSET Frames
  BY <1>1
<1>7. PICK g : g = n.free \cup S
  OBVIOUS
<1>8. Kfree(n, S) = [n EXCEPT !.free = g, !.mem = f]
  <2>1. S \subseteq DOMAIN n.mem
    BY <1>3
  <2> QED
    BY <1>2, <1>7, <2>1 DEF Kfree
<1>9. g \in SUBSET Frames
  BY <1>6, <1>7
<1>10. PICK k : k = [n EXCEPT !.free = g, !.mem = f]
  OBVIOUS
<1>11. k \in Mems /\ k.panic = n.panic /\ k.left = n.left /\ k.free = g /\ k.mem = f
  BY <1>4, <1>9, <1>10 DEF Mems
<1> QED
  BY <1>5, <1>7, <1>8, <1>10, <1>11 DEF Given

\* An entry without a page.
LEMMA NoPteFacts == NoPte \in Ptes /\ NoPte.pa = 0
BY SMTT(60) DEF NoPte, Ptes

\* deallocuvm of the pages from lo to hi.
Shrunk(n, pd, R, lo, hi, d) ==
    /\ Holds(d.m, d.pd, R) /\ d.m.panic = n.panic /\ d.m.left = n.left
    /\ d.pd.dir = pd.dir /\ d.pd.ktab = pd.ktab /\ d.pd.tab = pd.tab
    /\ \A v \in Vpns : d.pd.pte[v] = IF lo <= v /\ v < hi THEN NoPte ELSE pd.pte[v]
    /\ \A x \in Frames : (\A v \in Vpns : lo <= v /\ v < hi => pd.pte[v].pa # x) => d.m.mem[x] = n.mem[x]

\* deallocuvm gives back the pages from newsz to oldsz and unmaps them.
LEMMA DeallocuvmShrinks ==
    \A n, pd, R : \A oldsz, newsz \in Nat :
        /\ Holds(n, pd, R)
        /\ newsz < oldsz
        => /\ Shrunk(n, pd, R, PageUp(newsz), PageUp(oldsz), Deallocuvm(n, pd, oldsz, newsz))
           /\ Deallocuvm(n, pd, oldsz, newsz).sz = newsz
\* The pages of the entries G of pd are given back.
<1> DEFINE Emptied(pd, G) == WithPte(pd, [v \in Vpns |-> IF v \in G THEN NoPte ELSE pd.pte[v]])
<1> DEFINE PagesAt(pd, G) == {pd.pte[v].pa : v \in G} \ {0}
<1> DEFINE Without(pd, G, q) ==
               /\ q.dir = pd.dir /\ q.ktab = pd.ktab /\ q.tab = pd.tab
               /\ \A v \in Vpns : q.pte[v] = IF v \in G THEN NoPte ELSE pd.pte[v]
\* The pages from newsz to oldsz, in numbers of pages.
<1> DEFINE PageRange(lo, hi) == {v \in Vpns : lo <= v /\ v < hi}
<1> HIDE DEF Emptied, PagesAt, Without, PageRange
\* The pages from an address rounded up: those from PageUp of it.
<1>1. ASSUME NEW a \in Nat, NEW v \in Int PROVE PGROUNDUP(a) <= v * PGSIZE <=> PageUp(a) <= v
  <2>0. PGSIZE \in Nat \ {0} /\ PageUp(a) \in Nat
    BY UserPart, PageUpBelow, SMTT(60)
  <2>1. PICK q \in Nat : q = PageUp(a)
    BY <2>0, SMTT(60)
  <2>2. PGROUNDUP(a) = q * PGSIZE
    BY <2>1, SMTT(60) DEF PGROUNDUP
  <2>3. q <= v => q * PGSIZE <= v * PGSIZE
    <3>1. q < v => q * PGSIZE + PGSIZE <= v * PGSIZE
      BY <2>0, TimesLess, SMTT(60)
    <3> QED
      BY <2>0, <3>1, SMTT(60)
  <2>4. v < q => v * PGSIZE < q * PGSIZE
    <3>1. v < q => v * PGSIZE + PGSIZE <= q * PGSIZE
      BY <2>0, TimesLess, SMTT(60)
    <3> QED
      BY <2>0, <3>1, SMTT(60)
  <2> QED
    BY <2>0, <2>1, <2>2, <2>3, <2>4, SMTT(60)
<1>2. ASSUME NEW n, NEW pd, NEW R, Holds(n, pd, R), NEW G, G \subseteq Vpns,
             NEW k, Given(n, PagesAt(pd, G), k)
      PROVE  Holds(k, Emptied(pd, G), R) /\ Without(pd, G, Emptied(pd, G))
  <2> USE <1>2
  <2>1. PICK S : S = PagesAt(pd, G)
    OBVIOUS
  <2>2. PICK q : q = Emptied(pd, G)
    OBVIOUS
  <2>3. pd \in Pgdirs /\ n \in Mems /\ Distinct(pd) /\ n.free \cap Held(pd) = {} /\ n.free \cup Held(pd) = R
    BY DEF Holds
  <2>4. PICK f : f = [v \in Vpns |-> IF v \in G THEN NoPte ELSE pd.pte[v]]
    OBVIOUS
  <2>5. \A v \in Vpns : pd.pte[v] \in Ptes
    BY <2>3, PdFields
  <2>6. f \in PteMaps
    BY <2>4, <2>5, NoPteFacts, SMTT(60) DEF PteMaps
  <2>7. HasParts(q, pd, pd.tab, f)
    BY <2>2, <2>3, <2>4, <2>6, PteExcept DEF Emptied
  <2>8. q \in Pgdirs /\ q.dir = pd.dir /\ q.ktab = pd.ktab /\ q.tab = pd.tab /\ q.pte = f
    BY <2>7 DEF HasParts
  <2>9. \A v \in Vpns : q.pte[v] = IF v \in G THEN NoPte ELSE pd.pte[v]
    BY <2>4, <2>8
  <2>10. \A v \in Vpns : q.pte[v].pa = IF v \in G THEN 0 ELSE pd.pte[v].pa
    BY <2>9, NoPteFacts
  <2>11. TablePages(q) = TablePages(pd)
    BY <2>8, SMTT(60) DEF TablePages
  <2>12. PtePages(q) = PtePages(pd) \ S
    <3>1. \A u, v \in Vpns : pd.pte[u].pa # 0 /\ pd.pte[u].pa = pd.pte[v].pa => u = v
      BY <2>3 DEF Distinct
    <3> QED
      BY <2>1, <2>10, <3>1, SMTT(60) DEF PtePages, PagesAt
  <2>13. S \subseteq PtePages(pd)
    BY <2>1, SMTT(60) DEF PtePages, PagesAt
  <2>14. Distinct(q)
    <3>1. \A u, w \in Vpns : q.pte[u].pa # 0 /\ q.pte[u].pa = q.pte[w].pa => u = w
      <4>1. \A u, v \in Vpns : pd.pte[u].pa # 0 /\ pd.pte[u].pa = pd.pte[v].pa => u = v
        BY <2>3 DEF Distinct
      <4> QED
        BY <2>10, <4>1, SMTT(60)
    <3>2. \A u \in Vpns : q.pte[u].pa \notin TablePages(q)
      <4>1. \A u \in Vpns : pd.pte[u].pa \notin TablePages(pd)
        BY <2>3 DEF Distinct
      <4>2. 0 \notin TablePages(pd)
        BY DEF TablePages
      <4> QED
        BY <2>10, <2>11, <4>1, <4>2, SMTT(60)
    <3>3. \A u \in Vpns : q.pte[u].pa # 0 => q.tab[u \div NPT] # 0
      <4>1. \A u \in Vpns : pd.pte[u].pa # 0 => pd.tab[u \div NPT] # 0
        BY <2>3 DEF Distinct
      <4> QED
        BY <2>8, <2>10, <4>1, SMTT(60)
    <3>4. /\ \A s, t \in Tables : q.tab[s] # 0 /\ q.tab[s] = q.tab[t] => s = t
          /\ \A t \in Tables : q.tab[t] # 0 => q.tab[t] \notin q.ktab /\ q.tab[t] # q.dir
          /\ q.dir \notin q.ktab
      BY <2>3, <2>8, SMTT(60) DEF Distinct
    <3> QED
      BY <3>1, <3>2, <3>3, <3>4 DEF Distinct
  <2>15. k \in Mems /\ k.free = n.free \cup S
    BY <2>1 DEF Given
  <2>16. PtePages(pd) \cap TablePages(pd) = {}
    <3>1. \A u \in Vpns : pd.pte[u].pa \notin TablePages(pd)
      BY <2>3 DEF Distinct
    <3> QED
      BY <3>1, SMTT(60) DEF PtePages
  <2>17. k.free \cap Held(q) = {} /\ k.free \cup Held(q) = R
    BY <2>3, <2>11, <2>12, <2>13, <2>15, <2>16, SMTT(60) DEF Held
  <2> QED
    BY <2>2, <2>8, <2>9, <2>14, <2>15, <2>17 DEF Holds, Without
<1>3. ASSUME NEW pd, NEW oldsz \in Nat, NEW newsz \in Nat
      PROVE  Gone(pd, oldsz, newsz) = PageRange(PageUp(newsz), PageUp(oldsz))
  <2>1. \A v \in Vpns : v * PGSIZE < oldsz <=> v < PageUp(oldsz)
    BY PageUpBelow, VpnFacts, SMTT(60)
  <2>2. \A v \in Vpns : PGROUNDUP(newsz) <= v * PGSIZE <=> PageUp(newsz) <= v
    BY <1>1, VpnFacts, SMTT(60)
  <2> QED
    BY <2>1, <2>2 DEF Gone, PageRange
<1>4. ASSUME NEW n, NEW pd, NEW R, Holds(n, pd, R), NEW oldsz \in Nat, NEW newsz \in Nat, newsz < oldsz
      PROVE  /\ Shrunk(n, pd, R, PageUp(newsz), PageUp(oldsz), Deallocuvm(n, pd, oldsz, newsz))
             /\ Deallocuvm(n, pd, oldsz, newsz).sz = newsz
  <2> USE <1>4
  <2>1. PICK G : G = Gone(pd, oldsz, newsz)
    OBVIOUS
  <2>2. PICK lo : lo = PageUp(newsz)
    OBVIOUS
  <2>3. PICK hi : hi = PageUp(oldsz)
    OBVIOUS
  <2>4. G = {v \in Vpns : lo <= v /\ v < hi}
    <3>1. G = PageRange(lo, hi)
      BY <2>1, <2>2, <2>3, <1>3
    <3> QED
      BY <3>1 DEF PageRange
  <2>5. PICK d : d = Deallocuvm(n, pd, oldsz, newsz)
    OBVIOUS
  <2>6. pd \in Pgdirs /\ n \in Mems
    BY DEF Holds
  <2>7. d = [m |-> Kfree(n, PagesAt(pd, G)), sz |-> newsz, pd |-> Emptied(pd, G)]
    <3>1. ~(newsz >= oldsz)
      BY SMTT(60)
    <3>2. \A e \in Ptes : e.pa = 0 => ~e.user
      BY SMTT(60) DEF Ptes
    <3>3. \A v \in Vpns : pd.pte[v] \in Ptes
      BY <2>6, PdFields
    <3>4. ~ \E v \in G : pd.pte[v].pa = 0 /\ pd.pte[v].user
      BY <2>4, <3>2, <3>3
    <3> QED
      BY <2>1, <2>5, <3>1, <3>4 DEF Deallocuvm, PagesAt, Emptied, WithPte
  <2>8. d.m = Kfree(n, PagesAt(pd, G)) /\ d.sz = newsz /\ d.pd = Emptied(pd, G)
    BY <2>7, SMTT(60)
  <2>9. PagesAt(pd, G) \subseteq Frames
    <3>1. \A v \in Vpns : pd.pte[v].pa \in Frames \cup {0}
      BY <2>6, PdFields
    <3> QED
      BY <2>4, <3>1 DEF PagesAt
  <2>10. Given(n, PagesAt(pd, G), d.m)
    BY <2>6, <2>8, <2>9, KfreeGives
  <2>11. G \subseteq Vpns
    BY <2>4
  <2>12. /\ Holds(d.m, d.pd, R) /\ d.pd.dir = pd.dir /\ d.pd.ktab = pd.ktab /\ d.pd.tab = pd.tab
         /\ \A v \in Vpns : d.pd.pte[v] = IF v \in G THEN NoPte ELSE pd.pte[v]
    <3>1. Holds(d.m, d.pd, R) /\ Without(pd, G, d.pd)
      BY <2>8, <2>10, <2>11, <1>2
    <3> QED
      BY <3>1 DEF Without
  <2>13. \A v \in Vpns : d.pd.pte[v] = IF lo <= v /\ v < hi THEN NoPte ELSE pd.pte[v]
    BY <2>4, <2>12
  <2>14. /\ d.m.panic = n.panic /\ d.m.left = n.left
         /\ \A x \in Frames \ PagesAt(pd, G) : d.m.mem[x] = n.mem[x]
    BY <2>10 DEF Given
  <2>15. ASSUME NEW x \in Frames, \A v \in Vpns : lo <= v /\ v < hi => pd.pte[v].pa # x
         PROVE  d.m.mem[x] = n.mem[x]
    <3>1. x \notin PagesAt(pd, G)
      BY <2>4, <2>15 DEF PagesAt
    <3> QED
      BY <2>14, <3>1
  <2> QED
    BY <2>2, <2>3, <2>5, <2>8, <2>12, <2>13, <2>14, <2>15 DEF Shrunk
<1> QED
  BY <1>4

\* freevm: everything the page table has is free.
AllFree(n, R, k) ==
    /\ k \in Mems /\ k.panic = n.panic /\ k.left = n.left /\ k.free = R
    /\ \A x \in Frames \ R : k.mem[x] = n.mem[x]

\* freevm gives back everything the page table has.
LEMMA FreevmFrees ==
    ASSUME NEW n, NEW pd, NEW R, Holds(n, pd, R), pd.dir # 0 PROVE AllFree(n, R, Freevm(n, pd))
<1> DEFINE FreeTables(d) == Kfree(d.m, (UserTables(d.pd) \cup d.pd.ktab \cup {d.pd.dir}) \ {0})
<1> HIDE DEF FreeTables
<1>1. PICK d : d = Deallocuvm(n, pd, KERNBASE, 0)
  OBVIOUS
<1>2. Freevm(n, pd) = FreeTables(d)
  <2>1. (CHOOSE x \in {FreeTables(w) : w \in {d}} : TRUE) = FreeTables(d)
    BY SMTT(60)
  <2>2. Freevm(n, pd) = (CHOOSE x \in {FreeTables(w) : w \in {d}} : TRUE)
    BY <1>1 DEF Freevm, Let, FreeTables
  <2> QED
    BY <2>1, <2>2
<1>3. PageUp(0) = 0 /\ PageUp(KERNBASE) = UserPages
  <2>1. UserPages \in Nat /\ UserPages * PGSIZE = KERNBASE /\ 0 \in Nat /\ 0 * PGSIZE = 0
    BY UserPart, SMTT(60)
  <2>2. PageUp(UserPages * PGSIZE) = UserPages /\ PageUp(0 * PGSIZE) = 0
    BY <2>1, WholePages
  <2> QED
    BY <2>1, <2>2
<1>4. Shrunk(n, pd, R, 0, UserPages, d)
  <2>1. KERNBASE \in Nat /\ 0 \in Nat /\ 0 < KERNBASE
    BY UserPart, SMTT(60)
  <2> QED
    BY <1>1, <1>3, <2>1, DeallocuvmShrinks
<1>5. PtePages(d.pd) = {}
  <2>1. \A v \in Vpns : 0 <= v /\ v < UserPages
    BY VpnFacts, UserPart, SMTT(60)
  <2>2. \A v \in Vpns : d.pd.pte[v] = NoPte
    BY <1>4, <2>1 DEF Shrunk
  <2> QED
    BY <2>2, NoPteFacts, SMTT(60) DEF PtePages
<1>6. PICK S : S = TablePages(d.pd)
  OBVIOUS
<1>7. FreeTables(d) = Kfree(d.m, S)
  BY <1>6 DEF FreeTables, UserTables, TablePages
<1>8. Held(d.pd) = S
  BY <1>5, <1>6 DEF Held
<1>9. d.m \in Mems /\ d.m.free \cup S = R
  BY <1>4, <1>8 DEF Shrunk, Holds
<1>10. S \subseteq Frames
  <2>1. d.pd \in Pgdirs
    BY <1>4 DEF Shrunk, Holds
  <2>2. /\ d.pd.dir \in Frames \cup {0} /\ d.pd.ktab \subseteq Frames
        /\ \A t \in Tables : d.pd.tab[t] \in Frames \cup {0}
    BY <2>1, PdFields
  <2> QED
    BY <1>6, <2>2 DEF TablePages
<1>11. PICK k : k = Kfree(d.m, S)
  OBVIOUS
<1>12. Given(d.m, S, k)
  BY <1>9, <1>10, <1>11, KfreeGives
<1>13. ASSUME NEW x \in Frames \ R PROVE k.mem[x] = n.mem[x]
  <2>1. PtePages(pd) \subseteq R
    BY DEF Holds, Held
  <2>2. 0 \notin Frames
    BY FrameFacts
  <2>3. \A v \in Vpns : pd.pte[v].pa # x
    BY <2>1, <2>2 DEF PtePages
  <2>4. d.m.mem[x] = n.mem[x]
    BY <1>4, <2>3 DEF Shrunk
  <2>5. k.mem[x] = d.m.mem[x]
    BY <1>9, <1>12 DEF Given
  <2> QED
    BY <2>4, <2>5
<1>14. k \in Mems /\ k.panic = n.panic /\ k.left = n.left /\ k.free = R
  BY <1>4, <1>9, <1>12 DEF Given, Shrunk
<1> QED
  BY <1>2, <1>7, <1>11, <1>13, <1>14 DEF AllFree

-----------------------------------------------------------------------------
(* The loops *)

\* One turn of each of the loops, from the result r of the turns before it.

\* allocuvm, of the page v.
BackOut(r, oldsz, newsz) ==
    Let(Deallocuvm(r.m, r.pd, newsz, oldsz), LAMBDA d : [m |-> d.m, pd |-> d.pd, sz |-> 0])
WithoutPage(b, page) == [b EXCEPT !.m = Kfree(b.m, {page})]
GrowEnd(a, page, oldsz, newsz) ==
    IF a.ok THEN [m |-> a.m, pd |-> a.pd, sz |-> newsz]
    ELSE Let(BackOut(a, oldsz, newsz), LAMBDA b : WithoutPage(b, page))
GrowMap(k, r, v, oldsz, newsz) ==
    IF k.page = 0 THEN BackOut([r EXCEPT !.m = k.m], oldsz, newsz)
    ELSE Let(Mappage(k.m, r.pd, v, [pa |-> k.page, user |-> TRUE]), LAMBDA a :
             GrowEnd(a, k.page, oldsz, newsz))
GrowTurn(r, v, oldsz, newsz) ==
    IF r.sz = 0 THEN r ELSE Let(Kzalloc(r.m), LAMBDA k : GrowMap(k, r, v, oldsz, newsz))

\* setupkvm, of one table.
MapEnd(k, r) ==
    IF k.page = 0 THEN [m |-> Freevm(k.m, r.pd), pd |-> NoPgdir]
    ELSE [m |-> k.m, pd |-> [r.pd EXCEPT !.ktab = @ \cup {k.page}]]
MapTurn(r) == IF r.pd.dir = 0 THEN r ELSE Let(Kzalloc(r.m), LAMBDA k : MapEnd(k, r))

\* copyuvm, of the page v of pd.
NoCopy(r) == [m |-> Freevm(r.m, r.pd), pd |-> NoPgdir]
CopyEnd(a, page) ==
    IF a.ok THEN [m |-> a.m, pd |-> a.pd] ELSE NoCopy([m |-> Kfree(a.m, {page}), pd |-> a.pd])
CopyMap(k, r, v, pd) ==
    IF k.page = 0 THEN NoCopy([r EXCEPT !.m = k.m])
    ELSE Let(Mappage(Copied(k.m, k.page, pd.pte[v].pa), r.pd, v, [pd.pte[v] EXCEPT !.pa = k.page]),
             LAMBDA a : CopyEnd(a, k.page))
CopyTurn(r, v, pd) ==
    IF r.pd.dir = 0 THEN r
    ELSE IF pd.pte[v].pa = 0 THEN [r EXCEPT !.m = Panic(r.m, "copyuvm")]
    ELSE Let(Kalloc(r.m), LAMBDA k : CopyMap(k, r, v, pd))

\* exec, of the segment i of prog: see Segment.

Turn(w, i, r) ==
    IF w[1] = "grow" THEN GrowTurn(r, i, w[2], w[3])
    ELSE IF w[1] = "map" THEN MapTurn(r)
    ELSE IF w[1] = "copy" THEN CopyTurn(r, i, w[2])
    ELSE Segment(r, w[2], w[2].segs[i])

\* Some function gives the result of each turn up to h.
LoopTo(w, b, lo, h) ==
    \E g : g = [i \in lo .. h |-> IF i = lo THEN b ELSE Let(g[i - 1], LAMBDA r : Turn(w, i, r))]

\* A loop computes something.
LEMMA LoopExists ==
    ASSUME Counting, NEW w, NEW b, NEW lo \in Int, NEW h \in Int, lo <= h PROVE LoopTo(w, b, lo, h)
<1> DEFINE Step(i, x) == Let(x, LAMBDA r : Turn(w, i, r))
           Loop(j) == \E g : g = [i \in lo .. lo + j |-> IF i = lo THEN b ELSE Step(i, g[i - 1])]
           Bad == {j \in Nat : ~Loop(j)}
<1> HIDE DEF Step
<1>1. ASSUME Bad # {} PROVE FALSE
  <2>1. PICK j \in Bad : \A y \in Bad : j <= y
    BY <1>1, LeastNat
  <2>2. CASE j = 0
    <3> DEFINE g == [i \in lo .. lo + 0 |-> b]
    <3>1. g = [i \in lo .. lo + 0 |-> IF i = lo THEN b ELSE Step(i, g[i - 1])]
      BY SMTT(60)
    <3>2. Loop(0)
      BY <3>1
    <3> QED
      BY <2>2, <3>2, SMTT(60)
  <2>3. CASE j # 0
    <3>0. PICK e \in Int : e = lo + j
      BY SMTT(60)
    <3>1. j - 1 \in Nat /\ ~(j <= j - 1) /\ lo + (j - 1) = e - 1 /\ lo # e /\ e - 1 \in lo .. e - 1
      BY <2>3, <3>0, SMTT(60)
    <3>2. Loop(j - 1)
      BY <2>1, <3>1
    <3>3. PICK g : g = [i \in lo .. e - 1 |-> IF i = lo THEN b ELSE Step(i, g[i - 1])]
      BY <3>1, <3>2, SMTT(60)
    <3> DEFINE f == [i \in lo .. e |-> IF i = e THEN Step(e, g[e - 1]) ELSE g[i]]
    <3>4. ASSUME NEW i \in lo .. e PROVE f[i] = IF i = lo THEN b ELSE Step(i, f[i - 1])
      <4>1. CASE i = e
        <5>1. f[e - 1] = g[e - 1]
          BY <3>1, SMTT(60)
        <5> QED
          BY <3>1, <4>1, <5>1, SMTT(60)
      <4>2. CASE i # e
        <5>1. i \in lo .. e - 1
          BY <4>2, SMTT(60)
        <5>2. f[i] = g[i] /\ (i # lo => f[i - 1] = g[i - 1])
          BY <4>2, <5>1, SMTT(60)
        <5>3. g[i] = IF i = lo THEN b ELSE Step(i, g[i - 1])
          BY <3>3, <5>1, SMTT(60)
        <5> QED
          BY <5>2, <5>3
      <4> QED
        BY <4>1, <4>2, SMTT(60)
    <3>5. f = [i \in lo .. e |-> f[i]]
      BY SMTT(60)
    <3> HIDE DEF f
    <3>6. f = [i \in lo .. e |-> IF i = lo THEN b ELSE Step(i, f[i - 1])]
      BY <3>4, <3>5
    <3>7. Loop(j)
      BY <3>0, <3>6
    <3> QED
      BY <2>1, <3>7, SMTT(60)
  <2> QED
    BY <2>2, <2>3, SMTT(60)
<1>2. h - lo \in Nat /\ lo + (h - lo) = h
  BY SMTT(60)
<1>3. Loop(h - lo)
  BY <1>1, <1>2
<1>4. \E g : g = [i \in lo .. h |-> IF i = lo THEN b ELSE Step(i, g[i - 1])]
  BY <1>2, <1>3, SMTT(60)
<1> QED
  BY <1>4 DEF LoopTo, Step

-----------------------------------------------------------------------------
(* allocuvm *)

\* A page in hand is given back.
LEMMA GiveBack ==
    ASSUME NEW n, NEW pd, NEW R, Holds(n, pd, R), NEW k, k \in Frames, k \notin R, NEW n2, Given(n, {k}, n2)
    PROVE  Holds(n2, pd, R \cup {k})
<1>1. n.free \cap Held(pd) = {} /\ n.free \cup Held(pd) = R /\ n \in Mems /\ pd \in Pgdirs /\ Distinct(pd)
  BY DEF Holds
<1>2. n2 \in Mems /\ n2.free = n.free \cup {k}
  BY DEF Given
<1>3. n2.free \cap Held(pd) = {} /\ n2.free \cup Held(pd) = R \cup {k}
  BY <1>1, <1>2, SMTT(60)
<1> QED
  BY <1>1, <1>2, <1>3 DEF Holds

\* From n to n2 nothing changes outside of R, nor in the pages of pd below c.
Kept(n, n2, pd, R, c) ==
    /\ \A x \in Frames \ R : n2.mem[x] = n.mem[x]
    /\ \A u \in Vpns : u < c /\ pd.pte[u].pa # 0 => n2.mem[pd.pte[u].pa] = n.mem[pd.pte[u].pa]

\* q is pd up to the page c, and has no pages from h on.
Extends(pd, q, c, h) ==
    /\ \A u \in Vpns : u < c => q.pte[u] = pd.pte[u]
    /\ \A u \in Vpns : c <= u /\ h <= u => q.pte[u].pa = 0

\* An entry for the page k.
NewPte(k) == [pa |-> k, user |-> TRUE]

\* The entry that allocuvm makes for a page.
LEMMA NewPteFacts == ASSUME NEW k \in Frames PROVE NewPte(k) \in Ptes /\ NewPte(k).pa = k
BY FrameFacts, SMTT(60) DEF NewPte, Ptes

\* What allocuvm from oldsz to newsz leaves: the old pages; and either new ones,
\* all zero, or no new ones.
Grown(n, pd, R, oldsz, newsz, a) ==
    /\ a = [m |-> a.m, pd |-> a.pd, sz |-> a.sz]
    /\ Holds(a.m, a.pd, R) /\ a.m.panic = n.panic /\ a.pd.dir = pd.dir
    /\ Kept(n, a.m, pd, R, PageUp(oldsz))
    /\ \/ a.sz = 0 /\ Extends(pd, a.pd, PageUp(oldsz), PageUp(oldsz))
       \/ newsz < oldsz /\ a.sz = oldsz /\ a.pd = pd
       \/ /\ oldsz <= newsz /\ newsz < KERNBASE /\ a.sz = newsz
          /\ Extends(pd, a.pd, PageUp(oldsz), PageUp(newsz))
          /\ \A u \in Vpns : PageUp(oldsz) <= u /\ u < PageUp(newsz) =>
                a.pd.pte[u].pa # 0 /\ a.m.mem[a.pd.pte[u].pa] = "zero"

\* allocuvm adds the pages from oldsz to newsz; when memory runs out half way it
\* gives back the ones it has added.
LEMMA AllocuvmGrows ==
    ASSUME Counting
    PROVE  \A n, pd, R : \A oldsz, newsz \in Nat : \A a :
               /\ Holds(n, pd, R)
               /\ Extends(pd, pd, PageUp(oldsz), PageUp(oldsz))
               /\ a = Allocuvm(n, pd, oldsz, newsz)
               => Grown(n, pd, R, oldsz, newsz, a)
\* g gives the result of each turn.
<1> DEFINE GrowRun(g, n, pd, oldsz, newsz) ==
               /\ g[PageUp(oldsz) - 1] = [m |-> n, pd |-> pd, sz |-> newsz]
               /\ \A v \in PageUp(oldsz) .. PageUp(newsz) - 1 : g[v] = GrowTurn(g[v - 1], v, oldsz, newsz)
\* The result r of the turns of allocuvm up to the page v: all pages from c to v
\* are new and zero, or allocuvm has given up.
<1> DEFINE Growing(n, pd, R, c, v, newsz, r) ==
               /\ r = [m |-> r.m, pd |-> r.pd, sz |-> r.sz]
               /\ Holds(r.m, r.pd, R) /\ r.m.panic = n.panic /\ r.pd.dir = pd.dir
               /\ Kept(n, r.m, pd, R, c)
               /\ \/ /\ r.sz = newsz /\ Extends(pd, r.pd, c, v + 1)
                     /\ \A u \in Vpns : c <= u /\ u <= v => r.pd.pte[u].pa # 0 /\ r.m.mem[r.pd.pte[u].pa] = "zero"
                  \/ r.sz = 0 /\ Extends(pd, r.pd, c, c)
<1> HIDE DEF GrowRun, Growing
\* allocuvm is the result of its last turn.
<1>1. ASSUME NEW n, NEW pd, NEW oldsz \in Nat, NEW newsz \in Nat, newsz < KERNBASE, oldsz <= newsz
      PROVE  \E g : GrowRun(g, n, pd, oldsz, newsz) /\ Allocuvm(n, pd, oldsz, newsz) = g[PageUp(newsz) - 1]
  <2> USE <1>1
  <2> DEFINE lo == PageUp(oldsz) - 1
             hi == PageUp(newsz) - 1
             base0 == [m |-> n, pd |-> pd, sz |-> newsz]
             w == <<"grow", oldsz, newsz>>
             Same(g) == g = [v \in lo .. hi |-> IF v = lo THEN base0
                               ELSE Let(g[v - 1], LAMBDA r : GrowTurn(r, v, oldsz, newsz))]
             grow == CHOOSE g : Same(g)
  <2>1. PageUp(oldsz) \in Nat /\ PageUp(newsz) \in Nat /\ PageUp(oldsz) <= PageUp(newsz) /\ KERNBASE \in Nat
    BY PageUpBelow, PageUpOrder, UserPart, SMTT(60)
  <2>2. lo \in Int /\ hi \in Int /\ lo <= hi
    BY <2>1, SMTT(60)
  <2>3. \A v, r : Turn(w, v, r) = GrowTurn(r, v, oldsz, newsz)
    BY SMTT(60) DEF Turn
  <2>4. \E g : Same(g)
    <3>1. PICK g : g = [i \in lo .. hi |-> IF i = lo THEN base0 ELSE Let(g[i - 1], LAMBDA r : Turn(w, i, r))]
      <4>1. LoopTo(w, base0, lo, hi)
        BY <2>2, LoopExists
      <4> QED
        BY <4>1 DEF LoopTo
    <3>2. ASSUME NEW i \in lo .. hi
          PROVE  g[i] = IF i = lo THEN base0 ELSE Let(g[i - 1], LAMBDA r : GrowTurn(r, i, oldsz, newsz))
      <4>1. PICK x : x = g[i - 1]
        OBVIOUS
      <4>2. g[i] = IF i = lo THEN base0 ELSE CHOOSE y \in {Turn(w, i, z) : z \in {x}} : TRUE
        BY <3>1, <4>1 DEF Let
      <4>3. (CHOOSE y \in {Turn(w, i, z) : z \in {x}} : TRUE) = Turn(w, i, x)
        BY SMTT(60)
      <4>4. (CHOOSE y \in {GrowTurn(z, i, oldsz, newsz) : z \in {x}} : TRUE) = GrowTurn(x, i, oldsz, newsz)
        BY SMTT(60)
      <4>5. g[i] = IF i = lo THEN base0 ELSE CHOOSE y \in {GrowTurn(z, i, oldsz, newsz) : z \in {x}} : TRUE
        BY <2>3, <4>2, <4>3, <4>4
      <4> QED
        BY <4>1, <4>5 DEF Let
    <3>3. g = [i \in lo .. hi |-> g[i]]
      BY <3>1
    <3>4. Same(g)
      BY <3>2, <3>3
    <3> QED
      BY <3>4
  <2>5. Same(grow)
    BY <2>4
  <2>6. Allocuvm(n, pd, oldsz, newsz) = grow[hi]
    <3>1. ~(newsz >= KERNBASE) /\ ~(newsz < oldsz)
      BY <2>1, SMTT(60)
    <3> QED
      BY <3>1 DEF Allocuvm, GrowTurn, GrowMap, GrowEnd, BackOut, WithoutPage
  <2> HIDE DEF grow
  <2>7. GrowRun(grow, n, pd, oldsz, newsz)
    <3>1. grow[lo] = base0
      BY <2>2, <2>5, SMTT(60)
    <3>2. ASSUME NEW v \in PageUp(oldsz) .. PageUp(newsz) - 1 PROVE grow[v] = GrowTurn(grow[v - 1], v, oldsz, newsz)
      <4>1. v \in lo .. hi /\ v # lo
        BY <2>1, <3>2, SMTT(60)
      <4>2. grow[v] = Let(grow[v - 1], LAMBDA r : GrowTurn(r, v, oldsz, newsz))
        BY <2>5, <4>1
      <4>3. Let(grow[v - 1], LAMBDA r : GrowTurn(r, v, oldsz, newsz)) = GrowTurn(grow[v - 1], v, oldsz, newsz)
        <5>1. PICK x : x = grow[v - 1]
          OBVIOUS
        <5>2. (CHOOSE y \in {GrowTurn(z, v, oldsz, newsz) : z \in {x}} : TRUE) = GrowTurn(x, v, oldsz, newsz)
          BY SMTT(60)
        <5> QED
          BY <5>1, <5>2 DEF Let
      <4> QED
        BY <4>2, <4>3
    <3> QED
      BY <3>1, <3>2 DEF GrowRun
  <2> QED
    BY <2>6, <2>7
\* deallocuvm takes an extension of pd back.
<1>2. ASSUME NEW n, NEW pd, NEW R, NEW x, NEW q, NEW Q, NEW c \in Int, NEW h \in Int, NEW d,
             Holds(x, q, Q), Q \subseteq R, Shrunk(x, q, Q, c, h, d), Kept(n, x, pd, R, c),
             Extends(pd, q, c, h)
      PROVE  Kept(n, d.m, pd, R, c) /\ Extends(pd, d.pd, c, c)
  <2> USE <1>2
  <2>1. /\ \A u \in Vpns : u < c => q.pte[u] = pd.pte[u]
        /\ \A u \in Vpns : c <= u /\ h <= u => q.pte[u].pa = 0
    BY DEF Extends
  <2>2. /\ \A u \in Vpns : d.pd.pte[u] = IF c <= u /\ u < h THEN NoPte ELSE q.pte[u]
        /\ \A y \in Frames : (\A u \in Vpns : c <= u /\ u < h => q.pte[u].pa # y) => d.m.mem[y] = x.mem[y]
    BY DEF Shrunk
  <2>3. \A u, w \in Vpns : q.pte[u].pa # 0 /\ q.pte[u].pa = q.pte[w].pa => u = w
    BY DEF Holds, Distinct
  <2>4. \A u \in Vpns : q.pte[u].pa \in Frames \cup {0} /\ (q.pte[u].pa # 0 => q.pte[u].pa \in R)
    <3>1. q \in Pgdirs /\ PtePages(q) \subseteq R
      BY DEF Holds, Held
    <3>2. \A u \in Vpns : q.pte[u].pa \in Frames \cup {0}
      BY <3>1, PdFields
    <3>3. \A u \in Vpns : q.pte[u].pa # 0 => q.pte[u].pa \in PtePages(q)
      BY DEF PtePages
    <3> QED
      BY <3>1, <3>2, <3>3
  <2>5. Vpns \subseteq Int
    BY VpnFacts, SMTT(60)
  <2>6. ASSUME NEW y \in Frames \ R PROVE d.m.mem[y] = n.mem[y]
    <3>1. \A u \in Vpns : q.pte[u].pa # y
      BY <2>4, FrameFacts
    <3>2. x.mem[y] = n.mem[y]
      BY DEF Kept
    <3> QED
      BY <2>2, <3>1, <3>2
  <2>7. ASSUME NEW u \in Vpns, u < c, pd.pte[u].pa # 0 PROVE d.m.mem[pd.pte[u].pa] = n.mem[pd.pte[u].pa]
    <3>1. PICK y : y = pd.pte[u].pa
      OBVIOUS
    <3>2. q.pte[u].pa = y /\ y # 0
      BY <2>1, <2>7, <3>1
    <3>3. y \in Frames
      BY <2>4, <3>2
    <3>4. ASSUME NEW w \in Vpns, c <= w /\ w < h PROVE q.pte[w].pa # y
      <4>1. u # w
        BY <2>5, <2>7, <3>4, SMTT(60)
      <4> QED
        BY <2>3, <3>2, <4>1
    <3>5. d.m.mem[y] = x.mem[y]
      BY <2>2, <3>3, <3>4
    <3>6. x.mem[y] = n.mem[y]
      BY <2>7, <3>1 DEF Kept
    <3> QED
      BY <3>1, <3>5, <3>6
  <2>8. ASSUME NEW u \in Vpns, u < c PROVE d.pd.pte[u] = pd.pte[u]
    <3>1. ~(c <= u)
      BY <2>5, <2>8, SMTT(60)
    <3> QED
      BY <2>1, <2>2, <2>8, <3>1
  <2>9. ASSUME NEW u \in Vpns, c <= u PROVE d.pd.pte[u].pa = 0
    <3>1. CASE u < h
      BY <2>2, <2>9, <3>1, NoPteFacts
    <3>2. CASE ~(u < h)
      <4>1. h <= u
        BY <2>5, <3>2, SMTT(60)
      <4> QED
        BY <2>1, <2>2, <2>9, <3>2, <4>1
    <3> QED
      BY <3>1, <3>2
  <2> QED
    BY <2>6, <2>7, <2>8, <2>9 DEF Kept, Extends
\* allocuvm gives up.
<1>3. ASSUME NEW r, NEW R, Holds(r.m, r.pd, R), NEW oldsz \in Nat, NEW newsz \in Nat, oldsz < newsz,
             NEW b, b = BackOut(r, oldsz, newsz)
      PROVE  /\ Shrunk(r.m, r.pd, R, PageUp(oldsz), PageUp(newsz), b)
             /\ b = [m |-> b.m, pd |-> b.pd, sz |-> 0]
  <2> USE <1>3
  <2> DEFINE End0(d) == [m |-> d.m, pd |-> d.pd, sz |-> 0]
  <2>1. PICK d : d = Deallocuvm(r.m, r.pd, newsz, oldsz)
    OBVIOUS
  <2>2. b = End0(d)
    <3>1. (CHOOSE y \in {End0(z) : z \in {d}} : TRUE) = End0(d)
      BY SMTT(60)
    <3> QED
      BY <2>1, <3>1 DEF BackOut, Let
  <2>3. b.m = d.m /\ b.pd = d.pd
    BY <2>2, SMTT(60)
  <2>4. Shrunk(r.m, r.pd, R, PageUp(oldsz), PageUp(newsz), d)
    BY <2>1, DeallocuvmShrinks
  <2>5. Shrunk(r.m, r.pd, R, PageUp(oldsz), PageUp(newsz), b)
    BY <2>3, <2>4 DEF Shrunk
  <2> QED
    BY <2>2, <2>3, <2>5
\* A turn of allocuvm keeps that.
<1>4. ASSUME NEW n, NEW pd, NEW R, NEW oldsz \in Nat, NEW newsz \in Nat, oldsz <= newsz, newsz < KERNBASE,
             NEW c, c = PageUp(oldsz), NEW v \in c .. PageUp(newsz) - 1,
             NEW r, Growing(n, pd, R, c, v - 1, newsz, r)
      PROVE  Growing(n, pd, R, c, v, newsz, GrowTurn(r, v, oldsz, newsz))
  <2> USE <1>4
  <2>1. c \in Nat /\ PageUp(newsz) \in Nat /\ v \in Nat /\ v \in Vpns /\ oldsz < newsz /\ newsz # 0
    <3>1. c \in Nat /\ PageUp(newsz) \in Nat /\ KERNBASE \in Nat
      BY PageUpBelow, UserPart
    <3>2. PageUp(newsz) <= UserPages
      BY <3>1, PageUpOrder, SMTT(60)
    <3>3. oldsz # newsz
      BY <3>1, SMTT(60)
    <3>4. v \in Vpns
      <4>1. v \in 0 .. UserPages - 1
        BY <3>1, <3>2, UserPart, SMTT(60)
      <4> QED
        BY <4>1, VpnFacts
    <3> QED
      BY <3>1, <3>3, <3>4, SMTT(60)
  <2>2. /\ r = [m |-> r.m, pd |-> r.pd, sz |-> r.sz]
        /\ Holds(r.m, r.pd, R) /\ r.m.panic = n.panic /\ r.pd.dir = pd.dir
        /\ Kept(n, r.m, pd, R, c)
    BY DEF Growing
  <2>3. CASE r.sz = 0
    <3>1. GrowTurn(r, v, oldsz, newsz) = r
      BY <2>3 DEF GrowTurn
    <3>2. Extends(pd, r.pd, c, c)
      BY <2>1, <2>3 DEF Growing
    <3> QED
      BY <2>2, <2>3, <3>1, <3>2 DEF Growing
  <2>4. CASE r.sz # 0
    <3>1. /\ r.sz = newsz /\ Extends(pd, r.pd, c, v)
          /\ \A u \in Vpns : c <= u /\ u <= v - 1 => r.pd.pte[u].pa # 0 /\ r.m.mem[r.pd.pte[u].pa] = "zero"
      <4>1. v - 1 + 1 = v
        BY <2>1, SMTT(60)
      <4> QED
        BY <2>4, <4>1 DEF Growing
    <3>2. PICK k : k = Kzalloc(r.m)
      OBVIOUS
    <3>3. GrowTurn(r, v, oldsz, newsz) = GrowMap(k, r, v, oldsz, newsz)
      <4>1. (CHOOSE y \in {GrowMap(z, r, v, oldsz, newsz) : z \in {k}} : TRUE) = GrowMap(k, r, v, oldsz, newsz)
        BY SMTT(60)
      <4> QED
        BY <2>4, <3>2, <4>1 DEF GrowTurn, Let
    <3>4. r.m \in Mems /\ r.pd \in Pgdirs
      BY <2>2 DEF Holds
    <3>5. Cleared(r.m, k)
      BY <3>2, <3>4, KzallocClears
    <3>6. Extends(pd, r.pd, c, PageUp(newsz))
      <4>1. \A u \in Vpns : PageUp(newsz) <= u => v <= u
        BY <2>1, VpnFacts, SMTT(60)
      <4> QED
        BY <3>1, <4>1 DEF Extends
    <3>7. CASE k.page = 0
      <4>1. k.m = r.m
        BY <3>5, <3>7, FrameFacts DEF Cleared
      <4>2. PICK s : s = [r EXCEPT !.m = k.m]
        OBVIOUS
      <4>3. s.m = r.m /\ s.pd = r.pd
        BY <2>2, <4>1, <4>2, SMTT(60)
      <4>4. PICK b : b = BackOut(s, oldsz, newsz)
        OBVIOUS
      <4>5. GrowMap(k, r, v, oldsz, newsz) = b
        BY <3>7, <4>2, <4>4 DEF GrowMap
      <4>6. Holds(s.m, s.pd, R)
        BY <2>2, <4>3
      <4>7. Shrunk(r.m, r.pd, R, c, PageUp(newsz), b) /\ b = [m |-> b.m, pd |-> b.pd, sz |-> 0]
        <5>1. Shrunk(s.m, s.pd, R, PageUp(oldsz), PageUp(newsz), b) /\ b = [m |-> b.m, pd |-> b.pd, sz |-> 0]
          BY <2>1, <4>4, <4>6, <1>3
        <5> QED
          BY <4>3, <5>1
      <4>8. Kept(n, b.m, pd, R, c) /\ Extends(pd, b.pd, c, c)
        <5>1. c \in Int /\ PageUp(newsz) \in Int /\ R \subseteq R
          BY <2>1, SMTT(60)
        <5> QED
          BY <2>2, <3>6, <4>7, <5>1, <1>2
      <4>9. b.sz = 0
        BY <4>7, SMTT(60)
      <4>10. Holds(b.m, b.pd, R) /\ b.m.panic = n.panic /\ b.pd.dir = pd.dir
        BY <2>2, <4>7 DEF Shrunk
      <4> QED
        BY <3>3, <4>5, <4>7, <4>8, <4>9, <4>10 DEF Growing
    <3>8. CASE k.page # 0
      <4>1. /\ k.m \in Mems /\ k.m.panic = r.m.panic
            /\ k.page \in r.m.free /\ k.page \in Frames /\ k.page # 0 /\ k.m.free = r.m.free \ {k.page}
            /\ k.m.mem[k.page] = "zero" /\ \A x \in Frames : x # k.page => k.m.mem[x] = r.m.mem[x]
        BY <3>5, <3>8 DEF Cleared
      <4>2. PICK Q : Q = R \ {k.page}
        OBVIOUS
      <4>3. Holds(k.m, r.pd, Q) /\ k.page \in R
        BY <2>2, <4>1, <4>2, TakeFree
      <4>4. Q \cup {k.page} = R /\ Q \subseteq R /\ k.page \notin Q
        BY <4>2, <4>3, SMTT(60)
      <4>5. PICK e : e = NewPte(k.page)
        OBVIOUS
      <4>6. e \in Ptes /\ e.pa = k.page
        BY <4>1, <4>5, NewPteFacts
      <4>7. PICK a : a = Mappage(k.m, r.pd, v, e)
        OBVIOUS
      <4>8. r.pd.pte[v].pa = 0
        <5>1. c <= v /\ v <= v
          BY <2>1, SMTT(60)
        <5> QED
          BY <2>1, <3>1, <5>1 DEF Extends
      <4>9. Entered(k.m, r.pd, Q, v, e, a)
        BY <2>1, <4>1, <4>3, <4>4, <4>6, <4>7, <4>8, MappageEnters
      <4>10. GrowMap(k, r, v, oldsz, newsz) = GrowEnd(a, k.page, oldsz, newsz)
        <5>1. (CHOOSE y \in {GrowEnd(z, k.page, oldsz, newsz) : z \in {a}} : TRUE) = GrowEnd(a, k.page, oldsz, newsz)
          BY SMTT(60)
        <5> QED
          BY <3>8, <4>5, <4>7, <5>1 DEF GrowMap, Let, NewPte
      <4>11. \A u \in Vpns : r.pd.pte[u].pa \in Frames \cup {0} /\ (r.pd.pte[u].pa # 0 => r.pd.pte[u].pa \in Held(r.pd))
        <5>1. \A u \in Vpns : r.pd.pte[u].pa \in Frames \cup {0}
          BY <3>4, PdFields
        <5> QED
          BY <5>1 DEF Held, PtePages
      <4>12. r.m.free \cap Held(r.pd) = {}
        BY <2>2 DEF Holds
      <4>13. \A u \in Vpns : r.pd.pte[u].pa # 0 => /\ r.pd.pte[u].pa \in Frames \ k.m.free
                                                /\ k.m.mem[r.pd.pte[u].pa] = r.m.mem[r.pd.pte[u].pa]
        BY <4>1, <4>11, <4>12
      <4>14. Kept(n, k.m, pd, R, c)
        <5>1. ASSUME NEW x \in Frames \ R PROVE k.m.mem[x] = n.mem[x]
          <6>1. x # k.page /\ r.m.mem[x] = n.mem[x]
            BY <2>2, <4>3 DEF Kept
          <6> QED
            BY <4>1, <6>1
        <5>2. ASSUME NEW u \in Vpns, u < c, pd.pte[u].pa # 0 PROVE k.m.mem[pd.pte[u].pa] = n.mem[pd.pte[u].pa]
          <6>1. r.pd.pte[u] = pd.pte[u]
            BY <3>1, <5>2 DEF Extends
          <6>2. r.m.mem[pd.pte[u].pa] = n.mem[pd.pte[u].pa]
            BY <2>2, <5>2 DEF Kept
          <6> QED
            BY <4>13, <5>2, <6>1, <6>2
        <5> QED
          BY <5>1, <5>2 DEF Kept
      <4>15. CASE a.ok
        <5>1. /\ a.m.panic = k.m.panic /\ Holds(a.m, a.pd, R) /\ a.pd.dir = r.pd.dir
              /\ a.pd.pte = [r.pd.pte EXCEPT ![v] = e] /\ \A x \in Frames \ k.m.free : a.m.mem[x] = k.m.mem[x]
          BY <4>4, <4>6, <4>9, <4>15 DEF Entered
        <5>2. a.pd.pte[v] = e /\ \A u \in Vpns : u # v => a.pd.pte[u] = r.pd.pte[u]
          <6>1. r.pd.pte \in [Vpns -> Ptes]
            BY <3>4, PdFields
          <6> QED
            BY <2>1, <5>1, <6>1, SMTT(60)
        <5>3. PICK g : g = [m |-> a.m, pd |-> a.pd, sz |-> newsz]
          OBVIOUS
        <5>4. GrowTurn(r, v, oldsz, newsz) = g
          BY <3>3, <4>10, <4>15, <5>3 DEF GrowEnd
        <5>5. g.m = a.m /\ g.pd = a.pd /\ g.sz = newsz
          BY <5>3, SMTT(60)
        <5>6. Extends(pd, a.pd, c, v + 1)
          <6>1. \A u \in Vpns : u < c => u # v
            BY <2>1, VpnFacts, SMTT(60)
          <6>2. \A u \in Vpns : v + 1 <= u => v <= u /\ u # v
            BY <2>1, VpnFacts, SMTT(60)
          <6> QED
            BY <3>1, <5>2, <6>1, <6>2 DEF Extends
        <5>7. ASSUME NEW u \in Vpns, c <= u, u <= v PROVE a.pd.pte[u].pa # 0 /\ a.m.mem[a.pd.pte[u].pa] = "zero"
          <6>1. CASE u = v
            <7>1. k.page \notin k.m.free
              BY <4>1
            <7>2. a.pd.pte[u].pa = k.page /\ a.m.mem[k.page] = "zero"
              BY <4>1, <4>6, <5>1, <5>2, <6>1, <7>1
            <7> QED
              BY <4>1, <7>2
          <6>2. CASE u # v
            <7>1. u <= v - 1
              BY <2>1, <5>7, <6>2, VpnFacts, SMTT(60)
            <7>2. a.pd.pte[u] = r.pd.pte[u] /\ r.pd.pte[u].pa # 0 /\ r.m.mem[r.pd.pte[u].pa] = "zero"
              BY <3>1, <5>2, <5>7, <6>2, <7>1
            <7> QED
              BY <4>13, <5>1, <7>2
          <6> QED
            BY <6>1, <6>2
        <5>8. Kept(n, a.m, pd, R, c)
          <6>1. ASSUME NEW x \in Frames \ R PROVE a.m.mem[x] = n.mem[x]
            <7>1. x \notin k.m.free
              BY <4>3, <4>4 DEF Holds
            <7> QED
              BY <4>14, <5>1, <7>1 DEF Kept
          <6>2. ASSUME NEW u \in Vpns, u < c, pd.pte[u].pa # 0 PROVE a.m.mem[pd.pte[u].pa] = n.mem[pd.pte[u].pa]
            <7>1. r.pd.pte[u] = pd.pte[u]
              BY <3>1, <6>2 DEF Extends
            <7>2. k.m.mem[pd.pte[u].pa] = n.mem[pd.pte[u].pa]
              BY <4>14, <6>2 DEF Kept
            <7> QED
              BY <4>13, <5>1, <6>2, <7>1, <7>2
          <6> QED
            BY <6>1, <6>2 DEF Kept
        <5>9. g = [m |-> g.m, pd |-> g.pd, sz |-> g.sz]
          BY <5>3, <5>5
        <5>10. Growing(n, pd, R, c, v, newsz, g)
          BY <2>2, <4>1, <5>1, <5>5, <5>6, <5>7, <5>8, <5>9 DEF Growing
        <5> QED
          BY <5>4, <5>10
      <4>16. CASE ~a.ok
        <5>1. a.m = k.m /\ a.pd = r.pd
          BY <4>9, <4>16 DEF Entered
        <5>2. PICK b : b = BackOut(a, oldsz, newsz)
          OBVIOUS
        <5>3. GrowTurn(r, v, oldsz, newsz) = [b EXCEPT !.m = Kfree(b.m, {k.page})]
          <6>1. (CHOOSE y \in {WithoutPage(z, k.page) : z \in {b}} : TRUE) = WithoutPage(b, k.page)
            BY SMTT(60)
          <6> QED
            BY <3>3, <4>10, <4>16, <5>2, <6>1 DEF GrowEnd, Let, WithoutPage
        <5>4. Shrunk(k.m, r.pd, Q, c, PageUp(newsz), b) /\ b = [m |-> b.m, pd |-> b.pd, sz |-> 0]
          <6>1. Holds(a.m, a.pd, Q)
            BY <4>3, <5>1
          <6>2. Shrunk(a.m, a.pd, Q, PageUp(oldsz), PageUp(newsz), b) /\ b = [m |-> b.m, pd |-> b.pd, sz |-> 0]
            BY <2>1, <5>2, <6>1, <1>3
          <6> QED
            BY <5>1, <6>2
        <5>5. Kept(n, b.m, pd, R, c) /\ Extends(pd, b.pd, c, c)
          <6>1. c \in Int /\ PageUp(newsz) \in Int
            BY <2>1, SMTT(60)
          <6> QED
            BY <3>6, <4>3, <4>4, <4>14, <5>4, <6>1, <1>2
        <5>6. PICK y : y = Kfree(b.m, {k.page})
          OBVIOUS
        <5>7. Holds(b.m, b.pd, Q) /\ b.m.panic = k.m.panic /\ b.pd.dir = r.pd.dir
          BY <5>4 DEF Shrunk
        <5>8. Given(b.m, {k.page}, y)
          <6>1. b.m \in Mems /\ {k.page} \subseteq Frames
            BY <4>1, <5>7 DEF Holds
          <6> QED
            BY <5>6, <6>1, KfreeGives
        <5>9. Holds(y, b.pd, R)
          BY <4>1, <4>4, <5>7, <5>8, GiveBack
        <5>10. PICK g : g = [b EXCEPT !.m = y]
          OBVIOUS
        <5>11. g.m = y /\ g.pd = b.pd /\ g.sz = 0 /\ g = [m |-> g.m, pd |-> g.pd, sz |-> g.sz]
          BY <5>4, <5>10, SMTT(60)
        <5>12. Kept(n, y, pd, R, c)
          <6>1. \A x \in Frames : x # k.page => y.mem[x] = b.m.mem[x]
            BY <5>8 DEF Given
          <6>2. ASSUME NEW x \in Frames \ R PROVE y.mem[x] = n.mem[x]
            BY <4>3, <5>5, <6>1 DEF Kept
          <6>3. ASSUME NEW u \in Vpns, u < c, pd.pte[u].pa # 0 PROVE y.mem[pd.pte[u].pa] = n.mem[pd.pte[u].pa]
            <7>1. r.pd.pte[u] = pd.pte[u]
              BY <3>1, <6>3 DEF Extends
            <7>2. pd.pte[u].pa \in Frames /\ pd.pte[u].pa # k.page
              BY <4>1, <4>11, <4>12, <6>3, <7>1
            <7>3. b.m.mem[pd.pte[u].pa] = n.mem[pd.pte[u].pa]
              BY <5>5, <6>3 DEF Kept
            <7> QED
              BY <6>1, <7>2, <7>3
          <6> QED
            BY <6>2, <6>3 DEF Kept
        <5>13. y.panic = n.panic
          BY <2>2, <4>1, <5>7, <5>8 DEF Given
        <5>14. Growing(n, pd, R, c, v, newsz, g)
          BY <2>2, <5>5, <5>7, <5>9, <5>11, <5>12, <5>13 DEF Growing
        <5> QED
          BY <5>3, <5>6, <5>10, <5>14
      <4> QED
        BY <4>15, <4>16
    <3> QED
      BY <3>7, <3>8
  <2> QED
    BY <2>3, <2>4
<1>5. ASSUME NEW n, NEW pd, NEW R, Holds(n, pd, R), NEW oldsz \in Nat, NEW newsz \in Nat,
             Extends(pd, pd, PageUp(oldsz), PageUp(oldsz)),
             NEW a, a = Allocuvm(n, pd, oldsz, newsz)
      PROVE  Grown(n, pd, R, oldsz, newsz, a)
  <2> USE <1>5
  <2>1. PICK c : c = PageUp(oldsz)
    OBVIOUS
  <2>2. c \in Nat /\ PageUp(newsz) \in Nat /\ KERNBASE \in Nat
    BY <2>1, PageUpBelow, UserPart
  <2>3. Kept(n, n, pd, R, c)
    BY DEF Kept
  <2>4. CASE newsz >= KERNBASE
    <3>1. a.m = n /\ a.pd = pd /\ a.sz = 0 /\ a = [m |-> a.m, pd |-> a.pd, sz |-> a.sz]
      <4>1. a = [m |-> n, pd |-> pd, sz |-> 0]
        BY <2>4 DEF Allocuvm
      <4> QED
        BY <4>1, SMTT(60)
    <3> QED
      BY <2>1, <2>3, <3>1 DEF Grown
  <2>5. CASE ~(newsz >= KERNBASE) /\ newsz < oldsz
    <3>1. a.m = n /\ a.pd = pd /\ a.sz = oldsz /\ a = [m |-> a.m, pd |-> a.pd, sz |-> a.sz]
      <4>1. a = [m |-> n, pd |-> pd, sz |-> oldsz]
        BY <2>5 DEF Allocuvm
      <4> QED
        BY <4>1, SMTT(60)
    <3> QED
      BY <2>1, <2>3, <2>5, <3>1 DEF Grown
  <2>6. CASE ~(newsz >= KERNBASE) /\ ~(newsz < oldsz)
    <3>1. newsz < KERNBASE /\ oldsz <= newsz
      BY <2>2, <2>6, SMTT(60)
    <3>2. PICK g : GrowRun(g, n, pd, oldsz, newsz) /\ a = g[PageUp(newsz) - 1]
      BY <3>1, <1>1
    <3>3. /\ g[c - 1] = [m |-> n, pd |-> pd, sz |-> newsz]
          /\ \A v \in c .. PageUp(newsz) - 1 : g[v] = GrowTurn(g[v - 1], v, oldsz, newsz)
      BY <2>1, <3>2 DEF GrowRun
    <3> DEFINE Good(j) == Growing(n, pd, R, c, c + j - 1, newsz, g[c + j - 1])
               Bad == {j \in Nat : c + j <= PageUp(newsz) /\ ~Good(j)}
    <3>4. Good(0)
      <4>1. c + 0 - 1 = c - 1 /\ c - 1 + 1 = c
        BY <2>2, SMTT(60)
      <4>2. PICK r : r = g[c - 1]
        OBVIOUS
      <4>3. r = [m |-> n, pd |-> pd, sz |-> newsz]
        BY <3>3, <4>2
      <4>4. r.m = n /\ r.pd = pd /\ r.sz = newsz
        BY <4>3, SMTT(60)
      <4>5. r = [m |-> r.m, pd |-> r.pd, sz |-> r.sz]
        BY <4>3, <4>4
      <4>6. \A u \in Vpns : ~(c <= u /\ u <= c - 1)
        BY <2>2, VpnFacts, SMTT(60)
      <4>7. Growing(n, pd, R, c, c - 1, newsz, r)
        BY <2>1, <2>3, <4>1, <4>4, <4>5, <4>6 DEF Growing
      <4> QED
        BY <4>1, <4>2, <4>7
    <3>5. ASSUME Bad # {} PROVE FALSE
      <4>1. PICK j \in Bad : \A y \in Bad : j <= y
        BY <3>5, LeastNat
      <4>2. CASE j = 0
        BY <3>4, <4>1, <4>2
      <4>3. CASE j # 0
        <5>1. PICK v \in Int : v = c + j - 1
          BY <2>2, <4>1, SMTT(60)
        <5>2. /\ j - 1 \in Nat /\ ~(j <= j - 1) /\ c + (j - 1) <= PageUp(newsz) /\ c + (j - 1) - 1 = v - 1
              /\ v \in c .. PageUp(newsz) - 1
          BY <2>2, <4>1, <4>3, <5>1, SMTT(60)
        <5>3. Good(j - 1)
          BY <4>1, <5>2, SMTT(60)
        <5>4. PICK r : r = g[v - 1]
          OBVIOUS
        <5>5. Growing(n, pd, R, c, v - 1, newsz, r)
          BY <5>2, <5>3, <5>4, SMTT(60)
        <5>6. Growing(n, pd, R, c, v, newsz, GrowTurn(r, v, oldsz, newsz))
          BY <2>1, <3>1, <5>2, <5>5, <1>4
        <5>7. g[v] = GrowTurn(r, v, oldsz, newsz)
          BY <3>3, <5>2, <5>4
        <5>8. Growing(n, pd, R, c, v, newsz, g[v])
          BY <5>6, <5>7
        <5>9. Good(j)
          BY <5>1, <5>8
        <5> QED
          BY <4>1, <5>9, SMTT(60)
      <4> QED
        BY <4>2, <4>3, SMTT(60)
    <3>6. c <= PageUp(newsz)
      BY <2>1, <3>1, PageUpOrder, SMTT(60)
    <3>7. PICK j \in Nat : c + j = PageUp(newsz)
      BY <2>2, <3>6, SMTT(60)
    <3>8. c + j <= PageUp(newsz) /\ c + j - 1 = PageUp(newsz) - 1
      BY <2>2, <3>7, SMTT(60)
    <3>9. Good(j)
      BY <3>5, <3>8
    <3>10. Growing(n, pd, R, c, PageUp(newsz) - 1, newsz, a)
      BY <3>2, <3>8, <3>9, SMTT(60)
    <3>11. PageUp(newsz) - 1 + 1 = PageUp(newsz) /\ \A u \in Vpns : u < PageUp(newsz) => u <= PageUp(newsz) - 1
      BY <2>2, VpnFacts, SMTT(60)
    <3>12. /\ Holds(a.m, a.pd, R) /\ a.m.panic = n.panic /\ a.pd.dir = pd.dir
           /\ Kept(n, a.m, pd, R, c) /\ a = [m |-> a.m, pd |-> a.pd, sz |-> a.sz]
      BY <3>10 DEF Growing
    <3>13. CASE a.sz = 0 /\ Extends(pd, a.pd, c, c)
      BY <2>1, <3>12, <3>13 DEF Grown
    <3>14. CASE ~(a.sz = 0 /\ Extends(pd, a.pd, c, c))
      <4>1. /\ a.sz = newsz /\ Extends(pd, a.pd, c, PageUp(newsz))
            /\ \A u \in Vpns : c <= u /\ u <= PageUp(newsz) - 1 =>
                  a.pd.pte[u].pa # 0 /\ a.m.mem[a.pd.pte[u].pa] = "zero"
        BY <3>10, <3>11, <3>14 DEF Growing
      <4>2. \A u \in Vpns : c <= u /\ u < PageUp(newsz) =>
                  a.pd.pte[u].pa # 0 /\ a.m.mem[a.pd.pte[u].pa] = "zero"
        BY <3>11, <4>1
      <4> QED
        BY <2>1, <3>1, <3>12, <4>1, <4>2 DEF Grown
    <3> QED
      BY <3>13, <3>14
  <2> QED
    BY <2>4, <2>5, <2>6
<1> QED
  BY <1>5

\* The pages that pd has are those below the size sz.
Spans(pd, sz) == \A v \in Vpns : pd.pte[v].pa # 0 <=> v < PageUp(sz)

\* allocuvm keeps to the size it returns, or to the old one when that is 0.
SpansTo(a, oldsz, newsz) ==
    /\ a.sz \in Nat
    /\ \/ a.sz = 0 /\ Spans(a.pd, oldsz)
       \/ newsz < oldsz /\ a.sz = oldsz /\ Spans(a.pd, oldsz)
       \/ newsz < KERNBASE /\ oldsz <= newsz /\ a.sz = newsz /\ Spans(a.pd, newsz)

\* After allocuvm the pages that are mapped are those below the size it returns,
\* or those below the old size when it fails.
LEMMA GrownSpans ==
    ASSUME NEW n, NEW pd, NEW R, NEW oldsz \in Nat, NEW newsz \in Nat, NEW a,
           Grown(n, pd, R, oldsz, newsz, a), Spans(pd, oldsz)
    PROVE  SpansTo(a, oldsz, newsz)
<1>1. PICK c : c = PageUp(oldsz)
  OBVIOUS
<1>2. c \in Nat /\ PageUp(newsz) \in Nat
  BY <1>1, PageUpBelow
<1>3. \A v \in Vpns : pd.pte[v].pa # 0 <=> v < c
  BY <1>1 DEF Spans
<1>4. CASE a.sz = 0 /\ Extends(pd, a.pd, c, c)
  <2>1. \A v \in Vpns : (v < c => a.pd.pte[v] = pd.pte[v]) /\ (c <= v => a.pd.pte[v].pa = 0)
    BY <1>4 DEF Extends
  <2>2. \A v \in Vpns : v < c <=> ~(c <= v)
    BY <1>2, VpnFacts, SMTT(60)
  <2>3. Spans(a.pd, oldsz)
    BY <1>1, <1>3, <2>1, <2>2 DEF Spans
  <2>4. a.sz \in Nat
    BY <1>4, SMTT(60)
  <2> QED
    BY <1>4, <2>3, <2>4 DEF SpansTo
<1>5. CASE newsz < oldsz /\ a.sz = oldsz /\ a.pd = pd
  BY <1>5 DEF SpansTo
<1>6. CASE /\ oldsz <= newsz /\ newsz < KERNBASE /\ a.sz = newsz
           /\ Extends(pd, a.pd, c, PageUp(newsz))
           /\ \A u \in Vpns : c <= u /\ u < PageUp(newsz) => a.pd.pte[u].pa # 0
  <2>1. PICK d : d = PageUp(newsz)
    OBVIOUS
  <2>2. \A v \in Vpns : (v < c => a.pd.pte[v] = pd.pte[v]) /\ (c <= v /\ d <= v => a.pd.pte[v].pa = 0)
    BY <1>6, <2>1 DEF Extends
  <2>3. c <= d
    BY <1>1, <1>6, <2>1, PageUpOrder, SMTT(60)
  <2>4. \A v \in Vpns : (v < c <=> ~(c <= v)) /\ (v < d <=> ~(d <= v)) /\ (d <= v => c <= v)
    BY <1>2, <2>1, <2>3, VpnFacts, SMTT(60)
  <2>5. \A v \in Vpns : a.pd.pte[v].pa # 0 <=> v < d
    BY <1>3, <1>6, <2>1, <2>2, <2>4
  <2>6. Spans(a.pd, newsz)
    BY <2>1, <2>5 DEF Spans
  <2> QED
    BY <1>6, <2>6 DEF SpansTo
<1> QED
  BY <1>1, <1>4, <1>5, <1>6 DEF Grown

-----------------------------------------------------------------------------
(* setupkvm *)

\* c calls of kalloc will find a page.
Plenty(n, c) == c <= n.left /\ c <= Cardinality(n.free)

\* A call of kalloc that finds a page leaves one call less.
LEMMA PlentyLess ==
    ASSUME Counting, NEW n \in Mems, NEW k, Cleared(n, k) \/ Taken(n, k), NEW c \in Nat, Plenty(n, c + 1)
    PROVE  k.page # 0 /\ Plenty(k.m, c)
<1>1. n.left \in Nat /\ n.free \subseteq Frames
  BY MemFields
<1>3. Cardinality(n.free) \in Nat /\ Cardinality({}) = 0
  BY <1>1, PagesCounted
<1>4. n.left # 0 /\ n.free # {}
  <2>1. c + 1 <= n.left /\ c + 1 <= Cardinality(n.free)
    BY DEF Plenty
  <2>2. n.left # 0 /\ Cardinality(n.free) # 0
    BY <1>1, <1>3, <2>1, SMTT(60)
  <2> QED
    BY <1>3, <2>2
<1>5. k.page # 0 /\ k.page \in n.free /\ k.m.free = n.free \ {k.page} /\ k.m.left = n.left - 1
  BY <1>4 DEF Cleared, Taken
<1>6. Cardinality(k.m.free) = Cardinality(n.free) - 1
  <2>1. Cardinality(n.free \ {k.page}) = Cardinality(n.free) - 1
    BY <1>1, <1>5, PagesCounted
  <2> QED
    BY <1>5, <2>1
<1>7. c + 1 <= n.left /\ c + 1 <= Cardinality(n.free)
  BY DEF Plenty
<1>8. c <= k.m.left /\ c <= Cardinality(k.m.free)
  BY <1>1, <1>3, <1>5, <1>6, <1>7, SMTT(60)
<1> QED
  BY <1>5, <1>8 DEF Plenty

\* The kernel's part of a page table has i tables, or there is no page table.
Setting(n, R, i, r) ==
    /\ r = [m |-> r.m, pd |-> r.pd] /\ r.m.panic = n.panic
    /\ \A x \in Frames \ R : r.m.mem[x] = n.mem[x]
    /\ \/ r.pd = NoPgdir /\ r.m \in Mems /\ r.m.free = R
       \/ r.pd.dir # 0 /\ Holds(r.m, r.pd, R) /\ \A v \in Vpns : r.pd.pte[v] = NoPte
    /\ \A c \in Nat : Plenty(n, c + 1 + i) => r.pd.dir # 0 /\ Plenty(r.m, c)

\* NoPgdir has no pages.
LEMMA NoPgdirFacts ==
    /\ NoPgdir.dir = 0 /\ NoPgdir.ktab = {} /\ (\A v \in Vpns : NoPgdir.pte[v] = NoPte)
    /\ (\A t \in Tables : NoPgdir.tab[t] = 0) /\ NoPgdir \in Pgdirs /\ Held(NoPgdir) = {}
<1>1. /\ NoPgdir.dir = 0 /\ NoPgdir.ktab = {} /\ NoPgdir.tab = [t \in Tables |-> 0]
      /\ NoPgdir.pte = [v \in Vpns |-> NoPte]
  BY SMTT(60) DEF NoPgdir
<1>2. (\A v \in Vpns : NoPgdir.pte[v] = NoPte) /\ (\A t \in Tables : NoPgdir.tab[t] = 0)
  BY <1>1
<1>3. NoPgdir \in Pgdirs
  <2>1. NoPte \in Ptes
    BY NoPteFacts
  <2>2. [t \in Tables |-> 0] \in [Tables -> Frames \cup {0}] /\ [v \in Vpns |-> NoPte] \in [Vpns -> Ptes]
    BY <2>1, SMTT(60)
  <2>3. 0 \in Frames \cup {0} /\ {} \in SUBSET Frames
    BY SMTT(60)
  <2> QED
    BY <2>2, <2>3 DEF NoPgdir, Pgdirs
<1>4. Held(NoPgdir) = {}
  <2>1. ASSUME NEW a \in Held(NoPgdir) PROVE FALSE
    <3>1. /\ a # 0
          /\ \/ \E v \in Vpns : NoPgdir.pte[v].pa = a
             \/ \E t \in Tables : NoPgdir.tab[t] = a
             \/ a \in NoPgdir.ktab \/ a = NoPgdir.dir
      BY <2>1, InHeld
    <3>2. \A v \in Vpns : NoPgdir.pte[v].pa = 0
      BY <1>2, NoPteFacts
    <3>3. NoPgdir.dir = 0 /\ NoPgdir.ktab = {}
      BY <1>1
    <3> QED
      BY <1>2, <3>1, <3>2, <3>3, SMTT(60)
  <2> QED
    BY <2>1, SMTT(60)
<1> QED
  BY <1>1, <1>2, <1>3, <1>4

\* setupkvm: a page table with no pages of the user, or everything as it was.
LEMMA SetupkvmSets ==
    ASSUME Counting
    PROVE  \A n \in Mems :
               Setting(n, n.free, KTABS, Setupkvm(n))
<1> DEFINE DirOnly(k) == [m |-> k.m, pd |-> [NoPgdir EXCEPT !.dir = k.page]]
<1> DEFINE MapStart(n) == Let(Kzalloc(n), LAMBDA k : DirOnly(k))
\* g gives the result of each turn.
<1> DEFINE MapRun(g, n) == g[0] = MapStart(n) /\ \A i \in 1 .. KTABS : g[i] = MapTurn(g[i - 1])
<1> DEFINE WithDir(k) == [NoPgdir EXCEPT !.dir = k]
<1> DEFINE WithKtab(pd, k) == [pd EXCEPT !.ktab = @ \cup {k}]
<1> HIDE DEF DirOnly, MapStart, MapRun, WithDir, WithKtab
\* setupkvm is the result of its last turn.
<1>1. ASSUME NEW n PROVE \E g : MapRun(g, n) /\ Setupkvm(n) = g[KTABS]
  <2> DEFINE w == <<"map", 0, 0>>
             Same(g) == g = [i \in 0 .. KTABS |-> IF i = 0 THEN MapStart(n)
                               ELSE Let(g[i - 1], LAMBDA r : MapTurn(r))]
             map == CHOOSE g : Same(g)
  <2>1. KTABS \in Nat /\ 0 \in Int /\ KTABS \in Int /\ 0 <= KTABS
    BY AddressAssumption, SMTT(60)
  <2>2. \A i, r : Turn(w, i, r) = MapTurn(r)
    BY SMTT(60) DEF Turn
  <2>3. \E g : Same(g)
    <3>1. PICK g : g = [i \in 0 .. KTABS |-> IF i = 0 THEN MapStart(n) ELSE Let(g[i - 1], LAMBDA r : Turn(w, i, r))]
      <4>1. LoopTo(w, MapStart(n), 0, KTABS)
        BY <2>1, LoopExists
      <4> QED
        BY <4>1 DEF LoopTo
    <3>2. ASSUME NEW i \in 0 .. KTABS
          PROVE  g[i] = IF i = 0 THEN MapStart(n) ELSE Let(g[i - 1], LAMBDA r : MapTurn(r))
      <4>1. PICK x : x = g[i - 1]
        OBVIOUS
      <4>2. g[i] = IF i = 0 THEN MapStart(n) ELSE CHOOSE y \in {Turn(w, i, z) : z \in {x}} : TRUE
        BY <3>1, <4>1 DEF Let
      <4>3. (CHOOSE y \in {Turn(w, i, z) : z \in {x}} : TRUE) = Turn(w, i, x)
        BY SMTT(60)
      <4>4. (CHOOSE y \in {MapTurn(z) : z \in {x}} : TRUE) = MapTurn(x)
        BY SMTT(60)
      <4>5. g[i] = IF i = 0 THEN MapStart(n) ELSE CHOOSE y \in {MapTurn(z) : z \in {x}} : TRUE
        BY <2>2, <4>2, <4>3, <4>4
      <4> QED
        BY <4>1, <4>5 DEF Let
    <3>3. g = [i \in 0 .. KTABS |-> g[i]]
      BY <3>1
    <3>4. Same(g)
      BY <3>2, <3>3
    <3> QED
      BY <3>4
  <2>4. Same(map)
    BY <2>3
  <2>5. Setupkvm(n) = map[KTABS]
    BY DEF Setupkvm, MapStart, DirOnly, MapTurn, MapEnd
  <2> HIDE DEF map
  <2>6. MapRun(map, n)
    <3>1. map[0] = MapStart(n)
      BY <2>1, <2>4, SMTT(60)
    <3>2. ASSUME NEW i \in 1 .. KTABS PROVE map[i] = MapTurn(map[i - 1])
      <4>1. i \in 0 .. KTABS /\ i # 0
        BY <2>1, <3>2, SMTT(60)
      <4>2. map[i] = Let(map[i - 1], LAMBDA r : MapTurn(r))
        BY <2>4, <4>1
      <4>3. Let(map[i - 1], LAMBDA r : MapTurn(r)) = MapTurn(map[i - 1])
        <5>1. PICK x : x = map[i - 1]
          OBVIOUS
        <5>2. (CHOOSE y \in {MapTurn(z) : z \in {x}} : TRUE) = MapTurn(x)
          BY SMTT(60)
        <5> QED
          BY <5>1, <5>2 DEF Let
      <4> QED
        BY <4>2, <4>3
    <3> QED
      BY <3>1, <3>2 DEF MapRun
  <2> QED
    BY <2>5, <2>6
\* A page of nobody becomes a directory.
<1>2. ASSUME NEW n \in Mems, NEW k \in Frames, k \notin n.free
      PROVE  /\ Holds(n, WithDir(k), n.free \cup {k})
             /\ WithDir(k).dir = k /\ \A v \in Vpns : WithDir(k).pte[v] = NoPte
  <2> USE <1>2
  <2> DEFINE q == WithDir(k)
  <2> HIDE DEF q
  <2>1. k # 0
    BY FrameFacts
  <2>2. /\ q \in Pgdirs /\ q.dir = k /\ q.ktab = NoPgdir.ktab /\ q.tab = NoPgdir.tab /\ q.pte = NoPgdir.pte
    <3>1. NoPgdir \in Pgdirs
      BY NoPgdirFacts
    <3>2. k \in Frames \cup {0}
      BY SMTT(60)
    <3> QED
      BY <3>1, <3>2 DEF WithDir, Pgdirs, q
  <2>3. /\ q.ktab = {} /\ \A v \in Vpns : q.pte[v] = NoPte
        /\ \A t \in Tables : q.tab[t] = 0
    BY <2>2, NoPgdirFacts
  <2>4. \A v \in Vpns : q.pte[v].pa = 0
    BY <2>3, NoPteFacts
  <2>5. PtePages(q) = {}
    BY <2>4, SMTT(60) DEF PtePages
  <2>6. TablePages(q) = {k}
    BY <2>1, <2>2, <2>3, SMTT(60) DEF TablePages
  <2>7. Held(q) = {k}
    BY <2>5, <2>6, SMTT(60) DEF Held
  <2>8. 0 \notin TablePages(q)
    BY <2>1, <2>6, SMTT(60)
  <2>9. Distinct(q)
    BY <2>3, <2>4, <2>8, SMTT(60) DEF Distinct
  <2>10. n.free \cap Held(q) = {} /\ n.free \cup Held(q) = n.free \cup {k}
    BY <2>7, SMTT(60)
  <2> QED
    BY <2>2, <2>3, <2>9, <2>10 DEF Holds, q
\* A page of nobody becomes a table of the kernel's part.
<1>3. ASSUME NEW n, NEW pd, NEW R, Holds(n, pd, R), NEW k \in Frames, k \notin R
      PROVE  Holds(n, WithKtab(pd, k), R \cup {k}) /\ WithKtab(pd, k).dir = pd.dir /\ WithKtab(pd, k).pte = pd.pte
  <2> USE <1>3
  <2> DEFINE q == WithKtab(pd, k)
  <2> HIDE DEF q
  <2>1. k # 0
    BY FrameFacts
  <2>2. pd \in Pgdirs /\ n \in Mems /\ Distinct(pd) /\ n.free \cap Held(pd) = {} /\ n.free \cup Held(pd) = R
    BY DEF Holds
  <2>3. PICK K : K = pd.ktab \cup {k}
    OBVIOUS
  <2>4. K \in SUBSET Frames
    BY <2>2, <2>3, PdFields, SMTT(60)
  <2>5. /\ q \in Pgdirs /\ q.dir = pd.dir /\ q.ktab = K /\ q.tab = pd.tab /\ q.pte = pd.pte
    BY <2>2, <2>3, <2>4 DEF WithKtab, Pgdirs, q
  <2>6. PtePages(q) = PtePages(pd)
    BY <2>5, SMTT(60) DEF PtePages
  <2>7. TablePages(q) = TablePages(pd) \cup {k}
    BY <2>1, <2>3, <2>5, SMTT(60) DEF TablePages
  <2>8. Held(q) = Held(pd) \cup {k}
    BY <2>6, <2>7 DEF Held
  <2>9. \A a : a \in Held(pd) => a # k
    BY <2>2
  <2>10. Distinct(q)
    <3>1. /\ \A u, v \in Vpns : q.pte[u].pa # 0 /\ q.pte[u].pa = q.pte[v].pa => u = v
          /\ \A s, t \in Tables : q.tab[s] # 0 /\ q.tab[s] = q.tab[t] => s = t
          /\ \A v \in Vpns : q.pte[v].pa # 0 => q.tab[v \div NPT] # 0
      BY <2>2, <2>5, SMTT(60) DEF Distinct
    <3>2. ASSUME NEW v \in Vpns PROVE q.pte[v].pa \notin TablePages(q)
      <4>1. q.pte[v].pa = pd.pte[v].pa /\ pd.pte[v].pa \notin TablePages(pd)
        BY <2>2, <2>5 DEF Distinct
      <4>2. pd.pte[v].pa # k
        BY <2>1, <2>9, InHeld
      <4> QED
        BY <2>7, <4>1, <4>2
    <3>3. ASSUME NEW t \in Tables, q.tab[t] # 0 PROVE q.tab[t] \notin q.ktab /\ q.tab[t] # q.dir
      <4>1. pd.tab[t] # k
        BY <2>1, <2>9, InHeld
      <4>2. q.tab[t] = pd.tab[t] /\ pd.tab[t] \notin pd.ktab /\ pd.tab[t] # pd.dir
        BY <2>2, <2>5, <3>3, SMTT(60) DEF Distinct
      <4> QED
        BY <2>3, <2>5, <4>1, <4>2, SMTT(60)
    <3>4. q.dir \notin q.ktab
      <4>1. pd.dir # k
        BY <2>1, <2>9, InHeld
      <4>2. pd.dir \notin pd.ktab
        BY <2>2 DEF Distinct
      <4> QED
        BY <2>3, <2>5, <4>1, <4>2, SMTT(60)
    <3> QED
      BY <3>1, <3>2, <3>3, <3>4 DEF Distinct
  <2>11. n.free \cap Held(q) = {} /\ n.free \cup Held(q) = R \cup {k}
    BY <2>2, <2>8, SMTT(60)
  <2> QED
    BY <2>2, <2>5, <2>10, <2>11 DEF Holds, q
\* The directory alone.
<1>4. ASSUME NEW n \in Mems PROVE Setting(n, n.free, 0, MapStart(n))
  <2>1. PICK k : k = Kzalloc(n)
    OBVIOUS
  <2>2. PICK r : r = DirOnly(k)
    OBVIOUS
  <2>3. MapStart(n) = r
    <3>1. (CHOOSE y \in {DirOnly(z) : z \in {k}} : TRUE) = DirOnly(k)
      BY SMTT(60)
    <3> QED
      BY <2>1, <2>2, <3>1 DEF MapStart, Let
  <2>4. r.m = k.m /\ r.pd = WithDir(k.page) /\ r = [m |-> r.m, pd |-> r.pd]
    BY <2>2, SMTT(60) DEF DirOnly, WithDir
  <2>5. Cleared(n, k)
    BY <2>1, KzallocClears
  <2>6. ASSUME NEW c \in Nat, Plenty(n, c + 1 + 0) PROVE k.page # 0 /\ Plenty(k.m, c)
    <3>1. c + 1 + 0 = c + 1
      BY SMTT(60)
    <3>2. Plenty(n, c + 1)
      BY <2>6, <3>1, SMTT(60)
    <3> QED
      BY <2>5, <3>2, PlentyLess
  <2>7. CASE k.page = 0
    <3>1. k.m = n
      BY <2>5, <2>7, FrameFacts DEF Cleared
    <3>2. r.pd = NoPgdir
      <4>1. WithDir(0) = NoPgdir
        <5>1. PICK T, P : T = [t \in Tables |-> 0] /\ P = [v \in Vpns |-> NoPte]
          OBVIOUS
        <5>2. NoPgdir = [dir |-> 0, ktab |-> {}, tab |-> T, pte |-> P]
          BY <5>1 DEF NoPgdir
        <5>3. [[dir |-> 0, ktab |-> {}, tab |-> T, pte |-> P] EXCEPT !.dir = 0] = [dir |-> 0, ktab |-> {}, tab |-> T, pte |-> P]
          BY SMTT(60)
        <5> QED
          BY <5>2, <5>3 DEF WithDir
      <4> QED
        BY <2>4, <2>7, <4>1
    <3> QED
      BY <2>3, <2>4, <2>6, <2>7, <3>1, <3>2 DEF Setting
  <2>8. CASE k.page # 0
    <3>1. /\ k.m \in Mems /\ k.m.panic = n.panic
          /\ k.page \in n.free /\ k.page \in Frames /\ k.m.free = n.free \ {k.page}
          /\ \A a \in Frames : a # k.page => k.m.mem[a] = n.mem[a]
      BY <2>5, <2>8 DEF Cleared
    <3>2. k.page \notin k.m.free /\ k.m.free \cup {k.page} = n.free
      BY <3>1, SMTT(60)
    <3>3. Holds(k.m, r.pd, n.free) /\ r.pd.dir = k.page /\ \A v \in Vpns : r.pd.pte[v] = NoPte
      <4>1. PICK p, x : p = k.page /\ x = k.m
        OBVIOUS
      <4>2. x \in Mems /\ p \in Frames /\ p \notin x.free
        BY <3>1, <3>2, <4>1
      <4>3. Holds(x, WithDir(p), x.free \cup {p}) /\ WithDir(p).dir = p /\ \A v \in Vpns : WithDir(p).pte[v] = NoPte
        BY <4>2, <1>2
      <4> QED
        BY <2>4, <3>2, <4>1, <4>3
    <3>4. \A x \in Frames \ n.free : r.m.mem[x] = n.mem[x]
      BY <2>4, <3>1
    <3>5. \A c \in Nat : Plenty(n, c + 1 + 0) => r.pd.dir # 0 /\ Plenty(r.m, c)
      BY <2>4, <2>6, <3>3
    <3>6. r.pd.dir # 0 /\ Holds(r.m, r.pd, n.free) /\ r.m.panic = n.panic
      BY <2>4, <2>8, <3>1, <3>3
    <3> QED
      BY <2>3, <2>4, <3>3, <3>4, <3>5, <3>6 DEF Setting
  <2> QED
    BY <2>7, <2>8
\* One more table.
<1>5. ASSUME NEW n, NEW R, NEW i \in Nat \ {0}, NEW r, Setting(n, R, i - 1, r)
      PROVE  Setting(n, R, i, MapTurn(r))
  <2> USE <1>5
  <2>1. /\ r = [m |-> r.m, pd |-> r.pd] /\ r.m.panic = n.panic
        /\ \A x \in Frames \ R : r.m.mem[x] = n.mem[x]
        /\ \A c \in Nat : Plenty(n, c + 1 + (i - 1)) => r.pd.dir # 0 /\ Plenty(r.m, c)
    BY DEF Setting
  <2>2. ASSUME NEW c \in Nat, Plenty(n, c + 1 + i) PROVE r.pd.dir # 0 /\ Plenty(r.m, c + 1)
    <3>1. c + 1 \in Nat /\ c + 1 + 1 + (i - 1) = c + 1 + i
      BY SMTT(60)
    <3>2. Plenty(n, c + 1 + 1 + (i - 1))
      BY <2>2, <3>1, SMTT(60)
    <3> QED
      BY <2>1, <3>1, <3>2
  <2>3. CASE r.pd.dir = 0
    <3>1. MapTurn(r) = r
      BY <2>3 DEF MapTurn
    <3>2. r.pd = NoPgdir /\ r.m \in Mems /\ r.m.free = R
      BY <2>3 DEF Setting
    <3>3. \A c \in Nat : ~Plenty(n, c + 1 + i)
      BY <2>2, <2>3
    <3> QED
      BY <2>1, <3>1, <3>2, <3>3 DEF Setting
  <2>4. CASE r.pd.dir # 0
    <3>1. Holds(r.m, r.pd, R) /\ \A v \in Vpns : r.pd.pte[v] = NoPte
      BY <2>4, NoPgdirFacts DEF Setting
    <3>2. r.m \in Mems /\ r.pd \in Pgdirs
      BY <3>1 DEF Holds
    <3>3. PICK k : k = Kzalloc(r.m)
      OBVIOUS
    <3>4. Cleared(r.m, k)
      BY <3>2, <3>3, KzallocClears
    <3>5. PICK e : e = MapEnd(k, r)
      OBVIOUS
    <3>6. MapTurn(r) = e
      <4>1. (CHOOSE y \in {MapEnd(z, r) : z \in {k}} : TRUE) = MapEnd(k, r)
        BY SMTT(60)
      <4> QED
        BY <2>4, <3>3, <3>5, <4>1 DEF MapTurn, Let
    <3>7. ASSUME NEW c \in Nat, Plenty(n, c + 1 + i) PROVE k.page # 0 /\ Plenty(k.m, c)
      BY <2>2, <3>2, <3>4, <3>7, PlentyLess
    <3>8. CASE k.page = 0
      <4>1. k.m = r.m
        BY <3>4, <3>8, FrameFacts DEF Cleared
      <4>2. PICK f : f = Freevm(r.m, r.pd)
        OBVIOUS
      <4>3. e = [m |-> f, pd |-> NoPgdir]
        BY <3>5, <3>8, <4>1, <4>2 DEF MapEnd
      <4>4. e.m = f /\ e.pd = NoPgdir /\ e = [m |-> e.m, pd |-> e.pd]
        BY <4>3, SMTT(60)
      <4>5. AllFree(r.m, R, f)
        BY <2>4, <3>1, <4>2, FreevmFrees
      <4>6. f \in Mems /\ f.panic = n.panic /\ f.free = R /\ \A x \in Frames \ R : f.mem[x] = n.mem[x]
        BY <2>1, <4>5 DEF AllFree
      <4>7. \A c \in Nat : ~Plenty(n, c + 1 + i)
        BY <3>7, <3>8
      <4> QED
        BY <3>6, <4>4, <4>6, <4>7 DEF Setting
    <3>9. CASE k.page # 0
      <4>1. /\ k.m \in Mems /\ k.m.panic = r.m.panic
            /\ k.page \in r.m.free /\ k.page \in Frames /\ k.page # 0 /\ k.m.free = r.m.free \ {k.page}
            /\ \A x \in Frames : x # k.page => k.m.mem[x] = r.m.mem[x]
        BY <3>4, <3>9 DEF Cleared
      <4>2. PICK Q : Q = R \ {k.page}
        OBVIOUS
      <4>3. Holds(k.m, r.pd, Q) /\ k.page \in R
        BY <3>1, <4>1, <4>2, TakeFree
      <4>4. Q \cup {k.page} = R /\ k.page \notin Q
        BY <4>2, <4>3, SMTT(60)
      <4>5. PICK q : q = WithKtab(r.pd, k.page)
        OBVIOUS
      <4>6. e.m = k.m /\ e.pd = q /\ e = [m |-> e.m, pd |-> e.pd]
        <5>1. e = [m |-> k.m, pd |-> q]
          BY <3>5, <3>9, <4>5 DEF MapEnd, WithKtab
        <5> QED
          BY <5>1, SMTT(60)
      <4>7. Holds(k.m, q, R) /\ q.dir = r.pd.dir /\ q.pte = r.pd.pte
        <5>1. Holds(k.m, q, Q \cup {k.page}) /\ q.dir = r.pd.dir /\ q.pte = r.pd.pte
          <6>1. PICK p, x : p = k.page /\ x = k.m
            OBVIOUS
          <6>2. p \in Frames /\ p \notin Q /\ Holds(x, r.pd, Q)
            BY <4>1, <4>3, <4>4, <6>1
          <6>3. Holds(x, WithKtab(r.pd, p), Q \cup {p}) /\ WithKtab(r.pd, p).dir = r.pd.dir /\ WithKtab(r.pd, p).pte = r.pd.pte
            BY <6>2, <1>3
          <6> QED
            BY <4>5, <6>1, <6>3
        <5> QED
          BY <4>4, <5>1
      <4>8. \A x \in Frames \ R : e.m.mem[x] = n.mem[x]
        BY <2>1, <4>1, <4>3, <4>6
      <4>9. e.pd.dir # 0 /\ Holds(e.m, e.pd, R) /\ e.m.panic = n.panic /\ \A v \in Vpns : e.pd.pte[v] = NoPte
        BY <2>1, <2>4, <3>1, <4>1, <4>6, <4>7
      <4>10. \A c \in Nat : Plenty(n, c + 1 + i) => e.pd.dir # 0 /\ Plenty(e.m, c)
        BY <3>7, <4>6, <4>9
      <4> QED
        BY <3>6, <4>6, <4>8, <4>9, <4>10 DEF Setting
    <3> QED
      BY <3>8, <3>9
  <2> QED
    BY <2>3, <2>4
<1>6. ASSUME NEW n \in Mems PROVE Setting(n, n.free, KTABS, Setupkvm(n))
  <2>1. PICK g : MapRun(g, n) /\ Setupkvm(n) = g[KTABS]
    BY <1>1
  <2>2. g[0] = MapStart(n) /\ \A i \in 1 .. KTABS : g[i] = MapTurn(g[i - 1])
    BY <2>1 DEF MapRun
  <2> DEFINE Good(i) == Setting(n, n.free, i, g[i])
             Bad == {i \in Nat : i <= KTABS /\ ~Good(i)}
  <2>3. KTABS \in Nat /\ KTABS <= KTABS
    BY AddressAssumption, SMTT(60)
  <2>4. Good(0)
    BY <2>2, <1>4
  <2> HIDE DEF Good
  <2>5. ASSUME Bad # {} PROVE FALSE
    <3>1. PICK i \in Bad : \A y \in Bad : i <= y
      BY <2>5, LeastNat
    <3>2. i # 0
      BY <2>4, <3>1
    <3>3. i \in Nat \ {0} /\ i - 1 \in Nat /\ ~(i <= i - 1) /\ i - 1 <= KTABS /\ i \in 1 .. KTABS
      BY <2>3, <3>1, <3>2, SMTT(60)
    <3>4. Good(i - 1)
      BY <3>1, <3>3, SMTT(60)
    <3>5. PICK r : r = g[i - 1]
      OBVIOUS
    <3>6. Setting(n, n.free, i - 1, r)
      BY <3>4, <3>5 DEF Good
    <3>7. Setting(n, n.free, i, MapTurn(r))
      BY <3>3, <3>6, <1>5
    <3>8. Good(i)
      BY <2>2, <3>3, <3>5, <3>7 DEF Good
    <3> QED
      BY <3>1, <3>8
  <2>6. Good(KTABS)
    BY <2>3, <2>5
  <2> QED
    BY <2>1, <2>6 DEF Good
<1> QED
  BY <1>6

-----------------------------------------------------------------------------
(* copyuvm *)

\* A memory that differs from n in the contents of pages alone.
Written(n, n2) == n2 \in Mems /\ n2.free = n.free /\ n2.left = n.left /\ n2.panic = n.panic

\* Who has which page does not depend on what is in them.
LEMMA WrittenHolds ==
    ASSUME NEW n, NEW pd, NEW R, Holds(n, pd, R), NEW n2, Written(n, n2) PROVE Holds(n2, pd, R)
BY DEF Holds, Written

\* One page gets the contents x.
LEMMA WritePage ==
    ASSUME NEW n \in Mems, NEW a \in Frames, NEW x \in Fillings
    PROVE  /\ Written(n, [n EXCEPT !.mem[a] = x])
           /\ [n EXCEPT !.mem[a] = x].mem[a] = x
           /\ \A b \in Frames : b # a => [n EXCEPT !.mem[a] = x].mem[b] = n.mem[b]
<1>1. PICK f : f = [n.mem EXCEPT ![a] = x]
  OBVIOUS
<1>2. f \in [Frames -> Fillings] /\ f[a] = x /\ \A b \in Frames : b # a => f[b] = n.mem[b]
  BY <1>1, MemFields, SMTT(60)
<1>3. PICK n2 : n2 = [n EXCEPT !.mem = f]
  OBVIOUS
<1>4. n2 \in Mems /\ n2.free = n.free /\ n2.left = n.left /\ n2.panic = n.panic /\ n2.mem = f
  BY <1>2, <1>3 DEF Mems
<1>5. [n EXCEPT !.mem[a] = x] = n2
  BY <1>1, <1>3
<1> QED
  BY <1>2, <1>4, <1>5 DEF Written

\* The pages of pd up to v are copied to r.pd, or there is no copy.
Copying(n, pd, R, v, r) ==
    /\ r = [m |-> r.m, pd |-> r.pd] /\ r.m.panic = n.panic
    /\ \A x \in Frames \ R : r.m.mem[x] = n.mem[x]
    /\ \/ r.pd = NoPgdir /\ r.m \in Mems /\ r.m.free = R
       \/ /\ r.pd.dir # 0 /\ Holds(r.m, r.pd, R)
          /\ \A u \in Vpns : IF u <= v THEN r.pd.pte[u].pa # 0 /\ r.m.mem[r.pd.pte[u].pa] = n.mem[pd.pte[u].pa]
                             ELSE r.pd.pte[u].pa = 0

\* A process's page table pd, none of whose pages are in R.
Other(pd, R) == pd \in Pgdirs /\ Held(pd) \cap R = {}

\* copyuvm of all pages of a process: a copy of each, or everything as it was.
LEMMA CopyuvmCopies ==
    ASSUME Counting
    PROVE  \A n \in Mems : \A pd : \A sz \in Nat :
               /\ Other(pd, n.free)
               /\ sz < KERNBASE
               /\ Spans(pd, sz)
               => Copying(n, pd, n.free, PageUp(sz) - 1, Copyuvm(n, pd, sz))
\* g gives the result of each turn.
<1> DEFINE CopyRun(g, n, pd, sz) ==
               g[-1] = Setupkvm(n) /\ \A v \in 0 .. PageUp(sz) - 1 : g[v] = CopyTurn(g[v - 1], v, pd)
<1> HIDE DEF CopyRun
\* copyuvm is the result of its last turn.
<1>1. ASSUME NEW n, NEW pd, NEW sz \in Nat
      PROVE  \E g : CopyRun(g, n, pd, sz) /\ Copyuvm(n, pd, sz) = g[PageUp(sz) - 1]
  <2> DEFINE hi == PageUp(sz) - 1
             w == <<"copy", pd, 0>>
             Same(g) == g = [v \in -1 .. hi |-> IF v = -1 THEN Setupkvm(n)
                               ELSE Let(g[v - 1], LAMBDA r : CopyTurn(r, v, pd))]
             copy == CHOOSE g : Same(g)
  <2>1. PageUp(sz) \in Nat
    BY PageUpBelow
  <2>2. -1 \in Int /\ hi \in Int /\ -1 <= hi
    BY <2>1, SMTT(60)
  <2>3. \A v, r : Turn(w, v, r) = CopyTurn(r, v, pd)
    BY SMTT(60) DEF Turn
  <2>4. \E g : Same(g)
    <3>1. PICK g : g = [i \in -1 .. hi |-> IF i = -1 THEN Setupkvm(n) ELSE Let(g[i - 1], LAMBDA r : Turn(w, i, r))]
      <4>1. LoopTo(w, Setupkvm(n), -1, hi)
        BY <2>2, LoopExists
      <4> QED
        BY <4>1 DEF LoopTo
    <3>2. ASSUME NEW i \in -1 .. hi
          PROVE  g[i] = IF i = -1 THEN Setupkvm(n) ELSE Let(g[i - 1], LAMBDA r : CopyTurn(r, i, pd))
      <4>1. PICK x : x = g[i - 1]
        OBVIOUS
      <4>2. g[i] = IF i = -1 THEN Setupkvm(n) ELSE CHOOSE y \in {Turn(w, i, z) : z \in {x}} : TRUE
        BY <3>1, <4>1 DEF Let
      <4>3. (CHOOSE y \in {Turn(w, i, z) : z \in {x}} : TRUE) = Turn(w, i, x)
        BY SMTT(60)
      <4>4. (CHOOSE y \in {CopyTurn(z, i, pd) : z \in {x}} : TRUE) = CopyTurn(x, i, pd)
        BY SMTT(60)
      <4>5. g[i] = IF i = -1 THEN Setupkvm(n) ELSE CHOOSE y \in {CopyTurn(z, i, pd) : z \in {x}} : TRUE
        BY <2>3, <4>2, <4>3, <4>4
      <4> QED
        BY <4>1, <4>5 DEF Let
    <3>3. g = [i \in -1 .. hi |-> g[i]]
      BY <3>1
    <3>4. Same(g)
      BY <3>2, <3>3
    <3> QED
      BY <3>4
  <2>5. Same(copy)
    BY <2>4
  <2>6. Copyuvm(n, pd, sz) = copy[hi]
    BY DEF Copyuvm, CopyTurn, CopyMap, CopyEnd, NoCopy
  <2> HIDE DEF copy
  <2>7. CopyRun(copy, n, pd, sz)
    <3>1. copy[-1] = Setupkvm(n)
      BY <2>2, <2>5, SMTT(60)
    <3>2. ASSUME NEW v \in 0 .. PageUp(sz) - 1 PROVE copy[v] = CopyTurn(copy[v - 1], v, pd)
      <4>1. v \in -1 .. hi /\ v # -1
        BY <2>1, <3>2, SMTT(60)
      <4>2. copy[v] = Let(copy[v - 1], LAMBDA r : CopyTurn(r, v, pd))
        BY <2>5, <4>1
      <4>3. Let(copy[v - 1], LAMBDA r : CopyTurn(r, v, pd)) = CopyTurn(copy[v - 1], v, pd)
        <5>1. PICK x : x = copy[v - 1]
          OBVIOUS
        <5>2. (CHOOSE y \in {CopyTurn(z, v, pd) : z \in {x}} : TRUE) = CopyTurn(x, v, pd)
          BY SMTT(60)
        <5> QED
          BY <5>1, <5>2 DEF Let
      <4> QED
        BY <4>2, <4>3
    <3> QED
      BY <3>1, <3>2 DEF CopyRun
  <2> QED
    BY <2>6, <2>7
\* No copy: everything is free again.
<1>2. ASSUME NEW n, NEW pd, NEW R, NEW v, NEW r, Holds(r.m, r.pd, R), r.pd.dir # 0, r.m.panic = n.panic,
             \A x \in Frames \ R : r.m.mem[x] = n.mem[x]
      PROVE  Copying(n, pd, R, v, NoCopy(r))
  <2> USE <1>2
  <2>1. PICK f : f = Freevm(r.m, r.pd)
    OBVIOUS
  <2>2. PICK e : e = NoCopy(r)
    OBVIOUS
  <2>3. e.m = f /\ e.pd = NoPgdir /\ e = [m |-> e.m, pd |-> e.pd]
    BY <2>1, <2>2, SMTT(60) DEF NoCopy
  <2>4. AllFree(r.m, R, f)
    BY <2>1, FreevmFrees
  <2>5. f \in Mems /\ f.panic = n.panic /\ f.free = R /\ \A x \in Frames \ R : f.mem[x] = n.mem[x]
    BY <2>4 DEF AllFree
  <2> QED
    BY <2>2, <2>3, <2>5 DEF Copying
\* An entry with another page.
<1>3. ASSUME NEW e \in Ptes, NEW k \in Frames PROVE [e EXCEPT !.pa = k] \in Ptes /\ [e EXCEPT !.pa = k].pa = k
  BY FrameFacts, SMTT(60) DEF Ptes
\* A turn of copyuvm keeps that.
<1>4. ASSUME NEW n, NEW pd, NEW R, Other(pd, R), NEW v \in Vpns, pd.pte[v].pa # 0,
             NEW r, Copying(n, pd, R, v - 1, r)
      PROVE  Copying(n, pd, R, v, CopyTurn(r, v, pd))
  <2> USE <1>4
  <2>1. /\ r = [m |-> r.m, pd |-> r.pd] /\ r.m.panic = n.panic
        /\ \A x \in Frames \ R : r.m.mem[x] = n.mem[x]
    BY DEF Copying
  <2>2. CASE r.pd.dir = 0
    <3>1. CopyTurn(r, v, pd) = r
      BY <2>2 DEF CopyTurn
    <3>2. r.pd = NoPgdir /\ r.m \in Mems /\ r.m.free = R
      BY <2>2 DEF Copying
    <3> QED
      BY <2>1, <3>1, <3>2 DEF Copying
  <2>3. CASE r.pd.dir # 0
    <3>1. /\ Holds(r.m, r.pd, R)
          /\ \A u \in Vpns : IF u <= v - 1 THEN r.pd.pte[u].pa # 0 /\ r.m.mem[r.pd.pte[u].pa] = n.mem[pd.pte[u].pa]
                             ELSE r.pd.pte[u].pa = 0
      BY <2>3, NoPgdirFacts DEF Copying
    <3>2. r.m \in Mems /\ r.pd \in Pgdirs /\ r.m.free \cap Held(r.pd) = {}
      BY <3>1 DEF Holds
    <3>3. PICK s : s = pd.pte[v].pa
      OBVIOUS
    <3>4. s \in Frames \ R /\ pd.pte[v] \in Ptes
      <4>1. s \in Frames /\ pd.pte[v] \in Ptes /\ s # 0
        BY <3>3, PdFields DEF Other
      <4>2. s \in Held(pd)
        BY <3>3, <4>1, InHeld
      <4> QED
        BY <4>1, <4>2 DEF Other
    <3>5. PICK k : k = Kalloc(r.m)
      OBVIOUS
    <3>6. CopyTurn(r, v, pd) = CopyMap(k, r, v, pd)
      <4>1. (CHOOSE y \in {CopyMap(z, r, v, pd) : z \in {k}} : TRUE) = CopyMap(k, r, v, pd)
        BY SMTT(60)
      <4> QED
        BY <2>3, <3>5, <4>1 DEF CopyTurn, Let
    <3>7. Taken(r.m, k)
      BY <3>2, <3>5, KallocTakes
    <3>8. CASE k.page = 0
      <4>1. k.m = r.m
        BY <3>7, <3>8, FrameFacts DEF Taken
      <4>2. PICK x : x = [r EXCEPT !.m = k.m]
        OBVIOUS
      <4>3. x.m = r.m /\ x.pd = r.pd
        BY <2>1, <4>1, <4>2, SMTT(60)
      <4>4. CopyMap(k, r, v, pd) = NoCopy(x)
        BY <3>8, <4>2 DEF CopyMap
      <4>5. Holds(x.m, x.pd, R) /\ x.pd.dir # 0 /\ x.m.panic = n.panic /\ \A y \in Frames \ R : x.m.mem[y] = n.mem[y]
        BY <2>1, <2>3, <3>1, <4>3
      <4>6. Copying(n, pd, R, v, NoCopy(x))
        BY <4>5, <1>2
      <4> QED
        BY <3>6, <4>4, <4>6
    <3>9. CASE k.page # 0
      <4>1. PICK p : p = k.page
        OBVIOUS
      <4>2. /\ k.m \in Mems /\ k.m.panic = r.m.panic /\ k.m.mem = r.m.mem
            /\ p \in r.m.free /\ p \in Frames /\ p # 0 /\ k.m.free = r.m.free \ {p}
        BY <3>7, <3>9, <4>1 DEF Taken
      <4>3. PICK Q : Q = R \ {p}
        OBVIOUS
      <4>4. Holds(k.m, r.pd, Q) /\ p \in R
        BY <3>1, <4>2, <4>3, TakeFree
      <4>5. Q \cup {p} = R /\ Q \subseteq R /\ p \notin Q
        BY <4>3, <4>4, SMTT(60)
      <4>6. PICK c : c = Copied(k.m, p, s)
        OBVIOUS
      <4>7. /\ Written(k.m, c) /\ c.mem[p] = n.mem[s]
            /\ \A b \in Frames : b # p => c.mem[b] = r.m.mem[b]
        <5>1. PICK x : x = k.m.mem[s]
          OBVIOUS
        <5>2. x \in Fillings /\ x = n.mem[s]
          <6>1. k.m.mem \in [Frames -> Fillings]
            BY <4>2, MemFields
          <6> QED
            BY <2>1, <3>4, <4>2, <5>1, <6>1, SMTT(60)
        <5>3. c = [k.m EXCEPT !.mem[p] = x]
          BY <4>6, <5>1 DEF Copied
        <5>4. Written(k.m, c) /\ c.mem[p] = x /\ \A b \in Frames : b # p => c.mem[b] = k.m.mem[b]
          <6>1. PICK y : y = k.m
            OBVIOUS
          <6>2. y \in Mems /\ c = [y EXCEPT !.mem[p] = x]
            BY <4>2, <5>3, <6>1
          <6>3. /\ Written(y, [y EXCEPT !.mem[p] = x]) /\ [y EXCEPT !.mem[p] = x].mem[p] = x
                /\ \A b \in Frames : b # p => [y EXCEPT !.mem[p] = x].mem[b] = y.mem[b]
            BY <4>2, <5>2, <6>2, WritePage, SMTT(60)
          <6> QED
            BY <6>1, <6>2, <6>3
        <5> QED
          BY <4>2, <5>2, <5>4
      <4>8. Holds(c, r.pd, Q)
        BY <4>4, <4>7, WrittenHolds
      <4>9. c.panic = n.panic /\ c.free = k.m.free
        BY <2>1, <4>2, <4>7 DEF Written
      <4>10. PICK e : e = [pd.pte[v] EXCEPT !.pa = p]
        OBVIOUS
      <4>11. e \in Ptes /\ e.pa = p
        BY <3>4, <4>2, <4>10, <1>3
      <4>12. PICK a : a = Mappage(c, r.pd, v, e)
        OBVIOUS
      <4>13. r.pd.pte[v].pa = 0
        <5>1. ~(v <= v - 1)
          BY VpnFacts, SMTT(60)
        <5> QED
          BY <3>1, <5>1
      <4>14. Entered(c, r.pd, Q, v, e, a)
        BY <4>2, <4>5, <4>8, <4>11, <4>12, <4>13, MappageEnters
      <4>15. CopyMap(k, r, v, pd) = CopyEnd(a, p)
        <5>1. (CHOOSE y \in {CopyEnd(z, p) : z \in {a}} : TRUE) = CopyEnd(a, p)
          BY SMTT(60)
        <5> QED
          BY <3>3, <3>9, <4>1, <4>6, <4>10, <4>12, <5>1 DEF CopyMap, Let
      <4>16. CASE a.ok
        <5>1. /\ a.m.panic = c.panic /\ Holds(a.m, a.pd, R) /\ a.pd.dir = r.pd.dir
              /\ a.pd.pte = [r.pd.pte EXCEPT ![v] = e] /\ \A x \in Frames \ c.free : a.m.mem[x] = c.mem[x]
          BY <4>5, <4>11, <4>14, <4>16 DEF Entered
        <5>2. a.pd.pte[v] = e /\ \A u \in Vpns : u # v => a.pd.pte[u] = r.pd.pte[u]
          <6>1. r.pd.pte \in [Vpns -> Ptes]
            BY <3>2, PdFields
          <6> QED
            BY <5>1, <6>1, SMTT(60)
        <5>3. PICK g : g = [m |-> a.m, pd |-> a.pd]
          OBVIOUS
        <5>4. CopyTurn(r, v, pd) = g
          BY <3>6, <4>15, <4>16, <5>3 DEF CopyEnd
        <5>5. g.m = a.m /\ g.pd = a.pd /\ g = [m |-> g.m, pd |-> g.pd]
          BY <5>3, SMTT(60)
        <5>6. \A x \in Frames \ R : a.m.mem[x] = n.mem[x]
          <6>1. ASSUME NEW x \in Frames \ R PROVE a.m.mem[x] = n.mem[x]
            <7>1. x \notin c.free /\ x # p
              BY <4>4, <4>5, <4>8 DEF Holds
            <7>2. a.m.mem[x] = c.mem[x] /\ c.mem[x] = r.m.mem[x]
              BY <4>7, <5>1, <7>1
            <7> QED
              BY <2>1, <7>2
          <6> QED
            BY <6>1
        <5>7. ASSUME NEW u \in Vpns
              PROVE  IF u <= v THEN a.pd.pte[u].pa # 0 /\ a.m.mem[a.pd.pte[u].pa] = n.mem[pd.pte[u].pa]
                     ELSE a.pd.pte[u].pa = 0
          <6>1. CASE u = v
            <7>1. u <= v
              BY <6>1, VpnFacts, SMTT(60)
            <7>2. p \notin c.free
              BY <4>2, <4>9
            <7>3. a.pd.pte[u].pa = p /\ a.m.mem[p] = n.mem[s]
              BY <4>2, <4>7, <4>11, <5>1, <5>2, <6>1, <7>2
            <7> QED
              BY <3>3, <4>2, <6>1, <7>1, <7>3
          <6>2. CASE u # v
            <7>1. u <= v <=> u <= v - 1
              BY <6>2, VpnFacts, SMTT(60)
            <7>2. a.pd.pte[u] = r.pd.pte[u]
              BY <5>2, <6>2
            <7>3. CASE u <= v
              <8>1. PICK x : x = r.pd.pte[u].pa
                OBVIOUS
              <8>2. x # 0 /\ r.m.mem[x] = n.mem[pd.pte[u].pa]
                BY <3>1, <7>1, <7>3, <8>1
              <8>3. x \in Frames /\ x \in Held(r.pd)
                BY <3>2, <8>1, <8>2, PdFields, InHeld
              <8>4. x # p /\ x \notin c.free
                BY <3>2, <4>2, <4>9, <8>3
              <8>5. a.m.mem[x] = r.m.mem[x]
                BY <4>7, <5>1, <8>3, <8>4
              <8> QED
                BY <7>2, <7>3, <8>1, <8>2, <8>5
            <7>4. CASE ~(u <= v)
              BY <3>1, <7>1, <7>2, <7>4
            <7> QED
              BY <7>3, <7>4
          <6> QED
            BY <6>1, <6>2
        <5>8. g.pd.dir # 0 /\ Holds(g.m, g.pd, R) /\ g.m.panic = n.panic
          BY <2>3, <4>9, <5>1, <5>5
        <5>9. Copying(n, pd, R, v, g)
          BY <5>5, <5>6, <5>7, <5>8 DEF Copying
        <5> QED
          BY <5>4, <5>9
      <4>17. CASE ~a.ok
        <5>1. a.m = c /\ a.pd = r.pd
          BY <4>14, <4>17 DEF Entered
        <5>2. PICK f : f = Kfree(c, {p})
          OBVIOUS
        <5>3. Given(c, {p}, f)
          <6>1. c \in Mems /\ {p} \subseteq Frames
            BY <4>2, <4>7 DEF Written
          <6> QED
            BY <5>2, <6>1, KfreeGives
        <5>4. Holds(f, r.pd, R)
          BY <4>2, <4>5, <4>8, <5>3, GiveBack
        <5>5. PICK x : x = [m |-> f, pd |-> r.pd]
          OBVIOUS
        <5>6. x.m = f /\ x.pd = r.pd
          BY <5>5, SMTT(60)
        <5>7. CopyTurn(r, v, pd) = NoCopy(x)
          BY <3>6, <4>15, <4>17, <5>1, <5>2, <5>5 DEF CopyEnd
        <5>8. f.panic = n.panic /\ \A y \in Frames \ R : f.mem[y] = n.mem[y]
          <6>1. f.panic = c.panic /\ \A y \in Frames : y # p => f.mem[y] = c.mem[y]
            BY <5>3 DEF Given
          <6> QED
            BY <2>1, <4>4, <4>7, <4>9, <6>1
        <5>9. Holds(x.m, x.pd, R) /\ x.pd.dir # 0 /\ x.m.panic = n.panic /\ \A y \in Frames \ R : x.m.mem[y] = n.mem[y]
          BY <2>3, <5>4, <5>6, <5>8
        <5>10. Copying(n, pd, R, v, NoCopy(x))
          BY <5>9, <1>2
        <5> QED
          BY <5>7, <5>10
      <4> QED
        BY <4>16, <4>17
    <3> QED
      BY <3>8, <3>9
  <2> QED
    BY <2>2, <2>3
<1>5. ASSUME NEW n \in Mems, NEW pd, Other(pd, n.free), NEW sz \in Nat, sz < KERNBASE, Spans(pd, sz)
      PROVE  Copying(n, pd, n.free, PageUp(sz) - 1, Copyuvm(n, pd, sz))
  <2> USE <1>5
  <2>1. PICK g : CopyRun(g, n, pd, sz) /\ Copyuvm(n, pd, sz) = g[PageUp(sz) - 1]
    BY <1>1
  <2>2. g[-1] = Setupkvm(n) /\ \A v \in 0 .. PageUp(sz) - 1 : g[v] = CopyTurn(g[v - 1], v, pd)
    BY <2>1 DEF CopyRun
  <2>3. PICK c : c = PageUp(sz)
    OBVIOUS
  <2>4. c \in Nat /\ c <= UserPages /\ UserPages \in Nat
    <3>1. sz <= KERNBASE /\ sz <= sz /\ KERNBASE \in Nat
      BY UserPart, SMTT(60)
    <3> QED
      BY <2>3, <3>1, PageUpBelow, PageUpOrder, UserPart, SMTT(60)
  <2> DEFINE Good(i) == Copying(n, pd, n.free, i - 1, g[i - 1])
             Bad == {i \in Nat : i <= c /\ ~Good(i)}
  <2>5. Good(0)
    <3>1. PICK r : r = Setupkvm(n)
      OBVIOUS
    <3>2. Setting(n, n.free, KTABS, r)
      BY <3>1, SetupkvmSets
    <3>3. \A u \in Vpns : ~(u <= -1)
      BY VpnFacts, SMTT(60)
    <3>4. (\A v \in Vpns : r.pd.pte[v] = NoPte) => (\A v \in Vpns : r.pd.pte[v].pa = 0)
      BY NoPteFacts
    <3>5. Copying(n, pd, n.free, -1, r)
      BY <3>2, <3>3, <3>4 DEF Setting, Copying
    <3>6. 0 - 1 = -1
      BY SMTT(60)
    <3> QED
      BY <2>2, <3>1, <3>5, <3>6, SMTT(60)
  <2> HIDE DEF Good
  <2>6. ASSUME Bad # {} PROVE FALSE
    <3>1. PICK i \in Bad : \A y \in Bad : i <= y
      BY <2>6, LeastNat
    <3>2. i # 0
      BY <2>5, <3>1
    <3>3. i - 1 \in Nat /\ ~(i <= i - 1) /\ i - 1 <= c /\ i - 1 \in 0 .. c - 1 /\ i - 1 < c /\ i - 1 \in 0 .. UserPages - 1
      BY <2>4, <3>1, <3>2, SMTT(60)
    <3>4. PICK v : v = i - 1
      OBVIOUS
    <3>5. v \in Vpns /\ pd.pte[v].pa # 0
      <4>1. v \in Vpns
        BY <3>3, <3>4, VpnFacts
      <4> QED
        BY <2>3, <3>3, <3>4, <4>1 DEF Spans
    <3>6. Good(i - 1)
      BY <3>1, <3>3, SMTT(60)
    <3>7. PICK r : r = g[v - 1]
      OBVIOUS
    <3>8. Copying(n, pd, n.free, v - 1, r)
      BY <3>4, <3>6, <3>7 DEF Good
    <3>9. Copying(n, pd, n.free, v, CopyTurn(r, v, pd))
      BY <3>5, <3>8, <1>4
    <3>10. g[v] = CopyTurn(r, v, pd)
      BY <2>2, <2>3, <3>3, <3>4, <3>7
    <3>11. Good(i)
      BY <3>4, <3>9, <3>10 DEF Good
    <3> QED
      BY <3>1, <3>11
  <2>7. c <= c
    BY <2>4, SMTT(60)
  <2>8. Good(c)
    BY <2>4, <2>6, <2>7
  <2> QED
    BY <2>1, <2>3, <2>8 DEF Good
<1> QED
  BY <1>5

-----------------------------------------------------------------------------
(* exec *)

\* The pages V of pd are set to val.
Filled(n, pd, V, val, f) ==
    /\ Written(n, f)
    /\ \A a \in Frames : f.mem[a] = IF \E v \in V : pd.pte[v].pa = a THEN val ELSE n.mem[a]

\* A write to pages changes those and no others.
LEMMA FillFills ==
    ASSUME NEW n \in Mems, NEW pd, NEW V, NEW val \in Fillings PROVE Filled(n, pd, V, val, Fill(n, pd, V, val))
<1>1. n.mem \in [Frames -> Fillings]
  BY MemFields
<1>2. PICK f : f = [a \in DOMAIN n.mem |-> IF \E v \in V : pd.pte[v].pa = a THEN val ELSE n.mem[a]]
  OBVIOUS
<1>3. DOMAIN n.mem = Frames
  BY <1>1, SMTT(60)
<1>4. \A a \in Frames : f[a] = IF \E v \in V : pd.pte[v].pa = a THEN val ELSE n.mem[a]
  BY <1>2, <1>3
<1>5. f = [a \in Frames |-> f[a]]
  BY <1>2, <1>3
<1>6. \A a \in Frames : f[a] \in Fillings
  BY <1>1, <1>4, SMTT(60)
<1>7. f \in [Frames -> Fillings]
  BY <1>5, <1>6
<1>8. PICK g : g = [n EXCEPT !.mem = f]
  OBVIOUS
<1>9. g \in Mems /\ g.free = n.free /\ g.left = n.left /\ g.panic = n.panic /\ g.mem = f
  BY <1>7, <1>8 DEF Mems
<1>10. Fill(n, pd, V, val) = g
  BY <1>2, <1>8 DEF Fill
<1> QED
  BY <1>4, <1>9, <1>10 DEF Filled, Written

\* Setting pages of pd leaves all others as they are.
FillKept(n, pd, R, V, val, f) ==
    /\ Holds(f, pd, R) /\ f.panic = n.panic
    /\ \A x \in Frames \ R : f.mem[x] = n.mem[x]
    /\ \A u \in Vpns : pd.pte[u].pa # 0 =>
          f.mem[pd.pte[u].pa] = IF u \in V THEN val ELSE n.mem[pd.pte[u].pa]

\* Setting pages of a page table changes nothing outside of it.
LEMMA FilledKeeps ==
    ASSUME NEW n, NEW pd, NEW R, Holds(n, pd, R), NEW V, V \subseteq Vpns, NEW val, NEW f, Filled(n, pd, V, val, f)
    PROVE  FillKept(n, pd, R, V, val, f)
<1>1. /\ Written(n, f)
      /\ \A a \in Frames : f.mem[a] = IF \E v \in V : pd.pte[v].pa = a THEN val ELSE n.mem[a]
  BY DEF Filled
<1>2. Holds(f, pd, R) /\ f.panic = n.panic
  BY <1>1, WrittenHolds DEF Written
<1>3. pd \in Pgdirs /\ Held(pd) \subseteq R /\ \A u, v \in Vpns : pd.pte[u].pa # 0 /\ pd.pte[u].pa = pd.pte[v].pa => u = v
  BY DEF Holds, Distinct
<1>4. ASSUME NEW x \in Frames \ R PROVE f.mem[x] = n.mem[x]
  <2>1. x # 0
    BY FrameFacts
  <2>2. \A v \in V : pd.pte[v].pa # x
    BY <1>3, <2>1, InHeld
  <2> QED
    BY <1>1, <2>2
<1>5. ASSUME NEW u \in Vpns, pd.pte[u].pa # 0
      PROVE  f.mem[pd.pte[u].pa] = IF u \in V THEN val ELSE n.mem[pd.pte[u].pa]
  <2>1. PICK a : a = pd.pte[u].pa
    OBVIOUS
  <2>2. a \in Frames
    BY <1>3, <1>5, <2>1, PdFields
  <2>3. (\E v \in V : pd.pte[v].pa = a) <=> u \in V
    BY <1>3, <1>5, <2>1
  <2> QED
    BY <1>1, <2>1, <2>2, <2>3
<1> QED
  BY <1>2, <1>4, <1>5 DEF FillKept

\* The pages of addresses below top.
LEMMA PagesBelow ==
    \A va \in Nat : \A len \in Int : \A top \in Nat :
        /\ va + len <= top
        /\ top <= KERNBASE
        => \A v \in PagesOf(va, len) : v \in Vpns /\ v < PageUp(top)
\* The page of an address below b.
<1>1. ASSUME NEW a \in Nat, NEW b \in Nat, a < b
      PROVE  a \div PGSIZE \in Nat /\ a \div PGSIZE < PageUp(b)
  <2> USE <1>1
  <2>0. PGSIZE \in Nat \ {0}
    BY UserPart, SMTT(60)
  <2>1. PICK q \in Int : q = a \div PGSIZE /\ q * PGSIZE <= a /\ a < q * PGSIZE + PGSIZE
    BY <2>0, Division, SMTT(60)
  <2>2. q * PGSIZE < b
    BY <2>0, <2>1, SMTT(60)
  <2>3. q < PageUp(b)
    BY <2>2, PageUpBelow, SMTT(60)
  <2>4. ~(q < 0)
    <3>1. SUFFICES ASSUME q < 0 PROVE FALSE
      BY SMTT(60)
    <3>2. q * PGSIZE + PGSIZE <= 0 * PGSIZE
      BY <2>0, <3>1, TimesLess, SMTT(60)
    <3> QED
      BY <2>0, <2>1, <3>2, SMTT(60)
  <2> QED
    BY <2>1, <2>3, <2>4, SMTT(60)
<1>2. ASSUME NEW va \in Nat, NEW len \in Int, NEW top \in Nat, va + len <= top, top <= KERNBASE
      PROVE  \A v \in PagesOf(va, len) : v \in Vpns /\ v < PageUp(top)
  <2> USE <1>2
  <2>1. SUFFICES ASSUME NEW v \in PagesOf(va, len) PROVE v \in Vpns /\ v < PageUp(top)
    OBVIOUS
  <2>2. PICK a \in va .. va + len - 1 : v = a \div PGSIZE
    BY <2>1, SMTT(60) DEF PagesOf
  <2>3. a \in Nat /\ a < top
    BY <2>2, SMTT(60)
  <2>4. v \in Nat /\ v < PageUp(top)
    BY <2>2, <2>3, <1>1
  <2>5. PageUp(top) \in Nat /\ PageUp(top) <= UserPages /\ UserPages \in Nat
    <3>1. top <= top
      BY SMTT(60)
    <3> QED
      BY <3>1, PageUpBelow, PageUpOrder, UserPart, SMTT(60)
  <2>6. v \in 0 .. UserPages - 1
    BY <2>4, <2>5, SMTT(60)
  <2> QED
    BY <2>4, <2>6, VpnFacts
<1> QED
  BY <1>2

\* The addresses of a segment.
LEMMA SegFields ==
    ASSUME NEW prog \in Programs, NEW i \in 1 .. Len(prog.segs), NEW seg, seg = prog.segs[i]
    PROVE  /\ seg.vaddr \in 0 .. Wrap - 1 /\ seg.memsz \in 0 .. Wrap - 1
           /\ seg.filesz \in 0 .. Wrap - 1 /\ seg.avail \in Nat
<1>1. PICK T : T = [vaddr : 0 .. Wrap - 1, memsz : 0 .. Wrap - 1, filesz : 0 .. Wrap - 1, avail : Nat]
  OBVIOUS
<1>2. prog.segs \in Seq(T)
  BY <1>1, VmAssumption
<1>3. seg \in T
  BY <1>2, SMTT(60)
<1> QED
  BY <1>1, <1>3

\* The pages that the segments of prog up to i have in the file, and what each
\* page of the program then holds.
InFile(prog, i, u) == \E j \in 1 .. i : u \in PagesOf(prog.segs[j].vaddr, prog.segs[j].filesz)
Contents(prog, i, u) == IF InFile(prog, i, u) THEN prog.tag ELSE "zero"

\* The end of the segments of prog up to i is sz.
Tops(prog, i, sz) ==
    /\ \A j \in 1 .. i : /\ prog.segs[j].filesz <= prog.segs[j].memsz
                         /\ prog.segs[j].vaddr + prog.segs[j].memsz <= sz
    /\ (i = 0 /\ sz = 0) \/ \E j \in 1 .. i : sz = prog.segs[j].vaddr + prog.segs[j].memsz

\* The segments up to i are there.
HasSegs(n, pd, sz, prog, i) ==
    /\ sz \in Nat /\ sz < KERNBASE /\ Spans(pd, sz) /\ Tops(prog, i, sz)
    /\ \A u \in Vpns : u < PageUp(sz) => n.mem[pd.pte[u].pa] = Contents(prog, i, u)

\* The result r of the segments up to i.
Loading(n, R, prog, i, r) ==
    /\ r = [m |-> r.m, pd |-> r.pd, sz |-> r.sz, ok |-> r.ok]
    /\ r.m.panic = n.panic /\ \A x \in Frames \ R : r.m.mem[x] = n.mem[x]
    /\ \/ r.pd = NoPgdir /\ ~r.ok /\ r.m \in Mems /\ r.m.free = R
       \/ r.pd.dir # 0 /\ Holds(r.m, r.pd, R)
    /\ r.ok => HasSegs(r.m, r.pd, r.sz, prog, i)

\* One more segment of the program.
LEMMA SegmentKeeps ==
    ASSUME Counting
    PROVE  \A n, R : \A prog \in Programs : \A i \in 1 .. Len(prog.segs) : \A r, seg :
               /\ Loading(n, R, prog, i - 1, r)
               /\ seg = prog.segs[i]
               => Loading(n, R, prog, i, Segment(r, prog, seg))
<1> DEFINE LoadsInto(n, pd, addr, sz, val, l) ==
               /\ l = [m |-> l.m, ok |-> l.ok]
               /\ \E V : V \subseteq Vpns /\ Filled(n, pd, V, val, l.m) /\ (l.ok => V = PagesOf(addr, sz))
<1> DEFINE SegEnd(seg) == (seg.vaddr + seg.memsz) % Wrap
<1> DEFINE SegDone(l, a) == [m |-> l.m, pd |-> a.pd, sz |-> a.sz, ok |-> l.ok]
<1> DEFINE SegLoad(a, prog, seg) ==
               IF a.sz = 0 \/ seg.vaddr % PGSIZE # 0 THEN [m |-> a.m, pd |-> a.pd, sz |-> a.sz, ok |-> FALSE]
               ELSE Let(Loaduvm(a.m, a.pd, seg.vaddr, seg.filesz, seg.avail, prog.tag), LAMBDA l : SegDone(l, a))
<1> HIDE DEF LoadsInto, SegEnd, SegDone, SegLoad
\* loaduvm into pages that are there: as far as the file goes.
<1>1. ASSUME NEW n, NEW pd, NEW R, Holds(n, pd, R), NEW addr \in Nat, NEW sz \in Nat, NEW top \in Nat,
             addr + sz <= top, top <= KERNBASE, Spans(pd, top), NEW avail, NEW val \in Fillings,
             NEW l, l = Loaduvm(n, pd, addr, sz, avail, val)
      PROVE  LoadsInto(n, pd, addr, sz, val, l)
  <2> USE <1>1
  <2>1. PICK all : all = PagesOf(addr, sz)
    OBVIOUS
  <2>2. PICK V : V = {v \in all : \A a \in addr .. addr + sz - 1 : a \div PGSIZE <= v => a < addr + avail}
    OBVIOUS
  <2>3. \A v \in all : v \in Vpns /\ v < PageUp(top)
    BY <2>1, PagesBelow, SMTT(60)
  <2>4. \A v \in all : pd.tab[v \div NPT] # 0
    BY <2>3 DEF Spans, Holds, Distinct
  <2>5. PICK f : f = Fill(n, pd, V, val)
    OBVIOUS
  <2>6. l = [m |-> f, ok |-> V = all]
    BY <2>1, <2>2, <2>4, <2>5 DEF Loaduvm
  <2>7. l.m = f /\ l = [m |-> l.m, ok |-> l.ok]
    BY <2>6, SMTT(60)
  <2>8. l.ok = (V = all)
    BY <2>6, SMTT(60)
  <2>9. l.ok => V = all
    BY <2>8
  <2>10. V \subseteq Vpns
    BY <2>2, <2>3
  <2>11. n \in Mems
    BY DEF Holds
  <2>12. Filled(n, pd, V, val, l.m)
    BY <2>5, <2>7, <2>11, FillFills
  <2> QED
    BY <2>1, <2>7, <2>9, <2>10, <2>12 DEF LoadsInto
\* Sums of addresses wrap round once.
<1>2. ASSUME NEW W \in Nat \ {0}, NEW a \in 0 .. W - 1, NEW b \in 0 .. W - 1, ~((a + b) % W < a)
      PROVE  (a + b) % W = a + b
  BY <1>2, SMTT(60)
\* A segment more.
<1>3. ASSUME NEW prog \in Programs, NEW i \in 1 .. Len(prog.segs), NEW sz \in Nat, Tops(prog, i - 1, sz),
             prog.segs[i].filesz <= prog.segs[i].memsz, NEW end, end = prog.segs[i].vaddr + prog.segs[i].memsz,
             NEW new \in Nat, (end < sz /\ new = sz) \/ (sz <= end /\ new = end)
      PROVE  Tops(prog, i, new)
  <2> USE <1>3
  <2>1. \A j \in 1 .. i : j \in 1 .. i - 1 \/ j = i
    BY SMTT(60)
  <2>2. \A j \in 1 .. i - 1 : j \in 1 .. i
    BY SMTT(60)
  <2>3. i \in 1 .. i /\ i # 0
    BY SMTT(60)
  <2>4. \A j \in 1 .. i : prog.segs[j].vaddr \in Nat /\ prog.segs[j].memsz \in Nat
    <3>1. ASSUME NEW j \in 1 .. i PROVE prog.segs[j].vaddr \in Nat /\ prog.segs[j].memsz \in Nat
      <4>1. PICK seg : seg = prog.segs[j]
        OBVIOUS
      <4>2. j \in 1 .. Len(prog.segs)
        BY <3>1, SMTT(60)
      <4>3. seg.vaddr \in 0 .. Wrap - 1 /\ seg.memsz \in 0 .. Wrap - 1
        BY <4>1, <4>2, SegFields
      <4>4. seg.vaddr \in Nat /\ seg.memsz \in Nat
        BY <4>3, SMTT(60)
      <4> QED
        BY <4>1, <4>4
    <3> QED
      BY <3>1
  <2>5. ASSUME NEW j \in 1 .. i
        PROVE  prog.segs[j].filesz <= prog.segs[j].memsz /\ prog.segs[j].vaddr + prog.segs[j].memsz <= new
    <3>1. end \in Nat
      BY <2>3, <2>4, SMTT(60)
    <3>2. CASE j = i
      BY <3>1, <3>2, SMTT(60)
    <3>3. CASE j \in 1 .. i - 1
      <4>1. prog.segs[j].filesz <= prog.segs[j].memsz /\ prog.segs[j].vaddr + prog.segs[j].memsz <= sz
        BY <3>3 DEF Tops
      <4>2. prog.segs[j].vaddr + prog.segs[j].memsz <= new
        BY <2>4, <2>5, <3>1, <4>1, SMTT(60)
      <4> QED
        BY <4>1, <4>2
    <3> QED
      BY <2>1, <3>2, <3>3
  <2>6. CASE new = end
    BY <2>3, <2>5, <2>6 DEF Tops
  <2>7. CASE end < sz /\ new = sz
    <3>1. sz # 0
      BY <2>3, <2>4, <2>7, SMTT(60)
    <3>2. PICK j \in 1 .. i - 1 : sz = prog.segs[j].vaddr + prog.segs[j].memsz
      BY <3>1 DEF Tops
    <3> QED
      BY <2>2, <2>5, <2>7, <3>2 DEF Tops
  <2> QED
    BY <2>6, <2>7
\* What one more segment sets.
<1>4. ASSUME NEW prog, NEW i \in Nat \ {0}, NEW u, NEW V, V = PagesOf(prog.segs[i].vaddr, prog.segs[i].filesz)
      PROVE  /\ u \in V => Contents(prog, i, u) = prog.tag
             /\ u \notin V => Contents(prog, i, u) = Contents(prog, i - 1, u)
  <2> USE <1>4
  <2>1. \A j : j \in 1 .. i <=> j \in 1 .. i - 1 \/ j = i
    BY SMTT(60)
  <2>2. InFile(prog, i, u) <=> InFile(prog, i - 1, u) \/ u \in V
    BY <2>1 DEF InFile
  <2> QED
    BY <2>2 DEF Contents
\* Above the end of the segments there is nothing of the file.
<1>5. ASSUME NEW prog \in Programs, NEW i \in Nat, i <= Len(prog.segs), NEW sz \in Nat, sz < KERNBASE,
             Tops(prog, i, sz), NEW u \in Vpns, PageUp(sz) <= u
      PROVE  Contents(prog, i, u) = "zero"
  <2> USE <1>5
  <2>1. ASSUME InFile(prog, i, u) PROVE FALSE
    <3>1. PICK j \in 1 .. i : u \in PagesOf(prog.segs[j].vaddr, prog.segs[j].filesz)
      BY <2>1 DEF InFile
    <3>2. PICK seg : seg = prog.segs[j]
      OBVIOUS
    <3>3. j \in 1 .. Len(prog.segs)
      BY <3>1, SMTT(60)
    <3>4. seg.vaddr \in 0 .. Wrap - 1 /\ seg.memsz \in 0 .. Wrap - 1 /\ seg.filesz \in 0 .. Wrap - 1
      BY <3>2, <3>3, SegFields
    <3>5. seg.filesz <= seg.memsz /\ seg.vaddr + seg.memsz <= sz
      BY <3>1, <3>2 DEF Tops
    <3>6. seg.vaddr \in Nat /\ seg.filesz \in Int /\ seg.vaddr + seg.filesz <= sz /\ sz <= KERNBASE
      BY <3>4, <3>5, UserPart, SMTT(60)
    <3>7. u < PageUp(sz)
      BY <3>1, <3>2, <3>6, PagesBelow
    <3>8. PageUp(sz) \in Nat
      BY PageUpBelow
    <3> QED
      BY <3>7, <3>8, VpnFacts, SMTT(60)
  <2> QED
    BY <2>1 DEF Contents
\* A segment that fails leaves the pages of the others.
<1>6. ASSUME NEW n, NEW R, NEW prog, NEW i, NEW r, r = [m |-> r.m, pd |-> r.pd, sz |-> r.sz, ok |-> FALSE],
             r.m.panic = n.panic, \A x \in Frames \ R : r.m.mem[x] = n.mem[x],
             (r.pd = NoPgdir /\ r.m \in Mems /\ r.m.free = R) \/ (r.pd.dir # 0 /\ Holds(r.m, r.pd, R))
      PROVE  Loading(n, R, prog, i, r)
  <2> USE <1>6
  <2>1. ~r.ok /\ r.ok = FALSE
    <3>1. r.ok = FALSE
      BY SMTT(60)
    <3> QED
      BY <3>1
  <2>2. r = [m |-> r.m, pd |-> r.pd, sz |-> r.sz, ok |-> r.ok]
    BY <2>1
  <2> QED
    BY <2>1, <2>2 DEF Loading
<1>7. ASSUME NEW n, NEW R, NEW prog \in Programs, NEW i \in 1 .. Len(prog.segs),
             NEW r, Loading(n, R, prog, i - 1, r), NEW seg, seg = prog.segs[i]
      PROVE  Loading(n, R, prog, i, Segment(r, prog, seg))
  <2> USE <1>7
  <2>1. /\ r = [m |-> r.m, pd |-> r.pd, sz |-> r.sz, ok |-> r.ok]
        /\ r.m.panic = n.panic /\ \A x \in Frames \ R : r.m.mem[x] = n.mem[x]
        /\ \/ r.pd = NoPgdir /\ ~r.ok /\ r.m \in Mems /\ r.m.free = R
           \/ r.pd.dir # 0 /\ Holds(r.m, r.pd, R)
    BY DEF Loading
  <2>2. PICK end : end = SegEnd(seg)
    OBVIOUS
  <2>3. CASE ~r.ok \/ seg.memsz < seg.filesz \/ end < seg.vaddr
    <3>1. PICK e : e = [r EXCEPT !.ok = FALSE]
      OBVIOUS
    <3>2. e = [m |-> e.m, pd |-> e.pd, sz |-> e.sz, ok |-> FALSE] /\ e.m = r.m /\ e.pd = r.pd
      <4>1. e = [m |-> r.m, pd |-> r.pd, sz |-> r.sz, ok |-> FALSE]
        BY <2>1, <3>1
      <4> QED
        BY <4>1, SMTT(60)
    <3>3. Segment(r, prog, seg) = e
      BY <2>2, <2>3, <3>1 DEF Segment, SegEnd
    <3>4. /\ e.m.panic = n.panic /\ \A x \in Frames \ R : e.m.mem[x] = n.mem[x]
          /\ (e.pd = NoPgdir /\ e.m \in Mems /\ e.m.free = R) \/ (e.pd.dir # 0 /\ Holds(e.m, e.pd, R))
      BY <2>1, <3>2
    <3>5. Loading(n, R, prog, i, e)
      BY <3>2, <3>4, <1>6
    <3> QED
      BY <3>3, <3>5
  <2>4. CASE r.ok /\ ~(seg.memsz < seg.filesz) /\ ~(end < seg.vaddr)
    <3>1. /\ seg.vaddr \in 0 .. Wrap - 1 /\ seg.memsz \in 0 .. Wrap - 1
          /\ seg.filesz \in 0 .. Wrap - 1 /\ seg.avail \in Nat
      BY SegFields
    <3>2. Wrap \in Nat \ {0} /\ KERNBASE \in Nat
      BY UserPart, SMTT(60) DEF Wrap
    <3>3. end = seg.vaddr + seg.memsz /\ end \in Nat /\ seg.vaddr \in Nat /\ seg.filesz \in Nat
          /\ seg.filesz <= seg.memsz /\ seg.vaddr + seg.filesz <= end
      <4>1. end = seg.vaddr + seg.memsz
        <5>1. PICK x, y, w : x = seg.vaddr /\ y = seg.memsz /\ w = Wrap
          OBVIOUS
        <5>2. w \in Nat \ {0} /\ x \in 0 .. w - 1 /\ y \in 0 .. w - 1
          BY <3>1, <3>2, <5>1
        <5>3. end = (x + y) % w /\ ~((x + y) % w < x)
          BY <2>2, <2>4, <5>1 DEF SegEnd
        <5>4. (x + y) % w = x + y
          BY <5>2, <5>3, <1>2
        <5> QED
          BY <5>1, <5>3, <5>4
      <4> QED
        BY <2>4, <3>1, <3>2, <4>1, SMTT(60)
    <3>4. /\ r.pd.dir # 0 /\ Holds(r.m, r.pd, R) /\ r.sz \in Nat /\ r.sz < KERNBASE /\ Spans(r.pd, r.sz)
          /\ Tops(prog, i - 1, r.sz)
          /\ \A u \in Vpns : u < PageUp(r.sz) => r.m.mem[r.pd.pte[u].pa] = Contents(prog, i - 1, u)
      BY <2>1, <2>4 DEF Loading, HasSegs
    <3>5. PICK c : c = PageUp(r.sz)
      OBVIOUS
    <3>6. c \in Nat /\ PageUp(end) \in Nat
      BY <3>3, <3>4, <3>5, PageUpBelow
    <3>7. \A u \in Vpns : (u < c <=> ~(c <= u)) /\ (r.pd.pte[u].pa # 0 <=> u < c)
      <4>1. \A u \in Vpns : u < c <=> ~(c <= u)
        BY <3>6, VpnFacts, SMTT(60)
      <4> QED
        BY <3>4, <3>5, <4>1 DEF Spans
    <3>8. Extends(r.pd, r.pd, c, c)
      BY <3>7 DEF Extends
    <3>9. PICK a : a = Allocuvm(r.m, r.pd, r.sz, end)
      OBVIOUS
    <3>10. Grown(r.m, r.pd, R, r.sz, end, a)
      BY <3>3, <3>4, <3>5, <3>8, <3>9, AllocuvmGrows
    <3>11. a.sz \in Nat /\ \/ a.sz = 0 /\ Spans(a.pd, r.sz)
                           \/ end < r.sz /\ a.sz = r.sz /\ Spans(a.pd, r.sz)
                           \/ end < KERNBASE /\ r.sz <= end /\ a.sz = end /\ Spans(a.pd, end)
      <4>1. SpansTo(a, r.sz, end)
        BY <3>3, <3>4, <3>10, GrownSpans
      <4> QED
        BY <4>1 DEF SpansTo
    <3>12. /\ Holds(a.m, a.pd, R) /\ a.m.panic = n.panic /\ a.pd.dir # 0
           /\ \A x \in Frames \ R : a.m.mem[x] = n.mem[x]
      BY <2>1, <3>4, <3>10 DEF Grown, Kept
    <3>13. Segment(r, prog, seg) = SegLoad(a, prog, seg)
      <4>1. (CHOOSE y \in {SegLoad(z, prog, seg) : z \in {a}} : TRUE) = SegLoad(a, prog, seg)
        BY SMTT(60)
      <4> QED
        BY <2>2, <2>4, <3>9, <4>1 DEF Segment, SegEnd, Let, SegLoad, SegDone
    <3>14. CASE a.sz = 0 \/ seg.vaddr % PGSIZE # 0
      <4>1. PICK e : e = [m |-> a.m, pd |-> a.pd, sz |-> a.sz, ok |-> FALSE]
        OBVIOUS
      <4>2. e = [m |-> e.m, pd |-> e.pd, sz |-> e.sz, ok |-> FALSE] /\ e.m = a.m /\ e.pd = a.pd
        BY <4>1, SMTT(60)
      <4>3. Segment(r, prog, seg) = e
        BY <3>13, <3>14, <4>1 DEF SegLoad
      <4>4. Loading(n, R, prog, i, e)
        BY <3>12, <4>2, <1>6
      <4> QED
        BY <4>3, <4>4
    <3>15. CASE ~(a.sz = 0 \/ seg.vaddr % PGSIZE # 0)
      <4>1. /\ a.sz \in Nat /\ a.sz < KERNBASE /\ Spans(a.pd, a.sz)
            /\ (end < r.sz /\ a.sz = r.sz) \/ (r.sz <= end /\ a.sz = end)
        BY <3>4, <3>11, <3>15
      <4>2. end <= a.sz /\ r.sz <= a.sz /\ a.sz <= KERNBASE
        <5>1. PICK x, y, z, w : x = end /\ y = r.sz /\ z = a.sz /\ w = KERNBASE
          OBVIOUS
        <5>2. x \in Nat /\ y \in Nat /\ z \in Nat /\ w \in Nat /\ z < w
          BY <3>2, <3>3, <3>4, <4>1, <5>1
        <5>3. (x < y /\ z = y) \/ (y <= x /\ z = x)
          BY <4>1, <5>1
        <5>4. x <= z /\ y <= z /\ z <= w
          BY <5>2, <5>3, SMTT(30)
        <5> QED
          BY <5>1, <5>4
      <4>3. Tops(prog, i, a.sz)
        BY <3>3, <3>4, <4>1, <1>3
      <4>4. ASSUME NEW u \in Vpns, u < PageUp(a.sz) PROVE a.m.mem[a.pd.pte[u].pa] = Contents(prog, i - 1, u)
        <5>1. CASE u < c
          <6>1. r.pd.pte[u].pa # 0
            BY <3>7, <5>1
          <6>2. Kept(r.m, a.m, r.pd, R, c) /\ a.pd.pte[u] = r.pd.pte[u]
            <7>1. Kept(r.m, a.m, r.pd, R, c)
              BY <3>5, <3>10 DEF Grown
            <7>2. CASE a.pd = r.pd
              BY <7>1, <7>2
            <7>3. CASE ~(a.pd = r.pd)
              BY <3>5, <3>10, <5>1, <7>1, <7>3 DEF Grown, Extends
            <7> QED
              BY <7>2, <7>3
          <6>3. a.m.mem[r.pd.pte[u].pa] = r.m.mem[r.pd.pte[u].pa]
            BY <5>1, <6>1, <6>2 DEF Kept
          <6> QED
            BY <3>4, <3>5, <5>1, <6>2, <6>3
        <5>2. CASE ~(u < c)
          <6>1. c <= u
            BY <3>7, <5>2
          <6>2. ~(a.sz = r.sz) /\ a.sz # 0 /\ a.pd # r.pd
            <7>1. a.sz # 0 /\ ~(a.sz = r.sz)
              BY <3>5, <3>15, <4>4, <5>2
            <7>2. a.pd.pte[u].pa # 0 /\ ~(r.pd.pte[u].pa # 0)
              BY <3>7, <4>1, <4>4, <5>2 DEF Spans
            <7> QED
              BY <7>1, <7>2
          <6>3. a.sz = end
            BY <4>1, <6>2
          <6>4. a.m.mem[a.pd.pte[u].pa] = "zero"
            BY <3>5, <3>10, <4>4, <6>1, <6>2, <6>3 DEF Grown
          <6>5. i - 1 \in Nat /\ i - 1 <= Len(prog.segs)
            BY SMTT(60)
          <6>6. Contents(prog, i - 1, u) = "zero"
            BY <3>4, <3>5, <6>1, <6>5, <1>5
          <6> QED
            BY <6>4, <6>6
        <5> QED
          BY <5>1, <5>2
      <4>5. PICK l : l = Loaduvm(a.m, a.pd, seg.vaddr, seg.filesz, seg.avail, prog.tag)
        OBVIOUS
      <4>6. prog.tag \in Fillings
        BY SMTT(60) DEF Fillings
      <4>7. LoadsInto(a.m, a.pd, seg.vaddr, seg.filesz, prog.tag, l)
        <5>1. seg.vaddr + seg.filesz <= a.sz
          BY <3>3, <4>1, <4>2, SMTT(60)
        <5> QED
          BY <3>3, <3>12, <4>1, <4>2, <4>5, <4>6, <5>1, <1>1
      <4>8. PICK V : V \subseteq Vpns /\ Filled(a.m, a.pd, V, prog.tag, l.m) /\ (l.ok => V = PagesOf(seg.vaddr, seg.filesz))
        BY <4>7 DEF LoadsInto
      <4>9. /\ Holds(l.m, a.pd, R) /\ l.m.panic = a.m.panic
            /\ \A x \in Frames \ R : l.m.mem[x] = a.m.mem[x]
            /\ \A u \in Vpns : a.pd.pte[u].pa # 0 =>
                  l.m.mem[a.pd.pte[u].pa] = IF u \in V THEN prog.tag ELSE a.m.mem[a.pd.pte[u].pa]
        <5>1. FillKept(a.m, a.pd, R, V, prog.tag, l.m)
          BY <3>12, <4>8, FilledKeeps
        <5> QED
          BY <5>1 DEF FillKept
      <4>10. PICK e : e = SegDone(l, a)
        OBVIOUS
      <4>11. Segment(r, prog, seg) = e
        <5>1. (CHOOSE y \in {SegDone(z, a) : z \in {l}} : TRUE) = SegDone(l, a)
          BY SMTT(60)
        <5> QED
          BY <3>13, <3>15, <4>5, <4>10, <5>1 DEF SegLoad, Let
      <4>12. e.m = l.m /\ e.pd = a.pd /\ e.sz = a.sz /\ e.ok = l.ok
        BY <4>10, SMTT(60) DEF SegDone
      <4>13. e = [m |-> e.m, pd |-> e.pd, sz |-> e.sz, ok |-> e.ok]
        BY <4>10, <4>12 DEF SegDone
      <4>14. ASSUME e.ok PROVE HasSegs(e.m, e.pd, e.sz, prog, i)
        <5>1. V = PagesOf(seg.vaddr, seg.filesz)
          BY <4>8, <4>12, <4>14
        <5>2. ASSUME NEW u \in Vpns, u < PageUp(a.sz) PROVE l.m.mem[a.pd.pte[u].pa] = Contents(prog, i, u)
          <6>1. a.pd.pte[u].pa # 0
            BY <4>1, <5>2 DEF Spans
          <6>2. l.m.mem[a.pd.pte[u].pa] = IF u \in V THEN prog.tag ELSE Contents(prog, i - 1, u)
            BY <4>4, <4>9, <5>2, <6>1
          <6>3. i \in Nat \ {0}
            BY SMTT(60)
          <6>4. /\ u \in V => Contents(prog, i, u) = prog.tag
                /\ u \notin V => Contents(prog, i, u) = Contents(prog, i - 1, u)
            BY <5>1, <6>3, <1>4
          <6> QED
            BY <6>2, <6>4
        <5> QED
          BY <4>1, <4>3, <4>12, <5>2 DEF HasSegs
      <4>15. e.pd.dir # 0 /\ Holds(e.m, e.pd, R) /\ e.m.panic = n.panic /\ \A x \in Frames \ R : e.m.mem[x] = n.mem[x]
        BY <3>12, <4>9, <4>12
      <4>16. Loading(n, R, prog, i, e)
        BY <4>13, <4>14, <4>15 DEF Loading
      <4> QED
        BY <4>11, <4>16
    <3> QED
      BY <3>14, <3>15
  <2> QED
    BY <2>3, <2>4
<1> QED
  BY <1>7

LoadBase(s) == [m |-> s.m, pd |-> s.pd, sz |-> 0, ok |-> s.pd.dir # 0]
LoadStart(n) == Let(Setupkvm(n), LAMBDA s : LoadBase(s))

\* g gives the result of each segment.
LoadRun(g, n, prog) ==
    /\ g[0] = LoadStart(n)
    /\ \A i \in 1 .. Len(prog.segs) : g[i] = Segment(g[i - 1], prog, prog.segs[i])

\* All segments.
LEMMA LoadRunKeeps ==
    ASSUME Counting, NEW n \in Mems, NEW prog \in Programs, NEW g, LoadRun(g, n, prog)
    PROVE  Loading(n, n.free, prog, Len(prog.segs), g[Len(prog.segs)])
<1> DEFINE hi == Len(prog.segs)
           Good(i) == Loading(n, n.free, prog, i, g[i])
           Bad == {i \in Nat : i <= hi /\ ~Good(i)}
<1>1. hi \in Nat /\ hi <= hi
  <2>1. PICK T : prog.segs \in Seq(T)
    BY VmAssumption
  <2> QED
    BY <2>1, SMTT(60)
<1>2. g[0] = LoadStart(n) /\ \A i \in 1 .. hi : g[i] = Segment(g[i - 1], prog, prog.segs[i])
  BY DEF LoadRun
<1>3. Good(0)
  <2>1. PICK s : s = Setupkvm(n)
    OBVIOUS
  <2>2. PICK r : r = LoadBase(s)
    OBVIOUS
  <2>3. g[0] = r
    <3>1. (CHOOSE y \in {LoadBase(z) : z \in {s}} : TRUE) = LoadBase(s)
      BY SMTT(60)
    <3> QED
      BY <1>2, <2>1, <2>2, <3>1 DEF LoadStart, Let
  <2>4. r.m = s.m /\ r.pd = s.pd /\ r.sz = 0 /\ r.ok = (s.pd.dir # 0)
    BY <2>2, SMTT(60) DEF LoadBase
  <2>5. r = [m |-> r.m, pd |-> r.pd, sz |-> r.sz, ok |-> r.ok]
    BY <2>2, <2>4 DEF LoadBase
  <2>6. Setting(n, n.free, KTABS, s)
    BY <2>1, SetupkvmSets
  <2>7. /\ s.m.panic = n.panic /\ \A x \in Frames \ n.free : s.m.mem[x] = n.mem[x]
        /\ \/ s.pd = NoPgdir /\ s.m \in Mems /\ s.m.free = n.free
           \/ s.pd.dir # 0 /\ Holds(s.m, s.pd, n.free) /\ \A v \in Vpns : s.pd.pte[v] = NoPte
    BY <2>6 DEF Setting
  <2>8. r.ok <=> s.pd.dir # 0
    BY <2>4
  <2>9. s.pd = NoPgdir => ~r.ok
    BY <2>8, NoPgdirFacts
  <2>10. ASSUME r.ok PROVE HasSegs(r.m, r.pd, r.sz, prog, 0)
    <3>1. \A v \in Vpns : r.pd.pte[v].pa = 0
      BY <2>4, <2>7, <2>9, <2>10, NoPteFacts
    <3>2. PageUp(0) = 0
      <4>1. 0 \in Nat /\ 0 * PGSIZE = 0
        BY UserPart, SMTT(60)
      <4> QED
        BY <4>1, WholePages
    <3>3. \A v \in Vpns : ~(v < 0)
      BY VpnFacts, SMTT(60)
    <3>4. 0 \in Nat /\ 0 < KERNBASE
      BY UserPart, SMTT(60)
    <3>5. \A j \in 1 .. 0 : FALSE
      BY SMTT(60)
    <3>6. Tops(prog, 0, 0)
      BY <3>5 DEF Tops
    <3>7. Spans(r.pd, 0)
      BY <3>1, <3>2, <3>3 DEF Spans
    <3> QED
      BY <2>4, <3>2, <3>3, <3>4, <3>6, <3>7 DEF HasSegs
  <2>11. Loading(n, n.free, prog, 0, r)
    BY <2>4, <2>5, <2>7, <2>9, <2>10 DEF Loading
  <2> QED
    BY <2>3, <2>11
<1> HIDE DEF Good, hi
<1>4. ASSUME Bad # {} PROVE FALSE
  <2>1. PICK i \in Bad : \A y \in Bad : i <= y
    BY <1>4, LeastNat
  <2>2. i # 0
    BY <1>3, <2>1
  <2>3. i - 1 \in Nat /\ ~(i <= i - 1) /\ i - 1 <= hi /\ i \in 1 .. hi
    BY <1>1, <2>1, <2>2, SMTT(60)
  <2>4. Good(i - 1)
    BY <2>1, <2>3, SMTT(60)
  <2>5. PICK r, seg : r = g[i - 1] /\ seg = prog.segs[i]
    OBVIOUS
  <2>6. Loading(n, n.free, prog, i - 1, r)
    BY <2>4, <2>5 DEF Good
  <2>7. Loading(n, n.free, prog, i, Segment(r, prog, seg))
    BY <2>3, <2>5, <2>6, SegmentKeeps DEF hi
  <2>8. Good(i)
    BY <1>2, <2>3, <2>5, <2>7 DEF Good
  <2> QED
    BY <2>1, <2>8
<1>5. Good(hi)
  BY <1>1, <1>4
<1> QED
  BY <1>5 DEF Good, hi

\* The pages of the program, the guard page and the stack: see Image.
HasImage(n, pd, sz, prog) ==
    /\ sz \in Nat /\ sz < KERNBASE /\ Spans(pd, sz)
    /\ \E top \in Nat :
          /\ Tops(prog, Len(prog.segs), top) /\ PageUp(sz) = PageUp(top) + 2
          /\ \A u \in Vpns : u < PageUp(top) => n.mem[pd.pte[u].pa] = Contents(prog, Len(prog.segs), u)
          /\ n.mem[pd.pte[PageUp(top)].pa] = "zero" /\ n.mem[pd.pte[PageUp(top) + 1].pa] = "args"

\* The result of exec up to the point where it replaces the page table.
Imaged(n, R, prog, r) ==
    /\ r.m.panic = n.panic /\ \A x \in Frames \ R : r.m.mem[x] = n.mem[x]
    /\ \/ r.pd = NoPgdir /\ ~r.ok /\ r.m \in Mems /\ r.m.free = R
       \/ r.pd.dir # 0 /\ Holds(r.m, r.pd, R)
    /\ r.ok => HasImage(r.m, r.pd, r.sz, prog)

\* The two pages of the stack.
LEMMA StackKeeps ==
    ASSUME Counting
    PROVE  \A n, R : \A prog \in Programs : \A r :
               /\ Loading(n, R, prog, Len(prog.segs), r)
               => Imaged(n, R, prog, Stack(r, prog))
\* clearpteu of a page that is there: the user cannot use it.
<1> DEFINE Hidden(n, pd, R, v, g) ==
               /\ g.m = n /\ Holds(n, g.pd, R) /\ g.pd.dir = pd.dir
               /\ \A u \in Vpns : g.pd.pte[u].pa = pd.pte[u].pa
               /\ ~User(g.pd, v)
<1> DEFINE NotUser(e) == [e EXCEPT !.user = FALSE]
\* copyout: pages of the user alone are set; all of them when it succeeds.
<1> DEFINE CopiesOut(n, pd, va, len, val, c) ==
               /\ \E V : /\ V \subseteq Vpns /\ Filled(n, pd, V, val, c.m) /\ (\A v \in V : User(pd, v))
                         /\ c.ok => V = PagesOf(va, len)
<1> DEFINE StackDone(c, g, a) == [m |-> c.m, pd |-> g.pd, sz |-> a.sz, ok |-> c.ok, stray |-> c.stray]
<1> DEFINE StackArgs(g, a, prog) ==
               Let(Copyout(g.m, g.pd, (a.sz - prog.args) % Wrap, prog.args, "args"), LAMBDA c : StackDone(c, g, a))
<1> DEFINE StackTop(a, prog) ==
               IF a.sz = 0 THEN [m |-> a.m, pd |-> a.pd, sz |-> 0, ok |-> FALSE, stray |-> FALSE]
               ELSE Let(Guard(a.m, a.pd, a.sz), LAMBDA g : StackArgs(g, a, prog))
<1> HIDE DEF Hidden, NotUser, CopiesOut, StackDone, StackArgs, StackTop
\* Entries that differ in who may use the page.
<1>1. ASSUME NEW n, NEW pd, NEW R, Holds(n, pd, R), NEW f \in PteMaps, \A u \in Vpns : f[u].pa = pd.pte[u].pa,
             NEW q, q = WithPte(pd, f)
      PROVE  Holds(n, q, R) /\ q.dir = pd.dir /\ q.pte = f
  <2> USE <1>1
  <2>1. n \in Mems /\ pd \in Pgdirs /\ Distinct(pd) /\ n.free \cap Held(pd) = {} /\ n.free \cup Held(pd) = R
    BY DEF Holds
  <2>2. q \in Pgdirs /\ q.dir = pd.dir /\ q.ktab = pd.ktab /\ q.tab = pd.tab /\ q.pte = f
    <3>1. HasParts(q, pd, pd.tab, f)
      BY <2>1, PteExcept
    <3> QED
      BY <3>1 DEF HasParts
  <2>3. \A u \in Vpns : q.pte[u].pa = pd.pte[u].pa
    BY <2>2
  <2>4. PtePages(q) = PtePages(pd)
    BY <2>3, SMTT(60) DEF PtePages
  <2>5. TablePages(q) = TablePages(pd)
    BY <2>2, SMTT(60) DEF TablePages
  <2>6. Held(q) = Held(pd)
    BY <2>4, <2>5 DEF Held
  <2>7. Distinct(q)
    <3>1. /\ \A u, v \in Vpns : q.pte[u].pa # 0 /\ q.pte[u].pa = q.pte[v].pa => u = v
          /\ \A v \in Vpns : q.pte[v].pa \notin TablePages(q)
          /\ \A v \in Vpns : q.pte[v].pa # 0 => q.tab[v \div NPT] # 0
      BY <2>1, <2>2, <2>3, <2>5 DEF Distinct
    <3>2. /\ \A s, t \in Tables : q.tab[s] # 0 /\ q.tab[s] = q.tab[t] => s = t
          /\ \A t \in Tables : q.tab[t] # 0 => q.tab[t] \notin q.ktab /\ q.tab[t] # q.dir
          /\ q.dir \notin q.ktab
      BY <2>1, <2>2, SMTT(60) DEF Distinct
    <3> QED
      BY <3>1, <3>2 DEF Distinct
  <2> QED
    BY <2>1, <2>2, <2>6, <2>7 DEF Holds
<1>2. ASSUME NEW n, NEW pd, NEW R, Holds(n, pd, R), NEW v \in Vpns, pd.pte[v].pa # 0,
             NEW uva, uva \div PGSIZE = v, NEW g, g = Clearpteu(n, pd, uva)
      PROVE  Hidden(n, pd, R, v, g)
  <2> USE <1>2
  <2>1. pd \in Pgdirs /\ pd.tab[v \div NPT] # 0
    BY DEF Holds, Distinct
  <2>2. PICK e : e = NotUser(pd.pte[v])
    OBVIOUS
  <2>3. pd.pte \in [Vpns -> Ptes] /\ pd.pte[v] \in Ptes
    BY <2>1, PdFields
  <2>4. e \in Ptes /\ e.pa = pd.pte[v].pa /\ e.user = FALSE
    <3>1. PICK x : x = pd.pte[v]
      OBVIOUS
    <3>2. x \in Ptes /\ e = [x EXCEPT !.user = FALSE]
      BY <2>2, <2>3, <3>1 DEF NotUser
    <3>3. e \in Ptes /\ e.pa = x.pa /\ e.user = FALSE
      BY <3>2 DEF Ptes
    <3> QED
      BY <3>1, <3>3
  <2>5. PICK f : f = [pd.pte EXCEPT ![v] = e]
    OBVIOUS
  <2>6. f \in PteMaps /\ f[v] = e /\ \A u \in Vpns : u # v => f[u] = pd.pte[u]
    BY <2>3, <2>4, <2>5, SMTT(60) DEF PteMaps
  <2>7. \A u \in Vpns : f[u].pa = pd.pte[u].pa
    BY <2>4, <2>6
  <2>8. PICK q : q = WithPte(pd, f)
    OBVIOUS
  <2>9. Holds(n, q, R) /\ q.dir = pd.dir /\ q.pte = f
    BY <2>6, <2>7, <2>8, <1>1, SMTT(60)
  <2>10. g = [m |-> n, pd |-> q]
    <3>1. g = [m |-> n, pd |-> [pd EXCEPT !.pte[v].user = FALSE]]
      BY <2>1 DEF Clearpteu
    <3>2. [pd EXCEPT !.pte[v].user = FALSE] = q
      BY <2>2, <2>5, <2>8 DEF WithPte, NotUser
    <3> QED
      BY <3>1, <3>2
  <2>11. g.m = n /\ g.pd = q
    BY <2>10, SMTT(60)
  <2>12. ~User(g.pd, v)
    <3>1. g.pd.pte[v].user = FALSE
      BY <2>4, <2>6, <2>9, <2>11
    <3> QED
      BY <3>1 DEF User
  <2> QED
    BY <2>7, <2>9, <2>11, <2>12 DEF Hidden
<1>3. ASSUME NEW n \in Mems, NEW pd, NEW va \in Int, NEW len \in Int, NEW val \in Fillings,
             NEW c, c = Copyout(n, pd, va, len, val)
      PROVE  CopiesOut(n, pd, va, len, val, c)
  <2> USE <1>3
  <2>1. PICK all : all = PagesOf(va, len)
    OBVIOUS
  <2>2. PICK V : V = {v \in all : \A u \in all : u <= v => User(pd, u)}
    OBVIOUS
  <2>3. \A v \in all : v <= v
    <3>1. SUFFICES ASSUME NEW v \in all PROVE v \in Int
      BY SMTT(60)
    <3>2. PICK a \in va .. va + len - 1 : v = a \div PGSIZE
      BY <2>1, <3>1, SMTT(60) DEF PagesOf
    <3> QED
      BY <3>2, UserPart, Division, SMTT(60)
  <2>4. \A v \in V : User(pd, v)
    BY <2>2, <2>3
  <2>5. V \subseteq Vpns
    BY <2>4 DEF User
  <2>6. PICK f : f = Fill(n, pd, V, val)
    OBVIOUS
  <2>7. PICK s : c = [m |-> f, ok |-> V = all, stray |-> s]
    BY <2>1, <2>2, <2>6 DEF Copyout
  <2>8. c.m = f
    BY <2>7, SMTT(60)
  <2>9. c.ok = (V = all)
    BY <2>7, SMTT(60)
  <2>10. c.ok => V = all
    BY <2>9
  <2>11. Filled(n, pd, V, val, c.m)
    BY <2>6, <2>8, FillFills
  <2> QED
    BY <2>1, <2>4, <2>5, <2>8, <2>10, <2>11 DEF CopiesOut
\* Arguments that do not reach the page k are in the page above it, the last.
<1>4. ASSUME NEW k \in Nat, NEW args \in Nat \ {0}, NEW sz, sz = (k + 2) * PGSIZE,
             NEW V, V = PagesOf(sz - args, args), k \notin V
      PROVE  V = {k + 1}
  <2> USE <1>4
  <2>1. PGSIZE \in Nat \ {0} /\ k * PGSIZE \in Nat
    BY UserPart, SMTT(60)
  <2>2. PICK d \in Nat : d = k * PGSIZE
    BY <2>1, SMTT(60)
  <2>3. sz = d + PGSIZE + PGSIZE /\ (k + 1) * PGSIZE = d + PGSIZE
    BY <2>1, <2>2, SMTT(60)
  <2>4. V = {a \div PGSIZE : a \in sz - args .. sz - 1}
    <3>1. sz - args + args - 1 = sz - 1
      BY <2>1, <2>2, <2>3, SMTT(60)
    <3> QED
      BY <3>1 DEF PagesOf
  <2>5. args <= PGSIZE
    <3>1. SUFFICES ASSUME PGSIZE < args PROVE FALSE
      BY <2>1, SMTT(60)
    <3>2. PICK a \in Int : a = d + PGSIZE - 1
      BY <2>1, <2>2, SMTT(60)
    <3>3. a \in sz - args .. sz - 1
      BY <2>1, <2>2, <2>3, <3>1, <3>2, SMTT(60)
    <3>4. k * PGSIZE <= a /\ a < k * PGSIZE + PGSIZE
      BY <2>1, <2>2, <3>2, SMTT(60)
    <3>5. a \div PGSIZE = k
      BY <2>1, <3>4, Quotient, SMTT(60)
    <3> QED
      BY <2>4, <3>3, <3>5, SMTT(60)
  <2>6. ASSUME NEW a \in sz - args .. sz - 1 PROVE a \div PGSIZE = k + 1
    <3>1. a \in Int /\ k + 1 \in Int
      BY <2>1, <2>2, <2>3, <2>6, SMTT(60)
    <3>2. (k + 1) * PGSIZE <= a /\ a < (k + 1) * PGSIZE + PGSIZE
      BY <2>1, <2>2, <2>3, <2>5, <2>6, SMTT(60)
    <3>3. PICK q \in Int : q = k + 1
      BY <3>1, SMTT(60)
    <3>4. q * PGSIZE <= a /\ a < q * PGSIZE + PGSIZE
      BY <3>2, <3>3, SMTT(60)
    <3> QED
      BY <2>1, <3>1, <3>3, <3>4, Quotient
  <2>7. sz - 1 \in sz - args .. sz - 1
    BY <2>1, <2>2, <2>3, SMTT(60)
  <2> QED
    BY <2>4, <2>6, <2>7, SMTT(60)
\* Arguments longer than the memory start in the kernel's part.
<1>5. ASSUME NEW sz \in Nat, sz < KERNBASE, NEW args \in Nat \ {0}, args <= KERNBASE,
             NEW va, va = (sz - args) % Wrap
      PROVE  /\ va \in Int
             /\ PagesOf(va, args) \subseteq Vpns => va = sz - args
  <2> USE <1>5
  <2>1. KERNBASE \in Nat \ {0} /\ PGSIZE \in Nat \ {0} /\ UserPages \in Nat /\ UserPages * PGSIZE = KERNBASE
    BY UserPart, AddressAssumption, SMTT(60)
  <2>2. va \in Int /\ va = IF args <= sz THEN sz - args ELSE 2 * KERNBASE + sz - args
    BY <2>1, SMTT(60) DEF Wrap
  <2>3. ASSUME PagesOf(va, args) \subseteq Vpns PROVE args <= sz
    <3>1. SUFFICES ASSUME ~(args <= sz) PROVE FALSE
      OBVIOUS
    <3>2. KERNBASE <= va /\ va \in va .. va + args - 1
      BY <2>1, <2>2, <3>1, SMTT(60)
    <3>3. va \div PGSIZE \in Vpns
      BY <2>3, <3>2 DEF PagesOf
    <3>4. PICK q \in Int : q = va \div PGSIZE
      BY <2>1, <2>2, Division, SMTT(60)
    <3>5. q * PGSIZE <= va /\ va < q * PGSIZE + PGSIZE
      BY <2>1, <2>2, <3>4, Division, SMTT(60)
    <3>6. q + 1 <= UserPages
      BY <2>1, <3>3, <3>4, VpnFacts, SMTT(60)
    <3>7. q * PGSIZE + PGSIZE <= UserPages * PGSIZE
      BY <2>1, <3>6, TimesLess, SMTT(60)
    <3> QED
      BY <2>1, <2>2, <3>2, <3>4, <3>5, <3>7, SMTT(60)
  <2> QED
    BY <2>2, <2>3
<1>6. ASSUME NEW n, NEW R, NEW prog \in Programs, NEW r, Loading(n, R, prog, Len(prog.segs), r)
      PROVE  Imaged(n, R, prog, Stack(r, prog))
  <2> USE <1>6
  <2>1. /\ r = [m |-> r.m, pd |-> r.pd, sz |-> r.sz, ok |-> r.ok]
        /\ r.m.panic = n.panic /\ \A x \in Frames \ R : r.m.mem[x] = n.mem[x]
        /\ \/ r.pd = NoPgdir /\ ~r.ok /\ r.m \in Mems /\ r.m.free = R
           \/ r.pd.dir # 0 /\ Holds(r.m, r.pd, R)
    BY DEF Loading
  <2>2. CASE ~r.ok
    <3>1. PICK e : e = [m |-> r.m, pd |-> r.pd, sz |-> r.sz, ok |-> FALSE, stray |-> FALSE]
      OBVIOUS
    <3>2. e.m = r.m /\ e.pd = r.pd /\ ~e.ok
      BY <3>1
    <3>3. Stack(r, prog) = e
      BY <2>2, <3>1 DEF Stack
    <3> QED
      BY <2>1, <2>2, <3>2, <3>3 DEF Imaged
  <2>3. CASE r.ok
    <3>1. PICK top : top = r.sz
      OBVIOUS
    <3>2. PICK c : c = PageUp(top)
      OBVIOUS
    <3>3. /\ r.pd.dir # 0 /\ Holds(r.m, r.pd, R) /\ top \in Nat /\ top < KERNBASE /\ Spans(r.pd, top)
          /\ Tops(prog, Len(prog.segs), top)
          /\ \A u \in Vpns : u < c => r.m.mem[r.pd.pte[u].pa] = Contents(prog, Len(prog.segs), u)
      BY <2>1, <2>3, <3>1, <3>2 DEF Loading, HasSegs
    <3>4. c \in Nat /\ PGSIZE \in Nat \ {0} /\ KERNBASE \in Nat
      BY <3>2, <3>3, PageUpBelow, UserPart
    <3>5. PICK oldsz \in Nat : oldsz = c * PGSIZE
      BY <3>4, SMTT(60)
    <3>6. PICK new \in Nat : new = oldsz + 2 * PGSIZE
      BY <3>4, <3>5, SMTT(60)
    <3>7. PageUp(oldsz) = c
      BY <3>4, <3>5, WholePages
    <3>8. PageUp(new) = c + 2 /\ new = (c + 2) * PGSIZE
      <4>1. c + 2 \in Nat /\ (c + 2) * PGSIZE = new
        BY <3>4, <3>5, <3>6, SMTT(60)
      <4> QED
        BY <4>1, WholePages
    <3>9. Spans(r.pd, oldsz)
      BY <3>2, <3>3, <3>7 DEF Spans
    <3>10. \A u \in Vpns : (u < c <=> ~(c <= u)) /\ (r.pd.pte[u].pa # 0 <=> u < c)
      <4>1. \A u \in Vpns : u < c <=> ~(c <= u)
        BY <3>4, VpnFacts, SMTT(60)
      <4> QED
        BY <3>2, <3>3, <4>1 DEF Spans
    <3>11. Extends(r.pd, r.pd, c, c)
      BY <3>10 DEF Extends
    <3>12. PICK a : a = Allocuvm(r.m, r.pd, oldsz, new)
      OBVIOUS
    <3>13. Grown(r.m, r.pd, R, oldsz, new, a)
      BY <3>3, <3>7, <3>11, <3>12, AllocuvmGrows
    <3>14. /\ Holds(a.m, a.pd, R) /\ a.m.panic = n.panic /\ a.pd.dir # 0
           /\ \A x \in Frames \ R : a.m.mem[x] = n.mem[x]
      BY <2>1, <3>3, <3>13 DEF Grown, Kept
    <3>15. Stack(r, prog) = StackTop(a, prog)
      <4>1. PGROUNDUP(r.sz) = oldsz
        BY <3>1, <3>2, <3>5 DEF PGROUNDUP
      <4>2. (CHOOSE y \in {StackTop(z, prog) : z \in {a}} : TRUE) = StackTop(a, prog)
        BY SMTT(60)
      <4> QED
        BY <2>3, <3>6, <3>12, <4>1, <4>2 DEF Stack, Let, StackTop, StackArgs, StackDone
    <3>16. CASE a.sz = 0
      <4>1. PICK e : e = [m |-> a.m, pd |-> a.pd, sz |-> 0, ok |-> FALSE, stray |-> FALSE]
        OBVIOUS
      <4>2. e.m = a.m /\ e.pd = a.pd /\ e.sz = 0 /\ e.ok = FALSE
        BY <4>1, SMTT(60)
      <4>4. Stack(r, prog) = e
        BY <3>15, <3>16, <4>1 DEF StackTop
      <4>5. ~e.ok
        BY <4>2
      <4>6. Imaged(n, R, prog, e)
        BY <3>14, <4>2, <4>5 DEF Imaged
      <4> QED
        BY <4>4, <4>6
    <3>17. CASE a.sz # 0
      <4>1. /\ new < KERNBASE /\ a.sz = new /\ Spans(a.pd, new)
        <5>1. SpansTo(a, oldsz, new)
          BY <3>9, <3>13, GrownSpans
        <5>2. ~(new < oldsz)
          BY <3>4, <3>6, SMTT(60)
        <5> QED
          BY <3>17, <5>1, <5>2 DEF SpansTo
      <4>2. c \in Vpns /\ c + 1 \in Vpns /\ c < PageUp(new) /\ c + 1 < PageUp(new) /\ c <= c /\ c <= c + 1 /\ c # c + 1
        <5>1. new <= KERNBASE /\ new <= new
          BY <3>4, <4>1, SMTT(60)
        <5>2. PageUp(new) <= UserPages /\ UserPages \in Nat
          BY <5>1, PageUpOrder, UserPart
        <5>3. c \in 0 .. UserPages - 1 /\ c + 1 \in 0 .. UserPages - 1
          BY <3>4, <3>8, <5>2, SMTT(60)
        <5>4. c < PageUp(new) /\ c + 1 < PageUp(new) /\ c <= c /\ c <= c + 1 /\ c # c + 1
          BY <3>4, <3>8, SMTT(60)
        <5> QED
          BY <5>3, <5>4, VpnFacts
      <4>3. /\ Kept(r.m, a.m, r.pd, R, c) /\ Extends(r.pd, a.pd, c, PageUp(new))
            /\ \A u \in Vpns : c <= u /\ u < PageUp(new) => a.pd.pte[u].pa # 0 /\ a.m.mem[a.pd.pte[u].pa] = "zero"
        <5>1. ~(new < oldsz) /\ new # 0
          BY <3>4, <3>6, SMTT(60)
        <5> QED
          BY <3>7, <3>13, <4>1, <5>1 DEF Grown
      <4>4. ASSUME NEW u \in Vpns, u < c PROVE a.m.mem[a.pd.pte[u].pa] = Contents(prog, Len(prog.segs), u)
        <5>1. a.pd.pte[u] = r.pd.pte[u] /\ r.pd.pte[u].pa # 0
          BY <3>10, <4>3, <4>4 DEF Extends
        <5>2. a.m.mem[r.pd.pte[u].pa] = r.m.mem[r.pd.pte[u].pa]
          BY <4>3, <4>4, <5>1 DEF Kept
        <5> QED
          BY <3>3, <4>4, <5>1, <5>2
      <4>5. PICK g : g = Guard(a.m, a.pd, a.sz)
        OBVIOUS
      <4>6. Hidden(a.m, a.pd, R, c, g)
        <5>1. PICK uva : uva = a.sz - 2 * PGSIZE
          OBVIOUS
        <5>2. uva \div PGSIZE = c
          <6>1. uva = c * PGSIZE
            BY <3>4, <3>5, <3>6, <4>1, <5>1, SMTT(60)
          <6> QED
            BY <3>4, <6>1, WholePages
        <5>3. g = Clearpteu(a.m, a.pd, uva) /\ a.pd.pte[c].pa # 0
          BY <4>2, <4>3, <4>5, <5>1 DEF Guard
        <5> QED
          BY <3>14, <4>2, <5>2, <5>3, <1>2
      <4>7. /\ g.m = a.m /\ Holds(g.m, g.pd, R) /\ g.pd.dir = a.pd.dir
            /\ \A u \in Vpns : g.pd.pte[u].pa = a.pd.pte[u].pa
            /\ ~User(g.pd, c)
        BY <4>6 DEF Hidden
      <4>8. PICK va, o : va = (a.sz - prog.args) % Wrap /\ o = Copyout(g.m, g.pd, va, prog.args, "args")
        OBVIOUS
      <4>9. PICK e : e = StackDone(o, g, a)
        OBVIOUS
      <4>10. Stack(r, prog) = e
        <5>1. (CHOOSE y \in {StackDone(z, g, a) : z \in {o}} : TRUE) = StackDone(o, g, a)
          BY SMTT(60)
        <5>2. StackArgs(g, a, prog) = e
          BY <4>8, <4>9, <5>1 DEF StackArgs, Let
        <5>3. (CHOOSE y \in {StackArgs(z, a, prog) : z \in {g}} : TRUE) = StackArgs(g, a, prog)
          BY SMTT(60)
        <5> QED
          BY <3>15, <3>17, <4>5, <5>2, <5>3 DEF StackTop, Let
      <4>11. prog.args \in Nat \ {0} /\ prog.args <= KERNBASE
        BY <3>4, VmAssumption, SMTT(60)
      <4>12. CopiesOut(g.m, g.pd, va, prog.args, "args", o)
        <5>1. va \in Int /\ prog.args \in Int
          BY <3>4, <4>1, <4>8, <4>11, <1>5, SMTT(60)
        <5>2. "args" \in Fillings
          BY SMTT(60) DEF Fillings
        <5>3. g.m \in Mems
          BY <4>7 DEF Holds
        <5> QED
          BY <4>8, <5>1, <5>2, <5>3, <1>3
      <4>13. PICK V : /\ V \subseteq Vpns /\ Filled(g.m, g.pd, V, "args", o.m) /\ (\A v \in V : User(g.pd, v))
                      /\ o.ok => V = PagesOf(va, prog.args)
        BY <4>12 DEF CopiesOut
      <4>14. /\ Holds(o.m, g.pd, R) /\ o.m.panic = g.m.panic
             /\ \A x \in Frames \ R : o.m.mem[x] = g.m.mem[x]
             /\ \A u \in Vpns : g.pd.pte[u].pa # 0 =>
                   o.m.mem[g.pd.pte[u].pa] = IF u \in V THEN "args" ELSE g.m.mem[g.pd.pte[u].pa]
        <5>1. FillKept(g.m, g.pd, R, V, "args", o.m)
          BY <4>7, <4>13, FilledKeeps
        <5> QED
          BY <5>1 DEF FillKept
      <4>15. e.m = o.m /\ e.pd = g.pd /\ e.sz = a.sz /\ e.ok = o.ok
        BY <4>9, SMTT(60) DEF StackDone
      <4>17. Spans(g.pd, new)
        BY <4>1, <4>7 DEF Spans
      <4>18. ASSUME e.ok PROVE HasImage(e.m, e.pd, e.sz, prog)
        <5>1. V = PagesOf(new - prog.args, prog.args)
          BY <4>1, <4>8, <4>11, <4>13, <4>15, <4>18, <1>5
        <5>2. c \notin V
          BY <4>7, <4>13
        <5>3. V = {c + 1}
          BY <3>4, <3>8, <4>11, <5>1, <5>2, <1>4
        <5>4. ASSUME NEW u \in Vpns, u < c PROVE o.m.mem[g.pd.pte[u].pa] = Contents(prog, Len(prog.segs), u)
          <6>1. u # c + 1 /\ u < c + 2
            BY <3>4, <5>4, VpnFacts, SMTT(60)
          <6>2. u \notin V
            BY <5>3, <6>1
          <6>3. g.pd.pte[u].pa # 0
            BY <3>8, <4>17, <6>1 DEF Spans
          <6>4. o.m.mem[g.pd.pte[u].pa] = g.m.mem[g.pd.pte[u].pa]
            BY <4>14, <6>2, <6>3
          <6> QED
            BY <4>4, <4>7, <5>4, <6>4
        <5>5. o.m.mem[g.pd.pte[c].pa] = "zero"
          <6>1. g.pd.pte[c].pa # 0 /\ c \notin V /\ g.m.mem[g.pd.pte[c].pa] = "zero"
            BY <4>2, <4>3, <4>7, <5>2
          <6> QED
            BY <4>2, <4>14, <6>1
        <5>6. o.m.mem[g.pd.pte[c + 1].pa] = "args"
          <6>1. g.pd.pte[c + 1].pa # 0 /\ c + 1 \in V
            BY <4>2, <4>3, <4>7, <5>3
          <6> QED
            BY <4>2, <4>14, <6>1
        <5> QED
          BY <3>2, <3>3, <3>8, <4>1, <4>15, <4>17, <5>4, <5>5, <5>6 DEF HasImage
      <4>19. e.pd.dir # 0 /\ Holds(e.m, e.pd, R) /\ e.m.panic = n.panic /\ \A x \in Frames \ R : e.m.mem[x] = n.mem[x]
        BY <3>14, <4>7, <4>14, <4>15
      <4>20. Imaged(n, R, prog, e)
        BY <4>18, <4>19 DEF Imaged
      <4> QED
        BY <4>10, <4>20
    <3> QED
      BY <3>16, <3>17
  <2> QED
    BY <2>2, <2>3
<1> QED
  BY <1>6

\* exec: the image of the program in a page table of its own, or everything as
\* it was.
Loads(n, prog, r) ==
    /\ r.m.panic = n.panic /\ \A x \in Frames \ n.free : r.m.mem[x] = n.mem[x]
    /\ \/ ~r.ok /\ r.m \in Mems /\ r.m.free = n.free
       \/ r.ok /\ r.pd.dir # 0 /\ Holds(r.m, r.pd, n.free) /\ HasImage(r.m, r.pd, r.sz, prog)

\* exec builds the image of the program in a page table of its own, or gives back
\* all it took.
LEMMA LoadedLoads ==
    ASSUME Counting
    PROVE  \A n \in Mems : \A prog \in Programs :
               Loads(n, prog, Loaded(n, prog))
<1> DEFINE LoadEnd(r) == IF r.ok THEN r ELSE [m |-> Dropped(r.m, r.pd), ok |-> FALSE, stray |-> r.stray]
<1> HIDE DEF LoadEnd
\* exec goes on from the result of the last segment.
<1>1. ASSUME NEW n, NEW prog \in Programs, ~(prog.argc >= MAXARG)
      PROVE  \E g : LoadRun(g, n, prog) /\ Loaded(n, prog) = LoadEnd(Stack(g[Len(prog.segs)], prog))
  <2> USE <1>1
  <2> DEFINE hi == Len(prog.segs)
             w == <<"load", prog, 0>>
             Same(g) == g = [i \in 0 .. hi |-> IF i = 0 THEN LoadStart(n)
                               ELSE Let(g[i - 1], LAMBDA r : Segment(r, prog, prog.segs[i]))]
             load == CHOOSE g : Same(g)
  <2>1. 0 \in Int /\ hi \in Int /\ 0 <= hi /\ hi \in Nat
    <3>1. PICK T : prog.segs \in Seq(T)
      BY VmAssumption
    <3> QED
      BY <3>1, SMTT(60)
  <2> HIDE DEF hi
  <2>2. \A i, r : Turn(w, i, r) = Segment(r, prog, prog.segs[i])
    BY SMTT(60) DEF Turn
  <2>3. \E g : Same(g)
    <3>1. PICK g : g = [i \in 0 .. hi |-> IF i = 0 THEN LoadStart(n) ELSE Let(g[i - 1], LAMBDA r : Turn(w, i, r))]
      <4>1. LoopTo(w, LoadStart(n), 0, hi)
        BY <2>1, LoopExists
      <4> QED
        BY <4>1 DEF LoopTo
    <3>2. ASSUME NEW i \in 0 .. hi
          PROVE  g[i] = IF i = 0 THEN LoadStart(n) ELSE Let(g[i - 1], LAMBDA r : Segment(r, prog, prog.segs[i]))
      <4>1. PICK x : x = g[i - 1]
        OBVIOUS
      <4>2. g[i] = IF i = 0 THEN LoadStart(n) ELSE CHOOSE y \in {Turn(w, i, z) : z \in {x}} : TRUE
        BY <3>1, <4>1 DEF Let
      <4>3. (CHOOSE y \in {Turn(w, i, z) : z \in {x}} : TRUE) = Turn(w, i, x)
        BY SMTT(60)
      <4>4. (CHOOSE y \in {Segment(z, prog, prog.segs[i]) : z \in {x}} : TRUE) = Segment(x, prog, prog.segs[i])
        BY SMTT(60)
      <4>5. g[i] = IF i = 0 THEN LoadStart(n) ELSE CHOOSE y \in {Segment(z, prog, prog.segs[i]) : z \in {x}} : TRUE
        BY <2>2, <4>2, <4>3, <4>4
      <4> QED
        BY <4>1, <4>5 DEF Let
    <3>3. g = [i \in 0 .. hi |-> g[i]]
      BY <3>1
    <3>4. Same(g)
      BY <3>2, <3>3
    <3> QED
      BY <3>4
  <2>4. Same(load)
    BY <2>3
  <2>5. Loaded(n, prog) = LoadEnd(Stack(load[hi], prog))
    <3>1. Loaded(n, prog) = Let(Stack(load[hi], prog), LAMBDA r : LoadEnd(r))
      BY DEF Loaded, LoadStart, LoadBase, LoadEnd, hi
    <3>2. PICK s : s = Stack(load[hi], prog)
      OBVIOUS
    <3>3. (CHOOSE y \in {LoadEnd(z) : z \in {s}} : TRUE) = LoadEnd(s)
      BY SMTT(60)
    <3> QED
      BY <3>1, <3>2, <3>3 DEF Let
  <2> HIDE DEF load
  <2>6. LoadRun(load, n, prog)
    <3>1. load[0] = LoadStart(n)
      BY <2>1, <2>4, SMTT(60)
    <3>2. ASSUME NEW i \in 1 .. hi PROVE load[i] = Segment(load[i - 1], prog, prog.segs[i])
      <4>1. i \in 0 .. hi /\ i # 0
        BY <2>1, <3>2, SMTT(60)
      <4>2. load[i] = Let(load[i - 1], LAMBDA r : Segment(r, prog, prog.segs[i]))
        BY <2>4, <4>1
      <4>3. Let(load[i - 1], LAMBDA r : Segment(r, prog, prog.segs[i])) = Segment(load[i - 1], prog, prog.segs[i])
        <5>1. PICK x : x = load[i - 1]
          OBVIOUS
        <5>2. (CHOOSE y \in {Segment(z, prog, prog.segs[i]) : z \in {x}} : TRUE) = Segment(x, prog, prog.segs[i])
          BY SMTT(60)
        <5> QED
          BY <5>1, <5>2 DEF Let
      <4> QED
        BY <4>2, <4>3
    <3> QED
      BY <3>1, <3>2 DEF LoadRun, hi
  <2> QED
    BY <2>5, <2>6 DEF hi
<1>2. ASSUME NEW n \in Mems, NEW prog \in Programs PROVE Loads(n, prog, Loaded(n, prog))
  <2>1. CASE prog.argc >= MAXARG
    <3>1. PICK e : e = [m |-> n, ok |-> FALSE, stray |-> FALSE]
      OBVIOUS
    <3>2. e.m = n /\ e.ok = FALSE
      BY <3>1, SMTT(60)
    <3>3. Loaded(n, prog) = e
      BY <2>1, <3>1 DEF Loaded
    <3> QED
      BY <3>2, <3>3 DEF Loads
  <2>2. CASE ~(prog.argc >= MAXARG)
    <3>1. PICK g : LoadRun(g, n, prog) /\ Loaded(n, prog) = LoadEnd(Stack(g[Len(prog.segs)], prog))
      BY <2>2, <1>1
    <3>2. PICK r : r = Stack(g[Len(prog.segs)], prog)
      OBVIOUS
    <3>3. Imaged(n, n.free, prog, r)
      BY <3>1, <3>2, LoadRunKeeps, StackKeeps
    <3>4. CASE r.ok
      BY <3>1, <3>2, <3>3, <3>4 DEF LoadEnd, Imaged, Loads
    <3>5. CASE ~r.ok
      <4>1. PICK d : d = Dropped(r.m, r.pd)
        OBVIOUS
      <4>2. PICK e : e = [m |-> d, ok |-> FALSE, stray |-> r.stray]
        OBVIOUS
      <4>3. e.m = d /\ e.ok = FALSE
        BY <4>2, SMTT(60)
      <4>4. Loaded(n, prog) = e
        BY <3>1, <3>2, <3>5, <4>1, <4>2 DEF LoadEnd
      <4>5. d \in Mems /\ d.free = n.free /\ d.panic = n.panic /\ \A x \in Frames \ n.free : d.mem[x] = n.mem[x]
        <5>1. r.m.panic = n.panic /\ \A x \in Frames \ n.free : r.m.mem[x] = n.mem[x]
          BY <3>3 DEF Imaged
        <5>2. CASE r.pd = NoPgdir
          <6>1. d = r.m
            BY <4>1, <5>2, NoPgdirFacts DEF Dropped
          <6>2. r.m \in Mems /\ r.m.free = n.free
            BY <3>3, <5>2, NoPgdirFacts DEF Imaged
          <6> QED
            BY <5>1, <6>1, <6>2
        <5>3. CASE r.pd # NoPgdir
          <6>1. r.pd.dir # 0 /\ Holds(r.m, r.pd, n.free)
            BY <3>3, <5>3 DEF Imaged
          <6>2. d = Freevm(r.m, r.pd)
            BY <4>1, <6>1 DEF Dropped
          <6>3. AllFree(r.m, n.free, d)
            BY <6>1, <6>2, FreevmFrees
          <6> QED
            BY <5>1, <6>3 DEF AllFree
        <5> QED
          BY <5>2, <5>3
      <4> QED
        BY <4>3, <4>4, <4>5 DEF Loads
    <3> QED
      BY <3>4, <3>5
  <2> QED
    BY <2>1, <2>2
<1> QED
  BY <1>2

-----------------------------------------------------------------------------
(* Booting *)

\* A memory whose other calls differ in their number.
Recounted(n, n2) == n2 \in Mems /\ n2.free = n.free /\ n2.panic = n.panic /\ n2.mem = n.mem

\* The number of pages other calls leave is not part of who has which page.
LEMMA SetLeft ==
    ASSUME NEW n \in Mems, NEW j \in Nat
    PROVE  Recounted(n, [n EXCEPT !.left = j]) /\ [n EXCEPT !.left = j].left = j
BY DEF Mems, Recounted

\* What the kernel starts with.
BootedOk(n, pr, kstack) ==
    /\ n \in Mems /\ n.panic = "none" /\ kstack \in Frames
    /\ pr = [state |-> "run", kstack |-> kstack, pd |-> pr.pd, sz |-> PGSIZE]
    /\ Holds(n, pr.pd, Frames \ {kstack}) /\ pr.pd.dir # 0
    /\ Spans(pr.pd, PGSIZE) /\ n.mem[pr.pd.pte[0].pa] = "initcode"

\* main(): after kinit1, kinit2 and userinit the first process has a page table, a
\* kernel stack and initcode, and every other page is free.
LEMMA BootedIs ==
    ASSUME Counting
    PROVE  /\ Booted = [m |-> Booted.m, init |-> Booted.init]
           /\ \E kstack : BootedOk(Booted.m, Booted.init, kstack)
<1> DEFINE InitEnd(a, page) == [m |-> [a.m EXCEPT !.mem[page] = "initcode"], pd |-> a.pd]
<1> DEFINE InitMap(k, pd) == Let(Mappage(k.m, pd, 0, NewPte(k.page)), LAMBDA a : InitEnd(a, k.page))
\* inituvm: initcode in page 0, when there is memory.
<1> DEFINE FirstPage(n, pd, R, i) ==
               /\ Holds(i.m, i.pd, R) /\ i.m.panic = n.panic /\ i.pd.dir = pd.dir
               /\ Spans(i.pd, PGSIZE) /\ i.m.mem[i.pd.pte[0].pa] = "initcode"
<1> DEFINE FirstProc(stack, i) == [state |-> "run", kstack |-> stack.page, pd |-> i.pd, sz |-> PGSIZE]
<1> DEFINE Recount(n) == [n EXCEPT !.left = 0]
<1> DEFINE BootEnd(i, stack) == [m |-> Recount(i.m), init |-> FirstProc(stack, i)]
<1> DEFINE BootInit(s, stack) == Let(Inituvm(s.m, s.pd), LAMBDA i : BootEnd(i, stack))
<1> DEFINE BootTables(stack) == Let(Setupkvm(stack.m), LAMBDA s : BootInit(s, stack))
<1> DEFINE BootStack(k) == Let(Kalloc([k EXCEPT !.left = Cardinality(k.free)]), LAMBDA stack : BootTables(stack))
<1> HIDE DEF InitEnd, InitMap, FirstPage, FirstProc, Recount, BootEnd, BootInit, BootTables, BootStack
\* kinit1 and kinit2 free every page once.
<1>1. ASSUME NEW k, k = Kinit(PGROUNDUP(End) + PGSIZE)
      PROVE  k \in Mems /\ k.free = Frames /\ k.panic = "none"
  <2> USE <1>1
  <2>1. PICK b, e, P : b = PageUp(End) /\ e = PHYSTOP \div PGSIZE /\ P = PGSIZE
    OBVIOUS
  <2>2. b \in Nat /\ e \in Int /\ P \in Nat \ {0} /\ b + 4 <= e /\ PHYSTOP \in Nat
        /\ e * P <= PHYSTOP /\ PHYSTOP < e * P + P
    <3>1. End \in Nat /\ PHYSTOP \in Nat /\ PGSIZE \in Nat \ {0} /\ KTABS \in Nat
      BY AddressAssumption, SMTT(60)
    <3>2. b \in Nat
      BY <2>1, <3>1, PageUpBelow
    <3>3. e \in Int /\ e * P <= PHYSTOP /\ PHYSTOP < e * P + P
      BY <2>1, <3>1, Division, SMTT(60)
    <3>4. e - b >= KTABS + 4
      BY <2>1, VmAssumption
    <3> QED
      BY <2>1, <3>1, <3>2, <3>3, <3>4, SMTT(60)
  <2>3. PICK mid : mid = PGROUNDUP(End) + PGSIZE
    OBVIOUS
  <2>4. b + 1 \in Nat /\ mid = (b + 1) * P
    BY <2>1, <2>2, <2>3, SMTT(60) DEF PGROUNDUP
  <2>5. PageUp(mid) = b + 1 /\ mid \div PGSIZE = b + 1
    BY <2>1, <2>4, WholePages
  <2>6. PICK S1 : S1 = {a \in PageUp(End) .. mid \div PGSIZE : (a + 1) * PGSIZE <= mid}
    OBVIOUS
  <2>7. PICK S2 : S2 = {a \in PageUp(mid) .. PHYSTOP \div PGSIZE : (a + 1) * PGSIZE <= PHYSTOP}
    OBVIOUS
  <2>8. S1 = {a \in b .. b + 1 : (a + 1) * P <= (b + 1) * P} /\ S2 = {a \in b + 1 .. e : (a + 1) * P <= PHYSTOP}
    BY <2>1, <2>4, <2>5, <2>6, <2>7
  <2>9. Frames = b .. e - 1
    BY <2>1 DEF Frames
  <2>10. S1 = {b}
    <3>1. ~((b + 1 + 1) * P <= (b + 1) * P)
      BY <2>2, SMTT(60)
    <3>2. (b + 1) * P <= (b + 1) * P /\ b \in b .. b + 1
      BY <2>2, SMTT(60)
    <3>3. \A a \in b .. b + 1 : a = b \/ a = b + 1
      BY <2>2, SMTT(60)
    <3> QED
      BY <2>8, <3>1, <3>2, <3>3, SMTT(60)
  <2>11. ASSUME NEW a \in b + 1 .. e PROVE (a + 1) * P <= PHYSTOP <=> a # e
    <3>1. CASE a = e
      BY <2>2, <3>1, SMTT(60)
    <3>2. CASE a # e
      <4>1. a \in Int /\ a < e
        BY <2>2, <2>11, <3>2, SMTT(60)
      <4>2. a * P + P <= e * P
        BY <2>2, <4>1, TimesLess
      <4>3. (a + 1) * P <= PHYSTOP
        BY <2>2, <4>1, <4>2, SMTT(60)
      <4> QED
        BY <3>2, <4>3, SMTT(60)
    <3> QED
      BY <3>1, <3>2, SMTT(60)
  <2>12. S2 = b + 1 .. e - 1
    <3>1. S2 = {a \in b + 1 .. e : a # e}
      BY <2>8, <2>11
    <3> QED
      BY <2>2, <3>1, SMTT(60)
  <2>13. S1 \cup S2 = Frames /\ S1 \subseteq Frames /\ S2 \subseteq Frames
    BY <2>2, <2>9, <2>10, <2>12, SMTT(60)
  <2>14. PICK f : f = [a \in Frames |-> "junk"]
    OBVIOUS
  <2>15. f \in [Frames -> Fillings]
    BY <2>14, SMTT(60) DEF Fillings
  <2>16. PICK n : n = [free |-> {}, left |-> 0, panic |-> "none", mem |-> f]
    OBVIOUS
  <2>17. n \in Mems /\ n.free = {} /\ n.panic = "none"
    <3>1. {} \in SUBSET Frames /\ 0 \in Nat
      BY SMTT(60)
    <3>2. "none" \in Panics
      BY DEF Panics
    <3> QED
      BY <2>15, <2>16, <3>1, <3>2 DEF Mems
  <2>18. PICK n1 : n1 = Kfree(n, S1)
    OBVIOUS
  <2>19. Given(n, S1, n1)
    BY <2>13, <2>17, <2>18, KfreeGives
  <2>20. k = Kfree(n1, S2)
    <3>1. n = [free |-> {}, left |-> 0, panic |-> "none", mem |-> [a \in PageUp(End) .. PHYSTOP \div PGSIZE - 1 |-> "junk"]]
      BY <2>14, <2>16 DEF Frames
    <3>2. k = Freerange(Freerange(n, End, mid), mid, PHYSTOP)
      BY <2>3, <3>1 DEF Kinit
    <3>3. Freerange(n, End, mid) = n1
      BY <2>6, <2>18 DEF Freerange
    <3>4. Freerange(n1, mid, PHYSTOP) = Kfree(n1, S2)
      BY <2>7 DEF Freerange
    <3> QED
      BY <3>2, <3>3, <3>4
  <2>21. Given(n1, S2, k)
    <3>1. n1 \in Mems
      BY <2>19 DEF Given
    <3> QED
      BY <2>13, <2>20, <3>1, KfreeGives
  <2>22. k \in Mems /\ k.panic = "none" /\ k.free = {} \cup S1 \cup S2
    BY <2>17, <2>19, <2>21 DEF Given
  <2> QED
    BY <2>13, <2>22, SMTT(60)
<1>2. ASSUME NEW n, NEW pd, NEW R, Holds(n, pd, R), NEW n2, Recounted(n, n2) PROVE Holds(n2, pd, R)
  BY <1>2 DEF Holds, Recounted
<1>3. ASSUME NEW n, NEW pd, NEW R, Holds(n, pd, R), \A v \in Vpns : pd.pte[v] = NoPte, Plenty(n, 2),
             NEW i, i = Inituvm(n, pd)
      PROVE  FirstPage(n, pd, R, i)
  <2> USE <1>3
  <2>1. n \in Mems /\ pd \in Pgdirs
    BY DEF Holds
  <2>2. PICK k : k = Kzalloc(n)
    OBVIOUS
  <2>3. Cleared(n, k)
    BY <2>1, <2>2, KzallocClears
  <2>4. k.page # 0 /\ Plenty(k.m, 1)
    <3>1. 1 \in Nat /\ 1 + 1 = 2
      BY SMTT(60)
    <3>2. Plenty(n, 1 + 1)
      BY <3>1, SMTT(60)
    <3> QED
      BY <2>1, <2>3, <3>1, <3>2, PlentyLess
  <2>5. PICK p : p = k.page
    OBVIOUS
  <2>6. /\ k.m \in Mems /\ k.m.panic = n.panic
        /\ p \in n.free /\ p \in Frames /\ p # 0 /\ k.m.free = n.free \ {p}
    BY <2>3, <2>4, <2>5 DEF Cleared
  <2>7. PICK Q : Q = R \ {p}
    OBVIOUS
  <2>8. Holds(k.m, pd, Q) /\ p \in R
    BY <2>6, <2>7, TakeFree
  <2>9. Q \cup {p} = R /\ p \notin Q
    BY <2>7, <2>8, SMTT(60)
  <2>10. PICK e : e = NewPte(p)
    OBVIOUS
  <2>11. e \in Ptes /\ e.pa = p
    BY <2>6, <2>10, NewPteFacts
  <2>12. PICK a : a = Mappage(k.m, pd, 0, e)
    OBVIOUS
  <2>13. 0 \in Vpns /\ pd.pte[0].pa = 0
    BY VpnFacts, NoPteFacts
  <2>14. Entered(k.m, pd, Q, 0, e, a)
    BY <2>6, <2>8, <2>9, <2>11, <2>12, <2>13, MappageEnters
  <2>15. k.m.left # 0 /\ k.m.free # {}
    <3>1. 1 <= k.m.left /\ 1 <= Cardinality(k.m.free) /\ Cardinality({}) = 0
      BY <2>4 DEF Plenty, Counting
    <3>2. k.m.left # 0 /\ Cardinality(k.m.free) # 0
      BY <3>1, SMTT(60)
    <3> QED
      BY <3>1, <3>2
  <2>16. a.ok
    BY <2>14, <2>15 DEF Entered
  <2>17. /\ a.m.panic = k.m.panic /\ Holds(a.m, a.pd, R) /\ a.pd.dir = pd.dir
         /\ a.pd.pte = [pd.pte EXCEPT ![0] = e]
    BY <2>9, <2>11, <2>14, <2>16 DEF Entered
  <2>18. a.pd.pte[0] = e /\ \A u \in Vpns : u # 0 => a.pd.pte[u] = pd.pte[u]
    <3>1. pd.pte \in [Vpns -> Ptes]
      BY <2>1, PdFields
    <3> QED
      BY <2>13, <2>17, <3>1, SMTT(60)
  <2>19. PICK x : x = a.m
    OBVIOUS
  <2>20. PICK y : y = [x EXCEPT !.mem[p] = "initcode"]
    OBVIOUS
  <2>21. x \in Mems /\ "initcode" \in Fillings
    BY <2>17, <2>19 DEF Holds, Fillings
  <2>22. Written(x, y) /\ y.mem[p] = "initcode"
    BY <2>6, <2>20, <2>21, WritePage, SMTT(60)
  <2>23. i = InitEnd(a, p)
    <3>1. (CHOOSE z \in {InitEnd(w, p) : w \in {a}} : TRUE) = InitEnd(a, p)
      BY SMTT(60)
    <3>2. InitMap(k, pd) = InitEnd(a, p)
      BY <2>5, <2>10, <2>12, <3>1 DEF InitMap, Let
    <3>3. (CHOOSE z \in {InitMap(w, pd) : w \in {k}} : TRUE) = InitMap(k, pd)
      BY SMTT(60)
    <3> QED
      BY <2>2, <3>2, <3>3 DEF Inituvm, Let, InitMap, InitEnd, NewPte
  <2>24. i.m = y /\ i.pd = a.pd
    <3>1. i = [m |-> y, pd |-> a.pd]
      BY <2>19, <2>20, <2>23 DEF InitEnd
    <3> QED
      BY <3>1, SMTT(60)
  <2>25. Holds(i.m, i.pd, R)
    BY <2>17, <2>19, <2>22, <2>24, WrittenHolds
  <2>26. PageUp(PGSIZE) = 1
    <3>1. 1 \in Nat /\ 1 * PGSIZE = PGSIZE
      BY UserPart, SMTT(60)
    <3> QED
      BY <3>1, WholePages
  <2>27. Spans(i.pd, PGSIZE)
    <3>1. \A v \in Vpns : v < 1 <=> v = 0
      BY VpnFacts, SMTT(60)
    <3>2. \A v \in Vpns : i.pd.pte[v].pa # 0 <=> v = 0
      BY <2>6, <2>11, <2>18, <2>24, NoPteFacts
    <3> QED
      BY <2>26, <3>1, <3>2 DEF Spans
  <2>28. i.m.mem[i.pd.pte[0].pa] = "initcode"
    BY <2>11, <2>18, <2>22, <2>24
  <2>29. i.m.panic = n.panic
    BY <2>6, <2>17, <2>19, <2>22, <2>24 DEF Written
  <2> QED
    BY <2>17, <2>24, <2>25, <2>27, <2>28, <2>29 DEF FirstPage
<1>4. PICK k : k = Kinit(PGROUNDUP(End) + PGSIZE)
  OBVIOUS
<1>5. k \in Mems /\ k.free = Frames /\ k.panic = "none"
  BY <1>4, <1>1
<1>6. PICK c : c = Cardinality(k.free)
  OBVIOUS
<1>7. c \in Nat /\ KTABS \in Nat /\ KTABS + 3 + 1 <= c
  <2>1. PICK b, e : b = PageUp(End) /\ e = PHYSTOP \div PGSIZE
    OBVIOUS
  <2>2. b \in Nat /\ e \in Int /\ KTABS \in Nat
    BY <2>1, AddressAssumption, PageUpBelow, Division, SMTT(60)
  <2>3. e - b >= KTABS + 4
    BY <2>1, VmAssumption
  <2>4. Frames = b .. e - 1
    BY <2>1 DEF Frames
  <2>5. Cardinality(b .. e - 1) = e - 1 - b + 1
    <3>1. e - 1 \in Int /\ b \in Int /\ b <= e - 1 + 1
      BY <2>2, <2>3, SMTT(60)
    <3> QED
      BY <3>1 DEF Counting
  <2>6. c = e - b
    BY <1>5, <1>6, <2>2, <2>3, <2>4, <2>5, SMTT(60)
  <2> QED
    BY <2>2, <2>3, <2>6, SMTT(60)
<1>8. PICK n : n = [k EXCEPT !.left = c]
  OBVIOUS
<1>9. n \in Mems /\ n.free = Frames /\ n.panic = "none" /\ n.left = c
  BY <1>5, <1>7, <1>8, SetLeft DEF Recounted
<1>10. PICK stack : stack = Kalloc(n)
  OBVIOUS
<1>11. Taken(n, stack)
  BY <1>9, <1>10, KallocTakes
<1>12. PICK d \in Nat : d = KTABS + 3
  BY <1>7, SMTT(60)
<1>13. Plenty(n, d + 1)
  <2>1. d + 1 <= c
    BY <1>7, <1>12, SMTT(60)
  <2> QED
    BY <1>5, <1>6, <1>9, <2>1 DEF Plenty
<1>14. stack.page # 0 /\ Plenty(stack.m, d)
  BY <1>9, <1>11, <1>13, PlentyLess
<1>15. /\ stack.m \in Mems /\ stack.m.panic = "none" /\ stack.page \in Frames
       /\ stack.m.free = Frames \ {stack.page}
  BY <1>9, <1>11, <1>14 DEF Taken
<1>16. PICK s : s = Setupkvm(stack.m)
  OBVIOUS
<1>17. Setting(stack.m, stack.m.free, KTABS, s)
  BY <1>15, <1>16, SetupkvmSets
<1>18. s.pd.dir # 0 /\ Plenty(s.m, 2)
  <2>1. 2 \in Nat /\ 2 + 1 + KTABS = d
    BY <1>7, <1>12, SMTT(60)
  <2>2. Plenty(stack.m, 2 + 1 + KTABS)
    BY <1>14, <2>1, SMTT(60)
  <2> QED
    BY <1>17, <2>1, <2>2 DEF Setting
<1>19. Holds(s.m, s.pd, stack.m.free) /\ s.m.panic = "none" /\ \A v \in Vpns : s.pd.pte[v] = NoPte
  BY <1>15, <1>17, <1>18, NoPgdirFacts DEF Setting
<1>20. PICK i : i = Inituvm(s.m, s.pd)
  OBVIOUS
<1>21. FirstPage(s.m, s.pd, stack.m.free, i)
  BY <1>18, <1>19, <1>20, <1>3
<1>22. PICK z : z = BootEnd(i, stack)
  OBVIOUS
<1>23. Booted = z
  <2>1. (CHOOSE y \in {BootEnd(w, stack) : w \in {i}} : TRUE) = BootEnd(i, stack)
    BY SMTT(60)
  <2>2. BootInit(s, stack) = z
    BY <1>20, <1>22, <2>1 DEF BootInit, Let
  <2>3. (CHOOSE y \in {BootInit(w, stack) : w \in {s}} : TRUE) = BootInit(s, stack)
    BY SMTT(60)
  <2>4. BootTables(stack) = z
    BY <1>16, <2>2, <2>3 DEF BootTables, Let
  <2>5. (CHOOSE y \in {BootTables(w) : w \in {stack}} : TRUE) = BootTables(stack)
    BY SMTT(60)
  <2>6. BootStack(k) = z
    BY <1>6, <1>8, <1>10, <2>4, <2>5 DEF BootStack, Let
  <2>7. (CHOOSE y \in {BootStack(w) : w \in {k}} : TRUE) = BootStack(k)
    BY SMTT(60)
  <2> QED
    BY <1>4, <2>6, <2>7 DEF Booted, Let, BootStack, BootTables, BootInit, BootEnd, FirstProc, Recount
<1>24. PICK x, pr : x = Recount(i.m) /\ pr = FirstProc(stack, i)
  OBVIOUS
<1>25. z.m = x /\ z.init = pr /\ z = [m |-> z.m, init |-> z.init]
  <2>1. z = [m |-> x, init |-> pr]
    BY <1>22, <1>24 DEF BootEnd
  <2> QED
    BY <2>1, SMTT(60)
<1>26. pr.pd = i.pd /\ pr = [state |-> "run", kstack |-> stack.page, pd |-> pr.pd, sz |-> PGSIZE]
  BY <1>24, SMTT(60) DEF FirstProc
<1>27. /\ Holds(i.m, i.pd, stack.m.free) /\ i.m.panic = "none" /\ i.pd.dir # 0
       /\ Spans(i.pd, PGSIZE) /\ i.m.mem[i.pd.pte[0].pa] = "initcode"
  BY <1>18, <1>19, <1>21 DEF FirstPage
<1>28. Recounted(i.m, x)
  <2>1. i.m \in Mems /\ 0 \in Nat
    BY <1>27, SMTT(60) DEF Holds
  <2> QED
    BY <1>24, <2>1, SetLeft DEF Recount
<1>29. Holds(x, i.pd, Frames \ {stack.page})
  BY <1>15, <1>27, <1>28, <1>2
<1>30. x \in Mems /\ x.panic = "none" /\ x.mem[i.pd.pte[0].pa] = "initcode"
  BY <1>27, <1>28 DEF Recounted
<1>31. BootedOk(x, pr, stack.page)
  BY <1>15, <1>26, <1>27, <1>29, <1>30 DEF BootedOk
<1> QED
  BY <1>23, <1>25, <1>31

-----------------------------------------------------------------------------
(* growproc *)

NoPages(pd) == \A v \in Vpns : pd.pte[v].pa = 0

\* growproc of a process with pages pd up to sz: the pages it keeps are as they
\* were, new ones are zero, and its size is the end of its pages, if it has any.
Resized(n, pd, sz, r) ==
    /\ r.m.panic = n.panic /\ Holds(r.m, r.pd, n.free \cup Held(pd)) /\ r.pd.dir = pd.dir
    /\ r.sz \in Nat /\ r.sz < KERNBASE /\ (Spans(r.pd, r.sz) \/ NoPages(r.pd))
    /\ \A x \in Frames \ (n.free \cup Held(pd)) : r.m.mem[x] = n.mem[x]
    /\ \A u \in Vpns : r.pd.pte[u].pa # 0 =>
          /\ u < PageUp(sz) => r.m.mem[r.pd.pte[u].pa] = n.mem[pd.pte[u].pa]
          /\ PageUp(sz) <= u => r.m.mem[r.pd.pte[u].pa] = "zero"

\* growproc with less, or the same.
LEMMA NatOrder == \A a, b \in Nat : a < b <=> ~(b <= a)
  BY SMTT(60)

\* growproc, of a process whose pages are those below its size.
LEMMA GrowprocResizes ==
    ASSUME Counting
    PROVE  \A n, p, pd : \A sz \in Nat : \A delta \in Int :
               /\ pd = proc[p].pd
               /\ sz = proc[p].sz
               /\ sz < KERNBASE
               /\ Holds(n, pd, n.free \cup Held(pd))
               /\ Spans(pd, sz)
               => Resized(n, pd, sz, Growproc(n, p, delta))
<1> DEFINE Sized(r, sz) == [r EXCEPT !.sz = Newsz(sz, r.sz)]
<1> HIDE DEF Sized
<1>1. ASSUME NEW r, r = [m |-> r.m, pd |-> r.pd, sz |-> r.sz], NEW sz
      PROVE  /\ Sized(r, sz) = [m |-> r.m, pd |-> r.pd, sz |-> Newsz(sz, r.sz)]
             /\ Sized(r, sz).m = r.m /\ Sized(r, sz).pd = r.pd /\ Sized(r, sz).sz = Newsz(sz, r.sz)
  <2> USE <1>1
  <2> DEFINE s == Newsz(sz, r.sz)
  <2> HIDE DEF s
  <2>1. Sized(r, sz) = [r EXCEPT !.sz = s]
    BY DEF Sized, s
  <2>2. [r EXCEPT !.sz = s] = [m |-> r.m, pd |-> r.pd, sz |-> s]
    BY SMTT(60)
  <2>3. Sized(r, sz).m = r.m /\ Sized(r, sz).pd = r.pd /\ Sized(r, sz).sz = s
    BY <2>1, <2>2, SMTT(60)
  <2> QED
    BY <2>1, <2>2, <2>3 DEF s
\* growproc with more memory.
<1>2. ASSUME NEW n, NEW pd, Holds(n, pd, n.free \cup Held(pd)), NEW sz \in Nat, sz < KERNBASE, Spans(pd, sz),
             NEW new \in Nat, NEW a, a = Allocuvm(n, pd, sz, new)
      PROVE  Resized(n, pd, sz, Sized(a, sz))
  <2> USE <1>2
  <2>1. PICK R : R = n.free \cup Held(pd)
    OBVIOUS
  <2>2. PICK c : c = PageUp(sz)
    OBVIOUS
  <2>3. c \in Nat /\ Vpns \subseteq Nat
    BY <2>2, PageUpBelow, VpnFacts
  <2>4. Extends(pd, pd, c, c)
    <3>1. \A u \in Vpns : c <= u => ~(u < c)
      BY <2>3, SMTT(60)
    <3> QED
      BY <2>2, <3>1 DEF Extends, Spans
  <2>5. Grown(n, pd, R, sz, new, a)
    BY <2>1, <2>2, <2>4, AllocuvmGrows
  <2>6. SpansTo(a, sz, new)
    BY <2>5, GrownSpans
  <2>7. /\ a = [m |-> a.m, pd |-> a.pd, sz |-> a.sz]
        /\ Holds(a.m, a.pd, R) /\ a.m.panic = n.panic /\ a.pd.dir = pd.dir /\ Kept(n, a.m, pd, R, c)
    BY <2>2, <2>5 DEF Grown
  <2>8. PICK r : r = Sized(a, sz)
    OBVIOUS
  <2>9. r.m = a.m /\ r.pd = a.pd /\ r.sz = Newsz(sz, a.sz)
    BY <2>7, <2>8, <1>1
  <2>10. r.sz \in Nat /\ r.sz < KERNBASE /\ Spans(r.pd, r.sz)
    <3>1. a.sz \in Nat
      BY <2>6 DEF SpansTo
    <3>2. CASE a.sz = 0 /\ Spans(a.pd, sz)
      BY <2>9, <3>2 DEF Newsz
    <3>3. CASE new < sz /\ a.sz = sz /\ Spans(a.pd, sz)
      BY <2>9, <3>3 DEF Newsz
    <3>4. CASE new < KERNBASE /\ sz <= new /\ a.sz = new /\ Spans(a.pd, new)
      <4>1. CASE new = 0
        <5>1. sz = 0
          BY <3>4, <4>1, SMTT(60)
        <5> QED
          BY <2>9, <3>4, <4>1, <5>1 DEF Newsz
      <4>2. CASE new # 0
        BY <2>9, <3>4, <4>2 DEF Newsz
      <4> QED
        BY <4>1, <4>2
    <3> QED
      BY <2>6, <3>2, <3>3, <3>4 DEF SpansTo
  <2>11. \A x \in Frames \ R : a.m.mem[x] = n.mem[x]
    BY <2>7 DEF Kept
  <2>12. ASSUME NEW u \in Vpns, a.pd.pte[u].pa # 0
         PROVE  /\ u < c => a.m.mem[a.pd.pte[u].pa] = n.mem[pd.pte[u].pa]
                /\ c <= u => a.m.mem[a.pd.pte[u].pa] = "zero"
    <3>1. u < c => pd.pte[u].pa # 0
      BY <2>2 DEF Spans
    <3>2. u < c => a.m.mem[pd.pte[u].pa] = n.mem[pd.pte[u].pa]
      BY <2>7, <3>1 DEF Kept
    <3>3. u < c => a.pd.pte[u] = pd.pte[u]
      <4>1. CASE Extends(pd, a.pd, PageUp(sz), PageUp(sz)) \/ Extends(pd, a.pd, PageUp(sz), PageUp(new))
        BY <2>2, <4>1 DEF Extends
      <4>2. CASE a.pd = pd
        BY <4>2
      <4> QED
        BY <2>5, <4>1, <4>2 DEF Grown
    <3>4. ASSUME c <= u PROVE a.m.mem[a.pd.pte[u].pa] = "zero"
      <4>1. CASE Extends(pd, a.pd, PageUp(sz), PageUp(sz))
        BY <2>2, <2>12, <3>4, <4>1 DEF Extends
      <4>2. CASE a.pd = pd
        <5>1. ~(u < c)
          BY <2>3, <3>4, SMTT(60)
        <5> QED
          BY <2>2, <2>12, <4>2, <5>1 DEF Spans
      <4>3. CASE /\ Extends(pd, a.pd, PageUp(sz), PageUp(new))
                 /\ \A w \in Vpns : PageUp(sz) <= w /\ w < PageUp(new) =>
                       a.pd.pte[w].pa # 0 /\ a.m.mem[a.pd.pte[w].pa] = "zero"
        <5>1. PageUp(new) \in Nat
          BY PageUpBelow
        <5>2. u < PageUp(new) \/ PageUp(new) <= u
          BY <2>3, <5>1, SMTT(60)
        <5>3. CASE PageUp(new) <= u
          BY <2>2, <2>12, <3>4, <4>3, <5>3 DEF Extends
        <5>4. CASE u < PageUp(new)
          BY <2>2, <3>4, <4>3, <5>4
        <5> QED
          BY <5>2, <5>3, <5>4
      <4> QED
        BY <2>5, <4>1, <4>2, <4>3 DEF Grown
    <3> QED
      BY <3>2, <3>3, <3>4
  <2> QED
    BY <2>1, <2>2, <2>7, <2>8, <2>9, <2>10, <2>11, <2>12 DEF Resized
<1>3. ASSUME NEW n, NEW pd, Holds(n, pd, n.free \cup Held(pd)), NEW sz \in Nat, sz < KERNBASE, Spans(pd, sz),
             NEW r, r.m = n, r.pd = pd, r.sz = sz
      PROVE  Resized(n, pd, sz, r)
  <2> USE <1>3
  <2>1. PageUp(sz) \in Nat /\ Vpns \subseteq Nat
    BY PageUpBelow, VpnFacts
  <2>2. \A u \in Vpns : u < PageUp(sz) => ~(PageUp(sz) <= u)
    BY <2>1, NatOrder
  <2>3. ASSUME NEW u \in Vpns, r.pd.pte[u].pa # 0
        PROVE  /\ u < PageUp(sz) => r.m.mem[r.pd.pte[u].pa] = n.mem[pd.pte[u].pa]
               /\ PageUp(sz) <= u => r.m.mem[r.pd.pte[u].pa] = "zero"
    <3>1. u < PageUp(sz)
      BY <2>3 DEF Spans
    <3>2. ~(PageUp(sz) <= u)
      BY <2>2, <3>1
    <3>3. r.m.mem[r.pd.pte[u].pa] = n.mem[pd.pte[u].pa]
      OBVIOUS
    <3> QED
      BY <3>2, <3>3
  <2>4. Holds(r.m, r.pd, n.free \cup Held(pd)) /\ Spans(r.pd, r.sz) /\ r.sz \in Nat /\ r.sz < KERNBASE
    OBVIOUS
  <2>5. r.m.panic = n.panic /\ r.pd.dir = pd.dir /\ \A x \in Frames \ (n.free \cup Held(pd)) : r.m.mem[x] = n.mem[x]
    OBVIOUS
  <2> QED
    BY <2>3, <2>4, <2>5 DEF Resized
<1>4. ASSUME NEW n, NEW pd, Holds(n, pd, n.free \cup Held(pd)), NEW sz \in Nat, sz < KERNBASE, Spans(pd, sz),
             NEW new \in Nat, NEW d, d = Deallocuvm(n, pd, sz, new)
      PROVE  Resized(n, pd, sz, Sized(d, sz)) /\ d = [m |-> d.m, pd |-> d.pd, sz |-> d.sz]
  <2> USE <1>4
  <2>1. d = [m |-> d.m, pd |-> d.pd, sz |-> d.sz]
    BY SMTT(60) DEF Deallocuvm
  <2>2. PICK r : r = Sized(d, sz)
    OBVIOUS
  <2>3. r.m = d.m /\ r.pd = d.pd /\ r.sz = Newsz(sz, d.sz)
    BY <2>1, <2>2, <1>1
  <2>4. CASE new >= sz
    <3>1. d = [m |-> n, pd |-> pd, sz |-> sz]
      BY <2>4 DEF Deallocuvm
    <3>2. d.m = n /\ d.pd = pd /\ d.sz = sz
      BY <3>1, SMTT(60)
    <3>3. r.sz = sz
      BY <2>3, <3>2 DEF Newsz
    <3>4. Resized(n, pd, sz, r)
      BY <2>3, <3>2, <3>3, <1>3
    <3> QED
      BY <2>1, <2>2, <3>4
  <2>5. CASE new < sz
    <3>1. PICK R : R = n.free \cup Held(pd)
      OBVIOUS
    <3>2. PICK lo, hi : lo = PageUp(new) /\ hi = PageUp(sz)
      OBVIOUS
    <3>3. lo \in Nat /\ hi \in Nat /\ Vpns \subseteq Nat
      BY <3>2, PageUpBelow, VpnFacts
    <3>4. Shrunk(n, pd, R, lo, hi, d) /\ d.sz = new
      BY <2>5, <3>1, <3>2, DeallocuvmShrinks
    <3>5. /\ Holds(d.m, d.pd, R) /\ d.m.panic = n.panic /\ d.pd.dir = pd.dir
          /\ \A v \in Vpns : d.pd.pte[v] = IF lo <= v /\ v < hi THEN NoPte ELSE pd.pte[v]
          /\ \A x \in Frames : (\A v \in Vpns : lo <= v /\ v < hi => pd.pte[v].pa # x) => d.m.mem[x] = n.mem[x]
      BY <3>4 DEF Shrunk
    <3>6. Spans(d.pd, new)
      <4>1. lo <= hi
        BY <2>5, <3>2, PageUpOrder, SMTT(60)
      <4>2. \A v \in Vpns : v < lo => v < hi /\ ~(lo <= v)
        BY <3>3, <4>1, SMTT(60)
      <4>3. \A v \in Vpns : lo <= v \/ v < lo
        BY <3>3, SMTT(60)
      <4>4. ASSUME NEW v \in Vpns PROVE d.pd.pte[v].pa # 0 <=> v < lo
        <5>1. CASE v < lo
          BY <3>2, <3>5, <4>2, <5>1 DEF Spans
        <5>2. CASE lo <= v
          <6>1. ~(v < lo)
            BY <3>3, <5>2, SMTT(60)
          <6>2. CASE v < hi
            BY <3>5, <5>2, <6>1, <6>2, NoPteFacts
          <6>3. CASE ~(v < hi)
            BY <3>2, <3>5, <6>1, <6>3 DEF Spans
          <6> QED
            BY <6>2, <6>3
        <5> QED
          BY <4>3, <5>1, <5>2
      <4> QED
        BY <3>2, <4>4 DEF Spans
    <3>7. r.sz \in Nat /\ r.sz < KERNBASE /\ (Spans(r.pd, r.sz) \/ NoPages(r.pd))
      <4>1. CASE new = 0
        <5>1. lo = 0
          <6>1. ~(0 < lo)
            <7>1. ~(0 * PGSIZE < 0)
              BY UserPart, SMTT(60)
            <7> QED
              BY <3>2, <4>1, <7>1, PageUpBelow, SMTT(60)
          <6> QED
            BY <3>3, <6>1, SMTT(60)
        <5>2. \A v \in Vpns : ~(v < lo)
          BY <3>3, <5>1, SMTT(60)
        <5> QED
          BY <2>3, <3>2, <3>4, <3>6, <4>1, <5>2 DEF Newsz, NoPages, Spans
      <4>2. CASE new # 0
        <5>1. new < KERNBASE
          BY <2>5, UserPart, SMTT(60)
        <5> QED
          BY <2>3, <3>4, <3>6, <4>2, <5>1 DEF Newsz
      <4> QED
        BY <4>1, <4>2
    <3>8. pd \in Pgdirs /\ Distinct(pd)
      BY DEF Holds
    <3>9. ASSUME NEW x \in Frames \ R PROVE d.m.mem[x] = n.mem[x]
      <4>1. \A v \in Vpns : pd.pte[v].pa # x
        BY <3>1, <3>9, FrameFacts, InHeld
      <4> QED
        BY <3>5, <3>9, <4>1
    <3>10. ASSUME NEW u \in Vpns, d.pd.pte[u].pa # 0
           PROVE  /\ u < hi => d.m.mem[d.pd.pte[u].pa] = n.mem[pd.pte[u].pa]
                  /\ hi <= u => d.m.mem[d.pd.pte[u].pa] = "zero"
      <4>1. u < lo
        BY <3>2, <3>6, <3>10 DEF Spans
      <4>2. u < hi /\ ~(lo <= u) /\ ~(hi <= u)
        <5>1. lo <= hi
          BY <2>5, <3>2, PageUpOrder, SMTT(60)
        <5> QED
          BY <3>3, <4>1, <5>1, SMTT(60)
      <4>3. d.pd.pte[u] = pd.pte[u]
        BY <3>5, <4>2
      <4>4. pd.pte[u].pa # 0 /\ pd.pte[u].pa \in Frames
        BY <3>8, <3>10, <4>3, PdFields, SMTT(60)
      <4>5. \A v \in Vpns : lo <= v /\ v < hi => pd.pte[v].pa # pd.pte[u].pa
        BY <3>8, <4>2, <4>4 DEF Distinct
      <4>6. d.m.mem[pd.pte[u].pa] = n.mem[pd.pte[u].pa]
        BY <3>5, <4>4, <4>5
      <4> QED
        BY <4>2, <4>3, <4>6
    <3>11. Resized(n, pd, sz, r)
      BY <2>3, <3>1, <3>2, <3>5, <3>7, <3>9, <3>10 DEF Resized
    <3> QED
      BY <2>1, <2>2, <3>11
  <2>6. new >= sz \/ new < sz
    BY SMTT(60)
  <2> QED
    BY <2>4, <2>5, <2>6
<1>5. ASSUME NEW n, NEW p, NEW pd, pd = proc[p].pd, NEW sz \in Nat, sz = proc[p].sz, sz < KERNBASE,
             Holds(n, pd, n.free \cup Held(pd)), Spans(pd, sz), NEW delta \in Int
      PROVE  Resized(n, pd, sz, Growproc(n, p, delta))
  <2> USE <1>5
  <2>1. PICK new : new = (sz + delta) % Wrap
    OBVIOUS
  <2>2. new \in Nat
    <3>1. Wrap \in Nat \ {0}
      BY UserPart, SMTT(60) DEF Wrap
    <3> QED
      BY <2>1, <3>1, SMTT(60)
  <2>3. ASSUME NEW x, x = IF delta > 0 THEN Allocuvm(n, pd, sz, new)
                          ELSE IF delta < 0 THEN Deallocuvm(n, pd, sz, new)
                          ELSE [m |-> n, pd |-> pd, sz |-> sz]
        PROVE  Growproc(n, p, delta) = Sized(x, sz)
    <3>1. (CHOOSE y \in {Sized(w, sz) : w \in {x}} : TRUE) = Sized(x, sz)
      BY SMTT(60)
    <3> QED
      BY <2>1, <2>3, <3>1 DEF Growproc, Let, Sized
  <2>4. CASE delta > 0
    <3>1. PICK a : a = Allocuvm(n, pd, sz, new)
      OBVIOUS
    <3>2. Growproc(n, p, delta) = Sized(a, sz)
      BY <2>3, <2>4, <3>1
    <3>3. Resized(n, pd, sz, Sized(a, sz))
      BY <2>2, <3>1, <1>2
    <3> QED
      BY <3>2, <3>3
  <2>5. CASE ~(delta > 0) /\ delta < 0
    <3>1. PICK d : d = Deallocuvm(n, pd, sz, new)
      OBVIOUS
    <3>2. Growproc(n, p, delta) = Sized(d, sz)
      BY <2>3, <2>5, <3>1
    <3>3. Resized(n, pd, sz, Sized(d, sz))
      BY <2>2, <3>1, <1>4
    <3> QED
      BY <3>2, <3>3
  <2>6. CASE ~(delta > 0) /\ ~(delta < 0)
    <3>1. PICK x : x = [m |-> n, pd |-> pd, sz |-> sz]
      OBVIOUS
    <3>2. Growproc(n, p, delta) = Sized(x, sz)
      BY <2>3, <2>6, <3>1
    <3>3. x.m = n /\ x.pd = pd /\ x.sz = sz /\ x = [m |-> x.m, pd |-> x.pd, sz |-> x.sz]
      BY <3>1, SMTT(60)
    <3>4. PICK y : y = Sized(x, sz)
      OBVIOUS
    <3>5. y.m = n /\ y.pd = pd /\ y.sz = sz
      BY <3>3, <3>4, <1>1 DEF Newsz
    <3>6. Resized(n, pd, sz, y)
      BY <3>5, <1>3
    <3> QED
      BY <3>2, <3>4, <3>6
  <2> QED
    BY <2>4, <2>5, <2>6
<1> QED
  BY <1>5
=============================================================================
