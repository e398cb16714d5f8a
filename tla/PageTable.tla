----------------------------- MODULE PageTable -----------------------------
(***************************************************************************)
(* Physical pages (kalloc.c) and page tables (vm.c).  Every operator takes *)
(* the memory m and the page table pd a kernel thread works on, and        *)
(* returns both changed.                                                   *)
(*                                                                         *)
(* Addresses count units of PGSIZE to a page.  A page table has a          *)
(* directory, KTABS tables for the kernel's part, and for the user part    *)
(* tables of NPT entries each.  m.left is how many calls of kalloc find a  *)
(* page: other CPUs may be holding the rest at that moment.                *)
(***************************************************************************)
EXTENDS Integers, Sequences, FiniteSetsExt

CONSTANTS PGSIZE, KERNBASE, NPT, KTABS,
          KMapped,          \* the kernel's pages that its tables cover (kmap)
          End, PHYSTOP      \* the physical memory after the kernel, and what it
                            \* keeps from boot on (kpgdir, the CPUs' stacks)

ASSUME AddressAssumption ==
    /\ {PGSIZE, KERNBASE, NPT, End, PHYSTOP} \subseteq Nat \ {0} /\ KTABS \in Nat
    /\ KERNBASE % PGSIZE = 0 /\ PGSIZE < KERNBASE

PageUp(a) == (a + PGSIZE - 1) \div PGSIZE
PGROUNDUP(a) == PageUp(a) * PGSIZE
Wrap == 2 * KERNBASE         \* 2^32: half of the addresses are the kernel's

Vpns == 0 .. KERNBASE \div PGSIZE - 1
Tables == {v \div NPT : v \in Vpns}
NoPte == [pa |-> 0, user |-> FALSE]
NoPgdir == [dir |-> 0, ktab |-> {}, tab |-> [t \in Tables |-> 0], pte |-> [v \in Vpns |-> NoPte]]

\* Continue with the value of r, which TLC computes once.
Let(r, F(_)) == CHOOSE x \in {F(v) : v \in {r}} : TRUE

Panic(m, why) == [m EXCEPT !.panic = why]

-----------------------------------------------------------------------------
(* Pages *)

\* kfree of each page in S: junk, back on the list.
Kfree(m, S) ==
    IF S \subseteq DOMAIN m.mem
    THEN [m EXCEPT !.free = @ \cup S,
                   !.mem = [a \in DOMAIN @ |-> IF a \in S THEN "junk" ELSE @[a]]]
    ELSE Panic(m, "kfree")

\* kalloc: a page, or 0.  Which page the list holds first makes no difference.
Kalloc(m) ==
    IF m.left = 0 \/ m.free = {} THEN [m |-> m, page |-> 0]
    ELSE [m |-> [m EXCEPT !.free = @ \ {Min(@)}, !.left = @ - 1], page |-> Min(m.free)]

\* kalloc and memset.
Kzalloc(m) ==
    Let(Kalloc(m), LAMBDA k :
        IF k.page = 0 THEN k ELSE [k EXCEPT !.m.mem[k.page] = "zero"])

\* freerange: the pages wholly inside.
Freerange(m, vstart, vend) ==
    Kfree(m, {a \in PageUp(vstart) .. vend \div PGSIZE : (a + 1) * PGSIZE <= vend})

\* kinit1 with the kernel's first map, kinit2 with the rest: mid is aligned.
Kinit(mid) ==
    LET none == [free |-> {}, left |-> 0, panic |-> "none",
                 mem |-> [a \in PageUp(End) .. PHYSTOP \div PGSIZE - 1 |-> "junk"]]
    IN  Freerange(Freerange(none, End, mid), mid, PHYSTOP)

-----------------------------------------------------------------------------
(* Page tables *)

\* mappages of one page, with walkpgdir: the table of v is made if need be.
Mappage(m, pd, v, pte) ==
    LET t == v \div NPT IN
    Let(IF pd.tab[t] # 0 THEN [m |-> m, page |-> pd.tab[t]] ELSE Kzalloc(m), LAMBDA k :
        [m |-> IF pd.pte[v].pa # 0 THEN Panic(k.m, "remap") ELSE k.m,
         pd |-> IF k.page = 0 THEN pd ELSE [pd EXCEPT !.tab[t] = k.page, !.pte[v] = pte],
         ok |-> k.page # 0])

\* The pages deallocuvm passes from newsz to oldsz.
Gone(pd, oldsz, newsz) == {v \in Vpns : PGROUNDUP(newsz) <= v * PGSIZE /\ v * PGSIZE < oldsz}

\* deallocuvm: an entry that is present has a page.
Deallocuvm(m, pd, oldsz, newsz) ==
    LET gone == Gone(pd, oldsz, newsz) IN
    IF newsz >= oldsz THEN [m |-> m, pd |-> pd, sz |-> oldsz]
    ELSE [m |-> IF \E v \in gone : pd.pte[v].pa = 0 /\ pd.pte[v].user THEN Panic(m, "kfree")
                ELSE Kfree(m, {pd.pte[v].pa : v \in gone} \ {0}),
          sz |-> newsz,
          pd |-> [pd EXCEPT !.pte = [v \in Vpns |-> IF v \in gone THEN NoPte ELSE @[v]]]]

\* allocuvm: the new size, or 0 with everything it took given back.
Allocuvm(m, pd, oldsz, newsz) ==
    LET back(r) == Let(Deallocuvm(r.m, r.pd, newsz, oldsz), LAMBDA d :
                       [m |-> d.m, pd |-> d.pd, sz |-> 0])
        grow[v \in PageUp(oldsz) - 1 .. PageUp(newsz) - 1] ==
            IF v = PageUp(oldsz) - 1 THEN [m |-> m, pd |-> pd, sz |-> newsz]
            ELSE Let(grow[v - 1], LAMBDA r :
                 IF r.sz = 0 THEN r
                 ELSE Let(Kzalloc(r.m), LAMBDA k :
                 IF k.page = 0 THEN back([r EXCEPT !.m = k.m])
                 ELSE Let(Mappage(k.m, r.pd, v, [pa |-> k.page, user |-> TRUE]), LAMBDA a :
                 IF a.ok THEN [m |-> a.m, pd |-> a.pd, sz |-> newsz]
                 ELSE Let(back(a), LAMBDA b : [b EXCEPT !.m = Kfree(b.m, {k.page})]))))
    IN  IF newsz >= KERNBASE THEN [m |-> m, pd |-> pd, sz |-> 0]
        ELSE IF newsz < oldsz THEN [m |-> m, pd |-> pd, sz |-> oldsz]
        ELSE grow[PageUp(newsz) - 1]

MutantUserTables(pd) == {pd.tab[t] : t \in Tables \ {0}}
UserTables(pd) == {pd.tab[t] : t \in Tables}

\* freevm: the user's pages, every table and the directory.
Freevm(m, pd) ==
    IF pd.dir = 0 THEN Panic(m, "freevm: no pgdir")
    ELSE Let(Deallocuvm(m, pd, KERNBASE, 0), LAMBDA d :
             Kfree(d.m, (UserTables(d.pd) \cup d.pd.ktab \cup {d.pd.dir}) \ {0}))

\* setupkvm: no directory (dir = 0) when the memory does not suffice.
Setupkvm(m) ==
    LET map[i \in 0 .. KTABS] ==
            IF i = 0 THEN Let(Kzalloc(m), LAMBDA k :
                              [m |-> k.m, pd |-> [NoPgdir EXCEPT !.dir = k.page]])
            ELSE Let(map[i - 1], LAMBDA r :
                 IF r.pd.dir = 0 THEN r
                 ELSE Let(Kzalloc(r.m), LAMBDA k :
                 IF k.page = 0 THEN [m |-> Freevm(k.m, r.pd), pd |-> NoPgdir]
                 ELSE [m |-> k.m, pd |-> [r.pd EXCEPT !.ktab = @ \cup {k.page}]]))
    IN  map[KTABS]

\* inituvm: initcode in page 0; it does not look at the results.
Inituvm(m, pd) ==
    Let(Kzalloc(m), LAMBDA k :
    Let(Mappage(k.m, pd, 0, [pa |-> k.page, user |-> TRUE]), LAMBDA a :
        [m |-> [a.m EXCEPT !.mem[k.page] = "initcode"], pd |-> a.pd]))

MutantCopied(m, page, pa) == m
Copied(m, page, pa) == [m EXCEPT !.mem[page] = m.mem[pa]]

\* copyuvm: a copy of the pages below sz, or no directory.
Copyuvm(m, pd, sz) ==
    LET none(r) == [m |-> Freevm(r.m, r.pd), pd |-> NoPgdir]
        copy[v \in -1 .. PageUp(sz) - 1] ==
            IF v = -1 THEN Setupkvm(m)
            ELSE Let(copy[v - 1], LAMBDA r :
                 IF r.pd.dir = 0 THEN r
                 ELSE IF pd.pte[v].pa = 0
                 THEN [r EXCEPT !.m = Panic(@, "copyuvm")]
                 ELSE Let(Kalloc(r.m), LAMBDA k :
                 IF k.page = 0 THEN none([r EXCEPT !.m = k.m])
                 ELSE Let(Mappage(Copied(k.m, k.page, pd.pte[v].pa), r.pd, v,
                                  [pd.pte[v] EXCEPT !.pa = k.page]), LAMBDA a :
                 IF a.ok THEN [m |-> a.m, pd |-> a.pd]
                 ELSE none([m |-> Kfree(a.m, {k.page}), pd |-> a.pd]))))
    IN  copy[PageUp(sz) - 1]

Clearpteu(m, pd, uva) ==
    IF pd.tab[(uva \div PGSIZE) \div NPT] = 0 THEN [m |-> Panic(m, "clearpteu"), pd |-> pd]
    ELSE [m |-> m, pd |-> [pd EXCEPT !.pte[uva \div PGSIZE].user = FALSE]]

\* Set the pages in V, of which some may be missing, to val.
Fill(m, pd, V, val) ==
    [m EXCEPT !.mem = [a \in DOMAIN @ |-> IF \E v \in V : pd.pte[v].pa = a THEN val ELSE @[a]]]

PagesOf(va, len) == {a \div PGSIZE : a \in va .. va + len - 1}

\* uva2ka gives the page of an entry that is the user's.  It reads the entry
\* walkpgdir found without asking whether there is a table to hold it.
User(pd, v) == v \in Vpns /\ pd.pte[v].pa # 0 /\ pd.pte[v].user
HasTable(pd, v) == IF v \in Vpns THEN pd.tab[v \div NPT] # 0 ELSE v \in KMapped

\* copyout: page after page up to one that is not the user's; stray when that
\* one has no table.
Copyout(m, pd, va, len, val) ==
    LET all == PagesOf(va, len)
        done == {v \in all : \A u \in all : u <= v => User(pd, u)}
    IN  [m |-> Fill(m, pd, done, val), ok |-> done = all,
         stray |-> done # all /\ ~HasTable(pd, Min(all \ done))]

\* loaduvm of sz units, of which the file has avail.
Loaduvm(m, pd, addr, sz, avail, val) ==
    LET all == PagesOf(addr, sz)
        read == {v \in all : \A a \in addr .. addr + sz - 1 : a \div PGSIZE <= v => a < addr + avail}
    IN  [m |-> IF \A v \in all : pd.tab[v \div NPT] # 0 THEN Fill(m, pd, read, val)
               ELSE Panic(m, "loaduvm"),
         ok |-> read = all]
=============================================================================
