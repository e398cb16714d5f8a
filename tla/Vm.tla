--------------------------------- MODULE Vm ---------------------------------
(***************************************************************************)
(* The memory of processes: exec, fork, growproc, exit and wait, and the   *)
(* checks of system call arguments that let the kernel use user memory.    *)
(*                                                                         *)
(* A page table belongs to one process, or to the call that is making it,  *)
(* so a call is one step; what other CPUs do during it shows only in the   *)
(* pages kalloc finds, and every number of them is tried.                  *)
(*                                                                         *)
(* Three calls can make the kernel use an entry or an address that nothing *)
(* has checked: exec, getpinfo and an sbrk that gives up all of the memory *)
(* (Fault).  What happens then depends on the bytes found there; the model *)
(* stops at that point and says nothing of what follows.                   *)
(***************************************************************************)
EXTENDS PageTable

CONSTANTS NPROC, MAXARG,
          Programs,     \* segs, args, argc and tag: the segments of an ELF file,
                        \* the arguments' size and number, and the contents
          PtrSize, StatSize, \* what getpinfo's check covers, and what it writes
          Values,       \* what processes store
          NoSpace       \* the abstract space of an unused slot

\* The fields of an ELF header are words, an argument comes from the memory of a
\* process, and the kernel boots: there are pages for the first process.
ASSUME VmAssumption ==
    /\ NPROC \in Nat \ {0}
    /\ PHYSTOP \div PGSIZE - PageUp(End) >= KTABS + 4
    /\ \A prog \in Programs :
          /\ prog.segs \in Seq([vaddr : 0 .. Wrap - 1, memsz : 0 .. Wrap - 1,
                                filesz : 0 .. Wrap - 1, avail : Nat])
          /\ prog.args \in 1 .. KERNBASE

\* What a page can hold, and that no memory of a process is NoSpace.
Fillings == {"junk", "zero", "initcode", "args"} \cup Values \cup {prog.tag : prog \in Programs}

ASSUME SpaceAssumption == \A n \in 0 .. KERNBASE \div PGSIZE : NoSpace \notin [1 .. n -> Fillings]

VARIABLES m,            \* physical memory
          proc,         \* the process table: state, kstack, pd and sz
          fault         \* the unchecked access the kernel has made, or "none"

vmVars == <<m, proc, fault>>

Procs == 1 .. NPROC
Unused == [state |-> "unused", kstack |-> 0, pd |-> NoPgdir, sz |-> 0]

\* main and userinit: kinit1, kinit2, the stack and page table of initcode.
Booted ==
    Let(Kinit(PGROUNDUP(End) + PGSIZE), LAMBDA k :
    Let(Kalloc([k EXCEPT !.left = Cardinality(k.free)]), LAMBDA stack :
    Let(Setupkvm(stack.m), LAMBDA s :
    Let(Inituvm(s.m, s.pd), LAMBDA i :
        [m |-> [i.m EXCEPT !.left = 0],
         init |-> [state |-> "run", kstack |-> stack.page, pd |-> i.pd, sz |-> PGSIZE]]))))

VmInit ==
    /\ fault = "none"
    /\ \E b \in {Booted} : m = b.m /\ proc = [p \in Procs |-> IF p = 1 THEN b.init ELSE Unused]

Mapped(p, v) == v \in Vpns /\ proc[p].pd.pte[v].pa # 0

Up == m.panic = "none" /\ fault = "none"

\* p runs user code: a process that has given up its first page faults at its
\* next instruction (see Sbrk for the one that does not).
Runs(p) == Up /\ proc[p].state = "run" /\ Mapped(p, 0)

\* The memory as a call finds it.
Memories == {[m EXCEPT !.left = n] : n \in 0 .. Cardinality(m.free)}
Done(n) == m' = [n EXCEPT !.left = 0] /\ UNCHANGED fault

Fault(why) == fault' = why /\ UNCHANGED <<m, proc>>

-----------------------------------------------------------------------------
(* System calls *)

\* allocproc takes a stack; then copyuvm.
Forked(n, p) ==
    Let(Kalloc(n), LAMBDA k :
    IF k.page = 0 THEN [m |-> k.m, np |-> Unused]
    ELSE Let(Copyuvm(k.m, proc[p].pd, proc[p].sz), LAMBDA c :
    IF c.pd.dir = 0 THEN [m |-> Kfree(c.m, {k.page}), np |-> Unused]
    ELSE [m |-> c.m, np |-> [state |-> "run", kstack |-> k.page, pd |-> c.pd, sz |-> proc[p].sz]]))

Fork(p) ==
    /\ Runs(p)
    /\ \E q \in Procs : /\ proc[q] = Unused /\ \A r \in 1 .. q - 1 : proc[r] # Unused
                        /\ \E n \in Memories : \E f \in {Forked(n, p)} :
                               Done(f.m) /\ proc' = [proc EXCEPT ![q] = f.np]

MutantNewsz(sz, got) == got

\* The size after allocuvm or deallocuvm returned got: 0 counts as failure.
Newsz(sz, got) == IF got = 0 THEN sz ELSE got

\* growproc.
Growproc(n, p, delta) ==
    LET sz == proc[p].sz
        new == (sz + delta) % Wrap
    IN  Let(IF delta > 0 THEN Allocuvm(n, proc[p].pd, sz, new)
            ELSE IF delta < 0 THEN Deallocuvm(n, proc[p].pd, sz, new)
            ELSE [m |-> n, pd |-> proc[p].pd, sz |-> sz], LAMBDA r :
            [r EXCEPT !.sz = Newsz(sz, r.sz)])

\* growproc returns -1 on the size 0, before switchuvm, the only flush of the
\* TLB: the pages are free, and p may run on with the translations the CPU has.
Sbrk(p, delta) ==
    /\ Runs(p)
    /\ \E n \in Memories : \E r \in {Growproc(n, p, delta)} :
           \/ Done(r.m) /\ proc' = [proc EXCEPT ![p].pd = r.pd, ![p].sz = r.sz]
           \/ r.pd.pte[0].pa = 0 /\ Fault("sbrk")

\* One segment of the file, after those before it.
Segment(r, prog, seg) ==
    LET end == (seg.vaddr + seg.memsz) % Wrap IN
    IF ~r.ok \/ seg.memsz < seg.filesz \/ end < seg.vaddr THEN [r EXCEPT !.ok = FALSE]
    ELSE Let(Allocuvm(r.m, r.pd, r.sz, end), LAMBDA a :
    IF a.sz = 0 \/ seg.vaddr % PGSIZE # 0 THEN [m |-> a.m, pd |-> a.pd, sz |-> a.sz, ok |-> FALSE]
    ELSE Let(Loaduvm(a.m, a.pd, seg.vaddr, seg.filesz, seg.avail, prog.tag), LAMBDA l :
             [m |-> l.m, pd |-> a.pd, sz |-> a.sz, ok |-> l.ok]))

\* The page below the stack is made inaccessible.
Guard(n, pd, sz) == Clearpteu(n, pd, sz - 2 * PGSIZE)

\* Two pages for the stack and the arguments; sp can pass below 0.
Stack(r, prog) ==
    IF ~r.ok THEN [m |-> r.m, pd |-> r.pd, sz |-> r.sz, ok |-> FALSE, stray |-> FALSE]
    ELSE Let(Allocuvm(r.m, r.pd, PGROUNDUP(r.sz), PGROUNDUP(r.sz) + 2 * PGSIZE), LAMBDA a :
    IF a.sz = 0 THEN [m |-> a.m, pd |-> a.pd, sz |-> 0, ok |-> FALSE, stray |-> FALSE]
    ELSE Let(Guard(a.m, a.pd, a.sz), LAMBDA g :
         Let(Copyout(g.m, g.pd, (a.sz - prog.args) % Wrap, prog.args, "args"), LAMBDA c :
             [m |-> c.m, pd |-> g.pd, sz |-> a.sz, ok |-> c.ok, stray |-> c.stray])))

\* bad: the new page table is freed.
Dropped(n, pd) == IF pd.dir = 0 THEN n ELSE Freevm(n, pd)

\* exec, as sys_exec calls it: the new page table, or none.
Loaded(n, prog) ==
    LET load[i \in 0 .. Len(prog.segs)] ==
            IF i = 0 THEN Let(Setupkvm(n), LAMBDA s : [m |-> s.m, pd |-> s.pd, sz |-> 0, ok |-> s.pd.dir # 0])
            ELSE Let(load[i - 1], LAMBDA r : Segment(r, prog, prog.segs[i]))
    IN  IF prog.argc >= MAXARG THEN [m |-> n, ok |-> FALSE, stray |-> FALSE]
        ELSE Let(Stack(load[Len(prog.segs)], prog), LAMBDA r :
             IF r.ok THEN r ELSE [m |-> Dropped(r.m, r.pd), ok |-> FALSE, stray |-> r.stray])

\* A stray copyout takes what is at address 0 for an entry: it fails as for a
\* page that is not the user's, or writes where the entry says.
Exec(p, prog) ==
    /\ Runs(p)
    /\ \E n \in Memories : \E r \in {Loaded(n, prog)} :
           \/ IF r.ok THEN /\ Done(Freevm(r.m, proc[p].pd))
                           /\ proc' = [proc EXCEPT ![p].pd = r.pd, ![p].sz = r.sz]
              ELSE Done(r.m) /\ UNCHANGED proc
           \/ r.stray /\ Fault("exec")

\* exit, of its own will or killed by a fault; init does not.
Exit(p) ==
    /\ Up /\ proc[p].state = "run" /\ p # 1
    /\ proc' = [proc EXCEPT ![p].state = "zombie"]
    /\ UNCHANGED <<m, fault>>

\* wait and waitx, by the parent: the stack and the page table.
Wait(q) ==
    /\ Up /\ proc[q].state = "zombie"
    /\ Done(Freevm(Kfree(m, {proc[q].kstack}), proc[q].pd))
    /\ proc' = [proc EXCEPT ![q] = Unused]

-----------------------------------------------------------------------------
(* User memory used by the kernel *)

MutantArgptr(sz, i, size) == size >= 0 /\ (i + size) % Wrap <= sz

\* argptr: the block is inside the process.
Argptr(sz, i, size) == size >= 0 /\ i < sz /\ (i + size) % Wrap <= sz

\* The kernel uses the pages V of p, leaving the memory n.
Uses(p, V, n) ==
    /\ m' = IF \A v \in V : Mapped(p, v) THEN n ELSE Panic(m, "trap")
    /\ UNCHANGED <<proc, fault>>

\* A call reads into a block of the process that it has checked (read, fstat,
\* pipe, waitx).
ReadInto(p, i, size, val) ==
    LET V == PagesOf(i, size) IN
    /\ Runs(p) /\ Argptr(proc[p].sz, i, size)
    /\ Uses(p, V, Fill(m, proc[p].pd, V, val))

\* getpinfo checks that a pointer fits and writes a whole proc_stat, which can
\* reach beyond the memory of the process.
Getpinfo(p, i, val) ==
    LET V == PagesOf(i, StatSize) IN
    /\ Runs(p) /\ Argptr(proc[p].sz, i, PtrSize)
    /\ IF \A v \in V : Mapped(p, v)
       THEN m' = Fill(m, proc[p].pd, V, val) /\ UNCHANGED <<proc, fault>>
       ELSE Fault("getpinfo")

\* A call looks at a string, up to its end or the end of the process.
LookAt(p, addr, nul) ==
    /\ Runs(p) /\ addr < proc[p].sz
    /\ Uses(p, PagesOf(addr, Min({nul + 1, proc[p].sz}) - addr), m)

\* User code stores in a page that it may use.
Store(p, v, val) ==
    /\ Runs(p) /\ User(proc[p].pd, v)
    /\ m' = Fill(m, proc[p].pd, {v}, val)
    /\ UNCHANGED <<proc, fault>>

-----------------------------------------------------------------------------
(* Properties *)

Pages == DOMAIN m.mem
PtePages(pd) == {pd.pte[v].pa : v \in Vpns} \ {0}
TablePages(pd) == ({pd.tab[t] : t \in Tables} \cup pd.ktab \cup {pd.dir}) \ {0}
Owned(p) == PtePages(proc[p].pd) \cup TablePages(proc[p].pd) \cup ({proc[p].kstack} \ {0})
Entries(pd) == Cardinality({v \in Vpns : pd.pte[v].pa # 0}) + Cardinality({t \in Tables : pd.tab[t] # 0})
            + Cardinality(pd.ktab) + 1

\* Every page of memory is on the free list, or is one page of one process: a
\* call that runs out of memory anywhere in fork, exec or sbrk gives back all
\* it took, and wait gives back all the process had, once.
PagesOwnedOnce ==
    /\ Pages = m.free \cup UNION {Owned(p) : p \in Procs}
    /\ \A p \in Procs : /\ m.free \cap Owned(p) = {}
                        /\ \A q \in Procs \ {p} : Owned(p) \cap Owned(q) = {}
                        /\ proc[p] # Unused => Cardinality(Owned(p)) = Entries(proc[p].pd) + 1

\* The pages of a process that can run are those below its size, so that
\* fork copies all of them and argument checks against the size suffice
\* (growproc, allocuvm and deallocuvm, exec).  It says nothing of a process
\* that has given up all its pages and keeps its size until it is killed.
SizeMapped ==
    \A p \in Procs : Runs(p) => \A v \in Vpns : Mapped(p, v) <=> v * PGSIZE < proc[p].sz

\* No sequence of calls, wherever memory runs out, reaches a panic of kalloc.c
\* or vm.c (kfree, freevm, remap, copyuvm, clearpteu, loaduvm), or a page fault
\* of the kernel in memory that argptr or fetchstr has checked.  Behaviours end
\* at the three unchecked accesses (Fault): these calls have no fourth.
VmNeverPanics == m.panic = "none"

\* A process's memory as it sees it.
Space(p) ==
    IF proc[p].state = "unused" THEN NoSpace
    ELSE LET n == Cardinality({v \in Vpns : Mapped(p, v)})
         IN  [i \in 1 .. n |-> m.mem[proc[p].pd.pte[i - 1].pa]]

\* The pages of a program once loaded: what the file has of it, zeros, the
\* guard page and the stack.
Image(prog) ==
    LET top == Max({0} \cup {prog.segs[i].vaddr + prog.segs[i].memsz : i \in DOMAIN prog.segs})
        inFile(v) == \E i \in DOMAIN prog.segs :
                         LET seg == prog.segs[i] IN
                         v \in PagesOf(seg.vaddr, seg.filesz)
    IN  [i \in 1 .. PageUp(top) |-> IF inFile(i - 1) THEN prog.tag ELSE "zero"]
            \o <<"zero", "args">>

A == INSTANCE AddressSpace WITH
        space <- [p \in Procs |-> Space(p)],
        Images <- {Image(prog) : prog \in Programs}

\* The page tables implement private memory: whatever fork, exec, sbrk, exit
\* and wait do with pages, a process finds in its memory what it or its own
\* calls stored there, its parent's memory at the fork, or its program.  This
\* holds up to an unchecked access (Fault), after which the code promises nothing.
SpacesArePrivate == A!SpaceSpec
=============================================================================
