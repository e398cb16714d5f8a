------------------------------ MODULE Umalloc ------------------------------
(***************************************************************************)
(* The user library's malloc and free (umalloc.c) in one process, with the *)
(* memory sbrk gives it.  The unit of addresses is a Header.               *)
(***************************************************************************)
EXTENDS Vm

CONSTANTS MinUnits,    \* the least morecore asks for: 4096
          Requests,    \* sizes in units, header included
          App          \* the process

VARIABLES hdr,         \* the headers of base and of all blocks: ptr and size
          freep,       \* 0 before the first malloc
          live         \* the headers of the blocks malloc has given out

heapVars == <<hdr, freep, live>>
base == 1              \* the static header, in the data of the program

HeapInit == hdr = [a \in {} |-> 0] /\ freep = 0 /\ live = {}

Hdr(h, a, r) == [b \in DOMAIN h \cup {a} |-> IF b = a THEN r ELSE h[b]]
NoHdr(h, a) == [b \in DOMAIN h \ {a} |-> h[b]]
FreeSet(h, given) == DOMAIN h \ given

MutantJoinsNext(h, bp, p) == FALSE
JoinsNext(h, bp, p) == bp + h[bp].size = h[p].ptr
JoinsPrev(h, bp, p) == p + h[p].size = bp

\* free of the block with header bp: p is the free block it goes after.
Freed(h, given, bp) ==
    LET between(p) == bp > p /\ bp < h[p].ptr
        atEnd(p) == p >= h[p].ptr /\ (bp > p \/ bp < h[p].ptr)
        p == CHOOSE q \in FreeSet(h, given) \ {bp} : between(q) \/ atEnd(q)
        next == h[p].ptr
        block == IF JoinsNext(h, bp, p)
                 THEN [ptr |-> h[next].ptr, size |-> h[bp].size + h[next].size]
                 ELSE [ptr |-> next, size |-> h[bp].size]
        rest == IF JoinsNext(h, bp, p) THEN NoHdr(h, next) ELSE h
    IN  [freep |-> p,
         hdr |-> IF JoinsPrev(rest, bp, p)
                 THEN Hdr(NoHdr(rest, bp), p, [ptr |-> block.ptr, size |-> rest[p].size + block.size])
                 ELSE Hdr(Hdr(rest, bp, block), p, [rest[p] EXCEPT !.ptr = bp])]

\* The free blocks after prev, in the order of the list, up to prev.
Ring(h, prev) ==
    LET walk[n \in Nat] == IF n = 0 THEN <<h[prev].ptr>>
                           ELSE Let(walk[n - 1], LAMBDA w :
                                    IF w[Len(w)] = prev THEN w ELSE Append(w, h[w[Len(w)]].ptr))
    IN  walk[Cardinality(DOMAIN h)]

\* Take nunits from the first block after prev that has them; the tail of a
\* larger block.  at is 0 when there is none.
FirstFit(h, prev, nunits) ==
    Let(<<prev>> \o Ring(h, prev), LAMBDA ring :
    LET fits == {i \in 2 .. Len(ring) : h[ring[i]].size >= nunits}
        i == Min(fits)
        p == ring[i]
        left == h[p].size - nunits
    IN  IF fits = {} THEN [at |-> 0, hdr |-> h, freep |-> prev]
        ELSE IF left = 0
        THEN [at |-> p, freep |-> ring[i - 1], hdr |-> [h EXCEPT ![ring[i - 1]].ptr = h[p].ptr]]
        ELSE [at |-> p + left, freep |-> ring[i - 1],
              hdr |-> Hdr([h EXCEPT ![p].size = left], p + left, [ptr |-> 0, size |-> nunits])])

\* The list malloc starts from.
Started == IF freep = 0 THEN [b \in {base} |-> [ptr |-> base, size |-> 0]] ELSE hdr

MallocFound(nunits) ==
    LET f == FirstFit(Started, IF freep = 0 THEN base ELSE freep, nunits) IN
    /\ Runs(App) /\ f.at # 0
    /\ hdr' = f.hdr /\ freep' = f.freep /\ live' = live \cup {f.at}
    /\ UNCHANGED vmVars

MoreUnits(nunits) == Max({nunits, MinUnits})

\* No block fits: morecore, and the search goes on from freep.
MallocMore(nunits) ==
    LET nu == MoreUnits(nunits)
        prev == IF freep = 0 THEN base ELSE freep
        new == proc[App].sz
    IN  /\ Runs(App) /\ FirstFit(Started, prev, nunits).at = 0
        /\ \E n \in Memories : \E r \in {Growproc(n, App, nu)} :
             /\ Done(r.m) /\ proc' = [proc EXCEPT ![App].pd = r.pd, ![App].sz = r.sz]
             /\ IF r.sz = new THEN hdr' = Started /\ freep' = prev /\ UNCHANGED live
                ELSE \E h \in {Freed(Hdr(Started, new, [ptr |-> 0, size |-> nu]), live, new)} :
                     \E f \in {FirstFit(h.hdr, h.freep, nunits)} :
                         hdr' = f.hdr /\ freep' = f.freep /\ live' = live \cup {f.at}

Free(bp) ==
    /\ Runs(App)
    /\ \E f \in {Freed(hdr, live, bp)} : hdr' = f.hdr /\ freep' = f.freep
    /\ live' = live \ {bp}
    /\ UNCHANGED vmVars

\* The heap is part of the memory that exec replaces.
AppExec(prog) ==
    /\ Exec(App, prog)
    /\ IF proc' = proc THEN UNCHANGED heapVars
       ELSE hdr' = [a \in {} |-> 0] /\ freep' = 0 /\ live' = {}

-----------------------------------------------------------------------------
CONSTANTS Deltas,      \* what the other processes give sbrk
          Budgets      \* bounds on the calls that change memory, and of malloc and free

ASSUME HeapAssumption ==
    /\ App \in Procs
    /\ Requests \subseteq Nat \ {0} /\ MinUnits \in Nat \ {0} /\ Deltas \subseteq Int

VARIABLE budget

vars == <<vmVars, heapVars, budget>>

Init == VmInit /\ HeapInit /\ budget \in Budgets

\* Addresses and sizes that system calls are given: around the end of the
\* process, and beyond.
Addrs(p) == {0, proc[p].sz - 1, proc[p].sz, Wrap - 1}
Sizes == {1, PGSIZE + 1, KERNBASE - 1}

KernelCall(p) ==
    \/ Fork(p) \/ Exit(p) \/ Wait(p)
    \/ p # App /\ (\E d \in Deltas : Sbrk(p, d))
    \/ p # App /\ (\E prog \in Programs : Exec(p, prog))
    \/ \E i \in Addrs(p), size \in Sizes, val \in Values : ReadInto(p, i, size, val)
    \/ \E i \in Addrs(p), val \in Values : Getpinfo(p, i, val)
    \/ \E i \in Addrs(p), nul \in Addrs(p) : LookAt(p, i, nul)
    \/ \E v \in Vpns, val \in Values : Store(p, v, val)

HeapCall ==
    \/ \E n \in Requests : MallocFound(n) \/ MallocMore(n)
    \/ \E bp \in live : Free(bp)

Next ==
    \/ /\ budget.kernel > 0
       /\ \/ (\E p \in Procs : KernelCall(p)) /\ UNCHANGED heapVars
          \/ \E prog \in Programs : AppExec(prog)
       /\ budget' = IF vmVars' = vmVars THEN budget ELSE [budget EXCEPT !.kernel = @ - 1]
    \/ budget.heap > 0 /\ budget' = [budget EXCEPT !.heap = @ - 1] /\ HeapCall

Spec == Init /\ [][Next]_vars

\* malloc and free keep the heap a tiling: the blocks given out and the free
\* ones are disjoint and make up all that sbrk has returned, the free list
\* holds the free ones in the order of their addresses, and no two of them
\* touch (free joins a block to both of its neighbours).
HeapTiled ==
    LET blocks == DOMAIN hdr \ {base}
        end(a) == a + hdr[a].size
        free == blocks \ live
    IN  blocks # {} =>
        /\ UNION {a .. end(a) - 1 : a \in blocks} = Min(blocks) .. proc[App].sz - 1
        /\ \A a, b \in blocks : a < b => end(a) <= b
        /\ \A a \in free : end(a) \notin free
        /\ LET ring == Ring(hdr, base) IN
           /\ {ring[i] : i \in DOMAIN ring} = free \cup {base}
           /\ \A i \in 1 .. Len(ring) - 2 : ring[i] < ring[i + 1]
=============================================================================
