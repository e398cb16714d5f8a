------------------------------- MODULE Icache -------------------------------
(***************************************************************************)
(* The inode cache and path lookup of fs.c, with several processes in them *)
(* at once, as the calls of module FsCalls use them.                       *)
(*                                                                         *)
(* A step runs from the acquisition of one inode's sleep lock up to the    *)
(* next one, or is a critical section of icache.lock: what a process does  *)
(* to inodes it has locked, nobody else can see in between.  The log makes *)
(* a call atomic with respect to crashes (module Log), not with respect to *)
(* other calls.                                                            *)
(***************************************************************************)
EXTENDS Inode, Functions

CONSTANTS Procs, NINODE,    \* slots of the inode cache
          Image,            \* the disk to start from
          Scripts,          \* sequences of calls; each process makes one
          MaxWrite,         \* cells filewrite puts into one transaction
          None

VARIABLES disk,
          icache,           \* slots: inum, ref, valid, lock and the inode ip
          reg,              \* per process: place in a call, and its variables
          cwd, file,        \* per process: slots of the directory and the open
                            \* file, with its offset
          todo,             \* per process: the calls it has yet to make
          written           \* history: what was written to each inode

vars == <<disk, icache, reg, cwd, file, todo, written>>

Slots == 1 .. NINODE
Idle == [pc |-> "idle"]
NoFile == [ip |-> 0, off |-> 0, writable |-> FALSE]

Init ==
    /\ disk = Image
    /\ icache = [s \in Slots |->
            [inum |-> IF s = 1 THEN ROOTINO ELSE 0, ref |-> IF s = 1 THEN Cardinality(Procs) ELSE 0,
             valid |-> FALSE, lock |-> None, ip |-> NewInode("free", 0)]]
    /\ reg = [p \in Procs |-> Idle]
    /\ cwd = [p \in Procs |-> 1]
    /\ file = [p \in Procs |-> NoFile]
    /\ todo \in [Procs -> Scripts]
    /\ written = [i \in Inums |-> <<>>]

-----------------------------------------------------------------------------
(* The inode cache *)

MutantCached(ic, inum) == {}
Cached(ic, inum) == {s \in Slots : ic[s].ref > 0 /\ ic[s].inum = inum}
Empty(ic) == {s \in Slots : ic[s].ref = 0}

\* The slot iget uses; 0 is its panic.
IgetSlot(ic, inum) ==
    IF Cached(ic, inum) # {} THEN Min(Cached(ic, inum))
    ELSE IF Empty(ic) # {} THEN Min(Empty(ic)) ELSE 0

Iget(ic, inum) ==
    LET s == IgetSlot(ic, inum) IN
    IF s = 0 THEN ic
    ELSE IF ic[s].ref > 0 THEN [ic EXCEPT ![s].ref = @ + 1]
    ELSE [ic EXCEPT ![s].inum = inum, ![s].ref = 1, ![s].valid = FALSE]

\* What ilock finds: the cached inode, or the one on the disk.
Loaded(s) == IF icache[s].valid THEN icache[s].ip ELSE disk.din[icache[s].inum]

\* ilock(s) can be taken, and its assertion holds.
Unlocked(s) == icache[s].lock = None
Typed(s) == Loaded(s).type # "free"

Keep(ic, s, p, ip) == [ic EXCEPT ![s].lock = p, ![s].valid = TRUE, ![s].ip = ip]
Release(ic, s, ip) == Keep(ic, s, None, ip)

\* iget has found no slot for an inode in r.
NoSlot(r) == r # Idle /\ (r.ip = 0 \/ 0 \in Range(r.puts))

\* A step of p that leaves the disk d, the cache ic and its own variables r.
To(p, d, ic, r) == /\ disk' = IF NoSlot(r) THEN Panicked(d, "iget: no inodes") ELSE d
                   /\ icache' = ic /\ reg' = [reg EXCEPT ![p] = r]
                   /\ UNCHANGED todo

\* iput of some slots one after the other, then on to pc.
Put(r, slots, pc) == [r EXCEPT !.pc = "iput", !.puts = slots, !.then = pc]

MutantLastRef(s) == icache[s].ip.nlink = 0
LastRef(s) == icache[s].ip.nlink = 0 /\ icache[s].ref = 1

\* iput up to releasesleep: free an inode without links and other references.
IputFree(p) ==
    LET r == reg[p]
        s == Head(r.puts)
        e == icache[s]
        free == e.valid /\ LastRef(s)
    IN  /\ r.pc = "iput" /\ Unlocked(s)
        /\ To(p, IF free THEN FreeInode(disk, e.inum, e.ip) ELSE disk,
                 IF free THEN [icache EXCEPT ![s].valid = FALSE] ELSE icache,
                 [r EXCEPT !.pc = "iput_ref"])
        /\ written' = IF free THEN [written EXCEPT ![e.inum] = <<>>] ELSE written
        /\ UNCHANGED <<cwd, file>>

\* The rest of iput, under icache.lock.
IputRef(p) ==
    LET r == reg[p]
        left == Tail(r.puts)
    IN  /\ r.pc = "iput_ref"
        /\ To(p, disk, [icache EXCEPT ![Head(r.puts)].ref = @ - 1],
              IF left # <<>> THEN [r EXCEPT !.pc = "iput", !.puts = left]
              ELSE IF r.then = "idle" THEN Idle ELSE [r EXCEPT !.pc = r.then, !.puts = <<>>])
        /\ UNCHANGED <<cwd, file, written>>

-----------------------------------------------------------------------------
(* namex *)

\* namei or nameiparent of path: on success to pc with the inode in ip, else
\* to fail.
Namex(r, path, parent, ip, pc, fail) ==
    [r EXCEPT !.pc = "namex", !.ip = ip, !.parent = parent, !.ok = pc, !.fail = fail,
              !.path = IF path[1] = "/" THEN Tail(path) ELSE path]

StartSlot(p, path) == IF path[1] = "/" THEN IgetSlot(icache, ROOTINO) ELSE cwd[p]
StartRef(p, path) ==
    IF path[1] = "/" THEN Iget(icache, ROOTINO) ELSE [icache EXCEPT ![cwd[p]].ref = @ + 1]

\* After ilock(s): with the panic when s is not a typed inode.
Checked(s, d) == IF Typed(s) THEN d ELSE Panicked(d, "ilock: no type")

\* One turn of the loop of namex; skipelem has split off the first element.
NamexStep(p) ==
    LET r == reg[p]
        s == r.ip
        ip == Loaded(s)
        name == Head(r.path)
        found == Dirlookup(disk, ip, name)
        seen == Release(icache, s, found.ip)
    IN  /\ r.pc = "namex" /\ r.path # <<>> /\ Unlocked(s)
        /\ IF ip.type # "dir"
           THEN To(p, Checked(s, disk), Release(icache, s, ip), Put(r, <<s>>, r.fail))
           ELSE IF r.parent /\ Len(r.path) = 1
           THEN To(p, disk, Release(icache, s, ip), [r EXCEPT !.pc = r.ok, !.name = name])
           ELSE IF found.inum = 0
           THEN To(p, found.disk, seen, Put(r, <<s>>, r.fail))
           ELSE To(p, found.disk, Iget(seen, found.inum),
                   Put([r EXCEPT !.ip = IgetSlot(seen, found.inum), !.path = Tail(@)],
                       <<s>>, "namex"))
        /\ UNCHANGED <<cwd, file, written>>

\* The end of the path: nameiparent of a path without a last element fails.
NamexEnd(p) ==
    LET r == reg[p] IN
    /\ r.pc = "namex" /\ r.path = <<>>
    /\ To(p, disk, icache, IF r.parent THEN Put(r, <<r.ip>>, r.fail) ELSE [r EXCEPT !.pc = r.ok])
    /\ UNCHANGED <<cwd, file, written>>
=============================================================================
