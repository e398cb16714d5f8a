------------------------------ MODULE FsCalls ------------------------------
(***************************************************************************)
(* The file system calls of sysfile.c: open, mkdir, mknod, link, unlink,   *)
(* chdir, read, write and close, by several processes at once.             *)
(***************************************************************************)
EXTENDS Icache

\* p makes the next call of its script.
Calling(p) == reg[p] = Idle /\ todo[p] # <<>> /\ todo' = [todo EXCEPT ![p] = Tail(@)]

\* The variables of a call.
NewReg(c) == [pc |-> "start", call |-> c, ip |-> 0, dp |-> 0, old |-> 0, off |-> 0, name |-> "",
              path |-> <<>>, parent |-> FALSE, ok |-> "", fail |-> "", puts |-> <<>>, then |-> ""]

\* The calls with a path begin with a lookup of it.
Begin(p) ==
    LET c == Head(todo[p])
        creates == c.op \in {"creat", "mkdir", "mknod"}
    IN
    /\ Calling(p) /\ c.op \notin {"read", "write", "close"}
    /\ reg' = [reg EXCEPT ![p] =
                 Namex(NewReg(c), c.path, creates \/ c.op = "unlink", StartSlot(p, c.path),
                       IF creates THEN "create" ELSE c.op, "idle")]
    /\ icache' = StartRef(p, c.path)
    /\ UNCHANGED <<disk, cwd, file, written>>

At(p, pc) == reg[p].pc = pc

-----------------------------------------------------------------------------
(* unlink *)

\* ilock(dp), and the entry.
Unlink(p) ==
    LET r == reg[p]
        s == r.ip
        found == Dirlookup(disk, Loaded(s), r.name)
        seen == Keep(icache, s, p, found.ip)
    IN  /\ At(p, "unlink") /\ Unlocked(s)
        /\ IF r.name \in {".", ".."}
           THEN To(p, disk, Release(icache, s, Loaded(s)), Put(r, <<s>>, "idle"))
           ELSE IF found.inum = 0
           THEN To(p, found.disk, Release(icache, s, found.ip), Put(r, <<s>>, "idle"))
           ELSE To(p, found.disk, Iget(seen, found.inum),
                   [r EXCEPT !.pc = "unlink_ip", !.dp = s, !.off = found.off,
                             !.ip = IgetSlot(seen, found.inum)])
        /\ UNCHANGED <<cwd, file, written>>

MayUnlink(ip) == ip.type # "dir" \/ IsDirEmpty(disk, ip)

\* The directory has lost an entry; a subdirectory's ".." was a link to it.
Erased(w, dnum, isdir) ==
    LET less == [w.ip EXCEPT !.nlink = @ - 1] IN
    IF ~w.ok THEN [disk |-> Panicked(w.disk, "unlink: writei"), dp |-> w.ip]
    ELSE IF isdir THEN [disk |-> Iupdate(w.disk, dnum, less), dp |-> less]
    ELSE [disk |-> w.disk, dp |-> w.ip]

\* ilock(ip), with dp locked: erase the entry, and let dp go.
UnlinkIp(p) ==
    LET r == reg[p]
        ip == Loaded(r.ip)
        dnum == icache[r.dp].inum
        e == Erased(Writei(disk, dnum, icache[r.dp].ip, r.off, <<Zero>>), dnum, ip.type = "dir")
    IN  /\ At(p, "unlink_ip") /\ Unlocked(r.ip)
        /\ IF ~Typed(r.ip) \/ ip.nlink < 1
           THEN To(p, Panicked(disk, "unlink: nlink < 1"), icache, r)
           ELSE IF ~MayUnlink(ip)
           THEN To(p, disk, Release(icache, r.ip, ip), Put(r, <<r.ip>>, "unlink_bad"))
           ELSE To(p, e.disk, Release(Keep(icache, r.ip, p, ip), r.dp, e.dp),
                   Put(r, <<r.dp>>, "unlink_dec"))
        /\ UNCHANGED <<cwd, file, written>>

UnlinkBad(p) ==
    LET r == reg[p] IN
    /\ At(p, "unlink_bad")
    /\ To(p, disk, Release(icache, r.dp, icache[r.dp].ip), Put(r, <<r.dp>>, "idle"))
    /\ UNCHANGED <<cwd, file, written>>

\* One link less, with ip locked.
UnlinkDec(p) ==
    LET r == reg[p]
        ip == [icache[r.ip].ip EXCEPT !.nlink = @ - 1]
    IN  /\ At(p, "unlink_dec")
        /\ To(p, Iupdate(disk, icache[r.ip].inum, ip), Release(icache, r.ip, ip),
              Put(r, <<r.ip>>, "idle"))
        /\ UNCHANGED <<cwd, file, written>>

-----------------------------------------------------------------------------
(* create *)

FreeInums == {i \in Inums \ {0} : disk.din[i].type = "free"}
TypeFor(op) == CASE op = "mkdir" -> "dir" [] op = "mknod" -> "dev" [] OTHER -> "file"

\* ilock(dp): the name exists, or ialloc takes an inode for it.
Create(p) ==
    LET r == reg[p]
        s == r.ip
        found == Dirlookup(disk, Loaded(s), r.name)
        seen == Release(icache, s, found.ip)
        mine == Keep(icache, s, p, found.ip)
        i == Min(FreeInums)
    IN  /\ At(p, "create") /\ Unlocked(s)
        /\ IF found.inum # 0
           THEN To(p, found.disk, Iget(seen, found.inum),
                   Put([r EXCEPT !.ip = IgetSlot(seen, found.inum)], <<s>>, "create_found"))
           ELSE IF FreeInums = {}
           THEN To(p, Panicked(disk, "ialloc: no inodes"), icache, r)
           ELSE To(p, Iupdate(found.disk, i, NewInode(TypeFor(r.call.op), 0)), Iget(mine, i),
                   [r EXCEPT !.pc = "create_ip", !.dp = s, !.ip = IgetSlot(mine, i)])
        /\ UNCHANGED <<cwd, file, written>>

\* The new inode is linked to its name; a directory gets "." and "..", and the
\* parent a link for "..".
Linked(d, r, inum, ip, dnum, dp) ==
    LET isdir == ip.type = "dir"
        new == [ip EXCEPT !.nlink = 1]
        up == IF isdir THEN [dp EXCEPT !.nlink = @ + 1] ELSE dp
        d1 == Iupdate(d, inum, new)
        d2 == IF isdir THEN Iupdate(d1, dnum, up) ELSE d1
    IN  With(IF isdir THEN Dirlink(d2, inum, new, ".", inum) ELSE [disk |-> d2, ip |-> new, ok |-> TRUE],
             LAMBDA a :
        With(IF isdir THEN Dirlink(a.disk, inum, a.ip, "..", dnum) ELSE a, LAMBDA b :
        With(Dirlink(b.disk, dnum, up, r.name, inum), LAMBDA c :
             [disk |-> IF a.ok /\ b.ok /\ c.ok THEN c.disk ELSE Panicked(c.disk, "create: dirlink"),
              ip |-> b.ip, dp |-> c.ip])))

\* ilock(ip) with dp locked, everything else, and iunlock(dp).
CreateIp(p) ==
    LET r == reg[p]
        s == r.ip
        l == Linked(disk, r, icache[s].inum, Loaded(s), icache[r.dp].inum, icache[r.dp].ip)
    IN  /\ At(p, "create_ip") /\ Unlocked(s)
        /\ To(p, l.disk, Release(Keep(icache, s, p, l.ip), r.dp, l.dp), Put(r, <<r.dp>>, "created"))
        /\ UNCHANGED <<cwd, file, written>>

\* With ip locked, on the disk d: a descriptor for it, or iunlockput.
OpenLocked(p, d, ip, give) ==
    LET r == reg[p] IN
    IF give /\ file[p] = NoFile
    THEN /\ To(p, d, Release(icache, r.ip, ip), Idle)
         /\ file' = [file EXCEPT ![p] = [ip |-> r.ip, off |-> 0, writable |-> r.call.op = "creat" \/ ~r.call.rdonly]]
    ELSE /\ To(p, d, Release(icache, r.ip, ip), Put(r, <<r.ip>>, "idle"))
         /\ UNCHANGED file

\* sys_open, sys_mkdir and sys_mknod after create has made an inode.
Created(p) ==
    /\ At(p, "created")
    /\ OpenLocked(p, disk, icache[reg[p].ip].ip, reg[p].call.op = "creat")
    /\ UNCHANGED <<cwd, written>>

\* create of an existing name: only a file can be opened.
CreateFound(p) ==
    LET s == reg[p].ip IN
    /\ At(p, "create_found") /\ Unlocked(s)
    /\ OpenLocked(p, Checked(s, disk), Loaded(s), reg[p].call.op = "creat" /\ Loaded(s).type = "file")
    /\ UNCHANGED <<cwd, written>>

-----------------------------------------------------------------------------
(* open, chdir and link *)

Open(p) ==
    LET s == reg[p].ip IN
    /\ At(p, "open") /\ Unlocked(s)
    /\ OpenLocked(p, Checked(s, disk), Loaded(s), Loaded(s).type # "dir" \/ reg[p].call.rdonly)
    /\ UNCHANGED <<cwd, written>>

\* ilock(ip): a directory, or not; then iput of the old directory.
Chdir(p) ==
    LET r == reg[p]
        s == r.ip
        isdir == Loaded(s).type = "dir"
    IN  /\ At(p, "chdir") /\ Unlocked(s)
        /\ To(p, Checked(s, disk), Release(icache, s, Loaded(s)),
              IF isdir THEN Put(r, <<cwd[p]>>, "chdir_done") ELSE Put(r, <<s>>, "idle"))
        /\ UNCHANGED <<cwd, file, written>>

ChdirDone(p) ==
    /\ At(p, "chdir_done")
    /\ cwd' = [cwd EXCEPT ![p] = reg[p].ip]
    /\ To(p, disk, icache, Idle)
    /\ UNCHANGED <<file, written>>

\* One link more to what the old name names, and the lookup of the new one.
Link(p) ==
    LET r == reg[p]
        s == r.ip
        isdir == Loaded(s).type = "dir"
        ip == [Loaded(s) EXCEPT !.nlink = @ + 1]
        new == r.call.new
    IN  /\ At(p, "link") /\ Unlocked(s)
        /\ IF isdir \/ ~Typed(s)
           THEN To(p, Checked(s, disk), Release(icache, s, Loaded(s)), Put(r, <<s>>, "idle"))
           ELSE To(p, Iupdate(disk, icache[s].inum, ip), Release(StartRef(p, new), s, ip),
                   Namex([r EXCEPT !.old = s], new, TRUE, StartSlot(p, new), "link_dp", "link_bad"))
        /\ UNCHANGED <<cwd, file, written>>

\* ilock(dp) and dirlink; the inode of an existing name is put with dp locked.
LinkDp(p) ==
    LET r == reg[p]
        s == r.ip
        found == Dirlookup(disk, Loaded(s), r.name)
        mine == Keep(icache, s, p, found.ip)
        l == Dirlink(found.disk, icache[s].inum, found.ip, r.name, icache[r.old].inum)
    IN  /\ At(p, "link_dp") /\ Unlocked(s)
        /\ IF found.inum # 0
           THEN To(p, found.disk, Iget(mine, found.inum),
                   Put(r, <<IgetSlot(mine, found.inum)>>, "link_exists"))
           ELSE To(p, l.disk, Release(icache, s, l.ip), Put(r, <<s, r.old>>, "idle"))
        /\ UNCHANGED <<cwd, file, written>>

LinkExists(p) ==
    LET r == reg[p] IN
    /\ At(p, "link_exists")
    /\ To(p, disk, Release(icache, r.ip, icache[r.ip].ip), Put(r, <<r.ip>>, "link_bad"))
    /\ UNCHANGED <<cwd, file, written>>

MutantLinkUndone(ip) == ip
LinkUndone(ip) == [ip EXCEPT !.nlink = @ - 1]

\* bad: the link is taken back.
LinkBad(p) ==
    LET r == reg[p]
        ip == LinkUndone(Loaded(r.old))
    IN  /\ At(p, "link_bad") /\ Unlocked(r.old)
        /\ To(p, Iupdate(disk, icache[r.old].inum, ip), Release(icache, r.old, ip),
              Put(r, <<r.old>>, "idle"))
        /\ UNCHANGED <<cwd, file, written>>

-----------------------------------------------------------------------------
(* Open files *)

Overlay(data, off, cells) ==
    SubSeq(data, 1, off) \o cells \o SubSeq(data, off + Len(cells) + 1, Len(data))

\* read at the offset of the open file.
Read(p) ==
    LET f == file[p]
        m == Readi(disk, Loaded(f.ip), f.off, Head(todo[p]).n)
    IN  /\ Calling(p) /\ Head(todo[p]).op = "read" /\ f # NoFile /\ Unlocked(f.ip)
        /\ disk' = m.disk /\ icache' = Release(icache, f.ip, m.ip)
        /\ file' = [file EXCEPT ![p].off = @ + Len(m.cells)]
        /\ UNCHANGED <<reg, cwd, written>>

\* write, one transaction after the other; one that fails ends the call, with
\* what the earlier ones have written.
Write(p) ==
    LET f == file[p]
        all == Head(todo[p]).cells
        cells == SubSeq(all, 1, Min({MaxWrite, Len(all)}))
        left == SubSeq(all, Len(cells) + 1, Len(all))
        m == Writei(disk, icache[f.ip].inum, Loaded(f.ip), f.off, cells)
    IN  /\ reg[p] = Idle /\ todo[p] # <<>> /\ Head(todo[p]).op = "write"
        /\ f.writable /\ Unlocked(f.ip)
        /\ todo' = [todo EXCEPT ![p] = IF m.ok /\ left # <<>>
                                       THEN <<[Head(@) EXCEPT !.cells = left]>> \o Tail(@)
                                       ELSE Tail(@)]
        /\ disk' = m.disk /\ icache' = Release(icache, f.ip, m.ip)
        /\ IF m.ok
           THEN /\ file' = [file EXCEPT ![p].off = @ + Len(cells)]
                /\ written' = [written EXCEPT ![icache[f.ip].inum] = Overlay(@, f.off, cells)]
           ELSE UNCHANGED <<file, written>>
        /\ UNCHANGED <<reg, cwd>>

\* argfd fails: the file is not open, or not for writing.
BadFd(p) ==
    /\ Calling(p)
    /\ \/ Head(todo[p]).op \in {"read", "close"} /\ file[p] = NoFile
       \/ Head(todo[p]).op = "write" /\ ~file[p].writable
    /\ UNCHANGED <<disk, icache, reg, cwd, file, written>>

Close(p) ==
    /\ Calling(p) /\ Head(todo[p]).op = "close" /\ file[p] # NoFile
    /\ reg' = [reg EXCEPT ![p] = Put([NewReg(Head(todo[p])) EXCEPT !.ip = file[p].ip],
                                     <<file[p].ip>>, "idle")]
    /\ file' = [file EXCEPT ![p] = NoFile]
    /\ UNCHANGED <<disk, icache, cwd, written>>

-----------------------------------------------------------------------------
Step(p) ==
    \/ Begin(p) \/ Read(p) \/ Write(p) \/ BadFd(p) \/ Close(p)
    \/ IputFree(p) \/ IputRef(p) \/ NamexStep(p) \/ NamexEnd(p)
    \/ Unlink(p) \/ UnlinkIp(p) \/ UnlinkBad(p) \/ UnlinkDec(p)
    \/ Create(p) \/ CreateIp(p) \/ Created(p) \/ CreateFound(p)
    \/ Open(p) \/ Chdir(p) \/ ChdirDone(p)
    \/ Link(p) \/ LinkDp(p) \/ LinkExists(p) \/ LinkBad(p)

Next == disk.panic = "none" /\ \E p \in Procs : Step(p)

Spec == Init /\ [][Next]_vars

-----------------------------------------------------------------------------
(* Properties *)

Allocated == {i \in Inums : disk.din[i].type # "free"}
Own(i) == OwnBlocks(disk, disk.din[i])

\* Every data block is free in the bitmap or belongs to exactly one inode: no
\* interleaving of calls that allocate (balloc) and free (itrunc) blocks loses
\* one, shares it, or frees it while a file has it.
BlocksOwnedOnce ==
    /\ disk.used = (0 .. NMETA - 1) \cup UNION {Own(i) : i \in Allocated}
    /\ \A i, j \in Allocated : i # j => Own(i) \cap Own(j) = {}

\* The directories with a name, and the offsets of their entries for i, "."
\* and ".." aside.
Live == {d \in Allocated : disk.din[d].type = "dir" /\ disk.din[d].nlink > 0}
NamesIn(d, i) == {k \in 2 .. disk.din[d].size - 1 : CellAt(disk, disk.din[d], k)[2] = i}

\* The links to i: its names, the ".." of the directories in it, and the root's
\* own.
Links(i) ==
      MapThenSumSet(LAMBDA d : Cardinality(NamesIn(d, i)), Live)
    + (IF i \in Live
       THEN Cardinality({k \in 2 .. disk.din[i].size - 1 :
                            disk.din[CellAt(disk, disk.din[i], k)[2]].type = "dir"})
       ELSE 0)
    + (IF i = ROOTINO THEN 1 ELSE 0)

\* The link count of an inode covers every link to it at every moment of link,
\* unlink, create and mkdir, so that iput never frees an inode with a name; and
\* when no call is in progress the count of an inode with a name is exact.
LinksCounted ==
    \A i \in Inums \ {0} :
        /\ Links(i) <= disk.din[i].nlink
        /\ Links(i) > 0 => i \in Allocated
        /\ Links(i) > 0 /\ (\A p \in Procs : reg[p] = Idle) => disk.din[i].nlink = Links(i)

\* The inode cache has one slot for an inode, write-through: whatever a process
\* reads from a slot after ilock is what the disk has, and an inode somebody
\* has a reference to is not freed (iget, ilock, iupdate and iput).
CacheCoherent ==
    \A s \in Slots : icache[s].ref > 0 =>
        /\ \A t \in Slots \ {s} : icache[t].ref = 0 \/ icache[t].inum # icache[s].inum
        /\ icache[s].valid => icache[s].ip = disk.din[icache[s].inum]
        /\ \A p \in Procs : s \in {cwd[p], file[p].ip} => icache[s].inum \in Allocated

\* A file has what was written to it, whatever else happens to other files and
\* to its names (writei and bmap, balloc, itrunc).
FilesIntact ==
    \A i \in Allocated : disk.din[i].type = "file" => Contents(disk, disk.din[i]) = written[i]

\* With blocks, inodes, cache slots and room in directories to spare, no
\* interleaving of calls makes one of them find what it has checked, counted or
\* kept a reference to gone: a freed inode behind a name or a slot (ilock,
\* unlink, dirlookup), a block freed twice, an entry it has just looked up or
\* found free (unlink, create).  Paths through the ".." of a directory that has
\* been removed are left out: they can reach a freed inode.
FsNeverPanics == disk.panic = "none"

\* The inode whose lock p has to take next; 0 when it needs none.
Wants(p) ==
    LET r == reg[p] IN
    CASE r.pc = "iput" -> Head(r.puts)
      [] r.pc = "link_bad" -> r.old
      [] r.pc \in {"unlink", "unlink_ip", "create", "create_ip", "create_found", "open", "chdir",
                   "link", "link_dp"} -> r.ip
      [] r.pc = "namex" -> IF r.path = <<>> THEN 0 ELSE r.ip
      [] OTHER -> 0

WaitsFor(p, q) == Wants(p) # 0 /\ icache[Wants(p)].lock = q

\* Concurrent create, link and unlink of the same file all return: no two
\* processes wait for each other's inode locks, and none for its own.
NoLockCycle == \A p, q \in Procs : ~(WaitsFor(p, q) /\ WaitsFor(q, p))
=============================================================================
