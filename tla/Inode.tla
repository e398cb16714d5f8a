------------------------------- MODULE Inode -------------------------------
(***************************************************************************)
(* The block layer of the file system (fs.c) and the image mkfs writes:    *)
(* the bitmap, inodes with direct blocks and one indirect block, reading   *)
(* and writing at an offset, and directories as files of entries.  Every   *)
(* operator takes the disk and the in-memory inode ip of a caller that has *)
(* it locked, and returns both changed.                                    *)
(*                                                                         *)
(* A block is a row of cells; a cell is a directory entry <<name, inum>>,  *)
(* a block number of an indirect block or a byte of a file, both with the  *)
(* name "".                                                                *)
(***************************************************************************)
EXTENDS Integers, Sequences, FiniteSetsExt

CONSTANTS BSIZE, NDIRECT, NINDIRECT,   \* in cells and blocks
          FSSIZE, NMETA,               \* blocks on the disk, and before the data
          NINODES                      \* inodes on the disk; 0 is not used

Blocks == 0 .. FSSIZE - 1
Inums == 0 .. NINODES - 1
MAXFILE == NDIRECT + NINDIRECT
ROOTINO == 1

Zero == <<"", 0>>
ZeroBlock == [i \in 0 .. BSIZE - 1 |-> Zero]
NewInode(type, nlink) ==
    [type |-> type, nlink |-> nlink, size |-> 0, addrs |-> [i \in 0 .. NDIRECT |-> 0]]

Panicked(disk, why) == [disk EXCEPT !.panic = why]

-----------------------------------------------------------------------------
(* Blocks *)

FreeBlocks(disk) == {b \in Blocks : b \notin disk.used}

\* balloc, with bzero: the first free block.
Balloc(disk) ==
    LET b == Min(FreeBlocks(disk)) IN
    IF FreeBlocks(disk) = {} THEN [disk |-> Panicked(disk, "balloc: out of blocks"), b |-> 0]
    ELSE [disk |-> [disk EXCEPT !.used = @ \cup {b}, !.blk[b] = ZeroBlock], b |-> b]

\* bfree of each block in S.
Bfree(disk, S) ==
    IF S \subseteq disk.used THEN [disk EXCEPT !.used = @ \ S]
    ELSE Panicked(disk, "freeing free block")

\* Continue with the value of m, which TLC computes once.
With(m, F(_)) == CHOOSE x \in {F(v) : v \in {m}} : TRUE

\* bmap: the block bn of a file, allocated when it is missing.
BmapDirect(disk, ip, i) ==
    IF ip.addrs[i] # 0 THEN [disk |-> disk, ip |-> ip, b |-> ip.addrs[i]]
    ELSE With(Balloc(disk), LAMBDA a :
              [disk |-> a.disk, ip |-> [ip EXCEPT !.addrs[i] = a.b], b |-> a.b])

Bmap(disk, ip, bn) ==
    IF bn < NDIRECT THEN BmapDirect(disk, ip, bn)
    ELSE IF bn >= MAXFILE
         THEN [disk |-> Panicked(disk, "bmap: out of range"), ip |-> ip, b |-> 0]
    ELSE With(BmapDirect(disk, ip, NDIRECT), LAMBDA m :
         LET b == m.disk.blk[m.b][bn - NDIRECT][2] IN
         IF b # 0 THEN [m EXCEPT !.b = b]
         ELSE With(Balloc(m.disk), LAMBDA a :
              [disk |-> [a.disk EXCEPT !.blk[m.b][bn - NDIRECT] = <<"", a.b>>],
               ip |-> m.ip, b |-> a.b]))

\* The blocks an inode has: direct, indirect, and those listed there.
Listed(disk, ip) ==
    IF ip.addrs[NDIRECT] = 0 THEN {}
    ELSE {disk.blk[ip.addrs[NDIRECT]][i][2] : i \in 0 .. NINDIRECT - 1} \ {0}
OwnBlocks(disk, ip) == ({ip.addrs[i] : i \in 0 .. NDIRECT} \ {0}) \cup Listed(disk, ip)

Iupdate(disk, inum, ip) == [disk EXCEPT !.din[inum] = ip]

MutantTruncated(disk, ip) == {ip.addrs[i] : i \in 0 .. NDIRECT} \ {0}

\* The blocks itrunc frees.
Truncated(disk, ip) == OwnBlocks(disk, ip)

\* itrunc, and what iput does after it: the inode is free on the disk.
FreeInode(disk, inum, ip) ==
    Iupdate(Bfree(disk, Truncated(disk, ip)), inum, NewInode("free", ip.nlink))

-----------------------------------------------------------------------------
(* Contents *)

\* The cell at an offset, without allocating.
CellAt(disk, ip, off) ==
    LET bn == off \div BSIZE
        b == IF bn < NDIRECT THEN ip.addrs[bn]
             ELSE IF ip.addrs[NDIRECT] = 0 THEN 0
             ELSE disk.blk[ip.addrs[NDIRECT]][bn - NDIRECT][2]
    IN  IF b = 0 THEN Zero ELSE disk.blk[b][off % BSIZE]

Contents(disk, ip) == [i \in 1 .. ip.size |-> CellAt(disk, ip, i - 1)]

\* readi of n cells at off, of which the file has some.  bmap allocates a
\* block that is missing, and the caller does not write ip back.
Readi(disk, ip, off, n) ==
    LET last == Min({off + n, ip.size}) - 1
        walk[bn \in Int] ==
            IF bn < off \div BSIZE THEN [disk |-> disk, ip |-> ip, b |-> 0]
            ELSE With(walk[bn - 1], LAMBDA m : Bmap(m.disk, m.ip, bn))
    IN  IF off > ip.size \/ last < off
        THEN [disk |-> disk, ip |-> ip, cells |-> <<>>, ok |-> off <= ip.size]
        ELSE With(walk[last \div BSIZE], LAMBDA m :
             [disk |-> m.disk, ip |-> m.ip, ok |-> TRUE,
              cells |-> [i \in 1 .. last - off + 1 |-> CellAt(m.disk, m.ip, off + i - 1)]])

\* The block that takes the cell i of a write at off, as off advances.
MutantBlockAt(off, i) == off \div BSIZE
BlockAt(off, i) == (off + i - 1) \div BSIZE

\* writei of cells at off.
Writei(disk, inum, ip, off, cells) ==
    LET n == Len(cells)
        put[i \in 0 .. n] ==
            IF i = 0 THEN [disk |-> disk, ip |-> ip]
            ELSE With(put[i - 1], LAMBDA m :
                 With(Bmap(m.disk, m.ip, BlockAt(off, i)), LAMBDA w :
                      [disk |-> [w.disk EXCEPT !.blk[w.b][(off + i - 1) % BSIZE] = cells[i]],
                       ip |-> w.ip]))
    IN  IF off > ip.size \/ off + n > MAXFILE * BSIZE
        THEN [disk |-> disk, ip |-> ip, ok |-> FALSE]
        ELSE With(put[n], LAMBDA m :
             LET new == [m.ip EXCEPT !.size = Max({@, off + n})] IN
             [disk |-> IF new.size > ip.size THEN Iupdate(m.disk, inum, new) ELSE m.disk,
              ip |-> new, ok |-> TRUE])

-----------------------------------------------------------------------------
(* Directories *)

Matches(cells, name) == {i \in DOMAIN cells : cells[i][1] = name /\ cells[i][2] # 0}

\* dirlookup: the inode number and offset of the entry, 0 when there is none;
\* it reads up to the entry.
Dirlookup(disk, dp, name) ==
    LET found == Matches(Contents(disk, dp), name)
        end == IF found = {} THEN dp.size ELSE Min(found)
    IN  IF dp.type # "dir"
        THEN [disk |-> Panicked(disk, "dirlookup not DIR"), ip |-> dp, off |-> 0, inum |-> 0]
        ELSE With(Readi(disk, dp, 0, end), LAMBDA m :
             [disk |-> m.disk, ip |-> m.ip, off |-> end - 1,
              inum |-> IF found = {} THEN 0 ELSE m.cells[end][2]])

\* dirlink: not ok when the name is there; else the first entry with inum 0, or
\* a new one at the end, which must have room.
Dirlink(disk, inum, dp, name, target) ==
    LET cells == Contents(disk, dp)
        empty == {i \in DOMAIN cells : cells[i][2] = 0}
    IN  IF Matches(cells, name) # {} THEN [disk |-> disk, ip |-> dp, ok |-> FALSE]
        ELSE With(Writei(disk, inum, dp, IF empty = {} THEN dp.size ELSE Min(empty) - 1,
                         <<(<<name, target>>)>>), LAMBDA w :
             IF w.ok THEN w ELSE [disk |-> Panicked(disk, "dirlink"), ip |-> dp, ok |-> TRUE])

\* isdirempty: nothing after "." and "..".
IsDirEmpty(disk, dp) == \A i \in 3 .. dp.size : CellAt(disk, dp, i - 1)[2] = 0

-----------------------------------------------------------------------------
(* mkfs *)

\* iappend hands out blocks in order, so it does what Writei does at the end
\* of the file; the size of the root is then rounded up, always to more.
MkEntry(disk, name, target) ==
    Writei(disk, ROOTINO, disk.din[ROOTINO], disk.din[ROOTINO].size, <<(<<name, target>>)>>).disk

\* The image with an empty file for each of the names.
Mkfs(files) ==
    LET empty == [used |-> 0 .. NMETA - 1, blk |-> [b \in Blocks |-> ZeroBlock], panic |-> "none",
                  din |-> [i \in Inums |-> IF i = ROOTINO THEN NewInode("dir", 1)
                                           ELSE IF i \in 2 .. Len(files) + 1 THEN NewInode("file", 1)
                                           ELSE NewInode("free", 0)]]
        entries == <<".", "..">> \o files
        image[k \in 0 .. Len(entries)] ==
            IF k = 0 THEN empty
            ELSE With(image[k - 1], LAMBDA d :
                      MkEntry(d, entries[k], IF k <= 2 THEN ROOTINO ELSE k - 1))
    IN  With(image[Len(entries)], LAMBDA d :
             [d EXCEPT !.din[ROOTINO].size = (@ \div BSIZE + 1) * BSIZE])
=============================================================================
