--------------------------------- MODULE Log ---------------------------------
(***************************************************************************)
(* The redo log of log.c: begin_op, end_op, log_write, commit and the      *)
(* recovery that initlog runs, with a crash possible between any two disk  *)
(* writes.                                                                 *)
(*                                                                         *)
(* A step is a critical section of log.lock, or one synchronous disk write *)
(* with the code around it.  A disk write is atomic: a block is one        *)
(* sector.  Inside the buffer cache only what matters here is kept: the    *)
(* content of every block as readers see it, and which buffer a process    *)
(* has locked between its change and log_write().                          *)
(***************************************************************************)
EXTENDS Naturals, Sequences, FiniteSets

CONSTANTS Procs,         \* processes that make file system calls
          Blocks,        \* home blocks of the file system
          Vals,          \* block contents
          NoBlock,
          MAXOPBLOCKS,   \* the blocks begin_op reserves for a call
          OpBlocks,      \* the most blocks a call really changes
          LOGSIZE,       \* what begin_op takes for the capacity of the log
          Size           \* log.size: log blocks on disk, the header included

ASSUME NoBlockAssumption == NoBlock \notin Blocks
ASSUME SizesAssumption ==
    /\ MAXOPBLOCKS \in Nat \ {0}
    /\ OpBlocks \in 1 .. MAXOPBLOCKS
    /\ LOGSIZE \in Nat \ {0}
    /\ Size \in Nat \ {0}

\* param.h and mkfs.c: LOGSIZE is 3 * MAXOPBLOCKS and the log on the disk has
\* LOGSIZE blocks.  The most a call changes is filewrite's chunk of file.c, and
\* it stays below MAXOPBLOCKS: 4 data blocks, i-node, indirect and bitmap block.
ASSUME CapacityAssumption ==
    /\ OpBlocks < MAXOPBLOCKS
    /\ 2 * MAXOPBLOCKS <= LOGSIZE
    /\ LOGSIZE <= Size

\* There are NPROC processes.
ASSUME ProcsAssumption == IsFiniteSet(Procs)

VARIABLES home,         \* disk: the home blocks
          logblk,       \* disk: the data blocks of the log
          hdr,          \* disk: the header block, as the list of its block numbers
          mem,          \* buffer cache: the content of every block
          lh,           \* log.lh: the logged block numbers
          outstanding, committing,
          pc, held,     \* per process: place in the code, block it has locked
          wrote,        \* per process: blocks this call has changed
          tail,         \* per process: index of the loops of commit()
          rtail,        \* index of the loop of a recovery
          asleep,       \* processes asleep on &log
          boot,         \* "up", or the stage of recovery
          panic

diskVars == <<home, logblk, hdr>>
bootVars == <<rtail, boot>>
vars == <<home, logblk, hdr, mem, lh, outstanding, committing, pc, held, wrote,
          tail, rtail, asleep, boot, panic>>

PCs == {"idle", "op", "write_log", "write_head", "install", "erase", "done"}

Elems(s) == {s[i] : i \in 1 .. Len(s)}

\* A disk from mkfs: the log was never used.
Init ==
    /\ home \in [Blocks -> Vals]
    /\ \E v \in Vals : logblk = [i \in 1 .. LOGSIZE |-> v]
    /\ hdr = <<>>
    /\ mem = home
    /\ lh = <<>>
    /\ outstanding = 0
    /\ committing = FALSE
    /\ pc = [p \in Procs |-> "idle"]
    /\ held = [p \in Procs |-> NoBlock]
    /\ wrote = [p \in Procs |-> {}]
    /\ tail = [p \in Procs |-> 0]
    /\ rtail = 0
    /\ asleep = {}
    /\ boot = "up"
    /\ panic = "none"

Running == boot = "up" /\ panic = "none"

-----------------------------------------------------------------------------
(* begin_op and end_op *)

MutantMayBegin == Len(lh) + (outstanding + 1) * MAXOPBLOCKS <= LOGSIZE

MutantMayBeginSpace == ~committing /\ (outstanding + 1) * MAXOPBLOCKS <= LOGSIZE

MayBegin ==
    /\ ~committing
    /\ Len(lh) + (outstanding + 1) * MAXOPBLOCKS <= LOGSIZE

BeginOp(p) ==
    /\ Running /\ pc[p] = "idle" /\ p \notin asleep
    /\ MayBegin
    /\ outstanding' = outstanding + 1
    /\ pc' = [pc EXCEPT ![p] = "op"]
    /\ UNCHANGED <<diskVars, mem, lh, committing, held, wrote, tail, asleep,
                   bootVars, panic>>

\* sleep(&log, &log.lock) in the loop of begin_op.
BeginSleep(p) ==
    /\ Running /\ pc[p] = "idle" /\ p \notin asleep
    /\ ~MayBegin
    /\ asleep' = asleep \cup {p}
    /\ UNCHANGED <<diskVars, mem, lh, outstanding, committing, pc, held, wrote,
                   tail, bootVars, panic>>

MutantEndOpWakes == {}

\* wakeup(&log) of end_op while other calls are active: all sleepers try again.
EndOpWakes == asleep

EndOp(p) ==
    /\ Running /\ pc[p] = "op" /\ held[p] = NoBlock
    /\ outstanding' = outstanding - 1
    /\ IF committing
       THEN panic' = "log.committing" /\ UNCHANGED <<pc, committing, asleep>>
       ELSE IF outstanding' = 0
       THEN /\ committing' = TRUE
            /\ pc' = [pc EXCEPT ![p] = IF lh = <<>> THEN "done" ELSE "write_log"]
            /\ UNCHANGED <<asleep, panic>>
       ELSE /\ pc' = [pc EXCEPT ![p] = "idle"]
            /\ asleep' = asleep \ EndOpWakes
            /\ UNCHANGED <<committing, panic>>
    /\ wrote' = [wrote EXCEPT ![p] = {}]
    /\ UNCHANGED <<diskVars, mem, lh, held, tail, bootVars>>

-----------------------------------------------------------------------------
(* Changing a block *)

\* The caller locks the buffer of b and changes it; log_write's checks run
\* before log.lock is taken.
Modify(p, b, v) ==
    /\ Running /\ pc[p] = "op" /\ held[p] = NoBlock
    /\ \A q \in Procs : held[q] # b
    /\ Cardinality(wrote[p] \cup {b}) <= OpBlocks
    /\ mem' = [mem EXCEPT ![b] = v]
    /\ held' = [held EXCEPT ![p] = b]
    /\ wrote' = [wrote EXCEPT ![p] = @ \cup {b}]
    /\ panic' = IF Len(lh) >= LOGSIZE \/ Len(lh) >= Size - 1
                THEN "too big a transaction"
                ELSE IF outstanding < 1 THEN "log_write outside of trans"
                ELSE panic
    /\ UNCHANGED <<diskVars, lh, outstanding, committing, pc, tail, asleep, bootVars>>

\* Log absorption: a block is listed once.
Absorb(b) == IF b \in Elems(lh) THEN lh ELSE Append(lh, b)

\* log_write under log.lock, then brelse.
LogWrite(p) ==
    /\ Running /\ held[p] # NoBlock
    /\ lh' = Absorb(held[p])
    /\ held' = [held EXCEPT ![p] = NoBlock]
    /\ UNCHANGED <<diskVars, mem, outstanding, committing, pc, wrote, tail,
                   asleep, bootVars, panic>>

-----------------------------------------------------------------------------
(* commit *)

\* The loop of write_log: cache block to log block.
WriteLog(p) ==
    /\ Running /\ pc[p] = "write_log" /\ tail[p] < Len(lh)
    /\ logblk' = [logblk EXCEPT ![tail[p] + 1] = mem[lh[tail[p] + 1]]]
    /\ tail' = [tail EXCEPT ![p] = @ + 1]
    /\ UNCHANGED <<home, hdr, mem, lh, outstanding, committing, pc, held, wrote,
                   asleep, bootVars, panic>>

MutantCommitReady(p) == pc[p] = "write_log"

CommitReady(p) == pc[p] = "write_log" /\ tail[p] = Len(lh)

\* write_head: the point at which the transaction commits.
WriteHead(p) ==
    /\ Running /\ CommitReady(p)
    /\ hdr' = lh
    /\ pc' = [pc EXCEPT ![p] = "install"]
    /\ tail' = [tail EXCEPT ![p] = 0]
    /\ UNCHANGED <<home, logblk, mem, lh, outstanding, committing, held, wrote,
                   asleep, bootVars, panic>>

\* One turn of install_trans: log block i to its home block, cached copy too.
InstallBlock(i) ==
    /\ home' = [home EXCEPT ![lh[i]] = logblk[i]]
    /\ mem' = [mem EXCEPT ![lh[i]] = logblk[i]]

Install(p) ==
    /\ Running /\ pc[p] = "install" /\ tail[p] < Len(lh)
    /\ InstallBlock(tail[p] + 1)
    /\ tail' = [tail EXCEPT ![p] = @ + 1]
    /\ UNCHANGED <<logblk, hdr, lh, outstanding, committing, pc, held, wrote,
                   asleep, bootVars, panic>>

MutantInstalled(p) == pc[p] = "install"

Installed(p) == pc[p] = "install" /\ tail[p] = Len(lh)

\* lh.n = 0 and write_head: the transaction is erased from the log.
Erase(p) ==
    /\ Running /\ Installed(p)
    /\ lh' = <<>>
    /\ hdr' = <<>>
    /\ pc' = [pc EXCEPT ![p] = "done"]
    /\ tail' = [tail EXCEPT ![p] = 0]
    /\ UNCHANGED <<home, logblk, mem, outstanding, committing, held, wrote,
                   asleep, bootVars, panic>>

\* wakeup(&log) of end_op after commit().
DoneWakes == asleep

\* end_op after commit(): let the others in again.
CommitDone(p) ==
    /\ Running /\ pc[p] = "done"
    /\ committing' = FALSE
    /\ asleep' = asleep \ DoneWakes
    /\ pc' = [pc EXCEPT ![p] = "idle"]
    /\ UNCHANGED <<diskVars, mem, lh, outstanding, held, wrote, tail, bootVars, panic>>

-----------------------------------------------------------------------------
(* Crash and recovery *)

\* Power failure, or the reset after a panic: what is in memory is lost.
Crash ==
    /\ lh' = <<>>
    /\ outstanding' = 0
    /\ committing' = FALSE
    /\ pc' = [p \in Procs |-> "idle"]
    /\ held' = [p \in Procs |-> NoBlock]
    /\ wrote' = [p \in Procs |-> {}]
    /\ tail' = [p \in Procs |-> 0]
    /\ rtail' = 0
    /\ asleep' = {}
    /\ boot' = "read_head"
    /\ panic' = "none"
    /\ UNCHANGED <<diskVars, mem>>

\* initlog, read_head.  The cache is empty: blocks read as they are on disk.
ReadHead ==
    /\ boot = "read_head"
    /\ lh' = hdr
    /\ mem' = home
    /\ boot' = "install"
    /\ UNCHANGED <<diskVars, outstanding, committing, pc, held, wrote, tail, rtail,
                   asleep, panic>>

\* recover_from_log, install_trans.
RecoverInstall ==
    /\ boot = "install" /\ rtail < Len(lh)
    /\ InstallBlock(rtail + 1)
    /\ rtail' = rtail + 1
    /\ UNCHANGED <<logblk, hdr, lh, outstanding, committing, pc, held, wrote, tail,
                   asleep, boot, panic>>

\* recover_from_log, lh.n = 0 and write_head.
RecoverErase ==
    /\ boot = "install" /\ rtail = Len(lh)
    /\ lh' = <<>>
    /\ hdr' = <<>>
    /\ rtail' = 0
    /\ boot' = "up"
    /\ UNCHANGED <<home, logblk, mem, outstanding, committing, pc, held, wrote, tail,
                   asleep, panic>>

-----------------------------------------------------------------------------
Progress(p) ==
    \/ EndOp(p) \/ LogWrite(p) \/ WriteLog(p) \/ WriteHead(p) \/ Install(p)
    \/ Erase(p) \/ CommitDone(p)

Recover == ReadHead \/ RecoverInstall \/ RecoverErase

Next ==
    \/ \E p \in Procs : BeginOp(p) \/ BeginSleep(p) \/ Progress(p)
    \/ \E p \in Procs, b \in Blocks, v \in Vals : Modify(p, b, v)
    \/ Recover
    \/ Crash

Spec == Init /\ [][Next]_vars

-----------------------------------------------------------------------------
(* Properties *)

\* What a reboot would find: the home blocks, overlaid with the blocks of the
\* log when the header on the disk lists any.
Durable ==
    [b \in Blocks |->
        IF b \in Elems(hdr)
        THEN logblk[CHOOSE i \in 1 .. Len(hdr) : hdr[i] = b]
        ELSE home[b]]

Tx == INSTANCE TxDisk WITH
        db <- Durable,
        mem <- IF boot = "up" THEN mem ELSE Durable,
        active <- {p \in Procs : pc[p] = "op"}

\* The log implements the transactional disk: a group of file system calls
\* reaches the disk as a whole or not at all, wherever a crash hits commit(),
\* install_trans() or an earlier recovery.
CrashAtomic == Tx!TxSpec

\* Only one process commits, and while it does no file system call is active:
\* "there is never any reasoning required about whether a commit might write
\* an uncommitted system call's updates".
CommitAlone ==
    \A p \in Procs : pc[p] \in PCs \ {"idle", "op"} =>
        /\ committing /\ outstanding = 0
        /\ \A q \in Procs \ {p} : pc[q] = "idle"

\* A buffer that is neither logged (B_DIRTY) nor locked by a process may be
\* evicted: it holds what is on the disk.
EvictableClean ==
    boot = "up" => \A b \in Blocks :
        b \notin Elems(lh) /\ (\A p \in Procs : held[p] # b) => mem[b] = home[b]

\* begin_op reserves enough space: log_write neither panics nor lists more
\* blocks than the log on the disk has room for beside its header (calls that
\* start while others are active add to the same transaction).
SpaceReserved == panic = "none" /\ Len(lh) <= Size - 1

\* A process sleeps in begin_op only while it cannot begin, and while a call or
\* a commit is in progress whose end will wake it: whenever end_op gives space
\* back, it wakes the sleepers in the same critical section.
SleepersMustWait == asleep # {} => ~MayBegin /\ (committing \/ outstanding > 0)
=============================================================================
