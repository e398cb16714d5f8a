# Customised xv6: a TLA+ model of the kernel and its shell

The repository is xv6 for x86 with four builds of the scheduler (`SCHEDULER` of
the Makefile: DEFAULT, PBS, FCFS, MLFQ) and the system calls `waitx`, `chpr` and
`getpinfo`. These modules model the kernel from the process table to the disk,
and the user programs whose correctness rests on it: shell, init and `malloc`.

## The system

| Part | State | Operations | What makes it hard |
|---|---|---|---|
| Processes (`proc.c`, `trap.c`) | `ptable.proc`, `cpu->proc`, `nextpid` | fork, exit, wait, waitx, kill, sleep, wakeup, yield, scheduler | `ptable.lock` is handed from thread to thread; half of fork, exit and the tests of `p->killed` run without it |
| MLFQ scheduler | five rings, `p->queue`, `last_executed`, `ageing_update` | enqueue, dequeue, slices, demotion, ageing | every path that makes a process RUNNABLE must enqueue it once |
| DEFAULT, PBS, FCFS schedulers | `priority`, `ctime`, `last_executed` | search of the table, chpr | starvation, ties |
| Sleep locks (`sleeplock.c`) | `locked`, `pid`, two spin locks | acquiresleep, releasesleep | the wakeup that falls between test and sleep |
| Pipes, files (`pipe.c`, `file.c`) | ring and counters, reference counts, descriptors | pipe, read, write, dup, close, fork's copies | ends shared by processes that close, exit and are killed in any order |
| Console (`console.c`) | `input.r`, `input.w`, `input.e` | consoleintr, consoleread, consolewrite | keys arrive while a line is edited, unread or half read |
| Shell (`sh.c`, `init.c`) | a tree of processes per command | parsecmd, runcmd, main | the end of a pipeline depends on every close of every process |
| Buffer cache, IDE (`bio.c`, `ide.c`) | LRU list, flags, `idequeue` | bread, bwrite, brelse, iderw, ideintr | recycling, pinned buffers, interrupts |
| Log (`log.c`) | `log.lh`, `outstanding`, `committing`, header and log blocks on disk | begin_op, end_op, log_write, commit, recovery | crashes between disk writes; group commit |
| Inodes, directories, calls (`fs.c`, `sysfile.c`) | bitmap, inodes, directory entries, inode cache | open, mkdir, mknod, link, unlink, chdir, read, write, close | a call lets one inode go before it takes the next |
| Memory (`kalloc.c`, `vm.c`, `exec.c`, `syscall.c`) | free list, page tables, `sz` | fork, exec, sbrk, exit, wait, argument checks | memory runs out anywhere |
| Allocator (`umalloc.c`) | circular free list | malloc, free, morecore | neighbours join in any order |
| Boot (`main.c`, `entryother.S`) | the shared start page, `started`, `flag` | startothers, mpenter, userinit, start of scheduler | CPUs enter the scheduler before the first process exists |

System calls run in the context of a process (Proc). File system calls lock
inodes (SleepLock, Icache) and bracket their writes with begin_op and end_op
(Log), which pins buffers of the cache (Bcache) over the driver (Ide). Timer
interrupts drive `yield` and the clocks of the schedulers. The shell composes
fork, exec, wait, pipes, descriptors, files and the console.

Each layer is modelled over the promise of the one below, not over its code. Log
writes blocks one at a time; that the cache and the driver give it such blocks is
`BlocksAreAtomic`. FsCalls changes the disk in steps; that a crash leaves whole
calls is `CrashAtomic`. Shell sleeps and wakes in single steps; that none is lost
on the way is `NoLostWakeup` and `NoMissedExit`.

## Modules

* **SleepLock** is one sleep lock over `sleep`/`wakeup`, with one action per
  stretch of code between two spin lock operations: `lk->lk` and `ptable.lock`
  are variables, so the order of acquire and release inside `sleep()` is part of
  the model. `Kill` wakes a sleeper at any time. A process that was asleep is
  RUNNABLE until `Resume`, which is the scheduler's choice and has no fairness.
* **Proc** is the process table. One action is one critical section of
  `ptable.lock`, including what the scheduler does with the lock that `sched()`
  hands to it. `pc` records where a kernel thread stands between two sections:
  `"fork"` after `allocproc`, `"presleep"` after the test of `p->killed`,
  `"exit"` before the lock of `exit()`. A process that comes back from sleep
  inside `wait()` holds the lock until it has scanned the table (`LockFree`).
  `waitx` is `wait` here: it differs only in time fields. Wait channels are a
  process (`wait`), `IO` (sleepers that test `p->killed`) and `DISK` (sleepers
  that do not). `wakeup` of a channel may come at any time; the one in the timer
  interrupt is such a wakeup of `IO`.
* **Mlfq** and **Policies** extend Proc and conjoin every step of it with what
  the same section does to the rings, priorities and clocks; `Dispatch` is
  restricted to the process that the build chooses. Mlfq sees time only as
  differences, saturated above `Ageing_const`; Policies keeps the ranks of the
  times the build compares. A ring is the sequence from head to tail; an
  `enqueue` that makes tail meet head empties it, as in the code.
* **Log** is `log.c`, one step per critical section of `log.lock` or per disk
  write, with `Crash` enabled in every state. **TxDisk** is the abstract disk
  it implements: contents change only as a whole and only while no call is
  active. The mapping takes as the disk what recovery would find (`Durable`).
* **Boot** is the start of `NCPU` processors with the MLFQ build, one memory
  access of the shared data per step.
* **Pipe** has the operations on one pipe's ring, its counters wrapping at
  `Wrap`. **Files** adds the pages that hold pipes, the file table and the
  descriptors of every process. **Channel** is what pipes promise: bounded queues
  with two ends.
* **Console** has the three cursors of the input ring, wrapping at `Wrap2`;
  **Tty** is what it promises, committed keys followed by a line being edited. A
  key is a whole word, a symbol or a control key.
* **Parse** is the recursive descent of `sh.c` over tokens, with `Write` for the
  inverse direction. **Shell** is a session: init, the shell, and processes that
  are lists of the system calls they will make (`CodeOf` follows `runcmd`,
  `EchoCode` and `CatCode` the programs). One
  action is a system call up to the first lock that others contend for, or one
  critical section of such a lock. `fork`, `pipe` and `open` can run out of
  resources; a process can be killed at the places a session names.
* **Ide** is the request queue, the controller and `iderw`'s sleepers;
  **Bcache** adds `bget`, `bwrite`, `brelse` and the pins of the log, in LRU
  order. Its actors are uses, not processes: a process that holds two buffers,
  as a commit or `bmap` does, is two of them (`Uses`). **BlockStore** is what they
  promise: a block that one use at a time holds, and whose contents survive in
  between.
* **Inode** is `fs.c` over a disk that nobody else touches: bitmap, inodes with
  direct and indirect blocks, directory entries, and the image `mkfs` builds. A
  cell is a directory entry or a unit of data, `BSIZE` of them a block.
  **Icache** adds the cache slots, their locks and `namex`, one step per lock
  taken. **FsCalls** has the calls. A process runs a script of calls; `reg` holds
  its local variables between two locks and `puts` the inodes it still has to
  `iput`. A write larger than `MaxWrite` is made in chunks, as in `filewrite`, and
  other calls come between them.
* **PageTable** is `kalloc.c` and `vm.c`, functions of memory that fail when no
  page is left. **Vm** has the calls on whole processes and the argument checks;
  each call is one step and any number of free pages may be left for it, which
  is all it sees of other CPUs. `End` counts as the kernel's what `main` keeps for
  good: its page table and the stacks of the CPUs. `KMapped` are the addresses
  above the user's that the kernel maps, into which a wrapped stack pointer of
  exec may lead. Three accesses of the code are not checked; there the variable
  `fault` says which, and the behaviour ends (see Observations). **AddressSpace**
  is the promise: private sequences of pages. **Umalloc** is `malloc` and `free` of one such process,
  over `sbrk`.
* **SleepLockProofs**, **ProcProofs** (with Policies and Mlfq), **LogProofs**,
  **BcacheProofs**, **BcacheRefinement**, **PageTableProofs**, **VmSteps** and
  **VmProofs** hold the theorems about the modules they are named for, and their
  lemmas (see Proofs).
* **MCProc**, **MCMlfq**, **MCLog**, **MCShell**, **MCBcache**, **MCFs** and
  **MCVm** give constants that a configuration file cannot write, and symmetry
  sets.

Operators named `Mutant...` are plausible slips in the definition that follows
them; each breaks the property that guards against it.

## Runs

| Run | Checks | Instance |
|---|---|---|
| `sleeplock` | TypeOK, MutualExclusion, NoLostWakeup, LockPassesOn | 4 processes |
| `proc` | OneCpuPerProcess, NoMissedExit, ParentAlive, EmbryoOwned | 4 slots, 3 pids for fork, 2 CPUs, kill of pid 2 |
| `mlfq` | RunnableQueuedOnce, BestLevelFirst, TopLevelRuns | 3 slots, 2 processes, 2 CPUs, 2 levels, `Ageing_const` 0 |
| `policies` | PbsPicksBest, FcfsPicksOldest, EqualsRoundRobin | 3 slots, 1 CPU, the three builds, priorities 60 and 45 |
| `log` | CommitAlone, EvictableClean, SpaceReserved, SleepersMustWait, CrashAtomic | 3 calls of one block, 4 blocks, 2 contents, reservation 2, log of 4 |
| `shell` | RefsMatch, SleepersHaveCause, PipelineMeaning, ParseInverts, PipeIsChannel, CommandEnds, ConsoleIsTty | 11 sessions, 7 processes, 2 pages, pipes of two bytes, counters that wrap at 4 |
| `disk` | OneBufferPerBlock, BufferAvailable, RequestPending, BlocksAreAtomic | 3 uses, 3 blocks, 2 buffers, 1 pinned |
| `fs` | BlocksOwnedOnce, LinksCounted, CacheCoherent, FilesIntact, FsNeverPanics | every pair of 9 scripts, 16 blocks of 2 cells, 8 inodes, chunks of 2 cells |
| `vm` | PagesOwnedOnce, SizeMapped, VmNeverPanics, HeapTiled, SpacesArePrivate | 2 processes, 16 pages, 8 programs, up to 7 calls |
| `boot_init_lost` | InitRuns fails | 2 CPUs |
| `mlfq_ageing` | NoSchedulerPanic fails | 4 slots, 1 CPU, `Ageing_const` 1 |
| `fs_deadlock` | NoLockCycle fails | as `fs` |

What the passing runs show: sleepers and waiters are not forgotten and processes
run on one CPU (`sleeplock`, `proc`); rings and searches choose what they are
meant to (`mlfq`, `policies`); a crash leaves whole calls (`log`); a command line
has the effect one reads off it, whatever the schedule, and the prompt returns
even when something fails or is killed (`shell`); blocks behave as a store under
recycling and interrupts (`disk`); concurrent calls keep bitmap, link counts,
cache and contents consistent (`fs`); memory is neither lost nor shared when
fork, exec or sbrk fails, up to an unchecked access (`vm`).

### Bounds

`MaxPid` ends the supply of pids, so each run has that many processes minus init,
with slots reused after wait and after a failed fork. Four slots give init, a
child, a grandchild and its child, which is what inherited zombies need. The log
instance admits two calls at once and makes the third wait for space; with
log.size = LOGSIZE, as mkfs writes it, the data blocks are one fewer than
LOGSIZE. `Ageing_const` 0 makes ageing due after every tick, so it is exercised
often; the MLFQ properties are stated up to the moment when ageing first moves a
process, because after it the rings are no longer consistent (`mlfq_ageing`).

`shell`: a pipe holds two bytes, so that it is empty, half full or full and its
two indices differ; six bytes go through it, and its counters wrap at 4 within a
session. `cat` reads up to three, more than a pipe holds. The console's ring of 10
keys wraps, and one line is longer than it. The sessions are editing, a list into
a pipe, a long line into a pipe, redirection both ways, `cat` of a file and of a
missing one, `cat | cat` from the console with a killed writer, end of file,
background, a syntax error, `cd`, failing resources with a kill anywhere, and a
killed reader.
`ParseInverts` covers every command tree of depth 2 over three simple commands.

`disk`: with two buffers, one of which may stay dirty (`MaxPinned`), for three uses
of three blocks, each miss recycles a buffer, and states with a buffer to spare,
with just enough and with too few all occur; in the last `bget` panics
(`bio.c:92`), and the run goes no further.

`fs`: with one direct and two indirect blocks of two cells, one script crosses
into the indirect block and fills a file, in more than one chunk. Names meet in `a`, `b` and `d`, so that
the pairs of scripts include create, link and unlink of one name, removal of a
directory in use, and reuse of freed inodes and blocks.

`vm`: a kernel call finds any number of the 16 pages left, so that every
allocation fails in some state; the address space has 7 pages under three tables,
and sizes wrap. Two programs have more arguments than stack below them: the
wrapped address is one the kernel maps, or one without a table. All three faults
occur. `Budgets` gives seven kernel calls,
or one and then six of `malloc` and `free`.

### Fairness

SleepLock: weak fairness of steps inside a critical section (a CPU does not
stop), strong fairness of taking a spin lock (`xchg` in a loop gets a lock that is
released again and again), nothing for `kill` or for starting to acquire, and
nothing for `Resume`: whether a RUNNABLE process runs is up to the build, and DEFAULT,
PBS and FCFS can pass one over for ever. `LockPassesOn` has it as its premise
(`Dispatched`): if no process stays RUNNABLE, the lock passes on.
Policies and Mlfq assume only that an idle CPU picks, that timers tick and that
the holder of the lock goes on. Boot: no CPU stops. Shell: weak fairness of the
whole of `Work`, that is, the machine does not stop while some process can step;
no single process is promised anything. Keys are typed by the environment and
belong to `Work`: a session is typed to its end. The other modules have no
liveness property; `SleepersMustWait` and `RequestPending` say instead that a
wakeup is never owed.

`CHECK_DEADLOCK FALSE` is set where sessions, scripts or budgets end.

### What the failing runs show

* `boot_init_lost`: the first CPU in `scheduler()` resets the rings without a
  lock; when this comes after `userinit`, the first process is lost
  (`proc.c:467` against the comment `proc.c:189`). With one CPU it always does.
* `mlfq_ageing`: ageing dequeues the head of a ring and re-enqueues the entry it
  is looking at, which then is in two rings; the scheduler stops at its own
  panic (`proc.c:674`, `proc.c:627`).
* `fs_deadlock`: `create` keeps the lock of the new inode while
  `iunlockput(dp)` first releases `dp` and then, in `iput`, takes its lock again
  (`sysfile.c:280`, `fs.c:334`). `link` of the same name gets `dp` in between,
  finds the entry, and `dirlink`'s `iput` (`fs.c:560`) waits for the new inode.
  `usertests.c:763` tests concurrent create, link and unlink of one file.

## Observations

Behaviours the modules have because the code has them, and no run singles out:

* `kill` marks UNUSED slots by their stale pid (`proc.c:823`) and `allocproc` does
  not clear the mark, so the next process in the slot dies. A kill between the
  test of `p->killed` and `sleep()` does not wake the process (`proc.c:827`).
* The DEFAULT build restarts its search at slot 0 at every switch (`proc.c:490`)
  and is not the round robin of `comparison.md:203`.
* A killed writer leaves a full pipe without a wakeup (`pipe.c:86`): the reader
  sleeps beside a byte until the write end is closed. `SleepersHaveCause` names
  this exception and `CommandEnds` shows that the close comes.
* `>>` truncates nothing and appends nothing: it opens the file like `>`
  (`sh.c`). Of two redirections of one descriptor the first written wins.
* Two `iput`s of the last references can both see `ref = 2` (`fs.c:339`); the inode
  is then never freed. A name created in a directory that was removed while the
  call waited is out of reach. The properties of `fs` allow both: nothing
  allocated is shared or lost to a live name.
* `growproc` takes size 0 for a failure (`proc.c:217`): the pages are gone, the
  size stays. A decrease beyond 0 wraps and changes nothing. Since it also returns
  before `switchuvm`, the only flush of the TLB, the process may go on with
  translations to pages that are free (`Fault("sbrk")`).
* `exec` lowers the stack pointer without a lower bound (`exec.c:75`). `copyout` then
  writes elsewhere in the new image, fails, or, where the wrapped address has no
  page table, makes `uva2ka` read through the null pointer that `walkpgdir`
  returns (`vm.c:355`, `Fault("exec")`).
* `sys_getpinfo` checks `sizeof(s)`, the size of a pointer, and `getpinfo` writes the
  whole structure (`sysproc.c:109`); when that leaves the mapped pages the kernel
  takes a page fault (`Fault("getpinfo")`).
* `NBUF` buffers do not cover a full log and more than one use (`param.h:11-12`);
  `bget` then panics (`bio.c:92`).
* `log_write` panics at a full log even for a block already listed (`log.c:218`);
  a call that stays within its reservation does not get there.
* With nothing RUNNABLE the DEFAULT search reads one slot past the table
  (`proc.c:497`), and `waitx` can report a negative waiting time, because `rtime`
  goes on ticking after `etime` is set (`proc.c:417`). Neither is modelled.
* A failed disk read marks the buffer valid (`ide.c:118`).

## Proofs

TLC checks small instances; the theorems below hold for every value of the
constants that satisfies the assumptions of the modules. PROJECT.json lists them
by name.

| Module | Proved | For every |
|---|---|---|
| SleepLockProofs | MutualExclusion, NoLostWakeup, TypeOK | set of processes |
| ProcProofs | OneCpuPerProcess, NoMissedExit, ParentAlive, EmbryoOwned | size of the table, set of CPUs, supply of pids |
| ProcProofs, on Policies | the builds implement Proc; PbsPicksBest, FcfsPicksOldest | as above, and set of priorities |
| ProcProofs, on Mlfq | the build implements Proc; RunnableQueuedOnce, BestLevelFirst, no panic before ageing | as above, and number and length of slices |
| LogProofs | CommitAlone, SleepersMustWait, SpaceReserved, EvictableClean, CrashAtomic (Log implements TxDisk) | set of processes, blocks and contents, sizes of log and reservation |
| BcacheProofs | OneBufferPerBlock, RequestPending, BufferAvailable | set of uses, blocks and contents, number of buffers and pins |
| BcacheRefinement | BlocksAreAtomic (Bcache and Ide implement BlockStore) | as above |
| VmProofs | PagesOwnedOnce, SizeMapped, VmNeverPanics, SpacesArePrivate (page tables implement AddressSpace) | size of memory, pages and addresses, number of processes, programs and contents |

### The arguments

*Sleep locks.* `IInv` adds to the properties `LocksInv` (each spin lock is held
exactly at the program points where the code holds it, and `locked`, `pid`,
`state`, `chan` agree with the program counters) and `WakerInv` (a process that
is asleep, *or has decided to sleep*, can rely on a holder or a releaser before
`wakeup1`). The second needs the first: a process between its test and its sleep
holds `lk->lk` or `ptable.lock`, so no releaser can finish in between.

*Process table.* `ProcIInv` adds to the four properties that a forking process
has its child's slot and is RUNNABLE or RUNNING (`ForkInv`), and that only
finished processes have a parent, nobody is its own, and init has none and never
dies (`ParentInv`). `exit()` needs both: it hands its children to init, which is
woken for the zombies among them, and what it does to an EMBRYO is nothing.

*Schedulers.* Every step of a build is a step of Proc or leaves the table alone,
so the table's theorems hold in all four builds. For PBS and FCFS the proof goes
through the loop over the table: after n slots the candidate is a RUNNABLE
process among them that none of them beats, and `Beats` is an order. For MLFQ,
`MlfqInv` says that the rings hold each RUNNABLE process once, in the ring of its
own level and nothing else, and that there was no panic, unless ageing has moved
a process (`Marked`); ageing either changes nothing or leaves the mark.
The theorems on the rings assume that a slot of the table is always UNUSED. This
is needed, not a convenience: a ring has NPROC places and counts as empty when the
last is filled (`proc.c:39`), so with every slot RUNNABLE at one level the
processes are lost; TLC finds this with two slots.

*Log.* `LogIInv` counts: `outstanding` is the number of active calls, a call has
logged every block it has changed but the one it holds, and the list has no
block twice. Space is the hard part. A single call may fill what is left of a
log that it alone has written (`Solo`); when calls overlap, blocks listed and
reservations still open together leave two places free (`Group`). `DataInv`
follows the stages of a commit and of a recovery: how far the log blocks are
written, what the header says, how far blocks are at home, and that recovery can
start over at any point. With it, what recovery would find changes only at the
write of the header, which is the step of TxDisk.

*Buffer cache and driver.* `BcIInv` has five parts besides the types: whose
buffer is whose and locked at which program points (`UserInv`), the counts and
one buffer for a block (`CacheInv`), every unfinished request once in the queue
(`QueueInv`), the controller on the head's request with the data of its buffer
(`ControllerInv`), and a valid, clean buffer that nobody is changing agrees with
the disk (`DataInv`). `BufferAvailable` also needs `KeptInv`, that no more than
`MaxPinned` buffers are dirty outside of a write, and a counting argument: a buffer
that cannot be recycled is dirty or has a use other than the caller's, so when `bget`
finds none, pins and uses under way are more than `NBUF`. The refinement maps a block
to the data of its valid buffer, or to the disk where it has none.

*Memory.* PageTableProofs follows each function of `kalloc.c`, `vm.c` and `exec.c`
through its loop and every failure in it: what it takes from the free list is in
the page table afterwards, or is free again (`Holds`: free list and table together
are always the pages the call started with). VmSteps lifts this to processes: a
call exchanges pages between the free list and one slot (`Turnover`). So
`VmIInv` is inductive: every page is free or has one place in one process, and a
process has the pages below its size, or none at all (`NoPages`: it has given up its
memory, see `growproc` above, and can only exit). The kernel does not fault because
what `fetchstr` and `argptr` admit is below the size, and those pages are there. A step
to a fault changes neither memory nor processes, and nothing comes after it, so the
theorems speak of everything up to it: no panic, no page lost and none shared, and
in the calls modelled no unchecked access but these three.
The refinement maps a process to the contents of its pages in the order of their
addresses. A call of one process writes no page of another, so all other memories
stay; the caller's changes as AddressSpace says.

The lemmas of PageTableProofs and VmSteps have a hypothesis `Counting`, that a set of
numbers has a least one and how pages are counted. VmProofs proves it
(`CountingHolds`) from the libraries of theorems, and no theorem depends on it.

*Loops.* The searches, the passes over rings and the loops over pages are recursive
functions. What they compute is proved by taking the least turn at which it fails
(`LeastNat`), and that such a function exists in the same way.

### Assumptions

Each is an `ASSUME` of the module that declares the constants, so every run
evaluates it.

* Proc: the table is not empty, pids are numbers, and channels of `wakeup` other
  than processes are `IO` and `DISK`. Mlfq: there is a level and slices are
  positive, as in `slice[]`.
* Log: `OpBlocks < MAXOPBLOCKS`, because the largest call, a chunk of `filewrite`,
  changes four data blocks, the i-node, the indirect and a bitmap block, and 10
  are reserved; `2 * MAXOPBLOCKS <= LOGSIZE <= Size`, because `param.h` has
  `LOGSIZE = 3 * MAXOPBLOCKS` and `mkfs` gives the log that many blocks. Without the
  first, the header block makes the log one short (see Bounds). Processes are
  finitely many (NPROC).
* Ide, Bcache: uses are finitely many, there is a content, the null value is
  none of the others, and the numbers of buffers and of pins are numbers. Nothing is
  assumed of how they compare: `BufferAvailable` itself counts, in the state, the
  uses under way, and says nothing where they and the pins are more than `NBUF`. The
  code does not exclude that: `NBUF` is 30, `NPROC` is 64, and only the reservations
  of the log limit how many processes are inside the cache at once.
* SleepLock: the value for a free lock is not a process.
* PageTable, Vm, Umalloc: sizes and addresses are numbers, `KERNBASE` is a multiple
  of the page size and more than a page, and memory has room for what `main` and
  `userinit` take (`KTABS + 4` pages; they panic otherwise, and no call is made). Fields of
  an ELF header are 32-bit numbers, as in `elf.h`, and arguments take between one unit
  and a user's address space. No memory of a process is the value
  that stands for a slot without one. `HeapAssumption` types what the heap run is given.

### Model-checked only

* Liveness (LockPassesOn, TopLevelRuns, EqualsRoundRobin, CommandEnds) is out of the
  proof system's reach.
* Shell and Parse (RefsMatch, SleepersHaveCause, PipelineMeaning, ParseInverts,
  PipeIsChannel, ConsoleIsTty) use recursive operators, which the provers cannot
  unfold.
* FsCalls and the free list of Umalloc (BlocksOwnedOnce, LinksCounted, CacheCoherent,
  FilesIntact, FsNeverPanics; HeapTiled) are not proved yet.

## Not modelled

PROJECT.json lists every part. Device registers, assembly entry code and string
helpers have no state that the properties need; process accounting, `ncli` and
`intena` are left out. Within the modules:

* Proc leaves out `forkret`'s one-time `initlog` and the address space (Vm).
* Log leaves out reads of blocks; the cache's eviction appears as its condition
  `EvictableClean`.
* Shell's files are whole contents by name, without inodes (FsCalls); the shell's
  `chdir` and a failing fork of init are left out.
* Ide's controller does not report errors: the branch of `ideintr` that keeps the old
  data of a failed read and marks it valid (`ide.c:118`) is left out, because with it
  a use would see data that no write gave the block and `BlocksAreAtomic` would be
  false. The properties of `disk` hold for a disk without errors.
* FsCalls' paths use `..` only as their last element. A longer path through a
  removed directory can reach a freed inode, at which `ilock` panics. The image
  is one whose root does not fill its blocks: `mkfs.c:161` makes a hole otherwise.
* Vm's exec does not read the inode of its file; user code is a store to one
  page, or a fault.

## Plan

1. Proofs: BlocksOwnedOnce and CacheCoherent of FsCalls; HeapTiled of Umalloc; the
   console ring against Tty.
2. Spin locks with `ncli` and `intena` across `sched()`; accounting (`waitx`,
   `getpinfo`) against the timer and `exit`.
