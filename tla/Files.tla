------------------------------- MODULE Files -------------------------------
(***************************************************************************)
(* The file table of file.c, the descriptors of the processes and the      *)
(* pipes behind them.  Every operator is the effect of one critical        *)
(* section of ftable.lock or p->lock on these variables; the module Shell  *)
(* says which process executes it when.                                    *)
(***************************************************************************)
EXTENDS Pipe, FiniteSets

CONSTANTS NFILE,    \* size of the file table
          NOFILE,   \* descriptors per process
          Procs,    \* slots of the process table
          Pages     \* pages that kalloc can hand out for pipes

VARIABLES ftable,   \* struct file, by index
          ofile,    \* curproc->ofile: the index of the file, 0 for none
          pipes     \* struct pipe, by page

fileVars == <<ftable, ofile, pipes>>

FileIds == 1 .. NFILE
Fds == 0 .. NOFILE - 1

\* Fields of a free entry are never read; they are kept in one normal form.
FreeFile == [ref |-> 0, type |-> "NONE", obj |-> 0, off |-> 0,
             readable |-> FALSE, writable |-> FALSE]
NoFiles == [fd \in Fds |-> 0]

\* filealloc and fdalloc: the first free entry.
FreeFiles == {f \in FileIds : ftable[f].ref = 0}
FreeFds(p) == {fd \in Fds : ofile[p][fd] = 0}
FreePages == {i \in Pages : ~pipes[i].readopen /\ ~pipes[i].writeopen}

\* argfd: the file behind a descriptor, 0 if there is none.
ArgFd(p, fd) == IF fd \in Fds THEN ofile[p][fd] ELSE 0

InodeFile(obj, mode) ==
    [ref |-> 1, type |-> "INODE", obj |-> obj, off |-> 0,
     readable |-> mode \in {"r", "rw"}, writable |-> mode \in {"wc", "rw"}]
PipeFile(pg, w) ==
    [ref |-> 1, type |-> "PIPE", obj |-> pg, off |-> 0, readable |-> ~w, writable |-> w]

\* sys_open, once the inode is found: FALSE when the table or the descriptors
\* are exhausted.
CanOpen(p) == FreeFiles # {} /\ FreeFds(p) # {}
OpenInode(p, obj, mode) ==
    LET f == Min(FreeFiles) IN
    /\ ftable' = [ftable EXCEPT ![f] = InodeFile(obj, mode)]
    /\ ofile' = [ofile EXCEPT ![p][Min(FreeFds(p))] = f]
    /\ UNCHANGED pipes

\* sys_dup: fdalloc, then filedup.
Dup(p, fd) ==
    LET f == ArgFd(p, fd)
    IN  IF f = 0 \/ FreeFds(p) = {} THEN UNCHANGED fileVars
        ELSE /\ ofile' = [ofile EXCEPT ![p][Min(FreeFds(p))] = f]
             /\ ftable' = [ftable EXCEPT ![f].ref = @ + 1]
             /\ UNCHANGED pipes

\* How many of the descriptors S of p name the file f.
Naming(p, S, f) == Cardinality({fd \in S : ofile[p][fd] = f})

\* fileclose of the descriptors S, cleared, up to the release of ftable.lock.
DropFds(p, S) ==
    /\ ofile' = [ofile EXCEPT ![p] = [fd \in Fds |-> IF fd \in S THEN 0 ELSE @[fd]]]
    /\ ftable' = [f \in FileIds |->
            LET k == Naming(p, S, f)
            IN  IF k > 0 /\ ftable[f].ref = k THEN FreeFile ELSE [ftable[f] EXCEPT !.ref = @ - k]]
    /\ UNCHANGED pipes

\* With the descriptors up to fd of S, the last reference to an end of a pipe
\* goes at fd, and pipeclose follows.
LastPipeRef(p, S, fd) ==
    LET f == ofile[p][fd]
    IN  ftable[f].type = "PIPE" /\ ftable[f].ref = Naming(p, {x \in S : x <= fd}, f)

\* fork: the child q gets a copy of p's descriptors, with one filedup each.
MutantCopyFds(p, q) ==
    /\ ofile' = [ofile EXCEPT ![q] = ofile[p]]
    /\ ftable' = [f \in FileIds |->
            IF \E fd \in Fds : ofile[p][fd] = f THEN [ftable[f] EXCEPT !.ref = @ + 1] ELSE ftable[f]]
    /\ UNCHANGED pipes

CopyFds(p, q) ==
    /\ ofile' = [ofile EXCEPT ![q] = ofile[p]]
    /\ ftable' = [f \in FileIds |->
            [ftable[f] EXCEPT !.ref = @ + Naming(p, Fds, f)]]
    /\ UNCHANGED pipes

\* sys_pipe with pipealloc: two files, a page, two descriptors; when one of
\* them is missing, everything taken so far is given back.
CanPipe(p) == /\ Cardinality(FreeFiles) >= 2 /\ FreePages # {}
              /\ Cardinality(FreeFds(p)) >= 2
Rf == Min(FreeFiles)
Wf == Min(FreeFiles \ {Rf})
Fd0(p) == Min(FreeFds(p))
Fd1(p) == Min(FreeFds(p) \ {Fd0(p)})
MakePipe(p) ==
    LET pg == Min(FreePages) IN
    /\ pipes' = [pipes EXCEPT ![pg] = NewPipe]
    /\ ftable' = [ftable EXCEPT ![Rf] = PipeFile(pg, FALSE), ![Wf] = PipeFile(pg, TRUE)]
    /\ ofile' = [ofile EXCEPT ![p][Fd0(p)] = Rf, ![p][Fd1(p)] = Wf]

-----------------------------------------------------------------------------
(* The pipes as the bounded queues of Channel *)

Channels == INSTANCE Channel WITH
    Pipes <- Pages, Capacity <- PIPESIZE,
    channel <- [i \in Pages |-> [q |-> Contents(pipes[i]),
                                 r |-> pipes[i].readopen, w |-> pipes[i].writeopen]]

\* pipewrite, piperead, pipeclose and pipealloc together behave as bounded
\* queues: no byte is lost, repeated or reordered, also when the counters wrap
\* around, until both ends are closed.
PipeIsChannel == Channels!ChannelSpec
=============================================================================
