-------------------------------- MODULE Pipe --------------------------------
(***************************************************************************)
(* struct pipe of pipe.c: a ring of PIPESIZE bytes between a read end and a *)
(* write end.  The operators say what one critical section of p->lock does *)
(* to the pipe; the module Files makes actions of them.  nread and nwrite  *)
(* are unsigned counters that wrap around at Wrap (2^32 in the kernel).    *)
(***************************************************************************)
EXTENDS Integers, Sequences, FiniteSetsExt

CONSTANTS PIPESIZE, Wrap

\* The ring position is nread % PIPESIZE: it survives the wrap-around of the
\* counter only because PIPESIZE divides 2^32.
ASSUME PipeAssumption == /\ PIPESIZE \in Nat \ {0}
                         /\ Wrap \in Nat \ {0} /\ Wrap % PIPESIZE = 0 /\ Wrap > PIPESIZE

Cell == 0 .. PIPESIZE - 1

\* The bytes of a fresh page are whatever kalloc left there.
Junk == "junk"

NewPipe == [data |-> [i \in Cell |-> Junk], nread |-> 0, nwrite |-> 0,
            readopen |-> TRUE, writeopen |-> TRUE]

\* The page of a pipe that is not allocated.
NoPipe == [NewPipe EXCEPT !.readopen = FALSE, !.writeopen = FALSE]

Count(pp) == (pp.nwrite - pp.nread) % Wrap
Empty(pp) == pp.nread = pp.nwrite
Full(pp) == pp.nwrite = (pp.nread + PIPESIZE) % Wrap

\* The bytes written and not yet read, oldest first.
Contents(pp) ==
    [i \in 1 .. Count(pp) |-> pp.data[(pp.nread + i - 1) % PIPESIZE]]

\* The loop of pipewrite up to the end of bs or a full ring: how many bytes
\* it stores, and the pipe afterwards.
Fits(pp, bs) == Min({Len(bs), PIPESIZE - Count(pp)})

Put(pp, bs) ==
    LET k == Fits(pp, bs)
        off(i) == (i - pp.nwrite) % PIPESIZE
    IN  [pp EXCEPT
          !.data = [i \in Cell |-> IF off(i) < k THEN bs[off(i) + 1] ELSE pp.data[i]],
          !.nwrite = (@ + k) % Wrap]

\* The copy loop of piperead: what a call for n bytes gets, and the pipe
\* afterwards.
Got(pp, n) == SubSeq(Contents(pp), 1, Min({n, Count(pp)}))
MutantTake(pp, n) == [pp EXCEPT !.nread = (@ + n) % Wrap]
Take(pp, n) == [pp EXCEPT !.nread = (@ + Len(Got(pp, n))) % Wrap]

\* pipeclose: one end goes; with both gone the page goes back to kfree.
CloseEnd(pp, writable) ==
    LET q == IF writable THEN [pp EXCEPT !.writeopen = FALSE]
                         ELSE [pp EXCEPT !.readopen = FALSE]
    IN  IF q.readopen \/ q.writeopen THEN q ELSE NoPipe
=============================================================================
