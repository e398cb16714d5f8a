------------------------------ MODULE Console ------------------------------
(***************************************************************************)
(* The input side of console.c: keys are edited and committed by           *)
(* consoleintr and taken line by line by consoleread, over one ring with   *)
(* the cursors r (read), w (committed) and e (edited).  The operators say  *)
(* what one critical section of cons.lock does to the ring.                *)
(***************************************************************************)
EXTENDS Integers, Sequences, FiniteSetsExt

CONSTANTS INPUT_BUF, Wrap2

ASSUME ConsoleAssumption ==
    /\ INPUT_BUF \in Nat \ {0}
    /\ Wrap2 \in Nat \ {0} /\ Wrap2 % INPUT_BUF = 0 /\ Wrap2 > INPUT_BUF

Newline == "\n"
CtrlD == "^D"
CtrlU == "^U"
CtrlH == "^H"
CtrlP == "^P"

Pos == 0 .. INPUT_BUF - 1
NoInput == [buf |-> [i \in Pos |-> "0"], r |-> 0, w |-> 0, e |-> 0]

\* Unsigned distance from cursor a to cursor b.
Dist(a, b) == (b - a) % Wrap2
Plus(a, k) == (a + k) % Wrap2
KeyAt(in, i) == in.buf[i % INPUT_BUF]

\* ^U: back to the last committed key or to just after a newline.
KillLine(in) ==
    LET n == Dist(in.w, in.e)
        stop(d) == d = n \/ KeyAt(in, Plus(in.e, -d - 1)) = Newline
    IN  [in EXCEPT !.e = Plus(@, -Min({d \in 0 .. n : stop(d)}))]

Backspace(in) == IF in.e = in.w THEN in ELSE [in EXCEPT !.e = Plus(@, -1)]

MutantStore(in, c) ==
    IF Dist(in.r, in.e) > INPUT_BUF THEN in
    ELSE LET e1 == Plus(in.e, 1)
         IN  [in EXCEPT !.buf[in.e % INPUT_BUF] = c, !.e = e1,
                !.w = IF c \in {Newline, CtrlD} \/ e1 = Plus(in.r, INPUT_BUF) THEN e1 ELSE @]

\* Any other key: dropped when the ring is full, else stored; a newline, ^D
\* and the key that fills the ring commit the line.
Store(in, c) ==
    IF Dist(in.r, in.e) >= INPUT_BUF THEN in
    ELSE LET e1 == Plus(in.e, 1)
         IN  [in EXCEPT !.buf[in.e % INPUT_BUF] = c, !.e = e1,
                !.w = IF c \in {Newline, CtrlD} \/ e1 = Plus(in.r, INPUT_BUF) THEN e1 ELSE @]

\* One key in the loop of consoleintr.
PutKey(in, c) ==
    CASE c = CtrlP -> in
      [] c = CtrlU -> KillLine(in)
      [] c = CtrlH -> Backspace(in)
      [] OTHER -> Store(in, c)

\* wakeup(&input.r) is called when a line is committed.
Commits(in, c) == PutKey(in, c).w # in.w

\* The loop of consoleread until it returns or finds the ring empty: it takes
\* keys up to n of them, a newline or ^D.
Scanned(in, n) ==
    LET avail == Dist(in.r, in.w)
        last(i) == i = n \/ KeyAt(in, Plus(in.r, i - 1)) \in {Newline, CtrlD}
        ends == {i \in 1 .. avail : last(i)}
    IN  [i \in 1 .. (IF ends = {} THEN avail ELSE Min(ends)) |->
            KeyAt(in, Plus(in.r, i - 1))]

EndsAtCtrlD(ks) == ks # <<>> /\ ks[Len(ks)] = CtrlD

\* The keys handed to the caller.
Line(in, n) ==
    LET ks == Scanned(in, n) IN IF EndsAtCtrlD(ks) THEN SubSeq(ks, 1, Len(ks) - 1) ELSE ks

\* The call is over: n keys, a newline or ^D were reached.
ReadOver(in, n) ==
    LET ks == Scanned(in, n)
    IN  ks # <<>> /\ (Len(ks) = n \/ ks[Len(ks)] \in {Newline, CtrlD})

\* The ring afterwards.  A ^D that ends a call with some keys (sofar of them
\* from before it slept) stays in the ring, so that the next call returns 0.
Consumed(in, n, sofar) ==
    LET ks == Scanned(in, n)
        keep == EndsAtCtrlD(ks) /\ (sofar > 0 \/ Len(ks) > 1)
    IN  [in EXCEPT !.r = Plus(@, IF keep THEN Len(ks) - 1 ELSE Len(ks))]
=============================================================================
