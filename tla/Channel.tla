------------------------------ MODULE Channel ------------------------------
(***************************************************************************)
(* What pipe.c promises: every pipe is a bounded queue of bytes.  Bytes go *)
(* in at the back while the write end is open and come out at the front    *)
(* while the read end is open; nothing is lost, repeated or reordered      *)
(* until both ends are closed.                                             *)
(***************************************************************************)
EXTENDS Naturals, Sequences, SequencesExt

CONSTANTS Pipes, Capacity

VARIABLE channel    \* for every pipe its bytes q and its open ends

Closed == [q |-> <<>>, r |-> FALSE, w |-> FALSE]
Fresh == [q |-> <<>>, r |-> TRUE, w |-> TRUE]

ChannelInit == channel = [i \in Pipes |-> Closed]

Create(c, d) == c = Closed /\ d = Fresh

Send(c, d) == /\ c.w /\ d.w /\ c.r = d.r
              /\ IsPrefix(c.q, d.q) /\ Len(d.q) <= Capacity

Receive(c, d) == /\ c.r /\ d.r /\ c.w = d.w
                 /\ IsSuffix(d.q, c.q)

CloseOne(c, d) == /\ c.r /\ c.w
                  /\ d \in {[c EXCEPT !.w = FALSE], [c EXCEPT !.r = FALSE]}

CloseLast(c, d) == c.r # c.w /\ d = Closed

ChannelStep(c, d) == Create(c, d) \/ Send(c, d) \/ Receive(c, d)
                       \/ CloseOne(c, d) \/ CloseLast(c, d)

\* One pipe at a time.
ChannelNext ==
    \E i \in Pipes : /\ ChannelStep(channel[i], channel'[i])
                     /\ \A j \in Pipes \ {i} : channel'[j] = channel[j]

ChannelSpec == ChannelInit /\ [][ChannelNext]_channel
=============================================================================
