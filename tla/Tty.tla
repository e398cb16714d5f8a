-------------------------------- MODULE Tty --------------------------------
(***************************************************************************)
(* What the console promises its readers: two queues of keys.  Keys go to  *)
(* the line being edited, where ^H and ^U take them back; a newline, ^D or *)
(* a full buffer commits the line; committed keys are read in order, each  *)
(* once, and cannot be edited any more.  Keys typed into a full buffer are *)
(* dropped.                                                                *)
(***************************************************************************)
EXTENDS Naturals, Sequences, SequencesExt

CONSTANTS Keys, Capacity

VARIABLES committed, editing

TtyInit == committed = <<>> /\ editing = <<>>

Key(c) == /\ Len(committed) + Len(editing) < Capacity
          /\ LET line == Append(editing, c)
                 commit == c \in {"\n", "^D"} \/ Len(committed) + Len(line) = Capacity
             IN  IF commit THEN committed' = committed \o line /\ editing' = <<>>
                           ELSE editing' = line /\ UNCHANGED committed

Rubout == /\ editing # <<>>
          /\ editing' = Front(editing)
          /\ UNCHANGED committed

Kill == editing' = <<>> /\ UNCHANGED committed

\* A reader takes keys from the front, up to a newline or ^D, which it may
\* leave for the next call.
Read == /\ IsSuffix(committed', committed)
        /\ LET n == Len(committed) - Len(committed')
           IN  \A i \in 1 .. n - 1 : committed[i] \notin {"\n", "^D"}
        /\ UNCHANGED editing

TtyNext == (\E c \in Keys : Key(c)) \/ Rubout \/ Kill \/ Read

TtySpec == TtyInit /\ [][TtyNext]_<<committed, editing>>
=============================================================================
