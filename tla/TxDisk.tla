------------------------------- MODULE TxDisk -------------------------------
(***************************************************************************)
(* What the logging system promises to the file system: a disk whose       *)
(* content changes only as a whole, at moments when no file system call is *)
(* active.  A crash takes the system back to the last of those moments, so *)
(* that every system call has happened completely or not at all.           *)
(***************************************************************************)
CONSTANTS Procs, Blocks, Vals

VARIABLES db,       \* what a reboot would find on the disk
          mem,      \* what the file system calls read and write
          active    \* the processes inside a file system call

txVars == <<db, mem, active>>

TxInit ==
    /\ db \in [Blocks -> Vals]
    /\ mem = db
    /\ active = {}

Begin(p) ==
    /\ p \notin active
    /\ active' = active \cup {p}
    /\ UNCHANGED <<db, mem>>

Write(p, b, v) ==
    /\ p \in active
    /\ mem' = [mem EXCEPT ![b] = v]
    /\ UNCHANGED <<db, active>>

End(p) ==
    /\ p \in active
    /\ active' = active \ {p}
    /\ UNCHANGED <<db, mem>>

Commit ==
    /\ active = {}
    /\ db' = mem
    /\ UNCHANGED <<mem, active>>

Crash ==
    /\ mem' = db
    /\ active' = {}
    /\ UNCHANGED db

TxNext ==
    \/ \E p \in Procs : Begin(p) \/ End(p)
    \/ \E p \in Procs, b \in Blocks, v \in Vals : Write(p, b, v)
    \/ Commit
    \/ Crash

TxSpec == TxInit /\ [][TxNext]_txVars
=============================================================================
