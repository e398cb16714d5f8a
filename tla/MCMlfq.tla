------------------------------- MODULE MCMlfq -------------------------------
(* Model values for Mlfq: two levels stand for the five of the code. *)
EXTENDS Mlfq

TwoLevels == <<1, 2>>
AllChans == {IO, DISK}
OnlyIO == {IO}
=============================================================================
