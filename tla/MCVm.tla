-------------------------------- MODULE MCVm --------------------------------
(***************************************************************************)
(* Two processes and too few pages: a program that loads, one with a       *)
(* segment after a gap, and ones that exec refuses after it has allocated. *)
(***************************************************************************)
EXTENDS Umalloc

Seg(vaddr, memsz, filesz, avail) ==
    [vaddr |-> vaddr, memsz |-> memsz, filesz |-> filesz, avail |-> avail]
Prog(segs, args, argc, tag) == [segs |-> segs, args |-> args, argc |-> argc, tag |-> tag]

MCPrograms == {
    Prog(<<Seg(0, 2, 1, 1)>>, 1, 1, "sh"),
    Prog(<<Seg(0, 1, 1, 1), Seg(4, 1, 0, 0)>>, 2, 1, "ls"),
    Prog(<<Seg(0, 3, 3, 1)>>, 1, 1, "cut"),          \* the file ends early
    Prog(<<Seg(0, 2, 1, 1), Seg(3, 1, 1, 1)>>, 1, 1, "odd"),  \* not aligned
    Prog(<<Seg(0, 2, 1, 1)>>, 3, 1, "long"),         \* more than the stack
    Prog(<<Seg(0, 1, 1, 1)>>, 7, 1, "device"),       \* and than the memory
    Prog(<<Seg(0, 1, 1, 1)>>, 10, 1, "hole"),        \* to where there is no table
    Prog(<<Seg(0, 1, 2, 2)>>, 1, 1, "none"),         \* memsz < filesz
    Prog(<<Seg(4, 26, 1, 1)>>, 1, 1, "wrap"),        \* beyond the addresses
    Prog(<<Seg(0, 2, 1, 1)>>, 1, MAXARG, "args")     \* too many arguments
    }
MCBudgets == {[kernel |-> 7, heap |-> 0], [kernel |-> 1, heap |-> 6]}
MCDeltas == {-KERNBASE, -2, -1, 3, KERNBASE}
=============================================================================
