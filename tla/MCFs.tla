-------------------------------- MODULE MCFs --------------------------------
(***************************************************************************)
(* Two processes run one script each, for every pair of scripts, from an   *)
(* image with the file a and the empty directory d.                        *)
(***************************************************************************)
EXTENDS FsCalls, TLC

MCImage ==
    With(Mkfs(<<"a">>), LAMBDA m :
         Linked(m, [name |-> "d"], 3, NewInode("dir", 0), ROOTINO, m.din[ROOTINO]).disk)

On(op, path) == [op |-> op, path |-> path]
OpenIt(path, rdonly) == [op |-> "open", path |-> path, rdonly |-> rdonly]
LinkTo(path, new) == [op |-> "link", path |-> path, new |-> new]
WriteIt(cells) == [op |-> "write", cells |-> cells]
ReadIt(n) == [op |-> "read", n |-> n]
CloseIt == [op |-> "close"]

x == <<"", 1>>
y == <<"", 2>>

MCScripts == {
    <<On("creat", <<"b">>), WriteIt(<<x, y, x>>), On("unlink", <<"b">>), CloseIt>>,
    <<OpenIt(<<"a">>, FALSE), WriteIt(<<y, y>>), ReadIt(1), WriteIt(<<x, y, x>>), WriteIt(<<x, x>>), CloseIt>>,
    <<On("unlink", <<"a">>), On("creat", <<"b">>)>>,
    <<LinkTo(<<"a">>, <<"/", "b">>), LinkTo(<<"a">>, <<"a", "b">>), On("unlink", <<"a">>)>>,
    <<On("chdir", <<"d">>), On("creat", <<"x">>), WriteIt(<<x>>)>>,
    <<On("unlink", <<"/", "d">>), On("mkdir", <<"/", "d">>)>>,
    <<On("mkdir", <<"d", "e">>), On("unlink", <<"d", "e">>)>>,
    <<OpenIt(<<"/", "d">>, TRUE), ReadIt(2), WriteIt(<<x>>), OpenIt(<<"a">>, TRUE)>>,
    <<On("mknod", <<"b">>), On("chdir", <<"b">>), LinkTo(<<"d">>, <<"c">>),
      On("unlink", <<"/", "d", "..">>), On("creat", <<"/">>)>>
    }

Symmetry == Permutations(Procs)
=============================================================================
