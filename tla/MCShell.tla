------------------------------ MODULE MCShell ------------------------------
EXTENDS Shell

\* What is typed, and the part of it that is input for the command.
Session(keys, stdin) == [keys |-> keys, stdin |-> stdin, faults |-> 0, kills |-> {}, at |-> 0]
Troubled(keys, f, k) == [keys |-> keys, stdin |-> <<>>, faults |-> f, kills |-> k, at |-> 0]
Anywhere == {"user", "wait", "piperead", "pipewrite", "pipeclose"}
As(k) == [i \in 1 .. k |-> "a"]

\* Editing, a list of writers to one pipe, six bytes through a ring of two,
\* files, background, end of file at the prompt and for a command, a syntax
\* error, a write larger than a pipe, a process killed anywhere, a writer at its
\* pipe, a reader at the console, and a line longer than the console's ring
\* when its cursors are about to wrap around.
MCSessions == {
    Session(<<"(", "echo", "x", "^H", "a", ";", "echo", ")", "|", "cat", "\n">>, <<>>),
    Session(<<"echo", "a", "b", "c", "|", "cat", "\n">>, <<>>),
    Session(<<"echo", "a", ">", "f", ";", "cat", "<", "f", "\n">>, <<>>),
    Session(<<"echo", "a", ">", "f", "\n", "cat", "f", "g", "\n">>, <<>>),
    [Session(<<"cat", "|", "cat", "\n", "x", "y", "\n", "^D">>, <<"x", "y", "\n">>)
        EXCEPT !.kills = {"pipewrite"}],
    Session(<<"^D", "cat", "^U", "echo", "a", "\n">>, <<>>),
    Session(<<"echo", "a", "&", ";", "echo", "b", "\n">>, <<>>),
    Session(<<"echo", ")", "\n", "cd", "a", "\n">>, <<>>),
    Troubled(<<"echo", "|", "cat", "\n">>, 1, Anywhere),
    Troubled(<<"cat", "\n", "^D">>, 0, {"consoleread"}),
    [Session(<<"echo">> \o As(10) \o <<"\n">>, <<>>) EXCEPT !.at = Wrap2 - 4]
}

\* The lines as the shell gets them.
MCLines == {
    <<"(", "echo", "a", ";", "echo", ")", "|", "cat", "\n">>, <<"echo", "|", "cat", "\n">>,
    <<"echo", "a", "b", "c", "|", "cat", "\n">>,
    <<"echo", "a", ">", "f", ";", "cat", "<", "f", "\n">>,
    <<"echo", "a", ">", "f", "\n">>, <<"cat", "f", "g", "\n">>,
    <<"cat", "|", "cat", "\n">>, <<"cat", "\n">>, <<"echo", "a", "\n">>,
    <<"echo", "a", "&", ";", "echo", "b", "\n">>,
    <<"echo", ")", "\n">>, <<"cd", "a", "\n">>, <<"echo", "a", ">", " ", ">", "f", "\n">>
  } \cup {<<"echo">> \o As(k) : k \in 1 .. 10}
    \cup {<<"echo">> \o As(k) \o <<"\n">> : k \in 1 .. 10}
    \cup {As(k) \o <<"\n">> : k \in 0 .. 3}
============================================================================
