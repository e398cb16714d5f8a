------------------------------- MODULE Parse -------------------------------
(***************************************************************************)
(* The parser of sh.c.  A line is the sequence of its symbols, its words   *)
(* with the blank that ends them, and further blanks; two symbols in a row *)
(* stand side by side in the text.  A parse function takes the rest of the *)
(* line and returns the command with what is left; panic() in the shell's  *)
(* child is the command Bad.                                               *)
(***************************************************************************)
EXTENDS Naturals, Sequences

CONSTANT MAXARGS

Symbols == {"<", "|", ">", "&", ";", "(", ")"}
White == {" ", "\n"}

Bad == [type |-> "panic"]
BadParse == [cmd |-> Bad, s |-> <<>>]

-----------------------------------------------------------------------------
(* Constructors; a panic anywhere is a panic of the whole command *)

ExecCmd == [type |-> "EXEC", argv |-> <<>>]
RedirCmd(c, file, mode, fd) ==
    IF c = Bad THEN Bad
    ELSE [type |-> "REDIR", cmd |-> c, file |-> file, mode |-> mode, fd |-> fd]
PipeCmd(l, r) == IF Bad \in {l, r} THEN Bad ELSE [type |-> "PIPE", left |-> l, right |-> r]
ListCmd(l, r) == IF Bad \in {l, r} THEN Bad ELSE [type |-> "LIST", left |-> l, right |-> r]
BackCmd(c) == IF c = Bad THEN Bad ELSE [type |-> "BACK", cmd |-> c]

-----------------------------------------------------------------------------
(* Tokens *)

RECURSIVE Skip(_)
Skip(s) == IF s # <<>> /\ s[1] \in White THEN Skip(Tail(s)) ELSE s

Peek(s, toks) == LET t == Skip(s) IN t # <<>> /\ t[1] \in toks

\* The token, the word when it is one ("a" in sh.c), and the rest; "+" is
\* ">>", "0" the end of the line.
GetToken(s) ==
    LET t == Skip(s)
    IN  IF t = <<>> THEN [tok |-> "0", word |-> "", s |-> t]
        ELSE IF t[1] = ">" /\ Len(t) > 1 /\ t[2] = ">"
             THEN [tok |-> "+", word |-> "", s |-> Skip(Tail(Tail(t)))]
        ELSE [tok |-> IF t[1] \in Symbols THEN t[1] ELSE "a", word |-> t[1],
              s |-> Skip(Tail(t))]

Drop(s) == GetToken(s).s

-----------------------------------------------------------------------------
(* Recursive descent *)

RECURSIVE ParseLine(_), ParsePipe(_), ParseRedirs(_, _), ParseArgs(_, _, _),
          Backs(_, _), AddArg(_, _)

\* Parse r, then go on with its result; TLC evaluates r once.
Then(r, F(_)) == CHOOSE x \in {F(v) : v \in {r}} : TRUE

ParseRedirs(cmd, s) ==
    IF ~Peek(s, {"<", ">"}) THEN [cmd |-> cmd, s |-> s]
    ELSE LET t == GetToken(s)
             f == GetToken(t.s)
         IN  IF f.tok # "a" THEN BadParse
             ELSE ParseRedirs(IF t.tok = "<" THEN RedirCmd(cmd, f.word, "r", 0)
                                             ELSE RedirCmd(cmd, f.word, "wc", 1), f.s)

\* The execcmd is under the redirections read so far.
AddArg(ret, w) ==
    IF ret.type = "REDIR" THEN [ret EXCEPT !.cmd = AddArg(@, w)]
    ELSE [ret EXCEPT !.argv = Append(@, w)]

\* The loop of parseexec.
ParseArgs(ret, argc, s) ==
    LET t == GetToken(s) IN
    IF ret = Bad THEN BadParse
    ELSE IF Peek(s, {"|", ")", "&", ";"}) \/ t.tok = "0" THEN [cmd |-> ret, s |-> Skip(s)]
    ELSE IF t.tok # "a" \/ argc + 1 >= MAXARGS THEN BadParse
    ELSE Then(ParseRedirs(AddArg(ret, t.word), t.s),
              LAMBDA r : ParseArgs(r.cmd, argc + 1, r.s))

ParseBlock(s) ==
    Then(ParseLine(Drop(s)),
         LAMBDA l : IF l.cmd = Bad \/ ~Peek(l.s, {")"}) THEN BadParse
                    ELSE ParseRedirs(l.cmd, Drop(l.s)))

ParseExec(s) ==
    IF Peek(s, {"("}) THEN ParseBlock(s)
    ELSE Then(ParseRedirs(ExecCmd, s), LAMBDA r : ParseArgs(r.cmd, 0, r.s))

MutantParsePipe(s) ==
    Then(ParseExec(s), LAMBDA l :
         IF ~Peek(l.s, {"|"}) THEN l
         ELSE Then(ParseExec(Drop(l.s)),
                   LAMBDA r : [cmd |-> PipeCmd(l.cmd, r.cmd), s |-> r.s]))

ParsePipe(s) ==
    Then(ParseExec(s), LAMBDA l :
         IF ~Peek(l.s, {"|"}) THEN l
         ELSE Then(ParsePipe(Drop(l.s)),
                   LAMBDA r : [cmd |-> PipeCmd(l.cmd, r.cmd), s |-> r.s]))

\* The loop over "&" of parseline.
Backs(cmd, s) == IF Peek(s, {"&"}) THEN Backs(BackCmd(cmd), Drop(s)) ELSE [cmd |-> cmd, s |-> s]

ParseLine(s) ==
    Then(ParsePipe(s), LAMBDA p :
    Then(Backs(p.cmd, p.s), LAMBDA l :
         IF ~Peek(l.s, {";"}) THEN l
         ELSE Then(ParseLine(Drop(l.s)),
                   LAMBDA r : [cmd |-> ListCmd(l.cmd, r.cmd), s |-> r.s])))

\* parsecmd: what is left over is a syntax error.
ParseCmd(s) == Then(ParseLine(s), LAMBDA l : IF Skip(l.s) # <<>> THEN Bad ELSE l.cmd)

-----------------------------------------------------------------------------
(* The reference: how a command is written down, with parentheses where the *)
(* grammar (line > pipe > block or words > redirections) needs them.        *)

RECURSIVE Write(_)

Parens(c) == <<"(">> \o Write(c) \o <<")">>
Atom(c) == IF c.type \in {"EXEC", "REDIR"} THEN Write(c) ELSE Parens(c)

Write(c) ==
    CASE c.type = "EXEC" -> c.argv
      [] c.type = "REDIR" -> Atom(c.cmd) \o <<IF c.fd = 0 THEN "<" ELSE ">", c.file>>
      [] c.type = "PIPE" ->
            Atom(c.left) \o <<"|">> \o (IF c.right.type = "PIPE" THEN Write(c.right) ELSE Atom(c.right))
      [] c.type = "BACK" ->
            (IF c.cmd.type = "LIST" THEN Parens(c.cmd) ELSE Write(c.cmd)) \o <<"&">>
      [] c.type = "LIST" ->
            (IF c.left.type = "LIST" THEN Parens(c.left) ELSE Write(c.left)) \o <<";">> \o Write(c.right)

\* All commands of depth at most d over the given simple commands.
RECURSIVE Commands(_, _)
Commands(d, Simple) ==
    IF d = 0 THEN Simple
    ELSE LET C == Commands(d - 1, Simple)
         IN  C \cup {RedirCmd(c, "f", "r", 0) : c \in C} \cup {RedirCmd(c, "f", "wc", 1) : c \in C}
               \cup {BackCmd(c) : c \in C}
               \cup {PipeCmd(l, r) : l \in C, r \in C} \cup {ListCmd(l, r) : l \in C, r \in C}
=============================================================================
