------------------------------- MODULE Shell -------------------------------
(***************************************************************************)
(* A session at the console: init, the shell (sh.c), the processes it      *)
(* forks for a command line, and the kernel services they meet in: file    *)
(* descriptors, pipes, files and the console.                              *)
(*                                                                         *)
(* A process is the list todo of the system calls it is going to make,     *)
(* which CodeOf derives from the command as runcmd executes it.  One       *)
(* action is one system call up to its first spin lock that others contend *)
(* for, or one critical section of such a lock (p->lock, cons.lock,        *)
(* ptable.lock); call says where in a system call a process stands.        *)
(***************************************************************************)
EXTENDS Files, Console, Parse, SequencesExt, TLC

CONSTANTS Sessions,    \* what is typed: keys, and the input meant for commands;
                       \* faults: how often kalloc fails at most; kills: where
                       \* the one process stands that kill is called for; at:
                       \* where earlier sessions left the console's cursors
          Lines,       \* the command lines they are meant to give
          MaxLine,     \* sizeof(buf) of the shell
          CatBuf,      \* sizeof(buf) of cat
          MaxChunk     \* bytes filewrite puts into one transaction

VARIABLES todo,        \* the system calls a process has still to make
          call,        \* the call it is in, past the part that needs no lock
          st, chan, killed, parent,      \* struct proc
          input,       \* the console's ring
          files,       \* contents of the files that exist, by name
          session, typed,                \* the keyboard
          faults, kills,                 \* bounds; kills is 2 once the process
                       \* killed has come back from pipewrite with -1
          screen, job  \* history: output of the current command; the command

procVars == <<st, chan, killed, parent>>
keyVars == <<input, session, typed>>
boundVars == <<faults, kills>>
worldVars == <<keyVars, files, boundVars, screen, job>>
vars == <<fileVars, todo, call, procVars, worldVars>>

InitProc == Min(Procs)

-----------------------------------------------------------------------------
(* Programs *)

Close(fd) == [op |-> "close", fd |-> fd]
DupFd(fd) == [op |-> "dup", fd |-> fd]
Open(file, mode) == [op |-> "open", file |-> file, mode |-> mode, cat |-> FALSE]
OpenCat(file) == [op |-> "open", file |-> file, mode |-> "r", cat |-> TRUE]
PipeCall(l, r) == [op |-> "pipe", left |-> l, right |-> r]
Fork(code) == [op |-> "fork", code |-> code]
JobFork(c) == [op |-> "job", cmd |-> c]
Wait == [op |-> "wait"]
Spawn == [op |-> "spawn"]
Reap(q) == [op |-> "reap", sh |-> q]
Exit == [op |-> "exit"]
Gets(buf) == [op |-> "gets", fd |-> 0, n |-> 1, buf |-> buf]
Cat(fd) == [op |-> "cat", fd |-> fd, n |-> CatBuf]
Write1(bs, must) == [op |-> "write", fd |-> 1, bs |-> bs, must |-> must]

\* echo writes every character with a call of its own, and a blank or a
\* newline after each argument.
EchoBytes(args) ==
    [k \in 1 .. 2 * Len(args) |->
        IF k % 2 = 1 THEN args[(k + 1) \div 2] ELSE IF k = 2 * Len(args) THEN "\n" ELSE " "]
MutantEchoCode(args) == [k \in 1 .. 2 * Len(args) - 1 |-> Write1(<<EchoBytes(args)[k]>>, FALSE)]
EchoCode(args) == [k \in 1 .. 2 * Len(args) |-> Write1(<<EchoBytes(args)[k]>>, FALSE)]

\* cat of the named files, or of its input; its messages go to its output.
CatCode(names) ==
    IF names = <<>> THEN <<Cat(0)>> ELSE [k \in DOMAIN names |-> OpenCat(names[k])]
CatError == "cat: error"
CatFails == <<Write1(<<CatError>>, FALSE), Exit>>

\* exec of the programs at hand; any other name fails.
ExecCode(argv) ==
    (IF argv = <<>> THEN <<>>
     ELSE CASE argv[1] = "echo" -> EchoCode(Tail(argv))
            [] argv[1] = "cat" -> CatCode(Tail(argv))
            [] OTHER -> <<>>) \o <<Exit>>

\* runcmd(cmd), which never returns.
RECURSIVE CodeOf(_)
CodeOf(c) ==
    CASE c.type = "panic" -> <<Exit>>
      [] c.type = "EXEC" -> ExecCode(c.argv)
      [] c.type = "REDIR" -> <<Close(c.fd), Open(c.file, c.mode)>> \o CodeOf(c.cmd)
      [] c.type = "LIST" -> <<Fork(CodeOf(c.left)), Wait>> \o CodeOf(c.right)
      [] c.type = "PIPE" -> <<PipeCall(CodeOf(c.left), CodeOf(c.right))>>
      [] c.type = "BACK" -> <<Fork(CodeOf(c.cmd)), Exit>>

MutantPipeCode(p0, p1, l, r) ==
    <<Fork(<<Close(1), DupFd(p1), Close(p0), Close(p1)>> \o l),
      Fork(<<Close(0), DupFd(p0), Close(p0)>> \o r),
      Close(p0), Close(p1), Wait, Wait, Exit>>

\* The rest of case PIPE, once pipe(p) has returned the descriptors p0 and p1.
PipeCode(p0, p1, l, r) ==
    <<Fork(<<Close(1), DupFd(p1), Close(p0), Close(p1)>> \o l),
      Fork(<<Close(0), DupFd(p0), Close(p0), Close(p1)>> \o r),
      Close(p0), Close(p1), Wait, Wait, Exit>>

\* main of sh.c: with descriptors 0, 1 and 2 open, read and run commands.
StdFds == [op |-> "stdfds"]
ShCode == <<StdFds, Gets(<<>>)>>

Parsed == [l \in Lines |-> ParseCmd(l)]
Command(buf) == IF buf \in Lines THEN Parsed[buf] ELSE ParseCmd(buf)

\* What main does with a line: cd is done by the shell itself (chdir is not
\* modelled here), anything else by a child.
LineCode(buf) ==
    IF buf[1] = "cd" THEN <<Gets(<<>>)>>
    ELSE <<JobFork(Command(buf)), Wait, Gets(<<>>)>>

Ok(bs) == [ok |-> TRUE, bs |-> bs]
Fail == [ok |-> FALSE, bs |-> <<>>]

\* The program goes on after a read or write that returned r.
After(op, r, rest) ==
    CASE op.op = "cat" ->
            IF ~r.ok THEN CatFails
            ELSE IF r.bs = <<>> THEN rest ELSE <<Write1(r.bs, TRUE), op>> \o rest
      [] op.op = "gets" ->
            LET buf == op.buf \o r.bs
                over == r.bs = <<>> \/ r.bs = <<"\n">> \/ Len(buf) + 1 >= MaxLine
            IN  IF ~over THEN <<Gets(buf)>>
                ELSE IF buf = <<>> THEN <<Exit>> ELSE LineCode(buf)
      [] op.op = "write" -> IF ~r.ok /\ op.must THEN CatFails ELSE rest

-----------------------------------------------------------------------------
(* The state once init has opened the console three times, or an earlier  *)
(* shell has exited                                                        *)

NoCall == [at |-> "user"]

Init ==
    /\ ftable = [f \in FileIds |->
                    IF f = 1 THEN [InodeFile("console", "rw") EXCEPT !.ref = 3] ELSE FreeFile]
    /\ ofile = [p \in Procs |-> IF p = InitProc
                    THEN [fd \in Fds |-> IF fd < 3 THEN 1 ELSE 0] ELSE NoFiles]
    /\ pipes = [i \in Pages |-> NoPipe]
    /\ todo = [p \in Procs |-> IF p = InitProc THEN <<Spawn>> ELSE <<>>]
    /\ call = [p \in Procs |-> NoCall]
    /\ st = [p \in Procs |-> IF p = InitProc THEN "RUN" ELSE "UNUSED"]
    /\ chan = [p \in Procs |-> <<>>]
    /\ killed = [p \in Procs |-> FALSE]
    /\ parent = [p \in Procs |-> InitProc]
    /\ session \in Sessions
    /\ input = [NoInput EXCEPT !.r = session.at, !.w = session.at, !.e = session.at]
    /\ files = [n \in {"console"} |-> <<>>]
    /\ typed = 0
    /\ faults = 0 /\ kills = 0
    /\ screen = <<>>
    /\ job = [cmd |-> Bad, files |-> files, over |-> TRUE, clean |-> FALSE]

-----------------------------------------------------------------------------
(* sleep, wakeup, kill *)

Runs(p) == st[p] = "RUN"
Op(p) == Head(todo[p])
Rest(p) == Tail(todo[p])
Calls(p, name) == /\ Runs(p) /\ call[p] = NoCall /\ ~killed[p]
                  /\ todo[p] # <<>> /\ Op(p).op = name
Inside(p, name) == Runs(p) /\ call[p].at = name
Goto(p, code) == todo' = [todo EXCEPT ![p] = code]
Return(p, r) == /\ call' = [call EXCEPT ![p] = NoCall]
                /\ Goto(p, After(Op(p), r, Rest(p)))

Sleepers(ch) == {q \in Procs : st[q] = "SLEEP" /\ chan[q] = ch}
WakeAll(ch) == [q \in Procs |-> IF q \in Sleepers(ch) THEN "RUN" ELSE st[q]]

NRead(i) == <<"nread", i>>
NWrite(i) == <<"nwrite", i>>
InputR == <<"input.r">>
ChildOf(p) == <<"child", p>>

\* A process between its test and sleep() holds the lock of what it waits for.
Free(chans) == \A q \in Procs : st[q] = "TOSLEEP" => chan[q] \notin chans
PipeFree(i) == Free({NRead(i), NWrite(i)})

FallAsleep(p) ==
    /\ st[p] = "TOSLEEP"
    /\ st' = [st EXCEPT ![p] = "SLEEP"]
    /\ UNCHANGED <<fileVars, todo, call, chan, killed, parent, worldVars>>

\* kill of one of the processes that work for a command line: it may come
\* between a process's test of killed and its sleep.
Kill(p) ==
    /\ kills = 0 /\ call[p].at \in session.kills /\ kills' = kills + 1
    /\ st[p] \notin {"UNUSED", "ZOMBIE"} /\ ~killed[p]
    /\ p # InitProc /\ parent[p] # InitProc
    /\ killed' = [killed EXCEPT ![p] = TRUE]
    /\ st' = [st EXCEPT ![p] = IF @ = "SLEEP" THEN "RUN" ELSE @]
    /\ job' = [job EXCEPT !.clean = FALSE]
    /\ UNCHANGED <<fileVars, todo, call, chan, parent, keyVars, files, faults, screen>>

\* trap: a killed process makes no further system call, it exits.
ExitKilled(p) ==
    /\ Runs(p) /\ killed[p] /\ call[p] = NoCall /\ todo[p] # <<Exit>>
    /\ Goto(p, <<Exit>>)
    /\ UNCHANGED <<fileVars, call, procVars, worldVars>>

-----------------------------------------------------------------------------
(* Processes *)

Unused == {q \in Procs : st[q] = "UNUSED"}
Fault == /\ faults < session.faults /\ faults' = faults + 1
         /\ job' = [job EXCEPT !.clean = FALSE]
         /\ UNCHANGED screen

\* fork: the child has the parent's descriptors and its own code.
ForkTo(p, code) ==
    LET q == Min(Unused) IN
    /\ Unused # {}
    /\ CopyFds(p, q)
    /\ todo' = [todo EXCEPT ![p] = Rest(p), ![q] = code]
    /\ st' = [st EXCEPT ![q] = "RUN"]
    /\ parent' = [parent EXCEPT ![q] = p]
    /\ killed' = [killed EXCEPT ![q] = FALSE]
    /\ UNCHANGED <<call, chan, keyVars, files, kills>>

SysFork(p) == /\ Calls(p, "fork") /\ ForkTo(p, Op(p).code)
              /\ UNCHANGED <<faults, screen, job>>

\* The fork of main in sh.c, for one command line.
SysForkJob(p) ==
    /\ Calls(p, "job") /\ ForkTo(p, CodeOf(Op(p).cmd))
    /\ screen' = <<>>
    /\ job' = [cmd |-> Op(p).cmd, files |-> files, over |-> FALSE, clean |-> TRUE]
    /\ UNCHANGED faults

\* fork1: a fork that finds no memory or no slot ends the process.
ForkFails(p) ==
    /\ Calls(p, "fork") \/ Calls(p, "job")
    /\ p # InitProc
    /\ IF Unused # {} THEN Fault
       ELSE job' = [job EXCEPT !.clean = FALSE] /\ UNCHANGED <<faults, screen>>
    /\ Goto(p, <<Exit>>)
    /\ UNCHANGED <<fileVars, call, procVars, keyVars, files, kills>>

Children(p) == {q \in Procs : st[q] # "UNUSED" /\ q # InitProc /\ parent[q] = p}
Zombies(p) == {q \in Children(p) : st[q] = "ZOMBIE"}

\* wait(): reap a zombie, give up without children or when killed, else
\* sleep; all under ptable.lock.  The shell's wait for a command line ends the
\* job.
InWait(p) == Calls(p, "wait") \/ Inside(p, "wait")
SysWait(p) ==
    /\ InWait(p)
    /\ \/ /\ Zombies(p) # {}
          /\ st' = [st EXCEPT ![Min(Zombies(p))] = "UNUSED"]
          /\ Goto(p, Rest(p))
          /\ call' = [call EXCEPT ![p] = NoCall]
          /\ job' = [job EXCEPT !.over = @ \/ Rest(p) = <<Gets(<<>>)>>]
          /\ UNCHANGED chan
       \/ /\ Zombies(p) = {} /\ (Children(p) = {} \/ killed[p])
          /\ Goto(p, Rest(p))
          /\ call' = [call EXCEPT ![p] = NoCall]
          /\ UNCHANGED <<st, chan, job>>
       \/ /\ Zombies(p) = {} /\ Children(p) # {} /\ ~killed[p]
          /\ st' = [st EXCEPT ![p] = "SLEEP"]
          /\ chan' = [chan EXCEPT ![p] = ChildOf(p)]
          /\ call' = [call EXCEPT ![p] = [at |-> "wait"]]
          /\ UNCHANGED <<todo, job>>
    /\ UNCHANGED <<fileVars, killed, parent, keyVars, boundVars, files, screen>>

\* The loop of init: start a shell, reap whatever comes, start a new shell when
\* the old one is gone.
InitSpawn ==
    /\ Calls(InitProc, "spawn") /\ Unused # {}
    /\ LET q == Min(Unused) IN
       /\ CopyFds(InitProc, q)
       /\ todo' = [todo EXCEPT ![InitProc] = <<Reap(q)>>, ![q] = ShCode]
       /\ st' = [st EXCEPT ![q] = "RUN"]
       /\ parent' = [parent EXCEPT ![q] = InitProc]
       /\ killed' = [killed EXCEPT ![q] = FALSE]
    /\ UNCHANGED <<call, chan, worldVars>>

InitReap ==
    /\ Calls(InitProc, "reap")
    /\ \/ \E z \in Zombies(InitProc) :
             /\ z = Min(Zombies(InitProc))
             /\ st' = [st EXCEPT ![z] = "UNUSED"]
             /\ Goto(InitProc, IF z = Op(InitProc).sh THEN <<Spawn>> ELSE todo[InitProc])
             /\ UNCHANGED chan
       \/ /\ Zombies(InitProc) = {}
          /\ st' = [st EXCEPT ![InitProc] = "SLEEP"]
          /\ chan' = [chan EXCEPT ![InitProc] = ChildOf(InitProc)]
          /\ UNCHANGED todo
    /\ UNCHANGED <<fileVars, call, killed, parent, worldVars>>

-----------------------------------------------------------------------------
(* close and exit *)

\* fileclose of the open descriptors S in order, up to the first whose file is
\* the last reference to an end of a pipe; that pipeclose is still to come.
CloseFds(p, S) ==
    \E last \in {{fd \in S : LastPipeRef(p, S, fd)}} :
        IF last = {} THEN DropFds(p, S) /\ UNCHANGED call
        ELSE LET fd == Min(last)
                 f == ofile[p][fd]
             IN  /\ DropFds(p, {x \in S : x <= fd})
                 /\ call' = [call EXCEPT ![p] =
                        [at |-> "pipeclose", pg |-> ftable[f].obj, w |-> ftable[f].writable]]

SysClose(p) ==
    /\ Calls(p, "close")
    /\ Goto(p, Rest(p))
    /\ IF ArgFd(p, Op(p).fd) = 0 THEN UNCHANGED <<fileVars, call>> ELSE CloseFds(p, {Op(p).fd})
    /\ UNCHANGED <<procVars, worldVars>>

\* Whom pipeclose wakes when the write end, or the read end, is closed.
MutantCloseWakes(i, w) == IF w THEN NWrite(i) ELSE NRead(i)
CloseWakes(i, w) == IF w THEN NRead(i) ELSE NWrite(i)

PipeClose(p) ==
    /\ Inside(p, "pipeclose")
    /\ LET i == call[p].pg IN
       /\ PipeFree(i)
       /\ pipes' = [pipes EXCEPT ![i] = CloseEnd(@, call[p].w)]
       /\ st' = WakeAll(CloseWakes(i, call[p].w))
    /\ call' = [call EXCEPT ![p] = NoCall]
    /\ UNCHANGED <<ftable, ofile, todo, chan, killed, parent, worldVars>>

Exiting(p) == Runs(p) /\ call[p] = NoCall /\ todo[p] # <<>> /\ Op(p) = Exit

\* exit(), the loop over the descriptors, from one pipeclose to the next: no
\* other process can tell when in between a shared file loses a reference.
ExitClose(p) ==
    /\ Exiting(p) /\ FreeFds(p) # Fds
    /\ CloseFds(p, Fds \ FreeFds(p))
    /\ UNCHANGED <<todo, procVars, worldVars>>

\* exit(), under ptable.lock: wake the parent, pass the children to init.
ExitZombie(p) ==
    /\ Exiting(p) /\ FreeFds(p) = Fds /\ p # InitProc
    /\ parent' = [q \in Procs |-> IF q \in Children(p) THEN InitProc ELSE parent[q]]
    /\ LET woken == Sleepers(ChildOf(parent[p]))
                      \cup (IF Zombies(p) # {} THEN Sleepers(ChildOf(InitProc)) ELSE {})
       IN  st' = [q \in Procs |-> IF q = p THEN "ZOMBIE" ELSE IF q \in woken THEN "RUN" ELSE st[q]]
    /\ Goto(p, <<>>)
    /\ UNCHANGED <<fileVars, call, chan, killed, worldVars>>

-----------------------------------------------------------------------------
(* dup, open, pipe *)

SysDup(p) ==
    /\ Calls(p, "dup") /\ Dup(p, Op(p).fd) /\ Goto(p, Rest(p))
    /\ UNCHANGED <<call, procVars, worldVars>>

\* What the caller of open does when it returns fd, or fails: runcmd goes on or
\* exits, cat copies the file and closes it, or complains and exits.
Opened(p, fd) == IF Op(p).cat THEN <<Cat(fd), Close(fd)>> \o Rest(p) ELSE Rest(p)
NotOpened(p) == IF Op(p).cat THEN CatFails ELSE <<Exit>>

\* open: O_CREATE makes a missing file and keeps the contents of an existing
\* one.
SysOpen(p) ==
    /\ Calls(p, "open")
    /\ LET n == Op(p).file
           found == n \in DOMAIN files \/ Op(p).mode = "wc"
       IN  /\ files' = IF found /\ n \notin DOMAIN files THEN files @@ (n :> <<>>) ELSE files
           /\ IF found /\ CanOpen(p)
              THEN OpenInode(p, n, Op(p).mode) /\ Goto(p, Opened(p, Min(FreeFds(p))))
              ELSE Goto(p, NotOpened(p)) /\ UNCHANGED fileVars
    /\ UNCHANGED <<call, procVars, keyVars, boundVars, screen, job>>

\* The first loop of main in sh.c: open the console until descriptor 3 comes.
SysStdFds(p) ==
    /\ Calls(p, "stdfds")
    /\ IF CanOpen(p)
       THEN /\ OpenInode(p, "console", "rw")
            /\ LET fd == Min(FreeFds(p))
               IN  Goto(p, IF fd >= 3 THEN <<Close(fd)>> \o Rest(p) ELSE todo[p])
       ELSE Goto(p, Rest(p)) /\ UNCHANGED fileVars
    /\ UNCHANGED <<call, procVars, worldVars>>

SysPipe(p) ==
    /\ Calls(p, "pipe") /\ CanPipe(p)
    /\ MakePipe(p)
    /\ Goto(p, PipeCode(Fd0(p), Fd1(p), Op(p).left, Op(p).right))
    /\ UNCHANGED <<call, procVars, worldVars>>

\* A file, page or descriptor is missing, or kalloc fails: what was taken is
\* given back and the shell's child gives up.
PipeFails(p) ==
    /\ Calls(p, "pipe")
    /\ IF CanPipe(p) THEN Fault
       ELSE job' = [job EXCEPT !.clean = FALSE] /\ UNCHANGED <<faults, screen>>
    /\ Goto(p, <<Exit>>)
    /\ UNCHANGED <<fileVars, call, procVars, keyVars, files, kills>>

-----------------------------------------------------------------------------
(* read and write *)

\* sys_read and fileread, sys_write and filewrite up to the first lock: the
\* call fails, or goes to the pipe, the file or the console.  The flag of the
\* file to test is able.
Route(p, able, toPipe, toFile, toConsole) ==
    LET f == ArgFd(p, Op(p).fd)
    IN  IF f = 0 \/ ~ftable[f][able] THEN Return(p, Fail)
        ELSE /\ call' = [call EXCEPT ![p] =
                    IF ftable[f].type = "PIPE" THEN toPipe @@ [pg |-> ftable[f].obj]
                    ELSE IF ftable[f].obj = "console" THEN toConsole
                    ELSE toFile @@ [f |-> f]]
             /\ UNCHANGED todo

SysRead(p) ==
    /\ Calls(p, "cat") \/ Calls(p, "gets")
    /\ Route(p, "readable", [at |-> "piperead"], [at |-> "readi"],
             [at |-> "consoleread", got |-> <<>>])
    /\ UNCHANGED <<fileVars, procVars, worldVars>>

SysWrite(p) ==
    /\ Calls(p, "write")
    /\ Route(p, "writable", [at |-> "pipewrite", bs |-> Op(p).bs],
             [at |-> "writei", bs |-> Op(p).bs], [at |-> "consolewrite"])
    /\ UNCHANGED <<fileVars, procVars, worldVars>>

ToSleep(p, ch) == /\ st' = [WakeAll(IF ch[1] = "nwrite" THEN NRead(ch[2]) ELSE <<>>)
                                EXCEPT ![p] = "TOSLEEP"]
                  /\ chan' = [chan EXCEPT ![p] = ch]

\* piperead: sleep while the pipe is empty and can still be written, else
\* take what is there and wake the writers.
PipeRead(p) ==
    /\ Inside(p, "piperead")
    /\ LET i == call[p].pg
           pp == pipes[i]
           none == Empty(pp) /\ pp.writeopen
       IN  /\ PipeFree(i)
           /\ \/ /\ none /\ ~killed[p]
                 /\ ToSleep(p, NRead(i))
                 /\ UNCHANGED <<pipes, call, todo>>
              \/ /\ none /\ killed[p]
                 /\ Return(p, Fail)
                 /\ UNCHANGED <<pipes, st, chan>>
              \/ /\ ~none
                 /\ pipes' = [pipes EXCEPT ![i] = Take(pp, Op(p).n)]
                 /\ st' = WakeAll(NWrite(i))
                 /\ Return(p, Ok(Got(pp, Op(p).n)))
                 /\ UNCHANGED chan
    /\ UNCHANGED <<ftable, ofile, killed, parent, worldVars>>

\* pipewrite: store what fits; with bytes left over give up when nobody will
\* read or the writer is killed, without a wakeup, else wake the readers and
\* sleep; when all is stored, wake the readers.
PipeWrite(p) ==
    /\ Inside(p, "pipewrite")
    /\ LET i == call[p].pg
           pp == pipes[i]
           bs == call[p].bs
           left == SubSeq(bs, Fits(pp, bs) + 1, Len(bs))
       IN  /\ PipeFree(i)
           /\ pipes' = [pipes EXCEPT ![i] = Put(pp, bs)]
           /\ \/ /\ left = <<>>
                 /\ st' = WakeAll(NRead(i))
                 /\ Return(p, Ok(<<>>))
                 /\ UNCHANGED chan
              \/ /\ left # <<>> /\ (~pp.readopen \/ killed[p])
                 /\ Return(p, Fail)
                 /\ UNCHANGED <<st, chan>>
              \/ /\ left # <<>> /\ pp.readopen /\ ~killed[p]
                 /\ ToSleep(p, NWrite(i))
                 /\ call' = [call EXCEPT ![p].bs = left]
                 /\ UNCHANGED todo
           /\ kills' = IF left # <<>> /\ killed[p] THEN 2 ELSE kills
    /\ UNCHANGED <<ftable, ofile, killed, parent, keyVars, files, faults, screen, job>>

\* consoleread, from acquire to release or sleep.
ConsoleRead(p) ==
    /\ Inside(p, "consoleread")
    /\ Free({InputR})
    /\ LET sofar == Len(call[p].got)
           n == Op(p).n - sofar
           got == call[p].got \o Line(input, n)
       IN  /\ input' = Consumed(input, n, sofar)
           /\ \/ /\ ReadOver(input, n)
                 /\ Return(p, Ok(got))
                 /\ UNCHANGED <<st, chan>>
              \/ /\ ~ReadOver(input, n) /\ killed[p]
                 /\ Return(p, Fail)
                 /\ UNCHANGED <<st, chan>>
              \/ /\ ~ReadOver(input, n) /\ ~killed[p]
                 /\ ToSleep(p, InputR)
                 /\ call' = [call EXCEPT ![p].got = got]
                 /\ UNCHANGED todo
    /\ UNCHANGED <<fileVars, killed, parent, boundVars, files, session, typed, screen, job>>

ConsoleWrite(p) ==
    /\ Inside(p, "consolewrite")
    /\ Free({InputR})
    /\ screen' = screen \o Op(p).bs
    /\ Return(p, Ok(<<>>))
    /\ UNCHANGED <<fileVars, procVars, keyVars, boundVars, files, job>>

\* fileread and filewrite of a file, one transaction of at most MaxChunk bytes
\* at a time; the offset belongs to the open file and moves with it.
FileRead(p) ==
    /\ Inside(p, "readi")
    /\ LET f == call[p].f
           data == files[ftable[f].obj]
           off == ftable[f].off
           bs == SubSeq(data, off + 1, Min({Len(data), off + Op(p).n}))
       IN  /\ ftable' = [ftable EXCEPT ![f].off = off + Len(bs)]
           /\ Return(p, Ok(bs))
    /\ UNCHANGED <<ofile, pipes, procVars, worldVars>>

\* writei: the bytes replace what the file has at the offset.
Overlay(data, off, bs) ==
    SubSeq(data, 1, off) \o bs \o SubSeq(data, off + Len(bs) + 1, Len(data))

FileWrite(p) ==
    /\ Inside(p, "writei")
    /\ LET f == call[p].f
           n == Min({MaxChunk, Len(call[p].bs)})
           left == SubSeq(call[p].bs, n + 1, Len(call[p].bs))
       IN  /\ files' = [files EXCEPT ![ftable[f].obj] = Overlay(@, ftable[f].off, SubSeq(call[p].bs, 1, n))]
           /\ ftable' = [ftable EXCEPT ![f].off = @ + n]
           /\ IF left = <<>> THEN Return(p, Ok(<<>>))
              ELSE call' = [call EXCEPT ![p].bs = left] /\ UNCHANGED todo
    /\ UNCHANGED <<ofile, pipes, procVars, keyVars, boundVars, screen, job>>

\* The keyboard interrupt.
ConsoleIntr ==
    /\ typed < Len(session.keys) /\ typed' = typed + 1
    /\ Free({InputR})
    /\ LET c == session.keys[typed + 1] IN
       /\ input' = PutKey(input, c)
       /\ st' = IF Commits(input, c) THEN WakeAll(InputR) ELSE st
    /\ UNCHANGED <<fileVars, todo, call, chan, killed, parent, boundVars, files, session, screen, job>>

-----------------------------------------------------------------------------
(* The specification *)

Step(p) ==
    \/ FallAsleep(p) \/ ExitKilled(p) \/ SysFork(p) \/ SysForkJob(p) \/ SysWait(p)
    \/ SysClose(p) \/ PipeClose(p) \/ ExitClose(p) \/ ExitZombie(p)
    \/ SysDup(p) \/ SysOpen(p) \/ SysStdFds(p) \/ SysPipe(p) \/ SysRead(p) \/ SysWrite(p)
    \/ PipeRead(p) \/ PipeWrite(p) \/ ConsoleRead(p) \/ ConsoleWrite(p)
    \/ FileRead(p) \/ FileWrite(p) \/ ForkFails(p) \/ PipeFails(p)

InitStep == InitSpawn \/ InitReap

Work == (\E p \in Procs : Step(p)) \/ InitStep \/ ConsoleIntr
Next == Work \/ \E p \in Procs : Kill(p)

\* The machine does not stop while a process can run or a key is to be typed.
\* Nothing is assumed about which process is scheduled.
Fairness == WF_vars(Work)

Spec == Init /\ [][Next]_vars /\ Fairness

-----------------------------------------------------------------------------
(* Properties *)

\* Descriptors of live processes that name the file f.
Holders(f) == {<<p, fd>> \in {q \in Procs : ofile[q] # NoFiles} \X Fds : ofile[p][fd] = f}

\* The end of the pipe on page pg is held by an open file, or by a process
\* that has dropped the last descriptor and is on its way to pipeclose.
EndHeld(pg, w) ==
    \/ \E f \in FileIds : /\ ftable[f].type = "PIPE" /\ ftable[f].obj = pg
                          /\ ftable[f].writable = w /\ ftable[f].ref > 0
    \/ \E p \in Procs : call[p] = [at |-> "pipeclose", pg |-> pg, w |-> w]

\* Reference counts of the file table agree with the descriptors under dup,
\* fork, close and exit in any order, and an end of a pipe is open exactly as
\* long as something refers to it: no pipe page is freed under a user or kept
\* without one, and no process is inside a call on a freed pipe.
RefsMatch ==
    /\ \A f \in FileIds : /\ ftable[f].ref = Cardinality(Holders(f))
                          /\ ftable[f].ref = 0 <=> ftable[f].type = "NONE"
    /\ \A i \in Pages : /\ pipes[i].writeopen = EndHeld(i, TRUE)
                        /\ pipes[i].readopen = EndHeld(i, FALSE)
    /\ \A p \in Procs : /\ call[p].at = "piperead" => pipes[call[p].pg].readopen
                        /\ call[p].at = "pipewrite" => pipes[call[p].pg].writeopen

\* A process asleep in pipewrite waits for a full pipe that somebody can still
\* read; one asleep in piperead for an empty pipe that can still be written,
\* and one asleep in consoleread for a line.  Only a writer that was killed and
\* has returned -1 may leave a reader asleep beside bytes: it skips the wakeup.
SleepersHaveCause ==
    \A p \in Procs : st[p] = "SLEEP" =>
        /\ chan[p] = InputR => input.r = input.w
        /\ \A i \in Pages :
             /\ chan[p] = NWrite(i) => Full(pipes[i]) /\ pipes[i].readopen
             /\ chan[p] = NRead(i) =>
                   pipes[i].writeopen /\ (Empty(pipes[i]) \/ kills = 2)

\* The files one after the other, up to one that is missing.
Texts(names, fs) ==
    LET missing == {k \in DOMAIN names : names[k] \notin DOMAIN fs}
        n == IF missing = {} THEN Len(names) ELSE Min(missing) - 1
    IN  FlattenSeq([k \in 1 .. n |-> fs[names[k]]]) \o (IF missing = {} THEN <<>> ELSE <<CatError>>)

\* What a command does, read off the command: its output, what it leaves of
\* its input, and the files.
RECURSIVE Meaning(_, _, _)
Meaning(c, in, fs) ==
    CASE c.type = "EXEC" ->
            IF c.argv = <<>> THEN [out |-> <<>>, in |-> in, fs |-> fs]
            ELSE IF c.argv[1] = "echo"
                 THEN [out |-> EchoBytes(Tail(c.argv)), in |-> in, fs |-> fs]
            ELSE IF c.argv = <<"cat">> THEN [out |-> in, in |-> <<>>, fs |-> fs]
            ELSE IF c.argv[1] = "cat" THEN [out |-> Texts(Tail(c.argv), fs), in |-> in, fs |-> fs]
            ELSE [out |-> <<>>, in |-> in, fs |-> fs]
      [] c.type = "REDIR" /\ c.fd = 0 ->
            IF c.file \notin DOMAIN fs THEN [out |-> <<>>, in |-> in, fs |-> fs]
            ELSE LET m == Meaning(c.cmd, fs[c.file], fs)
                 IN  [out |-> m.out, in |-> in, fs |-> m.fs]
      [] c.type = "REDIR" /\ c.fd = 1 ->
            LET m == Meaning(c.cmd, in, IF c.file \in DOMAIN fs THEN fs ELSE fs @@ (c.file :> <<>>))
            IN  [out |-> <<>>, in |-> m.in, fs |-> [m.fs EXCEPT ![c.file] = Overlay(@, 0, m.out)]]
      [] c.type = "LIST" ->
            LET l == Meaning(c.left, in, fs)
                r == Meaning(c.right, l.in, l.fs)
            IN  [out |-> l.out \o r.out, in |-> r.in, fs |-> r.fs]
      [] c.type = "PIPE" ->
            LET l == Meaning(c.left, in, fs)
                r == Meaning(c.right, l.out, l.fs)
            IN  [out |-> r.out, in |-> l.in, fs |-> r.fs]
      [] OTHER -> [out |-> <<>>, in |-> in, fs |-> fs]

RECURSIVE InBackground(_)
InBackground(c) ==
    CASE c.type = "BACK" -> TRUE
      [] c.type = "REDIR" -> InBackground(c.cmd)
      [] c.type \in {"LIST", "PIPE"} -> InBackground(c.left) \/ InBackground(c.right)
      [] OTHER -> FALSE

\* When the shell prompts again, the command line has had its whole effect:
\* screen and files are what the command means, however its processes were
\* scheduled, unless one of them was killed or ran out of memory.
PipelineMeaning ==
    job.over /\ job.clean /\ ~InBackground(job.cmd) =>
        LET m == Meaning(job.cmd, session.stdin, job.files)
        IN  screen = m.out /\ files = m.fs

\* The shell gets its prompt back: no pipeline hangs, whatever fails or is
\* killed on the way, because every process closes the ends it does not use.
CommandEnds == ~job.over ~> job.over

AllKeys == UNION {ToSet(s.keys) : s \in Sessions}

Tt == INSTANCE Tty WITH
    Keys <- AllKeys, Capacity <- INPUT_BUF,
    committed <- [i \in 1 .. Dist(input.r, input.w) |-> KeyAt(input, Plus(input.r, i - 1))],
    editing <- [i \in 1 .. Dist(input.w, input.e) |-> KeyAt(input, Plus(input.w, i - 1))]

\* The console ring is an editable line followed by committed keys: no key is
\* overwritten before it is read, read twice, or edited after its line was
\* committed.
ConsoleIsTty == Tt!TtySpec

ParsesBack(c) == ParseCmd(Write(c)) = c

\* Every small command and every line of the sessions.
AllParseBack ==
    LET simple == {[type |-> "EXEC", argv |-> <<"a">>], [type |-> "EXEC", argv |-> <<"b", "c">>],
                   [type |-> "EXEC", argv |-> <<>>]}
    IN  /\ \A c \in Commands(2, simple) : ParsesBack(c)
        /\ \A l \in Lines : Parsed[l] # Bad => ParsesBack(Parsed[l])

\* A command written down with the parentheses it needs is parsed back to
\* itself: precedence and grouping of redirection, |, & and ;.  What parsecmd
\* makes of a line depends on nothing else, so it is enough to ask before the
\* first key of a session.
ParseInverts == typed = 0 => AllParseBack
=============================================================================
