------------------------------- MODULE Shell --------------------------------
(***************************************************************************)
(* The shell's processes (main and runcmd of sh.c) under init (init.c):    *)
(* which process runs which part of a command, over which descriptors, and *)
(* who waits for whom.  fork, wait, exit, exec, pipe, dup, open and close  *)
(* are system calls: an open call takes the lowest free descriptor, exit   *)
(* closes everything and leaves the children to init, wait takes a zombie  *)
(* child.  A program that reads a pipe goes on until every write end of    *)
(* the pipe is closed; any other program may end whenever it likes.        *)
(***************************************************************************)
EXTENDS ShCmd

CONSTANTS Proc,     \* the process slots the shell and its children may use
          NOFILE,   \* descriptors of a process
          Commands, \* the commands typed, as parsecmd returns them
          MaxLines  \* bound on the lines typed

VARIABLES ps,       \* the processes
          line,     \* the command being run for the prompt
          typed,    \* lines typed so far
          short     \* a fork has failed

vars == <<ps, line, typed, short>>

SH == 1
INIT == 0
Closed == <<"closed", 0>>
Console == <<"console", 0>>
Nothing == [type |-> "none"]
Fds == 0..NOFILE - 1
Std == [f \in Fds |-> IF f < 3 THEN Console ELSE Closed]
Free == [pc |-> "free", cmd |-> Nothing, fds |-> [f \in Fds |-> Closed],
         parent |-> INIT, fg |-> FALSE, in |-> Closed, out |-> Closed]

\* The descriptor an open call takes.
fdalloc(fds) == Min({f \in Fds : fds[f] = Closed})
Open(fds, o) == [fds EXCEPT ![fdalloc(fds)] = o]
Close(fds, f) == [fds EXCEPT ![f] = Closed]
Holds(p, o) == \E f \in Fds : ps[p].fds[f] = o

\* init has opened the console once and dup'ed it twice; a shell that is
\* started by something else may find fewer descriptors open.
StartShell(k) ==
  [Free EXCEPT !.pc = "open", !.fg = TRUE, !.fds = [f \in Fds |-> IF f < k THEN Console ELSE Closed]]

Init ==
  /\ \E k \in 0..3 : ps = [p \in Proc |-> IF p = SH THEN StartShell(k) ELSE Free]
  /\ line = Nothing /\ typed = 0 /\ short = FALSE

Set(p, r) == ps' = [ps EXCEPT ![p] = r]
Goto(p, pc) == Set(p, [ps[p] EXCEPT !.pc = pc])

\* exit(): everything is closed and the children become init's.
Exited(p) ==
  [q \in Proc |-> IF q = p THEN [Free EXCEPT !.pc = "zombie", !.parent = ps[p].parent]
                  ELSE IF ps[q].parent = p /\ ps[q].pc # "free" THEN [ps[q] EXCEPT !.parent = INIT]
                  ELSE ps[q]]
exit(p) == ps' = Exited(p)

\* fork1(): p goes on at `at', its child at `start' with the command c, in
\* the foreground or not.  With no free slot fork fails and p panics.
fork1(p, at, rest, start, c, fg) ==
  LET free == {q \in Proc : ps[q].pc = "free"} IN
  IF free = {} THEN exit(p) /\ short' = TRUE
  ELSE /\ ps' = [ps EXCEPT ![p].pc = at, ![p].cmd = rest,
                           ![Min(free)] = [ps[p] EXCEPT !.pc = start, !.cmd = c, !.parent = p,
                                                        !.fg = fg /\ ps[p].fg]]
       /\ UNCHANGED short

\* wait(): takes a zombie child.  Every wait follows the fork of a child that
\* nobody else takes, so it never finds the caller childless.
wait(p, at) ==
  \E q \in Proc : /\ ps[q].pc = "zombie" /\ ps[q].parent = p
                  /\ ps' = [ps EXCEPT ![q] = Free, ![p].pc = at]

-----------------------------------------------------------------------------
\* main(): three descriptors open, then a line at a time.
OpenConsole ==
  /\ ps[SH].pc = "open"
  /\ LET fd == fdalloc(ps[SH].fds) IN
     IF fd >= 3 THEN Set(SH, [ps[SH] EXCEPT !.pc = "env", !.in = Console, !.out = Console])
     ELSE Set(SH, [ps[SH] EXCEPT !.fds = Open(ps[SH].fds, Console)])
  /\ UNCHANGED <<line, typed, short>>

\* parsepath: the directories of PATH in .env.  A shell that cannot read them
\* ends.
Parsepath ==
  /\ ps[SH].pc = "env" /\ (Goto(SH, "prompt") \/ exit(SH)) /\ UNCHANGED <<line, typed, short>>

\* A line that does not parse makes the child panic.  The shell runs cd itself.
GetCmd ==
  /\ ps[SH].pc = "prompt" /\ typed < MaxLines /\ typed' = typed + 1
  /\ \/ \E c \in Commands : line' = c /\ fork1(SH, "wait", Nothing, "run", c, TRUE)
     \/ UNCHANGED <<ps, line, short>>

GetEof == ps[SH].pc = "prompt" /\ exit(SH) /\ UNCHANGED <<line, typed, short>>

MainWait == ps[SH].pc = "wait" /\ wait(SH, "prompt") /\ UNCHANGED <<line, typed, short>>

\* init waits for whatever ends and starts a new shell when the shell does.
InitWait(p) ==
  /\ ps[p].pc = "zombie" /\ ps[p].parent = INIT
  /\ Set(p, IF p = SH THEN StartShell(3) ELSE Free)
  /\ UNCHANGED <<line, typed, short>>

-----------------------------------------------------------------------------
\* runcmd(), by the type of the command.
At(p, type) == ps[p].pc = "run" /\ ps[p].cmd.type = type

RunPanic(p) == At(p, "panic") /\ exit(p) /\ UNCHANGED <<line, typed, short>>

\* myexec tries the program in every directory of the path; it may be in none.
RunExec(p) ==
  /\ At(p, "EXEC")
  /\ \/ exit(p)
     \/ ps[p].cmd.argv # <<>> /\ Goto(p, "program")
  /\ UNCHANGED <<line, typed, short>>

\* The file may be missing.
RunRedir(p) ==
  /\ At(p, "REDIR")
  /\ LET c == ps[p].cmd  file == <<"file", c.file>> IN
     \/ exit(p)
     \/ Set(p, [ps[p] EXCEPT !.fds = Open(Close(ps[p].fds, c.fd), file), !.cmd = c.cmd,
                             !.in = IF c.fd = 0 THEN file ELSE @,
                             !.out = IF c.fd = 1 THEN file ELSE @])
  /\ UNCHANGED <<line, typed, short>>

RunList(p) ==
  /\ At(p, "LIST")
  /\ fork1(p, "list", ps[p].cmd.right, "run", ps[p].cmd.left, TRUE)
  /\ UNCHANGED <<line, typed>>

\* Mutant: the second command of a list does not wait for the first.
ListWaitNot(p) == ps[p].pc = "list" /\ Goto(p, "run") /\ UNCHANGED <<line, typed, short>>

ListWait(p) == ps[p].pc = "list" /\ wait(p, "run") /\ UNCHANGED <<line, typed, short>>

\* The pipe's name: one no process has open.
NewPipe == Min({k \in 1..2 * Cardinality(Proc) :
                  \A p \in Proc : ~Holds(p, <<"r", k>>) /\ ~Holds(p, <<"w", k>>)})

RunPipe(p) ==
  /\ At(p, "PIPE")
  /\ LET k == NewPipe IN
     Set(p, [ps[p] EXCEPT !.pc = "pipe1", !.fds = Open(Open(ps[p].fds, <<"r", k>>), <<"w", k>>)])
  /\ UNCHANGED <<line, typed, short>>

\* The descriptors p[0] and p[1] of a pipe that has just been made.
P0(fds) == Max({f \in Fds : fds[f][1] = "r"})
P1(fds) == Max({f \in Fds : fds[f][1] = "w"})

ForkLeft(p) ==
  /\ ps[p].pc = "pipe1"
  /\ fork1(p, "pipe2", ps[p].cmd, "left", ps[p].cmd.left, TRUE)
  /\ UNCHANGED <<line, typed>>

ForkRight(p) ==
  /\ ps[p].pc = "pipe2"
  /\ fork1(p, "pipe3", Nothing, "right", ps[p].cmd.right, TRUE)
  /\ UNCHANGED <<line, typed>>

\* close(end); dup(p[.]); close(p[0]); close(p[1])
Plumbed(fds, end, pd) == Close(Close(Open(Close(fds, end), fds[pd]), P0(fds)), P1(fds))

Left(p) ==
  /\ ps[p].pc = "left"
  /\ LET fds == ps[p].fds IN
     Set(p, [ps[p] EXCEPT !.pc = "run", !.out = fds[P1(fds)], !.fds = Plumbed(fds, 1, P1(fds))])
  /\ UNCHANGED <<line, typed, short>>

\* Mutant: the reader keeps the pipe's own descriptor for its end.
RightKeeps(p) ==
  /\ ps[p].pc = "right"
  /\ LET fds == ps[p].fds IN
     Set(p, [ps[p] EXCEPT !.pc = "run", !.in = fds[P0(fds)],
                          !.fds = Close(Open(Close(fds, 0), fds[P0(fds)]), P1(fds))])
  /\ UNCHANGED <<line, typed, short>>

Right(p) ==
  /\ ps[p].pc = "right"
  /\ LET fds == ps[p].fds IN
     Set(p, [ps[p] EXCEPT !.pc = "run", !.in = fds[P0(fds)], !.fds = Plumbed(fds, 0, P0(fds))])
  /\ UNCHANGED <<line, typed, short>>

\* Mutant: the parent keeps the pipe open while it waits.
PipeCloseNot(p) == ps[p].pc = "pipe3" /\ Goto(p, "wait1") /\ UNCHANGED <<line, typed, short>>

PipeClose(p) ==
  /\ ps[p].pc = "pipe3"
  /\ LET fds == ps[p].fds IN
     Set(p, [ps[p] EXCEPT !.pc = "wait1", !.fds = Close(Close(fds, P0(fds)), P1(fds))])
  /\ UNCHANGED <<line, typed, short>>

PipeWait(p) ==
  /\ \/ ps[p].pc = "wait1" /\ wait(p, "wait2")
     \/ ps[p].pc = "wait2" /\ wait(p, "exit")
  /\ UNCHANGED <<line, typed, short>>

RunBack(p) ==
  /\ At(p, "BACK")
  /\ fork1(p, "exit", Nothing, "run", ps[p].cmd.cmd, FALSE)
  /\ UNCHANGED <<line, typed>>

RunExit(p) == ps[p].pc = "exit" /\ exit(p) /\ UNCHANGED <<line, typed, short>>

\* A program ends; one that reads a pipe has seen its end.
ProgramEnds(p) ==
  /\ ps[p].pc = "program"
  /\ \A k \in 1..2 * Cardinality(Proc) :
       ps[p].fds[0] = <<"r", k>> => \A q \in Proc : ~Holds(q, <<"w", k>>)
  /\ exit(p) /\ UNCHANGED <<line, typed, short>>

runcmd(p) ==
  \/ RunPanic(p) \/ RunExec(p) \/ RunRedir(p) \/ RunList(p) \/ ListWait(p) \/ RunPipe(p)
  \/ ForkLeft(p) \/ ForkRight(p) \/ Left(p) \/ Right(p) \/ PipeClose(p) \/ PipeWait(p)
  \/ RunBack(p) \/ RunExit(p)

Next == OpenConsole \/ Parsepath \/ GetCmd \/ GetEof \/ MainWait
        \/ \E p \in Proc : InitWait(p) \/ runcmd(p) \/ ProgramEnds(p)

Spec == Init /\ [][Next]_vars

-----------------------------------------------------------------------------
\* Types; a process that has ended holds no descriptor.
TypeOK ==
  /\ short \in BOOLEAN /\ typed \in 0..MaxLines
  /\ \A p \in Proc : /\ ps[p].pc \in {"free", "open", "env", "prompt", "wait", "run", "list", "left", "right",
                                      "pipe1", "pipe2", "pipe3", "wait1", "wait2", "exit", "program",
                                      "zombie"}
                     /\ ps[p].parent \in Proc \cup {INIT} /\ ps[p].fg \in BOOLEAN
                     /\ ps[p].pc \in {"free", "zombie"} => ps[p].fds = Free.fds

\* A program starts with its input, its output and the console as 0, 1 and
\* 2, whatever pipes and redirections are around it (the close, dup, open
\* of runcmd hit the right descriptors), and with nothing else: no program
\* holds the write end of a pipe it or its neighbour reads, so the end of
\* the data is seen.
DescriptorsExact ==
  \A p \in Proc : ps[p].pc = "program" =>
    ps[p].fds = [Std EXCEPT ![0] = ps[p].in, ![1] = ps[p].out]

\* The prompt comes back only after every process of the line that is not
\* in the background has ended, however lists, pipes and blocks are nested
\* (each wait of runcmd is for the right child), unless a fork failed.
PromptAfterForeground ==
  ps[SH].pc = "prompt" /\ ~short =>
    \A p \in Proc \ {SH} : ps[p].fg => ps[p].pc \in {"free", "zombie"}

Waiting == ps[SH].pc = "wait"
Prompting == ps[SH].pc = "prompt"

\* The commands of c that a list runs one after the other: pairs of first words.
RECURSIVE FgWords(_)
FgWords(c) ==
  CASE c.type = "EXEC" -> IF c.argv = <<>> THEN {} ELSE {c.argv[1]}
    [] c.type = "REDIR" -> FgWords(c.cmd)
    [] c.type \in {"PIPE", "LIST"} -> FgWords(c.left) \cup FgWords(c.right)
    [] OTHER -> {}
RECURSIVE InTurn(_)
InTurn(c) ==
  CASE c.type = "LIST" -> (FgWords(c.left) \X FgWords(c.right)) \cup InTurn(c.left) \cup InTurn(c.right)
    [] c.type = "PIPE" -> InTurn(c.left) \cup InTurn(c.right)
    [] c.type = "REDIR" -> InTurn(c.cmd)
    [] OTHER -> {}

\* The commands on the two sides of a ; never run together.
ListInOrder ==
  \A p, q \in Proc :
    /\ ~short /\ ps[p].fg /\ ps[q].fg /\ ps[p].pc = "program" /\ ps[q].pc = "program"
    => <<ps[p].cmd.argv[1], ps[q].cmd.argv[1]>> \notin InTurn(line)
=============================================================================
