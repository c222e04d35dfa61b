------------------------------ MODULE ShParse -------------------------------
(***************************************************************************)
(* The parser of the shell (parsecmd of sh.c): a recursive descent over    *)
(* the characters of a line.  The calls of parseline, parsepipe, parseexec *)
(* and parseblock in progress are a stack of frames; a step is a call, a   *)
(* return or a turn of a loop.  A word is its text in the command (argv,   *)
(* file) and its place in the line, q up to eq (eargv, efile), in `places'.*)
(***************************************************************************)
EXTENDS ShCmd

CONSTANTS MAXARGS, Texts     \* the lines parsed, sequences of characters

VARIABLES s,        \* the line
          at,       \* *ps: the place the parser has reached
          stack,    \* the frames, the innermost last
          out,      \* the command the last call returned
          places,   \* the places of the command's words
          buf       \* the line after nulterminate; empty until then

vars == <<s, at, stack, out, places, buf>>

NUL == "0"

Places == 1..Len(s) + 1
Char(i) == IF i <= Len(s) THEN s[i] ELSE NUL
Separators == symbols \cup {" ", NUL}

\* n is the first place from i on that is not blank.
Skips(i, n) == i <= n /\ Char(n) # " " /\ \A j \in i..n - 1 : Char(j) = " "

\* Mutant: a word ends behind the blank that follows it.
EndsLate(q, e) ==
  IF Char(q) \in symbols THEN e = IF Char(q) = ">" /\ Char(q + 1) = ">" THEN q + 2 ELSE q + 1
  ELSE q < e /\ Char(e) \in Separators \ {" "} /\ \A j \in q..e - 1 : Char(j) \notin Separators \ {" "}

\* gettoken's *eq for a token at q.
Ends(q, e) ==
  IF Char(q) \in symbols THEN e = IF Char(q) = ">" /\ Char(q + 1) = ">" THEN q + 2 ELSE q + 1
  ELSE q < e /\ Char(e) \in Separators /\ \A j \in q..e - 1 : Char(j) \notin Separators

\* gettoken takes the token from q to e and leaves the parser at n, behind
\* the blanks.  So *ps never points to a blank after the first call.
gettoken(q, e, n) == Ends(q, e) /\ Skips(e, n)
Take == \E e, n \in Places : gettoken(at, e, n) /\ at' = n

peek(toks) == Char(at) \in toks
Word(q) == Char(q) \notin Separators
Text(q, e) == SubSeq(s, q, e - 1)

\* The frames: the function, where it is, the command it has built, and the
\* words and redirections that parseexec and parseredirs add to it.
Frame(fn, pc, cmd) == [fn |-> fn, pc |-> pc, cmd |-> cmd, argv |-> <<>>, redirs |-> <<>>]
Top == stack[Len(stack)]
In(fn, pc) == stack # <<>> /\ Top.fn = fn /\ Top.pc = pc
Below == SubSeq(stack, 1, Len(stack) - 1)
Call(f, callee) == stack' = Below \o <<f, Frame(callee, 0, panic)>>
Return(c) == stack' = Below /\ out' = c
Stay(f) == stack' = Append(Below, f)

\* panic() prints a message and exits.
Panic == /\ stack' = <<>> /\ out' = panic /\ places' = {} /\ UNCHANGED <<s, at, buf>>

Init ==
  /\ s \in Texts /\ at \in Places /\ Skips(1, at) /\ out = panic /\ places = {} /\ buf = <<>>
  /\ stack = <<Frame("cmd", 0, panic)>>

\* A NUL goes to the end of every word of the command.
nulterminate == [i \in Places |-> IF \E w \in places : w[2] = i THEN NUL ELSE Char(i)]

\* parsecmd: parseline must reach the end of the line; then nulterminate.
ParsecmdCall ==
  /\ In("cmd", 0) /\ Call(Frame("cmd", 1, panic), "line")
  /\ UNCHANGED <<s, at, out, places, buf>>

ParsecmdEnd ==
  /\ In("cmd", 1)
  /\ IF ~peek({NUL}) THEN Panic
     ELSE /\ Return(out)
          /\ buf' = nulterminate
          /\ UNCHANGED <<s, at, places>>

ParselineCall ==
  /\ In("line", 0) /\ Call(Frame("line", 1, panic), "pipe")
  /\ UNCHANGED <<s, at, out, places, buf>>

\* The loop over "&".
ParselineBack ==
  /\ In("line", 1) /\ peek({"&"})
  /\ out' = backcmd(out) /\ Take /\ UNCHANGED <<s, stack, places, buf>>

ParselineEnd ==
  /\ In("line", 1) /\ ~peek({"&"})
  /\ IF peek({";"}) THEN Call(Frame("line", 2, out), "line") /\ Take /\ out' = out
     ELSE Return(out) /\ at' = at
  /\ UNCHANGED <<s, places, buf>>

ParselineList ==
  /\ In("line", 2) /\ Return(listcmd(Top.cmd, out)) /\ UNCHANGED <<s, at, places, buf>>

ParsepipeCall ==
  /\ In("pipe", 0) /\ Call(Frame("pipe", 1, panic), "exec")
  /\ UNCHANGED <<s, at, out, places, buf>>

ParsepipeEnd ==
  /\ In("pipe", 1)
  /\ IF peek({"|"}) THEN Call(Frame("pipe", 2, out), "pipe") /\ Take /\ out' = out
     ELSE Return(out) /\ at' = at
  /\ UNCHANGED <<s, places, buf>>

ParsepipePipe ==
  /\ In("pipe", 2) /\ Return(pipecmd(Top.cmd, out)) /\ UNCHANGED <<s, at, places, buf>>

\* parseexec hands a "(" to parseblock, which parses the line behind it.
ParseexecStart ==
  /\ In("exec", 0)
  /\ IF peek({"("}) THEN Call(Frame("block", 1, panic), "line") /\ Take
     ELSE Stay(Frame("exec", 1, panic)) /\ at' = at
  /\ UNCHANGED <<s, out, places, buf>>

ParseblockClose ==
  /\ In("block", 1)
  /\ IF ~peek({")"}) THEN Panic
     ELSE Stay(Frame("block", 2, out)) /\ Take /\ UNCHANGED <<s, out, places, buf>>

ParseblockEnd ==
  /\ In("block", 2) /\ ~peek({"<", ">"})
  /\ Return(Redirected(Top.cmd, Top.redirs)) /\ UNCHANGED <<s, at, places, buf>>

\* parseredirs, for a simple command and behind a block.
Parseredirs ==
  /\ In("exec", 1) \/ In("block", 2)
  /\ peek({"<", ">"})
  /\ \E t, q \in Places : gettoken(at, t, q) /\
       IF ~Word(q) THEN Panic
       ELSE \E e, n \in Places :
              /\ gettoken(q, e, n) /\ at' = n /\ places' = places \cup {<<q, e>>}
              /\ Stay([Top EXCEPT !.redirs = Append(@, <<Char(at), Text(q, e)>>)])
              /\ UNCHANGED <<s, out, buf>>

\* A word of a simple command.  argv keeps room for the null behind it.
ParseexecWord ==
  /\ In("exec", 1) /\ ~peek({"<", ">", "|", ")", "&", ";", NUL})
  /\ IF ~Word(at) \/ Len(Top.argv) + 1 >= MAXARGS THEN Panic
     ELSE \E e, n \in Places :
            /\ gettoken(at, e, n) /\ at' = n /\ places' = places \cup {<<at, e>>}
            /\ Stay([Top EXCEPT !.argv = Append(@, Text(at, e))])
            /\ UNCHANGED <<s, out, buf>>

ParseexecEnd ==
  /\ In("exec", 1) /\ peek({"|", ")", "&", ";", NUL})
  /\ Return(Redirected(execcmd(Top.argv), Top.redirs)) /\ UNCHANGED <<s, at, places, buf>>

Next ==
  \/ ParsecmdCall \/ ParsecmdEnd \/ ParselineCall \/ ParselineBack \/ ParselineEnd \/ ParselineList
  \/ ParsepipeCall \/ ParsepipeEnd \/ ParsepipePipe \/ ParseexecStart \/ ParseexecWord \/ ParseexecEnd
  \/ ParseblockClose \/ ParseblockEnd \/ Parseredirs

Spec == Init /\ [][Next]_vars

-----------------------------------------------------------------------------
\* Type correctness: the parser stays within the line.
TypeOK == at \in Places /\ places \subseteq (Places \X Places) /\ out.type \in STRING

Done == stack = <<>>
Accepted == Done /\ out.type # "panic"

\* Every word of an accepted line is in the command exactly where it stands
\* in the line: gettoken's q and eq lose, cut and join no word.
WordsKept ==
  Accepted => places = {<<q, e>> \in Places \X Places :
                          /\ q < e /\ \A i \in q..e - 1 : Word(i)
                          /\ Char(e) \in Separators
                          /\ q = 1 \/ s[q - 1] \in symbols \cup {" "}}

\* After nulterminate every word reads as it was typed: its NUL is where it
\* ends, and no other word's NUL has fallen into it.
WordsTerminated ==
  Accepted => \A w \in places : /\ SubSeq(buf, w[1], w[2] - 1) = SubSeq(s, w[1], w[2] - 1)
                                /\ buf[w[2]] = NUL /\ \A i \in w[1]..w[2] - 1 : buf[i] # NUL /\ buf[i] # " "
=============================================================================
