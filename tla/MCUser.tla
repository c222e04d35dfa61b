------------------------------- MODULE MCUser -------------------------------
(***************************************************************************)
(* The user programs: the shell's parser against the grammar, the shell's  *)
(* processes, and the routines that compute something: of the libraries,   *)
(* for text on its way in and out, and of the loaders, checked in one run. *)
(* part says which instance a behaviour is about; it never changes.  The   *)
(* instances use the variables x1, x2, ... for theirs; those that an       *)
(* instance does not need are 0.                                           *)
(***************************************************************************)
EXTENDS ShGrammar

VARIABLES part, x1, x2, x3, x4, x5, x6,
          want    \* the meaning of the line that is parsed

vars == <<part, x1, x2, x3, x4, x5, x6, want>>

Strings(A, n) == UNION {[1..k -> A] : k \in 0..n}

Words == {<<"a">>, <<"a", "a">>}

\* All lines of up to N characters; words of two characters are enough.
Texts ==
  {t \in Strings(symbols \cup {"a", " "}, N) :
     \A i \in 1..Len(t) - 2 : ~(t[i] = "a" /\ t[i + 1] = "a" /\ t[i + 2] = "a")}

P == INSTANCE ShParse WITH MAXARGS <- Args + 1,
       s <- x1, at <- x2, stack <- x3, out <- x4, places <- x5, buf <- x6

\* Pipelines, lists, blocks, background commands and redirections in each other.
X(w) == execcmd(<<w>>)
Commands ==
  {pipecmd(X("a"), pipecmd(X("b"), X("c"))), listcmd(X("a"), X("b")), backcmd(X("a")),
   pipecmd(listcmd(X("a"), X("b")), redircmd(X("c"), ">", "f")),
   listcmd(backcmd(redircmd(X("a"), "<", "f")), X("b")), panic, execcmd(<<>>),
   listcmd(pipecmd(X("a"), X("b")), X("c"))}

S == INSTANCE Shell WITH Proc <- 1..5, NOFILE <- 6, MaxLines <- 2,
       ps <- x1, line <- x2, typed <- x3, short <- x4

L == INSTANCE Lib WITH
       DIRSIZ <- 2, MemSize <- 6, Bits <- 8, Numbers <- -128..127, Names <- Strings({"a", "b"}, 3),
       Paths <- Strings({"a", "b", "/"}, 5), Lines <- Strings({"a", "b"}, 3),
       Patterns <- Strings({"a", ".", "*", "$", "^"}, 4), call <- x1, res <- x2

T == INSTANCE TextIO WITH
       Rows <- 2, Cols <- 2, Formats <- Strings({"a", "%", "d", "s"}, 5),
       Outputs <- Strings({"a", "b", "NL", "BS"}, 6),
       Files <- {<<t, u>> : t, u \in Strings({"a", " ", "NL"}, 3)},
       Strokes <- Strings({"lctl", "rctl", "shift", "caps", "a", "arrow"} \X BOOLEAN, 4),
       call <- x1, res <- x2

\* Two segments at the same place of their sectors as in the file, the second
\* in sectors behind the memory of the first.
Headers ==
  {<<va, o, f, f + z>> : va \in 0..6, o \in 0..3, f \in 0..3, z \in 0..1}
Images ==
  {s \in Headers \X Headers : /\ \A k \in 1..2 : s[k][1] % 2 = s[k][2] % 2
                             /\ s[1][1] + s[1][4] <= s[2][1] - (s[2][1] % 2)}
D == INSTANCE Loader WITH
       SECTSIZE <- 2, Top <- 48, ArgLens <- Strings(0..3, 4), call <- x1, res <- x2

shellrest == <<x5, x6, want>>
librest == <<x3, x4, shellrest>>

Init ==
  \/ part = "parse" /\ \E G \in {Grammar} : P!Init /\ want = Meaning(G, x1)
  \/ part = "shell" /\ S!Init /\ x5 = 0 /\ x6 = 0 /\ want = 0
  \/ /\ \/ part = "lib" /\ L!Init
        \/ part = "text" /\ T!Init
        \/ part = "load" /\ D!Init
     /\ x3 = 0 /\ x4 = 0 /\ x5 = 0 /\ x6 = 0 /\ want = 0

Parses == part = "parse" /\ P!Next /\ UNCHANGED <<part, want>>
Shells == part = "shell" /\ S!Next /\ UNCHANGED <<part, shellrest>>
Routines ==
  /\ \/ part = "lib" /\ L!Next
     \/ part = "text" /\ T!Next
     \/ part = "load" /\ D!Next
  /\ UNCHANGED <<part, librest>>
Next == Parses \/ Shells \/ Routines

\* The parser runs, and some process of the shell does.
Spec == Init /\ [][Next]_vars /\ WF_vars(Parses) /\ WF_vars(Shells)

-----------------------------------------------------------------------------
\* The parser (parsecmd and what it calls) builds, for every line, the tree
\* that the grammar gives it, and panics exactly on the lines that have none.
\* Every word of the line is in the command, none cut or joined by gettoken, and
\* after nulterminate it reads as it was typed.
ParsesGrammar ==
  part = "parse" => P!TypeOK /\ (P!Done => x4 = want) /\ P!WordsKept /\ P!WordsTerminated

\* A program starts with its input, its output and the console as 0, 1 and 2,
\* whatever pipes and redirections are around it, and with nothing else
\* (runcmd).
DescriptorsExact == part = "shell" => S!DescriptorsExact

\* The shell waits for what it should (main and runcmd), unless a fork failed:
\* the prompt comes back only after every process of the line that is not in
\* the background has ended, and the two sides of a ; never run together.
WaitsInOrder == part = "shell" => S!TypeOK /\ S!PromptAfterForeground /\ S!ListInOrder

\* The shell goes on: the parser comes to an end on every line, and the prompt
\* comes back, because no process of a command waits for ever for a child or
\* for the end of a pipe, if the programs that do not read a pipe end.
ShellGoesOn ==
  /\ part = "parse" ~> part = "parse" /\ P!Done
  /\ (part = "shell" /\ S!Waiting) ~> (part = "shell" /\ S!Prompting)

\* The routines do what their callers rely on.  memmove copies also between
\* areas that overlap; a name stored in a directory entry is found again by
\* exactly the names that agree with it in DIRSIZ characters; skipelem takes a
\* path apart whatever the slashes; safestrcpy stays within its bytes; what
\* printint and itoa write reads as the number; grep's match finds a line exactly
\* when the pattern, as a regular expression, fits it.  The k-th conversion of
\* cprintf and printf takes the k-th argument; the screen shows the last rows of
\* what was written; wc counts words wherever the reads cut the file; kbdgetc
\* reads every letter with the modifiers of the moment.  Every segment of the
\* kernel is loaded where its header says, and main finds its arguments on the
\* stack that exec has made.
RoutinesCompute ==
  /\ part = "lib" => /\ L!MemmoveCopies /\ L!NamesFoundAgain /\ L!PathTaken
                     /\ L!SafestrcpyFits /\ L!NumbersRead /\ L!MatchIsRegexp
  /\ part = "text" => T!FormatsInOrder /\ T!ScreenShows /\ T!WordsCounted /\ T!KeysRead
  /\ part = "load" => D!KernelLoaded /\ D!ArgsReadable
=============================================================================
