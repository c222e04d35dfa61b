------------------------------- MODULE ShCmd --------------------------------
(***************************************************************************)
(* The commands of the shell (sh.c): the trees that the parser builds and  *)
(* runcmd runs.                                                            *)
(***************************************************************************)
EXTENDS Integers, SequencesExt, FiniteSetsExt

symbols == {"<", "|", ">", "&", ";", "(", ")"}

execcmd(argv) == [type |-> "EXEC", argv |-> argv]
redircmd(c, t, file) ==
  [type |-> "REDIR", cmd |-> c, file |-> file, fd |-> IF t = "<" THEN 0 ELSE 1]
pipecmd(l, r) == [type |-> "PIPE", left |-> l, right |-> r]
listcmd(l, r) == [type |-> "LIST", left |-> l, right |-> r]
backcmd(c) == [type |-> "BACK", cmd |-> c]
panic == [type |-> "panic"]

\* c with the redirections put around it one by one.
Redirected(c, redirs) == FoldLeft(LAMBDA d, r : redircmd(d, r[1], r[2]), c, redirs)
=============================================================================
