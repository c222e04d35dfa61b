----------------------------- MODULE ShGrammar ------------------------------
(***************************************************************************)
(* The language of the shell, independently of its parser: the sequences   *)
(* of at most N tokens that are commands, each with its tree.  A token is  *)
(* a sequence of characters.                                               *)
(*    line   ::= pipe {"&"} [";" line]      pipe ::= exec ["|" pipe]       *)
(*    exec   ::= {word | redir}  |  "(" line ")" {redir}                   *)
(*    redir  ::= ("<" | ">" | ">>") word                                   *)
(***************************************************************************)
EXTENDS ShCmd

CONSTANTS N, WordTexts, Args     \* Args: the most words a command takes

Pair(c, t) == [cmd |-> c, toks |-> t]
Fit(S, T) == {x \in S \X T : Len(x[1].toks) + Len(x[2].toks) < N}
AllRedirs == {<<<<r>>, w>> : r \in {"<", ">"}, w \in WordTexts} \cup {<<<<">", ">">>, w>> : w \in WordTexts}

\* Words and redirections in any order, as [argv, redirs, toks].
SimpleItems ==
  LET add(e) == {[e EXCEPT !.argv = Append(@, w), !.toks = Append(@, w)] :
                    w \in IF Len(e.argv) < Args THEN WordTexts ELSE {}}
                \cup {[e EXCEPT !.redirs = Append(@, <<r[1][1], r[2]>>), !.toks = @ \o r] : r \in AllRedirs}
      items[k \in 0..N] ==
        IF k = 0 THEN {[argv |-> <<>>, redirs |-> <<>>, toks |-> <<>>]}
        ELSE items[k - 1] \cup {x \in UNION {add(e) : e \in items[k - 1]} : Len(x.toks) <= N}
  IN items[N]
Simples == {Pair(Redirected(execcmd(e.argv), e.redirs), e.toks) : e \in SimpleItems}

Behind(B) ==
  {Pair(redircmd(x[1].cmd, x[2][1][1], x[2][2]), x[1].toks \o x[2]) :
     x \in {y \in B \X AllRedirs : Len(y[1].toks) + 2 <= N}}

\* The pipes and lines over a set of execs.
PipesOf(E) ==
  LET pipes[k \in 0..N] ==
        IF k = 0 THEN E
        ELSE E \cup {Pair(pipecmd(x[1].cmd, x[2].cmd), x[1].toks \o <<<<"|">>>> \o x[2].toks) :
                       x \in Fit(E, pipes[k - 1])}
  IN pipes[N]
LinesOf(P) ==
  LET backs[k \in 0..N] ==
        IF k = 0 THEN P
        ELSE P \cup {Pair(backcmd(b.cmd), Append(b.toks, <<"&">>)) :
                       b \in {c \in backs[k - 1] : Len(c.toks) < N}}
      lines[k \in 0..N] ==
        IF k = 0 THEN backs[N]
        ELSE backs[N] \cup {Pair(listcmd(x[1].cmd, x[2].cmd), x[1].toks \o <<<<";">>>> \o x[2].toks) :
                              x \in Fit(backs[N], lines[k - 1])}
  IN lines[N]

\* d: how deep blocks are nested.
Grammar ==
  LET lines[d \in 0..N \div 2] ==
        LET blocks == IF d = 0 THEN {}
                      ELSE {Pair(l.cmd, <<<<"(">>>> \o l.toks \o <<<<")">>>>) :
                              l \in {m \in lines[d - 1] : Len(m.toks) + 2 <= N}}
            one == blocks \cup Behind(blocks)
        IN LinesOf(PipesOf(Simples \cup one \cup Behind(one)))
  IN lines[N \div 2]

\* The tokens of a text: words as long as they go, and ">>" for two ">".
TokensOf(t) ==
  LET other == symbols \cup {" "}
      run(i) == Cardinality({j \in 1..i : \A m \in j..i : t[m] = ">"})
      starts == {i \in 1..Len(t) : \/ t[i] \in symbols /\ (t[i] = ">" => run(i) % 2 = 1)
                                   \/ t[i] \notin other /\ (i > 1 => t[i - 1] \in other)}
      end(i) == IF t[i] \in symbols THEN IF t[i] = ">" /\ i < Len(t) /\ t[i + 1] = ">" THEN i + 1 ELSE i
                ELSE Max({j \in i..Len(t) : \A m \in i..j : t[m] \notin other})
  IN [k \in 1..Cardinality(starts) |->
        LET i == SetToSortSeq(starts, <)[k] IN SubSeq(t, i, end(i))]

\* What a text means: its tree, or a panic.
Meaning(G, t) ==
  LET tokens == TokensOf(t)
      trees == {g \in G : g.toks = tokens}
  IN IF trees = {} THEN panic ELSE (CHOOSE g \in trees : TRUE).cmd
=============================================================================
