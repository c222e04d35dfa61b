-------------------------------- MODULE Lib ---------------------------------
(***************************************************************************)
(* The string and number routines of the kernel (string.c), of the user    *)
(* library (ulib.c, printf.c) and the matcher of grep.c, each run once on  *)
(* every small input.  A string is a function from 0, with NUL at its end; *)
(* the loops are recursive functions over the number of their turns.       *)
(***************************************************************************)
EXTENDS Integers, Sequences, FiniteSetsExt

CONSTANTS DIRSIZ, MemSize, Bits,
          Names, Paths, Numbers, Patterns, Lines   \* the inputs

VARIABLES call, res     \* the routine with its arguments, and what it gives

vars == <<call, res>>

NUL == "0"
None == <<>>
Str(t) == [i \in 0..Len(t) |-> IF i < Len(t) THEN t[i + 1] ELSE NUL]
At(t, i) == IF i < Len(t) THEN t[i + 1] ELSE NUL
Byte(t, i) == IF i \in DOMAIN t THEN t[i] ELSE NUL
Mem == [i \in 0..MemSize - 1 |-> i]
Prefix(t, n) == SubSeq(t, 1, Min({n, Len(t)}))

Calls ==
  {<<"memmove", d, s, n>> : d, s, n \in 0..MemSize - 1}
  \cup {<<"name", t, u>> : t, u \in Names}
  \cup {<<"path", t>> : t \in Paths}
  \cup {<<"safestrcpy", t, n>> : t \in Names, n \in 1..DIRSIZ}
  \cup {<<"number", x>> : x \in Numbers}
  \cup {<<"match", re, text>> : re \in Patterns, text \in Lines}

Init == call \in {c \in Calls : c[1] = "memmove" => Max({c[2], c[3]}) + c[4] <= MemSize} /\ res = None

-----------------------------------------------------------------------------
\* memmove of the kernel: downwards when the source runs into the destination.
memmove(mem, d, s, n) ==
  LET up[k \in 0..n] == IF k = 0 THEN mem ELSE [up[k - 1] EXCEPT ![d + k - 1] = up[k - 1][s + k - 1]]
      down[k \in 0..n] == IF k = 0 THEN mem ELSE [down[k - 1] EXCEPT ![d + n - k] = down[k - 1][s + n - k]]
  IN IF s < d /\ s + n > d THEN down[n] ELSE up[n]

\* The length of what a loop up to NUL or n copies.
Stops(t, n) == Min({k \in 0..n : k = n \/ Byte(t, k) = NUL})

strncpy(t, n) == [i \in 0..n - 1 |-> IF i < Stops(t, n) THEN t[i] ELSE NUL]

safestrcpy(t, n) ==
  LET k == Stops(t, n - 1) IN [i \in 0..k |-> IF i < k THEN t[i] ELSE NUL]

strncmp0(p, q, n) ==    \* strncmp returns 0
  LET k == Min({j \in 0..n : j = n \/ Byte(p, j) = NUL \/ Byte(p, j) # Byte(q, j)})
  IN k = n \/ p[k] = q[k]

\* Mutant: a name of DIRSIZ characters is cut for a NUL.
SkipelemShort(t) ==
  [i \in 0..Min({Len(t), DIRSIZ - 1}) |-> IF i < Min({Len(t), DIRSIZ - 1}) THEN t[i + 1] ELSE NUL]

\* skipelem, on the element t of a path: a long name has no NUL.
elemname(t) == IF Len(t) >= DIRSIZ THEN [i \in 0..DIRSIZ - 1 |-> t[i + 1]] ELSE Str(t)

\* The first place from i on behind the slashes, and the end of an element.
SkipSlashes(path, i) == Min({j \in i..Len(path) : j = Len(path) \/ At(path, j) # "/"})
ElemEnd(path, i) == Min({j \in i..Len(path) : j = Len(path) \/ At(path, j) = "/"})

\* The names that skipelem takes off a path, one call after the other.
skipelem(path) ==
  LET from[i \in 0..Len(path)] ==
        LET s == SkipSlashes(path, i)
            e == ElemEnd(path, s)
        IN IF s = Len(path) THEN <<>>
           ELSE <<elemname(SubSeq(path, s + 1, e))>> \o from[SkipSlashes(path, e)]
  IN from[0]

\* dirlink stores a name; dirlookup compares another with what is stored.
dirlink(name) == strncpy(name, DIRSIZ)
namecmp(s, t) == strncmp0(s, t, DIRSIZ)

-----------------------------------------------------------------------------
\* The digits of x, the last first: the loop that itoa and printint share.
Digits(x, b) ==
  LET from[y \in 0..x] == IF y < b THEN <<y>> ELSE <<y % b>> \o from[y \div b] IN from[x]
Minus == -1

\* printint with sgn: x is unsigned, so -xx is right for the least integer too.
printint(xx, b) ==
  LET x == (IF xx < 0 THEN -xx ELSE xx) % 2^Bits
      d == Digits(x, b) \o (IF xx < 0 THEN <<Minus>> ELSE <<>>)
  IN [i \in 1..Len(d) |-> d[Len(d) + 1 - i]]

\* itoa: n = -n leaves the least integer as it is; its only digit is then no
\* digit at all (n % 10 is negative), and the loop ends.
itoa(n) ==
  IF n = -(2^(Bits - 1)) THEN <<Minus, -((-n) % 10)>> ELSE printint(n, 10)

\* atoi: up to the first character that is no digit, in Bits bits.
atoi(t) ==
  LET upto == Min({k \in 0..Len(t) : k = Len(t) \/ t[k + 1] \notin 0..9})
      value[k \in 0..upto] == IF k = 0 THEN 0 ELSE (value[k - 1] * 10 + t[k]) % 2^Bits
  IN IF value[upto] >= 2^(Bits - 1) THEN value[upto] - 2^Bits ELSE value[upto]

-----------------------------------------------------------------------------
\* matchhere, for every place of the pattern and of the text; matchstar is
\* its second case.
matchhere(re, text) ==
  LET here[i \in 0..Len(re), j \in 0..Len(text)] ==
        IF At(re, i) = NUL THEN TRUE
        ELSE IF At(re, i + 1) = "*"
             THEN \E k \in j..Len(text) : here[i + 2, k] /\ \A m \in j..k - 1 : At(re, i) \in {text[m + 1], "."}
        ELSE IF At(re, i) = "$" /\ At(re, i + 1) = NUL THEN At(text, j) = NUL
        ELSE At(text, j) # NUL /\ At(re, i) \in {At(text, j), "."} /\ here[i + 1, j + 1]
  IN here

match(re, text) ==
  IF At(re, 0) = "^" THEN matchhere(re, text)[1, 0]
  ELSE \E j \in 0..Len(text) : matchhere(re, text)[0, j]

-----------------------------------------------------------------------------
Is(f) == res = None /\ call[1] = f /\ call' = call

Memmove == Is("memmove") /\ res' = <<memmove(Mem, call[2], call[3], call[4])>>
Name == Is("name") /\ res' = <<namecmp(elemname(call[3]), dirlink(elemname(call[2])))>>
Path == Is("path") /\ res' = <<skipelem(call[2])>>
Safestrcpy == Is("safestrcpy") /\ res' = <<safestrcpy(Str(call[2]), call[3])>>
Number == /\ Is("number")
          /\ res' = <<printint(call[2], 10), printint(call[2], 16), itoa(call[2]), atoi(itoa(call[2]))>>
Match == Is("match") /\ res' = <<match(call[2], call[3])>>

Next == Memmove \/ Name \/ Path \/ Safestrcpy \/ Number \/ Match

Spec == Init /\ [][Next]_vars

-----------------------------------------------------------------------------
Done(f) == res # None /\ call[1] = f

\* memmove gives the destination what the source held before, also when the
\* two overlap in either direction, and touches nothing else.
MemmoveCopies ==
  Done("memmove") =>
    res[1] = [i \in 0..MemSize - 1 |->
                IF i \in call[2]..call[2] + call[4] - 1 THEN call[3] + i - call[2] ELSE i]

\* A name stored in a directory entry (skipelem, then strncpy) is found again
\* by exactly the names that agree with it in the first DIRSIZ characters,
\* although neither side need be NUL-terminated.
NamesFoundAgain == Done("name") => res[1] = (Prefix(call[2], DIRSIZ) = Prefix(call[3], DIRSIZ))

\* skipelem takes off a path its elements in order, each once, whatever the
\* number of slashes before, between and behind them.
PathTaken ==
  Done("path") =>
    LET t == call[2]
        elems == {x \in (1..Len(t)) \X (1..Len(t)) :
                    /\ x[1] <= x[2] /\ \A i \in x[1]..x[2] : t[i] # "/"
                    /\ x[1] > 1 => t[x[1] - 1] = "/"
                    /\ x[2] < Len(t) => t[x[2] + 1] = "/"}
    IN /\ Len(res[1]) = Cardinality(elems)
       /\ \A x \in elems :
            res[1][Cardinality({y \in elems : y[1] <= x[1]})] = elemname(SubSeq(t, x[1], x[2]))

\* safestrcpy stays within its n bytes and ends in NUL, with as much of the
\* string before it as fits.
SafestrcpyFits ==
  Done("safestrcpy") => res[1] = Str(Prefix(call[2], call[3] - 1))

\* The value of a numeral.
Value(t, b) ==
  LET neg == t[1] = Minus
      v[k \in 0..Len(t)] == IF k = 0 THEN 0 ELSE IF t[k] = Minus THEN v[k - 1] ELSE v[k - 1] * b + t[k]
  IN IF neg THEN -v[Len(t)] ELSE v[Len(t)]

\* What printint prints in base 10 or 16, and what itoa writes, reads as the
\* number, down to the least integer (itoa: above it), without a leading
\* zero; and atoi reads itoa's digits back for numbers that have no sign.
NumbersRead ==
  Done("number") =>
    /\ Value(res[1], 10) = call[2] /\ Value(res[2], 16) = call[2]
    /\ call[2] > -(2^(Bits - 1)) => Value(res[3], 10) = call[2]
    /\ call[2] >= 0 => res[4] = call[2]
    /\ Len(res[1]) > 1 => res[1][1] # 0

\* The meaning of a pattern, by its items: a character, possibly starred; a
\* star at a place where it cannot apply to a character is one itself.
IsStar(re) ==
  LET star[i \in 1..Len(re)] == i > 1 /\ re[i] = "*" /\ ~star[i - 1] IN star
Matches(re, text, from) ==
  \E cut \in [1..Len(re) + 1 -> from..Len(text)] :
    /\ cut[1] = from
    /\ \A i \in 1..Len(re) :
         LET starred == i < Len(re) /\ IsStar(re)[i + 1]
             fits(j) == re[i] \in {text[j + 1], "."}
         IN IF IsStar(re)[i] THEN cut[i + 1] = cut[i]
            ELSE IF starred THEN cut[i + 1] >= cut[i] /\ \A j \in cut[i]..cut[i + 1] - 1 : fits(j)
            ELSE IF re[i] = "$" /\ i = Len(re) THEN cut[i] = Len(text) /\ cut[i + 1] = cut[i]
            ELSE cut[i + 1] = cut[i] + 1 /\ fits(cut[i])

\* grep's match finds a line exactly when the pattern, read as a regular
\* expression, fits some part of it (the beginning, after ^).
MatchIsRegexp ==
  Done("match") =>
    res[1] = IF call[2] # <<>> /\ call[2][1] = "^" THEN Matches(Tail(call[2]), call[3], 0)
             ELSE \E from \in 0..Len(call[3]) : Matches(call[2], call[3], from)
=============================================================================
