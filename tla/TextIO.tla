------------------------------- MODULE TextIO -------------------------------
(***************************************************************************)
(* Text on its way in and out: the scan codes of the keyboard (kbd.c), the *)
(* formats of cprintf (console.c) and printf (printf.c), the characters on *)
(* the screen (cgaputc of console.c), and the words that wc.c counts.      *)
(* Each routine runs once on every small input; a static variable or the   *)
(* state of a loop is carried from one character to the next by a fold.    *)
(* cons.lock and, on one CPU, the interrupts that acquire turns off keep   *)
(* the calls of cgaputc apart.                                             *)
(***************************************************************************)
EXTENDS Integers, SequencesExt, FiniteSetsExt

CONSTANTS Rows, Cols,                       \* the screen: 24 and 80 in the code
          Formats, Outputs, Files, Strokes  \* the inputs

VARIABLES call, res     \* the routine with its argument, and what it gives

vars == <<call, res>>

None == <<>>
Calls == ({"format"} \X Formats) \cup ({"screen"} \X Outputs) \cup ({"wc"} \X Files)
         \cup ({"keys"} \X Strokes)

Init == call \in Calls /\ res = None

-----------------------------------------------------------------------------
(* cprintf and printf.  "d" stands for the conversions of numbers too; what *)
(* an argument prints is <<the conversion, the number of the argument>>.    *)

\* cprintf, from the character i with the next argument k.
cprintf(fmt) ==
  LET from[i \in 1..Len(fmt) + 2, k \in 1..Len(fmt) + 1] ==
        IF i > Len(fmt) THEN <<>>
        ELSE IF fmt[i] # "%" THEN <<fmt[i]>> \o from[i + 1, k]
        ELSE IF i = Len(fmt) THEN <<>>
        ELSE IF fmt[i + 1] \in {"d", "s"} THEN <<<<fmt[i + 1], k>>>> \o from[i + 2, k + 1]
        ELSE (IF fmt[i + 1] = "%" THEN <<"%">> ELSE <<"%", fmt[i + 1]>>) \o from[i + 2, k]
  IN from[1, 1]

\* The body of printf's loop, on the character c.
Format(f, c) ==
  IF f.state = "" THEN IF c = "%" THEN [f EXCEPT !.state = "%"] ELSE [f EXCEPT !.out = Append(@, c)]
  ELSE IF c \in {"d", "s"} THEN [state |-> "", ap |-> f.ap + 1, out |-> Append(f.out, <<c, f.ap>>)]
  ELSE [f EXCEPT !.state = "", !.out = @ \o IF c = "%" THEN <<"%">> ELSE <<"%", c>>]

printf(fmt) == FoldLeft(Format, [state |-> "", ap |-> 1, out |-> <<>>], fmt).out

-----------------------------------------------------------------------------
(* The screen: CGA memory and the cursor.  Before the kernel writes to it   *)
(* it shows whatever was there; "" is an empty cell.                        *)

Cells == 0..Rows * Cols - 1
Screen == [crt |-> [i \in 0..Rows * Cols |-> "old"], pos |-> 0]

\* One row up when the cursor leaves the last row.
Scrolled(s) ==
  IF s.pos \div Cols < Rows THEN s
  ELSE [crt |-> [i \in DOMAIN s.crt |-> IF i \in s.pos - Cols..Rows * Cols - 1 THEN ""
                                        ELSE IF i < (Rows - 1) * Cols THEN s.crt[i + Cols]
                                        ELSE s.crt[i]],
        pos |-> s.pos - Cols]

Put(s, c) ==
  CASE c = "NL" -> [s EXCEPT !.pos = @ + Cols - (@ % Cols)]
    [] c = "BS" -> [s EXCEPT !.pos = IF @ > 0 THEN @ - 1 ELSE @]
    [] OTHER -> [s EXCEPT !.crt[s.pos] = c, !.pos = @ + 1]

cgaputc(s, c) == LET t == Scrolled(Put(s, c)) IN [t EXCEPT !.crt[t.pos] = " "]

-----------------------------------------------------------------------------
(* wc, over what successive reads return.                                   *)

CountChunk(w, chunk) ==
  FoldLeft(LAMBDA v, c : [l |-> v.l + (IF c = "NL" THEN 1 ELSE 0), c |-> v.c + 1, inword |-> c \notin {" ", "NL"},
                          w |-> v.w + (IF c \notin {" ", "NL"} /\ ~v.inword THEN 1 ELSE 0)],
           w, chunk)

wc(chunks) == FoldLeft(CountChunk, [l |-> 0, w |-> 0, c |-> 0, inword |-> FALSE], chunks)

-----------------------------------------------------------------------------
(* The keyboard.  A stroke is <<key, up>>; the keys are the two CTL keys,   *)
(* SHIFT, CAPSLOCK, a letter and an arrow.  shift is a set of flags.        *)

E0 == 224
Code == [lctl |-> 29, rctl |-> 29, shift |-> 42, caps |-> 58, a |-> 30, arrow |-> 72]
Escaped == {"rctl", "arrow"}
Bytes(stroke) ==
  (IF stroke[1] \in Escaped THEN <<E0>> ELSE <<>>) \o <<Code[stroke[1]] + (IF stroke[2] THEN 128 ELSE 0)>>

shiftcode(data) == CASE data \in {29, 157} -> {"CTL"} [] data = 42 -> {"SHIFT"} [] OTHER -> {}
togglecode(data) == IF data = 58 THEN {"CAPSLOCK"} ELSE {}
charcode(shift, data) ==
  CASE data = 30 -> IF "CTL" \in shift THEN "^A" ELSE IF "SHIFT" \in shift THEN "A" ELSE "a"
    [] data = 200 -> "KEY_UP"
    [] data = 72 -> IF "CTL" \in shift THEN "NO" ELSE "8"
    [] OTHER -> "NO"

Release(shift, data) ==
  shift \ (shiftcode(IF "E0ESC" \in shift THEN data ELSE data % 128) \cup {"E0ESC"})

\* kbdgetc on the byte d, and what it returns if that is no 0.
kbdgetc(k, d) ==
  IF d = E0 THEN [k EXCEPT !.shift = @ \cup {"E0ESC"}]
  ELSE IF d >= 128 THEN [k EXCEPT !.shift = Release(@, d)]
  ELSE LET data == IF "E0ESC" \in k.shift THEN d + 128 ELSE d
           on == (k.shift \ {"E0ESC"}) \cup shiftcode(data)
           shift == SymDiff(on, togglecode(data))
           c == charcode(shift, data)
           ch == IF "CAPSLOCK" \in shift THEN CASE c = "a" -> "A" [] c = "A" -> "a" [] OTHER -> c ELSE c
       IN [shift |-> shift, out |-> IF ch = "NO" THEN k.out ELSE Append(k.out, ch)]

Is(f) == res = None /\ call[1] = f /\ call' = call

FormatText == Is("format") /\ res' = <<cprintf(call[2]), printf(call[2])>>
WriteScreen == Is("screen") /\ res' = <<FoldLeft(cgaputc, Screen, call[2])>>
Count == Is("wc") /\ res' = <<wc(call[2])>>
Keys == /\ Is("keys")
        /\ res' = <<FoldLeft(kbdgetc, [shift |-> {}, out |-> <<>>], FlattenSeq([i \in DOMAIN call[2] |-> Bytes(call[2][i])])).out>>

Next == FormatText \/ WriteScreen \/ Count \/ Keys

Spec == Init /\ [][Next]_vars

-----------------------------------------------------------------------------
Done(f) == res # None /\ call[1] = f

\* The places of a format where a character of its own or a sequence begins.
Begins(fmt) ==
  LET b[i \in 1..Len(fmt)] == \/ i = 1
                              \/ b[i - 1] /\ fmt[i - 1] # "%"
                              \/ i > 2 /\ b[i - 2] /\ fmt[i - 2] = "%"
  IN {i \in 1..Len(fmt) : b[i]}
Takes(fmt) == {i \in Begins(fmt) : i < Len(fmt) /\ fmt[i] = "%" /\ fmt[i + 1] \in {"d", "s"}}
Shown(fmt, i) ==
  IF fmt[i] # "%" THEN <<fmt[i]>>
  ELSE IF i = Len(fmt) THEN <<>>
  ELSE IF i \in Takes(fmt) THEN <<<<fmt[i + 1], Cardinality({j \in Takes(fmt) : j <= i})>>>>
  ELSE IF fmt[i + 1] = "%" THEN <<"%">> ELSE <<"%", fmt[i + 1]>>

\* cprintf and printf, the one skipping ahead in its format and the other
\* keeping a state, print the same: the k-th conversion takes the k-th
\* argument, %% is one character, an unknown sequence is printed as it is.
FormatsInOrder ==
  Done("format") =>
    LET text == FlattenSeq([i \in 1..Len(call[2]) |-> IF i \in Begins(call[2]) THEN Shown(call[2], i) ELSE <<>>])
    IN res = <<text, text>>

\* The text on a roll of paper that is never cut; top is the first row that
\* the screen still shows, and backspace does not go above it.
Roll(text) ==
  LET step(r, c) ==
        LET q == CASE c = "NL" -> (r.p \div Cols + 1) * Cols
                   [] c = "BS" -> IF r.p > r.top * Cols THEN r.p - 1 ELSE r.p
                   [] OTHER -> r.p + 1
        IN [p |-> q, top |-> Max({r.top, q \div Cols - Rows + 1}),
            cell |-> [i \in DOMAIN r.cell |-> IF i = q THEN " " ELSE IF i = r.p /\ c \notin {"NL", "BS"} THEN c
                                              ELSE r.cell[i]]]
  IN FoldLeft(step, [p |-> 0, top |-> 0,
                     cell |-> [i \in 0..(Rows + Len(text)) * Cols |-> IF i \in Cells THEN "old" ELSE ""]],
              text)

\* The screen shows the last rows of the text, each character where it was
\* written, however far it has scrolled, with the cursor behind the last one
\* (cgaputc).
ScreenShows ==
  Done("screen") =>
    LET r == Roll(call[2])
    IN /\ \A i \in Cells : res[1].crt[i] = r.cell[r.top * Cols + i]
       /\ res[1].pos = r.p - r.top * Cols

\* wc counts the words of a file, wherever the reads cut it.
WordsCounted ==
  Done("wc") =>
    LET t == FlattenSeq(call[2])
        Blank(i) == t[i] \in {" ", "NL"}
    IN /\ res[1].c = Len(t)
       /\ res[1].l = Cardinality({i \in DOMAIN t : t[i] = "NL"})
       /\ res[1].w = Cardinality({i \in DOMAIN t : ~Blank(i) /\ (i = 1 \/ Blank(i - 1))})

\* Whether the last stroke of one of the keys before j was down.
Held(ks, j, keys) ==
  LET at == {i \in 1..j - 1 : ks[i][1] \in keys} IN at # {} /\ ~ks[Max(at)][2]
Typed(ks, j) ==
  LET up == SymDiff({i \in {1} : Held(ks, j, {"shift"})},
                    {i \in {1} : Cardinality({h \in 1..j - 1 : ks[h] = <<"caps", FALSE>>}) % 2 = 1}) # {}
  IN IF ks[j] = <<"arrow", FALSE>> THEN <<"KEY_UP">>
     ELSE IF ks[j] # <<"a", FALSE>> THEN <<>>
     ELSE IF Held(ks, j, {"lctl", "rctl"}) THEN <<"^A">>
     ELSE IF up THEN <<"A">> ELSE <<"a">>

\* kbdgetc reads every letter and arrow with the modifiers of the moment, the
\* keys of one code on the left and, escaped, on the right told apart.
KeysRead == Done("keys") => res[1] = FlattenSeq([j \in DOMAIN call[2] |-> Typed(call[2], j)])
=============================================================================
