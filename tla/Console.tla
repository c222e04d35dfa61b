------------------------------ MODULE Console ------------------------------
(***************************************************************************)
(* Console input (console.c): the keyboard handler consoleintr edits a     *)
(* ring of characters, consoleread takes finished lines out of it and      *)
(* keeps a history of commands that the handler can recall.                *)
(*                                                                         *)
(* input.lock is explicit: the handler treats several keys under one hold  *)
(* of it.  Indexes are unsigned and wrap at UINT, a multiple of INPUT_BUF. *)
(* The history table is one row of cells behind the other, as in memory;   *)
(* a write behind its end is recorded in wild.                             *)
(***************************************************************************)
EXTENDS Integers, Sequences

CONSTANTS Proc, INPUT_BUF, UINT, HISTORY_SIZE,
          LineLen,   \* cells of a history row
          Keys,      \* the keys that are pressed
          MaxN       \* length of a read

ConsoleAssumption ==
  /\ INPUT_BUF \in Nat \ {0} /\ UINT \in Nat /\ UINT % INPUT_BUF = 0
  /\ HISTORY_SIZE \in Nat \ {0} /\ LineLen \in Nat \ {0} /\ MaxN \in Nat \ {0}
  /\ UINT > INPUT_BUF + HISTORY_SIZE * LineLen
  /\ Keys \subseteq {"a", "NL", "^D", "^U", "^H", "up"}

Chars == {"a", "NL", "^D"}
Cells == HISTORY_SIZE * LineLen

VARIABLES
  buf, r, w, e,                          \* struct input
  lock,                                  \* input.lock
  prevCmds, dim1, dim2, curr, inserted,  \* indexToDim1, indexToDim2, currInd1, hasInserted
  wild,                                  \* a write went behind the table
  ind,                                   \* consoleintr's position in a row
  pc, n, target, killed,                 \* the readers
  pending                                \* finished input not read: the reference

ring == <<buf, r, w, e>>
history == <<prevCmds, dim1, dim2, curr, inserted, wild>>
readers == <<pc, n, target, killed>>
vars == <<ring, lock, history, ind, readers, pending>>

Init ==
  /\ buf = [k \in 0..INPUT_BUF - 1 |-> "a"] /\ r = 0 /\ w = 0 /\ e = 0
  /\ lock = "free"
  /\ prevCmds = [k \in 0..Cells - 1 |-> "0"] /\ dim1 = 0 /\ dim2 = 0
  /\ curr = 0 /\ inserted = 0 /\ wild = FALSE /\ ind = 0
  /\ pc = [p \in Proc |-> "user"] /\ n = [p \in Proc |-> 0] /\ target = [p \in Proc |-> 0]
  /\ killed = [p \in Proc |-> FALSE]
  /\ pending = <<>>

At(x) == buf[x % INPUT_BUF]
Diff(x, y) == (x - y) % UINT
Plus(x) == (x + 1) % UINT
Capped(x, max) == IF x < max THEN x ELSE max

wakeup == pc' = [p \in Proc |-> IF pc[p] = "asleep" THEN "acquire" ELSE pc[p]]

-----------------------------------------------------------------------------
(* The keyboard interrupt.                                                  *)

consoleintr ==
  /\ lock = "free" /\ lock' = "intr"
  /\ ind' = 0
  /\ UNCHANGED <<ring, history, readers, pending>>

IntrEnds ==
  /\ lock = "intr" /\ lock' = "free"
  /\ ind' = 0
  /\ UNCHANGED <<ring, history, readers, pending>>

\* What is edited and not finished, from w to e.
Edited == [k \in 1..Diff(e, w) |-> At(w + k - 1)]

\* Where ^U stops, k characters behind w: at w or behind the last newline.
LineStart(k) ==
  /\ k > 0 => At(w + k - 1) = "NL"
  /\ \A j \in k + 1..Diff(e, w) : At(w + j - 1) # "NL"

KillLine ==
  /\ lock = "intr" /\ "^U" \in Keys
  /\ \E k \in 0..Diff(e, w) : LineStart(k) /\ e' = (w + k) % UINT
  /\ UNCHANGED <<buf, r, w, lock, history, ind, readers, pending>>

Backspace ==
  /\ lock = "intr" /\ "^H" \in Keys
  /\ e' = IF e # w THEN (e - 1) % UINT ELSE e
  /\ UNCHANGED <<buf, r, w, lock, history, ind, readers, pending>>

Room == Diff(e, r) < INPUT_BUF

\* The character ends a line, or fills the buffer.
Ends(c) == c \in {"NL", "^D"} \/ Plus(e) = (r + INPUT_BUF) % UINT

Type(c) ==
  /\ lock = "intr" /\ c \in Keys /\ Room
  /\ buf' = [buf EXCEPT ![e % INPUT_BUF] = c]
  /\ e' = Plus(e)
  /\ IF Ends(c) THEN w' = Plus(e) /\ pending' = pending \o Edited \o <<c>> /\ wakeup
     ELSE UNCHANGED <<w, pending, pc>>
  /\ UNCHANGED <<r, lock, history, ind, n, target, killed>>

\* len characters are in a row of the history from cell k on, up to its zero; the
\* table ends it here, while the program would read on.
RowFrom(k, len) ==
  /\ k + len < Cells => prevCmds[k + len] = "0"
  /\ \A j \in k..k + len - 1 : j < Cells /\ prevCmds[j] # "0"

\* Tab or up: the line is replaced by a command of the history, from the place
\* where the last recall of this interrupt ended.  Of the characters that go to
\* one place of the ring the last one stays.  Bound: ind is capped where every
\* place is behind the table.
Recall ==
  /\ lock = "intr" /\ "up" \in Keys /\ inserted > 0
  /\ \E k \in 0..Diff(e, w), len \in 0..Cells :
       LET from == curr * LineLen + ind
           behind(i) == (w + k + len - 1 - i) % INPUT_BUF
       IN /\ LineStart(k) /\ RowFrom(from, len)
          /\ buf' = [i \in 0..INPUT_BUF - 1 |->
                       IF behind(i) < len THEN prevCmds[from + len - 1 - behind(i)] ELSE buf[i]]
          /\ e' = (w + k + len) % UINT
          /\ ind' = Capped(ind + len, Cells)
  /\ curr' = IF curr # 0 THEN curr - 1
             ELSE IF inserted < HISTORY_SIZE THEN dim1 - 1 ELSE HISTORY_SIZE - 1
  /\ UNCHANGED <<r, w, lock, prevCmds, dim1, dim2, inserted, wild, readers, pending>>

-----------------------------------------------------------------------------
(* consoleread.                                                             *)

consoleread(p, k) ==
  /\ pc[p] = "user" /\ ~killed[p]
  /\ pc' = [pc EXCEPT ![p] = "acquire"]
  /\ n' = [n EXCEPT ![p] = k] /\ target' = [target EXCEPT ![p] = k]
  /\ UNCHANGED <<ring, lock, history, ind, killed, pending>>

Acquire(p) ==
  /\ pc[p] = "acquire" /\ lock = "free" /\ lock' = "reader"
  /\ pc' = [pc EXCEPT ![p] = "read"]
  /\ UNCHANGED <<ring, history, ind, n, target, killed, pending>>

Return(p) == pc' = [pc EXCEPT ![p] = "user"] /\ lock' = "free"

ReadKilled(p) ==
  /\ pc[p] = "read" /\ r = w /\ killed[p]
  /\ Return(p)
  /\ UNCHANGED <<ring, history, ind, n, target, killed, pending>>

ReadSleeps(p) ==
  /\ pc[p] = "read" /\ r = w /\ ~killed[p]
  /\ pc' = [pc EXCEPT ![p] = "asleep"] /\ lock' = "free"
  /\ UNCHANGED <<ring, history, ind, n, target, killed, pending>>

\* A character goes to the history, at a row that wraps for characters only.
\* Bound: row and column are capped where every place is behind the table.
Remember(c) ==
  LET row == IF c = "a" /\ dim1 >= HISTORY_SIZE THEN 0 ELSE dim1
      k == row * LineLen + dim2
      cell == IF c = "a" THEN "a" ELSE "0"
  IN /\ prevCmds' = IF k < Cells THEN [prevCmds EXCEPT ![k] = cell] ELSE prevCmds
     /\ wild' = (wild \/ k >= Cells)
     /\ IF c = "a" THEN dim1' = row /\ dim2' = Capped(dim2 + 1, Cells) /\ UNCHANGED <<curr, inserted>>
        ELSE /\ dim1' = Capped(row + 1, HISTORY_SIZE + 1) /\ dim2' = 0 /\ curr' = row
             /\ inserted' = Capped(inserted + 1, HISTORY_SIZE)

Take(p, more) ==
  /\ pc[p] = "read" /\ r # w
  /\ Remember(At(r))
  /\ UNCHANGED <<buf, w, e, ind, target, killed>>
  /\ IF more THEN UNCHANGED <<pc, lock>> ELSE Return(p)

\* An ordinary character: go on unless the reader has enough.
ReadChar(p) ==
  /\ r # w /\ At(r) = "a"
  /\ Take(p, n[p] > 1)
  /\ r' = Plus(r) /\ n' = [n EXCEPT ![p] = @ - 1]
  /\ pending' = Tail(pending)

ReadNewline(p) ==
  /\ r # w /\ At(r) = "NL"
  /\ Take(p, FALSE)
  /\ r' = Plus(r) /\ n' = [n EXCEPT ![p] = @ - 1]
  /\ pending' = Tail(pending)

\* Mutant: the end of file is taken although characters were read.
EofTaken(p) ==
  /\ r # w /\ At(r) = "^D"
  /\ Take(p, FALSE)
  /\ r' = Plus(r)
  /\ pending' = IF n[p] < target[p] THEN pending ELSE Tail(pending)
  /\ UNCHANGED n

\* ^D ends the read, and stays for the next one if there were characters.
ReadEof(p) ==
  /\ r # w /\ At(r) = "^D"
  /\ Take(p, FALSE)
  /\ IF n[p] < target[p] THEN UNCHANGED <<r, pending>>
     ELSE r' = Plus(r) /\ pending' = Tail(pending)
  /\ UNCHANGED n

kill(p) ==
  /\ ~killed[p]
  /\ killed' = [killed EXCEPT ![p] = TRUE]
  /\ pc' = [pc EXCEPT ![p] = IF @ = "asleep" THEN "acquire" ELSE @]
  /\ UNCHANGED <<ring, lock, history, ind, n, target, pending>>

Next ==
  \/ consoleintr \/ IntrEnds \/ KillLine \/ Backspace \/ Recall
  \/ \E c \in Chars : Type(c)
  \/ \E p \in Proc :
       \/ \E k \in 1..MaxN : consoleread(p, k)
       \/ Acquire(p) \/ ReadKilled(p) \/ ReadSleeps(p)
       \/ ReadChar(p) \/ ReadNewline(p) \/ ReadEof(p) \/ kill(p)

Spec == Init /\ [][Next]_vars

-----------------------------------------------------------------------------
TypeOK ==
  /\ buf \in [0..INPUT_BUF - 1 -> Chars]
  /\ {r, w, e} \subseteq 0..UINT - 1
  /\ lock \in {"free", "intr", "reader"}
  /\ pc \in [Proc -> {"user", "acquire", "read", "asleep"}]
  /\ n \in [Proc -> 0..MaxN]

\* The read, write and edit index follow each other around the ring.
IndexesOrdered ==
  /\ Diff(w, r) <= Diff(e, r)
  /\ Diff(e, r) <= INPUT_BUF

\* Editing never touches input that was finished and not yet read: the ring
\* from r to w is what was typed, in order, whatever is edited behind it.
PendingKept == pending = [k \in 1..Diff(w, r) |-> At(r + k - 1)]

\* No reader sleeps while there is input.
NoSleepOnInput == r # w => \A p \in Proc : pc[p] # "asleep"

\* For induction: a reader in the call has something left to read, and the rows
\* of the history are the commands inserted until the table wraps.
StillReads == \A p \in Proc : pc[p] # "user" => n[p] > 0
HistoryRows ==
  /\ prevCmds \in [0..Cells - 1 -> {"a", "0"}]
  /\ {dim1, dim2, curr, inserted, ind} \subseteq Nat
  /\ inserted < HISTORY_SIZE => dim1 = inserted
=============================================================================
