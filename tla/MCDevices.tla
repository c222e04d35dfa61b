----------------------------- MODULE MCDevices ------------------------------
(***************************************************************************)
(* What interrupt handlers and processes share: the buffer cache with its  *)
(* disk (Bcache, part "buffers") and the console's ring (Console, parts    *)
(* "console" and "recall"), checked in one run.  part says what a          *)
(* behaviour is about; it never changes.  Console uses the variables x1,   *)
(* x2, ... for its own, which are 0 in part "buffers"; the cache is as     *)
(* binit leaves it in the other parts.                                     *)
(***************************************************************************)
EXTENDS Bcache, TLC

CONSTANTS INPUT_BUF,                                         \* the console's ring
          EditKeys, EditN, EditUINT, EditHistory, EditLine,  \* readers with line editing
          RecallProc, RecallKeys, RecallN, RecallUINT, RecallHistory, RecallLine

VARIABLES part, x1, x2, x3, x4, x5, x6, x7, x8, x9, x10, x11, x12, x13, x14, x15, x16, x17

xs == <<x1, x2, x3, x4, x5, x6, x7, x8, x9, x10, x11, x12, x13, x14, x15, x16, x17>>
allvars == <<part, xs, vars>>

\* The console without recall from the history, and with it.
K == INSTANCE Console WITH
       Keys <- EditKeys, MaxN <- EditN, UINT <- EditUINT, HISTORY_SIZE <- EditHistory,
       LineLen <- EditLine, buf <- x1, r <- x2, w <- x3, e <- x4,
       lock <- x5, prevCmds <- x6, dim1 <- x7, dim2 <- x8, curr <- x9, inserted <- x10,
       wild <- x11, ind <- x12, pc <- x13, n <- x14, target <- x15, killed <- x16, pending <- x17
H == INSTANCE Console WITH
       Proc <- RecallProc, Keys <- RecallKeys, MaxN <- RecallN, UINT <- RecallUINT,
       HISTORY_SIZE <- RecallHistory, LineLen <- RecallLine, buf <- x1, r <- x2, w <- x3, e <- x4,
       lock <- x5, prevCmds <- x6, dim1 <- x7, dim2 <- x8, curr <- x9, inserted <- x10,
       wild <- x11, ind <- x12, pc <- x13, n <- x14, target <- x15, killed <- x16, pending <- x17

ASSUME EditAssumption == K!ConsoleAssumption /\ "up" \notin EditKeys
ASSUME RecallAssumption == H!ConsoleAssumption

MCInit ==
  /\ Init
  /\ \/ /\ part = "buffers" /\ x1 = 0 /\ x2 = 0 /\ x3 = 0 /\ x4 = 0 /\ x5 = 0 /\ x6 = 0
        /\ x7 = 0 /\ x8 = 0 /\ x9 = 0 /\ x10 = 0 /\ x11 = 0 /\ x12 = 0 /\ x13 = 0
        /\ x14 = 0 /\ x15 = 0 /\ x16 = 0 /\ x17 = 0
     \/ /\ data = [b \in Buf |-> 1] /\ disk = [s \in Sector |-> 1]
        /\ \/ part = "console" /\ K!Init
           \/ part = "recall" /\ H!Init

MCNext ==
  \/ part = "buffers" /\ Next /\ UNCHANGED <<part, xs>>
  \/ part = "console" /\ K!Next /\ UNCHANGED <<part, vars>>
  \/ part = "recall" /\ H!Next /\ UNCHANGED <<part, vars>>

MCSpec == MCInit /\ [][MCNext]_allvars

\* The modules do not tell processes apart.
Symmetry == Permutations(Proc)

-----------------------------------------------------------------------------
\* Editing never touches input that was finished and not yet read: the indexes
\* follow each other around the ring, and from r to w is what was typed, in
\* order, whatever is edited behind it.  No reader sleeps while there is finished
\* input, whatever recall from the history does (consoleintr, consoleread).
InputKept ==
  /\ part = "console" => K!TypeOK /\ K!IndexesOrdered /\ K!PendingKept /\ K!NoSleepOnInput
  /\ part = "recall" => H!TypeOK /\ H!NoSleepOnInput
=============================================================================
