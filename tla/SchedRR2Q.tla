----------------------------- MODULE SchedRR2Q ------------------------------
(***************************************************************************)
(* The RR2Q policy (the #ifdef RR2Q parts of scheduler in proc.c): round   *)
(* robin among high priority processes, low priority ones when a round     *)
(* found none.  One step per iteration of the for loop.                    *)
(*                                                                         *)
(* lastHighPri is the slot the loop had reached when it chose a process    *)
(* and goes on from, so idx stands for both.  loop is only compared with   *)
(* 64, so it is kept up to 65.  The search for a low priority process does *)
(* not stop at the end of the table: lastLowPri may point past it, and     *)
(* what lies there may look like a runnable process.                       *)
(***************************************************************************)
EXTENDS SchedTable

VARIABLES
  idx,         \* p, the slot of the for loop on each CPU
  loop,
  lastLowPri,  \* NULL, a slot, or NPROC + 1 for any address past the table
  crashed,     \* a switch to no process at all, or back into exit
  seen         \* the slots passed over since the last switch

policyvars == <<idx, loop, lastLowPri, crashed, seen>>
vars == <<tablevars, policyvars>>

Init ==
  /\ TableInit
  /\ idx = [c \in CPU |-> 1]
  /\ loop = [c \in CPU |-> 0]
  /\ lastLowPri = [c \in CPU |-> NULL]
  /\ crashed = FALSE
  /\ seen = [c \in CPU |-> {}]

High(p) == priority[p] = 0
RunnableLow(p) == ~High(p) /\ state[p] = "RUNNABLE"

\* Iterations that pass over p.
Passes(c, p) ==
  \/ High(p) /\ state[p] # "RUNNABLE"
  \/ ~High(p) /\ loop[c] < NPROC

Skip(c) ==
  LET p == idx[c] IN
  /\ Scanning(c) /\ p <= NPROC
  /\ Passes(c, p)
  /\ loop' = [loop EXCEPT ![c] = IF @ <= NPROC THEN @ + 1 ELSE @]
  /\ idx' = [idx EXCEPT ![c] = p + 1]
  /\ seen' = [seen EXCEPT ![c] = @ \cup {p}]
  /\ UNCHANGED <<tablevars, lastLowPri, crashed>>

\* Mutant: the loop does not move on.
SwitchToSame(c, p, q) ==
  /\ Dispatch(c, q)
  /\ crashed' = (state[q] = "ZOMBIE")
  /\ loop' = [loop EXCEPT ![c] = 0]
  /\ idx' = [idx EXCEPT ![c] = p]
  /\ seen' = [seen EXCEPT ![c] = {}]

\* proc = q, from the iteration of slot p; the next one is that of p + 1.
SwitchTo(c, p, q) ==
  /\ Dispatch(c, q)
  /\ crashed' = (state[q] = "ZOMBIE")
  /\ loop' = [loop EXCEPT ![c] = 0]
  /\ idx' = [idx EXCEPT ![c] = p + 1]
  /\ seen' = [seen EXCEPT ![c] = {}]

\* loop == 64: where the search for a runnable low priority process starts,
\* and those it can find inside the table.
LowStart(c) == IF lastLowPri[c] = NULL THEN idx[c] ELSE lastLowPri[c]
LowFound(c) == {q \in Slot : q >= LowStart(c) /\ RunnableLow(q)}

Searches(c) ==
  /\ Scanning(c) /\ idx[c] <= NPROC
  /\ ~Passes(c, idx[c])
  /\ loop[c] = NPROC

SearchFinds(c) ==
  /\ Searches(c)
  /\ \E q \in Slot :
       /\ IsFirst(q, LowFound(c))
       /\ SwitchTo(c, idx[c], q)
       /\ lastLowPri' = [lastLowPri EXCEPT ![c] = q]

\* 64 steps on the search gives up, past the table, and p is run after all.
SearchGivesUp(c) ==
  /\ Searches(c)
  /\ LowFound(c) = {}
  /\ SwitchTo(c, idx[c], idx[c])
  /\ lastLowPri' = [lastLowPri EXCEPT ![c] = NPROC + 1]

\* Or something past the table looks like a process.
SearchGoesWild(c) ==
  /\ Searches(c)
  /\ LowFound(c) = {}
  /\ LowStart(c) > 1
  /\ crashed' = TRUE
  /\ UNCHANGED <<tablevars, idx, loop, lastLowPri, seen>>

Choose(c) ==
  /\ Scanning(c) /\ idx[c] <= NPROC
  /\ ~Passes(c, idx[c])
  /\ loop[c] # NPROC
  /\ SwitchTo(c, idx[c], idx[c])
  /\ UNCHANGED lastLowPri

EndOfTable(c) ==
  /\ Scanning(c) /\ idx[c] > NPROC
  /\ idx' = [idx EXCEPT ![c] = 1]
  /\ ptlock' = NULL
  /\ UNCHANGED <<state, priority, cproc, loop, lastLowPri, crashed, seen>>

Scheduler(c) ==
  \/ SchedulerAcquire(c) /\ UNCHANGED policyvars
  \/ Skip(c) \/ EndOfTable(c) \/ Choose(c)
  \/ SearchFinds(c) \/ SearchGivesUp(c) \/ SearchGoesWild(c)

Process(c) ==
  /\ \/ yield(c) \/ sleep(c) \/ exit(c) \/ nice(c)
     \/ \E q \in Slot : fork(c, q) \/ wait(c, q)
  /\ UNCHANGED policyvars

Next ==
  \/ ~crashed /\ \E c \in CPU : Scheduler(c) \/ Process(c)
  \/ ~crashed /\ (\E q \in Slot : wakeup(q)) /\ UNCHANGED policyvars
  \/ crashed /\ UNCHANGED vars

Spec == Init /\ [][Next]_vars

-----------------------------------------------------------------------------
TypeOK ==
  /\ TableOK
  /\ idx \in [CPU -> 1..NPROC + 1]
  /\ loop \in [CPU -> 0..NPROC + 1]
  /\ lastLowPri \in [CPU -> 0..NPROC + 1]
  /\ crashed \in BOOLEAN
  /\ seen \in [CPU -> SUBSET Slot]

\* The slots passed over since the last switch are the last ones before idx,
\* counted around the table, as many as loop says.
RoundInv ==
  \A c \in CPU : \A p \in Slot :
    \/ loop[c] >= NPROC
    \/ idx[c] - loop[c] <= p /\ p < idx[c]
    \/ idx[c] - loop[c] + NPROC <= p
    => p \in seen[c]

\* A low priority process is switched to only after a round in which every
\* slot was passed over, so no high priority process was found runnable.
LowRound == \A c \in CPU : Switches(c) /\ ~High(cproc'[c]) => seen[c] = Slot

\* A process that may expect the CPU, and the end of its wait.
HighWaits(p) == state[p] = "RUNNABLE" /\ High(p)
HighRuns(p) == state[p] = "RUNNING" \/ crashed
=============================================================================
