---------------------------- MODULE SchedFAIR2Q -----------------------------
(***************************************************************************)
(* The FAIR2Q policy (the #elif FAIR2Q part of scheduler in proc.c): in    *)
(* every round of 64 slots the scheduler remembers the runnable process    *)
(* that has run for the smallest part of its life, separately for both     *)
(* priorities, and then switches to the best one.  One step per iteration  *)
(* of the for loop.  rtime and ticks advance in trap() (trap.c).           *)
(***************************************************************************)
EXTENDS SchedTable

CONSTANT MaxTicks  \* bound on ticks

FairAssumption == TableAssumption /\ MaxTicks \in Nat

VARIABLES
  ticks, ctime, rtime,
  idx,                        \* p, the slot of the for loop on each CPU
  loop,
  min_high_pri, min_low_pri,
  smallHighRatio, smallLowRatio,
  cand                        \* what the round has read: slots with their ratios

timevars == <<ticks, ctime, rtime>>
minvars == <<min_high_pri, min_low_pri, smallHighRatio, smallLowRatio>>
policyvars == <<idx, loop, minvars, cand>>
vars == <<tablevars, timevars, policyvars>>

\* Ratios are fractions, <<numerator, denominator>>.
Two == <<2, 1>>
Less(a, b) == a[1] * b[2] < b[1] * a[2]

Init ==
  /\ TableInit
  /\ ticks = 0
  /\ ctime = [p \in Slot |-> 0] /\ rtime = [p \in Slot |-> 0]
  /\ idx = [c \in CPU |-> 1]
  /\ loop = [c \in CPU |-> 0]
  /\ min_high_pri = [c \in CPU |-> NULL] /\ min_low_pri = [c \in CPU |-> NULL]
  /\ smallHighRatio = [c \in CPU |-> Two] /\ smallLowRatio = [c \in CPU |-> Two]
  /\ cand = [c \in CPU |-> {}]

ratio(p) ==
  LET mechane == ticks - ctime[p] IN
  IF mechane = 0 THEN <<1, 1>> ELSE <<rtime[p], mechane>>

At(c, p) == Scanning(c) /\ idx[c] = p

\* loop++ and the next slot.
Continue(c) ==
  /\ loop' = [loop EXCEPT ![c] = @ + 1]
  /\ idx' = [idx EXCEPT ![c] = @ + 1]
  /\ UNCHANGED <<tablevars, timevars>>

Reads(c, p) == cand' = [cand EXCEPT ![c] = @ \cup {<<p, priority[p], ratio(p)>>}]

InspectHigh(c, p) ==
  /\ At(c, p)
  /\ state[p] = "RUNNABLE" /\ priority[p] = 0 /\ loop[c] < NPROC
  /\ IF Less(ratio(p), smallHighRatio[c])
     THEN /\ smallHighRatio' = [smallHighRatio EXCEPT ![c] = ratio(p)]
          /\ min_high_pri' = [min_high_pri EXCEPT ![c] = p]
     ELSE UNCHANGED <<smallHighRatio, min_high_pri>>
  /\ Reads(c, p)
  /\ Continue(c)
  /\ UNCHANGED <<min_low_pri, smallLowRatio>>

InspectLow(c, p) ==
  /\ At(c, p)
  /\ state[p] = "RUNNABLE" /\ priority[p] # 0 /\ loop[c] < NPROC
  /\ IF Less(ratio(p), smallLowRatio[c])
     THEN /\ smallLowRatio' = [smallLowRatio EXCEPT ![c] = ratio(p)]
          /\ min_low_pri' = [min_low_pri EXCEPT ![c] = p]
     ELSE UNCHANGED <<smallLowRatio, min_low_pri>>
  /\ Reads(c, p)
  /\ Continue(c)
  /\ UNCHANGED <<min_high_pri, smallHighRatio>>

Skip(c, p) ==
  /\ At(c, p)
  /\ state[p] # "RUNNABLE" /\ loop[c] < NPROC
  /\ Continue(c)
  /\ UNCHANGED <<minvars, cand>>

\* Mutant: the ratios of the last round are kept.
ChooseKeepsRatios(c, p) ==
  /\ At(c, p)
  /\ loop[c] = NPROC
  /\ smallHighRatio[c] # Two \/ smallLowRatio[c] # Two
  /\ LET q == IF smallHighRatio[c] # Two THEN min_high_pri[c] ELSE min_low_pri[c] IN
       /\ Dispatch(c, q)
       /\ idx' = [idx EXCEPT ![c] = q + 1]
  /\ loop' = [loop EXCEPT ![c] = 0]
  /\ cand' = [cand EXCEPT ![c] = {}]
  /\ UNCHANGED <<timevars, minvars>>

\* loop == 64: the best high priority process, else the best low priority
\* one; the for loop goes on behind the one chosen.
Choose(c, p) ==
  /\ At(c, p)
  /\ loop[c] = NPROC
  /\ smallHighRatio[c] # Two \/ smallLowRatio[c] # Two
  /\ LET q == IF smallHighRatio[c] # Two THEN min_high_pri[c] ELSE min_low_pri[c] IN
       /\ Dispatch(c, q)
       /\ idx' = [idx EXCEPT ![c] = q + 1]
  /\ smallHighRatio' = [smallHighRatio EXCEPT ![c] = Two]
  /\ smallLowRatio' = [smallLowRatio EXCEPT ![c] = Two]
  /\ loop' = [loop EXCEPT ![c] = 0]
  /\ cand' = [cand EXCEPT ![c] = {}]
  /\ UNCHANGED <<timevars, min_high_pri, min_low_pri>>

NothingFound(c, p) ==
  /\ At(c, p)
  /\ loop[c] = NPROC
  /\ smallHighRatio[c] = Two /\ smallLowRatio[c] = Two
  /\ loop' = [loop EXCEPT ![c] = 0]
  /\ idx' = [idx EXCEPT ![c] = @ + 1]
  /\ cand' = [cand EXCEPT ![c] = {}]
  /\ UNCHANGED <<tablevars, timevars, minvars>>

EndOfTable(c) ==
  /\ At(c, NPROC + 1)
  /\ idx' = [idx EXCEPT ![c] = 1]
  /\ ptlock' = NULL
  /\ UNCHANGED <<state, priority, cproc, timevars, loop, minvars, cand>>

Scheduler(c) ==
  \/ SchedulerAcquire(c) /\ UNCHANGED <<timevars, policyvars>>
  \/ \E p \in Slot : \/ InspectHigh(c, p) \/ InspectLow(c, p) \/ Skip(c, p)
                     \/ Choose(c, p) \/ NothingFound(c, p)
  \/ EndOfTable(c)

\* The timer interrupt, masked while the scheduler has the lock: the first
\* CPU counts ticks, every CPU the time of its process.
timer(c) ==
  /\ ptlock # c
  /\ ticks < MaxTicks
  /\ ticks' = IF IsFirst(c, CPU) THEN ticks + 1 ELSE ticks
  /\ rtime' = IF cproc[c] = NULL THEN rtime ELSE [rtime EXCEPT ![cproc[c]] = @ + 1]
  /\ UNCHANGED <<tablevars, ctime, policyvars>>

Process(c) ==
  \/ /\ yield(c) \/ sleep(c) \/ exit(c) \/ nice(c)
     /\ UNCHANGED <<timevars, policyvars>>
  \/ \E q \in Slot :
       /\ wait(c, q)
       /\ ctime' = [ctime EXCEPT ![q] = 0]
       /\ rtime' = [rtime EXCEPT ![q] = 0]
       /\ UNCHANGED <<ticks, policyvars>>
  \/ \E q \in Slot :
       /\ fork(c, q)
       /\ ctime' = [ctime EXCEPT ![q] = ticks]
       /\ rtime' = [rtime EXCEPT ![q] = 0]
       /\ UNCHANGED <<ticks, policyvars>>

Next ==
  \/ \E c \in CPU : Scheduler(c) \/ Process(c) \/ timer(c)
  \/ (\E q \in Slot : wakeup(q)) /\ UNCHANGED <<timevars, policyvars>>

Spec == Init /\ [][Next]_vars

-----------------------------------------------------------------------------
TypeOK ==
  /\ TableOK
  /\ ticks \in 0..MaxTicks
  /\ ctime \in [Slot -> 0..MaxTicks] /\ rtime \in [Slot -> 0..MaxTicks]
  /\ idx \in [CPU -> 1..NPROC + 1]
  /\ loop \in [CPU -> 0..NPROC]
  /\ min_high_pri \in [CPU -> 0..NPROC] /\ min_low_pri \in [CPU -> 0..NPROC]

Ratio == {r \in Nat \X Nat : r[1] <= r[2] /\ r[2] # 0}

\* What the scheduler knows of the processes of priority pr after it read S:
\* their smallest ratio, Two if there is none, and whose ratio that is.
Knows(S, pr, small, min) ==
  LET read == {e \in S : e[2] = pr} IN
  IF read = {} THEN small = Two
  ELSE small # Two /\ <<min, pr, small>> \in S /\ \A f \in read : ~Less(f[3], small)

\* On one CPU: the time a process ran is part of its life, and until the round
\* chooses the processes it read stay as it read them.
RoundInv ==
  /\ \A p \in Slot : rtime[p] + ctime[p] <= ticks
  /\ cand \in [CPU -> SUBSET (Slot \X {0, 1} \X Ratio)]
  /\ smallHighRatio \in [CPU -> Nat \X Nat] /\ smallLowRatio \in [CPU -> Nat \X Nat]
  /\ \A c \in CPU :
       /\ \A e \in cand[c] : state[e[1]] = "RUNNABLE" /\ priority[e[1]] = e[2]
       /\ cand[c] # {} => cproc[c] = NULL
       /\ Knows(cand[c], 0, smallHighRatio[c], min_high_pri[c])
       /\ Knows(cand[c], 1, smallLowRatio[c], min_low_pri[c])

\* The process switched to is one the round read, of high priority if the
\* round read any, and no other of its priority had a smaller ratio.
Fairest ==
  \A c \in CPU : Switches(c) =>
    \E e \in cand[c] :
      /\ e[1] = cproc'[c]
      /\ \A f \in cand[c] : e[2] <= f[2] /\ (e[2] = f[2] => ~Less(f[3], e[3]))
=============================================================================
