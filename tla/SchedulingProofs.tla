-------------------------- MODULE SchedulingProofs --------------------------
(***************************************************************************)
(* Proofs for the scheduling policies and the timer interrupt: types, who  *)
(* is chosen, the quantum and the times of wait2, for every number of      *)
(* slots and processes, every quantum and every bound on ticks.            *)
(***************************************************************************)
EXTENDS MCScheduling, TLAPS

\* The timer interrupt: types, and what relates the counters.
TimerIInv == T!TypeOK /\ T!TickInv /\ T!WaitTimeCounts

\* Leaves go to Zenon; the ones that count name SMT.
USE Zenon

\* The timer's invariant holds initially.
LEMMA TimerInitial ==
  ASSUME T!Init
  PROVE  TimerIInv
BY SchedulingAssumption, SMTT(20) DEF TimerIInv, T!Init, T!TypeOK, T!TickInv, T!Pending, T!WaitTimeCounts, T!TimerAssumption

\* A tick of the timer and its accounting keep it, one step per action.
LEMMA TimerStep ==
  ASSUME TimerIInv, T!Next
  PROVE  TimerIInv'
<1> USE SchedulingAssumption DEF TimerIInv, T!TimerAssumption, T!WaitTimeCounts
<1>1. CASE T!timer(1)
  BY <1>1, SMTT(20) DEF T!timer, T!Goto, T!TypeOK, T!TickInv, T!Pending
<1>2. CASE T!CountLoad(1)
  BY <1>2, SMTT(20) DEF T!CountLoad, T!Goto, T!TypeOK, T!TickInv, T!Pending
<1>3. CASE T!CountStore(1)
  BY <1>3, SMTT(20) DEF T!CountStore, T!Goto, T!TypeOK, T!TickInv, T!Pending
<1>4. CASE T!Expires(1)
  BY <1>4, SMTT(20) DEF T!Expires, T!Leave, T!Goto, T!TypeOK, T!TickInv, T!Pending
<1>5. CASE T!GoesOn(1)
  BY <1>5, SMTT(20) DEF T!GoesOn, T!Quantum, T!Goto, T!TypeOK, T!TickInv, T!Pending
<1>6. CASE T!sleep(1)
  BY <1>6, SMTT(20) DEF T!sleep, T!Runs, T!Leave, T!TypeOK, T!TickInv, T!Pending
<1>7. CASE T!nice(1)
  BY <1>7, SMTT(20) DEF T!nice, T!Runs, T!TypeOK, T!TickInv, T!Pending
<1>8. CASE T!exit(1)
  BY <1>8, SMTT(20) DEF T!exit, T!Runs, T!Leave, T!TypeOK, T!TickInv, T!Pending
<1>9. ASSUME NEW p \in TimerProc, T!Switch(1, p) PROVE TimerIInv'
  BY <1>9 DEF T!Switch, T!TypeOK, T!TickInv, T!Pending
<1>10. ASSUME NEW p \in TimerProc, T!fork(1, p) PROVE TimerIInv'
  BY <1>10, SMTT(20) DEF T!fork, T!Runs, T!TypeOK, T!TickInv, T!Pending
<1> QED BY <1>1, <1>2, <1>3, <1>4, <1>5, <1>6, <1>7, <1>8, <1>9, <1>10 DEF T!Next

-----------------------------------------------------------------------------
\* RR2Q, for any CPUs C and any slots M that call nice: types, what loop says
\* of the slots passed over, and that nobody else has low priority.
RR2QIInv(C, M) ==
  /\ RR2Q(C, M)!TypeOK /\ RR2Q(C, M)!RoundInv
  /\ \A p \in 1..NPROC : p \notin M => priority[p] = 0

\* The policy's invariant holds initially.
LEMMA RR2QInitial ==
  ASSUME NEW C, NEW M, RR2Q(C, M)!TableAssumption, RR2Q(C, M)!Init
  PROVE  RR2QIInv(C, M)
<1> USE DEF RR2Q!TableAssumption, RR2Q!Init, RR2Q!TableInit, RR2Q!Slot, RR2Q!NULL, RR2Q!initproc
<1>1. RR2Q(C, M)!TypeOK
  <2>1. RR2Q(C, M)!TableOK
    BY DEF RR2Q!TableOK
  <2>2. own3 \in [C -> SUBSET (1..NPROC)] /\ own2 \in BOOLEAN
    OBVIOUS
  <2>3. idx \in [C -> 1..NPROC + 1] /\ loop \in [C -> 0..NPROC + 1] /\ own1 \in [C -> 0..NPROC + 1]
    BY SMTT(20)
  <2> QED BY <2>1, <2>2, <2>3 DEF RR2Q!TypeOK
<1>2. RR2Q(C, M)!RoundInv
  BY SMTT(20) DEF RR2Q!RoundInv
<1> QED BY <1>1, <1>2 DEF RR2QIInv

\* What running processes do to the table.
LEMMA RR2QProcessStep ==
  ASSUME NEW C, NEW M, RR2Q(C, M)!TableAssumption, RR2QIInv(C, M), NEW c \in C,
         RR2Q(C, M)!Process(c)
  PROVE  RR2QIInv(C, M)'
<1> USE DEF RR2QIInv, RR2Q!TableAssumption, RR2Q!Slot, RR2Q!NULL, RR2Q!initproc
<1>1. UNCHANGED <<idx, loop, own1, own2, own3>>
  BY DEF RR2Q!Process, RR2Q!policyvars
<1>2. RR2Q(C, M)!TableOK
  BY DEF RR2Q!TypeOK
<1>3. RR2Q(C, M)!TableOK' /\ \A p \in 1..NPROC : p \notin M => priority'[p] = 0
  <2> HIDE DEF RR2QIInv
  <2>0. \A p \in 1..NPROC : p \notin M => priority[p] = 0
    BY DEF RR2QIInv
  <2>1. CASE RR2Q(C, M)!yield(c) \/ RR2Q(C, M)!sleep(c) \/ RR2Q(C, M)!exit(c)
    BY <1>2, <2>0, <2>1 DEF RR2Q!yield, RR2Q!sleep, RR2Q!exit, RR2Q!Leave, RR2Q!Running, RR2Q!TableOK
  <2>2. CASE RR2Q(C, M)!nice(c)
    BY <1>2, <2>0, <2>2, SMTT(20) DEF RR2Q!nice, RR2Q!Running, RR2Q!TableOK
  <2>3. ASSUME NEW q \in 1..NPROC, RR2Q(C, M)!fork(c, q) \/ RR2Q(C, M)!wait(c, q)
        PROVE  RR2Q(C, M)!TableOK' /\ \A p \in 1..NPROC : p \notin M => priority'[p] = 0
    BY <1>2, <2>0, <2>3 DEF RR2Q!fork, RR2Q!wait, RR2Q!Running, RR2Q!TableOK
  <2> QED BY <2>1, <2>2, <2>3 DEF RR2Q!Process
<1> QED BY <1>1, <1>3 DEF RR2Q!TypeOK, RR2Q!RoundInv

\* A switch to process q from the iteration of slot p.
LEMMA RR2QSwitchStep ==
  ASSUME NEW C, NEW M, RR2Q(C, M)!TableAssumption, RR2QIInv(C, M), NEW c \in C,
         NEW p \in 1..NPROC, NEW q \in 1..NPROC, RR2Q(C, M)!SwitchTo(c, p, q),
         own1' \in [C -> 0..NPROC + 1]
  PROVE  RR2QIInv(C, M)'
<1> USE DEF RR2Q!TableAssumption, RR2Q!Slot, RR2Q!NULL, RR2Q!SwitchTo, RR2Q!Dispatch
<1>1. RR2Q(C, M)!TableOK'
  BY DEF RR2QIInv, RR2Q!TypeOK, RR2Q!TableOK
<1>2. idx' \in [C -> 1..NPROC + 1] /\ loop' \in [C -> 0..NPROC + 1]
  BY SMTT(20) DEF RR2QIInv, RR2Q!TypeOK
<1>3. own3' \in [C -> SUBSET (1..NPROC)] /\ own2' \in BOOLEAN
  BY DEF RR2QIInv, RR2Q!TypeOK
<1>4. RR2Q(C, M)!RoundInv'
  BY SMTT(20) DEF RR2QIInv, RR2Q!TypeOK, RR2Q!RoundInv
<1>5. \A s \in 1..NPROC : s \notin M => priority'[s] = 0
  BY DEF RR2QIInv
<1> QED BY <1>1, <1>2, <1>3, <1>4, <1>5 DEF RR2QIInv, RR2Q!TypeOK

\* One iteration of the for loop that passes over its slot.
LEMMA RR2QSkipStep ==
  ASSUME NEW C, NEW M, RR2Q(C, M)!TableAssumption, RR2QIInv(C, M), NEW c \in C,
         RR2Q(C, M)!Skip(c)
  PROVE  RR2QIInv(C, M)'
<1> USE DEF RR2Q!TableAssumption, RR2Q!Slot, RR2Q!NULL, RR2Q!Skip, RR2Q!tablevars
<1>1. PICK p \in 1..NPROC : p = idx[c]
  BY SMTT(20) DEF RR2QIInv, RR2Q!TypeOK
<1>2. PICK n \in 0..NPROC + 1 : /\ n = loop[c] + 1 \/ (n = NPROC + 1 /\ loop[c] >= NPROC)
                               /\ loop' = [loop EXCEPT ![c] = n]
  <2>1. loop[c] \in 0..NPROC + 1
    BY SMT DEF RR2QIInv, RR2Q!TypeOK
  <2>2. loop' = [loop EXCEPT ![c] = IF loop[c] <= NPROC THEN loop[c] + 1 ELSE loop[c]]
    OBVIOUS
  <2> HIDE DEF RR2Q!Skip, RR2Q!tablevars
  <2>3. CASE loop[c] <= NPROC
    <3>1. loop[c] + 1 \in 0..NPROC + 1
      BY <2>1, <2>3, SMT
    <3> QED BY <2>2, <2>3, <3>1
  <2>4. CASE ~(loop[c] <= NPROC)
    <3>1. loop[c] = NPROC + 1 /\ loop[c] >= NPROC
      BY <2>1, <2>4, SMT
    <3> QED BY <2>1, <2>2, <2>4, <3>1
  <2> QED BY <2>3, <2>4
<1>3. RR2Q(C, M)!TableOK'
  BY DEF RR2QIInv, RR2Q!TypeOK, RR2Q!TableOK
<1>4. idx' \in [C -> 1..NPROC + 1] /\ loop' \in [C -> 0..NPROC + 1]
  BY <1>1, <1>2, SMTT(20) DEF RR2QIInv, RR2Q!TypeOK
<1>5. own3' = [own3 EXCEPT ![c] = @ \cup {p}] /\ own3 \in [C -> SUBSET (1..NPROC)]
  BY <1>1 DEF RR2QIInv, RR2Q!TypeOK
<1>6. own3' \in [C -> SUBSET (1..NPROC)]
  BY <1>5
<1>7. RR2Q(C, M)!RoundInv'
  <2> SUFFICES ASSUME NEW d \in C, NEW s \in 1..NPROC,
                      \/ loop'[d] >= NPROC
                      \/ idx'[d] - loop'[d] <= s /\ s < idx'[d]
                      \/ idx'[d] - loop'[d] + NPROC <= s
               PROVE  s \in own3'[d]
    BY DEF RR2Q!RoundInv
  <2>1. CASE d # c
    BY <1>2, <1>5, <2>1 DEF RR2QIInv, RR2Q!TypeOK, RR2Q!RoundInv
  <2>2. CASE d = c
    <3>1. idx'[c] = p + 1 /\ loop'[c] = n /\ own3'[c] = own3[c] \cup {p} /\ loop[c] \in 0..NPROC + 1
      BY <1>1, <1>2, <1>5 DEF RR2QIInv, RR2Q!TypeOK
    <3>2. s = p \/ \/ loop[c] >= NPROC
                   \/ idx[c] - loop[c] <= s /\ s < idx[c]
                   \/ idx[c] - loop[c] + NPROC <= s
      BY <1>1, <1>2, <2>2, <3>1, SMTT(20)
    <3> QED BY <2>2, <3>1, <3>2 DEF RR2QIInv, RR2Q!RoundInv
  <2> QED BY <2>1, <2>2
<1>8. \A s \in 1..NPROC : s \notin M => priority'[s] = 0
  BY DEF RR2QIInv
<1> QED BY <1>3, <1>4, <1>6, <1>7, <1>8 DEF RR2QIInv, RR2Q!TypeOK

\* Every step of scheduler() keeps the invariant of RR2Q.
LEMMA RR2QSchedulerStep ==
  ASSUME NEW C, NEW M, RR2Q(C, M)!TableAssumption, RR2QIInv(C, M), NEW c \in C,
         RR2Q(C, M)!Scheduler(c)
  PROVE  RR2QIInv(C, M)'
<1> USE DEF RR2Q!TableAssumption, RR2Q!Slot, RR2Q!NULL
<1>1. CASE RR2Q(C, M)!SchedulerAcquire(c) /\ UNCHANGED <<idx, loop, own1, own2, own3>>
  BY <1>1 DEF RR2QIInv, RR2Q!SchedulerAcquire, RR2Q!TypeOK, RR2Q!TableOK, RR2Q!RoundInv
<1>2. CASE RR2Q(C, M)!Skip(c)
  BY <1>2, RR2QSkipStep
<1>3. CASE RR2Q(C, M)!EndOfTable(c)
  <2> USE <1>3 DEF RR2Q!EndOfTable
  <2>1. RR2Q(C, M)!TableOK'
    BY DEF RR2QIInv, RR2Q!TypeOK, RR2Q!TableOK
  <2>2. idx[c] = NPROC + 1 /\ idx' \in [C -> 1..NPROC + 1] /\ UNCHANGED <<loop, own1, own2, own3>>
    BY SMTT(20) DEF RR2QIInv, RR2Q!TypeOK
  <2>3. RR2Q(C, M)!RoundInv'
    BY <2>2, SMTT(20) DEF RR2QIInv, RR2Q!TypeOK, RR2Q!RoundInv
  <2> QED BY <2>1, <2>2, <2>3 DEF RR2QIInv, RR2Q!TypeOK
<1>4. CASE RR2Q(C, M)!Choose(c) \/ RR2Q(C, M)!SearchGivesUp(c)
  <2>1. idx[c] \in 1..NPROC /\ own1' \in [C -> 0..NPROC + 1]
    BY <1>4, SMTT(20) DEF RR2Q!Choose, RR2Q!SearchGivesUp, RR2Q!Searches, RR2QIInv, RR2Q!TypeOK
  <2>2. RR2Q(C, M)!SwitchTo(c, idx[c], idx[c])
    BY <1>4 DEF RR2Q!Choose, RR2Q!SearchGivesUp
  <2> QED BY <2>1, <2>2, RR2QSwitchStep
<1>5. CASE RR2Q(C, M)!SearchFinds(c)
  <2>1. PICK q \in 1..NPROC : RR2Q(C, M)!SwitchTo(c, idx[c], q) /\ own1' = [own1 EXCEPT ![c] = q]
    BY <1>5 DEF RR2Q!SearchFinds
  <2>2. q \in 1..NPROC
    OBVIOUS
  <2>3. RR2Q(C, M)!SwitchTo(c, idx[c], q) /\ own1' = [own1 EXCEPT ![c] = q]
    BY <2>1
  <2>4. idx[c] \in 1..NPROC /\ own1' \in [C -> 0..NPROC + 1]
    BY <1>5, <2>2, <2>3, SMTT(20) DEF RR2Q!SearchFinds, RR2Q!Searches, RR2QIInv, RR2Q!TypeOK
  <2> QED BY <2>2, <2>3, <2>4, RR2QSwitchStep
<1>6. CASE RR2Q(C, M)!SearchGoesWild(c)
  BY <1>6 DEF RR2QIInv, RR2Q!SearchGoesWild, RR2Q!tablevars, RR2Q!TypeOK, RR2Q!TableOK, RR2Q!RoundInv
<1> QED BY <1>1, <1>2, <1>3, <1>4, <1>5, <1>6 DEF RR2Q!Scheduler, RR2Q!policyvars

\* So does every step of the component.
LEMMA RR2QStep ==
  ASSUME NEW C, NEW M, RR2Q(C, M)!TableAssumption, RR2QIInv(C, M), RR2Q(C, M)!Next
  PROVE  RR2QIInv(C, M)'
<1>1. ASSUME NEW q \in 1..NPROC, RR2Q(C, M)!wakeup(q), UNCHANGED <<idx, loop, own1, own2, own3>>
      PROVE  RR2QIInv(C, M)'
  BY <1>1 DEF RR2QIInv, RR2Q!wakeup, RR2Q!TypeOK, RR2Q!TableOK, RR2Q!RoundInv, RR2Q!Slot, RR2Q!NULL
<1>2. CASE UNCHANGED <<state, priority, ptlock, cproc, idx, loop, own1, own2, own3>>
  BY <1>2 DEF RR2QIInv, RR2Q!TypeOK, RR2Q!TableOK, RR2Q!RoundInv, RR2Q!Slot, RR2Q!NULL
<1> QED BY <1>1, <1>2, RR2QProcessStep, RR2QSchedulerStep
        DEF RR2Q!Next, RR2Q!vars, RR2Q!tablevars, RR2Q!policyvars, RR2Q!Slot

\* What a step of RR2Q may switch to.
LEMMA RR2QChooses ==
  ASSUME NEW C, NEW M, RR2Q(C, M)!TableAssumption, RR2QIInv(C, M), RR2Q(C, M)!Next
  PROVE  RR2Q(C, M)!LowRound /\ (M = {} => RR2Q(C, M)!ToRunnable)
<1> USE DEF RR2Q!TableAssumption, RR2Q!Slot, RR2Q!NULL
<1> SUFFICES ASSUME NEW c \in C, cproc[c] = 0, cproc'[c] # 0
             PROVE  /\ priority[cproc'[c]] # 0 => own3[c] = 1..NPROC
                    /\ M = {} => state[cproc'[c]] = "RUNNABLE"
  BY DEF RR2Q!LowRound, RR2Q!ToRunnable, RR2Q!Switches, RR2Q!High
<1>1. cproc \in [C -> 0..NPROC] /\ own3[c] \in SUBSET (1..NPROC) /\ loop[c] \in Nat
  BY SMTT(20) DEF RR2QIInv, RR2Q!TypeOK, RR2Q!TableOK
<1>2. loop[c] >= NPROC => own3[c] = 1..NPROC
  BY <1>1 DEF RR2QIInv, RR2Q!RoundInv
<1>3. RR2Q(C, M)!Choose(c) \/ RR2Q(C, M)!SearchFinds(c) \/ RR2Q(C, M)!SearchGivesUp(c)
  <2>1. ASSUME NEW d \in C, RR2Q(C, M)!Process(d) PROVE FALSE
    BY <1>1, <2>1 DEF RR2Q!Process, RR2Q!yield, RR2Q!sleep, RR2Q!exit, RR2Q!Leave, RR2Q!nice, RR2Q!fork, RR2Q!wait
  <2>2. PICK d \in C : RR2Q(C, M)!Scheduler(d)
    BY <2>1 DEF RR2Q!Next, RR2Q!wakeup, RR2Q!vars, RR2Q!tablevars
  <2>3. RR2Q(C, M)!Choose(d) \/ RR2Q(C, M)!SearchFinds(d) \/ RR2Q(C, M)!SearchGivesUp(d)
    BY <2>2 DEF RR2Q!Scheduler, RR2Q!SchedulerAcquire, RR2Q!Skip, RR2Q!EndOfTable, RR2Q!SearchGoesWild, RR2Q!tablevars
  <2>4. d = c
    BY <1>1, <2>3 DEF RR2Q!Choose, RR2Q!SearchFinds, RR2Q!SearchGivesUp, RR2Q!SwitchTo, RR2Q!Dispatch
  <2> QED BY <2>3, <2>4
<1>4. idx[c] \in 1..NPROC /\ ~RR2Q(C, M)!Passes(c, idx[c])
  BY <1>3, SMTT(20) DEF RR2Q!Choose, RR2Q!SearchFinds, RR2Q!SearchGivesUp, RR2Q!Searches, RR2QIInv, RR2Q!TypeOK
<1>5. priority[idx[c]] # 0 => loop[c] >= NPROC
  BY <1>1, <1>4, SMTT(20) DEF RR2Q!Passes, RR2Q!High
<1>6. M = {} => priority[idx[c]] = 0 /\ state[idx[c]] = "RUNNABLE"
  BY <1>4 DEF RR2QIInv, RR2Q!Passes, RR2Q!High
<1>7. CASE RR2Q(C, M)!Choose(c) \/ RR2Q(C, M)!SearchGivesUp(c)
  <2>1. cproc'[c] = idx[c]
    BY <1>1, <1>7 DEF RR2Q!Choose, RR2Q!SearchGivesUp, RR2Q!SwitchTo, RR2Q!Dispatch
  <2> QED BY <1>2, <1>5, <1>6, <2>1
<1>8. CASE RR2Q(C, M)!SearchFinds(c)
  <2>1. loop[c] >= NPROC
    BY <1>8, SMTT(20) DEF RR2Q!SearchFinds, RR2Q!Searches
  <2>2. M # {}
    BY <1>8 DEF RR2Q!SearchFinds, RR2Q!IsFirst, RR2Q!LowFound, RR2Q!RunnableLow, RR2Q!High, RR2QIInv
  <2> QED BY <1>2, <2>1, <2>2
<1> QED BY <1>3, <1>7, <1>8

-----------------------------------------------------------------------------
\* FAIR2Q compares fractions by cross multiplication, which orders them.
LEMMA LessTransitive ==
  ASSUME NEW f \in Nat \X Nat, NEW s \in Nat \X Nat, NEW r \in Nat \X Nat,
         f[2] # 0, s[2] # 0, r[2] # 0, ~Fair!Less(f, s), Fair!Less(r, s)
  PROVE  ~Fair!Less(f, r)
<1> DEFINE a == f[1]  b == f[2]  c == s[1]  d == s[2]  e == r[1]  g == r[2]
<1>1. a \in Nat /\ b \in Nat \ {0} /\ c \in Nat /\ d \in Nat \ {0} /\ e \in Nat /\ g \in Nat \ {0}
  OBVIOUS
<1>2. c * b <= a * d /\ e * d < c * g
  BY <1>1, SMTT(20) DEF Fair!Less
<1> SUFFICES ASSUME a * g < e * b PROVE FALSE
  BY DEF Fair!Less
<1> HIDE DEF a, b, c, d, e, g
<1>3. (a * g) * d < (e * b) * d
  BY <1>1, SMTT(20)
<1>4. (c * b) * g <= (a * d) * g
  BY <1>1, <1>2, SMTT(20)
<1>5. (e * d) * b < (c * g) * b
  BY <1>1, <1>2, SMTT(20)
<1> QED BY <1>1, <1>3, <1>4, <1>5, SMTT(20)

\* How to show that small and min describe what the round has read.
LEMMA KnowsIntro ==
  ASSUME NEW S, NEW pr, NEW small, NEW min, small # Fair!Two, <<min, pr, small>> \in S,
         \A f \in S : f[2] = pr => ~Fair!Less(f[3], small)
  PROVE  Fair!Knows(S, pr, small, min)
<1>1. <<min, pr, small>> \in {e \in S : e[2] = pr}
  OBVIOUS
<1> QED BY <1>1 DEF Fair!Knows

\* Reading one more process keeps what the scheduler knows.
LEMMA KnowsMore ==
  ASSUME NEW S \in SUBSET (Fair!Slot \X {0, 1} \X Fair!Ratio), NEW pr \in {0, 1},
         NEW small \in Nat \X Nat, NEW min, Fair!Knows(S, pr, small, min),
         NEW p \in Fair!Slot, NEW r \in Fair!Ratio
  PROVE  LET T1 == S \cup {<<p, pr, r>>} IN
         IF Fair!Less(r, small) THEN Fair!Knows(T1, pr, r, p) ELSE Fair!Knows(T1, pr, small, min)
<1> DEFINE T1 == S \cup {<<p, pr, r>>}
<1> DEFINE read == {e \in S : e[2] = pr}
<1>1. <<p, pr, r>> \in T1 /\ \A f \in T1 : f \in S \/ f[3] = r
  BY SMTT(20)
<1>2. r \in Nat \X Nat /\ r[1] <= r[2] /\ r[2] # 0 /\ r # Fair!Two
  BY SMTT(20) DEF Fair!Ratio, Fair!Two
<1>3. ~Fair!Less(r, r)
  BY <1>2, SMTT(20) DEF Fair!Less
<1>4. \A e \in S : e[3] \in Nat \X Nat /\ e[3][2] # 0
  BY DEF Fair!Ratio
<1>5. CASE read = {}
  <2>1. Fair!Less(r, small)
    BY <1>2, <1>5, SMTT(20) DEF Fair!Knows, Fair!Two, Fair!Less
  <2>2. \A f \in T1 : f[2] = pr => ~Fair!Less(f[3], r)
    BY <1>1, <1>3, <1>5
  <2>3. Fair!Knows(T1, pr, r, p)
    BY <1>1, <1>2, <2>2, KnowsIntro
  <2> QED BY <2>1, <2>3
<1>6. CASE read # {}
  <2>1. small # Fair!Two /\ <<min, pr, small>> \in S /\ \A f \in read : ~Fair!Less(f[3], small)
    BY <1>6 DEF Fair!Knows
  <2>2. small[2] # 0
    BY <1>4, <2>1
  <2>3. CASE Fair!Less(r, small)
    <3>1. \A f \in read : ~Fair!Less(f[3], r)
      BY <1>2, <1>4, <2>1, <2>2, <2>3, LessTransitive
    <3>2. \A f \in T1 : f[2] = pr => ~Fair!Less(f[3], r)
      BY <1>1, <1>3, <3>1
    <3>3. Fair!Knows(T1, pr, r, p)
      BY <1>1, <1>2, <3>2, KnowsIntro
    <3> QED BY <2>3, <3>3
  <2>4. CASE ~Fair!Less(r, small)
    <3>1. \A f \in T1 : f[2] = pr => ~Fair!Less(f[3], small)
      BY <1>1, <2>1, <2>4
    <3>2. <<min, pr, small>> \in T1
      BY <2>1
    <3>3. Fair!Knows(T1, pr, small, min)
      BY <2>1, <3>1, <3>2, KnowsIntro
    <3> QED BY <2>4, <3>3
  <2> QED BY <2>3, <2>4
<1> QED BY <1>5, <1>6

\* A process of the other priority adds nothing to it.
LEMMA KnowsOther ==
  ASSUME NEW S, NEW pr, NEW small, NEW min, Fair!Knows(S, pr, small, min),
         NEW p, NEW qr, NEW r, qr # pr
  PROVE  Fair!Knows(S \cup {<<p, qr, r>>}, pr, small, min)
<1> DEFINE T1 == S \cup {<<p, qr, r>>}
<1>1. {e \in T1 : e[2] = pr} = {e \in S : e[2] = pr}
  BY SMTT(20)
<1>2. CASE {e \in S : e[2] = pr} = {}
  <2>1. small = Fair!Two
    BY <1>2 DEF Fair!Knows
  <2> QED BY <1>1, <1>2, <2>1 DEF Fair!Knows
<1>3. CASE {e \in S : e[2] = pr} # {}
  <2>1. small # Fair!Two /\ <<min, pr, small>> \in S /\ \A f \in S : f[2] = pr => ~Fair!Less(f[3], small)
    BY <1>3 DEF Fair!Knows
  <2>2. <<min, pr, small>> \in T1 /\ \A f \in T1 : f[2] = pr => ~Fair!Less(f[3], small)
    BY <2>1, SMTT(20)
  <2> QED BY <2>1, <2>2, KnowsIntro
<1> QED BY <1>2, <1>3

FairIInv == Fair!TypeOK /\ Fair!RoundInv

\* What the proofs use of the constants.
LEMMA FairConstants == NPROC \in Nat \ {0} /\ FairTicks \in Nat
BY SchedulingAssumption DEF Fair!FairAssumption, Fair!TableAssumption

\* The invariant of FAIR2Q holds initially.
LEMMA FairInitial ==
  ASSUME Fair!Init
  PROVE  FairIInv
<1> USE SchedulingAssumption DEF Fair!FairAssumption, Fair!TableAssumption, Fair!Init, Fair!TableInit,
      Fair!Slot, Fair!NULL, Fair!initproc
<1>1. Fair!TypeOK
  BY SMTT(20) DEF Fair!TypeOK, Fair!TableOK
<1>2. Fair!RoundInv
  <2>1. own3 \in [{1} -> SUBSET (Fair!Slot \X {0, 1} \X Fair!Ratio)]
    OBVIOUS
  <2>2. own4 \in [{1} -> Nat \X Nat] /\ own5 \in [{1} -> Nat \X Nat]
    BY DEF Fair!Two
  <2>3. \A c \in {1}, pr \in {0, 1}, m \in 0..NPROC : Fair!Knows(own3[c], pr, Fair!Two, m)
    BY DEF Fair!Knows
  <2> QED BY <2>1, <2>2, <2>3, SMTT(20) DEF Fair!RoundInv
<1> QED BY <1>1, <1>2 DEF FairIInv

\* The ratio of a process is between 0 and 1.
LEMMA RatioIsRatio ==
  ASSUME FairIInv, NEW p \in Fair!Slot
  PROVE  Fair!ratio(p) \in Fair!Ratio
<1>1. rtime[p] \in Nat /\ ctime[p] \in Nat /\ ticks \in Nat /\ rtime[p] + ctime[p] <= ticks
  BY SchedulingAssumption, SMTT(20) DEF Fair!FairAssumption, FairIInv, Fair!TypeOK, Fair!RoundInv
<1> QED BY <1>1, SMTT(20) DEF Fair!ratio, Fair!Ratio

\* An iteration that reads process p.
LEMMA FairInspectStep ==
  ASSUME FairIInv, NEW p \in Fair!Slot, Fair!InspectHigh(1, p) \/ Fair!InspectLow(1, p)
  PROVE  FairIInv'
<1> USE FairConstants DEF Fair!NULL,
      Fair!tablevars, Fair!timevars, Fair!Continue
<1> DEFINE pr == priority[p]  r == Fair!ratio(p)
<1>1. r \in Fair!Ratio /\ r \in Nat \X Nat
  BY RatioIsRatio DEF Fair!Ratio
<1>2. pr \in {0, 1} /\ state[p] = "RUNNABLE" /\ cproc[1] = 0
  BY DEF FairIInv, Fair!TypeOK, Fair!TableOK, Fair!InspectHigh, Fair!InspectLow, Fair!At, Fair!Scanning
<1>3. UNCHANGED <<state, priority, ptlock, cproc, ticks, ctime, rtime>>
  BY DEF Fair!InspectHigh, Fair!InspectLow
<1>4. own3' = [own3 EXCEPT ![1] = @ \cup {<<p, pr, r>>}]
  BY DEF Fair!InspectHigh, Fair!InspectLow, Fair!Reads
<1>5. own3 \in [{1} -> SUBSET (Fair!Slot \X {0, 1} \X Fair!Ratio)]
  BY DEF FairIInv, Fair!RoundInv
<1>6. own3'[1] = own3[1] \cup {<<p, pr, r>>}
  BY <1>4, <1>5
<1>7. Fair!TypeOK'
  <2>1. Fair!TableOK' /\ ticks' \in 0..FairTicks /\ ctime' \in [Fair!Slot -> 0..FairTicks]
                      /\ rtime' \in [Fair!Slot -> 0..FairTicks]
    BY <1>3 DEF FairIInv, Fair!TypeOK, Fair!TableOK
  <2>2. idx' \in [{1} -> 1..NPROC + 1] /\ loop' \in [{1} -> 0..NPROC]
    <3>1. idx' = [idx EXCEPT ![1] = @ + 1] /\ loop' = [loop EXCEPT ![1] = @ + 1]
      BY DEF Fair!InspectHigh, Fair!InspectLow
    <3>2. idx[1] \in 1..NPROC /\ loop[1] < NPROC
      BY DEF Fair!InspectHigh, Fair!InspectLow, Fair!At, Fair!Slot
    <3> QED BY <3>1, <3>2, SMTT(20) DEF FairIInv, Fair!TypeOK
  <2>3. /\ own1' = own1 \/ own1' = [own1 EXCEPT ![1] = p]
        /\ own2' = own2 \/ own2' = [own2 EXCEPT ![1] = p]
    BY DEF Fair!InspectHigh, Fair!InspectLow
  <2>4. own1' \in [{1} -> 0..NPROC] /\ own2' \in [{1} -> 0..NPROC]
    BY <2>3, SMTT(20) DEF FairIInv, Fair!TypeOK, Fair!Slot
  <2> QED BY <2>1, <2>2, <2>4 DEF Fair!TypeOK
<1>8. own3' \in [{1} -> SUBSET (Fair!Slot \X {0, 1} \X Fair!Ratio)]
  BY <1>1, <1>2, <1>4, <1>5, SMTT(20)
<1>9. own4' \in [{1} -> Nat \X Nat] /\ own5' \in [{1} -> Nat \X Nat]
  <2>1. own4 \in [{1} -> Nat \X Nat] /\ own5 \in [{1} -> Nat \X Nat]
    BY DEF FairIInv, Fair!RoundInv
  <2>2. /\ own4' = own4 \/ own4' = [own4 EXCEPT ![1] = r]
        /\ own5' = own5 \/ own5' = [own5 EXCEPT ![1] = r]
    BY DEF Fair!InspectHigh, Fair!InspectLow
  <2> HIDE DEF r
  <2>3. own4' \in [{1} -> Nat \X Nat]
    BY <1>1, <2>1, <2>2
  <2>4. own5' \in [{1} -> Nat \X Nat]
    BY <1>1, <2>1, <2>2
  <2> QED BY <2>3, <2>4
<1>10. \A e \in own3'[1] : state'[e[1]] = "RUNNABLE" /\ priority'[e[1]] = e[2]
  BY <1>2, <1>3, <1>6, SMTT(20) DEF FairIInv, Fair!RoundInv
<1>11. Fair!Knows(own3'[1], 0, own4'[1], own1'[1]) /\ Fair!Knows(own3'[1], 1, own5'[1], own2'[1])
  <2>1. /\ own4 \in [{1} -> Nat \X Nat] /\ own5 \in [{1} -> Nat \X Nat]
        /\ own1 \in [{1} -> 0..NPROC] /\ own2 \in [{1} -> 0..NPROC]
        /\ Fair!Knows(own3[1], 0, own4[1], own1[1]) /\ Fair!Knows(own3[1], 1, own5[1], own2[1])
    BY DEF FairIInv, Fair!RoundInv, Fair!TypeOK
  <2>2. CASE Fair!InspectHigh(1, p)
    <3>1. pr = 0 /\ UNCHANGED <<own2, own5>>
      BY <2>2 DEF Fair!InspectHigh
    <3>2. IF Fair!Less(r, own4[1]) THEN own4'[1] = r /\ own1'[1] = p ELSE own4' = own4 /\ own1' = own1
      BY <2>1, <2>2 DEF Fair!InspectHigh
    <3> HIDE DEF r
    <3>0. 0 # 1
      BY SMTT(20)
    <3>3. Fair!Knows(own3[1] \cup {<<p, 0, r>>}, 1, own5[1], own2[1])
      BY <2>1, <3>0, KnowsOther
    <3>4. LET T1 == own3[1] \cup {<<p, 0, r>>} IN
          IF Fair!Less(r, own4[1]) THEN Fair!Knows(T1, 0, r, p) ELSE Fair!Knows(T1, 0, own4[1], own1[1])
      BY <1>1, <1>5, <2>1, KnowsMore
    <3> QED BY <1>6, <3>1, <3>2, <3>3, <3>4
  <2>3. CASE Fair!InspectLow(1, p)
    <3>1. pr = 1 /\ UNCHANGED <<own1, own4>>
      BY <1>2, <2>3 DEF Fair!InspectLow
    <3>2. IF Fair!Less(r, own5[1]) THEN own5'[1] = r /\ own2'[1] = p ELSE own5' = own5 /\ own2' = own2
      BY <2>1, <2>3 DEF Fair!InspectLow
    <3> HIDE DEF r
    <3>0. 0 # 1
      BY SMTT(20)
    <3>3. Fair!Knows(own3[1] \cup {<<p, 1, r>>}, 0, own4[1], own1[1])
      BY <2>1, <3>0, KnowsOther
    <3>4. LET T1 == own3[1] \cup {<<p, 1, r>>} IN
          IF Fair!Less(r, own5[1]) THEN Fair!Knows(T1, 1, r, p) ELSE Fair!Knows(T1, 1, own5[1], own2[1])
      BY <1>1, <1>5, <2>1, KnowsMore
    <3> QED BY <1>6, <3>1, <3>2, <3>3, <3>4
  <2> QED BY <2>2, <2>3
<1>12. \A q \in Fair!Slot : rtime'[q] + ctime'[q] <= ticks'
  BY <1>3 DEF FairIInv, Fair!RoundInv
<1> HIDE DEF pr, r
<1> QED BY <1>2, <1>3, <1>7, <1>8, <1>9, <1>10, <1>11, <1>12 DEF FairIInv, Fair!RoundInv

\* The choice at the end of a round.
LEMMA FairChooses ==
  ASSUME FairIInv, NEW p \in Fair!Slot, Fair!Choose(1, p)
  PROVE  \E e \in own3[1] :
           /\ cproc' = [cproc EXCEPT ![1] = e[1]] /\ idx' = [idx EXCEPT ![1] = e[1] + 1]
           /\ state' = [state EXCEPT ![e[1]] = "RUNNING"]
           /\ \A f \in own3[1] : e[2] <= f[2] /\ (e[2] = f[2] => ~Fair!Less(f[3], e[3]))
<1>1. own3[1] \in SUBSET (Fair!Slot \X {0, 1} \X Fair!Ratio)
  BY DEF FairIInv, Fair!RoundInv
<1>2. Fair!Knows(own3[1], 0, own4[1], own1[1]) /\ Fair!Knows(own3[1], 1, own5[1], own2[1])
  BY DEF FairIInv, Fair!RoundInv
<1>3. CASE own4[1] # Fair!Two
  <2>1. <<own1[1], 0, own4[1]>> \in own3[1] /\ \A f \in own3[1] : f[2] = 0 => ~Fair!Less(f[3], own4[1])
    BY <1>2, <1>3 DEF Fair!Knows
  <2>2. \A f \in own3[1] : 0 <= f[2]
    BY <1>1, SMTT(20)
  <2>3. cproc' = [cproc EXCEPT ![1] = own1[1]] /\ idx' = [idx EXCEPT ![1] = own1[1] + 1]
        /\ state' = [state EXCEPT ![own1[1]] = "RUNNING"]
    BY <1>3 DEF Fair!Choose, Fair!Dispatch
  <2> DEFINE e == <<own1[1], 0, own4[1]>>
  <2>4. e \in own3[1] /\ e[1] = own1[1] /\ e[2] = 0 /\ e[3] = own4[1]
    BY <2>1
  <2> HIDE DEF e
  <2> QED BY <2>1, <2>2, <2>3, <2>4
<1>4. CASE own4[1] = Fair!Two
  <2>1. \A f \in own3[1] : f[2] = 1
    BY <1>1, <1>2, <1>4 DEF Fair!Knows
  <2>2. own5[1] # Fair!Two
    BY <1>4 DEF Fair!Choose
  <2>3. <<own2[1], 1, own5[1]>> \in own3[1] /\ \A f \in own3[1] : f[2] = 1 => ~Fair!Less(f[3], own5[1])
    BY <1>2, <2>2 DEF Fair!Knows
  <2>4. cproc' = [cproc EXCEPT ![1] = own2[1]] /\ idx' = [idx EXCEPT ![1] = own2[1] + 1]
        /\ state' = [state EXCEPT ![own2[1]] = "RUNNING"]
    BY <1>4, <2>2 DEF Fair!Choose, Fair!Dispatch
  <2> DEFINE e == <<own2[1], 1, own5[1]>>
  <2>5. e \in own3[1] /\ e[1] = own2[1] /\ e[2] = 1 /\ e[3] = own5[1]
    BY <2>3
  <2> HIDE DEF e
  <2>6. \A f \in own3[1] : e[2] <= f[2] /\ ~Fair!Less(f[3], e[3])
    BY <2>1, <2>3, <2>5, SMTT(20)
  <2> QED BY <2>4, <2>5, <2>6
<1> QED BY <1>3, <1>4

\* With nothing read the scheduler knows nothing.
LEMMA KnowsNothing ==
  ASSUME NEW pr, NEW m
  PROVE  Fair!Knows({}, pr, Fair!Two, m)
BY DEF Fair!Knows

\* idx, loop and ptable.lock say nothing of what the round read.
LEMMA FairRoundKept ==
  ASSUME Fair!RoundInv, (state' = state /\ priority' = priority /\ cproc' = cproc /\ ticks' = ticks /\ ctime' = ctime /\ rtime' = rtime),
         (own1' = own1 /\ own2' = own2 /\ own3' = own3 /\ own4' = own4 /\ own5' = own5)
  PROVE  Fair!RoundInv'
BY DEF Fair!RoundInv, Fair!NULL

\* The steps of the scheduler that read no process.
LEMMA FairSchedulerStep ==
  ASSUME FairIInv, Fair!Scheduler(1)
  PROVE  FairIInv'
<1> USE FairConstants DEF Fair!NULL,
      Fair!tablevars, Fair!timevars, Fair!minvars, Fair!Slot
<1>1. CASE Fair!SchedulerAcquire(1) /\ UNCHANGED <<Fair!timevars, Fair!policyvars>>
  BY <1>1 DEF FairIInv, Fair!TypeOK, Fair!TableOK, Fair!RoundInv, Fair!SchedulerAcquire, Fair!policyvars
<1>2. ASSUME NEW p \in Fair!Slot, Fair!InspectHigh(1, p) \/ Fair!InspectLow(1, p) PROVE FairIInv'
  BY <1>2, FairInspectStep
<1>3. ASSUME NEW p \in Fair!Slot, Fair!Skip(1, p) PROVE FairIInv'
  <2>1. (state' = state /\ priority' = priority /\ ptlock' = ptlock /\ cproc' = cproc /\ ticks' = ticks /\ ctime' = ctime /\ rtime' = rtime) /\ (own1' = own1 /\ own2' = own2 /\ own3' = own3 /\ own4' = own4 /\ own5' = own5)
    BY <1>3 DEF Fair!Skip, Fair!Continue
  <2>2. idx[1] \in 1..NPROC /\ loop[1] < NPROC
        /\ idx' = [idx EXCEPT ![1] = @ + 1] /\ loop' = [loop EXCEPT ![1] = @ + 1]
    BY <1>3 DEF Fair!Skip, Fair!Continue, Fair!At
  <2>3. idx' \in [{1} -> 1..NPROC + 1] /\ loop' \in [{1} -> 0..NPROC]
    <3>1. idx \in [{1} -> 1..NPROC + 1] /\ loop \in [{1} -> 0..NPROC]
      BY DEF FairIInv, Fair!TypeOK
    <3>2. NPROC \in Nat \ {0}
      BY FairConstants
    <3> QED BY <2>2, <3>1, <3>2, SMTT(20)
  <2>4. Fair!TypeOK'
    BY <2>1, <2>3 DEF FairIInv, Fair!TypeOK, Fair!TableOK
  <2> QED BY <2>1, <2>4, FairRoundKept DEF FairIInv
<1>4. ASSUME NEW p \in Fair!Slot, Fair!Choose(1, p) PROVE FairIInv'
  <2>1. PICK e \in own3[1] : /\ cproc' = [cproc EXCEPT ![1] = e[1]]
                             /\ idx' = [idx EXCEPT ![1] = e[1] + 1]
                             /\ state' = [state EXCEPT ![e[1]] = "RUNNING"]
    BY <1>4, FairChooses
  <2>2. e[1] \in 1..NPROC
    BY <2>1 DEF FairIInv, Fair!RoundInv
  <2>3. ptlock' = 0 /\ (priority' = priority /\ ticks' = ticks /\ ctime' = ctime /\ rtime' = rtime /\ own1' = own1 /\ own2' = own2)
    BY <1>4 DEF Fair!Choose, Fair!Dispatch
  <2>4. loop' = [loop EXCEPT ![1] = 0] /\ own3' = [own3 EXCEPT ![1] = {}]
        /\ own4' = [own4 EXCEPT ![1] = Fair!Two] /\ own5' = [own5 EXCEPT ![1] = Fair!Two]
    BY <1>4 DEF Fair!Choose
  <2>5. Fair!TypeOK'
    <3>1. Fair!TableOK'
      BY <2>1, <2>2, <2>3 DEF FairIInv, Fair!TypeOK, Fair!TableOK
    <3>2. idx' \in [{1} -> 1..NPROC + 1] /\ loop' \in [{1} -> 0..NPROC]
      <4>1. idx \in [{1} -> 1..NPROC + 1] /\ loop \in [{1} -> 0..NPROC]
        BY DEF FairIInv, Fair!TypeOK
      <4>2. e[1] + 1 \in 1..NPROC + 1
        BY <2>2, SMTT(20)
      <4> QED BY <2>1, <2>4, <4>1, <4>2, SMTT(20)
    <3> QED BY <2>3, <3>1, <3>2 DEF FairIInv, Fair!TypeOK
  <2>6. /\ own3' \in [{1} -> SUBSET (Fair!Slot \X {0, 1} \X Fair!Ratio)] /\ own3'[1] = {}
        /\ own4' \in [{1} -> Nat \X Nat] /\ own4'[1] = Fair!Two
        /\ own5' \in [{1} -> Nat \X Nat] /\ own5'[1] = Fair!Two
    BY <2>4 DEF FairIInv, Fair!RoundInv, Fair!Two
  <2>7. Fair!RoundInv'
    <3>1. \A q \in Fair!Slot : rtime'[q] + ctime'[q] <= ticks'
      BY <2>3 DEF FairIInv, Fair!RoundInv
    <3>2. Fair!Knows(own3'[1], 0, own4'[1], own1'[1]) /\ Fair!Knows(own3'[1], 1, own5'[1], own2'[1])
      BY <2>6, KnowsNothing, SMTT(20)
    <3> QED BY <2>6, <3>1, <3>2 DEF Fair!RoundInv
  <2> QED BY <2>5, <2>7 DEF FairIInv
<1>5. ASSUME NEW p \in Fair!Slot, Fair!NothingFound(1, p) PROVE FairIInv'
  <2>1. (state' = state /\ priority' = priority /\ ptlock' = ptlock /\ cproc' = cproc /\ ticks' = ticks /\ ctime' = ctime /\ rtime' = rtime /\ own1' = own1 /\ own2' = own2 /\ own4' = own4 /\ own5' = own5)
    BY <1>5 DEF Fair!NothingFound
  <2>2. idx[1] \in 1..NPROC /\ loop' = [loop EXCEPT ![1] = 0] /\ idx' = [idx EXCEPT ![1] = @ + 1]
        /\ own3' = [own3 EXCEPT ![1] = {}] /\ own4[1] = Fair!Two /\ own5[1] = Fair!Two
    BY <1>5 DEF Fair!NothingFound, Fair!At
  <2>3. Fair!TypeOK'
    <3>1. idx' \in [{1} -> 1..NPROC + 1] /\ loop' \in [{1} -> 0..NPROC]
      BY <2>2, SMTT(20) DEF FairIInv, Fair!TypeOK
    <3> QED BY <2>1, <3>1 DEF FairIInv, Fair!TypeOK, Fair!TableOK
  <2>4. own3' \in [{1} -> SUBSET (Fair!Slot \X {0, 1} \X Fair!Ratio)] /\ own3'[1] = {}
    BY <2>2 DEF FairIInv, Fair!RoundInv
  <2>5. Fair!RoundInv'
    <3>1. /\ \A q \in Fair!Slot : rtime'[q] + ctime'[q] <= ticks'
          /\ own4' \in [{1} -> Nat \X Nat] /\ own5' \in [{1} -> Nat \X Nat]
      BY <2>1 DEF FairIInv, Fair!RoundInv
    <3>2. Fair!Knows(own3'[1], 0, own4'[1], own1'[1]) /\ Fair!Knows(own3'[1], 1, own5'[1], own2'[1])
      BY <2>1, <2>2, <2>4, KnowsNothing, SMTT(20)
    <3> QED BY <2>4, <3>1, <3>2 DEF Fair!RoundInv
  <2> QED BY <2>3, <2>5 DEF FairIInv
<1>6. CASE Fair!EndOfTable(1)
  <2>1. /\ (state' = state /\ priority' = priority /\ cproc' = cproc /\ ticks' = ticks /\ ctime' = ctime /\ rtime' = rtime /\ loop' = loop)
        /\ (own1' = own1 /\ own2' = own2 /\ own3' = own3 /\ own4' = own4 /\ own5' = own5)
        /\ ptlock' = 0 /\ idx' = [idx EXCEPT ![1] = 1]
    BY <1>6 DEF Fair!EndOfTable
  <2>2. idx' \in [{1} -> 1..NPROC + 1]
    BY <2>1, SMTT(20) DEF FairIInv, Fair!TypeOK
  <2>3. Fair!TypeOK'
    BY <2>1, <2>2 DEF FairIInv, Fair!TypeOK, Fair!TableOK
  <2> QED BY <2>1, <2>3, FairRoundKept DEF FairIInv
<1> QED BY <1>1, <1>2, <1>3, <1>4, <1>5, <1>6 DEF Fair!Scheduler

\* While a process runs nothing was read.
LEMMA FairRoundEmpty ==
  ASSUME Fair!RoundInv, own3[1] = {}, (own1' = own1 /\ own2' = own2 /\ own3' = own3 /\ own4' = own4 /\ own5' = own5),
         \A q \in Fair!Slot : rtime'[q] + ctime'[q] <= ticks'
  PROVE  Fair!RoundInv'
<1>1. own3'[1] = {} /\ own3' = own3 /\ own4' = own4 /\ own5' = own5 /\ own1' = own1 /\ own2' = own2
  OBVIOUS
<1> QED BY <1>1 DEF Fair!RoundInv

\* What running processes do.
LEMMA FairProcessStep ==
  ASSUME FairIInv, Fair!Process(1)
  PROVE  FairIInv'
<1> USE FairConstants DEF Fair!NULL, Fair!Slot
<1>1. /\ Fair!TableOK /\ ticks \in 0..FairTicks
      /\ ctime \in [1..NPROC -> 0..FairTicks] /\ rtime \in [1..NPROC -> 0..FairTicks]
      /\ \A q \in 1..NPROC : rtime[q] + ctime[q] <= ticks
  BY DEF FairIInv, Fair!TypeOK, Fair!RoundInv
<1>2. ticks' = ticks /\ (idx' = idx /\ loop' = loop /\ own1' = own1 /\ own2' = own2 /\ own3' = own3 /\ own4' = own4 /\ own5' = own5)
  BY DEF Fair!Process, Fair!timevars, Fair!policyvars, Fair!minvars
<1>3. cproc[1] # 0
  BY DEF Fair!Process, Fair!yield, Fair!sleep, Fair!exit, Fair!Leave, Fair!nice, Fair!wait, Fair!fork, Fair!Running
<1>4. own3[1] = {}
  BY <1>3 DEF FairIInv, Fair!RoundInv
<1>5. Fair!TableOK'
  <2>1. CASE Fair!yield(1) \/ Fair!sleep(1) \/ Fair!exit(1)
    BY <1>1, <2>1 DEF Fair!yield, Fair!sleep, Fair!exit, Fair!Leave, Fair!Running, Fair!TableOK
  <2>2. CASE Fair!nice(1)
    <3>1. (state' = state /\ ptlock' = ptlock /\ cproc' = cproc)
          /\ priority' = [priority EXCEPT ![cproc[1]] = 1 - @]
      BY <2>2 DEF Fair!nice
    <3>2. priority \in [1..NPROC -> {0, 1}] /\ cproc[1] \in 1..NPROC
      BY <1>1, <1>3 DEF Fair!TableOK
    <3>3. 1 - priority[cproc[1]] \in {0, 1}
      BY <3>2, SMTT(20)
    <3>4. priority' \in [1..NPROC -> {0, 1}]
      BY <3>1, <3>2, <3>3
    <3> QED BY <1>1, <3>1, <3>4 DEF Fair!TableOK
  <2>3. ASSUME NEW q \in 1..NPROC, Fair!fork(1, q) \/ Fair!wait(1, q)
        PROVE  Fair!TableOK'
    BY <1>1, <2>3 DEF Fair!fork, Fair!wait, Fair!Running, Fair!TableOK
  <2> QED BY <2>1, <2>2, <2>3 DEF Fair!Process
<1>6. \/ (ctime' = ctime /\ rtime' = rtime)
      \/ \E q \in 1..NPROC, s \in {0, ticks} : /\ ctime' = [ctime EXCEPT ![q] = s]
                                               /\ rtime' = [rtime EXCEPT ![q] = 0]
  BY DEF Fair!Process, Fair!timevars
<1>7. /\ ctime' \in [1..NPROC -> 0..FairTicks] /\ rtime' \in [1..NPROC -> 0..FairTicks]
      /\ \A q \in 1..NPROC : rtime'[q] + ctime'[q] <= ticks'
  <2>1. CASE ctime' = ctime /\ rtime' = rtime
    BY <1>1, <1>2, <2>1
  <2>2. ASSUME NEW q \in 1..NPROC, NEW s \in {0, ticks},
               ctime' = [ctime EXCEPT ![q] = s], rtime' = [rtime EXCEPT ![q] = 0]
        PROVE  /\ ctime' \in [1..NPROC -> 0..FairTicks] /\ rtime' \in [1..NPROC -> 0..FairTicks]
               /\ \A r \in 1..NPROC : rtime'[r] + ctime'[r] <= ticks'
    <3>1. s \in 0..FairTicks /\ 0 \in 0..FairTicks /\ s <= ticks /\ s \in Nat
      BY <1>1, SMTT(20)
    <3>2. ctime' \in [1..NPROC -> 0..FairTicks]
      BY <1>1, <2>2, <3>1
    <3>4. rtime' \in [1..NPROC -> 0..FairTicks]
      BY <1>1, <2>2, <3>1
    <3>3. \A r \in 1..NPROC : IF r = q THEN ctime'[r] = s /\ rtime'[r] = 0
                              ELSE ctime'[r] = ctime[r] /\ rtime'[r] = rtime[r]
      BY <1>1, <2>2
    <3>5. ASSUME NEW r \in 1..NPROC PROVE rtime'[r] + ctime'[r] <= ticks'
      <4>1. CASE r = q
        BY <1>2, <3>1, <3>3, <4>1, SMTT(20)
      <4>2. CASE r # q
        <5>1. rtime'[r] + ctime'[r] = rtime[r] + ctime[r]
          BY <3>3, <4>2
        <5> QED BY <1>1, <1>2, <5>1
      <4> QED BY <4>1, <4>2
    <3> QED BY <3>2, <3>4, <3>5
  <2> QED BY <1>6, <2>1, <2>2
<1>8. Fair!TypeOK'
  BY <1>1, <1>2, <1>5, <1>7 DEF FairIInv, Fair!TypeOK
<1>9. Fair!RoundInv'
  BY <1>2, <1>4, <1>7, FairRoundEmpty DEF FairIInv
<1> QED BY <1>8, <1>9 DEF FairIInv

\* The timer interrupt.
LEMMA FairTimerStep ==
  ASSUME FairIInv, Fair!timer(1)
  PROVE  FairIInv'
<1> USE FairConstants DEF Fair!NULL, Fair!Slot
<1>1. /\ ticks \in 0..FairTicks /\ cproc[1] \in 0..NPROC
      /\ ctime \in [1..NPROC -> 0..FairTicks] /\ rtime \in [1..NPROC -> 0..FairTicks]
      /\ \A q \in 1..NPROC : rtime[q] + ctime[q] <= ticks
  <2>1. \A q \in 1..NPROC : rtime[q] + ctime[q] <= ticks
    BY DEF FairIInv, Fair!RoundInv
  <2>2. cproc[1] \in 0..NPROC
    BY SMTT(20) DEF FairIInv, Fair!TypeOK, Fair!TableOK
  <2> QED BY <2>1, <2>2 DEF FairIInv, Fair!TypeOK
<1>2. (state' = state /\ priority' = priority /\ ptlock' = ptlock /\ cproc' = cproc /\ ctime' = ctime /\ idx' = idx /\ loop' = loop /\ own1' = own1 /\ own2' = own2 /\ own3' = own3 /\ own4' = own4 /\ own5' = own5)
  BY DEF Fair!timer, Fair!tablevars, Fair!policyvars, Fair!minvars
<1>3. Fair!IsFirst(1, {1})
  BY SMT DEF Fair!IsFirst
<1>4. ticks' = ticks + 1 /\ ticks < FairTicks
      /\ rtime' = IF cproc[1] = 0 THEN rtime ELSE [rtime EXCEPT ![cproc[1]] = @ + 1]
  BY <1>3 DEF Fair!timer
<1>5. \A q \in 1..NPROC : /\ rtime[q] \in Nat /\ ctime[q] \in Nat
                          /\ rtime'[q] = rtime[q] \/ rtime'[q] = rtime[q] + 1
  <2>1. CASE cproc[1] = 0
    BY <1>1, <1>4, <2>1, SMTT(20)
  <2>2. CASE cproc[1] # 0
    BY <1>1, <1>4, <2>2, SMTT(20)
  <2> QED BY <2>1, <2>2
<1>6. ticks' \in 0..FairTicks /\ \A q \in 1..NPROC : rtime'[q] + ctime'[q] <= ticks' /\ rtime'[q] \in 0..FairTicks
  <2>1. ticks' = ticks + 1 /\ ctime' = ctime /\ ticks \in Nat /\ ticks < FairTicks
    BY <1>1, <1>2, <1>4, SMTT(20)
  <2>2. \A q \in 1..NPROC : rtime[q] + ctime[q] <= ticks
    BY <1>1
  <2> QED BY <1>5, <2>1, <2>2, SMTT(20)
<1>7. rtime' \in [1..NPROC -> 0..FairTicks]
  <2>1. rtime' = [q \in 1..NPROC |-> rtime'[q]]
    BY <1>1, <1>4
  <2> QED BY <1>6, <2>1
<1>8. Fair!TypeOK'
  BY <1>2, <1>6, <1>7 DEF FairIInv, Fair!TypeOK, Fair!TableOK
<1>9. Fair!RoundInv'
  BY <1>2, <1>6 DEF FairIInv, Fair!RoundInv
<1> QED BY <1>8, <1>9 DEF FairIInv

\* Every step of FAIR2Q keeps it.
LEMMA FairStep ==
  ASSUME FairIInv, Fair!Next
  PROVE  FairIInv'
<1>1. ASSUME NEW q \in Fair!Slot, Fair!wakeup(q),
             (ticks' = ticks /\ ctime' = ctime /\ rtime' = rtime /\ idx' = idx /\ loop' = loop /\ own1' = own1 /\ own2' = own2 /\ own3' = own3 /\ own4' = own4 /\ own5' = own5)
      PROVE  FairIInv'
  <2>1. (priority' = priority /\ ptlock' = ptlock /\ cproc' = cproc) /\ state[q] = "SLEEPING"
        /\ state' = [state EXCEPT ![q] = "RUNNABLE"]
    BY <1>1 DEF Fair!wakeup
  <2>2. Fair!TypeOK'
    BY <1>1, <2>1 DEF FairIInv, Fair!TypeOK, Fair!TableOK
  <2>3. \A e \in own3[1] : state'[e[1]] = "RUNNABLE"
    BY <2>1 DEF FairIInv, Fair!RoundInv, Fair!TypeOK, Fair!TableOK
  <2>4. Fair!RoundInv'
    BY <1>1, <2>1, <2>3 DEF FairIInv, Fair!RoundInv, Fair!NULL
  <2> QED BY <2>2, <2>4 DEF FairIInv
<1> QED BY <1>1, FairSchedulerStep, FairProcessStep, FairTimerStep
        DEF Fair!Next, Fair!timevars, Fair!policyvars, Fair!minvars

\* Only Choose switches, to the process that FairChooses names.
LEMMA FairChoosesRight ==
  ASSUME FairIInv, Fair!Next
  PROVE  Fair!ToRunnable /\ Fair!Fairest
<1> SUFFICES ASSUME cproc[1] = 0, cproc'[1] # 0
             PROVE  /\ state[cproc'[1]] = "RUNNABLE"
                    /\ \E e \in own3[1] :
                         /\ e[1] = cproc'[1]
                         /\ \A f \in own3[1] : e[2] <= f[2] /\ (e[2] = f[2] => ~Fair!Less(f[3], e[3]))
  BY DEF Fair!ToRunnable, Fair!Fairest, Fair!Switches, Fair!NULL
<1>1. cproc \in [{1} -> 0..NPROC]
  BY FairConstants, SMTT(20) DEF FairIInv, Fair!TypeOK, Fair!TableOK, Fair!Slot, Fair!NULL
<1>2. PICK p \in Fair!Slot : Fair!Choose(1, p)
  <2>1. ~Fair!Process(1)
    BY DEF Fair!Process, Fair!yield, Fair!sleep, Fair!exit, Fair!Leave, Fair!nice, Fair!fork, Fair!wait, Fair!Running, Fair!NULL
  <2>2. cproc' # cproc
    OBVIOUS
  <2>3. Fair!Scheduler(1)
    BY <2>1, <2>2 DEF Fair!Next, Fair!timer, Fair!wakeup, Fair!tablevars
  <2> QED BY <2>2, <2>3 DEF Fair!Scheduler, Fair!SchedulerAcquire, Fair!InspectHigh, Fair!InspectLow, Fair!Skip,
             Fair!Continue, Fair!NothingFound, Fair!EndOfTable, Fair!tablevars
<1>3. PICK e \in own3[1] :
        /\ cproc' = [cproc EXCEPT ![1] = e[1]]
        /\ \A f \in own3[1] : e[2] <= f[2] /\ (e[2] = f[2] => ~Fair!Less(f[3], e[3]))
  BY <1>2, FairChooses
<1>4. cproc'[1] = e[1]
  BY <1>1, <1>3
<1>5. state[e[1]] = "RUNNABLE"
  BY <1>3 DEF FairIInv, Fair!RoundInv
<1> QED BY <1>3, <1>4, <1>5

-----------------------------------------------------------------------------
\* The inductive invariant of all parts.
IInv ==
  /\ part \in {"nice", "plain", "fair", "timer"}
  /\ part = "nice" => RR2QIInv(NiceCPU, NiceSlots)
  /\ part = "plain" => RR2QIInv(PlainCPU, {})
  /\ part = "fair" => FairIInv
  /\ part = "timer" => TimerIInv

\* The invariant of all parts holds initially.
LEMMA Initial == Init => IInv
BY SchedulingAssumption, RR2QInitial, FairInitial, TimerInitial DEF Init, NiceInit, IInv

\* Nothing is lost in a step that changes nothing.
LEMMA Stutter ==
  ASSUME IInv, vars' = vars
  PROVE  IInv'
<1>1. /\ part' = part /\ state' = state /\ priority' = priority /\ ptlock' = ptlock /\ cproc' = cproc
      /\ idx' = idx /\ loop' = loop /\ ticks' = ticks /\ ctime' = ctime /\ rtime' = rtime
      /\ own1' = own1 /\ own2' = own2 /\ own3' = own3 /\ own4' = own4 /\ own5' = own5
  BY DEF vars, table
<1>2. ASSUME NEW C, NEW M, RR2QIInv(C, M) PROVE RR2QIInv(C, M)'
  BY <1>1, <1>2 DEF RR2QIInv, RR2Q!TypeOK, RR2Q!TableOK, RR2Q!RoundInv, RR2Q!Slot, RR2Q!NULL
<1>3. ASSUME FairIInv PROVE FairIInv'
  BY <1>1, <1>3 DEF FairIInv, Fair!TypeOK, Fair!TableOK, Fair!RoundInv, Fair!Slot, Fair!NULL
<1>4. ASSUME TimerIInv PROVE TimerIInv'
  BY <1>1, <1>4 DEF TimerIInv, T!TypeOK, T!TickInv, T!Pending, T!WaitTimeCounts
<1> QED BY <1>1, <1>2, <1>3, <1>4 DEF IInv

\* Every step keeps the invariant of its part.
LEMMA Step == IInv /\ [Next]_vars => IInv'
<1> SUFFICES ASSUME IInv, Next PROVE IInv'
  BY Stutter
<1>1. part' = part
  BY DEF Next
<1>2. CASE part = "nice"
  BY <1>1, <1>2, SchedulingAssumption, RR2QStep DEF IInv, Next
<1>3. CASE part = "plain"
  BY <1>1, <1>3, SchedulingAssumption, RR2QStep DEF IInv, Next
<1>4. CASE part = "fair"
  BY <1>1, <1>4, FairStep DEF IInv, Next
<1>5. CASE part = "timer"
  BY <1>1, <1>5, TimerStep DEF IInv, Next
<1> QED BY <1>2, <1>3, <1>4, <1>5 DEF IInv

\* So it holds in every behaviour.
LEMMA Inductive == Spec => []IInv
BY Initial, Step, PTL DEF Spec

\* The table, the loops and the counters of every policy and of the timer keep
\* their types: priorities stay 0 or 1, and loops stay in the table.
THEOREM TypesKept == Spec => []TypeOK
<1>1. IInv => TypeOK
  BY DEF IInv, TypeOK, RR2QIInv, FairIInv, TimerIInv
<1> QED BY <1>1, Inductive, PTL

\* trap (trap.c) in the RR build: a process is switched away from after its
\* quantum, and the waiting time of wait2 is not negative.
THEOREM QuantumAndTimes == Spec => []TimerExact
<1>1. IInv => TimerExact
  BY SchedulingAssumption, SMTT(20) DEF IInv, TimerIInv, TimerExact, T!TickInv, T!QuantumKept, T!TypeOK, T!TimerAssumption
<1> QED BY <1>1, Inductive, PTL

\* scheduler (proc.c) chooses as its policy says: RR2Q a RUNNABLE process while
\* nobody calls nice, and one of low priority only after a whole round; FAIR2Q
\* the RUNNABLE process with the smallest ratio of the best priority.
THEOREM PoliciesChooseRight == Spec => ChoosesRight
<1> DEFINE A == /\ part = "plain" => RR2Q(PlainCPU, {})!ToRunnable
                /\ part = "nice" => RR2Q(NiceCPU, NiceSlots)!LowRound
                /\ part = "fair" => Fair!ToRunnable /\ Fair!Fairest
<1>1. ASSUME IInv, [Next]_vars PROVE [A]_vars
  <2> SUFFICES ASSUME Next PROVE A
    BY <1>1
  <2>1. CASE part = "nice"
    BY <1>1, <2>1, SchedulingAssumption, RR2QChooses DEF IInv, Next
  <2>2. CASE part = "plain"
    BY <1>1, <2>2, SchedulingAssumption, RR2QChooses DEF IInv, Next
  <2>3. CASE part = "fair"
    BY <1>1, <2>3, FairChoosesRight DEF IInv, Next
  <2> QED BY <2>1, <2>2, <2>3
<1> QED BY <1>1, Inductive, PTL DEF Spec, ChoosesRight
=============================================================================
