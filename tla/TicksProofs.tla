----------------------------- MODULE TicksProofs ----------------------------
(***************************************************************************)
(* Proofs for Ticks, for any processes, any modulus of the counter and any *)
(* delays below it, on one CPU or several, under every scheduling policy:  *)
(* sys_sleep never returns early and no tick passes a sleeper by.          *)
(***************************************************************************)
EXTENDS Ticks, TLAPS

\* Who holds tickslock, and who sleeps.
LockInv ==
  /\ pc[Timer] \in {"idle", "wakeup"} /\ (pc[Timer] = "wakeup" => tlock = Timer)
  /\ \A p \in Proc : pc[p] \in {"test", "sleeplock1"} => tlock = p
  /\ \A p \in asleep : pc[p] = "waiting"

\* What the clock shows is how often it has advanced, for every process in
\* sys_sleep.
ClockInv ==
  \A p \in Proc :
    pc[p] \in {"test", "sleeplock1", "waiting"} => (ticks - ticks0[p]) % Modulus = elapsed[p]

\* A process about to sleep, and a sleeper, is too early, or the handler that
\* holds tickslock will wake it.
WakeInv ==
  \A p \in Proc :
    /\ pc[p] = "sleeplock1" => TooEarly(p)
    /\ p \in asleep => TooEarly(p) \/ pc[Timer] = "wakeup"

IInv == TypeOK /\ LockInv /\ ClockInv /\ WakeInv

-----------------------------------------------------------------------------
\* The counter wraps: the next value, and how far it is from an earlier one.
LEMMA ClockArithmetic ==
  ASSUME NEW t \in 0..Modulus - 1, NEW t0 \in 0..Modulus - 1
  PROVE  /\ (t + 1) % Modulus \in 0..Modulus - 1
         /\ (t - t) % Modulus = 0
         /\ (t - t0) % Modulus < Modulus - 1 =>
              (((t + 1) % Modulus) - t0) % Modulus = ((t - t0) % Modulus) + 1
<1> USE TicksAssumption
<1>1. (t + 1) % Modulus = IF t + 1 = Modulus THEN 0 ELSE t + 1
  OBVIOUS
<1>2. \A a, b \in 0..Modulus - 1 : (a - b) % Modulus = IF b <= a THEN a - b ELSE a - b + Modulus
  OBVIOUS
<1>3. PICK v \in 0..Modulus - 1 : v = (t + 1) % Modulus
  BY <1>1
<1>4. (v - t0) % Modulus = IF t0 <= v THEN v - t0 ELSE v - t0 + Modulus
  BY <1>2
<1>5. (t - t0) % Modulus = IF t0 <= t THEN t - t0 ELSE t - t0 + Modulus
  BY <1>2, ZenonT(30)
<1>6. v = IF t + 1 = Modulus THEN 0 ELSE t + 1
  BY <1>1, <1>3
<1>7. (t - t) % Modulus = 0
  <2>1. (t - t) % Modulus = IF t <= t THEN t - t ELSE t - t + Modulus
    BY <1>2, ZenonT(30)
  <2> QED BY <2>1
<1>8. ASSUME (t - t0) % Modulus < Modulus - 1
      PROVE  (v - t0) % Modulus = ((t - t0) % Modulus) + 1
  BY <1>4, <1>5, <1>6, <1>8
<1> QED BY <1>1, <1>3, <1>7, <1>8

\* The invariant holds at the start, when nobody is in sys_sleep.
LEMMA InitInv == Init => IInv
BY TicksAssumption DEF Init, IInv, TypeOK, LockInv, ClockInv, WakeInv, Actor

\* A step of Next, or a stuttering step, keeps the types.
LEMMA TypeStep == TypeOK /\ [Next]_vars => TypeOK'
<1> SUFFICES ASSUME TypeOK, [Next]_vars PROVE TypeOK'
  OBVIOUS
<1> USE TicksAssumption DEF TypeOK, Goto, locals, Actor
<1>1. CASE timer
  <2>1. ticks' \in 0..Modulus - 1
    BY <1>1, ClockArithmetic DEF timer
  <2>2. elapsed' \in [Proc -> 0..Modulus - 1]
    BY <1>1 DEF timer
  <2> QED BY <1>1, <2>1, <2>2 DEF timer
<1>2. CASE TimerWakeup BY <1>2 DEF TimerWakeup
<1>3. CASE scheduler BY <1>3 DEF scheduler
<1>4. CASE SchedulerScans BY <1>4 DEF SchedulerScans
<1>5. ASSUME NEW p \in Proc, NEW d \in Delay, sys_sleep(p, d) PROVE TypeOK'
  BY <1>5 DEF sys_sleep
<1>6. ASSUME NEW p \in Proc, SleepStep(p) PROVE TypeOK'
  <2>1. CASE SleepReturns(p) BY <2>1 DEF SleepReturns
  <2>2. CASE SleepAgain(p) BY <2>2 DEF SleepAgain
  <2>3. CASE SleepPtable(p) BY <2>3 DEF SleepPtable
  <2>4. CASE SleepReacquire(p) BY <2>4 DEF SleepReacquire
  <2> QED BY <1>6, <2>1, <2>2, <2>3, <2>4 DEF SleepStep
<1>7. ASSUME NEW p \in Proc, kill(p) PROVE TypeOK' BY <1>7 DEF kill
<1>8. ASSUME NEW p \in Proc, sys_uptime(p) PROVE TypeOK' BY <1>8 DEF sys_uptime
<1>9. ASSUME NEW p \in Proc, allocproc(p) PROVE TypeOK' BY <1>9 DEF allocproc
<1>10. ASSUME NEW p \in Proc, exit(p) PROVE TypeOK' BY <1>10 DEF exit
<1>11. ASSUME NEW p \in Proc, ExitClockticks(p) PROVE TypeOK' BY <1>11 DEF ExitClockticks
<1>12. CASE UNCHANGED vars BY <1>12 DEF vars
<1> QED BY <1>1, <1>2, <1>3, <1>4, <1>5, <1>6, <1>7, <1>8, <1>9, <1>10, <1>11, <1>12 DEF Next

\* The steps that leave the clock and the locals of sys_sleep alone.
LEMMA QuietStep ==
  ASSUME IInv, TypeOK', ticks' = ticks, UNCHANGED locals,
         pc'[Timer] = pc[Timer], asleep' \subseteq asleep, LockInv',
         \A q \in Proc : /\ pc'[q] \in {"test", "sleeplock1", "waiting"} =>
                            pc[q] \in {"test", "sleeplock1", "waiting"}
                         /\ pc'[q] = "sleeplock1" => pc[q] = "sleeplock1"
  PROVE  ClockInv' /\ WakeInv'
BY DEF IInv, ClockInv, WakeInv, TooEarly, locals

\* A step of Next, or a stuttering step, keeps the invariant.
LEMMA StepInv == IInv /\ [Next]_vars => IInv'
<1> SUFFICES ASSUME IInv, [Next]_vars PROVE LockInv' /\ ClockInv' /\ WakeInv'
  BY TypeStep DEF IInv
<1>0. TypeOK /\ TypeOK' /\ LockInv /\ ClockInv /\ WakeInv
  BY TypeStep DEF IInv
<1>a. /\ Timer \notin Proc /\ Sched \notin Proc /\ None \notin Proc
      /\ Timer # None /\ Timer # Sched
      /\ pc \in [Actor -> {"idle", "wakeup", "test", "sleeplock1", "waiting", "exit", "zombie", "scan"}]
      /\ Proc \subseteq Actor /\ Timer \in Actor /\ Sched \in Actor /\ asleep \subseteq Proc
  BY <1>0, TicksAssumption DEF TypeOK, Actor
<1> USE DEF Goto
<1>1. CASE timer
  <2>1. LockInv'
    BY <1>0, <1>1, <1>a DEF timer, LockInv
  <2>2. ClockInv'
    <3> SUFFICES ASSUME NEW p \in Proc, pc'[p] \in {"test", "sleeplock1", "waiting"}
                 PROVE  (ticks' - ticks0'[p]) % Modulus = elapsed'[p]
      BY DEF ClockInv
    <3>1. pc[p] \in {"test", "sleeplock1", "waiting"}
      BY <1>1, <1>a DEF timer
    <3>2. (ticks - ticks0[p]) % Modulus = elapsed[p] /\ elapsed[p] < Modulus - 1
      BY <1>0, <1>1, <3>1 DEF ClockInv, timer
    <3>3. ticks \in 0..Modulus - 1 /\ ticks0[p] \in 0..Modulus - 1
      BY <1>0 DEF TypeOK
    <3>4. (((ticks + 1) % Modulus) - ticks0[p]) % Modulus = ((ticks - ticks0[p]) % Modulus) + 1
      BY <3>2, <3>3, ClockArithmetic
    <3>5. ticks' = (ticks + 1) % Modulus /\ ticks0'[p] = ticks0[p] /\ elapsed'[p] = elapsed[p] + 1
      BY <1>1, <3>1 DEF timer
    <3> QED BY <3>2, <3>4, <3>5
  <2>3. WakeInv'
    <3>1. pc'[Timer] = "wakeup"
      BY <1>1, <1>a DEF timer
    <3>2. \A p \in Proc : pc'[p] # "sleeplock1"
      BY <1>0, <1>1, <1>a DEF timer, LockInv
    <3> QED BY <3>1, <3>2 DEF WakeInv
  <2> QED BY <2>1, <2>2, <2>3
<1>2. CASE TimerWakeup
  <2>1. LockInv'
    BY <1>0, <1>2, <1>a DEF TimerWakeup, LockInv
  <2>2. ClockInv'
    BY <1>0, <1>2, <1>a DEF TimerWakeup, ClockInv, locals
  <2>3. WakeInv'
    BY <1>0, <1>2, <1>a DEF TimerWakeup, WakeInv, TooEarly, locals
  <2> QED BY <2>1, <2>2, <2>3
<1>3. CASE scheduler
  <2>1. LockInv'
    BY <1>0, <1>3, <1>a DEF scheduler, LockInv
  <2> QED BY <1>0, <1>3, <1>a, <2>1, QuietStep DEF scheduler
<1>4. CASE SchedulerScans
  <2>1. LockInv'
    BY <1>0, <1>4, <1>a DEF SchedulerScans, LockInv
  <2> QED BY <1>0, <1>4, <1>a, <2>1, QuietStep DEF SchedulerScans
<1>5. ASSUME NEW p \in Proc, NEW d \in Delay, sys_sleep(p, d)
      PROVE  LockInv' /\ ClockInv' /\ WakeInv'
  <2>1. LockInv'
    BY <1>0, <1>5, <1>a DEF sys_sleep, LockInv
  <2>2. ClockInv'
    <3>1. ticks \in 0..Modulus - 1 /\ (ticks - ticks) % Modulus = 0
      BY <1>0, ClockArithmetic DEF TypeOK
    <3>2. ticks' = ticks /\ ticks0'[p] = ticks /\ elapsed'[p] = 0
      BY <1>0, <1>5 DEF sys_sleep, TypeOK
    <3>3. ASSUME NEW q \in Proc, q # p
          PROVE  pc'[q] = pc[q] /\ ticks0'[q] = ticks0[q] /\ elapsed'[q] = elapsed[q]
      BY <1>0, <1>5, <1>a, <3>3 DEF sys_sleep, TypeOK
    <3> QED BY <1>0, <3>1, <3>2, <3>3 DEF ClockInv
  <2>3. WakeInv'
    <3>1. ASSUME NEW q \in Proc, q # p
          PROVE  pc'[q] = pc[q] /\ (TooEarly(q)' <=> TooEarly(q))
      BY <1>0, <1>5, <1>a, <3>1 DEF sys_sleep, TooEarly, TypeOK
    <3>2. pc'[p] = "test" /\ p \notin asleep /\ asleep' = asleep /\ pc'[Timer] = pc[Timer]
      BY <1>0, <1>5, <1>a DEF sys_sleep, LockInv
    <3> QED BY <1>0, <3>1, <3>2 DEF WakeInv
  <2> QED BY <2>1, <2>2, <2>3
<1>6. ASSUME NEW p \in Proc, SleepStep(p)
      PROVE  LockInv' /\ ClockInv' /\ WakeInv'
  <2>1. CASE SleepReturns(p)
    <3>1. LockInv'
      BY <1>0, <2>1, <1>a DEF SleepReturns, LockInv
    <3>2. ClockInv'
      BY <1>0, <2>1, <1>a DEF SleepReturns, ClockInv, TypeOK
    <3>3. WakeInv'
      BY <1>0, <2>1, <1>a DEF SleepReturns, WakeInv, TooEarly
    <3> QED BY <3>1, <3>2, <3>3
  <2>2. CASE SleepAgain(p)
    <3>1. LockInv'
      BY <1>0, <2>2, <1>a DEF SleepAgain, LockInv
    <3>2. ClockInv'
      BY <1>0, <2>2, <1>a DEF SleepAgain, ClockInv, locals
    <3>3. WakeInv'
      BY <1>0, <2>2, <1>a DEF SleepAgain, WakeInv, TooEarly, locals
    <3> QED BY <3>1, <3>2, <3>3
  <2>3. CASE SleepPtable(p)
    <3>1. LockInv'
      BY <1>0, <2>3, <1>a DEF SleepPtable, LockInv
    <3>2. ClockInv'
      BY <1>0, <2>3, <1>a DEF SleepPtable, ClockInv, locals
    <3>3. WakeInv'
      BY <1>0, <2>3, <1>a DEF SleepPtable, WakeInv, TooEarly, locals
    <3> QED BY <3>1, <3>2, <3>3
  <2>4. CASE SleepReacquire(p)
    <3>1. LockInv'
      BY <1>0, <2>4, <1>a DEF SleepReacquire, LockInv
    <3> QED BY <1>0, <2>4, <1>a, <3>1, QuietStep DEF SleepReacquire
  <2> QED BY <1>6, <2>1, <2>2, <2>3, <2>4 DEF SleepStep
<1>7. ASSUME NEW p \in Proc, kill(p)
      PROVE  LockInv' /\ ClockInv' /\ WakeInv'
  <2>1. LockInv'
    BY <1>0, <1>7, <1>a DEF kill, LockInv
  <2> QED BY <1>0, <1>7, <1>a, <2>1, QuietStep DEF kill
<1>8. ASSUME NEW p \in Proc, sys_uptime(p) \/ allocproc(p)
      PROVE  LockInv' /\ ClockInv' /\ WakeInv'
  <2>1. LockInv'
    BY <1>0, <1>8, <1>a DEF sys_uptime, allocproc, LockInv
  <2> QED BY <1>0, <1>8, <1>a, <2>1, QuietStep DEF sys_uptime, allocproc
<1>9. ASSUME NEW p \in Proc, exit(p) \/ ExitClockticks(p)
      PROVE  LockInv' /\ ClockInv' /\ WakeInv'
  <2>1. LockInv'
    BY <1>0, <1>9, <1>a DEF exit, ExitClockticks, LockInv
  <2> QED BY <1>0, <1>9, <1>a, <2>1, QuietStep DEF exit, ExitClockticks
<1>10. CASE UNCHANGED vars
  BY <1>0, <1>10 DEF vars, LockInv, ClockInv, WakeInv, TooEarly
<1> QED BY <1>1, <1>2, <1>3, <1>4, <1>5, <1>6, <1>7, <1>8, <1>9, <1>10 DEF Next

-----------------------------------------------------------------------------
\* The clock's state keeps its types, the counter below its modulus.
THEOREM TypeCorrect == Spec => []TypeOK
<1>1. IInv => TypeOK
  BY DEF IInv
<1> QED BY InitInv, StepInv, <1>1, PTL DEF Spec

\* No process sleeps on &ticks past its delay once the timer handler is done,
\* although the handler and sys_sleep meet under two locks taken in turn.
THEOREM TicksNotLost == Spec => []NoLostTick
<1>1. IInv => NoLostTick
  BY DEF IInv, WakeInv, NoLostTick, TypeOK
<1> QED BY InitInv, StepInv, <1>1, PTL DEF Spec

\* sys_sleep returns 0 only after n ticks, wherever the counter wraps.
THEOREM SleepNotShort == Spec => SleepsLongEnough
<1>1. ASSUME IInv, NEW p \in Proc, SleepReturns(p), ~killed[p]
      PROVE  elapsed[p] >= n[p]
  <2>1. elapsed[p] = (ticks - ticks0[p]) % Modulus /\ ~TooEarly(p)
    BY <1>1, TicksAssumption DEF IInv, ClockInv, SleepReturns, Goto
  <2>2. n[p] \in Delay \cup {0} /\ elapsed[p] \in 0..Modulus - 1
    BY <1>1 DEF IInv, TypeOK
  <2>3. n[p] \in -(Modulus - 1)..(Modulus - 1)
    BY <2>2, TicksAssumption
  <2>4. n[p] >= 0 => n[p] % Modulus = n[p]
    BY <2>3, TicksAssumption
  <2>5. ~(elapsed[p] < n[p] % Modulus)
    BY <2>1 DEF TooEarly
  <2> QED BY <2>2, <2>3, <2>4, <2>5, TicksAssumption
<1>2. IInv => [\A p \in Proc : SleepReturns(p) /\ ~killed[p] => elapsed[p] >= n[p]]_vars
  BY <1>1
<1> QED BY InitInv, StepInv, <1>2, PTL DEF Spec, SleepsLongEnough
=============================================================================
