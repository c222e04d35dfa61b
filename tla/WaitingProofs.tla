---------------------------- MODULE WaitingProofs ----------------------------
(***************************************************************************)
(* Proofs for MCWaiting.  For any set of processes and inodes: I_BUSY      *)
(* locks an inode, no wakeup is lost, and sleep and wakeup implement the   *)
(* atomic Monitor.  For any number of processors and any of them as the    *)
(* one that boots: each gets the stack that was allocated for it, however  *)
(* long its startup messages are on their way.                             *)
(***************************************************************************)
EXTENDS MCWaiting, TLAPS

\* Who holds icache.lock and who holds ptable.lock, by program counter.
LockInv ==
  \A p \in Proc :
    /\ lk = p <=> pc[p] \in {"test", "wakeup", "wakeup1", "unlocked", "sleeplock1", "release"}
    /\ ptlock = p <=> pc[p] \in {"release", "asleep", "sched", "tidy", "wakeup1"}

\* The state and the channel of a process, by program counter.
StateInv ==
  \A p \in Proc :
    /\ pc[p] # "idle" => ip[p] \in Inode
    /\ pc[p] = "sched" => state[p] = "SLEEPING"
    /\ pc[p] = "switched" => state[p] \in {"SLEEPING", "RUNNABLE"}
    /\ pc[p] \notin {"sched", "switched"} => state[p] = "RUNNING"
    /\ state[p] = "SLEEPING" => chan[p] = ip[p]

BusyInv ==
  /\ \A p \in Proc : pc[p] = "holding" => busy[ip[p]]
  /\ InodeExclusive

\* NoLostWakeup, from the moment a process has decided to sleep.
WakeInv ==
  \A p \in Proc :
    pc[p] \in {"sleeplock1", "release", "asleep"} \/ state[p] = "SLEEPING" =>
      busy[ip[p]] \/ \E q \in Proc : pc[q] \in {"wakeup", "wakeup1"} /\ ip[q] = ip[p]

SleepInv == TypeOK /\ LockInv /\ StateInv /\ BusyInv /\ WakeInv

-----------------------------------------------------------------------------
\* The invariant holds initially.
LEMMA InitSleepInv == Init => SleepInv
BY SleepAssumption
   DEF Init, SleepInv, TypeOK, LockInv, StateInv, BusyInv, InodeExclusive, WakeInv

\* The invariant is inductive: one step below for each action.
LEMMA NextSleepInv == SleepInv /\ [Next]_vars => SleepInv'
<1> SUFFICES ASSUME SleepInv, [Next]_vars PROVE SleepInv'
  OBVIOUS
<1> USE SleepAssumption DEF SleepInv
<1>0. CASE UNCHANGED vars
  BY <1>0 DEF vars, TypeOK, LockInv, StateInv, BusyInv, InodeExclusive, WakeInv
<1>1. ASSUME NEW p \in Proc, NEW i \in Inode, ilock(p, i) PROVE SleepInv'
  <2> USE <1>1 DEF ilock, Goto
  <2>1. TypeOK'
    BY DEF TypeOK, LockInv, StateInv
  <2>2. LockInv'
    BY DEF TypeOK, LockInv
  <2>3. StateInv'
    BY DEF TypeOK, LockInv, StateInv
  <2>4. BusyInv'
    BY DEF TypeOK, LockInv, StateInv, BusyInv, InodeExclusive
  <2>5. WakeInv'
    BY DEF TypeOK, LockInv, StateInv, WakeInv
  <2> QED BY <2>1, <2>2, <2>3, <2>4, <2>5
<1>2. ASSUME NEW p \in Proc, IlockWait(p) PROVE SleepInv'
  <2> USE <1>2 DEF IlockWait, Goto
  <2>1. TypeOK'
    BY DEF TypeOK, LockInv, StateInv
  <2>2. LockInv'
    BY DEF TypeOK, LockInv
  <2>3. StateInv'
    BY DEF TypeOK, LockInv, StateInv
  <2>4. BusyInv'
    BY DEF TypeOK, LockInv, StateInv, BusyInv, InodeExclusive
  <2>5. WakeInv'
    BY DEF TypeOK, LockInv, StateInv, WakeInv
  <2> QED BY <2>1, <2>2, <2>3, <2>4, <2>5
<1>3. ASSUME NEW p \in Proc, IlockTake(p) PROVE SleepInv'
  <2> USE <1>3 DEF IlockTake, Goto
  <2>1. TypeOK'
    BY DEF TypeOK, LockInv, StateInv
  <2>2. LockInv'
    BY DEF TypeOK, LockInv
  <2>3. StateInv'
    BY DEF TypeOK, LockInv, StateInv
  <2>4. BusyInv'
    BY DEF TypeOK, LockInv, StateInv, BusyInv, InodeExclusive
  <2>5. WakeInv'
    BY DEF TypeOK, LockInv, StateInv, WakeInv
  <2> QED BY <2>1, <2>2, <2>3, <2>4, <2>5
<1>4. ASSUME NEW p \in Proc, iunlock(p) PROVE SleepInv'
  <2> USE <1>4 DEF iunlock, Goto
  <2>1. TypeOK'
    BY DEF TypeOK, LockInv, StateInv
  <2>2. LockInv'
    BY DEF TypeOK, LockInv
  <2>3. StateInv'
    BY DEF TypeOK, LockInv, StateInv
  <2>4. BusyInv'
    BY DEF TypeOK, LockInv, StateInv, BusyInv, InodeExclusive
  <2>5. WakeInv'
    BY DEF TypeOK, LockInv, StateInv, WakeInv
  <2> QED BY <2>1, <2>2, <2>3, <2>4, <2>5
<1>5. ASSUME NEW p \in Proc, IunlockRelease(p) PROVE SleepInv'
  <2> USE <1>5 DEF IunlockRelease, Goto
  <2>1. TypeOK'
    BY DEF TypeOK, LockInv, StateInv
  <2>2. LockInv'
    BY DEF TypeOK, LockInv
  <2>3. StateInv'
    BY DEF TypeOK, LockInv, StateInv
  <2>4. BusyInv'
    BY DEF TypeOK, LockInv, StateInv, BusyInv, InodeExclusive
  <2>5. WakeInv'
    BY DEF TypeOK, LockInv, StateInv, WakeInv
  <2> QED BY <2>1, <2>2, <2>3, <2>4, <2>5
<1>6. ASSUME NEW p \in Proc, SleepPtable(p) PROVE SleepInv'
  <2> USE <1>6 DEF SleepPtable, Goto
  <2>1. TypeOK'
    BY DEF TypeOK, LockInv, StateInv
  <2>2. LockInv'
    BY DEF TypeOK, LockInv
  <2>3. StateInv'
    BY DEF TypeOK, LockInv, StateInv
  <2>4. BusyInv'
    BY DEF TypeOK, LockInv, StateInv, BusyInv, InodeExclusive
  <2>5. WakeInv'
    BY DEF TypeOK, LockInv, StateInv, WakeInv
  <2> QED BY <2>1, <2>2, <2>3, <2>4, <2>5
<1>7. ASSUME NEW p \in Proc, SleepRelease(p) PROVE SleepInv'
  <2> USE <1>7 DEF SleepRelease, Goto
  <2>1. TypeOK'
    BY DEF TypeOK, LockInv, StateInv
  <2>2. LockInv'
    BY DEF TypeOK, LockInv
  <2>3. StateInv'
    BY DEF TypeOK, LockInv, StateInv
  <2>4. BusyInv'
    BY DEF TypeOK, LockInv, StateInv, BusyInv, InodeExclusive
  <2>5. WakeInv'
    BY DEF TypeOK, LockInv, StateInv, WakeInv
  <2> QED BY <2>1, <2>2, <2>3, <2>4, <2>5
<1>8. ASSUME NEW p \in Proc, SleepState(p) PROVE SleepInv'
  <2> USE <1>8 DEF SleepState, Goto
  <2>1. TypeOK'
    BY DEF TypeOK, LockInv, StateInv
  <2>2. LockInv'
    BY DEF TypeOK, LockInv
  <2>3. StateInv'
    BY DEF TypeOK, LockInv, StateInv
  <2>4. BusyInv'
    BY DEF TypeOK, LockInv, StateInv, BusyInv, InodeExclusive
  <2>5. WakeInv'
    BY DEF TypeOK, LockInv, StateInv, WakeInv
  <2> QED BY <2>1, <2>2, <2>3, <2>4, <2>5
<1>9. ASSUME NEW p \in Proc, SchedulerRelease(p) PROVE SleepInv'
  <2> USE <1>9 DEF SchedulerRelease, Goto
  <2>1. TypeOK'
    BY DEF TypeOK, LockInv, StateInv
  <2>2. LockInv'
    BY DEF TypeOK, LockInv
  <2>3. StateInv'
    BY DEF TypeOK, LockInv, StateInv
  <2>4. BusyInv'
    BY DEF TypeOK, LockInv, StateInv, BusyInv, InodeExclusive
  <2>5. WakeInv'
    BY DEF TypeOK, LockInv, StateInv, WakeInv
  <2> QED BY <2>1, <2>2, <2>3, <2>4, <2>5
<1>10. ASSUME NEW p \in Proc, SchedulerSwitch(p) PROVE SleepInv'
  <2> USE <1>10 DEF SchedulerSwitch, Goto
  <2>1. TypeOK'
    BY DEF TypeOK, LockInv, StateInv
  <2>2. LockInv'
    BY DEF TypeOK, LockInv
  <2>3. StateInv'
    BY DEF TypeOK, LockInv, StateInv
  <2>4. BusyInv'
    BY DEF TypeOK, LockInv, StateInv, BusyInv, InodeExclusive
  <2>5. WakeInv'
    BY DEF TypeOK, LockInv, StateInv, WakeInv
  <2> QED BY <2>1, <2>2, <2>3, <2>4, <2>5
<1>11. ASSUME NEW p \in Proc, SleepTidy(p) PROVE SleepInv'
  <2> USE <1>11 DEF SleepTidy, Goto
  <2>1. TypeOK'
    BY DEF TypeOK, LockInv, StateInv
  <2>2. LockInv'
    BY DEF TypeOK, LockInv
  <2>3. StateInv'
    BY DEF TypeOK, LockInv, StateInv
  <2>4. BusyInv'
    BY DEF TypeOK, LockInv, StateInv, BusyInv, InodeExclusive
  <2>5. WakeInv'
    BY DEF TypeOK, LockInv, StateInv, WakeInv
  <2> QED BY <2>1, <2>2, <2>3, <2>4, <2>5
<1>12. ASSUME NEW p \in Proc, SleepReacquire(p) PROVE SleepInv'
  <2> USE <1>12 DEF SleepReacquire, Goto
  <2>1. TypeOK'
    BY DEF TypeOK, LockInv, StateInv
  <2>2. LockInv'
    BY DEF TypeOK, LockInv
  <2>3. StateInv'
    BY DEF TypeOK, LockInv, StateInv
  <2>4. BusyInv'
    BY DEF TypeOK, LockInv, StateInv, BusyInv, InodeExclusive
  <2>5. WakeInv'
    BY DEF TypeOK, LockInv, StateInv, WakeInv
  <2> QED BY <2>1, <2>2, <2>3, <2>4, <2>5
<1>13. ASSUME NEW p \in Proc, wakeup(p) PROVE SleepInv'
  <2> USE <1>13 DEF wakeup, Goto
  <2>1. TypeOK'
    BY DEF TypeOK, LockInv, StateInv
  <2>2. LockInv'
    BY DEF TypeOK, LockInv
  <2>3. StateInv'
    BY DEF TypeOK, LockInv, StateInv
  <2>4. BusyInv'
    BY DEF TypeOK, LockInv, StateInv, BusyInv, InodeExclusive
  <2>5. WakeInv'
    BY DEF TypeOK, LockInv, StateInv, WakeInv
  <2> QED BY <2>1, <2>2, <2>3, <2>4, <2>5
<1>14. ASSUME NEW p \in Proc, wakeup1(p) PROVE SleepInv'
  <2> USE <1>14 DEF wakeup1, Goto
  <2>1. TypeOK'
    BY DEF TypeOK, LockInv, StateInv
  <2>2. LockInv'
    BY DEF TypeOK, LockInv
  <2>3. StateInv'
    BY DEF TypeOK, LockInv, StateInv
  <2>4. BusyInv'
    BY DEF TypeOK, LockInv, StateInv, BusyInv, InodeExclusive
  <2>5. WakeInv'
    BY DEF TypeOK, LockInv, StateInv, WakeInv
  <2> QED BY <2>1, <2>2, <2>3, <2>4, <2>5
<1> QED
  BY <1>0, <1>1, <1>2, <1>3, <1>4, <1>5, <1>6, <1>7, <1>8, <1>9, <1>10, <1>11, <1>12, <1>13, <1>14 DEF Next, SleepStep, LockStep

\* The invariant holds in every reachable state.
LEMMA SpecSleepInv == Spec => []SleepInv
BY InitSleepInv, NextSleepInv, PTL DEF Spec

\* Types, for any set of processes and inodes.
THEOREM TypeCorrect == Spec => []TypeOK
<1>1. SleepInv => TypeOK
  BY DEF SleepInv
<1> QED BY <1>1, SpecSleepInv, PTL

\* The I_BUSY flag of ilock and iunlock locks the inode.
THEOREM InodeLockCorrect == Spec => []InodeExclusive
<1>1. SleepInv => InodeExclusive
  BY DEF SleepInv, BusyInv
<1> QED BY <1>1, SpecSleepInv, PTL

\* sleep takes ptable.lock before it releases its lock, so no wakeup between
\* the test of I_BUSY and the sleep is lost.
THEOREM WakeupsNotLost == Spec => []NoLostWakeup
<1>1. SleepInv => NoLostWakeup
  BY DEF SleepInv, WakeInv, NoLostWakeup
<1> QED BY <1>1, SpecSleepInv, PTL

-----------------------------------------------------------------------------
\* sleep and wakeup implement the atomic monitor that the comment on sleep
\* promises: every step of the code is a step of Monitor or changes nothing.
THEOREM SleepRefinesMonitor == Spec => SleepIsAtomic
<1> USE SleepAssumption DEF waits
<1>1. Init => MonitorSpec!Init
  BY DEF Init, MonitorSpec!Init
<1>2. SleepInv /\ [Next]_vars => [MonitorSpec!Next]_<<lk, waits>>
  <2> SUFFICES ASSUME SleepInv, [Next]_vars PROVE [MonitorSpec!Next]_<<lk, waits>>
    OBVIOUS
  <2> USE DEF SleepInv
  <2>0. CASE UNCHANGED vars
    BY <2>0 DEF vars
  <2>1. ASSUME NEW p \in Proc, NEW i \in Inode, ilock(p, i) PROVE MonitorSpec!Acquire(p)
    BY <2>1 DEF ilock, Goto, MonitorSpec!Acquire, TypeOK, LockInv, StateInv
  <2>2. ASSUME NEW p \in Proc, IlockWait(p) PROVE UNCHANGED <<lk, waits>>
    BY <2>2 DEF IlockWait, Goto, TypeOK, LockInv, StateInv
  <2>3. ASSUME NEW p \in Proc, IlockTake(p) PROVE MonitorSpec!Release(p)
    BY <2>3 DEF IlockTake, Goto, MonitorSpec!Release, TypeOK, LockInv, StateInv
  <2>4. ASSUME NEW p \in Proc, iunlock(p) PROVE MonitorSpec!Acquire(p)
    BY <2>4 DEF iunlock, Goto, MonitorSpec!Acquire, TypeOK, LockInv, StateInv
  <2>5. ASSUME NEW p \in Proc, IunlockRelease(p) PROVE MonitorSpec!Release(p)
    BY <2>5 DEF IunlockRelease, Goto, MonitorSpec!Release, TypeOK, LockInv, StateInv
  <2>6. ASSUME NEW p \in Proc, SleepPtable(p) PROVE UNCHANGED <<lk, waits>>
    BY <2>6 DEF SleepPtable, Goto, TypeOK, LockInv, StateInv
  <2>7. ASSUME NEW p \in Proc, SleepRelease(p) PROVE MonitorSpec!Sleep(p, ip[p]) /\ ip[p] \in Inode
    <3>1. lk = p /\ lk' = NoProc /\ ip[p] \in Inode
      BY <2>7 DEF SleepRelease, Goto, LockInv, StateInv
    <3>2. waits' = [waits EXCEPT ![p] = ip[p]]
      BY <2>7 DEF SleepRelease, Goto, TypeOK
    <3> QED BY <3>1, <3>2 DEF MonitorSpec!Sleep
  <2>8. ASSUME NEW p \in Proc, SleepState(p) PROVE UNCHANGED <<lk, waits>>
    BY <2>8 DEF SleepState, Goto, TypeOK, LockInv, StateInv
  <2>9. ASSUME NEW p \in Proc, SchedulerRelease(p) PROVE UNCHANGED <<lk, waits>>
    BY <2>9 DEF SchedulerRelease, Goto, TypeOK, LockInv, StateInv
  <2>10. ASSUME NEW p \in Proc, SchedulerSwitch(p) PROVE UNCHANGED <<lk, waits>>
    BY <2>10 DEF SchedulerSwitch, Goto, TypeOK, LockInv, StateInv
  <2>11. ASSUME NEW p \in Proc, SleepTidy(p) PROVE UNCHANGED <<lk, waits>>
    BY <2>11 DEF SleepTidy, Goto, TypeOK, LockInv, StateInv
  <2>12. ASSUME NEW p \in Proc, SleepReacquire(p) PROVE MonitorSpec!Acquire(p)
    BY <2>12 DEF SleepReacquire, Goto, MonitorSpec!Acquire, TypeOK, LockInv, StateInv
  <2>13. ASSUME NEW p \in Proc, wakeup(p) PROVE UNCHANGED <<lk, waits>>
    BY <2>13 DEF wakeup, Goto, TypeOK, LockInv, StateInv
  <2>14. ASSUME NEW p \in Proc, wakeup1(p) PROVE MonitorSpec!Wakeup(p, ip[p]) /\ ip[p] \in Inode
    <3>1. lk = p /\ lk' = lk /\ ip' = ip /\ ip[p] \in Inode
      BY <2>14 DEF wakeup1, Goto, LockInv, StateInv
    <3>2. \A q \in Proc : pc[q] # "asleep" /\ pc'[q] # "asleep"
      BY <2>14 DEF wakeup1, Goto, TypeOK, LockInv
    <3>3. ASSUME NEW q \in Proc
          PROVE  waits'[q] = IF waits[q] = ip[p] THEN NoChan ELSE waits[q]
      BY <2>14, <3>1, <3>2 DEF wakeup1, TypeOK, StateInv
    <3> HIDE DEF waits
    <3>4. waits' = [q \in Proc |-> IF waits[q] = ip[p] THEN NoChan ELSE waits[q]]
      BY <3>3 DEF waits
    <3> QED BY <3>1, <3>4 DEF MonitorSpec!Wakeup
  <2> HIDE DEF waits, SleepInv
  <2> QED
    BY <2>0, <2>1, <2>2, <2>3, <2>4, <2>5, <2>6, <2>7, <2>8, <2>9, <2>10, <2>11, <2>12, <2>13, <2>14
       DEF Next, SleepStep, LockStep, MonitorSpec!Next
<1> QED
  BY <1>1, <1>2, SpecSleepInv, PTL DEF Spec, SleepIsAtomic, MonitorSpec!Spec

-----------------------------------------------------------------------------
(* The start of the processors.                                            *)

BootInv == B!TypeOK /\ B!LoopInv /\ B!ApInv

\* The invariant holds when main calls bootothers.
LEMMA InitBootInv == B!BootAssumption /\ B!Init => BootInv
BY DEF B!BootAssumption, B!Init, BootInv, B!TypeOK, B!LoopInv, B!ApInv, B!CPUs, B!BootStack

\* A step of the boot processor keeps the invariant.
LEMMA BootothersInv == B!BootAssumption /\ BootInv /\ B!bootothers => BootInv'
<1> SUFFICES ASSUME B!BootAssumption, BootInv, B!bootothers PROVE BootInv'
  OBVIOUS
<1> USE DEF B!BootAssumption, BootInv, B!TypeOK, B!LoopInv, B!ApInv, B!CPUs, B!BootStack
<1>1. CASE B!Skip BY <1>1 DEF B!Skip
<1>2. CASE B!Stack BY <1>2 DEF B!Stack
<1>3. CASE B!SendInit BY <1>3 DEF B!SendInit
<1>4. CASE B!SendStartup
  <2>1. B!TypeOK'
    <3>1. x1 \in B!CPUs /\ x4[x1] \in 0..1
      BY <1>4 DEF B!SendStartup
    <3>2. x4' \in [B!CPUs -> 0..2]
      BY <1>4, <3>1 DEF B!SendStartup
    <3> QED BY <1>4, <3>2 DEF B!SendStartup
  <2>2. B!LoopInv' BY <1>4 DEF B!SendStartup
  <2>3. B!ApInv' BY <1>4 DEF B!SendStartup
  <2> QED BY <2>1, <2>2, <2>3
<1>5. CASE B!Wait
  <2>1. B!TypeOK' BY <1>5 DEF B!Wait
  <2>2. B!LoopInv' BY <1>5 DEF B!Wait
  <2>3. B!ApInv' BY <1>5 DEF B!Wait
  <2> QED BY <2>1, <2>2, <2>3
<1>6. CASE B!BootDone BY <1>6 DEF B!BootDone
<1> QED BY <1>1, <1>2, <1>3, <1>4, <1>5, <1>6 DEF B!bootothers

\* A step of a processor that was started, or an old message that arrives
\* late, keeps the invariant.
LEMMA CpuInv == B!BootAssumption /\ BootInv /\ (\E i \in B!CPUs : B!Cpu(i)) => BootInv'
<1> SUFFICES ASSUME B!BootAssumption, BootInv, NEW i \in B!CPUs, B!Cpu(i) PROVE BootInv'
  OBVIOUS
<1> USE DEF B!BootAssumption, BootInv, B!TypeOK, B!LoopInv, B!ApInv, B!CPUs, B!BootStack
<1>1. CASE B!TakeStartup(i)
  <2>1. i # bcpu BY <1>1 DEF B!TakeStartup
  <2>2. B!TypeOK' BY <1>1 DEF B!TakeStartup
  <2>3. B!LoopInv' BY <1>1, <2>1 DEF B!TakeStartup
  <2>4. B!ApInv' BY <1>1, <2>1 DEF B!TakeStartup
  <2> QED BY <2>2, <2>3, <2>4
<1>2. CASE B!Start32(i)
  <2>1. i # bcpu /\ i = x1 /\ x3 = i + 1 BY <1>2 DEF B!Start32
  <2>2. B!TypeOK' BY <1>2 DEF B!Start32
  <2>3. B!LoopInv' BY <1>2, <2>1 DEF B!Start32
  <2>4. B!ApInv' BY <1>2, <2>1 DEF B!Start32
  <2> QED BY <2>2, <2>3, <2>4
<1>3. CASE B!mpmain(i)
  <2>1. B!TypeOK' BY <1>3 DEF B!mpmain
  <2>2. B!LoopInv' BY <1>3 DEF B!mpmain
  <2>3. B!ApInv' BY <1>3 DEF B!mpmain
  <2> QED BY <2>1, <2>2, <2>3
<1> QED BY <1>1, <1>2, <1>3 DEF B!Cpu

\* A stuttering step keeps it too.
LEMMA NextBootInv == B!BootAssumption /\ BootInv /\ [B!Next]_(B!vars) => BootInv'
<1>1. ASSUME BootInv, UNCHANGED B!vars PROVE BootInv'
  BY <1>1 DEF B!vars, BootInv, B!TypeOK, B!LoopInv, B!ApInv
<1> QED BY <1>1, BootothersInv, CpuInv DEF B!Next

-----------------------------------------------------------------------------
\* Every processor that runs C code runs on its own stack: bootothers never
\* overwrites the word at code-4 before the processor it is for has read it.
THEOREM StacksAreOwn == MCSpec => []OwnStack
<1> DEFINE Inv == part = "boot" => BootInv
<1>1. MCInit => Inv
  BY InitBootInv, WaitingAssumption DEF MCInit
<1>2. Inv /\ [MCNext]_allvars => Inv'
  <2>1. ASSUME part = "boot", BootInv, MCNext PROVE BootInv'
    <3>1. B!Next \/ UNCHANGED B!vars
      BY <2>1 DEF MCNext, Of, xs, B!vars
    <3> QED BY <2>1, <3>1, NextBootInv, WaitingAssumption
  <2>2. ASSUME BootInv, UNCHANGED allvars PROVE BootInv'
    <3>1. UNCHANGED B!vars
      BY <2>2 DEF allvars, xs, B!vars
    <3> QED BY <2>2, <3>1, NextBootInv, WaitingAssumption
  <2>3. [MCNext]_allvars => part' = part
    BY DEF MCNext, Of, allvars
  <2> QED BY <2>1, <2>2, <2>3
<1>3. Inv => OwnStack
  BY WaitingAssumption DEF BootInv, B!ApInv, OwnStack, B!OwnStack, B!BootAssumption, B!CPUs
<1> QED BY <1>1, <1>2, <1>3, PTL DEF MCSpec
==============================================================================
