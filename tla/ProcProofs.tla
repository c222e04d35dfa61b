----------------------------- MODULE ProcProofs -----------------------------
(***************************************************************************)
(* Proofs that the safety invariants of Proc hold for any number of CPUs   *)
(* and slots: the inductive invariant, that it holds initially and that    *)
(* every step preserves it, and that it implies what the runs check.       *)
(***************************************************************************)
EXTENDS Proc, TLAPS

Live == {"SLEEPING", "RUNNABLE", "RUNNING"}
Forking == {"kalloc", "copyuvm", "parent", "publish"}

\* What CPUs run is RUNNING, and only that.
RunInv == RunningOnOneCpu

\* A process inside fork is live and has an EMBRYO slot to itself; a slot that
\* is not live is not inside fork.  init is always live.
ForkInv ==
  /\ state[initproc] \in Live
  /\ \A p \in Slot : pc[p] \in Forking =>
       /\ state[p] \in {"RUNNABLE", "RUNNING"}
       /\ np[p] \in Slot
       /\ state[np[p]] = "EMBRYO"
  /\ \A p, q \in Slot : pc[p] \in Forking /\ pc[q] \in Forking /\ np[p] = np[q] => p = q

\* Every pid handed out is below nextpid, and no two slots share one.
PidInv ==
  /\ nextpid >= 2
  /\ \A p \in Slot : pid[p] < nextpid /\ (state[p] # "UNUSED" => pid[p] # 0)
  /\ \A p, q \in Slot : pid[p] = pid[q] /\ pid[p] # 0 => p = q

\* Who the parent of a slot is, by the state of the slot.
ParentInv ==
  /\ parent[initproc] = NULL
  /\ \A p \in Slot : parent[p] # p
  /\ \A p \in Slot \ {initproc} :
       /\ state[p] \in Live \cup {"ZOMBIE"} =>
            parent[p] \in Slot /\ state[parent[p]] \in Live
       /\ state[p] = "UNUSED" => parent[p] = NULL
       /\ state[p] = "EMBRYO" =>
            \/ parent[p] = NULL
            \/ parent[p] \in Slot /\ pc[parent[p]] = "publish" /\ np[parent[p]] = p
  /\ \A p \in Slot : pc[p] = "publish" => parent[np[p]] = p

\* A sleeper in wait() sleeps on its own slot and has nothing to do.
WaitInv ==
  /\ WaiterHasNothingToDo
  /\ \A p \in Slot : state[p] = "SLEEPING" /\ ctx[p] = "wait" => chan[p] = p

\* Pages owned by free slots, processes and slots inside fork.
OwnInv ==
  /\ SlotOwnership
  /\ \A p \in Slot :
       /\ pc[p] = "kalloc" => ~kstack[np[p]] /\ ~pgdir[np[p]]
       /\ pc[p] = "copyuvm" => kstack[np[p]] /\ ~pgdir[np[p]]
       /\ pc[p] \in {"parent", "publish"} => kstack[np[p]] /\ pgdir[np[p]]

\* Only a slot that is not live can be waiting in exit()'s last sched().
CtxInv ==
  /\ \A p \in Slot : state[p] \in Live => ctx[p] # "zombie"
  /\ \A p \in Slot : pc[p] \in Forking \ {"kalloc"} => ctx[np[p]] = "forkret"
  /\ \A p \in Slot : state[p] \in Live /\ ctx[p] = "sleep" => pc[p] \in {"kernel", "exit"}
  /\ \A p \in Slot : state[p] \in Live /\ ctx[p] = "wait" => pc[p] = "kernel"
  /\ \A p \in Slot \ {initproc} : pc[p] # "panic"

IInv ==
  /\ TypeOK
  /\ RunInv
  /\ ForkInv
  /\ PidInv
  /\ ParentInv
  /\ WaitInv
  /\ OwnInv
  /\ CtxInv

-----------------------------------------------------------------------------
\* Leaves go to Zenon; the ones that count or are about strings name SMT.
USE Zenon

\* The invariant holds after userinit.
LEMMA InitIInv == Init => IInv
<1> SUFFICES ASSUME Init PROVE IInv
  OBVIOUS
<1> USE ProcAssumption DEF Init, Slot, NULL, initproc, OtherChan
<1>1. TypeOK
  BY SMT DEF TypeOK, States
<1>2. RunInv /\ ForkInv
  BY SMT DEF RunInv, RunningOnOneCpu, ForkInv, Live, Forking
<1>3. PidInv /\ ParentInv
  BY SMT DEF PidInv, ParentInv, Live
<1>4. WaitInv /\ OwnInv /\ CtxInv
  BY DEF WaitInv, WaiterHasNothingToDo, OwnInv, SlotOwnership, CtxInv, Live, Forking
<1> QED
  BY <1>1, <1>2, <1>3, <1>4 DEF IInv

\* Facts about the constants that the steps below need.
LEMMA SlotFacts ==
  /\ NULL \notin Slot
  /\ initproc \in Slot
  /\ NULL \in 0..OtherChan
  /\ OtherChan \in 0..OtherChan
  /\ OtherChan \notin Slot
  /\ Slot \subseteq 0..OtherChan
  /\ Slot \subseteq 0..NPROC
  /\ 0 \in 0..NPROC
  /\ 0 \in 0..MaxPid + 1
  /\ NULL \notin CPU
BY ProcAssumption, SMT DEF NULL, initproc, Slot, OtherChan

\* The slot that a process inside fork works on.
LEMMA ForkChild ==
  ASSUME IInv, NEW p \in Slot, pc[p] \in Forking
  PROVE  /\ np[p] \in Slot
         /\ state[np[p]] = "EMBRYO"
         /\ np[p] # p /\ np[p] # initproc
         /\ pc[np[p]] \notin Forking
         /\ pc[p] # "publish" => parent[np[p]] = NULL
<1>1. np[p] \in Slot /\ state[np[p]] = "EMBRYO" /\ np[p] # p
  BY DEF IInv, ForkInv
<1>2. pc[np[p]] \notin Forking
  BY <1>1 DEF IInv, ForkInv
<1>3. np[p] # initproc
  BY <1>1 DEF IInv, ForkInv, Live
<1>4. ASSUME pc[p] # "publish", parent[np[p]] # NULL PROVE FALSE
  <2>1. PICK r \in Slot : pc[r] = "publish" /\ np[r] = np[p]
    BY <1>1, <1>3, <1>4 DEF IInv, ParentInv
  <2> QED BY <2>1, <1>4 DEF IInv, ForkInv, Forking
<1> QED BY <1>1, <1>2, <1>3, <1>4

-----------------------------------------------------------------------------
(* Most steps leave the tree of processes, the pids and the pages alone.    *)
(* What such a step may change, and what it keeps by that.                  *)

\* Slots change between live states only, and never fall asleep inside fork;
\* nobody enters, leaves or moves inside fork.
Quiet ==
  /\ \A q \in Slot :
       \/ state'[q] = state[q]
       \/ state[q] \in Live /\ state'[q] \in Live /\ (pc[q] \in Forking => state'[q] # "SLEEPING")
  /\ \A q \in Slot : pc[q] \in Forking \/ pc'[q] \in Forking => pc'[q] = pc[q] /\ np'[q] = np[q]
  /\ parent' = parent /\ pid' = pid /\ nextpid' = nextpid /\ kstack' = kstack /\ pgdir' = pgdir

\* Nobody gets a child or a zombie, and whoever sleeps in wait() did so before,
\* on the same channel.
SleepersKept ==
  /\ parent' = parent
  /\ \A q \in Slot : state'[q] = "ZOMBIE" => state[q] = "ZOMBIE"
  /\ \A q \in Slot :
       state'[q] = "SLEEPING" /\ ctx'[q] = "wait" =>
         state[q] = "SLEEPING" /\ ctx[q] = "wait" /\ chan'[q] = chan[q] /\ killed'[q] = killed[q]

\* Only a running process changes its context or its place in the code.
ContextsKept ==
  \A q \in Slot :
    \/ ctx'[q] = ctx[q] /\ pc'[q] = pc[q]
    \/ /\ state[q] = "RUNNING"
       /\ ctx'[q] # "zombie"
       /\ ctx'[q] = "sleep" => pc'[q] \in {"kernel", "exit"}
       /\ ctx'[q] = "wait" => pc'[q] = "kernel"
       /\ pc'[q] = "panic" => q = initproc

\* The CPUs keep their processes.
CpusKept ==
  cproc' = cproc /\ \A q \in Slot : state'[q] = "RUNNING" <=> state[q] = "RUNNING"

\* CPU c gives process p up.
LeavesCpu(c, p) ==
  /\ cproc[c] = p /\ cproc' = [cproc EXCEPT ![c] = NULL]
  /\ state'[p] # "RUNNING"
  /\ \A q \in Slot \ {p} : state'[q] = "RUNNING" <=> state[q] = "RUNNING"

\* A quiet step keeps the tree, the pids and the pages.
LEMMA QuietStep ==
  ASSUME IInv, Quiet
  PROVE  ForkInv' /\ PidInv' /\ ParentInv' /\ OwnInv'
<1>i. ForkInv /\ PidInv /\ ParentInv /\ OwnInv
  BY DEF IInv
<1>q. /\ parent' = parent /\ pid' = pid /\ nextpid' = nextpid /\ kstack' = kstack /\ pgdir' = pgdir
      /\ \A q \in Slot : pc[q] \in Forking \/ pc'[q] \in Forking => pc'[q] = pc[q] /\ np'[q] = np[q]
  BY DEF Quiet
<1>s. \A q \in Slot :
        \/ state'[q] = state[q]
        \/ state[q] \in Live /\ state'[q] \in Live /\ (pc[q] \in Forking => state'[q] # "SLEEPING")
  BY DEF Quiet
<1>l. \A q \in Slot :
        /\ state'[q] \in Live <=> state[q] \in Live
        /\ \A st \in {"UNUSED", "EMBRYO", "ZOMBIE"} : state'[q] = st <=> state[q] = st
  BY <1>s DEF Live
<1>1. ForkInv'
  <2>1. ASSUME NEW q \in Slot, pc'[q] \in Forking
        PROVE  state'[q] \in {"RUNNABLE", "RUNNING"} /\ np'[q] \in Slot /\ state'[np'[q]] = "EMBRYO"
    BY <1>i, <1>q, <1>s, <1>l, <2>1, SMT DEF ForkInv, Live
  <2>2. state'[initproc] \in Live
    BY <1>i, <1>l, SlotFacts DEF ForkInv
  <2>3. \A q, r \in Slot : pc'[q] \in Forking /\ pc'[r] \in Forking /\ np'[q] = np'[r] => q = r
    BY <1>i, <1>q DEF ForkInv
  <2> QED BY <2>1, <2>2, <2>3 DEF ForkInv
<1>2. PidInv'
  BY <1>i, <1>q, <1>l DEF PidInv
<1>3. ParentInv'
  BY <1>i, <1>q, <1>l, SMT DEF ParentInv, Forking
<1>4. OwnInv'
  BY <1>i, <1>q, <1>l, SMT DEF OwnInv, SlotOwnership, Forking
<1> QED BY <1>1, <1>2, <1>3, <1>4

\* Then nobody in wait() misses an exit.
LEMMA SleepersKeptStep ==
  ASSUME IInv, SleepersKept
  PROVE  WaitInv'
<1>i. WaitInv
  BY DEF IInv
<1>1. parent' = parent /\ \A q \in Slot : state'[q] = "ZOMBIE" => state[q] = "ZOMBIE"
  BY DEF SleepersKept
<1>2. \A q \in Slot : Children(q)' = Children(q) /\ Children(q) \subseteq Slot
  BY <1>1 DEF Children
<1> QED BY <1>i, <1>1, <1>2, SMT DEF WaitInv, WaiterHasNothingToDo, SleepersKept

\* A quiet step keeps the contexts of the processes it does not run.
LEMMA QuietContexts ==
  ASSUME IInv, Quiet, ContextsKept
  PROVE  CtxInv'
<1>i. CtxInv /\ ForkInv
  BY DEF IInv
<1>1. \A q \in Slot : state'[q] \in Live <=> state[q] \in Live
  BY DEF Quiet, Live
<1>2. ASSUME NEW q \in Slot, pc'[q] \in Forking \ {"kalloc"} PROVE ctx'[np'[q]] = "forkret"
  <2>1. pc'[q] = pc[q] /\ np'[q] = np[q]
    BY <1>2 DEF Quiet
  <2>2. np[q] \in Slot /\ state[np[q]] = "EMBRYO" /\ ctx[np[q]] = "forkret"
    BY <1>i, <1>2, <2>1 DEF CtxInv, ForkInv
  <2> QED BY <2>1, <2>2 DEF ContextsKept
<1>3. ASSUME NEW q \in Slot, state'[q] \in Live
      PROVE  /\ ctx'[q] # "zombie"
             /\ ctx'[q] = "sleep" => pc'[q] \in {"kernel", "exit"}
             /\ ctx'[q] = "wait" => pc'[q] = "kernel"
  BY <1>i, <1>1, <1>3, SMT DEF CtxInv, ContextsKept
<1>4. \A q \in Slot \ {initproc} : pc'[q] # "panic"
  BY <1>i DEF CtxInv, ContextsKept
<1> QED BY <1>2, <1>3, <1>4 DEF CtxInv

\* The CPUs that keep their processes run what is RUNNING.
LEMMA CpusKeptStep ==
  ASSUME IInv, CpusKept
  PROVE  RunInv'
<1>i. RunInv
  BY DEF IInv
<1> QED BY <1>i DEF RunInv, RunningOnOneCpu, CpusKept

\* A process that a CPU gives up is not RUNNING.
LEMMA LeavesCpuStep ==
  ASSUME IInv, NEW c \in CPU, NEW p \in Slot, LeavesCpu(c, p)
  PROVE  RunInv'
<1>i. RunInv /\ cproc \in [CPU -> Slot \cup {NULL}]
  BY DEF IInv, TypeOK
<1>1. \A d \in CPU : cproc'[d] = IF d = c THEN NULL ELSE cproc[d]
  BY <1>i DEF LeavesCpu
<1>2. /\ cproc[c] = p /\ state'[p] # "RUNNING"
      /\ \A q \in Slot \ {p} : state'[q] = "RUNNING" <=> state[q] = "RUNNING"
  BY DEF LeavesCpu
<1> QED BY <1>i, <1>1, <1>2, SlotFacts, SMT DEF RunInv, RunningOnOneCpu

\* The process a CPU runs is RUNNING.
LEMMA RunsIsRunning ==
  ASSUME IInv, NEW c \in CPU, NEW p \in Slot, cproc[c] = p
  PROVE  state[p] = "RUNNING"
BY DEF IInv, RunInv, RunningOnOneCpu

-----------------------------------------------------------------------------
(* The quiet steps.                                                         *)

\* The invariant is about vars only.
LEMMA StutterIInv == ASSUME IInv, UNCHANGED vars PROVE IInv'
<1>1. /\ state' = state /\ pid' = pid /\ parent' = parent /\ killed' = killed /\ chan' = chan
      /\ kstack' = kstack /\ pgdir' = pgdir /\ nextpid' = nextpid /\ ptlock' = ptlock
      /\ cproc' = cproc /\ scan' = scan /\ pc' = pc /\ np' = np /\ ctx' = ctx
  BY DEF vars, slotvars, memvars, cpuvars
<1>2. TypeOK'
  BY <1>1 DEF IInv, TypeOK
<1>3. Quiet /\ SleepersKept /\ ContextsKept /\ CpusKept
  BY <1>1 DEF Quiet, SleepersKept, ContextsKept, CpusKept
<1> QED BY <1>2, <1>3, QuietStep, SleepersKeptStep, QuietContexts, CpusKeptStep DEF IInv

\* scheduler takes or releases ptable.lock.
LEMMA SchedulerLockIInv ==
  ASSUME IInv, NEW c \in CPU, SchedulerAcquire(c) \/ SchedulerRelease(c)
  PROVE  IInv'
<1>1. /\ state' = state /\ pid' = pid /\ parent' = parent /\ killed' = killed /\ chan' = chan
      /\ kstack' = kstack /\ pgdir' = pgdir /\ nextpid' = nextpid
      /\ cproc' = cproc /\ pc' = pc /\ np' = np /\ ctx' = ctx
  BY DEF SchedulerAcquire, SchedulerRelease, slotvars, memvars
<1>2. ptlock' \in CPU \cup {NULL} /\ scan' \in [CPU -> 0..NPROC]
  BY SlotFacts, SMT DEF IInv, TypeOK, SchedulerAcquire, SchedulerRelease
<1>3. TypeOK'
  BY <1>1, <1>2 DEF IInv, TypeOK
<1>4. Quiet /\ SleepersKept /\ ContextsKept /\ CpusKept
  BY <1>1 DEF Quiet, SleepersKept, ContextsKept, CpusKept
<1> QED BY <1>3, <1>4, QuietStep, SleepersKeptStep, QuietContexts, CpusKeptStep DEF IInv

\* scheduler switches to a RUNNABLE process, lock held.
LEMMA SchedulerDispatchIInv ==
  ASSUME IInv, NEW c \in CPU, SchedulerDispatch(c)
  PROVE  IInv'
<1>i. TypeOK /\ RunInv
  BY DEF IInv
<1>p. PICK p \in Slot : /\ state[p] = "RUNNABLE"
                        /\ state' = [state EXCEPT ![p] = "RUNNING"]
                        /\ cproc' = [cproc EXCEPT ![c] = p] /\ scan' = [scan EXCEPT ![c] = p]
  BY DEF SchedulerDispatch, IsFirst, RunnableAfter
<1>e. /\ cproc[c] = NULL
      /\ pid' = pid /\ parent' = parent /\ killed' = killed /\ chan' = chan
      /\ kstack' = kstack /\ pgdir' = pgdir /\ nextpid' = nextpid /\ ptlock' = ptlock
      /\ pc' = pc /\ np' = np /\ ctx' = ctx
  BY DEF SchedulerDispatch, memvars
<1>s. \A q \in Slot : state'[q] = IF q = p THEN "RUNNING" ELSE state[q]
  BY <1>i, <1>p DEF TypeOK
<1>1. TypeOK'
  BY <1>i, <1>p, <1>e, SlotFacts DEF TypeOK, States
<1>2. RunInv'
  <2>1. \A d \in CPU : cproc'[d] = IF d = c THEN p ELSE cproc[d]
    BY <1>i, <1>p DEF TypeOK
  <2>2. cproc[c] = NULL /\ state[p] = "RUNNABLE"
    BY <1>p, <1>e
  <2> QED BY <1>i, <1>s, <2>1, <2>2, SlotFacts, SMT DEF RunInv, RunningOnOneCpu
<1>3. Quiet /\ SleepersKept /\ ContextsKept
  BY <1>e, <1>s, <1>p, SMT DEF Quiet, SleepersKept, ContextsKept, Live
<1> QED BY <1>1, <1>2, <1>3, QuietStep, SleepersKeptStep, QuietContexts DEF IInv

\* A process is switched to inside sched and goes on, or returns from wait()
\* with nothing.
LEMMA GoesOnIInv ==
  ASSUME IInv, NEW c \in CPU, NEW p \in Slot, Resume(c, p) \/ WaitFails(c, p)
  PROVE  IInv'
<1>i. TypeOK /\ CtxInv
  BY DEF IInv
<1>e. /\ state' = state /\ pid' = pid /\ parent' = parent /\ killed' = killed
      /\ kstack' = kstack /\ pgdir' = pgdir /\ nextpid' = nextpid /\ ptlock' = NULL
      /\ cproc' = cproc /\ scan' = scan /\ pc' = pc /\ np' = np
  BY DEF Resume, WaitFails, WaitReturns, memvars
<1>c. /\ cproc[c] = p
      /\ ctx' = [ctx EXCEPT ![p] = "none"]
      /\ chan' = chan \/ chan' = [chan EXCEPT ![p] = NULL]
  BY DEF Resume, WaitFails, WaitReturns, InWait, Runs
<1>a. state[p] = "RUNNING"
  BY <1>c, RunsIsRunning
<1>b. \A q \in Slot : /\ ctx'[q] = IF q = p THEN "none" ELSE ctx[q]
                      /\ q # p => chan'[q] = chan[q]
  BY <1>i, <1>c DEF TypeOK
<1>1. TypeOK'
  BY <1>i, <1>e, <1>c, SlotFacts, SMT DEF TypeOK
<1>2. Quiet /\ CpusKept
  BY <1>e DEF Quiet, CpusKept
<1>3. SleepersKept
  BY <1>e, <1>b DEF SleepersKept
<1>4. ContextsKept
  BY <1>i, <1>e, <1>a, <1>b DEF ContextsKept, CtxInv
<1> QED BY <1>1, <1>2, <1>3, <1>4, QuietStep, SleepersKeptStep, QuietContexts, CpusKeptStep DEF IInv

\* The running process p moves between user code, the kernel and exit, and may
\* mark itself killed.
PcMove(p) ==
  /\ ctx[p] = "none" /\ pc[p] \notin Forking /\ state[p] = "RUNNING"
  /\ \E l \in {"user", "kernel", "exit", "panic"} :
       (l = "panic" => p = initproc) /\ pc' = [pc EXCEPT ![p] = l]
  /\ killed' \in [Slot -> BOOLEAN] /\ \A q \in Slot \ {p} : killed'[q] = killed[q]
  /\ np' = np \/ np' = [np EXCEPT ![p] = NULL]
  /\ state' = state /\ pid' = pid /\ parent' = parent /\ chan' = chan
  /\ kstack' = kstack /\ pgdir' = pgdir /\ nextpid' = nextpid /\ ptlock' = ptlock
  /\ cproc' = cproc /\ scan' = scan /\ ctx' = ctx

\* Such a move preserves the invariant.
LEMMA PcMoveIInv ==
  ASSUME IInv, NEW p \in Slot, PcMove(p)
  PROVE  IInv'
<1>i. TypeOK
  BY DEF IInv
<1>e. /\ state' = state /\ pid' = pid /\ parent' = parent /\ chan' = chan
      /\ kstack' = kstack /\ pgdir' = pgdir /\ nextpid' = nextpid /\ ptlock' = ptlock
      /\ cproc' = cproc /\ scan' = scan /\ ctx' = ctx
  BY DEF PcMove
<1>p. /\ pc' \in [Slot -> {"user", "kernel", "kalloc", "copyuvm", "parent", "publish", "exit", "panic"}]
      /\ pc'[p] \in {"user", "kernel", "exit", "panic"} /\ (pc'[p] = "panic" => p = initproc)
      /\ \A q \in Slot \ {p} : pc'[q] = pc[q]
  BY <1>i, SMT DEF PcMove, TypeOK
<1>n. np' \in [Slot -> Slot \cup {NULL}] /\ \A q \in Slot \ {p} : np'[q] = np[q]
  BY <1>i, SMT DEF PcMove, TypeOK
<1>k. killed' \in [Slot -> BOOLEAN] /\ \A q \in Slot \ {p} : killed'[q] = killed[q]
  BY DEF PcMove
<1>a. ctx[p] = "none" /\ pc[p] \notin Forking /\ state[p] = "RUNNING"
  BY DEF PcMove
<1>1. TypeOK'
  BY <1>i, <1>e, <1>p, <1>n, <1>k DEF TypeOK
<1>2. Quiet /\ CpusKept
  BY <1>e, <1>p, <1>n, <1>a DEF Quiet, CpusKept, Forking
<1>3. SleepersKept
  BY <1>e, <1>k, <1>a DEF SleepersKept
<1>4. ContextsKept
  BY <1>e, <1>p, <1>a DEF ContextsKept
<1> QED BY <1>1, <1>2, <1>3, <1>4, QuietStep, SleepersKeptStep, QuietContexts, CpusKeptStep DEF IInv

\* System calls and traps enter and leave the kernel, a killed process goes to
\* exit, fork finds no slot, and exit of init panics.
LEMMA KernelEntryIInv ==
  ASSUME IInv, NEW c \in CPU, NEW p \in Slot,
         \/ Syscall(c, p) \/ SyscallReturn(c, p) \/ SysExit(c, p)
         \/ \E fault \in BOOLEAN : UserTrap(c, p, fault)
         \/ AllocprocFull(c, p) \/ (p = initproc /\ InitExits(c))
  PROVE  IInv'
<1>t. killed \in [Slot -> BOOLEAN]
  BY DEF IInv, TypeOK
<1>r. Runs(c, p) /\ pc[p] \in {"user", "kernel", "exit"}
  BY DEF Syscall, SyscallReturn, SysExit, UserTrap, AllocprocFull, InitExits
<1>a. ctx[p] = "none" /\ pc[p] \notin Forking /\ state[p] = "RUNNING"
  BY <1>r, RunsIsRunning DEF Runs, Forking
<1>e. /\ state' = state /\ pid' = pid /\ parent' = parent /\ chan' = chan
      /\ kstack' = kstack /\ pgdir' = pgdir /\ nextpid' = nextpid /\ ptlock' = ptlock
      /\ cproc' = cproc /\ scan' = scan /\ ctx' = ctx
  BY DEF Syscall, SyscallReturn, SysExit, UserTrap, AllocprocFull, InitExits, slotvars, memvars, cpuvars
<1>n. np' = np \/ np' = [np EXCEPT ![p] = NULL]
  BY DEF Syscall, SyscallReturn, SysExit, UserTrap, AllocprocFull, InitExits, ForkFails
<1>k. killed' = killed \/ killed' = [killed EXCEPT ![p] = TRUE]
  BY DEF Syscall, SyscallReturn, SysExit, UserTrap, AllocprocFull, InitExits, slotvars
<1>l. \E l \in {"user", "kernel", "exit", "panic"} :
        (l = "panic" => p = initproc) /\ pc' = [pc EXCEPT ![p] = l]
  BY DEF Syscall, SyscallReturn, SysExit, UserTrap, AllocprocFull, InitExits, ForkFails, Goto
<1>m. killed' \in [Slot -> BOOLEAN] /\ \A q \in Slot \ {p} : killed'[q] = killed[q]
  BY <1>t, <1>k
<1>1. PcMove(p)
  BY <1>a, <1>e, <1>n, <1>l, <1>m DEF PcMove
<1> QED BY <1>1, PcMoveIInv

\* yield and sleep give the CPU up.
LEMMA GivesUpIInv ==
  ASSUME IInv, NEW c \in CPU, NEW p \in Slot, yield(c, p) \/ sleep(c, p)
  PROVE  IInv'
<1>i. TypeOK /\ ForkInv
  BY DEF IInv
<1>r. Runs(c, p) /\ ptlock = NULL
  BY DEF yield, sleep
<1>a. cproc[c] = p /\ state[p] = "RUNNING" /\ ctx[p] = "none"
  BY <1>r, RunsIsRunning DEF Runs
<1>e. /\ pid' = pid /\ parent' = parent /\ killed' = killed
      /\ kstack' = kstack /\ pgdir' = pgdir /\ nextpid' = nextpid /\ ptlock' = c
      /\ cproc' = [cproc EXCEPT ![c] = NULL] /\ scan' = scan /\ pc' = pc /\ np' = np
  BY DEF yield, sleep, sched, memvars
<1>y. \/ /\ state' = [state EXCEPT ![p] = "RUNNABLE"]
         /\ ctx' = [ctx EXCEPT ![p] = "yield"] /\ chan' = chan
      \/ /\ state' = [state EXCEPT ![p] = "SLEEPING"]
         /\ ctx' = [ctx EXCEPT ![p] = "sleep"] /\ chan' = [chan EXCEPT ![p] = OtherChan]
         /\ pc[p] \in {"kernel", "exit"}
  BY DEF yield, sleep, sched
<1>s. \A q \in Slot \ {p} : state'[q] = state[q] /\ ctx'[q] = ctx[q] /\ chan'[q] = chan[q]
  BY <1>i, <1>y, SMT DEF TypeOK
<1>t. \/ state'[p] = "RUNNABLE" /\ ctx'[p] = "yield"
      \/ state'[p] = "SLEEPING" /\ ctx'[p] = "sleep" /\ pc[p] \in {"kernel", "exit"}
  BY <1>i, <1>y DEF TypeOK
<1>1. TypeOK'
  BY <1>i, <1>e, <1>y, SlotFacts, SMT DEF TypeOK, States
<1>2. LeavesCpu(c, p)
  BY <1>a, <1>e, <1>s, <1>t DEF LeavesCpu
<1>3. Quiet
  BY <1>a, <1>e, <1>s, <1>t DEF Quiet, Live, Forking
<1>4. SleepersKept /\ ContextsKept
  BY <1>a, <1>e, <1>s, <1>t, SMT DEF SleepersKept, ContextsKept, IInv, CtxInv
<1> QED BY <1>1, <1>2, <1>3, <1>4, QuietStep, SleepersKeptStep, QuietContexts, LeavesCpuStep DEF IInv

\* wakeup and kill make sleepers RUNNABLE; kill marks its victim.
LEMMA WakesIInv ==
  ASSUME IInv, wakeup \/ \E c \in CPU, p \in Slot, n \in 0..MaxPid : kill(c, p, n)
  PROVE  IInv'
<1>i. TypeOK
  BY DEF IInv
<1>e. /\ pid' = pid /\ parent' = parent /\ chan' = chan
      /\ kstack' = kstack /\ pgdir' = pgdir /\ nextpid' = nextpid /\ ptlock' = ptlock
      /\ cproc' = cproc /\ scan' = scan /\ pc' = pc /\ np' = np /\ ctx' = ctx
  BY DEF wakeup, kill, memvars, cpuvars
<1>s. /\ state' \in [Slot -> States]
      /\ \A q \in Slot : state'[q] = state[q] \/ (state[q] = "SLEEPING" /\ state'[q] = "RUNNABLE")
  BY <1>i, SMT DEF wakeup, wakeup1, kill, TypeOK, States
<1>k. killed' \in [Slot -> BOOLEAN] /\ \A q \in Slot : state'[q] = "SLEEPING" => killed'[q] = killed[q]
  <2>1. CASE wakeup
    BY <1>i, <2>1 DEF wakeup, TypeOK
  <2>2. ASSUME NEW c \in CPU, NEW p \in Slot, NEW n \in 0..MaxPid, kill(c, p, n)
        PROVE  killed' \in [Slot -> BOOLEAN] /\ \A q \in Slot : state'[q] = "SLEEPING" => killed'[q] = killed[q]
    <3>1. PICK r \in Slot : /\ killed' = [killed EXCEPT ![r] = TRUE]
                            /\ state' = IF state[r] = "SLEEPING" THEN [state EXCEPT ![r] = "RUNNABLE"] ELSE state
      BY <2>2 DEF kill
    <3>2. state'[r] # "SLEEPING"
      BY <1>i, <3>1 DEF TypeOK
    <3> QED BY <1>i, <3>1, <3>2 DEF TypeOK
  <2> QED BY <2>1, <2>2
<1>1. TypeOK'
  BY <1>i, <1>e, <1>s, <1>k DEF TypeOK
<1>2. Quiet /\ CpusKept
  BY <1>e, <1>s DEF Quiet, CpusKept, Live
<1>3. SleepersKept /\ ContextsKept
  BY <1>e, <1>s, <1>k DEF SleepersKept, ContextsKept
<1> QED BY <1>1, <1>2, <1>3, QuietStep, SleepersKeptStep, QuietContexts, CpusKeptStep DEF IInv

\* wait sleeps on itself when it has children and none of them is a ZOMBIE.
LEMMA WaitSleepsIInv ==
  ASSUME IInv, NEW c \in CPU, NEW p \in Slot, WaitSleeps(c, p)
  PROVE  IInv'
<1>i. TypeOK /\ WaitInv /\ CtxInv
  BY DEF IInv
<1>e. /\ pid' = pid /\ parent' = parent /\ killed' = killed
      /\ kstack' = kstack /\ pgdir' = pgdir /\ nextpid' = nextpid /\ ptlock' = c
      /\ cproc' = [cproc EXCEPT ![c] = NULL] /\ scan' = scan /\ pc' = pc /\ np' = np
  BY DEF WaitSleeps, sched, memvars
<1>f. /\ state' = [state EXCEPT ![p] = "SLEEPING"] /\ chan' = [chan EXCEPT ![p] = p]
      /\ ctx' = [ctx EXCEPT ![p] = "wait"]
  BY DEF WaitSleeps, sched
<1>a. cproc[c] = p /\ (pc[p] = "kernel" \/ ctx[p] = "wait")
  BY DEF WaitSleeps, InWait, Runs
<1>b. state[p] = "RUNNING" /\ pc[p] = "kernel"
  BY <1>i, <1>a, RunsIsRunning DEF CtxInv, Live
<1>c. Children(p) # {} /\ ~killed[p] /\ \A q \in Children(p) : state[q] # "ZOMBIE"
  BY DEF WaitSleeps, Zombies
<1>s. \A q \in Slot : /\ state'[q] = IF q = p THEN "SLEEPING" ELSE state[q]
                      /\ ctx'[q] = IF q = p THEN "wait" ELSE ctx[q]
                      /\ chan'[q] = IF q = p THEN p ELSE chan[q]
  BY <1>i, <1>f DEF TypeOK
<1>1. TypeOK'
  BY <1>i, <1>e, <1>f, SlotFacts DEF TypeOK, States
<1>2. LeavesCpu(c, p)
  BY <1>a, <1>e, <1>s DEF LeavesCpu
<1>3. Quiet /\ ContextsKept
  BY <1>b, <1>e, <1>s DEF Quiet, ContextsKept, Live, Forking
<1>4. WaitInv'
  <2>1. \A q \in Slot : Children(q)' = Children(q) /\ Children(q) \subseteq Slot
    BY <1>e DEF Children
  <2>2. killed' = killed
    BY <1>e
  <2> QED BY <1>i, <1>c, <1>s, <2>1, <2>2, SMT DEF WaitInv, WaiterHasNothingToDo
<1> QED BY <1>1, <1>2, <1>3, <1>4, QuietStep, QuietContexts, LeavesCpuStep DEF IInv

-----------------------------------------------------------------------------
(* fork.                                                                    *)

\* allocproc takes an UNUSED slot and a new pid.
LEMMA AllocprocIInv ==
  ASSUME IInv, NEW c \in CPU, NEW p \in Slot, allocproc(c, p)
  PROVE  IInv'
<1>i. TypeOK /\ ForkInv /\ PidInv /\ ParentInv /\ OwnInv /\ CtxInv
  BY DEF IInv
<1>q. PICK q \in Slot : /\ state[q] = "UNUSED"
                        /\ state' = [state EXCEPT ![q] = "EMBRYO"]
                        /\ pid' = [pid EXCEPT ![q] = nextpid]
                        /\ np' = [np EXCEPT ![p] = q]
  BY DEF allocproc, IsFirst, FreeSlots
<1>e. /\ parent' = parent /\ killed' = killed /\ chan' = chan /\ kstack' = kstack /\ pgdir' = pgdir
      /\ ptlock' = ptlock /\ cproc' = cproc /\ scan' = scan /\ ctx' = ctx
  BY DEF allocproc, memvars, cpuvars
<1>f. /\ pc' = [pc EXCEPT ![p] = "kalloc"] /\ pc[p] = "kernel" /\ Runs(c, p)
      /\ nextpid' = nextpid + 1 /\ nextpid <= MaxPid
  BY DEF allocproc, Goto
<1>a. state[p] = "RUNNING" /\ pc[p] = "kernel" /\ ctx[p] = "none"
  BY <1>f, RunsIsRunning DEF Runs
<1>s. \A r \in Slot : state'[r] = IF r = q THEN "EMBRYO" ELSE state[r]
  BY <1>i, <1>q DEF TypeOK
<1>n. \A r \in Slot : /\ np'[r] = IF r = p THEN q ELSE np[r]
                      /\ pc'[r] = IF r = p THEN "kalloc" ELSE pc[r]
  BY <1>i, <1>q, <1>f DEF TypeOK
<1>b. /\ state[q] = "UNUSED" /\ q # p /\ q # initproc
      /\ \A r \in Slot : pc[r] \in Forking => r # q /\ np[r] # q
  BY <1>i, <1>q, <1>a DEF ForkInv, Live
<1>1. TypeOK'
  <2>1. nextpid \in 0..MaxPid + 1 /\ nextpid' \in 1..(MaxPid + 2)
    BY <1>i, <1>f, ProcAssumption, SMT DEF TypeOK
  <2> QED BY <1>i, <1>q, <1>e, <1>f, <2>1 DEF TypeOK, States
<1>2. CpusKept
  BY <1>e, <1>s, <1>b DEF CpusKept
<1>3. ForkInv'
  <2>1. state'[initproc] \in Live
    BY <1>i, <1>s, <1>b, SlotFacts DEF ForkInv
  <2>2. ASSUME NEW r \in Slot, pc'[r] \in Forking
        PROVE  state'[r] \in {"RUNNABLE", "RUNNING"} /\ np'[r] \in Slot /\ state'[np'[r]] = "EMBRYO"
    BY <1>i, <1>s, <1>n, <1>a, <1>b, <2>2, SMT DEF ForkInv
  <2>3. \A r, t \in Slot : pc'[r] \in Forking /\ pc'[t] \in Forking /\ np'[r] = np'[t] => r = t
    BY <1>i, <1>n, <1>b, SMT DEF ForkInv
  <2> QED BY <2>1, <2>2, <2>3 DEF ForkInv
<1>4. PidInv'
  <2>1. \A r \in Slot : pid'[r] = IF r = q THEN nextpid ELSE pid[r]
    BY <1>i, <1>q DEF TypeOK
  <2>2. nextpid' = nextpid + 1 /\ nextpid \in Nat /\ \A r \in Slot : pid[r] \in Nat
    BY <1>i, <1>f, ProcAssumption, SMT DEF TypeOK
  <2> QED BY <1>i, <1>s, <2>1, <2>2, SMT DEF PidInv
<1>5. ParentInv'
  <2>1. parent' = parent /\ parent[q] = NULL
    BY <1>i, <1>e, <1>b DEF ParentInv
  <2>2. \A r \in Slot : pc'[r] = "publish" => pc[r] = "publish" /\ np'[r] = np[r]
    BY <1>n
  <2>3. \A r \in Slot : pc[r] = "publish" => pc'[r] = "publish" /\ np'[r] = np[r]
    BY <1>n, <1>a
  <2>4. \A r \in Slot : /\ state'[r] \in Live <=> state[r] \in Live
                        /\ r # q => state'[r] = state[r]
    BY <1>s, <1>b DEF Live
  <2>5. state'[q] = "EMBRYO"
    BY <1>s
  <2> QED BY <1>i, <2>1, <2>2, <2>3, <2>4, <2>5, SMT DEF ParentInv, Live
<1>6. SleepersKept
  BY <1>e, <1>s DEF SleepersKept
<1>7. OwnInv'
  BY <1>i, <1>e, <1>s, <1>n, <1>b, SMT DEF OwnInv, SlotOwnership, Forking
<1>8. CtxInv'
  BY <1>i, <1>e, <1>s, <1>n, <1>a, SMT DEF CtxInv, Live, Forking
<1> QED BY <1>1, <1>2, <1>3, <1>4, <1>5, <1>6, <1>7, <1>8, CpusKeptStep, SleepersKeptStep DEF IInv

\* fork moves on before it names the parent.
ForkMoves ==
  /\ \A q \in Slot : /\ pc'[q] \in Forking <=> pc[q] \in Forking
                     /\ pc'[q] = "publish" <=> pc[q] = "publish"
  /\ state' = state /\ pid' = pid /\ parent' = parent /\ nextpid' = nextpid
  /\ np' = np /\ cproc' = cproc

\* The tree and the pids do not notice.
LEMMA ForkMovesStep ==
  ASSUME IInv, ForkMoves
  PROVE  RunInv' /\ ForkInv' /\ PidInv' /\ ParentInv'
<1>i. RunInv /\ ForkInv /\ PidInv /\ ParentInv
  BY DEF IInv
<1>1. RunInv' /\ PidInv'
  BY <1>i DEF ForkMoves, RunInv, RunningOnOneCpu, PidInv
<1>2. ForkInv'
  BY <1>i DEF ForkMoves, ForkInv
<1>3. ParentInv'
  BY <1>i DEF ForkMoves, ParentInv
<1> QED BY <1>1, <1>2, <1>3

\* allocproc gets a kernel stack for its EMBRYO.
LEMMA ForkKallocIInv ==
  ASSUME IInv, NEW c \in CPU, NEW p \in Slot, ForkKalloc(c, p)
  PROVE  IInv'
<1>i. TypeOK /\ ForkInv /\ OwnInv /\ CtxInv
  BY DEF IInv
<1>e. /\ state' = state /\ pid' = pid /\ parent' = parent /\ killed' = killed /\ chan' = chan
      /\ pgdir' = pgdir /\ nextpid' = nextpid /\ ptlock' = ptlock /\ cproc' = cproc /\ scan' = scan
      /\ np' = np
  BY DEF ForkKalloc, slotvars, cpuvars
<1>f. /\ kstack' = [kstack EXCEPT ![np[p]] = TRUE] /\ ctx' = [ctx EXCEPT ![np[p]] = "forkret"]
      /\ pc' = [pc EXCEPT ![p] = "copyuvm"] /\ pc[p] = "kalloc" /\ Runs(c, p)
  BY DEF ForkKalloc, Goto
<1>q. PICK q \in Slot : q = np[p] /\ state[q] = "EMBRYO"
  BY <1>i, <1>f DEF ForkInv, Forking
<1>a. state[p] = "RUNNING" /\ ctx[p] = "none" /\ pc[p] = "kalloc"
  BY <1>f, RunsIsRunning DEF Runs
<1>n. \A r \in Slot : pc'[r] = IF r = p THEN "copyuvm" ELSE pc[r]
  BY <1>i, <1>f DEF TypeOK
<1>c. \A r \in Slot : /\ ctx'[r] = IF r = q THEN "forkret" ELSE ctx[r]
                      /\ kstack'[r] <=> (r = q \/ kstack[r])
  BY <1>i, <1>q, <1>f DEF TypeOK
<1>b. q # p /\ \A r \in Slot \ {p} : pc[r] \in Forking => np[r] # q
  BY <1>i, <1>q, <1>a DEF ForkInv, Forking
<1>1. TypeOK'
  BY <1>i, <1>q, <1>e, <1>f DEF TypeOK
<1>2. ForkMoves
  BY <1>e, <1>n, <1>a DEF ForkMoves, Forking
<1>3. SleepersKept
  BY <1>e, <1>c DEF SleepersKept
<1>4. OwnInv'
  <2>1. SlotOwnership'
    BY <1>i, <1>e, <1>c, <1>q DEF OwnInv, SlotOwnership
  <2>2. ASSUME NEW r \in Slot
        PROVE  /\ pc'[r] = "kalloc" => ~kstack'[np[r]] /\ ~pgdir[np[r]]
               /\ pc'[r] = "copyuvm" => kstack'[np[r]] /\ ~pgdir[np[r]]
               /\ pc'[r] \in {"parent", "publish"} => kstack'[np[r]] /\ pgdir[np[r]]
    <3>1. CASE r = p
      BY <1>i, <1>n, <1>c, <1>q, <1>a, <3>1 DEF OwnInv
    <3>2. CASE r # p /\ pc[r] \in Forking
      <4>1. np[r] \in Slot /\ np[r] # q /\ pc'[r] = pc[r]
        BY <1>i, <1>b, <1>n, <3>2 DEF ForkInv
      <4> QED BY <1>i, <1>c, <4>1 DEF OwnInv
    <3> QED BY <1>n, <3>1, <3>2 DEF Forking
  <2> QED BY <1>e, <2>1, <2>2 DEF OwnInv
<1>5. CtxInv'
  <2>1. \A r \in Slot : pc[r] \in Forking => np[r] \in Slot
    BY <1>i DEF ForkInv
  <2> QED BY <1>i, <1>e, <1>n, <1>c, <1>q, <1>a, <1>b, <2>1, SMT DEF CtxInv, Live, Forking
<1> QED BY <1>1, <1>2, <1>3, <1>4, <1>5, ForkMovesStep, SleepersKeptStep DEF IInv

\* fork gets a page directory for the child.
LEMMA ForkCopyuvmIInv ==
  ASSUME IInv, NEW c \in CPU, NEW p \in Slot, ForkCopyuvm(c, p)
  PROVE  IInv'
<1>i. TypeOK /\ ForkInv /\ OwnInv /\ CtxInv
  BY DEF IInv
<1>e. /\ state' = state /\ pid' = pid /\ parent' = parent /\ killed' = killed /\ chan' = chan
      /\ kstack' = kstack /\ nextpid' = nextpid /\ ptlock' = ptlock /\ cproc' = cproc /\ scan' = scan
      /\ np' = np /\ ctx' = ctx
  BY DEF ForkCopyuvm, slotvars, cpuvars
<1>f. /\ pgdir' = [pgdir EXCEPT ![np[p]] = TRUE]
      /\ pc' = [pc EXCEPT ![p] = "parent"] /\ pc[p] = "copyuvm" /\ Runs(c, p)
  BY DEF ForkCopyuvm, Goto
<1>q. PICK q \in Slot : q = np[p] /\ state[q] = "EMBRYO"
  BY <1>i, <1>f DEF ForkInv, Forking
<1>a. state[p] = "RUNNING" /\ ctx[p] = "none" /\ pc[p] = "copyuvm"
  BY <1>f, RunsIsRunning DEF Runs
<1>n. \A r \in Slot : pc'[r] = IF r = p THEN "parent" ELSE pc[r]
  BY <1>i, <1>f DEF TypeOK
<1>c. \A r \in Slot : pgdir'[r] <=> (r = q \/ pgdir[r])
  BY <1>i, <1>q, <1>f DEF TypeOK
<1>b. q # p /\ \A r \in Slot \ {p} : pc[r] \in Forking => np[r] # q
  BY <1>i, <1>q, <1>a DEF ForkInv, Forking
<1>1. TypeOK'
  BY <1>i, <1>q, <1>e, <1>f DEF TypeOK
<1>2. ForkMoves
  BY <1>e, <1>n, <1>a DEF ForkMoves, Forking
<1>3. SleepersKept
  BY <1>e DEF SleepersKept
<1>4. OwnInv'
  <2>1. SlotOwnership'
    BY <1>i, <1>e, <1>c, <1>q DEF OwnInv, SlotOwnership
  <2>2. ASSUME NEW r \in Slot
        PROVE  /\ pc'[r] = "kalloc" => ~kstack[np[r]] /\ ~pgdir'[np[r]]
               /\ pc'[r] = "copyuvm" => kstack[np[r]] /\ ~pgdir'[np[r]]
               /\ pc'[r] \in {"parent", "publish"} => kstack[np[r]] /\ pgdir'[np[r]]
    <3>1. CASE r = p
      BY <1>i, <1>n, <1>c, <1>q, <1>a, <3>1 DEF OwnInv
    <3>2. CASE r # p /\ pc[r] \in Forking
      <4>1. np[r] \in Slot /\ np[r] # q /\ pc'[r] = pc[r]
        BY <1>i, <1>b, <1>n, <3>2 DEF ForkInv
      <4> QED BY <1>i, <1>c, <4>1 DEF OwnInv
    <3> QED BY <1>n, <3>1, <3>2 DEF Forking
  <2> QED BY <1>e, <2>1, <2>2 DEF OwnInv
<1>5. CtxInv'
  BY <1>i, <1>e, <1>n, <1>a, SMT DEF CtxInv, Live, Forking
<1> QED BY <1>1, <1>2, <1>3, <1>4, <1>5, ForkMovesStep, SleepersKeptStep DEF IInv

\* Without a stack, or without a page directory, fork gives the slot back.
LEMMA ForkGivesUpIInv ==
  ASSUME IInv, NEW c \in CPU, NEW p \in Slot, ForkKallocFails(c, p) \/ ForkCopyuvmFails(c, p)
  PROVE  IInv'
<1>i. TypeOK /\ ForkInv /\ PidInv /\ ParentInv /\ OwnInv /\ CtxInv
  BY DEF IInv
<1>e. /\ pid' = pid /\ parent' = parent /\ killed' = killed /\ chan' = chan /\ pgdir' = pgdir
      /\ nextpid' = nextpid /\ ptlock' = ptlock /\ cproc' = cproc /\ scan' = scan /\ ctx' = ctx
  BY DEF ForkKallocFails, ForkCopyuvmFails, memvars, cpuvars
<1>f. /\ state' = [state EXCEPT ![np[p]] = "UNUSED"] /\ np' = [np EXCEPT ![p] = NULL]
      /\ pc' = [pc EXCEPT ![p] = IF p = initproc THEN "exit" ELSE "kernel"]
      /\ pc[p] \in {"kalloc", "copyuvm"} /\ Runs(c, p)
  BY DEF ForkKallocFails, ForkCopyuvmFails, ForkFails, Goto
<1>g. \/ pc[p] = "kalloc" /\ kstack' = kstack
      \/ kstack' = [kstack EXCEPT ![np[p]] = FALSE]
  BY DEF ForkKallocFails, ForkCopyuvmFails, memvars
<1>q. PICK q \in Slot : q = np[p] /\ state[q] = "EMBRYO"
  BY <1>i, <1>f DEF ForkInv, Forking
<1>a. state[p] = "RUNNING" /\ ctx[p] = "none" /\ pc[p] \in {"kalloc", "copyuvm"}
  BY <1>f, RunsIsRunning DEF Runs
<1>h. parent[q] = NULL
  BY <1>q, <1>a, ForkChild DEF Forking
<1>b. /\ q # p /\ q # initproc
      /\ \A r \in Slot \ {p} : pc[r] \in Forking => r # q /\ np[r] # q
  BY <1>i, <1>q, <1>a DEF ForkInv, Forking, Live
<1>s. \A r \in Slot : state'[r] = IF r = q THEN "UNUSED" ELSE state[r]
  BY <1>i, <1>q, <1>f DEF TypeOK
<1>n. /\ pc'[p] \in {"exit", "kernel"}
      /\ \A r \in Slot \ {p} : pc'[r] = pc[r] /\ np'[r] = np[r]
  BY <1>i, <1>f DEF TypeOK
<1>k. /\ ~kstack'[q] /\ kstack' \in [Slot -> BOOLEAN] /\ \A r \in Slot \ {q} : kstack'[r] = kstack[r]
  BY <1>i, <1>g, <1>q DEF TypeOK, OwnInv
<1>l. \A r \in Slot : /\ state'[r] \in Live <=> state[r] \in Live
                      /\ state'[r] = "ZOMBIE" <=> state[r] = "ZOMBIE"
  BY <1>s, <1>q DEF Live
<1>1. TypeOK'
  <2>1. np' \in [Slot -> Slot \cup {NULL}] /\ state' \in [Slot -> States]
    BY <1>i, <1>f, <1>q DEF TypeOK, States
  <2>2. pc' \in [Slot -> {"user", "kernel", "kalloc", "copyuvm", "parent", "publish", "exit", "panic"}]
    BY <1>i, <1>f DEF TypeOK
  <2> QED BY <1>i, <1>e, <1>k, <2>1, <2>2 DEF TypeOK
<1>2. CpusKept
  BY <1>e, <1>s, <1>q DEF CpusKept
<1>3. ForkInv'
  <2>1. state'[initproc] \in Live
    BY <1>i, <1>l, SlotFacts DEF ForkInv
  <2>2. \A r \in Slot : pc'[r] \in Forking => r # p /\ pc'[r] = pc[r] /\ np'[r] = np[r]
    BY <1>n DEF Forking
  <2>3. ASSUME NEW r \in Slot, pc'[r] \in Forking
        PROVE  state'[r] \in {"RUNNABLE", "RUNNING"} /\ np'[r] \in Slot /\ state'[np'[r]] = "EMBRYO"
    BY <1>i, <1>s, <1>b, <2>2, <2>3, SMT DEF ForkInv
  <2>4. \A r, t \in Slot : pc'[r] \in Forking /\ pc'[t] \in Forking /\ np'[r] = np'[t] => r = t
    BY <1>i, <2>2, SMT DEF ForkInv
  <2> QED BY <2>1, <2>3, <2>4 DEF ForkInv
<1>4. PidInv'
  BY <1>i, <1>e, <1>s, <1>q DEF PidInv
<1>5. ParentInv'
  <2>1. parent' = parent /\ parent[q] = NULL
    BY <1>e, <1>h
  <2>2. \A r \in Slot : pc'[r] = "publish" <=> pc[r] = "publish"
    BY <1>n, <1>a
  <2>3. \A r \in Slot : pc[r] = "publish" => np'[r] = np[r]
    BY <1>n, <1>a
  <2>4. \A r \in Slot : r # q => state'[r] = state[r]
    BY <1>s
  <2>5. state'[q] = "UNUSED"
    BY <1>s
  <2> QED BY <1>i, <1>l, <2>1, <2>2, <2>3, <2>4, <2>5, SMT DEF ParentInv, Live
<1>6. SleepersKept
  BY <1>e, <1>s DEF SleepersKept
<1>7. OwnInv'
  <2>1. pgdir' = pgdir /\ ~pgdir[q]
    BY <1>i, <1>e, <1>q, <1>a DEF OwnInv
  <2>2. SlotOwnership'
    BY <1>i, <1>s, <1>k, <2>1 DEF OwnInv, SlotOwnership
  <2>3. ASSUME NEW r \in Slot
        PROVE  /\ pc'[r] = "kalloc" => ~kstack'[np'[r]] /\ ~pgdir[np'[r]]
               /\ pc'[r] = "copyuvm" => kstack'[np'[r]] /\ ~pgdir[np'[r]]
               /\ pc'[r] \in {"parent", "publish"} => kstack'[np'[r]] /\ pgdir[np'[r]]
    <3>1. CASE r # p /\ pc[r] \in Forking
      <4>1. np[r] \in Slot \ {q} /\ pc'[r] = pc[r] /\ np'[r] = np[r]
        BY <1>i, <1>b, <1>n, <3>1 DEF ForkInv
      <4> QED BY <1>i, <1>k, <4>1 DEF OwnInv
    <3> QED BY <1>n, <3>1 DEF Forking
  <2> QED BY <2>1, <2>2, <2>3 DEF OwnInv
<1>8. CtxInv'
  <2>1. \A r \in Slot : pc'[r] \in Forking => pc'[r] = pc[r] /\ np'[r] = np[r]
    BY <1>n DEF Forking
  <2>2. ctx' = ctx /\ ctx[p] = "none"
    BY <1>e, <1>a
  <2> QED BY <1>i, <1>l, <1>n, <2>1, <2>2, SMT DEF CtxInv
<1> QED BY <1>1, <1>2, <1>3, <1>4, <1>5, <1>6, <1>7, <1>8, CpusKeptStep, SleepersKeptStep DEF IInv

\* fork names the parent and copies its fields.
LEMMA ForkParentIInv ==
  ASSUME IInv, NEW c \in CPU, NEW p \in Slot, ForkParent(c, p)
  PROVE  IInv'
<1>i. TypeOK /\ ForkInv /\ PidInv /\ ParentInv /\ WaitInv /\ OwnInv /\ CtxInv
  BY DEF IInv
<1>e. /\ state' = state /\ pid' = pid /\ killed' = killed /\ chan' = chan /\ kstack' = kstack
      /\ pgdir' = pgdir /\ nextpid' = nextpid /\ ptlock' = ptlock /\ cproc' = cproc /\ scan' = scan
      /\ np' = np /\ ctx' = ctx
  BY DEF ForkParent, memvars, cpuvars
<1>f. /\ parent' = [parent EXCEPT ![np[p]] = p] /\ pc[p] = "parent" /\ Runs(c, p)
      /\ pc' = [pc EXCEPT ![p] = "publish", ![np[p]] = "user"]
  BY DEF ForkParent
<1>a. state[p] = "RUNNING" /\ ctx[p] = "none" /\ pc[p] = "parent"
  BY <1>f, RunsIsRunning DEF Runs
<1>q. PICK q \in Slot : q = np[p] /\ state[q] = "EMBRYO" /\ parent[q] = NULL
  BY <1>a, ForkChild DEF Forking
<1>b. /\ q # p /\ q # initproc /\ pc[q] \notin Forking
      /\ \A r \in Slot \ {p} : pc[r] \in Forking => np[r] # q
  BY <1>i, <1>q, <1>a, ForkChild DEF ForkInv, Forking
<1>n. \A r \in Slot : /\ pc'[r] = IF r = q THEN "user" ELSE IF r = p THEN "publish" ELSE pc[r]
                      /\ parent'[r] = IF r = q THEN p ELSE parent[r]
  BY <1>i, <1>q, <1>b, <1>f DEF TypeOK
<1>g. \A r \in Slot : pc'[r] \in Forking <=> pc[r] \in Forking
  BY <1>n, <1>a, <1>b DEF Forking
<1>1. TypeOK'
  BY <1>i, <1>q, <1>e, <1>f DEF TypeOK
<1>2. CpusKept
  BY <1>e DEF CpusKept
<1>3. ForkInv'
  BY <1>i, <1>e, <1>g DEF ForkInv
<1>4. PidInv'
  BY <1>i, <1>e DEF PidInv
<1>5. ParentInv'
  <2>1. parent'[initproc] = NULL /\ \A r \in Slot : parent'[r] # r
    BY <1>i, <1>n, <1>b, SlotFacts, SMT DEF ParentInv
  <2>2. \A r \in Slot : pc[r] = "publish" => pc'[r] = "publish"
    BY <1>n, <1>b DEF Forking
  <2>3. ASSUME NEW r \in Slot \ {initproc}
        PROVE  /\ state[r] \in Live \cup {"ZOMBIE"} => parent'[r] \in Slot /\ state[parent'[r]] \in Live
               /\ state[r] = "UNUSED" => parent'[r] = NULL
               /\ state[r] = "EMBRYO" =>
                    \/ parent'[r] = NULL
                    \/ parent'[r] \in Slot /\ pc'[parent'[r]] = "publish" /\ np[parent'[r]] = r
    <3>1. CASE r = q
      BY <1>n, <1>q, <1>b, <3>1 DEF Live
    <3>2. CASE r # q
      BY <1>i, <1>n, <2>2, <3>2 DEF ParentInv
    <3> QED BY <3>1, <3>2
  <2>4. ASSUME NEW r \in Slot, pc'[r] = "publish" PROVE parent'[np[r]] = r
    <3>1. CASE r = p
      BY <1>n, <1>q, <3>1
    <3>2. CASE r # p
      <4>1. pc[r] = "publish" /\ np[r] \in Slot \ {q}
        BY <1>i, <1>n, <1>b, <2>4, <3>2 DEF ForkInv, Forking
      <4> QED BY <1>i, <1>n, <4>1 DEF ParentInv
    <3> QED BY <3>1, <3>2
  <2> QED BY <1>e, <2>1, <2>3, <2>4 DEF ParentInv
<1>6. WaitInv'
  <2>0. \A w \in Slot \ {p}, r \in Slot : parent'[r] = w <=> parent[r] = w
    BY <1>n, <1>q, SlotFacts
  <2>1. \A w \in Slot \ {p} : Children(w)' = Children(w)
    BY <2>0 DEF Children
  <2>2. state' = state /\ killed' = killed /\ chan' = chan /\ ctx' = ctx /\ state[p] # "SLEEPING"
    BY <1>e, <1>a
  <2> QED BY <1>i, <2>1, <2>2 DEF WaitInv, WaiterHasNothingToDo
<1>7. OwnInv'
  <2>1. SlotOwnership'
    BY <1>i, <1>e DEF OwnInv, SlotOwnership
  <2> QED BY <1>i, <1>e, <1>n, <1>a, <2>1 DEF OwnInv
<1>8. CtxInv'
  BY <1>i, <1>e, <1>n, <1>a, <1>q, SMT DEF CtxInv, Live, Forking
<1> QED BY <1>1, <1>2, <1>3, <1>4, <1>5, <1>6, <1>7, <1>8, CpusKeptStep DEF IInv

\* fork makes the finished child RUNNABLE.
LEMMA ForkPublishIInv ==
  ASSUME IInv, NEW c \in CPU, NEW p \in Slot, ForkPublish(c, p)
  PROVE  IInv'
<1>i. TypeOK /\ ForkInv /\ PidInv /\ ParentInv /\ OwnInv /\ CtxInv
  BY DEF IInv
<1>e. /\ pid' = pid /\ parent' = parent /\ killed' = killed /\ chan' = chan /\ kstack' = kstack
      /\ pgdir' = pgdir /\ nextpid' = nextpid /\ ptlock' = ptlock /\ cproc' = cproc /\ scan' = scan
      /\ ctx' = ctx
  BY DEF ForkPublish, memvars, cpuvars
<1>f. /\ state' = [state EXCEPT ![np[p]] = "RUNNABLE"] /\ np' = [np EXCEPT ![p] = NULL]
      /\ pc' = [pc EXCEPT ![p] = "kernel"] /\ pc[p] = "publish" /\ Runs(c, p)
  BY DEF ForkPublish, Goto
<1>a. state[p] = "RUNNING" /\ ctx[p] = "none" /\ pc[p] = "publish"
  BY <1>f, RunsIsRunning DEF Runs
<1>q. PICK q \in Slot : q = np[p] /\ state[q] = "EMBRYO" /\ parent[q] = p
  BY <1>i, <1>a DEF ForkInv, ParentInv, Forking
<1>b. /\ q # p /\ q # initproc /\ pc[q] \notin Forking
      /\ \A r \in Slot \ {p} : pc[r] \in Forking => np[r] # q
  BY <1>i, <1>q, <1>a, ForkChild DEF ForkInv, Forking
<1>s. \A r \in Slot : state'[r] = IF r = q THEN "RUNNABLE" ELSE state[r]
  BY <1>i, <1>q, <1>f DEF TypeOK
<1>n. \A r \in Slot : /\ pc'[r] = IF r = p THEN "kernel" ELSE pc[r]
                      /\ r # p => np'[r] = np[r]
  BY <1>i, <1>f DEF TypeOK
<1>g. \A r \in Slot : pc'[r] \in Forking => r # p /\ pc'[r] = pc[r] /\ np'[r] = np[r]
  BY <1>n DEF Forking
<1>1. TypeOK'
  BY <1>i, <1>q, <1>e, <1>f DEF TypeOK, States
<1>2. CpusKept
  BY <1>e, <1>s, <1>q DEF CpusKept
<1>3. ForkInv'
  <2>1. state'[initproc] \in Live
    BY <1>i, <1>s, <1>b, SlotFacts DEF ForkInv
  <2>2. ASSUME NEW r \in Slot, pc'[r] \in Forking
        PROVE  state'[r] \in {"RUNNABLE", "RUNNING"} /\ np'[r] \in Slot /\ state'[np'[r]] = "EMBRYO"
    BY <1>i, <1>s, <1>b, <1>g, <2>2, SMT DEF ForkInv
  <2>3. \A r, t \in Slot : pc'[r] \in Forking /\ pc'[t] \in Forking /\ np'[r] = np'[t] => r = t
    BY <1>i, <1>g, SMT DEF ForkInv
  <2> QED BY <2>1, <2>2, <2>3 DEF ForkInv
<1>4. PidInv'
  BY <1>i, <1>e, <1>s, <1>q DEF PidInv
<1>5. ParentInv'
  <2>1. parent' = parent /\ parent[q] = p
    BY <1>e, <1>q
  <2>2. \A r \in Slot \ {p} : pc'[r] = pc[r] /\ np'[r] = np[r]
    BY <1>n
  <2>3. ASSUME NEW r \in Slot \ {initproc}
        PROVE  /\ state'[r] \in Live \cup {"ZOMBIE"} => parent[r] \in Slot /\ state'[parent[r]] \in Live
               /\ state'[r] = "UNUSED" => parent[r] = NULL
               /\ state'[r] = "EMBRYO" =>
                    \/ parent[r] = NULL
                    \/ parent[r] \in Slot /\ pc'[parent[r]] = "publish" /\ np'[parent[r]] = r
    <3>1. CASE r = q
      BY <1>s, <1>a, <1>b, <2>1, <3>1 DEF Live
    <3>2. CASE r # q
      <4>1. state'[r] = state[r] /\ (parent[r] = p => np[p] # r)
        BY <1>s, <1>q, <3>2
      <4>2. \A t \in Slot : state[t] \in Live => state'[t] \in Live
        BY <1>s DEF Live
      <4> QED BY <1>i, <2>2, <4>1, <4>2 DEF ParentInv
    <3> QED BY <3>1, <3>2
  <2>4. ASSUME NEW r \in Slot, pc'[r] = "publish" PROVE parent[np'[r]] = r
    BY <1>i, <1>n, <2>4, SMT DEF ParentInv
  <2> QED BY <1>i, <2>1, <2>3, <2>4 DEF ParentInv
<1>6. SleepersKept
  BY <1>e, <1>s DEF SleepersKept
<1>7. OwnInv'
  <2>1. kstack' = kstack /\ pgdir' = pgdir /\ kstack[q] /\ pgdir[q]
    BY <1>i, <1>e, <1>q, <1>a DEF OwnInv
  <2>2. SlotOwnership'
    BY <1>i, <1>s, <2>1 DEF OwnInv, SlotOwnership
  <2> QED BY <1>i, <1>g, <2>1, <2>2 DEF OwnInv, Forking
<1>8. CtxInv'
  <2>1. ctx' = ctx /\ ctx[q] = "forkret" /\ pc'[q] # "panic"
    BY <1>i, <1>e, <1>q, <1>a, <1>n, <1>b, SMT DEF CtxInv, Forking
  <2> QED BY <1>i, <1>s, <1>n, <1>g, <1>a, <2>1, SMT DEF CtxInv, Live
<1> QED BY <1>1, <1>2, <1>3, <1>4, <1>5, <1>6, <1>7, <1>8, CpusKeptStep, SleepersKeptStep DEF IInv

-----------------------------------------------------------------------------
(* exit and wait.                                                           *)

\* exit wakes the parent, passes its children to init and becomes a ZOMBIE.
LEMMA ExitIInv ==
  ASSUME IInv, NEW c \in CPU, NEW p \in Slot, exit(c, p)
  PROVE  IInv'
<1>i. TypeOK /\ ForkInv /\ PidInv /\ ParentInv /\ WaitInv /\ OwnInv /\ CtxInv
  BY DEF IInv
<1>f. Runs(c, p) /\ pc[p] = "exit" /\ p # initproc
  BY DEF exit
<1>a. cproc[c] = p /\ state[p] = "RUNNING" /\ pc[p] = "exit" /\ p # initproc
  BY <1>f, RunsIsRunning DEF Runs
<1>b. /\ state' \in [Slot -> States] /\ state'[p] = "ZOMBIE"
      /\ \A q \in Slot \ {p} : state'[q] = state[q] \/ (state[q] = "SLEEPING" /\ state'[q] = "RUNNABLE")
  BY <1>i DEF exit, wakeup1, TypeOK, States
<1>c. \A q \in Slot : state'[q] = "SLEEPING" =>
        /\ chan[q] # parent[p]
        /\ chan[q] = initproc => \A r \in Children(p) : state[r] # "ZOMBIE"
  BY <1>i DEF exit, wakeup1, TypeOK
<1>d. parent' = [q \in Slot |-> IF parent[q] = p THEN initproc ELSE parent[q]]
  BY DEF exit
<1>e. /\ cproc' = [cproc EXCEPT ![c] = NULL] /\ ptlock' = c /\ scan' = scan
      /\ ctx' = [ctx EXCEPT ![p] = "zombie"]
      /\ pid' = pid /\ killed' = killed /\ chan' = chan /\ kstack' = kstack
      /\ pgdir' = pgdir /\ nextpid' = nextpid /\ pc' = pc /\ np' = np
  BY DEF exit, sched, memvars
<1>n. \A q \in Slot : parent'[q] = IF parent[q] = p THEN initproc ELSE parent[q]
  BY <1>d
<1>l. /\ \A q \in Slot \ {p} : state[q] \in Live <=> state'[q] \in Live
      /\ \A q \in Slot : \A st \in {"UNUSED", "EMBRYO"} : state'[q] = st <=> state[q] = st
      /\ \A q \in Slot \ {p} : state'[q] = "ZOMBIE" <=> state[q] = "ZOMBIE"
  BY <1>a, <1>b DEF Live
<1>1. TypeOK'
  <2>1. parent' \in [Slot -> Slot \cup {NULL}]
    BY <1>i, <1>d, SlotFacts DEF TypeOK
  <2> QED BY <1>i, <1>b, <1>e, <2>1, SlotFacts DEF TypeOK
<1>2. LeavesCpu(c, p)
  BY <1>a, <1>b, <1>e DEF LeavesCpu
<1>3. ForkInv'
  <2>1. state'[initproc] \in Live
    BY <1>i, <1>a, <1>l, SlotFacts DEF ForkInv
  <2>2. ASSUME NEW q \in Slot, pc[q] \in Forking
        PROVE  /\ state'[q] \in {"RUNNABLE", "RUNNING"}
               /\ np[q] \in Slot
               /\ state'[np[q]] = "EMBRYO"
    <3>1. q # p
      BY <1>a, <2>2 DEF Forking
    <3> QED BY <1>i, <1>b, <1>l, <2>2, <3>1 DEF ForkInv
  <2>3. pc' = pc /\ np' = np
    BY <1>e
  <2> QED BY <1>i, <2>1, <2>2, <2>3 DEF ForkInv
<1>4. PidInv'
  BY <1>i, <1>e, <1>l DEF PidInv
<1>5. ParentInv'
  <2>1. parent'[initproc] = NULL /\ \A q \in Slot : parent'[q] # q
    BY <1>i, <1>a, <1>n, SlotFacts, SMT DEF ParentInv
  <2>2. ASSUME NEW q \in Slot \ {initproc}
        PROVE  /\ state'[q] \in Live \cup {"ZOMBIE"} =>
                    parent'[q] \in Slot /\ state'[parent'[q]] \in Live
               /\ state'[q] = "UNUSED" => parent'[q] = NULL
               /\ state'[q] = "EMBRYO" =>
                    \/ parent'[q] = NULL
                    \/ parent'[q] \in Slot /\ pc[parent'[q]] = "publish" /\ np[parent'[q]] = q
    <3>1. state'[q] \in Live \cup {"ZOMBIE"} => state[q] \in Live \cup {"ZOMBIE"}
      BY <1>a, <1>l DEF Live
    <3>2. state[initproc] \in Live /\ initproc \in Slot \ {p}
      BY <1>i, <1>a, SlotFacts DEF ForkInv
    <3>3. state[q] \in {"UNUSED", "EMBRYO"} => parent[q] # p
      BY <1>i, <1>a, SlotFacts DEF ParentInv
    <3> QED BY <1>i, <1>n, <1>l, <3>1, <3>2, <3>3, SMT DEF ParentInv
  <2>3. ASSUME NEW q \in Slot, pc[q] = "publish" PROVE parent'[np[q]] = q
    <3>1. np[q] \in Slot /\ parent[np[q]] = q /\ q # p
      BY <1>i, <1>a, <2>3 DEF ParentInv, ForkInv, Forking
    <3> QED BY <1>n, <3>1
  <2>4. pc' = pc /\ np' = np
    BY <1>e
  <2> QED BY <2>1, <2>2, <2>3, <2>4 DEF ParentInv
<1>6. WaitInv'
  <2>1. SUFFICES ASSUME NEW w \in Slot, state'[w] = "SLEEPING", ctx'[w] = "wait"
                 PROVE  /\ Children(w)' # {}
                        /\ \A q \in Children(w)' : state'[q] # "ZOMBIE"
                        /\ ~killed'[w]
                        /\ chan'[w] = w
    BY DEF WaitInv, WaiterHasNothingToDo
  <2>2. w # p /\ state[w] = "SLEEPING" /\ ctx[w] = "wait"
    BY <1>i, <1>b, <1>e, <2>1 DEF TypeOK
  <2>3. /\ chan[w] = w /\ ~killed[w] /\ Children(w) # {}
        /\ \A q \in Children(w) : state[q] # "ZOMBIE"
    BY <1>i, <2>2 DEF WaitInv, WaiterHasNothingToDo
  <2>4. \A q \in Slot : parent'[q] = w <=> parent[q] = w \/ (w = initproc /\ parent[q] = p)
    BY <1>n, <1>a, <2>2
  <2>5. parent[p] # w /\ parent[p] # p
    BY <1>i, <1>c, <2>1, <2>3 DEF ParentInv
  <2>6. ASSUME NEW q \in Children(w)' PROVE q \in Slot /\ q # p /\ state[q] # "ZOMBIE"
    <3>1. q \in Slot /\ (q \in Children(w) \/ (w = initproc /\ q \in Children(p)))
      BY <2>4, <2>6 DEF Children
    <3>2. q # p
      BY <2>5, <3>1 DEF Children
    <3> QED BY <1>c, <2>1, <2>3, <3>1, <3>2
  <2>7. Children(w)' # {}
    BY <2>3, <2>4 DEF Children
  <2> QED BY <1>e, <1>l, <2>3, <2>6, <2>7
<1>7. OwnInv'
  <2>1. kstack' = kstack /\ pgdir' = pgdir /\ pc' = pc /\ np' = np
    BY <1>e
  <2>2. SlotOwnership'
    BY <1>i, <1>l, <1>a, <2>1 DEF OwnInv, SlotOwnership
  <2> QED BY <1>i, <2>1, <2>2 DEF OwnInv
<1>8. CtxInv'
  <2>1. \A q \in Slot : ctx'[q] = IF q = p THEN "zombie" ELSE ctx[q]
    BY <1>i, <1>e DEF TypeOK
  <2>2. \A q \in Slot : pc[q] \in Forking => np[q] \in Slot \ {p}
    BY <1>i, <1>a DEF ForkInv
  <2>3. state'[p] \notin Live /\ pc' = pc /\ np' = np
    BY <1>b, <1>e DEF Live
  <2> QED BY <1>i, <1>l, <2>1, <2>2, <2>3, SMT DEF CtxInv
<1> QED BY <1>1, <1>2, <1>3, <1>4, <1>5, <1>6, <1>7, <1>8, LeavesCpuStep DEF IInv

\* wait frees the stack and the directory of a ZOMBIE child.
LEMMA WaitReapIInv ==
  ASSUME IInv, NEW c \in CPU, NEW p \in Slot, WaitReap(c, p)
  PROVE  IInv'
<1>i. TypeOK /\ ForkInv /\ PidInv /\ ParentInv /\ WaitInv /\ OwnInv /\ CtxInv
  BY DEF IInv
<1>q. PICK q \in Slot :
        /\ state[q] = "ZOMBIE" /\ parent[q] = p
        /\ state' = [state EXCEPT ![q] = "UNUSED"] /\ pid' = [pid EXCEPT ![q] = 0]
        /\ parent' = [parent EXCEPT ![q] = NULL] /\ killed' = [killed EXCEPT ![q] = FALSE]
        /\ kstack' = [kstack EXCEPT ![q] = FALSE] /\ pgdir' = [pgdir EXCEPT ![q] = FALSE]
  BY DEF WaitReap, IsFirst, Zombies, Children
<1>e. /\ chan' = [chan EXCEPT ![p] = NULL] /\ ctx' = [ctx EXCEPT ![p] = "none"] /\ ptlock' = NULL
      /\ nextpid' = nextpid /\ cproc' = cproc /\ scan' = scan /\ pc' = pc /\ np' = np
  BY DEF WaitReap, WaitReturns
<1>u. nextpid' = nextpid /\ cproc' = cproc /\ pc' = pc /\ np' = np
  BY <1>e
<1>a. state[p] = "RUNNING"
  <2>1. cproc[c] = p
    BY DEF WaitReap, InWait, Runs
  <2> QED BY <2>1, RunsIsRunning
<1>b. state[q] = "ZOMBIE" /\ parent[q] = p /\ q # p /\ q # initproc
  BY <1>i, <1>q, <1>a, SlotFacts DEF ParentInv
<1>d. \A r \in Slot : pc[r] \in Forking => r # q /\ np[r] \in Slot \ {q} /\ np[r] # p
  BY <1>i, <1>b, <1>a DEF ForkInv
<1>s. \A r \in Slot : state'[r] = IF r = q THEN "UNUSED" ELSE state[r]
  BY <1>i, <1>q DEF TypeOK
<1>p. \A r \in Slot : parent'[r] = IF r = q THEN NULL ELSE parent[r]
  BY <1>i, <1>q DEF TypeOK
<1>k. \A r \in Slot \ {q} : killed'[r] = killed[r] /\ pid'[r] = pid[r]
  BY <1>i, <1>q DEF TypeOK
<1>m. /\ ~kstack'[q] /\ ~pgdir'[q]
      /\ \A r \in Slot \ {q} : kstack'[r] = kstack[r] /\ pgdir'[r] = pgdir[r]
  BY <1>i, <1>q DEF TypeOK
<1>c. \A r \in Slot : /\ ctx'[r] = IF r = p THEN "none" ELSE ctx[r]
                      /\ r # p => chan'[r] = chan[r]
  BY <1>i, <1>e DEF TypeOK
<1>l. \A r \in Slot : state'[r] \in Live <=> state[r] \in Live
  BY <1>s, <1>b DEF Live
<1>1. TypeOK'
  <2>1. /\ state' \in [Slot -> States] /\ pid' \in [Slot -> 0..MaxPid + 1]
        /\ parent' \in [Slot -> Slot \cup {NULL}] /\ killed' \in [Slot -> BOOLEAN]
        /\ kstack' \in [Slot -> BOOLEAN] /\ pgdir' \in [Slot -> BOOLEAN]
    BY <1>i, <1>q, SlotFacts DEF TypeOK, States
  <2> QED BY <1>i, <1>e, <2>1, SlotFacts DEF TypeOK
<1>2. CpusKept
  BY <1>u, <1>s, <1>b DEF CpusKept
<1>3. ForkInv'
  <2>1. state'[initproc] \in Live
    BY <1>i, <1>l, SlotFacts DEF ForkInv
  <2> QED BY <1>i, <1>u, <1>s, <1>d, <2>1 DEF ForkInv
<1>4. PidInv'
  <2>1. pid'[q] = 0
    BY <1>i, <1>q DEF TypeOK
  <2>2. nextpid \in Nat /\ \A r \in Slot : pid[r] \in Nat
    BY <1>i, ProcAssumption, SMT DEF TypeOK
  <2> QED BY <1>i, <1>u, <1>s, <1>k, <2>1, <2>2, SMT DEF PidInv
<1>5. ParentInv'
  <2>1. parent'[initproc] = NULL /\ \A r \in Slot : parent'[r] # r
    BY <1>i, <1>p, SlotFacts, SMT DEF ParentInv
  <2>2. ASSUME NEW r \in Slot \ {initproc}
        PROVE  /\ state'[r] \in Live \cup {"ZOMBIE"} => parent'[r] \in Slot /\ state'[parent'[r]] \in Live
               /\ state'[r] = "UNUSED" => parent'[r] = NULL
               /\ state'[r] = "EMBRYO" =>
                    \/ parent'[r] = NULL
                    \/ parent'[r] \in Slot /\ pc[parent'[r]] = "publish" /\ np[parent'[r]] = r
    <3>1. CASE r = q
      BY <1>s, <1>p, <3>1 DEF Live
    <3>2. CASE r # q
      BY <1>i, <1>s, <1>p, <1>l, <3>2 DEF ParentInv
    <3> QED BY <3>1, <3>2
  <2>3. ASSUME NEW r \in Slot, pc[r] = "publish" PROVE parent'[np[r]] = r
    BY <1>i, <1>p, <1>d, <2>3 DEF ParentInv, Forking
  <2> QED BY <1>u, <2>1, <2>2, <2>3 DEF ParentInv
<1>6. WaitInv'
  <2>1. ASSUME NEW w \in Slot \ {p} PROVE Children(w)' = Children(w) /\ q \notin Children(w)
    <3>1. \A r \in Slot : parent'[r] = w <=> parent[r] = w
      BY <1>p, <1>b, SlotFacts
    <3> QED BY <3>1, <1>b DEF Children
  <2>2. ASSUME NEW w \in Slot, state'[w] = "SLEEPING", ctx'[w] = "wait"
        PROVE  w \notin {p, q} /\ state[w] = "SLEEPING" /\ ctx[w] = "wait"
    BY <1>s, <1>c, <2>2
  <2>3. ASSUME NEW w \in Slot, state'[w] = "SLEEPING", ctx'[w] = "wait"
        PROVE  /\ Children(w)' # {} /\ \A r \in Children(w)' : state'[r] # "ZOMBIE"
               /\ ~killed'[w] /\ chan'[w] = w
    <3>1. w \notin {p, q} /\ state[w] = "SLEEPING" /\ ctx[w] = "wait"
      BY <2>2, <2>3
    <3>2. /\ Children(w) # {} /\ \A r \in Children(w) : state[r] # "ZOMBIE"
          /\ ~killed[w] /\ chan[w] = w
      BY <1>i, <3>1 DEF WaitInv, WaiterHasNothingToDo
    <3>3. killed'[w] = killed[w] /\ chan'[w] = chan[w] /\ Children(w)' = Children(w)
      BY <1>k, <1>c, <2>1, <3>1
    <3>4. \A r \in Children(w) : r \in Slot
      BY DEF Children
    <3> QED BY <1>s, <3>2, <3>3, <3>4
  <2> QED BY <2>3 DEF WaitInv, WaiterHasNothingToDo
<1>7. OwnInv'
  <2>1. SlotOwnership'
    BY <1>i, <1>s, <1>m DEF OwnInv, SlotOwnership
  <2> QED BY <1>i, <1>u, <1>m, <1>d, <2>1 DEF OwnInv, Forking
<1>8. CtxInv'
  BY <1>i, <1>u, <1>c, <1>d, <1>l, SMT DEF CtxInv
<1> QED BY <1>1, <1>2, <1>3, <1>4, <1>5, <1>6, <1>7, <1>8, CpusKeptStep DEF IInv

-----------------------------------------------------------------------------
\* The invariant is inductive: one case for each step.
LEMMA NextIInv == IInv /\ [Next]_vars => IInv'
<1> SUFFICES ASSUME IInv, [Next]_vars PROVE IInv'
  OBVIOUS
<1>1. ASSUME NEW c \in CPU, SchedulerStep(c) PROVE IInv'
  BY <1>1, SchedulerLockIInv, SchedulerDispatchIInv DEF SchedulerStep
<1>2. ASSUME NEW c \in CPU, InitExits(c) PROVE IInv'
  BY <1>2, KernelEntryIInv, SlotFacts
<1>3. ASSUME NEW c \in CPU, NEW p \in Slot, ProcStep(c, p) PROVE IInv'
  <2>1. CASE Syscall(c, p) \/ SyscallReturn(c, p) \/ SysExit(c, p) \/ AllocprocFull(c, p)
    BY <2>1, KernelEntryIInv
  <2>2. CASE \E fault \in BOOLEAN : UserTrap(c, p, fault)
    BY <2>2, KernelEntryIInv
  <2>3. CASE \E n \in 0..MaxPid : kill(c, p, n)
    BY <2>3, WakesIInv
  <2>4. CASE ForkSteps(c, p)
    BY <2>4, ForkKallocIInv, ForkCopyuvmIInv, ForkGivesUpIInv, ForkParentIInv, ForkPublishIInv DEF ForkSteps
  <2>5. CASE wait(c, p)
    BY <2>5, WaitReapIInv, GoesOnIInv, WaitSleepsIInv DEF wait
  <2>6. CASE Resume(c, p) \/ yield(c, p) \/ sleep(c, p) \/ allocproc(c, p) \/ exit(c, p)
    BY <2>6, GoesOnIInv, GivesUpIInv, AllocprocIInv, ExitIInv
  <2> QED BY <1>3, <2>1, <2>2, <2>3, <2>4, <2>5, <2>6 DEF ProcStep
<1>4. CASE wakeup
  BY <1>4, WakesIInv
<1>5. CASE panic \/ UNCHANGED vars
  BY <1>5, StutterIInv DEF panic
<1> QED BY <1>1, <1>2, <1>3, <1>4, <1>5 DEF Next

-----------------------------------------------------------------------------
\* The invariant holds in every reachable state.
LEMMA SpecIInv == Spec => []IInv
BY InitIInv, NextIInv, PTL DEF Spec

\* Types, including the bounds on the pids handed out.
THEOREM TypeCorrect == Spec => []TypeOK
<1>1. IInv => TypeOK
  BY DEF IInv
<1> QED BY <1>1, SpecIInv, PTL

\* A process is RUNNING exactly while one CPU runs it.
THEOREM OneCpuPerProcess == Spec => []RunningOnOneCpu
<1>1. IInv => RunningOnOneCpu
  BY DEF IInv, RunInv
<1> QED BY <1>1, SpecIInv, PTL

\* Pids in use are distinct, and every process but init has a parent that is
\* neither free nor a zombie.
THEOREM LineageKept == Spec => []Lineage
<1>1. IInv => PidsUnique
  BY DEF IInv, PidInv, PidsUnique
<1>2. IInv => ParentLive
  BY SlotFacts, SMT DEF IInv, TypeOK, States, ParentInv, ParentLive, Live
<1>3. IInv => Lineage
  BY <1>1, <1>2 DEF Lineage
<1> QED BY <1>3, SpecIInv, PTL

\* No exit, reparenting or kill is missed by a process asleep in wait().
THEOREM NoMissedExit == Spec => []WaiterHasNothingToDo
<1>1. IInv => WaiterHasNothingToDo
  BY DEF IInv, WaitInv
<1> QED BY <1>1, SpecIInv, PTL

\* Stacks and page directories belong to processes, never to free slots.
THEOREM PagesBelongToProcesses == Spec => []SlotOwnership
<1>1. IInv => SlotOwnership
  BY DEF IInv, OwnInv
<1> QED BY <1>1, SpecIInv, PTL

\* panic("zombie exit") is unreachable under the RR scheduler.
THEOREM ZombiesStayDead == Spec => []NoZombieExit
<1>1. IInv => NoZombieExit
  BY DEF IInv, RunInv, RunningOnOneCpu, CtxInv, NoZombieExit, Live
<1> QED BY <1>1, SpecIInv, PTL
=============================================================================
