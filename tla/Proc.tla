-------------------------------- MODULE Proc --------------------------------
(***************************************************************************)
(* The process table (proc.c): allocation, fork, exit, wait and wait2,     *)
(* kill, sleep, wakeup, yield, and the round-robin scheduler loop of every *)
(* CPU, with the system call and trap exits that act on p->killed          *)
(* (trap.c).                                                               *)
(*                                                                         *)
(* A section that runs under ptable.lock and releases it is one step,      *)
(* enabled when the lock is free.  A section that ends in sched() leaves   *)
(* the lock with the CPU's scheduler.  fork() writes its child's slot      *)
(* without the lock, one step per write.  Memory may run out at any        *)
(* allocation.                                                             *)
(***************************************************************************)
EXTENDS Integers

CONSTANTS CPU,     \* the processors, positive integers
          NPROC,   \* slots of the process table
          MaxPid   \* bound on nextpid: no process is created past it

ASSUME ProcAssumption == /\ NPROC \in Nat \ {0}
                         /\ MaxPid \in Nat
                         /\ CPU \subseteq Nat \ {0}

Slot == 1..NPROC
NULL == 0              \* the null struct proc*, and a free ptable.lock
initproc == 1
OtherChan == NPROC + 1 \* a sleep channel that is not a struct proc*

VARIABLES
  state, pid, parent, killed, chan,  \* fields of struct proc
  kstack,   \* the slot owns a kernel stack page
  pgdir,    \* the slot owns a page directory
  nextpid,
  ptlock,   \* the CPU that holds ptable.lock, or NULL
  cproc,    \* cpu->proc: the process a CPU runs, NULL in its scheduler
  scan,     \* slot the scheduler's for loop has reached on each CPU
  pc,       \* where a process is
  np,       \* the child slot of a process inside fork
  ctx       \* what a suspended process does when it is switched to

slotvars == <<state, pid, parent, killed, chan>>
memvars == <<kstack, pgdir>>
cpuvars == <<ptlock, cproc, scan>>
vars == <<slotvars, memvars, nextpid, cpuvars, pc, np, ctx>>

States == {"UNUSED", "EMBRYO", "SLEEPING", "RUNNABLE", "RUNNING", "ZOMBIE"}

(* userinit: slot 1 holds the first process.                                *)
Init ==
  /\ state = [p \in Slot |-> IF p = initproc THEN "RUNNABLE" ELSE "UNUSED"]
  /\ pid = [p \in Slot |-> IF p = initproc THEN 1 ELSE 0]
  /\ parent = [p \in Slot |-> NULL]
  /\ killed = [p \in Slot |-> FALSE]
  /\ chan = [p \in Slot |-> NULL]
  /\ kstack = [p \in Slot |-> p = initproc]
  /\ pgdir = [p \in Slot |-> p = initproc]
  /\ nextpid = 2
  /\ ptlock = NULL
  /\ cproc = [c \in CPU |-> NULL]
  /\ scan = [c \in CPU |-> 0]
  /\ pc = [p \in Slot |-> "user"]
  /\ np = [p \in Slot |-> NULL]
  /\ ctx = [p \in Slot |-> "forkret"]

\* Process p runs on CPU c and has resumed from its last context switch.
Runs(c, p) == cproc[c] = p /\ ctx[p] = "none"

Goto(p, label) == pc' = [pc EXCEPT ![p] = label]

\* The slot that a for loop over the table finds first.
IsFirst(p, S) == p \in S /\ \A q \in S : p =< q

\* wakeup1: st with every sleeper on ch made runnable.
wakeup1(st, ch) ==
  [q \in Slot |-> IF st[q] = "SLEEPING" /\ chan[q] = ch THEN "RUNNABLE" ELSE st[q]]

\* sched: process p leaves CPU c, whose scheduler now holds ptable.lock.
sched(c, p, resume) ==
  /\ cproc' = [cproc EXCEPT ![c] = NULL]
  /\ ptlock' = c
  /\ ctx' = [ctx EXCEPT ![p] = resume]
  /\ scan' = scan

-----------------------------------------------------------------------------
(* The RR scheduler.  The loop body runs under ptable.lock, so the search   *)
(* for the next runnable slot is one step.                                  *)

SchedulerAcquire(c) ==
  /\ cproc[c] = NULL
  /\ ptlock = NULL
  /\ ptlock' = c
  /\ scan' = [scan EXCEPT ![c] = 0]
  /\ UNCHANGED <<slotvars, memvars, nextpid, cproc, pc, np, ctx>>

\* Mutant: the for loop restarts at the first slot after every process.
RunnableFromStart(i) == {p \in Slot : state[p] = "RUNNABLE"}

RunnableAfter(i) == {p \in Slot : p > i /\ state[p] = "RUNNABLE"}

\* Mutant: p->state is left RUNNABLE.
DispatchLeavesRunnable(c) ==
  /\ cproc[c] = NULL
  /\ ptlock = c
  /\ \E p \in Slot :
       /\ IsFirst(p, RunnableAfter(scan[c]))
       /\ cproc' = [cproc EXCEPT ![c] = p]
       /\ scan' = [scan EXCEPT ![c] = p]
  /\ UNCHANGED <<slotvars, memvars, nextpid, ptlock, pc, np, ctx>>

SchedulerDispatch(c) ==
  /\ cproc[c] = NULL
  /\ ptlock = c
  /\ \E p \in Slot :
       /\ IsFirst(p, RunnableAfter(scan[c]))
       /\ state' = [state EXCEPT ![p] = "RUNNING"]
       /\ cproc' = [cproc EXCEPT ![c] = p]
       /\ scan' = [scan EXCEPT ![c] = p]
  /\ UNCHANGED <<pid, parent, killed, chan, memvars, nextpid, ptlock, pc, np, ctx>>

SchedulerRelease(c) ==
  /\ cproc[c] = NULL
  /\ ptlock = c
  /\ RunnableAfter(scan[c]) = {}
  /\ ptlock' = NULL
  /\ UNCHANGED <<slotvars, memvars, nextpid, cproc, scan, pc, np, ctx>>

\* The process switched to releases ptable.lock: in forkret, at the end of
\* yield, or in sleep, which clears p->chan first.
Resume(c, p) ==
  /\ cproc[c] = p
  /\ ctx[p] \in {"forkret", "yield", "sleep"}
  /\ ptlock' = NULL
  /\ ctx' = [ctx EXCEPT ![p] = "none"]
  /\ chan' = IF ctx[p] = "sleep" THEN [chan EXCEPT ![p] = NULL] ELSE chan
  /\ UNCHANGED <<state, pid, parent, killed, memvars, nextpid, cproc, scan, pc, np>>

-----------------------------------------------------------------------------
(* Entering and leaving the kernel.                                         *)

\* The system call entry, and its killed checks before and after the call.
Syscall(c, p) ==
  /\ Runs(c, p)
  /\ pc[p] = "user"
  /\ Goto(p, IF killed[p] THEN "exit" ELSE "kernel")
  /\ UNCHANGED <<slotvars, memvars, nextpid, cpuvars, np, ctx>>

SyscallReturn(c, p) ==
  /\ Runs(c, p)
  /\ pc[p] = "kernel"
  /\ Goto(p, IF killed[p] THEN "exit" ELSE "user")
  /\ UNCHANGED <<slotvars, memvars, nextpid, cpuvars, np, ctx>>

\* sys_exit.  init.c has no call of exit outside a failed fork.
SysExit(c, p) ==
  /\ Runs(c, p)
  /\ pc[p] = "kernel"
  /\ p # initproc
  /\ Goto(p, "exit")
  /\ UNCHANGED <<slotvars, memvars, nextpid, cpuvars, np, ctx>>

\* Any trap from user space: a fault kills the process; then a killed process
\* exits.  init's program does not fault.
UserTrap(c, p, fault) ==
  /\ Runs(c, p)
  /\ pc[p] = "user"
  /\ fault => p # initproc
  /\ fault \/ killed[p]
  /\ killed' = [killed EXCEPT ![p] = TRUE]
  /\ Goto(p, "exit")
  /\ UNCHANGED <<state, pid, parent, chan, memvars, nextpid, cpuvars, np, ctx>>

\* The timer: yield from wherever the process runs without the lock.
yield(c, p) ==
  /\ Runs(c, p)
  /\ pc[p] # "panic"
  /\ ptlock = NULL
  /\ state' = [state EXCEPT ![p] = "RUNNABLE"]
  /\ sched(c, p, "yield")
  /\ UNCHANGED <<pid, parent, killed, chan, memvars, nextpid, pc, np>>

-----------------------------------------------------------------------------
(* sleep on a channel of the rest of the kernel, inside a system call or    *)
(* while exit closes files, and its wakeup, which an interrupt handler may  *)
(* also call.                                                               *)

sleep(c, p) ==
  /\ Runs(c, p)
  /\ pc[p] = "kernel" \/ (pc[p] = "exit" /\ p # initproc)
  /\ ptlock = NULL
  /\ state' = [state EXCEPT ![p] = "SLEEPING"]
  /\ chan' = [chan EXCEPT ![p] = OtherChan]
  /\ sched(c, p, "sleep")
  /\ UNCHANGED <<pid, parent, killed, memvars, nextpid, pc, np>>

wakeup ==
  /\ ptlock = NULL
  /\ \E q \in Slot : state[q] = "SLEEPING" /\ chan[q] = OtherChan
  /\ state' = wakeup1(state, OtherChan)
  /\ UNCHANGED <<pid, parent, killed, chan, memvars, nextpid, cpuvars, pc, np, ctx>>

\* Mutant: a sleeper is not woken.
KillWithoutWakeup(c, p, n) ==
  /\ Runs(c, p)
  /\ pc[p] = "kernel"
  /\ ptlock = NULL
  /\ \E q \in Slot : pid[q] = n /\ killed' = [killed EXCEPT ![q] = TRUE]
  /\ UNCHANGED <<state, pid, parent, chan, memvars, nextpid, cpuvars, pc, np, ctx>>

\* kill: the first slot with this pid, whatever its state.
kill(c, p, n) ==
  /\ Runs(c, p)
  /\ pc[p] = "kernel"
  /\ ptlock = NULL
  /\ \E q \in Slot :
       /\ pid[q] = n
       /\ \A r \in 1..(q - 1) : pid[r] # n
       /\ killed' = [killed EXCEPT ![q] = TRUE]
       /\ state' = IF state[q] = "SLEEPING" THEN [state EXCEPT ![q] = "RUNNABLE"] ELSE state
  /\ UNCHANGED <<pid, parent, chan, memvars, nextpid, cpuvars, pc, np, ctx>>

-----------------------------------------------------------------------------
(* fork.                                                                    *)

\* init.c calls exit when fork fails; other programs carry on.
ForkFails(p) ==
  /\ Goto(p, IF p = initproc THEN "exit" ELSE "kernel")
  /\ np' = [np EXCEPT ![p] = NULL]

FreeSlots == {q \in Slot : state[q] = "UNUSED"}

\* allocproc, under the lock: the first UNUSED slot becomes an EMBRYO.
allocproc(c, p) ==
  /\ Runs(c, p)
  /\ pc[p] = "kernel"
  /\ ptlock = NULL
  /\ nextpid <= MaxPid
  /\ \E q \in Slot :
       /\ IsFirst(q, FreeSlots)
       /\ state' = [state EXCEPT ![q] = "EMBRYO"]
       /\ pid' = [pid EXCEPT ![q] = nextpid]
       /\ np' = [np EXCEPT ![p] = q]
  /\ nextpid' = nextpid + 1
  /\ Goto(p, "kalloc")
  /\ UNCHANGED <<parent, killed, chan, memvars, cpuvars, ctx>>

\* allocproc finds no free slot.
AllocprocFull(c, p) ==
  /\ Runs(c, p)
  /\ pc[p] = "kernel"
  /\ ptlock = NULL
  /\ FreeSlots = {}
  /\ ForkFails(p)
  /\ UNCHANGED <<slotvars, memvars, nextpid, cpuvars, ctx>>

\* The kernel stack, and the context that starts in forkret.
ForkKalloc(c, p) ==
  /\ Runs(c, p)
  /\ pc[p] = "kalloc"
  /\ kstack' = [kstack EXCEPT ![np[p]] = TRUE]
  /\ ctx' = [ctx EXCEPT ![np[p]] = "forkret"]
  /\ Goto(p, "copyuvm")
  /\ UNCHANGED <<slotvars, pgdir, nextpid, cpuvars, np>>

\* kalloc fails: the slot is given back without the lock, its pid kept.
ForkKallocFails(c, p) ==
  /\ Runs(c, p)
  /\ pc[p] = "kalloc"
  /\ state' = [state EXCEPT ![np[p]] = "UNUSED"]
  /\ ForkFails(p)
  /\ UNCHANGED <<pid, parent, killed, chan, memvars, nextpid, cpuvars, ctx>>

ForkCopyuvm(c, p) ==
  /\ Runs(c, p)
  /\ pc[p] = "copyuvm"
  /\ pgdir' = [pgdir EXCEPT ![np[p]] = TRUE]
  /\ Goto(p, "parent")
  /\ UNCHANGED <<slotvars, kstack, nextpid, cpuvars, np, ctx>>

\* Mutant: the kernel stack is not freed when copyuvm fails.
ForkCopyuvmLeaks(c, p) ==
  /\ Runs(c, p)
  /\ pc[p] = "copyuvm"
  /\ state' = [state EXCEPT ![np[p]] = "UNUSED"]
  /\ ForkFails(p)
  /\ UNCHANGED <<pid, parent, killed, chan, memvars, nextpid, cpuvars, ctx>>

ForkCopyuvmFails(c, p) ==
  /\ Runs(c, p)
  /\ pc[p] = "copyuvm"
  /\ kstack' = [kstack EXCEPT ![np[p]] = FALSE]
  /\ state' = [state EXCEPT ![np[p]] = "UNUSED"]
  /\ ForkFails(p)
  /\ UNCHANGED <<pid, parent, killed, chan, pgdir, nextpid, cpuvars, ctx>>

ForkParent(c, p) ==
  /\ Runs(c, p)
  /\ pc[p] = "parent"
  /\ parent' = [parent EXCEPT ![np[p]] = p]
  /\ pc' = [pc EXCEPT ![p] = "publish", ![np[p]] = "user"]
  /\ UNCHANGED <<state, pid, killed, chan, memvars, nextpid, cpuvars, np, ctx>>

ForkPublish(c, p) ==
  /\ Runs(c, p)
  /\ pc[p] = "publish"
  /\ state' = [state EXCEPT ![np[p]] = "RUNNABLE"]
  /\ np' = [np EXCEPT ![p] = NULL]
  /\ Goto(p, "kernel")
  /\ UNCHANGED <<pid, parent, killed, chan, memvars, nextpid, cpuvars, ctx>>

-----------------------------------------------------------------------------
(* exit.                                                                    *)

InitExits(c) ==
  /\ Runs(c, initproc)
  /\ pc[initproc] = "exit"
  /\ Goto(initproc, "panic")
  /\ UNCHANGED <<slotvars, memvars, nextpid, cpuvars, np, ctx>>

\* panic() spins forever on its CPU; the others carry on.
panic ==
  /\ \E p \in Slot : pc[p] = "panic"
  /\ UNCHANGED vars

Children(p) == {q \in Slot : parent[q] = p}

\* Mutants: children are not passed to init; the parent is not woken.
ExitKeepsChildren(c, p) ==
  /\ Runs(c, p)
  /\ pc[p] = "exit"
  /\ p # initproc
  /\ ptlock = NULL
  /\ state' = [wakeup1(state, parent[p]) EXCEPT ![p] = "ZOMBIE"]
  /\ parent' = parent
  /\ sched(c, p, "zombie")
  /\ UNCHANGED <<pid, killed, chan, memvars, nextpid, pc, np>>

ExitForgetsParent(c, p) ==
  /\ Runs(c, p)
  /\ pc[p] = "exit"
  /\ p # initproc
  /\ ptlock = NULL
  /\ state' = [wakeup1(state, initproc) EXCEPT ![p] = "ZOMBIE"]
  /\ parent' = [q \in Slot |-> IF parent[q] = p THEN initproc ELSE parent[q]]
  /\ sched(c, p, "zombie")
  /\ UNCHANGED <<pid, killed, chan, memvars, nextpid, pc, np>>

exit(c, p) ==
  /\ Runs(c, p)
  /\ pc[p] = "exit"
  /\ p # initproc
  /\ ptlock = NULL
  /\ LET woken == wakeup1(state, parent[p])
         orphans == IF \E q \in Children(p) : state[q] = "ZOMBIE"
                    THEN wakeup1(woken, initproc) ELSE woken
     IN state' = [orphans EXCEPT ![p] = "ZOMBIE"]
  /\ parent' = [q \in Slot |-> IF parent[q] = p THEN initproc ELSE parent[q]]
  /\ sched(c, p, "zombie")
  /\ UNCHANGED <<pid, killed, chan, memvars, nextpid, pc, np>>

-----------------------------------------------------------------------------
(* wait and wait2, which scan the table alike.                              *)

Zombies(p) == {q \in Children(p) : state[q] = "ZOMBIE"}

\* Process p scans the table: on entry, or again after its sleep, from which
\* it returns with the lock held.
InWait(c, p) ==
  \/ Runs(c, p) /\ pc[p] = "kernel" /\ ptlock = NULL
  \/ cproc[c] = p /\ ctx[p] = "wait"

\* wait releases the lock and returns.
WaitReturns(p) ==
  /\ chan' = [chan EXCEPT ![p] = NULL]
  /\ ctx' = [ctx EXCEPT ![p] = "none"]
  /\ ptlock' = NULL
  /\ UNCHANGED <<nextpid, cproc, scan, pc, np>>

\* The first zombie child is freed.
WaitReap(c, p) ==
  /\ InWait(c, p)
  /\ \E q \in Slot :
       /\ IsFirst(q, Zombies(p))
       /\ state' = [state EXCEPT ![q] = "UNUSED"]
       /\ pid' = [pid EXCEPT ![q] = 0]
       /\ parent' = [parent EXCEPT ![q] = NULL]
       /\ killed' = [killed EXCEPT ![q] = FALSE]
       /\ kstack' = [kstack EXCEPT ![q] = FALSE]
       /\ pgdir' = [pgdir EXCEPT ![q] = FALSE]
  /\ WaitReturns(p)

WaitFails(c, p) ==
  /\ InWait(c, p)
  /\ Zombies(p) = {}
  /\ Children(p) = {} \/ killed[p]
  /\ WaitReturns(p)
  /\ UNCHANGED <<state, pid, parent, killed, memvars>>

WaitSleeps(c, p) ==
  /\ InWait(c, p)
  /\ Zombies(p) = {}
  /\ Children(p) # {} /\ ~killed[p]
  /\ chan' = [chan EXCEPT ![p] = p]
  /\ state' = [state EXCEPT ![p] = "SLEEPING"]
  /\ sched(c, p, "wait")
  /\ UNCHANGED <<pid, parent, killed, memvars, nextpid, pc, np>>

wait(c, p) == WaitReap(c, p) \/ WaitFails(c, p) \/ WaitSleeps(c, p)

-----------------------------------------------------------------------------
SchedulerStep(c) ==
  SchedulerAcquire(c) \/ SchedulerDispatch(c) \/ SchedulerRelease(c)

ForkSteps(c, p) ==
  \/ ForkKalloc(c, p) \/ ForkKallocFails(c, p)
  \/ ForkCopyuvm(c, p) \/ ForkCopyuvmFails(c, p)
  \/ ForkParent(c, p) \/ ForkPublish(c, p)

ProcStep(c, p) ==
  \/ Resume(c, p)
  \/ Syscall(c, p) \/ SyscallReturn(c, p) \/ SysExit(c, p)
  \/ \E fault \in BOOLEAN : UserTrap(c, p, fault)
  \/ yield(c, p) \/ sleep(c, p)
  \/ \E n \in 0..MaxPid : kill(c, p, n)
  \/ allocproc(c, p) \/ AllocprocFull(c, p) \/ ForkSteps(c, p)
  \/ exit(c, p) \/ wait(c, p)

Next ==
  \/ \E c \in CPU : SchedulerStep(c) \/ InitExits(c) \/ \E p \in Slot : ProcStep(c, p)
  \/ wakeup \/ panic

Spec == Init /\ [][Next]_vars

\* Steps a process takes by itself whenever it is given the CPU.
Progress(c, p) ==
  \/ SyscallReturn(c, p) \/ UserTrap(c, p, FALSE)
  \/ ForkSteps(c, p)
  \/ exit(c, p)

\* Every CPU executes its next instruction and takes timer interrupts.  Every
\* sleep of the rest of the kernel is ended by a wakeup, whose caller gets
\* ptable.lock among CPUs that take it again and again.  A process that runs
\* again and again gets through its system call.
Fairness ==
  /\ \A c \in CPU :
       /\ WF_vars(SchedulerStep(c))
       /\ WF_vars(\E p \in Slot : Resume(c, p) \/ (ctx[p] = "wait" /\ wait(c, p)))
       /\ WF_vars(\E p \in Slot : yield(c, p))
       /\ \A p \in Slot : SF_vars(Progress(c, p))
  /\ SF_vars(wakeup)

FairSpec == Spec /\ Fairness

-----------------------------------------------------------------------------
\* Types; pids are handed out one at a time.
TypeOK ==
  /\ state \in [Slot -> States]
  /\ pid \in [Slot -> 0..MaxPid + 1]
  /\ parent \in [Slot -> Slot \cup {NULL}]
  /\ killed \in [Slot -> BOOLEAN]
  /\ chan \in [Slot -> 0..OtherChan]
  /\ kstack \in [Slot -> BOOLEAN]
  /\ pgdir \in [Slot -> BOOLEAN]
  /\ nextpid \in 1..(MaxPid + 2)
  /\ ptlock \in CPU \cup {NULL}
  /\ cproc \in [CPU -> Slot \cup {NULL}]
  /\ scan \in [CPU -> 0..NPROC]
  /\ pc \in [Slot -> {"user", "kernel", "kalloc", "copyuvm", "parent", "publish", "exit", "panic"}]
  /\ np \in [Slot -> Slot \cup {NULL}]
  /\ ctx \in [Slot -> {"none", "forkret", "yield", "sleep", "wait", "zombie"}]

\* A process is RUNNING exactly while one CPU runs it, and no two CPUs run one
\* process, although fork publishes its child without the lock and the lock
\* changes hands in every context switch.
RunningOnOneCpu ==
  /\ \A p \in Slot : state[p] = "RUNNING" <=> \E c \in CPU : cproc[c] = p
  /\ \A c, d \in CPU : cproc[c] = cproc[d] /\ cproc[c] # NULL => c = d

\* No two slots in use carry one pid.
PidsUnique ==
  \A p, q \in Slot :
    p # q /\ state[p] # "UNUSED" /\ state[q] # "UNUSED" => pid[p] # pid[q]

\* Every process but init has a parent that can still call wait for it:
\* exit() passes its children to init before it becomes a zombie.
ParentLive ==
  \A p \in Slot \ {initproc} :
    state[p] \notin {"UNUSED", "EMBRYO"} =>
      /\ parent[p] # NULL
      /\ state[parent[p]] \in {"SLEEPING", "RUNNABLE", "RUNNING"}

\* wait() can tell every process and zombie by its pid, and somebody can wait
\* for it, also after failed forks, reuse of slots and the exit of parents.
Lineage == PidsUnique /\ ParentLive

\* A process asleep in wait() has a child, none of its children is a zombie,
\* and it has not been killed: no exit, reparenting or kill is missed.
WaiterHasNothingToDo ==
  \A p \in Slot :
    state[p] = "SLEEPING" /\ ctx[p] = "wait" =>
      /\ Children(p) # {}
      /\ \A q \in Children(p) : state[q] # "ZOMBIE"
      /\ ~killed[p]

\* A free slot owns no page and a process owns its stack and page directory:
\* no failure path of fork and no reaping leaks or frees twice.
SlotOwnership ==
  \A p \in Slot :
    /\ state[p] = "UNUSED" => ~kstack[p] /\ ~pgdir[p]
    /\ state[p] \notin {"UNUSED", "EMBRYO"} => kstack[p] /\ pgdir[p]

\* No CPU switches to a process that has left exit() for good, which is where
\* panic("zombie exit") stands.
NoZombieExit ==
  \A c \in CPU, p \in Slot : cproc[c] = p => ctx[p] # "zombie"

\* The kernel has stopped because init exited.
Down == pc[initproc] = "panic"

\* The RR scheduler starves no runnable process.
RunnableRuns ==
  \A p \in Slot : state[p] = "RUNNABLE" ~> (state[p] = "RUNNING" \/ Down)

\* A parent in wait() with a zombie child gets out of it.
ZombieEndsWait ==
  \A p \in Slot :
    (ctx[p] = "wait" /\ \E q \in Children(p) : state[q] = "ZOMBIE")
      ~> (ctx[p] = "none" \/ Down)

\* A killed process becomes a zombie, whatever it was doing or waiting for.
KilledExits ==
  \A p \in Slot \ {initproc} :
    (killed[p] /\ state[p] \in {"SLEEPING", "RUNNABLE", "RUNNING"})
      ~> (state[p] \in {"ZOMBIE", "UNUSED"} \/ Down)

\* Every exit is seen through: whoever is killed exits, and whoever waits for a
\* zombie gets it.
ExitsSeen == ZombieEndsWait /\ KilledExits
=============================================================================
