------------------------------ MODULE Spinlock ------------------------------
(***************************************************************************)
(* Spin locks and the interrupt flag (spinlock.c), with the two context    *)
(* switches that carry a held lock from one kernel thread to another       *)
(* (sched and scheduler in proc.c) and the interrupt entry and exit that   *)
(* make cli/sti nesting necessary (the gates of tvinit in trap.c).         *)
(*                                                                         *)
(* A CPU runs one kernel thread: a process, or its own scheduler, which is *)
(* identified with the CPU.  The callers of the locks are any code that    *)
(* takes locks in increasing order; ptable.lock is the largest, because    *)
(* sleep() takes it while holding its caller's lock.  An interrupt handler *)
(* follows the same order but cannot know what the code it interrupted     *)
(* holds.                                                                  *)
(***************************************************************************)
EXTENDS Integers, FiniteSets

CONSTANTS CPU,   \* the processors
          Proc,  \* the processes that already exist and can be scheduled
          NLOCK, \* number of spin locks, in acquisition order
          NoCpu  \* the null value of lk->cpu

ASSUME SpinlockAssumption == /\ NLOCK \in Nat \ {0}
                             /\ CPU \cap Proc = {}
                             /\ NoCpu \notin CPU

Lock == 1..NLOCK
PtableLock == NLOCK
Thread == Proc \cup CPU

VARIABLES
  locked,  \* lk->locked
  owner,   \* lk->cpu, the debugging field that holding() trusts
  ifl,     \* FL_IF of each CPU
  ncli,    \* cpu->ncli
  intena,  \* cpu->intena
  cur,     \* the thread each CPU runs: cpu->proc, or the CPU's scheduler
  saved,   \* the local intena of a thread suspended in sched()
  fresh,   \* the thread has not yet returned to user space from forkret
  intr,    \* the thread is inside an interrupt handler
  base,    \* locks its CPU held when that handler was entered
  pc,      \* position of the CPU inside acquire/release
  want,    \* the lock that acquire/release works on
  held     \* history: locks whose xchg the CPU has won and not undone

cpuvars == <<ifl, ncli, intena>>
thrvars == <<cur, saved, fresh, intr, base>>
vars == <<locked, owner, cpuvars, thrvars, pc, want, held>>

Init ==
  /\ locked = [l \in Lock |-> 0]
  /\ owner = [l \in Lock |-> NoCpu]
  /\ ifl = [c \in CPU |-> FALSE]
  /\ ncli = [c \in CPU |-> 0]
  /\ intena = [c \in CPU |-> FALSE]
  /\ cur = [c \in CPU |-> c]
  /\ saved = [t \in Thread |-> FALSE]
  /\ fresh = [t \in Thread |-> t \in Proc]
  /\ intr = [t \in Thread |-> FALSE]
  /\ base = [t \in Thread |-> {}]
  /\ pc = [c \in CPU |-> "run"]
  /\ want = [c \in CPU |-> PtableLock]
  /\ held = [c \in CPU |-> {}]

\* Locks the running code took itself, as opposed to the code it interrupted.
Mine(c) == held[c] \ base[cur[c]]

holding(c, l) == locked[l] = 1 /\ owner[l] = c

Goto(c, label) == pc' = [pc EXCEPT ![c] = label]

-----------------------------------------------------------------------------
(* pushcli and popcli.  cli makes the rest of pushcli atomic on its CPU.    *)

pushcli(c) ==
  /\ ifl' = [ifl EXCEPT ![c] = FALSE]
  /\ ncli' = [ncli EXCEPT ![c] = @ + 1]
  /\ intena' = IF ncli[c] = 0 THEN [intena EXCEPT ![c] = ifl[c]] ELSE intena

\* Mutant: every popcli re-enables interrupts.
PopcliEagerSti(c) ==
  /\ pc[c] = "popcli"
  /\ IF ifl[c] \/ ncli[c] - 1 < 0
     THEN Goto(c, "panic") /\ UNCHANGED <<ncli, ifl>>
     ELSE /\ Goto(c, "run")
          /\ ncli' = [ncli EXCEPT ![c] = @ - 1]
          /\ ifl' = [ifl EXCEPT ![c] = intena[c]]
  /\ UNCHANGED <<locked, owner, intena, thrvars, want, held>>

popcli(c) ==
  /\ pc[c] = "popcli"
  /\ IF ifl[c] \/ ncli[c] - 1 < 0
     THEN Goto(c, "panic") /\ UNCHANGED <<ncli, ifl>>
     ELSE /\ Goto(c, "run")
          /\ ncli' = [ncli EXCEPT ![c] = @ - 1]
          /\ ifl' = [ifl EXCEPT ![c] = ncli[c] = 1 /\ intena[c]]
  /\ UNCHANGED <<locked, owner, intena, thrvars, want, held>>

-----------------------------------------------------------------------------
(* acquire: pushcli and the holding() check, the xchg loop, lk->cpu = cpu.  *)
(* The scheduler itself only takes ptable.lock, after its sti().            *)

acquire(c, l) ==
  /\ pc[c] = "run"
  /\ \A k \in Mine(c) : k < l
  /\ (cur[c] = c /\ ~intr[c]) => l = PtableLock /\ ifl[c]
  /\ pushcli(c)
  /\ Goto(c, IF holding(c, l) THEN "panic" ELSE "spin")
  /\ want' = [want EXCEPT ![c] = l]
  /\ UNCHANGED <<locked, owner, thrvars, held>>

\* Mutant: the test of lk->locked and its setting are not one xchg.
AcquireWithoutTest(c) ==
  /\ pc[c] = "spin"
  /\ locked' = [locked EXCEPT ![want[c]] = 1]
  /\ held' = [held EXCEPT ![c] = @ \cup {want[c]}]
  /\ Goto(c, "record")
  /\ UNCHANGED <<owner, cpuvars, thrvars, want>>

AcquireXchg(c) ==
  /\ pc[c] = "spin"
  /\ locked[want[c]] = 0
  /\ locked' = [locked EXCEPT ![want[c]] = 1]
  /\ held' = [held EXCEPT ![c] = @ \cup {want[c]}]
  /\ Goto(c, "record")
  /\ UNCHANGED <<owner, cpuvars, thrvars, want>>

AcquireRecord(c) ==
  /\ pc[c] = "record"
  /\ owner' = [owner EXCEPT ![want[c]] = c]
  /\ Goto(c, "run")
  /\ UNCHANGED <<locked, cpuvars, thrvars, want, held>>

(* release: the holding() check and lk->cpu = 0, the xchg, then popcli.     *)

\* Mutant: lk->cpu is not cleared.
ReleaseKeepsOwner(c, l) ==
  /\ pc[c] = "run"
  /\ l \in Mine(c)
  /\ Goto(c, IF holding(c, l) THEN "unlock" ELSE "panic")
  /\ want' = [want EXCEPT ![c] = l]
  /\ UNCHANGED <<locked, owner, cpuvars, thrvars, held>>

release(c, l) ==
  /\ pc[c] = "run"
  /\ l \in Mine(c)
  /\ IF holding(c, l)
     THEN owner' = [owner EXCEPT ![l] = NoCpu] /\ Goto(c, "unlock")
     ELSE owner' = owner /\ Goto(c, "panic")
  /\ want' = [want EXCEPT ![c] = l]
  /\ UNCHANGED <<locked, cpuvars, thrvars, held>>

ReleaseXchg(c) ==
  /\ pc[c] = "unlock"
  /\ locked' = [locked EXCEPT ![want[c]] = 0]
  /\ held' = [held EXCEPT ![c] = @ \ {want[c]}]
  /\ Goto(c, "popcli")
  /\ UNCHANGED <<owner, cpuvars, thrvars, want>>

-----------------------------------------------------------------------------
(* Context switches, both with ptable.lock held.                            *)

\* sched(): a process hands its CPU and ptable.lock to the scheduler.
sched(c) ==
  /\ pc[c] = "run"
  /\ cur[c] # c
  /\ Mine(c) = {PtableLock}
  /\ IF ~holding(c, PtableLock) \/ ncli[c] # 1 \/ ifl[c]
     THEN Goto(c, "panic") /\ UNCHANGED <<cur, saved>>
     ELSE /\ saved' = [saved EXCEPT ![cur[c]] = intena[c]]
          /\ cur' = [cur EXCEPT ![c] = c]
          /\ pc' = pc
  /\ UNCHANGED <<locked, owner, cpuvars, fresh, intr, base, want, held>>

\* Mutant: sched() does not restore intena after its swtch.
DispatchKeepsIntena(c, p) ==
  /\ pc[c] = "run"
  /\ cur[c] = c
  /\ ~intr[c]
  /\ PtableLock \in held[c]
  /\ \A d \in CPU : cur[d] # p
  /\ cur' = [cur EXCEPT ![c] = p]
  /\ UNCHANGED <<locked, owner, cpuvars, saved, fresh, intr, base, pc, want, held>>

\* swtch in scheduler(): process p continues after its own sched(), which
\* restores intena, or starts in forkret, which does not.
Dispatch(c, p) ==
  /\ pc[c] = "run"
  /\ cur[c] = c
  /\ ~intr[c]
  /\ PtableLock \in held[c]
  /\ \A d \in CPU : cur[d] # p
  /\ cur' = [cur EXCEPT ![c] = p]
  /\ intena' = IF fresh[p] THEN intena ELSE [intena EXCEPT ![c] = saved[p]]
  /\ UNCHANGED <<locked, owner, ifl, ncli, saved, fresh, intr, base, pc, want, held>>

\* The sti() at the top of the scheduler's loop.
SchedulerSti(c) ==
  /\ pc[c] = "run"
  /\ cur[c] = c
  /\ held[c] = {}
  /\ ~ifl[c]
  /\ ~intr[c]
  /\ ifl' = [ifl EXCEPT ![c] = TRUE]
  /\ UNCHANGED <<locked, owner, ncli, intena, thrvars, pc, want, held>>

-----------------------------------------------------------------------------
(* Interrupt gates clear FL_IF on entry; iret restores the saved eflags.    *)

Interrupt(c) ==
  /\ pc[c] = "run"
  /\ ifl[c]
  /\ ~intr[cur[c]]
  /\ ifl' = [ifl EXCEPT ![c] = FALSE]
  /\ intr' = [intr EXCEPT ![cur[c]] = TRUE]
  /\ base' = [base EXCEPT ![cur[c]] = held[c]]
  /\ UNCHANGED <<locked, owner, ncli, intena, cur, saved, fresh, pc, want, held>>

\* A handler, or a new process on its way through trapret, returns.
Iret(c) ==
  /\ pc[c] = "run"
  /\ intr[cur[c]] \/ fresh[cur[c]]
  /\ Mine(c) = {}
  /\ ifl' = [ifl EXCEPT ![c] = TRUE]
  /\ IF intr[cur[c]]
     THEN /\ intr' = [intr EXCEPT ![cur[c]] = FALSE]
          /\ base' = [base EXCEPT ![cur[c]] = {}]
          /\ fresh' = fresh
     ELSE /\ fresh' = [fresh EXCEPT ![cur[c]] = FALSE]
          /\ UNCHANGED <<intr, base>>
  /\ UNCHANGED <<locked, owner, ncli, intena, cur, saved, pc, want, held>>

Next ==
  \E c \in CPU :
    \/ \E l \in Lock : acquire(c, l) \/ release(c, l)
    \/ AcquireXchg(c) \/ AcquireRecord(c)
    \/ ReleaseXchg(c) \/ popcli(c)
    \/ sched(c) \/ SchedulerSti(c)
    \/ \E p \in Proc : Dispatch(c, p)
    \/ Interrupt(c) \/ Iret(c)

Spec == Init /\ [][Next]_vars

-----------------------------------------------------------------------------
\* Types; cpu->ncli never exceeds the number of locks, the nesting depth that
\* ordered acquisition allows.
TypeOK ==
  /\ locked \in [Lock -> {0, 1}]
  /\ owner \in [Lock -> CPU \cup {NoCpu}]
  /\ ifl \in [CPU -> BOOLEAN]
  /\ ncli \in [CPU -> 0..NLOCK]
  /\ intena \in [CPU -> BOOLEAN]
  /\ cur \in [CPU -> Thread]
  /\ saved \in [Thread -> BOOLEAN]
  /\ fresh \in [Thread -> BOOLEAN]
  /\ intr \in [Thread -> BOOLEAN]
  /\ base \in [Thread -> SUBSET Lock]
  /\ pc \in [CPU -> {"run", "spin", "record", "unlock", "popcli", "panic"}]
  /\ want \in [CPU -> Lock]
  /\ held \in [CPU -> SUBSET Lock]

\* Two CPUs never hold one lock, although acquire's xchg, its write of lk->cpu
\* and release's two writes are separate steps.
MutualExclusion ==
  \A c, d \in CPU : c # d => held[c] \cap held[d] = {}

\* holding() never answers yes for a lock its CPU has not won: release clears
\* lk->cpu before it frees the lock, so the field is never left stale for the
\* window in which the next owner has not written it yet.
HoldingAccurate ==
  \A c \in CPU, l \in Lock : holding(c, l) => l \in held[c]

\* No CPU takes an interrupt while it owns a lock, across nested critical
\* sections and across the context switches that pass ptable.lock on.
LocksMaskInterrupts ==
  \A c \in CPU : held[c] # {} => ~ifl[c]

\* None of panic("acquire"), panic("release"), panic("popcli..."),
\* panic("sched ptable.lock"), panic("sched locks"), panic("sched
\* interruptible") is reached by code that respects the lock order.
NoPanic ==
  \A c \in CPU : pc[c] # "panic"

\* A process that is back outside every critical section, and not in a
\* handler, runs with interrupts enabled, on whatever CPU it was resumed:
\* intena belongs to the thread, so sched() must save and restore it.
InterruptsRestored ==
  \A c \in CPU :
    (cur[c] # c /\ pc[c] = "run" /\ ncli[c] = 0 /\ ~intr[cur[c]] /\ ~fresh[cur[c]])
      => ifl[c]

\* The interrupt flag is right in both directions: off on a CPU that owns a
\* lock, across nesting and context switches, and back on afterwards.
InterruptFlag == LocksMaskInterrupts /\ InterruptsRestored
=============================================================================
