----------------------------- MODULE SchedTable -----------------------------
(***************************************************************************)
(* What the scheduling policies work on: the states and priorities of the  *)
(* process table, ptable.lock, and what running processes do to them.  The *)
(* policies are the modules that extend this one; each action here says    *)
(* what happens to the table and leaves the policy's variables to them.    *)
(***************************************************************************)
EXTENDS Integers

CONSTANTS CPU,      \* the processors, positive integers
          NPROC,    \* slots, and the literal 64 of the policies
          MayNice   \* the slots whose programs call nice

TableAssumption ==
  NPROC \in Nat \ {0} /\ CPU \subseteq Nat \ {0} /\ MayNice \subseteq 1..NPROC

Slot == 1..NPROC
NULL == 0
initproc == 1

VARIABLES
  state, priority,  \* fields of struct proc; priority 1 is low
  ptlock,           \* the CPU whose scheduler holds ptable.lock, or NULL
  cproc             \* the process a CPU runs

tablevars == <<state, priority, ptlock, cproc>>

TableInit ==
  /\ state = [p \in Slot |-> IF p = initproc THEN "RUNNABLE" ELSE "UNUSED"]
  /\ priority = [p \in Slot |-> 0]
  /\ ptlock = NULL
  /\ cproc = [c \in CPU |-> NULL]

Running(c) == cproc[c] # NULL /\ ptlock = NULL

\* The end of yield, sleep and exit: sched() switches to the scheduler, which
\* has ptable.lock.
Leave(c, st) ==
  /\ Running(c)
  /\ state' = [state EXCEPT ![cproc[c]] = st]
  /\ cproc' = [cproc EXCEPT ![c] = NULL]
  /\ ptlock' = c
  /\ UNCHANGED priority

yield(c) == Leave(c, "RUNNABLE")
sleep(c) == Leave(c, "SLEEPING")
exit(c) == cproc[c] # initproc /\ Leave(c, "ZOMBIE")

wakeup(q) ==
  /\ ptlock = NULL
  /\ state[q] = "SLEEPING"
  /\ state' = [state EXCEPT ![q] = "RUNNABLE"]
  /\ UNCHANGED <<priority, ptlock, cproc>>

\* The one a for loop over the table finds first.
IsFirst(q, S) == q \in S /\ \A r \in S : q <= r

fork(c, q) ==
  /\ Running(c)
  /\ IsFirst(q, {r \in Slot : state[r] = "UNUSED"})
  /\ state' = [state EXCEPT ![q] = "RUNNABLE"]
  /\ priority' = [priority EXCEPT ![q] = 0]
  /\ UNCHANGED <<ptlock, cproc>>

wait(c, q) ==
  /\ Running(c)
  /\ q # cproc[c]
  /\ state[q] = "ZOMBIE"
  /\ state' = [state EXCEPT ![q] = "UNUSED"]
  /\ priority' = [priority EXCEPT ![q] = 0]
  /\ UNCHANGED <<ptlock, cproc>>

nice(c) ==
  /\ Running(c)
  /\ cproc[c] \in MayNice
  /\ priority' = [priority EXCEPT ![cproc[c]] = 1 - @]
  /\ UNCHANGED <<state, ptlock, cproc>>

\* The scheduler switches to p, which releases ptable.lock.
Dispatch(c, p) ==
  /\ state' = [state EXCEPT ![p] = "RUNNING"]
  /\ cproc' = [cproc EXCEPT ![c] = p]
  /\ ptlock' = NULL
  /\ UNCHANGED priority

\* The top of the scheduler's outer loop.
SchedulerAcquire(c) ==
  /\ cproc[c] = NULL
  /\ ptlock = NULL
  /\ ptlock' = c
  /\ UNCHANGED <<state, priority, cproc>>

Scanning(c) == cproc[c] = NULL /\ ptlock = c

TableOK ==
  /\ state \in [Slot -> {"UNUSED", "SLEEPING", "RUNNABLE", "RUNNING", "ZOMBIE"}]
  /\ priority \in [Slot -> {0, 1}]
  /\ ptlock \in CPU \cup {NULL}
  /\ cproc \in [CPU -> Slot \cup {NULL}]

Switches(c) == cproc[c] = NULL /\ cproc'[c] # NULL

\* The scheduler switches only to a process that is RUNNABLE.
ToRunnable == \A c \in CPU : Switches(c) => state[cproc'[c]] = "RUNNABLE"
=============================================================================
