------------------------------- MODULE Timer --------------------------------
(***************************************************************************)
(* The timer interrupt (trap in trap.c): ticks, the quantum, and the times *)
(* that wait2 reports.  clockticks is one unlocked counter for all CPUs,   *)
(* so its increment is a load and a store.  What else a process does is to *)
(* give up the CPU, change its priority, or exit.                          *)
(***************************************************************************)
EXTENDS Integers

CONSTANTS CPU,      \* the processors
          Boot,     \* cpu->id == 0
          Proc,     \* processes
          QUANTA,
          TwoQueues,  \* built with RR2Q or FAIR2Q, otherwise with RR
          MaxTicks, \* bound on ticks and clockticks
          NoProc

TimerAssumption ==
  QUANTA \in Nat \ {0} /\ MaxTicks \in Nat /\ Boot \in CPU /\ NoProc \notin Proc

VARIABLES
  ticks,       \* under tickslock
  clockticks,  \* the static counter of trap.c
  cproc,       \* the process of each CPU
  pc, reg,     \* where the handler of each CPU is, and the value it loaded
  used,        \* ticks the CPU's process has had since it was switched to
  alive,       \* processes that have not exited
  priority, ctime, rtime,
  wtime        \* what wait2 computes for the process that exited last

vars == <<ticks, clockticks, cproc, pc, reg, used, alive, priority, ctime, rtime, wtime>>

Init ==
  /\ ticks = 0
  /\ clockticks = 0
  /\ cproc = [c \in CPU |-> NoProc]
  /\ pc = [c \in CPU |-> "run"]
  /\ reg = [c \in CPU |-> 0]
  /\ used = [c \in CPU |-> 0]
  /\ alive = Proc
  /\ priority = [p \in Proc |-> 0]
  /\ ctime = [p \in Proc |-> 0]
  /\ rtime = [p \in Proc |-> 0]
  /\ wtime = 0

Goto(c, from, to) ==
  /\ pc[c] = from
  /\ pc' = [pc EXCEPT ![c] = to]

\* The interrupt: the boot CPU advances ticks; a CPU that runs a process goes
\* on to count.
timer(c) ==
  /\ Goto(c, "run", IF cproc[c] = NoProc THEN "run" ELSE "load")
  /\ ticks < MaxTicks /\ clockticks < MaxTicks
  /\ ticks' = IF c = Boot THEN ticks + 1 ELSE ticks
  /\ UNCHANGED <<clockticks, cproc, reg, used, alive, priority, ctime, rtime, wtime>>

CountLoad(c) ==
  /\ Goto(c, "load", "store")
  /\ reg' = [reg EXCEPT ![c] = clockticks]
  /\ UNCHANGED <<ticks, clockticks, cproc, used, alive, priority, ctime, rtime, wtime>>

CountStore(c) ==
  /\ Goto(c, "store", "test")
  /\ clockticks' = reg[c] + 1
  /\ used' = [used EXCEPT ![c] = @ + 1]
  /\ rtime' = [rtime EXCEPT ![cproc[c]] = @ + 1]
  /\ reg' = [reg EXCEPT ![c] = 0]
  /\ UNCHANGED <<ticks, cproc, alive, priority, ctime, wtime>>

Quantum(p) == IF TwoQueues /\ priority[p] = 1 THEN 2 * QUANTA ELSE QUANTA

\* The process of CPU c leaves it.
Leave(c) ==
  /\ cproc' = [cproc EXCEPT ![c] = NoProc]
  /\ used' = [used EXCEPT ![c] = 0]

\* Mutant: the counter is not set back.
ExpiresWithoutReset(c) ==
  /\ Goto(c, "test", "run")
  /\ clockticks = Quantum(cproc[c])
  /\ Leave(c)
  /\ UNCHANGED <<ticks, clockticks, reg, alive, priority, ctime, rtime, wtime>>

Expires(c) ==
  /\ Goto(c, "test", "run")
  /\ clockticks = Quantum(cproc[c])
  /\ clockticks' = 0
  /\ Leave(c)
  /\ UNCHANGED <<ticks, reg, alive, priority, ctime, rtime, wtime>>

GoesOn(c) ==
  /\ Goto(c, "test", "run")
  /\ clockticks # Quantum(cproc[c])
  /\ UNCHANGED <<ticks, clockticks, cproc, reg, used, alive, priority, ctime, rtime, wtime>>

\* The scheduler: any policy.
Switch(c, p) ==
  /\ pc[c] = "run" /\ cproc[c] = NoProc
  /\ p \in alive /\ \A d \in CPU : cproc[d] # p
  /\ cproc' = [cproc EXCEPT ![c] = p]
  /\ UNCHANGED <<ticks, clockticks, pc, reg, used, alive, priority, ctime, rtime, wtime>>

Runs(c) == pc[c] = "run" /\ cproc[c] # NoProc

sleep(c) ==
  /\ Runs(c)
  /\ Leave(c)
  /\ UNCHANGED <<ticks, clockticks, pc, reg, alive, priority, ctime, rtime, wtime>>

nice(c) ==
  /\ Runs(c)
  /\ priority' = [priority EXCEPT ![cproc[c]] = 1 - @]
  /\ UNCHANGED <<ticks, clockticks, cproc, pc, reg, used, alive, ctime, rtime, wtime>>

\* exit takes the time; wait2 subtracts.  The last process, init, stays.
exit(c) ==
  /\ Runs(c)
  /\ alive # {cproc[c]}
  /\ Leave(c)
  /\ alive' = alive \ {cproc[c]}
  /\ wtime' = ticks - ctime[cproc[c]] - rtime[cproc[c]]
  /\ priority' = [priority EXCEPT ![cproc[c]] = 0]
  /\ ctime' = [ctime EXCEPT ![cproc[c]] = 0]
  /\ rtime' = [rtime EXCEPT ![cproc[c]] = 0]
  /\ UNCHANGED <<ticks, clockticks, pc, reg>>

fork(c, p) ==
  /\ Runs(c)
  /\ p \notin alive
  /\ alive' = alive \cup {p}
  /\ ctime' = [ctime EXCEPT ![p] = ticks]
  /\ UNCHANGED <<ticks, clockticks, cproc, pc, reg, used, priority, rtime, wtime>>

Next ==
  \E c \in CPU :
    \/ timer(c) \/ CountLoad(c) \/ CountStore(c) \/ Expires(c) \/ GoesOn(c)
    \/ sleep(c) \/ nice(c) \/ exit(c)
    \/ \E p \in Proc : Switch(c, p) \/ fork(c, p)

Spec == Init /\ [][Next]_vars

-----------------------------------------------------------------------------
TypeOK ==
  /\ ticks \in 0..MaxTicks /\ clockticks \in 0..MaxTicks + 1
  /\ cproc \in [CPU -> Proc \cup {NoProc}]
  /\ pc \in [CPU -> {"run", "load", "store", "test"}]
  /\ reg \in [CPU -> 0..MaxTicks]
  /\ used \in [CPU -> Nat]
  /\ alive \subseteq Proc
  /\ priority \in [Proc -> {0, 1}]
  /\ ctime \in [Proc -> 0..MaxTicks] /\ rtime \in [Proc -> Nat]
  /\ wtime \in Int

\* A process frees itself from the CPU after its quantum of clock ticks (the
\* longer one, if it has changed its priority), whatever other processes and
\* CPUs did to the counter in the meantime (param.h, trap).
QuantumKept ==
  \A c \in CPU : cproc[c] # NoProc /\ pc[c] = "run" =>
    used[c] < IF TwoQueues THEN 2 * QUANTA ELSE QUANTA

\* A tick of process p that is in ticks and not yet in rtime.
Pending(p) == \E c \in CPU : cproc[c] = p /\ pc[c] \in {"load", "store"}

\* On one CPU and with one quantum: the counter has at least the ticks of the
\* process that runs, and is below the quantum but for the moment of the test;
\* every tick of rtime is one of ticks since ctime.
TickInv ==
  /\ \A c \in CPU :
       /\ cproc[c] \in alive \cup {NoProc}
       /\ cproc[c] = NoProc => used[c] = 0 /\ pc[c] = "run"
       /\ used[c] <= clockticks
       /\ IF pc[c] = "test" THEN clockticks <= QUANTA ELSE clockticks < QUANTA
       /\ pc[c] = "load" => clockticks < MaxTicks
       /\ pc[c] = "store" => reg[c] = clockticks /\ clockticks < MaxTicks
  /\ \A p \in Proc :
       /\ rtime[p] + ctime[p] + (IF Pending(p) THEN 1 ELSE 0) <= ticks
       /\ p \notin alive => rtime[p] = 0 /\ ctime[p] = 0

\* The waiting time that wait2 reports is not negative.
WaitTimeCounts == wtime >= 0
=============================================================================
