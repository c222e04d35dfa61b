------------------------------- MODULE Ticks --------------------------------
(***************************************************************************)
(* The clock: tickslock, the timer interrupt that advances ticks and wakes *)
(* sleepers (trap.c), sys_sleep and sys_uptime (sysproc.c), and the calls  *)
(* of clockticks() from allocproc, from exit and from the FAIR2Q scheduler *)
(* (proc.c), the last two with ptable.lock held.                           *)
(*                                                                         *)
(* ticks is unsigned and wraps at Modulus; sys_sleep compares it unsigned  *)
(* with a signed argument.  A wait for ptable.lock or for tickslock inside *)
(* another critical section is a step of its own.                          *)
(***************************************************************************)
EXTENDS Integers

CONSTANTS Proc,     \* processes
          Timer,    \* the timer handler of the boot CPU, a lock holder like them
          Sched,    \* the scheduler of another CPU
          Modulus,  \* 2^32 in the code
          Delay,    \* the arguments of sleep
          Fair2Q,   \* built with FAIR2Q
          None

ASSUME TicksAssumption == /\ Modulus \in Nat \ {0}
                          /\ Delay \subseteq -(Modulus - 1)..(Modulus - 1)
                          /\ Fair2Q \in BOOLEAN
                          /\ None \notin Proc \cup {Timer, Sched}
                          /\ Timer # Sched /\ {Timer, Sched} \cap Proc = {}

Actor == Proc \cup {Timer, Sched}

VARIABLES
  smp,             \* the processes run on other CPUs than the timer handler
  ticks,
  tlock, ptlock,   \* holders of tickslock and ptable.lock
  asleep,          \* the processes SLEEPING on &ticks
  killed,
  ticks0, n,       \* the locals of sys_sleep
  elapsed,         \* ticks since the process entered sys_sleep
  pc

vars == <<smp, ticks, tlock, ptlock, asleep, killed, ticks0, n, elapsed, pc>>
locals == <<ticks0, n, elapsed>>

Init ==
  /\ smp \in BOOLEAN
  /\ ticks \in 0..Modulus - 1
  /\ tlock = None /\ ptlock = None
  /\ asleep = {}
  /\ killed = [p \in Proc |-> FALSE]
  /\ ticks0 = [p \in Proc |-> 0] /\ n = [p \in Proc |-> 0]
  /\ elapsed = [p \in Proc |-> 0]
  /\ pc = [a \in Actor |-> "idle"]

\* Actor a goes on.  On one CPU interrupts are off, and nothing else runs,
\* while any lock is held.
Goto(a, from, to) ==
  /\ smp \/ (tlock \in {None, a} /\ ptlock \in {None, a})
  /\ pc[a] = from
  /\ pc' = [pc EXCEPT ![a] = to]
  /\ UNCHANGED smp

-----------------------------------------------------------------------------
(* The timer interrupt of the boot CPU.                                     *)

\* ticks++ under tickslock.  No process is kept from testing its delay for a
\* whole period of the counter.
timer ==
  /\ Goto(Timer, "idle", "wakeup")
  /\ tlock = None
  /\ \A p \in Proc : elapsed[p] < Modulus - 1
  /\ tlock' = Timer
  /\ ticks' = (ticks + 1) % Modulus
  /\ elapsed' = [p \in Proc |-> IF pc[p] \in {"test", "sleeplock1", "waiting"}
                                THEN elapsed[p] + 1 ELSE elapsed[p]]
  /\ UNCHANGED <<ptlock, asleep, killed, ticks0, n>>

\* Mutant: nobody is woken.
TimerSilent ==
  /\ Goto(Timer, "wakeup", "idle")
  /\ ptlock = None
  /\ tlock' = None
  /\ UNCHANGED <<ticks, ptlock, asleep, killed, locals>>

TimerWakeup ==
  /\ Goto(Timer, "wakeup", "idle")
  /\ ptlock = None
  /\ asleep' = {}
  /\ tlock' = None
  /\ UNCHANGED <<ticks, ptlock, killed, locals>>

-----------------------------------------------------------------------------
(* sys_sleep.                                                               *)

sys_sleep(p, d) ==
  /\ Goto(p, "idle", "test")
  /\ tlock = None
  /\ tlock' = p
  /\ ticks0' = [ticks0 EXCEPT ![p] = ticks]
  /\ n' = [n EXCEPT ![p] = d]
  /\ elapsed' = [elapsed EXCEPT ![p] = 0]
  /\ UNCHANGED <<ticks, ptlock, asleep, killed>>

\* Mutant: one tick less is enough.
TooEarlyShort(p) == (ticks - ticks0[p]) % Modulus < (n[p] % Modulus) - 1

\* ticks - ticks0 < n, in unsigned arithmetic.
TooEarly(p) == (ticks - ticks0[p]) % Modulus < n[p] % Modulus

\* Return 0, or -1 if killed.
SleepReturns(p) ==
  /\ Goto(p, "test", "idle")
  /\ ~TooEarly(p) \/ killed[p]
  /\ tlock' = None
  /\ elapsed' = [elapsed EXCEPT ![p] = 0]
  /\ UNCHANGED <<ticks, ptlock, asleep, killed, ticks0, n>>

SleepAgain(p) ==
  /\ Goto(p, "test", "sleeplock1")
  /\ TooEarly(p) /\ ~killed[p]
  /\ UNCHANGED <<ticks, tlock, ptlock, asleep, killed, locals>>

\* sleep(&ticks, &tickslock): with ptable.lock it gives up tickslock and the
\* CPU; the scheduler then releases ptable.lock.
SleepPtable(p) ==
  /\ Goto(p, "sleeplock1", "waiting")
  /\ ptlock = None
  /\ asleep' = asleep \cup {p}
  /\ tlock' = None
  /\ UNCHANGED <<ticks, ptlock, killed, locals>>

SleepReacquire(p) ==
  /\ Goto(p, "waiting", "test")
  /\ p \notin asleep
  /\ tlock = None
  /\ tlock' = p
  /\ UNCHANGED <<ticks, ptlock, asleep, killed, locals>>

\* Some process calls kill.
kill(p) ==
  /\ ptlock = None
  /\ smp \/ tlock = None
  /\ ~killed[p] /\ pc[p] # "zombie"
  /\ killed' = [killed EXCEPT ![p] = TRUE]
  /\ asleep' = asleep \ {p}
  /\ UNCHANGED <<smp, ticks, tlock, ptlock, locals, pc>>

-----------------------------------------------------------------------------
(* clockticks().                                                            *)

\* sys_uptime, and allocproc for the process that takes the slot of p.
sys_uptime(p) ==
  /\ Goto(p, "idle", "idle")
  /\ tlock = None
  /\ UNCHANGED <<ticks, tlock, ptlock, asleep, killed, locals>>

allocproc(p) ==
  /\ Goto(p, "zombie", "idle")
  /\ tlock = None
  /\ killed' = [killed EXCEPT ![p] = FALSE]
  /\ UNCHANGED <<ticks, tlock, ptlock, asleep, locals>>

\* exit takes ptable.lock, and later asks for the time.
exit(p) ==
  /\ Goto(p, "idle", "exit")
  /\ ptlock = None
  /\ ptlock' = p
  /\ UNCHANGED <<ticks, tlock, asleep, killed, locals>>

ExitClockticks(p) ==
  /\ Goto(p, "exit", "zombie")
  /\ tlock = None
  /\ ptlock' = None
  /\ UNCHANGED <<ticks, tlock, asleep, killed, locals>>

\* So does the FAIR2Q scheduler; the other policies only hold ptable.lock.
scheduler ==
  /\ Goto(Sched, "idle", "scan")
  /\ ptlock = None
  /\ ptlock' = Sched
  /\ UNCHANGED <<ticks, tlock, asleep, killed, locals>>

SchedulerScans ==
  /\ Goto(Sched, "scan", "idle")
  /\ Fair2Q => tlock = None
  /\ ptlock' = None
  /\ UNCHANGED <<ticks, tlock, asleep, killed, locals>>

-----------------------------------------------------------------------------
SleepStep(p) ==
  SleepReturns(p) \/ SleepAgain(p) \/ SleepPtable(p) \/ SleepReacquire(p)

Next ==
  \/ timer \/ TimerWakeup \/ scheduler \/ SchedulerScans
  \/ \E p \in Proc :
       \/ \E d \in Delay : sys_sleep(p, d)
       \/ SleepStep(p) \/ kill(p)
       \/ sys_uptime(p) \/ allocproc(p) \/ exit(p) \/ ExitClockticks(p)

Spec == Init /\ [][Next]_vars

-----------------------------------------------------------------------------
TypeOK ==
  /\ smp \in BOOLEAN
  /\ ticks \in 0..Modulus - 1
  /\ tlock \in Actor \cup {None} /\ ptlock \in Actor \cup {None}
  /\ asleep \subseteq Proc
  /\ killed \in [Proc -> BOOLEAN]
  /\ ticks0 \in [Proc -> 0..Modulus - 1] /\ n \in [Proc -> Delay \cup {0}]
  /\ elapsed \in [Proc -> 0..Modulus - 1]
  /\ pc \in [Actor -> {"idle", "wakeup", "test", "sleeplock1", "waiting", "exit", "zombie", "scan"}]

\* sys_sleep returns 0 only when the clock has advanced n times since the call,
\* across the wrap of the counter.
SleepsLongEnough ==
  [][\A p \in Proc : SleepReturns(p) /\ ~killed[p] => elapsed[p] >= n[p]]_vars

\* No sleeper is left on &ticks past its delay, except while the handler that
\* advanced the clock has its wakeup still to do, although sleepers and handler
\* meet only under tickslock and ptable.lock in turn.
NoLostTick ==
  \A p \in asleep : TooEarly(p) \/ pc[Timer] = "wakeup"
=============================================================================
