------------------------------- MODULE MCClock ------------------------------
(***************************************************************************)
(* Processes that sleep on the clock (Ticks, part "clock") and in a pipe   *)
(* (Pipe, part "pipe"), and whether they get out, checked in one run.      *)
(* part says what a behaviour is about; it never changes.  Pipe uses the   *)
(* variables x1, x2, ... for its own, which are 0 in part "clock"; Ticks   *)
(* stays in an initial state in part "pipe".                               *)
(***************************************************************************)
EXTENDS Ticks

CONSTANTS p1, p2,      \* the processes of Ticks
          r1, r2, w    \* processes that use the pipe

VARIABLES part, x1, x2, x3, x4, x5, x6, x7, x8, x9, x10, x11, x12

xs == <<x1, x2, x3, x4, x5, x6, x7, x8, x9, x10, x11, x12>>
allvars == <<part, xs, vars>>

\* sleep is asked for no time, for some, and for a negative number of ticks.
MCDelay == {-1, 0, 2}

\* Two readers and one writer, which may be killed.
E == INSTANCE Pipe WITH
       Reader <- {r1, r2}, Writer <- {w}, Byte <- {0}, PIPESIZE <- 1, Modulus <- 2,
       MaxCount <- 2, Recycle <- FALSE, Killable <- {w}, NoProc <- None,
       data <- x1, nread <- x2, nwrite <- x3, readopen <- x4, writeopen <- x5, lock <- x6,
       freed <- x7, fd <- x8, chan <- x9, killed <- x10, todo <- x11, pc <- x12

MCInit ==
  /\ Init
  /\ \/ /\ part = "clock" /\ x1 = 0 /\ x2 = 0 /\ x3 = 0 /\ x4 = 0 /\ x5 = 0 /\ x6 = 0
        /\ x7 = 0 /\ x8 = 0 /\ x9 = 0 /\ x10 = 0 /\ x11 = 0 /\ x12 = 0
     \/ part = "pipe" /\ E!Init /\ ticks = 0 /\ ~smp

Clock(A) == part = "clock" /\ A /\ UNCHANGED <<part, xs>>
Piping(A) == part = "pipe" /\ A /\ UNCHANGED <<part, vars>>

MCNext == Clock(Next) \/ Piping(E!Next)

\* The timer keeps interrupting, a call that has begun goes on, and whoever
\* spins for a lock that is free again and again gets it.  For the writer's
\* sake some reader keeps reading until all have closed.  A behaviour has one
\* part, and the steps of one actor are enabled at different program counters,
\* so fairness of these disjunctions is fairness of each.
MCSpec ==
  /\ MCInit /\ [][MCNext]_allvars
  /\ \A k \in {<<p1, r1>>, <<p2, r2>>} :
       SF_allvars(Clock(SleepStep(k[1]) \/ ExitClockticks(k[1])) \/ Piping(E!Goes(k[2])))
  /\ SF_allvars(Clock(timer \/ TimerWakeup) \/ Piping(E!Goes(w)))
  /\ SF_allvars(\/ Clock(SchedulerScans)
                \/ Piping(\E r \in {r1, r2}, n1 \in 1..2 : E!piperead(r, n1)))

-----------------------------------------------------------------------------
\* acquire(&tickslock) in the clockticks() of exit spins until it has the lock.
ClockticksReturns == \A p \in Proc : pc[p] = "exit" ~> pc[p] = "zombie"

\* Whoever sleeps in a call gets out of it: a process in sys_sleep, on one CPU; a
\* single writer in pipewrite while the readers keep reading or close (with two
\* writers one may find the pipe full again each time it is woken); and every
\* piperead once the last writer has closed.
CallsEnd ==
  /\ \A p \in Proc : (part = "clock" /\ ~smp /\ pc[p] = "test") ~> pc[p] = "idle"
  /\ (part = "pipe" /\ E!Writing(w)) ~> (part = "pipe" /\ x12[w] = "idle")
  /\ \A r \in {r1, r2} : (part = "pipe" /\ E!AtEof(r)) ~> (part = "pipe" /\ x12[r] = "idle")
=============================================================================
