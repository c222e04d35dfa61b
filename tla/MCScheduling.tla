---------------------------- MODULE MCScheduling ----------------------------
(***************************************************************************)
(* The scheduling policies and the timer interrupt, checked in one run.    *)
(* part says which instance a behaviour is about; it never changes.  The   *)
(* instances share the variables they have in common and use own1 to own5  *)
(* for their own; a variable that an instance does not have is 0.          *)
(***************************************************************************)
EXTENDS Integers

CONSTANTS NPROC,                \* slots of the policies' process table
          NiceCPU, NiceSlots,    \* RR2Q where the programs of NiceSlots call nice
          PlainCPU,              \* RR2Q where nobody does
          FairSlots, FairTicks,  \* FAIR2Q: who calls nice, and the bound on ticks
          TimerProc, QUANTA, TimerTicks

VARIABLES part, state, priority, ptlock, cproc, idx, loop, ticks, ctime, rtime,
          own1, own2, own3, own4, own5

table == <<state, priority, ptlock, cproc>>
vars == <<part, table, idx, loop, ticks, ctime, rtime, own1, own2, own3, own4, own5>>

RR2Q(CPU, MayNice) == INSTANCE SchedRR2Q WITH lastLowPri <- own1, crashed <- own2, seen <- own3
\* FAIR2Q, and the timer interrupt of the RR build, on one CPU.
Fair == INSTANCE SchedFAIR2Q WITH CPU <- {1}, MayNice <- FairSlots, MaxTicks <- FairTicks,
                                  min_high_pri <- own1, min_low_pri <- own2, cand <- own3,
                                  smallHighRatio <- own4, smallLowRatio <- own5
T == INSTANCE Timer WITH CPU <- {1}, Boot <- 1, Proc <- TimerProc, NoProc <- 0,
                         TwoQueues <- FALSE, MaxTicks <- TimerTicks,
                         clockticks <- idx, pc <- own1, reg <- own2, used <- own3, alive <- own4, wtime <- own5

ASSUME SchedulingAssumption ==
  /\ RR2Q(NiceCPU, NiceSlots)!TableAssumption /\ RR2Q(PlainCPU, {})!TableAssumption
  /\ Fair!FairAssumption
  /\ T!TimerAssumption

RR2QRest == <<ticks, ctime, rtime, own4, own5>>
RR2QRestInit == ticks = 0 /\ ctime = 0 /\ rtime = 0 /\ own4 = 0 /\ own5 = 0
TimerRest == <<state, ptlock, loop>>

NiceInit == part = "nice" /\ RR2Q(NiceCPU, NiceSlots)!Init /\ RR2QRestInit

Init ==
  \/ NiceInit
  \/ part = "plain" /\ RR2Q(PlainCPU, {})!Init /\ RR2QRestInit
  \/ part = "fair" /\ Fair!Init
  \/ part = "timer" /\ T!Init /\ state = 0 /\ ptlock = 0 /\ loop = 0

Next ==
  /\ \/ part = "nice" /\ RR2Q(NiceCPU, NiceSlots)!Next /\ UNCHANGED RR2QRest
     \/ part = "plain" /\ RR2Q(PlainCPU, {})!Next /\ UNCHANGED RR2QRest
     \/ part = "fair" /\ Fair!Next
     \/ part = "timer" /\ T!Next /\ UNCHANGED TimerRest
  /\ UNCHANGED part

\* The scheduler keeps looping, and the timer makes every process yield.
Spec ==
  /\ Init /\ [][Next]_vars
  /\ \A c \in NiceCPU :
       /\ WF_vars(/\ part = "nice" /\ ~own2
                  /\ RR2Q(NiceCPU, NiceSlots)!Scheduler(c) /\ UNCHANGED <<part, RR2QRest>>)
       /\ WF_vars(/\ part = "nice" /\ ~own2
                  /\ RR2Q(NiceCPU, NiceSlots)!yield(c) /\ UNCHANGED <<part, idx, loop, own1, own2, own3, RR2QRest>>)

\* Only the instance with processes of low priority.
NiceSpec == NiceInit /\ [][Next]_vars

TypeOK ==
  CASE part = "nice" -> RR2Q(NiceCPU, NiceSlots)!TypeOK
    [] part = "plain" -> RR2Q(PlainCPU, {})!TypeOK
    [] part = "fair" -> Fair!TypeOK
    [] part = "timer" -> T!TypeOK

\* Who is chosen: RR2Q switches only to a RUNNABLE process while all have high
\* priority, and to one of low priority only after a round in which every slot
\* was passed over; FAIR2Q on one CPU switches to a RUNNABLE process that the
\* round read, of high priority if it read any, and no other of its priority
\* had a smaller ratio.
ChoosesRight ==
  [][/\ part = "plain" => RR2Q(PlainCPU, {})!ToRunnable
     /\ part = "nice" => RR2Q(NiceCPU, NiceSlots)!LowRound
     /\ part = "fair" => Fair!ToRunnable /\ Fair!Fairest]_vars

\* "check if any of them is runnable, the first that is, I will choose him" (the
\* comment in scheduler): RR2Q switches only to a process that is RUNNABLE, also
\* when processes have low priority.
LowDispatchesRunnable == [][part = "nice" => RR2Q(NiceCPU, NiceSlots)!ToRunnable]_vars

\* Under RR2Q a runnable process of high priority gets the CPU.
HighRuns ==
  \A p \in 1..NPROC :
    (part = "nice" /\ RR2Q(NiceCPU, NiceSlots)!HighWaits(p)) ~>
    (part = "nice" /\ RR2Q(NiceCPU, NiceSlots)!HighRuns(p))

\* A process frees itself from the CPU after its quantum of clock ticks,
\* whatever other processes did to the counter before it ran (trap, param.h),
\* and the waiting time that wait2 reports is not negative.
TimerExact == part = "timer" => T!QuantumKept /\ T!WaitTimeCounts
=============================================================================
