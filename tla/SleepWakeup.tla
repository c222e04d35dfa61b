----------------------------- MODULE SleepWakeup -----------------------------
(***************************************************************************)
(* sleep and wakeup (proc.c), one lock operation at a time, under the      *)
(* clients that use them as a sleep lock: ilock and iunlock (fs.c), which  *)
(* guard the I_BUSY flag of every inode by icache.lock and sleep on the    *)
(* inode.  bget/brelse use B_BUSY, bcache.lock and the buffer the same way.*)
(***************************************************************************)
CONSTANTS Proc,    \* the processes
          Inode,   \* the inodes, which are also the sleep channels
          NoProc,  \* nobody holds a lock
          NoChan   \* p->chan == 0

ASSUME SleepAssumption == NoProc \notin Proc /\ NoChan \notin Inode

VARIABLES
  lk,      \* icache.lock: its holder
  ptlock,  \* ptable.lock: its holder, or the process whose CPU runs the scheduler
  busy,    \* ip->flags & I_BUSY
  state,   \* p->state
  chan,    \* p->chan
  ip,      \* the inode a process works on
  pc

vars == <<lk, ptlock, busy, state, chan, ip, pc>>

Init ==
  /\ lk = NoProc
  /\ ptlock = NoProc
  /\ busy = [i \in Inode |-> FALSE]
  /\ state = [p \in Proc |-> "RUNNING"]
  /\ chan = [p \in Proc |-> NoChan]
  /\ ip = [p \in Proc |-> NoChan]
  /\ pc = [p \in Proc |-> "idle"]

Goto(p, from, to) ==
  /\ pc[p] = from
  /\ pc' = [pc EXCEPT ![p] = to]

-----------------------------------------------------------------------------
(* ilock and iunlock.                                                       *)

ilock(p, i) ==
  /\ Goto(p, "idle", "test")
  /\ lk = NoProc
  /\ lk' = p
  /\ ip' = [ip EXCEPT ![p] = i]
  /\ UNCHANGED <<ptlock, busy, state, chan>>

IlockWait(p) ==
  /\ Goto(p, "test", "sleeplock1")
  /\ busy[ip[p]]
  /\ UNCHANGED <<lk, ptlock, busy, state, chan, ip>>

\* Mutant: the flag is not set.
IlockForgetsBusy(p) ==
  /\ Goto(p, "test", "holding")
  /\ ~busy[ip[p]]
  /\ lk' = NoProc
  /\ UNCHANGED <<ptlock, busy, state, chan, ip>>

IlockTake(p) ==
  /\ Goto(p, "test", "holding")
  /\ ~busy[ip[p]]
  /\ busy' = [busy EXCEPT ![ip[p]] = TRUE]
  /\ lk' = NoProc
  /\ UNCHANGED <<ptlock, state, chan, ip>>

iunlock(p) ==
  /\ Goto(p, "holding", "wakeup")
  /\ lk = NoProc
  /\ lk' = p
  /\ busy' = [busy EXCEPT ![ip[p]] = FALSE]
  /\ UNCHANGED <<ptlock, state, chan, ip>>

IunlockRelease(p) ==
  /\ Goto(p, "unlocked", "idle")
  /\ lk' = NoProc
  /\ UNCHANGED <<ptlock, busy, state, chan, ip>>

-----------------------------------------------------------------------------
(* sleep(ip, &icache.lock).                                                 *)

\* Mutant: ptable.lock is not acquired.
SleepWithoutPtable(p) ==
  /\ Goto(p, "sleeplock1", "release")
  /\ UNCHANGED <<lk, ptlock, busy, state, chan, ip>>

SleepPtable(p) ==
  /\ Goto(p, "sleeplock1", "release")
  /\ ptlock = NoProc
  /\ ptlock' = p
  /\ UNCHANGED <<lk, busy, state, chan, ip>>

SleepRelease(p) ==
  /\ Goto(p, "release", "asleep")
  /\ lk' = NoProc
  /\ UNCHANGED <<ptlock, busy, state, chan, ip>>

SleepState(p) ==
  /\ Goto(p, "asleep", "sched")
  /\ chan' = [chan EXCEPT ![p] = ip[p]]
  /\ state' = [state EXCEPT ![p] = "SLEEPING"]
  /\ UNCHANGED <<lk, ptlock, busy, ip>>

\* The scheduler of the CPU the process left gives ptable.lock back.
SchedulerRelease(p) ==
  /\ Goto(p, "sched", "switched")
  /\ ptlock' = NoProc
  /\ UNCHANGED <<lk, busy, state, chan, ip>>

\* A scheduler takes ptable.lock and switches to the process, which holds it.
SchedulerSwitch(p) ==
  /\ state[p] = "RUNNABLE"
  /\ Goto(p, "switched", "tidy")
  /\ ptlock = NoProc
  /\ ptlock' = p
  /\ state' = [state EXCEPT ![p] = "RUNNING"]
  /\ UNCHANGED <<lk, busy, chan, ip>>

SleepTidy(p) ==
  /\ Goto(p, "tidy", "sleeplock2")
  /\ chan' = [chan EXCEPT ![p] = NoChan]
  /\ ptlock' = NoProc
  /\ UNCHANGED <<lk, busy, state, ip>>

SleepReacquire(p) ==
  /\ Goto(p, "sleeplock2", "test")
  /\ lk = NoProc
  /\ lk' = p
  /\ UNCHANGED <<ptlock, busy, state, chan, ip>>

-----------------------------------------------------------------------------
(* wakeup(ip).                                                              *)

wakeup(p) ==
  /\ Goto(p, "wakeup", "wakeup1")
  /\ ptlock = NoProc
  /\ ptlock' = p
  /\ UNCHANGED <<lk, busy, state, chan, ip>>

\* Mutant: one sleeper is made runnable, not all of them.
Wakeup1One(p) ==
  /\ Goto(p, "wakeup1", "unlocked")
  /\ LET woken == {q \in Proc : state[q] = "SLEEPING" /\ chan[q] = ip[p]} IN
       state' = IF woken = {} THEN state
                ELSE [state EXCEPT ![CHOOSE q \in woken : TRUE] = "RUNNABLE"]
  /\ ptlock' = NoProc
  /\ UNCHANGED <<lk, busy, chan, ip>>

wakeup1(p) ==
  /\ Goto(p, "wakeup1", "unlocked")
  /\ state' = [q \in Proc |-> IF state[q] = "SLEEPING" /\ chan[q] = ip[p]
                              THEN "RUNNABLE" ELSE state[q]]
  /\ ptlock' = NoProc
  /\ UNCHANGED <<lk, busy, chan, ip>>

-----------------------------------------------------------------------------
SleepStep(p) ==
  \/ IlockWait(p) \/ SleepPtable(p) \/ SleepRelease(p) \/ SleepState(p)
  \/ SchedulerRelease(p) \/ SchedulerSwitch(p) \/ SleepTidy(p) \/ SleepReacquire(p)

LockStep(p) ==
  \/ IlockTake(p)
  \/ iunlock(p) \/ wakeup(p) \/ wakeup1(p) \/ IunlockRelease(p)

Next ==
  \E p \in Proc : SleepStep(p) \/ LockStep(p) \/ \E i \in Inode : ilock(p, i)

Spec == Init /\ [][Next]_vars

-----------------------------------------------------------------------------
\* Types; a sleeper sleeps on an inode.
TypeOK ==
  /\ lk \in Proc \cup {NoProc}
  /\ ptlock \in Proc \cup {NoProc}
  /\ busy \in [Inode -> BOOLEAN]
  /\ state \in [Proc -> {"RUNNING", "RUNNABLE", "SLEEPING"}]
  /\ chan \in [Proc -> Inode \cup {NoChan}]
  /\ ip \in [Proc -> Inode \cup {NoChan}]
  /\ pc \in [Proc -> {"idle", "test", "holding", "wakeup", "wakeup1", "unlocked", "sleeplock1",
                      "release", "asleep", "sched", "switched", "tidy", "sleeplock2"}]
  /\ \A p \in Proc : state[p] = "SLEEPING" => chan[p] \in Inode

\* ilock: I_BUSY locks the inode: two processes never hold one inode.
InodeExclusive ==
  \A p, q \in Proc : pc[p] = "holding" /\ pc[q] = "holding" /\ ip[p] = ip[q] => p = q

\* "Once we hold ptable.lock, we can be guaranteed that we won't miss any
\* wakeup": a process asleep on an inode that is no longer busy is about to
\* be woken by the holder of icache.lock, which has cleared I_BUSY.
NoLostWakeup ==
  \A p \in Proc :
    state[p] = "SLEEPING" /\ ~busy[ip[p]] =>
      \E q \in Proc : pc[q] \in {"wakeup", "wakeup1"} /\ ip[q] = ip[p]

\* sleep and wakeup behave as an atomic monitor.  A process waits from the
\* moment sleep releases the lock, before it is marked SLEEPING.
waits ==
  [p \in Proc |-> IF state[p] = "SLEEPING" \/ pc[p] = "asleep" THEN ip[p] ELSE NoChan]

MonitorSpec == INSTANCE Monitor WITH Chan <- Inode, owner <- lk, waits <- waits

SleepIsAtomic == MonitorSpec!Spec

\* No process sleeps forever on an inode that its holder releases.
SleeperWakes ==
  \A p \in Proc : state[p] = "SLEEPING" ~> state[p] = "RUNNING"
=============================================================================
