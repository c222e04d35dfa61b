------------------------------ MODULE MCWaiting -----------------------------
(***************************************************************************)
(* Sleep and wakeup (SleepWakeup), and whether those who wait for the disk,*)
(* for a buffer, for an inode or, when the machine starts, for another     *)
(* processor get what they wait for, checked in one run.  part says what a *)
(* behaviour is about; it never changes.  The instances use the variables  *)
(* x1, x2, ... for theirs; those that an instance does not need are 0.     *)
(* SleepWakeup stays in its initial state except in part "sleep".          *)
(***************************************************************************)
EXTENDS SleepWakeup, Integers

CONSTANTS None, ncpu, bcpu   \* bcpu: the processor that boots

VARIABLES part, x1, x2, x3, x4, x5, x6, x7, x8, x9, x10, x11, x12, x13, x14

from8 == <<x8, x9, x10, x11, x12, x13, x14>>
xs == <<x1, x2, x3, x4, x5, x6, x7, from8>>
allvars == <<part, xs, vars>>

\* Three processes sleep on the same buffers in bget and in iderw.
Q == INSTANCE Bcache WITH
       NBUF <- 3, Sector <- {1, 2}, Value <- {1}, DiskErrors <- FALSE,
       next <- x1, prev <- x2, sector <- x3, busy <- x4, valid <- x5, dirty <- x6, data <- x7,
       idequeue <- x8, active <- x9, disk <- x10, pc <- x11, want <- x12, buf <- x13, chan <- x14

I == INSTANCE Icache WITH
       NINODE <- 3, NInum <- 1, MaxLink <- 2,
       inum <- x1, ref <- x2, busy <- x3, valid <- x4, type <- x5, nlink <- x6, dtype <- x7,
       dnlink <- x8, entries <- x9, pc <- x10, op <- x11, ip <- x12, want <- x13, asleep <- x14

B == INSTANCE Boot WITH
       c <- x1, bpc <- x2, code4 <- x3, ipis <- x4, apc <- x5, esp <- x6, booted <- x7

ASSUME WaitingAssumption == B!BootAssumption
ASSUME Q!BcacheAssumption /\ I!IcacheAssumption

Zero8 == x8 = 0 /\ x9 = 0 /\ x10 = 0 /\ x11 = 0 /\ x12 = 0 /\ x13 = 0 /\ x14 = 0

MCInit ==
  /\ Init
  /\ \/ /\ part = "sleep" /\ Zero8
        /\ x1 = 0 /\ x2 = 0 /\ x3 = 0 /\ x4 = 0 /\ x5 = 0 /\ x6 = 0 /\ x7 = 0
     \/ part = "queue" /\ Q!Init
     \/ part = "inodes" /\ I!Init
     \/ part = "boot" /\ B!Init /\ Zero8

Of(which, A) == part = which /\ A /\ UNCHANGED <<part, vars>>

\* A process that is in no call may stay out of the file system, and a
\* processor in its scheduler goes on there.
MCNext ==
  \/ part = "sleep" /\ Next /\ UNCHANGED <<part, xs>>
  \/ Of("queue", Q!Next)
  \/ Of("inodes", I!Next)
  \/ Of("inodes", (\E p \in Proc : x10[p] = "idle") /\ UNCHANGED xs)
  \/ Of("boot", B!Next /\ UNCHANGED from8)
  \/ Of("boot", (\E i \in 0..ncpu - 1 : x5[i] = "scheduler") /\ UNCHANGED xs)

\* A process that spins for a lock gets it if it is free again and again; one
\* that has a buffer goes on and releases it; a call on an inode that has begun
\* goes on; the disk answers; every processor runs, and takes the startup
\* messages sent to it.  A behaviour has one part, so fairness of a disjunction
\* of steps of several parts is fairness of each.
MCSpec ==
  /\ MCInit /\ [][MCNext]_allvars
  /\ \A p \in Proc :
       /\ SF_allvars(\/ part = "sleep" /\ (SleepStep(p) \/ LockStep(p)) /\ UNCHANGED <<part, xs>>
                     \/ Of("queue", Q!brelse(p)))
       /\ WF_allvars(Of("queue", Q!Step(p)) \/ Of("inodes", I!Lock(p) \/ I!Finish(p)))
  /\ WF_allvars(Of("queue", Q!ideintr(FALSE)) \/ Of("boot", B!bootothers /\ UNCHANGED from8))
  /\ \A i \in 0..ncpu - 1 : WF_allvars(Of("boot", B!Cpu(i) /\ UNCHANGED from8))

-----------------------------------------------------------------------------
\* Everybody who waits goes on: a sleeper on an inode's lock (ilock, at the grain
\* of sleep and wakeup), a disk request, whoever sleeps on a buffer, and whoever
\* sleeps in ilock for an inode that an iput is freeing; and every processor
\* reaches the scheduler, the boot processor last, whose wait for `booted' ends
\* each time (bootothers, mpmain).
WaitersServed ==
  /\ SleeperWakes
  /\ \A p \in Proc :
       /\ (part = "queue" /\ Q!Requesting(p)) ~> (part = "queue" /\ ~Q!Requesting(p))
       /\ (part = "queue" /\ Q!Sleeping(p)) ~> (part = "queue" /\ ~Q!Sleeping(p))
       /\ (part = "inodes" /\ I!Sleeping(p)) ~> (part = "inodes" /\ ~I!Sleeping(p))
  /\ part = "boot" ~> part = "boot" /\ B!AllStarted

\* Every processor runs on the stack allocated for it, and no two on one: the
\* word at code-4 is not changed before its reader has read it, however late
\* the startup messages arrive (bootothers, bootother.S).
OwnStack == part = "boot" => B!OwnStack
=============================================================================
