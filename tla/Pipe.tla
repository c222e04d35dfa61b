-------------------------------- MODULE Pipe --------------------------------
(***************************************************************************)
(* One pipe (pipe.c) and the file references to its two ends (file.c).     *)
(* Readers and writers hold p->lock while they work on the ring buffer and *)
(* sleep on &p->nread and &p->nwrite.  sleep is one step, as SleepWakeup   *)
(* shows; testing proc->killed and sleeping are two, because kill takes    *)
(* only ptable.lock.                                                       *)
(***************************************************************************)
EXTENDS Integers, FiniteSets

CONSTANTS Reader, Writer,  \* processes that may hold the read or write end
          Byte,            \* values of a byte
          PIPESIZE,        \* 512
          Modulus,         \* 2^32, where nread and nwrite wrap around
          MaxCount,        \* bound on the count of a read or a write
          Recycle,         \* another pipe follows one that is gone
          Killable,        \* processes that kill may hit
          NoProc           \* nobody holds p->lock

ASSUME PipeAssumption ==
  /\ PIPESIZE \in Nat \ {0}
  /\ Modulus \in Nat /\ Modulus > PIPESIZE /\ Modulus % PIPESIZE = 0
  /\ MaxCount \in Nat
  /\ Reader # {} /\ Writer # {} /\ Reader \cap Writer = {}
  /\ NoProc \notin Reader \cup Writer

VARIABLES
  data, nread, nwrite, readopen, writeopen,  \* struct pipe
  lock,    \* holder of p->lock
  freed,   \* the page of the pipe has been given back
  fd,      \* the process has a descriptor of its end
  chan,    \* what the process sleeps on, "none" if it is awake
  killed,
  todo,    \* n - i, 0 outside a call
  pc

ring == <<data, nread, nwrite>>
ends == <<readopen, writeopen, freed, fd>>
procs == <<chan, killed, todo, pc>>
vars == <<ring, ends, lock, procs>>

User == Reader \cup Writer

\* Two processes with the two ends of a new pipe.
Init ==
  /\ data \in [0..PIPESIZE - 1 -> Byte]
  /\ nread = 0 /\ nwrite = 0
  /\ readopen = TRUE /\ writeopen = TRUE
  /\ lock = NoProc
  /\ freed = FALSE
  /\ fd = [p \in User |-> TRUE]
  /\ chan = [p \in User |-> "none"]
  /\ killed = [p \in User |-> FALSE]
  /\ todo = [p \in User |-> 0]
  /\ pc = [p \in User |-> "idle"]

\* The next pipe takes the page: sys_pipe, and a fork that shares the ends out.
pipealloc(r, w) ==
  /\ Recycle
  /\ freed
  /\ freed' = FALSE
  /\ readopen' = TRUE /\ writeopen' = TRUE
  /\ nread' = 0 /\ nwrite' = 0
  /\ fd' = [p \in User |-> p \in {r, w}]
  /\ killed' = [p \in User |-> FALSE]
  /\ UNCHANGED <<data, lock, chan, todo, pc>>

Full == nwrite = (nread + PIPESIZE) % Modulus
Empty == nread = nwrite

Goto(p, from, to) ==
  /\ pc[p] = from
  /\ pc' = [pc EXCEPT ![p] = to]

\* A system call on the pipe starts with acquire(&p->lock).
Enter(p, label, n) ==
  /\ fd[p] /\ ~killed[p]
  /\ Goto(p, "idle", label)
  /\ lock = NoProc
  /\ lock' = p
  /\ todo' = [todo EXCEPT ![p] = n]
  /\ UNCHANGED <<ring, ends, chan, killed>>

wakeup(ch) == chan' = [p \in User |-> IF chan[p] = ch THEN "none" ELSE chan[p]]

Sleep(p, ch) ==
  /\ lock' = NoProc
  /\ chan' = [chan EXCEPT ![p] = ch]
  /\ UNCHANGED <<ring, ends, killed, todo>>

\* sleep has been woken and takes p->lock again.
Reacquire(p) ==
  /\ chan[p] = "none"
  /\ lock = NoProc
  /\ lock' = p
  /\ UNCHANGED <<ring, ends, chan, killed, todo>>

-----------------------------------------------------------------------------
(* pipewrite.                                                               *)

pipewrite(p, n) == p \in Writer /\ Enter(p, "write", n)

WriteByte(p, b) ==
  /\ Goto(p, "write", "write")
  /\ todo[p] > 0 /\ ~Full
  /\ data' = [data EXCEPT ![nwrite % PIPESIZE] = b]
  /\ nwrite' = (nwrite + 1) % Modulus
  /\ todo' = [todo EXCEPT ![p] = @ - 1]
  /\ UNCHANGED <<nread, ends, lock, chan, killed>>

\* The pipe is full and nobody will read: return -1, without a wakeup.
WriteFails(p) ==
  /\ Goto(p, "write", "idle")
  /\ todo[p] > 0 /\ Full
  /\ ~readopen \/ killed[p]
  /\ lock' = NoProc
  /\ todo' = [todo EXCEPT ![p] = 0]
  /\ UNCHANGED <<ring, ends, chan, killed>>

\* Mutant: the readers are not told of the bytes written so far.
WriteFullSilent(p) ==
  /\ Goto(p, "write", "writesleep")
  /\ todo[p] > 0 /\ Full
  /\ readopen /\ ~killed[p]
  /\ UNCHANGED <<ring, ends, lock, chan, killed, todo>>

WriteFull(p) ==
  /\ Goto(p, "write", "writesleep")
  /\ todo[p] > 0 /\ Full
  /\ readopen /\ ~killed[p]
  /\ wakeup("nread")
  /\ UNCHANGED <<ring, ends, lock, killed, todo>>

WriteSleep(p) == Goto(p, "writesleep", "writewait") /\ Sleep(p, "nwrite")
WriteWoken(p) == Goto(p, "writewait", "write") /\ Reacquire(p)

WriteDone(p) ==
  /\ Goto(p, "write", "idle")
  /\ todo[p] = 0
  /\ wakeup("nread")
  /\ lock' = NoProc
  /\ UNCHANGED <<ring, ends, killed, todo>>

-----------------------------------------------------------------------------
(* piperead.                                                                *)

piperead(p, n) == p \in Reader /\ Enter(p, "read", n)

ReadFails(p) ==
  /\ Goto(p, "read", "idle")
  /\ Empty /\ writeopen
  /\ killed[p]
  /\ lock' = NoProc
  /\ todo' = [todo EXCEPT ![p] = 0]
  /\ UNCHANGED <<ring, ends, chan, killed>>

ReadEmpty(p) ==
  /\ Goto(p, "read", "readsleep")
  /\ Empty /\ writeopen
  /\ ~killed[p]
  /\ UNCHANGED <<ring, ends, lock, chan, killed, todo>>

ReadSleep(p) == Goto(p, "readsleep", "readwait") /\ Sleep(p, "nread")
ReadWoken(p) == Goto(p, "readwait", "read") /\ Reacquire(p)

ReadReady(p) ==
  /\ Goto(p, "read", "copy")
  /\ ~(Empty /\ writeopen)
  /\ UNCHANGED <<ring, ends, lock, chan, killed, todo>>

\* Mutant: the copy loop does not stop at an empty buffer.
ReadPastEnd(p) ==
  /\ Goto(p, "copy", "copy")
  /\ todo[p] > 0
  /\ nread' = (nread + 1) % Modulus
  /\ todo' = [todo EXCEPT ![p] = @ - 1]
  /\ UNCHANGED <<data, nwrite, ends, lock, chan, killed>>

ReadByte(p) ==
  /\ Goto(p, "copy", "copy")
  /\ todo[p] > 0 /\ ~Empty
  /\ nread' = (nread + 1) % Modulus
  /\ todo' = [todo EXCEPT ![p] = @ - 1]
  /\ UNCHANGED <<data, nwrite, ends, lock, chan, killed>>

\* Mutant: the writers are not told of the space.
ReadDoneSilent(p) ==
  /\ Goto(p, "copy", "idle")
  /\ todo[p] = 0 \/ Empty
  /\ lock' = NoProc
  /\ todo' = [todo EXCEPT ![p] = 0]
  /\ UNCHANGED <<ring, ends, chan, killed>>

ReadDone(p) ==
  /\ Goto(p, "copy", "idle")
  /\ todo[p] = 0 \/ Empty
  /\ wakeup("nwrite")
  /\ lock' = NoProc
  /\ todo' = [todo EXCEPT ![p] = 0]
  /\ UNCHANGED <<ring, ends, killed>>

-----------------------------------------------------------------------------
(* The ends of the pipe.                                                    *)

SameEnd(p) == IF p \in Reader THEN Reader ELSE Writer

\* fork copies the descriptor to a process that has none.
filedup(p, q) ==
  /\ fd[p] /\ ~fd[q] /\ q \in SameEnd(p)
  /\ pc[p] = "idle" /\ pc[q] = "idle" /\ ~killed[p]
  /\ fd' = [fd EXCEPT ![q] = TRUE]
  /\ killed' = [killed EXCEPT ![q] = FALSE]
  /\ UNCHANGED <<ring, readopen, writeopen, freed, lock, chan, todo, pc>>

\* Mutant: every close closes the end, whoever else has it open.
CloseIgnoresRef(p) ==
  /\ fd[p]
  /\ Goto(p, "idle", "close")
  /\ fd' = [fd EXCEPT ![p] = FALSE]
  /\ UNCHANGED <<ring, readopen, writeopen, freed, lock, chan, killed, todo>>

\* --f->ref; the last reference to an end goes on to pipeclose.
fileclose(p) ==
  /\ fd[p]
  /\ Goto(p, "idle", IF \E q \in SameEnd(p) \ {p} : fd[q] THEN "idle" ELSE "close")
  /\ fd' = [fd EXCEPT ![p] = FALSE]
  /\ UNCHANGED <<ring, readopen, writeopen, freed, lock, chan, killed, todo>>

pipeclose(p) ==
  /\ lock = NoProc
  /\ readopen' = (readopen /\ p \notin Reader)
  /\ writeopen' = (writeopen /\ p \notin Writer)
  /\ wakeup(IF p \in Writer THEN "nread" ELSE "nwrite")
  /\ Goto(p, "close", IF readopen' \/ writeopen' THEN "idle" ELSE "kfree")
  /\ UNCHANGED <<ring, freed, fd, lock, killed, todo>>

kfree(p) ==
  /\ Goto(p, "kfree", "idle")
  /\ freed' = TRUE
  /\ UNCHANGED <<ring, readopen, writeopen, fd, lock, chan, killed, todo>>

\* kill marks a process that has not exited and ends its sleep.
kill(p) ==
  /\ p \in Killable /\ fd[p] /\ ~killed[p]
  /\ killed' = [killed EXCEPT ![p] = TRUE]
  /\ chan' = [chan EXCEPT ![p] = "none"]
  /\ UNCHANGED <<ring, ends, lock, todo, pc>>

-----------------------------------------------------------------------------
WriteStep(p) ==
  \/ \E b \in Byte : WriteByte(p, b)
  \/ WriteFails(p) \/ WriteFull(p) \/ WriteSleep(p) \/ WriteWoken(p) \/ WriteDone(p)

ReadStep(p) ==
  \/ ReadFails(p) \/ ReadEmpty(p) \/ ReadSleep(p) \/ ReadWoken(p)
  \/ ReadReady(p) \/ ReadByte(p) \/ ReadDone(p)

Next ==
  \/ \E r \in Reader, w \in Writer : pipealloc(r, w)
  \/ \E p \in User :
       \/ \E n \in 0..MaxCount : pipewrite(p, n) \/ piperead(p, n)
       \/ WriteStep(p) \/ ReadStep(p)
       \/ \E q \in User : filedup(p, q)
       \/ fileclose(p) \/ pipeclose(p) \/ kfree(p) \/ kill(p)

Spec == Init /\ [][Next]_vars

-----------------------------------------------------------------------------
\* Types; never more than PIPESIZE bytes are in the ring.
TypeOK ==
  /\ data \in [0..PIPESIZE - 1 -> Byte]
  /\ nread \in 0..Modulus - 1
  /\ nwrite \in 0..Modulus - 1
  /\ (nwrite - nread) % Modulus <= PIPESIZE
  /\ readopen \in BOOLEAN /\ writeopen \in BOOLEAN /\ freed \in BOOLEAN
  /\ lock \in User \cup {NoProc}
  /\ fd \in [User -> BOOLEAN]
  /\ chan \in [User -> {"none", "nread", "nwrite"}]
  /\ killed \in [User -> BOOLEAN]
  /\ todo \in [User -> 0..MaxCount]
  /\ pc \in [User -> {"idle", "write", "writesleep", "writewait", "read", "readsleep",
                      "readwait", "copy", "close", "kfree"}]

\* The ring buffer with its wrapping counters is a FIFO queue.
queue == [i \in 1..(nwrite - nread) % Modulus |-> data[(nread + i - 1) % PIPESIZE]]

FifoSpec == INSTANCE Fifo WITH Capacity <- PIPESIZE
PipeIsFifo == FifoSpec!Spec

\* While p->lock is free no writer sleeps that could write or should fail, and
\* no reader sleeps that should see the end of file, or that has bytes to read.
\* The last holds as long as no writer is killed: a killed writer that has
\* filled the pipe returns from pipewrite without a wakeup.
NoLostWakeup ==
  lock = NoProc =>
    \A p \in User :
      /\ chan[p] = "nwrite" => Full /\ readopen
      /\ chan[p] = "nread" => writeopen /\ (Empty \/ Killable \cap Writer # {})

\* The pipe's page is given back once, after the last process left its code.
NotUsedAfterFree ==
  /\ freed => \A p \in User : ~fd[p] /\ pc[p] = "idle"
  /\ \A p, q \in User : pc[p] = "kfree" => ~fd[q] /\ (pc[q] = "idle" \/ q = p)

\* A step of a call that has begun; a process in pipewrite; one in piperead after
\* the last writer has closed.
Goes(p) == WriteStep(p) \/ ReadStep(p) \/ pipeclose(p) \/ kfree(p)
Writing(p) == pc[p] \in {"write", "writesleep", "writewait"}
AtEof(p) == pc[p] # "idle" /\ ~writeopen
=============================================================================
