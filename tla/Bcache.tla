------------------------------- MODULE Bcache -------------------------------
(***************************************************************************)
(* The buffer cache (bio.c) on top of the disk driver (ide.c).             *)
(*                                                                         *)
(* What runs under bcache.lock or idelock up to its release is one step;   *)
(* sleep gives the lock up atomically (module SleepWakeup).  The list of   *)
(* buffers is kept as its pointers.  A process uses one buffer at a time   *)
(* and writes it before it releases it if it has changed it.               *)
(***************************************************************************)
EXTENDS Integers, Sequences, FiniteSets

CONSTANTS Proc,        \* processes
          NBUF,        \* buffers
          Sector,      \* disk blocks
          Value,       \* contents of a block
          DiskErrors,  \* a read may fail
          None

ASSUME BcacheAssumption ==
  /\ NBUF \in Nat \ {0}
  /\ Cardinality(Proc) <= NBUF    \* or bget panics
  /\ None \notin Sector

Buf == 1..NBUF
head == 0            \* bcache.head

VARIABLES
  next, prev,                        \* the list, most recently used first
  sector, busy, valid, dirty, data,  \* fields of struct buf
  idequeue,                          \* the queue through qnext
  active,                            \* the buffer the disk works on, or head
  disk,                              \* contents of the blocks
  pc, want, buf,                     \* what a process does, its sector and buffer
  chan                               \* the buffer it sleeps on, or head

list == <<next, prev>>
flags == <<sector, busy, valid, dirty, data>>
io == <<idequeue, active, disk>>
procs == <<pc, want, buf, chan>>
vars == <<list, flags, io, procs>>

\* binit puts every buffer at the front of the list.
Init ==
  /\ next = [b \in 0..NBUF |-> IF b = head THEN NBUF ELSE b - 1]
  /\ prev = [b \in 0..NBUF |-> IF b = NBUF THEN head ELSE b + 1]
  /\ sector = [b \in Buf |-> None]
  /\ busy = [b \in Buf |-> FALSE] /\ valid = [b \in Buf |-> FALSE]
  /\ dirty = [b \in Buf |-> FALSE]
  /\ data \in [Buf -> Value]
  /\ idequeue = <<>> /\ active = head
  /\ disk \in [Sector -> Value]
  /\ pc = [p \in Proc |-> "idle"]
  /\ want = [p \in Proc |-> None] /\ buf = [p \in Proc |-> head]
  /\ chan = [p \in Proc |-> head]

\* The buffer k places behind the head, following next.
Place == LET walk[k \in 0..NBUF] == IF k = 0 THEN head ELSE next[walk[k - 1]] IN walk

\* The least recently used of a set of buffers.
LeastRecent(b, S) ==
  /\ b \in S
  /\ \E k \in 1..NBUF : Place[k] = b /\ \A j \in k + 1..NBUF : Place[j] \notin S

\* kill makes a sleeper runnable; neither loop looks at killed.
kill(p) ==
  /\ chan[p] # head
  /\ chan' = [chan EXCEPT ![p] = head]
  /\ UNCHANGED <<list, flags, io, pc, want, buf>>

Goto(p, from, to) ==
  /\ pc[p] = from /\ chan[p] = head
  /\ pc' = [pc EXCEPT ![p] = to]

\* Mutant: one sleeper only is woken.
WakeupOne(b) ==
  chan' = IF \A p \in Proc : chan[p] # b THEN chan
          ELSE [chan EXCEPT ![CHOOSE p \in Proc : chan[p] = b] = head]

\* wakeup(b): bget and iderw sleep on the same channel.
wakeup(b) == chan' = [p \in Proc |-> IF chan[p] = b THEN head ELSE chan[p]]

-----------------------------------------------------------------------------
(* bget, called by bread.                                                   *)

bread(p, s) ==
  /\ Goto(p, "idle", "bget")
  /\ want' = [want EXCEPT ![p] = s]
  /\ UNCHANGED <<list, flags, io, buf, chan>>

Cached(s) == {b \in Buf : sector[b] = s}

\* The cached buffer is free: take it.
BgetHit(p) ==
  \E b \in Cached(want[p]) :
    /\ Goto(p, "bget", "bread")
    /\ ~busy[b]
    /\ busy' = [busy EXCEPT ![b] = TRUE]
    /\ buf' = [buf EXCEPT ![p] = b]
    /\ UNCHANGED <<list, sector, valid, dirty, data, io, want, chan>>

\* It is in use: sleep, then start again.
BgetBusy(p) ==
  \E b \in Cached(want[p]) :
    /\ Goto(p, "bget", "bget")
    /\ busy[b]
    /\ chan' = [chan EXCEPT ![p] = b]
    /\ UNCHANGED <<list, flags, io, want, buf>>

\* Mutant: the buffer keeps the flags of the block it held before.
BgetKeepsValid(p) ==
  /\ Goto(p, "bget", "bread")
  /\ Cached(want[p]) = {}
  /\ \E b \in Buf :
       /\ LeastRecent(b, {c \in Buf : ~busy[c]})
       /\ sector' = [sector EXCEPT ![b] = want[p]]
       /\ busy' = [busy EXCEPT ![b] = TRUE]
       /\ buf' = [buf EXCEPT ![p] = b]
  /\ UNCHANGED <<list, valid, dirty, data, io, want, chan>>

\* Not cached: the least recently used free buffer takes the block.
BgetRecycle(p) ==
  /\ Goto(p, "bget", "bread")
  /\ Cached(want[p]) = {}
  /\ \E b \in Buf :
       /\ LeastRecent(b, {c \in Buf : ~busy[c]})
       /\ sector' = [sector EXCEPT ![b] = want[p]]
       /\ busy' = [busy EXCEPT ![b] = TRUE]
       /\ valid' = [valid EXCEPT ![b] = FALSE]
       /\ dirty' = [dirty EXCEPT ![b] = FALSE]
       /\ buf' = [buf EXCEPT ![p] = b]
  /\ UNCHANGED <<list, data, io, want, chan>>

-----------------------------------------------------------------------------
(* iderw: append to the queue, start an idle disk, and sleep.               *)

iderw(p, b) ==
  /\ idequeue' = Append(idequeue, b)
  /\ active' = IF idequeue = <<>> THEN b ELSE active
  /\ chan' = [chan EXCEPT ![p] = b]
  /\ UNCHANGED <<list, sector, busy, valid, disk, want, buf>>

BreadValid(p) ==
  /\ Goto(p, "bread", "holding")
  /\ valid[buf[p]]
  /\ UNCHANGED <<list, flags, io, want, buf, chan>>

BreadFetch(p) ==
  /\ Goto(p, "bread", "iderw")
  /\ ~valid[buf[p]]
  /\ iderw(p, buf[p])
  /\ UNCHANGED <<dirty, data>>

bwrite(p, v) ==
  /\ Goto(p, "holding", "iderw")
  /\ data' = [data EXCEPT ![buf[p]] = v]
  /\ dirty' = [dirty EXCEPT ![buf[p]] = TRUE]
  /\ iderw(p, buf[p])

Synced(b) == valid[b] /\ ~dirty[b]

\* Mutant: iderw believes every wakeup.
IderwBelieves(p) ==
  /\ Goto(p, "iderw", "holding")
  /\ UNCHANGED <<list, flags, io, want, buf, chan>>

IderwDone(p) ==
  /\ Goto(p, "iderw", "holding")
  /\ Synced(buf[p])
  /\ UNCHANGED <<list, flags, io, want, buf, chan>>

IderwAgain(p) ==
  /\ Goto(p, "iderw", "iderw")
  /\ ~Synced(buf[p])
  /\ chan' = [chan EXCEPT ![p] = buf[p]]
  /\ UNCHANGED <<list, flags, io, want, buf>>

\* The disk interrupts when it is done with the first request: data comes in
\* unless the read failed, and the next request is started.
ideintr(fail) ==
  /\ active # head
  /\ LET b == idequeue[1] IN
       /\ disk' = IF dirty[b] THEN [disk EXCEPT ![sector[b]] = data[b]] ELSE disk
       /\ data' = IF dirty[b] \/ fail THEN data ELSE [data EXCEPT ![b] = disk[sector[b]]]
       /\ valid' = [valid EXCEPT ![b] = TRUE]
       /\ dirty' = [dirty EXCEPT ![b] = FALSE]
       /\ wakeup(b)
  /\ idequeue' = Tail(idequeue)
  /\ active' = IF Len(idequeue) > 1 THEN idequeue[2] ELSE head
  /\ UNCHANGED <<list, sector, busy, pc, want, buf>>

-----------------------------------------------------------------------------
\* brelse: unlink b, link it behind the head, free it.
brelse(p) ==
  LET b == buf[p]
      prev1 == [prev EXCEPT ![next[b]] = prev[b]]
      next1 == [next EXCEPT ![prev[b]] = next[b]]
      next2 == [next1 EXCEPT ![b] = next1[head]]
  IN /\ Goto(p, "holding", "idle")
     /\ prev' = [prev1 EXCEPT ![b] = head, ![next2[head]] = b]
     /\ next' = [next2 EXCEPT ![head] = b]
     /\ busy' = [busy EXCEPT ![b] = FALSE]
     /\ wakeup(b)
     /\ want' = [want EXCEPT ![p] = None] /\ buf' = [buf EXCEPT ![p] = head]
     /\ UNCHANGED <<sector, valid, dirty, data, io>>

Step(p) ==
  \/ BgetHit(p) \/ BgetBusy(p) \/ BgetRecycle(p)
  \/ BreadValid(p) \/ BreadFetch(p) \/ IderwDone(p) \/ IderwAgain(p)
  \/ brelse(p)

Next ==
  \/ \E p \in Proc : Step(p) \/ kill(p) \/ (\E s \in Sector : bread(p, s)) \/ (\E v \in Value : bwrite(p, v))
  \/ \E fail \in BOOLEAN : (fail => DiskErrors) /\ ideintr(fail)

Spec == Init /\ [][Next]_vars

-----------------------------------------------------------------------------
TypeOK ==
  /\ next \in [0..NBUF -> 0..NBUF] /\ prev \in [0..NBUF -> 0..NBUF]
  /\ sector \in [Buf -> Sector \cup {None}]
  /\ busy \in [Buf -> BOOLEAN] /\ valid \in [Buf -> BOOLEAN] /\ dirty \in [Buf -> BOOLEAN]
  /\ data \in [Buf -> Value] /\ disk \in [Sector -> Value]
  /\ idequeue \in Seq(Buf) /\ active \in 0..NBUF
  /\ pc \in [Proc -> {"idle", "bget", "bread", "iderw", "holding"}]
  /\ want \in [Proc -> Sector \cup {None}]
  /\ buf \in [Proc -> 0..NBUF] /\ chan \in [Proc -> 0..NBUF]

\* A block is in one buffer at most, and a buffer in one process's hands: the
\* cache is a synchronization point for disk blocks (bio.c).
OneOwner ==
  /\ \A b, c \in Buf : sector[b] = sector[c] /\ sector[b] # None => b = c
  /\ \A p, q \in Proc : buf[p] = buf[q] /\ buf[p] # head => p = q
  /\ \A b \in Buf : busy[b] <=> \E p \in Proc : buf[p] = b

\* B_VALID: a buffer that is not being written holds its block's contents.
CacheCoherent ==
  \A b \in Buf : Synced(b) => sector[b] # None /\ data[b] = disk[sector[b]]

\* B_DIRTY: a buffer with changes is in the hands of a process that writes it
\* to disk, so that bget loses nothing when it clears the flags of a free one.
DirtyHeld ==
  \A b \in Buf : dirty[b] => \E p \in Proc : pc[p] = "iderw" /\ buf[p] = b

\* Whoever has returned from bread has the block it asked for, and clean.
GotBlock ==
  \A p \in Proc : pc[p] = "holding" => Synced(buf[p]) /\ sector[buf[p]] = want[p]

\* f is the head and the buffers behind it, each once.
Order(f) ==
  /\ f[0] = head /\ next[f[NBUF]] = head
  /\ \A k \in 1..NBUF : next[f[k - 1]] = f[k]
  /\ \A j, k \in 0..NBUF : f[j] = f[k] => j = k
  /\ \A b \in 0..NBUF : \E k \in 0..NBUF : f[k] = b

\* The list runs through every buffer once, both ways.
ListWhole ==
  /\ \E f \in [0..NBUF -> 0..NBUF] : Order(f)
  /\ \A b \in 0..NBUF : prev[next[b]] = b

Queued(b) == \E i \in 1..Len(idequeue) : idequeue[i] = b

\* Every request in the queue is a buffer in use that needs the disk, once,
\* and the disk works on the first one.
QueueSound ==
  /\ \A i, j \in 1..Len(idequeue) : idequeue[i] = idequeue[j] => i = j
  /\ \A b \in Buf : Queued(b) => busy[b] /\ ~Synced(b)
  /\ active = IF idequeue = <<>> THEN head ELSE idequeue[1]

\* The buffer cache is a synchronization point for disk blocks (bio.c, ide.c):
\* a block is in one buffer at most and a buffer in one process's hands; a valid
\* buffer that is not being written holds its block's contents, if no read
\* fails; changes are never dropped; bread returns the block it is asked for; the
\* list runs through every buffer once, both ways; every queued request is a
\* buffer in use that needs the disk, once, and the disk works on the first.
BuffersCoherent ==
  /\ TypeOK /\ OneOwner /\ (DiskErrors \/ CacheCoherent) /\ DirtyHeld /\ GotBlock
  /\ ListWhole /\ QueueSound

\* What a process is doing agrees with its buffer: the inductive invariant.
Doing(p) ==
  /\ buf[p] # head <=> pc[p] \in {"bread", "iderw", "holding"}
  /\ pc[p] # "idle" => want[p] \in Sector
  /\ buf[p] # head => sector[buf[p]] = want[p]
  /\ Queued(buf[p]) => pc[p] = "iderw"

IInv ==
  /\ BuffersCoherent
  /\ \A p \in Proc : Doing(p)
  /\ \A b \in Buf : valid[b] => sector[b] # None

\* The block that a process has, and what it has of it once bread has returned
\* or bwrite has changed it.
HasBlock(p) == IF buf[p] = head THEN None ELSE want[p]
HasCopy(p) ==
  IF pc[p] \in {"iderw", "holding"} /\ (valid[buf[p]] \/ dirty[buf[p]]) THEN data[buf[p]] ELSE None

Store == INSTANCE BlockStore WITH
           block <- disk, owner <- [p \in Proc |-> HasBlock(p)],
           copy <- [p \in Proc |-> HasCopy(p)]

\* Buffers, flags, list and queue implement blocks that a process has to itself
\* and sees and writes as they are on disk (bread, bwrite, brelse, ideintr), if
\* no read fails.
BlocksServed == Store!Spec

\* What a process must get out of: iderw, and the sleep on a buffer.
Requesting(p) == pc[p] = "iderw"
Sleeping(p) == chan[p] # head
=============================================================================
