----------------------------- MODULE PipeProofs -----------------------------
(***************************************************************************)
(* Proofs for Pipe, for any sets of readers and writers, any PIPESIZE and  *)
(* any modulus of the counters: the ring never holds more than PIPESIZE    *)
(* bytes, no wakeup is lost, the page is given back once, and the ring is  *)
(* a FIFO queue.                                                           *)
(***************************************************************************)
EXTENDS Pipe, Sequences, TLAPS

\* Who holds p->lock, who sleeps on what, and who runs which call.
LockInv ==
  \A p \in User :
    /\ lock = p <=> pc[p] \in {"write", "writesleep", "read", "readsleep", "copy"}
    /\ chan[p] = "nwrite" => pc[p] = "writewait"
    /\ chan[p] = "nread" => pc[p] = "readwait"
    /\ pc[p] \in {"write", "writesleep", "writewait"} => p \in Writer /\ fd[p]
    /\ pc[p] \in {"read", "readsleep", "readwait", "copy"} => p \in Reader /\ fd[p]
    /\ killed[p] => p \in Killable

\* An end is open while a process has a descriptor of it or is about to close
\* it, and the pipe is freed once, after both ends closed.
EndInv ==
  /\ \A p, q \in User :
       pc[p] = "close" /\ (p \in Reader <=> q \in Reader) =>
         ~fd[q] /\ (pc[q] = "close" => p = q)
  /\ readopen <=> \E p \in Reader : fd[p] \/ pc[p] = "close"
  /\ writeopen <=> \E p \in Writer : fd[p] \/ pc[p] = "close"
  /\ freed => ~readopen /\ ~writeopen
  /\ \A p, q \in User :
       pc[p] = "kfree" => ~readopen /\ ~writeopen /\ ~freed /\ (pc[q] = "kfree" => p = q)

\* What a sleeper waits for has not happened, or the process that made it
\* happen holds p->lock and has its wakeup still to do.
WakeInv ==
  \A p \in User :
    /\ pc[p] = "writesleep" => Full /\ readopen
    /\ pc[p] = "readsleep" => Empty /\ writeopen
    /\ chan[p] = "nwrite" => readopen /\ (Full \/ \E q \in User : pc[q] = "copy")
    /\ chan[p] = "nread" => writeopen
    /\ Killable \cap Writer = {} /\ chan[p] = "nread" =>
         Empty \/ \E q \in User : pc[q] = "write"

IInv == TypeOK /\ LockInv /\ EndInv /\ WakeInv

-----------------------------------------------------------------------------
\* What one byte more, or one less, does to the count, and where the counters
\* then point.
LEMMA CountMoves ==
  ASSUME NEW r \in 0..Modulus - 1, NEW w \in 0..Modulus - 1, (w - r) % Modulus <= PIPESIZE
  PROVE  /\ (w - r) % Modulus \in Nat
         /\ w # r => (w - r) % Modulus # 0
         /\ w = r + ((w - r) % Modulus) \/ w + Modulus = r + ((w - r) % Modulus)
         /\ w # (r + PIPESIZE) % Modulus => (w - r) % Modulus < PIPESIZE
         /\ w # (r + PIPESIZE) % Modulus =>
              (((w + 1) % Modulus) - r) % Modulus = ((w - r) % Modulus) + 1
         /\ w # r => (w - ((r + 1) % Modulus)) % Modulus = ((w - r) % Modulus) - 1
<1> USE PipeAssumption
<1> DEFINE n == (w - r) % Modulus
<1> HIDE DEF n
<1>1. (r + 1) % Modulus = IF r + 1 = Modulus THEN 0 ELSE r + 1
  OBVIOUS
<1>2. (w + 1) % Modulus = IF w + 1 = Modulus THEN 0 ELSE w + 1
  OBVIOUS
<1>3. (r + PIPESIZE) % Modulus = IF r + PIPESIZE < Modulus THEN r + PIPESIZE ELSE r + PIPESIZE - Modulus
  OBVIOUS
<1>4. \A x, y \in 0..Modulus - 1 : (x - y) % Modulus = IF y <= x THEN x - y ELSE x - y + Modulus
  OBVIOUS
<1>5. n = IF r <= w THEN w - r ELSE w - r + Modulus
  <2>1. (w - r) % Modulus = IF r <= w THEN w - r ELSE w - r + Modulus
    BY <1>4, ZenonT(30)
  <2> QED BY <2>1 DEF n
<1>6. ASSUME w # (r + PIPESIZE) % Modulus
      PROVE  n < PIPESIZE /\ (((w + 1) % Modulus) - r) % Modulus = n + 1
  <2>1. PICK v \in 0..Modulus - 1 : v = (w + 1) % Modulus
    BY <1>2
  <2>2. (v - r) % Modulus = IF r <= v THEN v - r ELSE v - r + Modulus
    BY <1>4
  <2>3. v = IF w + 1 = Modulus THEN 0 ELSE w + 1
    BY <1>2, <2>1
  <2>4. n < PIPESIZE
    <3>1. n <= PIPESIZE
      BY DEF n
    <3> QED BY <1>3, <1>5, <1>6, <3>1
  <2>5. (IF r <= v THEN v - r ELSE v - r + Modulus) = n + 1
    BY <1>5, <2>3, <2>4
  <2> QED BY <2>1, <2>2, <2>4, <2>5
<1>7. ASSUME w # r
      PROVE  (w - ((r + 1) % Modulus)) % Modulus = n - 1
  <2>1. PICK v \in 0..Modulus - 1 : v = (r + 1) % Modulus
    BY <1>1
  <2>2. (w - v) % Modulus = IF v <= w THEN w - v ELSE w - v + Modulus
    BY <1>4
  <2>3. v = IF r + 1 = Modulus THEN 0 ELSE r + 1
    BY <1>1, <2>1
  <2>4. (IF v <= w THEN w - v ELSE w - v + Modulus) = n - 1
    BY <1>5, <1>7, <2>3
  <2> QED BY <2>1, <2>2, <2>4
<1>8. n \in Nat /\ (w # r => n # 0) /\ (w = r + n \/ w + Modulus = r + n)
  BY <1>5
<1> QED BY <1>6, <1>7, <1>8 DEF n

\* The counters wrap at Modulus: how far one step moves them, what full means.
LEMMA RingArithmetic ==
  ASSUME NEW r \in 0..Modulus - 1, NEW w \in 0..Modulus - 1,
         (w - r) % Modulus <= PIPESIZE
  PROVE  /\ (r + 1) % Modulus \in 0..Modulus - 1
         /\ w # (r + PIPESIZE) % Modulus =>
              (((w + 1) % Modulus) - r) % Modulus <= PIPESIZE
         /\ w # r => (w - ((r + 1) % Modulus)) % Modulus <= PIPESIZE
<1>1. (r + 1) % Modulus \in 0..Modulus - 1
  BY PipeAssumption
<1>2. ASSUME w # (r + PIPESIZE) % Modulus
      PROVE  (((w + 1) % Modulus) - r) % Modulus <= PIPESIZE
  <2>1. /\ (((w + 1) % Modulus) - r) % Modulus = ((w - r) % Modulus) + 1
        /\ (w - r) % Modulus < PIPESIZE /\ (w - r) % Modulus \in Nat
    BY <1>2, CountMoves, ZenonT(30)
  <2> QED BY <2>1, PipeAssumption
<1>3. ASSUME w # r
      PROVE  (w - ((r + 1) % Modulus)) % Modulus <= PIPESIZE
  <2>1. /\ (w - ((r + 1) % Modulus)) % Modulus = ((w - r) % Modulus) - 1
        /\ (w - r) % Modulus \in Nat
    BY <1>3, CountMoves, ZenonT(30)
  <2> QED BY <2>1, PipeAssumption
<1> QED BY <1>1, <1>2, <1>3

\* A new pipe (nread = nwrite = 0) holds no byte.
LEMMA ZeroCount == (0 - 0) % Modulus <= PIPESIZE /\ 0 \in 0..Modulus - 1 /\ 0 \in 0..MaxCount
BY PipeAssumption

\* The invariant holds before pipealloc.
LEMMA InitIInv == Init => IInv
<1> SUFFICES ASSUME Init PROVE IInv
  OBVIOUS
<1> USE PipeAssumption DEF Init, User
<1>1. TypeOK
  <2>1. /\ (nwrite - nread) % Modulus <= PIPESIZE
        /\ nread \in 0..Modulus - 1 /\ nwrite \in 0..Modulus - 1
    BY ZeroCount
  <2>2. todo \in [User -> 0..MaxCount]
    BY ZeroCount
  <2> QED BY <2>1, <2>2, Zenon, ZenonT(30) DEF TypeOK
<1>2. LockInv /\ WakeInv
  BY DEF LockInv, WakeInv
<1>3. EndInv
  BY DEF EndInv
<1> QED BY <1>1, <1>2, <1>3 DEF IInv

\* The invariant is about vars only.
LEMMA StutterIInv == ASSUME IInv, UNCHANGED vars PROVE IInv'
<1> USE DEF IInv, vars, ring, ends, procs
<1>1. TypeOK'
  BY DEF TypeOK
<1>2. LockInv'
  BY DEF LockInv
<1>3. EndInv'
  BY DEF EndInv
<1>4. WakeInv'
  BY DEF WakeInv, Full, Empty
<1> QED BY <1>1, <1>2, <1>3, <1>4

\* pipealloc makes an empty ring with both ends open.
LEMMA PipeallocIInv ==
  ASSUME IInv, NEW r \in Reader, NEW w \in Writer, pipealloc(r, w)
  PROVE  IInv'
<1> USE PipeAssumption DEF IInv, User, pipealloc, Goto, ring, ends, procs
<1>1. TypeOK'
  <2>1. /\ (nwrite' - nread') % Modulus <= PIPESIZE
        /\ nread' \in 0..Modulus - 1 /\ nwrite' \in 0..Modulus - 1
    BY ZeroCount
  <2>2. fd' \in [User -> BOOLEAN]
    <3>1. \A q : (q \in {r, w}) \in BOOLEAN
      OBVIOUS
    <3> QED BY <3>1
  <2>3. killed' \in [User -> BOOLEAN]
    OBVIOUS
  <2>4. readopen' \in BOOLEAN /\ writeopen' \in BOOLEAN /\ freed' \in BOOLEAN
    OBVIOUS
  <2> QED BY <2>1, <2>2, <2>3, <2>4, Zenon, ZenonT(30) DEF TypeOK
<1>2. LockInv'
  <2>1. \A p \in User : ~fd[p] /\ pc[p] \notin {"close", "kfree"}
    BY DEF EndInv
  <2> QED BY <2>1 DEF TypeOK, LockInv
<1>3. EndInv'
  <2>1. \A p \in User : ~fd[p] /\ pc[p] \notin {"close", "kfree"}
    BY DEF EndInv
  <2> QED BY <2>1, ZenonT(30) DEF TypeOK, EndInv
<1>4. WakeInv'
  <2>1. \A p \in User : pc[p] = "idle" /\ chan[p] = "none"
    BY DEF TypeOK, LockInv, EndInv
  <2> QED BY <2>1 DEF WakeInv
<1> QED BY <1>1, <1>2, <1>3, <1>4

\* Entering pipewrite takes the lock only.
LEMMA PipewriteIInv ==
  ASSUME IInv, NEW p \in User, NEW n \in 0..MaxCount, pipewrite(p, n)
  PROVE  IInv'
<1> USE PipeAssumption DEF IInv, User, pipewrite, Enter, Goto, ring, ends, procs
<1>1. TypeOK'
  BY DEF TypeOK
<1>2. LockInv'
  BY DEF TypeOK, LockInv
<1>3. EndInv'
  BY DEF TypeOK, LockInv, EndInv
<1>4. WakeInv'
  BY DEF TypeOK, LockInv, EndInv, WakeInv, Full, Empty
<1> QED BY <1>1, <1>2, <1>3, <1>4

\* A byte is stored only when the ring has room.
LEMMA WriteByteIInv ==
  ASSUME IInv, NEW p \in User, NEW b \in Byte, WriteByte(p, b)
  PROVE  IInv'
<1> USE PipeAssumption DEF IInv, User, WriteByte, Goto, ring, ends, procs
<1>1. TypeOK'
  <2>a. /\ nread \in 0..Modulus - 1 /\ nwrite \in 0..Modulus - 1
        /\ (nwrite - nread) % Modulus <= PIPESIZE
        /\ nwrite # (nread + PIPESIZE) % Modulus
    BY DEF TypeOK, Full
  <2>b. (((nwrite + 1) % Modulus) - nread) % Modulus <= PIPESIZE
    BY <2>a, RingArithmetic, ZenonT(30)
  <2>1. /\ nwrite' \in 0..Modulus - 1
        /\ (nwrite' - nread') % Modulus <= PIPESIZE
    BY <2>a, <2>b
  <2>2. data' \in [0..PIPESIZE - 1 -> Byte]
    BY DEF TypeOK
  <2>3. todo' \in [User -> 0..MaxCount]
    BY DEF TypeOK
  <2> QED BY <2>1, <2>2, <2>3 DEF TypeOK
<1>2. LockInv'
  BY DEF TypeOK, LockInv
<1>3. EndInv'
  BY DEF TypeOK, LockInv, EndInv
<1>4. WakeInv'
  BY DEF TypeOK, LockInv, EndInv, WakeInv, Full, Empty
<1> QED BY <1>1, <1>2, <1>3, <1>4

\* pipewrite without readers, or killed, gives the lock up.
LEMMA WriteFailsIInv ==
  ASSUME IInv, NEW p \in User, WriteFails(p)
  PROVE  IInv'
<1> USE PipeAssumption DEF IInv, User, WriteFails, Goto, ring, ends, procs
<1>1. TypeOK'
  BY DEF TypeOK
<1>2. LockInv'
  BY DEF TypeOK, LockInv
<1>3. EndInv'
  BY DEF TypeOK, LockInv, EndInv
<1>4. WakeInv'
  BY DEF TypeOK, LockInv, EndInv, WakeInv, Full, Empty
<1> QED BY <1>1, <1>2, <1>3, <1>4

\* A writer at a full ring wakes the readers first.
LEMMA WriteFullIInv ==
  ASSUME IInv, NEW p \in User, WriteFull(p)
  PROVE  IInv'
<1> USE PipeAssumption DEF IInv, User, WriteFull, wakeup, Goto, ring, ends, procs
<1>1. TypeOK'
  BY DEF TypeOK
<1>2. LockInv'
  BY DEF TypeOK, LockInv
<1>3. EndInv'
  BY DEF TypeOK, LockInv, EndInv
<1>4. WakeInv'
  BY DEF TypeOK, LockInv, EndInv, WakeInv, Full, Empty
<1> QED BY <1>1, <1>2, <1>3, <1>4

\* A writer falls asleep on a full ring with readers.
LEMMA WriteSleepIInv ==
  ASSUME IInv, NEW p \in User, WriteSleep(p)
  PROVE  IInv'
<1> USE PipeAssumption DEF IInv, User, WriteSleep, Sleep, Goto, ring, ends, procs
<1>1. TypeOK'
  BY DEF TypeOK
<1>2. LockInv'
  BY DEF TypeOK, LockInv
<1>3. EndInv'
  BY DEF TypeOK, LockInv, EndInv
<1>4. WakeInv'
  BY DEF TypeOK, LockInv, EndInv, WakeInv, Full, Empty
<1> QED BY <1>1, <1>2, <1>3, <1>4

\* A woken writer tests the ring again.
LEMMA WriteWokenIInv ==
  ASSUME IInv, NEW p \in User, WriteWoken(p)
  PROVE  IInv'
<1> USE PipeAssumption DEF IInv, User, WriteWoken, Reacquire, Goto, ring, ends, procs
<1>1. TypeOK'
  BY DEF TypeOK
<1>2. LockInv'
  BY DEF TypeOK, LockInv
<1>3. EndInv'
  BY DEF TypeOK, LockInv, EndInv
<1>4. WakeInv'
  BY DEF TypeOK, LockInv, EndInv, WakeInv, Full, Empty
<1> QED BY <1>1, <1>2, <1>3, <1>4

\* The writer has stored its bytes, wakes the readers and leaves.
LEMMA WriteDoneIInv ==
  ASSUME IInv, NEW p \in User, WriteDone(p)
  PROVE  IInv'
<1> USE PipeAssumption DEF IInv, User, WriteDone, wakeup, Goto, ring, ends, procs
<1>1. TypeOK'
  BY DEF TypeOK
<1>2. LockInv'
  BY DEF TypeOK, LockInv
<1>3. EndInv'
  BY DEF TypeOK, LockInv, EndInv
<1>4. WakeInv'
  BY DEF TypeOK, LockInv, EndInv, WakeInv, Full, Empty
<1> QED BY <1>1, <1>2, <1>3, <1>4

\* Entering piperead takes the lock only.
LEMMA PipereadIInv ==
  ASSUME IInv, NEW p \in User, NEW n \in 0..MaxCount, piperead(p, n)
  PROVE  IInv'
<1> USE PipeAssumption DEF IInv, User, piperead, Enter, Goto, ring, ends, procs
<1>1. TypeOK'
  BY DEF TypeOK
<1>2. LockInv'
  BY DEF TypeOK, LockInv
<1>3. EndInv'
  BY DEF TypeOK, LockInv, EndInv
<1>4. WakeInv'
  BY SMTT(30) DEF TypeOK, LockInv, EndInv, WakeInv, Full, Empty
<1> QED BY <1>1, <1>2, <1>3, <1>4

\* A killed reader at an empty ring gives the lock up.
LEMMA ReadFailsIInv ==
  ASSUME IInv, NEW p \in User, ReadFails(p)
  PROVE  IInv'
<1> USE PipeAssumption DEF IInv, User, ReadFails, Goto, ring, ends, procs
<1>1. TypeOK'
  BY DEF TypeOK
<1>2. LockInv'
  BY DEF TypeOK, LockInv
<1>3. EndInv'
  BY DEF TypeOK, LockInv, EndInv
<1>4. WakeInv'
  BY DEF TypeOK, LockInv, EndInv, WakeInv, Full, Empty
<1> QED BY <1>1, <1>2, <1>3, <1>4

\* A reader at an empty ring with writers goes to sleep.
LEMMA ReadEmptyIInv ==
  ASSUME IInv, NEW p \in User, ReadEmpty(p)
  PROVE  IInv'
<1> USE PipeAssumption DEF IInv, User, ReadEmpty, Goto, ring, ends, procs
<1>1. TypeOK'
  BY DEF TypeOK
<1>2. LockInv'
  BY DEF TypeOK, LockInv
<1>3. EndInv'
  BY DEF TypeOK, LockInv, EndInv
<1>4. WakeInv'
  BY DEF TypeOK, LockInv, EndInv, WakeInv, Full, Empty
<1> QED BY <1>1, <1>2, <1>3, <1>4

\* A reader falls asleep on an empty ring with writers.
LEMMA ReadSleepIInv ==
  ASSUME IInv, NEW p \in User, ReadSleep(p)
  PROVE  IInv'
<1> USE PipeAssumption DEF IInv, User, ReadSleep, Sleep, Goto, ring, ends, procs
<1>1. TypeOK'
  BY DEF TypeOK
<1>2. LockInv'
  BY DEF TypeOK, LockInv
<1>3. EndInv'
  BY DEF TypeOK, LockInv, EndInv
<1>4. WakeInv'
  BY DEF TypeOK, LockInv, EndInv, WakeInv, Full, Empty
<1> QED BY <1>1, <1>2, <1>3, <1>4

\* A woken reader tests the ring again.
LEMMA ReadWokenIInv ==
  ASSUME IInv, NEW p \in User, ReadWoken(p)
  PROVE  IInv'
<1> USE PipeAssumption DEF IInv, User, ReadWoken, Reacquire, Goto, ring, ends, procs
<1>1. TypeOK'
  BY DEF TypeOK
<1>2. LockInv'
  BY DEF TypeOK, LockInv
<1>3. EndInv'
  BY DEF TypeOK, LockInv, EndInv
<1>4. WakeInv'
  BY ZenonT(30) DEF TypeOK, LockInv, EndInv, WakeInv, Full, Empty
<1> QED BY <1>1, <1>2, <1>3, <1>4

\* The reader has something to read, or no writer is left.
LEMMA ReadReadyIInv ==
  ASSUME IInv, NEW p \in User, ReadReady(p)
  PROVE  IInv'
<1> USE PipeAssumption DEF IInv, User, ReadReady, Goto, ring, ends, procs
<1>1. TypeOK'
  BY DEF TypeOK
<1>2. LockInv'
  BY DEF TypeOK, LockInv
<1>3. EndInv'
  BY DEF TypeOK, LockInv, EndInv
<1>4. WakeInv'
  BY DEF TypeOK, LockInv, EndInv, WakeInv, Full, Empty
<1> QED BY <1>1, <1>2, <1>3, <1>4

\* A byte is taken only from a ring that has one.
LEMMA ReadByteIInv ==
  ASSUME IInv, NEW p \in User, ReadByte(p)
  PROVE  IInv'
<1> USE PipeAssumption DEF IInv, User, ReadByte, Goto, ring, ends, procs
<1>1. TypeOK'
  <2>1. /\ nread' \in 0..Modulus - 1
        /\ (nwrite' - nread') % Modulus <= PIPESIZE
    BY RingArithmetic, ZenonT(30) DEF TypeOK, Empty
  <2>2. todo' \in [User -> 0..MaxCount]
    BY DEF TypeOK
  <2> QED BY <2>1, <2>2 DEF TypeOK
<1>2. LockInv'
  BY DEF TypeOK, LockInv
<1>3. EndInv'
  BY DEF TypeOK, LockInv, EndInv
<1>4. WakeInv'
  BY SMTT(30) DEF TypeOK, LockInv, EndInv, WakeInv, Full, Empty
<1> QED BY <1>1, <1>2, <1>3, <1>4

\* The reader wakes the writers and leaves.
LEMMA ReadDoneIInv ==
  ASSUME IInv, NEW p \in User, ReadDone(p)
  PROVE  IInv'
<1> USE PipeAssumption DEF IInv, User, ReadDone, wakeup, Goto, ring, ends, procs
<1>1. TypeOK'
  BY DEF TypeOK
<1>2. LockInv'
  BY DEF TypeOK, LockInv
<1>3. EndInv'
  BY DEF TypeOK, LockInv, EndInv
<1>4. WakeInv'
  BY DEF TypeOK, LockInv, EndInv, WakeInv, Full, Empty
<1> QED BY <1>1, <1>2, <1>3, <1>4

\* filedup makes one more descriptor of an open end.
LEMMA FiledupIInv ==
  ASSUME IInv, NEW p \in User, NEW q \in User, filedup(p, q)
  PROVE  IInv'
<1> USE PipeAssumption DEF IInv, User, filedup, SameEnd, Goto, ring, ends, procs
<1>1. TypeOK'
  BY DEF TypeOK
<1>2. LockInv'
  BY DEF TypeOK, LockInv
<1>3. EndInv'
  BY SMTT(30) DEF TypeOK, LockInv, EndInv
<1>4. WakeInv'
  BY SMTT(30) DEF TypeOK, LockInv, EndInv, WakeInv, Full, Empty
<1> QED BY <1>1, <1>2, <1>3, <1>4

\* fileclose closes the end with its last descriptor.
LEMMA FilecloseIInv ==
  ASSUME IInv, NEW p \in User, fileclose(p)
  PROVE  IInv'
<1> USE PipeAssumption DEF IInv, User, fileclose, SameEnd, Goto, ring, ends, procs
<1>1. TypeOK'
  BY DEF TypeOK
<1>2. LockInv'
  BY DEF TypeOK, LockInv
<1>3. EndInv'
  BY SMTT(30) DEF TypeOK, LockInv, EndInv
<1>4. WakeInv'
  BY SMTT(30) DEF TypeOK, LockInv, EndInv, WakeInv, Full, Empty
<1> QED BY <1>1, <1>2, <1>3, <1>4

\* pipeclose wakes those who wait for the closed end.
LEMMA PipecloseIInv ==
  ASSUME IInv, NEW p \in User, pipeclose(p)
  PROVE  IInv'
<1> USE PipeAssumption DEF IInv, User, pipeclose, wakeup, Goto, ring, ends, procs
<1>1. TypeOK'
  BY DEF TypeOK
<1>2. LockInv'
  BY DEF TypeOK, LockInv
<1>3. EndInv'
  BY SMTT(30) DEF TypeOK, LockInv, EndInv
<1>4. WakeInv'
  BY DEF TypeOK, LockInv, EndInv, WakeInv, Full, Empty
<1> QED BY <1>1, <1>2, <1>3, <1>4

\* The page is freed after both ends are closed.
LEMMA KfreeIInv ==
  ASSUME IInv, NEW p \in User, kfree(p)
  PROVE  IInv'
<1> USE PipeAssumption DEF IInv, User, kfree, Goto, ring, ends, procs
<1>1. TypeOK'
  BY DEF TypeOK
<1>2. LockInv'
  BY DEF TypeOK, LockInv
<1>3. EndInv'
  BY SMTT(30) DEF TypeOK, LockInv, EndInv
<1>4. WakeInv'
  BY DEF TypeOK, LockInv, EndInv, WakeInv, Full, Empty
<1> QED BY <1>1, <1>2, <1>3, <1>4

\* kill marks a process and wakes it.
LEMMA KillIInv ==
  ASSUME IInv, NEW p \in User, kill(p)
  PROVE  IInv'
<1> USE PipeAssumption DEF IInv, User, kill, Goto, ring, ends, procs
<1>1. TypeOK'
  BY DEF TypeOK
<1>2. LockInv'
  BY DEF TypeOK, LockInv
<1>3. EndInv'
  BY DEF TypeOK, LockInv, EndInv
<1>4. WakeInv'
  BY DEF TypeOK, LockInv, EndInv, WakeInv, Full, Empty
<1> QED BY <1>1, <1>2, <1>3, <1>4

\* The invariant is inductive: one lemma above for each step.
LEMMA NextIInv == IInv /\ [Next]_vars => IInv'
BY StutterIInv, PipeallocIInv, PipewriteIInv, WriteByteIInv, WriteFailsIInv, WriteFullIInv, WriteSleepIInv, WriteWokenIInv, WriteDoneIInv, PipereadIInv, ReadFailsIInv, ReadEmptyIInv, ReadSleepIInv, ReadWokenIInv, ReadReadyIInv, ReadByteIInv, ReadDoneIInv, FiledupIInv, FilecloseIInv, PipecloseIInv, KfreeIInv, KillIInv
   DEF Next, WriteStep, ReadStep

\* The invariant holds in every reachable state.
LEMMA SpecIInv == Spec => []IInv
BY InitIInv, NextIInv, PTL DEF Spec

\* Types, and never more than PIPESIZE bytes in the ring although nread and
\* nwrite wrap around.
THEOREM TypeCorrect == Spec => []TypeOK
<1>1. IInv => TypeOK
  BY DEF IInv
<1> QED BY <1>1, SpecIInv, PTL

\* No writer sleeps that could write or should fail, and no reader sleeps past
\* the end of file or, if no writer is killed, while the pipe holds bytes.
THEOREM WakeupsNotLost == Spec => []NoLostWakeup
<1>1. IInv => NoLostWakeup
  BY PipeAssumption DEF IInv, TypeOK, LockInv, WakeInv, NoLostWakeup
<1> QED BY <1>1, SpecIInv, PTL

\* The last pipeclose frees the page, once, and nobody is inside the pipe.
THEOREM FreedOnce == Spec => []NotUsedAfterFree
<1>1. IInv => NotUsedAfterFree
  BY DEF IInv, TypeOK, LockInv, EndInv, NotUsedAfterFree, User
<1> QED BY <1>1, SpecIInv, PTL

-----------------------------------------------------------------------------
(* The ring is a FIFO.                                                      *)

\* How many bytes are in the ring.
count == (nwrite - nread) % Modulus

\* Quotient and remainder.
LEMMA DivMod ==
  ASSUME NEW m \in Nat \ {0}, NEW x \in Int
  PROVE  \E q \in Int, r \in 0..m - 1 : x = (q * m) + r /\ r = x % m
<1>1. x = ((x \div m) * m) + (x % m) /\ x % m \in 0..m - 1 /\ x \div m \in Int
  OBVIOUS
<1> QED BY <1>1

\* No multiple of m but 0 is nearer to 0 than m.
LEMMA SmallMultiple ==
  ASSUME NEW m \in Nat \ {0}, NEW k \in Int, NEW x \in Int, k * m = x, x < m, x > -m
  PROVE  k = 0
<1>1. CASE k >= 1
  <2>1. k * m >= m
    BY <1>1
  <2> QED BY <2>1
<1>2. CASE k <= -1
  <2>1. k * m <= -m
    BY <1>2
  <2> QED BY <2>1
<1> QED BY <1>1, <1>2

\* The remainder is the only one.
LEMMA RemainderUnique ==
  ASSUME NEW m \in Nat \ {0}, NEW q \in Int, NEW r \in 0..m - 1
  PROVE  ((q * m) + r) % m = r
<1> DEFINE x == (q * m) + r
<1>1. x \in Int
  OBVIOUS
<1> HIDE DEF x
<1>2. PICK e \in Int, f \in 0..m - 1 : x = (e * m) + f /\ f = x % m
  BY <1>1, DivMod
<1>3. (q - e) * m = f - r
  BY <1>2 DEF x
<1>4. q - e = 0
  BY <1>3, SmallMultiple
<1> QED BY <1>2, <1>3, <1>4 DEF x

\* The counters wrap at a multiple of PIPESIZE, so the index does not jump.
LEMMA IndexWraps ==
  ASSUME NEW x \in Int
  PROVE  (Modulus + x) % PIPESIZE = x % PIPESIZE
<1> USE PipeAssumption
<1>1. PICK k \in Int : Modulus = k * PIPESIZE
  <2>1. \E q \in Int, r \in 0..PIPESIZE - 1 : Modulus = (q * PIPESIZE) + r /\ r = Modulus % PIPESIZE
    BY DivMod
  <2> QED BY <2>1
<1>2. PICK q \in Int, r \in 0..PIPESIZE - 1 : x = (q * PIPESIZE) + r /\ r = x % PIPESIZE
  BY DivMod
<1>3. Modulus + x = ((k + q) * PIPESIZE) + r /\ k + q \in Int
  BY <1>1, <1>2
<1> QED BY <1>2, <1>3, RemainderUnique

\* Places less than PIPESIZE apart have different indexes.
LEMMA IndexesDiffer ==
  ASSUME NEW x \in Int, NEW y \in Int, x < y, y < x + PIPESIZE
  PROVE  x % PIPESIZE # y % PIPESIZE
<1> USE PipeAssumption
<1>1. PICK q \in Int, r \in 0..PIPESIZE - 1 : x = (q * PIPESIZE) + r /\ r = x % PIPESIZE
  BY DivMod
<1>2. PICK e \in Int, f \in 0..PIPESIZE - 1 : y = (e * PIPESIZE) + f /\ f = y % PIPESIZE
  BY DivMod
<1>3. ASSUME r = f PROVE FALSE
  <2>1. (e - q) * PIPESIZE = y - x
    BY <1>1, <1>2, <1>3
  <2>2. e - q = 0
    BY <2>1, SmallMultiple
  <2> QED BY <2>1, <2>2
<1> QED BY <1>1, <1>2, <1>3

\* The ring's contents are a sequence of count bytes.
LEMMA QueueIsSeq ==
  ASSUME TypeOK
  PROVE  /\ count \in 0..PIPESIZE
         /\ queue = [i \in 1..count |-> data[(nread + i - 1) % PIPESIZE]]
         /\ queue \in Seq(Byte) /\ Len(queue) = count
<1> USE PipeAssumption
<1>1. count \in 0..PIPESIZE
  <2>1. nread \in 0..Modulus - 1 /\ nwrite \in 0..Modulus - 1 /\ count <= PIPESIZE
    BY DEF TypeOK, count
  <2>2. count \in Nat
    BY <2>1, CountMoves DEF count
  <2> QED BY <2>1, <2>2
<1>2. queue = [i \in 1..count |-> data[(nread + i - 1) % PIPESIZE]]
  BY DEF queue, count
<1>3. ASSUME NEW i \in 1..count PROVE data[(nread + i - 1) % PIPESIZE] \in Byte
  <2>1. nread + i - 1 \in Int
    BY <1>1 DEF TypeOK
  <2>2. (nread + i - 1) % PIPESIZE \in 0..PIPESIZE - 1
    BY <2>1, DivMod
  <2> QED BY <2>2 DEF TypeOK
<1>4. queue \in [1..count -> Byte]
  BY <1>2, <1>3
<1> QED BY <1>1, <1>2, <1>4

\* pipewrite appends its byte.
LEMMA WriteAppends ==
  ASSUME TypeOK, TypeOK', NEW p \in User, NEW b \in Byte, WriteByte(p, b)
  PROVE  Len(queue) < PIPESIZE /\ queue' = Append(queue, b)
<1> USE PipeAssumption
<1>1. /\ nread \in 0..Modulus - 1 /\ nwrite \in 0..Modulus - 1
      /\ nwrite # (nread + PIPESIZE) % Modulus
      /\ nread' = nread /\ nwrite' = (nwrite + 1) % Modulus
      /\ data' = [data EXCEPT ![nwrite % PIPESIZE] = b]
      /\ data \in [0..PIPESIZE - 1 -> Byte]
  BY DEF TypeOK, WriteByte, Full
<1>2. count \in 0..PIPESIZE /\ queue \in Seq(Byte) /\ Len(queue) = count
      /\ queue = [i \in 1..count |-> data[(nread + i - 1) % PIPESIZE]]
  BY QueueIsSeq
<1>3. /\ count < PIPESIZE /\ count' = count + 1
      /\ nwrite = nread + count \/ nwrite + Modulus = nread + count
  <2>1. (nwrite - nread) % Modulus <= PIPESIZE
    BY DEF TypeOK
  <2>2. /\ count < PIPESIZE /\ (((nwrite + 1) % Modulus) - nread) % Modulus = count + 1
        /\ nwrite = nread + count \/ nwrite + Modulus = nread + count
    BY <1>1, <2>1, CountMoves, ZenonT(30) DEF count
  <2>3. count' = (((nwrite + 1) % Modulus) - nread) % Modulus
    BY <1>1 DEF count
  <2> QED BY <2>2, <2>3
<1>4. nwrite % PIPESIZE = (nread + count) % PIPESIZE
  <2>1. nwrite \in Int /\ nread + count \in Int
    BY <1>1, <1>2
  <2>2. (Modulus + nwrite) % PIPESIZE = nwrite % PIPESIZE
    BY <2>1, IndexWraps
  <2>3. CASE nwrite = nread + count
    BY <2>3
  <2>4. CASE nwrite + Modulus = nread + count
    <3>1. Modulus + nwrite = nread + count
      BY <2>1, <2>4
    <3> QED BY <2>2, <3>1
  <2> QED BY <1>3, <2>3, <2>4
<1>5. queue' = [i \in 1..count + 1 |-> data'[(nread + i - 1) % PIPESIZE]]
  BY <1>1, <1>3 DEF queue, count
<1>6. ASSUME NEW i \in 1..count
      PROVE  data'[(nread + i - 1) % PIPESIZE] = queue[i]
  <2>1. nread + i - 1 \in Int /\ nread + count \in Int
        /\ nread + i - 1 < nread + count /\ nread + count < (nread + i - 1) + PIPESIZE
    BY <1>1, <1>2, <1>3
  <2>2. (nread + i - 1) % PIPESIZE # (nread + count) % PIPESIZE
    BY <2>1, IndexesDiffer
  <2>3. (nread + i - 1) % PIPESIZE \in 0..PIPESIZE - 1
    BY <2>1, DivMod
  <2> QED BY <1>1, <1>2, <1>4, <2>2, <2>3
<1>7. data'[(nread + (count + 1) - 1) % PIPESIZE] = b
  <2>1. nread + (count + 1) - 1 = nread + count
    BY <1>1, <1>2
  <2>2. nwrite % PIPESIZE \in 0..PIPESIZE - 1
    BY <1>1, DivMod
  <2> QED BY <1>1, <1>4, <2>1, <2>2
<1>8. Append(queue, b) = [i \in 1..count + 1 |-> IF i = count + 1 THEN b ELSE queue[i]]
  BY <1>2
<1>9. ASSUME NEW i \in 1..count + 1
      PROVE  data'[(nread + i - 1) % PIPESIZE] = IF i = count + 1 THEN b ELSE queue[i]
  <2>1. CASE i = count + 1
    BY <1>7, <2>1
  <2>2. CASE i # count + 1
    <3>1. i \in 1..count
      BY <1>2, <2>2
    <3> QED BY <1>6, <2>2, <3>1
  <2> QED BY <2>1, <2>2
<1>10. queue' = Append(queue, b)
  BY <1>5, <1>8, <1>9, Zenon
<1>11. Len(queue) < PIPESIZE
  BY <1>2, <1>3
<1> QED BY <1>10, <1>11

\* piperead takes the first byte.
LEMMA ReadTakesFirst ==
  ASSUME TypeOK, TypeOK', NEW p \in User, ReadByte(p)
  PROVE  queue # <<>> /\ queue' = Tail(queue)
<1> USE PipeAssumption
<1>1. /\ nread \in 0..Modulus - 1 /\ nwrite \in 0..Modulus - 1 /\ nwrite # nread
      /\ nwrite' = nwrite /\ nread' = (nread + 1) % Modulus /\ data' = data
  BY DEF TypeOK, ReadByte, Empty
<1>2. count \in 0..PIPESIZE /\ queue \in Seq(Byte) /\ Len(queue) = count
      /\ queue = [i \in 1..count |-> data[(nread + i - 1) % PIPESIZE]]
  BY QueueIsSeq
<1>3. count' = count - 1 /\ count # 0
  <2>1. (nwrite - nread) % Modulus <= PIPESIZE
    BY DEF TypeOK
  <2>2. (nwrite - ((nread + 1) % Modulus)) % Modulus = count - 1 /\ count # 0
    BY <1>1, <2>1, CountMoves, ZenonT(30) DEF count
  <2>3. count' = (nwrite - ((nread + 1) % Modulus)) % Modulus
    BY <1>1 DEF count
  <2> QED BY <2>2, <2>3
<1>4. queue' = [i \in 1..count - 1 |-> data[(nread' + i - 1) % PIPESIZE]]
  BY <1>1, <1>3 DEF queue, count
<1>5. nread' = IF nread + 1 = Modulus THEN 0 ELSE nread + 1
  BY <1>1
<1>6. ASSUME NEW i \in 1..count - 1
      PROVE  (nread' + i - 1) % PIPESIZE = (nread + (i + 1) - 1) % PIPESIZE
  <2>1. CASE nread + 1 = Modulus
    <3>1. nread + (i + 1) - 1 = Modulus + (i - 1) /\ nread' + i - 1 = i - 1 /\ i - 1 \in Int
      BY <1>1, <1>2, <1>5, <2>1
    <3> QED BY <3>1, IndexWraps
  <2>2. CASE nread + 1 # Modulus
    <3>1. nread' = nread + 1 /\ nread \in Int /\ i \in Int
      BY <1>1, <1>2, <1>5, <2>2
    <3>2. nread + (i + 1) - 1 = nread' + i - 1
      BY <3>1
    <3> QED BY <3>2
  <2> QED BY <2>1, <2>2
<1>7. Tail(queue) = [i \in 1..count - 1 |-> queue[i + 1]]
  BY <1>2, <1>3
<1>8. ASSUME NEW i \in 1..count - 1
      PROVE  data[(nread' + i - 1) % PIPESIZE] = queue[i + 1]
  <2>1. i + 1 \in 1..count
    BY <1>2
  <2> QED BY <1>2, <1>6, <2>1
<1>9. queue # <<>>
  BY <1>2, <1>3
<1> QED BY <1>4, <1>7, <1>8, <1>9
\* An empty ring is an empty queue.
LEMMA EmptyRing == ASSUME nread = 0, nwrite = 0 PROVE queue = <<>>
<1>1. (0 - 0) % Modulus = 0
  BY PipeAssumption
<1>2. queue = [i \in 1..0 |-> data[(nread + i - 1) % PIPESIZE]]
  BY <1>1 DEF queue
<1> QED BY <1>2

\* Every step of the pipe is a step of the queue or leaves it alone.
LEMMA FifoStep == ASSUME IInv, IInv', [Next]_vars PROVE [FifoSpec!Next]_(FifoSpec!vars)
<1> USE DEF FifoSpec!vars
<1>0. TypeOK /\ TypeOK' /\ LockInv /\ EndInv
  BY DEF IInv
<1>a. ASSUME UNCHANGED <<ring, readopen, writeopen>> PROVE UNCHANGED FifoSpec!vars
  BY <1>a DEF ring, queue
<1>1. ASSUME NEW r \in Reader, NEW w \in Writer, pipealloc(r, w) PROVE FifoSpec!Create
  <2>1. ~readopen /\ ~writeopen /\ readopen' = TRUE /\ writeopen' = TRUE
    BY <1>0, <1>1 DEF EndInv, pipealloc
  <2>2. nread' = 0 /\ nwrite' = 0
    BY <1>1 DEF pipealloc
  <2>3. queue' = <<>>
    <3>1. (0 - 0) % Modulus = 0
      BY PipeAssumption
    <3>2. queue' = [i \in 1..0 |-> data'[(nread' + i - 1) % PIPESIZE]]
      BY <2>2, <3>1 DEF queue
    <3> QED BY <3>2
  <2> QED BY <2>1, <2>3 DEF FifoSpec!Create
<1>2. ASSUME NEW p \in User, NEW b \in Byte, WriteByte(p, b) PROVE FifoSpec!Put(b)
  <2>1. writeopen
    BY <1>0, <1>2 DEF LockInv, EndInv, WriteByte, Goto
  <2>2. Len(queue) < PIPESIZE /\ queue' = Append(queue, b)
    BY <1>0, <1>2, WriteAppends
  <2>3. UNCHANGED <<readopen, writeopen>>
    BY <1>2 DEF WriteByte, ends
  <2> QED BY <2>1, <2>2, <2>3 DEF FifoSpec!Put
<1>3. ASSUME NEW p \in User, ReadByte(p) PROVE FifoSpec!Get
  <2>1. readopen
    BY <1>0, <1>3 DEF LockInv, EndInv, ReadByte, Goto
  <2>2. queue # <<>> /\ queue' = Tail(queue)
    BY <1>0, <1>3, ReadTakesFirst
  <2>3. UNCHANGED <<readopen, writeopen>>
    BY <1>3 DEF ReadByte, ends
  <2> QED BY <2>1, <2>2, <2>3 DEF FifoSpec!Get
<1>4. ASSUME NEW p \in User, pipeclose(p) PROVE FifoSpec!CloseRead \/ FifoSpec!CloseWrite
  <2>1. queue' = queue
    BY <1>4 DEF pipeclose, ring, queue
  <2>2. CASE p \in Reader
    <3>1. readopen /\ readopen' = FALSE /\ writeopen' = writeopen
      BY <1>0, <1>4, <2>2, PipeAssumption DEF EndInv, pipeclose, Goto, TypeOK
    <3> QED BY <2>1, <3>1 DEF FifoSpec!CloseRead
  <2>3. CASE p \in Writer
    <3>1. writeopen /\ writeopen' = FALSE /\ readopen' = readopen
      BY <1>0, <1>4, <2>3, PipeAssumption DEF EndInv, pipeclose, Goto, TypeOK
    <3> QED BY <2>1, <3>1 DEF FifoSpec!CloseWrite
  <2> QED BY <2>2, <2>3 DEF User
<1>5. ASSUME NEW p \in User, NEW n \in 0..MaxCount, pipewrite(p, n) \/ piperead(p, n)
      PROVE  UNCHANGED FifoSpec!vars
  BY <1>5, <1>a DEF pipewrite, piperead, Enter, ends
<1>6. ASSUME NEW p \in User, WriteStep(p), ~\E b \in Byte : WriteByte(p, b)
      PROVE  UNCHANGED FifoSpec!vars
  BY <1>6, <1>a DEF WriteStep, WriteFails, WriteFull, WriteSleep, Sleep, WriteWoken, Reacquire,
                    WriteDone, ends
<1>7. ASSUME NEW p \in User, ReadStep(p), ~ReadByte(p)
      PROVE  UNCHANGED FifoSpec!vars
  BY <1>7, <1>a DEF ReadStep, ReadFails, ReadEmpty, ReadSleep, Sleep, ReadWoken, Reacquire,
                    ReadReady, ReadDone, ends
<1>8. ASSUME NEW p \in User, \/ \E q \in User : filedup(p, q)
                             \/ fileclose(p) \/ kfree(p) \/ kill(p)
      PROVE  UNCHANGED FifoSpec!vars
  BY <1>8, <1>a DEF filedup, fileclose, kfree, kill, ends
<1>9. CASE UNCHANGED vars
  BY <1>9, <1>a DEF vars, ends
<1>10. CASE Next
  BY <1>1, <1>2, <1>3, <1>4, <1>5, <1>6, <1>7, <1>8, <1>10 DEF Next, FifoSpec!Next
<1> QED BY <1>9, <1>10

\* The ring buffer with its wrapping counters, its sleeps and its closes is a
\* bounded queue: bytes come out in the order they went in, none is lost,
\* repeated or overwritten, and a closed end stays closed.
THEOREM RingIsFifo == Spec => PipeIsFifo
<1>1. Init => FifoSpec!Init
  BY EmptyRing DEF Init, FifoSpec!Init
<1>2. IInv /\ IInv' /\ [Next]_vars => [FifoSpec!Next]_(FifoSpec!vars)
  BY FifoStep
<1> QED BY <1>1, <1>2, SpecIInv, PTL DEF Spec, PipeIsFifo, FifoSpec!Spec
=============================================================================
