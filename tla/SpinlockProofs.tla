--------------------------- MODULE SpinlockProofs ---------------------------
(***************************************************************************)
(* Proofs that the invariants of Spinlock hold for any CPUs, processes and *)
(* locks.                                                                  *)
(***************************************************************************)
EXTENDS Spinlock, FiniteSetTheorems, TLAPS

\* What pc[c] says about the lock that acquire or release works on.
PcInv ==
  \A c \in CPU :
    /\ pc[c] # "panic"
    /\ pc[c] \in {"spin", "popcli"} => want[c] \notin held[c]
    /\ pc[c] \in {"record", "unlock"} => want[c] \in held[c]

\* A won lock is locked, and lk->cpu names its winner except inside the two
\* windows of acquire and release.
OwnerInv ==
  /\ \A c \in CPU : \A l \in held[c] :
       /\ locked[l] = 1
       /\ owner[l] = IF pc[c] \in {"record", "unlock"} /\ want[c] = l THEN NoCpu ELSE c
  /\ \A l \in Lock : owner[l] # NoCpu => l \in held[owner[l]]

\* cpu->ncli counts the locks held, plus the one being taken or given back.
NcliInv ==
  \A c \in CPU :
    /\ ncli[c] = Cardinality(held[c]) + (IF pc[c] \in {"spin", "popcli"} THEN 1 ELSE 0)
    /\ ncli[c] > 0 => ~ifl[c]

\* A process runs on one CPU, and no handler interrupted a critical section.
CurInv ==
  /\ \A c \in CPU : cur[c] \in Proc \cup {c}
  /\ \A c, d \in CPU : cur[c] = cur[d] => c = d
  /\ \A t \in Thread : base[t] = {}

\* Settled(t): interrupts must be on when t holds no lock.
Settled(t) == t \in Proc /\ ~intr[t] /\ ~fresh[t]

\* The interrupt flag that a settled process gets back is on wherever it is
\* kept: FL_IF, cpu->intena, or the local variable of sched().
IntenaInv ==
  /\ \A c \in CPU : Settled(cur[c]) => IF ncli[c] = 0 THEN ifl[c] ELSE intena[c]
  /\ \A t \in Proc : Settled(t) /\ (\A c \in CPU : cur[c] # t) => saved[t]

IInv ==
  /\ TypeOK
  /\ PcInv
  /\ MutualExclusion
  /\ OwnerInv
  /\ NcliInv
  /\ CurInv
  /\ IntenaInv

-----------------------------------------------------------------------------
\* A set of locks is finite; adding one counts one, and no set of locks has
\* more than NLOCK members.
LEMMA LockCount ==
  ASSUME NEW S \in SUBSET Lock
  PROVE  /\ IsFiniteSet(S)
         /\ Cardinality(S) \in 0..NLOCK
         /\ S # {} => Cardinality(S) > 0
         /\ \A l \in Lock \ S : Cardinality(S \cup {l}) = Cardinality(S) + 1
         /\ \A l \in S : Cardinality(S \ {l}) = Cardinality(S) - 1
<1>1. IsFiniteSet(Lock) /\ Cardinality(Lock) = NLOCK
  BY FS_Interval, SpinlockAssumption DEF Lock
<1>2. IsFiniteSet(S) /\ Cardinality(S) <= NLOCK
  BY <1>1, FS_Subset
<1>3. Cardinality(S) \in Nat
  BY <1>2, FS_CardinalityType
<1>4. S # {} => Cardinality(S) > 0
  BY <1>2, <1>3, FS_EmptySet
<1>5. \A l \in Lock \ S : Cardinality(S \cup {l}) = Cardinality(S) + 1
  BY <1>2, FS_AddElement
<1>6. \A l \in S : Cardinality(S \ {l}) = Cardinality(S) - 1
  BY <1>2, FS_RemoveElement
<1> QED
  BY <1>2, <1>3, <1>4, <1>5, <1>6, SpinlockAssumption

\* Sizes of the sets of locks held at a context switch.
LEMMA CardinalityFacts == Cardinality({}) = 0 /\ Cardinality({PtableLock}) = 1
BY FS_EmptySet, FS_Singleton

\* ptable.lock is one of the locks.
LEMMA PtableLockIsLock == PtableLock \in Lock
BY SpinlockAssumption DEF PtableLock, Lock

\* What cpu->ncli says about the set of locks held.
LEMMA NcliHeld ==
  ASSUME TypeOK, NcliInv, NEW c \in CPU
  PROVE  /\ ifl[c] => held[c] = {}
         /\ held[c] # {} => ncli[c] # 0
         /\ pc[c] = "run" /\ held[c] = {} => ncli[c] = 0
         /\ pc[c] = "run" /\ held[c] = {PtableLock} => ncli[c] = 1
<1> DEFINE n == Cardinality(held[c])
<1>1. held[c] \in SUBSET Lock
  BY DEF TypeOK
<1>2. n \in 0..NLOCK /\ (held[c] # {} => n > 0)
  BY <1>1, LockCount
<1>3. ncli[c] = n + (IF pc[c] \in {"spin", "popcli"} THEN 1 ELSE 0) /\ (ncli[c] > 0 => ~ifl[c])
  BY DEF NcliInv
<1>4. (held[c] = {} => n = 0) /\ (held[c] = {PtableLock} => n = 1)
  BY CardinalityFacts
<1> HIDE DEF n
<1> QED BY <1>2, <1>3, <1>4, SpinlockAssumption

\* The initial state: no lock taken, interrupts off, only schedulers run.
LEMMA InitIInv == Init => IInv
<1> SUFFICES ASSUME Init PROVE IInv
  OBVIOUS
<1> USE DEF Init
<1>1. Cardinality({}) = 0
  BY FS_EmptySet
<1>2. TypeOK
  BY SpinlockAssumption, PtableLockIsLock DEF TypeOK, Thread
<1>3. PcInv /\ MutualExclusion /\ OwnerInv
  BY DEF PcInv, MutualExclusion, OwnerInv
<1>4. NcliInv
  BY <1>1 DEF NcliInv
<1>5. CurInv
  BY DEF CurInv, Thread
<1>6. IntenaInv
  BY SpinlockAssumption DEF IntenaInv, Settled, Thread
<1> QED
  BY <1>2, <1>3, <1>4, <1>5, <1>6 DEF IInv

\* Every step of every CPU preserves the inductive invariant.
LEMMA NextIInv == IInv /\ [Next]_vars => IInv'
<1> SUFFICES ASSUME IInv, [Next]_vars PROVE IInv'
  OBVIOUS
<1> USE DEF IInv
<1>0. CASE UNCHANGED vars
  <2> USE <1>0 DEF vars, cpuvars, thrvars
  <2>1. TypeOK' /\ PcInv' /\ MutualExclusion' /\ OwnerInv'
    BY DEF TypeOK, PcInv, MutualExclusion, OwnerInv
  <2>2. NcliInv' /\ CurInv' /\ IntenaInv'
    BY DEF NcliInv, CurInv, IntenaInv, Settled
  <2> QED BY <2>1, <2>2
<1>1. ASSUME NEW c \in CPU, NEW l \in Lock, acquire(c, l) PROVE IInv'
  <2> USE <1>1 DEF acquire, pushcli, Goto, cpuvars, thrvars
  <2>m. Mine(c) = held[c]
    BY DEF TypeOK, CurInv, Mine
  <2>a. l \notin held[c] /\ ~holding(c, l)
    BY <2>m, SpinlockAssumption DEF TypeOK, OwnerInv, holding, Lock
  <2>b. /\ ncli[c] = Cardinality(held[c])
        /\ Cardinality(held[c] \cup {l}) = ncli[c] + 1
        /\ Cardinality(held[c] \cup {l}) \in 0..NLOCK
    BY <2>a, LockCount DEF TypeOK, NcliInv
  <2>1. TypeOK'
    BY <2>a, <2>b DEF TypeOK, Thread
  <2>2. PcInv'
    BY <2>a, <2>b DEF TypeOK, PcInv
  <2>3. MutualExclusion'
    BY <2>a, <2>b DEF TypeOK, MutualExclusion
  <2>4. OwnerInv'
    BY <2>a, <2>b DEF TypeOK, OwnerInv, PcInv, MutualExclusion
  <2>5. NcliInv'
    BY <2>a, <2>b DEF TypeOK, NcliInv, PcInv
  <2>6. CurInv'
    BY <2>a, <2>b, SpinlockAssumption DEF TypeOK, CurInv
  <2>7. IntenaInv'
    BY <2>a, <2>b, SpinlockAssumption DEF TypeOK, IntenaInv, Settled, CurInv
  <2> QED BY <2>1, <2>2, <2>3, <2>4, <2>5, <2>6, <2>7
<1>2. ASSUME NEW c \in CPU, NEW l \in Lock, release(c, l) PROVE IInv'
  <2> USE <1>2 DEF release, Goto, cpuvars, thrvars
  <2>a. l \in held[c] /\ holding(c, l)
    BY DEF TypeOK, CurInv, OwnerInv, Mine, holding
  <2>1. TypeOK'
    BY <2>a DEF TypeOK, Thread
  <2>2. PcInv'
    BY <2>a DEF TypeOK, PcInv
  <2>3. MutualExclusion'
    BY <2>a DEF TypeOK, MutualExclusion
  <2>4. OwnerInv'
    BY <2>a DEF TypeOK, OwnerInv, PcInv, MutualExclusion
  <2>5. NcliInv'
    BY <2>a, LockCount DEF TypeOK, NcliInv, PcInv
  <2>6. CurInv'
    BY <2>a, SpinlockAssumption DEF TypeOK, CurInv
  <2>7. IntenaInv'
    BY <2>a, SpinlockAssumption DEF TypeOK, IntenaInv, Settled, CurInv
  <2> QED BY <2>1, <2>2, <2>3, <2>4, <2>5, <2>6, <2>7
<1>3. ASSUME NEW c \in CPU, AcquireXchg(c) PROVE IInv'
  <2> USE <1>3 DEF AcquireXchg, Goto, cpuvars, thrvars
  <2>a. want[c] \in Lock /\ (\A d \in CPU : want[c] \notin held[d])
    BY DEF TypeOK, OwnerInv
  <2>1. TypeOK'
    BY <2>a DEF TypeOK, Thread
  <2>2. PcInv'
    BY <2>a DEF TypeOK, PcInv
  <2>3. MutualExclusion'
    BY <2>a DEF TypeOK, MutualExclusion
  <2>4. OwnerInv'
    BY <2>a DEF TypeOK, OwnerInv, PcInv, MutualExclusion
  <2>5. NcliInv'
    BY <2>a, LockCount DEF TypeOK, NcliInv, PcInv
  <2>6. CurInv'
    BY <2>a, SpinlockAssumption DEF TypeOK, CurInv
  <2>7. IntenaInv'
    BY <2>a, SpinlockAssumption DEF TypeOK, IntenaInv, Settled, CurInv
  <2> QED BY <2>1, <2>2, <2>3, <2>4, <2>5, <2>6, <2>7
<1>4. ASSUME NEW c \in CPU, AcquireRecord(c) PROVE IInv'
  <2> USE <1>4 DEF AcquireRecord, Goto, cpuvars, thrvars
  <2>1. TypeOK'
    BY DEF TypeOK, Thread
  <2>2. PcInv'
    BY DEF TypeOK, PcInv
  <2>3. MutualExclusion'
    BY DEF TypeOK, MutualExclusion
  <2>4. OwnerInv'
    BY DEF TypeOK, OwnerInv, PcInv, MutualExclusion
  <2>5. NcliInv'
    BY LockCount DEF TypeOK, NcliInv, PcInv
  <2>6. CurInv'
    BY SpinlockAssumption DEF TypeOK, CurInv
  <2>7. IntenaInv'
    BY SpinlockAssumption DEF TypeOK, IntenaInv, Settled, CurInv
  <2> QED BY <2>1, <2>2, <2>3, <2>4, <2>5, <2>6, <2>7
<1>5. ASSUME NEW c \in CPU, ReleaseXchg(c) PROVE IInv'
  <2> USE <1>5 DEF ReleaseXchg, Goto, cpuvars, thrvars
  <2>1. TypeOK'
    BY DEF TypeOK, Thread
  <2>2. PcInv'
    BY DEF TypeOK, PcInv
  <2>3. MutualExclusion'
    BY DEF TypeOK, MutualExclusion
  <2>4. OwnerInv'
    BY DEF TypeOK, OwnerInv, PcInv, MutualExclusion
  <2>5. NcliInv'
    BY LockCount, SMTT(30) DEF TypeOK, NcliInv, PcInv
  <2>6. CurInv'
    BY SpinlockAssumption DEF TypeOK, CurInv
  <2>7. IntenaInv'
    BY SpinlockAssumption DEF TypeOK, IntenaInv, Settled, CurInv
  <2> QED BY <2>1, <2>2, <2>3, <2>4, <2>5, <2>6, <2>7
<1>6. ASSUME NEW c \in CPU, popcli(c) PROVE IInv'
  <2> USE <1>6 DEF popcli, Goto, cpuvars, thrvars
  <2>a. ncli[c] = Cardinality(held[c]) + 1 /\ Cardinality(held[c]) \in 0..NLOCK
    BY LockCount DEF TypeOK, NcliInv
  <2>b. ~ifl[c] /\ ncli[c] - 1 >= 0
    BY <2>a DEF NcliInv, TypeOK
  <2>1. TypeOK'
    BY <2>a, <2>b DEF TypeOK, Thread
  <2>2. PcInv'
    BY <2>a, <2>b DEF TypeOK, PcInv
  <2>3. MutualExclusion'
    BY <2>a, <2>b DEF TypeOK, MutualExclusion
  <2>4. OwnerInv'
    BY <2>a, <2>b DEF TypeOK, OwnerInv, PcInv, MutualExclusion
  <2>5. NcliInv'
    BY <2>a, <2>b DEF TypeOK, NcliInv, PcInv
  <2>6. CurInv'
    BY <2>a, <2>b, SpinlockAssumption DEF TypeOK, CurInv
  <2>7. IntenaInv'
    BY <2>a, <2>b, SpinlockAssumption DEF TypeOK, IntenaInv, Settled, CurInv
  <2> QED BY <2>1, <2>2, <2>3, <2>4, <2>5, <2>6, <2>7
<1>7. ASSUME NEW c \in CPU, sched(c) PROVE IInv'
  <2> USE <1>7 DEF sched, Goto, cpuvars, thrvars
  <2>a. held[c] = {PtableLock} /\ cur[c] \in Proc
    BY DEF TypeOK, CurInv, Mine
  <2>b. ncli[c] = 1
    BY <2>a, NcliHeld
  <2>c. ~ifl[c] /\ holding(c, PtableLock)
    BY <2>a, <2>b DEF NcliInv, OwnerInv, holding
  <2>d. /\ \A d \in CPU : cur'[d] = IF d = c THEN c ELSE cur[d]
        /\ \A t \in Thread : saved'[t] = IF t = cur[c] THEN intena[c] ELSE saved[t]
        /\ UNCHANGED <<ifl, ncli, intena, fresh, intr, base>>
    BY <2>a, <2>b, <2>c DEF TypeOK
  <2>1. TypeOK'
    BY <2>a, <2>b, <2>c, SMTT(30) DEF TypeOK, Thread
  <2>2. PcInv'
    BY <2>a, <2>b, <2>c DEF TypeOK, PcInv
  <2>3. MutualExclusion'
    BY <2>a, <2>b, <2>c DEF TypeOK, MutualExclusion
  <2>4. OwnerInv'
    BY <2>a, <2>b, <2>c DEF TypeOK, OwnerInv, PcInv, MutualExclusion
  <2>5. NcliInv'
    BY <2>a, <2>b, <2>c, LockCount DEF TypeOK, NcliInv, PcInv
  <2>6. CurInv'
    <3>1. \A d \in CPU : c \notin Proc /\ cur[d] \in Proc \cup {d} /\ cur'[d] = IF d = c THEN c ELSE cur[d]
      BY <2>d, SpinlockAssumption DEF CurInv
    <3>2. \A d \in CPU : cur'[d] \in Proc \cup {d}
      BY <3>1
    <3>3. ASSUME NEW d \in CPU, NEW e \in CPU, cur'[d] = cur'[e] PROVE d = e
      BY <3>1, <3>3 DEF CurInv
    <3> QED BY <2>d, <3>2, <3>3 DEF CurInv
  <2>7. IntenaInv'
    <3>1. \A t \in Thread : Settled(t)' <=> Settled(t)
      BY <2>d DEF Settled
    <3>2. Settled(cur[c]) => intena[c]
      BY <2>b, SMTT(30) DEF IntenaInv
    <3>3. ~Settled(c)
      BY SpinlockAssumption DEF Settled
    <3>4. \A d \in CPU : c \in Thread /\ cur[d] \in Thread
      BY DEF TypeOK, Thread
    <3>5. ASSUME NEW d \in CPU, Settled(cur[d])'
          PROVE  IF ncli'[d] = 0 THEN ifl'[d] ELSE intena'[d]
      BY <2>d, <3>1, <3>3, <3>4, <3>5, SMTT(30) DEF IntenaInv
    <3>6. ASSUME NEW t \in Proc, Settled(t), \A d \in CPU : cur'[d] # t
          PROVE  saved'[t]
      BY <2>d, <3>2, <3>6, SMTT(30) DEF IntenaInv, Thread
    <3> QED BY <3>1, <3>5, <3>6 DEF IntenaInv, Thread
  <2> QED BY <2>1, <2>2, <2>3, <2>4, <2>5, <2>6, <2>7
<1>8. ASSUME NEW c \in CPU, SchedulerSti(c) PROVE IInv'
  <2> USE <1>8 DEF SchedulerSti, Goto, cpuvars, thrvars
  <2>a. ncli[c] = 0
    BY NcliHeld
  <2>1. TypeOK'
    BY <2>a DEF TypeOK, Thread
  <2>2. PcInv'
    BY <2>a DEF TypeOK, PcInv
  <2>3. MutualExclusion'
    BY <2>a DEF TypeOK, MutualExclusion
  <2>4. OwnerInv'
    BY <2>a DEF TypeOK, OwnerInv, PcInv, MutualExclusion
  <2>5. NcliInv'
    BY <2>a, LockCount DEF TypeOK, NcliInv, PcInv
  <2>6. CurInv'
    BY <2>a, SpinlockAssumption DEF TypeOK, CurInv
  <2>7. IntenaInv'
    BY <2>a, SpinlockAssumption DEF TypeOK, IntenaInv, Settled, CurInv
  <2> QED BY <2>1, <2>2, <2>3, <2>4, <2>5, <2>6, <2>7
<1>9. ASSUME NEW c \in CPU, NEW p \in Proc, Dispatch(c, p) PROVE IInv'
  <2> USE <1>9 DEF Dispatch, Goto, cpuvars, thrvars
  <2>a. ncli[c] # 0
    BY NcliHeld
  <2>1. TypeOK'
    BY <2>a DEF TypeOK, Thread
  <2>2. PcInv'
    BY <2>a DEF TypeOK, PcInv
  <2>3. MutualExclusion'
    BY <2>a DEF TypeOK, MutualExclusion
  <2>4. OwnerInv'
    BY <2>a DEF TypeOK, OwnerInv, PcInv, MutualExclusion
  <2>5. NcliInv'
    BY <2>a, LockCount DEF TypeOK, NcliInv, PcInv
  <2>6. CurInv'
    BY <2>a, SpinlockAssumption DEF TypeOK, CurInv
  <2>7. IntenaInv'
    BY <2>a, SpinlockAssumption DEF TypeOK, IntenaInv, Settled, CurInv
  <2> QED BY <2>1, <2>2, <2>3, <2>4, <2>5, <2>6, <2>7
<1>10. ASSUME NEW c \in CPU, Interrupt(c) PROVE IInv'
  <2> USE <1>10 DEF Interrupt, Goto, cpuvars, thrvars
  <2>a. held[c] = {}
    BY NcliHeld
  <2>1. TypeOK'
    BY <2>a DEF TypeOK, Thread
  <2>2. PcInv'
    BY <2>a DEF TypeOK, PcInv
  <2>3. MutualExclusion'
    BY <2>a DEF TypeOK, MutualExclusion
  <2>4. OwnerInv'
    BY <2>a DEF TypeOK, OwnerInv, PcInv, MutualExclusion
  <2>5. NcliInv'
    BY <2>a, LockCount DEF TypeOK, NcliInv, PcInv
  <2>6. CurInv'
    BY <2>a, SpinlockAssumption DEF TypeOK, CurInv
  <2>7. IntenaInv'
    BY <2>a, SpinlockAssumption, SMTT(30) DEF TypeOK, IntenaInv, Settled, CurInv
  <2> QED BY <2>1, <2>2, <2>3, <2>4, <2>5, <2>6, <2>7
<1>11. ASSUME NEW c \in CPU, Iret(c) PROVE IInv'
  <2> USE <1>11 DEF Iret, Goto, cpuvars, thrvars
  <2>a. held[c] = {} /\ cur[c] \in Thread
    BY DEF CurInv, Mine, TypeOK
  <2>b. ncli[c] = 0
    BY <2>a, NcliHeld
  <2>1. TypeOK'
    <3>1. ifl' \in [CPU -> BOOLEAN]
      BY DEF TypeOK
    <3>2. intr' \in [Thread -> BOOLEAN] /\ fresh' \in [Thread -> BOOLEAN]
      BY <2>a DEF TypeOK
    <3>3. base' \in [Thread -> SUBSET Lock]
      BY <2>a DEF TypeOK
    <3> QED BY <3>1, <3>2, <3>3 DEF TypeOK
  <2>2. PcInv'
    BY <2>a, <2>b DEF TypeOK, PcInv
  <2>3. MutualExclusion'
    BY <2>a, <2>b DEF TypeOK, MutualExclusion
  <2>4. OwnerInv'
    BY <2>a, <2>b DEF TypeOK, OwnerInv, PcInv, MutualExclusion
  <2>5. NcliInv'
    BY <2>a, <2>b, LockCount, SMTT(30) DEF TypeOK, NcliInv, PcInv
  <2>6. CurInv'
    BY <2>a, <2>b, SpinlockAssumption DEF TypeOK, CurInv
  <2>7. IntenaInv'
    <3>1. \A t \in Thread \ {cur[c]} : Settled(t)' <=> Settled(t)
      BY <2>a DEF TypeOK, Settled
    <3>2. \A d \in CPU \ {c} : cur[d] \in Thread \ {cur[c]} /\ ifl'[d] = ifl[d]
      BY DEF CurInv, TypeOK
    <3>3. ifl'[c] /\ UNCHANGED <<cur, ncli, intena, saved>>
      BY DEF TypeOK
    <3>4. ASSUME NEW d \in CPU, Settled(cur[d])'
          PROVE  IF ncli'[d] = 0 THEN ifl'[d] ELSE intena'[d]
      BY <2>b, <3>1, <3>2, <3>3, <3>4 DEF IntenaInv
    <3>5. ASSUME NEW t \in Proc, Settled(t)', \A d \in CPU : cur'[d] # t
          PROVE  saved'[t]
      BY <3>1, <3>3, <3>5 DEF IntenaInv, Thread
    <3> QED BY <3>4, <3>5 DEF IntenaInv
  <2> QED BY <2>1, <2>2, <2>3, <2>4, <2>5, <2>6, <2>7
<1> QED
  BY <1>0, <1>1, <1>2, <1>3, <1>4, <1>5, <1>6, <1>7, <1>8, <1>9, <1>10, <1>11 DEF Next

-----------------------------------------------------------------------------
\* The invariant holds in every reachable state.
LEMMA SpecIInv == Spec => []IInv
BY InitIInv, NextIInv, PTL DEF Spec

\* Types, with cpu->ncli bounded by the number of locks.
THEOREM TypeCorrect == Spec => []TypeOK
<1>1. IInv => TypeOK
  BY DEF IInv
<1> QED BY <1>1, SpecIInv, PTL

\* No two CPUs ever hold one spin lock.
THEOREM MutexCorrect == Spec => []MutualExclusion
<1>1. IInv => MutualExclusion
  BY DEF IInv
<1> QED BY <1>1, SpecIInv, PTL

\* holding() answers yes only to the CPU that won the lock.
THEOREM HoldingCorrect == Spec => []HoldingAccurate
<1>1. IInv => HoldingAccurate
  BY SpinlockAssumption DEF IInv, OwnerInv, HoldingAccurate, holding
<1> QED BY <1>1, SpecIInv, PTL

\* The panics of acquire, release, popcli and sched are unreachable for code
\* that takes its locks in order.
THEOREM NeverPanics == Spec => []NoPanic
<1>1. IInv => NoPanic
  BY DEF IInv, PcInv, NoPanic
<1> QED BY <1>1, SpecIInv, PTL

\* A CPU that owns a lock takes no interrupt, and a process outside critical
\* sections and handlers runs with interrupts on, whatever the thread its CPU
\* ran before had left in cpu->intena.
THEOREM InterruptsCorrect == Spec => []InterruptFlag
<1>1. IInv => LocksMaskInterrupts
  BY LockCount DEF IInv, TypeOK, NcliInv, LocksMaskInterrupts
<1>2. IInv => InterruptsRestored
  BY DEF IInv, TypeOK, CurInv, IntenaInv, Settled, InterruptsRestored
<1>3. IInv => InterruptFlag
  BY <1>1, <1>2 DEF InterruptFlag
<1> QED BY <1>3, SpecIInv, PTL
=============================================================================
