---------------------------- MODULE FilesProofs ----------------------------
(***************************************************************************)
(* The file table agrees with the descriptors and the calls that use it,   *)
(* for any number of processes, files and descriptors.                     *)
(***************************************************************************)
EXTENDS Files, FiniteSetTheorems, TLAPS

\* Leaves go to Zenon; the ones that are about numbers name SMT.
USE Zenon

-----------------------------------------------------------------------------
(* Counting.                                                               *)

\* t2 differs from t at z at most.
OnlyAt(S, t, t2, z) == z \in S /\ \A y \in S : y # z => t2[y] = t[y]

\* The count of k in t2 follows from the one in t.
Recount(S, t, t2, z, k) ==
  /\ CountOf(t, S, k) \in Nat /\ CountOf(t2, S, k) \in Nat
  /\ t[z] # k /\ t2[z] = k => CountOf(t2, S, k) = CountOf(t, S, k) + 1
  /\ t[z] = k /\ t2[z] # k => CountOf(t, S, k) = CountOf(t2, S, k) + 1
  /\ (t[z] = k <=> t2[z] = k) => CountOf(t2, S, k) = CountOf(t, S, k)

\* How a count changes when one value of a function does.
LEMMA PointCount ==
  ASSUME NEW S, IsFiniteSet(S), NEW t, NEW t2, NEW z, NEW k, OnlyAt(S, t, t2, z)
  PROVE  Recount(S, t, t2, z, k)
<1> DEFINE A == {y \in S : t[y] = k}  B == {y \in S : t2[y] = k}
<1>0. z \in S /\ \A y \in S : y # z => t2[y] = t[y]
  BY DEF OnlyAt
<1>1. IsFiniteSet(A) /\ IsFiniteSet(B)
  BY FS_Subset
<1>2. Cardinality(A) \in Nat /\ Cardinality(B) \in Nat
  BY <1>1, FS_CardinalityType
<1>3. ASSUME t2[z] = k, t[z] # k PROVE Cardinality(B) = Cardinality(A) + 1
  <2>1. B = A \cup {z} /\ z \notin A
    BY <1>0, <1>3
  <2> QED BY <1>1, <2>1, FS_AddElement
<1>4. ASSUME t2[z] # k, t[z] = k PROVE Cardinality(A) = Cardinality(B) + 1
  <2>1. A = B \cup {z} /\ z \notin B
    BY <1>0, <1>4
  <2> QED BY <1>1, <2>1, FS_AddElement
<1>5. ASSUME t[z] = k <=> t2[z] = k PROVE A = B
  BY <1>0, <1>5
<1> QED BY <1>2, <1>3, <1>4, <1>5 DEF CountOf, Recount

-----------------------------------------------------------------------------
(* The constants and the operators of the file table.                      *)

\* What the proofs use of the constants.
LEMMA FilesConstants ==
  /\ NFILE \in Nat \ {0} /\ NOFILE \in Nat \ {0} /\ MaxOff \in Nat
  /\ IsFiniteSet(Proc) /\ "none" \notin Proc
  /\ IsFiniteSet(File) /\ IsFiniteSet(Fd) /\ IsFiniteSet(Proc \X Fd)
<1>1. NFILE \in Nat \ {0} /\ NOFILE \in Nat \ {0} /\ MaxOff \in Nat
  BY FilesAssumption
<1>2. IsFiniteSet(Proc) /\ "none" \notin Proc
  BY FilesAssumption
<1>3. NFILE \in Int /\ NOFILE - 1 \in Int /\ 0 \in Int /\ 1 \in Int
  BY <1>1, SMT
<1>4. IsFiniteSet(File) /\ IsFiniteSet(Fd)
  BY <1>3, FS_Interval DEF File, Fd
<1> QED BY <1>1, <1>2, <1>4, FS_Product

\* 0 stands for no file and no descriptor entry.
LEMMA NoFile == (\A f \in File : f # 0) /\ File \subseteq 0..NFILE /\ 0 \in 0..NFILE /\ 0..NFILE \subseteq File \cup {0}
  BY FilesAssumption, SMT DEF File

\* One descriptor is set.
SetFd(fds, fds2, q, d, v) ==
  /\ fds \in [Proc -> [Fd -> 0..NFILE]] /\ q \in Proc /\ d \in Fd /\ v \in 0..NFILE
  /\ fds2 = [fds EXCEPT ![q][d] = v]

AfterSet(fds, fds2, q, d, v) ==
  /\ fds2 \in [Proc -> [Fd -> 0..NFILE]] /\ fds2[q][d] = v
  /\ \A r \in Proc, e \in Fd : r # q \/ e # d => fds2[r][e] = fds[r][e]

FdRecount(fds, fds2, q, d, v, f) ==
  /\ Refs(fds, f) \in Nat /\ Refs(fds2, f) \in Nat
  /\ fds[q][d] # f /\ v = f => Refs(fds2, f) = Refs(fds, f) + 1
  /\ fds[q][d] = f /\ v # f => Refs(fds, f) = Refs(fds2, f) + 1
  /\ (fds[q][d] = f <=> v = f) => Refs(fds2, f) = Refs(fds, f)

\* What such a step leaves alone.
LEMMA SetFdFacts ==
  ASSUME NEW fds, NEW fds2, NEW q, NEW d, NEW v, SetFd(fds, fds2, q, d, v)
  PROVE  AfterSet(fds, fds2, q, d, v)
  BY DEF SetFd, AfterSet

\* The table of descriptors as one function.
Flat(fds) == [pd \in Proc \X Fd |-> fds[pd[1]][pd[2]]]

\* The descriptors of a file are counted over that function.
LEMMA RefsFlat ==
  ASSUME NEW fds, NEW f
  PROVE  Refs(fds, f) = CountOf(Flat(fds), Proc \X Fd, f)
<1>1. {pd \in Proc \X Fd : fds[pd[1]][pd[2]] = f} = {pd \in Proc \X Fd : Flat(fds)[pd] = f}
  BY DEF Flat
<1> QED BY <1>1 DEF Refs, CountOf

\* How the number of descriptors of a file changes when one descriptor does.
LEMMA FdCount ==
  ASSUME NEW fds, NEW fds2, NEW q, NEW d, NEW v, SetFd(fds, fds2, q, d, v), NEW f
  PROVE  FdRecount(fds, fds2, q, d, v, f)
<1>1. q \in Proc /\ d \in Fd /\ AfterSet(fds, fds2, q, d, v)
  BY SetFdFacts DEF SetFd
<1>2. <<q, d>> \in Proc \X Fd /\ <<q, d>>[1] = q /\ <<q, d>>[2] = d
  BY <1>1
<1>3. \A pd \in Proc \X Fd : pd[1] \in Proc /\ pd[2] \in Fd /\ pd = <<pd[1], pd[2]>>
  BY SMT
<1>4. \A pd \in Proc \X Fd : Flat(fds)[pd] = fds[pd[1]][pd[2]] /\ Flat(fds2)[pd] = fds2[pd[1]][pd[2]]
  BY DEF Flat
<1>5. ASSUME NEW pd \in Proc \X Fd, pd # <<q, d>> PROVE Flat(fds2)[pd] = Flat(fds)[pd]
  <2>1. pd[1] # q \/ pd[2] # d
    BY <1>3, <1>5
  <2>2. fds2[pd[1]][pd[2]] = fds[pd[1]][pd[2]]
    BY <1>1, <1>3, <2>1 DEF AfterSet
  <2> QED BY <1>4, <2>2
<1>6. Recount(Proc \X Fd, Flat(fds), Flat(fds2), <<q, d>>, f)
  BY <1>2, <1>5, FilesConstants, PointCount DEF OnlyAt
<1>7. Flat(fds)[<<q, d>>] = fds[q][d] /\ Flat(fds2)[<<q, d>>] = v
  BY <1>1, <1>2, <1>4 DEF AfterSet
<1>8. Refs(fds, f) = CountOf(Flat(fds), Proc \X Fd, f) /\ Refs(fds2, f) = CountOf(Flat(fds2), Proc \X Fd, f)
  BY RefsFlat
<1> QED BY <1>6, <1>7, <1>8 DEF Recount, FdRecount

\* A file that is no descriptor is counted 0 times, and only such a file is.
LEMMA NoRefs ==
  ASSUME NEW f
  PROVE  Refs(ofile, f) = 0 <=> \A p \in Proc, d \in Fd : ofile[p][d] # f
<1> DEFINE A == {pd \in Proc \X Fd : ofile[pd[1]][pd[2]] = f}
<1>1. IsFiniteSet(A)
  BY FilesConstants, FS_Subset
<1>2. Cardinality(A) = 0 <=> A = {}
  BY <1>1, FS_EmptySet
<1>3. ASSUME A = {}, NEW p \in Proc, NEW d \in Fd PROVE ofile[p][d] # f
  <2>1. <<p, d>> \in Proc \X Fd /\ <<p, d>>[1] = p /\ <<p, d>>[2] = d
    OBVIOUS
  <2> QED BY <1>3, <2>1
<1>4. ASSUME \A p \in Proc, d \in Fd : ofile[p][d] # f PROVE A = {}
  <2>1. \A pd \in Proc \X Fd : pd[1] \in Proc /\ pd[2] \in Fd
    OBVIOUS
  <2> QED BY <1>4, <2>1
<1> QED BY <1>2, <1>3, <1>4 DEF Refs

\* The counts that ReleasedOnce compares are numbers.
LEMMA CountNat ==
  \A k : CountOf(type, File, k) \in Nat /\ CountOf(pc, Proc, k) \in Nat /\ CountOf(drop, Proc, k) \in Nat
  BY FilesConstants, FS_Subset, FS_CardinalityType DEF CountOf

-----------------------------------------------------------------------------
(* What keeps the parts of the invariant that a step does not aim at.  All  *)
(* of them are about a step of p.                                           *)

\* The step leaves the other processes' calls alone.
Others(p) ==
  /\ p \in Proc
  /\ \A q \in Proc : q # p => pc'[q] = pc[q] /\ f0'[q] = f0[q] /\ f1'[q] = f1[q] /\ drop'[q] = drop[q]

\* Nothing happens to forks.
LEMMA ForkQuiet ==
  ASSUME ForkInv, NEW p, Others(p), p \in alive, alive' = alive, child' = child,
         pc[p] = "fork" <=> pc'[p] = "fork"
  PROVE  ForkInv'
<1>1. \A q \in Proc : q \notin alive => pc'[q] = "user" /\ drop'[q] = "NONE"
  BY DEF ForkInv, Others
<1>2. ASSUME NEW q \in Proc PROVE pc'[q] = "fork" <=> child[q] # Nothing
  <2>1. pc'[q] = "fork" <=> pc[q] = "fork"
    BY DEF Others
  <2> QED BY <2>1 DEF ForkInv
<1>3. /\ \A q \in Proc : child[q] \notin alive
      /\ \A q, r \in Proc : child[q] = child[r] /\ child[q] # Nothing => q = r
  BY DEF ForkInv
<1> QED BY <1>1, <1>2, <1>3 DEF ForkInv, Nothing

\* No file is taken in hand.
LEMMA OwnQuiet ==
  ASSUME OwnInv, ofile' = ofile, \A q \in Proc, g \in File : HeldBy(q, g)' => HeldBy(q, g)
  PROVE  OwnInv'
  BY DEF OwnInv

\* Only the hands of p change.
LEMMA HandQuiet ==
  ASSUME HandInv, NEW p, Others(p), HandOf(p)'
  PROVE  HandInv'
<1>1. ASSUME NEW q \in Proc, q # p PROVE HandOf(q)'
  <2>1. pc'[q] = pc[q] /\ f0'[q] = f0[q] /\ f1'[q] = f1[q] /\ HandOf(q)
    BY <1>1 DEF Others, HandInv
  <2> QED BY <2>1 DEF HandOf
<1> QED BY <1>1 DEF HandInv, Others

\* No file changes its type.
LEMMA KindQuiet ==
  ASSUME KindInv, NEW p, Others(p), type' = type, KindOf(p)'
  PROVE  KindInv'
<1>1. ASSUME NEW q \in Proc, q # p PROVE KindOf(q)'
  <2>1. pc'[q] = pc[q] /\ f0'[q] = f0[q] /\ f1'[q] = f1[q] /\ KindOf(q)
    BY <1>1 DEF Others, KindInv
  <2> QED BY <2>1 DEF KindOf
<1> QED BY <1>1 DEF KindInv

\* The inode's lock stays as it is.
LEMMA LockQuiet ==
  ASSUME LockInv, NEW p, Others(p), ilock' = ilock, at' = at, pc[p] = "write" <=> pc'[p] = "write"
  PROVE  LockInv'
  BY DEF LockInv, Others

\* A writer's file stays a descriptor as long as its descriptors only grow.
LEMMA WriterQuiet ==
  ASSUME WriterInv, NEW p, Others(p), pc'[p] # "write",
         \A q \in Proc, d \in Fd : q # p /\ ofile[q][d] # 0 => ofile'[q][d] = ofile[q][d]
  PROVE  WriterInv'
<1>1. ASSUME NEW q \in Proc, pc'[q] = "write" PROVE f0'[q] # 0 /\ \E d \in Fd : ofile'[q][d] = f0'[q]
  <2>1. q # p /\ pc[q] = "write" /\ f0'[q] = f0[q]
    BY <1>1 DEF Others
  <2>2. PICK d \in Fd : ofile[q][d] = f0[q] /\ f0[q] # 0
    BY <2>1 DEF WriterInv
  <2>3. ofile'[q][d] = f0'[q]
    BY <2>1, <2>2
  <2> QED BY <2>1, <2>2, <2>3
<1> QED BY <1>1 DEF WriterInv

\* No reference is taken or given up.
LEMMA RefQuiet ==
  ASSUME RefInv, ref' = ref, ofile' = ofile, \A q \in Proc, g \in File : HeldBy(q, g)' <=> HeldBy(q, g)
  PROVE  RefInv'
  BY DEF RefInv

\* The inode is counted while a call has it in hand.
LEMMA OpenCount ==
  ASSUME NEW p, Others(p)
  PROVE  Recount(Proc, pc, pc', p, "open")
<1>1. OnlyAt(Proc, pc, pc', p)
  BY DEF OnlyAt, Others
<1> QED BY <1>1, FilesConstants, PointCount

\* Nothing is released.
LEMMA ReleasedQuiet ==
  ASSUME ReleasedOnce, NEW p, Others(p), pc[p] = "open" <=> pc'[p] = "open",
         ref' = ref, type' = type, drop' = drop, iref' = iref, pipe' = pipe
  PROVE  ReleasedOnce'
<1>1. CountOf(pc', Proc, "open") = CountOf(pc, Proc, "open")
  BY OpenCount DEF Recount
<1> QED BY <1>1 DEF ReleasedOnce, Users, FreeFiles

\* Descriptors change in processes and in children that are being made.
LEMMA EndedQuiet ==
  ASSUME EndedHoldsNothing, alive' = alive, child' = child,
         \A q \in Proc, d \in Fd :
           ofile'[q][d] = ofile[q][d] \/ q \in alive \/ \E r \in Proc : child[r] = q
  PROVE  EndedHoldsNothing'
<1>1. ASSUME NEW q \in Proc, q \notin alive, \A r \in Proc : child[r] # q PROVE OpenFds(q)' = {}
  <2>1. \A d \in Fd : ofile[q][d] = 0
    BY <1>1 DEF EndedHoldsNothing, OpenFds, FreeFds
  <2>2. \A d \in Fd : ofile'[q][d] = 0
    BY <1>1, <2>1
  <2> QED BY <2>2 DEF OpenFds, FreeFds
<1> QED BY <1>1 DEF EndedHoldsNothing

\* No write begins, and no offset moves.
LEMMA OffsetQuiet ==
  ASSUME OffsetCurrent, NEW p, Others(p), off' = off, at' = at, pc'[p] # "write"
  PROVE  OffsetCurrent'
  BY DEF OffsetCurrent, Others

\* A file in hand is a file.
LEMMA InHandIsFile ==
  ASSUME Types, NEW p \in Proc
  PROVE  /\ f0[p] # 0 => f0[p] \in File
         /\ f1[p] # 0 => f1[p] \in File
<1>1. f0[p] \in 0..NFILE /\ f1[p] \in 0..NFILE
  BY DEF Types
<1> QED BY <1>1, NoFile

\* Types change, but not those of the files that others have in hand.
LEMMA KindOthers ==
  ASSUME Types, HandInv, KindInv, NEW p, Others(p), KindOf(p)',
         \A q \in Proc, g \in File : q # p /\ HeldBy(q, g) /\ type[g] = "NONE" => type'[g] = "NONE"
  PROVE  KindInv'
<1>1. ASSUME NEW q \in Proc, q # p PROVE KindOf(q)'
  <2>e. pc'[q] = pc[q] /\ f0'[q] = f0[q] /\ f1'[q] = f1[q] /\ KindOf(q) /\ HandOf(q)
    BY <1>1 DEF Others, KindInv, HandInv
  <2>1. ASSUME pc[q] \in {"open", "pipe", "kalloc"}, f0[q] # 0 PROVE type'[f0[q]] = "NONE"
    <3>1. f0[q] \in File /\ HeldBy(q, f0[q]) /\ type[f0[q]] = "NONE"
      BY <2>e, <2>1, InHandIsFile DEF HeldBy, KindOf
    <3> QED BY <1>1, <3>1
  <2>2. ASSUME pc[q] = "kalloc" PROVE type'[f1[q]] = "NONE"
    <3>1. f1[q] \in File /\ HeldBy(q, f1[q]) /\ type[f1[q]] = "NONE"
      BY <2>e, <2>2, InHandIsFile DEF HeldBy, KindOf, HandOf
    <3> QED BY <1>1, <3>1
  <2> QED BY <2>e, <2>1, <2>2 DEF KindOf
<1> QED BY <1>1 DEF KindInv, Others

-----------------------------------------------------------------------------
(* What filealloc and fileclose do.                                         *)

\* A file whose count is 0 is nobody's.
LEMMA FreeIsFree ==
  ASSUME IInv, NEW f \in File, ref[f] = 0
  PROVE  /\ \A p \in Proc : ~HeldBy(p, f)
         /\ \A p \in Proc, d \in Fd : ofile[p][d] # f
         /\ type[f] = "NONE"
<1>0. /\ (\E p \in Proc : HeldBy(p, f)) => ref[f] = 1
      /\ (\A p \in Proc : ~HeldBy(p, f)) => ref[f] = Refs(ofile, f)
  BY DEF IInv, RefInv
<1>1. \A p \in Proc : ~HeldBy(p, f)
  <2>1. 0 # 1
    BY SMT
  <2> QED BY <1>0, <2>1
<1>2. \A p \in Proc, d \in Fd : ofile[p][d] # f
  BY <1>0, <1>1, NoRefs
<1>3. type[f] = "NONE"
  BY DEF IInv, ReleasedOnce, FreeFiles
<1> QED BY <1>1, <1>2, <1>3

\* filealloc takes a file that nobody has, and gives it the count 1.
LEMMA FileallocFacts ==
  ASSUME IInv, NEW f \in 0..NFILE, filealloc(f)
  PROVE  /\ f = 0 <=> FreeFiles = {}
         /\ f = 0 => ref' = ref
         /\ f # 0 => f \in File /\ ref[f] = 0 /\ ref'[f] = 1
         /\ ref' \in [File -> Nat] /\ \A g \in File : g # f => ref'[g] = ref[g]
<1>0. ref \in [File -> Nat] /\ 1 \in Nat /\ 0 \notin File
  <2>1. 1 \in Nat
    BY SMT
  <2> QED BY <2>1, NoFile DEF IInv, Types
<1>1. CASE FreeFiles = {} /\ f = 0 /\ UNCHANGED ref
  BY <1>0, <1>1
<1>2. CASE IsFirst(f, FreeFiles) /\ ref' = [ref EXCEPT ![f] = 1]
  <2>1. f \in File /\ ref[f] = 0 /\ FreeFiles # {}
    BY <1>2 DEF IsFirst, FreeFiles
  <2> QED BY <1>0, <1>2, <2>1
<1> QED BY <1>1, <1>2 DEF filealloc

\* fileclose of a file that is in use: the count goes down, and with the last
\* reference what the file was moves to drop.
LEMMA FilecloseFacts ==
  ASSUME IInv, NEW p \in Proc, NEW f \in File, drop[p] = "NONE", ref[f] # 0, fileclose(p, f)
  PROVE  /\ ref' \in [File -> Nat] /\ ref'[f] = ref[f] - 1 /\ \A g \in File : g # f => ref'[g] = ref[g]
         /\ type' \in [File -> Kinds] /\ \A g \in File : g # f => type'[g] = type[g]
         /\ type'[f] = IF ref[f] = 1 THEN "NONE" ELSE type[f]
         /\ drop' \in [Proc -> Kinds] /\ \A q \in Proc : q # p => drop'[q] = drop[q]
         /\ \A k \in {"INODE", "READ", "WRITE"} : Users(k)' = Users(k)
         /\ \A g \in FreeFiles' : type'[g] = "NONE"
<1>i. /\ ref \in [File -> Nat] /\ type \in [File -> Kinds] /\ drop \in [Proc -> Kinds]
      /\ \A g \in FreeFiles : type[g] = "NONE"
  BY DEF IInv, ReleasedOnce, Types
<1>r. /\ ref[f] \in Nat \ {0} /\ ref[f] - 1 \in Nat /\ (ref[f] - 1 = 0 <=> ref[f] = 1)
      /\ (ref[f] > 1 <=> ref[f] # 1)
  <2>1. ref[f] \in Nat \ {0}
    BY <1>i
  <2> QED BY <2>1, SMT
<1>1. ref' \in [File -> Nat] /\ ref'[f] = ref[f] - 1 /\ \A g \in File : g # f => ref'[g] = ref[g]
  BY <1>i, <1>r DEF fileclose
<1>k. "NONE" \in Kinds /\ type[f] \in Kinds
  BY <1>i DEF Kinds
<1>2. /\ type' \in [File -> Kinds] /\ \A g \in File : g # f => type'[g] = type[g]
      /\ type'[f] = IF ref[f] = 1 THEN "NONE" ELSE type[f]
  <2>1. CASE ref[f] > 1
    BY <1>i, <1>r, <2>1 DEF fileclose
  <2>2. CASE ~(ref[f] > 1)
    BY <1>i, <1>r, <1>k, <2>2 DEF fileclose
  <2> QED BY <2>1, <2>2
<1>3. /\ drop' \in [Proc -> Kinds] /\ \A q \in Proc : q # p => drop'[q] = drop[q]
      /\ drop'[p] = IF ref[f] = 1 THEN type[f] ELSE "NONE"
  <2>1. CASE ref[f] > 1
    BY <1>i, <1>r, <1>k, <2>1 DEF fileclose
  <2>2. CASE ~(ref[f] > 1)
    BY <1>i, <1>r, <1>k, <2>2 DEF fileclose
  <2> QED BY <2>1, <2>2
<1>4. ASSUME NEW k \in {"INODE", "READ", "WRITE"} PROVE Users(k)' = Users(k)
  <2>1. Recount(File, type, type', f, k)
    BY <1>2, FilesConstants, PointCount DEF OnlyAt
  <2>2. Recount(Proc, drop, drop', p, k)
    BY <1>3, FilesConstants, PointCount DEF OnlyAt
  <2>3. CASE ref[f] = 1 /\ type[f] = k
    <3>1. type'[f] # k /\ drop[p] # k /\ drop'[p] = k
      BY <1>2, <1>3, <2>3
    <3>2. /\ CountOf(type, File, k) = CountOf(type', File, k) + 1
          /\ CountOf(drop', Proc, k) = CountOf(drop, Proc, k) + 1
          /\ CountOf(type', File, k) \in Nat /\ CountOf(drop, Proc, k) \in Nat
      BY <2>1, <2>2, <2>3, <3>1 DEF Recount
    <3> QED BY <3>2, SMT DEF Users
  <2>4. CASE ~(ref[f] = 1 /\ type[f] = k)
    <3>1. (type'[f] = k <=> type[f] = k) /\ (drop'[p] = k <=> drop[p] = k)
      BY <1>2, <1>3, <2>4
    <3>2. CountOf(type', File, k) = CountOf(type, File, k) /\ CountOf(drop', Proc, k) = CountOf(drop, Proc, k)
      BY <2>1, <2>2, <3>1 DEF Recount
    <3> QED BY <3>2 DEF Users
  <2> QED BY <2>3, <2>4
<1>5. ASSUME NEW g \in FreeFiles' PROVE type'[g] = "NONE"
  <2>1. g \in File /\ ref'[g] = 0
    BY <1>5 DEF FreeFiles
  <2>2. CASE g = f
    BY <1>r, <1>1, <1>2, <2>1, <2>2
  <2>3. CASE g # f
    BY <1>i, <1>1, <1>2, <2>1, <2>3 DEF FreeFiles
  <2> QED BY <2>2, <2>3
<1> QED BY <1>1, <1>2, <1>3, <1>4, <1>5

\* An open descriptor is of a file in use, which no call has in hand.
LEMMA OpenFd ==
  ASSUME IInv, NEW p \in Proc, NEW d \in OpenFds(p)
  PROVE  /\ d \in Fd /\ ofile[p][d] \in File
         /\ ref[ofile[p][d]] = Refs(ofile, ofile[p][d]) /\ ref[ofile[p][d]] \in Nat \ {0}
         /\ \A q \in Proc : ~HeldBy(q, ofile[p][d])
<1> DEFINE f == ofile[p][d]
<1>i. Types /\ OwnInv /\ RefInv
  BY DEF IInv
<1>0. d \in Fd /\ f # 0
  BY DEF OpenFds, FreeFds
<1>1. f \in File
  <2>1. ofile[p] \in [Fd -> 0..NFILE]
    BY <1>i DEF Types
  <2>2. f \in 0..NFILE
    BY <1>0, <2>1
  <2> QED BY <1>0, <2>2, NoFile
<1>2. \A q \in Proc : ~HeldBy(q, f)
  BY <1>i, <1>0, <1>1 DEF OwnInv
<1>3. ref[f] = Refs(ofile, f) /\ ref[f] \in Nat
  BY <1>i, <1>1, <1>2 DEF RefInv, Types
<1>4. ref[f] # 0
  BY <1>0, <1>1, FreeIsFree
<1> QED BY <1>0, <1>1, <1>2, <1>3, <1>4

-----------------------------------------------------------------------------
(* Every step keeps the invariant.                                          *)

\* The parts make the invariant.
LEMMA Together ==
  /\ Types' /\ ForkInv' /\ OwnInv' /\ HandInv' /\ KindInv' /\ LockInv' /\ WriterInv'
  /\ RefInv' /\ ReleasedOnce' /\ EndedHoldsNothing' /\ OffsetCurrent'
  => IInv'
  BY DEF IInv

\* A call goes on to the end of a failing sys_pipe, or into exit.
LEMMA CallStep ==
  ASSUME IInv, NEW p \in Proc, NEW to \in {"bad", "exit"}, p \in alive,
         to = "bad" => (pc[p] = "pipe" /\ f0[p] = 0) \/ pc[p] \in {"kalloc", "fds"},
         to = "exit" => pc[p] = "user",
         pc' = [pc EXCEPT ![p] = to],
         ref' = ref, type' = type, off' = off, ofile' = ofile, alive' = alive, child' = child,
         f0' = f0, f1' = f1, drop' = drop, iref' = iref, pipe' = pipe, ilock' = ilock, at' = at
  PROVE  IInv'
<1>i. /\ Types /\ ForkInv /\ OwnInv /\ HandInv /\ KindInv /\ LockInv /\ WriterInv
      /\ RefInv /\ ReleasedOnce /\ EndedHoldsNothing /\ OffsetCurrent
  BY DEF IInv
<1>p. pc' \in [Proc -> Calls] /\ pc'[p] = to /\ \A q \in Proc : q # p => pc'[q] = pc[q]
  BY <1>i DEF Types, Calls
<1>o. Others(p)
  BY <1>p DEF Others
<1>h. \A q \in Proc, g \in File : HeldBy(q, g)' <=> HeldBy(q, g)
  BY <1>p DEF HeldBy
<1>1. Types'
  BY <1>i, <1>p DEF Types
<1>2. ForkInv'
  BY <1>i, <1>o, <1>p, ForkQuiet
<1>3. OwnInv'
  BY <1>i, <1>h, OwnQuiet
<1>4. HandInv'
  <2>1. HandOf(p)
    BY <1>i DEF HandInv
  <2>2. HandOf(p)'
    BY <1>p, <2>1 DEF HandOf
  <2> QED BY <1>i, <1>o, <2>2, HandQuiet
<1>5. KindInv'
  <2>1. KindOf(p)'
    BY <1>p DEF KindOf
  <2> QED BY <1>i, <1>o, <2>1, KindQuiet
<1>6. LockInv'
  BY <1>i, <1>o, <1>p, LockQuiet
<1>7. WriterInv'
  BY <1>i, <1>o, <1>p, WriterQuiet
<1>8. RefInv'
  BY <1>i, <1>h, RefQuiet
<1>9. ReleasedOnce'
  BY <1>i, <1>o, <1>p, ReleasedQuiet
<1>10. EndedHoldsNothing'
  BY <1>i, EndedQuiet
<1>11. OffsetCurrent'
  BY <1>i, <1>o, <1>p, OffsetQuiet
<1> QED BY <1>1, <1>2, <1>3, <1>4, <1>5, <1>6, <1>7, <1>8, <1>9, <1>10, <1>11, Together

\* pipeclose or iput, for the last reference to a file.
LEMMA ReleaseStep ==
  ASSUME IInv, NEW p \in Proc, Release(p)
  PROVE  IInv'
<1>i. /\ Types /\ ForkInv /\ OwnInv /\ HandInv /\ KindInv /\ LockInv /\ WriterInv
      /\ RefInv /\ ReleasedOnce /\ EndedHoldsNothing /\ OffsetCurrent
  BY DEF IInv
<1>e. /\ ref' = ref /\ type' = type /\ off' = off /\ ofile' = ofile /\ alive' = alive /\ pc' = pc
      /\ child' = child /\ f0' = f0 /\ f1' = f1 /\ ilock' = ilock /\ at' = at
      /\ iref' = (IF drop[p] = "INODE" THEN iref - 1 ELSE iref) /\ pipe' = pipe \ {drop[p]}
  BY DEF Release, table, hand
<1>d. /\ drop[p] # "NONE" /\ drop' \in [Proc -> Kinds] /\ drop'[p] = "NONE"
      /\ \A q \in Proc : q # p => drop'[q] = drop[q]
  BY <1>i DEF Release, Types, Kinds
<1>o. Others(p)
  BY <1>e, <1>d DEF Others
<1>a. p \in alive
  BY <1>i, <1>d DEF ForkInv
<1>h. \A q \in Proc, g \in File : HeldBy(q, g)' <=> HeldBy(q, g)
  BY <1>e DEF HeldBy
<1>c. \A k \in {"INODE", "READ", "WRITE"} : Users(k)' = IF k = drop[p] THEN Users(k) - 1 ELSE Users(k)
  <2> SUFFICES ASSUME NEW k \in {"INODE", "READ", "WRITE"}
               PROVE  Users(k)' = IF k = drop[p] THEN Users(k) - 1 ELSE Users(k)
    OBVIOUS
  <2>1. Recount(Proc, drop, drop', p, k) /\ drop'[p] # k
    BY <1>d, FilesConstants, PointCount DEF OnlyAt
  <2>2. CountOf(type, File, k) \in Nat /\ CountOf(type', File, k) = CountOf(type, File, k)
    BY <1>e, CountNat
  <2>3. CASE drop[p] = k
    <3>1. CountOf(drop, Proc, k) = CountOf(drop', Proc, k) + 1 /\ CountOf(drop', Proc, k) \in Nat
      BY <2>1, <2>3 DEF Recount
    <3> QED BY <2>2, <2>3, <3>1, SMT DEF Users
  <2>4. CASE drop[p] # k
    <3>1. CountOf(drop, Proc, k) = CountOf(drop', Proc, k)
      BY <2>1, <2>4 DEF Recount
    <3> QED BY <2>2, <2>4, <3>1 DEF Users
  <2> QED BY <2>3, <2>4
<1>9. ReleasedOnce' /\ iref' \in Nat
  <2>0. /\ iref = Users("INODE") + CountOf(pc, Proc, "open") /\ CountOf(pc, Proc, "open") \in Nat
        /\ Users("INODE") \in Nat /\ Users("INODE")' \in Nat
    <3>1. CountOf(type', File, "INODE") \in Nat /\ CountOf(drop', Proc, "INODE") \in Nat
      BY <1>e, <1>d, CountNat, FilesConstants, FS_Subset, FS_CardinalityType DEF CountOf
    <3>2. Users("INODE") \in Nat /\ Users("INODE")' \in Nat
      BY <3>1, CountNat, SMT DEF Users
    <3> QED BY <1>i, <3>2, CountNat DEF ReleasedOnce
  <2>1. iref' = Users("INODE")' + CountOf(pc', Proc, "open") /\ iref' \in Nat
    <3>1. CASE drop[p] = "INODE"
      <4>1. iref' = iref - 1 /\ Users("INODE")' = Users("INODE") - 1
        BY <1>e, <1>c, <3>1
      <4> QED BY <1>e, <2>0, <4>1, SMT
    <3>2. CASE drop[p] # "INODE"
      <4>1. iref' = iref /\ Users("INODE")' = Users("INODE")
        BY <1>e, <1>c, <3>2
      <4> QED BY <1>e, <2>0, <4>1, SMT
    <3> QED BY <3>1, <3>2
  <2>2. ASSUME NEW k \in {"READ", "WRITE"} PROVE Users(k)' = IF k \in pipe' THEN 1 ELSE 0
    <3>0. Users(k) = IF k \in pipe THEN 1 ELSE 0
      BY <1>i DEF ReleasedOnce
    <3>1. CASE drop[p] = k
      <4>1. k \notin pipe' /\ Users(k)' = Users(k) - 1
        BY <1>e, <1>c, <3>1
      <4>2. Users(k)' \in Nat
        <5>1. CountOf(type', File, k) \in Nat /\ CountOf(drop', Proc, k) \in Nat
          BY <1>e, <1>d, CountNat, FilesConstants, FS_Subset, FS_CardinalityType DEF CountOf
        <5> QED BY <5>1, SMT DEF Users
      <4> QED BY <3>0, <4>1, <4>2, SMT
    <3>2. CASE drop[p] # k
      BY <1>e, <1>c, <3>0, <3>2
    <3> QED BY <3>1, <3>2
  <2> QED BY <1>i, <1>e, <2>1, <2>2 DEF ReleasedOnce, FreeFiles
<1>1. Types'
  BY <1>i, <1>e, <1>d, <1>9 DEF Types
<1>2. ForkInv'
  BY <1>i, <1>e, <1>o, <1>a, ForkQuiet
<1>3. OwnInv'
  BY <1>i, <1>e, <1>h, OwnQuiet
<1>4. HandInv'
  BY <1>i, <1>e DEF HandInv, HandOf
<1>5. KindInv'
  BY <1>i, <1>e DEF KindInv, KindOf
<1>6. LockInv'
  BY <1>i, <1>e DEF LockInv
<1>7. WriterInv'
  BY <1>i, <1>e DEF WriterInv
<1>8. RefInv'
  BY <1>i, <1>e, <1>h, RefQuiet
<1>10. EndedHoldsNothing'
  BY <1>i, <1>e, EndedQuiet
<1>11. OffsetCurrent'
  BY <1>i, <1>e DEF OffsetCurrent
<1> QED BY <1>1, <1>2, <1>3, <1>4, <1>5, <1>6, <1>7, <1>8, <1>9, <1>10, <1>11, Together

\* sys_open and sys_pipe get their first file.
LEMMA FirstFileStep ==
  ASSUME IInv, NEW p \in Proc, NEW to \in {"open", "pipe"},
         (sys_open(p) /\ to = "open") \/ (PipeFile0(p) /\ to = "pipe")
  PROVE  IInv'
<1>i. /\ Types /\ ForkInv /\ OwnInv /\ HandInv /\ KindInv /\ LockInv /\ WriterInv
      /\ RefInv /\ ReleasedOnce /\ EndedHoldsNothing /\ OffsetCurrent
  BY DEF IInv
<1>1. PICK f \in 0..NFILE : filealloc(f) /\ f0' = [f0 EXCEPT ![p] = f]
  BY DEF sys_open, PipeFile0
<1>e. /\ p \in alive /\ pc[p] = "user" /\ pc' = [pc EXCEPT ![p] = to]
      /\ to = "open" => iref' = iref + 1
      /\ to = "pipe" => iref' = iref
      /\ type' = type /\ off' = off /\ ofile' = ofile /\ alive' = alive /\ child' = child
      /\ f1' = f1 /\ drop' = drop /\ pipe' = pipe /\ ilock' = ilock /\ at' = at
  BY DEF sys_open, PipeFile0, Goto
<1>p. /\ pc' \in [Proc -> Calls] /\ pc'[p] = to /\ \A q \in Proc : q # p => pc'[q] = pc[q]
      /\ f0' \in [Proc -> 0..NFILE] /\ f0'[p] = f /\ \A q \in Proc : q # p => f0'[q] = f0[q]
  BY <1>i, <1>1, <1>e DEF Types, Calls
<1>o. Others(p)
  BY <1>e, <1>p DEF Others
<1>r. /\ f = 0 => ref' = ref
      /\ f # 0 => f \in File /\ ref[f] = 0 /\ ref'[f] = 1
      /\ ref' \in [File -> Nat] /\ \A g \in File : g # f => ref'[g] = ref[g]
  BY <1>1, FileallocFacts
<1>n. f # 0 => /\ \A q \in Proc : ~HeldBy(q, f)
               /\ \A q \in Proc, d \in Fd : ofile[q][d] # f
               /\ type[f] = "NONE"
  BY <1>r, FreeIsFree
<1>z. f0[p] = 0 /\ f1[p] = 0
  BY <1>i, <1>e DEF HandInv, HandOf
<1>g. \A g \in File : g # 0 /\ ~HeldBy(p, g) /\ (HeldBy(p, g)' <=> g = f)
  BY <1>e, <1>p, <1>z, NoFile DEF HeldBy
<1>h. \A q \in Proc, g \in File : q # p => (HeldBy(q, g)' <=> HeldBy(q, g))
  BY <1>e, <1>p DEF HeldBy
<1>9. ReleasedOnce' /\ iref' \in Nat
  <2>0. iref = Users("INODE") + CountOf(pc, Proc, "open") /\ iref \in Nat /\ Users("INODE")' = Users("INODE")
    BY <1>i, <1>e DEF ReleasedOnce, Types, Users
  <2>1. Recount(Proc, pc, pc', p, "open")
    BY <1>o, OpenCount
  <2>f. \A g \in FreeFiles' : type'[g] = "NONE"
    BY <1>i, <1>e, <1>n, <1>r DEF ReleasedOnce, FreeFiles
  <2>2. CASE to = "open"
    <3>1. CountOf(pc', Proc, "open") = CountOf(pc, Proc, "open") + 1 /\ CountOf(pc, Proc, "open") \in Nat
      BY <1>e, <1>p, <2>1, <2>2 DEF Recount
    <3>2. Users("INODE") \in Nat
      BY CountNat, SMT DEF Users
    <3>3. iref' = iref + 1
      BY <1>e, <2>2
    <3>4. iref' = Users("INODE")' + CountOf(pc', Proc, "open") /\ iref' \in Nat
      BY <2>0, <3>1, <3>2, <3>3, SMT
    <3> QED BY <1>i, <1>e, <2>f, <3>4 DEF ReleasedOnce, Users
  <2>3. CASE to = "pipe"
    <3>1. CountOf(pc', Proc, "open") = CountOf(pc, Proc, "open")
      BY <1>e, <1>p, <2>1, <2>3 DEF Recount
    <3>2. iref' = Users("INODE")' + CountOf(pc', Proc, "open") /\ iref' \in Nat
      BY <1>e, <2>0, <2>3, <3>1
    <3> QED BY <1>i, <1>e, <2>f, <3>2 DEF ReleasedOnce, Users
  <2> QED BY <2>2, <2>3
<1>1a. Types'
  BY <1>i, <1>e, <1>p, <1>r, <1>9 DEF Types
<1>2. ForkInv'
  BY <1>i, <1>e, <1>o, <1>p, ForkQuiet
<1>3. OwnInv'
  <2>1. ASSUME NEW g \in File, NEW q \in Proc, NEW r \in Proc, HeldBy(q, g)'
        PROVE  (HeldBy(r, g)' => q = r) /\ \A d \in Fd : ofile'[r][d] # g
    <3>1. CASE g = f
      BY <1>e, <1>h, <1>g, <1>n, <2>1, <3>1
    <3>2. CASE g # f
      <4>1. HeldBy(q, g) /\ (HeldBy(r, g)' => HeldBy(r, g))
        BY <1>h, <1>g, <2>1, <3>2
      <4> QED BY <1>i, <1>e, <4>1 DEF OwnInv
    <3> QED BY <3>1, <3>2
  <2> QED BY <2>1 DEF OwnInv
<1>4. HandInv'
  <2>1. HandOf(p)'
    BY <1>e, <1>p, <1>z DEF HandOf
  <2> QED BY <1>i, <1>o, <2>1, HandQuiet
<1>5. KindInv'
  <2>1. KindOf(p)'
    BY <1>e, <1>n, <1>p DEF KindOf
  <2> QED BY <1>i, <1>e, <1>o, <2>1, KindQuiet
<1>6. LockInv'
  BY <1>i, <1>e, <1>o, <1>p, LockQuiet
<1>7. WriterInv'
  BY <1>i, <1>e, <1>o, <1>p, WriterQuiet
<1>8. RefInv'
  <2> SUFFICES ASSUME NEW g \in File
               PROVE  /\ (\E q \in Proc : HeldBy(q, g)') => ref'[g] = 1
                      /\ (\A q \in Proc : ~HeldBy(q, g)') => ref'[g] = Refs(ofile', g)
    BY DEF RefInv
  <2>1. CASE g = f
    BY <1>g, <1>r, <2>1
  <2>2. CASE g # f
    <3>1. \A q \in Proc : HeldBy(q, g)' <=> HeldBy(q, g)
      BY <1>h, <1>g, <2>2
    <3> QED BY <1>i, <1>e, <1>r, <2>2, <3>1 DEF RefInv
  <2> QED BY <2>1, <2>2
<1>10. EndedHoldsNothing'
  BY <1>i, <1>e, EndedQuiet
<1>11. OffsetCurrent'
  BY <1>i, <1>e, <1>o, <1>p, OffsetQuiet
<1> QED BY <1>1a, <1>2, <1>3, <1>4, <1>5, <1>6, <1>7, <1>8, <1>9, <1>10, <1>11, Together

\* sys_pipe gets its second file.
LEMMA SecondFileStep ==
  ASSUME IInv, NEW p \in Proc, PipeFile1(p)
  PROVE  IInv'
<1>i. /\ Types /\ ForkInv /\ OwnInv /\ HandInv /\ KindInv /\ LockInv /\ WriterInv
      /\ RefInv /\ ReleasedOnce /\ EndedHoldsNothing /\ OffsetCurrent
  BY DEF IInv
<1>1. PICK f \in 0..NFILE : filealloc(f) /\ f1' = [f1 EXCEPT ![p] = f]
  BY DEF PipeFile1
<1>e. /\ p \in alive /\ pc[p] = "pipe" /\ f0[p] # 0 /\ iref' = iref
      /\ pc' = [pc EXCEPT ![p] = IF FreeFiles = {} THEN "bad" ELSE "kalloc"]
      /\ type' = type /\ off' = off /\ ofile' = ofile /\ alive' = alive /\ child' = child
      /\ f0' = f0 /\ drop' = drop /\ pipe' = pipe /\ ilock' = ilock /\ at' = at
  BY DEF PipeFile1, Goto
<1>r. /\ f = 0 <=> FreeFiles = {}
      /\ f # 0 => f \in File /\ ref[f] = 0 /\ ref'[f] = 1
      /\ ref' \in [File -> Nat] /\ \A g \in File : g # f => ref'[g] = ref[g]
  BY <1>1, FileallocFacts
<1>p. /\ pc' \in [Proc -> Calls] /\ \A q \in Proc : q # p => pc'[q] = pc[q]
      /\ pc'[p] = IF f = 0 THEN "bad" ELSE "kalloc"
      /\ f1' \in [Proc -> 0..NFILE] /\ f1'[p] = f /\ \A q \in Proc : q # p => f1'[q] = f1[q]
  <2>1. "bad" \in Calls /\ "kalloc" \in Calls
    BY DEF Calls
  <2> QED BY <1>i, <1>1, <1>e, <1>r, <2>1 DEF Types
<1>o. Others(p)
  BY <1>e, <1>p DEF Others
<1>n. f # 0 => /\ \A q \in Proc : ~HeldBy(q, f)
               /\ \A q \in Proc, d \in Fd : ofile[q][d] # f
               /\ type[f] = "NONE"
  BY <1>r, FreeIsFree
<1>z. f1[p] = 0
  BY <1>i, <1>e DEF HandInv, HandOf
<1>g. \A g \in File : g # 0 /\ (HeldBy(p, g)' <=> g = f \/ HeldBy(p, g))
  BY <1>e, <1>p, <1>z, NoFile DEF HeldBy
<1>h. \A q \in Proc, g \in File : q # p => (HeldBy(q, g)' <=> HeldBy(q, g))
  BY <1>e, <1>p DEF HeldBy
<1>k. f # f0[p]
  BY <1>e, <1>n DEF HeldBy
<1>1a. Types'
  BY <1>i, <1>e, <1>p, <1>r DEF Types
<1>2. ForkInv'
  BY <1>i, <1>e, <1>o, <1>p, ForkQuiet
<1>3. OwnInv'
  <2>1. ASSUME NEW g \in File, NEW q \in Proc, NEW r \in Proc, HeldBy(q, g)'
        PROVE  (HeldBy(r, g)' => q = r) /\ \A d \in Fd : ofile'[r][d] # g
    <3>1. CASE g = f
      BY <1>e, <1>h, <1>g, <1>n, <2>1, <3>1
    <3>2. CASE g # f
      <4>1. HeldBy(q, g) /\ (HeldBy(r, g)' => HeldBy(r, g))
        BY <1>h, <1>g, <2>1, <3>2
      <4> QED BY <1>i, <1>e, <4>1 DEF OwnInv
    <3> QED BY <3>1, <3>2
  <2> QED BY <2>1 DEF OwnInv
<1>4. HandInv'
  <2>1. HandOf(p)'
    BY <1>e, <1>p, <1>k DEF HandOf
  <2> QED BY <1>i, <1>o, <2>1, HandQuiet
<1>5. KindInv'
  <2>1. type[f0[p]] = "NONE"
    BY <1>i, <1>e DEF KindInv, KindOf
  <2>2. KindOf(p)'
    BY <1>e, <1>n, <1>p, <2>1 DEF KindOf
  <2> QED BY <1>i, <1>e, <1>o, <2>2, KindQuiet
<1>6. LockInv'
  BY <1>i, <1>e, <1>o, <1>p, LockQuiet
<1>7. WriterInv'
  BY <1>i, <1>e, <1>o, <1>p, WriterQuiet
<1>8. RefInv'
  <2> SUFFICES ASSUME NEW g \in File
               PROVE  /\ (\E q \in Proc : HeldBy(q, g)') => ref'[g] = 1
                      /\ (\A q \in Proc : ~HeldBy(q, g)') => ref'[g] = Refs(ofile', g)
    BY DEF RefInv
  <2>1. CASE g = f
    BY <1>g, <1>r, <2>1
  <2>2. CASE g # f
    <3>1. \A q \in Proc : HeldBy(q, g)' <=> HeldBy(q, g)
      BY <1>h, <1>g, <2>2
    <3> QED BY <1>i, <1>e, <1>r, <2>2, <3>1 DEF RefInv
  <2> QED BY <2>1, <2>2
<1>9. ReleasedOnce'
  <2>1. CountOf(pc', Proc, "open") = CountOf(pc, Proc, "open")
    BY <1>e, <1>o, <1>p, OpenCount DEF Recount
  <2>2. \A g \in FreeFiles' : type'[g] = "NONE"
    BY <1>i, <1>e, <1>g, <1>n, <1>r DEF ReleasedOnce, FreeFiles
  <2> QED BY <1>i, <1>e, <2>1, <2>2 DEF ReleasedOnce, Users
<1>10. EndedHoldsNothing'
  BY <1>i, <1>e, EndedQuiet
<1>11. OffsetCurrent'
  BY <1>i, <1>e, <1>o, <1>p, OffsetQuiet
<1> QED BY <1>1a, <1>2, <1>3, <1>4, <1>5, <1>6, <1>7, <1>8, <1>9, <1>10, <1>11, Together

\* sys_open gives its file a descriptor.
LEMMA OpenDoneStep ==
  ASSUME IInv, NEW p \in Proc, OpenDone(p)
  PROVE  IInv'
<1>i. /\ Types /\ ForkInv /\ OwnInv /\ HandInv /\ KindInv /\ LockInv /\ WriterInv
      /\ RefInv /\ ReleasedOnce /\ EndedHoldsNothing /\ OffsetCurrent
  BY DEF IInv
<1> DEFINE f == f0[p]
<1>d. PICK d \in Fd : IsFirst(d, FreeFds(p)) /\ ofile' = [ofile EXCEPT ![p][d] = f]
  BY DEF OpenDone
<1>e. /\ p \in alive /\ pc[p] = "open" /\ f # 0 /\ pc' = [pc EXCEPT ![p] = "user"]
      /\ ref' = ref /\ alive' = alive /\ child' = child /\ f0' = [f0 EXCEPT ![p] = 0]
      /\ type' = [type EXCEPT ![f] = "INODE"] /\ off' = [off EXCEPT ![f] = 0]
      /\ f1' = f1 /\ drop' = drop /\ iref' = iref /\ pipe' = pipe /\ ilock' = ilock /\ at' = at
  BY DEF OpenDone, Goto
<1>f. f \in File
  BY <1>i, <1>e, InHandIsFile
<1> HIDE DEF f
<1>p. /\ pc' \in [Proc -> Calls] /\ pc'[p] = "user" /\ \A q \in Proc : q # p => pc'[q] = pc[q]
      /\ f0' \in [Proc -> 0..NFILE] /\ f0'[p] = 0 /\ \A q \in Proc : q # p => f0'[q] = f0[q]
  BY <1>i, <1>e, NoFile DEF Types, Calls
<1>t. /\ type' \in [File -> Kinds] /\ type'[f] = "INODE" /\ \A g \in File : g # f => type'[g] = type[g]
      /\ off' \in [File -> 0..MaxOff] /\ off'[f] = 0 /\ \A g \in File : g # f => off'[g] = off[g]
  <2>1. 0 \in 0..MaxOff
    BY FilesConstants, SMT
  <2> QED BY <1>i, <1>e, <1>f, <2>1 DEF Types, Kinds
<1>o. Others(p)
  BY <1>e, <1>p DEF Others
<1>s. SetFd(ofile, ofile', p, d, f) /\ ofile[p][d] = 0
  <2>1. ofile \in [Proc -> [Fd -> 0..NFILE]] /\ f \in 0..NFILE
    BY <1>i, <1>f, NoFile DEF Types
  <2>2. ofile[p][d] = 0
    BY <1>d DEF IsFirst, FreeFds
  <2> QED BY <1>d, <2>1, <2>2 DEF SetFd
<1>u. /\ ofile' \in [Proc -> [Fd -> 0..NFILE]] /\ ofile'[p][d] = f
      /\ \A q \in Proc, c \in Fd : q # p \/ c # d => ofile'[q][c] = ofile[q][c]
  <2>1. AfterSet(ofile, ofile', p, d, f)
    BY <1>s, SetFdFacts
  <2> QED BY <2>1 DEF AfterSet
<1>a. /\ HeldBy(p, f) /\ f1[p] = 0 /\ type[f] = "NONE"
      /\ \A q \in Proc : HeldBy(q, f) => q = p
      /\ \A q \in Proc, c \in Fd : ofile[q][c] # f
  <2>1. HeldBy(p, f) /\ f1[p] = 0 /\ type[f] = "NONE"
    BY <1>i, <1>e DEF HandInv, HandOf, KindInv, KindOf, HeldBy, f
  <2> QED BY <1>i, <1>f, <2>1 DEF OwnInv
<1>h. \A q \in Proc, g \in File : HeldBy(q, g)' <=> q # p /\ HeldBy(q, g)
  <2>1. \A g \in File : ~HeldBy(p, g)'
    BY <1>e, <1>p, <1>a, NoFile DEF HeldBy
  <2>2. \A q \in Proc, g \in File : q # p => (HeldBy(q, g)' <=> HeldBy(q, g))
    BY <1>e, <1>p DEF HeldBy
  <2> QED BY <2>1, <2>2
<1>k. \A q \in Proc, g \in File : q # p /\ HeldBy(q, g) => g # f
  BY <1>a
<1>1. Types'
  BY <1>i, <1>e, <1>p, <1>t, <1>u DEF Types
<1>2. ForkInv'
  BY <1>i, <1>e, <1>o, <1>p, ForkQuiet
<1>3. OwnInv'
  <2>1. ASSUME NEW g \in File, NEW q \in Proc, NEW r \in Proc, HeldBy(q, g)'
        PROVE  (HeldBy(r, g)' => q = r) /\ \A c \in Fd : ofile'[r][c] # g
    <3>1. HeldBy(q, g) /\ g # f /\ (HeldBy(r, g)' => HeldBy(r, g))
      BY <1>h, <1>k, <2>1
    <3>2. (HeldBy(r, g) => q = r) /\ \A c \in Fd : ofile[r][c] # g
      BY <1>i, <3>1 DEF OwnInv
    <3> QED BY <1>u, <3>1, <3>2
  <2> QED BY <2>1 DEF OwnInv
<1>4. HandInv'
  <2>1. HandOf(p)'
    BY <1>e, <1>p, <1>a DEF HandOf
  <2> QED BY <1>i, <1>o, <2>1, HandQuiet
<1>5. KindInv'
  <2>1. KindOf(p)'
    BY <1>p DEF KindOf
  <2>2. \A q \in Proc, g \in File : q # p /\ HeldBy(q, g) => type'[g] = type[g]
    BY <1>k, <1>t
  <2> QED BY <1>i, <1>o, <2>1, <2>2, KindOthers
<1>6. LockInv'
  BY <1>i, <1>e, <1>o, <1>p, LockQuiet
<1>7. WriterInv'
  BY <1>i, <1>o, <1>p, <1>u, WriterQuiet
<1>8. RefInv'
  <2> SUFFICES ASSUME NEW g \in File
               PROVE  /\ (\E q \in Proc : HeldBy(q, g)') => ref'[g] = 1
                      /\ (\A q \in Proc : ~HeldBy(q, g)') => ref'[g] = Refs(ofile', g)
    BY DEF RefInv
  <2>1. FdRecount(ofile, ofile', p, d, f, g) /\ g # 0
    BY <1>s, FdCount, NoFile
  <2>2. CASE g = f
    <3>1. Refs(ofile, f) = 0 /\ 0 + 1 = 1
      <4>1. 0 + 1 = 1
        BY SMT
      <4> QED BY <1>a, <4>1, NoRefs
    <3>2. Refs(ofile', f) = 1
      BY <1>s, <2>1, <2>2, <3>1 DEF FdRecount
    <3> QED BY <1>i, <1>e, <1>a, <1>f, <2>2, <3>2 DEF RefInv
  <2>3. CASE g # f
    <3>1. Refs(ofile', g) = Refs(ofile, g)
      BY <1>s, <2>1, <2>3 DEF FdRecount
    <3>2. ~HeldBy(p, g)
      BY <1>a, <2>1, <2>3 DEF HeldBy, f
    <3> QED BY <1>i, <1>e, <1>h, <3>1, <3>2 DEF RefInv
  <2> QED BY <2>2, <2>3
<1>9. ReleasedOnce'
  <2>1. ASSUME NEW k PROVE Recount(File, type, type', f, k)
    BY <1>f, <1>t, FilesConstants, PointCount DEF OnlyAt
  <2>2. Recount(Proc, pc, pc', p, "open")
    BY <1>o, OpenCount
  <2>3. CountOf(pc, Proc, "open") = CountOf(pc', Proc, "open") + 1 /\ CountOf(pc', Proc, "open") \in Nat
    BY <1>e, <1>p, <2>2 DEF Recount
  <2>4. CountOf(type', File, "INODE") = CountOf(type, File, "INODE") + 1 /\ CountOf(type, File, "INODE") \in Nat
    BY <1>a, <1>t, <2>1 DEF Recount
  <2>5. \A k \in {"READ", "WRITE"} : Users(k)' = Users(k)
    BY <1>e, <1>a, <1>t, <2>1 DEF Recount, Users
  <2>6. iref' = Users("INODE")' + CountOf(pc', Proc, "open")
    <3>1. iref = CountOf(type, File, "INODE") + CountOf(drop, Proc, "INODE") + CountOf(pc, Proc, "open")
      BY <1>i DEF ReleasedOnce, Users
    <3>2. CountOf(drop, Proc, "INODE") \in Nat
      BY CountNat
    <3> QED BY <1>e, <2>3, <2>4, <3>1, <3>2, SMT DEF Users
  <2>7. \A g \in FreeFiles' : type'[g] = "NONE"
    <3>1. ref[f] = 1 /\ 0 # 1
      <4>1. 0 # 1
        BY SMT
      <4> QED BY <1>i, <1>a, <1>f, <4>1 DEF RefInv
    <3> QED BY <1>i, <1>e, <1>t, <3>1 DEF ReleasedOnce, FreeFiles
  <2> QED BY <1>i, <1>e, <2>5, <2>6, <2>7 DEF ReleasedOnce
<1>10. EndedHoldsNothing'
  BY <1>i, <1>e, <1>u, EndedQuiet
<1>11. OffsetCurrent'
  <2>1. ASSUME NEW q \in Proc, pc'[q] = "write" PROVE off'[f0'[q]] = at'
    <3>1. q # p /\ pc[q] = "write" /\ f0'[q] = f0[q]
      BY <1>p, <2>1
    <3>2. f0[q] \in File /\ f0[q] # f
      BY <1>i, <1>a, <3>1, InHandIsFile DEF WriterInv
    <3> QED BY <1>i, <1>e, <1>t, <3>1, <3>2 DEF OffsetCurrent
  <2> QED BY <2>1 DEF OffsetCurrent
<1> QED BY <1>1, <1>2, <1>3, <1>4, <1>5, <1>6, <1>7, <1>8, <1>9, <1>10, <1>11, Together

\* sys_pipe gives its files descriptors.
LEMMA PipeDoneStep ==
  ASSUME IInv, NEW p \in Proc, PipeDone(p)
  PROVE  IInv'
<1>i. /\ Types /\ ForkInv /\ OwnInv /\ HandInv /\ KindInv /\ LockInv /\ WriterInv
      /\ RefInv /\ ReleasedOnce /\ EndedHoldsNothing /\ OffsetCurrent
  BY DEF IInv
<1> DEFINE f == f0[p]  g == f1[p]
<1>d. PICK d \in Fd, e \in Fd :
        /\ IsFirst(d, FreeFds(p)) /\ IsFirst(e, FreeFds(p) \ {d})
        /\ ofile' = [ofile EXCEPT ![p][d] = f, ![p][e] = g]
  BY DEF PipeDone
<1> DEFINE mid == [ofile EXCEPT ![p][d] = f]
<1>e. /\ p \in alive /\ pc[p] = "fds" /\ pc' = [pc EXCEPT ![p] = "user"]
      /\ f0' = [f0 EXCEPT ![p] = 0] /\ f1' = [f1 EXCEPT ![p] = 0]
      /\ ref' = ref /\ type' = type /\ off' = off /\ alive' = alive /\ child' = child
      /\ drop' = drop /\ iref' = iref /\ pipe' = pipe /\ ilock' = ilock /\ at' = at
  BY DEF PipeDone, Goto, table
<1>f. f \in File /\ g \in File /\ f # g
  <2>1. f # 0 /\ g # 0 /\ f # g
    BY <1>i, <1>e DEF HandInv, HandOf
  <2> QED BY <1>i, <2>1, InHandIsFile
<1>a. /\ HeldBy(p, f) /\ HeldBy(p, g)
      /\ \A q \in Proc : HeldBy(q, f) \/ HeldBy(q, g) => q = p
      /\ \A q \in Proc, c \in Fd : ofile[q][c] # f /\ ofile[q][c] # g
  <2>1. HeldBy(p, f) /\ HeldBy(p, g)
    BY <1>e DEF HeldBy
  <2> HIDE DEF f, g
  <2> QED BY <1>i, <1>f, <2>1 DEF OwnInv
<1>p. /\ pc' \in [Proc -> Calls] /\ pc'[p] = "user" /\ \A q \in Proc : q # p => pc'[q] = pc[q]
      /\ f0' \in [Proc -> 0..NFILE] /\ f0'[p] = 0 /\ \A q \in Proc : q # p => f0'[q] = f0[q]
      /\ f1' \in [Proc -> 0..NFILE] /\ f1'[p] = 0 /\ \A q \in Proc : q # p => f1'[q] = f1[q]
  BY <1>i, <1>e, NoFile DEF Types, Calls
<1>o. Others(p)
  BY <1>e, <1>p DEF Others
<1> HIDE DEF f, g
<1>s. SetFd(ofile, mid, p, d, f) /\ SetFd(mid, ofile', p, e, g) /\ ofile[p][d] = 0 /\ ofile[p][e] = 0 /\ d # e
  <2>1. ofile[p][d] = 0 /\ ofile[p][e] = 0 /\ d # e
    BY <1>d DEF IsFirst, FreeFds
  <2>2. ofile \in [Proc -> [Fd -> 0..NFILE]] /\ f \in 0..NFILE /\ g \in 0..NFILE
    BY <1>i, <1>f, NoFile DEF Types
  <2>3. mid \in [Proc -> [Fd -> 0..NFILE]]
    BY <2>2
  <2>4. ofile' = [mid EXCEPT ![p][e] = g]
    BY <1>d
  <2> HIDE DEF mid
  <2>5. SetFd(mid, ofile', p, e, g)
    BY <1>d, <2>2, <2>3, <2>4 DEF SetFd
  <2> QED BY <1>d, <2>1, <2>2, <2>5 DEF SetFd, mid
<1> HIDE DEF mid
<1>m. mid[p][d] = f /\ \A q \in Proc, c \in Fd : q # p \/ c # d => mid[q][c] = ofile[q][c]
  <2>1. AfterSet(ofile, mid, p, d, f)
    BY <1>s, SetFdFacts
  <2> QED BY <2>1 DEF AfterSet
<1>u. /\ ofile' \in [Proc -> [Fd -> 0..NFILE]] /\ ofile'[p][e] = g
      /\ \A q \in Proc, c \in Fd : q # p \/ c # e => ofile'[q][c] = mid[q][c]
  <2>1. AfterSet(mid, ofile', p, e, g)
    BY <1>s, SetFdFacts
  <2> QED BY <2>1 DEF AfterSet
<1>v. ASSUME NEW q \in Proc, NEW c \in Fd PROVE ofile'[q][c] \in {f, g} \/ ofile'[q][c] = ofile[q][c]
  <2>1. ofile'[q][c] = g \/ ofile'[q][c] = mid[q][c]
    BY <1>u
  <2>2. mid[q][c] = f \/ mid[q][c] = ofile[q][c]
    BY <1>m
  <2> QED BY <2>1, <2>2
<1>x. \A q \in Proc, c \in Fd : q # p => ofile'[q][c] = ofile[q][c]
  <2>1. ASSUME NEW q \in Proc, NEW c \in Fd, q # p PROVE ofile'[q][c] = mid[q][c] /\ mid[q][c] = ofile[q][c]
    BY <1>m, <1>u, <2>1
  <2> QED BY <2>1
<1>h. \A q \in Proc, h \in File : HeldBy(q, h)' <=> q # p /\ HeldBy(q, h)
  <2>1. \A h \in File : ~HeldBy(p, h)'
    BY <1>p, NoFile DEF HeldBy
  <2>2. \A q \in Proc, h \in File : q # p => (HeldBy(q, h)' <=> HeldBy(q, h))
    BY <1>p DEF HeldBy
  <2> QED BY <2>1, <2>2
<1>1. Types'
  BY <1>i, <1>e, <1>p, <1>u DEF Types
<1>2. ForkInv'
  BY <1>i, <1>e, <1>o, <1>p, ForkQuiet
<1>3. OwnInv'
  <2>1. ASSUME NEW h \in File, NEW q \in Proc, NEW r \in Proc, HeldBy(q, h)'
        PROVE  (HeldBy(r, h)' => q = r) /\ \A c \in Fd : ofile'[r][c] # h
    <3>1. HeldBy(q, h) /\ h # f /\ h # g /\ (HeldBy(r, h)' => HeldBy(r, h))
      BY <1>a, <1>h, <2>1
    <3>2. (HeldBy(r, h) => q = r) /\ \A c \in Fd : ofile[r][c] # h
      BY <1>i, <3>1 DEF OwnInv
    <3> QED BY <1>v, <3>1, <3>2
  <2> QED BY <2>1 DEF OwnInv
<1>4. HandInv'
  <2>1. HandOf(p)'
    BY <1>p DEF HandOf
  <2> QED BY <1>i, <1>o, <2>1, HandQuiet
<1>5. KindInv'
  <2>1. KindOf(p)'
    BY <1>p DEF KindOf
  <2> QED BY <1>i, <1>e, <1>o, <2>1, KindQuiet
<1>6. LockInv'
  BY <1>i, <1>e, <1>o, <1>p, LockQuiet
<1>7. WriterInv'
  BY <1>i, <1>o, <1>p, <1>x, WriterQuiet
<1>8. RefInv'
  <2> SUFFICES ASSUME NEW h \in File
               PROVE  /\ (\E q \in Proc : HeldBy(q, h)') => ref'[h] = 1
                      /\ (\A q \in Proc : ~HeldBy(q, h)') => ref'[h] = Refs(ofile', h)
    BY DEF RefInv
  <2>1. FdRecount(ofile, mid, p, d, f, h) /\ FdRecount(mid, ofile', p, e, g, h) /\ h # 0
    BY <1>s, FdCount, NoFile
  <2>2. mid[p][e] = 0
    BY <1>s, <1>d, <1>m
  <2>3. CASE h = f \/ h = g
    <3>1. Refs(ofile, h) = 0 /\ 0 + 1 = 1
      <4>1. 0 + 1 = 1
        BY SMT
      <4> QED BY <1>a, <2>3, <4>1, NoRefs
    <3>2. Refs(ofile', h) = 1
      <4>1. CASE h = f
        <5>1. Refs(mid, h) = 1
          BY <1>s, <2>1, <3>1, <4>1 DEF FdRecount
        <5> QED BY <1>f, <2>1, <2>2, <4>1, <5>1 DEF FdRecount
      <4>2. CASE h = g
        <5>1. Refs(mid, h) = 0
          BY <1>f, <1>s, <2>1, <3>1, <4>2 DEF FdRecount
        <5> QED BY <2>1, <2>2, <3>1, <4>2, <5>1 DEF FdRecount
      <4> QED BY <2>3, <4>1, <4>2
    <3> QED BY <1>i, <1>e, <1>a, <2>3, <3>2 DEF RefInv
  <2>4. CASE h # f /\ h # g
    <3>1. Refs(ofile', h) = Refs(ofile, h)
      BY <1>s, <2>1, <2>2, <2>4 DEF FdRecount
    <3>2. ~HeldBy(p, h)
      BY <2>4 DEF HeldBy, f, g
    <3> QED BY <1>i, <1>e, <1>h, <3>1, <3>2 DEF RefInv
  <2> QED BY <2>3, <2>4
<1>9. ReleasedOnce'
  BY <1>i, <1>e, <1>o, <1>p, ReleasedQuiet
<1>10. EndedHoldsNothing'
  BY <1>i, <1>e, <1>x, EndedQuiet
<1>11. OffsetCurrent'
  BY <1>i, <1>e, <1>o, <1>p, OffsetQuiet
<1> QED BY <1>1, <1>2, <1>3, <1>4, <1>5, <1>6, <1>7, <1>8, <1>9, <1>10, <1>11, Together

\* Both files become ends of the pipe.
LEMMA PipeAllocStep ==
  ASSUME IInv, NEW p \in Proc, PipeAlloc(p)
  PROVE  IInv'
<1>i. /\ Types /\ ForkInv /\ OwnInv /\ HandInv /\ KindInv /\ LockInv /\ WriterInv
      /\ RefInv /\ ReleasedOnce /\ EndedHoldsNothing /\ OffsetCurrent
  BY DEF IInv
<1> DEFINE f == f0[p]  g == f1[p]
           mid == [type EXCEPT ![f] = "READ"]
<1>e. /\ p \in alive /\ pc[p] = "kalloc" /\ pipe = {} /\ pipe' = {"READ", "WRITE"}
      /\ pc' = [pc EXCEPT ![p] = "fds"] /\ type' = [type EXCEPT ![f] = "READ", ![g] = "WRITE"]
      /\ ref' = ref /\ off' = off /\ ofile' = ofile /\ alive' = alive /\ child' = child
      /\ f0' = f0 /\ f1' = f1 /\ drop' = drop /\ iref' = iref /\ ilock' = ilock /\ at' = at
  BY DEF PipeAlloc, Goto, hand
<1>f. f # 0 /\ g # 0 /\ f # g /\ f \in File /\ g \in File
  <2>1. f # 0 /\ g # 0 /\ f # g
    BY <1>i, <1>e DEF HandInv, HandOf
  <2> QED BY <1>i, <2>1, InHandIsFile
<1>a. HeldBy(p, f) /\ HeldBy(p, g) /\ \A q \in Proc : HeldBy(q, f) \/ HeldBy(q, g) => q = p
  <2>1. HeldBy(p, f) /\ HeldBy(p, g)
    BY <1>e DEF HeldBy
  <2> HIDE DEF f, g
  <2> QED BY <1>i, <1>f, <2>1 DEF OwnInv
<1>n. type[f] = "NONE" /\ type[g] = "NONE"
  BY <1>i, <1>e, <1>f DEF KindInv, KindOf
<1>p. pc' \in [Proc -> Calls] /\ pc'[p] = "fds" /\ \A q \in Proc : q # p => pc'[q] = pc[q]
  BY <1>i, <1>e DEF Types, Calls
<1>o. Others(p)
  BY <1>e, <1>p DEF Others
<1> HIDE DEF f, g
<1>t. /\ type' \in [File -> Kinds] /\ type'[f] = "READ" /\ type'[g] = "WRITE"
      /\ mid[f] = "READ" /\ mid[g] = type[g] /\ \A h \in File : h # f => mid[h] = type[h]
      /\ \A h \in File : h # g => type'[h] = mid[h]
  <2>1. type \in [File -> Kinds] /\ "READ" \in Kinds /\ "WRITE" \in Kinds
    BY <1>i DEF Types, Kinds
  <2>2. /\ mid \in [File -> Kinds] /\ mid[f] = "READ" /\ mid[g] = type[g]
        /\ \A h \in File : h # f => mid[h] = type[h]
    BY <1>f, <2>1
  <2>3. type' = [mid EXCEPT ![g] = "WRITE"]
    BY <1>e
  <2> HIDE DEF mid
  <2>4. type' \in [File -> Kinds] /\ type'[g] = "WRITE" /\ \A h \in File : h # g => type'[h] = mid[h]
    BY <1>f, <2>1, <2>2, <2>3
  <2> QED BY <1>f, <2>2, <2>4
<1> HIDE DEF mid
<1>h. \A q \in Proc, h \in File : HeldBy(q, h)' <=> HeldBy(q, h)
  BY <1>e, <1>p DEF HeldBy
<1>1. Types'
  BY <1>i, <1>e, <1>p, <1>t DEF Types
<1>2. ForkInv'
  BY <1>i, <1>e, <1>o, <1>p, ForkQuiet
<1>3. OwnInv'
  BY <1>i, <1>e, <1>h, OwnQuiet
<1>4. HandInv'
  <2>1. HandOf(p)'
    BY <1>e, <1>f, <1>p DEF HandOf, f, g
  <2> QED BY <1>i, <1>o, <2>1, HandQuiet
<1>5. KindInv'
  <2>1. KindOf(p)'
    BY <1>p DEF KindOf
  <2>2. \A q \in Proc, h \in File : q # p /\ HeldBy(q, h) => type'[h] = type[h]
    BY <1>a, <1>t
  <2> QED BY <1>i, <1>o, <2>1, <2>2, KindOthers
<1>6. LockInv'
  BY <1>i, <1>e, <1>o, <1>p, LockQuiet
<1>7. WriterInv'
  BY <1>i, <1>e, <1>o, <1>p, WriterQuiet
<1>8. RefInv'
  BY <1>i, <1>e, <1>h, RefQuiet
<1>9. ReleasedOnce'
  <2>1. ASSUME NEW k PROVE Recount(File, type, mid, f, k) /\ Recount(File, mid, type', g, k)
    <3>1. OnlyAt(File, type, mid, f) /\ OnlyAt(File, mid, type', g)
      BY <1>f, <1>t DEF OnlyAt
    <3> QED BY <3>1, FilesConstants, PointCount
  <2>2. CountOf(type', File, "INODE") = CountOf(type, File, "INODE")
    BY <1>n, <1>t, <2>1 DEF Recount
  <2>3. /\ CountOf(type', File, "READ") = CountOf(type, File, "READ") + 1
        /\ CountOf(type', File, "WRITE") = CountOf(type, File, "WRITE") + 1
    BY <1>n, <1>t, <2>1 DEF Recount
  <2>4. ASSUME NEW k \in {"READ", "WRITE"} PROVE Users(k)' = IF k \in pipe' THEN 1 ELSE 0
    <3>1. CountOf(type', File, k) = CountOf(type, File, k) + 1 /\ CountOf(drop', Proc, k) = CountOf(drop, Proc, k)
      BY <1>e, <2>3
    <3>2. CountOf(type, File, k) + CountOf(drop, Proc, k) = 0
      BY <1>i, <1>e DEF ReleasedOnce, Users
    <3>3. CountOf(type, File, k) \in Nat /\ CountOf(drop, Proc, k) \in Nat /\ k \in pipe'
      BY <1>e, CountNat
    <3> QED BY <3>1, <3>2, <3>3, SMT DEF Users
  <2>5. CountOf(pc', Proc, "open") = CountOf(pc, Proc, "open")
    BY <1>e, <1>o, <1>p, OpenCount DEF Recount
  <2>6. \A h \in FreeFiles' : type'[h] = "NONE"
    <3>1. ref[f] = 1 /\ ref[g] = 1 /\ 0 # 1
      <4>1. 0 # 1
        BY SMT
      <4> QED BY <1>i, <1>a, <1>f, <4>1 DEF RefInv
    <3> QED BY <1>i, <1>e, <1>t, <3>1 DEF ReleasedOnce, FreeFiles
  <2> QED BY <1>i, <1>e, <2>2, <2>4, <2>5, <2>6 DEF ReleasedOnce, Users
<1>10. EndedHoldsNothing'
  BY <1>i, <1>e, EndedQuiet
<1>11. OffsetCurrent'
  BY <1>i, <1>e, <1>o, <1>p, OffsetQuiet
<1> QED BY <1>1, <1>2, <1>3, <1>4, <1>5, <1>6, <1>7, <1>8, <1>9, <1>10, <1>11, Together

\* The hands of a call that fails, before and after it closes the file f.
GivesUp(p, f) ==
  /\ f0' \in [Proc -> 0..NFILE] /\ \A q \in Proc : q # p => f0'[q] = f0[q]
  /\ f1' \in [Proc -> 0..NFILE] /\ \A q \in Proc : q # p => f1'[q] = f1[q]
  /\ f0'[p] = 0 /\ f1'[p] \in {0, f1[p]} /\ (f1'[p] # 0 => pc'[p] = "bad")
  /\ \A g \in File : HeldBy(p, g)' <=> HeldBy(p, g) /\ g # f
  /\ f # 0 => f \in File /\ HeldBy(p, f)

\* A file in hand is closed by a call that fails; or there is none.
LEMMA GiveUpStep ==
  ASSUME IInv, NEW p \in Proc, NEW to \in {"bad", "user"}, NEW f, GivesUp(p, f),
         p \in alive, drop[p] = "NONE", pc[p] \in {"open", "bad"}, pc' = [pc EXCEPT ![p] = to],
         f = 0 => ref' = ref /\ type' = type /\ drop' = drop,
         f # 0 => fileclose(p, f),
         pc[p] = "open" => iref' = iref - 1 /\ to = "user",
         pc[p] = "bad" => iref' = iref,
         off' = off, ofile' = ofile, alive' = alive, child' = child, pipe' = pipe, ilock' = ilock, at' = at
  PROVE  IInv'
<1>i. /\ Types /\ ForkInv /\ OwnInv /\ HandInv /\ KindInv /\ LockInv /\ WriterInv
      /\ RefInv /\ ReleasedOnce /\ EndedHoldsNothing /\ OffsetCurrent
  BY DEF IInv
<1>f. /\ f0' \in [Proc -> 0..NFILE] /\ \A q \in Proc : q # p => f0'[q] = f0[q]
      /\ f1' \in [Proc -> 0..NFILE] /\ \A q \in Proc : q # p => f1'[q] = f1[q]
      /\ f0'[p] = 0 /\ f1'[p] \in {0, f1[p]} /\ (f1'[p] # 0 => pc'[p] = "bad")
      /\ \A g \in File : HeldBy(p, g)' <=> HeldBy(p, g) /\ g # f
      /\ f # 0 => f \in File /\ HeldBy(p, f)
  BY DEF GivesUp
<1>p. pc' \in [Proc -> Calls] /\ pc'[p] = to /\ \A q \in Proc : q # p => pc'[q] = pc[q]
  BY <1>i DEF Types, Calls
<1>b. f # 0 => /\ ref[f] = 1 /\ \A q \in Proc : HeldBy(q, f) => q = p
               /\ \A q \in Proc, d \in Fd : ofile[q][d] # f
  <2> SUFFICES ASSUME f # 0
               PROVE  /\ ref[f] = 1 /\ \A q \in Proc : HeldBy(q, f) => q = p
                      /\ \A q \in Proc, d \in Fd : ofile[q][d] # f
    OBVIOUS
  <2>1. f \in File /\ HeldBy(p, f)
    BY <1>f
  <2>2. ref[f] = 1
    BY <1>i, <2>1 DEF RefInv
  <2> QED BY <1>i, <2>1, <2>2 DEF OwnInv
<1>h. \A q \in Proc, g \in File : q # p => (HeldBy(q, g)' <=> HeldBy(q, g))
  BY <1>f, <1>p DEF HeldBy
<1>t. /\ ref' \in [File -> Nat] /\ (f # 0 => ref'[f] = 0) /\ \A g \in File : g # f => ref'[g] = ref[g]
      /\ type' \in [File -> Kinds] /\ (f # 0 => type'[f] = "NONE") /\ \A g \in File : g # f => type'[g] = type[g]
      /\ drop' \in [Proc -> Kinds] /\ \A q \in Proc : q # p => drop'[q] = drop[q]
      /\ \A k \in {"INODE", "READ", "WRITE"} : Users(k)' = Users(k)
      /\ \A g \in FreeFiles' : type'[g] = "NONE"
  <2>1. CASE f = 0
    BY <1>i, <2>1 DEF Types, Users, FreeFiles, ReleasedOnce
  <2>2. CASE f # 0
    <3>1. f \in File /\ ref[f] # 0 /\ ref[f] = 1 /\ ref[f] - 1 = 0
      <4>1. 0 # 1 /\ 1 - 1 = 0
        BY SMT
      <4> QED BY <1>b, <1>f, <2>2, <4>1
    <3>2. /\ ref' \in [File -> Nat] /\ ref'[f] = ref[f] - 1 /\ \A g \in File : g # f => ref'[g] = ref[g]
          /\ type' \in [File -> Kinds] /\ \A g \in File : g # f => type'[g] = type[g]
          /\ type'[f] = IF ref[f] = 1 THEN "NONE" ELSE type[f]
          /\ drop' \in [Proc -> Kinds] /\ \A q \in Proc : q # p => drop'[q] = drop[q]
          /\ \A k \in {"INODE", "READ", "WRITE"} : Users(k)' = Users(k)
          /\ \A g \in FreeFiles' : type'[g] = "NONE"
      BY <2>2, <3>1, FilecloseFacts
    <3> QED BY <3>1, <3>2
  <2> QED BY <2>1, <2>2
<1>o. Others(p)
  BY <1>f, <1>p, <1>t DEF Others
<1>9. ReleasedOnce' /\ iref' \in Nat
  <2>0. /\ iref = Users("INODE") + CountOf(pc, Proc, "open") /\ Users("INODE")' = Users("INODE")
        /\ \A k \in {"READ", "WRITE"} : Users(k)' = IF k \in pipe' THEN 1 ELSE 0
    BY <1>i, <1>t DEF ReleasedOnce
  <2>1. Recount(Proc, pc, pc', p, "open")
    BY <1>o, OpenCount
  <2>2. Users("INODE") \in Nat
    BY CountNat, SMT DEF Users
  <2>3. CASE pc[p] = "open"
    <3>1. CountOf(pc, Proc, "open") = CountOf(pc', Proc, "open") + 1 /\ CountOf(pc', Proc, "open") \in Nat
      BY <1>p, <2>1, <2>3 DEF Recount
    <3>2. iref' = Users("INODE")' + CountOf(pc', Proc, "open") /\ iref' \in Nat
      BY <2>0, <2>2, <2>3, <3>1, SMT
    <3> QED BY <1>t, <2>0, <3>2 DEF ReleasedOnce
  <2>4. CASE pc[p] = "bad"
    <3>1. CountOf(pc', Proc, "open") = CountOf(pc, Proc, "open")
      BY <1>p, <2>1, <2>4 DEF Recount
    <3> QED BY <1>i, <1>t, <2>0, <2>4, <3>1 DEF ReleasedOnce, Types
  <2> QED BY <2>3, <2>4
<1>1. Types'
  BY <1>i, <1>f, <1>p, <1>t, <1>9 DEF Types
<1>2. ForkInv'
  BY <1>i, <1>o, <1>p, ForkQuiet
<1>3. OwnInv'
  <2>1. \A q \in Proc, g \in File : HeldBy(q, g)' => HeldBy(q, g)
    BY <1>f, <1>h
  <2> QED BY <1>i, <2>1, OwnQuiet
<1>4. HandInv'
  <2>1. HandOf(p)'
    BY <1>f, <1>p DEF HandOf
  <2> QED BY <1>i, <1>o, <2>1, HandQuiet
<1>5. KindInv'
  <2>1. KindOf(p)'
    BY <1>p DEF KindOf
  <2>2. \A q \in Proc, g \in File : q # p /\ HeldBy(q, g) /\ type[g] = "NONE" => type'[g] = "NONE"
    BY <1>t, NoFile
  <2> QED BY <1>i, <1>o, <2>1, <2>2, KindOthers
<1>6. LockInv'
  BY <1>i, <1>o, <1>p, LockQuiet
<1>7. WriterInv'
  BY <1>i, <1>o, <1>p, WriterQuiet
<1>8. RefInv'
  <2> SUFFICES ASSUME NEW g \in File
               PROVE  /\ (\E q \in Proc : HeldBy(q, g)') => ref'[g] = 1
                      /\ (\A q \in Proc : ~HeldBy(q, g)') => ref'[g] = Refs(ofile', g)
    BY DEF RefInv
  <2>1. CASE g = f
    <3>1. Refs(ofile, f) = 0 /\ ref'[g] = 0
      BY <1>b, <1>t, <2>1, NoFile, NoRefs
    <3>2. \A q \in Proc : ~HeldBy(q, g)'
      BY <1>b, <1>f, <1>h, <2>1, NoFile
    <3> QED BY <2>1, <3>1, <3>2
  <2>2. CASE g # f
    <3>1. \A q \in Proc : HeldBy(q, g)' <=> HeldBy(q, g)
      BY <1>f, <1>h, <2>2
    <3> QED BY <1>i, <1>t, <2>2, <3>1 DEF RefInv
  <2> QED BY <2>1, <2>2
<1>10. EndedHoldsNothing'
  BY <1>i, EndedQuiet
<1>11. OffsetCurrent'
  BY <1>i, <1>o, <1>p, OffsetQuiet
<1> QED BY <1>1, <1>2, <1>3, <1>4, <1>5, <1>6, <1>7, <1>8, <1>9, <1>10, <1>11, Together

\* sys_open fails.
LEMMA OpenFailsStep ==
  ASSUME IInv, NEW p \in Proc, OpenFails(p)
  PROVE  IInv'
<1>i. Types /\ HandInv
  BY DEF IInv
<1>e. /\ p \in alive /\ pc[p] = "open" /\ drop[p] = "NONE" /\ pc' = [pc EXCEPT ![p] = "user"]
      /\ f0' = [f0 EXCEPT ![p] = 0] /\ f1' = f1 /\ iref' = iref - 1
      /\ f0[p] = 0 => ref' = ref /\ type' = type /\ drop' = drop
      /\ f0[p] # 0 => fileclose(p, f0[p])
      /\ off' = off /\ ofile' = ofile /\ alive' = alive /\ child' = child /\ pipe' = pipe
      /\ ilock' = ilock /\ at' = at
  BY DEF OpenFails, Goto
<1>1. f1[p] = 0 /\ pc'[p] = "user"
  BY <1>i, <1>e DEF HandInv, HandOf, Types
<1>2. /\ f0' \in [Proc -> 0..NFILE] /\ f0'[p] = 0 /\ \A q \in Proc : q # p => f0'[q] = f0[q]
      /\ f1 \in [Proc -> 0..NFILE]
  BY <1>i, <1>e, NoFile DEF Types
<1>3. ASSUME NEW g \in File PROVE HeldBy(p, g)' <=> HeldBy(p, g) /\ g # f0[p]
  BY <1>e, <1>1, <1>2, NoFile DEF HeldBy
<1>4. f0[p] # 0 => f0[p] \in File /\ HeldBy(p, f0[p])
  BY <1>i, <1>e, InHandIsFile DEF HeldBy
<1>5. GivesUp(p, f0[p])
  BY <1>e, <1>1, <1>2, <1>3, <1>4 DEF GivesUp
<1> QED BY <1>e, <1>5, GiveUpStep

\* sys_pipe fails and closes its first file.
LEMMA PipeBad0Step ==
  ASSUME IInv, NEW p \in Proc, PipeBad0(p)
  PROVE  IInv'
<1>i. Types /\ HandInv
  BY DEF IInv
<1>e. /\ p \in alive /\ pc[p] = "bad" /\ drop[p] = "NONE" /\ pc' = [pc EXCEPT ![p] = "bad"]
      /\ f0' = [f0 EXCEPT ![p] = 0] /\ f1' = f1 /\ iref' = iref
      /\ f0[p] # 0 /\ fileclose(p, f0[p])
      /\ off' = off /\ ofile' = ofile /\ alive' = alive /\ child' = child /\ pipe' = pipe
      /\ ilock' = ilock /\ at' = at
  BY DEF PipeBad0, Goto
<1>1. f0[p] # f1[p] /\ pc'[p] = "bad"
  BY <1>i, <1>e DEF HandInv, HandOf, Types
<1>2. /\ f0' \in [Proc -> 0..NFILE] /\ f0'[p] = 0 /\ \A q \in Proc : q # p => f0'[q] = f0[q]
      /\ f1 \in [Proc -> 0..NFILE]
  BY <1>i, <1>e, NoFile DEF Types
<1>3. ASSUME NEW g \in File PROVE HeldBy(p, g)' <=> HeldBy(p, g) /\ g # f0[p]
  BY <1>e, <1>1, <1>2, NoFile DEF HeldBy
<1>4. f0[p] # 0 => f0[p] \in File /\ HeldBy(p, f0[p])
  BY <1>i, <1>e, InHandIsFile DEF HeldBy
<1>5. GivesUp(p, f0[p])
  BY <1>e, <1>1, <1>2, <1>3, <1>4 DEF GivesUp
<1> QED BY <1>e, <1>5, GiveUpStep

\* It closes its second file, if it has one.
LEMMA PipeBad1Step ==
  ASSUME IInv, NEW p \in Proc, PipeBad1(p)
  PROVE  IInv'
<1>i. Types /\ HandInv
  BY DEF IInv
<1>e. /\ p \in alive /\ pc[p] = "bad" /\ drop[p] = "NONE" /\ pc' = [pc EXCEPT ![p] = "user"]
      /\ f0[p] = 0 /\ f0' = f0 /\ f1' = [f1 EXCEPT ![p] = 0] /\ iref' = iref
      /\ f1[p] = 0 => ref' = ref /\ type' = type /\ drop' = drop
      /\ f1[p] # 0 => fileclose(p, f1[p])
      /\ off' = off /\ ofile' = ofile /\ alive' = alive /\ child' = child /\ pipe' = pipe
      /\ ilock' = ilock /\ at' = at
  BY DEF PipeBad1, Goto
<1>2. /\ f1' \in [Proc -> 0..NFILE] /\ f1'[p] = 0 /\ \A q \in Proc : q # p => f1'[q] = f1[q]
      /\ f0 \in [Proc -> 0..NFILE]
  BY <1>i, <1>e, NoFile DEF Types
<1>3. ASSUME NEW g \in File PROVE HeldBy(p, g)' <=> HeldBy(p, g) /\ g # f1[p]
  BY <1>e, <1>2, NoFile DEF HeldBy
<1>4. f1[p] # 0 => f1[p] \in File /\ HeldBy(p, f1[p])
  BY <1>i, InHandIsFile DEF HeldBy
<1>5. GivesUp(p, f1[p])
  BY <1>e, <1>2, <1>3, <1>4 DEF GivesUp
<1> QED BY <1>e, <1>5, GiveUpStep

\* A descriptor is closed, by sys_close or by exit.
LEMMA CloseStep ==
  ASSUME IInv, NEW p \in Proc, NEW d \in OpenFds(p), p \in alive, drop[p] = "NONE",
         pc[p] \in {"user", "exit"}, pc' = pc,
         ofile' = [ofile EXCEPT ![p][d] = 0], fileclose(p, ofile[p][d]),
         off' = off, alive' = alive, child' = child, f0' = f0, f1' = f1,
         iref' = iref, pipe' = pipe, ilock' = ilock, at' = at
  PROVE  IInv'
<1>i. /\ Types /\ ForkInv /\ OwnInv /\ HandInv /\ KindInv /\ LockInv /\ WriterInv
      /\ RefInv /\ ReleasedOnce /\ EndedHoldsNothing /\ OffsetCurrent
  BY DEF IInv
<1> DEFINE f == ofile[p][d]
<1>f. /\ d \in Fd /\ f \in File /\ f # 0
      /\ ref[f] = Refs(ofile, f) /\ ref[f] \in Nat \ {0} /\ ref[f] # 0
      /\ \A q \in Proc : ~HeldBy(q, f)
  BY OpenFd, NoFile
<1>s. SetFd(ofile, ofile', p, d, 0)
  BY <1>i, <1>f, NoFile DEF SetFd, Types
<1>a. /\ ofile' \in [Proc -> [Fd -> 0..NFILE]] /\ ofile'[p][d] = 0
      /\ \A r \in Proc, e \in Fd : r # p \/ e # d => ofile'[r][e] = ofile[r][e]
  <2>1. AfterSet(ofile, ofile', p, d, 0)
    BY <1>s, SetFdFacts
  <2> QED BY <2>1 DEF AfterSet
<1>c. ASSUME NEW g PROVE FdRecount(ofile, ofile', p, d, 0, g)
  BY <1>s, FdCount
<1> HIDE DEF f
<1>t. /\ ref' \in [File -> Nat] /\ ref'[f] = ref[f] - 1 /\ \A g \in File : g # f => ref'[g] = ref[g]
      /\ type' \in [File -> Kinds] /\ \A g \in File : g # f => type'[g] = type[g]
      /\ drop' \in [Proc -> Kinds] /\ \A q \in Proc : q # p => drop'[q] = drop[q]
      /\ \A k \in {"INODE", "READ", "WRITE"} : Users(k)' = Users(k)
      /\ \A g \in FreeFiles' : type'[g] = "NONE"
  <2>1. fileclose(p, f)
    BY DEF f
  <2> QED BY <1>f, <2>1, FilecloseFacts
<1>o. Others(p)
  BY <1>t DEF Others
<1>h. \A q \in Proc, g \in File : HeldBy(q, g)' <=> HeldBy(q, g)
  BY DEF HeldBy
<1>1. Types'
  BY <1>i, <1>a, <1>t DEF Types
<1>2. ForkInv'
  BY <1>i, <1>o, ForkQuiet
<1>3. OwnInv'
  <2>1. \A q \in Proc, e \in Fd : ofile'[q][e] = ofile[q][e] \/ ofile'[q][e] = 0
    BY <1>a
  <2> SUFFICES ASSUME NEW g \in File, NEW q \in Proc, NEW r \in Proc, HeldBy(q, g)'
               PROVE  (HeldBy(r, g)' => q = r) /\ \A e \in Fd : ofile'[r][e] # g
    BY DEF OwnInv
  <2>2. HeldBy(q, g) /\ (HeldBy(r, g)' => HeldBy(r, g)) /\ g # 0
    BY <1>h, NoFile
  <2>3. (HeldBy(r, g) => q = r) /\ \A e \in Fd : ofile[r][e] # g
    BY <1>i, <2>2 DEF OwnInv
  <2> QED BY <2>1, <2>2, <2>3
<1>4. HandInv'
  BY <1>i DEF HandInv, HandOf
<1>5. KindInv'
  <2>1. KindOf(p)'
    BY DEF KindOf
  <2>2. \A q \in Proc, g \in File : q # p /\ HeldBy(q, g) => type'[g] = type[g]
    BY <1>f, <1>t
  <2> QED BY <1>i, <1>o, <2>1, <2>2, KindOthers
<1>6. LockInv'
  BY <1>i, <1>o, LockQuiet
<1>7. WriterInv'
  BY <1>i, <1>o, <1>a, WriterQuiet
<1>8. RefInv'
  <2> SUFFICES ASSUME NEW g \in File
               PROVE  /\ (\E q \in Proc : HeldBy(q, g)') => ref'[g] = 1
                      /\ (\A q \in Proc : ~HeldBy(q, g)') => ref'[g] = Refs(ofile', g)
    BY DEF RefInv
  <2>0. FdRecount(ofile, ofile', p, d, 0, g)
    BY <1>c
  <2>1. CASE g = f
    <3>1. Refs(ofile, g) = Refs(ofile', g) + 1 /\ Refs(ofile', g) \in Nat
      BY <1>f, <2>0, <2>1 DEF FdRecount, f
    <3>2. ref'[g] = Refs(ofile, g) - 1
      BY <1>f, <1>t, <2>1
    <3>3. ref'[g] = Refs(ofile', g)
      BY <3>1, <3>2, SMT
    <3> QED BY <1>f, <1>h, <2>1, <3>3
  <2>2. CASE g # f
    <3>1. Refs(ofile', g) = Refs(ofile, g)
      BY <2>0, <2>2, NoFile DEF FdRecount, f
    <3> QED BY <1>i, <1>h, <1>t, <2>2, <3>1 DEF RefInv
  <2> QED BY <2>1, <2>2
<1>9. ReleasedOnce'
  BY <1>i, <1>t DEF ReleasedOnce
<1>10. EndedHoldsNothing'
  BY <1>i, <1>a, EndedQuiet
<1>11. OffsetCurrent'
  BY <1>i, <1>o, OffsetQuiet
<1> QED BY <1>1, <1>2, <1>3, <1>4, <1>5, <1>6, <1>7, <1>8, <1>9, <1>10, <1>11, Together

\* A descriptor of p is copied to a free one, of p itself by sys_dup and of the
\* child that p is making by fork.
LEMMA DupStep ==
  ASSUME IInv, NEW p \in Proc, NEW q \in Proc, NEW d \in OpenFds(p), NEW e \in Fd,
         p \in alive, q = p \/ child[p] = q, pc[p] \in {"user", "fork"}, pc' = pc,
         ofile[q][e] = 0, ofile' = [ofile EXCEPT ![q][e] = ofile[p][d]],
         ref' = [ref EXCEPT ![ofile[p][d]] = @ + 1],
         type' = type, off' = off, alive' = alive, child' = child, f0' = f0, f1' = f1,
         drop' = drop, iref' = iref, pipe' = pipe, ilock' = ilock, at' = at
  PROVE  IInv'
<1>i. /\ Types /\ ForkInv /\ OwnInv /\ HandInv /\ KindInv /\ LockInv /\ WriterInv
      /\ RefInv /\ ReleasedOnce /\ EndedHoldsNothing /\ OffsetCurrent
  BY DEF IInv
<1> DEFINE f == ofile[p][d]
<1>f. /\ d \in Fd /\ f \in File /\ f # 0 /\ f \in 0..NFILE
      /\ ref[f] = Refs(ofile, f) /\ ref[f] \in Nat \ {0}
      /\ \A r \in Proc : ~HeldBy(r, f)
  BY OpenFd, NoFile
<1>s. SetFd(ofile, ofile', q, e, f)
  BY <1>i, <1>f DEF SetFd, Types
<1>a. /\ ofile' \in [Proc -> [Fd -> 0..NFILE]] /\ ofile'[q][e] = f
      /\ \A r \in Proc, c \in Fd : r # q \/ c # e => ofile'[r][c] = ofile[r][c]
  <2>1. AfterSet(ofile, ofile', q, e, f)
    BY <1>s, SetFdFacts
  <2> QED BY <2>1 DEF AfterSet
<1>c. ASSUME NEW g PROVE FdRecount(ofile, ofile', q, e, f, g)
  BY <1>s, FdCount
<1>t. /\ ref' \in [File -> Nat] /\ ref'[f] = ref[f] + 1 /\ \A g \in File : g # f => ref'[g] = ref[g]
      /\ ref[f] + 1 # 0
  <2>1. ref[f] + 1 \in Nat /\ ref[f] + 1 # 0
    BY <1>f, SMT
  <2>2. ref \in [File -> Nat] /\ ref' = [ref EXCEPT ![f] = ref[f] + 1]
    BY <1>i DEF Types
  <2> HIDE DEF f
  <2> QED BY <1>f, <2>1, <2>2
<1> HIDE DEF f
<1>o. Others(p)
  BY DEF Others
<1>h. \A r \in Proc, g \in File : HeldBy(r, g)' <=> HeldBy(r, g)
  BY DEF HeldBy
<1>1. Types'
  BY <1>i, <1>a, <1>t DEF Types
<1>2. ForkInv'
  BY <1>i, <1>o, ForkQuiet
<1>3. OwnInv'
  <2>1. \A r \in Proc, c \in Fd : ofile'[r][c] = ofile[r][c] \/ ofile'[r][c] = f
    BY <1>a
  <2> SUFFICES ASSUME NEW g \in File, NEW s \in Proc, NEW r \in Proc, HeldBy(s, g)'
               PROVE  (HeldBy(r, g)' => s = r) /\ \A c \in Fd : ofile'[r][c] # g
    BY DEF OwnInv
  <2>2. HeldBy(s, g) /\ (HeldBy(r, g)' => HeldBy(r, g)) /\ g # f
    BY <1>f, <1>h
  <2>3. (HeldBy(r, g) => s = r) /\ \A c \in Fd : ofile[r][c] # g
    BY <1>i, <2>2 DEF OwnInv
  <2> QED BY <2>1, <2>2, <2>3
<1>4. HandInv'
  BY <1>i DEF HandInv, HandOf
<1>5. KindInv'
  BY <1>i DEF KindInv, KindOf
<1>6. LockInv'
  BY <1>i, <1>o, LockQuiet
<1>7. WriterInv'
  <2>1. \A r \in Proc, c \in Fd : r # p /\ ofile[r][c] # 0 => ofile'[r][c] = ofile[r][c]
    BY <1>a
  <2> QED BY <1>i, <1>o, <2>1, WriterQuiet
<1>8. RefInv'
  <2> SUFFICES ASSUME NEW g \in File
               PROVE  /\ (\E r \in Proc : HeldBy(r, g)') => ref'[g] = 1
                      /\ (\A r \in Proc : ~HeldBy(r, g)') => ref'[g] = Refs(ofile', g)
    BY DEF RefInv
  <2>0. FdRecount(ofile, ofile', q, e, f, g) /\ ofile[q][e] # g
    BY <1>c, NoFile
  <2>1. CASE g = f
    <3>1. Refs(ofile', g) = Refs(ofile, g) + 1
      BY <2>0, <2>1 DEF FdRecount
    <3> QED BY <1>f, <1>h, <1>t, <2>1, <3>1
  <2>2. CASE g # f
    <3>1. Refs(ofile', g) = Refs(ofile, g)
      BY <2>0, <2>2 DEF FdRecount
    <3> QED BY <1>i, <1>h, <1>t, <2>2, <3>1 DEF RefInv
  <2> QED BY <2>1, <2>2
<1>9. ReleasedOnce'
  <2>1. \A g \in FreeFiles' : type[g] = "NONE"
    BY <1>i, <1>t DEF ReleasedOnce, FreeFiles
  <2> QED BY <1>i, <2>1 DEF ReleasedOnce, Users
<1>10. EndedHoldsNothing'
  <2>1. q \in alive \/ \E s \in Proc : child[s] = q
    OBVIOUS
  <2>2. ASSUME NEW r \in Proc, NEW c \in Fd PROVE ofile'[r][c] = ofile[r][c] \/ r \in alive \/ \E s \in Proc : child[s] = r
    BY <1>a, <2>1
  <2> QED BY <1>i, <2>2, EndedQuiet
<1>11. OffsetCurrent'
  BY <1>i, <1>o, OffsetQuiet
<1> QED BY <1>1, <1>2, <1>3, <1>4, <1>5, <1>6, <1>7, <1>8, <1>9, <1>10, <1>11, Together

\* A writer locks the inode.
LEMMA WriteStep ==
  ASSUME IInv, NEW p \in Proc, filewrite(p)
  PROVE  IInv'
<1>i. /\ Types /\ ForkInv /\ OwnInv /\ HandInv /\ KindInv /\ LockInv /\ WriterInv
      /\ RefInv /\ ReleasedOnce /\ EndedHoldsNothing /\ OffsetCurrent
  BY DEF IInv
<1>d. PICK d \in OpenFds(p) :
         /\ off[ofile[p][d]] < MaxOff /\ ilock = Nothing /\ ilock' = p
         /\ f0' = [f0 EXCEPT ![p] = ofile[p][d]] /\ at' = off[ofile[p][d]]
  BY DEF filewrite
<1> DEFINE f == ofile[p][d]
<1>e. /\ p \in alive /\ pc[p] = "user" /\ drop[p] = "NONE" /\ pc' = [pc EXCEPT ![p] = "write"]
      /\ ref' = ref /\ type' = type /\ off' = off /\ ofile' = ofile /\ alive' = alive /\ child' = child
      /\ f1' = f1 /\ drop' = drop /\ iref' = iref /\ pipe' = pipe
  BY DEF filewrite, Goto, table
<1>f. d \in Fd /\ f \in File /\ f # 0 /\ f \in 0..NFILE /\ f0[p] = 0 /\ f1[p] = 0 /\ p # Nothing
  BY <1>i, <1>e, OpenFd, NoFile, FilesConstants DEF HandInv, HandOf, Nothing
<1>p. /\ pc' \in [Proc -> Calls] /\ pc'[p] = "write" /\ \A q \in Proc : q # p => pc'[q] = pc[q]
      /\ f0' \in [Proc -> 0..NFILE] /\ f0'[p] = f /\ \A q \in Proc : q # p => f0'[q] = f0[q]
  BY <1>i, <1>d, <1>e, <1>f DEF Types, Calls
<1>w. ASSUME NEW q \in Proc, q # p PROVE pc'[q] # "write"
  <2>1. pc[q] = "write" => ilock = q
    BY <1>i DEF LockInv
  <2>2. q # Nothing
    BY FilesConstants DEF Nothing
  <2>3. ilock # q
    BY <1>d, <2>2
  <2> QED BY <1>p, <1>w, <2>1, <2>3
<1>o. Others(p)
  BY <1>e, <1>p DEF Others
<1>h. \A q \in Proc, g \in File : HeldBy(q, g)' <=> HeldBy(q, g)
  <2>1. ASSUME NEW g \in File PROVE ~HeldBy(p, g) /\ ~HeldBy(p, g)'
    BY <1>e, <1>f, <1>p, NoFile DEF HeldBy
  <2>2. ASSUME NEW q \in Proc, q # p, NEW g \in File PROVE HeldBy(q, g)' <=> HeldBy(q, g)
    BY <1>e, <1>p, <2>2 DEF HeldBy
  <2> QED BY <2>1, <2>2
<1>1. Types'
  <2>1. at' \in 0..MaxOff /\ ilock' \in Proc \cup {Nothing}
    BY <1>i, <1>d, <1>f DEF Types
  <2> QED BY <1>i, <1>e, <1>p, <2>1 DEF Types
<1>2. ForkInv'
  BY <1>i, <1>e, <1>o, <1>p, ForkQuiet
<1>3. OwnInv'
  BY <1>i, <1>e, <1>h, OwnQuiet
<1>4. HandInv'
  <2>1. HandOf(p)'
    BY <1>e, <1>f, <1>p DEF HandOf
  <2> QED BY <1>i, <1>o, <2>1, HandQuiet
<1>5. KindInv'
  <2>1. KindOf(p)'
    BY <1>p DEF KindOf
  <2> QED BY <1>i, <1>e, <1>o, <2>1, KindQuiet
<1>6. LockInv'
  <2>1. \A q \in Proc : pc'[q] = "write" <=> q = p
    BY <1>p, <1>w
  <2>2. ilock' = p /\ at' < MaxOff
    BY <1>d
  <2> QED BY <2>1, <2>2 DEF LockInv
<1>7. WriterInv'
  <2>1. ASSUME NEW q \in Proc, q # p, pc'[q] = "write" PROVE f0'[q] # 0 /\ \E c \in Fd : ofile[q][c] = f0'[q]
    BY <1>i, <1>p, <2>1 DEF WriterInv
  <2>2. f0'[p] # 0 /\ \E c \in Fd : ofile[p][c] = f0'[p]
    BY <1>f, <1>p
  <2> QED BY <1>e, <2>1, <2>2 DEF WriterInv
<1>8. RefInv'
  BY <1>i, <1>e, <1>h, RefQuiet
<1>9. ReleasedOnce'
  BY <1>i, <1>e, <1>o, <1>p, ReleasedQuiet
<1>10. EndedHoldsNothing'
  BY <1>i, <1>e, EndedQuiet
<1>11. OffsetCurrent'
  <2>2. off'[f0'[p]] = at'
    BY <1>d, <1>e, <1>p
  <2>3. \A q \in Proc : pc'[q] = "write" => off'[f0'[q]] = at'
    BY <1>w, <2>2
  <2> QED BY <2>3 DEF OffsetCurrent
<1> QED BY <1>1, <1>2, <1>3, <1>4, <1>5, <1>6, <1>7, <1>8, <1>9, <1>10, <1>11, Together

\* The writer moves the offset on and unlocks the inode.
LEMMA WriteDoneStep ==
  ASSUME IInv, NEW p \in Proc, WriteDone(p)
  PROVE  IInv'
<1>i. /\ Types /\ ForkInv /\ OwnInv /\ HandInv /\ KindInv /\ LockInv /\ WriterInv
      /\ RefInv /\ ReleasedOnce /\ EndedHoldsNothing /\ OffsetCurrent
  BY DEF IInv
<1>e. /\ p \in alive /\ pc[p] = "write" /\ pc' = [pc EXCEPT ![p] = "user"]
      /\ off' = [off EXCEPT ![f0[p]] = at + 1] /\ ilock' = Nothing /\ at' = 0 /\ f0' = [f0 EXCEPT ![p] = 0]
      /\ ref' = ref /\ type' = type /\ ofile' = ofile /\ alive' = alive /\ child' = child
      /\ f1' = f1 /\ drop' = drop /\ iref' = iref /\ pipe' = pipe
  BY DEF WriteDone, Goto
<1>f. ilock = p /\ at < MaxOff /\ f1[p] = 0 /\ f0[p] \in File
  <2>1. ilock = p /\ p # Nothing /\ f1[p] = 0 /\ f0[p] # 0
    BY <1>i, <1>e, FilesConstants DEF LockInv, HandInv, HandOf, Nothing, WriterInv
  <2> QED BY <1>i, <2>1, InHandIsFile DEF LockInv
<1>p. /\ pc' \in [Proc -> Calls] /\ pc'[p] = "user" /\ \A q \in Proc : q # p => pc'[q] = pc[q]
      /\ f0' \in [Proc -> 0..NFILE] /\ f0'[p] = 0 /\ \A q \in Proc : q # p => f0'[q] = f0[q]
  BY <1>i, <1>e, NoFile DEF Types, Calls
<1>o. Others(p)
  BY <1>e, <1>p DEF Others
<1>w. ASSUME NEW q \in Proc PROVE pc'[q] # "write"
  BY <1>i, <1>f, <1>p DEF LockInv
<1>h. \A q \in Proc, g \in File : HeldBy(q, g)' <=> HeldBy(q, g)
  <2>1. ASSUME NEW g \in File PROVE ~HeldBy(p, g) /\ ~HeldBy(p, g)'
    BY <1>e, <1>f, <1>p, NoFile DEF HeldBy
  <2>2. ASSUME NEW q \in Proc, q # p, NEW g \in File PROVE HeldBy(q, g)' <=> HeldBy(q, g)
    BY <1>e, <1>p, <2>2 DEF HeldBy
  <2> QED BY <2>1, <2>2
<1>1. Types'
  <2>1. at \in 0..MaxOff /\ MaxOff \in Nat
    BY <1>i, FilesConstants DEF Types
  <2>2. at + 1 \in 0..MaxOff /\ 0 \in 0..MaxOff
    BY <1>f, <2>1, SMT
  <2>3. off' \in [File -> 0..MaxOff] /\ at' \in 0..MaxOff
    BY <1>i, <1>e, <2>2 DEF Types
  <2> QED BY <1>i, <1>e, <1>p, <2>3 DEF Types
<1>2. ForkInv'
  BY <1>i, <1>e, <1>o, <1>p, ForkQuiet
<1>3. OwnInv'
  BY <1>i, <1>e, <1>h, OwnQuiet
<1>4. HandInv'
  <2>1. HandOf(p)'
    BY <1>e, <1>f, <1>p DEF HandOf
  <2> QED BY <1>i, <1>o, <2>1, HandQuiet
<1>5. KindInv'
  <2>1. KindOf(p)'
    BY <1>p DEF KindOf
  <2> QED BY <1>i, <1>e, <1>o, <2>1, KindQuiet
<1>6. LockInv'
  <2>1. \A q \in Proc : q # Nothing
    BY FilesConstants DEF Nothing
  <2> QED BY <1>e, <1>w, <2>1 DEF LockInv, Nothing
<1>7. WriterInv'
  BY <1>w DEF WriterInv
<1>8. RefInv'
  BY <1>i, <1>e, <1>h, RefQuiet
<1>9. ReleasedOnce'
  BY <1>i, <1>e, <1>o, <1>p, ReleasedQuiet
<1>10. EndedHoldsNothing'
  BY <1>i, <1>e, EndedQuiet
<1>11. OffsetCurrent'
  BY <1>w DEF OffsetCurrent
<1> QED BY <1>1, <1>2, <1>3, <1>4, <1>5, <1>6, <1>7, <1>8, <1>9, <1>10, <1>11, Together

\* A fork begins or ends, or an exit ends: what becomes of the slots.
LEMMA SlotStep ==
  ASSUME IInv, NEW p \in Proc, NEW to \in {"user", "fork"}, p \in alive, drop[p] = "NONE",
         pc[p] \in {"user", "fork", "exit"}, pc' = [pc EXCEPT ![p] = to],
         ForkInv', EndedHoldsNothing', alive' \subseteq Proc, child' \in [Proc -> Proc \cup {Nothing}],
         ref' = ref, type' = type, off' = off, ofile' = ofile, f0' = f0, f1' = f1,
         drop' = drop, iref' = iref, pipe' = pipe, ilock' = ilock, at' = at
  PROVE  IInv'
<1>i. /\ Types /\ ForkInv /\ OwnInv /\ HandInv /\ KindInv /\ LockInv /\ WriterInv
      /\ RefInv /\ ReleasedOnce /\ EndedHoldsNothing /\ OffsetCurrent
  BY DEF IInv
<1>p. pc' \in [Proc -> Calls] /\ pc'[p] = to /\ \A r \in Proc : r # p => pc'[r] = pc[r]
  BY <1>i DEF Types, Calls
<1>o. Others(p)
  BY <1>p DEF Others
<1>h. \A r \in Proc, g \in File : HeldBy(r, g)' <=> HeldBy(r, g)
  BY <1>p DEF HeldBy
<1>1. Types'
  BY <1>i, <1>p DEF Types
<1>3. OwnInv'
  BY <1>i, <1>h, OwnQuiet
<1>4. HandInv'
  <2>1. HandOf(p)'
    BY <1>i, <1>p DEF HandInv, HandOf
  <2> QED BY <1>i, <1>o, <2>1, HandQuiet
<1>5. KindInv'
  <2>1. KindOf(p)'
    BY <1>p DEF KindOf
  <2> QED BY <1>i, <1>o, <2>1, KindQuiet
<1>6. LockInv'
  BY <1>i, <1>o, <1>p, LockQuiet
<1>7. WriterInv'
  BY <1>i, <1>o, <1>p, WriterQuiet
<1>8. RefInv'
  BY <1>i, <1>h, RefQuiet
<1>9. ReleasedOnce'
  BY <1>i, <1>o, <1>p, ReleasedQuiet
<1>11. OffsetCurrent'
  BY <1>i, <1>o, <1>p, OffsetQuiet
<1> QED BY <1>1, <1>3, <1>4, <1>5, <1>6, <1>7, <1>8, <1>9, <1>11, Together

\* fork takes a free slot for the child.
LEMMA ForkStep ==
  ASSUME IInv, NEW p \in Proc, NEW q \in Proc, fork(p, q)
  PROVE  IInv'
<1>i. Types /\ ForkInv /\ EndedHoldsNothing
  BY DEF IInv
<1>k. /\ \A r \in Proc : r \notin alive => pc[r] = "user" /\ drop[r] = "NONE"
      /\ \A r \in Proc : pc[r] = "fork" <=> child[r] # Nothing
      /\ \A r \in Proc : child[r] \notin alive
      /\ \A r, s \in Proc : child[r] = child[s] /\ child[r] # Nothing => r = s
  BY <1>i DEF ForkInv
<1>e. /\ p \in alive /\ pc[p] = "user" /\ drop[p] = "NONE" /\ pc' = [pc EXCEPT ![p] = "fork"]
      /\ q \notin alive /\ (\A r \in Proc : child[r] # q) /\ child' = [child EXCEPT ![p] = q]
      /\ ref' = ref /\ type' = type /\ off' = off /\ ofile' = ofile /\ alive' = alive /\ f0' = f0 /\ f1' = f1
      /\ drop' = drop /\ iref' = iref /\ pipe' = pipe /\ ilock' = ilock /\ at' = at
  BY DEF fork, Goto, table, hand
<1>n. q # Nothing
  BY FilesConstants DEF Nothing
<1>p. /\ pc'[p] = "fork" /\ \A r \in Proc : r # p => pc'[r] = pc[r]
      /\ child' \in [Proc -> Proc \cup {Nothing}]
      /\ child'[p] = q /\ \A r \in Proc : r # p => child'[r] = child[r]
  BY <1>i, <1>e DEF Types
<1>1. ForkInv'
  <2>1. \A r \in Proc : r \notin alive => pc'[r] = "user" /\ drop[r] = "NONE"
    <3>1. ASSUME NEW r \in Proc, r \notin alive PROVE pc'[r] = pc[r]
      BY <1>e, <1>p, <3>1
    <3> QED BY <1>k, <3>1
  <2>2. ASSUME NEW r \in Proc PROVE pc'[r] = "fork" <=> child'[r] # Nothing
    BY <1>i, <1>n, <1>p DEF ForkInv
  <2>3. ASSUME NEW r \in Proc PROVE child'[r] \notin alive
    BY <1>i, <1>e, <1>p DEF ForkInv
  <2>4. ASSUME NEW r \in Proc, NEW s \in Proc, child'[r] = child'[s], child'[r] # Nothing PROVE r = s
    <3>1. r # p /\ s # p => r = s
      <4>1. SUFFICES ASSUME r # p, s # p PROVE r = s
        OBVIOUS
      <4>2. child[r] = child[s] /\ child[r] # Nothing
        BY <1>p, <2>4, <4>1
      <4> QED BY <1>k, <4>2
    <3>2. (r = p /\ s # p => FALSE) /\ (r # p /\ s = p => FALSE)
      BY <1>e, <1>p, <2>4
    <3> QED BY <3>1, <3>2
  <2>5. alive' = alive /\ drop' = drop
    BY <1>e
  <2> QED BY <2>1, <2>2, <2>3, <2>4, <2>5 DEF ForkInv, Nothing
<1>2. EndedHoldsNothing'
  <2>1. ASSUME NEW r \in Proc, r \notin alive, \A s \in Proc : child'[s] # r
        PROVE  OpenFds(r)' = {}
    <3>1. child[p] = Nothing
      BY <1>i, <1>e DEF ForkInv
    <3>2. ASSUME NEW s \in Proc PROVE child[s] # r
      BY <1>p, <2>1, <3>1, FilesConstants DEF Nothing
    <3>3. OpenFds(r) = {}
      BY <1>i, <2>1, <3>2 DEF EndedHoldsNothing
    <3> QED BY <1>e, <3>3 DEF OpenFds, FreeFds
  <2> QED BY <1>e, <2>1 DEF EndedHoldsNothing
<1>3. alive' \subseteq Proc
  BY <1>i, <1>e DEF Types
<1> QED BY <1>e, <1>p, <1>1, <1>2, <1>3, SlotStep

\* The child comes to life with its copies.
LEMMA ForkDoneStep ==
  ASSUME IInv, NEW p \in Proc, ForkDone(p)
  PROVE  IInv'
<1>i. Types /\ ForkInv /\ EndedHoldsNothing
  BY DEF IInv
<1>k. /\ \A r \in Proc : r \notin alive => pc[r] = "user" /\ drop[r] = "NONE"
      /\ \A r \in Proc : pc[r] = "fork" <=> child[r] # Nothing
      /\ \A r \in Proc : child[r] \notin alive
      /\ \A r, s \in Proc : child[r] = child[s] /\ child[r] # Nothing => r = s
  BY <1>i DEF ForkInv
<1> DEFINE q == child[p]
<1>e. /\ p \in alive /\ pc[p] = "fork" /\ drop[p] = "NONE" /\ pc' = [pc EXCEPT ![p] = "user"]
      /\ alive' = alive \cup {q} /\ child' = [child EXCEPT ![p] = Nothing]
      /\ ref' = ref /\ type' = type /\ off' = off /\ ofile' = ofile /\ f0' = f0 /\ f1' = f1
      /\ drop' = drop /\ iref' = iref /\ pipe' = pipe /\ ilock' = ilock /\ at' = at
  BY DEF ForkDone, Goto, table, hand
<1>n. q \in Proc /\ q # Nothing
  <2>1. child[p] # Nothing
    BY <1>e, <1>k
  <2>2. child[p] \in Proc \cup {Nothing}
    BY <1>i DEF Types
  <2> QED BY <2>1, <2>2
<1>p. /\ pc'[p] = "user" /\ \A r \in Proc : r # p => pc'[r] = pc[r]
      /\ child' \in [Proc -> Proc \cup {Nothing}]
      /\ child'[p] = Nothing /\ \A r \in Proc : r # p => child'[r] = child[r]
  BY <1>i, <1>e DEF Types
<1>1. ForkInv'
  <2>1. \A r \in Proc : r \notin alive' => pc'[r] = "user" /\ drop[r] = "NONE"
    <3>1. ASSUME NEW r \in Proc, r \notin alive' PROVE r \notin alive /\ pc'[r] = pc[r]
      BY <1>e, <1>p, <3>1
    <3> QED BY <1>k, <3>1
  <2>2. ASSUME NEW r \in Proc PROVE pc'[r] = "fork" <=> child'[r] # Nothing
    BY <1>i, <1>p DEF ForkInv
  <2>3. ASSUME NEW r \in Proc PROVE child'[r] \notin alive'
    <3>1. CASE r = p
      BY <1>i, <1>e, <1>n, <1>p, <3>1, FilesConstants DEF Nothing, Types
    <3>2. CASE r # p
      <4>1. child[r] \notin alive /\ child'[r] = child[r]
        BY <1>i, <1>p, <3>2 DEF ForkInv
      <4>2. child[r] # q
        BY <1>k, <1>n, <3>2
      <4>3. child[r] \notin alive'
        <5> HIDE DEF q
        <5> QED BY <1>e, <4>1, <4>2
      <4> QED BY <4>1, <4>3
    <3> QED BY <3>1, <3>2
  <2>4. ASSUME NEW r \in Proc, NEW s \in Proc, child'[r] = child'[s], child'[r] # Nothing PROVE r = s
    <3>1. r # p /\ s # p
      BY <1>p, <2>4
    <3>2. child[r] = child[s] /\ child[r] # Nothing
      BY <1>p, <2>4, <3>1
    <3> QED BY <1>k, <3>2
  <2> QED BY <1>e, <2>1, <2>2, <2>3, <2>4 DEF ForkInv, Nothing
<1>2. EndedHoldsNothing'
  <2>1. ASSUME NEW r \in Proc, r \notin alive', \A s \in Proc : child'[s] # r
        PROVE  OpenFds(r)' = {}
    <3>1. r \notin alive /\ r # q
      BY <1>e, <2>1
    <3>2. ASSUME NEW s \in Proc PROVE child[s] # r
      BY <1>p, <2>1, <3>1
    <3>3. OpenFds(r) = {}
      BY <1>i, <3>1, <3>2 DEF EndedHoldsNothing
    <3> QED BY <1>e, <3>3 DEF OpenFds, FreeFds
  <2> QED BY <2>1 DEF EndedHoldsNothing
<1>3. alive' \subseteq Proc
  BY <1>i, <1>e, <1>n DEF Types
<1> QED BY <1>e, <1>p, <1>1, <1>2, <1>3, SlotStep

\* A process ends when it has closed all its descriptors.
LEMMA ExitDoneStep ==
  ASSUME IInv, NEW p \in Proc, ExitDone(p)
  PROVE  IInv'
<1>i. Types /\ ForkInv /\ EndedHoldsNothing
  BY DEF IInv
<1>k. /\ \A r \in Proc : r \notin alive => pc[r] = "user" /\ drop[r] = "NONE"
      /\ \A r \in Proc : pc[r] = "fork" <=> child[r] # Nothing
      /\ \A r \in Proc : child[r] \notin alive
      /\ \A r, s \in Proc : child[r] = child[s] /\ child[r] # Nothing => r = s
  BY <1>i DEF ForkInv
<1>e. /\ p \in alive /\ pc[p] = "exit" /\ drop[p] = "NONE" /\ pc' = [pc EXCEPT ![p] = "user"]
      /\ OpenFds(p) = {} /\ alive' = alive \ {p} /\ child' = child
      /\ ref' = ref /\ type' = type /\ off' = off /\ ofile' = ofile /\ f0' = f0 /\ f1' = f1
      /\ drop' = drop /\ iref' = iref /\ pipe' = pipe /\ ilock' = ilock /\ at' = at
  BY DEF ExitDone, Goto, table, hand
<1>p. pc'[p] = "user" /\ \A r \in Proc : r # p => pc'[r] = pc[r]
  BY <1>i, <1>e DEF Types
<1>1. ForkInv'
  <2>1. \A r \in Proc : r \notin alive' => pc'[r] = "user" /\ drop[r] = "NONE"
    <3>1. ASSUME NEW r \in Proc, r # p, r \notin alive' PROVE r \notin alive /\ pc'[r] = pc[r]
      BY <1>e, <1>p, <3>1
    <3> QED BY <1>e, <1>k, <1>p, <3>1
  <2>2. ASSUME NEW r \in Proc PROVE pc'[r] = "fork" <=> child[r] # Nothing
    <3>1. pc'[r] = "fork" <=> pc[r] = "fork"
      BY <1>e, <1>p
    <3> QED BY <1>k, <3>1
  <2>3. /\ \A r \in Proc : child[r] \notin alive'
        /\ \A r, s \in Proc : child[r] = child[s] /\ child[r] # Nothing => r = s
    BY <1>i, <1>e DEF ForkInv
  <2> QED BY <1>e, <2>1, <2>2, <2>3 DEF ForkInv, Nothing
<1>2. EndedHoldsNothing'
  <2>1. ASSUME NEW r \in Proc, r \notin alive', \A s \in Proc : child[s] # r
        PROVE  OpenFds(r)' = {}
    <3>1. OpenFds(r) = {}
      BY <1>i, <1>e, <2>1 DEF EndedHoldsNothing
    <3> QED BY <1>e, <3>1 DEF OpenFds, FreeFds
  <2> QED BY <1>e, <2>1 DEF EndedHoldsNothing
<1>3. alive' \subseteq Proc /\ child' \in [Proc -> Proc \cup {Nothing}]
  BY <1>i, <1>e DEF Types
<1> QED BY <1>e, <1>1, <1>2, <1>3, SlotStep

-----------------------------------------------------------------------------
(* The invariant holds at first, and in every step.                         *)

\* The first process has no file.
LEMMA FilesInitial == Init => IInv
<1> SUFFICES ASSUME Init PROVE IInv
  OBVIOUS
<1>p. PICK p \in Proc : alive = {p}
  BY DEF Init
<1>e. /\ ref = [f \in File |-> 0] /\ type = [f \in File |-> "NONE"] /\ off = [f \in File |-> 0]
      /\ ofile = [q \in Proc |-> [d \in Fd |-> 0]] /\ pc = [q \in Proc |-> "user"]
      /\ f0 = [q \in Proc |-> 0] /\ f1 = [q \in Proc |-> 0]
      /\ child = [q \in Proc |-> Nothing] /\ drop = [q \in Proc |-> "NONE"]
      /\ iref = 0 /\ pipe = {} /\ ilock = Nothing /\ at = 0
  BY DEF Init, Empty
<1>v. /\ \A q \in Proc : /\ pc[q] = "user" /\ f0[q] = 0 /\ f1[q] = 0 /\ child[q] = Nothing
                         /\ drop[q] = "NONE" /\ \A d \in Fd : ofile[q][d] = 0
      /\ \A f \in File : ref[f] = 0 /\ type[f] = "NONE"
  BY <1>e
<1>n. \A q \in Proc : q # Nothing
  BY FilesConstants DEF Nothing
<1>h. \A q \in Proc, f \in File : ~HeldBy(q, f)
  BY <1>v, NoFile DEF HeldBy
<1>1. Types
  <2>1. 0 \in Nat /\ 0 \in 0..MaxOff
    BY FilesConstants, SMT
  <2>2. ref \in [File -> Nat] /\ off \in [File -> 0..MaxOff] /\ iref \in Nat /\ at \in 0..MaxOff
    BY <1>e, <2>1
  <2>3. type \in [File -> Kinds] /\ drop \in [Proc -> Kinds] /\ pc \in [Proc -> Calls]
    BY <1>e DEF Kinds, Calls
  <2>4. f0 \in [Proc -> 0..NFILE] /\ f1 \in [Proc -> 0..NFILE] /\ ofile \in [Proc -> [Fd -> 0..NFILE]]
    BY <1>e, NoFile
  <2>5. /\ alive \subseteq Proc /\ child \in [Proc -> Proc \cup {Nothing}]
        /\ ilock \in Proc \cup {Nothing} /\ pipe \subseteq {"READ", "WRITE"}
    BY <1>e, <1>p
  <2> QED BY <2>2, <2>3, <2>4, <2>5 DEF Types
<1>2. ForkInv
  <2>1. Nothing \notin alive
    BY <1>n, <1>p
  <2> QED BY <1>v, <2>1 DEF ForkInv
<1>3. OwnInv
  BY <1>h DEF OwnInv
<1>4. HandInv
  BY <1>v DEF HandInv, HandOf
<1>5. KindInv
  BY <1>v DEF KindInv, KindOf
<1>6. LockInv
  BY <1>e, <1>n, <1>v DEF LockInv
<1>7. WriterInv
  BY <1>v DEF WriterInv
<1>8. RefInv
  <2>1. ASSUME NEW f \in File PROVE Refs(ofile, f) = 0
    <3>1. \A q \in Proc, d \in Fd : ofile[q][d] # f
      BY <1>v, NoFile
    <3> QED BY <3>1, NoRefs
  <2> QED BY <1>h, <1>v, <2>1 DEF RefInv
<1>9. ReleasedOnce
  <2>1. ASSUME NEW k \in {"INODE", "READ", "WRITE"}
        PROVE  Users(k) = 0 /\ CountOf(pc, Proc, "open") = 0
    <3>1. {y \in File : type[y] = k} = {} /\ {y \in Proc : drop[y] = k} = {} /\ {y \in Proc : pc[y] = "open"} = {}
      BY <1>v
    <3>2. CountOf(type, File, k) = 0 /\ CountOf(drop, Proc, k) = 0 /\ CountOf(pc, Proc, "open") = 0
      BY <3>1, FS_EmptySet DEF CountOf
    <3> QED BY <3>2, SMT DEF Users
  <2>2. iref = Users("INODE") + CountOf(pc, Proc, "open")
    <3>1. Users("INODE") = 0 /\ CountOf(pc, Proc, "open") = 0 /\ iref = 0
      BY <1>e, <2>1
    <3> QED BY <3>1, SMT
  <2>3. ASSUME NEW k \in {"READ", "WRITE"} PROVE Users(k) = IF k \in pipe THEN 1 ELSE 0
    BY <1>e, <2>1
  <2> QED BY <1>v, <2>2, <2>3 DEF ReleasedOnce, FreeFiles
<1>10. EndedHoldsNothing
  BY <1>v DEF EndedHoldsNothing, OpenFds, FreeFds
<1>11. OffsetCurrent
  BY <1>v DEF OffsetCurrent
<1> QED BY <1>1, <1>2, <1>3, <1>4, <1>5, <1>6, <1>7, <1>8, <1>9, <1>10, <1>11 DEF IInv

\* The steps that copy or close a descriptor.
LEMMA DescriptorSteps ==
  ASSUME IInv, NEW p \in Proc, sys_dup(p) \/ filedup(p) \/ sys_close(p) \/ ExitCloses(p)
  PROVE  IInv'
<1>1. CASE sys_dup(p)
  <2>1. PICK d \in OpenFds(p), e \in Fd :
          /\ IsFirst(e, FreeFds(p)) /\ ofile' = [ofile EXCEPT ![p][e] = ofile[p][d]]
          /\ ref' = [ref EXCEPT ![ofile[p][d]] = @ + 1]
    BY <1>1 DEF sys_dup
  <2>2. ofile[p][e] = 0
    BY <2>1 DEF IsFirst, FreeFds
  <2>3. p \in alive /\ pc[p] = "user" /\ pc' = pc
    <3>1. p \in alive /\ pc[p] = "user" /\ pc' = [pc EXCEPT ![p] = "user"] /\ pc \in [Proc -> Calls]
      BY <1>1 DEF sys_dup, Goto, IInv, Types
    <3> QED BY <3>1
  <2>4. /\ type' = type /\ off' = off /\ alive' = alive /\ child' = child /\ f0' = f0 /\ f1' = f1
        /\ drop' = drop /\ iref' = iref /\ pipe' = pipe /\ ilock' = ilock /\ at' = at
    BY <1>1 DEF sys_dup, hand
  <2> QED BY <2>1, <2>2, <2>3, <2>4, DupStep
<1>2. CASE filedup(p)
  <2>1. PICK d \in Fd :
          /\ IsFirst(d, ToCopy(p)) /\ ofile' = [ofile EXCEPT ![child[p]][d] = ofile[p][d]]
          /\ ref' = [ref EXCEPT ![ofile[p][d]] = @ + 1]
    BY <1>2 DEF filedup
  <2>2. ofile[child[p]][d] = 0 /\ d \in OpenFds(p)
    BY <2>1 DEF IsFirst, ToCopy, OpenFds, FreeFds
  <2>3. p \in alive /\ pc[p] = "fork" /\ pc' = pc
    <3>1. p \in alive /\ pc[p] = "fork" /\ pc' = [pc EXCEPT ![p] = "fork"] /\ pc \in [Proc -> Calls]
      BY <1>2 DEF filedup, Goto, IInv, Types
    <3> QED BY <3>1
  <2>4. child[p] \in Proc
    <3>1. child[p] \in Proc \cup {Nothing} /\ child[p] # Nothing
      BY <2>3 DEF IInv, Types, ForkInv
    <3> QED BY <3>1
  <2>5. /\ type' = type /\ off' = off /\ alive' = alive /\ child' = child /\ f0' = f0 /\ f1' = f1
        /\ drop' = drop /\ iref' = iref /\ pipe' = pipe /\ ilock' = ilock /\ at' = at
    BY <1>2 DEF filedup, hand
  <2> QED BY <2>1, <2>2, <2>3, <2>4, <2>5, DupStep
<1>3. CASE sys_close(p)
  <2>1. PICK d \in OpenFds(p) : ofile' = [ofile EXCEPT ![p][d] = 0] /\ fileclose(p, ofile[p][d])
    BY <1>3 DEF sys_close
  <2>2. p \in alive /\ pc[p] = "user" /\ pc' = pc /\ drop[p] = "NONE"
    <3>1. /\ p \in alive /\ pc[p] = "user" /\ pc' = [pc EXCEPT ![p] = "user"] /\ pc \in [Proc -> Calls]
          /\ drop[p] = "NONE"
      BY <1>3 DEF sys_close, Goto, IInv, Types
    <3> QED BY <3>1
  <2>3. /\ off' = off /\ alive' = alive /\ child' = child /\ f0' = f0 /\ f1' = f1
        /\ iref' = iref /\ pipe' = pipe /\ ilock' = ilock /\ at' = at
    BY <1>3 DEF sys_close, hand
  <2> QED BY <2>1, <2>2, <2>3, CloseStep
<1>4. CASE ExitCloses(p)
  <2>1. PICK d \in Fd :
          /\ IsFirst(d, OpenFds(p)) /\ ofile' = [ofile EXCEPT ![p][d] = 0] /\ fileclose(p, ofile[p][d])
    BY <1>4 DEF ExitCloses
  <2>2. p \in alive /\ pc[p] = "exit" /\ pc' = pc /\ drop[p] = "NONE"
    <3>1. /\ p \in alive /\ pc[p] = "exit" /\ pc' = [pc EXCEPT ![p] = "exit"] /\ pc \in [Proc -> Calls]
          /\ drop[p] = "NONE"
      BY <1>4 DEF ExitCloses, Goto, IInv, Types
    <3> QED BY <3>1
  <2>3. /\ off' = off /\ alive' = alive /\ child' = child /\ f0' = f0 /\ f1' = f1
        /\ iref' = iref /\ pipe' = pipe /\ ilock' = ilock /\ at' = at
    BY <1>4 DEF ExitCloses, hand
  <2>4. d \in OpenFds(p)
    BY <2>1 DEF IsFirst
  <2> QED BY <2>1, <2>2, <2>3, <2>4, CloseStep
<1> QED BY <1>1, <1>2, <1>3, <1>4

\* The steps that only move a call on.
LEMMA CallSteps ==
  ASSUME IInv, NEW p \in Proc, PipeNoFile(p) \/ PipeNoMemory(p) \/ PipeNoFds(p) \/ exit(p)
  PROVE  IInv'
<1>1. /\ ref' = ref /\ type' = type /\ off' = off /\ ofile' = ofile /\ alive' = alive /\ child' = child
      /\ f0' = f0 /\ f1' = f1 /\ drop' = drop /\ iref' = iref /\ pipe' = pipe /\ ilock' = ilock /\ at' = at
      /\ p \in alive
  BY DEF PipeNoFile, PipeNoMemory, PipeNoFds, exit, Goto, table, hand
<1>2. CASE exit(p)
  <2>1. pc[p] = "user" /\ pc' = [pc EXCEPT ![p] = "exit"]
    BY <1>2 DEF exit, Goto
  <2> QED BY <1>1, <2>1, CallStep
<1>3. CASE PipeNoFile(p) \/ PipeNoMemory(p) \/ PipeNoFds(p)
  <2>1. /\ (pc[p] = "pipe" /\ f0[p] = 0) \/ pc[p] \in {"kalloc", "fds"}
        /\ pc' = [pc EXCEPT ![p] = "bad"]
    BY <1>3 DEF PipeNoFile, PipeNoMemory, PipeNoFds, Goto
  <2> QED BY <1>1, <2>1, CallStep
<1> QED BY <1>2, <1>3

\* Every step keeps the invariant.
LEMMA FilesStep == IInv /\ [Next]_vars => IInv'
<1> SUFFICES ASSUME IInv, [Next]_vars PROVE IInv'
  OBVIOUS
<1>1. CASE UNCHANGED vars
  <2>1. /\ ref' = ref /\ type' = type /\ off' = off /\ ofile' = ofile /\ alive' = alive /\ pc' = pc
        /\ child' = child /\ f0' = f0 /\ f1' = f1 /\ drop' = drop /\ iref' = iref /\ pipe' = pipe
        /\ ilock' = ilock /\ at' = at
    BY <1>1 DEF vars, table, hand
  <2>i. /\ Types /\ ForkInv /\ OwnInv /\ HandInv /\ KindInv /\ LockInv /\ WriterInv
        /\ RefInv /\ ReleasedOnce /\ EndedHoldsNothing /\ OffsetCurrent
    BY DEF IInv
  <2>2. Types'
    BY <2>1, <2>i DEF Types
  <2>4. OwnInv'
    <3>1. \A q \in Proc, g \in File : HeldBy(q, g)' => HeldBy(q, g)
      BY <2>1 DEF HeldBy
    <3> QED BY <2>1, <2>i, <3>1, OwnQuiet
  <2>7. ForkInv'
    BY <2>1, <2>i DEF ForkInv, Nothing
  <2>5. HandInv' /\ KindInv'
    BY <2>1, <2>i DEF HandInv, HandOf, KindInv, KindOf
  <2>6. LockInv' /\ WriterInv'
    BY <2>1, <2>i DEF LockInv, WriterInv, Nothing
  <2>3. RefInv' /\ ReleasedOnce' /\ EndedHoldsNothing' /\ OffsetCurrent'
    BY <2>1, <2>i DEF RefInv, HeldBy, ReleasedOnce, Users, FreeFiles, EndedHoldsNothing, OpenFds, FreeFds, OffsetCurrent
  <2> QED BY <2>2, <2>3, <2>4, <2>5, <2>6, <2>7, Together
<1>2. CASE Next
  <2>1. PICK p \in Proc :
          \/ Release(p) \/ sys_open(p) \/ OpenDone(p) \/ OpenFails(p) \/ sys_dup(p) \/ sys_close(p)
          \/ PipeFile0(p) \/ PipeFile1(p) \/ PipeNoFile(p) \/ PipeAlloc(p) \/ PipeNoMemory(p)
          \/ PipeDone(p) \/ PipeNoFds(p) \/ PipeBad0(p) \/ PipeBad1(p)
          \/ filewrite(p) \/ WriteDone(p)
          \/ (\E q \in Proc : fork(p, q)) \/ filedup(p) \/ ForkDone(p)
          \/ exit(p) \/ ExitCloses(p) \/ ExitDone(p)
    BY <1>2 DEF Next
  <2>2. sys_open(p) \/ PipeFile0(p) \/ PipeFile1(p) => IInv'
    BY FirstFileStep, SecondFileStep
  <2>3. OpenDone(p) \/ PipeAlloc(p) \/ PipeDone(p) \/ OpenFails(p) \/ PipeBad0(p) \/ PipeBad1(p) => IInv'
    BY OpenDoneStep, PipeAllocStep, PipeDoneStep, OpenFailsStep, PipeBad0Step, PipeBad1Step
  <2>4. Release(p) \/ filewrite(p) \/ WriteDone(p) => IInv'
    BY ReleaseStep, WriteStep, WriteDoneStep
  <2>5. (\E q \in Proc : fork(p, q)) \/ ForkDone(p) \/ ExitDone(p) => IInv'
    BY ForkStep, ForkDoneStep, ExitDoneStep
  <2> QED BY <2>1, <2>2, <2>3, <2>4, <2>5, DescriptorSteps, CallSteps
<1> QED BY <1>1, <1>2

-----------------------------------------------------------------------------
(* What follows from it.                                                    *)

\* The invariant implies what the runs check.
LEMMA FilesConclusion == IInv => FilesCounted
<1> SUFFICES ASSUME IInv PROVE FilesCounted
  OBVIOUS
<1>i. Types /\ OwnInv /\ RefInv /\ ReleasedOnce /\ EndedHoldsNothing /\ OffsetCurrent
  BY DEF IInv
<1>1. RefsCounted
  <2> SUFFICES ASSUME NEW f \in File PROVE ref[f] = Refs(ofile, f) + Cardinality(InHand(f))
    BY DEF RefsCounted
  <2>0. InHand(f) \subseteq Proc /\ \A p \in Proc : p \in InHand(f) <=> HeldBy(p, f)
    BY DEF InHand, HeldBy
  <2>1. CASE \E p \in Proc : HeldBy(p, f)
    <3>1. PICK p \in Proc : HeldBy(p, f)
      BY <2>1
    <3>2. \A q \in Proc : (HeldBy(q, f) => q = p) /\ \A d \in Fd : ofile[q][d] # f
      BY <1>i, <3>1 DEF OwnInv
    <3>3. InHand(f) = {p}
      BY <2>0, <3>1, <3>2
    <3>4. Refs(ofile, f) = 0 /\ Cardinality(InHand(f)) = 1
      BY <3>2, <3>3, NoRefs, FS_Singleton
    <3>5. ref[f] = 1
      BY <1>i, <3>1 DEF RefInv
    <3> QED BY <3>4, <3>5, SMT
  <2>2. CASE \A p \in Proc : ~HeldBy(p, f)
    <3>1. InHand(f) = {}
      BY <2>0, <2>2
    <3>2. Cardinality(InHand(f)) = 0
      BY <3>1, FS_EmptySet
    <3>3. ref[f] = Refs(ofile, f) /\ ref[f] \in Nat
      BY <1>i, <2>2 DEF RefInv, Types
    <3> QED BY <3>2, <3>3, SMT
  <2> QED BY <2>1, <2>2
<1>2. TypeOK
  <2> DEFINE N == NOFILE * Cardinality(Proc)
  <2>1. Cardinality(Proc) \in Nat /\ IsFiniteSet(Fd) /\ Cardinality(Fd) = NOFILE
    <3>1. Cardinality(Proc) \in Nat
      BY FilesConstants, FS_CardinalityType
    <3>2. 0 \in Int /\ NOFILE - 1 \in Int
      BY FilesConstants, SMT
    <3>3. IsFiniteSet(Fd) /\ Cardinality(Fd) = IF 0 > NOFILE - 1 THEN 0 ELSE NOFILE - 1 - 0 + 1
      BY <3>2, FS_Interval DEF Fd
    <3> QED BY <3>1, <3>3, FilesConstants, SMT
  <2>2. Cardinality(Proc \X Fd) = Cardinality(Proc) * NOFILE /\ IsFiniteSet(Proc \X Fd)
    BY <2>1, FilesConstants, FS_Product
  <2>3. ASSUME NEW f \in File PROVE ref[f] \in 0..N + 2
    <3>1. ref[f] \in Nat
      BY <1>i DEF Types
    <3>2. N \in Nat /\ Cardinality(Proc) * NOFILE = N
      BY <2>1, FilesConstants, SMT
    <3> HIDE DEF N
    <3>3. CASE \E p \in Proc : HeldBy(p, f)
      <4>1. ref[f] = 1
        BY <1>i, <3>3 DEF RefInv
      <4> QED BY <3>2, <4>1, SMT
    <3>4. CASE \A p \in Proc : ~HeldBy(p, f)
      <4>1. ref[f] = Refs(ofile, f)
        BY <1>i, <3>4 DEF RefInv
      <4>2. Refs(ofile, f) <= Cardinality(Proc \X Fd)
        BY <2>2, FS_Subset DEF Refs
      <4> QED BY <2>2, <3>1, <3>2, <4>1, <4>2, SMT
    <3> QED BY <3>3, <3>4
  <2> HIDE DEF N
  <2>4. ref \in [File -> 0..N + 2]
    BY <1>i, <2>3 DEF Types
  <2> QED BY <1>i, <2>4 DEF Types, TypeOK, Kinds, N
<1> QED BY <1>i, <1>1, <1>2 DEF FilesCounted

\* fileclose, filedup, sys_open, sys_pipe, fork and exit agree on who uses a
\* file, whatever the number of processes, files and descriptors.
THEOREM FileTableCounted == Spec => []FilesCounted
<1>1. Spec => []IInv
  BY FilesInitial, FilesStep, PTL DEF Spec
<1> QED BY <1>1, FilesConclusion, PTL

\* What a file in use stands for does not change under the descriptors that
\* share it: no call of another process turns an inode into a pipe.
KindKept ==
  \A f \in File : ref[f] # 0 /\ type[f] # "NONE" => type'[f] = type[f] \/ ref'[f] = 0

\* Of all calls only fileclose changes the type of a file that has one.
LEMMA KindSteps ==
  ASSUME IInv, Next
  PROVE  KindKept
<1>i. Types /\ HandInv /\ KindInv
  BY DEF IInv
<1>t. type \in [File -> Kinds] /\ ref \in [File -> Nat]
  BY <1>i DEF Types
<1>1. ASSUME NEW p \in Proc, OpenDone(p) PROVE KindKept
  <2>1. type[f0[p]] = "NONE" /\ type' = [type EXCEPT ![f0[p]] = "INODE"]
    BY <1>i, <1>1 DEF OpenDone, Goto, KindInv, KindOf
  <2> QED BY <1>t, <2>1 DEF KindKept
<1>2. ASSUME NEW p \in Proc, PipeAlloc(p) PROVE KindKept
  <2>1. /\ type[f0[p]] = "NONE" /\ type[f1[p]] = "NONE"
        /\ type' = [type EXCEPT ![f0[p]] = "READ", ![f1[p]] = "WRITE"]
    BY <1>i, <1>2 DEF PipeAlloc, Goto, KindInv, KindOf, HandInv, HandOf
  <2> QED BY <1>t, <2>1 DEF KindKept
<1>3. ASSUME NEW p \in Proc, NEW f, fileclose(p, f) PROVE KindKept
  <2> SUFFICES ASSUME NEW g \in File, ref[g] # 0, type'[g] # type[g] PROVE ref'[g] = 0
    BY DEF KindKept
  <2>1. g = f /\ ~(ref[f] > 1)
    BY <1>t, <1>3 DEF fileclose
  <2>2. ref'[g] = ref[g] - 1 /\ ref[g] \in Nat
    BY <1>t, <1>3, <2>1 DEF fileclose
  <2> QED BY <2>1, <2>2, SMT
<1>4. ASSUME type' = type PROVE KindKept
  BY <1>4 DEF KindKept
<1>5. PICK p \in Proc :
        \/ Release(p) \/ sys_open(p) \/ OpenDone(p) \/ OpenFails(p) \/ sys_dup(p) \/ sys_close(p)
        \/ PipeFile0(p) \/ PipeFile1(p) \/ PipeNoFile(p) \/ PipeAlloc(p) \/ PipeNoMemory(p)
        \/ PipeDone(p) \/ PipeNoFds(p) \/ PipeBad0(p) \/ PipeBad1(p)
        \/ filewrite(p) \/ WriteDone(p)
        \/ (\E q \in Proc : fork(p, q)) \/ filedup(p) \/ ForkDone(p)
        \/ exit(p) \/ ExitCloses(p) \/ ExitDone(p)
  BY DEF Next
<1>6. OpenFails(p) \/ PipeBad0(p) \/ PipeBad1(p) \/ sys_close(p) \/ ExitCloses(p) => KindKept
  BY <1>3, <1>4 DEF OpenFails, PipeBad0, PipeBad1, sys_close, ExitCloses
<1>7. Release(p) \/ sys_open(p) \/ sys_dup(p) \/ PipeFile0(p) \/ PipeFile1(p) \/ PipeNoFile(p) => KindKept
  BY <1>4 DEF Release, sys_open, sys_dup, PipeFile0, PipeFile1, PipeNoFile, table
<1>8. PipeNoMemory(p) \/ PipeDone(p) \/ PipeNoFds(p) \/ filewrite(p) \/ WriteDone(p) => KindKept
  BY <1>4 DEF PipeNoMemory, PipeDone, PipeNoFds, filewrite, WriteDone, table
<1>9. (\E q \in Proc : fork(p, q)) \/ filedup(p) \/ ForkDone(p) \/ exit(p) \/ ExitDone(p) => KindKept
  BY <1>4 DEF fork, filedup, ForkDone, exit, ExitDone, table
<1> QED BY <1>1, <1>2, <1>5, <1>6, <1>7, <1>8, <1>9

\* A shared file stays what it is until its last reference is closed.
THEOREM FileKindKept == Spec => [][KindKept]_vars
<1>1. Spec => []IInv
  BY FilesInitial, FilesStep, PTL DEF Spec
<1>2. IInv /\ [Next]_vars => [KindKept]_vars
  BY KindSteps
<1> QED BY <1>1, <1>2, PTL DEF Spec
=============================================================================
