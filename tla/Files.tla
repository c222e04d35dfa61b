------------------------------- MODULE Files -------------------------------
(***************************************************************************)
(* The file table of file.c and the descriptors of the processes: open,    *)
(* dup, close, pipe, write, and the copies and closes of fork and exit.    *)
(*                                                                         *)
(* A step is what runs under ftable.lock, or under the inode's or the      *)
(* pipe's lock; a process works on its own descriptors without a lock.     *)
(* There is one inode to open and memory for one pipe.                     *)
(***************************************************************************)
EXTENDS Integers, FiniteSets

CONSTANTS Proc, NFILE, NOFILE, MaxOff

ASSUME FilesAssumption ==
  /\ NFILE \in Nat \ {0} /\ NOFILE \in Nat \ {0} /\ MaxOff \in Nat
  /\ IsFiniteSet(Proc) /\ "none" \notin Proc

File == 1..NFILE
Fd == 0..NOFILE - 1

VARIABLES
  ref, type, off,        \* struct file; off is the offset in the inode
  ofile,                 \* the descriptors of a process, 0 if unused
  alive, pc, child,      \* processes, their calls, and whom they are forking
  f0, f1,                \* the files a call has in hand
  drop,                  \* what fileclose has still to release
  iref, pipe,            \* references to the inode, open ends of the pipe
  ilock, at              \* who has the inode locked, and the offset it read

table == <<ref, type, off>>
hand == <<f0, f1>>
vars == <<table, ofile, alive, pc, child, hand, drop, iref, pipe, ilock, at>>
Nothing == "none"

\* Before the first process: no file and no descriptor is in use.
Empty ==
  /\ ref = [f \in File |-> 0] /\ type = [f \in File |-> "NONE"] /\ off = [f \in File |-> 0]
  /\ ofile = [p \in Proc |-> [d \in Fd |-> 0]]
  /\ pc = [p \in Proc |-> "user"]
  /\ f0 = [p \in Proc |-> 0] /\ f1 = [p \in Proc |-> 0]
  /\ child = [p \in Proc |-> Nothing] /\ drop = [p \in Proc |-> "NONE"]
  /\ iref = 0 /\ pipe = {} /\ ilock = Nothing /\ at = 0

Init == Empty /\ \E p \in Proc : alive = {p}

\* A process that closes a file releases what it was before it goes on.
Goto(p, from, to) ==
  /\ p \in alive /\ pc[p] = from /\ drop[p] = "NONE"
  /\ pc' = [pc EXCEPT ![p] = to]

FreeFiles == {f \in File : ref[f] = 0}
FreeFds(p) == {d \in Fd : ofile[p][d] = 0}
OpenFds(p) == Fd \ FreeFds(p)

\* A search that goes up from the lowest member of S stops at x.
IsFirst(x, S) == x \in S /\ \A y \in S : x <= y

\* filealloc returns the first free file, or 0.
filealloc(f) ==
  \/ FreeFiles = {} /\ f = 0 /\ UNCHANGED ref
  \/ IsFirst(f, FreeFiles) /\ ref' = [ref EXCEPT ![f] = 1]

\* Mutant: the type of a closed file stays.
FilecloseKeepsType(p, f) ==
  /\ ref' = [ref EXCEPT ![f] = @ - 1]
  /\ UNCHANGED type
  /\ drop' = [drop EXCEPT ![p] = IF ref[f] > 1 THEN "NONE" ELSE type[f]]

\* fileclose, up to the release of ftable.lock.
fileclose(p, f) ==
  /\ ref' = [ref EXCEPT ![f] = @ - 1]
  /\ type' = IF ref[f] > 1 THEN type ELSE [type EXCEPT ![f] = "NONE"]
  /\ drop' = [drop EXCEPT ![p] = IF ref[f] > 1 THEN "NONE" ELSE type[f]]

\* pipeclose, or iput.
Release(p) ==
  /\ drop[p] # "NONE"
  /\ drop' = [drop EXCEPT ![p] = "NONE"]
  /\ iref' = IF drop[p] = "INODE" THEN iref - 1 ELSE iref
  /\ pipe' = pipe \ {drop[p]}
  /\ UNCHANGED <<table, ofile, alive, pc, child, hand, ilock, at>>

-----------------------------------------------------------------------------
\* sys_open has the inode, and allocates a file.
sys_open(p) ==
  /\ Goto(p, "user", "open")
  /\ \E f \in 0..NFILE : filealloc(f) /\ f0' = [f0 EXCEPT ![p] = f]
  /\ iref' = iref + 1
  /\ UNCHANGED <<type, off, ofile, alive, child, f1, drop, pipe, ilock, at>>

\* It takes the first free descriptor and fills the file in.
OpenDone(p) ==
  /\ Goto(p, "open", "user")
  /\ f0[p] # 0
  /\ \E d \in Fd : IsFirst(d, FreeFds(p)) /\ ofile' = [ofile EXCEPT ![p][d] = f0[p]]
  /\ type' = [type EXCEPT ![f0[p]] = "INODE"]
  /\ off' = [off EXCEPT ![f0[p]] = 0]
  /\ f0' = [f0 EXCEPT ![p] = 0]
  /\ UNCHANGED <<ref, alive, child, f1, drop, iref, pipe, ilock, at>>

\* No file or no descriptor: the file is closed as it is, and the inode put.
OpenFails(p) ==
  /\ Goto(p, "open", "user")
  /\ f0[p] = 0 \/ FreeFds(p) = {}
  /\ IF f0[p] = 0 THEN UNCHANGED <<ref, type, drop>> ELSE fileclose(p, f0[p])
  /\ f0' = [f0 EXCEPT ![p] = 0]
  /\ iref' = iref - 1
  /\ UNCHANGED <<off, ofile, alive, child, f1, pipe, ilock, at>>

sys_dup(p) ==
  /\ Goto(p, "user", "user")
  /\ \E d \in OpenFds(p), e \in Fd :
       /\ IsFirst(e, FreeFds(p))
       /\ ofile' = [ofile EXCEPT ![p][e] = ofile[p][d]]
       /\ ref' = [ref EXCEPT ![ofile[p][d]] = @ + 1]
  /\ UNCHANGED <<type, off, alive, child, hand, drop, iref, pipe, ilock, at>>

sys_close(p) ==
  /\ Goto(p, "user", "user")
  /\ \E d \in OpenFds(p) :
       /\ ofile' = [ofile EXCEPT ![p][d] = 0]
       /\ fileclose(p, ofile[p][d])
  /\ UNCHANGED <<off, alive, child, hand, iref, pipe, ilock, at>>

-----------------------------------------------------------------------------
(* sys_pipe: two files, memory for the pipe, two descriptors.               *)

PipeFile0(p) ==
  /\ Goto(p, "user", "pipe")
  /\ f0[p] = 0
  /\ \E f \in 0..NFILE : filealloc(f) /\ f0' = [f0 EXCEPT ![p] = f]
  /\ UNCHANGED <<type, off, ofile, alive, child, f1, drop, iref, pipe, ilock, at>>

PipeFile1(p) ==
  /\ Goto(p, "pipe", IF FreeFiles = {} THEN "bad" ELSE "kalloc")
  /\ f0[p] # 0
  /\ \E f \in 0..NFILE : filealloc(f) /\ f1' = [f1 EXCEPT ![p] = f]
  /\ UNCHANGED <<type, off, ofile, alive, child, f0, drop, iref, pipe, ilock, at>>

PipeNoFile(p) ==
  /\ Goto(p, "pipe", "bad")
  /\ f0[p] = 0
  /\ UNCHANGED <<table, ofile, alive, child, hand, drop, iref, pipe, ilock, at>>

\* kalloc gives the page once; both files become ends of the pipe.
PipeAlloc(p) ==
  /\ Goto(p, "kalloc", "fds")
  /\ pipe = {}
  /\ pipe' = {"READ", "WRITE"}
  /\ type' = [type EXCEPT ![f0[p]] = "READ", ![f1[p]] = "WRITE"]
  /\ UNCHANGED <<ref, off, ofile, alive, child, hand, drop, iref, ilock, at>>

PipeNoMemory(p) ==
  /\ Goto(p, "kalloc", "bad")
  /\ UNCHANGED <<table, ofile, alive, child, hand, drop, iref, pipe, ilock, at>>

PipeDone(p) ==
  /\ Goto(p, "fds", "user")
  /\ \E d0, d1 \in Fd :
       /\ IsFirst(d0, FreeFds(p)) /\ IsFirst(d1, FreeFds(p) \ {d0})
       /\ ofile' = [ofile EXCEPT ![p][d0] = f0[p], ![p][d1] = f1[p]]
  /\ f0' = [f0 EXCEPT ![p] = 0] /\ f1' = [f1 EXCEPT ![p] = 0]
  /\ UNCHANGED <<table, alive, child, drop, iref, pipe, ilock, at>>

\* The descriptor that was taken for the first file is given back.
PipeNoFds(p) ==
  /\ Goto(p, "fds", "bad")
  /\ Cardinality(FreeFds(p)) < 2
  /\ UNCHANGED <<table, ofile, alive, child, hand, drop, iref, pipe, ilock, at>>

\* The files are closed one after the other.
PipeBad0(p) ==
  /\ Goto(p, "bad", "bad")
  /\ f0[p] # 0
  /\ fileclose(p, f0[p])
  /\ f0' = [f0 EXCEPT ![p] = 0]
  /\ UNCHANGED <<off, ofile, alive, child, f1, iref, pipe, ilock, at>>

PipeBad1(p) ==
  /\ Goto(p, "bad", "user")
  /\ f0[p] = 0
  /\ IF f1[p] = 0 THEN UNCHANGED <<ref, type, drop>> ELSE fileclose(p, f1[p])
  /\ f1' = [f1 EXCEPT ![p] = 0]
  /\ UNCHANGED <<off, ofile, alive, child, f0, iref, pipe, ilock, at>>

-----------------------------------------------------------------------------
\* filewrite: lock the inode, write at the offset, move the offset on.
\* Bound: offsets up to MaxOff.
filewrite(p) ==
  /\ Goto(p, "user", "write")
  /\ \E d \in OpenFds(p) :
       LET f == ofile[p][d] IN
       /\ type[f] = "INODE" /\ off[f] < MaxOff
       /\ ilock = Nothing /\ ilock' = p
       /\ f0' = [f0 EXCEPT ![p] = f]
       /\ at' = off[f]
  /\ UNCHANGED <<table, ofile, alive, child, f1, drop, iref, pipe>>

WriteDone(p) ==
  /\ Goto(p, "write", "user")
  /\ off' = [off EXCEPT ![f0[p]] = at + 1]
  /\ ilock' = Nothing /\ at' = 0
  /\ f0' = [f0 EXCEPT ![p] = 0]
  /\ UNCHANGED <<ref, type, ofile, alive, child, f1, drop, iref, pipe>>

-----------------------------------------------------------------------------
\* fork: allocproc gives a child, which gets every descriptor by a filedup.
fork(p, q) ==
  /\ Goto(p, "user", "fork")
  /\ q \notin alive /\ \A r \in Proc : child[r] # q
  /\ child' = [child EXCEPT ![p] = q]
  /\ UNCHANGED <<table, ofile, alive, hand, drop, iref, pipe, ilock, at>>

ToCopy(p) == {d \in Fd : ofile[p][d] # 0 /\ ofile[child[p]][d] = 0}

filedup(p) ==
  /\ Goto(p, "fork", "fork")
  /\ \E d \in Fd :
       /\ IsFirst(d, ToCopy(p))
       /\ ofile' = [ofile EXCEPT ![child[p]][d] = ofile[p][d]]
       /\ ref' = [ref EXCEPT ![ofile[p][d]] = @ + 1]
  /\ UNCHANGED <<type, off, alive, child, hand, drop, iref, pipe, ilock, at>>

ForkDone(p) ==
  /\ Goto(p, "fork", "user")
  /\ ToCopy(p) = {}
  /\ alive' = alive \cup {child[p]}
  /\ child' = [child EXCEPT ![p] = Nothing]
  /\ UNCHANGED <<table, ofile, hand, drop, iref, pipe, ilock, at>>

\* exit closes every descriptor, lowest first; one process, init, stays.
exit(p) ==
  /\ \E q \in alive \ {p} : pc[q] # "exit"
  /\ Goto(p, "user", "exit")
  /\ UNCHANGED <<table, ofile, alive, child, hand, drop, iref, pipe, ilock, at>>

ExitCloses(p) ==
  /\ Goto(p, "exit", "exit")
  /\ \E d \in Fd :
       /\ IsFirst(d, OpenFds(p))
       /\ fileclose(p, ofile[p][d])
       /\ ofile' = [ofile EXCEPT ![p][d] = 0]
  /\ UNCHANGED <<off, alive, child, hand, iref, pipe, ilock, at>>

ExitDone(p) ==
  /\ Goto(p, "exit", "user")
  /\ OpenFds(p) = {}
  /\ alive' = alive \ {p}
  /\ UNCHANGED <<table, ofile, child, hand, drop, iref, pipe, ilock, at>>

Next == \E p \in Proc :
  \/ Release(p) \/ sys_open(p) \/ OpenDone(p) \/ OpenFails(p) \/ sys_dup(p) \/ sys_close(p)
  \/ PipeFile0(p) \/ PipeFile1(p) \/ PipeNoFile(p) \/ PipeAlloc(p) \/ PipeNoMemory(p)
  \/ PipeDone(p) \/ PipeNoFds(p) \/ PipeBad0(p) \/ PipeBad1(p)
  \/ filewrite(p) \/ WriteDone(p)
  \/ (\E q \in Proc : fork(p, q)) \/ filedup(p) \/ ForkDone(p)
  \/ exit(p) \/ ExitCloses(p) \/ ExitDone(p)

Spec == Init /\ [][Next]_vars

-----------------------------------------------------------------------------
TypeOK ==
  /\ ref \in [File -> 0..NOFILE * Cardinality(Proc) + 2]
  /\ type \in [File -> {"NONE", "INODE", "READ", "WRITE"}]
  /\ off \in [File -> 0..MaxOff]
  /\ ofile \in [Proc -> [Fd -> 0..NFILE]]
  /\ f0 \in [Proc -> 0..NFILE] /\ f1 \in [Proc -> 0..NFILE]
  /\ iref \in Nat /\ pipe \subseteq {"READ", "WRITE"}

InHand(f) == {p \in Proc : f0[p] = f /\ pc[p] # "write"} \cup {p \in Proc : f1[p] = f}

\* The number of descriptors in fds that are f.
Refs(fds, f) == Cardinality({pd \in Proc \X Fd : fds[pd[1]][pd[2]] = f})

\* A file's count is the number of descriptors and calls that refer to it, so
\* filedup and fileclose never see a free file.
RefsCounted ==
  \A f \in File :
    ref[f] = Refs(ofile, f) + Cardinality(InHand(f))

CountOf(t, S, k) == Cardinality({y \in S : t[y] = k})
Users(k) == CountOf(type, File, k) + CountOf(drop, Proc, k)

\* What a file stands for is released once, when its last reference goes: the
\* inode has one reference per file or call, a pipe's end is open while a file
\* is that end, and a free file stands for nothing.
ReleasedOnce ==
  /\ iref = Users("INODE") + CountOf(pc, Proc, "open")
  /\ \A e \in {"READ", "WRITE"} : Users(e) = IF e \in pipe THEN 1 ELSE 0
  /\ \A f \in FreeFiles : type[f] = "NONE"

\* A process that has ended has no descriptors, so that its slot can be reused.
EndedHoldsNothing ==
  \A p \in Proc : p \notin alive /\ (\A q \in Proc : child[q] # p) => OpenFds(p) = {}

\* Writers that share a file move its offset one after the other: no write
\* goes to an offset that is no longer the file's.
OffsetCurrent == \A p \in Proc : pc[p] = "write" => off[f0[p]] = at

\* The file table agrees with the descriptors and calls that use it.
FilesCounted == TypeOK /\ RefsCounted /\ ReleasedOnce /\ EndedHoldsNothing /\ OffsetCurrent

-----------------------------------------------------------------------------
(* The inductive invariant.                                                 *)

Calls == {"user", "open", "pipe", "kalloc", "fds", "bad", "write", "fork", "exit"}
Kinds == {"NONE", "INODE", "READ", "WRITE"}

\* The types of all variables; that a count is bounded follows from RefInv.
Types ==
  /\ ref \in [File -> Nat] /\ type \in [File -> Kinds] /\ off \in [File -> 0..MaxOff]
  /\ ofile \in [Proc -> [Fd -> 0..NFILE]]
  /\ f0 \in [Proc -> 0..NFILE] /\ f1 \in [Proc -> 0..NFILE]
  /\ alive \subseteq Proc /\ pc \in [Proc -> Calls] /\ drop \in [Proc -> Kinds]
  /\ child \in [Proc -> Proc \cup {Nothing}]
  /\ iref \in Nat /\ pipe \subseteq {"READ", "WRITE"}
  /\ ilock \in Proc \cup {Nothing} /\ at \in 0..MaxOff

\* A process that is in a call is alive; a child is being made by one process
\* and is not alive yet.
ForkInv ==
  /\ \A p \in Proc : p \notin alive => pc[p] = "user" /\ drop[p] = "NONE"
  /\ \A p \in Proc : pc[p] = "fork" <=> child[p] # Nothing
  /\ \A p \in Proc : child[p] \notin alive
  /\ \A p, q \in Proc : child[p] = child[q] /\ child[p] # Nothing => p = q

\* f is new, and in the hands of the call that allocated it.
HeldBy(p, f) == (f0[p] = f /\ pc[p] # "write") \/ f1[p] = f

\* Such a file is nobody else's.
OwnInv ==
  \A f \in File, p, q \in Proc :
    HeldBy(p, f) => /\ HeldBy(q, f) => p = q
                    /\ \A d \in Fd : ofile[q][d] # f

\* What a call has in hand.
HandOf(p) ==
  /\ pc[p] \in {"user", "fork", "exit"} => f0[p] = 0 /\ f1[p] = 0
  /\ pc[p] \in {"open", "pipe", "write"} => f1[p] = 0
  /\ pc[p] \in {"kalloc", "fds"} => f0[p] # 0 /\ f1[p] # 0
  /\ f0[p] # 0 => f0[p] # f1[p]
HandInv == \A p \in Proc : HandOf(p)

\* What the files in hand stand for.
KindOf(p) ==
  /\ pc[p] \in {"open", "pipe", "kalloc"} /\ f0[p] # 0 => type[f0[p]] = "NONE"
  /\ pc[p] = "kalloc" => type[f1[p]] = "NONE"
KindInv == \A p \in Proc : KindOf(p)

\* The writer has the inode locked, and room to write.
LockInv ==
  /\ \A p \in Proc : pc[p] = "write" <=> ilock = p
  /\ ilock # Nothing => at < MaxOff

\* Its file is one of its descriptors.
WriterInv ==
  \A p \in Proc : pc[p] = "write" => f0[p] # 0 /\ \E d \in Fd : ofile[p][d] = f0[p]

\* The count of a file, as long as it is new and later.
RefInv ==
  \A f \in File :
    /\ (\E p \in Proc : HeldBy(p, f)) => ref[f] = 1
    /\ (\A p \in Proc : ~HeldBy(p, f)) => ref[f] = Refs(ofile, f)

IInv ==
  /\ Types /\ ForkInv /\ OwnInv /\ HandInv /\ KindInv /\ LockInv /\ WriterInv
  /\ RefInv /\ ReleasedOnce /\ EndedHoldsNothing /\ OffsetCurrent
=============================================================================
