------------------------------- MODULE Icache -------------------------------
(***************************************************************************)
(* The inode cache of fs.c: iget, idup, ilock, iunlock, iput, ialloc and   *)
(* iupdate, used by processes that open, link, unlink and create files.    *)
(*                                                                         *)
(* A step is what runs under icache.lock, or under the buffer that holds   *)
(* the inode on disk.  Of the directories the module keeps the number of   *)
(* entries that name an inode: unlink looks its entry up and erases it     *)
(* under the directory's lock, so both are one step here.                  *)
(***************************************************************************)
EXTENDS Integers, FiniteSets, FiniteSetsExt

CONSTANTS Proc, NINODE, NInum, MaxLink

IcacheAssumption == /\ NINODE \in Nat /\ Cardinality(Proc) <= NINODE
                    /\ NInum \in Nat \ {0} /\ MaxLink \in Nat \ {0}

Slot == 1..NINODE
Inum == 1..NInum

VARIABLES
  inum, ref, busy, valid, type, nlink,  \* the cached inodes
  dtype, dnlink,                        \* the inodes on disk; type 0 is free
  entries,                              \* directory entries that name an inode
  pc, op, ip, want,                     \* a process's call, its slot and inode
  asleep                                \* it sleeps on its inode

cache == <<inum, ref, busy, valid, type, nlink>>
dinodes == <<dtype, dnlink>>
calls == <<op, ip, want>>
vars == <<cache, dinodes, entries, pc, calls, asleep>>

\* One file exists.
Init ==
  /\ inum = [s \in Slot |-> 0] /\ ref = [s \in Slot |-> 0]
  /\ busy = [s \in Slot |-> FALSE] /\ valid = [s \in Slot |-> FALSE]
  /\ type = [s \in Slot |-> 0] /\ nlink = [s \in Slot |-> 0]
  /\ dtype = [i \in Inum |-> IF i = 1 THEN 1 ELSE 0]
  /\ dnlink = dtype /\ entries = dtype
  /\ pc = [p \in Proc |-> "idle"] /\ op = [p \in Proc |-> "none"]
  /\ ip = [p \in Proc |-> 0] /\ want = [p \in Proc |-> 0]
  /\ asleep = [p \in Proc |-> FALSE]

Goto(p, from, to) ==
  /\ pc[p] = from /\ ~asleep[p]
  /\ pc' = [pc EXCEPT ![p] = to]

-----------------------------------------------------------------------------
CachedIn(i) == {s \in Slot : ref[s] > 0 /\ inum[s] = i}

\* iget: the slot that caches i, or the first free one.
iget(p, i) ==
  IF CachedIn(i) # {}
  THEN /\ ref' = [ref EXCEPT ![Min(CachedIn(i))] = @ + 1]
       /\ ip' = [ip EXCEPT ![p] = Min(CachedIn(i))]
       /\ UNCHANGED <<inum, busy, valid, type, nlink>>
  ELSE LET s == Min({t \in Slot : ref[t] = 0}) IN
       /\ inum' = [inum EXCEPT ![s] = i]
       /\ ref' = [ref EXCEPT ![s] = 1]
       /\ busy' = [busy EXCEPT ![s] = FALSE]
       /\ valid' = [valid EXCEPT ![s] = FALSE]
       /\ ip' = [ip EXCEPT ![p] = s]
       /\ UNCHANGED <<type, nlink>>

\* Bound: MaxLink links to an inode, those being made or dropped included.
LinkRoom(i) ==
  entries[i] + Cardinality({p \in Proc : op[p] \in {"link", "unlink"} /\ inum[ip[p]] = i}) < MaxLink

\* namei finds an entry for i, for a call that opens or links it.
namei(p, i, what) ==
  /\ Goto(p, "idle", "ilock")
  /\ entries[i] > 0 /\ (what = "link" => LinkRoom(i))
  /\ op' = [op EXCEPT ![p] = what]
  /\ iget(p, i)
  /\ UNCHANGED <<dinodes, entries, want, asleep>>

\* sys_unlink finds an entry for i and erases it.
UnlinkEntry(p, i) ==
  /\ Goto(p, "idle", "ilock")
  /\ entries[i] > 0
  /\ entries' = [entries EXCEPT ![i] = @ - 1]
  /\ op' = [op EXCEPT ![p] = "unlink"]
  /\ iget(p, i)
  /\ UNCHANGED <<dinodes, want, asleep>>

\* ialloc marks the first free inode allocated on disk, and calls iget.
ialloc(p) ==
  /\ Goto(p, "idle", "iget")
  /\ \E i \in Inum : dtype[i] = 0
  /\ LET i == Min({j \in Inum : dtype[j] = 0}) IN
       /\ dtype' = [dtype EXCEPT ![i] = 1]
       /\ dnlink' = [dnlink EXCEPT ![i] = 0]
       /\ want' = [want EXCEPT ![p] = i]
  /\ op' = [op EXCEPT ![p] = "create"]
  /\ UNCHANGED <<cache, entries, ip, asleep>>

IallocGets(p) ==
  /\ Goto(p, "iget", "ilock")
  /\ iget(p, want[p])
  /\ want' = [want EXCEPT ![p] = 0]
  /\ UNCHANGED <<dinodes, entries, op, asleep>>

-----------------------------------------------------------------------------
\* ilock sets I_BUSY, or sleeps while it is set.
ilock(p) ==
  /\ Goto(p, "ilock", "load")
  /\ ~busy[ip[p]]
  /\ busy' = [busy EXCEPT ![ip[p]] = TRUE]
  /\ UNCHANGED <<inum, ref, valid, type, nlink, dinodes, entries, calls, asleep>>

IlockSleeps(p) ==
  /\ Goto(p, "ilock", "ilock")
  /\ busy[ip[p]]
  /\ asleep' = [asleep EXCEPT ![p] = TRUE]
  /\ UNCHANGED <<cache, dinodes, entries, calls>>

\* It reads the inode if the copy is not valid.
IlockLoads(p) ==
  LET s == ip[p] IN
  /\ Goto(p, "load", "locked")
  /\ valid' = [valid EXCEPT ![s] = TRUE]
  /\ IF valid[s]
     THEN UNCHANGED <<type, nlink>>
     ELSE /\ type' = [type EXCEPT ![s] = dtype[inum[s]]]
          /\ nlink' = [nlink EXCEPT ![s] = dnlink[inum[s]]]
  /\ UNCHANGED <<inum, ref, busy, dinodes, entries, calls, asleep>>

\* nlink becomes n, and iupdate writes the inode.
Change(p, n, to) ==
  LET s == ip[p] IN
  /\ Goto(p, "locked", to)
  /\ nlink' = [nlink EXCEPT ![s] = n]
  /\ dnlink' = [dnlink EXCEPT ![inum[s]] = n]
  /\ dtype' = [dtype EXCEPT ![inum[s]] = type[s]]
  /\ UNCHANGED <<inum, ref, busy, valid, type, calls, asleep>>

\* create sets nlink to 1 and enters the file while it holds its lock.
CreateLinks(p) ==
  /\ op[p] = "create"
  /\ Change(p, 1, "unlock")
  /\ entries' = [entries EXCEPT ![inum[ip[p]]] = @ + 1]

UnlinkDrops(p) == op[p] = "unlink" /\ Change(p, nlink[ip[p]] - 1, "unlock") /\ UNCHANGED entries

LinkAdds(p) == op[p] = "link" /\ Change(p, nlink[ip[p]] + 1, "unlock") /\ UNCHANGED entries

\* An open file is used under the lock and not changed here.
OpenUses(p) ==
  /\ op[p] = "open" /\ Goto(p, "locked", "unlock")
  /\ UNCHANGED <<cache, dinodes, entries, calls, asleep>>

wakeup(s) == asleep' = [p \in Proc |-> asleep[p] /\ ip[p] # s]

\* sys_link goes on to enter the new name, unless it is on its way out.
iunlock(p) ==
  /\ Goto(p, "unlock", IF op[p] = "link" THEN "dirlink" ELSE "ref")
  /\ busy' = [busy EXCEPT ![ip[p]] = FALSE]
  /\ wakeup(ip[p])
  /\ UNCHANGED <<inum, ref, valid, type, nlink, dinodes, entries, calls>>

LinkEnters(p) ==
  /\ Goto(p, "dirlink", "ref")
  /\ entries' = [entries EXCEPT ![inum[ip[p]]] = @ + 1]
  /\ UNCHANGED <<cache, dinodes, calls, asleep>>

\* bad: the link count is taken back as unlink does it.
LinkFails(p) ==
  /\ Goto(p, "dirlink", "ilock")
  /\ op' = [op EXCEPT ![p] = "unlink"]
  /\ UNCHANGED <<cache, dinodes, entries, ip, want, asleep>>

\* An open file is used again, or a second process gets it by fork (idup).
ReadAgain(p) ==
  /\ op[p] = "open" /\ Goto(p, "ref", "ilock")
  /\ UNCHANGED <<cache, dinodes, entries, calls, asleep>>

idup(p, q) ==
  /\ pc[p] = "ref" /\ op[p] = "open" /\ pc[q] = "idle"
  /\ ref' = [ref EXCEPT ![ip[p]] = @ + 1]
  /\ pc' = [pc EXCEPT ![q] = "ref"]
  /\ op' = [op EXCEPT ![q] = "open"]
  /\ ip' = [ip EXCEPT ![q] = ip[p]]
  /\ UNCHANGED <<inum, busy, valid, type, nlink, dinodes, entries, want, asleep>>

-----------------------------------------------------------------------------
\* The last reference to an inode without links.
Last(s) == ref[s] = 1 /\ valid[s] /\ nlink[s] = 0

Drop(p) ==
  /\ ref' = [ref EXCEPT ![ip[p]] = @ - 1]
  /\ ip' = [ip EXCEPT ![p] = 0]
  /\ op' = [op EXCEPT ![p] = "none"]
  /\ UNCHANGED <<inum, type, nlink, dinodes, entries, want>>

iput(p) ==
  /\ Goto(p, "ref", "idle")
  /\ ~Last(ip[p])
  /\ Drop(p)
  /\ UNCHANGED <<busy, valid, asleep>>

\* The last reference goes: icache.lock is released while the inode is
\* truncated and freed on disk, I_BUSY keeps others away.
IputFrees(p) ==
  /\ Goto(p, "ref", "itrunc")
  /\ Last(ip[p])
  /\ busy' = [busy EXCEPT ![ip[p]] = TRUE]
  /\ UNCHANGED <<inum, ref, valid, type, nlink, dinodes, entries, calls, asleep>>

IputTruncates(p) ==
  LET s == ip[p] IN
  /\ Goto(p, "itrunc", "freed")
  /\ type' = [type EXCEPT ![s] = 0]
  /\ dtype' = [dtype EXCEPT ![inum[s]] = 0]
  /\ dnlink' = [dnlink EXCEPT ![inum[s]] = nlink[s]]
  /\ UNCHANGED <<inum, ref, busy, valid, nlink, entries, calls, asleep>>

\* Mutant: I_VALID survives.
IputKeepsValid(p) ==
  /\ Goto(p, "freed", "idle")
  /\ busy' = [busy EXCEPT ![ip[p]] = FALSE]
  /\ wakeup(ip[p])
  /\ Drop(p)
  /\ UNCHANGED valid

IputEnds(p) ==
  /\ Goto(p, "freed", "idle")
  /\ busy' = [busy EXCEPT ![ip[p]] = FALSE]
  /\ valid' = [valid EXCEPT ![ip[p]] = FALSE]
  /\ wakeup(ip[p])
  /\ Drop(p)

-----------------------------------------------------------------------------
Begin(p) ==
  \/ \E i \in Inum : (\E what \in {"open", "link"} : namei(p, i, what)) \/ UnlinkEntry(p, i)
  \/ ialloc(p)

Lock(p) == IallocGets(p) \/ ilock(p) \/ IlockSleeps(p) \/ IlockLoads(p)

Finish(p) ==
  \/ CreateLinks(p) \/ UnlinkDrops(p) \/ LinkAdds(p) \/ OpenUses(p)
  \/ iunlock(p) \/ LinkEnters(p) \/ LinkFails(p)
  \/ iput(p) \/ IputFrees(p) \/ IputTruncates(p) \/ IputEnds(p)

Next == \E p \in Proc :
  \/ Begin(p) \/ Lock(p) \/ Finish(p) \/ ReadAgain(p)
  \/ \E q \in Proc \ {p} : idup(p, q)

Spec == Init /\ [][Next]_vars

-----------------------------------------------------------------------------
TypeOK ==
  /\ inum \in [Slot -> Inum \cup {0}] /\ ref \in [Slot -> 0..Cardinality(Proc)]
  /\ busy \in [Slot -> BOOLEAN] /\ valid \in [Slot -> BOOLEAN]
  /\ type \in [Slot -> {0, 1}] /\ dtype \in [Inum -> {0, 1}]
  /\ nlink \in [Slot -> 0..MaxLink] /\ dnlink \in [Inum -> 0..MaxLink]
  /\ entries \in [Inum -> 0..MaxLink]
  /\ pc \in [Proc -> {"idle", "iget", "ilock", "load", "locked", "unlock", "dirlink",
                      "ref", "itrunc", "freed"}]
  /\ op \in [Proc -> {"none", "open", "link", "unlink", "create"}]
  /\ ip \in [Proc -> Slot \cup {0}] /\ want \in [Proc -> Inum \cup {0}]
  /\ asleep \in [Proc -> BOOLEAN]

Locking == {"load", "locked", "unlock", "itrunc", "freed"}

\* An inode is cached in one slot, its count is the number of references, and
\* one process holds its lock exactly when I_BUSY is set (fs.c:111-124).
RefsCounted ==
  /\ \A s, t \in Slot : ref[s] > 0 /\ ref[t] > 0 /\ inum[s] = inum[t] => s = t
  /\ \A s \in Slot : ref[s] = Cardinality({p \in Proc : ip[p] = s})
  /\ \A p, q \in Proc : p # q /\ pc[p] \in Locking /\ pc[q] \in Locking => ip[p] # ip[q]
  /\ \A s \in Slot : ref[s] > 0 => (busy[s] <=> \E p \in Proc : ip[p] = s /\ pc[p] \in Locking)

\* A valid copy that nobody is changing is the inode on disk.
CopyCurrent ==
  \A s \in Slot : ref[s] > 0 /\ valid[s] /\ ~busy[s] =>
    type[s] = dtype[inum[s]] /\ nlink[s] = dnlink[inum[s]]

\* No process ever locks a freed inode ("ilock: no type") or frees a busy one
\* ("iput busy"), and no directory entry names a free inode.
NeverFreedInUse ==
  /\ \A p \in Proc : pc[p] \in {"load", "locked", "unlock"} => dtype[inum[ip[p]]] # 0
  /\ \A p \in Proc : pc[p] = "ref" /\ Last(ip[p]) => ~busy[ip[p]]
  /\ \A i \in Inum : entries[i] > 0 => dtype[i] # 0 /\ dnlink[i] >= entries[i]

\* An allocated inode that no process refers to is in a directory, as often as
\* its link count says: nothing is leaked and nothing freed too early.
NothingLeaked ==
  \A i \in Inum : CachedIn(i) = {} /\ (\A p \in Proc : want[p] # i) /\ dtype[i] # 0 =>
    entries[i] > 0 /\ dnlink[i] = entries[i]

\* A process that sleeps in ilock.
Sleeping(p) == asleep[p]
=============================================================================
