--------------------------------- MODULE Vm ---------------------------------
(***************************************************************************)
(* Physical pages and address spaces: kalloc and kfree (kalloc.c), page    *)
(* tables (vm.c), and the calls that build, change and free an address     *)
(* space: fork and wait (proc.c), growproc (proc.c) and exec (exec.c).     *)
(*                                                                         *)
(* A step ends at every kalloc, since memory may run out there; the frees  *)
(* of one call are one step.  Sizes are bytes in unsigned arithmetic.      *)
(* User memory lies in the first of the NPT page tables setupkvm makes.    *)
(* Which free page kalloc returns makes no difference to any property: it  *)
(* is the least one here, the head of a list in the code.  What a page     *)
(* contains is left out.                                                   *)
(***************************************************************************)
EXTENDS Integers, FiniteSets, FiniteSetsExt

CONSTANTS NPROC, NPAGES, NPT,
          PGSIZE, USERTOP,
          UINT,    \* the unsigned integers are 0..UINT - 1
          Delta,   \* the amounts sbrk grows and shrinks by
          SegEnd,  \* where a program's segments end
          Empties  \* whether a process may give back all of its memory, or up to a page more

VmAssumption ==
  /\ NPROC \in Nat \ {0} /\ NPAGES \in Nat /\ NPT \in Nat \ {0} /\ PGSIZE \in Nat \ {0}
  /\ USERTOP % PGSIZE = 0 /\ UINT % PGSIZE = 0 /\ UINT > 2 * USERTOP
  /\ NPAGES >= NPT + 3
  /\ Delta \subseteq 1..(UINT \div 2) - 1
  /\ SegEnd \subseteq 1..UINT - 1
  /\ Empties \in BOOLEAN

Slot == 1..NPROC
Page == 1..NPAGES
UPage == 0..(USERTOP \div PGSIZE) - 1
NONE == 0

PGROUNDUP(x) == (((x + PGSIZE - 1) % UINT) \div PGSIZE) * PGSIZE
PGROUNDDOWN(x) == (x \div PGSIZE) * PGSIZE

VARIABLES
  free,                      \* the pages of kmem.freelist
  tables, user,              \* what a page directory's entries lead to
  pst, sz, pgdir, kstack,    \* struct proc
  cr3,                       \* the page directory a process runs on
  stale,                     \* user pages unmapped since cr3 was loaded
  pc, np, d, old, new, a,  \* locals of a call in progress
  held,                      \* exec's lock and reference on the program file
  panic, lost                \* pages that setupkvm dropped

dirs == <<tables, user>>
procs == <<pst, sz, pgdir, kstack>>
locals == <<np, d, old, new, a>>
vars == <<free, dirs, procs, cr3, stale, pc, locals, held, panic, lost>>

\* The first page of the directory dir, for initcode.
inituvm(dir, mem) == [g \in Page |-> [u \in UPage |-> IF g = dir /\ u = 0 THEN mem ELSE NONE]]

\* userinit: one process with one page of memory.
Init ==
  LET dir == 2  user1 == 3  tabs == 4..NPT + 3
  IN /\ free = Page \ ((1..3) \cup tabs)
     /\ tables = [g \in Page |-> IF g = dir THEN tabs ELSE {}]
     /\ user = inituvm(dir, user1)
     /\ pst = [p \in Slot |-> IF p = 1 THEN "live" ELSE "unused"]
     /\ sz = [p \in Slot |-> IF p = 1 THEN PGSIZE ELSE 0]
     /\ pgdir = [p \in Slot |-> IF p = 1 THEN dir ELSE NONE]
     /\ kstack = [p \in Slot |-> IF p = 1 THEN 1 ELSE NONE]
     /\ cr3 = [p \in Slot |-> IF p = 1 THEN dir ELSE NONE]
     /\ stale = [p \in Slot |-> {}]
     /\ pc = [p \in Slot |-> "user"]
     /\ np = [p \in Slot |-> NONE] /\ d = [p \in Slot |-> NONE]
     /\ old = [p \in Slot |-> 0] /\ new = [p \in Slot |-> 0] /\ a = [p \in Slot |-> 0]
     /\ held = [p \in Slot |-> FALSE]
     /\ panic = "no" /\ lost = {}

-----------------------------------------------------------------------------
kalloc == Min(free)
kfree(pages) == free' = free \cup pages

At(p, where) == pst[p] = "live" /\ pc[p] = where /\ panic = "no"

Goto(p, where) == pc' = [pc EXCEPT ![p] = where]

\* A call ends: the locals go back to their first values.
Ends(p) ==
  /\ Goto(p, "user")
  /\ np' = [np EXCEPT ![p] = NONE] /\ d' = [d EXCEPT ![p] = NONE]
  /\ old' = [old EXCEPT ![p] = 0] /\ new' = [new EXCEPT ![p] = 0] /\ a' = [a EXCEPT ![p] = 0]

Mapped(g) == {u \in UPage : user[g][u] # NONE}
UserPages(g, us) == {user[g][u] : u \in us}

\* The user pages deallocuvm goes through.
UserRange(o, n) == {u \in UPage : PGROUNDUP(n) <= u * PGSIZE /\ u * PGSIZE <= PGROUNDDOWN((o - 1) % UINT)}

Unmap(g, us) ==
  /\ kfree(UserPages(g, us))
  /\ user' = [user EXCEPT ![g] = [u \in UPage |-> IF u \in us THEN NONE ELSE @[u]]]
  /\ UNCHANGED tables

deallocuvm(g, o, n) == Unmap(g, UserRange(o, n) \cap Mapped(g))

\* Mutant: the page tables are forgotten.
FreevmNoTables(g, more) ==
  /\ kfree(UserPages(g, Mapped(g)) \cup {g} \cup more)
  /\ tables' = [tables EXCEPT ![g] = {}]
  /\ user' = [user EXCEPT ![g] = [u \in UPage |-> NONE]]

\* The whole address space, and the pages of more, are freed.
freevm(g, more) ==
  /\ kfree(UserPages(g, Mapped(g)) \cup tables[g] \cup {g} \cup more)
  /\ tables' = [tables EXCEPT ![g] = {}]
  /\ user' = [user EXCEPT ![g] = [u \in UPage |-> NONE]]

switchuvm(p, g) == cr3' = [cr3 EXCEPT ![p] = g] /\ stale' = [stale EXCEPT ![p] = {}]

-----------------------------------------------------------------------------
(* allocuvm, called by growproc and twice by exec.                          *)

Last(p) == PGROUNDDOWN((new[p] - 1) % UINT)

CallAllocuvm(p, where, o, n) ==
  /\ Goto(p, where)
  /\ old' = [old EXCEPT ![p] = o] /\ new' = [new EXCEPT ![p] = n]
  /\ a' = [a EXCEPT ![p] = PGROUNDUP(o)]

Target(p) == IF pc[p] = "grow" THEN pgdir[p] ELSE d[p]

\* A new page for the page u of the directory g; the page tables are there.
mappages(g, u) ==
  /\ free # {}
  /\ IF user[g][u] # NONE THEN panic' = "remap" /\ UNCHANGED <<free, user>>
     ELSE free' = free \ {kalloc} /\ user' = [user EXCEPT ![g][u] = kalloc] /\ UNCHANGED panic

AllocPage(p) ==
  /\ \E where \in {"grow", "segment", "stack"} : At(p, where)
  /\ new[p] <= USERTOP /\ a[p] <= Last(p)
  /\ mappages(Target(p), a[p] \div PGSIZE)
  /\ a' = [a EXCEPT ![p] = @ + PGSIZE]
  /\ UNCHANGED <<tables, procs, cr3, stale, pc, np, d, old, new, held, lost>>

Allocated(p) == a[p] > Last(p)
Result(p) == IF new[p] > old[p] THEN new[p] ELSE old[p]

-----------------------------------------------------------------------------
(* growproc, for sbrk.                                                      *)

Fits(n) == n <= USERTOP

growproc(p, n) ==
  /\ At(p, "user") /\ Fits((sz[p] + n) % UINT)
  /\ CallAllocuvm(p, "grow", sz[p], sz[p] + n)
  /\ UNCHANGED <<free, dirs, procs, cr3, stale, np, d, held, panic, lost>>

GrowDone(p) ==
  /\ At(p, "grow") /\ Allocated(p)
  /\ sz' = [sz EXCEPT ![p] = Result(p)]
  /\ switchuvm(p, pgdir[p])
  /\ Ends(p)
  /\ UNCHANGED <<free, dirs, pst, pgdir, kstack, held, panic, lost>>

GrowFails(p) ==
  /\ At(p, "grow") /\ ~Allocated(p) /\ free = {}
  /\ deallocuvm(pgdir[p], new[p], old[p])
  /\ Ends(p)
  /\ UNCHANGED <<procs, cr3, stale, held, panic, lost>>

\* Giving memory back.  A result of 0 is taken for a failure, after the pages
\* were freed: the size and the page table register stay as they are.
Shrink(p, n) ==
  LET to == (sz[p] - n) % UINT
      gone == UserRange(sz[p], to) \cap Mapped(pgdir[p])
  IN /\ At(p, "user") /\ (PGROUNDUP(to) = 0 => Empties)
     /\ Unmap(pgdir[p], gone)
     /\ IF to = 0 THEN stale' = [stale EXCEPT ![p] = @ \cup gone] /\ UNCHANGED <<sz, cr3>>
        ELSE /\ sz' = [sz EXCEPT ![p] = IF to < @ THEN to ELSE @]
             /\ switchuvm(p, pgdir[p])
     /\ UNCHANGED <<pst, pgdir, kstack, pc, locals, held, panic, lost>>

-----------------------------------------------------------------------------
(* setupkvm, called by copyuvm in fork and by exec: the directory, then its *)
(* page tables.  When a page is missing it returns 0 and keeps no record of *)
(* those it has.                                                            *)

SetupDone(p) == d[p] # NONE /\ Cardinality(tables[d[p]]) = NPT

\* A page table that is missing.
walkpgdir(g) == tables' = [tables EXCEPT ![g] = @ \cup {kalloc}]

SetupStep(p) ==
  /\ At(p, "forksetup") \/ At(p, "execsetup")
  /\ ~SetupDone(p) /\ free # {}
  /\ free' = free \ {kalloc}
  /\ IF d[p] = NONE THEN d' = [d EXCEPT ![p] = kalloc] /\ UNCHANGED tables
     ELSE walkpgdir(d[p]) /\ UNCHANGED d
  /\ UNCHANGED <<user, procs, cr3, stale, pc, np, old, new, a, held, panic, lost>>

Dropped(p) == IF d[p] = NONE THEN {} ELSE {d[p]} \cup tables[d[p]]

SetupFails(p) ==
  /\ ~SetupDone(p) /\ free = {}
  /\ lost' = lost \cup Dropped(p)
  /\ tables' = [g \in Page |-> IF g = d[p] THEN {} ELSE tables[g]]

-----------------------------------------------------------------------------
(* fork: a slot and its kernel stack (allocproc), then copyuvm.             *)

fork(p, q) ==
  /\ At(p, "user") /\ pst[q] = "unused" /\ free # {}
  /\ free' = free \ {kalloc}
  /\ pst' = [pst EXCEPT ![q] = "embryo"] /\ kstack' = [kstack EXCEPT ![q] = kalloc]
  /\ np' = [np EXCEPT ![p] = q]
  /\ Goto(p, "forksetup")
  /\ UNCHANGED <<dirs, sz, pgdir, cr3, stale, d, old, new, a, held, panic, lost>>

\* The slot of a child that could not be made is free again.
ChildGone(q) == pst' = [pst EXCEPT ![q] = "unused"] /\ kstack' = [kstack EXCEPT ![q] = NONE]

ForkSetupFails(p) ==
  /\ At(p, "forksetup") /\ SetupFails(p)
  /\ kfree({kstack[np[p]]})
  /\ ChildGone(np[p]) /\ Ends(p)
  /\ UNCHANGED <<user, sz, pgdir, cr3, stale, held, panic>>

CopyStarts(p) ==
  /\ At(p, "forksetup") /\ SetupDone(p)
  /\ Goto(p, "copy")
  /\ UNCHANGED <<free, dirs, procs, cr3, stale, locals, held, panic, lost>>

CopyPage(p) ==
  /\ At(p, "copy") /\ a[p] < sz[p]
  /\ LET u == a[p] \div PGSIZE IN
     IF user[pgdir[p]][u] = NONE THEN panic' = "copyuvm" /\ UNCHANGED <<free, user>>
     ELSE mappages(d[p], u)
  /\ a' = [a EXCEPT ![p] = @ + PGSIZE]
  /\ UNCHANGED <<tables, procs, cr3, stale, pc, np, d, old, new, held, lost>>

CopyFails(p) ==
  /\ At(p, "copy") /\ a[p] < sz[p] /\ user[pgdir[p]][a[p] \div PGSIZE] # NONE /\ free = {}
  /\ freevm(d[p], {kstack[np[p]]})
  /\ ChildGone(np[p]) /\ Ends(p)
  /\ UNCHANGED <<sz, pgdir, cr3, stale, held, panic, lost>>

\* The child has its memory; it runs on it once it is switched to.
ForkDone(p) ==
  LET q == np[p] IN
  /\ At(p, "copy") /\ a[p] >= sz[p]
  /\ pgdir' = [pgdir EXCEPT ![q] = d[p]] /\ sz' = [sz EXCEPT ![q] = sz[p]]
  /\ pst' = [pst EXCEPT ![q] = "live"]
  /\ switchuvm(q, d[p])
  /\ Ends(p)
  /\ UNCHANGED <<free, dirs, kstack, held, panic, lost>>

exit(p) ==
  /\ At(p, "user") /\ p # 1
  /\ pst' = [pst EXCEPT ![p] = "zombie"]
  /\ cr3' = [cr3 EXCEPT ![p] = NONE] /\ stale' = [stale EXCEPT ![p] = {}]
  /\ UNCHANGED <<free, dirs, sz, pgdir, kstack, pc, locals, held, panic, lost>>

\* wait and wait2: the parent frees what the zombie had.
wait(q) ==
  /\ pst[q] = "zombie" /\ panic = "no"
  /\ freevm(pgdir[q], {kstack[q]})
  /\ pst' = [pst EXCEPT ![q] = "unused"] /\ kstack' = [kstack EXCEPT ![q] = NONE]
  /\ pgdir' = [pgdir EXCEPT ![q] = NONE] /\ sz' = [sz EXCEPT ![q] = 0]
  /\ UNCHANGED <<cr3, stale, pc, locals, held, panic, lost>>

-----------------------------------------------------------------------------
(* exec of one program file.                                                *)

exec(p) ==
  /\ At(p, "user") /\ \A q \in Slot : ~held[q]
  /\ held' = [held EXCEPT ![p] = TRUE]
  /\ Goto(p, "execsetup")
  /\ UNCHANGED <<free, dirs, procs, cr3, stale, locals, panic, lost>>

\* iunlockput: without the lock it is a panic, unless another process has the
\* file locked, whose lock and reference it then takes away.
iunlockput(p) ==
  LET holder == {q \in Slot : held[q]} IN
  IF holder = {} THEN panic' = "iunlock" /\ UNCHANGED held
  ELSE /\ held' = [held EXCEPT ![IF held[p] THEN p ELSE CHOOSE q \in holder : TRUE] = FALSE]
       /\ UNCHANGED panic

\* The header is no program's, or there is no page for the directory.
ExecEarlyFails(p) ==
  /\ At(p, "execsetup")
  /\ \/ d[p] = NONE /\ UNCHANGED <<tables, lost>>
     \/ SetupFails(p)
  /\ iunlockput(p)
  /\ Ends(p)
  /\ UNCHANGED <<free, user, procs, cr3, stale>>

\* bad: with a page directory.  From the loop: the size is too large, memory
\* is out, the segment cannot be read.  For the stack: as the first two.
ExecFails(p) ==
  /\ \/ At(p, "execsetup") /\ SetupDone(p)
     \/ At(p, "segment") /\ (Allocated(p) \/ free = {})
     \/ At(p, "stack") /\ ((~Allocated(p) /\ free = {}) \/ new[p] > USERTOP)
  /\ freevm(d[p], {})
  /\ iunlockput(p)
  /\ Ends(p)
  /\ UNCHANGED <<procs, cr3, stale, lost>>

\* A segment to load, behind the ones already loaded.
ExecSegment(p, n) ==
  /\ \/ At(p, "execsetup") /\ SetupDone(p)
     \/ At(p, "segment") /\ Allocated(p)
  /\ Fits(n)
  /\ CallAllocuvm(p, "segment", Result(p), n)
  /\ UNCHANGED <<free, dirs, procs, cr3, stale, np, d, held, panic, lost>>

\* All segments are loaded: the file is let go, a page for the stack follows.
ExecStack(p) ==
  /\ \/ At(p, "execsetup") /\ SetupDone(p)
     \/ At(p, "segment") /\ Allocated(p)
  /\ iunlockput(p)
  /\ LET bottom == PGROUNDUP(Result(p))
     IN CallAllocuvm(p, "stack", bottom, (bottom + PGSIZE) % UINT)
  /\ UNCHANGED <<free, dirs, procs, cr3, stale, np, d, lost>>

\* Mutant: the old address space is freed while it is in use.
CommitNoSwitch(p) ==
  /\ At(p, "stack") /\ new[p] <= USERTOP /\ Allocated(p)
  /\ pgdir' = [pgdir EXCEPT ![p] = d[p]] /\ sz' = [sz EXCEPT ![p] = Result(p)]
  /\ d' = [d EXCEPT ![p] = pgdir[p]]
  /\ Goto(p, "freeold")
  /\ UNCHANGED <<free, dirs, pst, kstack, cr3, stale, np, old, new, a, held, panic, lost>>

ExecCommit(p) ==
  /\ At(p, "stack") /\ new[p] <= USERTOP /\ Allocated(p)
  /\ pgdir' = [pgdir EXCEPT ![p] = d[p]] /\ sz' = [sz EXCEPT ![p] = Result(p)]
  /\ d' = [d EXCEPT ![p] = pgdir[p]]
  /\ switchuvm(p, d[p])
  /\ Goto(p, "freeold")
  /\ UNCHANGED <<free, dirs, pst, kstack, np, old, new, a, held, panic, lost>>

ExecFreeOld(p) ==
  /\ At(p, "freeold")
  /\ freevm(d[p], {})
  /\ Ends(p)
  /\ UNCHANGED <<procs, cr3, stale, held, panic, lost>>

Next ==
  \/ \E p \in Slot :
       \/ \E n \in Delta : growproc(p, n) \/ Shrink(p, n)
       \/ AllocPage(p) \/ GrowDone(p) \/ GrowFails(p)
       \/ SetupStep(p)
       \/ \E q \in Slot : fork(p, q)
       \/ ForkSetupFails(p) \/ CopyStarts(p) \/ CopyPage(p) \/ CopyFails(p) \/ ForkDone(p)
       \/ exit(p) \/ wait(p)
       \/ exec(p) \/ ExecEarlyFails(p) \/ ExecFails(p) \/ ExecStack(p)
       \/ \E n \in SegEnd : ExecSegment(p, n)
       \/ ExecCommit(p) \/ ExecFreeOld(p)

Spec == Init /\ [][Next]_vars

-----------------------------------------------------------------------------
TypeOK ==
  /\ free \subseteq Page /\ lost \subseteq Page
  /\ tables \in [Page -> SUBSET Page]
  /\ user \in [Page -> [UPage -> Page \cup {NONE}]]
  /\ pst \in [Slot -> {"unused", "embryo", "live", "zombie"}]
  /\ sz \in [Slot -> 0..USERTOP]
  /\ \A f \in {pgdir, kstack, cr3, d} : f \in [Slot -> Page \cup {NONE}]
  /\ np \in [Slot -> Slot \cup {NONE}]

\* The page directories somebody has, made or in the making.
Dirs == {g \in Page : \E p \in Slot : g = pgdir[p] \/ g = d[p]}

\* A page has one use at most: it is free, or the kernel stack of one process,
\* or a directory, or a page table of one directory, or mapped once.
OwnedOnce ==
  \A g \in Page :
    LET uses == (IF g \in free THEN 1 ELSE 0)
                + Cardinality({p \in Slot : kstack[p] = g})
                + Cardinality({p \in Slot : pgdir[p] = g}) + Cardinality({p \in Slot : d[p] = g})
                + Cardinality({h \in Page : g \in tables[h]})
                + Cardinality({hu \in Page \X UPage : user[hu[1]][hu[2]] = g})
    IN uses <= 1

\* No page is forgotten, however a fork or an exec fails, except by setupkvm.
Accounted ==
  Page = free \cup lost \cup Dirs \cup ({kstack[p] : p \in Slot} \ {NONE})
         \cup UNION {tables[g] \cup UserPages(g, Mapped(g)) : g \in Dirs}

\* In user mode a process has exactly the pages that its size covers.
SizeMapped ==
  \A p \in Slot : pst[p] = "live" /\ pc[p] = "user" =>
    Mapped(pgdir[p]) = {u \in UPage : u * PGSIZE < sz[p]}

\* A process runs on its own page directory, never on one that was freed, and
\* in user mode the processor remembers no page that was taken away.
RunsOnOwnMemory ==
  \A p \in Slot : pst[p] = "live" =>
    /\ cr3[p] = pgdir[p] /\ cr3[p] \notin free
    /\ pc[p] = "user" => stale[p] = {}

\* The checks of vm.c never fail: no page is mapped over another, and every
\* page fork copies is there.
NoRemap == panic \notin {"remap", "copyuvm"}
=============================================================================
