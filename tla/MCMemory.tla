------------------------------ MODULE MCMemory ------------------------------
(***************************************************************************)
(* Spin locks (Spinlock, part "locks"), and memory, of the kernel (Vm,     *)
(* part "vm") and of a program (Umalloc, part "malloc"), checked in one    *)
(* run.  part says which of them a behaviour is about; it never changes.   *)
(* The instances use the variables x1, x2, ... for theirs; those that an   *)
(* instance does not need are 0.  Spinlock stays in its initial state      *)
(* except in part "locks".                                                 *)
(***************************************************************************)
EXTENDS Spinlock, TLC

VARIABLES part, x1, x2, x3, x4, x5, x6, x7, x8, x9, x10, x11, x12, x13, x14, x15, x16, x17, x18

from5 == <<x5, x6, x7, x8, x9, x10, x11, x12, x13, x14, x15, x16, x17, x18>>
xs == <<x1, x2, x3, x4, from5>>
allvars == <<part, xs, vars>>

From5Zero ==
  /\ x5 = 0 /\ x6 = 0 /\ x7 = 0 /\ x8 = 0 /\ x9 = 0 /\ x10 = 0 /\ x11 = 0 /\ x12 = 0
  /\ x13 = 0 /\ x14 = 0 /\ x15 = 0 /\ x16 = 0 /\ x17 = 0 /\ x18 = 0

\* Two processes of at most three pages and nine physical pages, one of which
\* is a page table of every directory.
V == INSTANCE Vm WITH
       NPROC <- 2, NPAGES <- 9, NPT <- 1, PGSIZE <- 2, USERTOP <- 6, UINT <- 16, Delta <- {3, 5},
       SegEnd <- {3, 5}, Empties <- FALSE, free <- x1, tables <- x2, user <- x3, pst <- x4,
       sz <- x5, pgdir <- x6, kstack <- x7, cr3 <- x8, stale <- x9, pc <- x10, np <- x11,
       d <- x12, old <- x13, new <- x14, a <- x15, held <- x16, panic <- x17, lost <- x18

\* A heap of eight units that grows three at a time.
U == INSTANCE Umalloc WITH
       MINUNITS <- 3, MaxBrk <- 10, Units <- {1, 2, 4}, m <- x1, used <- x2, core <- x3,
       brk <- x4

ASSUME V!VmAssumption

MCInit ==
  /\ Init
  /\ \/ part = "locks" /\ x1 = 0 /\ x2 = 0 /\ x3 = 0 /\ x4 = 0 /\ From5Zero
     \/ part = "vm" /\ V!Init
     \/ part = "malloc" /\ U!Init /\ From5Zero

\* A program that has used up its memory may end, and a kernel that has panicked
\* stands still; only the users of the locks must be able to go on.
MCNext ==
  \/ part = "locks" /\ Next /\ UNCHANGED <<part, xs>>
  \/ part = "vm" /\ V!Next /\ UNCHANGED <<part, vars>>
  \/ part = "malloc" /\ U!Next /\ UNCHANGED <<part, from5, vars>>
  \/ part # "locks" /\ UNCHANGED allvars

MCSpec == MCInit /\ [][MCNext]_allvars

\* CPUs are interchangeable, and so are processes.
Symmetry == Permutations(CPU) \cup Permutations(Proc)

-----------------------------------------------------------------------------
\* A page has one use at most: it is free, or the kernel stack of one process,
\* or a directory, or a page table of one directory, or mapped once; and none is
\* forgotten, however a fork or an exec fails, except by setupkvm.
PagesAccounted == part = "vm" => V!TypeOK /\ V!OwnedOnce /\ V!Accounted

\* A process has the memory it should: in user mode exactly the pages that its
\* size covers (allocuvm, deallocuvm, copyuvm, exec), so that the checks of vm.c
\* never fail ("remap", "copyuvm"); it runs on its own page directory, never on
\* one that was freed; and the processor remembers no page that was taken away.
AddressSpaces == part = "vm" => V!SizeMapped /\ V!NoRemap /\ V!RunsOnOwnMemory

\* Every unit of malloc's memory is in exactly one block, free or allocated; the
\* ring of free blocks is in the order of the addresses but for one step, back
\* to base, so that the loop of free always ends; and no two free blocks touch.
\* malloc asks for more core only when no free block is large enough.
FreeListWhole ==
  /\ [](part = "malloc" => U!TypeOK /\ U!Tiled /\ U!RingSorted /\ U!Coalesced)
  /\ [][part = "malloc" => U!GrowsWhenNeeded]_allvars
=============================================================================
