------------------------------- MODULE Loader -------------------------------
(***************************************************************************)
(* What is put into memory before a program runs: the kernel's segments,   *)
(* read from disk by bootmain.c, and the arguments that exec.c lays out on *)
(* a new stack.  Memory is a function from addresses; writes happen in the *)
(* order of the code, so that a later one covers an earlier one.           *)
(***************************************************************************)
EXTENDS Integers, SequencesExt, FiniteSetsExt

CONSTANTS SECTSIZE, Top,     \* memory is 0..Top - 1
          Images,            \* the program headers of kernels
          ArgLens            \* the lengths of the arguments

VARIABLES call, res

vars == <<call, res>>

None == <<>>
Init == call \in ({"boot"} \X Images) \cup ({"exec"} \X ArgLens) /\ res = None

-----------------------------------------------------------------------------
(* The kernel starts at sector 1 of the disk: its byte o is on the disk at  *)
(* SECTSIZE + o.  A program header is <<va, offset, filesz, memsz>>.        *)

Memory == [i \in -SECTSIZE..Top + SECTSIZE |-> "old"]
readsect(mem, dst, sector) ==
  [i \in DOMAIN mem |-> IF i \in dst..dst + SECTSIZE - 1 THEN sector * SECTSIZE + i - dst ELSE mem[i]]

\* From bytes to sectors.
FirstSector(offset) == offset \div SECTSIZE + 1

readseg(mem, va, count, offset) ==
  LET start == va - (offset % SECTSIZE)
      turns == Max({0, (va + count - start + SECTSIZE - 1) \div SECTSIZE})
      after[n \in 0..turns] ==
        IF n = 0 THEN mem ELSE readsect(after[n - 1], start + (n - 1) * SECTSIZE, FirstSector(offset) + n - 1)
  IN after[turns]

\* A turn of the loop over the program headers.
Load(mem, ph) ==
  LET m == readseg(mem, ph[1], ph[3], ph[2])
  IN [i \in DOMAIN m |-> IF i \in ph[1] + ph[3]..ph[1] + ph[4] - 1 THEN 0 ELSE m[i]]

bootmain(phs) == FoldLeft(Load, Memory, phs)

-----------------------------------------------------------------------------
(* The new stack ends at Top.  A byte is <<what it belongs to, which one>>. *)

Up4(n) == ((n + 3) \div 4) * 4

\* The bytes of the arguments from i on, each with its NUL.
Length(lens, i) == FoldLeft(LAMBDA n, l : n + l + 1, 0, SubSeq(lens, i, Len(lens)))

arglen(lens) == Up4(Length(lens, 1))

argp(lens) == Top - arglen(lens) - 4 * (Len(lens) + 1)

Write(mem, at, n, what) ==
  [i \in DOMAIN mem |-> IF i \in at..at + n - 1 THEN <<what, i - at>> ELSE mem[i]]

\* The strings from the last to the first, each followed by its pointer, and
\* below them the frame of main.
ArgStack(lens) ==
  LET argc == Len(lens)
      strings[i \in 1..argc + 1] ==
        IF i > argc THEN Write(Memory, argp(lens) + 4 * argc, 4, <<"word", 0>>)
        ELSE LET sp == Top - Length(lens, i)
             IN Write(Write(strings[i + 1], sp, lens[i] + 1, <<"arg", i>>),
                      argp(lens) + 4 * (i - 1), 4, <<"word", sp>>)
      m1 == Write(strings[1], argp(lens) - 4, 4, <<"word", argp(lens)>>)
      m2 == Write(m1, argp(lens) - 8, 4, <<"word", argc>>)
  IN [mem |-> Write(m2, argp(lens) - 12, 4, <<"word", -1>>), esp |-> argp(lens) - 12]

-----------------------------------------------------------------------------
Boot == res = None /\ call[1] = "boot" /\ res' = <<bootmain(call[2])>> /\ call' = call
Exec == res = None /\ call[1] = "exec" /\ res' = <<ArgStack(call[2])>> /\ call' = call

Next == Boot \/ Exec

Spec == Init /\ [][Next]_vars

-----------------------------------------------------------------------------
\* Every segment of the kernel is where its header says, and zero behind its
\* part of the file, although whole sectors are read and cover what is around
\* a segment: they are loaded in increasing order, each at the same place of
\* its sector as in the file (bootmain, readseg).
KernelLoaded ==
  res # None /\ call[1] = "boot" =>
    \A k \in DOMAIN call[2] :
      LET ph == call[2][k] IN
      \A o \in 0..ph[4] - 1 :
        res[1][ph[1] + o] = IF o < ph[3] THEN SECTSIZE + ph[2] + o ELSE 0

\* The word at an address, if the four bytes there belong together.
IsWord(mem, at, v) == \A i \in 0..3 : mem[at + i] = <<<<"word", v>>, i>>

\* main finds argc and argv above its return address; argv[i] points to the
\* i-th argument with its NUL, argv[argc] is 0, and nothing on the new stack
\* covers anything else (exec).
ArgsReadable ==
  res # None /\ call[1] = "exec" =>
    LET lens == call[2]
        mem == res[1].mem
        esp == res[1].esp
    IN \E argv \in DOMAIN mem :
         /\ IsWord(mem, esp + 4, Len(lens)) /\ IsWord(mem, esp + 8, argv)
         /\ IsWord(mem, argv + 4 * Len(lens), 0)
         /\ \A i \in DOMAIN lens :
              \E sp \in DOMAIN mem :
                /\ IsWord(mem, argv + 4 * (i - 1), sp)
                /\ \A j \in 0..lens[i] : mem[sp + j] = <<<<"arg", i>>, j>>
=============================================================================
