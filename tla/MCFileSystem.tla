---------------------------- MODULE MCFileSystem ----------------------------
(***************************************************************************)
(* The file table (Files), the other parts of the file system above the    *)
(* buffer cache, and mkfs, checked in one run.  part says what a behaviour *)
(* is about; it never changes.  The instances use the variables            *)
(* x1, x2, ... for theirs; those that an instance does not need are 0.     *)
(* Files is empty, without processes, except in part "files".              *)
(***************************************************************************)
EXTENDS Files, TLC

CONSTANTS p1, p2, p3, q1, q2

VARIABLES part, x1, x2, x3, x4, x5, x6, x7, x8, x9, x10, x11, x12, x13, x14

from9 == <<x9, x10, x11, x12, x13, x14>>
from6 == <<x6, x7, x8, from9>>
xs == <<x1, x2, x3, x4, x5, from6>>
allvars == <<part, xs, vars>>

From9Zero == x9 = 0 /\ x10 = 0 /\ x11 = 0 /\ x12 = 0 /\ x13 = 0 /\ x14 = 0
From6Zero == x6 = 0 /\ x7 = 0 /\ x8 = 0 /\ From9Zero
XsZero == x1 = 0 /\ x2 = 0 /\ x3 = 0 /\ x4 = 0 /\ x5 = 0 /\ From6Zero

-----------------------------------------------------------------------------
(* Three processes and two inodes.                                          *)
I == INSTANCE Icache WITH
       Proc <- {p1, p2, p3}, NINODE <- 3, NInum <- 2, MaxLink <- 2,
       inum <- x1, ref <- x2, busy <- x3, valid <- x4, type <- x5, nlink <- x6, dtype <- x7,
       dnlink <- x8, entries <- x9, pc <- x10, op <- x11, ip <- x12, want <- x13, asleep <- x14

(* A directory or file /a and a file below or beside it, made, entered,     *)
(* linked, opened and removed by absolute and relative names, and the       *)
(* errors of a path.                                                        *)
slash_a == <<TRUE, <<"a">>>>
slash_b == <<TRUE, <<"b">>>>
slash_a_b == <<TRUE, <<"a", "b">>>>
here_b == <<FALSE, <<"b">>>>
none == <<>>

PathCalls ==
         {<<"mkdir", slash_a, none>>, <<"unlink", slash_a, none>>, <<"chdir", slash_a, none>>,
          <<"create", here_b, none>>, <<"create", slash_a, none>>, <<"open", slash_a_b, none>>,
          <<"unlink", slash_a_b, none>>, <<"link", slash_a_b, slash_b>>,
          <<"link", slash_a, here_b>>, <<"mkdir", <<TRUE, <<>>>>, none>>,
          <<"unlink", <<FALSE, <<"..">>>>, none>>}

D == INSTANCE Dir WITH
       Proc <- {p1, p2}, Calls <- PathCalls, NInum <- 3, Name <- {"a", "b"}, MaxLink <- 2,
       type <- x1, nlink <- x2, ents <- x3, lock <- x4, th <- x5

(* More files than descriptors, for one process.  (In part "files" two      *)
(* processes have two files and two descriptors each.)                      *)
G == INSTANCE Files WITH
       Proc <- {p1}, NFILE <- 3, NOFILE <- 2, MaxOff <- 2,
       ref <- x1, type <- x2, off <- x3, ofile <- x4, alive <- x5, pc <- x6, child <- x7,
       f0 <- x8, f1 <- x9, drop <- x10, iref <- x11, pipe <- x12, ilock <- x13, at <- x14

(* Two files without direct blocks share six blocks, and the contents of a  *)
(* file with one direct block.                                              *)
B == INSTANCE Blocks WITH
       Inode <- {q1, q2}, NB <- 6, BSIZE <- 2, NDIRECT <- 0, NINDIRECT <- 2, UINT <- 16,
       Byte <- {1}, Count <- {2},
       used <- x1, blk <- x2, addrs <- x3, size <- x4, dinode <- x5, pc <- x6, w <- x7, file <- x8
C == INSTANCE Blocks WITH
       Inode <- {q1}, NB <- 5, BSIZE <- 2, NDIRECT <- 1, NINDIRECT <- 2, UINT <- 16,
       Byte <- {1, 2}, Count <- {1, 3, 15},
       used <- x1, blk <- x2, addrs <- x3, size <- x4, dinode <- x5, pc <- x6, w <- x7, file <- x8

(* An image of two files that fills the bitmap.                             *)
M == INSTANCE Mkfs WITH
       BSIZE <- 3, NDIRECT <- 1, NINDIRECT <- 2, Meta <- 2, MaxBits <- 9, NFILES <- 2,
       Chunks <- {1, 2, 3}, MaxSize <- 10,
       pc <- x1, dinode <- x2, data <- x3, indirect <- x4, freeblock <- x5, freeinode <- x6,
       job <- x7, bitmap <- x8

ASSUME I!IcacheAssumption /\ D!DirAssumption /\ G!FilesAssumption
ASSUME B!BlocksAssumption /\ C!BlocksAssumption

-----------------------------------------------------------------------------
MCInit ==
  \/ part = "files" /\ Init /\ XsZero
  \/ /\ Empty /\ alive = {}
     /\ \/ part = "icache" /\ I!Init
        \/ part = "dir" /\ D!Init /\ From6Zero
        \/ part = "descriptors" /\ G!Init
        \/ part = "blocks" /\ B!Init /\ From9Zero
        \/ part = "contents" /\ C!Init /\ From9Zero
        \/ part = "mkfs" /\ M!Init /\ From9Zero

MCNext ==
  \/ part = "files" /\ Next /\ UNCHANGED <<part, xs>>
  \/ /\ \/ part = "icache" /\ I!Next
        \/ part = "dir" /\ D!Next /\ UNCHANGED from6
        \/ part = "descriptors" /\ G!Next
        \/ part = "blocks" /\ B!Next /\ UNCHANGED from9
        \/ part = "contents" /\ C!Next /\ UNCHANGED from9
        \/ part = "mkfs" /\ M!Next /\ UNCHANGED from9
        \/ part = "mkfs" /\ x1 \in {"done", "assert"} /\ UNCHANGED xs  \* mkfs has ended
     /\ UNCHANGED <<part, vars>>

MCSpec == MCInit /\ [][MCNext]_allvars

\* The modules tell neither processes nor files apart.
Symmetry == Permutations({p1, p2, p3}) \cup Permutations({q1, q2})

-----------------------------------------------------------------------------
\* References are counted right.  In the inode cache (iget, ilock, iput, ialloc)
\* an inode is in one slot, its count is the number of references, and I_BUSY
\* has one holder; a valid copy that nobody is changing is the inode on disk; no
\* process locks a freed inode or frees a busy one; an inode that nobody refers
\* to is in directories as often as its link count says, or free.  And the file
\* table agrees with the descriptors also when these run out first.
ReferencesCounted ==
  /\ part = "icache" =>
       I!TypeOK /\ I!RefsCounted /\ I!CopyCurrent /\ I!NeverFreedInUse /\ I!NothingLeaked
  /\ part = "descriptors" => G!FilesCounted

\* Whoever holds a reference, in a path walk (namex), a file or cwd, holds an
\* allocated inode; the links of what a path leads to cover its names and the
\* ".." of its subdirectories; directories are a tree, and ".." leads up in it
\* (create, sys_link, sys_unlink, sys_chdir).
TreeSound == part = "dir" => D!TypeOK /\ D!HeldAllocated /\ D!LinksCover /\ D!DirTree

\* A block is marked in use exactly when one inode has it in one place
\* ("freeing free block"); free blocks are all zero, on which bmap depends for
\* a new indirect block, since balloc hands blocks out as they are; the inode
\* on disk is the cached one whenever nobody is writing, although bmap changes
\* addresses without iupdate.
BlocksOwned ==
  /\ part = "blocks" => B!TypeOK /\ B!OwnedOnce /\ B!FreeIsZero /\ B!DiskInodeCurrent
  /\ part = "contents" => C!TypeOK /\ C!OwnedOnce

\* readi returns what was written, at every offset and length; and every file of
\* an image that mkfs makes reads back as it was appended, through the kernel's
\* own lookup of blocks, with a bitmap of exactly the blocks in use.
ContentsReadBack ==
  /\ part = "contents" => C!ReadsBack
  /\ part = "mkfs" => M!TypeOK /\ M!ReadsBack /\ M!BitmapExact
=============================================================================
