-------------------------------- MODULE Mkfs --------------------------------
(***************************************************************************)
(* mkfs.c: the file system image.  The bytes of a file are known by the    *)
(* file and their offset, so that the image can be read back: block b      *)
(* holds at o the byte data[b][o].  A file is appended to in chunks, as    *)
(* read returns them; iappend takes a chunk apart at the block boundaries  *)
(* and works on a copy of the inode that it writes back at its end.        *)
(***************************************************************************)
EXTENDS Integers, FiniteSetsExt

CONSTANTS BSIZE, NDIRECT, NINDIRECT,
          Meta,        \* usedblocks before the first file: boot, super, inodes, bitmap
          MaxBits,     \* balloc's bound on the blocks in use (512)
          NFILES,      \* bound on the files put into the image
          Chunks,      \* what read may return
          MaxSize      \* bound on the size of a file

VARIABLES pc,          \* "files", "open", "append", "done", "assert"
          dinode,      \* the inodes on disk: size and addrs; addrs[NDIRECT] is indirect
          data,        \* the data blocks
          indirect,    \* the indirect blocks
          freeblock,   \* usedblocks is always the same
          freeinode,
          job,         \* the arguments and locals of iappend
          bitmap

vars == <<pc, dinode, data, indirect, freeblock, freeinode, job, bitmap>>

ROOTINO == 1
MAXFILE == NDIRECT + NINDIRECT
Inodes == 1..NFILES + 1
Blocks == Meta..Meta + (NFILES + 1) * (MAXFILE + 1)
Nobyte == <<0, 0>>
Empty == [size |-> 0, addrs |-> [k \in 0..NDIRECT |-> 0]]

rinode(inum) == dinode[inum]
winode(inum, din) == dinode' = [dinode EXCEPT ![inum] = din]
ialloc == freeinode' = freeinode + 1 /\ winode(freeinode, Empty)

\* iappend(inum, p, n) begins: off from the inode.
Append(inum, n) == [inum |-> inum, n |-> n, off |-> rinode(inum).size, din |-> rinode(inum)]

\* ialloc(T_DIR) and the entries "." and "..", of one byte each here.
Init ==
  /\ pc = "append" /\ freeinode = 2 /\ freeblock = Meta /\ bitmap = {}
  /\ dinode = [i \in Inodes |-> Empty]
  /\ data = [b \in Blocks |-> [o \in 0..BSIZE - 1 |-> Nobyte]]
  /\ indirect = [b \in Blocks |-> [k \in 0..NINDIRECT - 1 |-> 0]]
  /\ job = [inum |-> ROOTINO, n |-> 2, off |-> 0, din |-> Empty]

\* A file: ialloc(T_FILE), and its entry goes into the root directory.
OpenFile ==
  /\ pc = "files" /\ freeinode <= NFILES + 1
  /\ ialloc /\ job' = Append(ROOTINO, 1) /\ pc' = "append"
  /\ UNCHANGED <<data, indirect, freeblock, bitmap>>

\* The next chunk of the file opened last; its end may come at any time.
ReadFile ==
  /\ pc = "files" /\ freeinode > 2
  /\ \E cc \in Chunks : /\ dinode[freeinode - 1].size + cc <= MaxSize
                        /\ job' = Append(freeinode - 1, cc)
  /\ pc' = "append" /\ UNCHANGED <<dinode, data, indirect, freeblock, freeinode, bitmap>>

\* Where iappend finds the block fbn, allocating what is missing: the block,
\* the inode's copy, the indirect block's number and contents, and freeblock.
Direct(fbn) ==
  LET new == job.din.addrs[fbn] = 0
      x == IF new THEN freeblock ELSE job.din.addrs[fbn]
  IN [x |-> x, din |-> [job.din EXCEPT !.addrs[fbn] = x], ind |-> indirect,
      free |-> freeblock + (IF new THEN 1 ELSE 0)]
Indirect(k) ==
  LET newi == job.din.addrs[NDIRECT] = 0
      b == IF newi THEN freeblock ELSE job.din.addrs[NDIRECT]
      free == freeblock + (IF newi THEN 1 ELSE 0)
      new == indirect[b][k] = 0
      x == IF new THEN free ELSE indirect[b][k]
  IN [x |-> x, din |-> [job.din EXCEPT !.addrs[NDIRECT] = b], ind |-> [indirect EXCEPT ![b][k] = x],
      free |-> free + (IF new THEN 1 ELSE 0)]

\* Mutant: a chunk is not taken apart at the end of a block.
PieceWhole(fbn) == job.n

\* n1: the part of the chunk that goes into the block.
Piece(fbn) == Min({job.n, (fbn + 1) * BSIZE - job.off})

\* A turn of the loop of iappend.
IappendPiece ==
  /\ pc = "append" /\ job.n > 0
  /\ LET fbn == job.off \div BSIZE IN
     IF fbn >= MAXFILE THEN pc' = "assert" /\ UNCHANGED <<data, indirect, freeblock, job>>
     ELSE \E g \in {IF fbn < NDIRECT THEN Direct(fbn) ELSE Indirect(fbn - NDIRECT)} :
            /\ data' = [data EXCEPT ![g.x] =
                 [o \in 0..BSIZE - 1 |->
                    IF o \in (job.off - fbn * BSIZE)..(job.off - fbn * BSIZE + Piece(fbn) - 1)
                    THEN <<job.inum, fbn * BSIZE + o>> ELSE data[g.x][o]]]
            /\ indirect' = g.ind /\ freeblock' = g.free
            /\ job' = [job EXCEPT !.din = g.din, !.n = @ - Piece(fbn), !.off = @ + Piece(fbn)]
            /\ UNCHANGED pc
  /\ UNCHANGED <<dinode, freeinode, bitmap>>

IappendEnd ==
  /\ pc = "append" /\ job.n = 0 /\ pc' = "files"
  /\ winode(job.inum, [job.din EXCEPT !.size = job.off])
  /\ UNCHANGED <<data, indirect, freeblock, freeinode, job, bitmap>>

\* The first blocks are in use, as many as one block of bits may say.
balloc(used) ==
  IF used >= MaxBits THEN pc' = "assert" /\ UNCHANGED bitmap
  ELSE pc' = "done" /\ bitmap' = 0..used - 1

\* The root directory's size is rounded up, and balloc(usedblocks).
Finish ==
  /\ pc = "files"
  /\ LET root == rinode(ROOTINO)
     IN winode(ROOTINO, [root EXCEPT !.size = (@ \div BSIZE + 1) * BSIZE])
  /\ balloc(freeblock)
  /\ UNCHANGED <<data, indirect, freeblock, freeinode, job>>

Next == OpenFile \/ ReadFile \/ IappendPiece \/ IappendEnd \/ Finish

Spec == Init /\ [][Next]_vars

-----------------------------------------------------------------------------
\* Type correctness of the image.
TypeOK ==
  /\ pc \in {"files", "append", "done", "assert"} /\ freeinode \in 2..NFILES + 2
  /\ freeblock \in Meta..Meta + (NFILES + 1) * (MAXFILE + 1) + 1
  /\ \A i \in Inodes : \A k \in 0..NDIRECT : dinode[i].addrs[k] \in Blocks \cup {0}

\* The block the kernel reads for block fbn of an inode (bmap of fs.c); 0:
\* none.
bmap(i, fbn) ==
  IF fbn < NDIRECT THEN dinode[i].addrs[fbn]
  ELSE IF dinode[i].addrs[NDIRECT] = 0 THEN 0 ELSE indirect[dinode[i].addrs[NDIRECT]][fbn - NDIRECT]

\* Between two appends every file reads back as it was appended, byte for
\* byte, through the kernel's own lookup, across direct and indirect blocks
\* and chunks of any size: no two files or offsets share a place.
ReadsBack ==
  pc = "files" => \A i \in Inodes : \A off \in 0..dinode[i].size - 1 :
    LET b == bmap(i, off \div BSIZE) IN b # 0 /\ data[b][off % BSIZE] = <<i, off>>

\* The blocks reached from an inode.
BlocksOf(i) == {bmap(i, f) : f \in 0..MAXFILE - 1} \cup {dinode[i].addrs[NDIRECT]}

\* The bitmap of a finished image marks exactly the blocks before the data
\* and those some inode reaches: the kernel's balloc gives no block of a
\* file away, and no free block is lost.
BitmapExact ==
  pc = "done" => bitmap = (0..Meta - 1) \cup (UNION {BlocksOf(i) : i \in Inodes} \ {0})
=============================================================================
