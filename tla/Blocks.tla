------------------------------- MODULE Blocks -------------------------------
(***************************************************************************)
(* File contents on disk blocks: balloc, bfree, bmap, itrunc, readi and    *)
(* writei of fs.c, with direct blocks and one indirect block per inode.    *)
(*                                                                         *)
(* A step uses one block under its buffer; an inode is used by whoever has *)
(* it locked, so there is one writer per inode and only the bitmap is      *)
(* shared.  A cell of a block holds a byte or, in an indirect block, the   *)
(* number of a block; 0 is the byte zero and no block.                     *)
(***************************************************************************)
EXTENDS Integers, Sequences, FiniteSets, FiniteSetsExt

CONSTANTS Inode, NB, BSIZE, NDIRECT, NINDIRECT,
          UINT,   \* unsigned arithmetic is modulo UINT
          Byte, Count

BlocksAssumption ==
  /\ NB \in Nat \ {0} /\ BSIZE \in Nat \ {0} /\ NDIRECT \in Nat /\ NINDIRECT \in 1..BSIZE
  /\ NB >= Cardinality(Inode) * (NDIRECT + 1 + NINDIRECT)
  /\ UINT > 2 * BSIZE * (NDIRECT + NINDIRECT)
  /\ Byte \subseteq Nat \ {0} /\ Count \subseteq 1..UINT - 1

Block == 1..NB
Cell == 0..BSIZE - 1
MAXFILE == NDIRECT + NINDIRECT

VARIABLES
  used, blk,        \* the bitmap and the contents of the blocks
  addrs, size,      \* the cached inodes
  dinode,           \* the inodes on disk
  pc, w,            \* what is being done to an inode
  file              \* what has been written to it: the reference

vars == <<used, blk, addrs, size, dinode, pc, w, file>>

Zero == [c \in Cell |-> 0]
NoAddrs == [k \in 0..NDIRECT |-> 0]
NoCall == [off |-> 0, n |-> 0, tot |-> 0, v |-> 0]

Init ==
  /\ used = {} /\ blk = [b \in Block |-> Zero]
  /\ addrs = [i \in Inode |-> NoAddrs] /\ size = [i \in Inode |-> 0]
  /\ dinode = [i \in Inode |-> [addrs |-> NoAddrs, size |-> 0]]
  /\ pc = [i \in Inode |-> "idle"] /\ w = [i \in Inode |-> NoCall]
  /\ file = [i \in Inode |-> <<>>]

-----------------------------------------------------------------------------
\* balloc returns the first free block; it does not clear it.
balloc == Min(Block \ used)

\* Mutant: the block is not cleared.
BfreeDirty(b) == used' = used \ {b} /\ UNCHANGED blk

bfree(b) == used' = used \ {b} /\ blk' = [blk EXCEPT ![b] = Zero]

\* Where bmap finds block bn of a file, 0 if it has to be allocated.
Addr(i, bn) ==
  IF bn < NDIRECT THEN addrs[i][bn]
  ELSE IF addrs[i][NDIRECT] = 0 THEN 0 ELSE blk[addrs[i][NDIRECT]][bn - NDIRECT]

\* readi: the bytes it copies, or <<-1>>.
readi(i, off, n) ==
  IF off > size[i] \/ (off + n) % UINT < off THEN <<-1>>
  ELSE LET m == IF off + n > size[i] THEN size[i] - off ELSE n
       IN [k \in 1..m |-> LET o == off + k - 1 IN blk[Addr(i, o \div BSIZE)][o % BSIZE]]

-----------------------------------------------------------------------------
\* The length is cut to what a file can hold.
Clamped(off, n) == IF off + n > MAXFILE * BSIZE THEN MAXFILE * BSIZE - off ELSE n

\* writei's tests; the bytes written are all v.
writei(i, off, n, v) ==
  /\ pc[i] = "idle"
  /\ off <= size[i] /\ (off + n) % UINT >= off
  /\ pc' = [pc EXCEPT ![i] = "writei"]
  /\ w' = [w EXCEPT ![i] = [off |-> off, n |-> Clamped(off, n), tot |-> 0, v |-> v]]
  /\ UNCHANGED <<used, blk, addrs, size, dinode, file>>

Bn(i) == w[i].off \div BSIZE
More(i) == pc[i] = "writei" /\ w[i].tot < w[i].n

\* bmap allocates a direct block, the indirect block, or a block in it.
BmapDirect(i) ==
  /\ More(i) /\ Bn(i) < NDIRECT /\ addrs[i][Bn(i)] = 0
  /\ addrs' = [addrs EXCEPT ![i][Bn(i)] = balloc]
  /\ used' = used \cup {balloc}
  /\ UNCHANGED <<blk, size, dinode, pc, w, file>>

BmapLoad(i) ==
  /\ More(i) /\ Bn(i) >= NDIRECT /\ addrs[i][NDIRECT] = 0
  /\ addrs' = [addrs EXCEPT ![i][NDIRECT] = balloc]
  /\ used' = used \cup {balloc}
  /\ UNCHANGED <<blk, size, dinode, pc, w, file>>

BmapIndirect(i) ==
  /\ More(i) /\ Bn(i) >= NDIRECT /\ addrs[i][NDIRECT] # 0 /\ Addr(i, Bn(i)) = 0
  /\ blk' = [blk EXCEPT ![addrs[i][NDIRECT]][Bn(i) - NDIRECT] = balloc]
  /\ used' = used \cup {balloc}
  /\ UNCHANGED <<addrs, size, dinode, pc, w, file>>

Put(s, k, v) == IF k <= Len(s) THEN [s EXCEPT ![k] = v] ELSE Append(s, v)

\* One turn of the loop writes up to the end of the block.
WriteBlock(i) ==
  LET b == Addr(i, Bn(i))
      o == w[i].off % BSIZE
      m == Min({w[i].n - w[i].tot, BSIZE - o})
      extend[k \in 0..m] == IF k = 0 THEN file[i] ELSE Put(extend[k - 1], w[i].off + k, w[i].v)
  IN /\ More(i) /\ b # 0
     /\ blk' = [blk EXCEPT ![b] = [c \in Cell |-> IF c \in o..o + m - 1 THEN w[i].v ELSE @[c]]]
     /\ w' = [w EXCEPT ![i].off = @ + m, ![i].tot = @ + m]
     /\ file' = [file EXCEPT ![i] = extend[m]]
     /\ UNCHANGED <<used, addrs, size, dinode, pc>>

\* The file has grown: its size and addresses go to disk.
WriteDone(i) ==
  /\ pc[i] = "writei" /\ ~More(i)
  /\ IF w[i].n > 0 /\ w[i].off > size[i]
     THEN /\ size' = [size EXCEPT ![i] = w[i].off]
          /\ dinode' = [dinode EXCEPT ![i] = [addrs |-> addrs[i], size |-> w[i].off]]
     ELSE UNCHANGED <<size, dinode>>
  /\ pc' = [pc EXCEPT ![i] = "idle"] /\ w' = [w EXCEPT ![i] = NoCall]
  /\ UNCHANGED <<used, blk, addrs, file>>

-----------------------------------------------------------------------------
itrunc(i) ==
  /\ pc[i] = "idle" /\ size[i] > 0
  /\ pc' = [pc EXCEPT ![i] = "itrunc"]
  /\ file' = [file EXCEPT ![i] = <<>>]
  /\ UNCHANGED <<used, blk, addrs, size, dinode, w>>

TruncDirect(i) ==
  LET ks == {k \in 0..NDIRECT - 1 : addrs[i][k] # 0} IN
  /\ pc[i] = "itrunc" /\ ks # {}
  /\ bfree(addrs[i][Min(ks)])
  /\ addrs' = [addrs EXCEPT ![i][Min(ks)] = 0]
  /\ UNCHANGED <<size, dinode, pc, w, file>>

\* Next entry of the indirect block at or behind w.tot; entries are not cleared.
Entries(i) == {j \in w[i].tot..NINDIRECT - 1 : blk[addrs[i][NDIRECT]][j] # 0}
DirectGone(i) == pc[i] = "itrunc" /\ \A k \in 0..NDIRECT - 1 : addrs[i][k] = 0

TruncEntry(i) ==
  /\ DirectGone(i) /\ addrs[i][NDIRECT] # 0 /\ Entries(i) # {}
  /\ bfree(blk[addrs[i][NDIRECT]][Min(Entries(i))])
  /\ w' = [w EXCEPT ![i].tot = Min(Entries(i)) + 1]
  /\ UNCHANGED <<addrs, size, dinode, pc, file>>

TruncIndirect(i) ==
  /\ DirectGone(i) /\ addrs[i][NDIRECT] # 0 /\ Entries(i) = {}
  /\ bfree(addrs[i][NDIRECT])
  /\ addrs' = [addrs EXCEPT ![i][NDIRECT] = 0]
  /\ UNCHANGED <<size, dinode, pc, w, file>>

TruncDone(i) ==
  /\ DirectGone(i) /\ addrs[i][NDIRECT] = 0
  /\ size' = [size EXCEPT ![i] = 0]
  /\ dinode' = [dinode EXCEPT ![i] = [addrs |-> addrs[i], size |-> 0]]
  /\ pc' = [pc EXCEPT ![i] = "idle"] /\ w' = [w EXCEPT ![i] = NoCall]
  /\ UNCHANGED <<used, blk, addrs, file>>

Next == \E i \in Inode :
  \/ \E off \in 0..MAXFILE * BSIZE, n \in Count, v \in Byte : writei(i, off, n, v)
  \/ BmapDirect(i) \/ BmapLoad(i) \/ BmapIndirect(i) \/ WriteBlock(i) \/ WriteDone(i)
  \/ itrunc(i) \/ TruncDirect(i) \/ TruncEntry(i) \/ TruncIndirect(i) \/ TruncDone(i)

Spec == Init /\ [][Next]_vars

-----------------------------------------------------------------------------
TypeOK ==
  /\ used \subseteq Block
  /\ blk \in [Block -> [Cell -> Nat]]
  /\ addrs \in [Inode -> [0..NDIRECT -> 0..NB]]
  /\ size \in [Inode -> 0..MAXFILE * BSIZE]
  /\ pc \in [Inode -> {"idle", "writei", "itrunc"}]

\* The entries of the indirect block, less those a truncation has freed.
Listed(i) ==
  IF addrs[i][NDIRECT] = 0 THEN {}
  ELSE {j \in (IF pc[i] = "itrunc" THEN w[i].tot ELSE 0)..NINDIRECT - 1 :
          blk[addrs[i][NDIRECT]][j] # 0}

\* The places of inodes and their indirect blocks that hold a block, with it.
Places ==
  {<<i, k, addrs[i][k]>> : i \in Inode, k \in 0..NDIRECT} \cup
  UNION {{<<i, NDIRECT + 1 + j, blk[addrs[i][NDIRECT]][j]>> : j \in Listed(i)} : i \in Inode}

\* A block is marked in use exactly when one inode has it in one place: none is
\* shared, lost or freed twice ("freeing free block").
OwnedOnce ==
  \A P \in {{x \in Places : x[3] # 0}} :
    used = {x[3] : x \in P} /\ Cardinality(used) = Cardinality(P)

\* Free blocks are all zero.  bmap depends on it for a new indirect block, since
\* balloc hands blocks out as they are.
FreeIsZero == \A b \in Block \ used : blk[b] = Zero

\* readi returns what was written, at every offset and length.
ReadsBack ==
  \A i \in Inode : pc[i] = "idle" =>
    /\ size[i] = Len(file[i])
    /\ \A off \in 0..MAXFILE * BSIZE, n \in Count :
         readi(i, off, n) = IF off > size[i] \/ off + n >= UINT THEN <<-1>>
                            ELSE SubSeq(file[i], off + 1, Min({off + n, size[i]}))

\* The inode on disk is the cached one whenever nobody is writing: bmap changes
\* addresses without iupdate and relies on the file growing.
DiskInodeCurrent ==
  \A i \in Inode : pc[i] = "idle" => dinode[i] = [addrs |-> addrs[i], size |-> size[i]]
=============================================================================
