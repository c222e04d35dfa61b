------------------------------ MODULE Umalloc -------------------------------
(***************************************************************************)
(* The allocator of the user library (umalloc.c), in units of a Header.    *)
(* The free blocks are a ring through their headers, in the order of their *)
(* addresses, from `base', a header of size 0 below the heap.  An allocated*)
(* block keeps its size in its header.  The program may call sbrk itself,  *)
(* which leaves holes between the pieces the allocator gets.               *)
(***************************************************************************)
EXTENDS Integers, FiniteSetsExt

CONSTANTS MINUNITS,  \* the least morecore asks for (4096 in the code)
          MaxBrk,    \* the heap ends here: sbrk fails beyond
          Units      \* the sizes asked for, header included

VARIABLES m,         \* the headers and freep
          used,      \* the headers of the blocks malloc has returned
          core,      \* the units morecore has got from sbrk
          brk        \* the end of the heap

vars == <<m, used, core, brk>>

base == 0
Heap == 2..MaxBrk - 1           \* no header is adjacent to base
Addr == {base} \cup Heap

Init ==
  /\ m = [ptr |-> [a \in Addr |-> base], size |-> [a \in Addr |-> 0], freep |-> base]
  /\ used = {} /\ core = {} /\ brk = 2

\* The k-th header of the ring, from freep on.
Walk(h, n) ==
  LET from[k \in 0..n] == IF k = 0 THEN h.freep ELSE h.ptr[from[k - 1]] IN from[n]
Turns == 1..Cardinality(Addr)

\* The loop of free: the header behind which bp belongs.
Behind(h, bp, p) ==
  \/ bp > p /\ bp < h.ptr[p]
  \/ p >= h.ptr[p] /\ (bp > p \/ bp < h.ptr[p])

\* Mutant: the block is not joined with the one above it.
JoinUpNot(h, bp, p) == [h EXCEPT !.ptr[bp] = h.ptr[p]]

\* What is no longer read of a header is kept 0.
Clear(h, a) == [h EXCEPT !.ptr[a] = base, !.size[a] = 0]

\* bp takes in the block above it if that is free; p is the header below.
JoinUp(h, bp, p) ==
  IF bp + h.size[bp] = h.ptr[p]
  THEN [Clear(h, h.ptr[p]) EXCEPT !.size[bp] = h.size[bp] + h.size[h.ptr[p]],
                                  !.ptr[bp] = h.ptr[h.ptr[p]]]
  ELSE [h EXCEPT !.ptr[bp] = h.ptr[p]]
JoinDown(h, bp, p) ==
  IF p + h.size[p] = bp
  THEN [Clear(h, bp) EXCEPT !.size[p] = h.size[p] + h.size[bp], !.ptr[p] = h.ptr[bp], !.freep = p]
  ELSE [h EXCEPT !.ptr[p] = bp, !.freep = p]
free(h, bp) ==
  LET n == Min({k \in 0..Cardinality(Addr) : Behind(h, bp, Walk(h, k))})
      p == Walk(h, n)
  IN JoinDown(JoinUp(h, bp, p), bp, p)

\* The turns of malloc's loop, from the one behind freep to freep itself, that fit.
Fits(h, nunits) == {k \in Turns : /\ h.size[Walk(h, k)] >= nunits
                                  /\ \A j \in 1..k - 1 : Walk(h, j) # h.freep}

\* The block p, whole or its upper end.
Take(h, prevp, p, nunits) ==
  IF h.size[p] = nunits
  THEN [at |-> p, heap |-> [h EXCEPT !.ptr[p] = base, !.ptr[prevp] = h.ptr[p], !.freep = prevp]]
  ELSE LET q == p + h.size[p] - nunits
       IN [at |-> q, heap |-> [h EXCEPT !.size[p] = @ - nunits, !.size[q] = nunits, !.freep = prevp]]
FirstFit(h, nunits) ==
  LET k == Min(Fits(h, nunits)) IN Take(h, Walk(h, k - 1), Walk(h, k), nunits)

Returns(r) == m' = r.heap /\ used' = used \cup {r.at}

MallocFits(nunits) ==
  Fits(m, nunits) # {} /\ Returns(FirstFit(m, nunits)) /\ UNCHANGED <<core, brk>>

\* morecore, and the loop goes on over the ring with the new block.
MallocGrows(nunits) ==
  LET nu == IF nunits < MINUNITS THEN MINUNITS ELSE nunits IN
  /\ Fits(m, nunits) = {} /\ brk + nu <= MaxBrk
  /\ brk' = brk + nu /\ core' = core \cup (brk..brk + nu - 1)
  /\ Returns(FirstFit(free([m EXCEPT !.size[brk] = nu], brk), nunits))

Free(bp) == bp \in used /\ m' = free(m, bp) /\ used' = used \ {bp} /\ UNCHANGED <<core, brk>>

Sbrk == brk < MaxBrk /\ brk' = brk + 1 /\ UNCHANGED <<m, used, core>>

Next == \/ \E n \in Units : MallocFits(n) \/ MallocGrows(n)
        \/ \E bp \in Heap : Free(bp)
        \/ Sbrk

Spec == Init /\ [][Next]_vars

-----------------------------------------------------------------------------
\* Type correctness of the headers.
TypeOK ==
  /\ m.ptr \in [Addr -> Addr] /\ m.size \in [Addr -> 0..MaxBrk] /\ m.freep \in Addr
  /\ used \subseteq Heap /\ core \subseteq Heap /\ brk \in 2..MaxBrk

Ring == {Walk(m, k) : k \in Turns}
UnitsOf(b) == b..b + m.size[b] - 1

\* Every unit of the allocator's memory is in exactly one block, free or
\* allocated: malloc hands out no unit twice, free and the splitting and
\* joining of blocks lose none.
Tiled ==
  /\ UNION {UnitsOf(b) : b \in used \cup (Ring \ {base})} = core
  /\ \A b, c \in used \cup (Ring \ {base}) : b # c => UnitsOf(b) \cap UnitsOf(c) = {}
  /\ used \cap Ring = {}

\* The ring is in the order of the addresses: it goes up but for one step,
\* back to base, so that the loop of free always ends.
RingSorted ==
  base \in Ring /\ \A b \in Ring : m.ptr[b] # base => m.ptr[b] > b

\* No two free blocks touch: free joins a block with both its neighbours.
Coalesced == \A b, c \in Ring \ {base} : b + m.size[b] # c

\* malloc asks for more core only when no free block is large enough.
GrowsWhenNeeded ==
  \A b \in used' \ used : core' # core => \A c \in Ring : m.size[c] < m'.size[b]
=============================================================================
