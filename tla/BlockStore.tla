----------------------------- MODULE BlockStore -----------------------------
(***************************************************************************)
(* What the buffer cache promises the file system (the interface in the    *)
(* comment at the top of bio.c): a process has a block to itself from      *)
(* bread to brelse, sees what is on disk, and writes it back whole before  *)
(* it gives it up.  There are no buffers, flags or queues here.            *)
(***************************************************************************)
CONSTANTS Proc, Sector, Value, None

VARIABLES block,  \* contents of the blocks
          owner,  \* the block that a process has, or None
          copy    \* the contents that it has of its block, or None

vars == <<block, owner, copy>>

Init ==
  /\ block \in [Sector -> Value]
  /\ owner = [p \in Proc |-> None] /\ copy = [p \in Proc |-> None]

\* A process gets a block that no one has.
Acquire(p) ==
  /\ owner[p] = None
  /\ owner'[p] \in Sector /\ \A q \in Proc : owner[q] # owner'[p]
  /\ owner' = [owner EXCEPT ![p] = owner'[p]]
  /\ UNCHANGED <<block, copy>>

\* It is read once: what is on disk never replaces a change.
Read(p) ==
  /\ owner[p] # None /\ copy[p] = None
  /\ copy' = [copy EXCEPT ![p] = block[owner[p]]]
  /\ UNCHANGED <<block, owner>>

\* A copy is changed as a whole, and only when it is what the block holds.
Change(p, v) ==
  /\ owner[p] # None /\ copy[p] = block[owner[p]]
  /\ copy' = [copy EXCEPT ![p] = v]
  /\ UNCHANGED <<block, owner>>

Write(p) ==
  /\ owner[p] # None /\ copy[p] \in Value
  /\ block' = [block EXCEPT ![owner[p]] = copy[p]]
  /\ UNCHANGED <<owner, copy>>

\* No change is given up before it is written.
Release(p) ==
  /\ owner[p] # None /\ copy[p] = block[owner[p]]
  /\ owner' = [owner EXCEPT ![p] = None] /\ copy' = [copy EXCEPT ![p] = None]
  /\ UNCHANGED block

Next ==
  \E p \in Proc :
    Acquire(p) \/ Read(p) \/ (\E v \in Value : Change(p, v)) \/ Write(p) \/ Release(p)

Spec == Init /\ [][Next]_vars
=============================================================================
