-------------------------------- MODULE Fifo --------------------------------
(***************************************************************************)
(* What a pipe promises: a bounded first-in first-out queue of bytes with  *)
(* two ends that close for good.                                           *)
(***************************************************************************)
EXTENDS Naturals, Sequences

CONSTANTS Byte, Capacity

VARIABLES queue, readopen, writeopen

vars == <<queue, readopen, writeopen>>

Init ==
  /\ queue = <<>>
  /\ readopen = TRUE
  /\ writeopen = TRUE

Put(b) ==
  /\ writeopen
  /\ Len(queue) < Capacity
  /\ queue' = Append(queue, b)
  /\ UNCHANGED <<readopen, writeopen>>

Get ==
  /\ readopen
  /\ queue # <<>>
  /\ queue' = Tail(queue)
  /\ UNCHANGED <<readopen, writeopen>>

CloseRead ==
  /\ readopen
  /\ readopen' = FALSE
  /\ UNCHANGED <<queue, writeopen>>

CloseWrite ==
  /\ writeopen
  /\ writeopen' = FALSE
  /\ UNCHANGED <<queue, readopen>>

\* A new pipe in the place of one that is gone.
Create ==
  /\ ~readopen /\ ~writeopen
  /\ queue' = <<>>
  /\ readopen' = TRUE /\ writeopen' = TRUE

Next == (\E b \in Byte : Put(b)) \/ Get \/ CloseRead \/ CloseWrite \/ Create

Spec == Init /\ [][Next]_vars
=============================================================================
