------------------------------- MODULE Monitor -------------------------------
(***************************************************************************)
(* What proc.c promises of sleep and wakeup: "Atomically release lock and  *)
(* sleep on chan.  Reacquires lock when awakened."  One lock, and for      *)
(* every process the channel it waits on.                                  *)
(***************************************************************************)
CONSTANTS Proc, Chan, NoProc, NoChan

VARIABLES owner, waits

Init ==
  /\ owner = NoProc
  /\ waits = [p \in Proc |-> NoChan]

Acquire(p) ==
  /\ owner = NoProc
  /\ waits[p] = NoChan
  /\ owner' = p
  /\ waits' = waits

Release(p) ==
  /\ owner = p
  /\ owner' = NoProc
  /\ waits' = waits

\* sleep: giving up the lock and starting to wait are one step.
Sleep(p, ch) ==
  /\ owner = p
  /\ owner' = NoProc
  /\ waits' = [waits EXCEPT ![p] = ch]

\* wakeup: every process that waits on the channel, by the lock's owner.
Wakeup(p, ch) ==
  /\ owner = p
  /\ waits' = [q \in Proc |-> IF waits[q] = ch THEN NoChan ELSE waits[q]]
  /\ owner' = owner

Next ==
  \E p \in Proc :
    \/ Acquire(p) \/ Release(p)
    \/ \E ch \in Chan : Sleep(p, ch) \/ Wakeup(p, ch)

Spec == Init /\ [][Next]_<<owner, waits>>
=============================================================================
