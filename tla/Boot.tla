-------------------------------- MODULE Boot --------------------------------
(***************************************************************************)
(* The start of the processors: bootothers and mpmain of main.c,           *)
(* lapicstartap of lapic.c and bootother.S.  The boot processor starts the *)
(* others one by one; each of them finds its stack in one word of memory   *)
(* (code-4) that the boot processor fills in anew for every one of them.   *)
(* A startup message is sent twice and taken at any later time; only a     *)
(* processor that waits after an INIT takes one.                           *)
(***************************************************************************)
EXTENDS Integers

CONSTANTS ncpu, bcpu    \* the processors 0..ncpu-1; the one that boots
BootAssumption == ncpu \in Nat \ {0} /\ bcpu \in 0..ncpu - 1

VARIABLES c,       \* the loop variable of bootothers
          bpc,     \* where the boot processor is
          code4,   \* the word at code-4
          ipis,    \* startup messages on their way to each processor
          apc,     \* where each processor is
          esp,     \* the stack of each processor; 0: none yet
          booted   \* cpu->booted

vars == <<c, bpc, code4, ipis, apc, esp, booted>>

CPUs == 0..ncpu - 1
BootStack == ncpu + 1      \* allocated by jkstack; kalloc gives c + 1 for c

Init ==
  /\ c = 0 /\ bpc = "loop" /\ code4 = 0 /\ ipis = [i \in CPUs |-> 0]
  /\ apc = [i \in CPUs |-> IF i = bcpu THEN "boot" ELSE "off"]
  /\ esp = [i \in CPUs |-> IF i = bcpu THEN BootStack ELSE 0]
  /\ booted = [i \in CPUs |-> FALSE]

\* The loop skips the boot processor and ends in mpmain.
Skip ==
  /\ bpc = "loop" /\ c = bcpu /\ c' = c + 1
  /\ UNCHANGED <<bpc, code4, ipis, apc, esp, booted>>

Stack ==
  /\ bpc = "loop" /\ c \in CPUs \ {bcpu}
  /\ code4' = c + 1 /\ bpc' = "init" /\ UNCHANGED <<c, ipis, apc, esp, booted>>

\* lapicstartap: INIT, then STARTUP twice.
SendInit ==
  /\ bpc = "init" /\ bpc' = "startup1"
  /\ apc' = [apc EXCEPT ![c] = "reset"] /\ UNCHANGED <<c, code4, ipis, esp, booted>>

SendStartup ==
  /\ bpc \in {"startup1", "startup2"}
  /\ bpc' = IF bpc = "startup1" THEN "startup2" ELSE "wait"
  /\ ipis' = [ipis EXCEPT ![c] = @ + 1] /\ UNCHANGED <<c, code4, apc, esp, booted>>

\* Mutant: the boot processor does not wait.
WaitNot ==
  /\ bpc = "wait" /\ bpc' = "loop" /\ c' = c + 1
  /\ UNCHANGED <<code4, ipis, apc, esp, booted>>

Wait ==
  /\ bpc = "wait" /\ booted[c] /\ bpc' = "loop" /\ c' = c + 1
  /\ UNCHANGED <<code4, ipis, apc, esp, booted>>

BootDone ==
  /\ bpc = "loop" /\ c = ncpu /\ bpc' = "done" /\ apc' = [apc EXCEPT ![bcpu] = "mpmain"]
  /\ UNCHANGED <<c, code4, ipis, esp, booted>>

bootothers == Skip \/ Stack \/ SendInit \/ SendStartup \/ Wait \/ BootDone

\* A startup message arrives; only a processor in reset starts.
TakeStartup(i) ==
  /\ ipis[i] > 0 /\ ipis' = [ipis EXCEPT ![i] = @ - 1]
  /\ apc' = [apc EXCEPT ![i] = IF @ = "reset" THEN "start" ELSE @]
  /\ UNCHANGED <<c, bpc, code4, esp, booted>>

\* bootother.S: the stack from code-4, then mpmain.
Start32(i) ==
  /\ apc[i] = "start" /\ apc' = [apc EXCEPT ![i] = "mpmain"]
  /\ esp' = [esp EXCEPT ![i] = code4] /\ UNCHANGED <<c, bpc, code4, ipis, booted>>

\* mpmain: xchg(&cpu->booted, 1), then the scheduler.
mpmain(i) ==
  /\ apc[i] = "mpmain" /\ apc' = [apc EXCEPT ![i] = "scheduler"]
  /\ booted' = [booted EXCEPT ![i] = TRUE] /\ UNCHANGED <<c, bpc, code4, ipis, esp>>

Cpu(i) == TakeStartup(i) \/ Start32(i) \/ mpmain(i)

Next == bootothers \/ \E i \in CPUs : Cpu(i)

Spec == Init /\ [][Next]_vars

-----------------------------------------------------------------------------
\* Type correctness of the boot state.
TypeOK ==
  /\ c \in 0..ncpu /\ code4 \in 0..ncpu /\ ipis \in [CPUs -> 0..2] /\ esp \in [CPUs -> 0..BootStack]
  /\ bpc \in {"loop", "init", "startup1", "startup2", "wait", "done"} /\ booted \in [CPUs -> BOOLEAN]
  /\ apc \in [CPUs -> {"off", "reset", "start", "boot", "mpmain", "scheduler"}]

\* Every processor runs on the stack allocated for it, and no two on one:
\* the word at code-4 is not changed before its reader has read it, however
\* late the startup messages arrive.
OwnStack ==
  \A i \in CPUs : apc[i] \in {"mpmain", "scheduler"} =>
    esp[i] = IF i = bcpu THEN BootStack ELSE i + 1

\* Where the boot processor is, and what it has left in code-4 and sent.
LoopInv ==
  /\ bpc \in {"init", "startup1", "startup2", "wait"} =>
       c \in CPUs \ {bcpu} /\ code4 = c + 1
  /\ ipis[bcpu] = 0
  /\ \A i \in CPUs : i > c => ipis[i] = 0 /\ apc[i] \in {"off", "boot"} /\ ~booted[i]
  /\ c \in CPUs /\ bpc \in {"loop", "init", "startup1"} => ipis[c] = 0
  /\ c \in CPUs /\ bpc \in {"loop", "init"} => apc[c] \in {"off", "boot"}
  /\ bpc = "startup2" => ipis[c] <= 1

\* Where the others are: only the processor the boot processor waits for is
\* on its way to reading code-4.
ApInv ==
  /\ apc[bcpu] \in {"boot", "mpmain", "scheduler"} /\ esp[bcpu] = BootStack
  /\ \A i \in CPUs \ {bcpu} :
       /\ apc[i] # "boot"
       /\ apc[i] \in {"reset", "start"} => i = c /\ bpc \in {"startup1", "startup2", "wait"}
       /\ booted[i] => apc[i] = "scheduler"
       /\ apc[i] \in {"mpmain", "scheduler"} => esp[i] = i + 1

AllStarted == \A i \in CPUs : apc[i] = "scheduler"
=============================================================================
