---------------------------- MODULE DeviceProofs ----------------------------
(***************************************************************************)
(* What processes and interrupt handlers share.  The buffer cache keeps    *)
(* blocks coherent and its list and the queue of the disk whole, for any   *)
(* number of processes, buffers and blocks; the console keeps finished     *)
(* input until it is read, for any size of its ring, any wrap of its       *)
(* indexes and any readers.                                                *)
(***************************************************************************)
EXTENDS MCDevices, TLAPS

\* Leaves go to Zenon; the ones that are about numbers name SMT.
USE Zenon

-----------------------------------------------------------------------------
(* Sequences.                                                              *)

\* The empty sequence is one, and the only one of length 0 (idequeue, input).
LEMMA EmptySequence ==
  ASSUME NEW S
  PROVE  /\ <<>> \in Seq(S) /\ Len(<<>>) = 0
         /\ \A s \in Seq(S) : s # <<>> => Len(s) \in Nat \ {0}
<1>1. <<>> \in Seq(S) /\ Len(<<>>) = 0
  BY SMT
<1>2. \A s \in Seq(S) : s # <<>> => Len(s) \in Nat \ {0}
  BY SMT
<1> QED BY <1>1, <1>2

\* A sequence is a function on its indexes (the characters of input).
LEMMA SequenceIsFunction == ASSUME NEW S, NEW s \in Seq(S) PROVE s \in [1..Len(s) -> S]
BY SMT

\* And a function on 1 to d is a sequence.
LEMMA FunctionIsSequence ==
  ASSUME NEW S, NEW d \in Nat, NEW f \in [1..d -> S]
  PROVE  f \in Seq(S) /\ Len(f) = d
<1>1. f \in Seq(S)
  BY SMT
<1>2. Len(f) = d
  BY SMT
<1> QED BY <1>1, <1>2

-----------------------------------------------------------------------------
(* Constants and types.                                                    *)

\* The head of the list is not a buffer.
LEMMA Heads ==
  /\ NBUF \in Nat \ {0} /\ None \notin Sector
  /\ head \notin Buf /\ head \in 0..NBUF
  /\ \A b \in Buf : b \in 0..NBUF /\ b # head
  /\ \A b \in 0..NBUF : b # head => b \in Buf
<1>1. NBUF \in Nat \ {0} /\ None \notin Sector
  BY BcacheAssumption
<1> QED BY <1>1, SMT DEF Buf, head

\* The buffer of a process that has one.
LEMMA HeldBuffer ==
  ASSUME TypeOK, NEW p \in Proc, buf[p] # head
  PROVE  buf[p] \in Buf
<1>1. buf[p] \in 0..NBUF
  BY DEF TypeOK
<1> QED BY <1>1, Heads

-----------------------------------------------------------------------------
(* The queue of the disk.                                                  *)

\* iderw appends a request (ide.c).
LEMMA QueueAppend ==
  ASSUME NEW Q \in Seq(Buf), NEW b \in Buf
  PROVE  /\ Append(Q, b) \in Seq(Buf) /\ Append(Q, b) # <<>>
         /\ Len(Append(Q, b)) = Len(Q) + 1 /\ Len(Q) \in Nat
         /\ \A i \in 1..Len(Q) : Append(Q, b)[i] = Q[i]
         /\ Append(Q, b)[Len(Q) + 1] = b
BY SMT

\* ideintr takes the first request off.
LEMMA QueueTail ==
  ASSUME NEW Q \in Seq(Buf), Q # <<>>
  PROVE  /\ Tail(Q) \in Seq(Buf) /\ Q[1] \in Buf
         /\ Len(Q) \in Nat /\ Len(Q) >= 1 /\ Len(Tail(Q)) = Len(Q) - 1
         /\ \A i \in 1..Len(Q) - 1 : Tail(Q)[i] = Q[i + 1]
         /\ Len(Q) > 1 => Q[2] \in Buf
         /\ Tail(Q) = <<>> <=> ~(Len(Q) > 1)
<1>1. Len(Q) \in Nat /\ Len(Q) >= 1 /\ Q[1] \in Buf
  BY SMT
<1>2. Tail(Q) \in Seq(Buf) /\ Len(Tail(Q)) = Len(Q) - 1
  BY <1>1, SMT
<1>3. \A i \in 1..Len(Q) - 1 : Tail(Q)[i] = Q[i + 1]
  BY <1>1, <1>2, SMT
<1>4. Len(Q) > 1 => Q[2] \in Buf
  BY SMT
<1>5. Tail(Q) = <<>> <=> Len(Tail(Q)) = 0
  BY <1>2, EmptySequence
<1>6. Tail(Q) = <<>> <=> ~(Len(Q) > 1)
  BY <1>1, <1>2, <1>5, SMT
<1> QED BY <1>1, <1>2, <1>3, <1>4, <1>6

-----------------------------------------------------------------------------
(* The list of buffers.                                                    *)

\* binit makes a whole list.
LEMMA ListInit == Init => ListWhole
<1> SUFFICES ASSUME Init PROVE ListWhole
  OBVIOUS
<1> DEFINE f == [k \in 0..NBUF |-> IF k = 0 THEN 0 ELSE NBUF + 1 - k]
<1>0. NBUF \in Nat \ {0}
  BY Heads
<1>1. f \in [0..NBUF -> 0..NBUF]
  BY <1>0, SMT
<1>2. /\ next = [b \in 0..NBUF |-> IF b = 0 THEN NBUF ELSE b - 1]
      /\ prev = [b \in 0..NBUF |-> IF b = NBUF THEN 0 ELSE b + 1]
  BY DEF Init, head
<1>3. \A b \in 0..NBUF : prev[next[b]] = b
  BY <1>0, <1>2, SMT
<1>4. \A b \in 0..NBUF : \E k \in 0..NBUF : f[k] = b
  <2> TAKE b \in 0..NBUF
  <2>1. CASE b = 0
    <3>1. 0 \in 0..NBUF /\ f[0] = b
      BY <2>1, <1>0, SMT
    <3> QED BY <3>1
  <2>2. CASE b # 0
    <3>1. NBUF + 1 - b \in 0..NBUF /\ f[NBUF + 1 - b] = b
      BY <2>2, <1>0, SMT
    <3> QED BY <3>1
  <2> QED BY <2>1, <2>2
<1>5. \A j, k \in 0..NBUF : f[j] = f[k] => j = k
  BY <1>0, SMT
<1>6. \A k \in 1..NBUF : next[f[k - 1]] = f[k]
  BY <1>0, <1>2, SMT
<1>7. f[0] = 0 /\ next[f[NBUF]] = 0
  BY <1>0, <1>2, SMT
<1>8. Order(f)
  BY <1>4, <1>5, <1>6, <1>7 DEF Order, head
<1> QED BY <1>1, <1>3, <1>8 DEF ListWhole

\* What Relink does to the two links, pointwise: b leaves its place between q and
\* n and goes in between the head and g.
Relinked(b, q, n, g) ==
  /\ next'[head] = b /\ next'[b] = g
  /\ next'[q] = n
  /\ \A c \in 0..NBUF \ {head, b, q} : next'[c] = next[c]
  /\ prev'[b] = head /\ prev'[g] = b
  /\ prev'[n] = q
  /\ \A c \in 0..NBUF \ {b, g, n} : prev'[c] = prev[c]

\* The links that brelse writes (bio.c).
Relink(b) ==
  LET prev1 == [prev EXCEPT ![next[b]] = prev[b]]
      next1 == [next EXCEPT ![prev[b]] = next[b]]
      next2 == [next1 EXCEPT ![b] = next1[head]]
  IN /\ prev' = [prev1 EXCEPT ![b] = head, ![next2[head]] = b]
     /\ next' = [next2 EXCEPT ![head] = b]

\* A buffer that is the most recently used already stays in its place.
LEMMA FirstStays ==
  ASSUME TypeOK, ListWhole, NEW b \in Buf, Relink(b), next[head] = b
  PROVE  next' = next /\ prev' = prev
<1>1. /\ next \in [0..NBUF -> 0..NBUF] /\ prev \in [0..NBUF -> 0..NBUF]
      /\ b \in 0..NBUF /\ b # 0 /\ 0 \in 0..NBUF /\ NBUF \in Nat
  BY Heads DEF TypeOK, head
<1>2. prev[b] = 0 /\ prev[next[b]] = b /\ next[b] \in 0..NBUF /\ next[0] = b
  BY <1>1 DEF ListWhole, head
<1>3. next[b] # b
  BY <1>1, <1>2
<1> DEFINE n == next[b]
           prev1 == [prev EXCEPT ![n] = prev[b]]
           next1 == [next EXCEPT ![prev[b]] = n]
           next2 == [next1 EXCEPT ![b] = next1[0]]
<1>4. next1 \in [0..NBUF -> 0..NBUF] /\ prev1 \in [0..NBUF -> 0..NBUF]
  BY <1>1, <1>2
<1>5. next1[0] = n /\ \A c \in 0..NBUF : c # 0 => next1[c] = next[c]
  BY <1>1, <1>2
<1>6. next2 \in [0..NBUF -> 0..NBUF] /\ \A c \in 0..NBUF : c # 0 => next2[c] = next[c]
  BY <1>1, <1>2, <1>4, <1>5
<1>7. next2[0] = n
  BY <1>1, <1>4, <1>5
<1>8. /\ prev' = [prev1 EXCEPT ![b] = 0, ![n] = b]
      /\ next' = [next2 EXCEPT ![0] = b]
  BY <1>7 DEF Relink, head
<1>9. next' \in [0..NBUF -> 0..NBUF] /\ \A c \in 0..NBUF : next'[c] = next[c]
  BY <1>1, <1>2, <1>6, <1>8
<1>10. prev' \in [0..NBUF -> 0..NBUF] /\ \A c \in 0..NBUF : prev'[c] = prev[c]
  BY <1>1, <1>2, <1>3, <1>4, <1>8, SMT
<1>11. next' = [c \in 0..NBUF |-> next[c]] /\ next = [c \in 0..NBUF |-> next[c]]
  BY <1>1, <1>9
<1>12. prev' = [c \in 0..NBUF |-> prev[c]] /\ prev = [c \in 0..NBUF |-> prev[c]]
  BY <1>1, <1>10
<1> QED BY <1>11, <1>12

\* Any other buffer moves to the front.
LEMMA OthersMove ==
  ASSUME TypeOK, ListWhole, NEW b \in Buf, Relink(b), next[head] # b
  PROVE  /\ next' \in [0..NBUF -> 0..NBUF] /\ prev' \in [0..NBUF -> 0..NBUF]
         /\ Relinked(b, prev[b], next[b], next[head])
<1>1. /\ next \in [0..NBUF -> 0..NBUF] /\ prev \in [0..NBUF -> 0..NBUF]
      /\ b \in 0..NBUF /\ b # 0 /\ 0 \in 0..NBUF /\ NBUF \in Nat
  BY Heads DEF TypeOK, head
<1> DEFINE q == prev[b]  n == next[b]  g == next[0]
           prev1 == [prev EXCEPT ![n] = q]
           next1 == [next EXCEPT ![q] = n]
           next2 == [next1 EXCEPT ![b] = next1[0]]
<1>2. q \in 0..NBUF /\ n \in 0..NBUF /\ g \in 0..NBUF
  BY <1>1
<1>3. \E c \in 0..NBUF : next[c] = b
  <2>1. PICK f \in [0..NBUF -> 0..NBUF] : Order(f)
    BY DEF ListWhole
  <2>2. PICK k \in 0..NBUF : f[k] = b
    BY <1>1, <2>1 DEF Order
  <2>3. f[0] = 0
    BY <2>1 DEF Order, head
  <2>6. k # 0
    BY <1>1, <2>2, <2>3
  <2>4. k \in 1..NBUF /\ k - 1 \in 0..NBUF
    BY <1>1, <2>6, SMT
  <2>5. next[f[k - 1]] = b /\ f[k - 1] \in 0..NBUF
    BY <2>1, <2>2, <2>4 DEF Order
  <2> QED BY <2>5
<1>4. next[q] = b /\ prev[n] = b /\ prev[g] = 0
  <2>1. \A c \in 0..NBUF : prev[next[c]] = c
    BY DEF ListWhole
  <2>2. PICK c \in 0..NBUF : next[c] = b
    BY <1>3
  <2>3. q = c
    BY <2>1, <2>2
  <2> QED BY <1>1, <2>1, <2>2, <2>3
<1>5. q # 0 /\ g # b
  BY <1>4 DEF head
<1>6. n # g
  BY <1>1, <1>4
<1>7. q # b => n # b
  BY <1>1, <1>4
<1>8. q # b
  <2>1. PICK f \in [0..NBUF -> 0..NBUF] : Order(f)
    BY DEF ListWhole
  <2>2. PICK k \in 0..NBUF : f[k] = b
    BY <1>1, <2>1 DEF Order
  <2>3. f[0] = 0 /\ next[f[NBUF]] = 0 /\ 0 \in 0..NBUF
    BY <1>1, <2>1 DEF Order, head
  <2>4. CASE k = NBUF
    BY <2>2, <2>3, <2>4, <1>1, <1>4
  <2>5. CASE k # NBUF
    <3>1. k + 1 \in 1..NBUF /\ (k + 1) - 1 = k /\ k + 1 \in 0..NBUF /\ k + 1 # k
      BY <2>5, <1>1, SMT
    <3>2. next[f[(k + 1) - 1]] = f[k + 1] /\ f[k + 1] # f[k]
      BY <3>1, <2>1 DEF Order
    <3>3. next[b] # b
      BY <3>1, <3>2, <2>2
    <3> QED BY <3>3, <1>4
  <2> QED BY <2>4, <2>5
<1>9. n # b
  BY <1>7, <1>8
<1>10. next1 \in [0..NBUF -> 0..NBUF] /\ prev1 \in [0..NBUF -> 0..NBUF]
  BY <1>1, <1>2
<1>11. next1[q] = n /\ prev1[n] = q /\ next1[0] = g
  BY <1>1, <1>2, <1>5
<1>12. next2 \in [0..NBUF -> 0..NBUF] /\ next2[0] = g /\ next2[b] = g /\ next2[q] = n
  BY <1>1, <1>2, <1>8, <1>10, <1>11
<1>13. /\ prev' = [prev1 EXCEPT ![b] = 0, ![g] = b]
       /\ next' = [next2 EXCEPT ![0] = b]
  BY <1>12 DEF Relink, head
<1>14. next' \in [0..NBUF -> 0..NBUF] /\ prev' \in [0..NBUF -> 0..NBUF]
  BY <1>1, <1>2, <1>10, <1>12, <1>13
<1>15. next'[0] = b /\ next'[b] = g /\ next'[q] = n
  BY <1>1, <1>2, <1>5, <1>12, <1>13
<1>16. prev'[b] = 0 /\ prev'[g] = b /\ prev'[n] = q
  <2> DEFINE prev2 == [prev1 EXCEPT ![b] = 0]
  <2>1. prev2 \in [0..NBUF -> 0..NBUF] /\ prev2[b] = 0 /\ prev2[n] = q
    BY <1>1, <1>2, <1>9, <1>10, <1>11
  <2>2. prev' = [prev2 EXCEPT ![g] = b]
    BY <1>13
  <2> QED BY <1>1, <1>2, <1>5, <1>6, <2>1, <2>2
<1>17. ASSUME NEW c \in 0..NBUF, c # 0, c # b, c # q PROVE next'[c] = next[c]
  BY <1>1, <1>2, <1>10, <1>12, <1>13, <1>17
<1>18. ASSUME NEW c \in 0..NBUF, c # b, c # g, c # n PROVE prev'[c] = prev[c]
  <2> DEFINE prev2 == [prev1 EXCEPT ![b] = 0]
  <2>1. prev2 \in [0..NBUF -> 0..NBUF] /\ prev2[c] = prev[c]
    BY <1>1, <1>2, <1>10, <1>18
  <2>2. prev' = [prev2 EXCEPT ![g] = b]
    BY <1>13
  <2> QED BY <1>1, <1>2, <1>18, <2>1, <2>2
<1> QED BY <1>14, <1>15, <1>16, <1>17, <1>18 DEF Relinked, head

\* When the buffer in place m goes to the front, the ones before it move back by
\* one: where the buffer in place k comes from.
From(k, m) == IF k = 0 THEN 0 ELSE IF k = 1 THEN m ELSE IF k <= m THEN k - 1 ELSE k

\* From permutes the places.
LEMMA FromPlaces ==
  ASSUME NEW m \in 2..NBUF
  PROVE  /\ \A k \in 0..NBUF : From(k, m) \in 0..NBUF
         /\ \A j, k \in 0..NBUF : From(j, m) = From(k, m) => j = k
         /\ \A i \in 0..NBUF : \E k \in 0..NBUF : From(k, m) = i
         /\ From(0, m) = 0 /\ From(1, m) = m
         /\ \A k \in 2..m : From(k, m) = k - 1
         /\ \A k \in m + 1..NBUF : From(k, m) = k
<1>0. NBUF \in Nat \ {0} /\ m \in Nat /\ m >= 2 /\ m <= NBUF
  BY Heads, SMT
<1>1. \A k \in 0..NBUF : From(k, m) \in 0..NBUF
  BY <1>0, SMT DEF From
<1>2. \A j, k \in 0..NBUF : From(j, m) = From(k, m) => j = k
  BY <1>0, SMT DEF From
<1>3. From(0, m) = 0 /\ From(1, m) = m
  BY <1>0, SMT DEF From
<1>4. \A k \in 2..m : From(k, m) = k - 1
  BY <1>0, SMT DEF From
<1>5. \A k \in m + 1..NBUF : From(k, m) = k
  BY <1>0, SMT DEF From
<1>6. ASSUME NEW i \in 0..NBUF PROVE \E k \in 0..NBUF : From(k, m) = i
  <2>1. CASE i = 0
    <3>1. 0 \in 0..NBUF
      BY <1>0, SMT
    <3> QED BY <2>1, <1>3, <3>1
  <2>2. CASE i = m
    <3>1. 1 \in 0..NBUF
      BY <1>0, SMT
    <3> QED BY <2>2, <1>3, <3>1
  <2>3. CASE i # 0 /\ i < m
    <3>1. i + 1 \in 0..NBUF /\ i + 1 \in 2..m /\ (i + 1) - 1 = i
      BY <1>0, <2>3, SMT
    <3> QED BY <1>4, <3>1
  <2>4. CASE i > m
    <3>1. i \in m + 1..NBUF
      BY <1>0, <2>4, SMT
    <3> QED BY <1>5, <3>1
  <2>5. i = m \/ i < m \/ i > m
    BY <1>0, SMT
  <2> QED BY <2>1, <2>2, <2>3, <2>4, <2>5
<1> QED BY <1>1, <1>2, <1>3, <1>4, <1>5, <1>6

\* brelse keeps the list whole: the buffers in front of b move back by one.
LEMMA ListReleased ==
  ASSUME TypeOK, ListWhole, NEW b \in Buf, Relink(b)
  PROVE  /\ next' \in [0..NBUF -> 0..NBUF] /\ prev' \in [0..NBUF -> 0..NBUF]
         /\ ListWhole'
<1>1. CASE next[head] = b
  <2>1. next' = next /\ prev' = prev
    BY <1>1, FirstStays
  <2>2. PICK f \in [0..NBUF -> 0..NBUF] : Order(f)
    BY DEF ListWhole
  <2>3. Order(f)'
    BY <2>1, <2>2 DEF Order
  <2>4. \A c \in 0..NBUF : prev'[next'[c]] = c
    BY <2>1 DEF ListWhole
  <2> QED BY <2>1, <2>2, <2>3, <2>4 DEF ListWhole, TypeOK
<1>2. CASE next[head] # b
  <2> DEFINE q == prev[b]  n == next[b]  g == next[0]
  <2>1. /\ next \in [0..NBUF -> 0..NBUF] /\ prev \in [0..NBUF -> 0..NBUF]
        /\ b \in 0..NBUF /\ b # 0 /\ 0 \in 0..NBUF /\ NBUF \in Nat \ {0}
    BY Heads DEF TypeOK, head
  <2>2. next' \in [0..NBUF -> 0..NBUF] /\ prev' \in [0..NBUF -> 0..NBUF]
    BY <1>2, OthersMove
  <2>3. Relinked(b, q, n, g)
    BY <1>2, OthersMove DEF head
  <2>4. PICK f \in [0..NBUF -> 0..NBUF] : Order(f)
    BY DEF ListWhole
  <2>5. /\ f[0] = 0 /\ next[f[NBUF]] = 0
    BY <2>4 DEF Order, head
  <2>6. \A k \in 1..NBUF : next[f[k - 1]] = f[k]
    BY <2>4 DEF Order
  <2>7. \A j, k \in 0..NBUF : f[j] = f[k] => j = k
    BY <2>4 DEF Order
  <2>8. \A c \in 0..NBUF : \E k \in 0..NBUF : f[k] = c
    BY <2>4 DEF Order
  <2>9. \A c \in 0..NBUF : prev[next[c]] = c
    BY DEF ListWhole
  <2>10. PICK m \in 0..NBUF : f[m] = b
    BY <2>1, <2>8
  <2>11. m # 0 /\ m # 1
    <3>1. 1 \in 1..NBUF /\ 1 - 1 = 0
      BY <2>1, SMT
    <3>2. next[f[0]] = f[1]
      BY <3>1, <2>6
    <3> QED BY <3>2, <2>1, <2>5, <2>10, <1>2 DEF head
  <2>12. m \in 2..NBUF /\ m \in 1..NBUF /\ m - 1 \in 0..NBUF /\ m - 1 # 0
    BY <2>1, <2>11, SMT
  <2>13. q = f[m - 1]
    <3>1. next[f[m - 1]] = f[m]
      BY <2>12, <2>6
    <3>2. next[f[m - 1]] = b /\ f[m - 1] \in 0..NBUF
      BY <2>4, <2>10, <2>12, <3>1
    <3> QED BY <3>2, <2>9
  <2> DEFINE h == [k \in 0..NBUF |-> f[From(k, m)]]
  <2>14. /\ \A k \in 0..NBUF : From(k, m) \in 0..NBUF
         /\ \A j, k \in 0..NBUF : From(j, m) = From(k, m) => j = k
         /\ \A i \in 0..NBUF : \E k \in 0..NBUF : From(k, m) = i
    BY <2>12, FromPlaces
  <2>15. h \in [0..NBUF -> 0..NBUF] /\ \A k \in 0..NBUF : h[k] = f[From(k, m)]
    <3>1. ASSUME NEW i \in 0..NBUF PROVE f[i] \in 0..NBUF
      BY <2>4
    <3>2. \A k \in 0..NBUF : f[From(k, m)] \in 0..NBUF
      BY <2>14, <3>1
    <3> QED BY <3>2
  <2> HIDE DEF h
  <2>16. ASSUME NEW j \in 0..NBUF, NEW k \in 0..NBUF, h[j] = h[k] PROVE j = k
    <3>1. f[From(j, m)] = f[From(k, m)]
      BY <2>15, <2>16
    <3>2. From(j, m) \in 0..NBUF /\ From(k, m) \in 0..NBUF
      BY <2>14
    <3>3. From(j, m) = From(k, m)
      BY <2>7, <3>1, <3>2
    <3> QED BY <2>14, <3>3
  <2>17. \A c \in 0..NBUF : \E k \in 0..NBUF : h[k] = c
    <3> TAKE c \in 0..NBUF
    <3>1. PICK i \in 0..NBUF : f[i] = c
      BY <2>8
    <3>2. PICK k \in 0..NBUF : From(k, m) = i
      BY <2>14
    <3> QED BY <3>1, <3>2, <2>15
  <2>18. h[0] = 0 /\ h[1] = b
    <3>1. 0 \in 0..NBUF /\ 1 \in 0..NBUF
      BY <2>1, SMT
    <3>2. From(0, m) = 0 /\ From(1, m) = m
      BY <2>12, FromPlaces
    <3>3. h[0] = f[0] /\ h[1] = f[m]
      BY <2>15, <3>1, <3>2
    <3> QED BY <2>5, <2>10, <3>3
  <2>19. \A k \in 2..m : h[k] = f[k - 1]
    <3>1. \A k \in 2..m : k \in 0..NBUF
      BY <2>1, <2>12, SMT
    <3>2. \A k \in 2..m : From(k, m) = k - 1
      BY <2>12, FromPlaces
    <3> QED BY <2>15, <3>1, <3>2
  <2>20. \A k \in m + 1..NBUF : h[k] = f[k]
    <3>1. \A k \in m + 1..NBUF : k \in 0..NBUF
      BY <2>1, <2>12, SMT
    <3>2. \A k \in m + 1..NBUF : From(k, m) = k
      BY <2>12, FromPlaces
    <3> QED BY <2>15, <3>1, <3>2
  <2>21. /\ next'[0] = b /\ next'[b] = g /\ next'[q] = n
    BY <2>3 DEF Relinked, head
  <2>22. \A c \in 0..NBUF : c # 0 /\ c # b /\ c # q => next'[c] = next[c]
    BY <2>3 DEF Relinked, head
  <2>23. prev'[b] = 0 /\ prev'[g] = b /\ prev'[n] = q
    BY <2>3 DEF Relinked, head
  <2>24. \A c \in 0..NBUF : c # b /\ c # g /\ c # n => prev'[c] = prev[c]
    BY <2>3 DEF Relinked, head
  <2>25. ASSUME NEW i \in 0..NBUF, i # 0, i # m, i # m - 1 PROVE next'[f[i]] = next[f[i]]
    <3>1. f[i] \in 0..NBUF
      BY <2>4
    <3>2. f[i] # f[0] /\ f[i] # f[m] /\ f[i] # f[m - 1]
      BY <2>1, <2>12, <2>25, <2>7
    <3>3. f[i] # 0 /\ f[i] # b /\ f[i] # q
      BY <2>5, <2>10, <2>13, <3>2
    <3> QED BY <2>22, <3>1, <3>3
  <2>26. ASSUME NEW k \in 1..NBUF PROVE next'[h[k - 1]] = h[k]
    <3>1. CASE k = 1
      <4>1. k - 1 = 0
        BY <3>1, SMT
      <4> QED BY <3>1, <4>1, <2>18, <2>21
    <3>2. CASE k = 2
      <4>1. k - 1 = 1 /\ k \in 2..m /\ 1 \in 1..NBUF /\ 1 - 1 = 0
        BY <3>2, <2>1, <2>12, SMT
      <4>2. h[k] = f[1]
        BY <4>1, <2>19
      <4>3. next[f[0]] = f[1]
        BY <4>1, <2>6
      <4>4. g = f[1]
        BY <4>3, <2>5
      <4> QED BY <4>1, <4>2, <4>4, <2>18, <2>21
    <3>3. CASE k \in 3..m
      <4>1. /\ k \in 2..m /\ k - 1 \in 2..m /\ k - 1 \in 1..NBUF
            /\ (k - 1) - 1 \in 0..NBUF /\ (k - 1) - 1 # 0 /\ (k - 1) - 1 # m /\ (k - 1) - 1 # m - 1
        BY <3>3, <2>1, <2>12, SMT
      <4>2. h[k - 1] = f[(k - 1) - 1] /\ h[k] = f[k - 1]
        BY <4>1, <2>19
      <4>3. next[f[(k - 1) - 1]] = f[k - 1]
        BY <4>1, <2>6
      <4> QED BY <4>1, <4>2, <4>3, <2>25
    <3>4. CASE k = m + 1
      <4>1. k - 1 = m /\ m \in 2..m /\ k \in m + 1..NBUF
        BY <3>4, <2>1, <2>12, SMT
      <4>2. h[m] = q /\ h[k] = f[k]
        BY <4>1, <2>13, <2>19, <2>20
      <4>3. next[f[k - 1]] = f[k]
        BY <2>6
      <4> QED BY <4>1, <4>2, <4>3, <2>10, <2>21
    <3>5. CASE k \in m + 2..NBUF
      <4>1. /\ k \in m + 1..NBUF /\ k - 1 \in m + 1..NBUF /\ k - 1 \in 0..NBUF
            /\ k - 1 # 0 /\ k - 1 # m /\ k - 1 # m - 1
        <5>1. m \in Int /\ m >= 2 /\ NBUF \in Int
          BY <2>1, <2>12, SMT
        <5>2. k \in Int /\ k >= m + 2 /\ k <= NBUF
          BY <3>5, <5>1, SMT
        <5> QED BY <5>1, <5>2, SMT
      <4>2. h[k - 1] = f[k - 1] /\ h[k] = f[k]
        BY <4>1, <2>20
      <4>3. next[f[k - 1]] = f[k]
        BY <2>6
      <4> QED BY <4>1, <4>2, <4>3, <2>25
    <3>6. k = 1 \/ k = 2 \/ k \in 3..m \/ k = m + 1 \/ k \in m + 2..NBUF
      BY <2>1, <2>12, SMT
    <3> QED BY <3>1, <3>2, <3>3, <3>4, <3>5, <3>6
  <2>27. next'[h[NBUF]] = 0
    <3>1. CASE m = NBUF
      <4>1. m \in 2..m
        BY <2>12, SMT
      <4>2. h[m] = q
        BY <4>1, <2>13, <2>19
      <4> QED BY <3>1, <4>2, <2>5, <2>10, <2>21
    <3>2. CASE m # NBUF
      <4>1. NBUF \in m + 1..NBUF /\ NBUF \in 0..NBUF /\ NBUF # 0 /\ NBUF # m - 1
        BY <3>2, <2>1, <2>12, SMT
      <4>2. h[NBUF] = f[NBUF]
        BY <4>1, <2>20
      <4>3. next'[f[NBUF]] = next[f[NBUF]]
        BY <3>2, <4>1, <2>25
      <4> QED BY <4>2, <4>3, <2>5
    <3> QED BY <3>1, <3>2
  <2>28. ASSUME NEW c \in 0..NBUF PROVE prev'[next'[c]] = c
    <3>1. CASE c = 0 \/ c = b \/ c = q
      BY <3>1, <2>21, <2>23
    <3>2. CASE c # 0 /\ c # b /\ c # q
      <4>1. next[q] = b
        <5>1. next[f[m - 1]] = f[m]
          BY <2>12, <2>6
        <5> QED BY <5>1, <2>10, <2>13
      <4>2. q \in 0..NBUF /\ next[c] \in 0..NBUF
        BY <2>1
      <4>3. next[c] # b /\ next[c] # g /\ next[c] # n
        BY <2>1, <2>9, <3>2, <4>1, <4>2
      <4>4. next'[c] = next[c]
        BY <3>2, <2>22
      <4>5. prev'[next[c]] = prev[next[c]]
        BY <4>2, <4>3, <2>24
      <4> QED BY <4>4, <4>5, <2>9
    <3> QED BY <3>1, <3>2
  <2>29. Order(h)'
    BY <2>18, <2>16, <2>17, <2>26, <2>27 DEF Order, head
  <2> QED BY <2>2, <2>15, <2>28, <2>29 DEF ListWhole
<1> QED BY <1>1, <1>2

-----------------------------------------------------------------------------
(* The inductive invariant, and the steps that change no buffer.           *)

AllDoing == \A p \in Proc : Doing(p)
ValidBlock == \A b \in Buf : valid[b] => sector[b] # None
Coherent == DiskErrors \/ CacheCoherent

\* The parts of the invariant.
LEMMA Parts ==
  IInv <=> /\ TypeOK /\ OneOwner /\ Coherent /\ DirtyHeld /\ GotBlock /\ ListWhole /\ QueueSound
           /\ AllDoing /\ ValidBlock
BY DEF IInv, BuffersCoherent, AllDoing, ValidBlock, Coherent

\* The invariant of the next state has the same parts.
LEMMA Together ==
  ASSUME TypeOK', OneOwner', Coherent', DirtyHeld', GotBlock', ListWhole', QueueSound',
         AllDoing', ValidBlock'
  PROVE  IInv'
BY DEF IInv, BuffersCoherent, AllDoing, ValidBlock, Coherent

\* A list that is not touched stays whole.
LEMMA ListQuiet == ASSUME ListWhole, UNCHANGED <<next, prev>> PROVE ListWhole'
<1>1. next' = next /\ prev' = prev
  OBVIOUS
<1>2. PICK f \in [0..NBUF -> 0..NBUF] : Order(f)
  BY DEF ListWhole
<1>3. Order(f)'
  BY <1>1, <1>2 DEF Order
<1>4. \A c \in 0..NBUF : prev'[next'[c]] = c
  BY <1>1 DEF ListWhole
<1> QED BY <1>2, <1>3, <1>4 DEF ListWhole

\* The processes other than p go on with what they do.
OthersGoOn(p) ==
  \A q \in Proc : q # p => pc'[q] = pc[q] /\ want'[q] = want[q] /\ buf'[q] = buf[q]

\* A step of p that changes no buffer, nor the one it has.
Quiet(p) ==
  /\ next' = next /\ prev' = prev /\ sector' = sector /\ busy' = busy /\ valid' = valid
  /\ dirty' = dirty /\ data' = data /\ idequeue' = idequeue /\ active' = active /\ disk' = disk
  /\ buf' = buf
  /\ OthersGoOn(p)

\* Such a step needs to be looked at for p alone.
LEMMA QuietStep ==
  ASSUME IInv, NEW p \in Proc, Quiet(p), TypeOK', Doing(p)',
         pc[p] = "iderw" => pc'[p] = "iderw" \/ ~dirty[buf[p]],
         pc'[p] = "holding" => Synced(buf[p]) /\ sector[buf[p]] = want'[p]
  PROVE  IInv'
<1>1. /\ next' = next /\ prev' = prev /\ sector' = sector /\ busy' = busy /\ valid' = valid
      /\ dirty' = dirty /\ data' = data /\ idequeue' = idequeue /\ active' = active /\ disk' = disk
      /\ buf' = buf
  BY DEF Quiet
<1>2. \A q \in Proc : q # p => pc'[q] = pc[q] /\ want'[q] = want[q]
  BY DEF Quiet, OthersGoOn
<1>3. OneOwner'
  <2>1. OneOwner
    BY Parts
  <2> QED BY <1>1, <2>1 DEF OneOwner
<1>4. Coherent'
  <2>1. Coherent
    BY Parts
  <2> QED BY <1>1, <2>1 DEF Coherent, CacheCoherent, Synced
<1>5. DirtyHeld'
  <2>1. \A b \in Buf : dirty[b] => \E q \in Proc : pc[q] = "iderw" /\ buf[q] = b
    BY Parts DEF DirtyHeld
  <2>2. ASSUME NEW b \in Buf, dirty[b] PROVE \E q \in Proc : pc'[q] = "iderw" /\ buf[q] = b
    <3>1. PICK q \in Proc : pc[q] = "iderw" /\ buf[q] = b
      BY <2>1, <2>2
    <3>2. pc'[q] = "iderw"
      BY <1>2, <2>2, <3>1
    <3> QED BY <3>1, <3>2
  <2> QED BY <1>1, <2>2 DEF DirtyHeld
<1>6. GotBlock'
  <2>1. \A q \in Proc : pc[q] = "holding" => Synced(buf[q]) /\ sector[buf[q]] = want[q]
    BY Parts DEF GotBlock
  <2>3. ASSUME NEW q \in Proc, pc'[q] = "holding" PROVE Synced(buf[q]) /\ sector[buf[q]] = want'[q]
    BY <1>2, <2>1, <2>3
  <2>4. ASSUME NEW q \in Proc, pc'[q] = "holding" PROVE valid'[buf'[q]] /\ ~dirty'[buf'[q]] /\ sector'[buf'[q]] = want'[q]
    BY <1>1, <2>3, <2>4 DEF Synced
  <2> QED BY <2>4 DEF GotBlock, Synced
<1>7. ListWhole'
  BY <1>1, Parts, ListQuiet
<1>8. QueueSound'
  <2>1. QueueSound
    BY Parts
  <2> QED BY <1>1, <2>1 DEF QueueSound, Queued, Synced
<1>9. AllDoing'
  <2>1. ASSUME NEW q \in Proc, q # p PROVE Doing(q)'
    <3>1. Doing(q)
      BY Parts DEF AllDoing
    <3>2. pc'[q] = pc[q] /\ want'[q] = want[q]
      BY <1>2, <2>1
    <3> QED BY <1>1, <3>1, <3>2 DEF Doing, Queued
  <2> QED BY <2>1 DEF AllDoing
<1>10. ValidBlock'
  <2>1. ValidBlock
    BY Parts
  <2> QED BY <1>1, <2>1 DEF ValidBlock
<1> QED BY <1>3, <1>4, <1>5, <1>6, <1>7, <1>8, <1>9, <1>10, Together

\* What the types say of a process.
LEMMA ProcTypes ==
  ASSUME TypeOK, NEW p \in Proc
  PROVE  /\ pc[p] \in {"idle", "bget", "bread", "iderw", "holding"}
         /\ want[p] \in Sector \cup {None} /\ buf[p] \in 0..NBUF /\ chan[p] \in 0..NBUF
BY DEF TypeOK

\* The types after a quiet step.
LEMMA QuietTypes ==
  ASSUME TypeOK, NEW p \in Proc, Quiet(p),
         pc' \in [Proc -> {"idle", "bget", "bread", "iderw", "holding"}],
         want' \in [Proc -> Sector \cup {None}], chan' \in [Proc -> 0..NBUF]
  PROVE  TypeOK'
BY DEF TypeOK, Quiet

\* kill changes no more than whether a process sleeps (proc.c).
LEMMA KillStep == ASSUME IInv, NEW p \in Proc, kill(p) PROVE IInv'
<1>1. Quiet(p) /\ pc' = pc /\ want' = want /\ chan' = [chan EXCEPT ![p] = head]
  BY DEF kill, Quiet, OthersGoOn, list, flags, io
<1>2. TypeOK'
  BY <1>1, Parts, Heads, QuietTypes DEF TypeOK
<1>3. Doing(p)'
  <2>1. Doing(p)
    BY Parts DEF AllDoing
  <2> QED BY <1>1, <2>1 DEF Doing, Queued, Quiet
<1>4. pc'[p] = "holding" => Synced(buf[p]) /\ sector[buf[p]] = want'[p]
  BY <1>1, Parts DEF GotBlock
<1> QED BY <1>1, <1>2, <1>3, <1>4, QuietStep

\* bread begins: a process asks for a block (bio.c).
LEMMA BreadStep == ASSUME IInv, NEW p \in Proc, NEW s \in Sector, bread(p, s) PROVE IInv'
<1>0. TypeOK
  BY Parts
<1>1. /\ pc[p] = "idle" /\ pc' = [pc EXCEPT ![p] = "bget"]
      /\ want' = [want EXCEPT ![p] = s] /\ chan' = chan
  BY DEF bread, Goto
<1>2. pc'[p] = "bget" /\ want'[p] = s /\ Quiet(p)
  BY <1>0, <1>1 DEF bread, TypeOK, Quiet, OthersGoOn, list, flags, io
<1>3. TypeOK'
  BY <1>0, <1>1, <1>2, QuietTypes DEF TypeOK
<1>4. Doing(p)'
  <2>1. Doing(p)
    BY Parts DEF AllDoing
  <2>2. buf[p] = head
    BY <1>1, <2>1 DEF Doing
  <2>3. ~Queued(buf[p])
    BY <1>1, <2>1 DEF Doing
  <2>4. buf' = buf /\ idequeue' = idequeue
    BY <1>2 DEF Quiet
  <2> QED BY <1>2, <2>2, <2>3, <2>4 DEF Doing, Queued
<1> QED BY <1>1, <1>2, <1>3, <1>4, QuietStep

\* bget sleeps for a buffer that is in use.
LEMMA BgetBusyStep == ASSUME IInv, NEW p \in Proc, BgetBusy(p) PROVE IInv'
<1>0. TypeOK
  BY Parts
<1>1. PICK b \in Cached(want[p]) :
        /\ Goto(p, "bget", "bget") /\ busy[b]
        /\ chan' = [chan EXCEPT ![p] = b]
        /\ UNCHANGED <<list, flags, io, want, buf>>
  BY DEF BgetBusy
<1>2. b \in Buf /\ b \in 0..NBUF
  BY <1>1, Heads DEF Cached
<1>3. pc[p] = "bget" /\ pc' = [pc EXCEPT ![p] = "bget"] /\ want' = want /\ buf' = buf
  BY <1>1 DEF Goto
<1>4. pc'[p] = "bget" /\ Quiet(p)
  BY <1>0, <1>1, <1>3 DEF TypeOK, Quiet, OthersGoOn, list, flags, io
<1>5. pc' \in [Proc -> {"idle", "bget", "bread", "iderw", "holding"}] /\ chan' \in [Proc -> 0..NBUF]
  BY <1>0, <1>1, <1>2, <1>3 DEF TypeOK
<1>6. TypeOK'
  BY <1>0, <1>3, <1>4, <1>5, QuietTypes DEF TypeOK
<1>7. Doing(p)'
  <2>1. Doing(p)
    BY Parts DEF AllDoing
  <2> QED BY <1>3, <1>4, <2>1 DEF Doing, Queued, Quiet
<1> QED BY <1>3, <1>4, <1>6, <1>7, QuietStep

\* A process goes from one place where it has a buffer to another.
LEMMA MoveOn ==
  ASSUME IInv, NEW p \in Proc, NEW from, NEW to \in {"holding", "iderw"},
         from \in {"bread", "iderw"}, to = "holding" => Synced(buf[p]), to = "iderw" => from = "iderw",
         Goto(p, from, to), chan' \in [Proc -> 0..NBUF], UNCHANGED <<list, flags, io, want, buf>>
  PROVE  IInv'
<1>0. TypeOK
  BY Parts
<1>1. pc[p] = from /\ pc' = [pc EXCEPT ![p] = to] /\ want' = want /\ buf' = buf
  BY DEF Goto
<1>2. pc'[p] = to /\ Quiet(p)
  BY <1>0, <1>1 DEF TypeOK, Quiet, OthersGoOn, list, flags, io
<1>3. pc' \in [Proc -> {"idle", "bget", "bread", "iderw", "holding"}]
  BY <1>0, <1>1 DEF TypeOK
<1>4. TypeOK'
  BY <1>0, <1>1, <1>2, <1>3, QuietTypes DEF TypeOK
<1>5. Doing(p)
  BY Parts DEF AllDoing
<1>6. buf[p] # head /\ want[p] \in Sector /\ sector[buf[p]] = want[p]
  BY <1>1, <1>5 DEF Doing
<1>7. buf[p] \in Buf
  BY <1>0, <1>6, HeldBuffer
<1>8. to = "holding" => ~Queued(buf[p])
  BY <1>7, Parts DEF QueueSound
<1>9. Doing(p)'
  <2>1. Queued(buf[p])' <=> Queued(buf[p])
    BY <1>2 DEF Quiet, Queued
  <2>2. sector' = sector
    BY <1>2 DEF Quiet
  <2> QED BY <1>1, <1>2, <1>6, <1>8, <2>1, <2>2 DEF Doing
<1>10. to = "holding" => ~dirty[buf[p]]
  BY DEF Synced
<1>11. pc'[p] = "holding" => Synced(buf[p]) /\ sector[buf[p]] = want'[p]
  BY <1>1, <1>2, <1>6
<1> QED BY <1>1, <1>2, <1>4, <1>9, <1>10, <1>11, QuietStep

\* bread returns a buffer that is valid: it is clean, for its owner does not write it.
LEMMA BreadValidStep == ASSUME IInv, NEW p \in Proc, BreadValid(p) PROVE IInv'
<1>0. TypeOK
  BY Parts
<1>1. pc[p] = "bread" /\ valid[buf[p]] /\ chan' = chan
  BY DEF BreadValid, Goto
<1>2. Doing(p)
  BY Parts DEF AllDoing
<1>3. buf[p] # head /\ buf[p] \in Buf
  BY <1>0, <1>1, <1>2, HeldBuffer DEF Doing
<1>4. ~dirty[buf[p]]
  <2>1. \A b \in Buf : dirty[b] => \E q \in Proc : pc[q] = "iderw" /\ buf[q] = b
    BY Parts DEF DirtyHeld
  <2>2. \A q \in Proc : buf[p] = buf[q] /\ buf[p] # head => p = q
    BY Parts DEF OneOwner
  <2> QED BY <1>1, <1>3, <2>1, <2>2
<1>5. chan' \in [Proc -> 0..NBUF]
  BY <1>0, <1>1 DEF TypeOK
<1>6. Synced(buf[p])
  BY <1>1, <1>4 DEF Synced
<1>7. Goto(p, "bread", "holding") /\ UNCHANGED <<list, flags, io, want, buf>>
  BY DEF BreadValid
<1> QED BY <1>5, <1>6, <1>7, MoveOn

\* iderw returns when the buffer is synchronized (ide.c).
LEMMA IderwDoneStep == ASSUME IInv, NEW p \in Proc, IderwDone(p) PROVE IInv'
<1>1. chan' \in [Proc -> 0..NBUF]
  BY Parts DEF IderwDone, TypeOK
<1>2. Goto(p, "iderw", "holding") /\ Synced(buf[p]) /\ UNCHANGED <<list, flags, io, want, buf>>
  BY DEF IderwDone
<1> QED BY <1>1, <1>2, MoveOn

\* It goes on sleeping otherwise.
LEMMA IderwAgainStep == ASSUME IInv, NEW p \in Proc, IderwAgain(p) PROVE IInv'
<1>1. chan' \in [Proc -> 0..NBUF]
  BY Parts DEF IderwAgain, TypeOK
<1>2. Goto(p, "iderw", "iderw") /\ UNCHANGED <<list, flags, io, want, buf>>
  BY DEF IderwAgain
<1> QED BY <1>1, <1>2, MoveOn

-----------------------------------------------------------------------------
(* bget takes a buffer.                                                    *)

\* A free buffer is clean and in no queue: flags can be cleared without loss.
LEMMA FreeBuffer ==
  ASSUME IInv, NEW b \in Buf, ~busy[b]
  PROVE  ~dirty[b] /\ ~Queued(b) /\ \A q \in Proc : buf[q] # b
<1>1. \A q \in Proc : buf[q] # b
  BY Parts DEF OneOwner
<1>2. ~dirty[b]
  BY <1>1, Parts DEF DirtyHeld
<1>3. ~Queued(b)
  BY Parts DEF QueueSound
<1> QED BY <1>1, <1>2, <1>3

\* p takes the free buffer b for its block, which no other buffer holds; what
\* stays valid is the block it wants.
Taken(p, b) ==
  /\ pc[p] = "bget" /\ pc' = [pc EXCEPT ![p] = "bread"]
  /\ ~busy[b] /\ busy' = [busy EXCEPT ![b] = TRUE]
  /\ buf' = [buf EXCEPT ![p] = b]
  /\ sector' = [sector EXCEPT ![b] = want[p]]
  /\ \A c \in Buf : c # b => sector[c] # want[p]
  /\ valid' \in [Buf -> BOOLEAN] /\ \A c \in Buf : c # b => valid'[c] = valid[c]
  /\ dirty' \in [Buf -> BOOLEAN] /\ \A c \in Buf : c # b => dirty'[c] = dirty[c]
  /\ ~dirty'[b] /\ (valid'[b] => valid[b] /\ sector[b] = want[p])
  /\ next' = next /\ prev' = prev /\ data' = data /\ idequeue' = idequeue /\ active' = active
  /\ disk' = disk /\ want' = want /\ chan' = chan

\* Taking a buffer keeps the invariant.
LEMMA TakenStep ==
  ASSUME IInv, NEW p \in Proc, NEW b \in Buf, Taken(p, b)
  PROVE  IInv'
<1>0. TypeOK
  BY Parts
<1>1. /\ pc[p] = "bget" /\ pc' = [pc EXCEPT ![p] = "bread"]
      /\ ~busy[b] /\ busy' = [busy EXCEPT ![b] = TRUE]
      /\ buf' = [buf EXCEPT ![p] = b] /\ sector' = [sector EXCEPT ![b] = want[p]]
  BY DEF Taken
<1>2. /\ next' = next /\ prev' = prev /\ data' = data /\ idequeue' = idequeue /\ active' = active
      /\ disk' = disk /\ want' = want /\ chan' = chan
  BY DEF Taken
<1>3. /\ \A c \in Buf : c # b => valid'[c] = valid[c] /\ dirty'[c] = dirty[c] /\ sector[c] # want[p]
      /\ ~dirty'[b] /\ (valid'[b] => valid[b] /\ sector[b] = want[p])
  BY DEF Taken
<1>4. b \in 0..NBUF /\ b # head /\ None \notin Sector
  BY Heads
<1>5. /\ pc'[p] = "bread" /\ buf'[p] = b
      /\ \A q \in Proc : q # p => pc'[q] = pc[q] /\ buf'[q] = buf[q]
  BY <1>0, <1>1 DEF TypeOK
<1>6. /\ busy'[b] /\ sector'[b] = want[p]
      /\ \A c \in Buf : c # b => busy'[c] = busy[c] /\ sector'[c] = sector[c]
  BY <1>0, <1>1 DEF TypeOK
<1>7. Doing(p)
  BY Parts DEF AllDoing
<1>8. buf[p] = head /\ want[p] \in Sector
  BY <1>1, <1>7 DEF Doing
<1>9. ~dirty[b] /\ ~Queued(b) /\ \A q \in Proc : buf[q] # b
  BY <1>1, FreeBuffer
<1>10. TypeOK'
  <2>1. valid' \in [Buf -> BOOLEAN] /\ dirty' \in [Buf -> BOOLEAN]
    BY DEF Taken
  <2>2. busy' \in [Buf -> BOOLEAN] /\ sector' \in [Buf -> Sector \cup {None}]
    BY <1>0, <1>1, <1>8 DEF TypeOK
  <2>3. pc' \in [Proc -> {"idle", "bget", "bread", "iderw", "holding"}] /\ buf' \in [Proc -> 0..NBUF]
    BY <1>0, <1>1, <1>4 DEF TypeOK
  <2> QED BY <1>0, <1>2, <2>1, <2>2, <2>3 DEF TypeOK
<1>11. OneOwner'
  <2>1. /\ \A c, d \in Buf : sector[c] = sector[d] /\ sector[c] # None => c = d
        /\ \A q, r \in Proc : buf[q] = buf[r] /\ buf[q] # head => q = r
        /\ \A c \in Buf : busy[c] <=> \E q \in Proc : buf[q] = c
    BY Parts DEF OneOwner
  <2>2. ASSUME NEW c \in Buf, NEW d \in Buf, sector'[c] = sector'[d], sector'[c] # None PROVE c = d
    <3>1. CASE c = b
      <4>1. ASSUME d # b PROVE FALSE
        BY <1>3, <1>6, <2>2, <3>1, <4>1
      <4> QED BY <3>1, <4>1
    <3>2. CASE c # b
      <4>1. d # b
        BY <1>3, <1>6, <2>2, <3>2
      <4>2. sector[c] = sector[d] /\ sector[c] # None
        BY <1>6, <2>2, <3>2, <4>1
      <4> QED BY <2>1, <4>2
    <3> QED BY <3>1, <3>2
  <2>3. ASSUME NEW q \in Proc, NEW r \in Proc, buf'[q] = buf'[r], buf'[q] # head PROVE q = r
    <3>1. CASE q = p
      <4>1. ASSUME r # p PROVE FALSE
        BY <1>5, <1>9, <2>3, <3>1, <4>1
      <4> QED BY <3>1, <4>1
    <3>2. CASE q # p
      <4>1. r # p
        BY <1>5, <1>9, <2>3, <3>2
      <4>2. buf[q] = buf[r] /\ buf[q] # head
        BY <1>5, <2>3, <3>2, <4>1
      <4> QED BY <2>1, <4>2
    <3> QED BY <3>1, <3>2
  <2>4. ASSUME NEW c \in Buf PROVE busy'[c] <=> \E q \in Proc : buf'[q] = c
    <3>1. CASE c = b
      BY <3>1, <1>5, <1>6
    <3>2. CASE c # b
      <4>1. c # head
        BY Heads
      <4>2. \A q \in Proc : buf'[q] = c <=> buf[q] = c
        BY <3>2, <4>1, <1>5, <1>8
      <4>3. busy'[c] = busy[c] /\ (busy[c] <=> \E q \in Proc : buf[q] = c)
        BY <3>2, <1>6, <2>1
      <4> QED BY <4>2, <4>3
    <3> QED BY <3>1, <3>2
  <2> QED BY <2>2, <2>3, <2>4 DEF OneOwner
<1>12. Coherent'
  <2>1. CASE DiskErrors
    BY <2>1 DEF Coherent
  <2>2. CASE ~DiskErrors
    <3>1. \A c \in Buf : Synced(c) => sector[c] # None /\ data[c] = disk[sector[c]]
      BY <2>2, Parts DEF Coherent, CacheCoherent
    <3>2. ASSUME NEW c \in Buf, valid'[c], ~dirty'[c] PROVE sector'[c] # None /\ data'[c] = disk'[sector'[c]]
      <4>1. Synced(c) /\ sector'[c] = sector[c]
        BY <1>3, <1>6, <1>9, <3>2 DEF Synced
      <4> QED BY <3>1, <4>1, <1>2
    <3> QED BY <3>2 DEF Coherent, CacheCoherent, Synced
  <2> QED BY <2>1, <2>2
<1>13. DirtyHeld'
  <2>1. \A c \in Buf : dirty[c] => \E q \in Proc : pc[q] = "iderw" /\ buf[q] = c
    BY Parts DEF DirtyHeld
  <2>2. ASSUME NEW c \in Buf, dirty'[c] PROVE \E q \in Proc : pc'[q] = "iderw" /\ buf'[q] = c
    <3>1. PICK q \in Proc : pc[q] = "iderw" /\ buf[q] = c
      BY <1>3, <2>1, <2>2
    <3>2. q # p
      BY <1>1, <3>1
    <3> QED BY <1>5, <3>1, <3>2
  <2> QED BY <2>2 DEF DirtyHeld
<1>14. ASSUME NEW q \in Proc, q # p, buf[q] # head
       PROVE  buf[q] \in Buf /\ buf[q] # b /\ valid'[buf[q]] = valid[buf[q]]
              /\ dirty'[buf[q]] = dirty[buf[q]] /\ sector'[buf[q]] = sector[buf[q]]
  <2>1. buf[q] \in Buf /\ buf[q] # b
    BY <1>0, <1>9, <1>14, HeldBuffer
  <2> QED BY <1>3, <1>6, <2>1
<1>15. GotBlock'
  <2>1. ASSUME NEW q \in Proc, pc'[q] = "holding"
        PROVE  valid'[buf'[q]] /\ ~dirty'[buf'[q]] /\ sector'[buf'[q]] = want'[q]
    <3>1. q # p /\ pc[q] = "holding" /\ buf'[q] = buf[q]
      BY <1>5, <2>1
    <3>2. valid[buf[q]] /\ ~dirty[buf[q]] /\ sector[buf[q]] = want[q]
      BY <3>1, Parts DEF GotBlock, Synced
    <3>3. buf[q] # head
      BY <3>1, Parts DEF AllDoing, Doing
    <3> QED BY <1>2, <1>14, <3>1, <3>2, <3>3
  <2> QED BY <2>1 DEF GotBlock, Synced
<1>16. ListWhole'
  BY <1>2, Parts, ListQuiet
<1>17. QueueSound'
  <2>1. /\ \A i, j \in 1..Len(idequeue) : idequeue[i] = idequeue[j] => i = j
        /\ \A c \in Buf : Queued(c) => busy[c] /\ ~(valid[c] /\ ~dirty[c])
        /\ active = IF idequeue = <<>> THEN head ELSE idequeue[1]
    BY Parts DEF QueueSound, Synced
  <2>2. ASSUME NEW c \in Buf, Queued(c) PROVE busy'[c] /\ ~(valid'[c] /\ ~dirty'[c])
    <3>1. c # b
      BY <1>9, <2>2
    <3> QED BY <1>3, <1>6, <2>1, <2>2, <3>1
  <2>3. \A c \in Buf : Queued(c)' <=> Queued(c)
    BY <1>2 DEF Queued
  <2> QED BY <1>2, <2>1, <2>2, <2>3 DEF QueueSound, Synced
<1>18. AllDoing'
  <2>1. \A c : Queued(c)' <=> Queued(c)
    BY <1>2 DEF Queued
  <2>2. Doing(p)'
    BY <1>2, <1>4, <1>5, <1>6, <1>8, <1>9 DEF Doing, Queued
  <2>3. ASSUME NEW q \in Proc, q # p PROVE Doing(q)'
    <3>1. Doing(q)
      BY Parts DEF AllDoing
    <3>2. pc'[q] = pc[q] /\ buf'[q] = buf[q] /\ want'[q] = want[q]
      BY <1>2, <1>5, <2>3
    <3>3. buf[q] # head => sector'[buf[q]] = sector[buf[q]]
      BY <1>14, <2>3
    <3> QED BY <1>2, <3>1, <3>2, <3>3 DEF Doing, Queued
  <2> QED BY <2>2, <2>3 DEF AllDoing
<1>19. ValidBlock'
  <2>1. \A c \in Buf : valid[c] => sector[c] # None
    BY Parts DEF ValidBlock
  <2>2. ASSUME NEW c \in Buf, valid'[c] PROVE sector'[c] # None
    BY <1>3, <1>4, <1>6, <1>8, <2>1, <2>2
  <2> QED BY <2>2 DEF ValidBlock
<1> QED BY <1>10, <1>11, <1>12, <1>13, <1>15, <1>16, <1>17, <1>18, <1>19, Together

\* The block is cached in a buffer that is free.
LEMMA BgetHitTakes == ASSUME IInv, NEW p \in Proc, BgetHit(p) PROVE \E b \in Buf : Taken(p, b)
<1>0. TypeOK
  BY Parts
<1>1. PICK b \in Cached(want[p]) :
        /\ Goto(p, "bget", "bread") /\ ~busy[b]
        /\ busy' = [busy EXCEPT ![b] = TRUE] /\ buf' = [buf EXCEPT ![p] = b]
        /\ UNCHANGED <<list, sector, valid, dirty, data, io, want, chan>>
  BY DEF BgetHit
<1>2. b \in Buf /\ sector[b] = want[p]
  BY <1>1 DEF Cached
<1>3. want[p] # None
  <2>1. Doing(p) /\ pc[p] = "bget"
    BY <1>1, Parts DEF AllDoing, Goto
  <2> QED BY <2>1, Heads DEF Doing
<1>4. \A c \in Buf : c # b => sector[c] # want[p]
  <2>1. \A c, d \in Buf : sector[c] = sector[d] /\ sector[c] # None => c = d
    BY Parts DEF OneOwner
  <2> QED BY <1>2, <1>3, <2>1
<1>5. sector' = [sector EXCEPT ![b] = want[p]]
  BY <1>0, <1>1, <1>2 DEF TypeOK
<1>6. ~dirty[b]
  BY <1>1, <1>2, FreeBuffer
<1>7. valid \in [Buf -> BOOLEAN] /\ dirty \in [Buf -> BOOLEAN]
  BY <1>0 DEF TypeOK
<1>8. Taken(p, b)
  BY <1>1, <1>2, <1>4, <1>5, <1>6, <1>7 DEF Taken, Goto, list, io
<1> QED BY <1>2, <1>8

\* It is not cached: a free buffer forgets its block, which is on disk, for the
\* one that is wanted.
LEMMA BgetRecycleTakes == ASSUME IInv, NEW p \in Proc, BgetRecycle(p) PROVE \E b \in Buf : Taken(p, b)
<1>0. TypeOK
  BY Parts
<1>1. PICK b \in Buf :
        /\ LeastRecent(b, {c \in Buf : ~busy[c]})
        /\ sector' = [sector EXCEPT ![b] = want[p]]
        /\ busy' = [busy EXCEPT ![b] = TRUE]
        /\ valid' = [valid EXCEPT ![b] = FALSE]
        /\ dirty' = [dirty EXCEPT ![b] = FALSE]
        /\ buf' = [buf EXCEPT ![p] = b]
  BY DEF BgetRecycle
<1>2. /\ Goto(p, "bget", "bread") /\ Cached(want[p]) = {}
      /\ UNCHANGED <<list, data, io, want, chan>>
  BY DEF BgetRecycle
<1>3. ~busy[b]
  BY <1>1 DEF LeastRecent
<1>4. \A c \in Buf : c # b => sector[c] # want[p]
  BY <1>2 DEF Cached
<1>5. /\ valid' \in [Buf -> BOOLEAN] /\ \A c \in Buf : c # b => valid'[c] = valid[c]
      /\ dirty' \in [Buf -> BOOLEAN] /\ \A c \in Buf : c # b => dirty'[c] = dirty[c]
      /\ ~dirty'[b] /\ ~valid'[b]
  BY <1>0, <1>1 DEF TypeOK
<1>6. Taken(p, b)
  BY <1>1, <1>2, <1>3, <1>4, <1>5 DEF Taken, Goto, list, io
<1> QED BY <1>6

-----------------------------------------------------------------------------
(* iderw and ideintr: the queue of the disk.                               *)

\* p appends its buffer to the queue, which needs the disk, and sleeps.
Requested(p, b) ==
  /\ pc[p] \in {"bread", "holding"} /\ b = buf[p]
  /\ pc' = [pc EXCEPT ![p] = "iderw"]
  /\ idequeue' = Append(idequeue, b)
  /\ active' = IF idequeue = <<>> THEN b ELSE active
  /\ chan' = [chan EXCEPT ![p] = b]
  /\ data' \in [Buf -> Value] /\ \A c \in Buf : c # b => data'[c] = data[c]
  /\ dirty' \in [Buf -> BOOLEAN] /\ \A c \in Buf : c # b => dirty'[c] = dirty[c]
  /\ ~(valid[b] /\ ~dirty'[b])
  /\ next' = next /\ prev' = prev /\ sector' = sector /\ busy' = busy /\ valid' = valid
  /\ disk' = disk /\ want' = want /\ buf' = buf

\* The queue after a request: what was in it, and b behind.
LEMMA RequestQueue ==
  ASSUME NEW Q \in Seq(Buf), NEW b \in Buf, \A i \in 1..Len(Q) : Q[i] # b,
         \A i, j \in 1..Len(Q) : Q[i] = Q[j] => i = j
  PROVE  LET R == Append(Q, b) IN
         /\ \A i, j \in 1..Len(R) : R[i] = R[j] => i = j
         /\ \A c : (\E i \in 1..Len(R) : R[i] = c) <=> c = b \/ \E i \in 1..Len(Q) : Q[i] = c
         /\ R # <<>> /\ R[1] = IF Q = <<>> THEN b ELSE Q[1]
<1> DEFINE R == Append(Q, b)
<1>1. /\ R \in Seq(Buf) /\ R # <<>>
      /\ Len(R) = Len(Q) + 1 /\ Len(Q) \in Nat
      /\ \A i \in 1..Len(Q) : R[i] = Q[i]
      /\ R[Len(Q) + 1] = b
  BY QueueAppend
<1> HIDE DEF R
<1>2. \A i \in 1..Len(R) : i \in 1..Len(Q) \/ i = Len(Q) + 1
  BY <1>1, SMT
<1>3. \A i \in 1..Len(Q) : i \in 1..Len(R)
  BY <1>1, SMT
<1>4. Len(Q) + 1 \in 1..Len(R)
  BY <1>1, SMT
<1>5. ASSUME NEW i \in 1..Len(R), NEW j \in 1..Len(R), R[i] = R[j] PROVE i = j
  BY <1>1, <1>2, <1>5
<1>6. ASSUME NEW c PROVE (\E i \in 1..Len(R) : R[i] = c) <=> c = b \/ \E i \in 1..Len(Q) : Q[i] = c
  BY <1>1, <1>2, <1>3, <1>4
<1>7. R[1] = IF Q = <<>> THEN b ELSE Q[1]
  <2>1. CASE Q = <<>>
    <3>1. Len(Q) + 1 = 1
      BY <2>1, SMT
    <3> QED BY <1>1, <2>1, <3>1
  <2>2. CASE Q # <<>>
    <3>1. Len(Q) # 0
      BY <2>2, EmptySequence
    <3>2. 1 \in 1..Len(Q)
      BY <1>1, <3>1, SMT
    <3> QED BY <1>1, <2>2, <3>2
  <2> QED BY <2>1, <2>2
<1> QED BY <1>1, <1>5, <1>6, <1>7 DEF R

\* A process that is not in iderw has its buffer for itself: it is clean and in
\* no queue.
LEMMA OwnBuffer ==
  ASSUME IInv, NEW p \in Proc, pc[p] \in {"bread", "holding"}
  PROVE  /\ buf[p] \in Buf /\ buf[p] # head /\ busy[buf[p]] /\ ~dirty[buf[p]] /\ ~Queued(buf[p])
         /\ want[p] \in Sector /\ sector[buf[p]] = want[p]
         /\ \A q \in Proc : q # p => buf[q] # buf[p]
<1>1. Doing(p)
  BY Parts DEF AllDoing
<1>2. buf[p] # head /\ ~Queued(buf[p]) /\ want[p] \in Sector /\ sector[buf[p]] = want[p]
  BY <1>1 DEF Doing
<1>3. buf[p] \in Buf
  BY <1>2, Parts, HeldBuffer
<1>4. \A q \in Proc : q # p => buf[q] # buf[p]
  BY <1>2, Parts DEF OneOwner
<1>5. busy[buf[p]]
  BY <1>3, Parts DEF OneOwner
<1>6. ~dirty[buf[p]]
  <2>1. \A b \in Buf : dirty[b] => \E q \in Proc : pc[q] = "iderw" /\ buf[q] = b
    BY Parts DEF DirtyHeld
  <2> QED BY <1>3, <1>4, <2>1
<1> QED BY <1>2, <1>3, <1>4, <1>5, <1>6

\* A request keeps the invariant.
LEMMA RequestedStep ==
  ASSUME IInv, NEW p \in Proc, NEW b, Requested(p, b)
  PROVE  IInv'
<1>0. TypeOK
  BY Parts
<1>1. /\ pc[p] \in {"bread", "holding"} /\ b = buf[p]
      /\ pc' = [pc EXCEPT ![p] = "iderw"]
      /\ idequeue' = Append(idequeue, b)
      /\ active' = IF idequeue = <<>> THEN b ELSE active
      /\ chan' = [chan EXCEPT ![p] = b]
  BY DEF Requested
<1>2. /\ \A c \in Buf : c # b => data'[c] = data[c] /\ dirty'[c] = dirty[c]
      /\ ~(valid[b] /\ ~dirty'[b])
  BY DEF Requested
<1>3. /\ next' = next /\ prev' = prev /\ sector' = sector /\ busy' = busy /\ valid' = valid
      /\ disk' = disk /\ want' = want /\ buf' = buf
  BY DEF Requested
<1>4. /\ b \in Buf /\ b # head /\ busy[b] /\ ~dirty[b] /\ ~Queued(b)
      /\ want[p] \in Sector /\ sector[b] = want[p]
      /\ \A q \in Proc : q # p => buf[q] # b
  BY <1>1, OwnBuffer
<1>5. pc'[p] = "iderw" /\ \A q \in Proc : q # p => pc'[q] = pc[q]
  BY <1>0, <1>1 DEF TypeOK
<1>6. b \in 0..NBUF
  BY <1>4, Heads
<1>7. idequeue \in Seq(Buf)
  BY <1>0 DEF TypeOK
<1>8. TypeOK'
  <2>1. data' \in [Buf -> Value] /\ dirty' \in [Buf -> BOOLEAN]
    BY DEF Requested
  <2>2. pc' \in [Proc -> {"idle", "bget", "bread", "iderw", "holding"}] /\ chan' \in [Proc -> 0..NBUF]
    BY <1>0, <1>1, <1>6 DEF TypeOK
  <2>3. idequeue' \in Seq(Buf)
    BY <1>1, <1>4, <1>7, QueueAppend
  <2>4. active' \in 0..NBUF
    BY <1>0, <1>1, <1>6 DEF TypeOK
  <2> QED BY <1>0, <1>3, <2>1, <2>2, <2>3, <2>4 DEF TypeOK
<1>9. OneOwner'
  <2>1. OneOwner
    BY Parts
  <2> QED BY <1>3, <2>1 DEF OneOwner
<1>10. Coherent'
  <2>1. CASE DiskErrors
    BY <2>1 DEF Coherent
  <2>2. CASE ~DiskErrors
    <3>1. \A c \in Buf : valid[c] /\ ~dirty[c] => sector[c] # None /\ data[c] = disk[sector[c]]
      BY <2>2, Parts DEF Coherent, CacheCoherent, Synced
    <3>2. ASSUME NEW c \in Buf, valid'[c], ~dirty'[c] PROVE sector'[c] # None /\ data'[c] = disk'[sector'[c]]
      <4>1. c # b
        BY <1>2, <1>3, <3>2
      <4> QED BY <1>2, <1>3, <3>1, <3>2, <4>1
    <3> QED BY <3>2 DEF Coherent, CacheCoherent, Synced
  <2> QED BY <2>1, <2>2
<1>11. DirtyHeld'
  <2>1. \A c \in Buf : dirty[c] => \E q \in Proc : pc[q] = "iderw" /\ buf[q] = c
    BY Parts DEF DirtyHeld
  <2>2. ASSUME NEW c \in Buf, dirty'[c] PROVE \E q \in Proc : pc'[q] = "iderw" /\ buf'[q] = c
    <3>1. CASE c = b
      BY <1>1, <1>3, <1>5, <3>1
    <3>2. CASE c # b
      <4>1. PICK q \in Proc : pc[q] = "iderw" /\ buf[q] = c
        BY <1>2, <2>1, <2>2, <3>2
      <4>2. q # p
        BY <1>1, <3>2, <4>1
      <4> QED BY <1>3, <1>5, <4>1, <4>2
    <3> QED BY <3>1, <3>2
  <2> QED BY <2>2 DEF DirtyHeld
<1>12. GotBlock'
  <2>1. ASSUME NEW q \in Proc, pc'[q] = "holding"
        PROVE  valid'[buf'[q]] /\ ~dirty'[buf'[q]] /\ sector'[buf'[q]] = want'[q]
    <3>1. q # p /\ pc[q] = "holding"
      BY <1>5, <2>1
    <3>2. valid[buf[q]] /\ ~dirty[buf[q]] /\ sector[buf[q]] = want[q]
      BY <3>1, Parts DEF GotBlock, Synced
    <3>3. buf[q] \in Buf /\ buf[q] # b
      BY <1>4, <3>1, OwnBuffer
    <3> QED BY <1>2, <1>3, <3>2, <3>3
  <2> QED BY <2>1 DEF GotBlock, Synced
<1>13. ListWhole'
  BY <1>3, Parts, ListQuiet
<1>14. /\ \A i, j \in 1..Len(idequeue') : idequeue'[i] = idequeue'[j] => i = j
       /\ \A c : Queued(c)' <=> c = b \/ Queued(c)
       /\ idequeue' # <<>> /\ idequeue'[1] = IF idequeue = <<>> THEN b ELSE idequeue[1]
  <2>1. \A i, j \in 1..Len(idequeue) : idequeue[i] = idequeue[j] => i = j
    BY Parts DEF QueueSound
  <2>2. \A i \in 1..Len(idequeue) : idequeue[i] # b
    BY <1>4 DEF Queued
  <2> DEFINE R == Append(idequeue, b)
  <2>3. /\ \A i, j \in 1..Len(R) : R[i] = R[j] => i = j
        /\ \A c : (\E i \in 1..Len(R) : R[i] = c) <=> c = b \/ \E i \in 1..Len(idequeue) : idequeue[i] = c
        /\ R # <<>> /\ R[1] = IF idequeue = <<>> THEN b ELSE idequeue[1]
    BY <1>4, <1>7, <2>1, <2>2, RequestQueue
  <2>4. idequeue' = R
    BY <1>1
  <2> HIDE DEF R
  <2> QED BY <2>3, <2>4 DEF Queued
<1>15. QueueSound'
  <2>1. /\ \A c \in Buf : Queued(c) => busy[c] /\ ~(valid[c] /\ ~dirty[c])
        /\ active = IF idequeue = <<>> THEN head ELSE idequeue[1]
    BY Parts DEF QueueSound, Synced
  <2>2. ASSUME NEW c \in Buf, Queued(c)' PROVE busy'[c] /\ ~(valid'[c] /\ ~dirty'[c])
    BY <1>2, <1>3, <1>4, <1>14, <2>1, <2>2
  <2>3. active' = IF idequeue' = <<>> THEN head ELSE idequeue'[1]
    BY <1>1, <1>14, <2>1
  <2> QED BY <1>14, <2>2, <2>3 DEF QueueSound, Synced
<1>16. AllDoing'
  <2>1. Doing(p)'
    BY <1>1, <1>3, <1>4, <1>5 DEF Doing
  <2>2. ASSUME NEW q \in Proc, q # p PROVE Doing(q)'
    <3>1. Doing(q)
      BY Parts DEF AllDoing
    <3>2. pc'[q] = pc[q] /\ (Queued(buf[q])' <=> Queued(buf[q]))
      BY <1>3, <1>4, <1>5, <1>14, <2>2
    <3> QED BY <1>3, <3>1, <3>2 DEF Doing
  <2> QED BY <2>1, <2>2 DEF AllDoing
<1>17. ValidBlock'
  <2>1. ValidBlock
    BY Parts
  <2> QED BY <1>3, <2>1 DEF ValidBlock
<1> QED BY <1>8, <1>9, <1>10, <1>11, <1>12, <1>13, <1>15, <1>16, <1>17, Together

\* bread asks the disk for a block that is not valid.
LEMMA BreadFetchRequests ==
  ASSUME IInv, NEW p \in Proc, BreadFetch(p)
  PROVE  Requested(p, buf[p])
<1>1. /\ pc[p] = "bread" /\ pc' = [pc EXCEPT ![p] = "iderw"] /\ ~valid[buf[p]]
      /\ dirty' = dirty /\ data' = data
  BY DEF BreadFetch, Goto
<1>2. dirty \in [Buf -> BOOLEAN] /\ data \in [Buf -> Value]
  BY Parts DEF TypeOK
<1>3. iderw(p, buf[p])
  BY DEF BreadFetch
<1>4. Requested(p, buf[p])
  BY <1>1, <1>2, <1>3 DEF Requested, iderw, list
<1> QED BY <1>4

\* bwrite has the disk write a changed block.
LEMMA BwriteRequests ==
  ASSUME IInv, NEW p \in Proc, NEW v \in Value, bwrite(p, v)
  PROVE  Requested(p, buf[p])
<1>1. /\ pc[p] = "holding" /\ pc' = [pc EXCEPT ![p] = "iderw"]
      /\ data' = [data EXCEPT ![buf[p]] = v] /\ dirty' = [dirty EXCEPT ![buf[p]] = TRUE]
  BY DEF bwrite, Goto
<1>2. dirty \in [Buf -> BOOLEAN] /\ data \in [Buf -> Value]
  BY Parts DEF TypeOK
<1>3. buf[p] \in Buf
  BY <1>1, OwnBuffer
<1>4. /\ data' \in [Buf -> Value] /\ \A c \in Buf : c # buf[p] => data'[c] = data[c]
      /\ dirty' \in [Buf -> BOOLEAN] /\ \A c \in Buf : c # buf[p] => dirty'[c] = dirty[c]
      /\ dirty'[buf[p]]
  BY <1>1, <1>2, <1>3
<1>5. iderw(p, buf[p])
  BY DEF bwrite
<1>6. Requested(p, buf[p])
  BY <1>1, <1>4, <1>5 DEF Requested, iderw, list
<1> QED BY <1>6

\* The queue without its first request.
LEMMA ServedQueue ==
  ASSUME NEW Q \in Seq(Buf), Q # <<>>, \A i, j \in 1..Len(Q) : Q[i] = Q[j] => i = j
  PROVE  LET R == Tail(Q) IN
         /\ R \in Seq(Buf) /\ Q[1] \in Buf
         /\ \A i, j \in 1..Len(R) : R[i] = R[j] => i = j
         /\ \A c : (\E i \in 1..Len(R) : R[i] = c) <=> c # Q[1] /\ \E i \in 1..Len(Q) : Q[i] = c
         /\ \E i \in 1..Len(Q) : Q[i] = Q[1]
         /\ (IF Len(Q) > 1 THEN Q[2] ELSE head) = IF R = <<>> THEN head ELSE R[1]
         /\ (IF Len(Q) > 1 THEN Q[2] ELSE head) \in 0..NBUF
<1> DEFINE R == Tail(Q)
<1>1. /\ R \in Seq(Buf) /\ Q[1] \in Buf
      /\ Len(Q) \in Nat /\ Len(Q) >= 1 /\ Len(R) = Len(Q) - 1
      /\ \A i \in 1..Len(Q) - 1 : R[i] = Q[i + 1]
      /\ Len(Q) > 1 => Q[2] \in Buf
      /\ R = <<>> <=> ~(Len(Q) > 1)
  BY QueueTail
<1> HIDE DEF R
<1>2. \A i \in 1..Len(R) : R[i] = Q[i + 1] /\ i + 1 \in 1..Len(Q) /\ i + 1 # 1
  BY <1>1, SMT
<1>3. \A i \in 1..Len(Q) : i # 1 => i - 1 \in 1..Len(R) /\ R[i - 1] = Q[i]
  BY <1>1, SMT
<1>4. 1 \in 1..Len(Q)
  BY <1>1, SMT
<1>5. ASSUME NEW i \in 1..Len(R), NEW j \in 1..Len(R), R[i] = R[j] PROVE i = j
  <2>1. i + 1 = j + 1
    BY <1>2, <1>5
  <2>2. i \in Int /\ j \in Int
    BY SMT
  <2> QED BY <2>1, <2>2, SMT
<1>6. ASSUME NEW c PROVE (\E i \in 1..Len(R) : R[i] = c) <=> c # Q[1] /\ \E i \in 1..Len(Q) : Q[i] = c
  <2>1. ASSUME NEW i \in 1..Len(R), R[i] = c PROVE c # Q[1] /\ \E j \in 1..Len(Q) : Q[j] = c
    BY <1>2, <1>4, <2>1
  <2>2. ASSUME c # Q[1], NEW i \in 1..Len(Q), Q[i] = c PROVE \E j \in 1..Len(R) : R[j] = c
    BY <1>3, <2>2
  <2> QED BY <2>1, <2>2
<1>7. (IF Len(Q) > 1 THEN Q[2] ELSE head) = IF R = <<>> THEN head ELSE R[1]
  <2>1. ASSUME Len(Q) > 1 PROVE R[1] = Q[2]
    BY <1>1, <2>1, SMT
  <2> QED BY <1>1, <2>1
<1>8. (IF Len(Q) > 1 THEN Q[2] ELSE head) \in 0..NBUF
  BY <1>1, Heads
<1> QED BY <1>1, <1>4, <1>5, <1>6, <1>7, <1>8 DEF R

\* A buffer in the queue has an owner that waits in iderw, and a block.
LEMMA QueuedBuffer ==
  ASSUME IInv, NEW b \in Buf, Queued(b)
  PROVE  sector[b] \in Sector /\ \E p \in Proc : pc[p] = "iderw" /\ buf[p] = b /\ want[p] = sector[b]
<1>1. busy[b]
  BY Parts DEF QueueSound
<1>2. PICK p \in Proc : buf[p] = b
  BY <1>1, Parts DEF OneOwner
<1>3. Doing(p) /\ b # head
  BY Parts, Heads DEF AllDoing
<1>4. pc[p] = "iderw" /\ want[p] = sector[b] /\ want[p] \in Sector
  BY <1>2, <1>3 DEF Doing
<1> QED BY <1>2, <1>4

\* The interrupt changes the first buffer of the queue alone.
LEMMA IdeintrBuffer ==
  ASSUME IInv, NEW fail \in BOOLEAN, ideintr(fail)
  PROVE  /\ idequeue[1] \in Buf /\ Queued(idequeue[1])
         /\ valid'[idequeue[1]] /\ ~dirty'[idequeue[1]]
         /\ \A c \in Buf : c # idequeue[1] =>
              valid'[c] = valid[c] /\ dirty'[c] = dirty[c] /\ data'[c] = data[c]
<1> DEFINE b == idequeue[1]
<1>1. /\ data' = IF dirty[b] \/ fail THEN data ELSE [data EXCEPT ![b] = disk[sector[b]]]
      /\ valid' = [valid EXCEPT ![b] = TRUE] /\ dirty' = [dirty EXCEPT ![b] = FALSE]
      /\ active # head
  BY DEF ideintr
<1>2. idequeue \in Seq(Buf) /\ idequeue # <<>>
  BY <1>1, Parts DEF TypeOK, QueueSound
<1>3. b \in Buf /\ 1 \in 1..Len(idequeue)
  BY <1>2, SMT
<1>4. Queued(b)
  BY <1>3 DEF Queued
<1> HIDE DEF b
<1>5. valid \in [Buf -> BOOLEAN] /\ dirty \in [Buf -> BOOLEAN] /\ data \in [Buf -> Value]
  BY Parts DEF TypeOK
<1>6. valid'[b] /\ \A c \in Buf : c # b => valid'[c] = valid[c]
  BY <1>1, <1>3, <1>5
<1>7. ~dirty'[b] /\ \A c \in Buf : c # b => dirty'[c] = dirty[c]
  BY <1>1, <1>3, <1>5
<1>8. \A c \in Buf : c # b => data'[c] = data[c]
  <2>1. CASE dirty[b] \/ fail
    BY <1>1, <2>1
  <2>2. CASE ~(dirty[b] \/ fail)
    <3>1. data' = [data EXCEPT ![b] = disk[sector[b]]]
      BY <1>1, <2>2
    <3> QED BY <1>5, <3>1
  <2> QED BY <2>1, <2>2
<1> QED BY <1>3, <1>4, <1>6, <1>7, <1>8 DEF b

\* The interrupt of the disk serves the first request (ide.c).
LEMMA IdeintrStep ==
  ASSUME IInv, NEW fail \in BOOLEAN, fail => DiskErrors, ideintr(fail)
  PROVE  IInv'
<1>0. TypeOK
  BY Parts
<1> DEFINE b == idequeue[1]
<1>1. /\ disk' = IF dirty[b] THEN [disk EXCEPT ![sector[b]] = data[b]] ELSE disk
      /\ data' = IF dirty[b] \/ fail THEN data ELSE [data EXCEPT ![b] = disk[sector[b]]]
      /\ valid' = [valid EXCEPT ![b] = TRUE] /\ dirty' = [dirty EXCEPT ![b] = FALSE]
      /\ idequeue' = Tail(idequeue) /\ active' = IF Len(idequeue) > 1 THEN idequeue[2] ELSE head
      /\ active # head
  BY DEF ideintr
<1>2. /\ next' = next /\ prev' = prev /\ sector' = sector /\ busy' = busy
      /\ pc' = pc /\ want' = want /\ buf' = buf
  BY DEF ideintr, list
<1>3. chan' = [p \in Proc |-> IF chan[p] = b THEN head ELSE chan[p]]
  BY DEF ideintr, wakeup
<1>4. idequeue \in Seq(Buf) /\ idequeue # <<>>
  BY <1>0, <1>1, Parts DEF TypeOK, QueueSound
<1> DEFINE R == Tail(idequeue)
<1>5. /\ R \in Seq(Buf) /\ b \in Buf
      /\ \A i, j \in 1..Len(R) : R[i] = R[j] => i = j
      /\ \A c : (\E i \in 1..Len(R) : R[i] = c) <=> c # b /\ \E i \in 1..Len(idequeue) : idequeue[i] = c
      /\ \E i \in 1..Len(idequeue) : idequeue[i] = b
      /\ (IF Len(idequeue) > 1 THEN idequeue[2] ELSE head) = IF R = <<>> THEN head ELSE R[1]
      /\ (IF Len(idequeue) > 1 THEN idequeue[2] ELSE head) \in 0..NBUF
  <2>1. \A i, j \in 1..Len(idequeue) : idequeue[i] = idequeue[j] => i = j
    BY Parts DEF QueueSound
  <2> QED BY <1>4, <2>1, ServedQueue
<1> HIDE DEF b, R
<1>6. idequeue' = R
  BY <1>1 DEF R
<1>7. Queued(b) /\ \A c : Queued(c)' <=> c # b /\ Queued(c)
  BY <1>5, <1>6 DEF Queued
<1>8. sector[b] \in Sector
  BY <1>5, <1>7, QueuedBuffer
<1>9. /\ valid'[b] /\ ~dirty'[b]
      /\ \A c \in Buf : c # b => valid'[c] = valid[c] /\ dirty'[c] = dirty[c] /\ data'[c] = data[c]
  BY IdeintrBuffer DEF b
<1>10. TypeOK'
  <2>1. valid' \in [Buf -> BOOLEAN] /\ dirty' \in [Buf -> BOOLEAN]
    BY <1>0, <1>1 DEF TypeOK
  <2>2. data' \in [Buf -> Value] /\ disk' \in [Sector -> Value]
    <3>1. data \in [Buf -> Value] /\ disk \in [Sector -> Value]
      BY <1>0 DEF TypeOK
    <3>2. data[b] \in Value /\ disk[sector[b]] \in Value
      BY <3>1, <1>5, <1>8
    <3> QED BY <1>1, <3>1, <3>2
  <2>3. idequeue' \in Seq(Buf) /\ active' \in 0..NBUF
    BY <1>1, <1>5, <1>6
  <2>4. chan' \in [Proc -> 0..NBUF]
    BY <1>0, <1>3, Heads DEF TypeOK
  <2> QED BY <1>0, <1>2, <2>1, <2>2, <2>3, <2>4 DEF TypeOK
<1>11. OneOwner'
  <2>1. OneOwner
    BY Parts
  <2> QED BY <1>2, <2>1 DEF OneOwner
<1>12. Coherent'
  <2>1. CASE DiskErrors
    BY <2>1 DEF Coherent
  <2>2. CASE ~DiskErrors
    <3>1. \A c \in Buf : valid[c] /\ ~dirty[c] => sector[c] # None /\ data[c] = disk[sector[c]]
      BY <2>2, Parts DEF Coherent, CacheCoherent, Synced
    <3>2. sector'[b] # None /\ data'[b] = disk'[sector'[b]]
      <4>1. sector'[b] = sector[b] /\ sector[b] # None
        BY <1>2, <1>8, Heads
      <4>2. disk \in [Sector -> Value] /\ data \in [Buf -> Value]
        BY <1>0 DEF TypeOK
      <4>3. CASE dirty[b]
        BY <1>1, <1>8, <4>1, <4>2, <4>3
      <4>4. CASE ~dirty[b]
        BY <1>1, <1>5, <2>2, <4>1, <4>2, <4>4
      <4> QED BY <4>1, <4>3, <4>4
    <3>3. ASSUME NEW c \in Buf, c # b, valid'[c], ~dirty'[c]
          PROVE  sector'[c] # None /\ data'[c] = disk'[sector'[c]]
      <4>1. sector[c] # None /\ data[c] = disk[sector[c]] /\ data'[c] = data[c] /\ sector'[c] = sector[c]
        BY <1>2, <1>9, <3>1, <3>3
      <4>2. sector[c] # sector[b]
        <5>1. \A d, e \in Buf : sector[d] = sector[e] /\ sector[d] # None => d = e
          BY Parts DEF OneOwner
        <5> QED BY <1>5, <3>3, <4>1, <5>1
      <4>3. disk'[sector[c]] = disk[sector[c]]
        <5>1. sector[c] \in Sector /\ disk \in [Sector -> Value]
          BY <1>0, <4>1 DEF TypeOK
        <5> QED BY <1>1, <4>2, <5>1
      <4> QED BY <4>1, <4>3
    <3> QED BY <3>2, <3>3 DEF Coherent, CacheCoherent, Synced
  <2> QED BY <2>1, <2>2
<1>13. DirtyHeld'
  <2>1. \A c \in Buf : dirty[c] => \E q \in Proc : pc[q] = "iderw" /\ buf[q] = c
    BY Parts DEF DirtyHeld
  <2>2. ASSUME NEW c \in Buf, dirty'[c] PROVE dirty[c]
    BY <1>9, <2>2
  <2> QED BY <1>2, <2>1, <2>2 DEF DirtyHeld
<1>14. GotBlock'
  <2>1. ASSUME NEW q \in Proc, pc'[q] = "holding"
        PROVE  valid'[buf'[q]] /\ ~dirty'[buf'[q]] /\ sector'[buf'[q]] = want'[q]
    <3>1. pc[q] = "holding"
      BY <1>2, <2>1
    <3>2. valid[buf[q]] /\ ~dirty[buf[q]] /\ sector[buf[q]] = want[q]
      BY <3>1, Parts DEF GotBlock, Synced
    <3>3. buf[q] \in Buf /\ buf[q] # b
      BY <1>7, <3>1, OwnBuffer
    <3> QED BY <1>2, <1>9, <3>2, <3>3
  <2> QED BY <2>1 DEF GotBlock, Synced
<1>15. ListWhole'
  BY <1>2, Parts, ListQuiet
<1>16. QueueSound'
  <2>1. \A c \in Buf : Queued(c) => busy[c] /\ ~(valid[c] /\ ~dirty[c])
    BY Parts DEF QueueSound, Synced
  <2>2. ASSUME NEW c \in Buf, Queued(c)' PROVE busy'[c] /\ ~(valid'[c] /\ ~dirty'[c])
    BY <1>2, <1>7, <1>9, <2>1, <2>2
  <2>3. active' = IF idequeue' = <<>> THEN head ELSE idequeue'[1]
    BY <1>1, <1>5, <1>6
  <2>4. \A i, j \in 1..Len(idequeue') : idequeue'[i] = idequeue'[j] => i = j
    BY <1>5, <1>6
  <2> QED BY <2>2, <2>3, <2>4 DEF QueueSound, Synced
<1>17. AllDoing'
  <2>1. ASSUME NEW q \in Proc PROVE Doing(q)'
    <3>1. Doing(q)
      BY Parts DEF AllDoing
    <3>2. Queued(buf[q])' => Queued(buf[q])
      BY <1>2, <1>7
    <3> QED BY <1>2, <3>1, <3>2 DEF Doing
  <2> QED BY <2>1 DEF AllDoing
<1>18. ValidBlock'
  <2>1. \A c \in Buf : valid[c] => sector[c] # None
    BY Parts DEF ValidBlock
  <2>2. ASSUME NEW c \in Buf, valid'[c] PROVE sector'[c] # None
    BY <1>2, <1>8, <1>9, <2>1, <2>2, Heads
  <2> QED BY <2>2 DEF ValidBlock
<1> QED BY <1>10, <1>11, <1>12, <1>13, <1>14, <1>15, <1>16, <1>17, <1>18, Together

-----------------------------------------------------------------------------
(* brelse, and every step.                                                 *)

\* A process gives its buffer back (bio.c).
LEMMA BrelseStep == ASSUME IInv, NEW p \in Proc, brelse(p) PROVE IInv'
<1>0. TypeOK
  BY Parts
<1> DEFINE b == buf[p]
<1>1. /\ pc[p] = "holding" /\ pc' = [pc EXCEPT ![p] = "idle"]
      /\ busy' = [busy EXCEPT ![b] = FALSE]
      /\ want' = [want EXCEPT ![p] = None] /\ buf' = [buf EXCEPT ![p] = head]
      /\ chan' = [q \in Proc |-> IF chan[q] = b THEN head ELSE chan[q]]
  BY DEF brelse, Goto, wakeup
<1>2. /\ sector' = sector /\ valid' = valid /\ dirty' = dirty /\ data' = data
      /\ idequeue' = idequeue /\ active' = active /\ disk' = disk
  BY DEF brelse, io
<1>3. Relink(b)
  BY DEF brelse, Relink
<1>4. /\ b \in Buf /\ b # head /\ busy[b] /\ ~dirty[b] /\ ~Queued(b)
      /\ \A q \in Proc : q # p => buf[q] # b
  BY <1>1, OwnBuffer
<1> HIDE DEF b
<1>5. /\ next' \in [0..NBUF -> 0..NBUF] /\ prev' \in [0..NBUF -> 0..NBUF]
      /\ ListWhole'
  BY <1>0, <1>3, <1>4, Parts, ListReleased
<1>6. /\ pc'[p] = "idle" /\ buf'[p] = head
      /\ \A q \in Proc : q # p => pc'[q] = pc[q] /\ buf'[q] = buf[q] /\ want'[q] = want[q]
  BY <1>0, <1>1 DEF TypeOK
<1>7. ~busy'[b] /\ \A c \in Buf : c # b => busy'[c] = busy[c]
  BY <1>0, <1>1, <1>4 DEF TypeOK
<1>8. TypeOK'
  <2>1. busy' \in [Buf -> BOOLEAN]
    BY <1>0, <1>1 DEF TypeOK
  <2>2. want' \in [Proc -> Sector \cup {None}] /\ buf' \in [Proc -> 0..NBUF]
    BY <1>0, <1>1, Heads DEF TypeOK
  <2>3. chan' \in [Proc -> 0..NBUF]
    BY <1>0, <1>1, Heads DEF TypeOK
  <2>4. pc' \in [Proc -> {"idle", "bget", "bread", "iderw", "holding"}]
    BY <1>0, <1>1 DEF TypeOK
  <2> QED BY <1>0, <1>2, <1>5, <2>1, <2>2, <2>3, <2>4 DEF TypeOK
<1>9. OneOwner'
  <2>1. /\ \A c, d \in Buf : sector[c] = sector[d] /\ sector[c] # None => c = d
        /\ \A q, r \in Proc : buf[q] = buf[r] /\ buf[q] # head => q = r
        /\ \A c \in Buf : busy[c] <=> \E q \in Proc : buf[q] = c
    BY Parts DEF OneOwner
  <2>2. ASSUME NEW q \in Proc, NEW r \in Proc, buf'[q] = buf'[r], buf'[q] # head PROVE q = r
    <3>1. q # p /\ r # p
      BY <1>6, <2>2
    <3>2. buf[q] = buf[r] /\ buf[q] # head
      BY <1>6, <2>2, <3>1
    <3> QED BY <2>1, <3>2
  <2>3. ASSUME NEW c \in Buf PROVE busy'[c] <=> \E q \in Proc : buf'[q] = c
    <3>0. c # head
      BY Heads
    <3>1. CASE c = b
      BY <3>0, <3>1, <1>4, <1>6, <1>7
    <3>2. CASE c # b
      <4>1. \A q \in Proc : buf'[q] = c <=> buf[q] = c
        BY <3>0, <3>2, <1>6 DEF b
      <4>2. busy'[c] = busy[c] /\ (busy[c] <=> \E q \in Proc : buf[q] = c)
        BY <3>2, <1>7, <2>1
      <4> QED BY <4>1, <4>2
    <3> QED BY <3>1, <3>2
  <2> QED BY <1>2, <2>1, <2>2, <2>3 DEF OneOwner
<1>10. Coherent'
  <2>1. Coherent
    BY Parts
  <2> QED BY <1>2, <2>1 DEF Coherent, CacheCoherent, Synced
<1>11. DirtyHeld'
  <2>1. \A c \in Buf : dirty[c] => \E q \in Proc : pc[q] = "iderw" /\ buf[q] = c
    BY Parts DEF DirtyHeld
  <2>2. ASSUME NEW c \in Buf, dirty[c] PROVE \E q \in Proc : pc'[q] = "iderw" /\ buf'[q] = c
    <3>1. PICK q \in Proc : pc[q] = "iderw" /\ buf[q] = c
      BY <2>1, <2>2
    <3>2. q # p
      BY <1>1, <3>1
    <3> QED BY <1>6, <3>1, <3>2
  <2> QED BY <1>2, <2>2 DEF DirtyHeld
<1>12. GotBlock'
  <2>1. ASSUME NEW q \in Proc, pc'[q] = "holding"
        PROVE  valid'[buf'[q]] /\ ~dirty'[buf'[q]] /\ sector'[buf'[q]] = want'[q]
    <3>1. q # p /\ pc[q] = "holding" /\ buf'[q] = buf[q] /\ want'[q] = want[q]
      BY <1>6, <2>1
    <3>2. valid[buf[q]] /\ ~dirty[buf[q]] /\ sector[buf[q]] = want[q]
      BY <3>1, Parts DEF GotBlock, Synced
    <3> QED BY <1>2, <3>1, <3>2
  <2> QED BY <2>1 DEF GotBlock, Synced
<1>13. QueueSound'
  <2>1. /\ \A i, j \in 1..Len(idequeue) : idequeue[i] = idequeue[j] => i = j
        /\ \A c \in Buf : Queued(c) => busy[c] /\ ~Synced(c)
        /\ active = IF idequeue = <<>> THEN head ELSE idequeue[1]
    BY Parts DEF QueueSound
  <2>2. \A c : (Queued(c)' <=> Queued(c)) /\ (Synced(c)' <=> Synced(c))
    BY <1>2 DEF Queued, Synced
  <2>3. ASSUME NEW c \in Buf, Queued(c) PROVE busy'[c] /\ ~Synced(c)
    BY <1>4, <1>7, <2>1, <2>3
  <2> QED BY <1>2, <2>1, <2>2, <2>3 DEF QueueSound
<1>14. AllDoing'
  <2>0. \A c : Queued(c)' <=> Queued(c)
    BY <1>2 DEF Queued
  <2>1. ~Queued(head)
    <3>1. \A i \in 1..Len(idequeue) : idequeue[i] \in Buf
      <4>1. idequeue \in Seq(Buf)
        BY <1>0 DEF TypeOK
      <4> QED BY <4>1, SMT
    <3> QED BY <3>1, Heads DEF Queued
  <2>2. Doing(p)'
    BY <1>6, <2>0, <2>1 DEF Doing
  <2>3. ASSUME NEW q \in Proc, q # p PROVE Doing(q)'
    <3>1. Doing(q)
      BY Parts DEF AllDoing
    <3>2. pc'[q] = pc[q] /\ buf'[q] = buf[q] /\ want'[q] = want[q]
      BY <1>6, <2>3
    <3> QED BY <1>2, <2>0, <3>1, <3>2 DEF Doing
  <2> QED BY <2>2, <2>3 DEF AllDoing
<1>15. ValidBlock'
  <2>1. ValidBlock
    BY Parts
  <2> QED BY <1>2, <2>1 DEF ValidBlock
<1> QED BY <1>5, <1>8, <1>9, <1>10, <1>11, <1>12, <1>13, <1>14, <1>15, Together

\* binit establishes the invariant.
LEMMA InitInv == Init => IInv
<1> SUFFICES ASSUME Init PROVE IInv
  OBVIOUS
<1>1. /\ sector = [b \in Buf |-> None]
      /\ busy = [b \in Buf |-> FALSE] /\ valid = [b \in Buf |-> FALSE]
      /\ dirty = [b \in Buf |-> FALSE] /\ data \in [Buf -> Value]
      /\ idequeue = <<>> /\ active = head /\ disk \in [Sector -> Value]
      /\ pc = [p \in Proc |-> "idle"] /\ want = [p \in Proc |-> None]
      /\ buf = [p \in Proc |-> head] /\ chan = [p \in Proc |-> head]
  BY DEF Init
<1>2. NBUF \in Nat
  BY Heads
<1>3. next \in [0..NBUF -> 0..NBUF] /\ prev \in [0..NBUF -> 0..NBUF]
  <2>1. \A b \in 0..NBUF : (IF b = 0 THEN NBUF ELSE b - 1) \in 0..NBUF
    BY <1>2, SMT
  <2>2. \A b \in 0..NBUF : (IF b = NBUF THEN 0 ELSE b + 1) \in 0..NBUF
    BY <1>2, SMT
  <2> QED BY <2>1, <2>2 DEF Init, head
<1>4. idequeue \in Seq(Buf)
  BY <1>1, EmptySequence
<1>5. \A b : ~Queued(b)
  <2>1. \A i \in 1..Len(idequeue) : FALSE
    BY <1>1, SMT
  <2> QED BY <2>1 DEF Queued
<1>6. TypeOK
  BY <1>1, <1>3, <1>4, Heads DEF TypeOK
<1>7. OneOwner
  BY <1>1, Heads DEF OneOwner
<1>8. Coherent /\ DirtyHeld /\ GotBlock /\ ValidBlock
  BY <1>1 DEF Coherent, CacheCoherent, Synced, DirtyHeld, GotBlock, ValidBlock
<1>9. QueueSound
  <2>1. \A i \in 1..Len(idequeue) : FALSE
    BY <1>1, SMT
  <2> QED BY <1>1, <1>5, <2>1 DEF QueueSound
<1>10. AllDoing
  BY <1>1, <1>5 DEF AllDoing, Doing
<1> QED BY <1>6, <1>7, <1>8, <1>9, <1>10, ListInit, Parts

\* Every step keeps the invariant.
LEMMA NextInv == IInv /\ [Next]_vars => IInv'
<1> SUFFICES ASSUME IInv, [Next]_vars PROVE IInv'
  OBVIOUS
<1>1. ASSUME NEW p \in Proc, Step(p) PROVE IInv'
  <2>1. CASE BgetHit(p) \/ BgetRecycle(p)
    BY <2>1, TakenStep, BgetHitTakes, BgetRecycleTakes
  <2>2. CASE BgetBusy(p) \/ BreadValid(p)
    BY <2>2, BgetBusyStep, BreadValidStep
  <2>3. CASE BreadFetch(p)
    BY <2>3, BreadFetchRequests, RequestedStep
  <2>4. CASE IderwDone(p) \/ IderwAgain(p)
    BY <2>4, IderwDoneStep, IderwAgainStep
  <2>5. CASE brelse(p)
    BY <2>5, BrelseStep
  <2> QED BY <1>1, <2>1, <2>2, <2>3, <2>4, <2>5 DEF Step
<1>2. ASSUME UNCHANGED vars PROVE IInv'
  <2>1. /\ next' = next /\ prev' = prev /\ sector' = sector /\ busy' = busy /\ valid' = valid
        /\ dirty' = dirty /\ data' = data /\ idequeue' = idequeue /\ active' = active
        /\ disk' = disk /\ buf' = buf /\ pc' = pc /\ want' = want /\ chan' = chan
    BY <1>2 DEF vars, list, flags, io, procs
  <2>2. TypeOK' /\ OneOwner' /\ Coherent'
    <3>1. TypeOK /\ OneOwner /\ Coherent
      BY Parts
    <3> QED BY <2>1, <3>1 DEF TypeOK, OneOwner, Coherent, CacheCoherent, Synced
  <2>3. DirtyHeld' /\ GotBlock' /\ ValidBlock'
    <3>1. DirtyHeld /\ GotBlock /\ ValidBlock
      BY Parts
    <3> QED BY <2>1, <3>1 DEF DirtyHeld, GotBlock, ValidBlock, Synced
  <2>4. ListWhole'
    BY <2>1, Parts, ListQuiet
  <2>5. QueueSound' /\ AllDoing'
    <3>1. QueueSound /\ AllDoing
      BY Parts
    <3> QED BY <2>1, <3>1 DEF QueueSound, AllDoing, Doing, Queued, Synced
  <2> QED BY <2>2, <2>3, <2>4, <2>5, Together
<1> QED BY <1>1, <1>2, KillStep, BreadStep, BwriteRequests, RequestedStep, IdeintrStep DEF Next

\* The buffer cache is a synchronization point for disk blocks (bio.c, ide.c):
\* one buffer for a block and one process for a buffer, coherent contents, no
\* change lost, a whole list and a sound queue, whatever the numbers of processes,
\* buffers and blocks and the order of their steps.
THEOREM BufferCacheCoherent == Spec => []BuffersCoherent
<1>1. IInv => BuffersCoherent
  BY DEF IInv
<1> QED BY <1>1, InitInv, NextInv, PTL DEF Spec

-----------------------------------------------------------------------------
(* The buffer cache implements BlockStore.                                 *)

Owners == [p \in Proc |-> HasBlock(p)]
Copies == [p \in Proc |-> HasCopy(p)]

\* What the abstract steps say, with the mapping written out.
LEMMA StoreSteps ==
  ASSUME NEW p \in Proc
  PROVE  /\ \A s \in Sector :
              /\ Owners[p] = None /\ (\A q \in Proc : Owners[q] # s)
              /\ Owners' = [Owners EXCEPT ![p] = s] /\ disk' = disk /\ Copies' = Copies
              => Store!Next
         /\ /\ Owners[p] # None /\ Copies[p] = None
            /\ Copies' = [Copies EXCEPT ![p] = disk[Owners[p]]]
            /\ disk' = disk /\ Owners' = Owners
            => Store!Next
         /\ \A v \in Value :
              /\ Owners[p] # None /\ Copies[p] = disk[Owners[p]]
              /\ Copies' = [Copies EXCEPT ![p] = v] /\ disk' = disk /\ Owners' = Owners
              => Store!Next
         /\ /\ Owners[p] # None /\ Copies[p] \in Value
            /\ disk' = [disk EXCEPT ![Owners[p]] = Copies[p]]
            /\ Owners' = Owners /\ Copies' = Copies
            => Store!Next
         /\ /\ Owners[p] # None /\ Copies[p] = disk[Owners[p]]
            /\ Owners' = [Owners EXCEPT ![p] = None] /\ Copies' = [Copies EXCEPT ![p] = None]
            /\ disk' = disk
            => Store!Next
BY DEF Store!Next, Store!Acquire, Store!Read, Store!Change, Store!Write, Store!Release, Owners, Copies

\* One process's block, or its copy, changes.
LEMMA OwnersAt ==
  ASSUME NEW p \in Proc, NEW x, HasBlock(p)' = x, \A q \in Proc : q # p => HasBlock(q)' = HasBlock(q)
  PROVE  Owners' = [Owners EXCEPT ![p] = x]
BY DEF Owners

\* The same of the copies.
LEMMA CopiesAt ==
  ASSUME NEW p \in Proc, NEW x, HasCopy(p)' = x, \A q \in Proc : q # p => HasCopy(q)' = HasCopy(q)
  PROVE  Copies' = [Copies EXCEPT ![p] = x]
BY DEF Copies

\* Nothing changes.
LEMMA AllSame ==
  /\ (\A q \in Proc : HasBlock(q)' = HasBlock(q)) => Owners' = Owners
  /\ (\A q \in Proc : HasCopy(q)' = HasCopy(q)) => Copies' = Copies
BY DEF Owners, Copies

\* What a process has does not change when its place, its buffer and what is in
\* it do not.
LEMMA Keeps ==
  ASSUME NEW q \in Proc, buf'[q] = buf[q]
  PROVE  /\ (buf[q] # head => want'[q] = want[q]) => HasBlock(q)' = HasBlock(q)
         /\ pc'[q] = pc[q] /\ (pc[q] \in {"iderw", "holding"} =>
                                 /\ valid'[buf[q]] = valid[buf[q]] /\ dirty'[buf[q]] = dirty[buf[q]]
                                 /\ data'[buf[q]] = data[buf[q]])
            => HasCopy(q)' = HasCopy(q)
BY DEF HasBlock, HasCopy

StoreStep == Store!Next \/ (disk' = disk /\ Owners' = Owners /\ Copies' = Copies)

\* A step that changes nothing of what the processes have.
LEMMA StoreStutters ==
  ASSUME disk' = disk, \A q \in Proc : HasBlock(q)' = HasBlock(q) /\ HasCopy(q)' = HasCopy(q)
  PROVE  StoreStep
BY AllSame DEF StoreStep

\* What a process has, by where it is.
LEMMA Has ==
  ASSUME IInv, NEW p \in Proc
  PROVE  /\ Owners[p] = HasBlock(p) /\ Copies[p] = HasCopy(p)
         /\ pc[p] \in {"idle", "bget"} => buf[p] = head /\ HasBlock(p) = None /\ HasCopy(p) = None
         /\ pc[p] = "bread" => HasCopy(p) = None
         /\ pc[p] \in {"bread", "iderw", "holding"} =>
              /\ buf[p] \in Buf /\ buf[p] # head
              /\ HasBlock(p) = want[p] /\ want[p] \in Sector /\ want[p] # None /\ sector[buf[p]] = want[p]
<1>1. Owners[p] = HasBlock(p) /\ Copies[p] = HasCopy(p)
  BY DEF Owners, Copies
<1>2. Doing(p)
  BY Parts DEF AllDoing
<1>3. pc[p] \in {"idle", "bget"} => buf[p] = head /\ HasBlock(p) = None /\ HasCopy(p) = None
  BY <1>2 DEF Doing, HasBlock, HasCopy
<1>4. pc[p] = "bread" => HasCopy(p) = None
  BY DEF HasCopy
<1>5. ASSUME pc[p] \in {"bread", "iderw", "holding"}
      PROVE  /\ buf[p] \in Buf /\ buf[p] # head
             /\ HasBlock(p) = want[p] /\ want[p] \in Sector /\ want[p] # None /\ sector[buf[p]] = want[p]
  <2>1. buf[p] # head /\ want[p] \in Sector /\ sector[buf[p]] = want[p]
    BY <1>2, <1>5 DEF Doing
  <2> QED BY <2>1, HeldBuffer, Heads, Parts DEF HasBlock
<1> QED BY <1>1, <1>3, <1>4, <1>5

\* In "holding" the copy is what is on disk.
LEMMA HoldsBlock ==
  ASSUME IInv, ~DiskErrors, NEW p \in Proc, pc[p] = "holding"
  PROVE  HasCopy(p) = data[buf[p]] /\ data[buf[p]] = disk[want[p]]
<1>1. buf[p] \in Buf /\ sector[buf[p]] = want[p]
  BY Has
<1>2. Synced(buf[p])
  BY Parts DEF GotBlock
<1>3. data[buf[p]] = disk[sector[buf[p]]]
  BY <1>1, <1>2, Parts DEF Coherent, CacheCoherent
<1> QED BY <1>1, <1>2, <1>3 DEF HasCopy, Synced

\* A quiet step of p is one of what p has alone.
LEMMA QuietOthers ==
  ASSUME NEW p \in Proc, Quiet(p)
  PROVE  /\ disk' = disk
         /\ \A q \in Proc : q # p => HasBlock(q)' = HasBlock(q) /\ HasCopy(q)' = HasCopy(q)
BY Keeps DEF Quiet, OthersGoOn

\* kill, bread up to bget's loop and a sleep in bget or iderw do not show.
LEMMA HiddenSteps ==
  ASSUME IInv, NEW p \in Proc,
         kill(p) \/ (\E s \in Sector : bread(p, s)) \/ BgetBusy(p) \/ IderwAgain(p)
  PROVE  StoreStep
<1>0. TypeOK
  BY Parts
<1>1. CASE kill(p)
  <2>1. Quiet(p) /\ pc' = pc /\ want' = want
    BY <1>1 DEF kill, Quiet, OthersGoOn, list, flags, io
  <2>2. HasBlock(p)' = HasBlock(p) /\ HasCopy(p)' = HasCopy(p)
    BY <2>1, Keeps DEF Quiet
  <2> QED BY <2>1, <2>2, QuietOthers, StoreStutters
<1>2. ASSUME NEW s \in Sector, bread(p, s) PROVE StoreStep
  <2>1. /\ pc[p] = "idle" /\ pc' = [pc EXCEPT ![p] = "bget"]
        /\ want' = [want EXCEPT ![p] = s] /\ buf' = buf
    BY <1>2 DEF bread, Goto
  <2>2. pc'[p] = "bget" /\ Quiet(p)
    BY <1>0, <1>2, <2>1 DEF bread, TypeOK, Quiet, OthersGoOn, list, flags, io
  <2>3. buf[p] = head /\ HasBlock(p) = None /\ HasCopy(p) = None
    BY <2>1, Has
  <2>4. HasBlock(p)' = None /\ HasCopy(p)' = None
    BY <2>1, <2>2, <2>3 DEF HasBlock, HasCopy
  <2> QED BY <2>2, <2>3, <2>4, QuietOthers, StoreStutters
<1>3. CASE BgetBusy(p)
  <2>1. pc[p] = "bget" /\ pc' = [pc EXCEPT ![p] = "bget"] /\ UNCHANGED <<list, flags, io, want, buf>>
    BY <1>3 DEF BgetBusy, Goto
  <2>2. pc'[p] = pc[p] /\ want' = want /\ Quiet(p)
    BY <1>0, <2>1 DEF TypeOK, Quiet, OthersGoOn, list, flags, io
  <2>3. HasBlock(p)' = HasBlock(p) /\ HasCopy(p)' = HasCopy(p)
    BY <2>2, Keeps DEF Quiet
  <2> QED BY <2>2, <2>3, QuietOthers, StoreStutters
<1>4. CASE IderwAgain(p)
  <2>1. pc[p] = "iderw" /\ pc' = [pc EXCEPT ![p] = "iderw"] /\ UNCHANGED <<list, flags, io, want, buf>>
    BY <1>4 DEF IderwAgain, Goto
  <2>2. pc'[p] = pc[p] /\ want' = want /\ Quiet(p)
    BY <1>0, <2>1 DEF TypeOK, Quiet, OthersGoOn, list, flags, io
  <2>3. HasBlock(p)' = HasBlock(p) /\ HasCopy(p)' = HasCopy(p)
    BY <2>2, Keeps DEF Quiet
  <2> QED BY <2>2, <2>3, QuietOthers, StoreStutters
<1> QED BY <1>1, <1>2, <1>3, <1>4

\* Returning from iderw does not show: the copy was there since the interrupt.
LEMMA IderwDoneHidden == ASSUME IInv, NEW p \in Proc, IderwDone(p) PROVE StoreStep
<1>0. TypeOK
  BY Parts
<1>1. /\ pc[p] = "iderw" /\ pc' = [pc EXCEPT ![p] = "holding"]
      /\ UNCHANGED <<list, flags, io, want, buf>> /\ Synced(buf[p])
  BY DEF IderwDone, Goto
<1>2. pc'[p] = "holding" /\ want' = want /\ Quiet(p)
  BY <1>0, <1>1 DEF TypeOK, Quiet, OthersGoOn, list, flags, io
<1>3. HasBlock(p)' = HasBlock(p)
  BY <1>2, Keeps DEF Quiet
<1>4. HasCopy(p)' = HasCopy(p)
  BY <1>1, <1>2 DEF HasCopy, Quiet, Synced
<1> QED BY <1>2, <1>3, <1>4, QuietOthers, StoreStutters

\* bread of a valid buffer reads the block.
LEMMA BreadValidReads == ASSUME IInv, ~DiskErrors, NEW p \in Proc, BreadValid(p) PROVE StoreStep
<1>0. TypeOK
  BY Parts
<1>1. /\ pc[p] = "bread" /\ pc' = [pc EXCEPT ![p] = "holding"] /\ valid[buf[p]]
      /\ UNCHANGED <<list, flags, io, want, buf>>
  BY DEF BreadValid, Goto
<1>2. pc'[p] = "holding" /\ want' = want /\ Quiet(p)
  BY <1>0, <1>1 DEF TypeOK, Quiet, OthersGoOn, list, flags, io
<1>3. HasBlock(p)' = HasBlock(p)
  BY <1>2, Keeps DEF Quiet
<1>4. HasBlock(p) = want[p] /\ want[p] # None /\ Owners[p] = HasBlock(p) /\ Copies[p] = None
  BY <1>1, Has
<1>5. HasCopy(p)' = disk[Owners[p]]
  <2>1. HasCopy(p)' = data[buf[p]]
    BY <1>1, <1>2 DEF HasCopy, Quiet
  <2>3. buf[p] \in Buf /\ sector[buf[p]] = want[p] /\ ~dirty[buf[p]]
    BY <1>1, OwnBuffer
  <2>4. data[buf[p]] = disk[sector[buf[p]]]
    BY <1>1, <2>3, Parts DEF Coherent, CacheCoherent, Synced
  <2> QED BY <1>4, <2>1, <2>3, <2>4
<1>6. Copies' = [Copies EXCEPT ![p] = disk[Owners[p]]] /\ disk' = disk
  BY <1>2, <1>5, QuietOthers, CopiesAt
<1>7. Owners' = Owners
  BY <1>2, <1>3, QuietOthers, AllSame
<1> QED BY <1>4, <1>6, <1>7, StoreSteps DEF StoreStep

\* bget gives the block to p, which no other process has.
LEMMA TakenAcquires == ASSUME IInv, NEW p \in Proc, NEW b \in Buf, Taken(p, b) PROVE StoreStep
<1>0. TypeOK
  BY Parts
<1>1. /\ pc[p] = "bget" /\ pc' = [pc EXCEPT ![p] = "bread"] /\ ~busy[b]
      /\ buf' = [buf EXCEPT ![p] = b] /\ \A c \in Buf : c # b => sector[c] # want[p]
  BY DEF Taken
<1>2. /\ \A c \in Buf : c # b => valid'[c] = valid[c] /\ dirty'[c] = dirty[c]
      /\ data' = data /\ disk' = disk /\ want' = want
  BY DEF Taken
<1>3. b # head /\ None \notin Sector
  BY Heads
<1>4. /\ pc'[p] = "bread" /\ buf'[p] = b
      /\ \A q \in Proc : q # p => pc'[q] = pc[q] /\ buf'[q] = buf[q]
  BY <1>0, <1>1 DEF TypeOK
<1>5. \A q \in Proc : buf[q] # b
  BY <1>1, FreeBuffer
<1>6. ASSUME NEW q \in Proc, q # p PROVE HasBlock(q)' = HasBlock(q) /\ HasCopy(q)' = HasCopy(q)
  <2>1. buf'[q] = buf[q] /\ pc'[q] = pc[q] /\ want'[q] = want[q]
    BY <1>2, <1>4, <1>6
  <2>2. pc[q] \in {"iderw", "holding"} => buf[q] \in Buf
    BY Has
  <2> QED BY <1>2, <1>5, <2>1, <2>2, Keeps
<1>7. want[p] \in Sector
  <2>1. Doing(p)
    BY Parts DEF AllDoing
  <2> QED BY <1>1, <2>1 DEF Doing
<1>8. HasBlock(p) = None /\ HasCopy(p) = None /\ HasBlock(p)' = want[p] /\ HasCopy(p)' = None
  BY <1>1, <1>2, <1>3, <1>4, Has DEF HasBlock, HasCopy
<1>9. ASSUME NEW q \in Proc PROVE Owners[q] # want[p]
  <2>1. Owners[q] = HasBlock(q)
    BY Has
  <2>2. CASE pc[q] \in {"bread", "iderw", "holding"}
    <3>1. buf[q] \in Buf /\ HasBlock(q) = want[q] /\ sector[buf[q]] = want[q]
      BY <2>2, Has
    <3> QED BY <1>1, <1>5, <2>1, <3>1
  <2>3. CASE pc[q] \in {"idle", "bget"}
    BY <1>3, <1>7, <2>1, <2>3, Has
  <2> QED BY <1>0, <2>2, <2>3, ProcTypes
<1>10. Owners' = [Owners EXCEPT ![p] = want[p]]
  BY <1>6, <1>8, OwnersAt
<1>11. Copies' = Copies
  BY <1>6, <1>8, AllSame
<1>12. Owners[p] = None
  BY <1>8, Has
<1> QED BY <1>2, <1>7, <1>9, <1>10, <1>11, <1>12, StoreSteps DEF StoreStep

\* A request of p does not show to the others.
LEMMA RequestedOthers ==
  ASSUME IInv, NEW p \in Proc, NEW b, Requested(p, b)
  PROVE  /\ \A q \in Proc : q # p => HasBlock(q)' = HasBlock(q) /\ HasCopy(q)' = HasCopy(q)
         /\ HasBlock(p)' = HasBlock(p) /\ disk' = disk /\ buf' = buf /\ pc'[p] = "iderw"
         /\ valid' = valid
<1>0. TypeOK
  BY Parts
<1>1. /\ pc[p] \in {"bread", "holding"} /\ b = buf[p] /\ pc' = [pc EXCEPT ![p] = "iderw"]
      /\ \A c \in Buf : c # b => data'[c] = data[c] /\ dirty'[c] = dirty[c]
      /\ valid' = valid /\ disk' = disk /\ want' = want /\ buf' = buf
  BY DEF Requested
<1>2. pc'[p] = "iderw" /\ \A q \in Proc : q # p => pc'[q] = pc[q]
  BY <1>0, <1>1 DEF TypeOK
<1>3. ASSUME NEW q \in Proc, q # p PROVE HasBlock(q)' = HasBlock(q) /\ HasCopy(q)' = HasCopy(q)
  <2>1. pc[q] \in {"iderw", "holding"} => buf[q] \in Buf
    BY Has
  <2>2. buf[q] # b
    BY <1>1, <1>3, OwnBuffer
  <2> QED BY <1>1, <1>2, <1>3, <2>1, <2>2, Keeps
<1>4. HasBlock(p)' = HasBlock(p)
  BY <1>1, Keeps
<1> QED BY <1>1, <1>2, <1>3, <1>4

\* Asking the disk for a block does not show.
LEMMA BreadFetchHidden == ASSUME IInv, NEW p \in Proc, BreadFetch(p) PROVE StoreStep
<1>1. pc[p] = "bread" /\ ~valid[buf[p]] /\ dirty' = dirty
  BY DEF BreadFetch, Goto
<1>2. Requested(p, buf[p])
  BY BreadFetchRequests
<1>3. /\ \A q \in Proc : q # p => HasBlock(q)' = HasBlock(q) /\ HasCopy(q)' = HasCopy(q)
      /\ HasBlock(p)' = HasBlock(p) /\ disk' = disk /\ buf' = buf /\ pc'[p] = "iderw"
      /\ valid' = valid
  BY <1>2, RequestedOthers
<1>4. ~dirty[buf[p]]
  BY <1>1, OwnBuffer
<1>5. HasCopy(p) = None /\ HasCopy(p)' = None
  BY <1>1, <1>3, <1>4 DEF HasCopy
<1> QED BY <1>3, <1>5, StoreStutters

\* bwrite changes the copy, which was the block's contents.
LEMMA BwriteChanges ==
  ASSUME IInv, ~DiskErrors, NEW p \in Proc, NEW v \in Value, bwrite(p, v)
  PROVE  StoreStep
<1>0. TypeOK
  BY Parts
<1>1. /\ pc[p] = "holding" /\ data' = [data EXCEPT ![buf[p]] = v]
      /\ dirty' = [dirty EXCEPT ![buf[p]] = TRUE]
  BY DEF bwrite, Goto
<1>2. Requested(p, buf[p])
  BY BwriteRequests
<1>3. /\ \A q \in Proc : q # p => HasBlock(q)' = HasBlock(q) /\ HasCopy(q)' = HasCopy(q)
      /\ HasBlock(p)' = HasBlock(p) /\ disk' = disk /\ buf' = buf /\ pc'[p] = "iderw"
  BY <1>2, RequestedOthers
<1>4. buf[p] \in Buf /\ HasBlock(p) = want[p] /\ want[p] # None /\ Owners[p] = HasBlock(p) /\ Copies[p] = HasCopy(p)
  BY <1>1, Has
<1>5. data'[buf[p]] = v /\ dirty'[buf[p]]
  BY <1>0, <1>1, <1>4 DEF TypeOK
<1>6. HasCopy(p)' = v
  BY <1>3, <1>5 DEF HasCopy
<1>7. Copies[p] = disk[Owners[p]]
  BY <1>1, <1>4, HoldsBlock
<1>8. Copies' = [Copies EXCEPT ![p] = v]
  BY <1>3, <1>6, CopiesAt
<1>9. Owners' = Owners
  BY <1>3, AllSame
<1> QED BY <1>3, <1>4, <1>7, <1>8, <1>9, StoreSteps DEF StoreStep

\* brelse gives the block up, which is written.
LEMMA BrelseReleases == ASSUME IInv, ~DiskErrors, NEW p \in Proc, brelse(p) PROVE StoreStep
<1>0. TypeOK
  BY Parts
<1>1. /\ pc[p] = "holding" /\ pc' = [pc EXCEPT ![p] = "idle"]
      /\ want' = [want EXCEPT ![p] = None] /\ buf' = [buf EXCEPT ![p] = head]
      /\ valid' = valid /\ dirty' = dirty /\ data' = data /\ disk' = disk
  BY DEF brelse, Goto, io
<1>2. /\ pc'[p] = "idle" /\ buf'[p] = head
      /\ \A q \in Proc : q # p => pc'[q] = pc[q] /\ buf'[q] = buf[q] /\ want'[q] = want[q]
  BY <1>0, <1>1, Heads DEF TypeOK
<1>3. \A q \in Proc : q # p => HasBlock(q)' = HasBlock(q) /\ HasCopy(q)' = HasCopy(q)
  BY <1>1, <1>2, Keeps
<1>4. HasBlock(p)' = None /\ HasCopy(p)' = None
  BY <1>2 DEF HasBlock, HasCopy
<1>5. HasBlock(p) = want[p] /\ want[p] # None /\ Owners[p] = HasBlock(p) /\ Copies[p] = HasCopy(p)
  BY <1>1, Has
<1>6. Copies[p] = disk[Owners[p]]
  BY <1>1, <1>5, HoldsBlock
<1>7. Copies' = [Copies EXCEPT ![p] = None] /\ Owners' = [Owners EXCEPT ![p] = None]
  BY <1>3, <1>4, CopiesAt, OwnersAt
<1> QED BY <1>1, <1>5, <1>6, <1>7, StoreSteps DEF StoreStep

\* The interrupt writes the copy of the process whose request is first, or reads
\* its block.
LEMMA IdeintrServes ==
  ASSUME IInv, ~DiskErrors, NEW fail \in BOOLEAN, fail => DiskErrors, ideintr(fail)
  PROVE  StoreStep
<1> DEFINE b == idequeue[1]
<1>1. /\ disk' = IF dirty[b] THEN [disk EXCEPT ![sector[b]] = data[b]] ELSE disk
      /\ data' = IF dirty[b] THEN data ELSE [data EXCEPT ![b] = disk[sector[b]]]
      /\ pc' = pc /\ want' = want /\ buf' = buf
  BY DEF ideintr
<1>2. /\ b \in Buf /\ Queued(b) /\ valid'[b] /\ ~dirty'[b]
      /\ \A c \in Buf : c # b => valid'[c] = valid[c] /\ dirty'[c] = dirty[c] /\ data'[c] = data[c]
  BY IdeintrBuffer
<1> HIDE DEF b
<1>3. PICK p \in Proc : pc[p] = "iderw" /\ buf[p] = b /\ want[p] = sector[b]
  BY <1>2, QueuedBuffer
<1>4. /\ b # head /\ HasBlock(p) = want[p] /\ want[p] # None
      /\ Owners[p] = HasBlock(p) /\ Copies[p] = HasCopy(p)
  BY <1>3, Has
<1>5. ASSUME NEW q \in Proc, q # p PROVE HasCopy(q)' = HasCopy(q)
  <2>1. buf[q] # b
    BY <1>3, <1>4, <1>5, Parts DEF OneOwner
  <2>2. pc[q] \in {"iderw", "holding"} => buf[q] \in Buf
    BY Has
  <2> QED BY <1>1, <1>2, <2>1, <2>2, Keeps
<1>6. Owners' = Owners
  <2>1. \A q \in Proc : HasBlock(q)' = HasBlock(q)
    BY <1>1, Keeps
  <2> QED BY <2>1, AllSame
<1>7. HasCopy(p)' = data'[b]
  BY <1>1, <1>2, <1>3 DEF HasCopy
<1>8. data \in [Buf -> Value]
  BY Parts DEF TypeOK
<1>9. CASE dirty[b]
  <2>1. HasCopy(p) = data[b] /\ data[b] \in Value
    BY <1>2, <1>3, <1>8, <1>9 DEF HasCopy
  <2>2. HasCopy(p)' = HasCopy(p)
    BY <1>1, <1>7, <1>9, <2>1
  <2>3. Copies' = Copies
    BY <1>5, <2>2, AllSame
  <2>4. disk' = [disk EXCEPT ![Owners[p]] = Copies[p]]
    BY <1>1, <1>3, <1>4, <1>9, <2>1
  <2> QED BY <1>4, <1>6, <2>1, <2>3, <2>4, StoreSteps DEF StoreStep
<1>10. CASE ~dirty[b]
  <2>1. data'[b] = disk[Owners[p]] /\ disk' = disk
    BY <1>1, <1>2, <1>3, <1>4, <1>8, <1>10
  <2>2. Copies' = [Copies EXCEPT ![p] = disk[Owners[p]]]
    BY <1>5, <1>7, <2>1, CopiesAt
  <2>3. ~valid[b]
    BY <1>2, <1>10, Parts DEF QueueSound, Synced
  <2>4. Copies[p] = None
    BY <1>3, <1>4, <1>10, <2>3 DEF HasCopy
  <2> QED BY <1>4, <1>6, <2>1, <2>2, <2>4, StoreSteps DEF StoreStep
<1> QED BY <1>9, <1>10

\* Every step is a step of BlockStore or does not show.
LEMMA StoreNext == ASSUME IInv, ~DiskErrors, [Next]_vars PROVE StoreStep
<1>1. ASSUME NEW p \in Proc, Step(p) PROVE StoreStep
  BY <1>1, BgetHitTakes, BgetRecycleTakes, TakenAcquires, HiddenSteps, BreadValidReads,
     BreadFetchHidden, IderwDoneHidden, BrelseReleases DEF Step
<1>2. ASSUME NEW p \in Proc, kill(p) \/ \E s \in Sector : bread(p, s) PROVE StoreStep
  BY <1>2, HiddenSteps
<1>3. ASSUME UNCHANGED vars PROVE StoreStep
  <2>1. /\ valid' = valid /\ dirty' = dirty /\ data' = data /\ disk' = disk
        /\ buf' = buf /\ pc' = pc /\ want' = want
    BY <1>3 DEF vars, flags, io, procs
  <2>2. \A q \in Proc : HasBlock(q)' = HasBlock(q) /\ HasCopy(q)' = HasCopy(q)
    BY <2>1, Keeps
  <2> QED BY <2>1, <2>2, StoreStutters
<1> QED BY <1>1, <1>2, <1>3, BwriteChanges, IdeintrServes DEF Next

\* The cache starts with no block in anybody's hands.
LEMMA StoreInit == Init => Store!Init
<1> SUFFICES ASSUME Init PROVE Store!Init
  OBVIOUS
<1>1. /\ disk \in [Sector -> Value] /\ pc = [p \in Proc |-> "idle"] /\ buf = [p \in Proc |-> head]
  BY DEF Init
<1>2. \A p \in Proc : HasBlock(p) = None /\ HasCopy(p) = None
  BY <1>1 DEF HasBlock, HasCopy
<1> QED BY <1>1, <1>2 DEF Store!Init

\* If no read of the disk fails, the buffers with their flags, the list and the
\* queue of the disk implement blocks that a process has to itself from bread to
\* brelse and reads and writes as they are on disk (bio.c, ide.c).
THEOREM CacheImplementsBlockStore == ~DiskErrors => (Spec => BlocksServed)
<1> SUFFICES ASSUME ~DiskErrors PROVE Spec => BlocksServed
  OBVIOUS
<1>1. IInv /\ [Next]_vars => [Store!Next]_(Store!vars)
  BY StoreNext DEF StoreStep, Store!vars, Owners, Copies
<1> QED BY <1>1, InitInv, NextInv, StoreInit, PTL DEF Spec, BlocksServed, Store!Spec

-----------------------------------------------------------------------------
(* Indexes that wrap.                                                      *)

\* A number has one quotient and one remainder.
LEMMA DivMod ==
  ASSUME NEW m \in Nat \ {0}, NEW x \in Int
  PROVE  \E q \in Int, s \in 0..m - 1 : x = (q * m) + s /\ s = x % m
BY SMT

\* A multiple of m that is smaller than m is 0.
LEMMA SmallMultiple ==
  ASSUME NEW m \in Nat \ {0}, NEW k \in Int, -m < k * m, k * m < m
  PROVE  k = 0
<1>1. CASE k >= 1
  <2>1. k * m >= m
    BY <1>1, SMT
  <2> QED BY <2>1, SMT
<1>2. CASE k <= -1
  <2>1. k * m <= -m
    BY <1>2, SMT
  <2> QED BY <2>1, SMT
<1> QED BY <1>1, <1>2, SMT

\* The remainder is the only one.
LEMMA RemainderUnique ==
  ASSUME NEW m \in Nat \ {0}, NEW q \in Int, NEW s \in 0..m - 1
  PROVE  ((q * m) + s) % m = s
<1> DEFINE x == (q * m) + s
<1>1. x \in Int
  BY SMT
<1> HIDE DEF x
<1>2. PICK t \in Int, f \in 0..m - 1 : x = (t * m) + f /\ f = x % m
  BY <1>1, DivMod
<1>3. (q - t) * m = f - s
  BY <1>2, SMT DEF x
<1>4. q - t = 0
  BY <1>3, SmallMultiple, SMT
<1> QED BY <1>2, <1>3, <1>4, SMT DEF x

\* The ring's size and where its indexes wrap.
LEMMA EditConstants ==
  /\ INPUT_BUF \in Nat \ {0} /\ EditUINT \in Nat \ {0}
  /\ EditUINT % INPUT_BUF = 0 /\ INPUT_BUF < EditUINT
<1>1. /\ INPUT_BUF \in Nat \ {0} /\ EditUINT \in Nat /\ EditUINT % INPUT_BUF = 0
      /\ EditHistory \in Nat \ {0} /\ EditLine \in Nat \ {0}
      /\ EditUINT > INPUT_BUF + EditHistory * EditLine
  BY EditAssumption DEF K!ConsoleAssumption
<1>2. EditHistory * EditLine >= 0
  BY <1>1, SMT
<1> QED BY <1>1, <1>2, SMT

\* The place of an index in the ring, and the index d further on.
RingPlace(x) == x % INPUT_BUF
On(y, d) == (y + d) % EditUINT

Index == 0..EditUINT - 1

\* A place is one of the ring's.
LEMMA PlaceType == ASSUME NEW x \in Int PROVE RingPlace(x) \in 0..INPUT_BUF - 1
BY EditConstants, SMT DEF RingPlace

\* An index that wraps at a multiple of the ring's size does not jump.
LEMMA PlaceWraps == ASSUME NEW x \in Int PROVE RingPlace(x + EditUINT) = RingPlace(x)
<1>0. INPUT_BUF \in Nat \ {0} /\ EditUINT \in Int
  BY EditConstants, SMT
<1>1. PICK k \in Int : EditUINT = k * INPUT_BUF
  <2>1. PICK q \in Int, s \in 0..INPUT_BUF - 1 :
          EditUINT = (q * INPUT_BUF) + s /\ s = EditUINT % INPUT_BUF
    BY <1>0, DivMod
  <2> QED BY <2>1, EditConstants, SMT
<1>2. PICK q \in Int, s \in 0..INPUT_BUF - 1 : x = (q * INPUT_BUF) + s /\ s = x % INPUT_BUF
  BY <1>0, DivMod
<1>3. x + EditUINT = ((k + q) * INPUT_BUF) + s /\ k + q \in Int
  BY <1>0, <1>1, <1>2, SMT
<1>4. (((k + q) * INPUT_BUF) + s) % INPUT_BUF = s
  BY <1>0, <1>3, RemainderUnique
<1> QED BY <1>2, <1>3, <1>4 DEF RingPlace

\* Indexes less than a ring apart are different places.
LEMMA PlacesDiffer ==
  ASSUME NEW x \in Int, NEW y \in Int, x < y, y < x + INPUT_BUF
  PROVE  RingPlace(x) # RingPlace(y)
<1>0. INPUT_BUF \in Nat \ {0}
  BY EditConstants
<1>1. PICK q \in Int, s \in 0..INPUT_BUF - 1 : x = (q * INPUT_BUF) + s /\ s = x % INPUT_BUF
  BY <1>0, DivMod
<1>2. PICK t \in Int, f \in 0..INPUT_BUF - 1 : y = (t * INPUT_BUF) + f /\ f = y % INPUT_BUF
  BY <1>0, DivMod
<1>3. ASSUME s = f PROVE FALSE
  <2>1. (t - q) * INPUT_BUF = y - x
    BY <1>0, <1>1, <1>2, <1>3, SMT
  <2>2. t - q = 0
    <3>1. t - q \in Int /\ -INPUT_BUF < (t - q) * INPUT_BUF /\ (t - q) * INPUT_BUF < INPUT_BUF
      BY <1>0, <2>1, SMT
    <3> QED BY <1>0, <3>1, SmallMultiple
  <2> QED BY <1>0, <2>1, <2>2, SMT
<1> QED BY <1>1, <1>2, <1>3 DEF RingPlace

\* How far one index is behind another, without a remainder.
LEMMA Behind ==
  ASSUME NEW x \in Index, NEW y \in Index
  PROVE  /\ K!Diff(x, y) = IF y <= x THEN x - y ELSE x - y + EditUINT
         /\ K!Diff(x, y) \in Index
BY EditConstants, SMT DEF K!Diff, Index

\* Where the index is that is d further on.
LEMMA Ahead ==
  ASSUME NEW y \in Index, NEW d \in Index
  PROVE  /\ On(y, d) = IF y + d < EditUINT THEN y + d ELSE y + d - EditUINT
         /\ On(y, d) \in Index
BY EditConstants, SMT DEF On, Index

\* An index is as far ahead as it is behind.
LEMMA There ==
  /\ \A y, d \in Index : K!Diff(On(y, d), y) = d
  /\ \A x, y \in Index : On(y, K!Diff(x, y)) = x
<1>1. ASSUME NEW y \in Index, NEW d \in Index PROVE K!Diff(On(y, d), y) = d
  <2>1. On(y, d) \in Index
    BY Ahead
  <2>2. K!Diff(On(y, d), y) = IF y <= On(y, d) THEN On(y, d) - y ELSE On(y, d) - y + EditUINT
    BY <2>1, Behind
  <2>3. On(y, d) = IF y + d < EditUINT THEN y + d ELSE y + d - EditUINT
    BY Ahead
  <2> QED BY <2>1, <2>2, <2>3, EditConstants, SMT DEF Index
<1>2. ASSUME NEW x \in Index, NEW y \in Index PROVE On(y, K!Diff(x, y)) = x
  <2>1. PICK d \in Index : d = K!Diff(x, y)
    BY Behind
  <2>2. d = IF y <= x THEN x - y ELSE x - y + EditUINT
    BY <2>1, Behind
  <2>3. On(y, d) = IF y + d < EditUINT THEN y + d ELSE y + d - EditUINT
    BY Ahead
  <2>4. On(y, d) = x
    BY <2>2, <2>3, EditConstants, SMT DEF Index
  <2> QED BY <2>1, <2>4
<1> QED BY <1>1, <1>2

\* Three indexes around the ring.
LEMMA Between ==
  ASSUME NEW x \in Index, NEW y \in Index, NEW z \in Index, K!Diff(y, x) <= K!Diff(z, x)
  PROVE  K!Diff(z, y) = K!Diff(z, x) - K!Diff(y, x)
<1>1. /\ K!Diff(y, x) = IF x <= y THEN y - x ELSE y - x + EditUINT
      /\ K!Diff(z, x) = IF x <= z THEN z - x ELSE z - x + EditUINT
      /\ K!Diff(z, y) = IF y <= z THEN z - y ELSE z - y + EditUINT
  BY Behind
<1> QED BY <1>1, EditConstants, SMT DEF Index

\* Going on in two steps.
LEMMA OnOn ==
  ASSUME NEW y \in Index, NEW d \in Index, NEW f \in Index, d + f \in Index
  PROVE  On(On(y, d), f) = On(y, d + f)
<1>1. On(y, d) \in Index /\ On(y, d) = IF y + d < EditUINT THEN y + d ELSE y + d - EditUINT
  BY Ahead
<1>2. On(On(y, d), f) = IF On(y, d) + f < EditUINT THEN On(y, d) + f ELSE On(y, d) + f - EditUINT
  BY <1>1, Ahead
<1>3. On(y, d + f) = IF y + (d + f) < EditUINT THEN y + (d + f) ELSE y + (d + f) - EditUINT
  BY Ahead
<1> QED BY <1>1, <1>2, <1>3, EditConstants, SMT DEF Index

\* The place k after the index d further on.
LEMMA PlaceOn ==
  ASSUME NEW y \in Index, NEW d \in Index, NEW k \in Int
  PROVE  RingPlace(On(y, d) + k) = RingPlace(y + d + k)
<1>0. On(y, d) = IF y + d < EditUINT THEN y + d ELSE y + d - EditUINT
  BY Ahead
<1>1. CASE y + d < EditUINT
  BY <1>0, <1>1
<1>2. CASE ~(y + d < EditUINT)
  <2>1. PICK x \in Int : x = y + d - EditUINT + k
    BY EditConstants, SMT DEF Index
  <2>2. RingPlace(x + EditUINT) = RingPlace(x)
    BY PlaceWraps
  <2>3. x + EditUINT = y + d + k
    BY <2>1, EditConstants, SMT DEF Index
  <2>4. On(y, d) + k = x
    BY <1>0, <1>2, <2>1
  <2> QED BY <2>2, <2>3, <2>4
<1> QED BY <1>1, <1>2
-----------------------------------------------------------------------------
(* What is in the ring.                                                    *)

Ring == [0..INPUT_BUF - 1 -> K!Chars]

\* The d characters of b from index y on.
Contents(b, y, d) == [k \in 1..d |-> b[RingPlace(y + k - 1)]]

\* They are a sequence.
LEMMA ContentsSeq ==
  ASSUME NEW b \in Ring, NEW y \in Nat, NEW d \in Nat
  PROVE  /\ Contents(b, y, d) \in Seq(K!Chars) /\ Len(Contents(b, y, d)) = d
         /\ \A k \in 1..d : Contents(b, y, d)[k] = b[RingPlace(y + k - 1)]
<1>1. ASSUME NEW k \in 1..d PROVE b[RingPlace(y + k - 1)] \in K!Chars
  <2>1. y + k - 1 \in Int
    BY SMT
  <2> QED BY <2>1, PlaceType DEF Ring
<1>2. Contents(b, y, d) \in [1..d -> K!Chars]
  BY <1>1 DEF Contents
<1>3. Contents(b, y, d) \in Seq(K!Chars) /\ Len(Contents(b, y, d)) = d
  BY <1>2, FunctionIsSequence
<1>4. \A k \in 1..d : Contents(b, y, d)[k] = b[RingPlace(y + k - 1)]
  BY DEF Contents
<1> QED BY <1>3, <1>4

\* A character that is written at least d behind y does not change them.
LEMMA ContentsKept ==
  ASSUME NEW b \in Ring, NEW y \in Index, NEW d \in Nat, NEW f \in Nat, d <= f, f < INPUT_BUF,
         NEW c \in K!Chars
  PROVE  Contents([b EXCEPT ![RingPlace(y + f)] = c], y, d) = Contents(b, y, d)
<1>1. ASSUME NEW k \in 1..d
      PROVE  [b EXCEPT ![RingPlace(y + f)] = c][RingPlace(y + k - 1)] = b[RingPlace(y + k - 1)]
  <2>1. y + k - 1 \in Int /\ y + f \in Int /\ y + k - 1 < y + f /\ y + f < (y + k - 1) + INPUT_BUF
    BY EditConstants, SMT DEF Index
  <2>2. RingPlace(y + k - 1) # RingPlace(y + f)
    BY <2>1, PlacesDiffer
  <2>3. RingPlace(y + k - 1) \in 0..INPUT_BUF - 1
    BY <2>1, PlaceType
  <2> QED BY <2>2, <2>3 DEF Ring
<1> QED BY <1>1 DEF Contents

\* Without the first one.
LEMMA ContentsTail ==
  ASSUME NEW b \in Ring, NEW y \in Index, NEW d \in Index, d # 0
  PROVE  Tail(Contents(b, y, d)) = Contents(b, On(y, 1), d - 1)
<1> DEFINE P == Contents(b, y, d)
<1>1. P \in Seq(K!Chars) /\ Len(P) = d /\ \A k \in 1..d : P[k] = b[RingPlace(y + k - 1)]
  <2>1. y \in Nat /\ d \in Nat
    BY EditConstants, SMT DEF Index
  <2> QED BY <2>1, ContentsSeq
<1> HIDE DEF P
<1>2. Tail(P) = [k \in 1..d - 1 |-> P[k + 1]]
  <2>1. d \in Nat \ {0}
    BY EditConstants, SMT DEF Index
  <2>2. P \in Seq(K!Chars) /\ Len(P) = d
    BY <1>1
  <2>3. P # <<>>
    BY <2>1, <2>2, SMT
  <2>4. /\ Tail(P) \in Seq(K!Chars) /\ Len(Tail(P)) = d - 1
        /\ \A k \in 1..d - 1 : Tail(P)[k] = P[k + 1]
    BY <2>2, <2>3, SMT
  <2>5. Tail(P) \in [1..d - 1 -> K!Chars]
    BY <2>4, SequenceIsFunction
  <2> QED BY <2>4, <2>5
<1>3. ASSUME NEW k \in 1..d - 1 PROVE P[k + 1] = b[RingPlace(On(y, 1) + k - 1)]
  <2>1. /\ k + 1 \in 1..d /\ y + (k + 1) - 1 = y + 1 + (k - 1) /\ 1 \in Index /\ k - 1 \in Int
    BY EditConstants, SMT DEF Index
  <2>2. RingPlace(On(y, 1) + (k - 1)) = RingPlace(y + 1 + (k - 1))
    BY <2>1, PlaceOn
  <2>3. On(y, 1) + (k - 1) = On(y, 1) + k - 1
    <3>1. On(y, 1) \in Int
      BY <2>1, Ahead, EditConstants, SMT DEF Index
    <3> QED BY <3>1, SMT
  <2>4. P[k + 1] = b[RingPlace(y + (k + 1) - 1)]
    BY <1>1, <2>1
  <2> QED BY <2>1, <2>2, <2>3, <2>4
<1>4. Tail(P) = Contents(b, On(y, 1), d - 1)
  BY <1>2, <1>3 DEF Contents
<1> QED BY <1>4 DEF P

\* A line that is finished: what was there, the edited characters and the last.
LEMMA ContentsJoin ==
  ASSUME NEW b \in Ring, NEW y \in Index, NEW d \in Nat, NEW f \in Nat, d + f < INPUT_BUF,
         NEW c \in K!Chars
  PROVE  Contents(b, y, d) \o Contents(b, On(y, d), f) \o <<c>>
         = Contents([b EXCEPT ![RingPlace(y + (d + f))] = c], y, d + f + 1)
<1> DEFINE P == Contents(b, y, d)
           Q == Contents(b, On(y, d), f)
           a == [b EXCEPT ![RingPlace(y + (d + f))] = c]
<1>0. d \in Index /\ y \in Nat
  BY EditConstants, SMT DEF Index
<1>1. P \in Seq(K!Chars) /\ Len(P) = d /\ \A k \in 1..d : P[k] = b[RingPlace(y + k - 1)]
  BY <1>0, ContentsSeq
<1>2. Q \in Seq(K!Chars) /\ Len(Q) = f /\ \A k \in 1..f : Q[k] = b[RingPlace(On(y, d) + k - 1)]
  <2>1. On(y, d) \in Nat
    BY <1>0, Ahead, EditConstants, SMT DEF Index
  <2> QED BY <2>1, ContentsSeq
<1>3. y + (d + f) \in Int
  BY <1>0, SMT
<1>4. ASSUME NEW k \in 1..d + f PROVE a[RingPlace(y + k - 1)] = b[RingPlace(y + k - 1)]
  <2>1. /\ y + k - 1 \in Int /\ y + k - 1 < y + (d + f)
        /\ y + (d + f) < (y + k - 1) + INPUT_BUF
    BY <1>0, EditConstants, SMT
  <2>2. RingPlace(y + k - 1) # RingPlace(y + (d + f))
    BY <1>3, <2>1, PlacesDiffer
  <2>3. RingPlace(y + k - 1) \in 0..INPUT_BUF - 1
    BY <2>1, PlaceType
  <2> QED BY <2>2, <2>3 DEF Ring
<1>5. a[RingPlace(y + (d + f + 1) - 1)] = c
  <2>1. y + (d + f + 1) - 1 = y + (d + f)
    BY <1>0, SMT
  <2>2. RingPlace(y + (d + f)) \in 0..INPUT_BUF - 1
    BY <1>3, PlaceType
  <2> QED BY <2>1, <2>2 DEF Ring
<1>6. ASSUME NEW k \in 1..f PROVE Q[k] = b[RingPlace(y + (d + k) - 1)]
  <2>1. k - 1 \in Int /\ y + d + (k - 1) = y + (d + k) - 1
    BY <1>0, SMT
  <2>2. RingPlace(On(y, d) + (k - 1)) = RingPlace(y + d + (k - 1))
    BY <1>0, <2>1, PlaceOn
  <2>3. On(y, d) + (k - 1) = On(y, d) + k - 1
    <3>1. On(y, d) \in Int
      BY <1>0, Ahead, EditConstants, SMT DEF Index
    <3> QED BY <3>1, SMT
  <2>4. Q[k] = b[RingPlace(On(y, d) + k - 1)]
    BY <1>2
  <2> QED BY <2>1, <2>2, <2>3, <2>4
<1> HIDE DEF P, Q, a
<1>7. P \o Q \o <<c>> = [k \in 1..d + f + 1 |->
                           IF k <= d THEN P[k] ELSE IF k <= d + f THEN Q[k - d] ELSE c]
  BY <1>1, <1>2, SMT
<1>8. ASSUME NEW k \in 1..d + f + 1
      PROVE  (IF k <= d THEN P[k] ELSE IF k <= d + f THEN Q[k - d] ELSE c) = a[RingPlace(y + k - 1)]
  <2>1. CASE k <= d
    <3>1. k \in 1..d /\ k \in 1..d + f
      BY <2>1, SMT
    <3>2. P[k] = a[RingPlace(y + k - 1)]
      BY <1>1, <1>4, <3>1
    <3> QED BY <2>1, <3>2
  <2>2. CASE ~(k <= d) /\ k <= d + f
    <3>1. k - d \in 1..f /\ k \in 1..d + f /\ d + (k - d) = k
      BY <2>2, SMT
    <3>2. Q[k - d] = a[RingPlace(y + k - 1)]
      BY <1>4, <1>6, <3>1
    <3> QED BY <2>2, <3>2
  <2>3. CASE ~(k <= d) /\ ~(k <= d + f)
    <3>1. k = d + f + 1
      BY <2>3, SMT
    <3> QED BY <1>5, <2>3, <3>1
  <2> QED BY <2>1, <2>2, <2>3
<1>9. P \o Q \o <<c>> = Contents(a, y, d + f + 1)
  BY <1>7, <1>8 DEF Contents
<1> QED BY <1>9 DEF P, Q, a

-----------------------------------------------------------------------------
(* The readers of the console, with recall and without.                    *)

Doings == {"user", "acquire", "read", "asleep"}
Locks == {"free", "intr", "reader"}

\* A reader in the call has something left to read, and none sleeps while there
\* is finished input.
Readers(P, N) ==
  /\ x5 \in Locks /\ x13 \in [P -> Doings] /\ x14 \in [P -> 0..N]
  /\ \A p \in P : x13[p] # "user" => x14[p] > 0
  /\ x2 # x3 => \A p \in P : x13[p] # "asleep"

\* What the steps do to readers, lock and the indexes r and w: a key, a key that
\* finishes a line, the steps of consoleread, and kill.
KeyStep == x5' \in Locks /\ UNCHANGED <<x2, x3, x13, x14>>
WakeStep(P) ==
  /\ x13' = [p \in P |-> IF x13[p] = "asleep" THEN "acquire" ELSE x13[p]]
  /\ UNCHANGED <<x5, x14>>
CallStep(N, p) ==
  /\ x13' = [x13 EXCEPT ![p] = "acquire"] /\ (\E k \in 1..N : x14' = [x14 EXCEPT ![p] = k])
  /\ UNCHANGED <<x2, x3, x5>>
LockStep(p) ==
  /\ x13[p] = "acquire" /\ x13' = [x13 EXCEPT ![p] = "read"] /\ x5' = "reader"
  /\ UNCHANGED <<x2, x3, x14>>
WaitStep(p) ==
  /\ x13[p] = "read" /\ x2 = x3 /\ x5' = "free" /\ UNCHANGED <<x2, x3, x14>>
  /\ (\E s \in {"user", "asleep"} : x13' = [x13 EXCEPT ![p] = s])
TakeStep(p) ==
  /\ x13[p] = "read" /\ x2 # x3
  /\ \/ x13' = x13 /\ x5' = x5 /\ x14[p] > 1 /\ x14' = [x14 EXCEPT ![p] = @ - 1]
     \/ /\ x13' = [x13 EXCEPT ![p] = "user"] /\ x5' = "free"
        /\ x14' = x14 \/ x14' = [x14 EXCEPT ![p] = @ - 1]
KilledStep(p) ==
  /\ x13' = [x13 EXCEPT ![p] = IF @ = "asleep" THEN "acquire" ELSE @]
  /\ UNCHANGED <<x2, x3, x5, x14>>
ReaderStep(P, N) ==
  \/ KeyStep \/ WakeStep(P)
  \/ \E p \in P : CallStep(N, p) \/ LockStep(p) \/ WaitStep(p) \/ TakeStep(p) \/ KilledStep(p)

\* Counting down keeps a count a number.
LEMMA CountsDown ==
  ASSUME NEW P, NEW N \in Nat, x14 \in [P -> 0..N], NEW p \in P, x14[p] > 0,
         x14' = [x14 EXCEPT ![p] = @ - 1]
  PROVE  /\ x14' \in [P -> 0..N] /\ (x14[p] > 1 => x14'[p] > 0)
         /\ \A q \in P : q # p => x14'[q] = x14[q]
<1>1. x14[p] \in 0..N /\ x14'[p] = x14[p] - 1
  OBVIOUS
<1>2. x14[p] - 1 \in 0..N /\ (x14[p] > 1 => x14[p] - 1 > 0)
  BY <1>1, SMT
<1> QED BY <1>1, <1>2

\* They keep what is said of the readers.
LEMMA ReadersKept ==
  ASSUME NEW P, NEW N \in Nat, Readers(P, N), ReaderStep(P, N)
  PROVE  Readers(P, N)'
<1>0. /\ x5 \in Locks /\ x13 \in [P -> Doings] /\ x14 \in [P -> 0..N]
      /\ \A p \in P : x13[p] # "user" => x14[p] > 0
  BY DEF Readers
<1>1. CASE KeyStep
  BY <1>1 DEF KeyStep, Readers
<1>2. CASE WakeStep(P)
  BY <1>0, <1>2 DEF WakeStep, Readers, Doings
<1>3. ASSUME NEW p \in P, CallStep(N, p) PROVE Readers(P, N)'
  <2>1. PICK k \in 1..N : x14' = [x14 EXCEPT ![p] = k]
    BY <1>3 DEF CallStep
  <2>2. k \in 0..N /\ k > 0
    BY SMT
  <2>3. x14' \in [P -> 0..N] /\ x14'[p] > 0 /\ \A q \in P : q # p => x14'[q] = x14[q]
    BY <1>0, <2>1, <2>2
  <2>4. x13' \in [P -> Doings] /\ x13'[p] = "acquire" /\ \A q \in P : q # p => x13'[q] = x13[q]
    BY <1>0, <1>3 DEF CallStep, Doings
  <2> QED BY <1>0, <1>3, <2>3, <2>4 DEF CallStep, Readers
<1>4. ASSUME NEW p \in P, LockStep(p) PROVE Readers(P, N)'
  <2>1. x13' \in [P -> Doings] /\ x13'[p] = "read" /\ \A q \in P : q # p => x13'[q] = x13[q]
    BY <1>0, <1>4 DEF LockStep, Doings
  <2> QED BY <1>0, <1>4, <2>1 DEF LockStep, Readers, Locks
<1>5. ASSUME NEW p \in P, WaitStep(p) PROVE Readers(P, N)'
  <2>1. x13' \in [P -> Doings] /\ \A q \in P : q # p => x13'[q] = x13[q]
    BY <1>0, <1>5 DEF WaitStep, Doings
  <2> QED BY <1>0, <1>5, <2>1 DEF WaitStep, Readers, Locks
<1>6. ASSUME NEW p \in P, TakeStep(p) PROVE Readers(P, N)'
  <2>1. x14[p] > 0 /\ \A q \in P : x13[q] # "asleep"
    BY <1>0, <1>6 DEF TakeStep, Readers
  <2>2. CASE x13' = x13 /\ x5' = x5 /\ x14[p] > 1 /\ x14' = [x14 EXCEPT ![p] = @ - 1]
    <3>1. x14' \in [P -> 0..N] /\ x14'[p] > 0 /\ \A q \in P : q # p => x14'[q] = x14[q]
      BY <1>0, <2>1, <2>2, CountsDown
    <3> QED BY <1>0, <2>1, <2>2, <3>1 DEF Readers
  <2>3. CASE /\ x13' = [x13 EXCEPT ![p] = "user"] /\ x5' = "free"
             /\ x14' = x14 \/ x14' = [x14 EXCEPT ![p] = @ - 1]
    <3>1. x14' \in [P -> 0..N] /\ \A q \in P : q # p => x14'[q] = x14[q]
      BY <1>0, <2>1, <2>3, CountsDown
    <3>2. x13' \in [P -> Doings] /\ x13'[p] = "user" /\ \A q \in P : q # p => x13'[q] = x13[q]
      BY <1>0, <2>3 DEF Doings
    <3> QED BY <1>0, <2>1, <2>3, <3>1, <3>2 DEF Readers, Locks
  <2> QED BY <1>6, <2>2, <2>3 DEF TakeStep
<1>7. ASSUME NEW p \in P, KilledStep(p) PROVE Readers(P, N)'
  <2>1. x13' \in [P -> Doings] /\ \A q \in P : q # p => x13'[q] = x13[q]
    BY <1>0, <1>7 DEF KilledStep, Doings
  <2>2. x13'[p] = IF x13[p] = "asleep" THEN "acquire" ELSE x13[p]
    BY <1>0, <1>7 DEF KilledStep
  <2> QED BY <1>0, <1>7, <2>1, <2>2 DEF KilledStep, Readers
<1> QED BY <1>1, <1>2, <1>3, <1>4, <1>5, <1>6, <1>7 DEF ReaderStep

-----------------------------------------------------------------------------
(* The console without recall keeps its ring.                              *)

\* From r to w is what was typed and not read, from w to e what is edited.
EditRing ==
  /\ x1 \in Ring /\ x2 \in Index /\ x3 \in Index /\ x4 \in Index
  /\ K!Diff(x3, x2) <= K!Diff(x4, x2) /\ K!Diff(x4, x2) <= INPUT_BUF
  /\ x17 = Contents(x1, x2, K!Diff(x3, x2))

\* They are what Console says.
LEMMA EditSays ==
  EditRing /\ Readers(Proc, EditN)
  <=> K!TypeOK /\ K!IndexesOrdered /\ K!PendingKept /\ K!NoSleepOnInput /\ K!StillReads
<1>1. K!PendingKept <=> x17 = Contents(x1, x2, K!Diff(x3, x2))
  BY DEF K!PendingKept, K!At, Contents, RingPlace
<1>2. K!IndexesOrdered <=> K!Diff(x3, x2) <= K!Diff(x4, x2) /\ K!Diff(x4, x2) <= INPUT_BUF
  BY DEF K!IndexesOrdered
<1>3. K!TypeOK <=> /\ x1 \in Ring /\ x2 \in Index /\ x3 \in Index /\ x4 \in Index
                   /\ x5 \in Locks /\ x13 \in [Proc -> Doings] /\ x14 \in [Proc -> 0..EditN]
  BY DEF K!TypeOK, Ring, Index, Locks, Doings
<1> QED BY <1>1, <1>2, <1>3 DEF EditRing, Readers, K!NoSleepOnInput, K!StillReads

\* Distances in the ring.
LEMMA EditDistances ==
  ASSUME EditRing
  PROVE  /\ K!Diff(x3, x2) \in Nat /\ K!Diff(x4, x2) \in Nat /\ K!Diff(x4, x3) \in Nat
         /\ K!Diff(x3, x2) \in Index /\ K!Diff(x4, x2) \in Index /\ K!Diff(x4, x3) \in Index
         /\ K!Diff(x3, x2) + K!Diff(x4, x3) = K!Diff(x4, x2)
         /\ x3 = On(x2, K!Diff(x3, x2)) /\ x4 = On(x2, K!Diff(x4, x2))
<1>1. x2 \in Index /\ x3 \in Index /\ x4 \in Index /\ K!Diff(x3, x2) <= K!Diff(x4, x2)
  BY DEF EditRing
<1>2. K!Diff(x3, x2) \in Index /\ K!Diff(x4, x2) \in Index /\ K!Diff(x4, x3) \in Index
  BY <1>1, Behind
<1>3. K!Diff(x4, x3) = K!Diff(x4, x2) - K!Diff(x3, x2)
  BY <1>1, Between
<1>4. x3 = On(x2, K!Diff(x3, x2)) /\ x4 = On(x2, K!Diff(x4, x2))
  BY <1>1, There
<1>5. \A d \in Index : d \in Nat
  BY EditConstants, SMT DEF Index
<1>6. K!Diff(x3, x2) + K!Diff(x4, x3) = K!Diff(x4, x2)
  BY <1>2, <1>3, <1>5, SMT
<1> QED BY <1>2, <1>4, <1>5, <1>6

\* A step that leaves the ring alone keeps it.
LEMMA EditRingSame ==
  ASSUME EditRing, UNCHANGED <<x1, x2, x3, x4, x17>>
  PROVE  EditRing'
BY DEF EditRing

\* ^U and ^H move the edit index to a place between w and e.
LEMMA EditRingMoves ==
  ASSUME EditRing, NEW k \in Nat, k <= K!Diff(x4, x3), x4' = On(x3, k), UNCHANGED <<x1, x2, x3, x17>>
  PROVE  EditRing'
<1>1. /\ x1 \in Ring /\ x2 \in Index /\ x3 \in Index /\ K!Diff(x4, x2) <= INPUT_BUF
      /\ x17 = Contents(x1, x2, K!Diff(x3, x2))
  BY DEF EditRing
<1>2. k \in Index /\ K!Diff(x3, x2) + k \in Index
  <2>1. /\ K!Diff(x3, x2) \in Nat /\ K!Diff(x4, x2) \in Index /\ K!Diff(x4, x3) \in Index
        /\ K!Diff(x3, x2) + K!Diff(x4, x3) = K!Diff(x4, x2)
    BY EditDistances
  <2> QED BY <2>1, EditConstants, SMT DEF Index
<1>3. x4' \in Index
  BY <1>1, <1>2, Ahead
<1>4. K!Diff(x4', x2) = K!Diff(x3, x2) + k
  <2>1. On(On(x2, K!Diff(x3, x2)), k) = On(x2, K!Diff(x3, x2) + k)
    BY <1>1, <1>2, EditDistances, OnOn
  <2>2. x4' = On(x2, K!Diff(x3, x2) + k)
    BY <2>1, EditDistances
  <2> QED BY <1>1, <1>2, <2>2, There
<1>5. K!Diff(x3, x2) <= K!Diff(x4', x2) /\ K!Diff(x4', x2) <= INPUT_BUF
  BY <1>1, <1>4, EditDistances, EditConstants, SMT
<1> QED BY <1>1, <1>3, <1>5 DEF EditRing

\* A reader takes the first character.
LEMMA EditRingTakes ==
  ASSUME EditRing, x2 # x3, x2' = K!Plus(x2), x17' = Tail(x17), UNCHANGED <<x1, x3, x4>>
  PROVE  EditRing'
<1>1. /\ x1 \in Ring /\ x2 \in Index /\ x3 \in Index /\ x4 \in Index
      /\ K!Diff(x3, x2) <= K!Diff(x4, x2) /\ K!Diff(x4, x2) <= INPUT_BUF
      /\ x17 = Contents(x1, x2, K!Diff(x3, x2))
  BY DEF EditRing
<1>2. x2' = On(x2, 1)
  BY DEF K!Plus, On
<1>3. 1 \in Index
  BY EditConstants, SMT DEF Index
<1>4. x2' \in Index /\ x2' = IF x2 + 1 < EditUINT THEN x2 + 1 ELSE x2 + 1 - EditUINT
  BY <1>1, <1>2, <1>3, Ahead
<1>5. /\ K!Diff(x3, x2) = IF x2 <= x3 THEN x3 - x2 ELSE x3 - x2 + EditUINT
      /\ K!Diff(x3, x2') = IF x2' <= x3 THEN x3 - x2' ELSE x3 - x2' + EditUINT
  BY <1>1, <1>4, Behind
<1>6. /\ K!Diff(x4, x2) = IF x2 <= x4 THEN x4 - x2 ELSE x4 - x2 + EditUINT
      /\ K!Diff(x4, x2') = IF x2' <= x4 THEN x4 - x2' ELSE x4 - x2' + EditUINT
  BY <1>1, <1>4, Behind
<1>7. K!Diff(x3, x2) # 0 /\ K!Diff(x3, x2') = K!Diff(x3, x2) - 1
  BY <1>1, <1>4, <1>5, EditConstants, SMT DEF Index
<1>8. K!Diff(x4, x2') = K!Diff(x4, x2) - 1
  <2>1. K!Diff(x4, x2) # 0
    BY <1>1, <1>7, EditDistances, SMT
  <2> QED BY <1>1, <1>4, <1>6, <2>1, EditConstants, SMT DEF Index
<1>9. x17' = Contents(x1, x2', K!Diff(x3, x2'))
  <2>1. K!Diff(x3, x2) \in Index
    BY EditDistances
  <2>2. Tail(Contents(x1, x2, K!Diff(x3, x2))) = Contents(x1, On(x2, 1), K!Diff(x3, x2) - 1)
    BY <1>1, <1>7, <2>1, ContentsTail
  <2> QED BY <1>1, <1>2, <1>7, <2>2
<1>10. K!Diff(x3, x2') <= K!Diff(x4, x2') /\ K!Diff(x4, x2') <= INPUT_BUF
  BY <1>1, <1>7, <1>8, EditDistances, EditConstants, SMT
<1> QED BY <1>1, <1>4, <1>9, <1>10 DEF EditRing

\* A character is put behind what is edited; w goes with it if it ends the line.
LEMMA EditRingTypes ==
  ASSUME EditRing, NEW c \in K!Chars, K!Room,
         x1' = [x1 EXCEPT ![x4 % INPUT_BUF] = c], x4' = K!Plus(x4), x2' = x2,
         \/ x3' = x3 /\ x17' = x17
         \/ x3' = x4' /\ x17' = x17 \o K!Edited \o <<c>>
  PROVE  EditRing'
<1> DEFINE d == K!Diff(x3, x2)
           f == K!Diff(x4, x3)
<1>1. /\ x1 \in Ring /\ x2 \in Index /\ x3 \in Index /\ x4 \in Index
      /\ x17 = Contents(x1, x2, d)
  BY DEF EditRing
<1>2. /\ d \in Nat /\ f \in Nat /\ d \in Index /\ d + f \in Index /\ d + f = K!Diff(x4, x2)
      /\ x3 = On(x2, d) /\ x4 = On(x2, d + f)
  BY EditDistances
<1>3. d + f < INPUT_BUF
  BY <1>2 DEF K!Room
<1>4. K!Edited = Contents(x1, x3, f)
  BY DEF K!Edited, K!At, Contents, RingPlace
<1> HIDE DEF d, f
<1>5. x4' \in Index /\ K!Diff(x4', x2) = d + f + 1
  <2>1. 1 \in Index /\ d + f + 1 \in Index
    BY <1>2, <1>3, EditConstants, SMT DEF Index
  <2>2. x4' = On(x4, 1)
    BY DEF K!Plus, On
  <2>3. x4' = On(x2, d + f + 1)
    <3>1. On(On(x2, d + f), 1) = On(x2, d + f + 1)
      BY <1>1, <1>2, <2>1, OnOn, SMT
    <3> QED BY <1>2, <2>2, <3>1
  <2>4. On(x2, d + f + 1) \in Index
    BY <1>1, <2>1, Ahead
  <2>5. K!Diff(On(x2, d + f + 1), x2) = d + f + 1
    BY <1>1, <2>1, There
  <2> QED BY <2>3, <2>4, <2>5
<1>6. x4 % INPUT_BUF = RingPlace(x2 + (d + f))
  <2>1. RingPlace(On(x2, d + f) + 0) = RingPlace(x2 + (d + f) + 0)
    <3>1. 0 \in Int
      BY SMT
    <3> QED BY <1>1, <1>2, <3>1, PlaceOn
  <2>2. On(x2, d + f) + 0 = x4 /\ x2 + (d + f) + 0 = x2 + (d + f)
    BY <1>1, <1>2, EditConstants, SMT DEF Index
  <2> QED BY <2>1, <2>2 DEF RingPlace
<1>7. x1' \in Ring
  BY <1>1 DEF Ring
<1>8. CASE x3' = x3 /\ x17' = x17
  <2>1. Contents(x1', x2, d) = Contents(x1, x2, d)
    <3>1. PICK g \in Nat : g = d + f
      BY <1>2, SMT
    <3>3. x1 \in Ring /\ x2 \in Index /\ d \in Nat /\ d <= g /\ g < INPUT_BUF
      BY <1>1, <1>2, <1>3, <3>1, SMT
    <3>2. Contents([x1 EXCEPT ![RingPlace(x2 + g)] = c], x2, d) = Contents(x1, x2, d)
      BY <3>3, ContentsKept
    <3> QED BY <1>6, <3>1, <3>2
  <2>2. K!Diff(x3', x2') = d
    BY <1>8 DEF d
  <2>3. d <= d + f + 1 /\ d + f + 1 <= INPUT_BUF
    BY <1>2, <1>3, EditConstants, SMT
  <2> QED BY <1>1, <1>5, <1>7, <1>8, <2>1, <2>2, <2>3 DEF EditRing
<1>9. CASE x3' = x4' /\ x17' = x17 \o K!Edited \o <<c>>
  <2>1. x17' = Contents(x1', x2, d + f + 1)
    <3>1. Contents(x1, x2, d) \o Contents(x1, On(x2, d), f) \o <<c>>
          = Contents([x1 EXCEPT ![RingPlace(x2 + (d + f))] = c], x2, d + f + 1)
      <4>1. x1 \in Ring /\ x2 \in Index /\ d \in Nat /\ f \in Nat /\ d + f < INPUT_BUF
        BY <1>1, <1>2, <1>3
      <4> QED BY <4>1, ContentsJoin
    <3> QED BY <1>1, <1>2, <1>4, <1>6, <1>9, <3>1
  <2>2. d + f + 1 <= d + f + 1 /\ d + f + 1 <= INPUT_BUF
    BY <1>2, <1>3, EditConstants, SMT
  <2> QED BY <1>1, <1>5, <1>7, <1>9, <2>1, <2>2 DEF EditRing
<1> QED BY <1>8, <1>9

\* It starts empty, with nobody reading.
LEMMA EditInit == K!Init => EditRing /\ Readers(Proc, EditN)
<1> SUFFICES ASSUME K!Init PROVE EditRing /\ Readers(Proc, EditN)
  OBVIOUS
<1>1. /\ x1 = [k \in 0..INPUT_BUF - 1 |-> "a"] /\ x2 = 0 /\ x3 = 0 /\ x4 = 0 /\ x5 = "free"
      /\ x13 = [p \in Proc |-> "user"] /\ x14 = [p \in Proc |-> 0] /\ x17 = <<>>
  BY DEF K!Init
<1>2. 0 \in Index /\ K!Diff(0, 0) = 0 /\ 0 <= INPUT_BUF /\ 0 <= 0
  BY EditConstants, SMT DEF Index, K!Diff
<1>6. 0 \in 0..EditN
  <2>1. EditN \in Nat
    BY EditAssumption DEF K!ConsoleAssumption
  <2> QED BY <2>1, SMT
<1>3. x1 \in Ring
  BY <1>1 DEF Ring, K!Chars
<1>4. Contents(x1, 0, 0) = <<>>
  <2>1. 0 \in Nat
    BY SMT
  <2>2. Contents(x1, 0, 0) \in Seq(K!Chars) /\ Len(Contents(x1, 0, 0)) = 0
    BY <1>3, <2>1, ContentsSeq
  <2> QED BY <2>2, EmptySequence
<1>5. EditRing
  BY <1>1, <1>2, <1>3, <1>4 DEF EditRing
<1> QED BY <1>1, <1>5, <1>6 DEF Readers, Locks, Doings

\* A reader takes one character, or leaves a saved ^D.
LEMMA EditTakes ==
  ASSUME EditRing, NEW p \in Proc, K!ReadChar(p) \/ K!ReadNewline(p) \/ K!ReadEof(p)
  PROVE  EditRing' /\ TakeStep(p)
<1>1. /\ x13[p] = "read" /\ x2 # x3 /\ UNCHANGED <<x1, x3, x4>>
      /\ \/ x2' = K!Plus(x2) /\ x17' = Tail(x17)
         \/ x2' = x2 /\ x17' = x17
  BY DEF K!ReadChar, K!ReadNewline, K!ReadEof, K!Take
<1>2. EditRing'
  BY <1>1, EditRingTakes, EditRingSame
<1>3. TakeStep(p)
  <2>1. CASE K!ReadChar(p)
    BY <1>1, <2>1 DEF K!ReadChar, K!Take, K!Return, TakeStep
  <2>2. CASE K!ReadNewline(p)
    BY <1>1, <2>2 DEF K!ReadNewline, K!Take, K!Return, TakeStep
  <2>3. CASE K!ReadEof(p)
    BY <1>1, <2>3 DEF K!ReadEof, K!Take, K!Return, TakeStep
  <2> QED BY <2>1, <2>2, <2>3
<1> QED BY <1>2, <1>3

\* The other steps of a reader leave the ring alone.
LEMMA EditWaits ==
  ASSUME EditRing, NEW p \in Proc,
         \/ \E k \in 1..EditN : K!consoleread(p, k)
         \/ K!Acquire(p) \/ K!ReadKilled(p) \/ K!ReadSleeps(p) \/ K!kill(p)
  PROVE  EditRing' /\ (CallStep(EditN, p) \/ LockStep(p) \/ WaitStep(p) \/ KilledStep(p))
<1>1. CASE \E k \in 1..EditN : K!consoleread(p, k)
  BY <1>1, EditRingSame DEF K!consoleread, K!ring, CallStep
<1>2. CASE K!Acquire(p)
  BY <1>2, EditRingSame DEF K!Acquire, K!ring, LockStep
<1>3. CASE K!ReadKilled(p)
  BY <1>3, EditRingSame DEF K!ReadKilled, K!Return, K!ring, WaitStep
<1>4. CASE K!ReadSleeps(p)
  BY <1>4, EditRingSame DEF K!ReadSleeps, K!ring, WaitStep
<1>5. CASE K!kill(p)
  BY <1>5, EditRingSame DEF K!kill, K!ring, KilledStep
<1> QED BY <1>1, <1>2, <1>3, <1>4, <1>5

\* The keys.
LEMMA EditEdits ==
  ASSUME EditRing, Readers(Proc, EditN),
         \/ K!consoleintr \/ K!IntrEnds \/ K!KillLine \/ K!Backspace
         \/ \E c \in K!Chars : K!Type(c)
  PROVE  EditRing' /\ (KeyStep \/ WakeStep(Proc))
<1>0. x5 \in Locks
  BY DEF Readers
<1>1. CASE K!consoleintr \/ K!IntrEnds
  BY <1>1, EditRingSame DEF K!consoleintr, K!IntrEnds, K!ring, K!readers, KeyStep, Locks
<1>2. CASE K!KillLine
  <2>1. PICK k \in 0..K!Diff(x4, x3) : x4' = (x3 + k) % EditUINT
    BY <1>2 DEF K!KillLine
  <2>2. UNCHANGED <<x1, x2, x3, x5, x13, x14, x17>>
    BY <1>2 DEF K!KillLine, K!readers
  <2>3. k \in Nat /\ k <= K!Diff(x4, x3)
    BY EditDistances, SMT
  <2>4. EditRing'
    BY <2>1, <2>2, <2>3, EditRingMoves DEF On
  <2> QED BY <1>0, <2>2, <2>4 DEF KeyStep
<1>3. CASE K!Backspace
  <2>1. UNCHANGED <<x1, x2, x3, x5, x13, x14, x17>>
    BY <1>3 DEF K!Backspace, K!readers
  <2>2. x4' = IF x4 # x3 THEN (x4 - 1) % EditUINT ELSE x4
    BY <1>3 DEF K!Backspace
  <2>3. CASE x4 = x3
    BY <1>0, <2>1, <2>2, <2>3, EditRingSame DEF KeyStep
  <2>4. CASE x4 # x3
    <3>1. x3 \in Index /\ x4 \in Index
      BY DEF EditRing
    <3>2. K!Diff(x4, x3) = IF x3 <= x4 THEN x4 - x3 ELSE x4 - x3 + EditUINT
      BY <3>1, Behind
    <3>3. PICK k \in Nat : k = K!Diff(x4, x3) - 1
      BY <2>4, <3>1, <3>2, EditConstants, SMT DEF Index
    <3>4. k \in Index /\ k <= K!Diff(x4, x3)
      BY <3>1, <3>2, <3>3, EditConstants, SMT DEF Index
    <3>5. On(x3, k) = IF x3 + k < EditUINT THEN x3 + k ELSE x3 + k - EditUINT
      BY <3>1, <3>4, Ahead
    <3>6. (x4 - 1) % EditUINT = IF x4 = 0 THEN EditUINT - 1 ELSE x4 - 1
      BY <3>1, EditConstants, SMT DEF Index
    <3>7. x4' = On(x3, k)
      BY <2>2, <2>4, <3>1, <3>2, <3>3, <3>5, <3>6, EditConstants, SMT DEF Index
    <3>8. EditRing'
      BY <2>1, <3>4, <3>7, EditRingMoves
    <3> QED BY <1>0, <2>1, <3>8 DEF KeyStep
  <2> QED BY <2>3, <2>4
<1>4. ASSUME NEW c \in K!Chars, K!Type(c) PROVE EditRing' /\ (KeyStep \/ WakeStep(Proc))
  <2>1. /\ K!Room /\ x1' = [x1 EXCEPT ![x4 % INPUT_BUF] = c] /\ x4' = K!Plus(x4) /\ x2' = x2
        /\ x5' = x5 /\ x14' = x14
        /\ \/ x3' = x3 /\ x17' = x17 /\ x13' = x13
           \/ x3' = K!Plus(x4) /\ x17' = x17 \o K!Edited \o <<c>> /\ K!wakeup
    BY <1>4 DEF K!Type
  <2>2. EditRing'
    BY <2>1, EditRingTypes
  <2> QED BY <1>0, <2>1, <2>2 DEF KeyStep, WakeStep, K!wakeup
<1> QED BY <1>1, <1>2, <1>3, <1>4

\* Every step of the console without recall keeps the ring and the readers.
LEMMA EditNext ==
  ASSUME EditRing, Readers(Proc, EditN), [K!Next]_(K!vars)
  PROVE  EditRing' /\ Readers(Proc, EditN)'
<1>0. EditN \in Nat
  BY EditAssumption DEF K!ConsoleAssumption
<1>1. CASE UNCHANGED K!vars
  <2>1. UNCHANGED <<x1, x2, x3, x4, x5, x13, x14, x17>>
    BY <1>1 DEF K!vars, K!ring, K!readers
  <2> QED BY <2>1, EditRingSame DEF Readers
<1>2. CASE K!Next
  <2>1. ~K!Recall
    BY EditAssumption DEF K!Recall
  <2>2. EditRing' /\ ReaderStep(Proc, EditN)
    BY <1>2, <2>1, EditTakes, EditWaits, EditEdits DEF K!Next, ReaderStep
  <2> QED BY <1>0, <2>2, ReadersKept
<1> QED BY <1>1, <1>2

-----------------------------------------------------------------------------
(* The console with recall keeps its types.                                *)

\* Indexes stay indexes, and the rows of the history end where they should.
RecallIndex == 0..RecallUINT - 1
RecallRing == x1 \in Ring /\ x2 \in RecallIndex /\ x3 \in RecallIndex /\ x4 \in RecallIndex
RecallRows ==
  /\ x6 \in [0..H!Cells - 1 -> {"a", "0"}]
  /\ x7 \in Nat /\ x8 \in Nat /\ x9 \in Nat /\ x10 \in Nat /\ x12 \in Nat
  /\ x10 < RecallHistory => x7 = x10

\* Facts about the constants.
LEMMA RecallConstants ==
  /\ INPUT_BUF \in Nat \ {0} /\ RecallUINT \in Nat \ {0} /\ RecallN \in Nat
  /\ RecallHistory \in Nat \ {0} /\ RecallLine \in Nat \ {0} /\ H!Cells \in Nat
<1>1. /\ INPUT_BUF \in Nat \ {0} /\ RecallUINT \in Nat /\ RecallN \in Nat
      /\ RecallHistory \in Nat \ {0} /\ RecallLine \in Nat \ {0}
      /\ RecallUINT > INPUT_BUF + RecallHistory * RecallLine
  BY RecallAssumption DEF H!ConsoleAssumption
<1>2. RecallHistory * RecallLine \in Nat
  BY <1>1, SMT
<1>3. RecallUINT \in Nat \ {0}
  BY <1>1, <1>2, SMT
<1> QED BY <1>1, <1>2, <1>3 DEF H!Cells

\* A number that wraps is an index.
LEMMA RecallWraps == ASSUME NEW x \in Int PROVE x % RecallUINT \in RecallIndex
BY RecallConstants, SMT DEF RecallIndex

\* Distances are numbers, and the next index is one.
LEMMA RecallDistances ==
  ASSUME RecallRing
  PROVE  /\ H!Diff(x4, x3) \in Nat /\ H!Plus(x2) \in RecallIndex /\ H!Plus(x4) \in RecallIndex
         /\ x2 \in Nat /\ x3 \in Nat /\ x4 \in Nat
<1>1. x2 \in RecallIndex /\ x3 \in RecallIndex /\ x4 \in RecallIndex
  BY DEF RecallRing
<1>2. /\ x2 \in Nat /\ x3 \in Nat /\ x4 \in Nat
      /\ x2 + 1 \in Int /\ x4 + 1 \in Int /\ x4 - x3 \in Int
  BY <1>1, RecallConstants, SMT DEF RecallIndex
<1>3. (x4 - x3) % RecallUINT \in RecallIndex /\ (x2 + 1) % RecallUINT \in RecallIndex
      /\ (x4 + 1) % RecallUINT \in RecallIndex
  BY <1>2, RecallWraps
<1>4. \A d \in RecallIndex : d \in Nat
  BY RecallConstants, SMT DEF RecallIndex
<1> QED BY <1>2, <1>3, <1>4 DEF H!Diff, H!Plus

\* Up: the ring gets characters of the history, and curr moves to the row before.
LEMMA RecallKey ==
  ASSUME RecallRing, RecallRows, H!Recall
  PROVE  RecallRing' /\ RecallRows'
<1> DEFINE from == x9 * RecallLine + x12
<1>1. PICK k \in 0..H!Diff(x4, x3), len \in 0..H!Cells :
        /\ H!RowFrom(from, len) /\ x4' = (x3 + k + len) % RecallUINT
        /\ x1' = [i \in 0..INPUT_BUF - 1 |->
                    IF (x3 + k + len - 1 - i) % INPUT_BUF < len
                    THEN x6[from + len - 1 - ((x3 + k + len - 1 - i) % INPUT_BUF)] ELSE x1[i]]
        /\ x12' = H!Capped(x12 + len, H!Cells)
  BY DEF H!Recall
<1>2. /\ UNCHANGED <<x2, x3, x6, x7, x8, x10>> /\ x10 > 0
      /\ x9' = IF x9 # 0 THEN x9 - 1
               ELSE IF x10 < RecallHistory THEN x7 - 1 ELSE RecallHistory - 1
  BY DEF H!Recall
<1>3. /\ x6 \in [0..H!Cells - 1 -> {"a", "0"}] /\ x7 \in Nat /\ x9 \in Nat /\ x10 \in Nat
      /\ x12 \in Nat /\ (x10 < RecallHistory => x7 = x10)
  BY DEF RecallRows
<1>4. k \in Nat /\ len \in Nat /\ H!Diff(x4, x3) \in Nat
  <2>1. H!Diff(x4, x3) \in Nat
    BY RecallDistances
  <2> QED BY <2>1, RecallConstants, SMT
<1>5. from \in Nat
  BY <1>3, RecallConstants, SMT
<1>6. x3 \in Nat
  BY RecallDistances
<1> HIDE DEF from
<1>7. ASSUME NEW i \in 0..INPUT_BUF - 1 PROVE x1'[i] \in K!Chars
  <2> DEFINE b == (x3 + k + len - 1 - i) % INPUT_BUF
             j == from + len - 1 - b
  <2>1. b \in Nat
    BY <1>4, <1>6, RecallConstants, SMT
  <2>2. x1'[i] = IF b < len THEN x6[j] ELSE x1[i]
    BY <1>1
  <2> HIDE DEF b
  <2>3. CASE b < len
    <3>1. j \in from..from + len - 1 /\ j \in Nat
      BY <1>4, <1>5, <2>1, <2>3, SMT
    <3> HIDE DEF j
    <3>2. j < H!Cells /\ x6[j] # "0"
      BY <1>1, <3>1 DEF H!RowFrom
    <3>3. j \in 0..H!Cells - 1
      BY <3>1, <3>2, RecallConstants, SMT
    <3> QED BY <1>3, <2>2, <2>3, <3>2, <3>3 DEF K!Chars
  <2>4. CASE ~(b < len)
    BY <2>2, <2>4 DEF RecallRing, Ring
  <2> QED BY <2>3, <2>4
<1>8. x1' \in Ring
  BY <1>1, <1>7 DEF Ring
<1>9. x4' \in RecallIndex
  <2>1. x3 + k + len \in Int
    BY <1>4, <1>6, SMT
  <2> QED BY <1>1, <2>1, RecallWraps
<1>10. x9' \in Nat
  BY <1>2, <1>3, RecallConstants, SMT
<1>11. x12' \in Nat
  BY <1>1, <1>3, <1>4, RecallConstants, SMT DEF H!Capped
<1> QED BY <1>2, <1>8, <1>9, <1>10, <1>11 DEF RecallRing, RecallRows, H!Cells

\* A character that is read goes to the history.
LEMMA RecallRemembers ==
  ASSUME RecallRows, NEW c, H!Remember(c), x12' = x12
  PROVE  RecallRows'
<1> DEFINE row == IF c = "a" /\ x7 >= RecallHistory THEN 0 ELSE x7
           k == row * RecallLine + x8
           cell == IF c = "a" THEN "a" ELSE "0"
<1>1. /\ x6 \in [0..H!Cells - 1 -> {"a", "0"}] /\ x7 \in Nat /\ x8 \in Nat /\ x9 \in Nat
      /\ x10 \in Nat /\ x12 \in Nat /\ (x10 < RecallHistory => x7 = x10)
  BY DEF RecallRows
<1>2. /\ x6' = IF k < H!Cells THEN [x6 EXCEPT ![k] = cell] ELSE x6
      /\ IF c = "a" THEN x7' = row /\ x8' = H!Capped(x8 + 1, H!Cells) /\ x9' = x9 /\ x10' = x10
         ELSE /\ x7' = H!Capped(row + 1, RecallHistory + 1) /\ x8' = 0 /\ x9' = row
              /\ x10' = H!Capped(x10 + 1, RecallHistory)
  BY DEF H!Remember
<1>3. row \in Nat
  BY <1>1, SMT
<1>4. (c = "a" /\ x7 >= RecallHistory) \/ row = x7
  OBVIOUS
<1>5. k \in Nat
  BY <1>1, <1>3, RecallConstants, SMT
<1>6. cell \in {"a", "0"}
  OBVIOUS
<1> HIDE DEF k, cell
<1>7. x6' \in [0..H!Cells - 1 -> {"a", "0"}]
  BY <1>1, <1>2, <1>6
<1>8. CASE c = "a"
  <2>1. x7' = row /\ x8' = H!Capped(x8 + 1, H!Cells) /\ x9' = x9 /\ x10' = x10
    BY <1>2, <1>8
  <2>2. x8' \in Nat
    BY <1>1, <2>1, RecallConstants, SMT DEF H!Capped
  <2>3. x10' < RecallHistory => x7' = x10'
    BY <1>1, <2>1, RecallConstants, SMT
  <2> QED BY <1>1, <1>3, <1>7, <2>1, <2>2, <2>3 DEF RecallRows, H!Cells
<1>9. CASE c # "a"
  <2>1. /\ x7' = H!Capped(row + 1, RecallHistory + 1) /\ x8' = 0 /\ x9' = row /\ row = x7
        /\ x10' = H!Capped(x10 + 1, RecallHistory)
    BY <1>2, <1>9
  <2>2. x7' \in Nat /\ x8' \in Nat /\ x10' \in Nat
    BY <1>1, <2>1, RecallConstants, SMT DEF H!Capped
  <2>3. x10' < RecallHistory => x7' = x10'
    BY <1>1, <2>1, RecallConstants, SMT DEF H!Capped
  <2> QED BY <1>1, <1>3, <1>7, <2>1, <2>2, <2>3 DEF RecallRows, H!Cells
<1> QED BY <1>8, <1>9

\* It starts with an empty history.
LEMMA RecallInit == H!Init => RecallRing /\ RecallRows /\ Readers(RecallProc, RecallN)
<1> SUFFICES ASSUME H!Init PROVE RecallRing /\ RecallRows /\ Readers(RecallProc, RecallN)
  OBVIOUS
<1>1. /\ x1 = [k \in 0..INPUT_BUF - 1 |-> "a"] /\ x2 = 0 /\ x3 = 0 /\ x4 = 0 /\ x5 = "free"
      /\ x6 = [k \in 0..H!Cells - 1 |-> "0"] /\ x7 = 0 /\ x8 = 0 /\ x9 = 0 /\ x10 = 0 /\ x12 = 0
      /\ x13 = [p \in RecallProc |-> "user"] /\ x14 = [p \in RecallProc |-> 0]
  BY DEF H!Init
<1>2. 0 \in RecallIndex /\ 0 \in 0..RecallN /\ 0 \in Nat
  BY RecallConstants, SMT DEF RecallIndex
<1>3. RecallRing
  BY <1>1, <1>2 DEF RecallRing, Ring, K!Chars
<1>4. RecallRows
  BY <1>1, <1>2 DEF RecallRows
<1> QED BY <1>1, <1>2, <1>3, <1>4 DEF Readers, Locks, Doings

\* A reader takes one character, or leaves a saved ^D, and remembers it.
LEMMA RecallTakes ==
  ASSUME RecallRing, RecallRows, NEW p \in RecallProc,
         H!ReadChar(p) \/ H!ReadNewline(p) \/ H!ReadEof(p)
  PROVE  RecallRing' /\ RecallRows' /\ TakeStep(p)
<1>1. /\ x13[p] = "read" /\ x2 # x3 /\ UNCHANGED <<x1, x3, x4, x12>> /\ H!Remember(H!At(x2))
      /\ x2' = H!Plus(x2) \/ x2' = x2
  BY DEF H!ReadChar, H!ReadNewline, H!ReadEof, H!Take
<1>2. RecallRing'
  BY <1>1, RecallDistances DEF RecallRing
<1>3. RecallRows'
  BY <1>1, RecallRemembers
<1>4. TakeStep(p)
  <2>1. CASE H!ReadChar(p)
    BY <1>1, <2>1 DEF H!ReadChar, H!Take, H!Return, TakeStep
  <2>2. CASE H!ReadNewline(p)
    BY <1>1, <2>2 DEF H!ReadNewline, H!Take, H!Return, TakeStep
  <2>3. CASE H!ReadEof(p)
    BY <1>1, <2>3 DEF H!ReadEof, H!Take, H!Return, TakeStep
  <2> QED BY <2>1, <2>2, <2>3
<1> QED BY <1>2, <1>3, <1>4

\* Steps that change neither ring nor history.
LEMMA RecallSame ==
  ASSUME RecallRing, RecallRows, UNCHANGED <<H!ring, H!history, x12>>
  PROVE  RecallRing' /\ RecallRows'
<1>1. UNCHANGED <<x1, x2, x3, x4, x6, x7, x8, x9, x10, x12>>
  BY DEF H!ring, H!history
<1> QED BY <1>1 DEF RecallRing, RecallRows, H!Cells

\* The other steps of a reader leave both alone.
LEMMA RecallWaits ==
  ASSUME RecallRing, RecallRows, NEW p \in RecallProc,
         \/ \E k \in 1..RecallN : H!consoleread(p, k)
         \/ H!Acquire(p) \/ H!ReadKilled(p) \/ H!ReadSleeps(p) \/ H!kill(p)
  PROVE  /\ RecallRing' /\ RecallRows'
         /\ CallStep(RecallN, p) \/ LockStep(p) \/ WaitStep(p) \/ KilledStep(p)
<1>1. UNCHANGED <<H!ring, H!history, x12>>
  BY DEF H!consoleread, H!Acquire, H!ReadKilled, H!ReadSleeps, H!kill
<1>2. RecallRing' /\ RecallRows'
  BY <1>1, RecallSame
<1>3. CASE \E k \in 1..RecallN : H!consoleread(p, k)
  BY <1>2, <1>3 DEF H!consoleread, H!ring, CallStep
<1>4. CASE H!Acquire(p)
  BY <1>2, <1>4 DEF H!Acquire, H!ring, LockStep
<1>5. CASE H!ReadKilled(p)
  BY <1>2, <1>5 DEF H!ReadKilled, H!Return, H!ring, WaitStep
<1>6. CASE H!ReadSleeps(p)
  BY <1>2, <1>6 DEF H!ReadSleeps, H!ring, WaitStep
<1>7. CASE H!kill(p)
  BY <1>2, <1>7 DEF H!kill, H!ring, KilledStep
<1> QED BY <1>3, <1>4, <1>5, <1>6, <1>7

\* The keys.
LEMMA RecallEdits ==
  ASSUME RecallRing, RecallRows, Readers(RecallProc, RecallN),
         \/ H!consoleintr \/ H!IntrEnds \/ H!KillLine \/ H!Backspace \/ H!Recall
         \/ \E c \in H!Chars : H!Type(c)
  PROVE  RecallRing' /\ RecallRows' /\ (KeyStep \/ WakeStep(RecallProc))
<1>0. x5 \in Locks /\ x1 \in Ring /\ x2 \in RecallIndex /\ x3 \in RecallIndex /\ x4 \in RecallIndex
  BY DEF Readers, RecallRing
<1>1. CASE H!consoleintr \/ H!IntrEnds
  <2>1. UNCHANGED <<x1, x2, x3, x4, x6, x7, x8, x9, x10, x13, x14>> /\ x12' = 0 /\ x5' \in Locks
    BY <1>1 DEF H!consoleintr, H!IntrEnds, H!ring, H!history, H!readers, Locks
  <2>2. 0 \in Nat
    BY SMT
  <2> QED BY <2>1, <2>2 DEF RecallRing, RecallRows, H!Cells, KeyStep
<1>2. CASE H!KillLine \/ H!Backspace
  <2>1. UNCHANGED <<x1, x2, x3, x5, x6, x7, x8, x9, x10, x12, x13, x14>>
    BY <1>2 DEF H!KillLine, H!Backspace, H!history, H!readers
  <2>2. x4' \in RecallIndex
    <3>1. CASE H!KillLine
      <4>1. PICK k \in 0..H!Diff(x4, x3) : x4' = (x3 + k) % RecallUINT
        BY <3>1 DEF H!KillLine
      <4>2. H!Diff(x4, x3) \in Nat /\ x3 \in Nat
        BY RecallDistances
      <4>3. x3 + k \in Int
        BY <4>2, SMT
      <4> QED BY <4>1, <4>3, RecallWraps
    <3>2. CASE H!Backspace
      <4>1. x4' = IF x4 # x3 THEN (x4 - 1) % RecallUINT ELSE x4
        BY <3>2 DEF H!Backspace
      <4>2. x4 \in Nat
        BY RecallDistances
      <4>3. x4 - 1 \in Int
        BY <4>2, SMT
      <4> QED BY <1>0, <4>1, <4>3, RecallWraps
    <3> QED BY <1>2, <3>1, <3>2
  <2> QED BY <1>0, <2>1, <2>2 DEF RecallRing, RecallRows, H!Cells, KeyStep
<1>3. CASE H!Recall
  <2>1. UNCHANGED <<x2, x3, x5, x13, x14>>
    BY <1>3 DEF H!Recall, H!readers
  <2> QED BY <1>0, <1>3, <2>1, RecallKey DEF KeyStep
<1>4. ASSUME NEW c \in H!Chars, H!Type(c)
      PROVE  RecallRing' /\ RecallRows' /\ (KeyStep \/ WakeStep(RecallProc))
  <2>1. /\ x1' = [x1 EXCEPT ![x4 % INPUT_BUF] = c] /\ x4' = H!Plus(x4)
        /\ UNCHANGED <<x2, x5, x6, x7, x8, x9, x10, x12, x14>>
        /\ \/ x3' = x3 /\ x13' = x13
           \/ x3' = H!Plus(x4) /\ H!wakeup
    BY <1>4 DEF H!Type, H!history
  <2>2. x1' \in Ring
    BY <1>0, <2>1 DEF Ring, K!Chars, H!Chars
  <2>3. RecallRing' /\ RecallRows'
    BY <1>0, <2>1, <2>2, RecallDistances DEF RecallRing, RecallRows, H!Cells
  <2> QED BY <1>0, <2>1, <2>3 DEF KeyStep, WakeStep, H!wakeup
<1> QED BY <1>1, <1>2, <1>3, <1>4

\* Every step of the console with recall keeps its types and the readers.
LEMMA RecallNext ==
  ASSUME RecallRing, RecallRows, Readers(RecallProc, RecallN), [H!Next]_(H!vars)
  PROVE  RecallRing' /\ RecallRows' /\ Readers(RecallProc, RecallN)'
<1>1. CASE UNCHANGED H!vars
  <2>1. UNCHANGED <<H!ring, H!history, x12>> /\ UNCHANGED <<x2, x3, x5, x13, x14>>
    BY <1>1 DEF H!vars, H!ring, H!readers
  <2> QED BY <2>1, RecallSame DEF Readers
<1>2. CASE H!Next
  <2>1. RecallRing' /\ RecallRows' /\ ReaderStep(RecallProc, RecallN)
    BY <1>2, RecallTakes, RecallWaits, RecallEdits DEF H!Next, ReaderStep
  <2> QED BY <2>1, RecallConstants, ReadersKept
<1> QED BY <1>1, <1>2

-----------------------------------------------------------------------------
\* The inductive invariant of both parts.
InputInv ==
  /\ part = "console" => EditRing /\ Readers(Proc, EditN)
  /\ part = "recall" => RecallRing /\ RecallRows /\ Readers(RecallProc, RecallN)

\* It says what InputKept says, and more.
LEMMA InputInvSays == InputInv => InputKept
<1> SUFFICES ASSUME InputInv PROVE InputKept
  OBVIOUS
<1>1. CASE part = "console"
  BY <1>1, EditSays DEF InputInv, InputKept
<1>2. CASE part = "recall"
  BY <1>2 DEF InputInv, InputKept, RecallRing, RecallIndex, Ring, Readers, Locks, Doings, K!Chars,
     H!Chars, H!TypeOK, H!NoSleepOnInput
<1> QED BY <1>1, <1>2 DEF InputKept

\* Finished input is kept and nobody sleeps on it, for every size of the ring,
\* every wrap of its indexes, any readers and any keys; with recall from the
\* history the state keeps its types (consoleintr, consoleread).
THEOREM InputIsKept == MCSpec => []InputKept
<1>1. MCInit => InputInv
  BY EditInit, RecallInit DEF MCInit, InputInv
<1>2. InputInv /\ [MCNext]_allvars => InputInv'
  <2> SUFFICES ASSUME InputInv, [MCNext]_allvars PROVE InputInv'
    OBVIOUS
  <2>1. /\ part' = part
        /\ part = "console" => [K!Next]_(K!vars)
        /\ part = "recall" => [H!Next]_(H!vars)
    <3>1. CASE UNCHANGED <<part, xs>>
      BY <3>1 DEF xs, K!vars, K!ring, K!history, K!readers, H!vars, H!ring, H!history, H!readers
    <3>2. CASE ~UNCHANGED <<part, xs>>
      BY <3>2 DEF MCNext, allvars
    <3> QED BY <3>1, <3>2
  <2> QED BY <2>1, EditNext, RecallNext DEF InputInv
<1> QED BY <1>1, <1>2, InputInvSays, PTL DEF MCSpec
=============================================================================
