-------------------------- MODULE ReliabilityProofs --------------------------
(***************************************************************************)
(* What each operation of the two classes of reliability.cpp preserves:    *)
(* SenderWindow for any file, window, bitmap and threshold and for any     *)
(* ACK, ReceiverTracker for any number of chunks and bits.  The lemmas are *)
(* stated without a caller, for the proofs about DataTransfer to use; the  *)
(* theorems are about each class under every caller that WindowDriver and  *)
(* ReceiverTracker allow.                                                  *)
(***************************************************************************)
EXTENDS WindowDriver, ReceiverTracker, FiniteSetTheorems, SequenceTheorems, TLAPS

-----------------------------------------------------------------------------
(* Sets of integers and their cardinality. *)

\* A nonempty set of naturals has a least element, and Min is it: what the
\* proofs know of advance_base() and of the tracker's cumulative ACK.
LEMMA MinNat ==
    ASSUME NEW S, S \subseteq Nat, S # {}
    PROVE  /\ Min(S) \in S
           /\ \A y \in S : Min(S) <= y
<1> DEFINE R == OpToRel(<, Nat)
<1>1. \A x, y \in Nat : <<y, x>> \in R <=> y < x
  BY DEF OpToRel
<1>2. IsWellFoundedOn(R, Nat)
  BY NatLessThanWellFounded
<1> HIDE DEF R
<1>3. PICK x \in S : \A y \in S : ~(<<y, x>> \in R)
  BY <1>2, WFMin
<1>4. \A y \in S : x <= y
  <2>1. TAKE y \in S
  <2>2. x \in Nat /\ y \in Nat /\ ~(<<y, x>> \in R)
    BY <1>3
  <2>3. ~(y < x)
    BY <1>1, <2>2
  <2>4. QED
    BY <2>2, <2>3
<1>5. QED
  BY <1>4 DEF Min

LEMMA MinIs ==
    ASSUME NEW S, S \subseteq Nat, NEW x \in S, \A y \in S : x <= y
    PROVE  Min(S) = x
<1>1. Min(S) \in S /\ \A y \in S : Min(S) <= y
  BY MinNat
<1>2. Min(S) <= x /\ x <= Min(S) /\ Min(S) \in Nat /\ x \in Nat
  BY <1>1
<1>3. QED
  BY <1>2

\* Part of an interval is finite, and no larger than the interval.
LEMMA PartOfInterval ==
    ASSUME NEW a \in Int, NEW b \in Int, NEW S, S \subseteq a .. b
    PROVE  /\ IsFiniteSet(S)
           /\ Cardinality(S) \in Nat
           /\ a <= b + 1 => Cardinality(S) <= b - a + 1
<1>1. IsFiniteSet(a .. b) /\ Cardinality(a .. b) = IF a > b THEN 0 ELSE b - a + 1
  BY FS_Interval
<1>2. IsFiniteSet(S) /\ Cardinality(S) <= Cardinality(a .. b)
  BY <1>1, FS_Subset
<1>3. QED
  BY <1>1, <1>2, FS_CardinalityType

LEMMA CardinalityOfInitial ==
    \A n \in Nat : IsFiniteSet(0 .. n - 1) /\ Cardinality(0 .. n - 1) = n
<1>1. TAKE n \in Nat
<1>2. 0 \in Int /\ n - 1 \in Int
  OBVIOUS
<1>3. /\ IsFiniteSet(0 .. n - 1)
      /\ Cardinality(0 .. n - 1) = IF 0 > n - 1 THEN 0 ELSE (n - 1) - 0 + 1
  BY <1>2, FS_Interval
<1>4. QED
  BY <1>3

\* Removing a subset from a finite set takes away its cardinality.
LEMMA CardinalityOfDifference ==
    ASSUME NEW S, IsFiniteSet(S), NEW T, T \subseteq S
    PROVE  /\ IsFiniteSet(T)
           /\ IsFiniteSet(S \ T)
           /\ Cardinality(S \ T) = Cardinality(S) - Cardinality(T)
<1>1. IsFiniteSet(T)
  BY FS_Subset
<1>2. S \cap T = T
  OBVIOUS
<1>3. QED
  BY <1>1, <1>2, FS_Difference

-----------------------------------------------------------------------------
(* Listing a finite set. *)

\* The sequence q lists the elements of S, each once.
Lists(q, S) ==
    /\ q \in Seq(S)
    /\ \A x \in S : \E i \in 1 .. Len(q) : q[i] = x
    /\ \A i, j \in 1 .. Len(q) : q[i] = q[j] => i = j

\* A linear order on S, given by the elements before each, and a q that takes
\* for its i-th element one with i - 1 before it, if there is one.
Ranks(q, S, before) ==
    /\ before \in [S -> SUBSET S]
    /\ \A x \in S : x \notin before[x]
    /\ \A x, y \in S : x = y \/ before[x] \union {x} \subseteq before[y]
                              \/ before[y] \union {y} \subseteq before[x]
    /\ q = [i \in 1 .. Cardinality(S) |-> q[i]]
    /\ \A i \in 1 .. Cardinality(S) :
          (\E x \in S : Cardinality(before[x]) = i - 1)
            => q[i] \in S /\ Cardinality(before[q[i]]) = i - 1

LEMMA RankLists ==
    ASSUME NEW S, IsFiniteSet(S), NEW before, NEW q, Ranks(q, S, before)
    PROVE  Lists(q, S)
<1> DEFINE n == Cardinality(S)
           rank == [x \in S |-> Cardinality(before[x])]
<1> USE DEF Ranks
<1>1. n \in Nat
  BY FS_CardinalityType
<1>2. ASSUME NEW x \in S
      PROVE  IsFiniteSet(before[x]) /\ rank[x] \in 0 .. n - 1
  <2>1. IsFiniteSet(S \ {x}) /\ Cardinality(S \ {x}) = n - 1
    BY FS_RemoveElement
  <2>2. before[x] \in SUBSET (S \ {x})
    OBVIOUS
  <2>3. IsFiniteSet(before[x]) /\ Cardinality(before[x]) <= Cardinality(S \ {x})
    BY <2>1, <2>2, FS_Subset
  <2>4. Cardinality(before[x]) \in Nat
    BY <2>3, FS_CardinalityType
  <2>5. QED
    BY <1>1, <2>1, <2>3, <2>4
<1>3. ASSUME NEW x \in S, NEW y \in S, before[x] \union {x} \subseteq before[y]
      PROVE  rank[x] < rank[y]
  <2>1. Cardinality(before[x] \union {x}) = Cardinality(before[x]) + 1
    BY <1>2, FS_AddElement
  <2>2. Cardinality(before[x] \union {x}) <= Cardinality(before[y])
    BY <1>2, <1>3, FS_Subset
  <2>3. rank[x] \in Int /\ rank[y] \in Int
    BY <1>2
  <2>4. QED
    BY <2>1, <2>2, <2>3
<1>4. \A x, y \in S : rank[x] = rank[y] => x = y
  <2>1. \A x \in S : rank[x] \in Int
    BY <1>2
  <2>2. QED
    BY <1>3, <2>1
<1>5. rank \in [S -> 0 .. n - 1]
  BY <1>2
<1>6. \A k \in 0 .. n - 1 : \E x \in S : rank[x] = k
  <2>1. rank \in Injection(S, 0 .. n - 1)
    BY <1>4, <1>5 DEF Injection, IsInjective
  <2>2. IsFiniteSet(0 .. n - 1) /\ Cardinality(0 .. n - 1) = n
    BY <1>1, CardinalityOfInitial
  <2>3. rank \in Surjection(S, 0 .. n - 1)
    BY <2>1, <2>2, FS_Injection
  <2>4. QED
    BY <2>3 DEF Surjection
<1>7. ASSUME NEW i \in 1 .. n
      PROVE  q[i] \in S /\ rank[q[i]] = i - 1
  <2>1. i - 1 \in 0 .. n - 1
    BY <1>1
  <2>2. \E x \in S : Cardinality(before[x]) = i - 1
    BY <1>6, <2>1
  <2>3. QED
    BY <2>2
<1>8. q \in Seq(S) /\ Len(q) = n
  <2>1. q \in [1 .. n -> S]
    BY <1>7
  <2>2. q \in Seq(S)
    BY <1>1, <2>1, SeqDef
  <2>3. Len(q) \in Nat /\ DOMAIN q = 1 .. Len(q) /\ DOMAIN q = 1 .. n
    BY <2>1, <2>2, LenProperties
  <2>4. Len(q) = n
    BY <1>1, <2>3
  <2>5. QED
    BY <2>2, <2>4
<1>9. \A x \in S : \E i \in 1 .. n : q[i] = x
  <2>1. TAKE x \in S
  <2>2. rank[x] \in 0 .. n - 1
    BY <1>2
  <2>3. rank[x] + 1 \in 1 .. n /\ (rank[x] + 1) - 1 = rank[x]
    BY <1>1, <2>2
  <2>4. q[rank[x] + 1] = x
    BY <1>4, <1>7, <2>3
  <2>5. QED
    BY <2>3, <2>4
<1>10. \A i, j \in 1 .. n : q[i] = q[j] => i = j
  <2>1. TAKE i, j \in 1 .. n
  <2>2. rank[q[i]] = i - 1 /\ rank[q[j]] = j - 1
    BY <1>7
  <2>3. QED
    BY <2>2
<1>11. QED
  BY <1>8, <1>9, <1>10 DEF Lists


-----------------------------------------------------------------------------
(* Ascending and Descending list a set, each element once. *)

LEMMA AscendingLists ==
    ASSUME NEW S, IsFiniteSet(S), S \subseteq Int
    PROVE  Lists(Ascending(S), S)
<1> DEFINE before == [x \in S |-> {y \in S : y < x}]
<1>1. before \in [S -> SUBSET S] /\ \A x \in S : x \notin before[x]
  OBVIOUS
<1>2. \A x, y \in S : x = y \/ before[x] \union {x} \subseteq before[y]
                            \/ before[y] \union {y} \subseteq before[x]
  <2>1. ASSUME NEW x \in S, NEW y \in S, x < y
        PROVE  before[x] \union {x} \subseteq before[y]
    <3>1. before[x] = {z \in S : z < x} /\ before[y] = {z \in S : z < y}
      OBVIOUS
    <3>2. \A z \in S : z < x => z < y
      BY <2>1
    <3>3. QED
      BY <2>1, <3>1, <3>2
  <2>2. \A x, y \in S : x = y \/ x < y \/ y < x
    OBVIOUS
  <2>3. QED
    BY <2>1, <2>2
<1>3. ASSUME NEW i \in 1 .. Cardinality(S),
             \E x \in S : Cardinality(before[x]) = i - 1
      PROVE  /\ Ascending(S)[i] \in S
             /\ Cardinality(before[Ascending(S)[i]]) = i - 1
  <2>1. Ascending(S)[i] = CHOOSE x \in S : Cardinality({y \in S : y < x}) = i - 1
    BY DEF Ascending
  <2>2. \E x \in S : Cardinality({y \in S : y < x}) = i - 1
    BY <1>3
  <2>3. /\ Ascending(S)[i] \in S
        /\ Cardinality({y \in S : y < Ascending(S)[i]}) = i - 1
    BY <2>1, <2>2
  <2>4. QED
    BY <2>3
<1>4. Ascending(S) = [i \in 1 .. Cardinality(S) |-> Ascending(S)[i]]
  <2> DEFINE Pick(i) == CHOOSE x \in S : Cardinality({y \in S : y < x}) = i - 1
             picks == {Pick(i) : i \in 1 .. Cardinality(S)}
             list == [i \in 1 .. Cardinality(S) |-> Pick(i)]
  <2>1. Ascending(S) = list
    BY DEF Ascending
  <2> HIDE DEF Pick
  <2>2. list \in [1 .. Cardinality(S) -> picks]
    OBVIOUS
  <2> HIDE DEF list, picks
  <2>3. QED
    BY <2>1, <2>2
<1> HIDE DEF before
<1>5. Ranks(Ascending(S), S, before)
  BY <1>1, <1>2, <1>3, <1>4 DEF Ranks
<1>6. QED
  BY <1>5, RankLists

LEMMA DescendingLists ==
    ASSUME NEW S, IsFiniteSet(S), S \subseteq Int
    PROVE  Lists(Descending(S), S)
<1> DEFINE before == [x \in S |-> {y \in S : y > x}]
<1>1. before \in [S -> SUBSET S] /\ \A x \in S : x \notin before[x]
  OBVIOUS
<1>2. \A x, y \in S : x = y \/ before[x] \union {x} \subseteq before[y]
                            \/ before[y] \union {y} \subseteq before[x]
  <2>1. ASSUME NEW x \in S, NEW y \in S, x > y
        PROVE  before[x] \union {x} \subseteq before[y]
    <3>1. before[x] = {z \in S : z > x} /\ before[y] = {z \in S : z > y}
      OBVIOUS
    <3>2. \A z \in S : z > x => z > y
      BY <2>1
    <3>3. QED
      BY <2>1, <3>1, <3>2
  <2>2. \A x, y \in S : x = y \/ x < y \/ y < x
    OBVIOUS
  <2>3. QED
    BY <2>1, <2>2
<1>3. ASSUME NEW i \in 1 .. Cardinality(S),
             \E x \in S : Cardinality(before[x]) = i - 1
      PROVE  /\ Descending(S)[i] \in S
             /\ Cardinality(before[Descending(S)[i]]) = i - 1
  <2>1. Descending(S)[i] = CHOOSE x \in S : Cardinality({y \in S : y > x}) = i - 1
    BY DEF Descending
  <2>2. \E x \in S : Cardinality({y \in S : y > x}) = i - 1
    BY <1>3
  <2>3. /\ Descending(S)[i] \in S
        /\ Cardinality({y \in S : y > Descending(S)[i]}) = i - 1
    BY <2>1, <2>2
  <2>4. QED
    BY <2>3
<1>4. Descending(S) = [i \in 1 .. Cardinality(S) |-> Descending(S)[i]]
  <2> DEFINE Pick(i) == CHOOSE x \in S : Cardinality({y \in S : y > x}) = i - 1
             picks == {Pick(i) : i \in 1 .. Cardinality(S)}
             list == [i \in 1 .. Cardinality(S) |-> Pick(i)]
  <2>1. Descending(S) = list
    BY DEF Descending
  <2> HIDE DEF Pick
  <2>2. list \in [1 .. Cardinality(S) -> picks]
    OBVIOUS
  <2> HIDE DEF list, picks
  <2>3. QED
    BY <2>1, <2>2
<1> HIDE DEF before
<1>5. Ranks(Descending(S), S, before)
  BY <1>1, <1>2, <1>3, <1>4 DEF Ranks
<1>6. QED
  BY <1>5, RankLists
-----------------------------------------------------------------------------
(* The inductive invariant of SenderWindow. *)

\* Chunks are UNSENT from next_sequence on, and below it only while the caller
\* holds the chunk it has selected and not yet sent.
SelectionInv ==
    /\ SelectionIsSendable
    /\ \A s \in Chunks : next_sequence <= s => state[s] = "UNSENT"
    /\ \A s \in Chunks : s < next_sequence /\ state[s] = "UNSENT"
                            => decision # NoDecision /\ decision.sequence = s

\* The queue and the flags agree; what RetransmissionTracked says with a
\* cardinality, said position by position.
QueueInv ==
    /\ \A s \in retransmit_pending : state[s] = "IN_FLIGHT"
    /\ \A s \in retransmit_pending :
          \E i \in 1 .. Len(retransmission_queue) : retransmission_queue[i] = s
    /\ \A i, j \in 1 .. Len(retransmission_queue) :
          retransmission_queue[i] = retransmission_queue[j] =>
            i = j \/ retransmission_queue[i] \notin retransmit_pending
    /\ \A i \in 1 .. Len(retransmission_queue) :
          \/ retransmission_queue[i] \in retransmit_pending
          \/ state[retransmission_queue[i]] = "ACKED"

WindowInv ==
    /\ WindowTypeOK
    /\ OutstandingExact
    /\ BaseIsFirstHole
    /\ SpanWithinSack
    /\ SelectionInv
    /\ QueueInv
    /\ EvidenceIsPast

LEMMA DeadEntries == QueueInv => DeadEntriesAreAcked
BY DEF QueueInv, DeadEntriesAreAcked, IsLive

LEMMA Tracked == WindowTypeOK /\ QueueInv => RetransmissionTracked
<1> SUFFICES ASSUME WindowTypeOK, QueueInv, NEW s \in retransmit_pending
             PROVE  state[s] = "IN_FLIGHT" /\ Cardinality(Entries(s)) = 1
  BY DEF RetransmissionTracked
<1>1. PICK i \in 1 .. Len(retransmission_queue) : retransmission_queue[i] = s
  BY DEF QueueInv
<1>2. Entries(s) = {i}
  BY <1>1 DEF QueueInv, Entries
<1>3. Cardinality({i}) = 1
  BY FS_Singleton
<1>4. QED
  BY <1>2, <1>3 DEF QueueInv

LEMMA LaterAckedIsNat ==
    ASSUME NEW st, NEW s \in Chunks, next_sequence \in 0 .. TotalChunks
    PROVE  LaterAcked(st, s) \in Nat
<1>1. s + 1 \in Int /\ next_sequence - 1 \in Int
  BY SnapshotAssumption DEF Chunks
<1>2. {t \in s + 1 .. next_sequence - 1 : st[t] = "ACKED"} \subseteq
        s + 1 .. next_sequence - 1
  OBVIOUS
<1>3. QED
  BY <1>1, <1>2, PartOfInterval DEF LaterAcked

\* The chunks acknowledged above another only grow in number.
LEMMA LaterAckedGrows ==
    ASSUME NEW s \in Chunks,
           next_sequence \in 0 .. TotalChunks, next_sequence' \in 0 .. TotalChunks,
           next_sequence <= next_sequence',
           \A t \in Chunks : state[t] = "ACKED" => state'[t] = "ACKED"
    PROVE  /\ LaterAcked(state, s) <= LaterAcked(state, s)'
           /\ LaterAcked(state, s)' \in Nat
<1> DEFINE before == {t \in s + 1 .. next_sequence - 1 : state[t] = "ACKED"}
           after == {t \in s + 1 .. next_sequence' - 1 : state'[t] = "ACKED"}
<1>1. s + 1 \in Int /\ next_sequence' - 1 \in Int
  BY SnapshotAssumption DEF Chunks
<1>2. after \subseteq s + 1 .. next_sequence' - 1
  OBVIOUS
<1>3. IsFiniteSet(after)
  BY <1>1, <1>2, PartOfInterval
<1>4. before \subseteq after
  BY SnapshotAssumption DEF Chunks
<1>5. Cardinality(before) <= Cardinality(after) /\ Cardinality(after) \in Nat
  BY <1>3, <1>4, FS_Subset, FS_CardinalityType
<1>6. QED
  BY <1>5 DEF LaterAcked

LEMMA UnackedIsFinite ==
    ASSUME WindowTypeOK
    PROVE  IsFiniteSet(Unacked) /\ Cardinality(Unacked) \in Nat
<1>1. 0 \in Int /\ next_sequence - 1 \in Int
  BY SnapshotAssumption DEF WindowTypeOK
<1>2. Unacked \subseteq 0 .. next_sequence - 1
  BY DEF Unacked
<1>3. QED
  BY <1>1, <1>2, PartOfInterval

LEMMA WindowInvInit == WindowInit => WindowInv
<1> SUFFICES ASSUME WindowInit PROVE WindowInv
  OBVIOUS
<1> USE SnapshotAssumption, WindowAssumption DEF WindowInit, Chunks
<1>1. WindowTypeOK
  BY EmptySeq DEF WindowTypeOK, PacketState
<1>2. OutstandingExact
  <2>1. Unacked = {}
    BY DEF Unacked
  <2>2. QED
    BY <2>1, FS_EmptySet DEF OutstandingExact
<1>3. BaseIsFirstHole /\ SpanWithinSack
  BY DEF BaseIsFirstHole, SpanWithinSack
<1>4. SelectionInv
  BY DEF SelectionInv, SelectionIsSendable
<1>5. QueueInv
  BY DEF QueueInv
<1>6. EvidenceIsPast
  BY LaterAckedIsNat DEF EvidenceIsPast
<1>7. QED
  BY <1>1, <1>2, <1>3, <1>4, <1>5, <1>6 DEF WindowInv
-----------------------------------------------------------------------------
(* The operations that queue retransmissions. *)

\* process_ack() and check_timeouts() acknowledge some chunks and append others,
\* IN_FLIGHT and not queued yet, to the queue.
LEMMA AppendKeepsQueue ==
    ASSUME WindowTypeOK, QueueInv,
           NEW acked \in SUBSET Chunks, NEW due \in SUBSET Chunks, NEW d,
           Lists(d, due),
           \A s \in due : state[s] = "IN_FLIGHT" /\ s \notin retransmit_pending
                            /\ s \notin acked,
           \A s \in Chunks : state'[s] = IF s \in acked THEN "ACKED" ELSE state[s],
           retransmit_pending' = (retransmit_pending \ acked) \union due,
           retransmission_queue' = retransmission_queue \o d
    PROVE  QueueInv' /\ retransmission_queue' \in Seq(Chunks)
<1> DEFINE q == retransmission_queue
           m == Len(retransmission_queue)
           n == Len(d)
<1>1. q \in Seq(Chunks) /\ d \in Seq(Chunks) /\ m \in Nat /\ n \in Nat
  <2>1. q \in Seq(Chunks)
    BY DEF WindowTypeOK
  <2>2. d \in Seq(Chunks)
    BY SeqMonotonic DEF Lists
  <2>3. QED
    BY <2>1, <2>2, LenProperties
<1>2. /\ q \o d \in Seq(Chunks)
      /\ Len(q \o d) = m + n
      /\ \A i \in 1 .. m + n : (q \o d)[i] = IF i <= m THEN q[i] ELSE d[i - m]
  BY <1>1, ConcatProperties
<1>3. \A i \in 1 .. m : q[i] \in Chunks
  BY <1>1, ElementOfSeq
<1>4. \A i \in 1 .. n : d[i] \in due
  BY ElementOfSeq DEF Lists
<1>5. \A i \in 1 .. m : q[i] \notin due
  BY DEF QueueInv
<1>6. \A i \in 1 .. m + n : i <= m => i \in 1 .. m
  BY <1>1
<1>7. \A i \in 1 .. m + n : ~(i <= m) => i - m \in 1 .. n
  BY <1>1
<1>8. \A i \in 1 .. m : i \in 1 .. m + n /\ i <= m
  BY <1>1
<1>9. \A i \in 1 .. n : i + m \in 1 .. m + n /\ ~(i + m <= m) /\ (i + m) - m = i
  BY <1>1
<1> DEFINE q2 == q \o d
<1>10. \A i \in 1 .. m : i \in 1 .. m + n /\ q2[i] = q[i]
  BY <1>2, <1>8
<1>11. \A i \in 1 .. n : i + m \in 1 .. m + n /\ q2[i + m] = d[i]
  BY <1>2, <1>9
<1>12. \A i \in 1 .. m + n : \/ i \in 1 .. m /\ q2[i] = q[i]
                             \/ i - m \in 1 .. n /\ q2[i] = d[i - m]
  BY <1>2, <1>6, <1>7
<1>13. retransmission_queue' = q2 /\ Len(q2) = m + n /\ q2 \in Seq(Chunks)
  BY <1>2
<1> HIDE DEF q2
<1>14. \A s \in retransmit_pending' : state'[s] = "IN_FLIGHT"
  BY DEF QueueInv, WindowTypeOK
<1>15. ASSUME NEW s \in retransmit_pending'
       PROVE  \E i \in 1 .. m + n : q2[i] = s
  <2>1. CASE s \in due
    <3>1. PICK i \in 1 .. n : d[i] = s
      BY <2>1 DEF Lists
    <3>2. QED
      BY <1>11, <3>1
  <2>2. CASE s \notin due
    <3>1. PICK i \in 1 .. m : q[i] = s
      BY <2>2 DEF QueueInv
    <3>2. QED
      BY <1>10, <3>1
  <2>3. QED
    BY <2>1, <2>2
<1>16. ASSUME NEW i \in 1 .. m + n, NEW j \in 1 .. m + n, q2[i] = q2[j]
       PROVE  i = j \/ q2[i] \notin retransmit_pending'
  <2>1. CASE i \in 1 .. m /\ q2[i] = q[i] /\ j \in 1 .. m /\ q2[j] = q[j]
    BY <1>5, <1>16, <2>1 DEF QueueInv
  <2>2. CASE i - m \in 1 .. n /\ q2[i] = d[i - m] /\ j - m \in 1 .. n /\ q2[j] = d[j - m]
    <3>1. i - m = j - m
      BY <1>16, <2>2 DEF Lists
    <3>2. QED
      BY <1>1, <3>1
  <2>3. CASE i \in 1 .. m /\ q2[i] = q[i] /\ j - m \in 1 .. n /\ q2[j] = d[j - m]
    BY <1>4, <1>5, <1>16, <2>3
  <2>4. CASE i - m \in 1 .. n /\ q2[i] = d[i - m] /\ j \in 1 .. m /\ q2[j] = q[j]
    BY <1>4, <1>5, <1>16, <2>4
  <2>5. QED
    BY <1>12, <2>1, <2>2, <2>3, <2>4
<1>17. ASSUME NEW i \in 1 .. m + n
       PROVE  q2[i] \in retransmit_pending' \/ state'[q2[i]] = "ACKED"
  <2>1. CASE i \in 1 .. m /\ q2[i] = q[i]
    BY <1>3, <2>1 DEF QueueInv
  <2>2. CASE i - m \in 1 .. n /\ q2[i] = d[i - m]
    BY <1>4, <2>2
  <2>3. QED
    BY <1>12, <2>1, <2>2
<1>18. QED
  BY <1>13, <1>14, <1>15, <1>16, <1>17 DEF QueueInv

\* advance_base() stops at the first chunk that is not ACKED.
LEMMA AdvanceBaseStops ==
    ASSUME NEW st, base \in 0 .. TotalChunks
    PROVE  /\ AdvanceBase(st) \in base .. TotalChunks
           /\ \A i \in base .. TotalChunks : i < AdvanceBase(st) => st[i] = "ACKED"
           /\ AdvanceBase(st) < TotalChunks => st[AdvanceBase(st)] # "ACKED"
<1> DEFINE stops == {i \in base .. TotalChunks : i = TotalChunks \/ st[i] # "ACKED"}
<1>1. stops \subseteq Nat /\ TotalChunks \in stops
  BY SnapshotAssumption
<1>2. Min(stops) \in stops /\ \A i \in stops : Min(stops) <= i
  BY <1>1, MinNat
<1>3. \A i \in base .. TotalChunks : i < Min(stops) => i \notin stops
  BY <1>1, <1>2, SnapshotAssumption
<1>4. QED
  BY <1>2, <1>3, SnapshotAssumption DEF AdvanceBase

LEMMA ProcessAckKeepsInv ==
    ASSUME WindowInv, decision = NoDecision, NEW ack, ProcessAck(ack)
    PROVE  WindowInv' /\ \A s \in Chunks : state[s] = "ACKED" => state'[s] = "ACKED"
<1> DEFINE acked == NewlyAcked(AckedBy(ack))
           st == MarkAcked(acked)
<1>1. AdvanceAndRetransmit(acked, st)
  BY DEF ProcessAck
<1> DEFINE holes == {s \in base' .. next_sequence - 1 : st[s] = "IN_FLIGHT"}
           due == {s \in holes : FastRetransmitDue(st, s) /\ CanQueue(st, s)}
<1>2. /\ state' = [s \in Chunks |-> IF s \in acked THEN "ACKED" ELSE state[s]]
      /\ st = state'
      /\ age' = [s \in Chunks |-> IF s \in acked THEN 0 ELSE age[s]]
      /\ outstanding_chunks' = outstanding_chunks - Cardinality(acked)
      /\ base' = AdvanceBase(state')
      /\ latest_later_acked' =
           [s \in Chunks |-> IF s \in holes THEN LaterAcked(state', s)
                                            ELSE latest_later_acked[s]]
      /\ retransmit_pending' = (retransmit_pending \ acked) \union due
      /\ fast_retransmit_pending' = (fast_retransmit_pending \ acked) \union due
      /\ fast_retransmitted' = fast_retransmitted \union due
      /\ retransmission_queue' = retransmission_queue \o Descending(due)
      /\ UNCHANGED <<retransmit_evidence, next_sequence, decision>>
  BY <1>1 DEF AdvanceAndRetransmit, MarkAcked
<1>3. acked \subseteq Unacked
  BY DEF NewlyAcked, AckedBy, Unacked
<1> HIDE DEF acked, st
<1>4. /\ TotalChunks \in Nat /\ base \in 0 .. TotalChunks
      /\ next_sequence \in 0 .. TotalChunks /\ base <= next_sequence
      /\ state \in [Chunks -> PacketState]
  BY SnapshotAssumption DEF WindowInv, WindowTypeOK, BaseIsFirstHole
<1>5. acked \subseteq Chunks /\ \A s \in acked : s < next_sequence
  BY <1>3, <1>4 DEF Unacked, Chunks
<1>6. due \subseteq Chunks /\ holes \subseteq Chunks
  <2>1. base' \in 0 .. TotalChunks
    BY <1>2, <1>4, AdvanceBaseStops
  <2>2. QED
    BY <1>4, <2>1 DEF Chunks
<1>7. \A s \in due : state[s] = "IN_FLIGHT" /\ s \notin retransmit_pending
                       /\ s \notin acked
  BY <1>2, <1>6 DEF CanQueue
<1> HIDE DEF due, holes
<1>8. IsFiniteSet(due) /\ due \subseteq Int
  <2>1. 0 \in Int /\ TotalChunks - 1 \in Int /\ due \subseteq 0 .. TotalChunks - 1
    BY <1>4, <1>6 DEF Chunks
  <2>2. IsFiniteSet(due)
    BY <2>1, PartOfInterval
  <2>3. QED
    BY <2>1, <2>2
<1>9. Lists(Descending(due), due)
  BY <1>8, DescendingLists
<1>10. \A s \in Chunks : state'[s] = IF s \in acked THEN "ACKED" ELSE state[s]
  BY <1>2
<1>11. QueueInv' /\ retransmission_queue' \in Seq(Chunks)
  BY <1>2, <1>5, <1>6, <1>7, <1>9, <1>10, AppendKeepsQueue DEF WindowInv
<1>12. \A s \in Chunks : state[s] = "ACKED" => state'[s] = "ACKED"
  BY <1>10
<1>13. BaseIsFirstHole' /\ base' \in base .. TotalChunks
  <2>1. /\ base' \in base .. TotalChunks
        /\ \A i \in base .. TotalChunks : i < base' => state'[i] = "ACKED"
        /\ base' < TotalChunks => state'[base'] # "ACKED"
    BY <1>2, <1>4, AdvanceBaseStops
  <2>2. \A s \in 0 .. base - 1 : state'[s] = "ACKED"
    BY <1>4, <1>12 DEF WindowInv, BaseIsFirstHole, Chunks
  <2>3. \A s \in 0 .. base' - 1 : state'[s] = "ACKED"
    <3>1. \A s \in 0 .. base' - 1 :
             \/ s \in 0 .. base - 1
             \/ s \in base .. TotalChunks /\ s < base'
      <4>1. base' \in base .. TotalChunks
        BY <2>1
      <4>2. base' \in Int /\ base \in Int /\ TotalChunks \in Int /\ base' <= TotalChunks
        BY <1>4, <4>1
      <4>3. \A a, b, c \in Int : b <= c => \A s \in 0 .. b - 1 :
               s \in 0 .. a - 1 \/ (s \in a .. c /\ s < b)
        OBVIOUS
      <4>4. QED
        BY <4>2, <4>3
    <3>2. QED
      BY <2>1, <2>2, <3>1
  <2>4. base' <= next_sequence
    <3>1. CASE next_sequence = TotalChunks
      BY <1>4, <2>1, <3>1
    <3>2. CASE next_sequence < TotalChunks
      <4>1. next_sequence \in Chunks /\ next_sequence \notin acked
        BY <1>4, <1>5, <3>2 DEF Chunks
      <4>2. state'[next_sequence] = "UNSENT"
        BY <1>4, <1>10, <4>1 DEF WindowInv, SelectionInv
      <4>3. QED
        BY <1>4, <2>1, <4>2
    <3>3. QED
      BY <1>4, <3>1, <3>2
  <2>5. QED
    BY <1>2, <2>1, <2>3, <2>4 DEF BaseIsFirstHole
<1>14. SpanWithinSack'
  BY <1>2, <1>4, <1>13, SnapshotAssumption DEF WindowInv, SpanWithinSack
<1>15. OutstandingExact'
  <2>1. Unacked' = Unacked \ acked
    BY <1>2, <1>4, <1>10 DEF Unacked, Chunks
  <2>2. IsFiniteSet(Unacked) /\ Cardinality(Unacked) \in Nat
    BY UnackedIsFinite DEF WindowInv
  <2>3. Cardinality(Unacked') = Cardinality(Unacked) - Cardinality(acked)
    BY <1>3, <2>1, <2>2, CardinalityOfDifference
  <2>4. Cardinality(acked) \in Nat
    BY <1>3, <2>2, FS_Subset, FS_CardinalityType
  <2>5. QED
    BY <1>2, <2>2, <2>3, <2>4, WindowAssumption DEF WindowInv, OutstandingExact
<1>16. \A s \in Chunks : LaterAcked(state', s) \in Nat
  BY <1>4, LaterAckedIsNat
<1>17. WindowTypeOK'
  <2>1. outstanding_chunks' \in Nat
    <3>1. WindowTypeOK => IsFiniteSet(Unacked)
      BY UnackedIsFinite
    <3>2. IsFiniteSet(Unacked \ acked)
      BY <1>3, <3>1, CardinalityOfDifference DEF WindowInv
    <3>3. Unacked' = Unacked \ acked
      BY <1>2, <1>4, <1>10 DEF Unacked, Chunks
    <3>4. QED
      BY <1>15, <3>2, <3>3, FS_CardinalityType DEF OutstandingExact
  <2>2. state' \in [Chunks -> PacketState] /\ age' \in [Chunks -> 0 .. Rto]
    BY <1>2, WindowAssumption DEF WindowInv, WindowTypeOK, PacketState
  <2>3. latest_later_acked' \in [Chunks -> Nat]
    BY <1>2, <1>16 DEF WindowInv, WindowTypeOK
  <2>4. /\ retransmit_pending' \subseteq Chunks
        /\ fast_retransmit_pending' \subseteq retransmit_pending'
        /\ fast_retransmitted' \subseteq Chunks
    BY <1>2, <1>6 DEF WindowInv, WindowTypeOK
  <2>5. QED
    BY <1>2, <1>4, <1>11, <1>13, <2>1, <2>2, <2>3, <2>4 DEF WindowInv, WindowTypeOK
<1>18. SelectionInv'
  <2>1. \A s \in Chunks : next_sequence <= s => state'[s] = "UNSENT"
    BY <1>4, <1>5, <1>10 DEF WindowInv, SelectionInv, Chunks
  <2>2. \A s \in Chunks : ~(s < next_sequence /\ state'[s] = "UNSENT")
    BY <1>10 DEF WindowInv, SelectionInv
  <2>3. QED
    BY <1>2, <2>1, <2>2 DEF SelectionInv, SelectionIsSendable
<1>19. EvidenceIsPast'
  <2>1. SUFFICES ASSUME NEW s \in Chunks
                 PROVE  /\ retransmit_evidence'[s] <= latest_later_acked'[s]
                        /\ latest_later_acked'[s] <= LaterAcked(state, s)'
    BY DEF EvidenceIsPast
  <2>2. LaterAcked(state, s) <= LaterAcked(state', s)
    <3>1. LaterAcked(state, s)' = LaterAcked(state', s)
      BY <1>2 DEF LaterAcked
    <3>2. LaterAcked(state, s) <= LaterAcked(state, s)'
      <4>1. next_sequence' \in 0 .. TotalChunks /\ next_sequence <= next_sequence'
        BY <1>2, <1>4
      <4>2. QED
        BY <1>4, <1>12, <4>1, LaterAckedGrows
    <3>3. QED
      BY <3>1, <3>2
  <2>3. /\ LaterAcked(state, s) \in Nat /\ LaterAcked(state', s) \in Nat
        /\ retransmit_evidence[s] \in Nat /\ latest_later_acked[s] \in Nat
    BY <1>4, LaterAckedIsNat DEF WindowInv, WindowTypeOK
  <2>4. /\ retransmit_evidence[s] <= latest_later_acked[s]
        /\ latest_later_acked[s] <= LaterAcked(state, s)
    BY DEF WindowInv, EvidenceIsPast
  <2>5. latest_later_acked'[s] \in {latest_later_acked[s], LaterAcked(state', s)}
    BY <1>2
  <2>6. /\ retransmit_evidence[s] <= latest_later_acked'[s]
        /\ latest_later_acked'[s] <= LaterAcked(state', s)
    BY <2>2, <2>3, <2>4, <2>5
  <2>7. retransmit_evidence' = retransmit_evidence
          /\ LaterAcked(state, s)' = LaterAcked(state', s)
    BY <1>2 DEF LaterAcked
  <2>8. QED
    BY <2>6, <2>7
<1>20. QED
  BY <1>11, <1>12, <1>13, <1>14, <1>15, <1>17, <1>18, <1>19 DEF WindowInv

\* A fast retransmission that process_ack() queues has new evidence enough, and
\* what was seen of the evidence is never forgotten.
LEMMA ProcessAckEarns ==
    ASSUME WindowInv, decision = NoDecision, NEW ack, ProcessAck(ack)
    PROVE  /\ UNCHANGED <<retransmit_evidence, decision>>
           /\ \A s \in Chunks : latest_later_acked[s] <= latest_later_acked'[s]
           /\ \A s \in fast_retransmit_pending' :
                 \/ s \in fast_retransmit_pending
                 \/ retransmit_evidence[s] + FastRetransmitThreshold
                      <= latest_later_acked'[s]
<1> DEFINE st == MarkAcked(NewlyAcked(AckedBy(ack)))
           holes == {s \in base' .. next_sequence - 1 : st[s] = "IN_FLIGHT"}
           due == {s \in holes : FastRetransmitDue(st, s) /\ CanQueue(st, s)}
<1>1. /\ st = state'
      /\ latest_later_acked' =
           [s \in Chunks |-> IF s \in holes THEN LaterAcked(st, s)
                                            ELSE latest_later_acked[s]]
      /\ fast_retransmit_pending' \subseteq fast_retransmit_pending \union due
      /\ UNCHANGED <<retransmit_evidence, next_sequence, decision>>
  BY DEF ProcessAck, AdvanceAndRetransmit
<1>2. \A s \in due : s \in holes /\ FastRetransmitDue(st, s)
  OBVIOUS
<1> HIDE DEF st, holes, due
<1>3. WindowInv' /\ \A s \in Chunks : state[s] = "ACKED" => state'[s] = "ACKED"
  BY ProcessAckKeepsInv
<1>4. next_sequence \in 0 .. TotalChunks /\ next_sequence' \in 0 .. TotalChunks
        /\ next_sequence <= next_sequence'
  BY <1>1, <1>3, SnapshotAssumption DEF WindowInv, WindowTypeOK
<1>5. ASSUME NEW s \in Chunks
      PROVE  /\ latest_later_acked[s] \in Nat /\ retransmit_evidence[s] \in Nat
             /\ LaterAcked(st, s) \in Nat
             /\ latest_later_acked[s] <= LaterAcked(st, s)
  <2>1. LaterAcked(state, s) <= LaterAcked(state, s)' /\ LaterAcked(state, s)' \in Nat
    BY <1>3, <1>4, LaterAckedGrows
  <2>2. LaterAcked(state, s)' = LaterAcked(st, s)
    BY <1>1 DEF LaterAcked
  <2>3. LaterAcked(state, s) \in Nat
    BY <1>4, LaterAckedIsNat
  <2>4. /\ latest_later_acked[s] \in Nat /\ retransmit_evidence[s] \in Nat
        /\ latest_later_acked[s] <= LaterAcked(state, s)
    BY DEF WindowInv, WindowTypeOK, EvidenceIsPast
  <2>5. QED
    BY <2>1, <2>2, <2>3, <2>4
<1>6. \A s \in Chunks : latest_later_acked[s] <= latest_later_acked'[s]
  BY <1>1, <1>5
<1>7. ASSUME NEW s \in fast_retransmit_pending', s \notin fast_retransmit_pending
      PROVE  retransmit_evidence[s] + FastRetransmitThreshold <= latest_later_acked'[s]
  <2>1. s \in Chunks /\ s \in due
    BY <1>1, <1>3, <1>7 DEF WindowInv, WindowTypeOK
  <2>2. /\ LaterAcked(st, s) - retransmit_evidence[s] >= FastRetransmitThreshold
        /\ latest_later_acked'[s] = LaterAcked(st, s)
    BY <1>1, <1>2, <2>1 DEF FastRetransmitDue
  <2>3. QED
    BY <1>5, <2>1, <2>2, WindowAssumption
<1>8. QED
  BY <1>1, <1>6, <1>7

LEMMA CheckTimeoutsKeepsInv ==
    ASSUME WindowInv, CheckTimeouts
    PROVE  WindowInv'
<1> DEFINE expired == {s \in base .. next_sequence - 1 : CanQueue(state, s) /\ age[s] >= Rto}
<1>1. /\ retransmit_pending' = retransmit_pending \union expired
      /\ fast_retransmit_pending' = fast_retransmit_pending \ expired
      /\ retransmission_queue' = retransmission_queue \o Ascending(expired)
      /\ UNCHANGED <<state, age, fast_retransmitted, latest_later_acked,
                     retransmit_evidence, base, next_sequence,
                     outstanding_chunks, decision>>
  BY DEF CheckTimeouts
<1>2. /\ TotalChunks \in Nat /\ base \in 0 .. TotalChunks
      /\ next_sequence \in 0 .. TotalChunks
  BY SnapshotAssumption DEF WindowInv, WindowTypeOK
<1>3. \A s \in expired : state[s] = "IN_FLIGHT" /\ s \notin retransmit_pending
  BY DEF CanQueue
<1>4. expired \subseteq 0 .. TotalChunks - 1
  BY <1>2
<1> HIDE DEF expired
<1>5. IsFiniteSet(expired) /\ expired \subseteq Int
  <2>1. 0 \in Int /\ TotalChunks - 1 \in Int
    BY <1>2
  <2>2. IsFiniteSet(expired)
    BY <1>4, <2>1, PartOfInterval
  <2>3. QED
    BY <1>4, <2>2
<1>6. Lists(Ascending(expired), expired)
  BY <1>5, AscendingLists
<1>7. QueueInv' /\ retransmission_queue' \in Seq(Chunks)
  <2>1. {} \in SUBSET Chunks /\ expired \in SUBSET Chunks
    BY <1>4 DEF Chunks
  <2>2. \A s \in expired : state[s] = "IN_FLIGHT" /\ s \notin retransmit_pending
                             /\ s \notin {}
    BY <1>3
  <2>3. \A s \in Chunks : state'[s] = IF s \in {} THEN "ACKED" ELSE state[s]
    BY <1>1
  <2>4. retransmit_pending' = (retransmit_pending \ {}) \union expired
    BY <1>1
  <2>5. QED
    BY <1>1, <1>6, <2>1, <2>2, <2>3, <2>4, AppendKeepsQueue DEF WindowInv
<1>8. WindowTypeOK'
  BY <1>1, <1>4, <1>7 DEF WindowInv, WindowTypeOK, Chunks
<1>9. OutstandingExact' /\ BaseIsFirstHole' /\ SpanWithinSack'
  BY <1>1 DEF WindowInv, OutstandingExact, Unacked, BaseIsFirstHole, SpanWithinSack
<1>10. SelectionInv' /\ EvidenceIsPast'
  BY <1>1 DEF WindowInv, SelectionInv, SelectionIsSendable, Sendable, EvidenceIsPast,
              LaterAcked
<1>11. QED
  BY <1>7, <1>8, <1>9, <1>10 DEF WindowInv

-----------------------------------------------------------------------------
(* The selection of a packet, its sending, and the clock. *)

LEMMA SelectRetransmissionKeepsInv ==
    ASSUME WindowInv, decision = NoDecision, SelectRetransmission
    PROVE  WindowInv'
<1> DEFINE q == retransmission_queue
           m == Len(retransmission_queue)
<1>1. PICK i \in 1 .. m :
        /\ IsLive(q[i])
        /\ \A j \in 1 .. i - 1 : ~IsLive(q[j])
        /\ retransmission_queue' = SubSeq(q, i + 1, m)
        /\ retransmit_pending' = retransmit_pending \ {q[i]}
        /\ fast_retransmit_pending' = fast_retransmit_pending \ {q[i]}
        /\ fast_retransmitted' = fast_retransmitted \union {q[i]}
        /\ retransmit_evidence' =
             [retransmit_evidence EXCEPT ![q[i]] = latest_later_acked[q[i]]]
        /\ decision' = [sequence |-> q[i], retransmission |-> TRUE,
                        fast_retransmission |-> q[i] \in fast_retransmit_pending]
        /\ UNCHANGED <<state, age, latest_later_acked, base, next_sequence,
                       outstanding_chunks>>
  BY DEF SelectRetransmission, PendingAfterSelection, EvidenceAtSelection
<1> DEFINE s == q[i]
<1>2. q \in Seq(Chunks) /\ m \in Nat /\ s \in Chunks /\ \A j \in 1 .. m : q[j] \in Chunks
  <2>1. q \in Seq(Chunks)
    BY DEF WindowInv, WindowTypeOK
  <2>2. QED
    BY <2>1, LenProperties, ElementOfSeq
<1>3. /\ retransmission_queue' \in Seq(Chunks)
      /\ Len(retransmission_queue') = m - i
      /\ \A j \in 1 .. m - i : retransmission_queue'[j] = q[j + i]
  <2>1. i + 1 \in Int /\ m \in Int /\ \A j \in i + 1 .. m : q[j] \in Chunks
    BY <1>2
  <2>2. /\ SubSeq(q, i + 1, m) \in Seq(Chunks)
        /\ Len(SubSeq(q, i + 1, m)) = IF i + 1 <= m THEN m - (i + 1) + 1 ELSE 0
        /\ \A j \in 1 .. m - (i + 1) + 1 : SubSeq(q, i + 1, m)[j] = q[(i + 1) + j - 1]
    BY <2>1, SubSeqProperties
  <2>3. \A j \in 1 .. m - i : j \in 1 .. m - (i + 1) + 1 /\ (i + 1) + j - 1 = j + i
    BY <1>2
  <2>4. QED
    BY <1>1, <1>2, <2>2, <2>3
<1>4. \A j \in 1 .. m - i : j + i \in 1 .. m /\ j + i # i
  BY <1>2
<1>5. \A j \in 1 .. m : \/ j \in 1 .. i - 1
                        \/ j = i
                        \/ j - i \in 1 .. m - i /\ (j - i) + i = j
  BY <1>2
<1>6. QueueInv'
  <2> DEFINE q2 == retransmission_queue'
  <2>1. \A j \in 1 .. m - i : /\ j + i \in 1 .. m /\ j + i # i
                              /\ q2[j] = q[j + i] /\ q2[j] \in Chunks
    BY <1>2, <1>3, <1>4
  <2>2. \A t \in retransmit_pending' : t \in retransmit_pending /\ t # s
                                         /\ state'[t] = "IN_FLIGHT"
    BY <1>1 DEF WindowInv, QueueInv
  <2>3. ASSUME NEW t \in retransmit_pending'
        PROVE  \E j \in 1 .. m - i : q2[j] = t
    <3>1. PICK j \in 1 .. m : q[j] = t
      BY <2>2 DEF WindowInv, QueueInv
    <3>2. j \notin 1 .. i - 1
      BY <1>1, <2>2, <3>1 DEF IsLive, WindowInv, QueueInv
    <3>3. j - i \in 1 .. m - i /\ (j - i) + i = j
      BY <1>5, <2>2, <3>1, <3>2
    <3>4. q2[j - i] = t
      BY <2>1, <3>1, <3>3
    <3>5. QED
      BY <3>3, <3>4
  <2>4. ASSUME NEW j \in 1 .. m - i, NEW k \in 1 .. m - i, q2[j] = q2[k]
        PROVE  j = k \/ q2[j] \notin retransmit_pending'
    <3>1. j + i = k + i \/ q[j + i] \notin retransmit_pending
      BY <2>1, <2>4 DEF WindowInv, QueueInv
    <3>2. j + i = k + i => j = k
      BY <1>2
    <3>3. QED
      BY <2>1, <2>2, <3>1, <3>2
  <2>5. ASSUME NEW j \in 1 .. m - i
        PROVE  q2[j] \in retransmit_pending' \/ state'[q2[j]] = "ACKED"
    <3>1. q[j + i] # s \/ s \notin retransmit_pending
      BY <2>1 DEF WindowInv, QueueInv
    <3>2. q[j + i] # s
      BY <1>1, <3>1 DEF IsLive
    <3>3. QED
      BY <1>1, <2>1, <3>2 DEF WindowInv, QueueInv
  <2>6. QED
    BY <1>3, <2>2, <2>3, <2>4, <2>5 DEF QueueInv
<1>7. s < next_sequence /\ state[s] = "IN_FLIGHT"
  <2>1. state[s] = "IN_FLIGHT"
    BY <1>1 DEF IsLive
  <2>2. next_sequence \in Int /\ s \in Int
    BY <1>2, SnapshotAssumption DEF WindowInv, WindowTypeOK, Chunks
  <2>3. QED
    BY <1>2, <2>1, <2>2 DEF WindowInv, SelectionInv
<1>8. WindowTypeOK'
  <2>1. decision' \in SendDecision
    BY <1>1, <1>2 DEF SendDecision
  <2>2. retransmit_evidence' \in [Chunks -> Nat]
    BY <1>1, <1>2 DEF WindowInv, WindowTypeOK
  <2>3. /\ retransmit_pending' \subseteq Chunks
        /\ fast_retransmit_pending' \subseteq retransmit_pending'
        /\ fast_retransmitted' \subseteq Chunks
    BY <1>1, <1>2 DEF WindowInv, WindowTypeOK
  <2>4. QED
    BY <1>1, <1>3, <2>1, <2>2, <2>3 DEF WindowInv, WindowTypeOK
<1>9. OutstandingExact' /\ BaseIsFirstHole' /\ SpanWithinSack'
  BY <1>1 DEF WindowInv, OutstandingExact, Unacked, BaseIsFirstHole, SpanWithinSack
<1>10. SelectionInv'
  <2>1. decision'.sequence = s
    BY <1>1
  <2>2. SelectionIsSendable'
    BY <1>1, <1>7, <2>1 DEF SelectionIsSendable, Sendable
  <2>3. QED
    BY <1>1, <2>2 DEF WindowInv, SelectionInv
<1>11. EvidenceIsPast'
  <2>1. \A t \in Chunks : LaterAcked(state, t)' = LaterAcked(state, t)
    BY <1>1 DEF LaterAcked
  <2>2. \A t \in Chunks : retransmit_evidence'[t] <= latest_later_acked[t]
    BY <1>1, <1>2 DEF WindowInv, EvidenceIsPast, WindowTypeOK
  <2>3. QED
    BY <1>1, <2>1, <2>2 DEF WindowInv, EvidenceIsPast
<1>12. QED
  BY <1>6, <1>8, <1>9, <1>10, <1>11 DEF WindowInv

LEMMA NothingQueuedMeansNonePending ==
    WindowInv /\ NothingQueued => retransmit_pending = {}
BY DEF WindowInv, QueueInv, NothingQueued, IsLive

LEMMA EmptyQueueInv ==
    ASSUME retransmit_pending' = {}, retransmission_queue' = <<>>
    PROVE  QueueInv' /\ retransmission_queue' \in Seq(Chunks)
<1>1. Len(retransmission_queue') = 0 /\ retransmission_queue' \in Seq(Chunks)
  BY EmptySeq
<1>2. 1 .. 0 = {}
  OBVIOUS
<1>3. QED
  BY <1>1, <1>2 DEF QueueInv

LEMMA SelectNothingKeepsInv ==
    ASSUME WindowInv, SelectNothing
    PROVE  WindowInv'
<1>1. /\ retransmission_queue' = <<>>
      /\ UNCHANGED <<state, age, retransmit_pending, fast_retransmit_pending,
                     fast_retransmitted, latest_later_acked, retransmit_evidence,
                     base, next_sequence, outstanding_chunks, decision>>
  BY DEF SelectNothing
<1>2. retransmit_pending' = {}
  BY <1>1, NothingQueuedMeansNonePending DEF SelectNothing
<1>3. QueueInv' /\ retransmission_queue' \in Seq(Chunks)
  BY <1>1, <1>2, EmptyQueueInv
<1>4. WindowTypeOK'
  BY <1>1, <1>3 DEF WindowInv, WindowTypeOK
<1>5. OutstandingExact' /\ BaseIsFirstHole' /\ SpanWithinSack'
  BY <1>1 DEF WindowInv, OutstandingExact, Unacked, BaseIsFirstHole, SpanWithinSack
<1>6. SelectionInv' /\ EvidenceIsPast'
  BY <1>1 DEF WindowInv, SelectionInv, SelectionIsSendable, Sendable, EvidenceIsPast,
              LaterAcked
<1>7. QED
  BY <1>3, <1>4, <1>5, <1>6 DEF WindowInv

LEMMA SelectNewKeepsInv ==
    ASSUME WindowInv, decision = NoDecision, SelectNew
    PROVE  WindowInv'
<1>1. /\ next_sequence < TotalChunks
      /\ outstanding_chunks < LogicalWindow
      /\ next_sequence < base + SackCoverage
      /\ retransmission_queue' = <<>>
      /\ next_sequence' = next_sequence + 1
      /\ outstanding_chunks' = outstanding_chunks + 1
      /\ decision' = [sequence |-> next_sequence, retransmission |-> FALSE,
                      fast_retransmission |-> FALSE]
      /\ UNCHANGED <<state, age, retransmit_pending, fast_retransmit_pending,
                     fast_retransmitted, latest_later_acked, retransmit_evidence,
                     base>>
  BY DEF SelectNew, CanSendNew
<1>2. /\ TotalChunks \in Nat /\ SackCoverage \in Nat /\ LogicalWindow \in Nat
      /\ base \in 0 .. TotalChunks /\ next_sequence \in 0 .. TotalChunks
      /\ base <= next_sequence /\ outstanding_chunks \in Nat
  BY SnapshotAssumption, WindowAssumption DEF WindowInv, WindowTypeOK, BaseIsFirstHole
<1>3. next_sequence \in Chunks /\ state[next_sequence] = "UNSENT"
  <2>1. next_sequence \in Chunks
    BY <1>1, <1>2 DEF Chunks
  <2>2. QED
    BY <1>2, <2>1 DEF WindowInv, SelectionInv
<1>4. retransmit_pending' = {}
  BY <1>1, NothingQueuedMeansNonePending DEF SelectNew
<1>5. QueueInv' /\ retransmission_queue' \in Seq(Chunks)
  BY <1>1, <1>4, EmptyQueueInv
<1>6. WindowTypeOK'
  <2>1. decision' \in SendDecision
    BY <1>1, <1>3 DEF SendDecision
  <2>2. next_sequence' \in 0 .. TotalChunks /\ outstanding_chunks' \in Nat
    BY <1>1, <1>2
  <2>3. QED
    BY <1>1, <1>5, <2>1, <2>2 DEF WindowInv, WindowTypeOK
<1>7. OutstandingExact'
  <2>1. 0 .. next_sequence' - 1 = (0 .. next_sequence - 1) \union {next_sequence}
    BY <1>1, <1>2
  <2>2. Unacked' = Unacked \union {next_sequence}
    BY <1>1, <1>3, <2>1 DEF Unacked
  <2>3. next_sequence \notin Unacked
    BY <1>2 DEF Unacked
  <2>4. Cardinality(Unacked') = Cardinality(Unacked) + 1
    BY <2>2, <2>3, UnackedIsFinite, FS_AddElement DEF WindowInv
  <2>5. QED
    BY <1>1, <1>2, <2>4 DEF WindowInv, OutstandingExact
<1>8. BaseIsFirstHole' /\ SpanWithinSack'
  BY <1>1, <1>2 DEF WindowInv, BaseIsFirstHole, SpanWithinSack
<1>9. SelectionInv'
  <2>1. SelectionIsSendable'
    BY <1>1, <1>2, <1>3 DEF SelectionIsSendable, Sendable
  <2>2. \A s \in Chunks : next_sequence' <= s => state'[s] = "UNSENT"
    BY <1>1, <1>2 DEF WindowInv, SelectionInv, Chunks
  <2>3. \A s \in Chunks : s < next_sequence' /\ state'[s] = "UNSENT" => s = next_sequence
    BY <1>1, <1>2 DEF WindowInv, SelectionInv, Chunks
  <2>4. decision' # NoDecision
    <3>1. decision' \in SendDecision
      BY <1>1, <1>3 DEF SendDecision
    <3>2. QED
      BY <3>1, WindowAssumption
  <2>5. QED
    BY <1>1, <2>1, <2>2, <2>3, <2>4 DEF SelectionInv
<1>10. EvidenceIsPast'
  <2>1. next_sequence' \in 0 .. TotalChunks /\ next_sequence <= next_sequence'
    BY <1>1, <1>2
  <2>2. \A t \in Chunks : state[t] = "ACKED" => state'[t] = "ACKED"
    BY <1>1
  <2>3. SUFFICES ASSUME NEW s \in Chunks
                 PROVE  /\ retransmit_evidence[s] <= latest_later_acked[s]
                        /\ latest_later_acked[s] <= LaterAcked(state, s)'
    BY <1>1 DEF EvidenceIsPast
  <2>4. LaterAcked(state, s) <= LaterAcked(state, s)' /\ LaterAcked(state, s)' \in Nat
    BY <1>2, <2>1, <2>2, LaterAckedGrows
  <2>5. LaterAcked(state, s) \in Nat
    BY <1>2, LaterAckedIsNat
  <2>6. QED
    BY <2>4, <2>5 DEF WindowInv, WindowTypeOK, EvidenceIsPast
<1>11. QED
  BY <1>5, <1>6, <1>7, <1>8, <1>9, <1>10 DEF WindowInv

LEMMA MarkSentKeepsInv ==
    ASSUME WindowInv, decision # NoDecision, MarkSent
    PROVE  WindowInv'
<1> DEFINE s == decision.sequence
<1>1. /\ s < next_sequence /\ state[s] # "ACKED"
      /\ state' = [state EXCEPT ![s] = "IN_FLIGHT"]
      /\ age' = [age EXCEPT ![s] = 0]
      /\ decision' = NoDecision
      /\ UNCHANGED <<retransmit_pending, fast_retransmit_pending,
                     fast_retransmitted, latest_later_acked,
                     retransmit_evidence, retransmission_queue, base,
                     next_sequence, outstanding_chunks>>
  BY DEF MarkSent, Sendable
<1>2. s \in Chunks
  BY DEF WindowInv, WindowTypeOK, SendDecision
<1> HIDE DEF s
<1>3. /\ state \in [Chunks -> PacketState]
      /\ TotalChunks \in Nat /\ base \in 0 .. TotalChunks
      /\ next_sequence \in 0 .. TotalChunks
  BY SnapshotAssumption DEF WindowInv, WindowTypeOK
<1>4. \A t \in Chunks : state'[t] = IF t = s THEN "IN_FLIGHT" ELSE state[t]
  BY <1>1, <1>2, <1>3
<1>5. \A t \in Chunks : state'[t] = "ACKED" <=> state[t] = "ACKED"
  BY <1>1, <1>4
<1>6. WindowTypeOK'
  <2>1. state' \in [Chunks -> PacketState]
    BY <1>1, <1>3 DEF PacketState
  <2>2. 0 \in 0 .. Rto /\ age \in [Chunks -> 0 .. Rto]
    BY WindowAssumption DEF WindowInv, WindowTypeOK
  <2>3. age' \in [Chunks -> 0 .. Rto]
    BY <1>1, <2>2
  <2>4. QED
    BY <1>1, <2>1, <2>3 DEF WindowInv, WindowTypeOK
<1>7. OutstandingExact'
  <2>1. Unacked' = Unacked
    BY <1>1, <1>3, <1>5 DEF Unacked, Chunks
  <2>2. QED
    BY <1>1, <2>1 DEF WindowInv, OutstandingExact
<1>8. BaseIsFirstHole' /\ SpanWithinSack'
  BY <1>1, <1>3, <1>5 DEF WindowInv, BaseIsFirstHole, SpanWithinSack, Chunks
<1>9. SelectionInv'
  <2>1. \A t \in Chunks : next_sequence <= t => state'[t] = "UNSENT"
    BY <1>1, <1>2, <1>3, <1>4 DEF WindowInv, SelectionInv, Chunks
  <2>2. \A t \in Chunks : ~(t < next_sequence /\ state'[t] = "UNSENT")
    BY <1>4 DEF WindowInv, SelectionInv, s
  <2>3. QED
    BY <1>1, <2>1, <2>2 DEF SelectionInv, SelectionIsSendable
<1>10. QueueInv'
  <2>1. \A i \in 1 .. Len(retransmission_queue) : retransmission_queue[i] \in Chunks
    BY ElementOfSeq DEF WindowInv, WindowTypeOK
  <2>2. \A t \in retransmit_pending : t \in Chunks /\ state'[t] = "IN_FLIGHT"
    BY <1>4 DEF WindowInv, WindowTypeOK, QueueInv
  <2>3. QED
    BY <1>1, <1>5, <2>1, <2>2 DEF WindowInv, QueueInv
<1>11. EvidenceIsPast'
  <2>1. ASSUME NEW t \in Chunks
        PROVE  LaterAcked(state, t)' = LaterAcked(state, t)
    <3>1. {u \in t + 1 .. next_sequence - 1 : state'[u] = "ACKED"} =
            {u \in t + 1 .. next_sequence - 1 : state[u] = "ACKED"}
      BY <1>3, <1>5 DEF Chunks
    <3>2. QED
      BY <1>1, <3>1 DEF LaterAcked
  <2>2. QED
    BY <1>1, <2>1 DEF WindowInv, EvidenceIsPast
<1>12. QED
  BY <1>6, <1>7, <1>8, <1>9, <1>10, <1>11 DEF WindowInv

LEMMA ElapseKeepsInv ==
    ASSUME WindowInv, Elapse
    PROVE  WindowInv'
<1>1. /\ age' = [s \in Chunks |->
                   IF state[s] = "IN_FLIGHT" THEN Min({age[s] + 1, Rto}) ELSE age[s]]
      /\ UNCHANGED <<state, retransmit_pending, fast_retransmit_pending,
                     fast_retransmitted, latest_later_acked, retransmit_evidence,
                     retransmission_queue, base, next_sequence,
                     outstanding_chunks, decision>>
  BY DEF Elapse
<1>2. ASSUME NEW s \in Chunks
      PROVE  Min({age[s] + 1, Rto}) \in 0 .. Rto
  <2>1. age[s] \in 0 .. Rto /\ Rto \in Nat
    BY WindowAssumption DEF WindowInv, WindowTypeOK
  <2> DEFINE two == {age[s] + 1, Rto}
  <2>2. two \subseteq Nat /\ two # {} /\ Rto \in two
    BY <2>1
  <2>3. Min(two) \in two /\ Min(two) <= Rto
    BY <2>2, MinNat
  <2>4. QED
    BY <2>1, <2>2, <2>3
<1>3. age' \in [Chunks -> 0 .. Rto]
  BY <1>1, <1>2 DEF WindowInv, WindowTypeOK
<1>4. WindowTypeOK'
  BY <1>1, <1>3 DEF WindowInv, WindowTypeOK
<1>5. OutstandingExact' /\ BaseIsFirstHole' /\ SpanWithinSack'
  BY <1>1 DEF WindowInv, OutstandingExact, Unacked, BaseIsFirstHole, SpanWithinSack
<1>6. SelectionInv' /\ QueueInv' /\ EvidenceIsPast'
  BY <1>1 DEF WindowInv, SelectionInv, SelectionIsSendable, Sendable, EvidenceIsPast,
              LaterAcked, QueueInv
<1>7. QED
  BY <1>4, <1>5, <1>6 DEF WindowInv

LEMMA UnchangedKeepsInv == WindowInv /\ UNCHANGED windowVars => WindowInv'
<1> SUFFICES ASSUME WindowInv, UNCHANGED windowVars PROVE WindowInv'
  OBVIOUS
<1> USE DEF windowVars, WindowInv
<1>1. WindowTypeOK'
  BY DEF WindowTypeOK
<1>2. OutstandingExact' /\ BaseIsFirstHole' /\ SpanWithinSack'
  BY DEF OutstandingExact, Unacked, BaseIsFirstHole, SpanWithinSack
<1>3. SelectionInv' /\ QueueInv' /\ EvidenceIsPast'
  BY DEF SelectionInv, SelectionIsSendable, Sendable, EvidenceIsPast, LaterAcked,
         QueueInv
<1>4. QED
  BY <1>1, <1>2, <1>3

-----------------------------------------------------------------------------
(* ReceiverTracker. *)

\* The three numbers in terms of the received set: what mark_received()
\* maintains, and all that the other operations need.
TrackerInv ==
    /\ received \subseteq Chunks
    /\ received_count = Cardinality(received)
    /\ cumulative_ack \in 0 .. TotalChunks
    /\ 0 .. cumulative_ack - 1 \subseteq received
    /\ cumulative_ack \notin received
    /\ largest_received_plus_one \in 0 .. TotalChunks
    /\ \A s \in received : s < largest_received_plus_one
    /\ largest_received_plus_one = 0 \/ largest_received_plus_one - 1 \in received

LEMMA ReceivedIsFinite ==
    TrackerInv => IsFiniteSet(received) /\ Cardinality(received) \in 0 .. TotalChunks
<1>1. IsFiniteSet(Chunks) /\ Cardinality(Chunks) = TotalChunks
  BY SnapshotAssumption, FS_Interval DEF Chunks
<1>2. ASSUME TrackerInv
      PROVE  IsFiniteSet(received) /\ Cardinality(received) <= TotalChunks
  BY <1>1, <1>2, FS_Subset DEF TrackerInv
<1>3. QED
  BY <1>2, SnapshotAssumption, FS_CardinalityType

LEMMA TrackerInvInit == TrackerInit => TrackerInv
BY SnapshotAssumption, FS_EmptySet DEF TrackerInit, TrackerInv, Chunks

\* The loop of mark_received() stops at the first chunk missing.
LEMMA AdvanceCumulativeStops ==
    ASSUME NEW R, R \subseteq Chunks, cumulative_ack \in 0 .. TotalChunks,
           0 .. cumulative_ack - 1 \subseteq R
    PROVE  /\ AdvanceCumulative(R) \in cumulative_ack .. TotalChunks
           /\ 0 .. AdvanceCumulative(R) - 1 \subseteq R
           /\ AdvanceCumulative(R) \notin R
<1> DEFINE stops == {i \in cumulative_ack .. TotalChunks : i = TotalChunks \/ i \notin R}
<1> USE SnapshotAssumption DEF Chunks
<1>1. stops \subseteq Nat /\ TotalChunks \in stops
  OBVIOUS
<1>2. Min(stops) \in stops /\ \A i \in stops : Min(stops) <= i
  BY <1>1, MinNat
<1>3. \A i \in 0 .. Min(stops) - 1 : i \in R
  BY <1>1, <1>2
<1>4. QED
  BY <1>1, <1>2, <1>3 DEF AdvanceCumulative

\* mark_received() keeps TrackerInv, and moves neither number back.
LEMMA MarkReceivedKeepsInv ==
    ASSUME TrackerInv, NEW s \in Chunks, MarkReceived(s)
    PROVE  /\ TrackerInv'
           /\ received' = received \union {s}
           /\ cumulative_ack <= cumulative_ack'
           /\ largest_received_plus_one <= largest_received_plus_one'
<1> USE SnapshotAssumption DEF TrackerInv, Chunks
<1>1. CASE s \in received
  <2>1. UNCHANGED trackerVars
    BY <1>1 DEF MarkReceived, HasReceived
  <2>2. TrackerInv'
    BY <2>1 DEF trackerVars
  <2>3. QED
    BY <1>1, <2>1, <2>2 DEF trackerVars
<1>2. CASE s \notin received
  <2>1. /\ received' = received \union {s}
        /\ received_count' = received_count + 1
        /\ largest_received_plus_one' = LargestWith(s)
        /\ cumulative_ack' = AdvanceCumulative(received \union {s})
    BY <1>2 DEF MarkReceived, HasReceived
  <2>2. received_count' = Cardinality(received')
    BY <1>2, <2>1, ReceivedIsFinite, FS_AddElement
  <2>3. /\ cumulative_ack' \in cumulative_ack .. TotalChunks
        /\ 0 .. cumulative_ack' - 1 \subseteq received'
        /\ cumulative_ack' \notin received'
    BY <2>1, AdvanceCumulativeStops
  <2>4. /\ largest_received_plus_one' \in largest_received_plus_one .. TotalChunks
        /\ \A t \in received' : t < largest_received_plus_one'
        /\ largest_received_plus_one' - 1 \in received'
    BY <2>1 DEF LargestWith
  <2>5. QED
    BY <2>1, <2>2, <2>3, <2>4
<1>3. QED
  BY <1>1, <1>2

LEMMA TrackerInvGivesType == TrackerInv => TrackerTypeOK
<1> SUFFICES ASSUME TrackerInv PROVE TrackerTypeOK
  OBVIOUS
<1>1. QED
  BY ReceivedIsFinite DEF TrackerInv, TrackerTypeOK

\* complete() is exact: the counter reaches the number of chunks when every
\* chunk is there, and not before.
LEMMA CompleteIsExact == TrackerInv => (Complete <=> received = Chunks)
<1> SUFFICES ASSUME TrackerInv PROVE Complete <=> received = Chunks
  OBVIOUS
<1>1. IsFiniteSet(Chunks) /\ Cardinality(Chunks) = TotalChunks
  BY SnapshotAssumption, FS_Interval DEF Chunks
<1>2. QED
  BY <1>1, FS_Subset DEF TrackerInv, Complete

\* make_ack_snapshot() builds the ACK that the received set determines.
LEMMA SnapshotOfReceived == TrackerInv => SnapshotExact
<1> SUFFICES ASSUME TrackerInv PROVE SnapshotExact
  OBVIOUS
<1> USE SnapshotAssumption DEF TrackerInv, Chunks
<1>1. FirstMissing(received) = cumulative_ack
  <2> DEFINE missing == {i \in 0 .. TotalChunks : i \notin received}
  <2>1. missing \subseteq Nat /\ cumulative_ack \in missing
    OBVIOUS
  <2>2. \A i \in missing : cumulative_ack <= i
    OBVIOUS
  <2>3. QED
    BY <2>1, <2>2, MinIs DEF FirstMissing
<1>2. Horizon(received) = largest_received_plus_one
  <2> DEFINE above == {i \in 0 .. TotalChunks : \A s \in received : s < i}
  <2>1. above \subseteq Nat /\ largest_received_plus_one \in above
    OBVIOUS
  <2>2. \A i \in above : largest_received_plus_one <= i
    OBVIOUS
  <2>3. QED
    BY <2>1, <2>2, MinIs DEF Horizon
<1>3. {bit \in BitsToScan : cumulative_ack + bit \in received} =
      {bit \in 0 .. SackCoverage - 1 : cumulative_ack + bit \in received}
  BY DEF BitsToScan
<1>4. QED
  BY <1>1, <1>2, <1>3 DEF SnapshotExact, MakeAckSnapshot, SnapshotOf

\* What the snapshot of a received set reports: the chunks received, as far as
\* the bitmap reaches.
LEMMA ReportedIs ==
    ASSUME NEW R, R \subseteq Chunks, NEW c \in 0 .. TotalChunks,
           0 .. c - 1 \subseteq R, NEW h \in 0 .. TotalChunks, \A s \in R : s < h,
           NEW ack, ack.cumulative_ack = c, ack.bitmap_base = c,
           \A b : b \in ack.bitmap <=>
                    b \in 0 .. SackCoverage - 1 /\ b < h - c /\ c + b \in R
    PROVE  Reported(ack) = {s \in R : s < c + SackCoverage}
<1>1. ASSUME NEW s \in Chunks, s < c
      PROVE  s \in R /\ s < c + SackCoverage
  BY <1>1, SnapshotAssumption DEF Chunks
<1>2. ASSUME NEW s \in Chunks, ~(s < c)
      PROVE  s - c \in ack.bitmap <=> s \in R /\ s < c + SackCoverage
  <2> USE SnapshotAssumption DEF Chunks
  <2>1. c + (s - c) = s /\ s - c \in Int /\ 0 <= s - c
    BY <1>2
  <2>2. s - c \in 0 .. SackCoverage - 1 <=> s < c + SackCoverage
    BY <2>1
  <2>3. s \in R => s - c < h - c
    BY <2>1
  <2>4. QED
    BY <2>1, <2>2, <2>3
<1>3. \A s \in Chunks : s < c \/ s - c \in ack.bitmap
                           <=> s \in R /\ s < c + SackCoverage
  BY <1>1, <1>2
<1>4. Reported(ack) = {s \in Chunks : s < c \/ s - c \in ack.bitmap}
  BY DEF Reported
<1>5. QED
  BY <1>3, <1>4

LEMMA SnapshotIsAckPayload == TrackerInv => MakeAckSnapshot \in AckPayload
BY SnapshotAssumption DEF TrackerInv, Chunks, BitsToScan, MakeAckSnapshot, AckPayload

LEMMA ReportedBySnapshot ==
    TrackerInv => Reported(MakeAckSnapshot) =
                    {s \in received : s < cumulative_ack + SackCoverage}
<1>1. /\ MakeAckSnapshot.cumulative_ack = cumulative_ack
      /\ MakeAckSnapshot.bitmap_base = cumulative_ack
      /\ \A b : b \in MakeAckSnapshot.bitmap <=>
                  /\ b \in 0 .. SackCoverage - 1
                  /\ b < largest_received_plus_one - cumulative_ack
                  /\ cumulative_ack + b \in received
  BY DEF MakeAckSnapshot, BitsToScan
<1>2. ASSUME TrackerInv
      PROVE  /\ received \subseteq Chunks
             /\ cumulative_ack \in 0 .. TotalChunks
             /\ 0 .. cumulative_ack - 1 \subseteq received
             /\ largest_received_plus_one \in 0 .. TotalChunks
             /\ \A s \in received : s < largest_received_plus_one
  BY <1>2 DEF TrackerInv
<1>3. QED
  BY <1>1, <1>2, ReportedIs

LEMMA ReportedBySnapshotNext ==
    TrackerInv' => Reported(MakeAckSnapshot') =
                    {s \in received' : s < cumulative_ack' + SackCoverage}
<1>1. /\ MakeAckSnapshot'.cumulative_ack = cumulative_ack'
      /\ MakeAckSnapshot'.bitmap_base = cumulative_ack'
      /\ \A b : b \in MakeAckSnapshot'.bitmap <=>
                  /\ b \in 0 .. SackCoverage - 1
                  /\ b < largest_received_plus_one' - cumulative_ack'
                  /\ cumulative_ack' + b \in received'
  BY DEF MakeAckSnapshot, BitsToScan
<1>2. ASSUME TrackerInv'
      PROVE  /\ received' \subseteq Chunks
             /\ cumulative_ack' \in 0 .. TotalChunks
             /\ 0 .. cumulative_ack' - 1 \subseteq received'
             /\ largest_received_plus_one' \in 0 .. TotalChunks
             /\ \A s \in received' : s < largest_received_plus_one'
  BY <1>2 DEF TrackerInv
<1>3. QED
  BY <1>1, <1>2, ReportedIs

-----------------------------------------------------------------------------
(* The tracker on its own. *)

LEMMA TrackerStep == TrackerInv /\ [TrackerNext]_trackerVars => TrackerInv'
<1>1. TrackerInv /\ TrackerNext => TrackerInv'
  BY MarkReceivedKeepsInv DEF TrackerNext
<1>2. TrackerInv /\ UNCHANGED trackerVars => TrackerInv'
  BY DEF TrackerInv, trackerVars
<1>3. QED
  BY <1>1, <1>2

LEMMA TrackerInvariant == TrackerSpec => []TrackerInv
BY TrackerInvInit, TrackerStep, PTL DEF TrackerSpec

\* ReceiverTracker keeps its types.
THEOREM TrackerTypes == TrackerSpec => []TrackerTypeOK
BY TrackerInvariant, TrackerInvGivesType, PTL

\* The counter behind complete() counts the distinct chunks received.
THEOREM TrackerCounts == TrackerSpec => []CountExact
<1>1. TrackerInv => CountExact
  BY DEF TrackerInv, CountExact
<1>2. QED
  BY <1>1, TrackerInvariant, PTL

\* Whatever the order of arrival, make_ack_snapshot() reports what the set of
\* received chunks determines.
THEOREM TrackerReports == TrackerSpec => []SnapshotExact
BY TrackerInvariant, SnapshotOfReceived, PTL

\* No snapshot takes back what an earlier one reported.
THEOREM TrackerNeverForgets == TrackerSpec => SnapshotMonotonic
<1> DEFINE Keeps ==
      /\ cumulative_ack <= cumulative_ack'
      /\ largest_received_plus_one <= largest_received_plus_one'
      /\ Reported(MakeAckSnapshot) \subseteq Reported(MakeAckSnapshot')
<1>1. TrackerInv /\ [TrackerNext]_trackerVars => [Keeps]_trackerVars
  <2> SUFFICES ASSUME TrackerInv, TrackerNext PROVE Keeps
    OBVIOUS
  <2>1. PICK s \in Chunks : MarkReceived(s)
    BY DEF TrackerNext
  <2>2. /\ TrackerInv'
        /\ received \subseteq received'
        /\ cumulative_ack <= cumulative_ack'
        /\ largest_received_plus_one <= largest_received_plus_one'
    BY <2>1, MarkReceivedKeepsInv
  <2>3. Reported(MakeAckSnapshot) =
          {t \in received : t < cumulative_ack + SackCoverage}
    BY ReportedBySnapshot
  <2>4. Reported(MakeAckSnapshot') =
          {t \in received' : t < cumulative_ack' + SackCoverage}
    BY <2>2, ReportedBySnapshotNext
  <2>5. received \subseteq Int /\ cumulative_ack \in Int /\ cumulative_ack' \in Int
    BY <2>2, SnapshotAssumption DEF TrackerInv, Chunks
  <2>6. ASSUME NEW t \in received, t < cumulative_ack + SackCoverage
        PROVE  t < cumulative_ack' + SackCoverage
    <3>1. t \in Int /\ SackCoverage \in Int
      BY <2>5, SnapshotAssumption
    <3>2. \A a, b, c, d \in Int : a < b + d /\ b <= c => a < c + d
      OBVIOUS
    <3>3. QED
      BY <2>2, <2>5, <2>6, <3>1, <3>2
  <2>7. Reported(MakeAckSnapshot) \subseteq Reported(MakeAckSnapshot')
    BY <2>2, <2>3, <2>4, <2>6
  <2>8. QED
    BY <2>2, <2>7
<1>2. QED
  BY <1>1, TrackerInvariant, PTL DEF TrackerSpec, SnapshotMonotonic

-----------------------------------------------------------------------------
(* SenderWindow under every caller that WindowDriver allows.               *)


LEMMA DriverInitGivesInv == DriverInit => WindowInv
BY WindowInvInit DEF DriverInit

LEMMA DriverKeepsInv == WindowInv /\ [DriverNext]_driverVars => WindowInv'
<1> SUFFICES ASSUME WindowInv, [DriverNext]_driverVars PROVE WindowInv'
  OBVIOUS
<1>1. CASE ReceiveAck
  BY <1>1, ProcessAckKeepsInv DEF ReceiveAck, Idle
<1>2. CASE Timeouts
  BY <1>2, CheckTimeoutsKeepsInv DEF Timeouts
<1>3. CASE Select
  BY <1>3, SelectRetransmissionKeepsInv, SelectNewKeepsInv, SelectNothingKeepsInv
     DEF Select, Idle
<1>4. CASE Send
  BY <1>4, MarkSentKeepsInv DEF Send, Idle
<1>5. CASE DriverTick
  BY <1>5, ElapseKeepsInv DEF DriverTick
<1>6. CASE UNCHANGED driverVars
  BY <1>6, UnchangedKeepsInv DEF driverVars
<1>7. QED
  BY <1>1, <1>2, <1>3, <1>4, <1>5, <1>6 DEF DriverNext

LEMMA DriverInvariant == DriverSpec => []WindowInv
BY DriverInitGivesInv, DriverKeepsInv, PTL DEF DriverSpec

\* outstanding_chunks_ never drifts from the number of unacknowledged chunks and
\* never exceeds the window.
THEOREM OutstandingIsExact == DriverSpec => []OutstandingExact
<1>1. WindowInv => OutstandingExact
  BY DEF WindowInv
<1>2. QED
  BY <1>1, DriverInvariant, PTL

\* base_ is always the first chunk not acknowledged, so all_acked() is exact.
THEOREM BaseIsExact == DriverSpec => []BaseIsFirstHole
<1>1. WindowInv => BaseIsFirstHole
  BY DEF WindowInv
<1>2. QED
  BY <1>1, DriverInvariant, PTL

\* No chunk is sent that an ACK could not report while base_ is missing.
THEOREM SpanIsBounded == DriverSpec => []SpanWithinSack
<1>1. WindowInv => SpanWithinSack
  BY DEF WindowInv
<1>2. QED
  BY <1>1, DriverInvariant, PTL

\* The retransmission queue holds every flagged chunk, once.
THEOREM FlaggedIsQueuedOnce == DriverSpec => []RetransmissionTracked
<1>1. WindowInv => RetransmissionTracked
  BY Tracked DEF WindowInv
<1>2. QED
  BY <1>1, DriverInvariant, PTL

\* What select_next_packet() skips in the queue is acknowledged.
THEOREM SkippedIsAcked == DriverSpec => []DeadEntriesAreAcked
<1>1. WindowInv => DeadEntriesAreAcked
  BY DeadEntries DEF WindowInv
<1>2. QED
  BY <1>1, DriverInvariant, PTL

\* mark_sent() never throws for the chunk that was selected.
THEOREM SelectedCanBeSent == DriverSpec => []SelectionIsSendable
<1>1. WindowInv => SelectionIsSendable
  BY DEF WindowInv, SelectionInv
<1>2. QED
  BY <1>1, DriverInvariant, PTL

\* The SACK evidence remembered for a chunk never runs ahead of what was seen.
THEOREM EvidenceIsNeverAhead == DriverSpec => []EvidenceIsPast
<1>1. WindowInv => EvidenceIsPast
  BY DEF WindowInv
<1>2. QED
  BY <1>1, DriverInvariant, PTL

-----------------------------------------------------------------------------
(* Fast retransmissions are paid for with SACK evidence. *)

\* The fast retransmissions of s made, and the one the caller holds.
Spent(s) ==
    IF decision # NoDecision /\ decision.fast_retransmission /\ decision.sequence = s
    THEN fast_retransmits[s] + 1
    ELSE fast_retransmits[s]

\* What was spent has been taken out of the evidence, and a fast retransmission
\* that is queued has FastRetransmitThreshold more to take.
BudgetInv ==
    /\ fast_retransmits \in [Chunks -> Nat]
    /\ \A s \in Chunks : FastRetransmitThreshold * Spent(s) <= retransmit_evidence[s]
    /\ \A s \in fast_retransmit_pending :
          retransmit_evidence[s] + FastRetransmitThreshold <= latest_later_acked[s]

LEMMA BudgetInit == DriverInit => BudgetInv
<1> SUFFICES ASSUME DriverInit PROVE BudgetInv
  OBVIOUS
<1> USE WindowAssumption DEF DriverInit, WindowInit
<1>1. \A s \in Chunks : Spent(s) = 0
  BY DEF Spent
<1>2. FastRetransmitThreshold * 0 = 0
  OBVIOUS
<1>3. QED
  BY <1>1, <1>2 DEF BudgetInv

LEMMA SpentIsNat ==
    ASSUME BudgetInv, NEW s \in Chunks
    PROVE  Spent(s) \in Nat
BY DEF BudgetInv, Spent

LEMMA BudgetStep == WindowInv /\ BudgetInv /\ [DriverNext]_driverVars => BudgetInv'
<1> SUFFICES ASSUME WindowInv, BudgetInv, [DriverNext]_driverVars PROVE BudgetInv'
  OBVIOUS
<1>1. CASE ReceiveAck
  <2>1. decision = NoDecision /\ UNCHANGED fast_retransmits
    BY <1>1 DEF ReceiveAck, Idle
  <2>2. /\ UNCHANGED <<retransmit_evidence, decision>>
        /\ \A s \in Chunks : latest_later_acked[s] <= latest_later_acked'[s]
        /\ \A s \in fast_retransmit_pending' :
              \/ s \in fast_retransmit_pending
              \/ retransmit_evidence[s] + FastRetransmitThreshold
                   <= latest_later_acked'[s]
    BY <1>1, ProcessAckEarns DEF ReceiveAck, Idle
  <2>3. WindowInv'
    BY <1>1, ProcessAckKeepsInv DEF ReceiveAck, Idle
  <2>4. \A s \in Chunks : Spent(s)' = Spent(s)
    BY <2>1, <2>2 DEF Spent
  <2>5. ASSUME NEW s \in fast_retransmit_pending'
        PROVE  retransmit_evidence'[s] + FastRetransmitThreshold <= latest_later_acked'[s]
    <3>1. s \in Chunks
      BY <2>3 DEF WindowInv, WindowTypeOK
    <3>2. /\ retransmit_evidence[s] \in Nat /\ FastRetransmitThreshold \in Nat
          /\ latest_later_acked[s] \in Nat /\ latest_later_acked'[s] \in Nat
      BY <2>3, <3>1, WindowAssumption DEF WindowInv, WindowTypeOK
    <3>3. CASE s \in fast_retransmit_pending
      <4>1. retransmit_evidence[s] + FastRetransmitThreshold <= latest_later_acked[s]
        BY <3>3 DEF BudgetInv
      <4>2. latest_later_acked[s] <= latest_later_acked'[s] /\ retransmit_evidence' = retransmit_evidence
        BY <2>2, <3>1
      <4>3. QED
        BY <3>2, <4>1, <4>2
    <3>4. CASE s \notin fast_retransmit_pending
      BY <2>2, <3>4
    <3>5. QED
      BY <3>3, <3>4
  <2>6. QED
    BY <2>1, <2>2, <2>4, <2>5 DEF BudgetInv
<1>2. CASE Timeouts
  <2>1. /\ UNCHANGED <<retransmit_evidence, latest_later_acked, decision, fast_retransmits>>
        /\ fast_retransmit_pending' \subseteq fast_retransmit_pending
    BY <1>2 DEF Timeouts, CheckTimeouts
  <2>2. QED
    BY <2>1 DEF BudgetInv, Spent
<1>3. CASE Select /\ SelectRetransmission
  <2>1. PICK i \in 1 .. Len(retransmission_queue) :
          LET s == retransmission_queue[i]
          IN /\ IsLive(s)
             /\ fast_retransmit_pending' = fast_retransmit_pending \ {s}
             /\ retransmit_evidence' =
                  [retransmit_evidence EXCEPT ![s] = latest_later_acked[s]]
             /\ decision' = [sequence |-> s, retransmission |-> TRUE,
                             fast_retransmission |-> s \in fast_retransmit_pending]
             /\ UNCHANGED latest_later_acked
    BY <1>3 DEF SelectRetransmission, EvidenceAtSelection
  <2> DEFINE s == retransmission_queue[i]
  <2>2. s \in Chunks
    BY ElementOfSeq DEF WindowInv, WindowTypeOK
  <2> HIDE DEF s
  <2>3. /\ fast_retransmit_pending' = fast_retransmit_pending \ {s}
        /\ retransmit_evidence' =
             [retransmit_evidence EXCEPT ![s] = latest_later_acked[s]]
        /\ decision' = [sequence |-> s, retransmission |-> TRUE,
                        fast_retransmission |-> s \in fast_retransmit_pending]
        /\ UNCHANGED latest_later_acked
    BY <2>1 DEF s
  <2>4. decision = NoDecision /\ UNCHANGED fast_retransmits
    BY <1>3 DEF Select, Idle
  <2>5. retransmit_evidence \in [Chunks -> Nat] /\ latest_later_acked \in [Chunks -> Nat]
          /\ fast_retransmit_pending \subseteq Chunks /\ FastRetransmitThreshold \in Nat
    BY WindowAssumption DEF WindowInv, WindowTypeOK
  <2>6. ASSUME NEW t \in Chunks
        PROVE  FastRetransmitThreshold * Spent(t)' <= retransmit_evidence'[t]
    <3>1. /\ fast_retransmits[t] \in Nat /\ Spent(t) = fast_retransmits[t]
          /\ FastRetransmitThreshold * fast_retransmits[t] <= retransmit_evidence[t]
      BY <2>4 DEF BudgetInv, Spent
    <3>2. retransmit_evidence[t] <= latest_later_acked[t]
      BY DEF WindowInv, EvidenceIsPast
    <3>3. CASE t # s
      BY <2>2, <2>3, <2>4, <2>5, <3>1, <3>3 DEF Spent
    <3>4. CASE t = s /\ s \in fast_retransmit_pending
      <4>1. retransmit_evidence[s] + FastRetransmitThreshold <= latest_later_acked[s]
        BY <3>4 DEF BudgetInv
      <4>2. retransmit_evidence'[t] = latest_later_acked[s]
        BY <2>2, <2>3, <2>5, <3>4
      <4>3. decision' # NoDecision
        <5>1. decision' \in SendDecision
          BY <2>2, <2>3 DEF SendDecision
        <5>2. QED
          BY <5>1, WindowAssumption
      <4>4. Spent(t)' = fast_retransmits[t] + 1
        BY <2>3, <2>4, <3>4, <4>3 DEF Spent
      <4>5. FastRetransmitThreshold * (fast_retransmits[t] + 1) =
              FastRetransmitThreshold * fast_retransmits[t] + FastRetransmitThreshold
        BY <2>5, <3>1
      <4>6. FastRetransmitThreshold * fast_retransmits[t] \in Nat
        BY <2>5, <3>1
      <4>7. QED
        BY <2>5, <3>1, <3>4, <4>1, <4>2, <4>4, <4>5, <4>6
    <3>5. CASE t = s /\ s \notin fast_retransmit_pending
      <4>1. retransmit_evidence'[t] = latest_later_acked[t]
        BY <2>2, <2>3, <2>5, <3>5
      <4>2. Spent(t)' = fast_retransmits[t]
        BY <2>3, <2>4, <3>5 DEF Spent
      <4>3. FastRetransmitThreshold * fast_retransmits[t] \in Nat
        BY <2>5, <3>1
      <4>4. QED
        BY <2>5, <3>1, <3>2, <4>1, <4>2, <4>3
    <3>6. QED
      BY <3>3, <3>4, <3>5
  <2>7. \A t \in fast_retransmit_pending' :
           retransmit_evidence'[t] + FastRetransmitThreshold <= latest_later_acked'[t]
    BY <2>2, <2>3, <2>5 DEF BudgetInv
  <2>8. QED
    BY <2>4, <2>6, <2>7 DEF BudgetInv
<1>4. CASE Select /\ ~SelectRetransmission
  <2>1. /\ UNCHANGED <<retransmit_evidence, latest_later_acked, fast_retransmits,
                       fast_retransmit_pending>>
        /\ decision = NoDecision
        /\ decision' = NoDecision \/ ~decision'.fast_retransmission
    BY <1>4 DEF Select, Idle, SelectNew, SelectNothing
  <2>2. \A s \in Chunks : Spent(s)' = Spent(s)
    BY <2>1 DEF Spent
  <2>3. QED
    BY <2>1, <2>2 DEF BudgetInv
<1>5. CASE Send
  <2>1. /\ UNCHANGED <<retransmit_evidence, latest_later_acked, fast_retransmit_pending>>
        /\ decision # NoDecision /\ decision' = NoDecision
        /\ fast_retransmits' = IF decision.fast_retransmission
                               THEN [fast_retransmits EXCEPT ![decision.sequence] = @ + 1]
                               ELSE fast_retransmits
    BY <1>5 DEF Send, MarkSent, Idle
  <2>2. decision.sequence \in Chunks /\ fast_retransmits \in [Chunks -> Nat]
    BY <2>1 DEF WindowInv, WindowTypeOK, SendDecision, BudgetInv
  <2>3. \A s \in Chunks : fast_retransmits'[s] = Spent(s) /\ Spent(s)' = fast_retransmits'[s]
    BY <2>1, <2>2 DEF Spent
  <2>4. fast_retransmits' \in [Chunks -> Nat]
    BY <2>1, <2>2
  <2>5. QED
    BY <2>1, <2>3, <2>4 DEF BudgetInv
<1>6. CASE DriverTick \/ UNCHANGED driverVars
  <2>1. UNCHANGED <<retransmit_evidence, latest_later_acked, fast_retransmit_pending,
                    decision, fast_retransmits>>
    BY <1>6 DEF DriverTick, Elapse, driverVars, windowVars
  <2>2. QED
    BY <2>1 DEF BudgetInv, Spent
<1>7. QED
  BY <1>1, <1>2, <1>3, <1>4, <1>5, <1>6 DEF DriverNext

LEMMA BudgetInvariant == DriverSpec => []BudgetInv
BY BudgetInit, BudgetStep, DriverInvariant, PTL DEF DriverSpec

\* SenderWindow keeps its types, under every caller.
THEOREM WindowTypes == DriverSpec => []DriverTypeOK
<1>1. WindowInv /\ BudgetInv => DriverTypeOK
  BY DEF WindowInv, BudgetInv, DriverTypeOK
<1>2. QED
  BY <1>1, DriverInvariant, BudgetInvariant, PTL

\* Every fast retransmission was paid for by FastRetransmitThreshold chunks newly
\* acknowledged above it, however the ACKs were repeated or reordered.
THEOREM FastRetransmitsAreEarned == DriverSpec => []FastRetransmitBudget
<1>1. ASSUME WindowInv, BudgetInv, NEW s \in Chunks
      PROVE  FastRetransmitThreshold * fast_retransmits[s] <= LaterAcked(state, s)
  <2>1. /\ FastRetransmitThreshold \in Nat /\ fast_retransmits[s] \in Nat
        /\ retransmit_evidence[s] \in Nat /\ latest_later_acked[s] \in Nat
        /\ next_sequence \in 0 .. TotalChunks
    BY <1>1, WindowAssumption DEF WindowInv, WindowTypeOK, BudgetInv
  <2>2. LaterAcked(state, s) \in Nat
    BY <2>1, LaterAckedIsNat
  <2>3. /\ retransmit_evidence[s] <= latest_later_acked[s]
        /\ latest_later_acked[s] <= LaterAcked(state, s)
    BY <1>1 DEF WindowInv, EvidenceIsPast
  <2>4. FastRetransmitThreshold * fast_retransmits[s] <= retransmit_evidence[s]
    <3>1. FastRetransmitThreshold * Spent(s) <= retransmit_evidence[s]
      BY <1>1 DEF BudgetInv
    <3>2. CASE Spent(s) = fast_retransmits[s]
      BY <3>1, <3>2
    <3>3. CASE Spent(s) = fast_retransmits[s] + 1
      <4>1. FastRetransmitThreshold * (fast_retransmits[s] + 1) =
              FastRetransmitThreshold * fast_retransmits[s] + FastRetransmitThreshold
        BY <2>1
      <4>2. FastRetransmitThreshold * fast_retransmits[s] \in Nat
        BY <2>1
      <4>3. QED
        BY <2>1, <3>1, <3>3, <4>1, <4>2
    <3>4. QED
      BY <3>2, <3>3 DEF Spent
  <2>5. FastRetransmitThreshold * fast_retransmits[s] \in Nat
    BY <2>1
  <2>6. QED
    BY <2>1, <2>2, <2>3, <2>4, <2>5
<1>2. WindowInv /\ BudgetInv => FastRetransmitBudget
  BY <1>1 DEF FastRetransmitBudget
<1>3. QED
  BY <1>2, DriverInvariant, BudgetInvariant, PTL
-----------------------------------------------------------------------------
(* Retransmissions keep their distance. *)

\* A chunk waiting for retransmission is old enough, and stays so until it is
\* sent: a chunk the caller holds is not in the queue, and a chunk that was
\* fast retransmitted has its flag.
SpacedInv ==
    /\ RetransmissionsSpaced
    /\ \A s \in Chunks : fast_retransmits[s] > 0 => s \in fast_retransmitted
    /\ decision # NoDecision => decision.sequence \notin retransmit_pending
    /\ decision # NoDecision /\ decision.fast_retransmission =>
          decision.sequence \in fast_retransmitted

LEMMA SpacedInit == DriverInit => SpacedInv
BY DEF DriverInit, WindowInit, SpacedInv, RetransmissionsSpaced

\* What process_ack() queues is due, and ACKed chunks leave the queue.
LEMMA SpacedReceiveAck ==
    ASSUME WindowInv, BudgetInv, SpacedInv, ReceiveAck
    PROVE  SpacedInv'
<1>1. decision = NoDecision /\ fast_retransmits' = fast_retransmits
  BY DEF ReceiveAck, Idle
<1>2. PICK ack : ProcessAck(ack)
  BY DEF ReceiveAck
<1> DEFINE acked == NewlyAcked(AckedBy(ack))
           st == MarkAcked(acked)
<1>a. AdvanceAndRetransmit(acked, st)
  BY <1>2 DEF ProcessAck
<1> DEFINE holes == {s \in base' .. next_sequence - 1 : st[s] = "IN_FLIGHT"}
           due == {s \in holes : FastRetransmitDue(st, s) /\ CanQueue(st, s)}
<1>3. /\ age' = [s \in Chunks |-> IF s \in acked THEN 0 ELSE age[s]]
      /\ retransmit_pending' = (retransmit_pending \ acked) \union due
      /\ fast_retransmit_pending' = (fast_retransmit_pending \ acked) \union due
      /\ fast_retransmitted' = fast_retransmitted \union due
      /\ decision' = decision
  BY <1>a DEF AdvanceAndRetransmit
<1>4. retransmit_pending \subseteq Chunks /\ retransmit_pending' \subseteq Chunks
  <2>1. WindowInv'
    BY <1>1, <1>2, ProcessAckKeepsInv
  <2>2. QED
    BY <2>1 DEF WindowInv, WindowTypeOK
<1>5. \A s \in Chunks : s \in due =>
         /\ s \notin acked
         /\ s \in fast_retransmitted => age[s] >= RepeatDelay
  BY DEF FastRetransmitDue, MarkAcked
<1> HIDE DEF acked, st, holes, due
<1>6. ASSUME NEW s \in retransmit_pending'
      PROVE  IF s \in fast_retransmit_pending'
             THEN fast_retransmits'[s] > 0 => age'[s] >= RepeatDelay
             ELSE age'[s] >= Rto
  <2>1. s \in Chunks
    BY <1>4
  <2>2. CASE s \in due
    <3>1. s \in fast_retransmit_pending' /\ age'[s] = age[s]
      BY <1>3, <1>5, <2>1, <2>2
    <3>2. QED
      BY <1>1, <1>5, <2>1, <2>2, <3>1 DEF SpacedInv
  <2>3. CASE s \notin due
    <3>1. s \in retransmit_pending /\ age'[s] = age[s]
          /\ (s \in fast_retransmit_pending' <=> s \in fast_retransmit_pending)
      BY <1>3, <2>1, <2>3
    <3>2. QED
      BY <1>1, <3>1 DEF SpacedInv, RetransmissionsSpaced
  <2>4. QED
    BY <2>2, <2>3
<1>7. RetransmissionsSpaced'
  BY <1>1, <1>3, <1>6 DEF RetransmissionsSpaced
<1>8. QED
  BY <1>1, <1>3, <1>7 DEF SpacedInv

\* What check_timeouts() queues has timed out.
LEMMA SpacedTimeouts ==
    ASSUME WindowInv, SpacedInv, Timeouts
    PROVE  SpacedInv'
<1> DEFINE expired == {s \in base .. next_sequence - 1 : CanQueue(state, s) /\ age[s] >= Rto}
<1>1. /\ retransmit_pending' = retransmit_pending \union expired
      /\ fast_retransmit_pending' = fast_retransmit_pending \ expired
      /\ UNCHANGED <<age, fast_retransmitted, decision, fast_retransmits>>
      /\ decision = NoDecision
  BY DEF Timeouts, CheckTimeouts, Idle
<1>2. \A s \in expired : s \notin retransmit_pending /\ age[s] >= Rto
  BY DEF CanQueue
<1> HIDE DEF expired
<1>3. RetransmissionsSpaced'
  BY <1>1, <1>2 DEF SpacedInv, RetransmissionsSpaced
<1>4. QED
  BY <1>1, <1>3 DEF SpacedInv

\* What select_next_packet() returns was in the queue, or is new.
LEMMA SpacedSelect ==
    ASSUME WindowInv, SpacedInv, Select
    PROVE  SpacedInv'
<1>0. decision = NoDecision /\ fast_retransmits' = fast_retransmits
  BY DEF Select, Idle
<1>1. CASE SelectRetransmission
  <2>1. PICK s :
          /\ s \in retransmit_pending
          /\ retransmit_pending' = retransmit_pending \ {s}
          /\ fast_retransmit_pending' = fast_retransmit_pending \ {s}
          /\ fast_retransmitted' = fast_retransmitted \union {s}
          /\ decision' = [sequence |-> s, retransmission |-> TRUE,
                          fast_retransmission |-> s \in fast_retransmit_pending]
          /\ age' = age
    BY <1>1 DEF SelectRetransmission, IsLive, PendingAfterSelection
  <2>2. RetransmissionsSpaced'
    BY <1>0, <2>1 DEF SpacedInv, RetransmissionsSpaced
  <2>3. QED
    BY <1>0, <2>1, <2>2 DEF SpacedInv
<1>2. CASE SelectNew
  <2>1. /\ UNCHANGED <<age, retransmit_pending, fast_retransmit_pending,
                       fast_retransmitted>>
        /\ decision' = [sequence |-> next_sequence, retransmission |-> FALSE,
                        fast_retransmission |-> FALSE]
        /\ NothingQueued
    BY <1>2 DEF SelectNew
  <2>2. retransmit_pending = {}
    BY <2>1, NothingQueuedMeansNonePending
  <2>3. QED
    BY <1>0, <2>1, <2>2 DEF SpacedInv, RetransmissionsSpaced
<1>3. CASE SelectNothing
  BY <1>0, <1>3 DEF SelectNothing, SpacedInv, RetransmissionsSpaced
<1>4. QED
  BY <1>1, <1>2, <1>3 DEF Select

\* The chunk that is sent starts a new age; it is not in the queue.
LEMMA SpacedSend ==
    ASSUME WindowInv, BudgetInv, SpacedInv, Send
    PROVE  SpacedInv'
<1>1. /\ decision # NoDecision /\ decision' = NoDecision
      /\ age' = [age EXCEPT ![decision.sequence] = 0]
      /\ UNCHANGED <<retransmit_pending, fast_retransmit_pending, fast_retransmitted>>
      /\ fast_retransmits' = IF decision.fast_retransmission
                             THEN [fast_retransmits EXCEPT ![decision.sequence] = @ + 1]
                             ELSE fast_retransmits
  BY DEF Send, MarkSent, Idle
<1>2. \A s \in Chunks : s # decision.sequence =>
         age'[s] = age[s] /\ fast_retransmits'[s] = fast_retransmits[s]
  BY <1>1 DEF WindowInv, WindowTypeOK, BudgetInv
<1>3. retransmit_pending \subseteq Chunks /\ decision.sequence \notin retransmit_pending
  BY <1>1 DEF WindowInv, WindowTypeOK, SpacedInv
<1>4. RetransmissionsSpaced'
  BY <1>1, <1>2, <1>3 DEF SpacedInv, RetransmissionsSpaced
<1>5. \A s \in Chunks : fast_retransmits'[s] > 0 => s \in fast_retransmitted'
  BY <1>1, <1>2 DEF SpacedInv
<1>6. QED
  BY <1>1, <1>4, <1>5 DEF SpacedInv

\* Time only makes chunks older.
LEMMA SpacedTick ==
    ASSUME WindowInv, BudgetInv, SpacedInv, DriverTick
    PROVE  SpacedInv'
<1>1. /\ age' = [s \in Chunks |->
                   IF state[s] = "IN_FLIGHT" THEN Min({age[s] + 1, Rto}) ELSE age[s]]
      /\ UNCHANGED <<retransmit_pending, fast_retransmit_pending,
                     fast_retransmitted, decision, fast_retransmits>>
  BY DEF DriverTick, Elapse
<1>2. ASSUME NEW s \in Chunks
      PROVE  /\ age[s] \in Nat /\ age'[s] \in Nat /\ age[s] <= age'[s]
  <2>1. age[s] \in 0 .. Rto /\ Rto \in Nat
    BY WindowAssumption DEF WindowInv, WindowTypeOK
  <2> DEFINE two == {age[s] + 1, Rto}
  <2>2. two \subseteq Nat /\ two # {} /\ \A y \in two : age[s] <= y
    BY <2>1
  <2>3. Min(two) \in two
    BY <2>2, MinNat
  <2>4. Min(two) \in Nat /\ age[s] <= Min(two)
    BY <2>2, <2>3
  <2>5. age'[s] = Min(two) \/ age'[s] = age[s]
    BY <1>1
  <2>6. QED
    BY <2>1, <2>4, <2>5
<1>3. \A s \in Chunks : /\ age[s] >= Rto => age'[s] >= Rto
                        /\ age[s] >= RepeatDelay => age'[s] >= RepeatDelay
  BY <1>2, WindowAssumption
<1>4. /\ retransmit_pending \subseteq Chunks
      /\ decision # NoDecision => decision.sequence \in Chunks
  BY DEF WindowInv, WindowTypeOK, SendDecision
<1>5. RetransmissionsSpaced'
  BY <1>1, <1>3, <1>4 DEF SpacedInv, RetransmissionsSpaced
<1>6. QED
  BY <1>1, <1>5 DEF SpacedInv

LEMMA SpacedStep == WindowInv /\ BudgetInv /\ SpacedInv /\ [DriverNext]_driverVars => SpacedInv'
<1> SUFFICES ASSUME WindowInv, BudgetInv, SpacedInv, UNCHANGED driverVars
             PROVE  SpacedInv'
  BY SpacedReceiveAck, SpacedTimeouts, SpacedSelect, SpacedSend, SpacedTick DEF DriverNext
<1>1. QED
  BY DEF driverVars, windowVars, SpacedInv, RetransmissionsSpaced

\* No chunk is sent again before its RTO, or half of it after a fast
\* retransmission, however ACKs, timeouts and sends follow one another.
THEOREM RetransmissionsAreSpaced == DriverSpec => []RetransmissionsSpaced
<1>1. SpacedInv => RetransmissionsSpaced
  BY DEF SpacedInv
<1>2. QED
  BY <1>1, SpacedInit, SpacedStep, DriverInvariant, BudgetInvariant, PTL DEF DriverSpec
=============================================================================
