--------------------------- MODULE ReceiverTracker ---------------------------
(***************************************************************************)
(* The server's record of what has arrived: class ReceiverTracker of       *)
(* reliability.cpp.  One variable per field; the vector of flags is the    *)
(* set of chunks whose flag is set.                                        *)
(***************************************************************************)
EXTENDS AckSnapshot

VARIABLES
    received,                  \* received_, the chunks whose flag is set
    received_count,            \* received_count_
    cumulative_ack,            \* cumulative_ack_
    largest_received_plus_one  \* largest_received_plus_one_

trackerVars == <<received, received_count, cumulative_ack, largest_received_plus_one>>

TrackerInit ==
    /\ received = {}
    /\ received_count = 0
    /\ cumulative_ack = 0
    /\ largest_received_plus_one = 0

-----------------------------------------------------------------------------
(* Variants: plausible defects of the operators below. *)

AdvanceCumulative_OneStep(R) ==
    IF cumulative_ack < TotalChunks /\ cumulative_ack \in R
    THEN cumulative_ack + 1
    ELSE cumulative_ack

LargestWith_LastArrival(s) == s + 1

HasReceived_Never(s) == FALSE

-----------------------------------------------------------------------------

\* has_received()
HasReceived(s) == s \in received

\* mark_received() moves the cumulative ACK over every chunk already there.
AdvanceCumulative(R) ==
    Min({i \in cumulative_ack .. TotalChunks : i = TotalChunks \/ i \notin R})

LargestWith(s) == IF largest_received_plus_one < s + 1 THEN s + 1
                                                       ELSE largest_received_plus_one

\* mark_received() of a chunk of the transfer; it changes nothing for a chunk
\* received before.
MarkReceived(s) ==
    IF HasReceived(s)
    THEN UNCHANGED trackerVars
    ELSE /\ received' = received \union {s}
         /\ received_count' = received_count + 1
         /\ largest_received_plus_one' = LargestWith(s)
         /\ cumulative_ack' = AdvanceCumulative(received \union {s})

\* complete()
Complete == received_count = TotalChunks

\* make_ack_snapshot() looks at the bits below the largest chunk received.
BitsToScan ==
    {bit \in 0 .. SackCoverage - 1 : bit < largest_received_plus_one - cumulative_ack}

\* make_ack_snapshot()
MakeAckSnapshot ==
    [cumulative_ack |-> cumulative_ack,
     largest_received_plus_one |-> largest_received_plus_one,
     bitmap_base |-> cumulative_ack,
     bitmap |-> {bit \in BitsToScan : cumulative_ack + bit \in received}]

-----------------------------------------------------------------------------
(* The tracker on its own: chunks are marked in any order and any number   *)
(* of times, as the server does with the DATA packets it accepts.          *)

TrackerNext == \E s \in Chunks : MarkReceived(s)

TrackerSpec == TrackerInit /\ [][TrackerNext]_trackerVars

-----------------------------------------------------------------------------
(* Properties. *)

TrackerTypeOK ==
    /\ received \subseteq Chunks
    /\ received_count \in 0 .. TotalChunks
    /\ cumulative_ack \in 0 .. TotalChunks
    /\ largest_received_plus_one \in 0 .. TotalChunks

\* complete(), which decides whether COMPLETE is answered, compares a counter
\* with the number of chunks: the counter is the number of distinct chunks
\* received, in whatever order and however often they arrived.
CountExact == received_count = Cardinality(received)

\* The three numbers kept incrementally are what the received set determines,
\* so the ACK sent at any moment reports the chunks received and no other, in
\* every order of arrival and with any number of duplicates.
SnapshotExact == MakeAckSnapshot = SnapshotOf(received)

\* A later ACK takes nothing back: what one snapshot reported within the reach
\* of its bitmap, every later one reports too or has beyond its own reach.
\* The cumulative ACK and the horizon never move back.
SnapshotMonotonic ==
    [][/\ cumulative_ack <= cumulative_ack'
       /\ largest_received_plus_one <= largest_received_plus_one'
       /\ Reported(MakeAckSnapshot) \subseteq Reported(MakeAckSnapshot')]_trackerVars
=============================================================================
