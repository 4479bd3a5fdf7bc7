----------------------------- MODULE AckSnapshot -----------------------------
(***************************************************************************)
(* What the two ends agree on: the chunks of the file, and the payload of  *)
(* an ACK packet (struct AckPayload of protocol.hpp).  SnapshotOf says     *)
(* what an ACK means, from the set of received chunks alone; it is the     *)
(* reference that ReceiverTracker's incremental bookkeeping is checked     *)
(* against, and the source of the ACKs that WindowDriver feeds the sender. *)
(***************************************************************************)
EXTENDS Integers, FiniteSets, FiniteSetsExt

CONSTANTS
    TotalChunks,     \* chunks of the file
    SackCoverage     \* bits of the SACK bitmap (kDefaultAckBitmapBits)

ASSUME SnapshotAssumption ==
    /\ TotalChunks \in Nat
    /\ SackCoverage \in Nat \ {0}

Chunks == 0 .. TotalChunks - 1

\* The bitmap is the set of offsets, from bitmap_base, whose bit is set.
AckPayload ==
    [cumulative_ack : 0 .. TotalChunks,
     largest_received_plus_one : 0 .. TotalChunks,
     bitmap_base : 0 .. TotalChunks,
     bitmap : SUBSET (0 .. SackCoverage - 1)]

\* The number of chunks received without a gap from chunk 0.
FirstMissing(R) == Min({i \in 0 .. TotalChunks : i \notin R})

\* One more than the largest chunk received.
Horizon(R) == Min({i \in 0 .. TotalChunks : \A s \in R : s < i})

\* The ACK that reports the received set R.
SnapshotOf(R) ==
    [cumulative_ack |-> FirstMissing(R),
     largest_received_plus_one |-> Horizon(R),
     bitmap_base |-> FirstMissing(R),
     bitmap |-> {bit \in 0 .. SackCoverage - 1 : FirstMissing(R) + bit \in R}]

\* The chunks an ACK reports as received.
Reported(ack) ==
    {s \in Chunks : s < ack.cumulative_ack \/ s - ack.bitmap_base \in ack.bitmap}
=============================================================================
