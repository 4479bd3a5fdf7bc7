----------------------------- MODULE MCTransfer -----------------------------
(* Small instances of DataTransfer.  A chunk's contents is its own number, *)
(* so that two chunks never look alike.                                    *)
EXTENDS DataTransfer

MCFile == [s \in Chunks |-> s]

\* One packet of an earlier session in each channel, that would do harm if it
\* were taken for one of this session: bytes no chunk has, and an ACK of all.
MCStrayData ==
    {[session |-> "old", number |-> 0, retransmitted |-> FALSE, payload |-> TotalChunks]}

MCStrayAcks == {[session |-> "old", ack |-> SnapshotOf(Chunks)]}

NoPackets == {}
=============================================================================
