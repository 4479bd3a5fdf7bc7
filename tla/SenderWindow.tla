---------------------------- MODULE SenderWindow ----------------------------
(***************************************************************************)
(* The client's sliding window: class SenderWindow of reliability.cpp.     *)
(*                                                                         *)
(* One variable per field of the class, one action per public operation.   *)
(* `decision' is what select_next_packet() returned and the caller has not *)
(* yet handed to mark_sent(): the class cannot see it, but between the two *)
(* calls a chunk is counted as outstanding and not yet IN_FLIGHT.          *)
(*                                                                         *)
(* Time is discrete.  The code compares now - last_sent_time with two      *)
(* constants only, so the model keeps that difference, the age of a chunk, *)
(* and stops counting at Rto.  The age of a chunk that is not IN_FLIGHT is *)
(* never read; it is kept at zero.                                         *)
(*                                                                         *)
(* The module has no Next of its own: WindowDriver calls the operations in *)
(* every order run_client() allows, and DataTransfer in run_client's order *)
(* against a receiver and a network.                                       *)
(***************************************************************************)
EXTENDS AckSnapshot, Sequences

CONSTANTS
    LogicalWindow,            \* most chunks that may be outstanding
    FastRetransmitThreshold,  \* later chunks ACKed before a fast retransmission
    RepeatDelay,              \* least age of a chunk that is fast retransmitted again
    Rto,                      \* age at which an IN_FLIGHT chunk has timed out
    NoDecision                \* std::nullopt of select_next_packet

PacketState == {"UNSENT", "IN_FLIGHT", "ACKED"}

SendDecision ==
    [sequence : Chunks, retransmission : BOOLEAN, fast_retransmission : BOOLEAN]

\* The constructor throws on an empty window, on an empty SACK coverage and on
\* a window wider than the coverage; kRepeatedFastRetransmitDelay is half the RTO.
ASSUME WindowAssumption ==
    /\ LogicalWindow \in Nat \ {0}
    /\ LogicalWindow <= SackCoverage
    /\ FastRetransmitThreshold \in Nat \ {0}
    /\ RepeatDelay \in Nat
    /\ Rto \in Nat
    /\ RepeatDelay <= Rto
    /\ NoDecision \notin SendDecision

VARIABLES
    state,                    \* chunks_[s].state
    age,                      \* now - chunks_[s].last_sent_time, at most Rto
    retransmit_pending,       \* the chunks with that flag set
    fast_retransmit_pending,  \* the chunks with that flag set
    fast_retransmitted,       \* the chunks with that flag set
    latest_later_acked,       \* chunks_[s].latest_later_acked
    retransmit_evidence,      \* chunks_[s].retransmit_evidence
    retransmission_queue,     \* retransmission_queue_
    base,                     \* base_
    next_sequence,            \* next_sequence_
    outstanding_chunks,       \* outstanding_chunks_
    decision                  \* selected by the caller, not yet sent

windowVars == <<state, age, retransmit_pending, fast_retransmit_pending,
                fast_retransmitted, latest_later_acked, retransmit_evidence,
                retransmission_queue, base, next_sequence, outstanding_chunks,
                decision>>

WindowInit ==
    /\ state = [s \in Chunks |-> "UNSENT"]
    /\ age = [s \in Chunks |-> 0]
    /\ retransmit_pending = {}
    /\ fast_retransmit_pending = {}
    /\ fast_retransmitted = {}
    /\ latest_later_acked = [s \in Chunks |-> 0]
    /\ retransmit_evidence = [s \in Chunks |-> 0]
    /\ retransmission_queue = <<>>
    /\ base = 0
    /\ next_sequence = 0
    /\ outstanding_chunks = 0
    /\ decision = NoDecision

-----------------------------------------------------------------------------
(* Variants: plausible defects of the operators below, to show that the    *)
(* properties are sharp.  A mutation run puts one in the place of the      *)
(* operator it is named after, and a property must then fail; no           *)
(* specification uses them.                                                *)

CanSendNew_NoCoverage == next_sequence < TotalChunks /\ outstanding_chunks < LogicalWindow

CanSendNew_WindowOffByOne ==
    /\ next_sequence < TotalChunks
    /\ outstanding_chunks <= LogicalWindow
    /\ next_sequence < base + SackCoverage

IsLive_StateIgnored(s) == TRUE

NewlyAcked_NotFiltered(acked) == acked

AdvanceBase_OneStep(st) ==
    IF base < TotalChunks /\ st[base] = "ACKED" THEN base + 1 ELSE base

CanQueue_PendingIgnored(st, s) == st[s] = "IN_FLIGHT"

EvidenceAtSelection_Kept(s) == retransmit_evidence

EvidenceAtSelection_Overshoots(s) ==
    [retransmit_evidence EXCEPT ![s] = latest_later_acked[s] + 1]

PendingAfterSelection_Kept(s) == retransmit_pending

-----------------------------------------------------------------------------
(* Helpers. *)

\* The elements of a finite set of integers, in increasing order.
Ascending(S) ==
    [i \in 1 .. Cardinality(S) |->
        CHOOSE x \in S : Cardinality({y \in S : y < x}) = i - 1]

\* The same, in decreasing order.
Descending(S) ==
    [i \in 1 .. Cardinality(S) |->
        CHOOSE x \in S : Cardinality({y \in S : y > x}) = i - 1]

\* can_send_new(): a chunk is left, the window has room, and the ACK's bitmap
\* will still reach the chunk when the chunk at base is the only one missing.
CanSendNew ==
    /\ next_sequence < TotalChunks
    /\ outstanding_chunks < LogicalWindow
    /\ next_sequence < base + SackCoverage

\* An entry of the retransmission queue that select_next_packet() does not skip.
IsLive(s) == state[s] = "IN_FLIGHT" /\ s \in retransmit_pending

\* The chunks process_ack() hands to mark_acked(): a prefix from base, then the
\* bits set in the bitmap, both clipped to what has been selected for sending.
AckedBy(ack) ==
    LET limit == Min({ack.largest_received_plus_one, next_sequence})
    IN {s \in 0 .. next_sequence - 1 :
            \/ base <= s /\ s < ack.cumulative_ack
            \/ s < limit /\ s - ack.bitmap_base \in ack.bitmap}

\* mark_acked() does nothing for a chunk that is ACKED already.
NewlyAcked(acked) == {s \in acked : state[s] # "ACKED"}

\* advance_base(): the first chunk from base on that is not ACKED.
AdvanceBase(st) ==
    Min({i \in base .. TotalChunks : i = TotalChunks \/ st[i] # "ACKED"})

\* The count process_ack() carries down from next_sequence when it reaches s.
LaterAcked(st, s) == Cardinality({t \in s + 1 .. next_sequence - 1 : st[t] = "ACKED"})

\* queue_retransmission() returns at once unless this holds.
CanQueue(st, s) == st[s] = "IN_FLIGHT" /\ s \notin retransmit_pending

\* A variant of the next: repeated at once (see above).
FastRetransmitDue_NoDelay(st, s) ==
    LET later_acked == LaterAcked(st, s)
    IN /\ later_acked > latest_later_acked[s]
       /\ later_acked >= retransmit_evidence[s]
       /\ later_acked - retransmit_evidence[s] >= FastRetransmitThreshold

\* The three conditions under which process_ack() retransmits a chunk early.
FastRetransmitDue(st, s) ==
    LET later_acked == LaterAcked(st, s)
    IN /\ later_acked > latest_later_acked[s]
       /\ later_acked >= retransmit_evidence[s]
       /\ later_acked - retransmit_evidence[s] >= FastRetransmitThreshold
       /\ s \in fast_retransmitted => age[s] >= RepeatDelay

\* Selecting a queued chunk clears its flag and remembers how much SACK
\* evidence it had, so that only later evidence can retransmit it again.
PendingAfterSelection(s) == retransmit_pending \ {s}

EvidenceAtSelection(s) ==
    [retransmit_evidence EXCEPT ![s] = latest_later_acked[s]]

-----------------------------------------------------------------------------
(* The operations. *)

\* mark_acked() of several chunks: their states, and the end of their flags.
MarkAcked(acked) ==
    [s \in Chunks |-> IF s \in acked THEN "ACKED" ELSE state[s]]

\* The rest of process_ack(), from advance_base() on: move base over what is
\* ACKED, then walk down from next_sequence and queue the holes that have enough
\* new ACKs above them.
AdvanceAndRetransmit(acked, st) ==
    LET new_base == AdvanceBase(st)
        holes == {s \in new_base .. next_sequence - 1 : st[s] = "IN_FLIGHT"}
        due == {s \in holes : FastRetransmitDue(st, s) /\ CanQueue(st, s)}
    IN /\ state' = st
       /\ age' = [s \in Chunks |-> IF s \in acked THEN 0 ELSE age[s]]
       /\ outstanding_chunks' = outstanding_chunks - Cardinality(acked)
       /\ base' = new_base
       /\ latest_later_acked' =
            [s \in Chunks |-> IF s \in holes THEN LaterAcked(st, s)
                                             ELSE latest_later_acked[s]]
       /\ retransmit_pending' = (retransmit_pending \ acked) \union due
       /\ fast_retransmit_pending' = (fast_retransmit_pending \ acked) \union due
       /\ fast_retransmitted' = fast_retransmitted \union due
       /\ retransmission_queue' = retransmission_queue \o Descending(due)
       /\ UNCHANGED <<retransmit_evidence, next_sequence, decision>>

\* process_ack().  (The chunks marked and the states after it are bound as
\* values, so that TLC computes them once.)
ProcessAck(ack) ==
    \E acked \in {NewlyAcked(AckedBy(ack))} :
        \E st \in {MarkAcked(acked)} : AdvanceAndRetransmit(acked, st)

\* check_timeouts(): queue, oldest sequence first, every IN_FLIGHT chunk that
\* was last sent an RTO ago or more and is not queued already.
CheckTimeouts ==
    LET expired == {s \in base .. next_sequence - 1 :
                        CanQueue(state, s) /\ age[s] >= Rto}
    IN /\ retransmit_pending' = retransmit_pending \union expired
       /\ fast_retransmit_pending' = fast_retransmit_pending \ expired
       /\ retransmission_queue' = retransmission_queue \o Ascending(expired)
       /\ UNCHANGED <<state, age, fast_retransmitted, latest_later_acked,
                      retransmit_evidence, base, next_sequence,
                      outstanding_chunks, decision>>

\* select_next_packet() when the queue holds an entry that is still live: the
\* entries before it are dropped.
SelectRetransmission ==
    \E i \in 1 .. Len(retransmission_queue) :
        LET s == retransmission_queue[i]
        IN /\ IsLive(s)
           /\ \A j \in 1 .. i - 1 : ~IsLive(retransmission_queue[j])
           /\ retransmission_queue' =
                SubSeq(retransmission_queue, i + 1, Len(retransmission_queue))
           /\ retransmit_pending' = PendingAfterSelection(s)
           /\ fast_retransmit_pending' = fast_retransmit_pending \ {s}
           /\ fast_retransmitted' = fast_retransmitted \union {s}
           /\ retransmit_evidence' = EvidenceAtSelection(s)
           /\ decision' = [sequence |-> s, retransmission |-> TRUE,
                           fast_retransmission |-> s \in fast_retransmit_pending]
           /\ UNCHANGED <<state, age, latest_later_acked, base, next_sequence,
                          outstanding_chunks>>

NothingQueued ==
    \A i \in 1 .. Len(retransmission_queue) : ~IsLive(retransmission_queue[i])

\* select_next_packet() when every queued entry is dead and a new chunk may go.
SelectNew ==
    /\ NothingQueued
    /\ CanSendNew
    /\ retransmission_queue' = <<>>
    /\ next_sequence' = next_sequence + 1
    /\ outstanding_chunks' = outstanding_chunks + 1
    /\ decision' = [sequence |-> next_sequence, retransmission |-> FALSE,
                    fast_retransmission |-> FALSE]
    /\ UNCHANGED <<state, age, retransmit_pending, fast_retransmit_pending,
                   fast_retransmitted, latest_later_acked, retransmit_evidence,
                   base>>

\* select_next_packet() when there is nothing to send: the dead entries go.
SelectNothing ==
    /\ NothingQueued
    /\ ~CanSendNew
    /\ retransmission_queue' = <<>>
    /\ UNCHANGED <<state, age, retransmit_pending, fast_retransmit_pending,
                   fast_retransmitted, latest_later_acked, retransmit_evidence,
                   base, next_sequence, outstanding_chunks, decision>>

\* mark_sent() throws for a chunk that was never selected or is ACKED.
Sendable(s) == s < next_sequence /\ state[s] # "ACKED"

\* mark_sent() of the chunk the caller holds; the caller is done with it.
MarkSent ==
    LET s == decision.sequence
    IN /\ Sendable(s)
       /\ state' = [state EXCEPT ![s] = "IN_FLIGHT"]
       /\ age' = [age EXCEPT ![s] = 0]
       /\ decision' = NoDecision
       /\ UNCHANGED <<retransmit_pending, fast_retransmit_pending,
                      fast_retransmitted, latest_later_acked,
                      retransmit_evidence, retransmission_queue, base,
                      next_sequence, outstanding_chunks>>

\* One tick of the clock.
Elapse ==
    /\ age' = [s \in Chunks |->
                 IF state[s] = "IN_FLIGHT" THEN Min({age[s] + 1, Rto}) ELSE age[s]]
    /\ UNCHANGED <<state, retransmit_pending, fast_retransmit_pending,
                   fast_retransmitted, latest_later_acked, retransmit_evidence,
                   retransmission_queue, base, next_sequence,
                   outstanding_chunks, decision>>

\* all_acked()
AllAcked == base = TotalChunks

-----------------------------------------------------------------------------
(* Invariants of the class, whatever its caller does. *)

WindowTypeOK ==
    /\ state \in [Chunks -> PacketState]
    /\ age \in [Chunks -> 0 .. Rto]
    /\ retransmit_pending \subseteq Chunks
    /\ fast_retransmit_pending \subseteq retransmit_pending
    /\ fast_retransmitted \subseteq Chunks
    /\ latest_later_acked \in [Chunks -> Nat]
    /\ retransmit_evidence \in [Chunks -> Nat]
    /\ retransmission_queue \in Seq(Chunks)
    /\ base \in 0 .. TotalChunks
    /\ next_sequence \in 0 .. TotalChunks
    /\ outstanding_chunks \in Nat
    /\ decision \in SendDecision \union {NoDecision}

Unacked == {s \in 0 .. next_sequence - 1 : state[s] # "ACKED"}

\* The counter that gates new chunks never drifts from the chunks that are
\* really unacknowledged, whatever order, overlap or repetition of ACKs
\* decremented it (mark_acked, reliability.cpp:73-84): a drift up would close
\* the window for good, a drift down would wrap the unsigned counter.
OutstandingExact ==
    /\ outstanding_chunks = Cardinality(Unacked)
    /\ outstanding_chunks <= LogicalWindow

\* base is the first chunk not acknowledged, so that all_acked() answers
\* exactly whether every chunk is (advance_base, reliability.cpp:99-112).
BaseIsFirstHole ==
    /\ \A s \in 0 .. base - 1 : state[s] = "ACKED"
    /\ base < TotalChunks => state[base] # "ACKED"
    /\ base <= next_sequence

\* Every chunk above base that was selected lies within the bits of an ACK
\* whose bitmap starts at base or later (can_send_new, reliability.cpp:37-38).
SpanWithinSack == next_sequence <= base + SackCoverage

Entries(s) == {i \in 1 .. Len(retransmission_queue) : retransmission_queue[i] = s}

\* A chunk flagged as waiting for retransmission is in the queue exactly once
\* and IN_FLIGHT.  Were it flagged and not queued, check_timeouts() would skip
\* it and it would never be sent again (reliability.cpp:170); were it queued
\* twice it would be sent twice for one piece of evidence.
RetransmissionTracked ==
    \A s \in retransmit_pending : state[s] = "IN_FLIGHT" /\ Cardinality(Entries(s)) = 1

\* A queue entry whose flag is clear is dead because the chunk was ACKED: the
\* skip in select_next_packet() drops nothing that is still needed.
DeadEntriesAreAcked ==
    \A i \in 1 .. Len(retransmission_queue) :
        IsLive(retransmission_queue[i]) \/ state[retransmission_queue[i]] = "ACKED"

\* The chunk the caller holds can still be marked as sent: mark_sent() never
\* throws, and an ACKed chunk is never sent again.
SelectionIsSendable == decision # NoDecision => Sendable(decision.sequence)

\* Evidence remembered at a selection is evidence that was seen, and what was
\* seen is still there: later_acked - retransmit_evidence never underflows.
EvidenceIsPast ==
    \A s \in Chunks :
        /\ retransmit_evidence[s] <= latest_later_acked[s]
        /\ latest_later_acked[s] <= LaterAcked(state, s)
=============================================================================
