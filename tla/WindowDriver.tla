---------------------------- MODULE WindowDriver ----------------------------
(***************************************************************************)
(* SenderWindow on its own, under every caller that keeps the discipline   *)
(* of run_client(): a selected chunk is marked as sent before any ACK or   *)
(* timeout is processed (client.cpp:517-570).  The ACKs are the snapshots  *)
(* of any subset of the chunks sent so far, in any order: what the network *)
(* may deliver late, twice, out of order or never, and more.               *)
(*                                                                         *)
(* fast_retransmits counts the fast retransmissions of each chunk, as the  *)
(* diagnostics of run_client() do for the whole transfer.                  *)
(***************************************************************************)
EXTENDS SenderWindow

VARIABLE fast_retransmits

driverVars == <<windowVars, fast_retransmits>>

DriverInit == WindowInit /\ fast_retransmits = [s \in Chunks |-> 0]

Sent == {s \in Chunks : state[s] # "UNSENT"}

\* The ACK that reports R, for every R (a constant: TLC computes it once).
Snapshots == [R \in SUBSET Chunks |-> SnapshotOf(R)]

Idle == decision = NoDecision

ReceiveAck ==
    /\ Idle
    /\ \E R \in SUBSET Sent : ProcessAck(Snapshots[R])
    /\ UNCHANGED fast_retransmits

Timeouts == Idle /\ CheckTimeouts /\ UNCHANGED fast_retransmits

Select ==
    /\ Idle
    /\ SelectRetransmission \/ SelectNew \/ SelectNothing
    /\ UNCHANGED fast_retransmits

Send ==
    /\ ~Idle
    /\ MarkSent
    /\ fast_retransmits' =
         IF decision.fast_retransmission
         THEN [fast_retransmits EXCEPT ![decision.sequence] = @ + 1]
         ELSE fast_retransmits

DriverTick == Elapse /\ UNCHANGED fast_retransmits

DriverNext == ReceiveAck \/ Timeouts \/ Select \/ Send \/ DriverTick

DriverSpec == DriverInit /\ [][DriverNext]_driverVars

-----------------------------------------------------------------------------

DriverTypeOK == WindowTypeOK /\ fast_retransmits \in [Chunks -> Nat]

\* Every fast retransmission of a chunk was earned by FastRetransmitThreshold
\* later chunks acknowledged since the one before: duplicate, stale or
\* reordered ACKs earn none (process_ack, reliability.cpp:151-160).
FastRetransmitBudget ==
    \A s \in Chunks :
        FastRetransmitThreshold * fast_retransmits[s] <= LaterAcked(state, s)

\* A chunk is not sent again before an RTO has gone by since it was last sent;
\* a fast retransmission may be earlier, but not the second one before half an
\* RTO.  So also a server that is dead gets each chunk at most once per RTO,
\* for as long as the client's unlimited loop runs (reliability.cpp:155-160,
\* 166-175, client.cpp:501).
RetransmissionsSpaced ==
    LET Spaced(s, fast) ==
            IF fast THEN fast_retransmits[s] > 0 => age[s] >= RepeatDelay
                    ELSE age[s] >= Rto
    IN /\ \A s \in retransmit_pending : Spaced(s, s \in fast_retransmit_pending)
       /\ decision # NoDecision /\ decision.retransmission =>
            Spaced(decision.sequence, decision.fast_retransmission)
=============================================================================
