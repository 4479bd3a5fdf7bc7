---------------------------- MODULE DataTransfer ----------------------------
(***************************************************************************)
(* The data phase of one accepted session: the loop of run_client()        *)
(* (client.cpp:501-586) around SenderWindow, the DATA branch of            *)
(* run_server() (server.cpp:308-394) around ReceiverTracker, and the UDP   *)
(* network between them.                                                   *)
(*                                                                         *)
(* Each process is one thread that shares nothing with the other, so an    *)
(* action runs from one receive or send to the next.  `pc' is where the    *)
(* client's thread stands:                                                 *)
(*   "drain"   in the first drain_acks(), before check_timeouts()          *)
(*   "select"  before select_next_packet()                                 *)
(*   "send"    holding a selected chunk, in pacer.wait_for_slot()          *)
(*   "drain2"  in the drain_acks() that follows the send                   *)
(*   "wait"    in wait_for_ack(), with nothing to send                     *)
(*   "done"    out of the loop: all_acked()                                *)
(*                                                                         *)
(* A channel is the set of datagrams that may still arrive.  A datagram is *)
(* received any number of times in any order, and lost at any time.  Both  *)
(* channels may start with datagrams of an earlier session between the     *)
(* same two ports.                                                         *)
(***************************************************************************)
EXTENDS SenderWindow, ReceiverTracker

CONSTANTS
    File,                \* the contents of each chunk of the input file
    Blank,               \* the contents of a chunk of the new output file
    Session,             \* the session_id of this transfer
    StrayData,           \* DATA packets of other sessions still in the network
    StrayAcks,           \* ACK packets of other sessions still in the network
    AckPacketThreshold,  \* kAckPacketThreshold: packets that force an ACK
    AckInterval          \* the accepted ACK interval, in ticks

\* The server takes an interval of at least 1 ms (server.cpp:292).
ASSUME TransferAssumption ==
    /\ AckPacketThreshold \in Nat \ {0}
    /\ AckInterval \in Nat \ {0}
    /\ File = [s \in Chunks |-> File[s]]
    /\ \A s \in Chunks : File[s] # Blank
    /\ \A m \in StrayData : m.session # Session
    /\ \A m \in StrayAcks : m.session # Session

VARIABLES
    pc,                 \* where the client's thread stands
    to_server,          \* DATA packets that may still reach the server
    to_client,          \* ACK packets that may still reach the client
    output,             \* the mapped output file, by chunk
    ack_pending,        \* ack_pending
    packets_since_ack,  \* packets_since_ack
    ack_age             \* time since ack_pending was set, at most AckInterval

serverVars == <<trackerVars, output, ack_pending, packets_since_ack, ack_age>>
vars == <<windowVars, pc, to_server, to_client, serverVars>>

\* A plausible defect of LoopTop: the loop ends one chunk early.
LoopTop_OneEarly(b) == IF b + 1 >= TotalChunks THEN "done" ELSE "drain"

\* Where the loop's test takes the client, given base.
LoopTop(b) == IF b = TotalChunks THEN "done" ELSE "drain"

Init ==
    /\ WindowInit
    /\ TrackerInit
    /\ pc = LoopTop(0)
    /\ to_server = StrayData
    /\ to_client = StrayAcks
    /\ output = [s \in Chunks |-> Blank]
    /\ ack_pending = FALSE
    /\ packets_since_ack = 0
    /\ ack_age = 0

-----------------------------------------------------------------------------
(* Variants: plausible defects of the operators below. *)

ForThisSession_Unchecked(m) == TRUE

AckPacket_Overclaims ==
    [session |-> Session,
     ack |-> [MakeAckSnapshot' EXCEPT !.cumulative_ack = largest_received_plus_one']]

SinceAfterAck_Kept(sent, since) == since

-----------------------------------------------------------------------------
(* Packets. *)

\* The DATA packet of chunk s: its payload is read from the mapped input at
\* s * chunk_size when it is sent (client.cpp:552-569).
DataPacket(s, again) ==
    [session |-> Session, number |-> s, retransmitted |-> again,
     payload |-> File[s]]

\* The ACK the server builds from the tracker it has just updated.
AckPacket == [session |-> Session, ack |-> MakeAckSnapshot']

\* Both ends drop what comes from another endpoint or session.
ForThisSession(m) == m.session = Session

\* A datagram received from a channel may arrive again later.
Receive(channel, m, channel_after) ==
    \/ channel_after = channel
    \/ channel_after = channel \ {m}

-----------------------------------------------------------------------------
(* The client. *)

\* One datagram of drain_acks(), which applies the ACKs of its session and
\* drops the rest.
DrainAck ==
    /\ pc \in {"drain", "drain2"}
    /\ \E m \in to_client :
        /\ Receive(to_client, m, to_client')
        /\ IF ForThisSession(m) THEN ProcessAck(m.ack) ELSE UNCHANGED windowVars
    /\ UNCHANGED <<pc, to_server, serverVars>>

\* The socket is empty: check_timeouts() follows.
DrainedBeforeSelect ==
    /\ pc = "drain"
    /\ CheckTimeouts
    /\ pc' = "select"
    /\ UNCHANGED <<to_server, to_client, serverVars>>

SelectPacket ==
    /\ pc = "select"
    /\ SelectRetransmission \/ SelectNew
    /\ pc' = "send"
    /\ UNCHANGED <<to_server, to_client, serverVars>>

SelectNone ==
    /\ pc = "select"
    /\ SelectNothing
    /\ pc' = "wait"
    /\ UNCHANGED <<to_server, to_client, serverVars>>

\* The pacer lets the chunk go: it is sent and marked as sent.
SendData ==
    /\ pc = "send"
    /\ to_server' = to_server \union
                      {DataPacket(decision.sequence, decision.retransmission)}
    /\ MarkSent
    /\ pc' = "drain2"
    /\ UNCHANGED <<to_client, serverVars>>

\* The socket is empty again: the loop tests all_acked().
DrainedAfterSend ==
    /\ pc = "drain2"
    /\ pc' = LoopTop(base)
    /\ UNCHANGED <<windowVars, to_server, to_client, serverVars>>

\* wait_for_ack() returns after the first ACK of the session.
WaitForAck ==
    /\ pc = "wait"
    /\ \E m \in to_client :
        /\ Receive(to_client, m, to_client')
        /\ IF ForThisSession(m)
           THEN ProcessAck(m.ack) /\ pc' = LoopTop(base')
           ELSE UNCHANGED <<windowVars, pc>>
    /\ UNCHANGED <<to_server, serverVars>>

\* ... or after 10 ms without one.
WaitTimeout ==
    /\ pc = "wait"
    /\ pc' = LoopTop(base)
    /\ UNCHANGED <<windowVars, to_server, to_client, serverVars>>

-----------------------------------------------------------------------------
(* The server. *)

\* Whether a DATA packet is answered at once.  There is no timer: an interval
\* that has run out is noticed when the next DATA packet arrives.
ShouldSendAck(m, since) ==
    \/ HasReceived(m.number)
    \/ m.retransmitted
    \/ Complete'
    \/ since >= AckPacketThreshold
    \/ ack_pending /\ ack_age >= AckInterval

SinceAfterAck(sent, since) == IF sent THEN 0 ELSE since

\* The DATA branch: write a new chunk and record it, then ACK or postpone.
HandleData(m) ==
    LET s == m.number
        since == packets_since_ack + 1
        sent == ShouldSendAck(m, since)
    IN /\ MarkReceived(s)
       /\ output' = IF HasReceived(s) THEN output
                                      ELSE [output EXCEPT ![s] = m.payload]
       /\ ack_pending' = ~sent
       /\ packets_since_ack' = SinceAfterAck(sent, since)
       /\ ack_age' = IF ack_pending /\ ~sent THEN ack_age ELSE 0
       /\ to_client' = IF sent THEN to_client \union {AckPacket} ELSE to_client

\* receive_packet() and the filters of the main loop.
ReceiveData(m, channel_after) ==
    /\ Receive(to_server, m, channel_after)
    /\ to_server' = channel_after
    /\ IF ForThisSession(m) THEN HandleData(m) ELSE UNCHANGED <<serverVars, to_client>>
    /\ UNCHANGED <<windowVars, pc>>

ServerReceives ==
    \E m \in to_server : \E after \in {to_server, to_server \ {m}} : ReceiveData(m, after)

-----------------------------------------------------------------------------
(* The network and the clock. *)

LoseData ==
    /\ \E m \in to_server : to_server' = to_server \ {m}
    /\ UNCHANGED <<windowVars, pc, to_client, serverVars>>

LoseAck ==
    /\ \E m \in to_client : to_client' = to_client \ {m}
    /\ UNCHANGED <<windowVars, pc, to_server, serverVars>>

Tick ==
    /\ Elapse
    /\ ack_age' = IF ack_pending THEN Min({ack_age + 1, AckInterval}) ELSE 0
    /\ UNCHANGED <<pc, to_server, to_client, trackerVars, output, ack_pending,
                   packets_since_ack>>

\* The client goes on to the COMPLETE handshake, which Session models.
Finished == pc = "done" /\ UNCHANGED vars

ClientStep ==
    \/ DrainAck
    \/ DrainedBeforeSelect
    \/ SelectPacket
    \/ SelectNone
    \/ SendData
    \/ DrainedAfterSend
    \/ WaitForAck
    \/ WaitTimeout

Next == ClientStep \/ ServerReceives \/ LoseData \/ LoseAck \/ Tick \/ Finished

Spec == Init /\ [][Next]_vars

-----------------------------------------------------------------------------
(* Fairness.  Each process keeps running, and time passes.  The network    *)
(* may lose any datagram, but not every copy of a chunk that is sent over  *)
(* and over, nor every ACK.  An ACK may be lost while the client is not    *)
(* reading, so strong fairness of its receipt would not exclude the loss   *)
(* of them all: the assumption is on what the channel holds.               *)

\* The last copy of an ACK of this session reaches the client.
AckArrives ==
    /\ \E m \in to_client : ForThisSession(m) /\ to_client' = to_client \ {m}
    /\ DrainAck \/ WaitForAck

AckInNetwork == \E m \in to_client : ForThisSession(m)

\* The last copy of a DATA packet of chunk s reaches the server.
ChunkArrives(s) ==
    \E m \in to_server :
        /\ ForThisSession(m) /\ m.number = s
        /\ ReceiveData(m, to_server \ {m})

Fairness ==
    /\ WF_vars(DrainedBeforeSelect)
    /\ WF_vars(SelectPacket \/ SelectNone)
    /\ WF_vars(SendData)
    /\ WF_vars(DrainedAfterSend)
    /\ WF_vars(WaitTimeout)
    /\ WF_vars(Tick)
    /\ []<>AckInNetwork => []<><<AckArrives>>_vars
    /\ \A s \in Chunks : SF_vars(ChunkArrives(s))

FairSpec == Spec /\ Fairness

-----------------------------------------------------------------------------
(* Properties. *)

TypeOK ==
    /\ WindowTypeOK
    /\ TrackerTypeOK
    /\ pc \in {"drain", "select", "send", "drain2", "wait", "done"}
    /\ \A m \in to_server :
          ForThisSession(m) => m.number \in Chunks /\ m.retransmitted \in BOOLEAN
    /\ \A m \in to_client : ForThisSession(m) => m.ack \in AckPayload
    /\ DOMAIN output = Chunks
    /\ ack_pending \in BOOLEAN
    /\ packets_since_ack \in 0 .. AckPacketThreshold - 1
    /\ ack_age \in 0 .. AckInterval

\* The sender's limit and the receiver's bitmap fit together: whatever the
\* server has received beyond its cumulative ACK, the ACK it would send now
\* reports.  can_send_new() keeps next_sequence within SackCoverage of base,
\* and base never passes the server's cumulative ACK (reliability.cpp:34-39,
\* 255-277).
SnapshotLossless == Reported(MakeAckSnapshot) = received

\* The sender counts no chunk as ACKED that the server has not written, under
\* any loss, duplication or reordering and with ACKs of other sessions about.
AckedWasReceived == \A s \in Chunks : state[s] = "ACKED" => s \in received

\* A client that leaves the loop leaves behind a complete, correct file and a
\* server that will answer COMPLETE with success (client.cpp:501,
\* server.cpp:400).
DoneMeansDelivered == pc = "done" => Complete /\ output = File

\* A client that waits with chunks left has a timer running: some chunk is
\* IN_FLIGHT and not queued, so check_timeouts() will find it if no ACK comes.  Nothing
\* else would wake the pair up, for the server has no timer that sends a
\* postponed ACK (client.cpp:517-549, reliability.cpp:166-175,
\* server.cpp:374-391).
WaitingIsTimed ==
    pc = "wait" => AllAcked \/ \E s \in base .. next_sequence - 1 : CanQueue(state, s)

\* The data phase implements reliable delivery.
Delivery == INSTANCE ReliableDelivery WITH
    copy <- output,
    confirmed <- {s \in Chunks : state[s] = "ACKED"}

ImplementsDelivery == Delivery!Spec

\* Under FairSpec it also keeps the promise that everything is delivered and
\* confirmed, and the client leaves its loop.
KeepsDelivering == Delivery!FairSpec

EventuallyDone == <>(pc = "done")
=============================================================================
