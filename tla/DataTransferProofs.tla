------------------------- MODULE DataTransferProofs -------------------------
(***************************************************************************)
(* Theorems about the data phase, for any file, window, bitmap, thresholds *)
(* and intervals, any stray packets of other sessions, and any loss,       *)
(* duplication and reordering of datagrams.                                *)
(***************************************************************************)
EXTENDS DataTransfer, ReliabilityProofs

-----------------------------------------------------------------------------
(* The inductive invariant: WindowInv and TrackerInv of the two classes,   *)
(* and what ties them to each other.                                       *)

\* Where the client's thread stands agrees with its window.  A client that
\* waits has found nothing queued and no room for a new chunk.
ClientInv ==
    /\ pc \in {"drain", "select", "send", "drain2", "wait", "done"}
    /\ decision # NoDecision <=> pc = "send"
    /\ pc = "done" => base = TotalChunks
    /\ pc = "wait" => retransmit_pending = {} /\ ~CanSendNew

\* A DATA packet of this session carries the bytes of a chunk that was sent.
DataInv ==
    \A m \in to_server :
        ForThisSession(m) =>
            /\ m.number \in Chunks /\ state[m.number] # "UNSENT"
            /\ m.retransmitted \in BOOLEAN
            /\ m.payload = File[m.number]

\* An ACK of this session reports received chunks only.
AckInv ==
    \A m \in to_client :
        ForThisSession(m) => m.ack \in AckPayload /\ Reported(m.ack) \subseteq received

\* The server lags behind what was sent and is ahead of what is ACKed.
BetweenInv ==
    /\ \A s \in received : state[s] # "UNSENT"
    /\ \A s \in Chunks : state[s] = "ACKED" => s \in received

ServerInv ==
    /\ output = [s \in Chunks |-> IF s \in received THEN File[s] ELSE Blank]
    /\ ack_pending \in BOOLEAN
    /\ packets_since_ack \in 0 .. AckPacketThreshold - 1
    /\ ack_age \in 0 .. AckInterval

TransferInv ==
    /\ WindowInv
    /\ TrackerInv
    /\ ClientInv
    /\ DataInv
    /\ AckInv
    /\ BetweenInv
    /\ ServerInv

LEMMA TransferInvInit == Init => TransferInv
<1> SUFFICES ASSUME Init PROVE TransferInv
  OBVIOUS
<1>1. WindowInv /\ TrackerInv
  BY WindowInvInit, TrackerInvInit DEF Init
<1>2. ClientInv
  BY DEF Init, WindowInit, ClientInv, LoopTop
<1>3. DataInv /\ AckInv
  BY TransferAssumption DEF Init, DataInv, AckInv, ForThisSession
<1>4. BetweenInv
  BY DEF Init, WindowInit, TrackerInit, BetweenInv
<1>5. ServerInv
  <2>1. /\ output = [s \in Chunks |-> Blank] /\ received = {}
        /\ ack_pending = FALSE /\ packets_since_ack = 0 /\ ack_age = 0
    BY DEF Init, TrackerInit
  <2>2. AckPacketThreshold \in Nat \ {0} /\ AckInterval \in Nat \ {0}
    BY TransferAssumption
  <2>3. packets_since_ack \in 0 .. AckPacketThreshold - 1 /\ ack_age \in 0 .. AckInterval
    BY <2>1, <2>2
  <2>4. QED
    BY <2>1, <2>3 DEF ServerInv
<1>6. QED
  BY <1>1, <1>2, <1>3, <1>4, <1>5 DEF TransferInv

-----------------------------------------------------------------------------
(* What a step that leaves one side alone keeps. *)

LEMMA KeepServer ==
    TrackerInv /\ ServerInv /\ UNCHANGED serverVars => TrackerInv' /\ ServerInv'
BY DEF TrackerInv, ServerInv, serverVars, trackerVars

\* No packet is added, and what was sent stays sent.
LEMMA KeepData ==
    ASSUME DataInv, to_server' \subseteq to_server,
           \A s \in Chunks : state[s] # "UNSENT" => state'[s] # "UNSENT"
    PROVE  DataInv'
BY DEF DataInv, ForThisSession

\* No ACK is added, and what was received stays received.
LEMMA KeepAcks ==
    ASSUME AckInv, to_client' \subseteq to_client, received \subseteq received'
    PROVE  AckInv'
BY DEF AckInv, ForThisSession

LEMMA KeepWindow ==
    ASSUME WindowInv, ClientInv, UNCHANGED windowVars, UNCHANGED pc
    PROVE  WindowInv' /\ ClientInv'
<1>1. WindowInv'
  BY UnchangedKeepsInv
<1>2. ClientInv'
  BY DEF ClientInv, windowVars, CanSendNew
<1>3. QED
  BY <1>1, <1>2

-----------------------------------------------------------------------------
(* The client. *)

\* What process_ack() marks as ACKED was received, because the ACK reports it.
LEMMA AckApplied ==
    ASSUME TransferInv, decision = NoDecision, NEW m \in to_client, ForThisSession(m),
           ProcessAck(m.ack)
    PROVE  /\ WindowInv'
           /\ decision' = NoDecision
           /\ \A s \in Chunks : state[s] = "ACKED" => state'[s] = "ACKED"
           /\ \A s \in Chunks : state[s] # "UNSENT" => state'[s] # "UNSENT"
           /\ \A s \in Chunks : state'[s] = "ACKED" => s \in received
<1> DEFINE acked == NewlyAcked(AckedBy(m.ack))
<1>1. /\ state' = [s \in Chunks |-> IF s \in acked THEN "ACKED" ELSE state[s]]
      /\ decision' = decision
  BY DEF ProcessAck, AdvanceAndRetransmit, MarkAcked
<1>2. WindowInv' /\ \A s \in Chunks : state[s] = "ACKED" => state'[s] = "ACKED"
  BY ProcessAckKeepsInv DEF TransferInv
<1>3. acked \subseteq Reported(m.ack)
  <2>1. next_sequence \in 0 .. TotalChunks
    BY DEF TransferInv, WindowInv, WindowTypeOK
  <2>2. 0 .. next_sequence - 1 \subseteq Chunks
    BY <2>1, SnapshotAssumption DEF Chunks
  <2>3. QED
    BY <2>2 DEF NewlyAcked, AckedBy, Reported
<1>4. Reported(m.ack) \subseteq received
  BY DEF TransferInv, AckInv
<1> HIDE DEF acked
<1>5. QED
  BY <1>1, <1>2, <1>3, <1>4 DEF TransferInv, BetweenInv

\* Every step of the client leaves the server alone and acknowledges nothing
\* that was not received; all but SendData add nothing to a channel.
LEMMA ClientKeepsInv == TransferInv /\ ClientStep => TransferInv'
<1> SUFFICES ASSUME TransferInv, ClientStep PROVE TransferInv'
  OBVIOUS
<1>1. TrackerInv' /\ ServerInv' /\ UNCHANGED <<received, output>>
  <2>1. UNCHANGED serverVars
    BY DEF ClientStep, DrainAck, DrainedBeforeSelect, SelectPacket, SelectNone, SendData,
           DrainedAfterSend, WaitForAck, WaitTimeout
  <2>2. QED
    BY <2>1, KeepServer DEF TransferInv, serverVars, trackerVars
<1>2. ASSUME WindowInv', ClientInv', DataInv', to_client' \subseteq to_client,
             \A s \in Chunks : state[s] # "UNSENT" => state'[s] # "UNSENT",
             \A s \in Chunks : state'[s] = "ACKED" => s \in received
      PROVE  TransferInv'
  <2>1. AckInv'
    BY <1>1, <1>2, KeepAcks DEF TransferInv
  <2>2. BetweenInv'
    BY <1>1, <1>2 DEF TransferInv, BetweenInv, TrackerInv
  <2>3. QED
    BY <1>1, <1>2, <2>1, <2>2 DEF TransferInv
<1>3. ASSUME WindowInv', ClientInv', UNCHANGED to_server, to_client' \subseteq to_client,
             state' = state
      PROVE  TransferInv'
  <2>1. /\ \A s \in Chunks : state[s] # "UNSENT" => state'[s] # "UNSENT"
        /\ \A s \in Chunks : state'[s] = "ACKED" => s \in received
    BY <1>3 DEF TransferInv, BetweenInv
  <2>2. DataInv'
    BY <1>3, <2>1, KeepData DEF TransferInv
  <2>3. QED
    BY <1>2, <1>3, <2>1, <2>2
<1>4. ASSUME NEW m \in to_client, ForThisSession(m), ProcessAck(m.ack),
             Receive(to_client, m, to_client'), UNCHANGED to_server,
             decision = NoDecision, ClientInv'
      PROVE  TransferInv'
  <2>1. /\ WindowInv'
        /\ \A s \in Chunks : state[s] # "UNSENT" => state'[s] # "UNSENT"
        /\ \A s \in Chunks : state'[s] = "ACKED" => s \in received
    BY <1>4, AckApplied
  <2>2. to_client' \subseteq to_client
    BY <1>4 DEF Receive
  <2>3. DataInv'
    BY <1>4, <2>1, KeepData DEF TransferInv
  <2>4. QED
    BY <1>2, <1>4, <2>1, <2>2, <2>3
<1>5. CASE DrainAck
  <2>1. PICK m \in to_client :
          /\ Receive(to_client, m, to_client')
          /\ IF ForThisSession(m) THEN ProcessAck(m.ack) ELSE UNCHANGED windowVars
    BY <1>5 DEF DrainAck
  <2>2. pc \in {"drain", "drain2"} /\ UNCHANGED <<pc, to_server>>
    BY <1>5 DEF DrainAck
  <2>3. decision = NoDecision
    BY <2>2 DEF TransferInv, ClientInv
  <2>4. CASE ForThisSession(m)
    <3>1. decision' = NoDecision
      BY <2>1, <2>3, <2>4, AckApplied
    <3>2. ClientInv'
      BY <2>2, <3>1 DEF ClientInv
    <3>3. QED
      BY <1>4, <2>1, <2>2, <2>3, <2>4, <3>2
  <2>5. CASE ~ForThisSession(m)
    <3>1. UNCHANGED windowVars
      BY <2>1, <2>5
    <3>2. WindowInv' /\ ClientInv' /\ state' = state
      BY <2>2, <3>1, KeepWindow DEF TransferInv, windowVars
    <3>3. QED
      BY <1>3, <2>1, <2>2, <3>2 DEF Receive
  <2>6. QED
    BY <2>4, <2>5
<1>6. CASE DrainedBeforeSelect
  <2>1. /\ pc = "drain" /\ pc' = "select" /\ CheckTimeouts
        /\ UNCHANGED <<to_server, to_client>>
    BY <1>6 DEF DrainedBeforeSelect
  <2>2. WindowInv'
    BY <2>1, CheckTimeoutsKeepsInv DEF TransferInv
  <2>3. UNCHANGED <<state, decision>>
    BY <2>1 DEF CheckTimeouts
  <2>4. ClientInv'
    BY <2>1, <2>3 DEF TransferInv, ClientInv
  <2>5. QED
    BY <1>3, <2>1, <2>2, <2>3, <2>4
<1>7. CASE SelectPacket
  <2>1. /\ pc = "select" /\ pc' = "send" /\ (SelectRetransmission \/ SelectNew)
        /\ UNCHANGED <<to_server, to_client>>
    BY <1>7 DEF SelectPacket
  <2>2. decision = NoDecision
    BY <2>1 DEF TransferInv, ClientInv
  <2>3. WindowInv'
    BY <2>1, <2>2, SelectRetransmissionKeepsInv, SelectNewKeepsInv DEF TransferInv
  <2>4. state' = state
    BY <2>1 DEF SelectRetransmission, SelectNew
  <2>5. decision' # NoDecision
    <3>1. decision' \in SendDecision
      <4>1. CASE SelectRetransmission
        <5>1. PICK i \in 1 .. Len(retransmission_queue) :
                decision' = [sequence |-> retransmission_queue[i], retransmission |-> TRUE,
                             fast_retransmission |->
                                retransmission_queue[i] \in fast_retransmit_pending]
          BY <4>1 DEF SelectRetransmission
        <5>2. retransmission_queue[i] \in Chunks
          BY ElementOfSeq DEF TransferInv, WindowInv, WindowTypeOK
        <5>3. QED
          BY <5>1, <5>2 DEF SendDecision
      <4>2. CASE SelectNew
        <5>1. next_sequence \in Chunks
          BY <4>2, SnapshotAssumption
             DEF SelectNew, CanSendNew, TransferInv, WindowInv, WindowTypeOK, Chunks
        <5>2. QED
          BY <4>2, <5>1 DEF SelectNew, SendDecision
      <4>3. QED
        BY <2>1, <4>1, <4>2
    <3>2. QED
      BY <3>1, WindowAssumption
  <2>6. ClientInv'
    BY <2>1, <2>5 DEF ClientInv
  <2>7. QED
    BY <1>3, <2>1, <2>3, <2>4, <2>6
<1>8. CASE SelectNone
  <2>1. /\ pc = "select" /\ pc' = "wait" /\ SelectNothing
        /\ UNCHANGED <<to_server, to_client>>
    BY <1>8 DEF SelectNone
  <2>2. WindowInv'
    BY <2>1, SelectNothingKeepsInv DEF TransferInv
  <2>3. /\ NothingQueued /\ ~CanSendNew
        /\ UNCHANGED <<state, retransmit_pending, base, next_sequence, outstanding_chunks,
                       decision>>
    BY <2>1 DEF SelectNothing
  <2>4. retransmit_pending = {}
    BY <2>3, NothingQueuedMeansNonePending DEF TransferInv
  <2>5. ClientInv'
    BY <2>1, <2>3, <2>4 DEF TransferInv, ClientInv, CanSendNew
  <2>6. QED
    BY <1>3, <2>1, <2>2, <2>3, <2>5
<1>9. CASE SendData
  <2> DEFINE s == decision.sequence
  <2>1. /\ pc = "send" /\ pc' = "drain2" /\ MarkSent
        /\ to_server' = to_server \union {DataPacket(s, decision.retransmission)}
        /\ UNCHANGED to_client
    BY <1>9 DEF SendData
  <2>2. decision # NoDecision
    BY <2>1 DEF TransferInv, ClientInv
  <2>3. s \in Chunks /\ decision.retransmission \in BOOLEAN
    BY <2>2 DEF TransferInv, WindowInv, WindowTypeOK, SendDecision
  <2>4. WindowInv'
    BY <2>1, <2>2, MarkSentKeepsInv DEF TransferInv
  <2>5. state' = [state EXCEPT ![s] = "IN_FLIGHT"] /\ decision' = NoDecision
    BY <2>1 DEF MarkSent
  <2>6. ClientInv'
    BY <2>1, <2>5 DEF ClientInv
  <2>7. state \in [Chunks -> PacketState]
    BY DEF TransferInv, WindowInv, WindowTypeOK
  <2>8. \A t \in Chunks : state'[t] = IF t = s THEN "IN_FLIGHT" ELSE state[t]
    BY <2>5, <2>7
  <2>9. DataInv'
    <3>1. ASSUME NEW m \in to_server', ForThisSession(m)
          PROVE  /\ m.number \in Chunks /\ state'[m.number] # "UNSENT"
                 /\ m.retransmitted \in BOOLEAN
                 /\ m.payload = File[m.number]
      <4>1. CASE m \in to_server
        BY <2>8, <3>1, <4>1 DEF TransferInv, DataInv
      <4>2. CASE m = DataPacket(s, decision.retransmission)
        BY <2>3, <2>8, <4>2 DEF DataPacket
      <4>3. QED
        BY <2>1, <4>1, <4>2
    <3>2. QED
      BY <3>1 DEF DataInv, ForThisSession
  <2>10. /\ \A t \in Chunks : state[t] # "UNSENT" => state'[t] # "UNSENT"
         /\ \A t \in Chunks : state'[t] = "ACKED" => t \in received
    BY <2>8 DEF TransferInv, BetweenInv
  <2>11. QED
    BY <1>2, <2>1, <2>4, <2>6, <2>9, <2>10
<1>10. CASE DrainedAfterSend \/ WaitTimeout
  <2>1. /\ pc \in {"drain2", "wait"} /\ pc' = LoopTop(base)
        /\ UNCHANGED windowVars /\ UNCHANGED <<to_server, to_client>>
    BY <1>10 DEF DrainedAfterSend, WaitTimeout
  <2>2. WindowInv' /\ UNCHANGED <<state, base, decision>>
    BY <2>1, UnchangedKeepsInv DEF TransferInv, windowVars
  <2>3. ClientInv'
    BY <2>1, <2>2 DEF TransferInv, ClientInv, LoopTop
  <2>4. QED
    BY <1>3, <2>1, <2>2, <2>3
<1>11. CASE WaitForAck
  <2>1. PICK m \in to_client :
          /\ Receive(to_client, m, to_client')
          /\ IF ForThisSession(m)
             THEN ProcessAck(m.ack) /\ pc' = LoopTop(base')
             ELSE UNCHANGED <<windowVars, pc>>
    BY <1>11 DEF WaitForAck
  <2>2. pc = "wait" /\ UNCHANGED to_server
    BY <1>11 DEF WaitForAck
  <2>3. decision = NoDecision
    BY <2>2 DEF TransferInv, ClientInv
  <2>4. CASE ForThisSession(m)
    <3>1. decision' = NoDecision
      BY <2>1, <2>3, <2>4, AckApplied
    <3>2. ClientInv'
      BY <2>1, <2>4, <3>1 DEF ClientInv, LoopTop
    <3>3. QED
      BY <1>4, <2>1, <2>2, <2>3, <2>4, <3>2
  <2>5. CASE ~ForThisSession(m)
    <3>1. UNCHANGED windowVars /\ UNCHANGED pc
      BY <2>1, <2>5
    <3>2. WindowInv' /\ ClientInv' /\ state' = state
      BY <3>1, KeepWindow DEF TransferInv, windowVars
    <3>3. QED
      BY <1>3, <2>1, <2>2, <3>2 DEF Receive
  <2>6. QED
    BY <2>4, <2>5
<1>12. QED
  BY <1>5, <1>6, <1>7, <1>8, <1>9, <1>10, <1>11 DEF ClientStep

-----------------------------------------------------------------------------
(* The server. *)

\* The DATA branch: a new chunk is written where it belongs, and the ACK that
\* goes out, if one does, reports nothing but what is received by then.
LEMMA HandleDataKeeps ==
    ASSUME TransferInv, NEW m \in to_server, ForThisSession(m), HandleData(m),
           UNCHANGED state
    PROVE  TrackerInv' /\ ServerInv' /\ AckInv' /\ BetweenInv'
<1> DEFINE s == m.number
           sent == ShouldSendAck(m, packets_since_ack + 1)
<1>1. /\ MarkReceived(s)
      /\ output' = IF s \in received THEN output ELSE [output EXCEPT ![s] = m.payload]
      /\ ack_pending' = ~sent
      /\ packets_since_ack' = IF sent THEN 0 ELSE packets_since_ack + 1
      /\ ack_age' = IF ack_pending /\ ~sent THEN ack_age ELSE 0
      /\ to_client' = IF sent THEN to_client \union {AckPacket} ELSE to_client
  BY DEF HandleData, HasReceived, SinceAfterAck
<1>2. s \in Chunks /\ state[s] # "UNSENT" /\ m.payload = File[s]
  BY DEF TransferInv, DataInv
<1>3. TrackerInv' /\ received' = received \union {s}
  BY <1>1, <1>2, MarkReceivedKeepsInv DEF TransferInv
<1>4. packets_since_ack + 1 >= AckPacketThreshold => sent
  BY DEF ShouldSendAck
<1>5. sent \in BOOLEAN
  BY DEF ShouldSendAck
<1> HIDE DEF s, sent
<1>6. output' = [t \in Chunks |-> IF t \in received' THEN File[t] ELSE Blank]
  <2>1. output = [t \in Chunks |-> IF t \in received THEN File[t] ELSE Blank]
    BY DEF TransferInv, ServerInv
  <2>2. CASE s \in received
    BY <1>1, <1>3, <2>1, <2>2
  <2>3. CASE s \notin received
    <3>1. output' = [output EXCEPT ![s] = File[s]]
      BY <1>1, <1>2, <2>3
    <3>2. QED
      BY <1>2, <1>3, <2>1, <3>1
  <2>4. QED
    BY <2>2, <2>3
<1>7. packets_since_ack' \in 0 .. AckPacketThreshold - 1
  <2>1. packets_since_ack \in 0 .. AckPacketThreshold - 1 /\ AckPacketThreshold \in Nat \ {0}
    BY TransferAssumption DEF TransferInv, ServerInv
  <2>2. QED
    BY <1>1, <1>4, <2>1
<1>8. ack_age' \in 0 .. AckInterval
  <2>1. ack_age \in 0 .. AckInterval /\ AckInterval \in Nat \ {0}
    BY TransferAssumption DEF TransferInv, ServerInv
  <2>2. QED
    BY <1>1, <2>1
<1>9. ServerInv'
  BY <1>1, <1>5, <1>6, <1>7, <1>8 DEF ServerInv
<1>10. AckPacket.ack \in AckPayload /\ Reported(AckPacket.ack) \subseteq received'
  <2>1. AckPacket.ack = MakeAckSnapshot'
    BY DEF AckPacket
  <2>2. MakeAckSnapshot' \in AckPayload
    <3>1. TrackerInv' => (MakeAckSnapshot \in AckPayload)'
      BY SnapshotIsAckPayload, PTL
    <3>2. QED
      BY <1>3, <3>1 DEF AckPayload
  <2>3. Reported(MakeAckSnapshot') \subseteq received'
    BY <1>3, ReportedBySnapshotNext
  <2>4. QED
    BY <2>1, <2>2, <2>3
<1>11. AckInv'
  <2>1. \A a \in to_client : ForThisSession(a) =>
           a.ack \in AckPayload /\ Reported(a.ack) \subseteq received'
    BY <1>3 DEF TransferInv, AckInv
  <2>2. QED
    BY <1>1, <1>10, <2>1 DEF AckInv, ForThisSession
<1>12. BetweenInv'
  BY <1>2, <1>3 DEF TransferInv, BetweenInv
<1>13. QED
  BY <1>3, <1>9, <1>11, <1>12

LEMMA ServerKeepsInv == TransferInv /\ ServerReceives => TransferInv'
<1> SUFFICES ASSUME TransferInv, ServerReceives PROVE TransferInv'
  OBVIOUS
<1>1. PICK m \in to_server :
        \E after \in {to_server, to_server \ {m}} : ReceiveData(m, after)
  BY DEF ServerReceives
<1>2. /\ to_server' \subseteq to_server
      /\ UNCHANGED windowVars /\ UNCHANGED pc
      /\ IF ForThisSession(m) THEN HandleData(m)
                              ELSE UNCHANGED serverVars /\ UNCHANGED to_client
  BY <1>1 DEF ReceiveData
<1>3. UNCHANGED state
  BY <1>2 DEF windowVars
<1>4. WindowInv' /\ ClientInv'
  BY <1>2, KeepWindow DEF TransferInv
<1>5. DataInv'
  BY <1>2, <1>3, KeepData DEF TransferInv
<1>6. CASE ForThisSession(m)
  <2>1. TrackerInv' /\ ServerInv' /\ AckInv' /\ BetweenInv'
    BY <1>2, <1>3, <1>6, HandleDataKeeps
  <2>2. QED
    BY <1>4, <1>5, <2>1 DEF TransferInv
<1>7. CASE ~ForThisSession(m)
  <2>1. UNCHANGED serverVars /\ UNCHANGED to_client
    BY <1>2, <1>7
  <2>2. TrackerInv' /\ ServerInv' /\ UNCHANGED received
    BY <2>1, KeepServer DEF TransferInv, serverVars, trackerVars
  <2>3. AckInv' /\ BetweenInv'
    BY <1>3, <2>1, <2>2, KeepAcks DEF TransferInv, BetweenInv
  <2>4. QED
    BY <1>4, <1>5, <2>2, <2>3 DEF TransferInv
<1>8. QED
  BY <1>6, <1>7

-----------------------------------------------------------------------------
(* The network, the clock, and all steps together. *)

LEMMA LossKeepsInv == TransferInv /\ (LoseData \/ LoseAck \/ UNCHANGED vars) => TransferInv'
<1> SUFFICES ASSUME TransferInv, LoseData \/ LoseAck \/ UNCHANGED vars PROVE TransferInv'
  OBVIOUS
<1>1. /\ to_server' \subseteq to_server /\ to_client' \subseteq to_client
      /\ UNCHANGED windowVars /\ UNCHANGED pc /\ UNCHANGED serverVars
  BY DEF LoseData, LoseAck, vars
<1>2. WindowInv' /\ ClientInv'
  BY <1>1, KeepWindow DEF TransferInv
<1>3. TrackerInv' /\ ServerInv'
  BY <1>1, KeepServer DEF TransferInv
<1>4. UNCHANGED <<state, received>>
  BY <1>1 DEF windowVars, serverVars, trackerVars
<1>5. DataInv' /\ AckInv' /\ BetweenInv'
  BY <1>1, <1>4, KeepData, KeepAcks DEF TransferInv, BetweenInv
<1>6. QED
  BY <1>2, <1>3, <1>5 DEF TransferInv

LEMMA TickKeepsInv == TransferInv /\ Tick => TransferInv'
<1> SUFFICES ASSUME TransferInv, Tick PROVE TransferInv'
  OBVIOUS
<1>1. /\ Elapse
      /\ ack_age' = IF ack_pending THEN Min({ack_age + 1, AckInterval}) ELSE 0
      /\ UNCHANGED <<pc, to_server, to_client, output, ack_pending, packets_since_ack>>
      /\ UNCHANGED trackerVars
  BY DEF Tick
<1>2. WindowInv'
  BY <1>1, ElapseKeepsInv DEF TransferInv
<1>3. UNCHANGED <<state, retransmit_pending, base, next_sequence, outstanding_chunks, decision>>
  BY <1>1 DEF Elapse
<1>4. ClientInv'
  BY <1>1, <1>3 DEF TransferInv, ClientInv, CanSendNew
<1>5. TrackerInv' /\ UNCHANGED received
  BY <1>1 DEF TransferInv, TrackerInv, trackerVars
<1>6. ack_age' \in 0 .. AckInterval
  <2>1. ack_age \in 0 .. AckInterval /\ AckInterval \in Nat
    BY TransferAssumption DEF TransferInv, ServerInv
  <2> DEFINE two == {ack_age + 1, AckInterval}
  <2>2. two \subseteq Nat /\ two # {} /\ AckInterval \in two
    BY <2>1
  <2>3. Min(two) \in two /\ Min(two) <= AckInterval
    BY <2>2, MinNat
  <2>4. QED
    BY <1>1, <2>1, <2>2, <2>3
<1>7. ServerInv'
  BY <1>1, <1>5, <1>6 DEF TransferInv, ServerInv
<1>8. DataInv' /\ AckInv' /\ BetweenInv'
  BY <1>1, <1>3, <1>5, KeepData, KeepAcks DEF TransferInv, BetweenInv
<1>9. QED
  BY <1>2, <1>4, <1>5, <1>7, <1>8 DEF TransferInv

LEMMA TransferStep == TransferInv /\ [Next]_vars => TransferInv'
BY ClientKeepsInv, ServerKeepsInv, LossKeepsInv, TickKeepsInv DEF Next, Finished

LEMMA TransferInvariant == Spec => []TransferInv
BY TransferInvInit, TransferStep, PTL DEF Spec

-----------------------------------------------------------------------------
(* The properties. *)

\* Every variable of the data phase keeps its type; so the server's counter of
\* packets stays below the threshold, and no DATA packet or ACK of this session
\* is one its receiver would have to refuse.
THEOREM TransferTypes == Spec => []TypeOK
<1>1. TransferInv => TypeOK
  <2> SUFFICES ASSUME TransferInv PROVE TypeOK
    OBVIOUS
  <2>1. WindowTypeOK /\ TrackerTypeOK
    BY TrackerInvGivesType DEF TransferInv, WindowInv
  <2>2. DOMAIN output = Chunks
    BY DEF TransferInv, ServerInv
  <2>3. QED
    BY <2>1, <2>2 DEF TransferInv, ClientInv, DataInv, AckInv, ServerInv, TypeOK
<1>2. QED
  BY <1>1, TransferInvariant, PTL

\* No loss, repetition, delay or stray ACK makes the client count a chunk as
\* ACKED that the server has not written.
THEOREM AckedIsReceived == Spec => []AckedWasReceived
<1>1. TransferInv => AckedWasReceived
  BY DEF TransferInv, BetweenInv, AckedWasReceived
<1>2. QED
  BY <1>1, TransferInvariant, PTL

\* base_ of the client never passes the cumulative ACK of the server, and what
\* has been sent lies within SackCoverage of base_.
LEMMA SentIsReported ==
    ASSUME TransferInv
    PROVE  /\ base <= cumulative_ack
           /\ \A s \in received : s < next_sequence /\ s < cumulative_ack + SackCoverage
<1>1. /\ base \in 0 .. TotalChunks /\ next_sequence \in 0 .. TotalChunks
      /\ cumulative_ack \in 0 .. TotalChunks
      /\ TotalChunks \in Nat /\ SackCoverage \in Nat /\ received \subseteq Chunks
  BY SnapshotAssumption DEF TransferInv, WindowInv, WindowTypeOK, TrackerInv
<1>2. base <= cumulative_ack
  <2>1. SUFFICES ASSUME cumulative_ack < base PROVE FALSE
    BY <1>1
  <2>2. cumulative_ack \in 0 .. base - 1 /\ cumulative_ack \in Chunks
    BY <1>1, <2>1 DEF Chunks
  <2>3. state[cumulative_ack] = "ACKED"
    BY <2>2 DEF TransferInv, WindowInv, BaseIsFirstHole
  <2>4. QED
    BY <2>2, <2>3 DEF TransferInv, BetweenInv, TrackerInv
<1>3. next_sequence <= base + SackCoverage
  BY DEF TransferInv, WindowInv, SpanWithinSack
<1>4. ASSUME NEW s \in received
      PROVE  s < next_sequence
  <2>1. s \in Chunks /\ state[s] # "UNSENT"
    BY <1>1 DEF TransferInv, BetweenInv
  <2>2. ~(next_sequence <= s)
    BY <2>1 DEF TransferInv, WindowInv, SelectionInv
  <2>3. QED
    BY <1>1, <2>1, <2>2 DEF Chunks
<1>5. QED
  BY <1>1, <1>2, <1>3, <1>4 DEF Chunks

\* can_send_new() and make_ack_snapshot() fit together: the bitmap always
\* reaches every chunk the server has.
THEOREM NothingBeyondBitmap == Spec => []SnapshotLossless
<1>1. TransferInv => SnapshotLossless
  BY SentIsReported, ReportedBySnapshot DEF TransferInv, SnapshotLossless
<1>2. QED
  BY <1>1, TransferInvariant, PTL

\* A client that leaves its loop leaves the whole file with the server, every
\* byte of it the sender's, and a server that will answer COMPLETE.
THEOREM DoneIsDelivered == Spec => []DoneMeansDelivered
<1>1. TransferInv => DoneMeansDelivered
  <2> SUFFICES ASSUME TransferInv, pc = "done" PROVE Complete /\ output = File
    BY DEF DoneMeansDelivered
  <2>1. base = TotalChunks
    BY DEF TransferInv, ClientInv
  <2>2. Chunks \subseteq received
    BY <2>1 DEF TransferInv, WindowInv, BaseIsFirstHole, BetweenInv, Chunks
  <2>3. received = Chunks
    BY <2>2 DEF TransferInv, TrackerInv
  <2>4. Complete
    BY <2>3, CompleteIsExact DEF TransferInv
  <2>5. output = [s \in Chunks |-> File[s]]
    BY <2>3 DEF TransferInv, ServerInv
  <2>6. QED
    BY <2>4, <2>5, TransferAssumption
<1>2. QED
  BY <1>1, TransferInvariant, PTL

\* Were base_ nobody's chunk, nothing would be outstanding and a new chunk
\* could go: a client that waits has sent the chunk at base_, and its timer runs.
THEOREM WaitIsTimed == Spec => []WaitingIsTimed
<1>1. TransferInv => WaitingIsTimed
  <2> SUFFICES ASSUME TransferInv, pc = "wait", ~AllAcked
               PROVE  \E s \in base .. next_sequence - 1 : CanQueue(state, s)
    BY DEF WaitingIsTimed
  <2>1. retransmit_pending = {} /\ ~CanSendNew /\ decision = NoDecision
    BY DEF TransferInv, ClientInv
  <2>2. /\ base \in 0 .. TotalChunks /\ next_sequence \in 0 .. TotalChunks
        /\ base < TotalChunks /\ base <= next_sequence
        /\ TotalChunks \in Nat /\ SackCoverage \in Nat \ {0} /\ LogicalWindow \in Nat \ {0}
        /\ state[base] # "ACKED"
    BY SnapshotAssumption, WindowAssumption
       DEF TransferInv, WindowInv, WindowTypeOK, BaseIsFirstHole, AllAcked
  <2>3. base # next_sequence
    <3>1. SUFFICES ASSUME base = next_sequence PROVE CanSendNew
      BY <2>1
    <3>2. Unacked = {}
      BY <3>1 DEF TransferInv, WindowInv, BaseIsFirstHole, Unacked
    <3>3. outstanding_chunks = 0
      BY <3>2, FS_EmptySet DEF TransferInv, WindowInv, OutstandingExact
    <3>4. QED
      BY <2>2, <3>1, <3>3 DEF CanSendNew
  <2>4. base \in Chunks /\ base < next_sequence /\ base \in base .. next_sequence - 1
    BY <2>2, <2>3 DEF Chunks
  <2>5. state[base] # "UNSENT"
    BY <2>1, <2>4 DEF TransferInv, WindowInv, SelectionInv
  <2>6. state[base] = "IN_FLIGHT"
    BY <2>2, <2>4, <2>5 DEF TransferInv, WindowInv, WindowTypeOK, PacketState
  <2>7. QED
    BY <2>1, <2>4, <2>6 DEF CanQueue
<1>2. QED
  BY <1>1, TransferInvariant, PTL

-----------------------------------------------------------------------------
(* The refinement. *)

Confirmed == {s \in Chunks : state[s] = "ACKED"}

\* What every step may do to the file and to what the client knows of it.
LEMMA StepMapsToDelivery ==
    TransferInv /\ TransferInv' /\ [Next]_vars => [Delivery!Next]_Delivery!vars
<1> SUFFICES ASSUME TransferInv, TransferInv', [Next]_vars
             PROVE  [Delivery!Next]_Delivery!vars
  OBVIOUS
<1> USE DEF Confirmed
<1>1. ASSUME UNCHANGED output, Confirmed' = Confirmed
      PROVE  [Delivery!Next]_Delivery!vars
  BY <1>1 DEF Delivery!vars
<1>2. ASSUME NEW m \in to_client, ForThisSession(m), ProcessAck(m.ack), UNCHANGED output,
             decision = NoDecision
      PROVE  Delivery!Next
  <2>1. /\ \A s \in Chunks : state[s] = "ACKED" => state'[s] = "ACKED"
        /\ \A s \in Chunks : state'[s] = "ACKED" => s \in received
    BY <1>2, AckApplied
  <2>2. \A s \in received : s \in Chunks => output[s] = File[s]
    BY DEF TransferInv, ServerInv
  <2>3. Confirmed' \subseteq Delivery!Delivered
    BY <2>1, <2>2 DEF Delivery!Delivered, Delivery!Chunks, Chunks
  <2>4. PICK S \in SUBSET Delivery!Chunks : S = Confirmed'
    BY DEF Delivery!Chunks, Chunks
  <2>5. Delivery!Confirm(S)
    BY <1>2, <2>1, <2>3, <2>4 DEF Delivery!Confirm
  <2>6. QED
    BY <2>5 DEF Delivery!Next
<1>3. CASE ClientStep
  <2>1. UNCHANGED output
    BY <1>3 DEF ClientStep, DrainAck, DrainedBeforeSelect, SelectPacket, SelectNone,
                SendData, DrainedAfterSend, WaitForAck, WaitTimeout, serverVars
  <2>2. CASE DrainAck \/ WaitForAck
    <3>1. pc \in {"drain", "drain2", "wait"}
      BY <2>2 DEF DrainAck, WaitForAck
    <3>2. decision = NoDecision
      BY <3>1 DEF TransferInv, ClientInv
    <3>3. PICK m \in to_client : IF ForThisSession(m) THEN ProcessAck(m.ack)
                                                      ELSE UNCHANGED windowVars
      BY <2>2 DEF DrainAck, WaitForAck
    <3>4. CASE ForThisSession(m)
      BY <1>2, <2>1, <3>2, <3>3, <3>4
    <3>5. CASE ~ForThisSession(m)
      BY <1>1, <2>1, <3>3, <3>5 DEF windowVars
    <3>6. QED
      BY <3>4, <3>5
  <2>3. CASE SendData
    <3>1. decision # NoDecision /\ MarkSent
      BY <2>3 DEF SendData, TransferInv, ClientInv
    <3>2. state \in [Chunks -> PacketState]
      BY DEF TransferInv, WindowInv, WindowTypeOK
    <3>3. Confirmed' = Confirmed
      BY <3>1, <3>2 DEF MarkSent, Sendable
    <3>4. QED
      BY <1>1, <2>1, <3>3
  <2>4. CASE DrainedBeforeSelect \/ SelectPacket \/ SelectNone
    <3>1. state' = state
      BY <2>4 DEF DrainedBeforeSelect, SelectPacket, SelectNone, CheckTimeouts,
                  SelectRetransmission, SelectNew, SelectNothing
    <3>2. QED
      BY <1>1, <2>1, <3>1
  <2>5. CASE DrainedAfterSend \/ WaitTimeout
    <3>1. state' = state
      BY <2>5 DEF DrainedAfterSend, WaitTimeout, windowVars
    <3>2. QED
      BY <1>1, <2>1, <3>1
  <2>6. QED
    BY <1>3, <2>2, <2>3, <2>4, <2>5 DEF ClientStep
<1>4. CASE ServerReceives
  <2>1. PICK m \in to_server :
          /\ UNCHANGED windowVars
          /\ IF ForThisSession(m) THEN HandleData(m) ELSE UNCHANGED serverVars
    BY <1>4 DEF ServerReceives, ReceiveData
  <2>2. Confirmed' = Confirmed
    BY <2>1 DEF windowVars
  <2>3. CASE ForThisSession(m) /\ m.number \notin received
    <3>1. m.number \in Chunks /\ m.payload = File[m.number]
      BY <2>3 DEF TransferInv, DataInv
    <3>2. output' = [output EXCEPT ![m.number] = File[m.number]]
      BY <2>1, <2>3, <3>1 DEF HandleData, HasReceived
    <3>3. output[m.number] = Blank
      BY <2>3, <3>1 DEF TransferInv, ServerInv
    <3>4. Delivery!Deliver(m.number)
      BY <2>2, <3>2, <3>3 DEF Delivery!Deliver
    <3>5. QED
      BY <3>1, <3>4 DEF Delivery!Next, Delivery!Chunks, Chunks
  <2>4. CASE ForThisSession(m) /\ m.number \in received
    <3>1. UNCHANGED output
      BY <2>1, <2>4 DEF HandleData, HasReceived
    <3>2. QED
      BY <1>1, <2>2, <3>1
  <2>5. CASE ~ForThisSession(m)
    BY <1>1, <2>1, <2>2, <2>5 DEF serverVars
  <2>6. QED
    BY <2>3, <2>4, <2>5
<1>5. CASE LoseData \/ LoseAck \/ Tick \/ UNCHANGED vars
  <2>1. UNCHANGED <<state, output>>
    BY <1>5 DEF LoseData, LoseAck, Tick, Elapse, vars, windowVars, serverVars
  <2>2. QED
    BY <1>1, <2>1
<1>6. QED
  BY <1>3, <1>4, <1>5 DEF Next, Finished

\* The data phase implements reliable delivery: each chunk is written once,
\* with the sender's bytes, and only what is written is ever believed.
THEOREM TransferImplementsDelivery == Spec => ImplementsDelivery
<1>1. Init => Delivery!Init
  BY DEF Init, WindowInit, Delivery!Init, Delivery!Chunks, Chunks
<1>2. QED
  BY <1>1, StepMapsToDelivery, TransferInvariant, PTL
     DEF Spec, ImplementsDelivery, Delivery!Spec

-----------------------------------------------------------------------------
(* The classes inside the loops.  ReceiverTracker and SenderWindow have    *)
(* specifications of their own, TrackerSpec and DriverSpec, that let their *)
(* callers do as they please.  The two loops are such callers, so what was *)
(* proved of the classes alone holds of them here.                         *)

\* A server step marks one chunk of this transfer, or leaves the tracker alone.
LEMMA StepOfTracker == TransferInv /\ [Next]_vars => [TrackerNext]_trackerVars
<1> SUFFICES ASSUME TransferInv, [Next]_vars PROVE [TrackerNext]_trackerVars
  OBVIOUS
<1>1. CASE ServerReceives
  <2>1. PICK m \in to_server : IF ForThisSession(m) THEN HandleData(m)
                                                    ELSE UNCHANGED serverVars
    BY <1>1 DEF ServerReceives, ReceiveData
  <2>2. CASE ForThisSession(m)
    <3>1. m.number \in Chunks /\ MarkReceived(m.number)
      BY <2>1, <2>2 DEF TransferInv, DataInv, HandleData
    <3>2. QED
      BY <3>1 DEF TrackerNext
  <2>3. CASE ~ForThisSession(m)
    BY <2>1, <2>3 DEF serverVars
  <2>4. QED
    BY <2>2, <2>3
<1>2. CASE ClientStep
  BY <1>2 DEF ClientStep, DrainAck, DrainedBeforeSelect, SelectPacket, SelectNone,
              SendData, DrainedAfterSend, WaitForAck, WaitTimeout, serverVars
<1>3. CASE LoseData \/ LoseAck \/ Tick \/ UNCHANGED vars
  BY <1>3 DEF LoseData, LoseAck, Tick, vars, serverVars, trackerVars
<1>4. QED
  BY <1>1, <1>2, <1>3 DEF Next, Finished

\* The DATA branch of the server uses ReceiverTracker as TrackerSpec allows:
\* mark_received() is never called for a chunk that is not of the file, which
\* it would refuse by returning false, unnoticed by the server
\* (reliability.cpp:225-237, server.cpp:326-350).
THEOREM ServerUsesTracker == Spec => TrackerSpec
<1>1. Init => TrackerInit
  BY DEF Init
<1>2. QED
  BY <1>1, StepOfTracker, TransferInvariant, PTL DEF Spec, TrackerSpec

\* So the ACKs the server of a transfer builds never take anything back,
\* whatever the network does to the DATA packets.
THEOREM AcksNeverTakeBack == Spec => SnapshotMonotonic
BY ServerUsesTracker, TrackerNeverForgets, PTL

\* Every ACK of this session in the network is the snapshot of chunks that have
\* been received: a genuine one, however old.
GenuineAcks ==
    \A m \in to_client :
        ForThisSession(m) => \E R \in SUBSET received : m.ack = SnapshotOf(R)

LEMMA SnapshotOfReceivedNext == TrackerInv' => MakeAckSnapshot' = SnapshotOf(received')
<1>1. TrackerInv' => SnapshotExact'
  BY SnapshotOfReceived, PTL
<1>2. QED
  BY <1>1 DEF SnapshotExact, SnapshotOf, FirstMissing, Horizon

LEMMA GenuineStep == TransferInv /\ TransferInv' /\ GenuineAcks /\ [Next]_vars => GenuineAcks'
<1> SUFFICES ASSUME TransferInv, TransferInv', GenuineAcks, [Next]_vars
             PROVE  GenuineAcks'
  OBVIOUS
<1>1. ASSUME to_client' \subseteq to_client, received \subseteq received'
      PROVE  GenuineAcks'
  BY <1>1 DEF GenuineAcks, ForThisSession
<1>2. CASE ServerReceives
  <2>1. PICK m \in to_server : IF ForThisSession(m) THEN HandleData(m)
                                 ELSE UNCHANGED serverVars /\ UNCHANGED to_client
    BY <1>2 DEF ServerReceives, ReceiveData
  <2>2. CASE ForThisSession(m)
    <3>1. m.number \in Chunks
      BY <2>2 DEF TransferInv, DataInv
    <3>2. received' = received \union {m.number}
      BY <2>1, <2>2, <3>1, MarkReceivedKeepsInv DEF HandleData, TransferInv
    <3>3. AckPacket.ack = SnapshotOf(received')
      BY SnapshotOfReceivedNext DEF AckPacket, TransferInv
    <3>4. to_client' \subseteq to_client \union {AckPacket}
      BY <2>1, <2>2 DEF HandleData
    <3>5. QED
      BY <3>2, <3>3, <3>4 DEF GenuineAcks, ForThisSession
  <2>3. CASE ~ForThisSession(m)
    BY <1>1, <2>1, <2>3 DEF serverVars, trackerVars
  <2>4. QED
    BY <2>2, <2>3
<1>3. CASE ClientStep
  <2>1. to_client' \subseteq to_client
    BY <1>3 DEF ClientStep, DrainAck, DrainedBeforeSelect, SelectPacket, SelectNone,
                SendData, DrainedAfterSend, WaitForAck, WaitTimeout, Receive
  <2>2. received' = received
    BY <1>3 DEF ClientStep, DrainAck, DrainedBeforeSelect, SelectPacket, SelectNone,
                SendData, DrainedAfterSend, WaitForAck, WaitTimeout, serverVars, trackerVars
  <2>3. QED
    BY <1>1, <2>1, <2>2
<1>4. CASE LoseData \/ LoseAck \/ Tick \/ UNCHANGED vars
  <2>1. to_client' \subseteq to_client /\ received' = received
    BY <1>4 DEF LoseData, LoseAck, Tick, vars, serverVars, trackerVars
  <2>2. QED
    BY <1>1, <2>1
<1>5. QED
  BY <1>2, <1>3, <1>4 DEF Next, Finished

\* An ACK that reaches the client, late, twice or out of order, is one that the
\* server has built from its tracker; the client needs no other assumption.
THEOREM AcksAreGenuine == Spec => []GenuineAcks
<1>1. Init => GenuineAcks
  BY TransferAssumption DEF Init, GenuineAcks, ForThisSession
<1>2. QED
  BY <1>1, GenuineStep, TransferInvariant, PTL DEF Spec

\* The data phase with WindowDriver's count of the fast retransmissions of each
\* chunk beside it, as the diagnostics keep one of all (client.cpp:573-578).  A
\* history variable: it takes no step away.
CountedInit == Init /\ fast_retransmits = [s \in Chunks |-> 0]

CountFastRetransmit ==
    fast_retransmits' =
        IF pc = "send" /\ pc' = "drain2" /\ decision.fast_retransmission
        THEN [fast_retransmits EXCEPT ![decision.sequence] = @ + 1]
        ELSE fast_retransmits

CountedSpec ==
    CountedInit /\ [][Next /\ CountFastRetransmit]_<<vars, fast_retransmits>>

\* The ACK that the client applies is one that WindowDriver feeds the window.
LEMMA GenuineAckIsDriven ==
    ASSUME TransferInv, GenuineAcks, decision = NoDecision, UNCHANGED fast_retransmits,
           NEW m \in to_client, ForThisSession(m), ProcessAck(m.ack)
    PROVE  ReceiveAck
<1>1. PICK R \in SUBSET received : m.ack = SnapshotOf(R)
  BY DEF GenuineAcks
<1>2. R \in SUBSET Sent /\ R \in SUBSET Chunks
  BY DEF TransferInv, BetweenInv, TrackerInv, Sent
<1>3. Snapshots[R] = SnapshotOf(R)
  BY <1>2 DEF Snapshots
<1>4. QED
  BY <1>1, <1>2, <1>3 DEF ReceiveAck, Idle

\* Only SendData moves the client from "send" to "drain2".
LEMMA OtherStepsCountNothing ==
    ASSUME Next, ~SendData, CountFastRetransmit
    PROVE  UNCHANGED fast_retransmits
<1>1. ~(pc = "send" /\ pc' = "drain2")
  BY DEF Next, ClientStep, DrainAck, DrainedBeforeSelect, SelectPacket, SelectNone,
         DrainedAfterSend, WaitForAck, WaitTimeout, ServerReceives, ReceiveData,
         LoseData, LoseAck, Tick, Finished, vars, LoopTop
<1>2. QED
  BY <1>1 DEF CountFastRetransmit

LEMMA StepOfDriver ==
    /\ TransferInv /\ GenuineAcks
    /\ [Next /\ CountFastRetransmit]_<<vars, fast_retransmits>>
    => [DriverNext]_driverVars
<1> SUFFICES ASSUME TransferInv, GenuineAcks, Next, CountFastRetransmit
             PROVE  [DriverNext]_driverVars
  BY DEF vars, driverVars
<1>1. ASSUME UNCHANGED windowVars, ~SendData PROVE UNCHANGED driverVars
  BY <1>1, OtherStepsCountNothing DEF driverVars
<1>2. CASE DrainAck \/ WaitForAck
  <2>1. pc \in {"drain", "drain2", "wait"}
    BY <1>2 DEF DrainAck, WaitForAck
  <2>2. decision = NoDecision /\ ~SendData
    BY <2>1 DEF TransferInv, ClientInv, SendData
  <2>3. PICK m \in to_client : IF ForThisSession(m) THEN ProcessAck(m.ack)
                                                    ELSE UNCHANGED windowVars
    BY <1>2 DEF DrainAck, WaitForAck
  <2>4. CASE ForThisSession(m)
    BY <2>2, <2>3, <2>4, OtherStepsCountNothing, GenuineAckIsDriven DEF DriverNext
  <2>5. CASE ~ForThisSession(m)
    BY <1>1, <2>2, <2>3, <2>5
  <2>6. QED
    BY <2>4, <2>5
<1>3. CASE DrainedBeforeSelect \/ SelectPacket \/ SelectNone
  <2>1. pc \in {"drain", "select"}
    BY <1>3 DEF DrainedBeforeSelect, SelectPacket, SelectNone
  <2>2. Idle /\ UNCHANGED fast_retransmits
    BY <2>1, OtherStepsCountNothing DEF TransferInv, ClientInv, SendData, Idle
  <2>3. CheckTimeouts \/ SelectRetransmission \/ SelectNew \/ SelectNothing
    BY <1>3 DEF DrainedBeforeSelect, SelectPacket, SelectNone
  <2>4. QED
    BY <2>2, <2>3 DEF DriverNext, Timeouts, Select
<1>4. CASE SendData
  <2>1. /\ pc = "send" /\ pc' = "drain2" /\ MarkSent
        /\ decision # NoDecision
    BY <1>4 DEF SendData, TransferInv, ClientInv
  <2>2. Send
    BY <2>1 DEF Send, Idle, CountFastRetransmit
  <2>3. QED
    BY <2>2 DEF DriverNext
<1>5. CASE Tick
  <2>1. Elapse /\ pc' = pc /\ ~SendData
    BY <1>5 DEF Tick, SendData
  <2>2. QED
    BY <2>1, OtherStepsCountNothing DEF DriverNext, DriverTick
<1>6. CASE DrainedAfterSend \/ WaitTimeout \/ ServerReceives \/ LoseData \/ LoseAck
           \/ Finished
  <2>1. UNCHANGED windowVars
    BY <1>6 DEF DrainedAfterSend, WaitTimeout, ServerReceives, ReceiveData, LoseData,
                LoseAck, Finished, vars
  <2>2. ~SendData
    BY <1>6 DEF DrainedAfterSend, WaitTimeout, ServerReceives, ReceiveData, LoseData,
                LoseAck, Finished, vars, SendData, LoopTop
  <2>3. QED
    BY <1>1, <2>1, <2>2
<1>7. QED
  BY <1>2, <1>3, <1>4, <1>5, <1>6 DEF Next, ClientStep

\* run_client() uses SenderWindow as WindowDriver allows: a selected chunk is
\* sent before anything else happens to the window, and every ACK applied is a
\* snapshot of chunks that were sent (client.cpp:501-586).
THEOREM ClientUsesWindow == CountedSpec => DriverSpec
<1>1. CountedInit => DriverInit
  BY DEF CountedInit, Init, DriverInit
<1>2. CountedSpec => Spec
  <2>1. [Next /\ CountFastRetransmit]_<<vars, fast_retransmits>> => [Next]_vars
    OBVIOUS
  <2>2. QED
    BY <2>1, PTL DEF CountedSpec, CountedInit, Spec
<1>3. QED
  BY <1>1, <1>2, StepOfDriver, TransferInvariant, AcksAreGenuine, PTL
     DEF CountedSpec, DriverSpec

\* So in a transfer too, over any network, no chunk is fast retransmitted
\* without fresh SACK evidence, and none is sent again before its time.
THEOREM TransferIsPaced == CountedSpec => [](FastRetransmitBudget /\ RetransmissionsSpaced)
BY ClientUsesWindow, FastRetransmitsAreEarned, RetransmissionsAreSpaced, PTL

-----------------------------------------------------------------------------
(* What the loops keep between them. *)

\* What select_next_packet(), process_ack() and check_timeouts() promise each
\* other holds in the loop of run_client(): the counter of outstanding chunks is
\* exact, base_ is the first hole, the queue and the flags agree, and mark_sent()
\* never throws for the chunk the pacer has let go (reliability.cpp:41-175,
\* client.cpp:569-579).
THEOREM WindowIsSoundInLoop ==
    Spec => [](/\ OutstandingExact /\ BaseIsFirstHole /\ SpanWithinSack
               /\ RetransmissionTracked /\ DeadEntriesAreAcked
               /\ SelectionIsSendable /\ EvidenceIsPast)
<1>1. TransferInv => /\ OutstandingExact /\ BaseIsFirstHole /\ SpanWithinSack
                     /\ RetransmissionTracked /\ DeadEntriesAreAcked
                     /\ SelectionIsSendable /\ EvidenceIsPast
  BY Tracked, DeadEntries DEF TransferInv, WindowInv, SelectionInv
<1>2. QED
  BY <1>1, TransferInvariant, PTL

\* Every chunk the client has selected is acknowledged, or about to be sent, or
\* in the retransmission queue, or on the timer that check_timeouts() reads:
\* none is forgotten, at any point of the loop (reliability.cpp:86-97, 166-175).
ChunkIsAttended(s) ==
    \/ state[s] = "ACKED"
    \/ decision # NoDecision /\ decision.sequence = s
    \/ s \in retransmit_pending /\ Entries(s) # {}
    \/ CanQueue(state, s)

NoChunkForgotten == \A s \in 0 .. next_sequence - 1 : ChunkIsAttended(s)

THEOREM EveryChunkIsAttended == Spec => []NoChunkForgotten
<1>1. ASSUME TransferInv, NEW s \in 0 .. next_sequence - 1
      PROVE  ChunkIsAttended(s)
  <2>1. s \in Chunks /\ s < next_sequence
    BY <1>1, SnapshotAssumption DEF TransferInv, WindowInv, WindowTypeOK, Chunks
  <2>2. state[s] \in PacketState
    BY <1>1, <2>1 DEF TransferInv, WindowInv, WindowTypeOK
  <2>3. CASE state[s] = "UNSENT"
    BY <1>1, <2>1, <2>3 DEF TransferInv, WindowInv, SelectionInv, ChunkIsAttended
  <2>4. CASE s \in retransmit_pending
    BY <1>1, <2>4 DEF TransferInv, WindowInv, QueueInv, Entries, ChunkIsAttended
  <2>5. CASE state[s] = "IN_FLIGHT" /\ s \notin retransmit_pending
    BY <2>5 DEF CanQueue, ChunkIsAttended
  <2>6. QED
    BY <2>2, <2>3, <2>4, <2>5 DEF PacketState, ChunkIsAttended
<1>2. TransferInv => NoChunkForgotten
  BY <1>1 DEF NoChunkForgotten
<1>3. QED
  BY <1>2, TransferInvariant, PTL

\* The client's window and the server's tracker, which share nothing, stay in
\* step: the client's base_ is never ahead of the server's cumulative ACK, the
\* server has nothing the client has not selected, and both lie within the
\* SackCoverage chunks above base_ (reliability.cpp:34-39, 99-112, 225-237).
InStep ==
    /\ base <= cumulative_ack
    /\ cumulative_ack <= largest_received_plus_one
    /\ largest_received_plus_one <= next_sequence
    /\ next_sequence <= base + SackCoverage

THEOREM TwoEndsStayInStep == Spec => []InStep
<1>1. TransferInv => InStep
  <2> SUFFICES ASSUME TransferInv PROVE InStep
    OBVIOUS
  <2>1. /\ base \in 0 .. TotalChunks /\ next_sequence \in 0 .. TotalChunks
        /\ cumulative_ack \in 0 .. TotalChunks
        /\ largest_received_plus_one \in 0 .. TotalChunks
        /\ TotalChunks \in Nat /\ received \subseteq Chunks
    BY SnapshotAssumption DEF TransferInv, WindowInv, WindowTypeOK, TrackerInv
  <2>2. base <= cumulative_ack
    BY SentIsReported
  <2>3. cumulative_ack <= largest_received_plus_one
    <3>1. CASE cumulative_ack = 0
      BY <2>1, <3>1
    <3>2. CASE cumulative_ack > 0
      <4>1. cumulative_ack - 1 \in received
        BY <2>1, <3>2 DEF TransferInv, TrackerInv
      <4>2. QED
        BY <2>1, <4>1 DEF TransferInv, TrackerInv
    <3>3. QED
      BY <2>1, <3>1, <3>2
  <2>4. largest_received_plus_one <= next_sequence
    <3>1. CASE largest_received_plus_one = 0
      BY <2>1, <3>1
    <3>2. CASE largest_received_plus_one - 1 \in received
      BY <2>1, <3>2, SentIsReported
    <3>3. QED
      BY <3>1, <3>2 DEF TransferInv, TrackerInv
  <2>5. QED
    BY <2>2, <2>3, <2>4 DEF InStep, TransferInv, WindowInv, SpanWithinSack
<1>2. QED
  BY <1>1, TransferInvariant, PTL

\* What a step may never do.  A byte of the output that was written is not
\* written again with anything else, whatever comes late or twice; a chunk that
\* is ACKED stays so; base_, next_sequence_ and the cumulative ACK never go back
\* (reliability.cpp:73-84, 99-112, 225-237, server.cpp:338-364).
NothingUndone ==
    /\ \A s \in Chunks : output[s] # Blank => output'[s] = output[s]
    /\ \A s \in Chunks : state[s] = "ACKED" => state'[s] = "ACKED"
    /\ received \subseteq received'
    /\ base <= base'
    /\ next_sequence <= next_sequence'
    /\ cumulative_ack <= cumulative_ack'

\* What was delivered and confirmed stays so, by the refinement.
LEMMA DeliveryUndoesNothing ==
    ASSUME TransferInv, [Delivery!Next]_Delivery!vars
    PROVE  /\ \A s \in Chunks : output[s] # Blank => output'[s] = output[s]
           /\ \A s \in Chunks : state[s] = "ACKED" => state'[s] = "ACKED"
<1> USE DEF Delivery!Chunks, Chunks
<1>1. CASE \E s \in Delivery!Chunks : Delivery!Deliver(s)
  BY <1>1 DEF Delivery!Deliver, TransferInv, ServerInv
<1>2. CASE \E S \in SUBSET Delivery!Chunks : Delivery!Confirm(S)
  BY <1>2 DEF Delivery!Confirm
<1>3. CASE UNCHANGED Delivery!vars
  BY <1>3 DEF Delivery!vars
<1>4. QED
  BY <1>1, <1>2, <1>3 DEF Delivery!Next

\* base_ cannot move below a hole that is still one, nor stop at an ACKED chunk.
LEMMA BaseFollowsAcked ==
    ASSUME WindowInv, WindowInv', \A s \in Chunks : state[s] = "ACKED" => state'[s] = "ACKED"
    PROVE  base <= base'
<1>1. base \in 0 .. TotalChunks /\ base' \in 0 .. TotalChunks /\ TotalChunks \in Nat
  BY SnapshotAssumption DEF WindowInv, WindowTypeOK
<1>2. SUFFICES ASSUME base' < base PROVE FALSE
  BY <1>1
<1>3. base' \in Chunks /\ base' \in 0 .. base - 1 /\ base' < TotalChunks
  BY <1>1, <1>2 DEF Chunks
<1>4. state[base'] = "ACKED"
  BY <1>3 DEF WindowInv, BaseIsFirstHole
<1>5. state'[base'] # "ACKED"
  BY <1>3 DEF WindowInv, BaseIsFirstHole
<1>6. QED
  BY <1>3, <1>4, <1>5

\* Only select_next_packet() moves next_sequence_, and it moves it up.
LEMMA NextSequenceGrows ==
    ASSUME TransferInv, [Next]_vars
    PROVE  next_sequence <= next_sequence'
<1>1. next_sequence \in Nat
  BY SnapshotAssumption DEF TransferInv, WindowInv, WindowTypeOK
<1>2. CASE DrainAck \/ WaitForAck
  <2>1. PICK m \in to_client : IF ForThisSession(m) THEN ProcessAck(m.ack)
                                                    ELSE UNCHANGED windowVars
    BY <1>2 DEF DrainAck, WaitForAck
  <2>2. next_sequence' = next_sequence
    BY <2>1 DEF ProcessAck, AdvanceAndRetransmit, windowVars
  <2>3. QED
    BY <1>1, <2>2
<1>3. CASE DrainedBeforeSelect \/ SelectPacket \/ SelectNone \/ SendData
  <2>1. next_sequence' = next_sequence \/ next_sequence' = next_sequence + 1
    BY <1>3 DEF DrainedBeforeSelect, SelectPacket, SelectNone, SendData, CheckTimeouts,
                SelectRetransmission, SelectNew, SelectNothing, MarkSent
  <2>2. QED
    BY <1>1, <2>1
<1>4. CASE DrainedAfterSend \/ WaitTimeout \/ ServerReceives \/ LoseData \/ LoseAck
           \/ Tick \/ Finished \/ UNCHANGED vars
  <2>1. next_sequence' = next_sequence
    BY <1>4 DEF DrainedAfterSend, WaitTimeout, ServerReceives, ReceiveData, LoseData,
                LoseAck, Tick, Elapse, Finished, vars, windowVars
  <2>2. QED
    BY <1>1, <2>1
<1>5. QED
  BY <1>2, <1>3, <1>4 DEF Next, ClientStep

\* Nothing that either end has achieved is undone.
THEOREM NothingIsUndone == Spec => [][NothingUndone]_vars
<1>1. TransferInv /\ TransferInv' /\ [Next]_vars => NothingUndone
  <2> SUFFICES ASSUME TransferInv, TransferInv', [Next]_vars PROVE NothingUndone
    OBVIOUS
  <2>1. /\ \A s \in Chunks : output[s] # Blank => output'[s] = output[s]
        /\ \A s \in Chunks : state[s] = "ACKED" => state'[s] = "ACKED"
    BY StepMapsToDelivery, DeliveryUndoesNothing
  <2>2. base <= base'
    BY <2>1, BaseFollowsAcked DEF TransferInv
  <2>3. received \subseteq received' /\ cumulative_ack <= cumulative_ack'
    <3>1. CASE TrackerNext
      BY <3>1, MarkReceivedKeepsInv DEF TrackerNext, TransferInv
    <3>2. CASE UNCHANGED trackerVars
      BY <3>2, SnapshotAssumption DEF trackerVars, TransferInv, TrackerInv
    <3>3. QED
      BY <3>1, <3>2, StepOfTracker
  <2>4. QED
    BY <2>1, <2>2, <2>3, NextSequenceGrows DEF NothingUndone
<1>2. QED
  BY <1>1, TransferInvariant, PTL DEF Spec
=============================================================================
