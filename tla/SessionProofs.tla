---------------------------- MODULE SessionProofs ----------------------------
(***************************************************************************)
(* Proofs about Session, for any set of clients and chunks, any number of  *)
(* attempts, starts and crashes.                                           *)
(***************************************************************************)
EXTENDS Session, FiniteSetTheorems, TLAPS

USE DEF clientVars, serverVars, boundVars

\* A handshake never counts more attempts than it may make: an attempt is only
\* started below the limit.
AttemptsLeft ==
    \A c \in Clients :
        client[c] \in {"starting", "data", "completing"} => attempts[c] < ControlAttempts

\* Every state and packet has its type (Session's variables stand for the
\* locals of run_client() and run_server()).
TypeInv == TypeOK /\ AttemptsLeft

LEMMA TypeInit == Init => TypeInv
BY SessionAssumption DEF Init, TypeInv, TypeOK, AttemptsLeft, ClientState

LEMMA TypeClient ==
    ASSUME TypeInv, NEW c \in Clients, ClientStep(c)
    PROVE  TypeInv'
<1> USE SessionAssumption DEF TypeInv, TypeOK, AttemptsLeft, ClientState
<1>1. CASE SendStart(c)
  BY <1>1 DEF SendStart, Attempt, Send, StartPacket, Packet
<1>2. CASE StartTimesOut(c)
  BY <1>2 DEF StartTimesOut, TimeOut, AfterTimeout
<1>3. CASE ReceiveStartAck(c)
  BY <1>3 DEF ReceiveStartAck, EnterData
<1>4. CASE \E s \in Chunks : SendData(c, s)
  BY <1>4 DEF SendData, Send, Data, Packet
<1>5. CASE ReceiveAck(c)
  <2>1. PICK m \in Packets("ACK") :
           confirmed' = [confirmed EXCEPT ![c] = @ \union m.received]
    BY <1>5 DEF ReceiveAck
  <2>2. m.received \subseteq Chunks
    BY <2>1 DEF Packets, Packet
  <2>3. confirmed' \in [Clients -> SUBSET Chunks]
    BY <2>1, <2>2
  <2>4. QED
    BY <1>5, <2>3 DEF ReceiveAck
<1>6. CASE SendComplete(c)
  BY <1>6 DEF SendComplete, Attempt, Send, CompletePacket, Packet
<1>7. CASE CompleteTimesOut(c)
  BY <1>7 DEF CompleteTimesOut, TimeOut, AfterTimeout
<1>8. CASE ReceiveCompleteAck(c)
  BY <1>8 DEF ReceiveCompleteAck
<1>9. QED
  BY <1>1, <1>2, <1>3, <1>4, <1>5, <1>6, <1>7, <1>8 DEF ClientStep

LEMMA TypeServer ==
    ASSUME TypeInv, ServerStep
    PROVE  TypeInv'
<1> USE SessionAssumption DEF TypeInv, TypeOK, AttemptsLeft
<1>0. \A R \in SUBSET Chunks : Cardinality(R) \in Nat
  BY FS_Subset, FS_CardinalityType
<1>1. CASE RefuseStart
  BY <1>1 DEF RefuseStart, Packets, Packet, Send, StartAck, StatusCode
<1>2. CASE AcceptStart
  BY <1>2 DEF AcceptStart, Packets, Packet, Send, StartAck, StatusCode, NewTracker
<1>3. CASE FailToOpenOutput
  BY <1>3 DEF FailToOpenOutput, Packets, Packet, Send, StartAck, StatusCode
<1>4. CASE StartWhileActive
  BY <1>4 DEF StartWhileActive, Packets, Packet, Send, StartAck, StatusCode, StartStatus
<1>5. CASE ReceiveData
  <2>1. PICK c \in Clients, s \in Chunks, answered \in BOOLEAN :
           ReceiveChunk(c, s, answered)
    BY <1>5 DEF ReceiveData
  <2>2. received' \subseteq Chunks /\ output' \in [Chunks -> Clients \union {Blank}]
    BY <2>1 DEF ReceiveChunk
  <2>3. network' \subseteq Packet
    BY <2>1, <2>2 DEF ReceiveChunk, Send, Ack, Packet
  <2>4. QED
    BY <2>1, <2>2, <2>3 DEF ReceiveChunk
<1>6. CASE RejectComplete
  BY <1>6 DEF RejectComplete, Packets, Packet, Send, Ack, Owns
<1>7. CASE AcceptComplete
  BY <1>0, <1>7 DEF AcceptComplete, Packets, Packet, Send, CompleteAck, Owns
<1>8. CASE RepeatCompleteAck
  BY <1>0, <1>8 DEF RepeatCompleteAck, Packets, Packet, Send, CompleteAck
<1>9. CASE LeaveTimeWait
  BY <1>9 DEF LeaveTimeWait
<1>10. QED
  BY <1>1, <1>2, <1>3, <1>4, <1>5, <1>6, <1>7, <1>8, <1>9 DEF ServerStep

LEMMA TypeEnvironment ==
    ASSUME TypeInv, Environment
    PROVE  TypeInv'
<1> USE SessionAssumption DEF TypeInv, TypeOK, AttemptsLeft, ClientState
<1>1. CASE Crash
  BY <1>1 DEF Crash
<1>2. CASE Restart
  BY <1>2 DEF Restart
<1>3. CASE \E c \in Clients : KillClient(c)
  BY <1>3 DEF KillClient
<1>4. QED
  BY <1>1, <1>2, <1>3 DEF Environment

LEMMA TypeStep == TypeInv /\ [Next]_vars => TypeInv'
<1> SUFFICES ASSUME TypeInv, [Next]_vars PROVE TypeInv'
  OBVIOUS
<1>1. CASE UNCHANGED vars
  BY <1>1 DEF TypeInv, TypeOK, AttemptsLeft, vars
<1>2. QED
  BY <1>1, TypeClient, TypeServer, TypeEnvironment DEF Next, Finished

\* Session keeps its types: attempts stop at kControlAttempts, and only the
\* packets of the protocol are ever sent (client.cpp:452-481, 592-613).
THEOREM TypeCorrect == Spec => []TypeOK
<1>1. TypeInv => TypeOK
  BY DEF TypeInv
<1>2. QED
  BY <1>1, TypeInit, TypeStep, PTL DEF Spec

-----------------------------------------------------------------------------
(* Who owns the server, and what COMPLETE_ACK vouches for. *)

\* The server serves someone exactly while it is not waiting for a START.
OwnerKnown ==
    /\ phase \in {"active", "time_wait"} => owner \in Clients
    /\ phase = "idle" => owner = NoClient

\* A COMPLETE_ACK is sent for whole files only, and TIME_WAIT repeats it.
Vouched ==
    /\ \A m \in Packets("COMPLETE_ACK") : m.session \in stored
    /\ phase = "time_wait" => owner \in stored

StoredInv ==
    /\ TypeInv
    /\ OwnerKnown
    /\ OutputIsOwners
    /\ Vouched
    /\ SuccessMeansStored

LEMMA StoredInit == Init => StoredInv
<1> SUFFICES ASSUME Init PROVE StoredInv
  OBVIOUS
<1>1. TypeInv
  BY TypeInit
<1>2. OwnerKnown /\ OutputIsOwners /\ Vouched /\ SuccessMeansStored
  BY DEF Init, OwnerKnown, OutputIsOwners, Vouched, SuccessMeansStored, Packets
<1>3. QED
  BY <1>1, <1>2 DEF StoredInv

\* A client's step sends no COMPLETE_ACK, and ends in success only on one.
LEMMA StoredClient ==
    ASSUME StoredInv, NEW c \in Clients, ClientStep(c)
    PROVE  StoredInv'
<1>1. TypeInv'
  BY TypeClient DEF StoredInv
<1>2. UNCHANGED serverVars
  BY DEF ClientStep, SendStart, SendComplete, Attempt, StartTimesOut,
         CompleteTimesOut, TimeOut, ReceiveStartAck, SendData, ReceiveAck,
         ReceiveCompleteAck
<1>3. OwnerKnown' /\ OutputIsOwners'
  BY <1>2 DEF StoredInv, OwnerKnown, OutputIsOwners
<1>4. Packets("COMPLETE_ACK")' = Packets("COMPLETE_ACK")
  BY DEF ClientStep, SendStart, SendComplete, Attempt, StartTimesOut,
         CompleteTimesOut, TimeOut, ReceiveStartAck, SendData, ReceiveAck,
         ReceiveCompleteAck, Send, StartPacket, CompletePacket, Data, Packets
<1>5. Vouched'
  BY <1>2, <1>4 DEF StoredInv, Vouched
<1>6. \A d \in Clients :
         client'[d] = "success" =>
            client[d] = "success" \/ \E m \in Packets("COMPLETE_ACK") : m.session = d
  <2> USE DEF StoredInv, TypeInv, TypeOK, ClientState
  <2>1. CASE SendStart(c) \/ SendComplete(c)
    BY <2>1 DEF SendStart, SendComplete, Attempt
  <2>2. CASE StartTimesOut(c) \/ CompleteTimesOut(c)
    BY <2>2 DEF StartTimesOut, CompleteTimesOut, TimeOut, AfterTimeout
  <2>3. CASE ReceiveStartAck(c)
    BY <2>3 DEF ReceiveStartAck, EnterData
  <2>4. CASE \E s \in Chunks : SendData(c, s)
    BY <2>4 DEF SendData
  <2>5. CASE ReceiveAck(c)
    BY <2>5 DEF ReceiveAck
  <2>6. CASE ReceiveCompleteAck(c)
    BY <2>6 DEF ReceiveCompleteAck
  <2>7. QED
    BY <2>1, <2>2, <2>3, <2>4, <2>5, <2>6 DEF ClientStep
<1>7. SuccessMeansStored'
  BY <1>2, <1>6 DEF StoredInv, Vouched, SuccessMeansStored
<1>8. QED
  BY <1>1, <1>3, <1>5, <1>7 DEF StoredInv

\* The server vouches for a session only when the file is whole: the tracker
\* is full, and then OutputIsOwners says that every chunk is the session's.
LEMMA StoredServer ==
    ASSUME StoredInv, ServerStep
    PROVE  StoredInv'
<1>0. TypeInv'
  BY TypeServer DEF StoredInv
<1>a. client' = client /\ stored \subseteq stored'
  BY DEF ServerStep, RefuseStart, AcceptStart, FailToOpenOutput,
         StartWhileActive, ReceiveData, ReceiveChunk, RejectComplete,
         AcceptComplete, RepeatCompleteAck, LeaveTimeWait
<1>b. SuccessMeansStored'
  BY <1>a DEF StoredInv, SuccessMeansStored
<1> USE DEF StoredInv, TypeInv, TypeOK
<1>1. CASE RefuseStart
  BY <1>0, <1>b, <1>1 DEF RefuseStart, Packets, Send, StartAck, OwnerKnown,
     OutputIsOwners, Vouched
<1>2. CASE AcceptStart
  <2>1. OwnerKnown'
    BY <1>2 DEF AcceptStart, Packets, Packet, OwnerKnown
  <2>2. OutputIsOwners'
    BY <1>2 DEF AcceptStart, NewTracker, OutputIsOwners
  <2>3. Vouched'
    BY <1>2 DEF AcceptStart, Packets, Send, StartAck, Vouched
  <2>4. QED
    BY <1>0, <1>b, <2>1, <2>2, <2>3
<1>3. CASE FailToOpenOutput
  BY <1>0, <1>b, <1>3 DEF FailToOpenOutput, Packets, Send, StartAck, OwnerKnown,
     OutputIsOwners, Vouched
<1>4. CASE StartWhileActive
  BY <1>0, <1>b, <1>4 DEF StartWhileActive, Packets, Send, StartAck, OwnerKnown,
     OutputIsOwners, Vouched
<1>5. CASE ReceiveData
  <2>1. PICK c \in Clients, s \in Chunks, answered \in BOOLEAN :
           ReceiveChunk(c, s, answered)
    BY <1>5 DEF ReceiveData
  <2>2. OwnerKnown'
    BY <2>1 DEF ReceiveChunk, OwnerKnown
  <2>3. output' = [t \in Chunks |-> IF t \in received' THEN owner ELSE Blank]
    BY <2>1 DEF ReceiveChunk, Owns, OutputIsOwners
  <2>4. OutputIsOwners'
    BY <2>1, <2>3 DEF ReceiveChunk, OutputIsOwners
  <2>5. Vouched'
    BY <2>1 DEF ReceiveChunk, Owns, Packets, Send, Ack, Vouched
  <2>6. QED
    BY <1>0, <1>b, <2>2, <2>4, <2>5
<1>6. CASE RejectComplete
  BY <1>0, <1>b, <1>6 DEF RejectComplete, Packets, Send, Ack, OwnerKnown,
     OutputIsOwners, Vouched
<1>7. CASE AcceptComplete
  <2>1. phase = "active" /\ owner \in Clients /\ received = Chunks
    BY <1>7 DEF AcceptComplete, Owns, TransferComplete, OwnerKnown
  <2>2. \A s \in Chunks : output[s] = owner
    BY <2>1 DEF OutputIsOwners
  <2>3. owner \in stored'
    BY <1>7, <2>2 DEF AcceptComplete
  <2>4. OwnerKnown' /\ OutputIsOwners'
    BY <1>7, <2>1 DEF AcceptComplete, OwnerKnown, OutputIsOwners
  <2>5. Vouched'
    BY <1>7, <1>a, <2>3 DEF AcceptComplete, Packets, Send, CompleteAck, Vouched
  <2>6. QED
    BY <1>0, <1>b, <2>4, <2>5
<1>8. CASE RepeatCompleteAck
  BY <1>0, <1>b, <1>8 DEF RepeatCompleteAck, Packets, Send, CompleteAck,
     OwnerKnown, OutputIsOwners, Vouched
<1>9. CASE LeaveTimeWait
  BY <1>0, <1>b, <1>9 DEF LeaveTimeWait, Packets, OwnerKnown, OutputIsOwners, Vouched
<1>10. QED
  BY <1>1, <1>2, <1>3, <1>4, <1>5, <1>6, <1>7, <1>8, <1>9 DEF ServerStep

LEMMA StoredStep == StoredInv /\ [Next]_vars => StoredInv'
<1> SUFFICES ASSUME StoredInv, [Next]_vars PROVE StoredInv'
  OBVIOUS
<1> USE DEF StoredInv, OwnerKnown, OutputIsOwners, Vouched, SuccessMeansStored, Packets
<1>1. CASE Environment
  <2>0. TypeInv'
    BY <1>1, TypeEnvironment
  <2>1. CASE Crash
    BY <2>0, <2>1 DEF Crash
  <2>2. CASE Restart
    BY <2>0, <2>2 DEF Restart
  <2>3. CASE \E c \in Clients : KillClient(c)
    BY <2>0, <2>3 DEF KillClient, TypeInv, TypeOK
  <2>4. QED
    BY <1>1, <2>1, <2>2, <2>3 DEF Environment
<1>2. CASE UNCHANGED vars
  BY <1>2 DEF vars, TypeInv, TypeOK, AttemptsLeft
<1>3. QED
  BY <1>1, <1>2, StoredClient, StoredServer DEF Next, Finished

\* A client reports success only for a file that was whole on the server's
\* disk, whatever crashes, restarts and delayed packets came between.
THEOREM SuccessIsSafe == Spec => []SuccessMeansStored
<1>1. StoredInv => SuccessMeansStored
  BY DEF StoredInv
<1>2. QED
  BY <1>1, StoredInit, StoredStep, PTL DEF Spec

\* No bytes of another session enter the output file of the one that owns the
\* server.
THEOREM OutputIsSafe == Spec => []OutputIsOwners
<1>1. StoredInv => OutputIsOwners
  BY DEF StoredInv
<1>2. QED
  BY <1>1, StoredInit, StoredStep, PTL DEF Spec

\* The server passes from one session to another only through a restart.
THEOREM OwnershipIsSafe == Spec => OwnerKept
<1>1. StoredInv /\ [Next]_vars =>
         [owner # NoClient /\ owner' # owner => starts' > starts]_vars
  <2> SUFFICES ASSUME StoredInv, Next, owner # NoClient, owner' # owner
               PROVE  starts' > starts
    OBVIOUS
  <2>1. ~AcceptStart
    BY DEF AcceptStart, CanAccept, StoredInv, OwnerKnown
  <2>2. Restart
    BY <2>1 DEF Next, Finished, vars, ClientStep, SendStart, SendComplete,
       Attempt, StartTimesOut, CompleteTimesOut, TimeOut, ReceiveStartAck,
       SendData, ReceiveAck, ReceiveCompleteAck, ServerStep, RefuseStart,
       FailToOpenOutput, StartWhileActive, ReceiveData, ReceiveChunk,
       RejectComplete, AcceptComplete, RepeatCompleteAck, LeaveTimeWait,
       Environment, Crash, KillClient
  <2>3. QED
    BY <2>2 DEF Restart, StoredInv, TypeInv, TypeOK
<1>2. QED
  BY <1>1, StoredInit, StoredStep, PTL DEF Spec, OwnerKept

-----------------------------------------------------------------------------
(* A stored file is not touched again.                                      *)

\* A server that waits for its first START has stored nothing.
FreshInv == phase = "idle" => starts > 1 \/ stored = {}

\* Only AcceptComplete adds to stored, and only Restart makes the server wait.
LEMMA FreshStep == TypeInv /\ FreshInv /\ [Next]_vars => FreshInv'
<1> SUFFICES ASSUME TypeInv, FreshInv, [Next]_vars, phase' = "idle"
             PROVE  starts' > 1 \/ stored' = {}
  BY DEF FreshInv
<1>1. Restart \/ (phase = "idle" /\ UNCHANGED <<stored, starts>>)
  <2>1. CASE \E c \in Clients : ClientStep(c)
    BY <2>1 DEF ClientStep, SendStart, SendComplete, Attempt, StartTimesOut,
       CompleteTimesOut, TimeOut, ReceiveStartAck, SendData, ReceiveAck,
       ReceiveCompleteAck, serverVars, boundVars
  <2>2. CASE ServerStep
    BY <2>2 DEF ServerStep, RefuseStart, FailToOpenOutput, StartWhileActive,
       ReceiveData, ReceiveChunk, Owns, RejectComplete, AcceptStart, AcceptComplete,
       RepeatCompleteAck, LeaveTimeWait, serverVars, boundVars
  <2>3. CASE Environment
    BY <2>3 DEF Environment, Crash, KillClient, serverVars, boundVars
  <2>4. CASE Finished \/ UNCHANGED vars
    BY <2>4 DEF Finished, vars, serverVars, boundVars
  <2>5. QED
    BY <2>1, <2>2, <2>3, <2>4 DEF Next
<1>2. CASE Restart
  <2>1. starts \in Nat /\ starts >= 1 /\ starts' = starts + 1
    BY <1>2, SessionAssumption DEF Restart, TypeInv, TypeOK
  <2>2. QED
    BY <2>1
<1>3. QED
  BY <1>1, <1>2 DEF FreshInv

\* A whole file changes only when a server started anew accepts a START, or
\* fails to: while a session is active the chunks still to be written are blank.
THEOREM StoredIsKept == Spec => StoredKept
<1>1. ASSUME StoredInv, FreshInv, Next, NEW c \in stored,
             \A s \in Chunks : output[s] = c, output' # output
      PROVE  phase = "idle" /\ starts > 1
  <2>1. c \in Clients /\ starts \in Nat
    BY <1>1, SessionAssumption DEF StoredInv, TypeInv, TypeOK
  <2>2. AcceptStart \/ FailToOpenOutput \/ ReceiveData
    BY <1>1 DEF Next, Finished, vars, ClientStep, SendStart, SendComplete,
       Attempt, StartTimesOut, CompleteTimesOut, TimeOut, ReceiveStartAck,
       SendData, ReceiveAck, ReceiveCompleteAck, ServerStep, RefuseStart,
       StartWhileActive, RejectComplete, AcceptComplete, RepeatCompleteAck,
       LeaveTimeWait, Environment, Crash, Restart, KillClient, serverVars
  <2>3. ~ReceiveData
    <3>1. SUFFICES ASSUME NEW d \in Clients, NEW s \in Chunks,
                          NEW answered \in BOOLEAN, ReceiveChunk(d, s, answered)
                   PROVE  FALSE
      BY DEF ReceiveData
    <3>2. s \notin received /\ phase = "active"
      BY <1>1, <3>1 DEF ReceiveChunk, Owns
    <3>3. output[s] = Blank
      BY <1>1, <3>2 DEF StoredInv, OutputIsOwners
    <3>4. QED
      BY <1>1, <2>1, <3>3, SessionAssumption
  <2>4. phase = "idle"
    BY <2>2, <2>3 DEF AcceptStart, CanAccept, FailToOpenOutput
  <2>5. QED
    BY <1>1, <2>4 DEF FreshInv
<1>2. StoredInv /\ FreshInv /\ [Next]_vars =>
         [(\E c \in stored : \A s \in Chunks : output[s] = c) /\ output' # output
             => phase = "idle" /\ starts > 1]_vars
  BY <1>1
<1>3. Init => FreshInv
  BY DEF Init, FreshInv
<1>4. StoredInv => TypeInv
  BY DEF StoredInv
<1>5. QED
  BY <1>2, <1>3, <1>4, StoredInit, StoredStep, FreshStep, PTL DEF Spec, StoredKept

-----------------------------------------------------------------------------
(* Without a crash, the client's ACKs are the server's.                     *)

\* The client has not left the data phase.
Before(c) == client[c] \in {"starting", "await_start", "data"}

\* COMPLETE is sent after the data phase only; a START_ACK of OK, an ACK, and
\* a client in its data loop all mean that the server is still theirs.
AcksInv ==
    crashes = 0 =>
        /\ \A m \in Packets("COMPLETE") : ~Before(m.session)
        /\ \A m \in Packets("START_ACK") :
              m.status = "OK" /\ Before(m.session) => Owns(m.session)
        /\ \A m \in Packets("ACK") :
              Before(m.session) => Owns(m.session) /\ m.received \subseteq received
        /\ \A c \in Clients : client[c] = "data" => Owns(c)
        /\ \A c \in Clients : client[c] \in {"starting", "await_start"} => confirmed[c] = {}
        /\ \A c \in Clients : client[c] = "data" => confirmed[c] \subseteq received

LEMMA AcksClient ==
    ASSUME StoredInv, AcksInv, NEW c \in Clients, ClientStep(c)
    PROVE  AcksInv'
<1> USE DEF AcksInv, Packets, Before, Owns, StoredInv, TypeInv, TypeOK, ClientState
<1>1. CASE SendStart(c)
  BY <1>1 DEF SendStart, Attempt, Send, StartPacket
<1>2. CASE StartTimesOut(c)
  BY <1>2 DEF StartTimesOut, TimeOut, AfterTimeout
<1>3. CASE ReceiveStartAck(c)
  BY <1>3 DEF ReceiveStartAck, EnterData
<1>4. CASE \E s \in Chunks : SendData(c, s)
  BY <1>4 DEF SendData, Send, Data
<1>5. CASE ReceiveAck(c)
  <2>1. PICK m \in Packets("ACK") :
           m.session = c /\ confirmed' = [confirmed EXCEPT ![c] = @ \union m.received]
    BY <1>5 DEF ReceiveAck
  <2>2. crashes = 0 => confirmed'[c] \subseteq received
    BY <1>5, <2>1 DEF ReceiveAck
  <2>3. QED
    BY <1>5, <2>1, <2>2 DEF ReceiveAck
<1>6. CASE SendComplete(c)
  BY <1>6 DEF SendComplete, Attempt, Send, CompletePacket
<1>7. CASE CompleteTimesOut(c)
  BY <1>7 DEF CompleteTimesOut, TimeOut, AfterTimeout
<1>8. CASE ReceiveCompleteAck(c)
  BY <1>8 DEF ReceiveCompleteAck
<1>9. QED
  BY <1>1, <1>2, <1>3, <1>4, <1>5, <1>6, <1>7, <1>8 DEF ClientStep

LEMMA AcksServer ==
    ASSUME StoredInv, AcksInv, ServerStep
    PROVE  AcksInv'
<1> USE DEF AcksInv, Packets, Before, Owns, StoredInv, OwnerKnown, TypeInv, TypeOK
<1>1. CASE RefuseStart
  BY <1>1 DEF RefuseStart, Send, StartAck
<1>2. CASE AcceptStart
  BY <1>2 DEF AcceptStart, CanAccept, Send, StartAck
<1>3. CASE FailToOpenOutput
  BY <1>3 DEF FailToOpenOutput
<1>4. CASE StartWhileActive
  BY <1>4 DEF StartWhileActive, StartStatus, Send, StartAck
<1>5. CASE ReceiveData
  <2>1. PICK c \in Clients, s \in Chunks, answered \in BOOLEAN :
           ReceiveChunk(c, s, answered)
    BY <1>5 DEF ReceiveData
  <2>2. QED
    BY <2>1 DEF ReceiveChunk, Send, Ack
<1>6. CASE RejectComplete
  BY <1>6 DEF RejectComplete, Send, Ack
<1>7. CASE AcceptComplete
  BY <1>7 DEF AcceptComplete, Send, CompleteAck
<1>8. CASE RepeatCompleteAck
  BY <1>8 DEF RepeatCompleteAck, Send, CompleteAck
<1>9. CASE LeaveTimeWait
  BY <1>9 DEF LeaveTimeWait
<1>10. QED
  BY <1>1, <1>2, <1>3, <1>4, <1>5, <1>6, <1>7, <1>8, <1>9 DEF ServerStep

LEMMA AcksStep == StoredInv /\ AcksInv /\ [Next]_vars => AcksInv'
<1> SUFFICES ASSUME StoredInv, AcksInv, [Next]_vars PROVE AcksInv'
  OBVIOUS
<1> USE DEF AcksInv, Packets, Before, Owns
<1>1. CASE Crash
  BY <1>1 DEF Crash, StoredInv, TypeInv, TypeOK
<1>2. CASE Restart
  BY <1>2 DEF Restart
<1>3. CASE \E c \in Clients : KillClient(c)
  BY <1>3 DEF KillClient, StoredInv, TypeInv, TypeOK
<1>4. CASE UNCHANGED vars
  BY <1>4 DEF vars
<1>5. QED
  BY <1>1, <1>2, <1>3, <1>4, AcksClient, AcksServer DEF Next, Finished, Environment

\* In the absence of crashes a client in its data loop owns the server, and
\* every chunk it has seen ACKed is in that server's tracker.
THEOREM ConfirmedIsSafe == Spec => []ConfirmedIsReceived
<1>1. Init => AcksInv
  BY DEF Init, AcksInv, Packets, Before
<1>2. AcksInv => ConfirmedIsReceived
  BY DEF AcksInv, ConfirmedIsReceived, Owns
<1>3. QED
  BY <1>1, <1>2, StoredInit, StoredStep, AcksStep, PTL DEF Spec
=============================================================================
