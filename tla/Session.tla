------------------------------- MODULE Session -------------------------------
(***************************************************************************)
(* A server and the clients that try to send it a file: the START          *)
(* handshake, the ownership of the server by one session, the COMPLETE     *)
(* handshake and TIME_WAIT (run_client() outside its data loop, run_server *)
(* and time_wait()).  The data phase is reduced to what DataTransfer shows *)
(* of it: chunks reach the server in any order, and the client learns from *)
(* ACKs which did.                                                         *)
(*                                                                         *)
(* A client is one run of the client program; its name stands for its      *)
(* endpoint and its random session_id, both different from every other     *)
(* run's.  The server program serves one transfer and exits.  It may also  *)
(* be killed, and be started again on the same port with the same output   *)
(* path; only the output file survives.                                    *)
(*                                                                         *)
(* The network is the set of datagrams ever sent.  Each may arrive at any  *)
(* time later, also after the process that sent it has ended, any number   *)
(* of times or, when it is lost, never.                                    *)
(*                                                                         *)
(* Timeouts are not timed: a client may give up waiting, and the server    *)
(* leave TIME_WAIT, at any moment.                                         *)
(***************************************************************************)
EXTENDS Integers, FiniteSets

CONSTANTS
    Clients,          \* the runs of the client program
    Chunks,           \* the chunks of every file
    WrongMtu,         \* the clients started with another --mtu than the server
    ZeroRate,         \* the clients whose --rate truncates to 0 bit/s
    Killable,         \* the clients that may be killed
    ControlAttempts,  \* kControlAttempts
    MaxStarts,        \* bound: times the server program is started
    MaxCrashes,       \* bound: times the server program is killed or fails
    NoClient,         \* no session
    Blank             \* the contents of a chunk not written yet

ASSUME SessionAssumption ==
    /\ IsFiniteSet(Chunks)
    /\ WrongMtu \subseteq Clients
    /\ ZeroRate \subseteq Clients
    /\ Killable \subseteq Clients
    /\ ControlAttempts \in Nat \ {0}
    /\ MaxStarts \in Nat \ {0}
    /\ MaxCrashes \in Nat
    /\ NoClient \notin Clients
    /\ Blank \notin Clients

StatusCode == {"OK", "BUSY", "INVALID_REQUEST", "IO_ERROR"}

VARIABLES
    client,     \* where each client's thread stands
    attempts,   \* packets sent in the client's current handshake
    confirmed,  \* the chunks each client has seen ACKed
    phase,      \* where the server's thread stands
    owner,      \* the client whose session the server has accepted
    received,   \* the chunks the tracker has recorded
    output,     \* whose bytes each chunk of the output file holds
    starts,     \* times the server program was started
    crashes,    \* times it was killed or failed
    network,    \* the datagrams sent so far
    stored      \* history: the clients whose file was whole on disk at a sync()

clientVars == <<client, attempts, confirmed>>
serverVars == <<phase, owner, received, output, stored>>
boundVars == <<starts, crashes>>
vars == <<clientVars, serverVars, boundVars, network>>

ClientState ==
    {"starting", "await_start", "data", "completing", "await_complete",
     "success", "failed"}

Init ==
    /\ client = [c \in Clients |-> "starting"]
    /\ attempts = [c \in Clients |-> 0]
    /\ confirmed = [c \in Clients |-> {}]
    /\ phase = "idle"
    /\ owner = NoClient
    /\ received = {}
    /\ output = [s \in Chunks |-> Blank]
    /\ starts = 1
    /\ crashes = 0
    /\ network = {}
    /\ stored = {}

-----------------------------------------------------------------------------
(* Variants: plausible defects of the operators below. *)

Owns_AnySession(c) == phase = "active"

CanAccept_InTimeWait == phase \in {"idle", "time_wait"}

NewTracker_KeepsChunks == {s \in Chunks : output[s] # Blank}

StartStatus_AlwaysOk(c) == "OK"

AckRule_OnlyNewChunks(s, answered) == answered => s \notin received

AfterTimeout_NoLimit(c, again) == again

-----------------------------------------------------------------------------
(* Packets. *)

StartPacket(c) == [type |-> "START", session |-> c]
StartAck(c, status) == [type |-> "START_ACK", session |-> c, status |-> status]
Data(c, s) == [type |-> "DATA", session |-> c, number |-> s]
Ack(c, R) == [type |-> "ACK", session |-> c, received |-> R]
CompletePacket(c) == [type |-> "COMPLETE", session |-> c]
CompleteAck(c, n) == [type |-> "COMPLETE_ACK", session |-> c, received_chunks |-> n]

Packet ==
    [type : {"START", "COMPLETE"}, session : Clients]
        \union [type : {"START_ACK"}, session : Clients, status : StatusCode]
        \union [type : {"DATA"}, session : Clients, number : Chunks]
        \union [type : {"ACK"}, session : Clients, received : SUBSET Chunks]
        \union [type : {"COMPLETE_ACK"}, session : Clients, received_chunks : Nat]

Packets(type) == {m \in network : m.type = type}

Send(packet) == network' = network \union {packet}

-----------------------------------------------------------------------------
(* The client. *)

\* send_packet() of one attempt of a handshake.
Attempt(c, from, packet, to) ==
    /\ client[c] = from
    /\ Send(packet)
    /\ attempts' = [attempts EXCEPT ![c] = @ + 1]
    /\ client' = [client EXCEPT ![c] = to]
    /\ UNCHANGED <<confirmed, serverVars, boundVars>>

SendStart(c) == Attempt(c, "starting", StartPacket(c), "await_start")

SendComplete(c) == Attempt(c, "completing", CompletePacket(c), "await_complete")

\* The loop of attempts ends after kControlAttempts of them.
AfterTimeout(c, again) == IF attempts[c] < ControlAttempts THEN again ELSE "failed"

\* receive_expected() returned false.
TimeOut(c, from, again) ==
    /\ client[c] = from
    /\ client' = [client EXCEPT ![c] = AfterTimeout(c, again)]
    /\ UNCHANGED <<attempts, confirmed, serverVars, boundVars, network>>

StartTimesOut(c) == TimeOut(c, "await_start", "starting")

CompleteTimesOut(c) == TimeOut(c, "await_complete", "completing")

\* After the loop over the chunks comes the COMPLETE handshake, with attempts
\* of its own.
EnterData(c) == IF Chunks = {} THEN "completing" ELSE "data"

\* A START_ACK of the session.  Any status but OK ends the client at once; so
\* does a Pacer of 0 bit/s, which is constructed after the server has accepted.
ReceiveStartAck(c) ==
    /\ client[c] = "await_start"
    /\ \E m \in Packets("START_ACK") :
        /\ m.session = c
        /\ client' = [client EXCEPT ![c] =
                        IF m.status = "OK" /\ c \notin ZeroRate
                        THEN EnterData(c) ELSE "failed"]
    /\ attempts' = [attempts EXCEPT ![c] = 0]
    /\ UNCHANGED <<confirmed, serverVars, boundVars, network>>

\* One DATA packet, new or retransmitted, of a chunk not known to be received.
SendData(c, s) ==
    /\ client[c] = "data"
    /\ s \notin confirmed[c]
    /\ Send(Data(c, s))
    /\ UNCHANGED <<clientVars, serverVars, boundVars>>

\* An ACK of the session, applied while the data loop runs; the loop ends when
\* every chunk is ACKed.
ReceiveAck(c) ==
    /\ client[c] = "data"
    /\ \E m \in Packets("ACK") :
        /\ m.session = c
        /\ confirmed' = [confirmed EXCEPT ![c] = @ \union m.received]
    /\ client' = [client EXCEPT ![c] =
                    IF confirmed'[c] = Chunks THEN "completing" ELSE "data"]
    /\ UNCHANGED <<attempts, serverVars, boundVars, network>>

\* The statistics in the COMPLETE_ACK are those of the file.
StatisticsMatch(m) == m.received_chunks = Cardinality(Chunks)

ReceiveCompleteAck(c) ==
    /\ client[c] = "await_complete"
    /\ \E m \in Packets("COMPLETE_ACK") :
        /\ m.session = c
        /\ client' = [client EXCEPT ![c] =
                        IF StatisticsMatch(m) THEN "success" ELSE "failed"]
    /\ UNCHANGED <<attempts, confirmed, serverVars, boundVars, network>>

\* The user or the system kills the client.
KillClient(c) ==
    /\ c \in Killable
    /\ client[c] \notin {"success", "failed"}
    /\ client' = [client EXCEPT ![c] = "failed"]
    /\ UNCHANGED <<attempts, confirmed, serverVars, boundVars, network>>

-----------------------------------------------------------------------------
(* The server. *)

\* A START while the server waits for its client: refused when the client's
\* chunk size is not the server's.
RefuseStart ==
    /\ phase = "idle"
    /\ \E m \in Packets("START") :
        /\ m.session \in WrongMtu
        /\ Send(StartAck(m.session, "INVALID_REQUEST"))
    /\ UNCHANGED <<clientVars, serverVars, boundVars>>

CanAccept == phase = "idle"

NewTracker == {}

\* Otherwise the output file is created, or truncated if it is there, and the
\* session owns the server from now on.
AcceptStart ==
    /\ CanAccept
    /\ \E m \in Packets("START") :
        /\ m.session \notin WrongMtu
        /\ Send(StartAck(m.session, "OK"))
        /\ owner' = m.session
    /\ phase' = "active"
    /\ received' = NewTracker
    /\ output' = [s \in Chunks |-> Blank]
    /\ UNCHANGED <<clientVars, boundVars, stored>>

\* The output file cannot be opened, or cannot be sized or mapped once opened
\* and truncated: the server reports it and exits.
FailToOpenOutput ==
    /\ phase = "idle"
    /\ crashes < MaxCrashes
    /\ \E m \in Packets("START") :
        /\ m.session \notin WrongMtu
        /\ Send(StartAck(m.session, "IO_ERROR"))
    /\ output' \in {output, [s \in Chunks |-> Blank]}
    /\ phase' = "exited"
    /\ crashes' = crashes + 1
    /\ UNCHANGED <<clientVars, owner, received, stored, starts>>

\* A START while a session is active: accepted again for the owner, BUSY for
\* everyone else.
StartStatus(c) == IF c = owner THEN "OK" ELSE "BUSY"

StartWhileActive ==
    /\ phase = "active"
    /\ \E m \in Packets("START") : Send(StartAck(m.session, StartStatus(m.session)))
    /\ UNCHANGED <<clientVars, serverVars, boundVars>>

\* The filter of the main loop.
Owns(c) == phase = "active" /\ owner = c

\* A duplicate and the packet that completes the file are answered at once, any
\* other now or later (DataTransfer has the rule).
AckRule(s, answered) == ~answered => s \notin received /\ received' # Chunks

\* A DATA packet of the session: written and recorded the first time.
ReceiveChunk(c, s, answered) ==
    /\ Owns(c)
    /\ Data(c, s) \in network
    /\ received' = received \union {s}
    /\ output' = IF s \in received THEN output ELSE [output EXCEPT ![s] = c]
    /\ AckRule(s, answered)
    /\ IF answered THEN Send(Ack(c, received')) ELSE UNCHANGED network
    /\ UNCHANGED <<clientVars, phase, owner, boundVars, stored>>

ReceiveData ==
    \E c \in Clients, s \in Chunks, answered \in BOOLEAN : ReceiveChunk(c, s, answered)

\* What run_server() tests before it answers COMPLETE with success.
TransferComplete == received = Chunks

\* COMPLETE of a session that lacks chunks is answered with an ACK.
RejectComplete ==
    /\ \E m \in Packets("COMPLETE") :
        /\ Owns(m.session)
        /\ ~TransferComplete
        /\ Send(Ack(owner, received))
    /\ UNCHANGED <<clientVars, serverVars, boundVars>>

\* COMPLETE of a whole file: sync(), COMPLETE_ACK, TIME_WAIT.
AcceptComplete ==
    /\ \E m \in Packets("COMPLETE") :
        /\ Owns(m.session)
        /\ TransferComplete
        /\ Send(CompleteAck(owner, Cardinality(received)))
    /\ phase' = "time_wait"
    /\ stored' = IF \A s \in Chunks : output[s] = owner
                 THEN stored \union {owner} ELSE stored
    /\ UNCHANGED <<clientVars, owner, received, output, boundVars>>

\* time_wait() answers the COMPLETEs of its session, and nothing else.
RepeatCompleteAck ==
    /\ phase = "time_wait"
    /\ \E m \in Packets("COMPLETE") :
        /\ m.session = owner
        /\ Send(CompleteAck(owner, Cardinality(received)))
    /\ UNCHANGED <<clientVars, serverVars, boundVars>>

LeaveTimeWait ==
    /\ phase = "time_wait"
    /\ phase' = "exited"
    /\ UNCHANGED <<clientVars, owner, received, output, stored, boundVars, network>>

Crash ==
    /\ phase # "exited"
    /\ crashes < MaxCrashes
    /\ phase' = "exited"
    /\ crashes' = crashes + 1
    /\ UNCHANGED <<clientVars, owner, received, output, stored, starts, network>>

Restart ==
    /\ phase = "exited"
    /\ starts < MaxStarts
    /\ phase' = "idle"
    /\ owner' = NoClient
    /\ received' = {}
    /\ starts' = starts + 1
    /\ UNCHANGED <<clientVars, output, stored, crashes, network>>

-----------------------------------------------------------------------------

Ended(c) == client[c] \in {"success", "failed"}

\* Every client has ended; the server may be left waiting for ever.
Finished == (\A c \in Clients : Ended(c)) /\ UNCHANGED vars

ClientStep(c) ==
    \/ SendStart(c)
    \/ StartTimesOut(c)
    \/ ReceiveStartAck(c)
    \/ \E s \in Chunks : SendData(c, s)
    \/ ReceiveAck(c)
    \/ SendComplete(c)
    \/ CompleteTimesOut(c)
    \/ ReceiveCompleteAck(c)

ServerStep ==
    \/ RefuseStart
    \/ AcceptStart
    \/ FailToOpenOutput
    \/ StartWhileActive
    \/ ReceiveData
    \/ RejectComplete
    \/ AcceptComplete
    \/ RepeatCompleteAck
    \/ LeaveTimeWait

Environment == Crash \/ Restart \/ (\E c \in Clients : KillClient(c))

Next == (\E c \in Clients : ClientStep(c)) \/ ServerStep \/ Environment \/ Finished

Spec == Init /\ [][Next]_vars

-----------------------------------------------------------------------------
(* Fairness: the processes run, and a datagram that is sent over and over  *)
(* arrives.  Nothing is assumed of the handshakes' packets, which are sent *)
(* kControlAttempts times at most.                                         *)

Handshake(c) ==
    SendStart(c) \/ StartTimesOut(c) \/ SendComplete(c) \/ CompleteTimesOut(c)

LearnsMore(c) == ReceiveAck(c) /\ confirmed' # confirmed

Fairness ==
    /\ \A c \in Clients : WF_vars(Handshake(c)) /\ WF_vars(LearnsMore(c))
    /\ \A c \in Clients, s \in Chunks :
          WF_vars(SendData(c, s)) /\ WF_vars(ReceiveChunk(c, s, TRUE))
    /\ WF_vars(LeaveTimeWait)

FairSpec == Spec /\ Fairness

-----------------------------------------------------------------------------
(* Properties. *)

TypeOK ==
    /\ client \in [Clients -> ClientState]
    /\ attempts \in [Clients -> 0 .. ControlAttempts]
    /\ confirmed \in [Clients -> SUBSET Chunks]
    /\ phase \in {"idle", "active", "time_wait", "exited"}
    /\ owner \in Clients \union {NoClient}
    /\ received \subseteq Chunks
    /\ output \in [Chunks -> Clients \union {Blank}]
    /\ starts \in 1 .. MaxStarts
    /\ crashes \in 0 .. MaxCrashes
    /\ network \subseteq Packet
    /\ stored \subseteq Clients

\* A client reports "Transfer complete" only if its whole file was on the
\* server's disk at a sync().  This is so although the client's ACKs may have
\* come from a server that was killed, and a delayed START of the same session
\* may have opened an empty file on the one that replaced it: the new server
\* does not vouch for chunks it has not received (server.cpp:400-408).
SuccessMeansStored == \A c \in Clients : client[c] = "success" => c \in stored

\* While a session owns the server, the output file holds that session's
\* bytes exactly where the tracker says so, and no one's anywhere else: no
\* datagram of another client or of an earlier owner gets in.
OutputIsOwners ==
    phase \in {"active", "time_wait"} =>
        output = [s \in Chunks |-> IF s \in received THEN owner ELSE Blank]

\* The server is never handed from one session to another: a second client,
\* or a delayed START of an earlier one, takes it only after a restart.
OwnerKept ==
    [][owner # NoClient /\ owner' # owner => starts' > starts]_vars

\* A file that is whole on disk stays so, through late DATA, repeated STARTs and
\* COMPLETEs, kills of either program and the end of the server, until a server
\* that was started anew accepts a START.  That START may be a delayed one of
\* the very session that stored the file (file_io.cpp:158).
StoredKept ==
    [][(\E c \in stored : \A s \in Chunks : output[s] = c) /\ output' # output
           => phase = "idle" /\ starts > 1]_vars

\* Without a crash of the server, a chunk the client has seen ACKed is in the
\* tracker as long as the session lasts.
ConfirmedIsReceived ==
    crashes = 0 =>
        \A c \in Clients : client[c] = "data" => owner = c /\ confirmed[c] \subseteq received

\* Every run of the client ends, though its file may not be transferred, when
\* no server crashes: handshakes give up, and the data loop, which has no
\* limit of its own, has a server that goes on answering.
ClientsEnd == \A c \in Clients : <>Ended(c)
=============================================================================
