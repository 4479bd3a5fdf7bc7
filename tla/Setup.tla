-------------------------------- MODULE Setup --------------------------------
(***************************************************************************)
(* What a client and a server work out from their options, and whether it  *)
(* fits: chunk size, number of chunks, window, pacing rate, and for every  *)
(* chunk its offset and size, which each end computes for itself           *)
(* (parse_options(), chunk_size_for_mtu(), chunk_count(), run_client(),    *)
(* run_server()).                                                          *)
(*                                                                         *)
(* Integers keep their width: U16, U32 and U64 stand for 2^16, 2^32, 2^64. *)
(* Loss and repetition of packets are left to Session and DataTransfer:    *)
(* here a packet that is sent arrives once, in any order.                  *)
(***************************************************************************)
EXTENDS Integers, FiniteSets, FiniteSetsExt

CONSTANTS
    U16, U32, U64,          \* one above the largest value of each width
    Overhead,               \* kIpv4UdpOverhead + kHeaderSize
    DefaultWindowBytes,     \* kDefaultWindowBytes
    DefaultAckBitmapBits,   \* kDefaultAckBitmapBits
    MtuArguments,           \* the numbers given to --mtu
    FileSizes,              \* the sizes of input files
    PathMtus                \* the MTUs of paths between the programs

\* uint16_t holds the bitmap's length, uint32_t the window that must not be
\* truncated, and a file size is an off_t, half of a uint64_t.
ASSUME SetupAssumption ==
    /\ {Overhead, U16, U32, U64} \subseteq Nat
    /\ Overhead < U16 /\ U16 <= U32 /\ U32 <= U64
    /\ DefaultAckBitmapBits \in 1 .. U16 - 1
    /\ DefaultWindowBytes \in 1 .. U32 - 1
    /\ MtuArguments \subseteq 0 .. U64 - 1
    /\ FileSizes \subseteq 0 .. (U64 \div 2) - 1
    /\ PathMtus \subseteq Nat

\* --rate, in Mbit/s: an ordinary one, one below 1 bit/s, and one that times
\* 10^6 does not fit a uint64_t.
Rates == {"ordinary", "tiny", "huge"}

Nothing == [type |-> "nothing"]

VARIABLES
    client,      \* where the client stands
    server,      \* where the server stands
    file_size,   \* input.size()
    client_mtu,  \* options.mtu of the client
    rate,        \* options.rate_mbps
    server_mtu,  \* options.mtu of the server
    path_mtu,    \* the MTU of the path from the client to the server
    start,       \* the START packet's payload
    accepted,    \* the START_ACK packet's payload
    received,    \* the chunks in the server's tracker
    output       \* for each byte written in the output, the input byte it holds

options == <<file_size, client_mtu, rate, server_mtu, path_mtu>>
vars == <<client, server, options, start, accepted, received, output>>

Init ==
    /\ client = "new"
    /\ server = "new"
    /\ file_size \in FileSizes
    /\ client_mtu \in {m % U32 : m \in MtuArguments}
    /\ server_mtu \in {m % U32 : m \in MtuArguments}
    /\ rate \in Rates
    /\ path_mtu \in PathMtus
    /\ start = Nothing
    /\ accepted = Nothing
    /\ received = {}
    /\ output = <<>>

-----------------------------------------------------------------------------
(* Chunks.  Where the code throws, there is a condition of the same name.  *)

\* chunk_size_for_mtu() throws otherwise.
ValidMtu(mtu) == Overhead < mtu /\ mtu < U16

ChunkSize(mtu) == mtu - Overhead

Ceiling(a, b) == a \div b + (IF a % b # 0 THEN 1 ELSE 0)

\* chunk_count() throws otherwise.
Countable(size, chunk_size) == chunk_size # 0 /\ Ceiling(size, chunk_size) < U32

ChunkCount(size, chunk_size) == Ceiling(size, chunk_size)

\* The client's window of about DefaultWindowBytes, in chunks.
WindowChunks(chunk_size) ==
    ((DefaultWindowBytes + chunk_size - 1) % U64) \div chunk_size

-----------------------------------------------------------------------------
(* Variants: plausible defects of the operators below. *)

Offset_32Bits(s, chunk_size) == (s * chunk_size) % U32

ExpectedSize_AllEqual(s) == start.chunk_size

Judgement_CountsFirst ==
    IF ~Countable(start.file_size, ChunkSize(server_mtu)) THEN "throw"
    ELSE IF /\ start.chunk_size = ChunkSize(server_mtu)
            /\ start.total_chunks = ChunkCount(start.file_size, start.chunk_size)
         THEN "accept" ELSE "reject"

-----------------------------------------------------------------------------
(* The client, up to START. *)

\* parse_options() and the first lines of run_client(), which throw before
\* anything is sent; otherwise START goes out.
SendStart ==
    LET chunk_size == ChunkSize(client_mtu)
    IN /\ client = "new"
       /\ IF /\ ValidMtu(client_mtu)
             /\ Countable(file_size, chunk_size)
             /\ WindowChunks(chunk_size) <= DefaultAckBitmapBits
          THEN /\ start' = [type |-> "START", file_size |-> file_size,
                            chunk_size |-> chunk_size,
                            total_chunks |-> ChunkCount(file_size, chunk_size),
                            window_chunks |-> WindowChunks(chunk_size) % U32,
                            ack_bitmap_bits |-> DefaultAckBitmapBits]
               /\ client' = "await_start"
          ELSE client' = "failed" /\ UNCHANGED start
       /\ UNCHANGED <<server, options, accepted, received, output>>

-----------------------------------------------------------------------------
(* The server. *)

\* parse_options() and the socket.
Listen ==
    /\ server = "new"
    /\ server' = IF ValidMtu(server_mtu) THEN "idle" ELSE "refused"
    /\ UNCHANGED <<client, options, start, accepted, received, output>>

\* `valid' as run_server() computes it: a conjunction whose second conjunct,
\* reached only if the first holds, may throw.
Judgement ==
    IF start.chunk_size # ChunkSize(server_mtu) THEN "reject"
    ELSE IF ~Countable(start.file_size, start.chunk_size) THEN "throw"
    ELSE IF /\ start.total_chunks = ChunkCount(start.file_size, start.chunk_size)
            /\ start.window_chunks > 0
            /\ start.ack_bitmap_bits = DefaultAckBitmapBits
         THEN "accept" ELSE "reject"

Reply(status, window) ==
    [type |-> "START_ACK", status |-> status,
     accepted_window_chunks |-> window, accepted_bitmap_bits |->
        IF status = "OK" THEN DefaultAckBitmapBits ELSE 0]

\* A START that is accepted opens the output file, which may fail: the client
\* is told, and the server exits.
HandleStart ==
    /\ server = "idle" /\ start # Nothing /\ accepted = Nothing
    /\ \/ /\ Judgement = "throw"
          /\ server' = "crashed"
          /\ UNCHANGED accepted
       \/ /\ Judgement = "reject"
          /\ accepted' = Reply("INVALID_REQUEST", 0)
          /\ UNCHANGED server
       \/ /\ Judgement = "accept"
          /\ accepted' = Reply("OK", Min({start.window_chunks, DefaultAckBitmapBits}))
          /\ server' = "active"
       \/ /\ Judgement = "accept"
          /\ accepted' = Reply("IO_ERROR", 0)
          /\ server' = "exited"
    /\ UNCHANGED <<client, options, start, received, output>>

-----------------------------------------------------------------------------
(* The client again. *)

\* Nobody answers: the handshake gives up.
StartTimesOut ==
    /\ client = "await_start" /\ accepted = Nothing
    /\ server \in {"refused", "crashed"}
    /\ client' = "failed"
    /\ UNCHANGED <<server, options, start, accepted, received, output>>

\* The tests on START_ACK, then the constructor of SenderWindow, which throws
\* under conditions of its own.
WindowIsUsable ==
    LET window == accepted.accepted_window_chunks
        coverage == accepted.accepted_bitmap_bits
    IN /\ window # 0 /\ window <= coverage /\ coverage = DefaultAckBitmapBits
       /\ coverage # 0

\* rate_bps.  The conversion of a number that does not fit is undefined: any
\* value, zero included.
RateBps ==
    CASE rate = "ordinary" -> {1}
      [] rate = "tiny" -> {0}
      [] rate = "huge" -> {0, 1}

\* The Pacer throws on a rate of zero.
ReceiveStartAck ==
    /\ client = "await_start" /\ accepted # Nothing
    /\ \E rate_bps \in RateBps :
        client' = IF accepted.status = "OK" /\ WindowIsUsable /\ rate_bps # 0
                  THEN "data" ELSE "failed"
    /\ UNCHANGED <<server, options, start, accepted, received, output>>

-----------------------------------------------------------------------------
(* Chunks on their way from one file to the other. *)

\* The product is computed in 64 bits at both ends.
Offset(s, chunk_size) == (s * chunk_size) % U64

PayloadSize(s) ==
    LET chunk_size == ChunkSize(client_mtu)
    IN Min({chunk_size, (file_size - Offset(s, chunk_size)) % U64})

\* The server knows no more than what START said.
ExpectedSize(s) ==
    Min({start.chunk_size, (start.file_size - Offset(s, start.chunk_size)) % U64})

\* The server drops a chunk whose number or size is not what it expects.
Accepts(s) == s < start.total_chunks /\ PayloadSize(s) = ExpectedSize(s)

\* memcpy of a payload read at the client's offset to the server's offset.
Copied(s) ==
    LET from == Offset(s, ChunkSize(client_mtu))
        to == Offset(s, start.chunk_size)
        bytes == to .. to + ExpectedSize(s) - 1
    IN [b \in DOMAIN output \union bytes |->
            IF b \in bytes THEN from + (b - to) ELSE output[b]]

\* The client's chunks.
Chunks == 0 .. ChunkCount(file_size, ChunkSize(client_mtu)) - 1

\* IP_PMTUDISC_DO forbids fragments: the DATA packet must fit the path.
Sendable(s) == Overhead + PayloadSize(s) <= path_mtu

\* One of the client's chunks is sent and arrives.
TransferChunk ==
    /\ client = "data" /\ server = "active"
    /\ \E s \in Chunks \ received :
        /\ Sendable(s)
        /\ IF Accepts(s)
           THEN output' = Copied(s) /\ received' = received \union {s}
           ELSE UNCHANGED <<output, received>>
    /\ UNCHANGED <<client, server, options, start, accepted>>

\* sendmsg() fails with EMSGSIZE and send_data_packet() throws; the server is not
\* told.  (Control packets are taken to fit every path.)
SendFails ==
    /\ client = "data"
    /\ \E s \in Chunks \ received : ~Sendable(s)
    /\ client' = "failed"
    /\ UNCHANGED <<server, options, start, accepted, received, output>>

\* All chunks are ACKed, and COMPLETE, with the number of chunks, is answered
\* with statistics that the client compares.
Complete ==
    /\ client = "data" /\ server = "active"
    /\ Cardinality(received) = start.total_chunks
    /\ server' = "exited"
    /\ client' = IF start.file_size = file_size THEN "done" ELSE "failed"
    /\ UNCHANGED <<options, start, accepted, received, output>>

Finished ==
    /\ client \in {"done", "failed"} /\ server # "new"
    /\ UNCHANGED vars

Next ==
    \/ SendStart
    \/ Listen
    \/ HandleStart
    \/ StartTimesOut
    \/ ReceiveStartAck
    \/ TransferChunk
    \/ SendFails
    \/ Complete
    \/ Finished

Spec == Init /\ [][Next]_vars

\* Both programs run, and packets arrive in the end.
FairSpec == Spec /\ WF_vars(Next)

-----------------------------------------------------------------------------
(* Properties. *)

\* Wherever the server writes, it writes the byte that belongs there, within
\* the file; and when it has every chunk it has every byte.  Each end computes
\* offset and size of a chunk for itself, in 64 bits, from a chunk count that
\* must fit 32 (client.cpp:552-555, server.cpp:331-343, protocol.cpp:63-72).
BytesInPlace ==
    /\ \A b \in DOMAIN output : b < file_size /\ output[b] = b
    /\ client = "done" => DOMAIN output = 0 .. file_size - 1

\* No START of this client makes the server throw: the MTU is compared before
\* the chunks are counted, and the client does not send a START whose chunks
\* cannot be counted (server.cpp:257-260, client.cpp:416-422).
HonestStartIsAnswered == server # "crashed"

\* Once the server has accepted, the file arrives, but for two things only: a
\* rate that comes out as 0 bit/s, and a chunk too large for the path, on which
\* sendmsg() fails.  The window that is accepted passes the client's tests and
\* SenderWindow's, and the server takes every chunk: one whose size it refused
\* would be sent again for ever (client.cpp:267-275, 482-492,
\* server.cpp:279-284, 332-336).
AcceptedIsDelivered ==
    server = "active" /\ rate = "ordinary" /\ (\A s \in Chunks : Sendable(s))
        ~> client = "done"
=============================================================================
