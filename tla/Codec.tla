-------------------------------- MODULE Codec --------------------------------
(***************************************************************************)
(* The datagrams of FRFT, byte by byte: how protocol.cpp writes them, how  *)
(* it reads them, and what each of the programs' receive loops makes of    *)
(* them.  The writer and the reader have tables of their own, as in the    *)
(* code, where each has its own offsets.                                   *)
(*                                                                         *)
(* The receiver is a program of session `SessionId', at one of its receive *)
(* loops; the source address is that of its peer.                          *)
(*                                                                         *)
(* A byte has ByteBits bits.  A datagram is a sequence of bytes; the byte  *)
(* at offset p of the code is element p + 1.  A payload is a record of     *)
(* numbers, but for the ACK's bitmap, which is the set of its bits that    *)
(* are 1, and the bytes of DATA.                                           *)
(***************************************************************************)
EXTENDS Integers, Sequences

CONSTANTS
    ByteBits,       \* bits of a byte
    Magic,          \* kMagic
    AckBitmapBits,  \* kDefaultAckBitmapBits
    SessionId,      \* the receiver's session_id
    FileSize,       \* start.file_size
    ChunkSize,      \* start.chunk_size
    Packets         \* the packets to send: a header and a payload each

-----------------------------------------------------------------------------
(* Bytes and numbers. *)

\* 1 << bit, for the bits of a byte and one more.
TwoTo(bit) == <<1, 2, 4, 8, 16, 32, 64, 128, 256>>[bit + 1]

ByteValues == TwoTo(ByteBits)
Byte == 0 .. ByteValues - 1

\* The weight of a byte in a number, by the number of bytes that follow it.
Weight ==
    LET two == ByteValues * ByteValues
        four == two * two
    IN <<1, ByteValues, two, two * ByteValues, four, four * ByteValues,
         four * two, four * two * ByteValues>>

\* The numbers that fit a field of `width' bytes.
Fits(width) == 0 .. Weight[width] * ByteValues - 1

ASSUME CodecAssumption ==
    /\ ByteBits \in 3 .. 8   \* the flags and the packet types fit a byte
    /\ Magic \in Fits(4)
    /\ AckBitmapBits \in Fits(2) \ {0}
    /\ AckBitmapBits % ByteBits = 0
    /\ SessionId \in Fits(4) \ {0}
    /\ FileSize \in Fits(8) /\ ChunkSize \in Fits(2) \ {0}

VARIABLES
    receiver,  \* the receive loop at which the datagram arrives
    sent,      \* the packet the sender serialises
    datagram,  \* its bytes, as they arrive
    damaged,   \* whether they are no longer those that were sent
    decoded    \* what the receiver makes of them

vars == <<receiver, sent, datagram, damaged, decoded>>

Version == 1
HeaderSize == 24
Pending == [type |-> "pending"]
Refused == [type |-> "refused"]
Failed == [type |-> "failed"]     \* the receiver throws

\* The server before, in and after its session; the client in its three phases.
Receivers ==
    {"idle", "active", "time_wait", "await_start_ack", "data", "await_complete_ack"}

PacketType ==
    [START |-> 1, START_ACK |-> 2, DATA |-> 3, ACK |-> 4, COMPLETE |-> 5,
     COMPLETE_ACK |-> 6, ERROR |-> 7]

\* FLAG_CRC32C is bit 0, FLAG_RETRANSMITTED bit 1, FLAG_SACK bit 2.
HasFlag(flags, bit) == (flags \div TwoTo(bit)) % 2 = 1

-----------------------------------------------------------------------------
(* Layouts: for each field its offset and its width. *)

HeaderWritten ==
    [magic |-> <<0, 4>>, version |-> <<4, 1>>, type |-> <<5, 1>>,
     flags |-> <<6, 2>>, session_id |-> <<8, 4>>, number |-> <<12, 4>>,
     payload_length |-> <<16, 2>>, header_length |-> <<18, 2>>,
     crc32c |-> <<20, 4>>]

StartWritten ==
    [file_size |-> <<0, 8>>, chunk_size |-> <<8, 4>>, total_chunks |-> <<12, 4>>,
     window_chunks |-> <<16, 4>>, ack_bitmap_bits |-> <<20, 2>>,
     ack_interval_ms |-> <<22, 2>>]

StartAckWritten ==
    [status |-> <<0, 2>>, accepted_window_chunks |-> <<4, 4>>,
     accepted_bitmap_bits |-> <<8, 2>>, accepted_ack_interval_ms |-> <<10, 2>>]

AckWritten ==
    [cumulative_ack |-> <<0, 4>>, largest_received_plus_one |-> <<4, 4>>,
     bitmap_base |-> <<8, 4>>, bitmap_bits |-> <<12, 2>>]

CompleteAckWritten ==
    [status |-> <<0, 2>>, received_chunks |-> <<4, 4>>,
     received_bytes |-> <<8, 8>>, receiver_transfer_time_us |-> <<16, 8>>]

HeaderRead ==
    [magic |-> <<0, 4>>, version |-> <<4, 1>>, type |-> <<5, 1>>,
     flags |-> <<6, 2>>, session_id |-> <<8, 4>>, number |-> <<12, 4>>,
     payload_length |-> <<16, 2>>, header_length |-> <<18, 2>>,
     crc32c |-> <<20, 4>>]

StartRead ==
    [file_size |-> <<0, 8>>, chunk_size |-> <<8, 4>>, total_chunks |-> <<12, 4>>,
     window_chunks |-> <<16, 4>>, ack_bitmap_bits |-> <<20, 2>>,
     ack_interval_ms |-> <<22, 2>>]

StartAckRead_NoPadding ==
    [status |-> <<0, 2>>, accepted_window_chunks |-> <<2, 4>>,
     accepted_bitmap_bits |-> <<8, 2>>, accepted_ack_interval_ms |-> <<10, 2>>]

StartAckRead ==
    [status |-> <<0, 2>>, accepted_window_chunks |-> <<4, 4>>,
     accepted_bitmap_bits |-> <<8, 2>>, accepted_ack_interval_ms |-> <<10, 2>>]

AckRead ==
    [cumulative_ack |-> <<0, 4>>, largest_received_plus_one |-> <<4, 4>>,
     bitmap_base |-> <<8, 4>>, bitmap_bits |-> <<12, 2>>]

CompleteAckRead ==
    [status |-> <<0, 2>>, received_chunks |-> <<4, 4>>,
     received_bytes |-> <<8, 8>>, receiver_transfer_time_us |-> <<16, 8>>]

-----------------------------------------------------------------------------
(* Writing. *)

\* write_u16(), write_u32(), write_u64(): most significant byte first.
Digit(value, width, i) == (value \div Weight[width - i]) % ByteValues

\* Field f of a layout takes the byte at offset p.
Covers(layout, f, p) == p \in layout[f][1] .. layout[f][1] + layout[f][2] - 1

\* A block of `size' bytes, zero where no field is.
Write(layout, size, fields) ==
    [i \in 1 .. size |->
        IF \E f \in DOMAIN layout : Covers(layout, f, i - 1)
        THEN LET f == CHOOSE g \in DOMAIN layout : Covers(layout, g, i - 1)
             IN Digit(fields[f], layout[f][2], i - 1 - layout[f][1])
        ELSE 0]

BitmapBytes(bits) == (bits + ByteBits - 1) \div ByteBits

\* The byte whose bits that are 1 are S.
ByteOf(S) ==
    LET Bit(k) == IF k \in S THEN TwoTo(k) ELSE 0
    IN Bit(0) + Bit(1) + Bit(2) + Bit(3) + Bit(4) + Bit(5) + Bit(6) + Bit(7)

\* Bit b of the bitmap is bit b % 8 of byte b / 8.
PackBitmap(bits, bitmap) ==
    [byte \in 1 .. BitmapBytes(bits) |->
        ByteOf({k \in 0 .. ByteBits - 1 : (byte - 1) * ByteBits + k \in bitmap})]

WritePayload(type, payload) ==
    CASE type = PacketType.START -> Write(StartWritten, 24, payload)
      [] type = PacketType.START_ACK -> Write(StartAckWritten, 12, payload)
      [] type = PacketType.ACK ->
            Write(AckWritten, 16, payload)
                \o PackBitmap(payload.bitmap_bits, payload.bitmap)
      [] type = PacketType.COMPLETE_ACK -> Write(CompleteAckWritten, 24, payload)
      [] OTHER -> payload.bytes

\* serialize_packet_header() fills in the two lengths.
Full(header, n) ==
    [f \in DOMAIN HeaderWritten |->
        CASE f = "payload_length" -> n
          [] f = "header_length" -> HeaderSize
          [] OTHER -> header[f]]

Datagram(header, payload) ==
    LET bytes == WritePayload(header.type, payload)
    IN Write(HeaderWritten, HeaderSize, Full(header, Len(bytes))) \o bytes

-----------------------------------------------------------------------------
(* Reading. *)

\* (value << 8) | byte
Shift(value, byte) == value * ByteValues + byte

\* read_u16(), read_u32(), read_u64(), from offset p on.
ReadU16(bytes, p) == Shift(bytes[p + 1], bytes[p + 2])
ReadU32(bytes, p) == Shift(Shift(ReadU16(bytes, p), bytes[p + 3]), bytes[p + 4])
ReadU64(bytes, p) ==
    Shift(Shift(Shift(Shift(ReadU32(bytes, p), bytes[p + 5]), bytes[p + 6]),
                bytes[p + 7]), bytes[p + 8])

Number(bytes, p, width) ==
    CASE width = 1 -> bytes[p + 1]
      [] width = 2 -> ReadU16(bytes, p)
      [] width = 4 -> ReadU32(bytes, p)
      [] width = 8 -> ReadU64(bytes, p)

Read(layout, bytes) ==
    [f \in DOMAIN layout |-> Number(bytes, layout[f][1], layout[f][2])]

\* process_ack()'s reading of the bitmap.
UnpackBitmap(bits, bytes) ==
    {b \in 0 .. bits - 1 : HasFlag(bytes[b \div ByteBits + 1], b % ByteBits)}

LengthMatches_AtLeast(h, size) == size >= h.header_length + h.payload_length

\* The datagram is exactly as long as its header says.
LengthMatches(h, size) == size = h.header_length + h.payload_length

\* deserialize_packet_view(), which reads no further than a header's length
\* before it has that many bytes.
HeaderIsValid(bytes) ==
    /\ Len(bytes) >= HeaderSize
    /\ LET h == Read(HeaderRead, bytes)
       IN /\ h.type \in PacketType.START .. PacketType.ERROR
          /\ h.magic = Magic
          /\ h.version = Version
          /\ h.header_length = HeaderSize
          /\ LengthMatches(h, Len(bytes))
          /\ ~HasFlag(h.flags, 0)

\* deserialize_ack(), and what apply_ack_packet() demands besides.
AckIsValid(flags, bytes) ==
    /\ HasFlag(flags, 2)
    /\ Len(bytes) >= 16
    /\ LET bits == Read(AckRead, bytes).bitmap_bits
       IN Len(bytes) = 16 + BitmapBytes(bits) /\ bits = AckBitmapBits

\* The deserialiser that the receiver of a packet of h's type calls; DATA and
\* COMPLETE have none.
PayloadIsValid(h, bytes) ==
    CASE h.type = PacketType.START -> Len(bytes) = 24
      [] h.type = PacketType.START_ACK -> Len(bytes) = 12
      [] h.type = PacketType.ACK -> AckIsValid(h.flags, bytes)
      [] h.type = PacketType.COMPLETE_ACK -> Len(bytes) = 24
      [] OTHER -> TRUE

ReadPayload(type, bytes) ==
    CASE type = PacketType.START -> Read(StartRead, bytes)
      [] type = PacketType.START_ACK -> Read(StartAckRead, bytes)
      [] type = PacketType.ACK ->
            LET ack == Read(AckRead, bytes)
            IN [f \in DOMAIN ack \union {"bitmap"} |->
                   IF f = "bitmap"
                   THEN UnpackBitmap(ack.bitmap_bits, SubSeq(bytes, 17, Len(bytes)))
                   ELSE ack[f]]
      [] type = PacketType.COMPLETE_ACK -> Read(CompleteAckRead, bytes)
      [] OTHER -> [bytes |-> bytes]

-----------------------------------------------------------------------------
(* The receive loops.  Each tests the header before it looks at a payload. *)

TotalChunks == (FileSize + ChunkSize - 1) \div ChunkSize

ExpectedSize(number) ==
    LET rest == FileSize - number * ChunkSize
    IN IF ChunkSize <= rest THEN ChunkSize ELSE rest

\* COMPLETE of the session, to a server that knows the number of its chunks.
IsComplete(h) ==
    /\ h.type = PacketType.COMPLETE /\ h.session_id = SessionId
    /\ h.number = TotalChunks /\ h.payload_length = 0

IdleTakes(h) ==
    h.type = PacketType.START /\ h.session_id # 0 /\ h.number = 0

ActiveTakes(h) ==
    \/ h.type = PacketType.START
    \/ /\ h.type = PacketType.DATA /\ h.session_id = SessionId
       /\ h.number < TotalChunks /\ h.payload_length = ExpectedSize(h.number)
    \/ IsComplete(h)

\* receive_expected(), and drain_acks() for ACKs.
ClientTakes(expected_type, h) ==
    h.session_id = SessionId /\ h.type = expected_type

Takes(r, h) ==
    CASE r = "idle" -> IdleTakes(h)
      [] r = "active" -> ActiveTakes(h)
      [] r = "time_wait" -> IsComplete(h)
      [] r = "await_start_ack" -> ClientTakes(PacketType.START_ACK, h)
      [] r = "data" -> ClientTakes(PacketType.ACK, h)
      [] r = "await_complete_ack" -> ClientTakes(PacketType.COMPLETE_ACK, h)

\* A server that has a session answers any START, OK or BUSY, by its header.
Unread(r, h) == r = "active" /\ h.type = PacketType.START

\* In a handshake the client throws on a payload that is not valid; the other
\* loops go on to the next datagram.
OnInvalid(r) ==
    IF r \in {"await_start_ack", "await_complete_ack"} THEN Failed ELSE Refused

Decode(r, bytes) ==
    IF ~HeaderIsValid(bytes) THEN Refused
    ELSE LET h == Read(HeaderRead, bytes)
             payload == SubSeq(bytes, HeaderSize + 1, HeaderSize + h.payload_length)
         IN CASE ~Takes(r, h) -> Refused
              [] Takes(r, h) /\ Unread(r, h) -> [type |-> "header", header |-> h]
              [] Takes(r, h) /\ ~Unread(r, h) ->
                    IF PayloadIsValid(h, payload)
                    THEN [type |-> "packet", header |-> h,
                          payload |-> ReadPayload(h.type, payload)]
                    ELSE OnInvalid(r)

-----------------------------------------------------------------------------
(* The packets the programs send. *)

\* A structure with the fields of a layout, each within its width.
Fills(layout, fields) ==
    \A f \in DOMAIN layout : fields[f] \in Fits(layout[f][2])

\* make_header() and the flags its callers set; FLAG_SACK is set in every ACK.
HeaderFits(header) ==
    /\ DOMAIN header = DOMAIN HeaderWritten \ {"payload_length", "header_length"}
    /\ \A f \in DOMAIN header : header[f] \in Fits(HeaderWritten[f][2])
    /\ header.magic = Magic
    /\ header.version = Version
    /\ header.type \in PacketType.START .. PacketType.COMPLETE_ACK
    /\ ~HasFlag(header.flags, 0)
    /\ header.type = PacketType.ACK => HasFlag(header.flags, 2)

IsRecordOf(names, payload) == payload = [f \in names |-> payload[f]]

\* The payload structures; serialize_packet_header() throws when the bytes of
\* DATA are more than 65535.
PayloadFits(type, payload) ==
    CASE type = PacketType.START ->
            IsRecordOf(DOMAIN StartWritten, payload) /\ Fills(StartWritten, payload)
      [] type = PacketType.START_ACK ->
            IsRecordOf(DOMAIN StartAckWritten, payload) /\ Fills(StartAckWritten, payload)
      [] type = PacketType.ACK ->
            /\ IsRecordOf(DOMAIN AckWritten \union {"bitmap"}, payload)
            /\ Fills(AckWritten, payload)
            /\ payload.bitmap_bits = AckBitmapBits
            /\ payload.bitmap \subseteq 0 .. AckBitmapBits - 1
      [] type = PacketType.COMPLETE -> payload = [bytes |-> <<>>]
      [] type = PacketType.COMPLETE_ACK ->
            /\ IsRecordOf(DOMAIN CompleteAckWritten, payload)
            /\ Fills(CompleteAckWritten, payload)
      [] OTHER ->
            /\ IsRecordOf({"bytes"}, payload)
            /\ payload.bytes \in Seq(Byte)
            /\ Len(payload.bytes) \in Fits(2)

ASSUME PacketsAssumption ==
    \A packet \in Packets :
        HeaderFits(packet.header) /\ PayloadFits(packet.header.type, packet.payload)

-----------------------------------------------------------------------------

Init ==
    /\ receiver \in Receivers
    /\ sent = Pending
    /\ datagram = <<>>
    /\ damaged = FALSE
    /\ decoded = Pending

Serialize ==
    /\ sent = Pending
    /\ \E packet \in Packets :
        /\ sent' = packet
        /\ datagram' = Datagram(packet.header, packet.payload)
    /\ UNCHANGED <<receiver, damaged, decoded>>

\* The datagram is cut short, or has a byte too many, or one byte is another.
Damage ==
    /\ sent # Pending /\ decoded = Pending /\ ~damaged
    /\ \/ \E n \in 0 .. Len(datagram) - 1 : datagram' = SubSeq(datagram, 1, n)
       \/ datagram' = Append(datagram, 0)
       \/ \E i \in 1 .. Len(datagram) : \E step \in {1, TwoTo(ByteBits - 1)} :
              datagram' = [datagram EXCEPT ![i] = (@ + step) % ByteValues]
    /\ damaged' = TRUE
    /\ UNCHANGED <<receiver, sent, decoded>>

Deserialize ==
    /\ sent # Pending /\ decoded = Pending
    /\ decoded' = Decode(receiver, datagram)
    /\ UNCHANGED <<receiver, sent, datagram, damaged>>

Next == Serialize \/ Damage \/ Deserialize

Spec == Init /\ [][Next]_vars

-----------------------------------------------------------------------------
(* Properties. *)

\* A datagram that arrives as it was sent is refused only for what its header
\* says: of another type, session, number or size than the loop waits for.
\* Otherwise every field comes out as it went in, and so does the payload where
\* it is read; no check of the bytes fails, and the client does not throw (all
\* of protocol.cpp, server.cpp:250-255 and 313-399, client.cpp:326-347).
RoundTrip ==
    decoded # Pending /\ ~damaged =>
        LET h == Full(sent.header, Len(WritePayload(sent.header.type, sent.payload)))
        IN IF Takes(receiver, h)
           THEN /\ decoded.type \in {"header", "packet"}
                /\ decoded.header = h
                /\ decoded.type = "header" <=> Unread(receiver, h)
                /\ decoded.type = "packet" => decoded.payload = sent.payload
           ELSE decoded = Refused

\* The bytes of the payload that nothing is written to or read from.
Padding(type) ==
    CASE type \in {PacketType.START_ACK, PacketType.COMPLETE_ACK} -> {2, 3}
      [] type = PacketType.ACK -> {14, 15}
      [] OTHER -> {}

\* Whatever a receiver acts on, damaged or not, is exactly what a sender of the
\* values read would have written, padding aside: no datagram that is cut or has
\* something appended is taken, no byte of what is read is skipped, none is read
\* twice.  Of a START to a server that has a session this can be said of the
\* header only, and of the length: its payload, of any size, is not read
\* (protocol.cpp:110-160, client.cpp:326-347 and 470-473, server.cpp:250-255
\* and 313-321).
NothingMisread ==
    /\ decoded.type = "packet" =>
        LET again == Datagram(decoded.header, decoded.payload)
        IN /\ Len(again) = Len(datagram)
           /\ \A i \in 1 .. Len(datagram) :
                 i - 1 - HeaderSize \notin Padding(decoded.header.type)
                    => again[i] = datagram[i]
    /\ decoded.type = "header" =>
        LET again == Write(HeaderWritten, HeaderSize, decoded.header)
        IN /\ Len(datagram) = HeaderSize + decoded.header.payload_length
           /\ \A i \in 1 .. HeaderSize : again[i] = datagram[i]
=============================================================================
