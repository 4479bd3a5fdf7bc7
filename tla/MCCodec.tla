------------------------------- MODULE MCCodec -------------------------------
(***************************************************************************)
(* The packets Codec is tried on.  Each field of a payload has a value of  *)
(* its own, so that a field read from another's place shows; in turn one   *)
(* field takes each extreme value.                                         *)
(***************************************************************************)
EXTENDS Codec

Largest(width) == Weight[width] * ByteValues - 1

Instances(layout) ==
    LET typical == [f \in DOMAIN layout |->
                        (layout[f][1] + 1) * Largest(1) % Largest(layout[f][2])]
    IN {typical} \union
       UNION {{[typical EXCEPT ![f] = v] : v \in {0, 1, Largest(layout[f][2])}} :
                 f \in DOMAIN layout}

WithBitmap(ack, bitmap) ==
    [f \in DOMAIN ack \union {"bitmap"} |->
        CASE f = "bitmap" -> bitmap
          [] f = "bitmap_bits" -> AckBitmapBits
          [] OTHER -> ack[f]]

Payloads ==
    [START |-> Instances(StartWritten),
     START_ACK |-> Instances(StartAckWritten),
     DATA |-> {[bytes |-> <<>>], [bytes |-> <<5>>], [bytes |-> <<0, 1>>], [bytes |-> <<1, 0>>]},
     ACK |-> {WithBitmap(ack, {0}) : ack \in Instances(AckWritten)} \union
             {WithBitmap([f \in DOMAIN AckWritten |-> 9], bitmap) :
                 bitmap \in SUBSET (0 .. AckBitmapBits - 1)},
     COMPLETE |-> {[bytes |-> <<>>]},
     COMPLETE_ACK |-> Instances(CompleteAckWritten)]

\* The numbers of the session's packets, in their headers, and one of none.
NumbersOf(type) ==
    CASE type = "START" -> {0, 9}
      [] type = "DATA" -> 0 .. TotalChunks - 1 \union {9}
      [] type \in {"COMPLETE", "COMPLETE_ACK"} -> {TotalChunks, 9}
      [] OTHER -> {9}

\* make_header() and the flags its callers set.
Flags(type) ==
    CASE type = "DATA" -> {0, 2} [] type = "ACK" -> {4} [] OTHER -> {0}

MCPackets ==
    UNION {{[type |-> "sent", payload |-> payload,
             header |-> [magic |-> Magic, version |-> Version,
                         type |-> PacketType[type], flags |-> flags,
                         session_id |-> session, number |-> number, crc32c |-> 0]] :
               flags \in Flags(type), session \in {SessionId, Largest(4)},
               number \in NumbersOf(type), payload \in Payloads[type]} : type \in DOMAIN Payloads}
=============================================================================
