---------------------------- MODULE SetupProofs ----------------------------
(***************************************************************************)
(* Theorems about the arithmetic both programs do on their own: for all    *)
(* widths, overheads, options and file sizes, the bytes land where they    *)
(* belong, no START of the client makes the server throw, and what the     *)
(* server accepts neither end refuses later.                               *)
(***************************************************************************)
EXTENDS Setup, FiniteSetTheorems, TLAPS

-----------------------------------------------------------------------------
(* The inductive invariant. *)

Size == ChunkSize(client_mtu)
Count == ChunkCount(file_size, Size)
Numbers == 0 .. Count - 1

Usual ==
    /\ file_size \in Nat /\ file_size < U64
    /\ client_mtu \in Nat

\* The START that was sent says what the client will do, and was not sent if the
\* client's own chunks could not be counted.
StartInv ==
    /\ client \in {"await_start", "data", "done"} => start # Nothing
    /\ start = Nothing => received = {}
    /\ start # Nothing =>
         /\ ValidMtu(client_mtu) /\ Countable(file_size, Size)
         /\ start.file_size = file_size /\ start.chunk_size = Size
         /\ start.total_chunks = Count
         /\ start.window_chunks \in Nat

\* Only bytes of the file are written, each in its place; and every byte of a
\* chunk received.
OutputInv ==
    /\ \A b \in DOMAIN output : b \in 0 .. file_size - 1 /\ output[b] = b
    /\ start # Nothing =>
         /\ received \subseteq Numbers
         /\ \A s \in received : \A b \in 0 .. file_size - 1 :
               s * Size <= b /\ b < s * Size + Size => b \in DOMAIN output
    /\ client = "done" => received = Numbers

\* What the client's tests and the constructor of SenderWindow ask for.
AcceptedInv ==
    /\ accepted # Nothing /\ accepted.status = "OK" => WindowIsUsable
    /\ server = "active" =>
         start # Nothing /\ accepted # Nothing /\ accepted.status = "OK"

SetupInv ==
    /\ Usual
    /\ StartInv
    /\ OutputInv
    /\ AcceptedInv
    /\ server # "crashed"

-----------------------------------------------------------------------------
(* Chunk arithmetic. *)

\* Min of two numbers.
LEMMA MinPair ==
    ASSUME NEW a \in Nat, NEW b \in Nat
    PROVE  Min({a, b}) = IF a <= b THEN a ELSE b
<1> DEFINE S == {a, b}
           m == IF a <= b THEN a ELSE b
<1>1. m \in S /\ \A y \in S : m <= y
  OBVIOUS
<1>2. Min(S) \in S /\ \A y \in S : Min(S) <= y
  <2>1. \E x \in S : \A y \in S : x <= y
    BY <1>1
  <2> HIDE DEF S, m
  <2>2. QED
    BY <2>1, Zenon DEF Min
<1>3. Min(S) <= m /\ m <= Min(S) /\ Min(S) \in Nat /\ m \in Nat
  BY <1>1, <1>2
<1>4. QED
  BY <1>3

LEMMA TimesMonotonic ==
    \A x, y, c \in Nat : x <= y => x * c <= y * c /\ x * c \in Nat
<1>1. ASSUME NEW x \in Nat, NEW y \in Nat, NEW c \in Nat, x <= y
      PROVE  x * c <= y * c /\ x * c \in Nat
  <2>1. y - x \in Nat /\ x * c \in Nat /\ (y - x) * c \in Nat
    BY <1>1
  <2>2. y * c = (x * c) + ((y - x) * c)
    BY <1>1
  <2>3. QED
    BY <2>1, <2>2
<1>2. QED
  BY <1>1

LEMMA Division ==
    \A a \in Nat, c \in Nat \ {0} :
        /\ a \div c \in Nat /\ a % c \in Nat /\ a % c < c
        /\ (a \div c) * c \in Nat
        /\ a = ((a \div c) * c) + (a % c)
OBVIOUS

\* The chunks cover the file, and each begins in it.
LEMMA ChunksCover ==
    ASSUME NEW a \in Nat, NEW c \in Nat \ {0}
    PROVE  /\ Ceiling(a, c) \in Nat
           /\ \A s \in 0 .. Ceiling(a, c) - 1 : s * c \in Nat /\ s * c < a
           /\ \A b \in 0 .. a - 1 : \E s \in 0 .. Ceiling(a, c) - 1 :
                 s * c <= b /\ b < s * c + c
<1> DEFINE q == a \div c
           r == a % c
           n == Ceiling(a, c)
<1>1. /\ q \in Nat /\ r \in Nat /\ r < c /\ q * c \in Nat
      /\ a = (q * c) + r
  BY Division
<1>2. n = IF r # 0 THEN q + 1 ELSE q
  BY <1>1 DEF Ceiling
<1> HIDE DEF q, r, n
<1>3. n \in Nat
  BY <1>1, <1>2
<1>4. \A s \in 0 .. n - 1 : s * c \in Nat /\ s * c < a
  <2>1. TAKE s \in 0 .. n - 1
  <2>2. s \in Nat /\ s <= q /\ (r = 0 => s + 1 <= q)
    BY <1>1, <1>2
  <2>3. CASE r # 0
    <3>1. s * c <= q * c /\ s * c \in Nat
      BY <1>1, <2>2, TimesMonotonic
    <3>2. QED
      BY <1>1, <2>3, <3>1
  <2>4. CASE r = 0
    <3>1. (s + 1) * c <= q * c /\ s * c \in Nat
      BY <1>1, <2>2, <2>4, TimesMonotonic
    <3>2. (s + 1) * c = (s * c) + c
      BY <2>2
    <3>3. QED
      BY <1>1, <2>4, <3>1, <3>2
  <2>5. QED
    BY <2>3, <2>4
<1>5. \A b \in 0 .. a - 1 : \E s \in 0 .. n - 1 : s * c <= b /\ b < s * c + c
  <2>1. TAKE b \in 0 .. a - 1
  <2> DEFINE s == b \div c
  <2>2. /\ b \in Nat /\ b < a /\ s \in Nat /\ b % c \in Nat /\ b % c < c
        /\ s * c \in Nat /\ b = (s * c) + (b % c)
    BY Division
  <2> HIDE DEF s
  <2>3. s <= q
    <3>1. SUFFICES ASSUME q + 1 <= s PROVE FALSE
      BY <1>1, <2>2
    <3>2. (q + 1) * c <= s * c
      BY <1>1, <2>2, <3>1, TimesMonotonic
    <3>3. (q + 1) * c = (q * c) + c
      BY <1>1
    <3>4. QED
      BY <1>1, <2>2, <3>2, <3>3
  <2>4. r = 0 => s # q
    <3>1. SUFFICES ASSUME r = 0, s = q PROVE FALSE
      OBVIOUS
    <3>2. QED
      BY <1>1, <2>2, <3>1
  <2>5. s \in 0 .. n - 1
    BY <1>1, <1>2, <2>2, <2>3, <2>4
  <2>6. QED
    BY <2>2, <2>5
<1>6. QED
  BY <1>3, <1>4, <1>5 DEF n

\* A number below the width is not truncated.
LEMMA Fits == \A w \in Nat, x \in Nat : x < w => x % w = x
OBVIOUS

LEMMA Widths ==
    /\ U16 \in Nat /\ U32 \in Nat /\ U64 \in Nat /\ Overhead \in Nat
    /\ 0 < U16 /\ U16 <= U32 /\ U32 <= U64
    /\ DefaultAckBitmapBits \in Nat \ {0} /\ DefaultAckBitmapBits < U16
    /\ DefaultWindowBytes \in Nat
<1>1. /\ U16 \in Nat /\ U32 \in Nat /\ U64 \in Nat /\ Overhead \in Nat
      /\ Overhead < U16 /\ U16 <= U32 /\ U32 <= U64
      /\ DefaultAckBitmapBits \in 1 .. U16 - 1 /\ DefaultWindowBytes \in 1 .. U32 - 1
  BY SetupAssumption
<1>2. QED
  BY <1>1

\* Offset and size of a chunk, at both ends: no product and no difference wraps.
LEMMA ChunkInFile ==
    ASSUME SetupInv, start # Nothing, NEW s \in Numbers
    PROVE  /\ Size \in Nat \ {0} /\ s \in Nat
           /\ Offset(s, Size) = s * Size
           /\ s * Size \in Nat /\ s * Size < file_size
           /\ PayloadSize(s) = IF Size <= file_size - s * Size
                               THEN Size ELSE file_size - s * Size
           /\ ExpectedSize(s) = PayloadSize(s)
           /\ Accepts(s)
<1>1. /\ file_size \in Nat /\ file_size < U64 /\ client_mtu \in Nat
      /\ ValidMtu(client_mtu)
      /\ start.file_size = file_size /\ start.chunk_size = Size
      /\ start.total_chunks = Count
  BY DEF SetupInv, StartInv, Usual
<1>2. Size \in Nat \ {0}
  BY <1>1, Widths DEF Size, ChunkSize, ValidMtu
<1>3. Count = Ceiling(file_size, Size)
  BY DEF Count, ChunkCount
<1>4. Count \in Nat /\ s * Size \in Nat /\ s * Size < file_size
  BY <1>1, <1>2, <1>3, ChunksCover DEF Numbers
<1>5. s \in Nat /\ s < Count
  BY <1>4 DEF Numbers
<1>6. Offset(s, Size) = s * Size
  BY <1>1, <1>4, Fits, Widths DEF Offset
<1>7. /\ file_size - s * Size \in Nat
      /\ (file_size - s * Size) % U64 = file_size - s * Size
  <2> DEFINE rest == file_size - s * Size
  <2>1. rest \in Nat /\ rest < U64
    BY <1>1, <1>4, Widths
  <2>2. QED
    BY <2>1, Fits, Widths
<1>8. PayloadSize(s) = Min({Size, file_size - s * Size})
  BY <1>6, <1>7 DEF PayloadSize, Size
<1>9. ExpectedSize(s) = PayloadSize(s)
  BY <1>1, <1>6, <1>7, <1>8 DEF ExpectedSize
<1>10. Accepts(s)
  BY <1>1, <1>5, <1>9 DEF Accepts
<1>11. PayloadSize(s) = IF Size <= file_size - s * Size
                        THEN Size ELSE file_size - s * Size
  BY <1>2, <1>7, <1>8, MinPair
<1>12. QED
  BY <1>2, <1>4, <1>5, <1>6, <1>9, <1>10, <1>11

-----------------------------------------------------------------------------
(* Every step keeps the invariant. *)

LEMMA SetupInit == Init => SetupInv
<1>1. ASSUME Init PROVE SetupInv
  <2>1. file_size \in Nat /\ file_size < U64
    <3>1. file_size \in 0 .. (U64 \div 2) - 1
      BY <1>1, SetupAssumption DEF Init
    <3>2. \A a \in Nat : a \div 2 \in Nat /\ a \div 2 <= a
      OBVIOUS
    <3>3. QED
      BY <3>1, <3>2, Widths
  <2>2. client_mtu \in Nat
    <3>1. PICK m \in MtuArguments : client_mtu = m % U32
      BY <1>1 DEF Init
    <3>2. m \in Nat
      BY SetupAssumption, Widths
    <3>3. QED
      BY <3>1, <3>2, Widths
  <2>3. QED
    BY <1>1, <2>1, <2>2 DEF Init, SetupInv, Usual, StartInv, OutputInv, AcceptedInv
<1>2. QED
  BY <1>1

\* The client sends its START, or throws.
LEMMA SendStartKeepsInv == SetupInv /\ SendStart => SetupInv'
<1> SUFFICES ASSUME SetupInv, SendStart PROVE SetupInv'
  OBVIOUS
<1>1. /\ client = "new"
      /\ UNCHANGED <<server, file_size, client_mtu, accepted, received, output>>
  BY DEF SendStart, options
<1>2. Usual' /\ Size' = Size /\ Count' = Count /\ Numbers' = Numbers
  BY <1>1 DEF SetupInv, Usual, Size, Count, Numbers
<1>3. CASE start' = start /\ client' = "failed"
  BY <1>1, <1>2, <1>3
     DEF SetupInv, StartInv, OutputInv, AcceptedInv, WindowIsUsable
<1>4. CASE start' # start \/ client' # "failed"
  <2>1. /\ client' = "await_start"
        /\ ValidMtu(client_mtu) /\ Countable(file_size, Size)
        /\ start' = [type |-> "START", file_size |-> file_size,
                     chunk_size |-> Size, total_chunks |-> Count,
                     window_chunks |-> WindowChunks(Size) % U32,
                     ack_bitmap_bits |-> DefaultAckBitmapBits]
    BY <1>4 DEF SendStart, Size, Count
  <2>2. start' # Nothing
    BY <2>1 DEF Nothing
  <2>3. WindowChunks(Size) % U32 \in Nat
    <3>1. Size \in Nat \ {0}
      BY <2>1, Widths DEF SetupInv, Usual, ValidMtu, Size, ChunkSize
    <3>2. (DefaultWindowBytes + Size - 1) % U64 \in Nat
      BY <3>1, Widths
    <3>3. WindowChunks(Size) \in Nat
      BY <3>1, <3>2, Division DEF WindowChunks
    <3>4. QED
      BY <3>3, Widths
  <2>4. ValidMtu(client_mtu)' /\ Countable(file_size, Size)'
    BY <1>1, <1>2, <2>1 DEF ValidMtu, Countable
  <2>5. StartInv'
    BY <1>1, <1>2, <2>1, <2>2, <2>3, <2>4 DEF StartInv
  <2>6. received = {} \/ start # Nothing
    BY DEF SetupInv, StartInv
  <2>7. /\ received' \subseteq Numbers'
        /\ \A s \in received' : \A b \in 0 .. file_size' - 1 :
              s * Size' <= b /\ b < s * Size' + Size' => b \in DOMAIN output'
    BY <1>1, <1>2, <2>6 DEF SetupInv, OutputInv
  <2>8. OutputInv'
    BY <1>1, <2>1, <2>7 DEF SetupInv, OutputInv
  <2>9. AcceptedInv'
    BY <1>1, <2>2 DEF SetupInv, AcceptedInv, WindowIsUsable
  <2>10. QED
    BY <1>1, <1>2, <2>5, <2>8, <2>9 DEF SetupInv
<1>5. QED
  BY <1>3, <1>4

\* A step that moves only the programs, not their data.
LEMMA MoveKeepsInv ==
    ASSUME SetupInv, UNCHANGED <<options, start, accepted, received, output>>,
           client' \in {"await_start", "data", "done"} => start # Nothing,
           server' # "crashed",
           server' = "active" => server = "active",
           client' = "done" => received = Numbers
    PROVE  SetupInv'
<1>1. UNCHANGED <<file_size, client_mtu, start, accepted, received, output>>
  BY DEF options
<1>2. Usual' /\ Size' = Size /\ Count' = Count /\ Numbers' = Numbers
  BY <1>1 DEF SetupInv, Usual, Size, Count, Numbers
<1>3. StartInv'
  BY <1>1, <1>2 DEF SetupInv, StartInv, ValidMtu, Countable
<1>4. OutputInv'
  BY <1>1, <1>2 DEF SetupInv, OutputInv
<1>5. AcceptedInv'
  BY <1>1 DEF SetupInv, AcceptedInv, WindowIsUsable
<1>6. QED
  BY <1>2, <1>3, <1>4, <1>5 DEF SetupInv

LEMMA ListenKeepsInv == SetupInv /\ Listen => SetupInv'
<1> SUFFICES ASSUME SetupInv, Listen PROVE SetupInv'
  OBVIOUS
<1>1. /\ client' = client /\ server' \in {"idle", "refused"}
      /\ UNCHANGED <<options, start, accepted, received, output>>
  BY DEF Listen
<1>2. client' = "done" => received = Numbers
  BY <1>1 DEF SetupInv, OutputInv
<1>3. client' \in {"await_start", "data", "done"} => start # Nothing
  BY <1>1 DEF SetupInv, StartInv
<1>4. QED
  BY <1>1, <1>2, <1>3, MoveKeepsInv

LEMMA StartTimesOutKeepsInv == SetupInv /\ StartTimesOut => SetupInv'
<1> SUFFICES ASSUME SetupInv, StartTimesOut PROVE SetupInv'
  OBVIOUS
<1>1. /\ client' = "failed"
      /\ UNCHANGED <<server, options, start, accepted, received, output>>
  BY DEF StartTimesOut
<1>2. server' # "crashed"
  BY <1>1 DEF SetupInv
<1>3. QED
  BY <1>1, <1>2, MoveKeepsInv

LEMMA ReceiveStartAckKeepsInv == SetupInv /\ ReceiveStartAck => SetupInv'
<1> SUFFICES ASSUME SetupInv, ReceiveStartAck PROVE SetupInv'
  OBVIOUS
<1>1. /\ client = "await_start" /\ client' \in {"data", "failed"}
      /\ UNCHANGED <<server, options, start, accepted, received, output>>
  BY DEF ReceiveStartAck
<1>2. start # Nothing /\ server # "crashed"
  BY <1>1 DEF SetupInv, StartInv
<1>3. QED
  BY <1>1, <1>2, MoveKeepsInv

\* All chunks by number are all chunks.
LEMMA CompleteKeepsInv == SetupInv /\ Complete => SetupInv'
<1> SUFFICES ASSUME SetupInv, Complete PROVE SetupInv'
  OBVIOUS
<1>1. /\ client = "data" /\ client' \in {"done", "failed"} /\ server' = "exited"
      /\ Cardinality(received) = start.total_chunks
      /\ UNCHANGED <<options, start, accepted, received, output>>
  BY DEF Complete
<1>2. start # Nothing /\ Cardinality(received) = Count /\ received \subseteq Numbers
  BY <1>1 DEF SetupInv, StartInv, OutputInv
<1>3. Count \in Nat
  <2>1. Size \in Nat \ {0} /\ file_size \in Nat
    BY <1>2, Widths DEF SetupInv, StartInv, Usual, ValidMtu, Size, ChunkSize
  <2>2. QED
    BY <2>1, ChunksCover DEF Count, ChunkCount
<1>4. received = Numbers
  <2>1. IsFiniteSet(Numbers) /\ Cardinality(Numbers) = Count
    <3>1. /\ 0 \in Int /\ Count - 1 \in Int
          /\ (IF 0 > Count - 1 THEN 0 ELSE (Count - 1) - 0 + 1) = Count
      BY <1>3
    <3>2. QED
      BY <3>1, FS_Interval DEF Numbers
  <2>2. QED
    BY <1>2, <2>1, FS_Subset
<1>5. QED
  BY <1>1, <1>2, <1>4, MoveKeepsInv

LEMMA HandleStartKeepsInv == SetupInv /\ HandleStart => SetupInv'
<1> SUFFICES ASSUME SetupInv, HandleStart PROVE SetupInv'
  OBVIOUS
<1>1. /\ start # Nothing /\ accepted = Nothing
      /\ UNCHANGED <<client, file_size, client_mtu, start, received, output>>
  BY DEF HandleStart, options
<1>2. Usual' /\ Size' = Size /\ Count' = Count /\ Numbers' = Numbers
  BY <1>1 DEF SetupInv, Usual, Size, Count, Numbers
<1>3. StartInv' /\ OutputInv'
  BY <1>1, <1>2 DEF SetupInv, StartInv, OutputInv, ValidMtu, Countable
<1>4. Judgement # "throw"
  BY <1>1 DEF SetupInv, StartInv, Judgement
<1>5. AcceptedInv' /\ server' # "crashed"
  <2>1. CASE Judgement = "reject"
    BY <1>1, <1>4, <2>1 DEF HandleStart, SetupInv, AcceptedInv, Reply
  <2>2. CASE /\ Judgement = "accept" /\ server' = "active"
             /\ accepted' = Reply("OK", Min({start.window_chunks, DefaultAckBitmapBits}))
    <3> DEFINE window == Min({start.window_chunks, DefaultAckBitmapBits})
    <3>1. start.window_chunks \in Nat /\ start.window_chunks > 0
      BY <1>1, <2>2 DEF SetupInv, StartInv, Judgement
    <3>2. window \in Nat /\ window # 0 /\ window <= DefaultAckBitmapBits
      <4>1. window = IF start.window_chunks <= DefaultAckBitmapBits
                     THEN start.window_chunks ELSE DefaultAckBitmapBits
        BY <3>1, Widths, MinPair
      <4>2. QED
        BY <3>1, <4>1, Widths
    <3>3. /\ accepted'.accepted_window_chunks = window
          /\ accepted'.accepted_bitmap_bits = DefaultAckBitmapBits
          /\ accepted'.status = "OK"
          /\ accepted' # Nothing
      <4> HIDE DEF window
      <4>1. accepted' = Reply("OK", window)
        BY <2>2 DEF window
      <4>2. QED
        BY <4>1 DEF Reply, Nothing
    <3> HIDE DEF window
    <3>4. WindowIsUsable'
      BY <3>2, <3>3, Widths DEF WindowIsUsable
    <3>5. QED
      BY <1>1, <2>2, <3>3, <3>4 DEF AcceptedInv
  <2>3. CASE accepted' = Reply("IO_ERROR", 0) /\ server' = "exited"
    BY <2>3 DEF AcceptedInv, Reply
  <2>4. CASE accepted' = Reply("INVALID_REQUEST", 0) /\ server' = server
    BY <2>4, <1>1 DEF AcceptedInv, Reply, SetupInv
  <2>5. QED
    BY <1>4, <2>2, <2>3, <2>4 DEF HandleStart
<1>6. QED
  BY <1>2, <1>3, <1>5 DEF SetupInv

LEMMA TransferChunkKeepsInv == SetupInv /\ TransferChunk => SetupInv'
<1> SUFFICES ASSUME SetupInv, TransferChunk PROVE SetupInv'
  OBVIOUS
<1>1. /\ client = "data" /\ start # Nothing
      /\ UNCHANGED <<client, server, file_size, client_mtu, start, accepted>>
  BY DEF TransferChunk, options, SetupInv, StartInv
<1>2. Usual' /\ Size' = Size /\ Count' = Count /\ Numbers' = Numbers
  BY <1>1 DEF SetupInv, Usual, Size, Count, Numbers
<1>3. StartInv' /\ AcceptedInv' /\ (server # "crashed")'
  BY <1>1, <1>2
     DEF SetupInv, StartInv, AcceptedInv, ValidMtu, Countable, WindowIsUsable
<1>4. PICK s \in Numbers :
         IF Accepts(s)
         THEN output' = Copied(s) /\ received' = received \union {s}
         ELSE UNCHANGED <<output, received>>
  BY DEF TransferChunk, Chunks, Numbers, Count, Size
<1> DEFINE to == s * Size
           bytes == to .. to + ExpectedSize(s) - 1
<1>5. /\ Size \in Nat \ {0} /\ s \in Nat /\ to \in Nat /\ to < file_size
      /\ Offset(s, Size) = to
      /\ ExpectedSize(s) = IF Size <= file_size - to THEN Size ELSE file_size - to
      /\ Accepts(s)
  BY <1>1, <1>4, ChunkInFile
<1>6. file_size \in Nat /\ start.chunk_size = Size
  BY <1>1 DEF SetupInv, Usual, StartInv
<1>7. /\ output' = [b \in DOMAIN output \union bytes |->
                       IF b \in bytes THEN to + (b - to) ELSE output[b]]
      /\ received' = received \union {s}
  BY <1>4, <1>5, <1>6 DEF Copied, Size
<1>8. /\ bytes \subseteq 0 .. file_size - 1
      /\ \A b \in 0 .. file_size - 1 : to <= b /\ b < to + Size => b \in bytes
      /\ \A b \in bytes : to + (b - to) = b
  BY <1>5, <1>6
<1> HIDE DEF bytes
<1>9. \A b \in DOMAIN output' : b \in 0 .. file_size' - 1 /\ output'[b] = b
  BY <1>1, <1>7, <1>8 DEF SetupInv, OutputInv
<1>10. received' \subseteq Numbers'
  BY <1>1, <1>2, <1>4, <1>7 DEF SetupInv, OutputInv
<1>11. \A k \in received' : \A b \in 0 .. file_size' - 1 :
          k * Size' <= b /\ b < k * Size' + Size' => b \in DOMAIN output'
  <2>1. DOMAIN output \subseteq DOMAIN output' /\ bytes \subseteq DOMAIN output'
    BY <1>7
  <2>2. \A k \in received : \A b \in 0 .. file_size - 1 :
           k * Size <= b /\ b < k * Size + Size => b \in DOMAIN output
    BY <1>1 DEF SetupInv, OutputInv
  <2>3. QED
    BY <1>1, <1>2, <1>7, <1>8, <2>1, <2>2
<1>12. OutputInv'
  BY <1>1, <1>9, <1>10, <1>11 DEF OutputInv
<1>13. QED
  BY <1>2, <1>3, <1>12 DEF SetupInv

LEMMA SendFailsKeepsInv == SetupInv /\ SendFails => SetupInv'
<1> SUFFICES ASSUME SetupInv, SendFails PROVE SetupInv'
  OBVIOUS
<1>1. /\ client' = "failed"
      /\ UNCHANGED <<server, options, start, accepted, received, output>>
  BY DEF SendFails
<1>2. server' # "crashed"
  BY <1>1 DEF SetupInv
<1>3. QED
  BY <1>1, <1>2, MoveKeepsInv

LEMMA SetupStep == SetupInv /\ [Next]_vars => SetupInv'
<1> SUFFICES ASSUME SetupInv, [Next]_vars PROVE SetupInv'
  OBVIOUS
<1>1. CASE UNCHANGED vars
  <2>1. /\ client' = client /\ server' = server
        /\ UNCHANGED <<options, start, accepted, received, output>>
    BY <1>1 DEF vars
  <2>2. client' = "done" => received = Numbers
    BY <2>1 DEF SetupInv, OutputInv
  <2>3. /\ client' \in {"await_start", "data", "done"} => start # Nothing
        /\ server' # "crashed"
    BY <2>1 DEF SetupInv, StartInv
  <2>4. QED
    BY <2>1, <2>2, <2>3, MoveKeepsInv
<1>2. CASE Finished
  BY <1>1, <1>2 DEF Finished
<1>3. QED
  BY <1>1, <1>2, SendStartKeepsInv, ListenKeepsInv, HandleStartKeepsInv,
     StartTimesOutKeepsInv, ReceiveStartAckKeepsInv, TransferChunkKeepsInv,
     SendFailsKeepsInv, CompleteKeepsInv DEF Next

LEMMA SetupInvariant == Spec => []SetupInv
BY SetupInit, SetupStep, PTL DEF Spec

-----------------------------------------------------------------------------
(* Theorems. *)

\* Whatever the widths, the overhead, the MTU arguments and the sizes of files,
\* the server writes a byte only at its own place within the file, and when the
\* client is done it has written every byte (client.cpp:552-555,
\* server.cpp:331-343, protocol.cpp:63-72).
THEOREM BytesLandInPlace == Spec => []BytesInPlace
<1>1. SetupInv => BytesInPlace
  <2> SUFFICES ASSUME SetupInv PROVE BytesInPlace
    OBVIOUS
  <2>1. file_size \in Nat
    BY DEF SetupInv, Usual
  <2>2. \A b \in DOMAIN output : b \in 0 .. file_size - 1 /\ output[b] = b
    BY DEF SetupInv, OutputInv
  <2>3. \A b \in DOMAIN output : b < file_size /\ output[b] = b
    BY <2>1, <2>2
  <2>4. ASSUME client = "done" PROVE DOMAIN output = 0 .. file_size - 1
    <3>1. start # Nothing /\ received = Numbers
      BY <2>4 DEF SetupInv, StartInv, OutputInv
    <3>2. Size \in Nat \ {0}
      BY <3>1, Widths DEF SetupInv, StartInv, Usual, ValidMtu, Size, ChunkSize
    <3>3. \A b \in 0 .. file_size - 1 : \E s \in Numbers :
             s * Size <= b /\ b < s * Size + Size
      BY <2>1, <3>2, ChunksCover DEF Numbers, Count, ChunkCount
    <3>4. \A s \in Numbers : \A b \in 0 .. file_size - 1 :
             s * Size <= b /\ b < s * Size + Size => b \in DOMAIN output
      BY <3>1 DEF SetupInv, OutputInv
    <3>5. 0 .. file_size - 1 \subseteq DOMAIN output
      BY <3>3, <3>4
    <3>6. QED
      BY <2>2, <3>5
  <2>5. QED
    BY <2>3, <2>4 DEF BytesInPlace
<1>2. QED
  BY <1>1, SetupInvariant, PTL

\* The server judges every START of the client without throwing: it compares
\* the chunk size before it counts the chunks, and the client has counted them
\* (server.cpp:257-260, client.cpp:416-422).
THEOREM EveryStartIsJudged == Spec => []HonestStartIsAnswered
<1>1. SetupInv => HonestStartIsAnswered
  BY DEF SetupInv, HonestStartIsAnswered
<1>2. QED
  BY <1>1, SetupInvariant, PTL

\* What the server has accepted nobody refuses later: the window passes the
\* client's tests and SenderWindow's, and every chunk the client will send has
\* the number and the size the server expects.
NothingRefused ==
    server = "active" =>
        WindowIsUsable /\ \A s \in Numbers : Accepts(s)

\* The safety that AcceptedIsDelivered needs: a chunk refused once would be
\* refused and sent again for ever (client.cpp:482-492, server.cpp:332-336).
THEOREM AcceptedIsNotRefused == Spec => []NothingRefused
<1>1. SetupInv => NothingRefused
  <2> SUFFICES ASSUME SetupInv, server = "active"
               PROVE  WindowIsUsable /\ \A s \in Numbers : Accepts(s)
    BY DEF NothingRefused
  <2>1. start # Nothing /\ WindowIsUsable
    BY DEF SetupInv, AcceptedInv
  <2>2. QED
    BY <2>1, ChunkInFile
<1>2. QED
  BY <1>1, SetupInvariant, PTL
=============================================================================
