# FRFT: models and proofs

FRFT moves one file from a client to a server over UDP. This directory models
the protocol in TLA+, checks the models with TLC and proves theorems about
them with TLAPS. Paths are relative to the repository; `reliability.cpp:34`
means `src/src/reliability.cpp` line 34.

    tlc -workers 2 -config window.cfg WindowDriver     # one run
    tlapm ReliabilityProofs.tla                        # one proof module

`PROJECT.json` lists the runs, the defects ("mutants") that each property
detects, the source lines behind every definition, the hazards and the theorems.

## 1. The system

A run of the client reads a file, splits it in chunks that fit the MTU and goes
through three phases: START handshake, data, COMPLETE handshake. A run of the
server accepts one START, writes the chunks to a memory-mapped file, answers
COMPLETE, lingers in TIME_WAIT and exits. Both programs have one thread; they
share nothing but the network.

| Component | State | Operations | Talks to |
| --- | --- | --- | --- |
| `SenderWindow` (`reliability.cpp`) | per chunk: state, time of last send, three retransmission flags, two evidence counters; `base_`, `next_sequence_`, `outstanding_chunks_`, the retransmission queue | `select_next_packet`, `mark_sent`, `process_ack`, `check_timeouts`, `all_acked` | called by the client loop |
| `ReceiverTracker` (`reliability.cpp`) | flag per chunk, count, cumulative ACK, horizon | `mark_received`, `has_received`, `complete`, `make_ack_snapshot` | called by the server loop |
| Client loop (`client.cpp`) | the window, the pacer, a socket | `drain_acks`, `wait_for_ack`, `apply_ack_packet`, `send_data_packet`, handshakes with 10 attempts of 1 s | DATA, START, COMPLETE to the server |
| Server loop (`server.cpp`) | owner's endpoint and session, tracker, output, `ack_pending`, `packets_since_ack`, `next_ack_time` | accept/refuse START, DATA branch, ACK pacing, COMPLETE, `time_wait` | ACK, START_ACK, COMPLETE_ACK to clients |
| Pacer (`pacer.cpp`) | tokens, time of last refill | `wait_for_slot`, `reset` | delays the client before each DATA packet |
| File I/O (`file_io.cpp`) | descriptor, mapping | constructors, `sync` | input of the client, output of the server |
| Wire format (`protocol.cpp`) | none | (de)serialisation, `chunk_size_for_mtu`, `chunk_count` | both programs |
| Options (`parse_options`) | MTU, rate, file names | conversion of numbers, refusal of bad ones | both programs compute their chunks from them |
| Diagnostics, scripts, Makefile, unit test | — | — | not part of the protocol |

### What makes it hard

* *Order of ACKs.* ACKs are cumulative snapshots that arrive late, twice, out
  of order or not at all. `process_ack` decrements an unsigned counter, moves
  `base_`, and counts evidence for fast retransmission from them.
* *A queue with lazy deletion.* A queued chunk may be ACKed before it is
  selected. The flag `retransmit_pending` says whether an entry is live, and
  `check_timeouts` trusts the flag: a flag without an entry would be a chunk
  that is never sent again.
* *Two limits that must fit.* The window limits chunks in flight, the SACK
  bitmap limits how far above the cumulative ACK the server can report.
* *A postponed ACK has no timer.* The server checks `next_ack_time` only when a
  DATA packet arrives. Progress rests on the client's RTO.
* *Old datagrams.* Packets of an earlier session between the same ports, or a
  delayed START of a session that ended, reach either end at any time.
* *Two programs, one arithmetic.* Chunk size, number of chunks, offset and size
  of each chunk are computed twice, from options of different users, in 16,
  32 and 64 bits. A chunk whose size the server refuses is resent for ever.
* *Three clocks.* The client gives up after ten seconds, TIME_WAIT lasts three,
  and between them stands an `msync()` of unknown duration.
* *Sleeps that end late.* The pacer's tokens depend on when the system wakes it.
* *Failures half way.* A constructor that throws runs no destructor; a failed
  `open` may have truncated the file; the client can fail after the server has
  accepted the session.
* *Kills and restarts.* Nothing but the output file survives; a restarted
  server can be handed the same session by a delayed START, with an empty
  tracker, while the client counts chunks the dead process ACKed.

`PROJECT.json`, "hazards", has each one at the line where it bites.

### What makes each component correct

* SenderWindow: its counters equal what the states of the chunks say; no chunk
  is forgotten, sent needlessly, or sent after its ACK; one piece of evidence
  buys one fast retransmission.
* ReceiverTracker: the numbers kept incrementally are those of the received
  set; a later ACK never takes back an earlier one.
* Data phase: the client believes delivered only what was written, the file is
  intact when it leaves the loop, and it does leave it.
* Sessions: "Transfer complete" on the client means the whole file was on disk
  at a `sync()`; the output never mixes two sessions; a stored file is not
  touched; every client ends; failure is reported only for a reason.
* Pacer: never more than rate × time + one burst, no token lost to a late sleep,
  and `wait_for_slot` returns.
* Wire format and options: what one end writes the other reads; the two ends
  agree on number, offset and size of every chunk; what the server accepts, the
  client can use.
* File I/O: what is taken is given back once, on every way out; COMPLETE is
  answered after the flush.

## 2. Modules

    AckSnapshot ── SenderWindow ──── WindowDriver          (run: window)
         │              └──────┐
         └──── ReceiverTracker ┴─ DataTransfer ─ MCTransfer (runs: transfer, transfer_live)
                  (run: tracker)       └ implements ReliableDelivery

    Session                                                (runs: session, session_live)
    TimedComplete                                          (run: timed_complete)
    Setup                                                  (run: setup)
    Codec ─ MCCodec                                        (run: codec)
    Pacer                                                  (run: pacer)
    FileIO                                                 (run: file_io)

DataTransfer is the composition at the centre: it takes the two classes as they
are, and what it needs of the other parts it assumes in a form that these
modules establish. Pacer delivers the "arbitrary but finite delay" of DataTransfer's
`pc = "send"`; Setup the fact that both ends mean the same bytes by a chunk;
Codec that a packet is what its sender wrote; Session that server and client are of
one session. TimedComplete refines the end of Session with clocks, FileIO the
output file of Session with the calls that may fail.

**AckSnapshot** holds what both ends agree on: the chunks, the ACK payload, and
`SnapshotOf(R)`, the ACK that a received set R determines. The bitmap is a set
of offsets; `bitmap_bits` is the constant `SackCoverage`, which the client
insists on (client.cpp:482-486).

**SenderWindow** has one variable per field of the class and one action per
public operation; `select_next_packet` is three actions (`SelectRetransmission`,
`SelectNew`, `SelectNothing`), one per outcome. `decision` is the chunk the
caller has selected and not yet marked as sent. Time enters the class only as
`now - last_sent_time`, compared with the RTO and the repeat delay, so the model
keeps that age and stops counting at `Rto`; `Elapse` is a tick. Loops over
chunks become sets: process_ack's walk from `next_sequence_` down to `base_` is
the set of holes that are due, appended in descending order, as the loop
does. The base-stall statistics are left out.

**WindowDriver** calls the operations in every order, provided a selected chunk
is marked as sent before the next ACK or timeout, as in client.cpp:517-570.
The ACKs it feeds in are the snapshots of *any* subset of the chunks sent:
that includes whatever a network can do to the ACKs of a real receiver, and
receivers that take ACKs back. `fast_retransmits` is a history variable.

**ReceiverTracker** is the class, and `TrackerSpec` a caller that marks chunks in
any order with duplicates. `mark_received` is one action, including the loop
that moves the cumulative ACK.

**DataTransfer** composes the two classes with the client's loop, the server's
DATA branch and the network. Each process is one thread, so an action extends
from one receive or send to the next; `pc` is the place in the client's loop:
"drain" (first `drain_acks`; leaving it runs `check_timeouts`), "select",
"send" (inside `pacer.wait_for_slot`, an arbitrary delay), "drain2", "wait"
(`wait_for_ack`, 10 ms), "done". The server's ACK decision is `ShouldSendAck`,
evaluated after `mark_received` as in server.cpp:374-379. A channel is the set
of datagrams that may still arrive: reception may keep the datagram
(duplication) and any may be dropped; there is no order. Both channels can start with
datagrams of an old session. The server is not restarted here; Session has that.

**ReliableDelivery** is the promise: the receiver's copy is filled chunk by
chunk, each once and with the sender's bytes, and the sender confirms only
delivered chunks. DataTransfer implements it under the mapping
`copy <- output`, `confirmed <- {s : state[s] = "ACKED"}`.

**Session** has the handshakes, ownership and TIME_WAIT for several clients and
a server that may be killed and started again. The data phase shrinks to what
DataTransfer establishes. A client's name stands for its endpoint and session
id. Timeouts fire at any moment (the model is untimed). The network is the set
of datagrams ever sent; loss is a datagram nobody receives. The output file has
a value per chunk, the client whose bytes it holds. `stored` is a history
variable: the clients whose file was whole when `sync()` ran.

**TimedComplete** is the COMPLETE handshake of Session with its clocks, for one
client and a server that has every chunk. Datagrams are lost or take at most
`MaxDelay`; the client's thread notices a timeout at most `MaxLate` late; the
first COMPLETE starts an `msync()` of up to `MaxSync`, during which datagrams
queue up in the socket. The histories `lost_requests` and `lost_answers` record
which rounds the network spoiled. `TimingAssumption` is what the constants of
the code leave room for.

**Setup** is what happens before the first chunk and what a chunk is: the
options of both programs with their conversions (`--mtu` through `strtoul` into
32 bits, `--rate` through `double` into 64), `chunk_size_for_mtu`, `chunk_count`,
the window, the server's judgement of START with its order of evaluation
(`chunk_count` throws inside it), the client's tests of START_ACK, the
constructors that may throw, and then each chunk with the offset and size that
either end computes. `output` maps each byte written to the input byte it holds.
DATA that does not fit the path makes `sendmsg` fail and the client throw (`SendFails`);
control packets are taken to fit every path.

**Codec** is `protocol.cpp` byte by byte. The tables of the writer and of the
reader are separate, as the code has each offset twice; `make_ack_snapshot`'s
packing of the bitmap and `process_ack`'s unpacking are there too. The network
delivers the datagram as sent, cut, extended, or with one byte altered. Integers
of 1, 2, 4 and 8 bytes are written digit by digit and read by shifting, as in the code;
the bits of a byte are quotients and remainders, not a library's operators, so that the
module can be reasoned about. `Decode` is what each receive loop makes of a datagram, `receiver` the
loop: the server idle, in its session or in TIME_WAIT, the client in its three phases. `Takes` has the
tests of the header (type, session, number, size of DATA), which come before any payload is read.
An active server answers a START without reading its payload; a client in a handshake throws on a
payload of the wrong size, the other loops go on. The judgement of a START's values is in Setup. **MCCodec** has the packets to try: in turn every field has an extreme value.

**Pacer** is the token bucket in exact integers (the code uses `long double`).
An action extends from one reading of the clock to the next sleep or the return;
`since` is the time since the last refill. `meter` is a history variable: an
ideal bucket that drains at the rate and takes in every packet let through.

**FileIO** is the life of both programs as the operating system sees it:
descriptor, mapping and socket taken and given back, with a failure possible at
every call, constructors that throw and the two orders in which the server
leaves its scope. `held` is what the system holds, `fd` and `data` what the file object
believes.

The operators whose names have a suffix, as `CanSendNew_NoCoverage`, are
plausible defects of the operator with that name. No specification uses them;
they serve to show that each property notices a defect of the code.

## 3. Runs

| Run | Instance | Shows |
| --- | --- | --- |
| `window` | 6 chunks, window 2, coverage 5, threshold 2, repeat delay 1, RTO 2 ticks | the invariants of SenderWindow under any ACKs, timeouts and ticks, and the distance between retransmissions |
| `tracker` | 7 chunks, coverage 4 | the tracker's numbers and ACKs are exact and monotonic |
| `transfer` | 3 chunks, window 2, coverage 2, RTO 1 tick, ACK after 2 packets or 1 tick, one stray packet each way | safety of the data phase, and that it implements `ReliableDelivery!Spec` |
| `transfer_live` | 2 chunks, window 2, ACK after 3 packets | the data phase ends; implements `ReliableDelivery!FairSpec` |
| `session` | 3 clients (one with another MTU, two killable), 2 chunks, 2 attempts, 2 starts, 1 crash | success is true, ownership is exclusive, the file is the owner's and stays as stored |
| `session_live` | 2 clients (one with a zero rate), 2 starts, no crash | every client run ends |
| `timed_complete` | timeout 4 ticks, 5 attempts, TIME_WAIT 12, delays at the largest the assumption allows | the client reports failure only if every round was lost or two COMPLETEs in a row were |
| `setup` | widths of 6, 8 and 64 values, overhead 1, 7 MTU arguments at each end, 9 file sizes, 3 rates, 2 paths | every byte lands in its place, no START of the client crashes the server, what is accepted is delivered |
| `codec` | bytes of 3 bits, bitmap of 2 bytes, every field at its extremes, each of the six receive loops | every packet survives the trip, and nothing damaged is misread |
| `pacer` | rate 2, bucket 12, packets 3, 4, 9 and 15, longest sleep 5, clock readings up to 9 apart | rate bound, tokens kept through late sleeps, every call returns |
| `file_io` | an empty file and one of 2 chunks | everything released once, COMPLETE_ACK only after a flush of everything |

Why the bounds suffice to meet the cases:

* `window`: with threshold 2, four chunks ACKed above chunk 0 pay for two fast
  retransmissions of it, so the budget is tight; a window of 2 and a coverage
  of 5 make each of the two limits bind while the other does not; two ticks of RTO
  separate the repeat delay from the RTO.
* `tracker`: seven chunks against four bits give gaps inside, at the edge and
  beyond the bitmap.
* `transfer`: three chunks exceed the window by one, so the window slides; the
  coverage equals the window, the tightest the constructor allows. The stray
  ACK claims every chunk and the stray DATA has wrong bytes, so accepting
  either violates a property.
* `transfer_live`: the threshold is above the number of chunks, so the first
  ACK may be postponed until a retransmission arrives.
* `session`: two starts and one crash are what it takes for a delayed START to
  reopen a session on a second server. Two attempts exercise the retry, and
  two clients that can own the server exercise succession.
* `timed_complete`: the ratios 1 : 3 of the timeout to TIME_WAIT are those of the
  code, ticks of 250 ms. Five attempts instead of ten leave room for every
  pattern of two losses with an answer in between; `MaxSync` is the largest
  value with which `TimingAssumption` holds.
* `setup`: the widths are small so that the values on both sides of every limit
  occur: MTUs at and beyond both bounds, two that are valid only after
  truncation to 32 bits, a path narrower than the largest of them, counts of chunks at and above the limit, files longer than
  a 32-bit number of bytes, a chunk so small that the window exceeds the bitmap, an
  empty file and last chunks of one byte and of a whole chunk.
* `codec`: three bits hold the packet types and flags, the narrowest byte that
  does. Field widths in bytes, offsets and padding are those of the code. A second
  session, a number of no chunk and payloads of the wrong size meet the tests of
  the receive loops; with three bits one altered byte makes a START of a COMPLETE, or
  a START_ACK of a COMPLETE_ACK, on which the client throws.
* `pacer`: the packets are a quarter, a third, three quarters and more than the
  whole of the bucket, so that each branch of the refill target and of the capacity
  is taken; the longest sleep is shorter than the largest packet needs.
* `file_io`: a file without chunks is not mapped, one of two chunks can be
  interrupted between them.

Every bound is a named constant: `MaxStarts` and `MaxCrashes` bound the
restarts, `ControlAttempts` is `kControlAttempts`, ages stop at `Rto` and
`AckInterval` because the code compares with nothing larger, and `MaxSince` stops
the pacer's clock between two readings. Deadlock is checked
in all runs but `tracker`, whose caller has nothing left to do when every chunk is
received, and `codec`, which ends when its one packet is decoded; the ends of the other
programs are explicit (`Finished`).

What each property says is in the comment above it. Points worth knowing:

* `SuccessMeansStored` holds because of two independent checks: the server
  refuses COMPLETE while its own tracker has holes (server.cpp:400) and the client
  compares the statistics (client.cpp:614). Either alone is enough.
* `stored` is about the moment of `sync()`. `StoredKept` says what can happen to
  the file later: nothing, until a server that was started anew with the same
  `--output` handles a START. That START may be a delayed one of the session that
  stored the file; nothing in the code tells it from a new one.
* `FailureNeedsLosses` needs the assumption that `msync()` takes less time than
  the client's attempts, about nine seconds. Without it, TLC finds with
  `MaxSync = 14` a client that gives up because one COMPLETE was lost, and
  with 18 one that lost no datagram at all. For a file of many dirty pages on a
  slow disk that is a real possibility, which the code does not address.
* On a link with independent losses of 20 %, two COMPLETEs in a row are lost once in
  25 pairs. They cost the client its success only if the answer to the COMPLETE
  before them was lost too and the server, silent for three seconds, has left.
* `AcceptedIsDelivered` excepts a rate that comes out as 0 bit/s: below 1 bit/s
  by truncation, above 2^64 bit/s by a conversion that C++ leaves undefined. The
  Pacer then throws in the client, after the server has accepted, and
  the server is left with a session nobody continues. It also excepts a path that a
  chunk does not fit: the client sets IP_PMTUDISC_DO, and `sendmsg` fails with EMSGSIZE.
* `RateBound` counts a packet larger than the bucket as its own burst, since
  `wait_for_slot` enlarges the bucket for that call.
* `RetransmissionsSpaced` is what remains for a client whose server has died: the
  data loop never ends, but sends each chunk at most once per RTO.
* `SnapshotLossless` connects `can_send_new` on the client with
  `make_ack_snapshot` on the server: without the coverage test the server would
  receive chunks it cannot report.
* `ConfirmedIsReceived` is stated for runs without a crash. After a crash it is
  false, and rightly so; `SuccessMeansStored` is what still holds then.

## 4. Fairness

*DataTransfer.* Weak fairness of the client's steps and of the clock: a thread
that can run does, and time passes. Leaving a drain and the 10 ms timeout are
weakly fair, since the client leaves `drain_acks` when the socket is empty and
polls with a deadline. The network may lose any datagram but not all: strong
fairness of the arrival of each chunk (the client sends an unACKed chunk over
and over), and, if ACKs of the session are in the channel again and again, one
is received again and again. The latter is an assumption on the channel and not
SF of an action, because an ACK that is lost while the client is not reading
never enables its receipt. No fairness is assumed of a particular ACK, of stray
packets, or of `LoseData` and `LoseAck`.

*Pacer.* Weak fairness of waking up and of the clock: a sleep ends some time
after its deadline. *Setup.* Weak fairness of the whole: the programs run, and
what is sent arrives once; loss is the matter of Session and DataTransfer.

*Session.* Weak fairness of the client's handshake steps, of the sending of
each missing chunk, of an answered arrival of a chunk that is in the network,
of an ACK that tells the client something new, and of leaving TIME_WAIT.
Nothing is assumed of START, COMPLETE and their answers: those are retried a
fixed number of times and may all be lost. `ClientsEnd` assumes no server
crash: the data loop (client.cpp:501) has no limit, so a client whose server
dies retransmits for ever. Likewise a server whose client is gone waits for ever
and answers BUSY; no property asks otherwise, since the code has no mechanism for it.

## 5. Proofs

Eight modules hold proofs. A theorem holds for every value of the constants
that the named assumption of its module allows (FileIO needs none); TLC evaluates
each of them in the runs. They ask for no more than the code checks or its constants provide:

* `SnapshotAssumption`, `WindowAssumption`: what the constructors check, and an
  order between the constants of `reliability.hpp`.
* `TransferAssumption`: types, stray packets that differ from the session's own,
  and a threshold for delayed ACKs of at least one packet.
* `SessionAssumption`: finitely many chunks, at least one attempt and one server.
* `SetupAssumption`: three widths in ascending order, defaults that fit theirs,
  files no longer than an `off_t` can say, and paths with any MTU.
* `CodecAssumption`: bytes that hold the flags and the packet types, constants that fit
  their fields, and a bitmap of whole bytes, which the 8192 bits of
  `kDefaultAckBitmapBits` are; a session id that is not 0, sizes within their types. `PacketsAssumption`: the packets are those of
  `make_header` and the payload structures, any values in them, DATA of up to
  65535 bytes.
* `PacerAssumption`: the constructor's check, and that there is a largest packet.
* `TimingAssumption`: two timeouts and a datagram's delay fit TIME_WAIT, a round
  trip fits a timeout, and the flush leaves the client time for its attempts.
  The first two the network must keep, the third the disk.

| Module | Theorems | Argument |
| --- | --- | --- |
| `ReliabilityProofs` | the ten properties of run `window`, the four of run `tracker` | finite sets and lists of them; every operation of SenderWindow preserves `WindowInv`, `mark_received` preserves `TrackerInv`; then `BudgetInv` and `SpacedInv` |
| `DataTransferProofs` | the six properties of run `transfer`, the refinement of `ReliableDelivery!Spec` among them; that both loops implement the specifications the classes are proved under; that the two ends stay in step, forget no chunk and undo nothing | `TransferInv`, then step by step to a step of the specification implemented |
| `CodecProofs` | the two properties of run `codec` | division with remainder, layouts, bitmaps, whole packets; `CodecInv` |
| `SessionProofs` | the six properties of run `session` | `TypeInv`, `StoredInv`, `FreshInv`, `AcksInv` |
| `TimedCompleteProofs` | `FailureNeedsLosses`, and that the server does not leave early | `TimedInv` |
| `SetupProofs` | `BytesInPlace`, `HonestStartIsAnswered`, and that nothing accepted is refused later | `SetupInv`, over `ChunksCover` |
| `PacerProofs` | `RateBound`, `OversleepKept` | `PacerInv`, `SleepInv` |
| `FileIOProofs` | `ReleasedOnce`, `DurableBeforeAnswer` | `FileInv` |

*WindowInv.* None of the invariants is inductive alone. `OutstandingExact`
needs to know that every selected chunk is IN_FLIGHT or ACKED except the one
the caller holds (`SelectionInv`), otherwise an ACK for it could be
miscounted. `RetransmissionTracked` counts entries; `QueueInv` says the same
position by position: a flagged chunk has an entry, two entries of one chunk
are equal or dead, and a dead entry is of an ACKED chunk. The last clause is
what keeps the uniqueness, since a chunk may be queued again
only when its flag is clear and it is IN_FLIGHT, and then it has no entry. `EvidenceIsPast`
needs that ACKED is final and that `next_sequence_` only grows, so the number of later
ACKs only grows (`LaterAckedGrows`). There is one lemma per operation
(`ProcessAckKeepsInv`, ...), stated without the driver so that DataTransfer's
proofs can use them.

*BudgetInv.* Counts a fast retransmission from the moment it is selected
(`Spent`). The threshold times the number spent is at most the evidence
remembered, and a chunk queued for fast retransmission has a full threshold
of new evidence on top. The selection moves the evidence up
and the count with it.

*SpacedInv.* A chunk may wait in the queue for any time, so the age at which it
was queued must survive until it is sent. It does because a chunk the caller holds is not in
the queue (so sending it resets no queued chunk's age), because ACKs remove a
chunk from the queue when they end its age, and because a chunk with a fast
retransmission behind it has `fast_retransmitted` set, which makes
`process_ack` look at its age.

*TransferInv.* The two classes bring `WindowInv` and `TrackerInv`. What relates them is
`BetweenInv`: a chunk received was sent, and a chunk ACKED was received. It is inductive with
`AckInv` (an ACK of the session on its way reports received chunks only) and `DataInv` (a
DATA packet of the session carries the file's bytes of a chunk that was sent). From it,
`base_` is at most the server's cumulative ACK, since everything below `base_` is
ACKED; with `SpanWithinSack` every chunk that can be received lies within the
bitmap, which is `SnapshotLossless`. `ServerInv` has the output and the counters of the
postponed ACK. `ClientInv` ties `pc` to the window: a decision is open just in
"send", and in "wait" the queue has been emptied and no new chunk fits, from which
`WaitingIsTimed` follows: if the chunk at `base_` were not yet sent, nothing would be
outstanding and a new chunk would fit. For the refinement, the arrival of a new chunk is
ReliableDelivery's delivery, and the ACK that changes states its confirmation,
of chunks delivered already by `AckInv`; all else stutters.

*The classes in their loops.* What `ReliabilityProofs` shows of a class holds for the callers
its own specification allows. `ServerUsesTracker` and `ClientUsesWindow` show that the programs
are such callers: every step of DataTransfer is a step of `TrackerSpec` and of `DriverSpec`, or
leaves them unchanged. For the tracker this is that DATA of a chunk outside the file never
reaches `mark_received`, which would return false, a result the server does not look at. For the window it takes `AcksAreGenuine`: an ACK of
the session, however late, is the snapshot of a set of received chunks, and received
chunks were sent. WindowDriver's `fast_retransmits` is not a variable of the program, so
`CountedSpec` adds it to `Spec` as a history variable that no step reads. By these refinements
`AcksNeverTakeBack` and `TransferIsPaced` carry over from the classes without another invariant.

*Both ends together.* `TwoEndsStayInStep` orders the counters of the two programs:
`base_` <= cumulative ACK <= horizon <= `next_sequence_` <= `base_` + coverage. It follows from
`TransferInv`, and says that no counter runs away from its counterpart under any loss.
`EveryChunkIsAttended` is the safety half of `EventuallyDone`: each chunk selected so far is
ACKed, in the hands of the caller, queued and flagged, or IN_FLIGHT with a timer that will queue it.
`NothingIsUndone` is about steps: what is written, received or ACKed stays so, and the three counters
that name a prefix only grow.

*CodecProofs.* The bytes of a number are its quotients by the weights, modulo the values of
a byte. `DivideUniquely` and `DivideTwice` make of the writer's shifts and the reader's one
fact each way: `NumberWritten` (a number that fits is read back) and `NumberRead` (any bytes
are those of the number read from them). The four widths of the code are each unfolded; no
induction is needed. `WellLaid` (no two fields share a byte) carries that over to a whole
structure, and `Fully` (no byte but the padding is without a field) the other way. Both are
facts about the tables of offsets. A bitmap is a set of bits below a multiple of the byte's
width, and a bit of it is a bit of one byte (`BitInByte`). `PacketSurvives` and
`AcceptedIsWritten` then put header and payload together, type by type: the first takes
every check of the receiver into account, the second uses each of them. `HeaderAgain` is the part
of the second that is left when a payload is not read.

*CodecInv.* What is in the air is bytes; it is what was sent until it is damaged; what was
decoded is what is in the air. `TakenAs` splits `Decode` by its outcomes. How a datagram is damaged, and where it arrives, do not matter to
`NothingIsMisread`, which holds for any bytes.

*TimedInv.* Time is not a variable, yet the proof is about sums of times. The client's
own books give a bound: n attempts have cost n timeouts, so
`SinceSecond` is at most the time since COMPLETE 2 was due. A packet that waits
nowhere is `Fresh`: it has aged as the client's timer has. Only `msync()` makes
datagrams wait (`Held`), and it starts on COMPLETE 1 or 2 unless both were lost; when
it ends, `SinceSecond` is still below the bound that the last clause of
`TimingAssumption` puts under the client's failure. `WaitInv` is the other half: what is
left of TIME_WAIT outlasts the packet under way, or the next COMPLETE, or the next
but one where the next may still be lost. `Accounted` then finds at the client's failure
every COMPLETE among the lost ones, or its answer. The proof does not use that
timeouts are noticed late in that last clause, so the assumption does not count `MaxLate` there;
with one tick more of `MaxSync` TLC finds the property violated.

*SetupInv.* The START in the network says what the client will do, and was sent only if the
client could count its chunks; so the server's own count cannot throw. No
product wraps, since the offset of a chunk is below the file's size
(`ChunksCover`), and no difference does; so both ends
compute the same size for a chunk (`ChunkInFile`), the server accepts it, and each byte of
the file is in a chunk. `AcceptedIsNotRefused` is the safety half of
`AcceptedIsDelivered`.

*FileInv.* Where a program stands determines what it holds (`Held`), and where the
destructor runs, or may still run, the members it acts on tell the truth about that
(`Believed`): it is the step between the system call and the assignment that makes the two
differ. `FlushInv` says from where on everything is written, and from where on flushed.

*SleepInv.* A caller that sleeps lacks tokens for its packet and sleeps for what the
bucket was short of the target when it lay down, rounded up (`RoundedUp`). A late end therefore
only adds what accrues beyond the target, two thirds of a bucket, and that fits the last third.

*PacerInv.* `RateBound` says nothing of the tokens. The invariant adds what the next
refill can find, tokens + since × rate: as long as that fits the bucket it fits
there together with the meter, and when it does not, the meter has run dry.
A tick takes from the meter what it adds to the credit; a packet that is granted
moves from the one to the other; the cap only lowers the credit.

*FreshInv.* A server that waits for its first START has stored nothing; with
`OutputIsOwners` (a chunk not yet received is blank) this gives `StoredKept`.

*TrackerInv.* The cumulative ACK is a chunk not received with all below
received; the horizon is one above a received chunk. `FirstMissing` and
`Horizon` are then determined, hence `SnapshotExact`.

*StoredInv.* `SuccessMeansStored` follows step by step backwards: a client
succeeds on a COMPLETE_ACK; every COMPLETE_ACK in the network, and the owner in
TIME_WAIT that may send another, is of a session already in `stored`
(`Vouched`); a session enters `stored` when its tracker is full, because then
the whole file holds its bytes (`OutputIsOwners`); and the bytes are the
owner's because DATA is taken from the owner only (`OwnerKnown`). *AcksInv*
adds, for executions without a crash, that a client in its data phase still
owns the server and that no ACK of its session names a chunk the tracker lacks.

Model-checked only: liveness (`EventuallyDone`, `KeepsDelivering`, `ClientsEnd`,
`SlotGranted`, `AcceptedIsDelivered`). Its proofs need ENABLED, which is beyond the prover's reach here.
`EveryChunkIsAttended`, `WaitIsTimed` and `AcceptedIsNotRefused` are the safety facts under it.

## 6. Not modelled

* Diagnostics and statistics: counters that are printed and never read back.
* The scanning of `argv`, `--host`, `--port`, `--file`, `getaddrinfo`: sequential, no
  protocol state. The conversions of `--mtu` and `--rate` are in Setup.
* Memory exhaustion in the constructors of SenderWindow and ReceiverTracker,
  which allocate per chunk: an exception like those of Setup, at the same place.
* Rounding in the Pacer's `long double`.
* The abandoned server (server.cpp:311): Session reaches the states, and no
  property asks for more, since the code has no mechanism against it.
* Scripts and Makefile: network set-up and wrappers.
* `tests/protocol_test.cpp` was read as a statement of intent. It constructs
  `SenderWindow` with two arguments, a constructor the class no longer has.

## 7. Plan

Done: sections 2 to 5. Every safety property of the runs is a theorem, and the runs check
the liveness that remains. When the code changes, the order to follow is: the module of the part
that changed, its run, its invariant, its proofs. Left open, because each needs more than
these modules say:

1. Liveness proofs, once a prover handles ENABLED.
2. A timed model of the data phase, to bound how long a lost chunk delays the end. The RTO and
   the repeat delay are in SenderWindow as ages; the pacer's rate is not connected to them.
3. The rounding of `long double` in the Pacer, which the integers of its module leave out.
