-------------------------------- MODULE FileIO --------------------------------
(***************************************************************************)
(* What the two programs hold of the operating system, from start to exit: *)
(* the socket, and the descriptor and the mapping of their file            *)
(* (MappedInputFile, MappedOutputFile, and the order in which run_client() *)
(* and run_server() take and leave them when any call fails).              *)
(*                                                                         *)
(* Every system call may fail.  An exception leaves a constructor without  *)
(* the destructor running; elsewhere it destroys the file object when its  *)
(* scope is left: in the server inside the try block, before the socket is *)
(* closed, in the client after it.  The protocol is reduced to its order:  *)
(* START, chunks, COMPLETE.                                                *)
(***************************************************************************)
EXTENDS Integers

CONSTANT Chunks   \* the chunks of a file that is not empty

Programs == {"client", "server"}
Resources == {"socket", "descriptor", "mapping"}

VARIABLES
    pc,        \* where each program stands
    held,      \* what each holds, as the system sees it
    fd,        \* fd_ >= 0 in its file object
    data,      \* data_ # nullptr in its file object
    misused,   \* history: something not held was closed, unmapped or used
    empty,     \* size_ = 0
    written,   \* chunks copied into the output mapping
    flushed,   \* chunks that were in the mapping at the last msync() to succeed
    answered   \* COMPLETE_ACK was sent

objectVars == <<fd, data>>
fileVars == <<written, flushed, answered>>
vars == <<pc, held, objectVars, misused, empty, fileVars>>

Init ==
    /\ pc = [client |-> "open", server |-> "socket"]
    /\ held = [p \in Programs |-> {}]
    /\ fd = [p \in Programs |-> FALSE]
    /\ data = [p \in Programs |-> FALSE]
    /\ misused = FALSE
    /\ empty \in BOOLEAN
    /\ written = {} /\ flushed = {}
    /\ answered = FALSE

FileChunks == IF empty THEN {} ELSE Chunks

-----------------------------------------------------------------------------
(* Steps of a program. *)

Goto(p, place) == pc' = [pc EXCEPT ![p] = place]

Acquire(p, resource) ==
    /\ held' = [held EXCEPT ![p] = @ \union {resource}]
    /\ UNCHANGED misused

\* Releasing or using what is not held is a misuse.
Release(p, resources) ==
    /\ held' = [held EXCEPT ![p] = @ \ resources]
    /\ misused' = (misused \/ ~(resources \subseteq held[p]))

Keep == UNCHANGED <<held, misused>>

Use(p, resource) ==
    /\ UNCHANGED held
    /\ misused' = (misused \/ resource \notin held[p])

-----------------------------------------------------------------------------
(* Variants: plausible defects of the operators below. *)

ClosedOnMapFailure_Nothing == {}

AfterSync_ErrorIgnored(failed) == "answer"

-----------------------------------------------------------------------------
(* The constructors.  `failed' is where an exception leads. *)

OpenFile(p, failed) ==
    /\ pc[p] = "open"
    /\ \/ /\ Goto(p, "measure") /\ Acquire(p, "descriptor")
          /\ fd' = [fd EXCEPT ![p] = TRUE]
       \/ Goto(p, failed) /\ Keep /\ UNCHANGED fd
    /\ UNCHANGED <<data, empty, fileVars>>

\* fstat() of the input, ftruncate() of the output; on failure the constructor
\* closes the file itself.
MeasureFile(p, failed) ==
    /\ pc[p] = "measure"
    /\ \/ Goto(p, "map") /\ Keep /\ UNCHANGED fd
       \/ /\ Goto(p, failed) /\ Release(p, {"descriptor"})
          /\ fd' = [fd EXCEPT ![p] = FALSE]
    /\ UNCHANGED <<data, empty, fileVars>>

\* What the constructor releases when mmap() fails.
ClosedOnMapFailure == {"descriptor"}

\* An empty file is not mapped.
MapFile(p, to, failed) ==
    /\ pc[p] = "map"
    /\ \/ empty /\ Goto(p, to) /\ Keep /\ UNCHANGED <<fd, data>>
       \/ /\ ~empty /\ Goto(p, to) /\ Acquire(p, "mapping")
          /\ data' = [data EXCEPT ![p] = TRUE] /\ UNCHANGED fd
       \/ /\ ~empty /\ Goto(p, failed) /\ Release(p, ClosedOnMapFailure)
          /\ fd' = [fd EXCEPT ![p] = FALSE] /\ UNCHANGED data
    /\ UNCHANGED <<empty, fileVars>>

\* The destructor: unmap, then close, as far as the members say.
Destroy(p, from, to) ==
    /\ pc[p] = from
    /\ Release(p, (IF data[p] THEN {"mapping"} ELSE {}) \union
                  (IF fd[p] THEN {"descriptor"} ELSE {}))
    /\ Goto(p, to)
    /\ UNCHANGED <<objectVars, empty, fileVars>>

OpenSocket(p, to, failed) ==
    /\ pc[p] = "socket"
    /\ \/ Goto(p, to) /\ Acquire(p, "socket")
       \/ Goto(p, failed) /\ Keep
    /\ UNCHANGED <<objectVars, empty, fileVars>>

CloseSocket(p, from, to) ==
    /\ pc[p] = from
    /\ Release(p, {"socket"})
    /\ Goto(p, to)
    /\ UNCHANGED <<objectVars, empty, fileVars>>

\* Calls that leave the resources as they are: on they go, or they throw.
Attempt(p, from, to, failed) ==
    /\ pc[p] = from
    /\ Goto(p, to) \/ Goto(p, failed)
    /\ Keep
    /\ UNCHANGED <<objectVars, empty, fileVars>>

-----------------------------------------------------------------------------
(* run_client(): the file, then the socket; back in the opposite order.    *)

\* Chunk arithmetic and resolve_server().
Prepare == Attempt("client", "prepare", "socket", "destroy")

\* One DATA packet, read from the mapping.
SendChunk ==
    /\ pc["client"] = "run" /\ ~empty
    /\ Use("client", "mapping")
    /\ UNCHANGED <<pc, objectVars, empty, fileVars>>

\* The transfer ends, well or with an exception; both ways close the socket.
EndTransfer == Attempt("client", "run", "close", "close")

ClientStep ==
    \/ OpenFile("client", "exit")
    \/ MeasureFile("client", "exit")
    \/ MapFile("client", "prepare", "exit")
    \/ Prepare
    \/ OpenSocket("client", "run", "destroy")
    \/ SendChunk
    \/ EndTransfer
    \/ CloseSocket("client", "close", "destroy")
    \/ Destroy("client", "destroy", "exit")

-----------------------------------------------------------------------------
(* run_server(): the socket, then the file.  An exception ("unwind")       *)
(* destroys the output before the handler closes the socket ("catch"); a   *)
(* normal end closes the socket first ("close").                           *)

\* setsockopt(), bind(), and the wait for a valid START.
Configure == Attempt("server", "configure", "open", "catch")

\* START_ACK IO_ERROR, then the exception of the constructor goes on.
ReportFailure == Attempt("server", "io_error", "catch", "catch")

AcceptStart == Attempt("server", "accept", "serve", "unwind")

\* The memcpy of one chunk.  The file was sized without reserving its blocks: a
\* disk that is full by now shows here, as a signal that ends the program.
WriteChunk ==
    /\ pc["server"] = "serve" /\ ~empty
    /\ \/ /\ \E s \in FileChunks \ written : written' = written \union {s}
          /\ Use("server", "mapping")
          /\ UNCHANGED pc
       \/ /\ Goto("server", "exit")
          /\ held' = [held EXCEPT !["server"] = {}]
          /\ UNCHANGED <<written, misused>>
    /\ UNCHANGED <<objectVars, empty, flushed, answered>>

\* COMPLETE for a file of which every chunk is there, or a socket error before.
EndOfData ==
    \/ written = FileChunks /\ Attempt("server", "serve", "sync", "unwind")
    \/ Attempt("server", "serve", "unwind", "unwind")

AfterSync(failed) == IF failed THEN "unwind" ELSE "answer"

\* sync() does nothing for an empty file, and may fail otherwise.
Sync ==
    /\ pc["server"] = "sync"
    /\ \/ /\ ~data["server"]
          /\ Goto("server", AfterSync(FALSE)) /\ Keep /\ UNCHANGED flushed
       \/ /\ data["server"] /\ flushed' = written
          /\ Goto("server", AfterSync(FALSE)) /\ Use("server", "mapping")
       \/ /\ data["server"] /\ UNCHANGED flushed
          /\ Goto("server", AfterSync(TRUE)) /\ Use("server", "mapping")
    /\ UNCHANGED <<objectVars, empty, written, answered>>

\* COMPLETE_ACK
Answer ==
    /\ pc["server"] = "answer"
    /\ \/ Goto("server", "time_wait") /\ answered' = TRUE
       \/ Goto("server", "unwind") /\ UNCHANGED answered
    /\ Keep
    /\ UNCHANGED <<objectVars, empty, written, flushed>>

EndTimeWait == Attempt("server", "time_wait", "close", "unwind")

ServerStep ==
    \/ OpenSocket("server", "configure", "exit")
    \/ Configure
    \/ OpenFile("server", "io_error")
    \/ MeasureFile("server", "io_error")
    \/ MapFile("server", "accept", "io_error")
    \/ ReportFailure
    \/ AcceptStart
    \/ WriteChunk
    \/ EndOfData
    \/ Sync
    \/ Answer
    \/ EndTimeWait
    \/ Destroy("server", "unwind", "catch")
    \/ CloseSocket("server", "catch", "exit")
    \/ CloseSocket("server", "close", "destroy")
    \/ Destroy("server", "destroy", "exit")

Finished == (\A p \in Programs : pc[p] = "exit") /\ UNCHANGED vars

Next == ClientStep \/ ServerStep \/ Finished

Spec == Init /\ [][Next]_vars

-----------------------------------------------------------------------------
(* Properties. *)

\* On every way out of either program, whichever call failed, everything that
\* was taken has been given back, once, and nothing was used after that or
\* before it was there (file_io.cpp:45, 148, client.cpp:694-698,
\* server.cpp:448-453).
ReleasedOnce ==
    /\ ~misused
    /\ \A p \in Programs : pc[p] = "exit" => held[p] = {}

\* The client is told that its file is complete only when msync() has succeeded
\* with every chunk in the mapping: no chunk comes after the flush, and a flush
\* that fails is not answered (server.cpp:400-430).
DurableBeforeAnswer == answered => flushed = FileChunks
=============================================================================
