---------------------------- MODULE FileIOProofs ----------------------------
(***************************************************************************)
(* Theorems about what the two programs hold of the operating system, for  *)
(* files of any number of chunks, whichever calls fail.                    *)
(***************************************************************************)
EXTENDS FileIO, TLAPS

-----------------------------------------------------------------------------
(* The inductive invariant: what is held, and what the file object         *)
(* believes, follow from where the program stands.                         *)

\* Where the file object has been constructed and not yet destroyed.
ObjectPlaces ==
    [client |-> {"prepare", "socket", "run", "close", "destroy"},
     server |-> {"accept", "serve", "sync", "answer", "time_wait", "unwind", "close",
                 "destroy"}]

SocketPlaces ==
    [client |-> {"run", "close"},
     server |-> {"configure", "open", "measure", "map", "io_error", "accept", "serve",
                 "sync", "answer", "time_wait", "unwind", "catch", "close"}]

\* Where neither the constructor nor anything else has mapped the file.
UnmappedPlaces ==
    [client |-> {"open", "measure", "map"},
     server |-> {"socket", "configure", "open", "measure", "map"}]

Held(p) ==
    /\ held[p] \subseteq Resources
    /\ "socket" \in held[p] <=> pc[p] \in SocketPlaces[p]
    /\ "descriptor" \in held[p] <=> pc[p] \in ObjectPlaces[p] \union {"measure", "map"}
    /\ "mapping" \in held[p] <=> ~empty /\ pc[p] \in ObjectPlaces[p]

\* The destructor acts on the members fd_ and data_: where it runs, or may still
\* run, they tell the truth.
Believed(p) ==
    /\ pc[p] \in ObjectPlaces[p] => fd[p] = TRUE /\ data[p] = ~empty
    /\ pc[p] \in UnmappedPlaces[p] => data[p] = FALSE
    /\ pc[p] \in {"measure", "map"} => fd[p] = TRUE

\* The server flushes when everything is written, and writes nothing after.
FlushInv ==
    /\ written \subseteq FileChunks /\ flushed \subseteq FileChunks
    /\ pc["server"] \in {"sync", "answer", "time_wait"} => written = FileChunks
    /\ pc["server"] \in {"answer", "time_wait"} => flushed = FileChunks
    /\ answered => flushed = FileChunks

FileInv ==
    /\ DOMAIN pc = Programs /\ DOMAIN held = Programs
    /\ DOMAIN fd = Programs /\ DOMAIN data = Programs
    /\ empty \in BOOLEAN
    /\ misused = FALSE
    /\ \A p \in Programs : Held(p) /\ Believed(p)
    /\ FlushInv

LEMMA FileInvInit == Init => FileInv
BY DEF Init, FileInv, Held, Believed, FlushInv, Programs, Resources, ObjectPlaces,
       SocketPlaces, UnmappedPlaces

\* A step of one program leaves the other where it is, with what it has.
OnlyMoves(p) ==
    /\ DOMAIN pc' = Programs /\ DOMAIN held' = Programs
    /\ DOMAIN fd' = Programs /\ DOMAIN data' = Programs
    /\ \A q \in Programs :
          q # p => /\ pc'[q] = pc[q] /\ held'[q] = held[q]
                   /\ fd'[q] = fd[q] /\ data'[q] = data[q]
    /\ empty' = empty

LEMMA ClientMovesAlone ==
    FileInv /\ ClientStep => OnlyMoves("client") /\ UNCHANGED fileVars
<1> USE DEF FileInv, OnlyMoves, Programs, Goto, Keep, Acquire, Release, Use, objectVars
<1>1. FileInv /\ OpenFile("client", "exit") => OnlyMoves("client") /\ UNCHANGED fileVars
  BY DEF OpenFile
<1>2. FileInv /\ MeasureFile("client", "exit") => OnlyMoves("client") /\ UNCHANGED fileVars
  BY DEF MeasureFile
<1>3. FileInv /\ MapFile("client", "prepare", "exit")
        => OnlyMoves("client") /\ UNCHANGED fileVars
  BY DEF MapFile
<1>4. FileInv /\ (Prepare \/ EndTransfer) => OnlyMoves("client") /\ UNCHANGED fileVars
  BY DEF Prepare, EndTransfer, Attempt
<1>5. FileInv /\ OpenSocket("client", "run", "destroy")
        => OnlyMoves("client") /\ UNCHANGED fileVars
  BY DEF OpenSocket
<1>6. FileInv /\ SendChunk => OnlyMoves("client") /\ UNCHANGED fileVars
  BY DEF SendChunk
<1>7. FileInv /\ CloseSocket("client", "close", "destroy")
        => OnlyMoves("client") /\ UNCHANGED fileVars
  BY DEF CloseSocket
<1>8. FileInv /\ Destroy("client", "destroy", "exit")
        => OnlyMoves("client") /\ UNCHANGED fileVars
  BY DEF Destroy
<1>9. QED
  BY <1>1, <1>2, <1>3, <1>4, <1>5, <1>6, <1>7, <1>8 DEF ClientStep

LEMMA ServerMovesAlone == FileInv /\ ServerStep => OnlyMoves("server")
<1> USE DEF FileInv, OnlyMoves, Programs, Goto, Keep, Acquire, Release, Use, objectVars
<1>1. FileInv /\ OpenSocket("server", "configure", "exit") => OnlyMoves("server")
  BY DEF OpenSocket
<1>2. FileInv /\ (Configure \/ ReportFailure \/ AcceptStart \/ EndOfData \/ EndTimeWait)
        => OnlyMoves("server")
  BY DEF Configure, ReportFailure, AcceptStart, EndOfData, EndTimeWait, Attempt
<1>3. FileInv /\ OpenFile("server", "io_error") => OnlyMoves("server")
  BY DEF OpenFile
<1>4. FileInv /\ MeasureFile("server", "io_error") => OnlyMoves("server")
  BY DEF MeasureFile
<1>5. FileInv /\ MapFile("server", "accept", "io_error") => OnlyMoves("server")
  BY DEF MapFile
<1>6. FileInv /\ WriteChunk => OnlyMoves("server")
  BY DEF WriteChunk
<1>7. FileInv /\ Sync => OnlyMoves("server")
  BY DEF Sync
<1>8. FileInv /\ Answer => OnlyMoves("server")
  BY DEF Answer
<1>9. FileInv /\ (Destroy("server", "unwind", "catch") \/ Destroy("server", "destroy", "exit"))
        => OnlyMoves("server")
  BY DEF Destroy
<1>10. FileInv /\ (CloseSocket("server", "catch", "exit")
                     \/ CloseSocket("server", "close", "destroy"))
         => OnlyMoves("server")
  BY DEF CloseSocket
<1>11. QED
  BY <1>1, <1>2, <1>3, <1>4, <1>5, <1>6, <1>7, <1>8, <1>9, <1>10 DEF ServerStep

LEMMA OneMoves ==
    ASSUME FileInv, NEW p \in Programs, OnlyMoves(p), misused' = FALSE,
           (Held(p) /\ Believed(p))', FlushInv'
    PROVE  FileInv'
<1>1. \A q \in Programs : q # p => (Held(q) /\ Believed(q))'
  BY DEF FileInv, OnlyMoves, Held, Believed
<1>2. QED
  BY <1>1 DEF FileInv, OnlyMoves

-----------------------------------------------------------------------------

LEMMA ClientKeepsInv == FileInv /\ ClientStep => FileInv'
<1> SUFFICES ASSUME FileInv, ClientStep PROVE FileInv'
  OBVIOUS
<1> DEFINE Goal == misused' = FALSE /\ (Held("client") /\ Believed("client"))'
<1>a. OnlyMoves("client") /\ UNCHANGED fileVars
  BY ClientMovesAlone
<1>b. FlushInv'
  BY <1>a DEF OnlyMoves, FileInv, FlushInv, FileChunks, Programs, fileVars
<1>c. /\ DOMAIN pc = Programs /\ DOMAIN held = Programs
      /\ DOMAIN fd = Programs /\ DOMAIN data = Programs
      /\ empty \in BOOLEAN /\ empty' = empty /\ misused = FALSE
      /\ Held("client") /\ Believed("client")
  BY <1>a DEF FileInv, Programs, OnlyMoves
<1>d. SUFFICES Goal
  BY <1>a, <1>b, OneMoves DEF Programs
<1> USE <1>c DEF Held, Believed, Programs, Resources, ObjectPlaces, SocketPlaces,
                 UnmappedPlaces, Goto, Keep, objectVars
<1>1. CASE OpenFile("client", "exit")
  BY <1>1 DEF OpenFile, Acquire
<1>2. CASE MeasureFile("client", "exit")
  <2>1. pc["client"] = "measure" /\ held["client"] = {"descriptor"}
    BY <1>2 DEF MeasureFile
  <2>2. CASE pc'["client"] = "map"
    <3>1. /\ held' = held /\ misused' = FALSE /\ fd' = fd /\ data' = data
      BY <1>2, <2>1, <2>2 DEF MeasureFile
    <3>2. QED
      BY <2>1, <2>2, <3>1
  <2>3. CASE pc'["client"] # "map"
    <3>1. Goto("client", "exit") /\ Release("client", {"descriptor"})
      <4>1. \/ Goto("client", "map")
            \/ Goto("client", "exit") /\ Release("client", {"descriptor"})
        BY <1>2 DEF MeasureFile
      <4>2. ~Goto("client", "map")
        BY <1>c, <2>3
      <4>3. QED
        BY <4>1, <4>2
    <3>2. pc'["client"] = "exit" /\ held'["client"] = {} /\ misused' = FALSE
      BY <1>c, <2>1, <3>1 DEF Release
    <3>3. QED
      BY <3>2
  <2>4. QED
    BY <2>2, <2>3
<1>3. CASE MapFile("client", "prepare", "exit")
  <2>1. pc["client"] = "map" /\ held["client"] = {"descriptor"}
    BY <1>3 DEF MapFile
  <2>2. CASE empty
    BY <1>3, <2>1, <2>2 DEF MapFile
  <2>3. CASE ~empty /\ pc'["client"] = "prepare"
    <3>1. /\ held'["client"] = {"descriptor", "mapping"} /\ misused' = FALSE
          /\ fd'["client"] = TRUE /\ data'["client"] = TRUE
      BY <1>3, <2>1, <2>3 DEF MapFile, Acquire
    <3>2. QED
      BY <2>3, <3>1
  <2>4. CASE ~empty /\ pc'["client"] # "prepare"
    <3>1. /\ pc'["client"] = "exit"
          /\ held'["client"] = {} /\ misused' = FALSE
      BY <1>3, <2>1, <2>4 DEF MapFile, Release, ClosedOnMapFailure
    <3>2. QED
      BY <3>1
  <2>5. QED
    BY <2>2, <2>3, <2>4
<1>4. CASE Prepare
  BY <1>4 DEF Prepare, Attempt
<1>5. CASE OpenSocket("client", "run", "destroy")
  BY <1>5 DEF OpenSocket, Acquire
<1>6. CASE SendChunk
  BY <1>6 DEF SendChunk, Use
<1>7. CASE EndTransfer
  BY <1>7 DEF EndTransfer, Attempt
<1>8. CASE CloseSocket("client", "close", "destroy")
  <2>1. /\ pc["client"] = "close" /\ pc'["client"] = "destroy"
        /\ UNCHANGED <<fd, data>> /\ "socket" \in held["client"]
    BY <1>8 DEF CloseSocket
  <2>2. held'["client"] = held["client"] \ {"socket"} /\ misused' = FALSE
    BY <1>8, <2>1 DEF CloseSocket, Release
  <2>3. QED
    BY <2>1, <2>2
<1>9. CASE Destroy("client", "destroy", "exit")
  <2>1. /\ pc["client"] = "destroy" /\ pc'["client"] = "exit"
        /\ fd["client"] = TRUE /\ data["client"] = ~empty
    BY <1>9 DEF Destroy
  <2>2. held["client"] = {"descriptor"} \union (IF empty THEN {} ELSE {"mapping"})
    BY <2>1
  <2>3. held'["client"] = {} /\ misused' = FALSE
    BY <1>9, <2>1, <2>2 DEF Destroy, Release
  <2>4. QED
    BY <2>1, <2>3
<1>10. QED
  BY <1>1, <1>2, <1>3, <1>4, <1>5, <1>6, <1>7, <1>8, <1>9 DEF ClientStep

LEMMA ServerKeepsInv == FileInv /\ ServerStep => FileInv'
<1> SUFFICES ASSUME FileInv, ServerStep PROVE FileInv'
  OBVIOUS
<1> DEFINE Goal == misused' = FALSE /\ (Held("server") /\ Believed("server") /\ FlushInv)'
<1>a. OnlyMoves("server")
  BY ServerMovesAlone
<1>b. /\ DOMAIN pc = Programs /\ DOMAIN held = Programs
      /\ DOMAIN fd = Programs /\ DOMAIN data = Programs
      /\ empty \in BOOLEAN /\ empty' = empty /\ misused = FALSE
      /\ Held("server") /\ Believed("server") /\ FlushInv
  BY <1>a DEF FileInv, Programs, OnlyMoves
<1>c. SUFFICES Goal
  BY <1>a, OneMoves DEF Programs
<1> USE <1>b DEF Held, Believed, FlushInv, FileChunks, Programs, Resources, ObjectPlaces,
                 SocketPlaces, UnmappedPlaces, Goto, Keep, objectVars
<1>1. CASE OpenSocket("server", "configure", "exit")
  BY <1>1 DEF OpenSocket, Acquire, fileVars
<1>2. CASE Configure
  BY <1>2 DEF Configure, Attempt, fileVars
<1>3. CASE OpenFile("server", "io_error")
  BY <1>3 DEF OpenFile, Acquire, fileVars
<1>4. CASE MeasureFile("server", "io_error")
  <2>1. /\ pc["server"] = "measure" /\ held["server"] = {"socket", "descriptor"}
        /\ UNCHANGED <<data, written, flushed, answered>>
    BY <1>4 DEF MeasureFile, fileVars
  <2>2. CASE pc'["server"] = "map"
    <3>1. /\ held' = held /\ misused' = FALSE /\ fd' = fd
      BY <1>4, <2>1, <2>2 DEF MeasureFile
    <3>2. QED
      BY <2>1, <2>2, <3>1
  <2>3. CASE pc'["server"] # "map"
    <3>1. /\ pc'["server"] = "io_error"
          /\ held'["server"] = {"socket"} /\ misused' = FALSE
      BY <1>4, <2>1, <2>3 DEF MeasureFile, Release
    <3>2. QED
      BY <2>1, <3>1
  <2>4. QED
    BY <2>2, <2>3
<1>5. CASE MapFile("server", "accept", "io_error")
  <2>1. /\ pc["server"] = "map" /\ held["server"] = {"socket", "descriptor"}
        /\ UNCHANGED <<written, flushed, answered>>
    BY <1>5 DEF MapFile, fileVars
  <2>2. CASE empty
    <3>1. /\ pc'["server"] = "accept" /\ held' = held /\ misused' = FALSE
          /\ UNCHANGED <<fd, data>>
      BY <1>5, <2>1, <2>2 DEF MapFile
    <3>2. QED
      BY <2>1, <2>2, <3>1
  <2>3. CASE ~empty /\ pc'["server"] = "accept"
    <3>1. /\ held'["server"] = {"socket", "descriptor", "mapping"} /\ misused' = FALSE
          /\ fd'["server"] = TRUE /\ data'["server"] = TRUE
      BY <1>5, <2>1, <2>3 DEF MapFile, Acquire
    <3>2. QED
      BY <2>1, <2>3, <3>1
  <2>4. CASE ~empty /\ pc'["server"] # "accept"
    <3>1. /\ pc'["server"] = "io_error"
          /\ held'["server"] = {"socket"} /\ misused' = FALSE
      BY <1>5, <2>1, <2>4 DEF MapFile, Release, ClosedOnMapFailure
    <3>2. QED
      BY <2>1, <3>1
  <2>5. QED
    BY <2>2, <2>3, <2>4
<1>6. CASE ReportFailure
  BY <1>6 DEF ReportFailure, Attempt, fileVars
<1>7. CASE AcceptStart
  BY <1>7 DEF AcceptStart, Attempt, fileVars
<1>8. CASE WriteChunk
  <2>1. pc["server"] = "serve" /\ ~empty /\ UNCHANGED <<fd, data, flushed, answered>>
    BY <1>8 DEF WriteChunk
  <2>2. CASE pc'["server"] = "exit"
    <3>1. held'["server"] = {} /\ misused' = FALSE /\ UNCHANGED written
      BY <1>8, <2>1, <2>2 DEF WriteChunk
    <3>2. QED
      BY <2>1, <2>2, <3>1
  <2>3. CASE pc'["server"] # "exit"
    <3>1. /\ UNCHANGED <<pc, held>> /\ misused' = FALSE
          /\ \E s \in Chunks : written' = written \union {s}
      BY <1>8, <2>1, <2>3 DEF WriteChunk, Use
    <3>2. ~answered \/ flushed = FileChunks
      OBVIOUS
    <3>3. QED
      BY <2>1, <3>1, <3>2
  <2>4. QED
    BY <2>2, <2>3
<1>9. CASE EndOfData
  BY <1>9 DEF EndOfData, Attempt, fileVars
<1>10. CASE Sync
  <2>1. /\ pc["server"] = "sync" /\ pc'["server"] \in {"answer", "unwind"}
        /\ UNCHANGED <<held, fd, data, written, answered>> /\ written = FileChunks
    BY <1>10 DEF Sync, Use, AfterSync
  <2>2. misused' = FALSE
    BY <1>10, <2>1 DEF Sync, Use
  <2>3. CASE ~data["server"]
    <3>1. flushed' = flushed /\ empty = TRUE
      BY <1>10, <2>1, <2>3 DEF Sync
    <3>2. QED
      BY <2>1, <2>2, <3>1
  <2>4. CASE data["server"] /\ pc'["server"] = "answer"
    <3>1. flushed' = written
      BY <1>10, <2>1, <2>4 DEF Sync, AfterSync
    <3>2. QED
      BY <2>1, <2>2, <2>4, <3>1
  <2>5. CASE data["server"] /\ pc'["server"] = "unwind"
    <3>1. flushed' = flushed
      BY <1>10, <2>1, <2>5 DEF Sync, AfterSync
    <3>2. QED
      BY <2>1, <2>2, <2>5, <3>1
  <2>6. QED
    BY <2>1, <2>3, <2>4, <2>5
<1>11. CASE Answer
  BY <1>11 DEF Answer
<1>12. CASE EndTimeWait
  BY <1>12 DEF EndTimeWait, Attempt, fileVars
<1>13. CASE Destroy("server", "unwind", "catch")
  <2>1. /\ pc["server"] = "unwind" /\ pc'["server"] = "catch"
        /\ fd["server"] = TRUE /\ data["server"] = ~empty
        /\ UNCHANGED <<written, flushed, answered>>
    BY <1>13 DEF Destroy, fileVars
  <2>2. held["server"] = {"socket"} \union {"descriptor"} \union (IF empty THEN {} ELSE {"mapping"})
    BY <2>1
  <2>3. held'["server"] = {"socket"} /\ misused' = FALSE
    BY <1>13, <2>1, <2>2 DEF Destroy, Release
  <2>4. QED
    BY <2>1, <2>3
<1>14. CASE CloseSocket("server", "catch", "exit")
  <2>1. /\ pc["server"] = "catch" /\ pc'["server"] = "exit"
        /\ "socket" \in held["server"]
        /\ UNCHANGED <<fd, data, written, flushed, answered>>
    BY <1>14 DEF CloseSocket, fileVars
  <2>2. held'["server"] = held["server"] \ {"socket"} /\ misused' = FALSE
    BY <1>14, <2>1 DEF CloseSocket, Release
  <2>3. QED
    BY <2>1, <2>2
<1>15. CASE CloseSocket("server", "close", "destroy")
  <2>1. /\ pc["server"] = "close" /\ pc'["server"] = "destroy"
        /\ "socket" \in held["server"]
        /\ UNCHANGED <<fd, data, written, flushed, answered>>
    BY <1>15 DEF CloseSocket, fileVars
  <2>2. held'["server"] = held["server"] \ {"socket"} /\ misused' = FALSE
    BY <1>15, <2>1 DEF CloseSocket, Release
  <2>3. QED
    BY <2>1, <2>2
<1>16. CASE Destroy("server", "destroy", "exit")
  <2>1. /\ pc["server"] = "destroy" /\ pc'["server"] = "exit"
        /\ fd["server"] = TRUE /\ data["server"] = ~empty
        /\ UNCHANGED <<written, flushed, answered>>
    BY <1>16 DEF Destroy, fileVars
  <2>2. held["server"] = {"descriptor"} \union (IF empty THEN {} ELSE {"mapping"})
    BY <2>1
  <2>3. held'["server"] = {} /\ misused' = FALSE
    BY <1>16, <2>1, <2>2 DEF Destroy, Release
  <2>4. QED
    BY <2>1, <2>3
<1>17. QED
  BY <1>1, <1>2, <1>3, <1>4, <1>5, <1>6, <1>7, <1>8, <1>9, <1>10, <1>11, <1>12, <1>13,
     <1>14, <1>15, <1>16 DEF ServerStep

LEMMA FileStep == FileInv /\ [Next]_vars => FileInv'
<1>1. FileInv /\ UNCHANGED vars => FileInv'
  BY DEF FileInv, Held, Believed, FlushInv, FileChunks, vars, objectVars, fileVars
<1>2. QED
  BY <1>1, ClientKeepsInv, ServerKeepsInv DEF Next, Finished

LEMMA FileInvariant == Spec => []FileInv
BY FileInvInit, FileStep, PTL DEF Spec

-----------------------------------------------------------------------------
(* The properties. *)

\* Descriptor, mapping and socket are released once, and on every way out,
\* whichever call failed.
THEOREM EverythingReleasedOnce == Spec => []ReleasedOnce
<1>1. FileInv => ReleasedOnce
  <2> SUFFICES ASSUME FileInv, NEW p \in Programs, pc[p] = "exit" PROVE held[p] = {}
    BY DEF FileInv, ReleasedOnce
  <2>1. pc[p] \notin SocketPlaces[p] /\ pc[p] \notin ObjectPlaces[p] \union {"measure", "map"}
    BY DEF Programs, ObjectPlaces, SocketPlaces
  <2>2. QED
    BY <2>1 DEF FileInv, Held, Resources
<1>2. QED
  BY <1>1, FileInvariant, PTL

\* COMPLETE is answered only when every chunk has been flushed.
THEOREM AnsweredIsDurable == Spec => []DurableBeforeAnswer
<1>1. FileInv => DurableBeforeAnswer
  BY DEF FileInv, FlushInv, DurableBeforeAnswer
<1>2. QED
  BY <1>1, FileInvariant, PTL
=============================================================================
