---------------------------- MODULE TimedComplete ----------------------------
(***************************************************************************)
(* The COMPLETE handshake with its clocks: the client sends COMPLETE every *)
(* second, ten times at most; the server flushes the file on the first one *)
(* it gets, answers, and lingers until it has heard no COMPLETE for three  *)
(* seconds.  Session has the same steps without the time.                  *)
(*                                                                         *)
(* The data phase is over: the server has every chunk.  Each datagram is   *)
(* lost or takes at most MaxDelay, which includes the time until the       *)
(* receiver's thread runs; only msync() keeps the server from reading for  *)
(* longer.  A client's timeout is noticed at most MaxLate after its time.  *)
(* COMPLETEs are numbered, here only, by the attempt that sent them.       *)
(***************************************************************************)
EXTENDS Integers, FiniteSets

CONSTANTS
    ControlTimeout,   \* kControlTimeoutMs
    ControlAttempts,  \* kControlAttempts
    TimeWait,         \* the 3 s of time_wait()
    MaxDelay,         \* longest transmission
    MaxLate,          \* longest delay of the client's thread
    MaxSync           \* longest msync()

\* What the code's constants leave room for: a COMPLETE and the next but one
\* reach the server within TIME_WAIT; a round trip fits a timeout; and the
\* flush is over before the client's attempts are.
ASSUME TimingAssumption ==
    /\ {ControlTimeout, ControlAttempts, TimeWait} \subseteq Nat \ {0}
    /\ {MaxDelay, MaxLate, MaxSync} \subseteq Nat
    /\ 2 * (ControlTimeout + MaxLate) + MaxDelay < TimeWait
    /\ 2 * MaxDelay < ControlTimeout
    /\ ControlTimeout + 2 * MaxDelay + MaxSync < ControlAttempts * ControlTimeout

VARIABLES
    client,         \* where the client's thread stands
    attempt,        \* the number of the COMPLETE sent last
    client_timer,   \* time to the deadline of receive_expected(), < 0 when late
    server,         \* where the server's thread stands
    serving,        \* the COMPLETE whose msync() is under way, or 0
    server_timer,   \* time msync() still takes, or to time_wait()'s deadline
    to_server,      \* COMPLETEs on their way, with the time they have left
    to_client,      \* COMPLETE_ACKs likewise, by the COMPLETE they answer
    lost_requests,  \* history: the COMPLETEs that were lost
    lost_answers    \* history: the COMPLETEs whose answer was lost

clientVars == <<client, attempt, client_timer>>
serverVars == <<server, serving, server_timer>>
lossVars == <<lost_requests, lost_answers>>
vars == <<clientVars, serverVars, to_server, to_client, lossVars>>

Init ==
    /\ client = "sending"
    /\ attempt = 0
    /\ client_timer = 0
    /\ server = "data"
    /\ serving = 0
    /\ server_timer = 0
    /\ to_server = {} /\ to_client = {}
    /\ lost_requests = {} /\ lost_answers = {}

Packet(number) == [attempt |-> number, left |-> MaxDelay]

-----------------------------------------------------------------------------
(* A variant: the deadline stays where it was. *)

DeadlineAfter_Kept(timer) == timer

-----------------------------------------------------------------------------
(* The client. *)

SendComplete ==
    /\ client = "sending"
    /\ attempt' = attempt + 1
    /\ client' = "waiting"
    /\ client_timer' = ControlTimeout
    /\ \/ to_server' = to_server \union {Packet(attempt')} /\ UNCHANGED lost_requests
       \/ lost_requests' = lost_requests \union {attempt'} /\ UNCHANGED to_server
    /\ UNCHANGED <<serverVars, to_client, lost_answers>>

\* An answer to any of the COMPLETEs is as good as another.
ReceiveCompleteAck ==
    /\ client = "waiting"
    /\ \E m \in to_client : to_client' = to_client \ {m}
    /\ client' = "success"
    /\ UNCHANGED <<attempt, client_timer, serverVars, to_server, lossVars>>

TimeOut ==
    /\ client = "waiting"
    /\ client_timer <= 0
    /\ client' = IF attempt < ControlAttempts THEN "sending" ELSE "failed"
    /\ UNCHANGED <<attempt, client_timer, serverVars, to_server, to_client, lossVars>>

-----------------------------------------------------------------------------
(* The server. *)

Answer(number) ==
    \/ to_client' = to_client \union {Packet(number)} /\ UNCHANGED lost_answers
    \/ lost_answers' = lost_answers \union {number} /\ UNCHANGED to_client

\* The first COMPLETE: output->sync().
StartSync ==
    /\ server = "data"
    /\ \E m \in to_server : serving' = m.attempt /\ to_server' = to_server \ {m}
    /\ server' = "sync"
    /\ server_timer' \in 0 .. MaxSync
    /\ UNCHANGED <<clientVars, to_client, lossVars>>

\* msync() returns: COMPLETE_ACK, and time_wait() begins.
EndSync ==
    /\ server = "sync" /\ server_timer = 0
    /\ Answer(serving)
    /\ server' = "time_wait"
    /\ serving' = 0
    /\ server_timer' = TimeWait
    /\ UNCHANGED <<clientVars, to_server, lost_requests>>

\* Each COMPLETE that time_wait() answers sets the deadline anew.
DeadlineAfter(timer) == TimeWait

RepeatCompleteAck ==
    /\ server = "time_wait"
    /\ \E m \in to_server : to_server' = to_server \ {m} /\ Answer(m.attempt)
    /\ server_timer' = DeadlineAfter(server_timer)
    /\ UNCHANGED <<clientVars, server, serving, lost_requests>>

LeaveTimeWait ==
    /\ server = "time_wait" /\ server_timer = 0
    /\ server' = "exited"
    /\ UNCHANGED <<clientVars, serving, server_timer, to_server, to_client, lossVars>>

\* Nobody reads the datagram any more.
Discard ==
    /\ \/ server = "exited" /\ to_server # {} /\ to_server' = {} /\ UNCHANGED to_client
       \/ client \in {"success", "failed"} /\ to_client # {}
             /\ to_client' = {} /\ UNCHANGED to_server
    /\ UNCHANGED <<clientVars, serverVars, lossVars>>

-----------------------------------------------------------------------------
(* Time. *)

Aged(channel) == {[m EXCEPT !.left = IF @ > 0 THEN @ - 1 ELSE 0] : m \in channel}

\* No deadline of the environment's promises is passed over.
MayTick ==
    /\ client # "sending"
    /\ client = "waiting" => client_timer > -MaxLate
    /\ server \in {"sync", "time_wait"} => server_timer > 0
    /\ \A m \in to_server : m.left > 0 \/ server = "sync"
    /\ \A m \in to_client : m.left > 0

Tick ==
    /\ MayTick
    /\ client = "waiting" \/ server \in {"sync", "time_wait"}
    /\ client_timer' = IF client = "waiting" THEN client_timer - 1 ELSE client_timer
    /\ server_timer' = IF server_timer > 0 THEN server_timer - 1 ELSE 0
    /\ to_server' = Aged(to_server)
    /\ to_client' = Aged(to_client)
    /\ UNCHANGED <<client, attempt, server, serving, lossVars>>

\* A server that never got a COMPLETE waits for ever.
Finished ==
    /\ client \in {"success", "failed"} /\ server \in {"data", "exited"}
    /\ to_server = {} /\ to_client = {}
    /\ UNCHANGED vars

Next ==
    \/ SendComplete
    \/ ReceiveCompleteAck
    \/ TimeOut
    \/ StartSync
    \/ EndSync
    \/ RepeatCompleteAck
    \/ LeaveTimeWait
    \/ Discard
    \/ Tick
    \/ Finished

Spec == Init /\ [][Next]_vars

-----------------------------------------------------------------------------
(* Properties. *)

\* The file is whole on the server's disk, and the client reports failure
\* only if no attempt was a complete round trip or two COMPLETEs in a row were
\* lost: lost answers, however many, do not make the server leave, because
\* each COMPLETE that arrives prolongs TIME_WAIT (server.cpp:164-211), which
\* the client's retries must fit (common.hpp:17-18).
FailureNeedsLosses ==
    client = "failed" =>
        \/ lost_requests \union lost_answers = 1 .. ControlAttempts
        \/ \E k \in 1 .. ControlAttempts : {k, k + 1} \subseteq lost_requests
=============================================================================
