------------------------- MODULE TimedCompleteProofs -------------------------
(***************************************************************************)
(* A client reports failure only when the losses were such that it had to: *)
(* for every choice of timeout, attempts, TIME_WAIT, delays and length of  *)
(* msync() that leaves the room TimingAssumption asks for.                 *)
(***************************************************************************)
EXTENDS TimedComplete, TLAPS

-----------------------------------------------------------------------------
(* The inductive invariant. *)

Attempts == 1 .. ControlAttempts
PacketsOf == [attempt : Attempts, left : 0 .. MaxDelay]

\* Two COMPLETEs in a row were lost: the first excuse for failure.
TwoInARow == \E k \in Attempts : {k, k + 1} \subseteq lost_requests

Active == client \in {"sending", "waiting"}

TimedTypes ==
    /\ client \in {"sending", "waiting", "success", "failed"}
    /\ attempt \in 0 .. ControlAttempts
    /\ client = "waiting" => attempt >= 1
    /\ client = "sending" => attempt < ControlAttempts
    /\ client_timer \in Int /\ -MaxLate <= client_timer
    /\ client_timer <= ControlTimeout /\ (client = "sending" => client_timer <= 0)
    /\ server \in {"data", "sync", "time_wait", "exited"}
    /\ server_timer \in Nat
    /\ server = "sync" => serving \in Attempts
    /\ to_server \subseteq PacketsOf /\ to_client \subseteq PacketsOf
    /\ lost_requests \subseteq Attempts /\ lost_answers \subseteq Attempts

\* What the client's timeouts say of the time since COMPLETE 2 was sent (or
\* would have been): each of the later ones cost a whole timeout.
SinceSecond == (attempt - 1) * ControlTimeout - client_timer

\* A packet of the last COMPLETE that is where it belongs, time having passed for
\* it as for the client.
Fresh(m, delay) == m.attempt = attempt /\ m.left + ControlTimeout - client_timer <= delay

\* A COMPLETE that msync() kept from being read.
Held(m) ==
    /\ m.left = 0
    /\ SinceSecond <= MaxDelay + MaxSync
    /\ server = "sync" \/ (server = "time_wait" /\ server_timer = TimeWait)

RequestsInv == \A m \in to_server : Fresh(m, MaxDelay) \/ Held(m)

AnswersInv ==
    \A m \in to_client :
        \/ m.left + ControlTimeout - client_timer <= 2 * MaxDelay
        \/ m.left + SinceSecond <= 2 * MaxDelay + MaxSync

\* Nothing has come back before the first COMPLETE is flushed, and that was the
\* first or the second.
SyncInv ==
    /\ server = "data" => to_client = {} /\ lost_answers = {}
    /\ server = "sync" => server_timer + SinceSecond <= MaxDelay + MaxSync

\* TIME_WAIT outlasts what is under way, and when nothing is, the next
\* COMPLETE, or the next but one if the next may still be lost.
WaitInv ==
    /\ server # "exited"
    /\ server = "time_wait" =>
         /\ \A m \in to_server : m.left < server_timer
         /\ \/ to_server # {}
            \/ server_timer > client_timer + MaxLate + MaxDelay
                 + (IF attempt \in lost_requests THEN 0 ELSE ControlTimeout + MaxLate)

\* Where COMPLETE k or its answer can be.
Accounted(k) ==
    \/ k \in lost_requests \union lost_answers
    \/ \E m \in to_server \union to_client : m.attempt = k
    \/ server = "sync" /\ serving = k

TryingInv ==
    /\ RequestsInv /\ AnswersInv /\ SyncInv /\ WaitInv
    /\ \A k \in 1 .. attempt : Accounted(k)

TimedInv ==
    /\ TimedTypes
    /\ Active /\ ~TwoInARow => TryingInv
    /\ client = "failed" /\ ~TwoInARow => Attempts \subseteq lost_requests \union lost_answers

-----------------------------------------------------------------------------
(* What the proofs below take for granted. *)

LEMMA Times ==
    /\ ControlTimeout \in Nat \ {0} /\ ControlAttempts \in Nat \ {0}
    /\ TimeWait \in Nat \ {0}
    /\ MaxDelay \in Nat /\ MaxLate \in Nat /\ MaxSync \in Nat
    /\ 2 * (ControlTimeout + MaxLate) + MaxDelay < TimeWait
    /\ 2 * MaxDelay < ControlTimeout
    /\ ControlTimeout + 2 * MaxDelay + MaxSync < ControlAttempts * ControlTimeout
BY TimingAssumption

LEMMA SumAtMost ==
    \A a, b, c, d \in Int : a <= b /\ c <= d => a + c <= b + d
OBVIOUS

LEMMA SinceSecondType == TimedTypes => SinceSecond \in Int
BY Times DEF TimedTypes, SinceSecond

\* While no COMPLETE is sent, SinceSecond runs against the client's timer.
LEMMA SinceSecondMoves ==
    ASSUME TimedTypes, TimedTypes', attempt' = attempt
    PROVE  SinceSecond' = SinceSecond + (client_timer - client_timer')
<1> DEFINE sent == (attempt - 1) * ControlTimeout
<1>1. sent \in Int
  BY Times DEF TimedTypes
<1>2. SinceSecond = sent - client_timer /\ SinceSecond' = sent - client_timer'
  BY DEF SinceSecond
<1> HIDE DEF sent
<1>3. QED
  BY <1>1, <1>2 DEF TimedTypes

\* Losses are not taken back.
LEMMA ExcuseStays ==
    ASSUME lost_requests \subseteq lost_requests', ~TwoInARow'
    PROVE  ~TwoInARow
BY DEF TwoInARow

LEMMA PacketType ==
    \A k \in Attempts : Packet(k) \in PacketsOf /\ Packet(k).attempt = k
                          /\ Packet(k).left = MaxDelay
BY Times DEF Packet, PacketsOf

LEMMA TimedInit == Init => TimedInv
BY Times DEF Init, TimedInv, TimedTypes, TryingInv, RequestsInv, AnswersInv,
   SyncInv, WaitInv, Active, Attempts, PacketsOf

-----------------------------------------------------------------------------
(* Every step keeps the invariant: the client. *)

LEMMA SendCompleteKeepsInv == TimedInv /\ SendComplete => TimedInv'
<1> SUFFICES ASSUME TimedInv, SendComplete PROVE TimedInv'
  OBVIOUS
<1>1. /\ client = "sending" /\ client' = "waiting" /\ attempt' = attempt + 1
      /\ client_timer' = ControlTimeout
      /\ UNCHANGED <<server, serving, server_timer, to_client, lost_answers>>
  BY DEF SendComplete, serverVars
<1>2. \/ to_server' = to_server \union {Packet(attempt')} /\ lost_requests' = lost_requests
      \/ lost_requests' = lost_requests \union {attempt'} /\ to_server' = to_server
  BY DEF SendComplete
<1>3. /\ attempt \in Nat /\ attempt < ControlAttempts
      /\ attempt' \in Attempts
      /\ client_timer \in Int /\ -MaxLate <= client_timer /\ client_timer <= 0
  BY <1>1, Times DEF TimedInv, TimedTypes, Attempts
<1>4. TimedTypes'
  <2>1. to_server' \subseteq PacketsOf /\ lost_requests' \subseteq Attempts
    BY <1>2, <1>3, PacketType DEF TimedInv, TimedTypes
  <2>2. attempt' \in 0 .. ControlAttempts /\ attempt' >= 1
    BY <1>3, Times DEF Attempts
  <2>3. ControlTimeout \in Int /\ -MaxLate <= ControlTimeout
    BY Times
  <2>4. QED
    BY <1>1, <2>1, <2>2, <2>3 DEF TimedInv, TimedTypes
<1>5. ASSUME ~TwoInARow' PROVE TryingInv'
  <2>1. TryingInv
    BY <1>1, <1>2, <1>5, ExcuseStays DEF TimedInv, Active
  <2>2. SinceSecond \in Int /\ SinceSecond' \in Int /\ SinceSecond' <= SinceSecond
    <3> DEFINE sent == (attempt - 1) * ControlTimeout
    <3>1. sent \in Int /\ SinceSecond = sent - client_timer
      BY <1>3, Times DEF SinceSecond
    <3>2. SinceSecond' = sent
      BY <1>1, <1>3, Times DEF SinceSecond
    <3> HIDE DEF sent
    <3>3. QED
      BY <1>3, <3>1, <3>2
  <2>3. \A m \in to_server \union to_client : m.left \in Nat /\ m.left <= MaxDelay
    BY Times DEF TimedInv, TimedTypes, PacketsOf
  <2>4. \A m \in to_server : Held(m)
    BY <1>3, <2>1, <2>3, Times DEF TryingInv, RequestsInv, Fresh
  <2>5. RequestsInv'
    <3>1. ASSUME NEW m \in to_server PROVE Held(m)'
      BY <1>1, <2>2, <2>4, Times DEF Held
    <3>2. ASSUME NEW m \in to_server', m = Packet(attempt') PROVE Fresh(m, MaxDelay)'
      <4>1. m.attempt = attempt' /\ m.left = MaxDelay
        BY <1>3, <3>2, PacketType
      <4>2. QED
        BY <1>1, <4>1, Times DEF Fresh
    <3>3. QED
      BY <1>2, <3>1, <3>2 DEF RequestsInv
  <2>6. AnswersInv'
    <3>1. \A m \in to_client : m.left + SinceSecond <= 2 * MaxDelay + MaxSync
      BY <1>3, <2>1, <2>3, Times DEF TryingInv, AnswersInv
    <3>2. QED
      BY <1>1, <2>2, <2>3, <3>1, Times DEF AnswersInv
  <2>7. SyncInv'
    <3>1. server_timer \in Nat
      BY DEF TimedInv, TimedTypes
    <3>2. SyncInv
      BY <2>1 DEF TryingInv
    <3>3. server_timer + SinceSecond <= MaxDelay + MaxSync
            => server_timer + SinceSecond' <= MaxDelay + MaxSync
      <4> DEFINE before == SinceSecond
                 after == SinceSecond'
      <4>1. MaxDelay + MaxSync \in Int /\ server_timer \in Int
        BY <3>1, Times
      <4>2. before \in Int /\ after \in Int /\ after <= before
        BY <2>2
      <4> HIDE DEF before, after
      <4>3. server_timer + before <= MaxDelay + MaxSync
              => server_timer + after <= MaxDelay + MaxSync
        BY <4>1, <4>2
      <4>4. QED
        BY <4>3 DEF before, after
    <3>4. QED
      BY <1>1, <3>2, <3>3 DEF SyncInv
  <2>8. WaitInv'
    <3>1. SUFFICES ASSUME server = "time_wait"
                   PROVE  /\ \A m \in to_server' : m.left < server_timer
                          /\ \/ to_server' # {}
                             \/ server_timer > ControlTimeout + MaxLate + MaxDelay
                                  + (IF attempt' \in lost_requests' THEN 0
                                     ELSE ControlTimeout + MaxLate)
      BY <1>1, <2>1 DEF TryingInv, WaitInv
    <3>2. server_timer \in Nat
      BY DEF TimedInv, TimedTypes
    <3>3. \A m \in to_server : m.left < server_timer /\ server_timer = TimeWait
      BY <2>1, <2>4, <3>1 DEF TryingInv, WaitInv, Held
    <3>4. to_server = {} =>
            server_timer > client_timer + MaxLate + MaxDelay
              + (IF attempt \in lost_requests THEN 0 ELSE ControlTimeout + MaxLate)
      BY <2>1, <3>1 DEF TryingInv, WaitInv
    <3>5. CASE to_server' = to_server \union {Packet(attempt')}
      <4>1. MaxDelay < server_timer
        <5>1. CASE to_server = {}
          BY <1>3, <3>2, <3>4, <5>1, Times
        <5>2. CASE to_server # {}
          BY <3>3, <5>2, Times
        <5>3. QED
          BY <5>1, <5>2
      <4>2. QED
        BY <1>3, <3>3, <3>5, <4>1, PacketType
    <3>6. CASE lost_requests' = lost_requests \union {attempt'} /\ to_server' = to_server
      <4>1. attempt \notin lost_requests
        <5>1. SUFFICES ASSUME attempt \in lost_requests PROVE FALSE
          OBVIOUS
        <5>2. attempt \in Attempts
          BY <5>1 DEF TimedInv, TimedTypes
        <5>3. {attempt, attempt + 1} \subseteq lost_requests'
          BY <1>1, <3>6, <5>1
        <5>4. QED
          BY <1>5, <5>2, <5>3 DEF TwoInARow
      <4>2. QED
        BY <1>3, <3>2, <3>3, <3>4, <3>6, <4>1, Times
    <3>7. QED
      BY <1>2, <3>5, <3>6
  <2>9. \A k \in 1 .. attempt' : Accounted(k)'
    <3>1. TAKE k \in 1 .. attempt'
    <3>2. CASE k = attempt'
      BY <1>2, <1>3, <3>2, PacketType DEF Accounted
    <3>3. CASE k # attempt'
      <4>1. k \in 1 .. attempt
        BY <1>1, <1>3, <3>3
      <4>2. QED
        BY <1>1, <1>2, <2>1, <4>1 DEF TryingInv, Accounted
    <3>4. QED
      BY <3>2, <3>3
  <2>10. QED
    BY <2>5, <2>6, <2>7, <2>8, <2>9 DEF TryingInv
<1>6. QED
  BY <1>1, <1>4, <1>5 DEF TimedInv

LEMMA ReceiveCompleteAckKeepsInv == TimedInv /\ ReceiveCompleteAck => TimedInv'
BY DEF ReceiveCompleteAck, serverVars, lossVars, TimedInv, TimedTypes, Active

\* The client gives up: all its COMPLETEs, or their answers, are lost.
LEMMA TimeOutKeepsInv == TimedInv /\ TimeOut => TimedInv'
<1> SUFFICES ASSUME TimedInv, TimeOut PROVE TimedInv'
  OBVIOUS
<1>1. /\ client = "waiting" /\ client_timer <= 0
      /\ client' = IF attempt < ControlAttempts THEN "sending" ELSE "failed"
      /\ UNCHANGED <<attempt, client_timer, server, serving, server_timer, to_server,
                     to_client, lost_requests, lost_answers>>
  BY DEF TimeOut, serverVars, lossVars
<1>2. TimedTypes'
  BY <1>1 DEF TimedInv, TimedTypes
<1>3. ASSUME ~TwoInARow' PROVE TryingInv
  BY <1>1, <1>3 DEF TimedInv, Active, TwoInARow
<1>4. ASSUME ~TwoInARow' PROVE TryingInv'
  BY <1>1, <1>3, <1>4 DEF TryingInv, RequestsInv, AnswersInv, SyncInv, WaitInv,
     Accounted, Fresh, Held, SinceSecond
<1>5. ASSUME ~TwoInARow', client' = "failed"
      PROVE  Attempts \subseteq lost_requests \union lost_answers
  <2>1. attempt = ControlAttempts /\ client_timer \in Int /\ client_timer <= 0
    BY <1>1, <1>5, Times DEF TimedInv, TimedTypes
  <2>2. \A m \in to_server \union to_client : m.left \in Nat
    BY Times DEF TimedInv, TimedTypes, PacketsOf
  <2>3. SinceSecond \in Int /\ SinceSecond > 2 * MaxDelay + MaxSync
    <3>1. (ControlAttempts - 1) * ControlTimeout = (ControlAttempts * ControlTimeout) - ControlTimeout
      BY Times
    <3>2. ControlAttempts * ControlTimeout \in Nat
      BY Times
    <3>3. SinceSecond = ((ControlAttempts * ControlTimeout) - ControlTimeout) - client_timer
      BY <2>1, <3>1 DEF SinceSecond
    <3>4. QED
      BY <2>1, <3>2, <3>3, Times
  <2>4. to_server = {}
    <3>1. \A m \in to_server : ~Fresh(m, MaxDelay)
      BY <2>1, <2>2, Times DEF Fresh
    <3>2. \A m \in to_server : ~Held(m)
      BY <2>3, Times DEF Held
    <3>3. QED
      BY <1>3, <1>5, <3>1, <3>2 DEF TryingInv, RequestsInv
  <2>5. to_client = {}
    BY <1>3, <1>5, <2>1, <2>2, <2>3, Times DEF TryingInv, AnswersInv
  <2>6. server # "sync"
    BY <1>3, <1>5, <2>3, Times DEF TryingInv, SyncInv, TimedInv, TimedTypes
  <2>7. QED
    BY <1>3, <1>5, <2>1, <2>4, <2>5, <2>6 DEF TryingInv, Accounted, Attempts
<1>6. QED
  BY <1>1, <1>2, <1>4, <1>5 DEF TimedInv

-----------------------------------------------------------------------------
(* The server. *)

\* A COMPLETE that is read gets an answer, or one that is lost.
LEMMA AnswerAccounts ==
    ASSUME NEW k \in Attempts, Answer(k), lost_answers \subseteq Attempts,
           to_client \subseteq PacketsOf
    PROVE  /\ to_client' \subseteq PacketsOf /\ lost_answers' \subseteq Attempts
           /\ to_client \subseteq to_client' /\ lost_answers \subseteq lost_answers'
           /\ k \in lost_answers' \/ \E m \in to_client' : m.attempt = k
           /\ \A m \in to_client' \ to_client : m.left = MaxDelay /\ m.attempt = k
BY PacketType DEF Answer

\* The first COMPLETE that arrives is the first or the second, and it is fresh.
LEMMA StartSyncKeepsInv == TimedInv /\ StartSync => TimedInv'
<1> SUFFICES ASSUME TimedInv, StartSync PROVE TimedInv'
  OBVIOUS
<1>1. /\ server = "data" /\ server' = "sync"
      /\ server_timer' \in 0 .. MaxSync
      /\ UNCHANGED <<client, attempt, client_timer, to_client, lost_requests,
                     lost_answers>>
  BY DEF StartSync, clientVars, lossVars
<1>2. PICK m \in to_server : serving' = m.attempt /\ to_server' = to_server \ {m}
  BY DEF StartSync
<1>3. m.attempt \in Attempts
  BY DEF TimedInv, TimedTypes, PacketsOf
<1>4. TimedTypes'
  <2>1. server_timer' \in Nat
    BY <1>1, Times
  <2>2. QED
    BY <1>1, <1>2, <1>3, <2>1 DEF TimedInv, TimedTypes
<1>5. ASSUME Active, ~TwoInARow PROVE TryingInv'
  <2>1. TryingInv
    BY <1>5 DEF TimedInv
  <2>2. \A x \in to_server : Fresh(x, MaxDelay)
    BY <1>1, <2>1 DEF TryingInv, RequestsInv, Held
  <2>3. attempt \in Nat /\ client_timer \in Int /\ \A x \in to_server : x.left \in Nat
    BY Times DEF TimedInv, TimedTypes, PacketsOf
  <2>4. attempt <= 2
    <3>1. SUFFICES ASSUME attempt > 2 PROVE FALSE
      BY <2>3
    <3>2. attempt <= ControlAttempts
      BY Times DEF TimedInv, TimedTypes
    <3>3. Accounted(1) /\ Accounted(2)
      BY <2>1, <2>3, <3>1 DEF TryingInv
    <3>4. \A x \in to_server : x.attempt = attempt
      BY <2>2 DEF Fresh
    <3>5. {1, 1 + 1} \subseteq lost_requests
      BY <1>1, <2>1, <2>3, <3>1, <3>3, <3>4 DEF Accounted, TryingInv, SyncInv
    <3>6. 1 \in Attempts
      BY <2>3, <3>1, <3>2, Times DEF Attempts
    <3>7. QED
      BY <1>5, <3>5, <3>6 DEF TwoInARow
  <2>5. SinceSecond <= MaxDelay /\ SinceSecond \in Int
    <3>1. attempt >= 1
      BY <1>3, <2>2, Times DEF Fresh, Attempts
    <3>2. m.left \in Nat /\ m.left + ControlTimeout - client_timer <= MaxDelay
      BY <2>2, <2>3 DEF Fresh
    <3>3. CASE attempt = 1
      BY <2>3, <3>2, <3>3, Times DEF SinceSecond
    <3>4. CASE attempt = 2
      BY <2>3, <3>2, <3>4, Times DEF SinceSecond
    <3>5. QED
      BY <2>3, <2>4, <3>1, <3>3, <3>4
  <2>6. SinceSecond' = SinceSecond
    BY <1>1 DEF SinceSecond
  <2>7. RequestsInv'
    BY <1>1, <1>2, <2>2 DEF RequestsInv, Fresh
  <2>8. AnswersInv'
    BY <1>1, <2>1, <2>6 DEF TryingInv, AnswersInv
  <2>9. SyncInv'
    <3>1. server_timer' + SinceSecond <= MaxDelay + MaxSync
      <4>1. /\ server_timer' \in Int /\ server_timer' <= MaxSync
            /\ MaxDelay \in Int /\ MaxSync \in Int
        BY <1>1, Times
      <4>2. server_timer' + SinceSecond <= MaxSync + MaxDelay
        BY <2>5, <4>1, SumAtMost
      <4>3. QED
        BY <4>1, <4>2
    <3>2. QED
      BY <1>1, <2>6, <3>1 DEF SyncInv
  <2>10. WaitInv'
    BY <1>1 DEF WaitInv
  <2>11. \A k \in 1 .. attempt' : Accounted(k)'
    BY <1>1, <1>2, <2>1 DEF TryingInv, Accounted
  <2>12. QED
    BY <2>7, <2>8, <2>9, <2>10, <2>11 DEF TryingInv
<1>6. QED
  BY <1>1, <1>4, <1>5 DEF TimedInv, Active, TwoInARow

\* TIME_WAIT is long enough for what may come, when it begins or begins anew.
LEMMA FullWait ==
    ASSUME TimedTypes, server' = "time_wait", server_timer' = TimeWait,
           UNCHANGED <<client_timer, attempt, lost_requests>>,
           to_server' \subseteq to_server
    PROVE  WaitInv'
<1>1. \A m \in to_server : m.left < TimeWait
  BY Times DEF TimedTypes, PacketsOf
<1>2. client_timer \in Int /\ client_timer <= ControlTimeout
  BY DEF TimedTypes
<1>3. TimeWait > client_timer + MaxLate + MaxDelay + ControlTimeout + MaxLate
  BY <1>2, Times
<1>4. TimeWait > client_timer + MaxLate + MaxDelay
                   + (IF attempt \in lost_requests THEN 0 ELSE ControlTimeout + MaxLate)
  BY <1>2, <1>3, Times
<1>5. QED
  BY <1>1, <1>4 DEF WaitInv

LEMMA EndSyncKeepsInv == TimedInv /\ EndSync => TimedInv'
<1> SUFFICES ASSUME TimedInv, EndSync PROVE TimedInv'
  OBVIOUS
<1>1. /\ server = "sync" /\ server_timer = 0 /\ Answer(serving)
      /\ server' = "time_wait" /\ server_timer' = TimeWait
      /\ UNCHANGED <<client, attempt, client_timer, to_server, lost_requests>>
  BY DEF EndSync, clientVars
<1>2. serving \in Attempts /\ lost_answers \subseteq Attempts /\ to_client \subseteq PacketsOf
  BY <1>1 DEF TimedInv, TimedTypes
<1>3. /\ to_client' \subseteq PacketsOf /\ lost_answers' \subseteq Attempts
      /\ to_client \subseteq to_client' /\ lost_answers \subseteq lost_answers'
      /\ serving \in lost_answers' \/ \E m \in to_client' : m.attempt = serving
      /\ \A m \in to_client' \ to_client : m.left = MaxDelay
  BY <1>1, <1>2, AnswerAccounts
<1>4. TimedTypes'
  <2>1. TimeWait \in Nat
    BY Times
  <2>2. QED
    BY <1>1, <1>3, <2>1 DEF TimedInv, TimedTypes
<1>5. ASSUME Active, ~TwoInARow PROVE TryingInv'
  <2>1. TryingInv
    BY <1>5 DEF TimedInv
  <2>2. SinceSecond' = SinceSecond /\ SinceSecond \in Int
    BY <1>1, SinceSecondType DEF SinceSecond, TimedInv
  <2>3. SinceSecond <= MaxDelay + MaxSync
    BY <1>1, <2>1, <2>2, Times DEF TryingInv, SyncInv
  <2>4. RequestsInv'
    BY <1>1, <2>1, <2>2 DEF TryingInv, RequestsInv, Fresh, Held
  <2>5. AnswersInv'
    <3>1. MaxDelay + SinceSecond <= 2 * MaxDelay + MaxSync
      BY <2>2, <2>3, Times
    <3>2. QED
      BY <1>1, <1>3, <2>1, <2>2, <3>1 DEF TryingInv, AnswersInv
  <2>6. SyncInv' /\ WaitInv'
    BY <1>1, FullWait DEF SyncInv, TimedInv
  <2>7. \A k \in 1 .. attempt' : Accounted(k)'
    BY <1>1, <1>3, <2>1 DEF TryingInv, Accounted
  <2>8. QED
    BY <2>4, <2>5, <2>6, <2>7 DEF TryingInv
<1>6. QED
  BY <1>1, <1>3, <1>4, <1>5 DEF TimedInv, Active, TwoInARow

\* Each COMPLETE that is answered prolongs TIME_WAIT.
LEMMA RepeatCompleteAckKeepsInv == TimedInv /\ RepeatCompleteAck => TimedInv'
<1> SUFFICES ASSUME TimedInv, RepeatCompleteAck PROVE TimedInv'
  OBVIOUS
<1>1. /\ server = "time_wait" /\ server_timer' = TimeWait
      /\ UNCHANGED <<client, attempt, client_timer, server, lost_requests>>
  BY DEF RepeatCompleteAck, clientVars, DeadlineAfter
<1>2. PICK m \in to_server : to_server' = to_server \ {m} /\ Answer(m.attempt)
  BY DEF RepeatCompleteAck
<1>3. /\ m.attempt \in Attempts
      /\ lost_answers \subseteq Attempts /\ to_client \subseteq PacketsOf
  BY DEF TimedInv, TimedTypes, PacketsOf
<1>4. /\ to_client' \subseteq PacketsOf /\ lost_answers' \subseteq Attempts
      /\ to_client \subseteq to_client' /\ lost_answers \subseteq lost_answers'
      /\ m.attempt \in lost_answers' \/ \E x \in to_client' : x.attempt = m.attempt
      /\ \A x \in to_client' \ to_client : x.left = MaxDelay
  BY <1>2, <1>3, AnswerAccounts
<1>5. TimedTypes'
  <2>1. TimeWait \in Nat
    BY Times
  <2>2. QED
    BY <1>1, <1>2, <1>4, <2>1 DEF TimedInv, TimedTypes
<1>6. ASSUME Active, ~TwoInARow PROVE TryingInv'
  <2>1. TryingInv
    BY <1>6 DEF TimedInv
  <2>2. SinceSecond' = SinceSecond /\ SinceSecond \in Int
    BY <1>1, SinceSecondType DEF SinceSecond, TimedInv
  <2>3. client_timer \in Int /\ m.left \in Nat
    BY Times DEF TimedInv, TimedTypes, PacketsOf
  <2>4. \/ ControlTimeout - client_timer <= MaxDelay
        \/ SinceSecond <= MaxDelay + MaxSync
    BY <2>1, <2>3, Times DEF TryingInv, RequestsInv, Fresh, Held
  <2>5. RequestsInv'
    BY <1>1, <1>2, <2>1, <2>2 DEF TryingInv, RequestsInv, Fresh, Held
  <2>6. AnswersInv'
    <3>1. \/ MaxDelay + ControlTimeout - client_timer <= 2 * MaxDelay
          \/ MaxDelay + SinceSecond <= 2 * MaxDelay + MaxSync
      BY <2>2, <2>3, <2>4, Times
    <3>2. QED
      BY <1>1, <1>4, <2>1, <2>2, <3>1 DEF TryingInv, AnswersInv
  <2>7. SyncInv' /\ WaitInv'
    BY <1>1, <1>2, FullWait DEF SyncInv, TimedInv
  <2>8. \A k \in 1 .. attempt' : Accounted(k)'
    BY <1>1, <1>2, <1>4, <2>1 DEF TryingInv, Accounted
  <2>9. QED
    BY <2>5, <2>6, <2>7, <2>8 DEF TryingInv
<1>7. QED
  BY <1>1, <1>4, <1>5, <1>6 DEF TimedInv, Active, TwoInARow

\* The server does not leave while the client needs it.
LEMMA StillNeeded ==
    ASSUME TimedInv, Active, ~TwoInARow
    PROVE  server # "exited" /\ (server = "time_wait" => server_timer > 0)
<1>1. WaitInv
  BY DEF TimedInv, TryingInv
<1>2. /\ server_timer \in Nat /\ client_timer \in Int /\ -MaxLate <= client_timer
      /\ \A m \in to_server : m.left \in Nat
  BY Times DEF TimedInv, TimedTypes, PacketsOf
<1>3. ASSUME server = "time_wait" PROVE server_timer > 0
  <2>1. CASE to_server # {}
    BY <1>1, <1>2, <1>3, <2>1 DEF WaitInv
  <2>2. CASE to_server = {}
    <3>1. server_timer > client_timer + MaxLate + MaxDelay
            + (IF attempt \in lost_requests THEN 0 ELSE ControlTimeout + MaxLate)
      BY <1>1, <1>3, <2>2 DEF WaitInv
    <3>2. QED
      BY <1>2, <3>1, Times
  <2>3. QED
    BY <2>1, <2>2
<1>4. QED
  BY <1>1, <1>3 DEF WaitInv

LEMMA LeaveTimeWaitKeepsInv == TimedInv /\ LeaveTimeWait => TimedInv'
<1> SUFFICES ASSUME TimedInv, LeaveTimeWait PROVE TimedInv'
  OBVIOUS
<1>1. /\ server = "time_wait" /\ server_timer = 0 /\ server' = "exited"
      /\ UNCHANGED <<client, attempt, client_timer, serving, server_timer, to_server,
                     to_client, lost_requests, lost_answers>>
  BY DEF LeaveTimeWait, clientVars, lossVars
<1>2. ~(Active /\ ~TwoInARow)
  BY <1>1, StillNeeded
<1>3. TimedTypes'
  BY <1>1 DEF TimedInv, TimedTypes
<1>4. QED
  BY <1>1, <1>2, <1>3 DEF TimedInv, Active, TwoInARow

LEMMA DiscardKeepsInv == TimedInv /\ Discard => TimedInv'
<1> SUFFICES ASSUME TimedInv, Discard PROVE TimedInv'
  OBVIOUS
<1>1. /\ UNCHANGED <<client, attempt, client_timer, server, serving, server_timer,
                     lost_requests, lost_answers>>
      /\ to_server' \subseteq to_server /\ to_client' \subseteq to_client
      /\ server = "exited" \/ client \in {"success", "failed"}
  BY DEF Discard, clientVars, serverVars, lossVars
<1>2. ~(Active /\ ~TwoInARow)
  BY <1>1, StillNeeded DEF Active
<1>3. TimedTypes'
  BY <1>1 DEF TimedInv, TimedTypes
<1>4. QED
  BY <1>1, <1>2, <1>3 DEF TimedInv, Active, TwoInARow

-----------------------------------------------------------------------------
(* Time. *)

LEMMA AgedPacket ==
    ASSUME NEW channel, channel \subseteq PacketsOf
    PROVE  /\ Aged(channel) \subseteq PacketsOf
           /\ \A x \in Aged(channel) : \E m \in channel :
                 /\ x.attempt = m.attempt
                 /\ x.left = IF m.left > 0 THEN m.left - 1 ELSE 0
           /\ \A m \in channel : \E x \in Aged(channel) : x.attempt = m.attempt
           /\ Aged(channel) = {} => channel = {}
<1> DEFINE Older(m) == [m EXCEPT !.left = IF @ > 0 THEN @ - 1 ELSE 0]
<1>1. ASSUME NEW m \in channel
      PROVE  /\ Older(m) \in PacketsOf /\ Older(m).attempt = m.attempt
             /\ Older(m).left = IF m.left > 0 THEN m.left - 1 ELSE 0
  <2>1. m \in [attempt : Attempts, left : 0 .. MaxDelay]
    BY DEF PacketsOf
  <2>2. (IF m.left > 0 THEN m.left - 1 ELSE 0) \in 0 .. MaxDelay
    BY <2>1, Times
  <2>3. QED
    BY <2>1, <2>2 DEF PacketsOf
<1>2. Aged(channel) = {Older(m) : m \in channel}
  BY DEF Aged
<1> HIDE DEF Older
<1>3. QED
  BY <1>1, <1>2

LEMMA TickKeepsInv == TimedInv /\ Tick => TimedInv'
<1> SUFFICES ASSUME TimedInv, Tick PROVE TimedInv'
  OBVIOUS
<1>1. /\ UNCHANGED <<client, attempt, server, serving, lost_requests, lost_answers>>
      /\ client # "sending"
      /\ client_timer' = IF client = "waiting" THEN client_timer - 1 ELSE client_timer
      /\ server_timer' = IF server_timer > 0 THEN server_timer - 1 ELSE 0
      /\ to_server' = Aged(to_server) /\ to_client' = Aged(to_client)
      /\ client = "waiting" => client_timer > -MaxLate
      /\ server \in {"sync", "time_wait"} => server_timer > 0
      /\ \A m \in to_server : m.left > 0 \/ server = "sync"
      /\ \A m \in to_client : m.left > 0
  BY DEF Tick, MayTick, lossVars
<1>2. /\ to_server \subseteq PacketsOf /\ to_client \subseteq PacketsOf
      /\ client_timer \in Int /\ -MaxLate <= client_timer
      /\ client_timer <= ControlTimeout /\ server_timer \in Nat
  BY DEF TimedInv, TimedTypes
<1>3. TimedTypes'
  <2>1. to_server' \subseteq PacketsOf /\ to_client' \subseteq PacketsOf
    BY <1>1, <1>2, AgedPacket
  <2>2. /\ client_timer' \in Int /\ -MaxLate <= client_timer'
        /\ client_timer' <= ControlTimeout /\ server_timer' \in Nat
    BY <1>1, <1>2, Times
  <2>3. QED
    BY <1>1, <2>1, <2>2 DEF TimedInv, TimedTypes
<1>4. ASSUME Active, ~TwoInARow PROVE TryingInv'
  <2>1. TryingInv /\ client = "waiting" /\ client_timer' = client_timer - 1
    BY <1>1, <1>4 DEF TimedInv, Active
  <2>2. SinceSecond \in Int /\ SinceSecond' = SinceSecond + 1
    BY <1>1, <1>2, <1>3, <2>1, SinceSecondType, SinceSecondMoves DEF TimedInv
  <2>3. \A m \in to_server \union to_client : m.left \in Nat
    BY <1>2, Times DEF PacketsOf
  <2>4. RequestsInv'
    <3>1. ASSUME NEW x \in to_server' PROVE Fresh(x, MaxDelay)' \/ Held(x)'
      <4>1. PICK m \in to_server : /\ x.attempt = m.attempt
                                   /\ x.left = IF m.left > 0 THEN m.left - 1 ELSE 0
        BY <1>1, <1>2, <3>1, AgedPacket
      <4>2. m.left \in Nat
        BY <2>3
      <4>3. CASE m.left > 0
        <5>1. Fresh(m, MaxDelay)
          BY <2>1, <4>2, <4>3 DEF TryingInv, RequestsInv, Held
        <5>2. x.left + ControlTimeout - client_timer' <= MaxDelay
          BY <1>2, <2>1, <4>1, <4>2, <4>3, <5>1, Times DEF Fresh
        <5>3. QED
          BY <1>1, <4>1, <5>1, <5>2 DEF Fresh
      <4>4. CASE m.left = 0
        <5>1. server = "sync" /\ server_timer > 0
          BY <1>1, <4>4
        <5>2. SinceSecond' <= MaxDelay + MaxSync
          <6>1. server_timer + SinceSecond <= MaxDelay + MaxSync
            BY <2>1, <5>1 DEF TryingInv, SyncInv
          <6>2. QED
            BY <1>2, <2>2, <5>1, <6>1, Times
        <5>3. QED
          BY <1>1, <4>1, <4>4, <5>1, <5>2 DEF Held
      <4>5. QED
        BY <4>2, <4>3, <4>4
    <3>2. QED
      BY <3>1 DEF RequestsInv
  <2>5. AnswersInv'
    <3>1. ASSUME NEW x \in to_client'
          PROVE  \/ x.left + ControlTimeout - client_timer' <= 2 * MaxDelay
                 \/ x.left + SinceSecond' <= 2 * MaxDelay + MaxSync
      <4>1. PICK m \in to_client : x.left = IF m.left > 0 THEN m.left - 1 ELSE 0
        BY <1>1, <1>2, <3>1, AgedPacket
      <4>2. m.left \in Nat /\ m.left > 0 /\ x.left = m.left - 1
        BY <1>1, <2>3, <4>1
      <4>3. \/ m.left + ControlTimeout - client_timer <= 2 * MaxDelay
            \/ m.left + SinceSecond <= 2 * MaxDelay + MaxSync
        BY <2>1 DEF TryingInv, AnswersInv
      <4>4. QED
        BY <1>2, <2>1, <2>2, <4>2, <4>3, Times
    <3>2. QED
      BY <3>1 DEF AnswersInv
  <2>6. SyncInv'
    <3>1. server = "data" => to_client' = {}
      BY <1>1, <2>1 DEF TryingInv, SyncInv, Aged
    <3>2. server = "sync" => server_timer' + SinceSecond' <= MaxDelay + MaxSync
      <4>1. server = "sync" => server_timer + SinceSecond <= MaxDelay + MaxSync
        BY <2>1 DEF TryingInv, SyncInv
      <4>2. QED
        BY <1>1, <1>2, <2>2, <4>1, Times
    <3>3. QED
      BY <1>1, <2>1, <3>1, <3>2 DEF TryingInv, SyncInv
  <2>7. WaitInv'
    <3>1. SUFFICES ASSUME server = "time_wait"
                   PROVE  /\ \A x \in to_server' : x.left < server_timer'
                          /\ \/ to_server' # {}
                             \/ server_timer' > client_timer' + MaxLate + MaxDelay
                                  + (IF attempt \in lost_requests THEN 0
                                     ELSE ControlTimeout + MaxLate)
      BY <1>1, <2>1 DEF TryingInv, WaitInv
    <3>2. server_timer' = server_timer - 1
      BY <1>1, <3>1
    <3>3. \A x \in to_server' : x.left < server_timer'
      <4>1. TAKE x \in to_server'
      <4>2. PICK m \in to_server : x.left = IF m.left > 0 THEN m.left - 1 ELSE 0
        BY <1>1, <1>2, AgedPacket
      <4>3. m.left > 0 /\ m.left \in Nat /\ m.left < server_timer
        BY <1>1, <2>1, <2>3, <3>1 DEF TryingInv, WaitInv
      <4>4. QED
        BY <1>2, <3>2, <4>2, <4>3
    <3>4. \/ to_server' # {}
          \/ server_timer > client_timer + MaxLate + MaxDelay
               + (IF attempt \in lost_requests THEN 0 ELSE ControlTimeout + MaxLate)
      BY <1>1, <1>2, <2>1, <3>1, AgedPacket DEF TryingInv, WaitInv
    <3>5. QED
      BY <1>2, <2>1, <3>2, <3>3, <3>4, Times
  <2>8. \A k \in 1 .. attempt' : Accounted(k)'
    <3>1. \A m \in to_server \union to_client :
             \E x \in to_server' \union to_client' : x.attempt = m.attempt
      BY <1>1, <1>2, AgedPacket
    <3>2. QED
      BY <1>1, <2>1, <3>1 DEF TryingInv, Accounted
  <2>9. QED
    BY <2>4, <2>5, <2>6, <2>7, <2>8 DEF TryingInv
<1>5. QED
  BY <1>1, <1>3, <1>4 DEF TimedInv, Active, TwoInARow

LEMMA StutterKeepsInv == TimedInv /\ UNCHANGED vars => TimedInv'
BY DEF vars, clientVars, serverVars, lossVars, TimedInv, TimedTypes, TryingInv,
   RequestsInv, AnswersInv, SyncInv, WaitInv, Accounted, Fresh, Held, SinceSecond,
   Active, TwoInARow

LEMMA TimedStep == TimedInv /\ [Next]_vars => TimedInv'
BY SendCompleteKeepsInv, ReceiveCompleteAckKeepsInv, TimeOutKeepsInv,
   StartSyncKeepsInv, EndSyncKeepsInv, RepeatCompleteAckKeepsInv,
   LeaveTimeWaitKeepsInv, DiscardKeepsInv, TickKeepsInv, StutterKeepsInv
   DEF Next, Finished

-----------------------------------------------------------------------------

\* Given the room TimingAssumption asks for, a client that reports failure has
\* lost every COMPLETE or its answer, or two COMPLETEs in a row: no length of
\* msync() within the bound, no number of lost answers and no unlucky timing is
\* enough (server.cpp:164-211, common.hpp:17-18).
THEOREM FailureIsExcused == Spec => []FailureNeedsLosses
<1>1. TimedInv => FailureNeedsLosses
  <2>1. TimedInv /\ client = "failed" /\ ~TwoInARow
          => lost_requests \union lost_answers = 1 .. ControlAttempts
    BY DEF TimedInv, TimedTypes, Attempts
  <2>2. QED
    BY <2>1 DEF FailureNeedsLosses, TwoInARow, Attempts
<1>2. QED
  BY <1>1, TimedInit, TimedStep, PTL DEF Spec

\* And while a failure would not be excused, the server is there to answer:
\* time_wait() does not run out on a client that is still asking.
ServerWaits == Active /\ ~TwoInARow => server # "exited"

THEOREM ServerDoesNotLeaveEarly == Spec => []ServerWaits
<1>1. TimedInv => ServerWaits
  BY StillNeeded DEF ServerWaits
<1>2. QED
  BY <1>1, TimedInit, TimedStep, PTL DEF Spec
==============================================================================
