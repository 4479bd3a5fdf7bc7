----------------------------- MODULE PacerProofs -----------------------------
(***************************************************************************)
(* The pacer never exceeds its rate and loses no token to a sleep that     *)
(* ends a little late, for every rate, burst and set of packet sizes, and  *)
(* however long sleeps and pauses last (MaxSince is any number).           *)
(***************************************************************************)
EXTENDS Pacer, TLAPS

\* Max and Min of two numbers.
LEMMA MaxPair ==
    ASSUME NEW a \in Nat, NEW b \in Nat
    PROVE  Max({a, b}) = IF a >= b THEN a ELSE b
<1> DEFINE S == {a, b}
           m == IF a >= b THEN a ELSE b
<1>1. m \in S /\ \A y \in S : m >= y
  OBVIOUS
<1>2. Max(S) \in S /\ \A y \in S : Max(S) >= y
  <2>1. \E x \in S : \A y \in S : x >= y
    BY <1>1
  <2> HIDE DEF S, m
  <2>2. QED
    BY <2>1, Zenon DEF Max
<1>3. Max(S) >= m /\ m >= Max(S) /\ Max(S) \in Nat /\ m \in Nat
  BY <1>1, <1>2
<1>4. QED
  BY <1>3

LEMMA MinPair ==
    ASSUME NEW a \in Nat, NEW b \in Nat
    PROVE  Min({a, b}) = IF a <= b THEN a ELSE b
<1> DEFINE S == {a, b}
           m == IF a <= b THEN a ELSE b
<1>1. m \in S /\ \A y \in S : m <= y
  OBVIOUS
<1>2. Min(S) \in S /\ \A y \in S : Min(S) <= y
  <2>1. \E x \in S : \A y \in S : x <= y
    BY <1>1
  <2> HIDE DEF S, m
  <2>2. QED
    BY <2>1, Zenon DEF Min
<1>3. Min(S) <= m /\ m <= Min(S) /\ Min(S) \in Nat /\ m \in Nat
  BY <1>1, <1>2
<1>4. QED
  BY <1>3

\* The largest burst.
Bound == Capacity(Max(PacketSizes))

\* A packet's own capacity is at most the largest.
LEMMA CapacityBound ==
    /\ Bound \in Nat /\ BurstCapacity <= Bound
    /\ \A bytes \in PacketSizes :
           Capacity(bytes) \in Nat /\ Capacity(bytes) <= Bound /\ bytes <= Bound
<1> DEFINE largest == Max(PacketSizes)
<1>1. largest \in PacketSizes /\ \A bytes \in PacketSizes : largest >= bytes
  <2>1. \E x \in PacketSizes : \A y \in PacketSizes : x >= y
    BY PacerAssumption
  <2>2. QED
    BY <2>1, Zenon DEF Max
<1> HIDE DEF largest
<1>2. \A bytes \in PacketSizes :
         Capacity(bytes) = IF BurstCapacity >= bytes THEN BurstCapacity ELSE bytes
  BY PacerAssumption, MaxPair DEF Capacity
<1>3. Bound = IF BurstCapacity >= largest THEN BurstCapacity ELSE largest
  BY <1>1, <1>2 DEF Bound, largest
<1>4. QED
  BY <1>1, <1>2, <1>3, PacerAssumption

-----------------------------------------------------------------------------

\* What the next refill can find in the bucket.
Credit == tokens + since * Rate

\* Credit and meter share the bucket; credit beyond the bucket is lost, and
\* the meter is empty by then.
PacerInv ==
    /\ tokens \in Nat
    /\ tokens <= Bound
    /\ since \in Nat
    /\ packet \in PacketSizes \union {0}
    /\ meter \in Nat
    /\ IF Credit <= Bound THEN meter + Credit <= Bound ELSE meter = 0

LEMMA CreditIsNat == PacerInv => Credit \in Nat /\ since * Rate \in Nat
BY PacerAssumption DEF PacerInv, Credit

LEMMA PacerInit == Init => PacerInv
<1>1. 0 * Rate = 0
  BY PacerAssumption
<1>2. QED
  BY <1>1, CapacityBound, PacerAssumption DEF Init, PacerInv, Credit

LEMMA ProceedKeepsInv ==
    ASSUME PacerInv, NEW bytes \in PacketSizes, Proceed(bytes)
    PROVE  PacerInv'
<1> DEFINE level == Refilled(Capacity(bytes))
<1>1. /\ Capacity(bytes) \in Nat /\ Capacity(bytes) <= Bound
      /\ bytes \in Nat /\ Bound \in Nat /\ bytes <= Bound
  BY CapacityBound, PacerAssumption
<1>2. Credit \in Nat
  BY CreditIsNat
<1>3. level \in Nat /\ level <= Credit
  <2>1. CASE since = 0
    <3>1. level = tokens /\ Credit = tokens
      BY <2>1, PacerAssumption DEF Refilled, Credit, PacerInv
    <3>2. QED
      BY <3>1, <1>2 DEF PacerInv
  <2>2. CASE since # 0
    <3>1. level = IF Capacity(bytes) <= Credit THEN Capacity(bytes) ELSE Credit
      BY <2>2, <1>1, <1>2, MinPair DEF Refilled, Credit
    <3>2. QED
      BY <3>1, <1>1, <1>2
  <2>3. QED
    BY <2>1, <2>2
<1>4. meter \in Nat /\ meter + level <= Bound
  <2>1. CASE Credit <= Bound
    BY <2>1, <1>1, <1>2, <1>3 DEF PacerInv
  <2>2. CASE ~(Credit <= Bound)
    <3>1. meter = 0
      BY <2>2 DEF PacerInv
    <3>2. level <= Bound
      <4>1. CASE since = 0
        <5>1. level = tokens
          BY <4>1 DEF Refilled
        <5>2. QED
          BY <5>1 DEF PacerInv
      <4>2. CASE since # 0
        <5>1. level = IF Capacity(bytes) <= Credit THEN Capacity(bytes) ELSE Credit
          BY <4>2, <1>1, <1>2, MinPair DEF Refilled, Credit
        <5>2. QED
          BY <5>1, <1>1, <1>2
      <4>3. QED
        BY <4>1, <4>2
    <3>3. QED
      BY <3>1, <3>2, <1>1, <1>3
  <2>3. QED
    BY <2>1, <2>2
<1>5. /\ since' = 0
      /\ \/ level < bytes /\ tokens' = level /\ packet' = bytes /\ meter' = meter
         \/ level >= bytes /\ tokens' = level - bytes /\ packet' = 0
              /\ meter' = meter + bytes
  <2> HIDE DEF level
  <2>1. level < bytes \/ level >= bytes
    BY <1>1, <1>3
  <2>2. QED
    BY <2>1 DEF Proceed, level
<1> HIDE DEF level
<1>6. tokens' \in Nat /\ meter' \in Nat /\ meter' + tokens' <= Bound
  BY <1>1, <1>3, <1>4, <1>5
<1>7. Credit' = tokens'
  <2>1. 0 * Rate = 0
    BY PacerAssumption
  <2>2. QED
    BY <2>1, <1>5, <1>6 DEF Credit
<1>8. Bound' = Bound
  BY DEF Bound, Capacity
<1>9. tokens' <= Bound /\ since' \in Nat /\ packet' \in PacketSizes \union {0}
  <2>1. tokens' <= Bound
    <3>1. \A m, t, b \in Nat : m + t <= b => t <= b
      OBVIOUS
    <3>2. Bound \in Nat
      BY <1>1
    <3>3. QED
      BY <3>1, <3>2, <1>6
  <2>2. since' \in Nat /\ packet' \in PacketSizes \union {0}
    BY <1>5
  <2>3. QED
    BY <2>1, <2>2
<1>10. QED
  BY <1>1, <1>6, <1>7, <1>8, <1>9 DEF PacerInv

\* What a tick adds to the credit it takes from the meter.
LEMMA TickKeepsInv ==
    ASSUME PacerInv, Tick
    PROVE  PacerInv'
<1>1. /\ Rate \in Nat /\ Bound \in Nat /\ Credit \in Nat /\ since * Rate \in Nat
      /\ tokens \in Nat /\ since \in Nat /\ meter \in Nat
  BY CapacityBound, CreditIsNat, PacerAssumption DEF PacerInv
<1>2. tokens' = tokens /\ since' = since + 1 /\ packet' = packet
        /\ meter' = Max({0, meter - Rate})
  BY DEF Tick
<1>3. Credit' = Credit + Rate
  <2>1. (since + 1) * Rate = since * Rate + Rate
    BY <1>1
  <2>2. QED
    BY <1>1, <1>2, <2>1 DEF Credit
<1>4. meter' = IF meter >= Rate THEN meter - Rate ELSE 0
  <2>1. CASE meter >= Rate
    <3>1. meter - Rate \in Nat
      BY <1>1, <2>1
    <3>2. QED
      BY <1>1, <1>2, <2>1, <3>1, MaxPair
  <2>2. CASE meter < Rate
    <3>1. 0 \in {0, meter - Rate} /\ \A y \in {0, meter - Rate} : 0 >= y
      BY <1>1, <2>2
    <3>2. \A x \in {0, meter - Rate} : (\A y \in {0, meter - Rate} : x >= y) => x = 0
      BY <1>1, <2>2
    <3>3. Max({0, meter - Rate}) = 0
      BY <3>1, <3>2 DEF Max
    <3>4. QED
      BY <1>1, <1>2, <2>2, <3>3
  <2>3. QED
    BY <1>1, <2>1, <2>2
<1>5. Bound' = Bound
  BY DEF Bound, Capacity
<1>6. QED
  BY <1>1, <1>2, <1>3, <1>4, <1>5 DEF PacerInv

LEMMA PacerStep == PacerInv /\ [Next]_vars => PacerInv'
<1> SUFFICES ASSUME PacerInv, [Next]_vars
             PROVE  PacerInv'
  OBVIOUS
<1>1. CASE \E bytes \in PacketSizes : Enter(bytes)
  BY <1>1, ProceedKeepsInv DEF Enter
<1>2. CASE Wake
  <2>1. packet \in PacketSizes /\ Proceed(packet)
    BY <1>2 DEF Wake, PacerInv
  <2>2. QED
    BY <2>1, ProceedKeepsInv
<1>3. CASE Reset
  <2>1. 0 * Rate = 0 /\ BurstCapacity \in Nat
    BY PacerAssumption
  <2>2. tokens' = BurstCapacity /\ since' = 0 /\ meter' = 0 /\ packet' = packet
    BY <1>3 DEF Reset
  <2>3. Credit' = BurstCapacity
    BY <2>1, <2>2 DEF Credit
  <2>4. Bound' = Bound
    BY DEF Bound, Capacity
  <2>5. QED
    BY <2>1, <2>2, <2>3, <2>4, CapacityBound DEF PacerInv
<1>4. CASE Tick
  BY <1>4, TickKeepsInv
<1>5. CASE UNCHANGED vars
  BY <1>5 DEF vars, PacerInv, Credit, Bound, Capacity
<1>6. QED
  BY <1>1, <1>2, <1>3, <1>4, <1>5 DEF Next

\* Between any two moments no more passes than the rate times the time between
\* them plus one burst, or one packet if that is larger.
THEOREM RateIsBounded == Spec => []RateBound
<1>1. PacerInv => RateBound
  <2> SUFFICES ASSUME PacerInv PROVE meter <= Bound
    BY DEF RateBound, Bound
  <2>1. Credit \in Nat /\ Bound \in Nat
    BY CreditIsNat, CapacityBound
  <2>2. QED
    BY <2>1 DEF PacerInv
<1>2. QED
  BY <1>1, PacerInit, PacerStep, PTL DEF Spec

-----------------------------------------------------------------------------
(* A sleep that ends late. *)

\* A caller that sleeps lacks tokens for its packet, and sleeps for what the
\* bucket at that moment was short of the target.
SleepInv ==
    packet # 0 => tokens < packet /\ wait = WaitDuration(packet, tokens)

LEMMA SleepInit == Init => SleepInv
BY DEF Init, SleepInv

LEMMA SleepStep == PacerInv /\ SleepInv /\ [Next]_vars => SleepInv'
<1> SUFFICES ASSUME PacerInv, SleepInv, [Next]_vars PROVE SleepInv'
  OBVIOUS
<1>1. ASSUME NEW bytes \in PacketSizes, Proceed(bytes)
      PROVE  SleepInv'
  <2> DEFINE level == Refilled(Capacity(bytes))
  <2>1. \/ level < bytes /\ tokens' = level /\ packet' = bytes
             /\ wait' = WaitDuration(bytes, level)
        \/ packet' = 0
    BY <1>1 DEF Proceed
  <2> HIDE DEF level
  <2>2. \A b, k : WaitDuration(b, k)' = WaitDuration(b, k)
    BY DEF WaitDuration, TargetThrice, Capacity
  <2>3. QED
    BY <2>1 DEF SleepInv, WaitDuration, TargetThrice, Capacity
<1>2. CASE \E bytes \in PacketSizes : Enter(bytes)
  BY <1>1, <1>2 DEF Enter
<1>3. CASE Wake
  BY <1>1, <1>3 DEF Wake, PacerInv
<1>4. CASE Reset
  BY <1>4 DEF Reset, SleepInv
<1>5. CASE Tick \/ UNCHANGED vars
  BY <1>5 DEF Tick, vars, SleepInv, WaitDuration, TargetThrice, Capacity
<1>6. QED
  BY <1>2, <1>3, <1>4, <1>5 DEF Next

\* A quotient rounded up, as the code computes it: the sleep is less than one
\* tick longer than what is missing takes.
LEMMA RoundedUp ==
    ASSUME NEW missing \in Nat, NEW rate \in Nat \ {0}, NEW w \in Nat,
           w <= (missing + rate - 1) \div rate
    PROVE  rate * w <= missing + rate - 1
<1> DEFINE a == missing + rate - 1
           q == a \div rate
<1>1. a \in Nat
  OBVIOUS
<1>2. rate * q <= a /\ q \in Nat
  <2> HIDE DEF a
  <2>1. \A n \in Nat, d \in Nat \ {0} : d * (n \div d) <= n /\ n \div d \in Nat
    OBVIOUS
  <2>2. QED
    BY <1>1, <2>1
<1>3. rate * w <= rate * q
  <2>1. w <= q
    OBVIOUS
  <2> HIDE DEF q
  <2>2. QED
    BY <1>2, <2>1
<1>4. rate * w \in Int /\ rate * q \in Int
  <2> HIDE DEF q
  <2>1. QED
    BY <1>2
<1> HIDE DEF q
<1>5. QED
  BY <1>1, <1>2, <1>3, <1>4

\* A sleep that ends late by at most a third of a bucket fills no bucket to the
\* brim, so its tokens are all kept, if the packet leaves that third.
THEOREM OversleepIsKept == Spec => []OversleepKept
<1>1. PacerInv /\ SleepInv => OversleepKept
  <2> DEFINE bucket == Capacity(packet)
             missing == 2 * bucket - 3 * tokens
  <2> SUFFICES ASSUME PacerInv, SleepInv, packet # 0, 3 * packet <= 2 * bucket,
                      3 * (since - wait + 1) * Rate <= bucket
               PROVE  tokens + since * Rate <= bucket
    BY DEF OversleepKept
  <2>1. /\ packet \in PacketSizes /\ packet \in Nat /\ tokens \in Nat /\ since \in Nat
        /\ Rate \in Nat \ {0} /\ MaximumWait \in Nat /\ bucket \in Nat
    BY CapacityBound, PacerAssumption DEF PacerInv
  <2>2. tokens < packet /\ wait = WaitDuration(packet, tokens)
    BY DEF SleepInv
  <2>3. TargetThrice(packet) = 2 * bucket
    <3>1. 3 * packet \in Nat /\ 2 * bucket \in Nat
      BY <2>1
    <3>2. QED
      BY <2>1, <3>1, MaxPair DEF TargetThrice
  <2>4. missing \in Nat
    <3> HIDE DEF bucket
    <3>1. QED
      BY <2>1, <2>2
  <2>5. wait \in Nat /\ wait <= (missing + 3 * Rate - 1) \div (3 * Rate)
    <3> DEFINE q == (missing + 3 * Rate - 1) \div (3 * Rate)
    <3>1. q \in Nat
      <4>1. \A n \in Nat, d \in Nat \ {0} : n \div d \in Nat
        OBVIOUS
      <4>2. 3 * Rate \in Nat \ {0} /\ missing + 3 * Rate - 1 \in Nat
        BY <2>1, <2>4
      <4>3. QED
        BY <4>1, <4>2
    <3>2. wait = Min({MaximumWait, q})
      BY <2>2, <2>3 DEF WaitDuration
    <3> HIDE DEF q
    <3>3. wait \in Nat /\ wait <= q
      BY <2>1, <3>1, <3>2, MinPair
    <3>4. QED
      BY <3>3 DEF q
  <2> HIDE DEF missing
  <2>6. 3 * Rate * wait <= missing + 3 * Rate - 1
    <3>1. 3 * Rate \in Nat \ {0}
      BY <2>1
    <3>2. QED
      BY <2>4, <2>5, <3>1, RoundedUp
  <2> HIDE DEF bucket
  <2> DEFINE w == wait * Rate
             e == since * Rate
  <2>7. w \in Nat /\ e \in Nat
    BY <2>1, <2>5
  <2>8. 3 * w <= missing + 3 * Rate - 1
    <3>1. 3 * Rate * wait = 3 * w
      BY <2>1, <2>5
    <3>2. QED
      BY <2>6, <3>1
  <2>9. 3 * e - 3 * w + 3 * Rate <= bucket
    <3>1. 3 * (since - wait + 1) * Rate = 3 * e - 3 * w + 3 * Rate
      BY <2>1, <2>5
    <3>2. QED
      BY <3>1
  <2> HIDE DEF w, e
  <2>10. tokens + e <= bucket
    BY <2>1, <2>7, <2>8, <2>9 DEF missing
  <2>11. QED
    BY <2>10 DEF e
<1>2. QED
  BY <1>1, PacerInit, PacerStep, SleepInit, SleepStep, PTL DEF Spec
=============================================================================
