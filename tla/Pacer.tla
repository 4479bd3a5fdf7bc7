-------------------------------- MODULE Pacer --------------------------------
(***************************************************************************)
(* The token bucket that paces DATA packets: class Pacer of pacer.cpp.     *)
(*                                                                         *)
(* Time is counted in clock ticks (nanoseconds in the code) and bytes in   *)
(* units so small that Rate, what one tick adds to the bucket, is an       *)
(* integer.  The code computes in long double; the model is exact.         *)
(*                                                                         *)
(* wait_for_slot() is called with nothing else running, and reads the      *)
(* clock only where it refills.  An action extends from one such reading   *)
(* to the next sleep or to the return.  A sleep ends at the deadline or    *)
(* any time later; the busy wait of the last 100 us, for packets of more   *)
(* than half a bucket, only makes it end sooner after the deadline.        *)
(*                                                                         *)
(* After every reading of the clock last_refill_time_ is the time read, so *)
(* one number, `since', tells both what the next refill adds and how long  *)
(* the current sleep has lasted.                                           *)
(***************************************************************************)
EXTENDS Integers, FiniteSetsExt

CONSTANTS
    Rate,           \* what one tick adds
    BurstCapacity,  \* kBurstCapacityBytes
    PacketSizes,    \* the sizes wait_for_slot() is called with
    MaximumWait,    \* kMaximumWaitNanoseconds
    MaxSince        \* bound: most ticks between two readings of the clock

\* The constructor throws on a rate of zero.  The bound leaves room for the
\* longest sleep.
ASSUME PacerAssumption ==
    /\ Rate \in Nat \ {0}
    /\ BurstCapacity \in Nat \ {0}
    /\ PacketSizes \subseteq Nat \ {0}
    /\ \E largest \in PacketSizes : \A bytes \in PacketSizes : bytes <= largest
    /\ MaximumWait \in Nat \ {0}
    /\ MaxSince \in Nat
    /\ MaximumWait <= MaxSince

VARIABLES
    tokens,   \* tokens_bytes_
    since,    \* now - last_refill_time_
    packet,   \* wire_bytes of the call that sleeps, 0 when none does
    wait,     \* wait_duration of the current sleep
    meter     \* history: what the ideal bucket of RateBound holds

vars == <<tokens, since, packet, wait, meter>>

Init ==
    /\ tokens = BurstCapacity
    /\ since = 0
    /\ packet = 0
    /\ wait = 0
    /\ meter = 0

-----------------------------------------------------------------------------
(* Variants: plausible defects of the operators below. *)

Refilled_Unbounded(capacity) == tokens + since * Rate

TargetThrice_FullBucket(bytes) == 3 * Max({BurstCapacity, bytes})

Refilled_BurstOnly(capacity) == Min({BurstCapacity, tokens + since * Rate})

-----------------------------------------------------------------------------

\* A packet larger than the bucket makes the bucket larger for its own call.
Capacity(bytes) == Max({BurstCapacity, bytes})

\* refill()
Refilled(capacity) ==
    IF since = 0 THEN tokens ELSE Min({capacity, tokens + since * Rate})

\* Three times target_bytes, which is the packet or two thirds of the bucket.
TargetThrice(bytes) == Max({3 * bytes, 2 * Capacity(bytes)})

\* wait_duration: the time until the bucket holds the target, rounded up to a
\* tick, but not more than MaximumWait.
WaitDuration(bytes, level) ==
    LET missing == TargetThrice(bytes) - 3 * level
    IN Min({MaximumWait, (missing + 3 * Rate - 1) \div (3 * Rate)})

\* What follows a reading of the clock: refill, and leave with the packet's
\* tokens or sleep.
Proceed(bytes) ==
    LET level == Refilled(Capacity(bytes))
    IN /\ since' = 0
       /\ IF level < bytes
          THEN /\ tokens' = level
               /\ packet' = bytes
               /\ wait' = WaitDuration(bytes, level)
               /\ meter' = meter
          ELSE /\ tokens' = level - bytes
               /\ packet' = 0
               /\ wait' = 0
               /\ meter' = meter + bytes

\* wait_for_slot() is entered ...
Enter(bytes) == packet = 0 /\ Proceed(bytes)

\* ... and goes on after a sleep.
Wake == packet # 0 /\ since >= wait /\ Proceed(packet)

\* reset(), which nothing calls: a new bucket, and a new account.
Reset ==
    /\ packet = 0
    /\ tokens' = BurstCapacity
    /\ since' = 0
    /\ meter' = 0
    /\ UNCHANGED <<packet, wait>>

Tick ==
    /\ since < MaxSince
    /\ since' = since + 1
    /\ meter' = Max({0, meter - Rate})
    /\ UNCHANGED <<tokens, packet, wait>>

Next == (\E bytes \in PacketSizes : Enter(bytes)) \/ Wake \/ Reset \/ Tick

Spec == Init /\ [][Next]_vars

\* The caller's thread runs and the clock advances.
FairSpec == Spec /\ WF_vars(Wake) /\ WF_vars(Tick)

-----------------------------------------------------------------------------
(* Properties. *)

\* Between any two moments the pacer lets through no more than Rate times the
\* time between them, plus one burst or one packet: a bucket that drains at
\* Rate and into which every packet let through is poured never overflows.
\* Sleeps that last too long, idle times and packets larger than the bucket
\* make no difference (pacer.cpp:31-41, 45-49, 78).
RateBound == meter <= Capacity(Max(PacketSizes))

\* What the comment on pacer.cpp:52 wants of the target: a sleep that ends
\* late by no more than a third of a bucket loses no token to the bucket's
\* capacity, as long as the packet leaves that third.
OversleepKept ==
    LET bucket == Capacity(packet)
    IN packet # 0 /\ 3 * packet <= 2 * bucket
          /\ 3 * (since - wait + 1) * Rate <= bucket
       => tokens + since * Rate <= bucket

\* Every call of wait_for_slot() returns, also for a packet larger than the
\* bucket and when the longest sleep is too short (pacer.cpp:45-46, 51-76).
SlotGranted == packet # 0 ~> packet = 0
=============================================================================
