-------------------------- MODULE ReliableDelivery --------------------------
(***************************************************************************)
(* What the data phase promises, with no packet, window or timer in it:    *)
(* the receiver's copy of the file is filled one chunk at a time, each     *)
(* chunk once and with the sender's bytes, and the sender believes only    *)
(* what has been delivered.                                                *)
(***************************************************************************)
EXTENDS Integers

CONSTANTS
    TotalChunks,   \* chunks of the file
    File,          \* the contents of each chunk at the sender
    Blank          \* the contents of a chunk not written yet

Chunks == 0 .. TotalChunks - 1

VARIABLES
    copy,       \* the receiver's file
    confirmed   \* the chunks the sender knows to be delivered

vars == <<copy, confirmed>>

Delivered == {s \in Chunks : copy[s] = File[s]}

Init ==
    /\ copy = [s \in Chunks |-> Blank]
    /\ confirmed = {}

Deliver(s) ==
    /\ copy[s] = Blank
    /\ copy' = [copy EXCEPT ![s] = File[s]]
    /\ UNCHANGED confirmed

Confirm(S) ==
    /\ S \subseteq Delivered
    /\ confirmed' = confirmed \union S
    /\ UNCHANGED copy

Next == (\E s \in Chunks : Deliver(s)) \/ (\E S \in SUBSET Chunks : Confirm(S))

Spec == Init /\ [][Next]_vars

\* A transfer that is not abandoned delivers and confirms every chunk.
FairSpec ==
    /\ Spec
    /\ \A s \in Chunks : WF_vars(Deliver(s))
    /\ WF_vars(Confirm(Chunks))
=============================================================================
