---------------------------- MODULE BoundedQueue ----------------------------
(***************************************************************************)
(* What the single-producer single-consumer ring promises its two callers, *)
(* with no slots, counters or memory order: a lossless bounded FIFO under  *)
(* credit-based flow control.  The producer may add an item only while the *)
(* pops it KNOWS of leave room; the consumer may take only an item it      *)
(* KNOWS of.  What one side knows of the other never goes backwards and    *)
(* may lag behind, so a push can be refused, or a pop find nothing, a      *)
(* little longer than strictly necessary; it is never granted wrongly.     *)
(***************************************************************************)
EXTENDS Naturals, Sequences

CONSTANTS
    Capacity,   \* items the queue can hold
    MaxOffers   \* bound on the number of try_push calls

VARIABLES
    offered,    \* number of pushes decided so far; the n-th offers item n
    accepted,   \* the items whose push returned true, in order
    delivered,  \* the items popped, in order
    popsKnown,  \* number of pops the producer knows of
    pushesKnown \* number of accepted items the consumer knows of

vars == <<offered, accepted, delivered, popsKnown, pushesKnown>>

Init ==
    /\ offered = 0
    /\ accepted = <<>>
    /\ delivered = <<>>
    /\ popsKnown = 0
    /\ pushesKnown = 0

Accept ==
    /\ offered < MaxOffers
    /\ Len(accepted) - popsKnown < Capacity
    /\ offered' = offered + 1
    /\ accepted' = Append(accepted, offered + 1)
    /\ UNCHANGED <<delivered, popsKnown, pushesKnown>>

(* A refused push may learn of pops in the same step it counts them in.   *)
Refuse ==
    /\ offered < MaxOffers
    /\ popsKnown' \in popsKnown .. Len(delivered)
    /\ Len(accepted) - popsKnown' = Capacity
    /\ offered' = offered + 1
    /\ UNCHANGED <<accepted, delivered, pushesKnown>>

Deliver ==
    /\ Len(delivered) < pushesKnown
    /\ delivered' = Append(delivered, accepted[Len(delivered) + 1])
    /\ UNCHANGED <<offered, accepted, popsKnown, pushesKnown>>

LearnPops ==
    /\ popsKnown' \in popsKnown .. Len(delivered)
    /\ UNCHANGED <<offered, accepted, delivered, pushesKnown>>

LearnPushes ==
    /\ pushesKnown' \in pushesKnown .. Len(accepted)
    /\ UNCHANGED <<offered, accepted, delivered, popsKnown>>

Next == Accept \/ Refuse \/ Deliver \/ LearnPops \/ LearnPushes

Spec == Init /\ [][Next]_vars
=============================================================================
