------------------------------ MODULE SpscRing ------------------------------
(***************************************************************************)
(* The lock-free ring of cpp/include/etfmm/ring.hpp, one step per access   *)
(* to shared memory.  A WebSocket thread calls try_push, the tape writer   *)
(* calls try_pop and approx_size.                                          *)
(*                                                                         *)
(* The two counters are C++ atomics.  Each is its modification order: the  *)
(* sequence of the messages stored so far.  A load may return any message  *)
(* that is not older than the one the same thread read last (coherence);   *)
(* a release store carries the number of slot accesses its thread made     *)
(* before it, and the acquire load that reads it learns that number.  The  *)
(* slots themselves are plain memory: an access that does not happen after *)
(* the other thread's last access to the slot is a data race.              *)
(*                                                                         *)
(* Counters are unsigned and wrap at W, which stands for 2^64.             *)
(***************************************************************************)
EXTENDS Integers, Sequences

CONSTANTS
    Capacity,   \* number of slots
    Laps,       \* a counter wraps after Laps trips round the ring
    MaxOffers   \* bound on the number of try_push calls

(* Capacity divides the range of the counters, as a power of two divides   *)
(* 2^64, and the range holds more than one trip round the ring.            *)
ASSUME RingAssumption ==
    /\ Capacity \in Nat \ {0}
    /\ Laps \in Nat \ {0, 1}
    /\ MaxOffers \in Nat

W == Capacity * Laps

Empty == 0              \* a default-constructed or moved-from T
Items == 1 .. MaxOffers \* the n-th try_push call offers item n

(* Mutant of Wrap: counters that never wrap.                               *)
WrapNever(n) == n
Wrap(n) == n % W
Slot(counter) == counter % Capacity     \* counter & kMask
Messages == [val : 0 .. W - 1, slotOps : Nat]

VARIABLES
    head,       \* modification order of head_
    tail,       \* modification order of tail_
    slots,      \* slots_
    ppc,        \* where the producer is in try_push
    pushHead,   \* try_push's local head
    tailSeen,   \* index in tail of the last message the producer read
    writes,     \* slot writes the producer has made
    cpc,        \* where the consumer is in try_pop
    popTail,    \* try_pop's local tail
    headSeen,   \* index in head of the last message the consumer read
    reads,      \* slot reads the consumer has made
    out,        \* try_pop's out parameter
    approx,     \* result of the consumer's last approx_size
    offered,    \* number of try_push calls begun
    accepted,   \* items whose try_push returned true
    delivered   \* items whose try_pop returned true

producerVars == <<ppc, pushHead, tailSeen, writes, offered, accepted>>
consumerVars == <<cpc, popTail, headSeen, reads, out, approx, delivered>>
vars == <<head, tail, slots, producerVars, consumerVars>>

Init ==
    /\ head = << [val |-> 0, slotOps |-> 0] >>
    /\ tail = << [val |-> 0, slotOps |-> 0] >>
    /\ slots = [i \in 0 .. Capacity - 1 |-> Empty]
    /\ ppc = "idle" /\ pushHead = 0 /\ tailSeen = 1 /\ writes = 0
    /\ cpc = "idle" /\ popTail = 0 /\ headSeen = 1 /\ reads = 0
    /\ out = Empty /\ approx = 0
    /\ offered = 0 /\ accepted = <<>> /\ delivered = <<>>

-----------------------------------------------------------------------------
(* try_push.  The load of head_ is relaxed and of the thread's own counter,*)
(* so it returns the last message.                                         *)

PushLoadHead ==
    /\ ppc = "idle"
    /\ offered < MaxOffers
    /\ offered' = offered + 1
    /\ pushHead' = head[Len(head)].val
    /\ ppc' = "loadTail"
    /\ UNCHANGED <<head, tail, slots, tailSeen, writes, accepted, consumerVars>>

(* Mutants of IsFull: one slot too many, one slot too few.                 *)
IsFullLate(h, t) == Wrap(h - t) = Capacity + 1
IsFullEarly(h, t) == Wrap(h - t) = Capacity - 1
IsFull(h, t) == Wrap(h - t) = Capacity

PushLoadTail ==
    /\ ppc = "loadTail"
    /\ \E i \in tailSeen .. Len(tail) :
          /\ tailSeen' = i
          /\ ppc' = IF IsFull(pushHead, tail[i].val) THEN "idle" ELSE "write"
    /\ UNCHANGED <<head, tail, slots, pushHead, writes, offered, accepted, consumerVars>>

PushWriteSlot ==
    /\ ppc = "write"
    /\ slots' = [slots EXCEPT ![Slot(pushHead)] = offered]
    /\ writes' = writes + 1
    /\ ppc' = "publish"
    /\ UNCHANGED <<head, tail, pushHead, tailSeen, offered, accepted, consumerVars>>

PushPublish ==
    /\ ppc = "publish"
    /\ head' = Append(head, [val |-> Wrap(pushHead + 1), slotOps |-> writes])
    /\ accepted' = Append(accepted, offered)
    /\ ppc' = "idle"
    /\ UNCHANGED <<tail, slots, pushHead, tailSeen, writes, offered, consumerVars>>

Producer == PushLoadHead \/ PushLoadTail \/ PushWriteSlot \/ PushPublish

-----------------------------------------------------------------------------
(* try_pop, the mirror image.                                              *)

PopLoadTail ==
    /\ cpc = "idle"
    /\ popTail' = tail[Len(tail)].val
    /\ cpc' = "loadHead"
    /\ UNCHANGED <<head, tail, slots, headSeen, reads, out, approx, delivered, producerVars>>

(* Mutant of IsEmpty: the last item never comes out.                       *)
IsEmptyAtOne(h, t) == Wrap(h - t) <= 1
IsEmpty(h, t) == h = t

PopLoadHeadAt(i) ==
    /\ cpc = "loadHead"
    /\ headSeen' = i
    /\ cpc' = IF IsEmpty(head[i].val, popTail) THEN "idle" ELSE "read"
    /\ UNCHANGED <<head, tail, slots, popTail, reads, out, approx, delivered, producerVars>>

PopLoadHead == \E i \in headSeen .. Len(head) : PopLoadHeadAt(i)

PopReadSlot ==
    /\ cpc = "read"
    /\ out' = slots[Slot(popTail)]
    /\ slots' = [slots EXCEPT ![Slot(popTail)] = Empty]
    /\ reads' = reads + 1
    /\ cpc' = "publish"
    /\ UNCHANGED <<head, tail, popTail, headSeen, approx, delivered, producerVars>>

PopPublish ==
    /\ cpc = "publish"
    /\ tail' = Append(tail, [val |-> Wrap(popTail + 1), slotOps |-> reads])
    /\ delivered' = Append(delivered, out)
    /\ cpc' = "idle"
    /\ UNCHANGED <<head, slots, popTail, headSeen, reads, out, approx, producerVars>>

(* Mutant of Occupancy: the difference the wrong way round.                *)
OccupancySwapped(h, t) == Wrap(t - h)
Occupancy(h, t) == Wrap(h - t)

(* approx_size, called by the consumer between two pops: tail_ is its own  *)
(* counter, so nothing can move between the two loads that matters.        *)
ApproxSize ==
    /\ cpc = "idle"
    /\ \E i \in headSeen .. Len(head) :
          /\ headSeen' = i
          /\ approx' = Occupancy(head[i].val, tail[Len(tail)].val)
    /\ UNCHANGED <<head, tail, slots, cpc, popTail, reads, out, delivered, producerVars>>

Consumer == PopLoadTail \/ PopLoadHead \/ PopReadSlot \/ PopPublish \/ ApproxSize

Next == Producer \/ Consumer

Spec == Init /\ [][Next]_vars

(* The threads keep running, the consumer keeps polling (the writer's      *)
(* loop), and a store becomes visible in finite time ([intro.progress] of  *)
(* the C++ standard): a consumer that loads head_ again and again some day *)
(* reads its last message.                                                 *)
PopLoadLastHead == PopLoadHeadAt(Len(head))
FairSpec ==
    /\ Spec
    /\ WF_vars(PushLoadTail \/ PushWriteSlot \/ PushPublish)
    /\ WF_vars(PopLoadTail) /\ WF_vars(PopLoadHead)
    /\ WF_vars(PopReadSlot \/ PopPublish)
    /\ SF_vars(PopLoadLastHead)

-----------------------------------------------------------------------------
(* The types of the variables.                                             *)
TypeOK ==
    /\ head \in Seq(Messages) /\ head # <<>>
    /\ tail \in Seq(Messages) /\ tail # <<>>
    /\ slots \in [0 .. Capacity - 1 -> Items \cup {Empty}]
    /\ ppc \in {"idle", "loadTail", "write", "publish"}
    /\ cpc \in {"idle", "loadHead", "read", "publish"}
    /\ pushHead \in 0 .. W - 1 /\ popTail \in 0 .. W - 1
    /\ tailSeen \in 1 .. Len(tail) /\ headSeen \in 1 .. Len(head)
    /\ writes \in Nat /\ reads \in Nat
    /\ out \in Items \cup {Empty}
    /\ approx \in 0 .. W - 1
    /\ offered \in 0 .. MaxOffers
    /\ accepted \in Seq(Items) /\ delivered \in Seq(Items \cup {Empty})

(* Slots are plain memory and try_push and try_pop touch them with no      *)
(* lock: the producer overwrites a slot only once the consumer's read of   *)
(* its previous item happened before, and the consumer reads a slot only   *)
(* once the write of its item happened before.                             *)
NoDataRace ==
    /\ ppc = "write" => writes - Capacity < tail[tailSeen].slotOps
    /\ cpc = "read" => reads < head[headSeen].slotOps

(* The consumer gets the accepted items in order: none lost, none twice,   *)
(* none that was never written, however the counters wrap and however old  *)
(* the counters the two threads read.                                      *)
InOrder ==
    /\ Len(delivered) <= Len(accepted)
    /\ \A i \in 1 .. Len(delivered) : delivered[i] = accepted[i]

(* The size the writer thread logs is between 0 and Capacity: the unsigned *)
(* subtraction of approx_size never underflows for the consumer.           *)
ApproxSizeInRange == approx \in 0 .. Capacity

(* The ring implements the abstract queue: a push decides when it reads    *)
(* tail_ (refused) or stores head_ (accepted), a pop when it stores tail_. *)
Queue == INSTANCE BoundedQueue WITH
    offered <- IF ppc = "idle" THEN offered ELSE offered - 1,
    popsKnown <- tailSeen - 1,
    pushesKnown <- headSeen - 1
ImplementsQueue == Queue!Spec

(* An accepted item is eventually delivered: try_pop does not keep finding *)
(* nothing while the ring holds something.                                 *)
AcceptedIsDelivered ==
    \A n \in 1 .. MaxOffers : Len(accepted) >= n ~> Len(delivered) >= n
=============================================================================
