--------------------------- MODULE SpscRingProofs ---------------------------
(***************************************************************************)
(* Theorems about the ring for every capacity, every counter width that is *)
(* a proper multiple of it and every number of pushes: type correctness,   *)
(* absence of data races, first-in-first-out delivery without loss, a size *)
(* that never underflows, and refinement of the abstract BoundedQueue.     *)
(*                                                                         *)
(* All rest on one invariant, RingInv, in which the unwrapped numbers of   *)
(* pushes and pops take the place of the wrapping counters.                *)
(***************************************************************************)
EXTENDS SpscRing, ProofLemmas

(* The counters' range holds more than one trip round the ring.            *)
LEMMA CounterRange == W \in Nat \ {0} /\ Capacity < W /\ Capacity \in Nat \ {0}
<1>1. Capacity \in Nat \ {0} /\ Laps \in Nat /\ Laps >= 2
  BY RingAssumption
<1>2. Capacity * Laps \in Nat /\ Capacity * Laps >= Capacity * 2
  BY <1>1
<1> QED BY <1>1, <1>2 DEF W

(* A wrapped counter is in range, and its successor wraps to the wrapped   *)
(* successor.                                                              *)
LEMMA WrapFacts ==
    ASSUME NEW n \in Nat
    PROVE  Wrap(n) \in 0 .. W - 1 /\ Wrap(Wrap(n) + 1) = Wrap(n + 1)
<1>1. n \in Int
  OBVIOUS
<1>2. n % W \in 0 .. W - 1
  BY <1>1, CounterRange, DivMod
<1>3. ((n % W) + 1) % W = (n + 1) % W
  BY <1>1, CounterRange, ModSuccessor
<1> QED BY <1>2, <1>3 DEF Wrap

(* Masking a wrapped counter gives the slot of the unwrapped one.          *)
LEMMA SlotOfWrap ==
    ASSUME NEW n \in Nat
    PROVE  Slot(Wrap(n)) = Slot(n) /\ Slot(n) \in 0 .. Capacity - 1
<1>1. n \in Int /\ Laps \in Nat \ {0} /\ Capacity \in Nat \ {0} /\ W \in Nat \ {0}
  BY RingAssumption, CounterRange
<1>2. W = Capacity * Laps
  BY DEF W
<1>3. (n % W) % Capacity = n % Capacity
  BY <1>1, <1>2, ModMod
<1>4. n % Capacity \in 0 .. Capacity - 1
  BY <1>1, DivMod
<1> QED BY <1>3, <1>4 DEF Slot, Wrap

(* Fewer than Capacity apart, two counts use different slots.              *)
LEMMA SlotsDistinct ==
    ASSUME NEW m \in Nat, NEW n \in Nat, m < n, n < m + Capacity
    PROVE  Slot(m) # Slot(n)
<1>1. m \in Int /\ n \in Int /\ Capacity \in Nat \ {0}
  BY CounterRange
<1>2. m % Capacity # n % Capacity
  BY <1>1, ModNear
<1> QED BY <1>2 DEF Slot

(* The full and the empty test see through the wrap.                       *)
LEMMA Distance ==
    ASSUME NEW h \in Nat, NEW t \in Nat, t <= h, h <= t + Capacity
    PROVE  Wrap(Wrap(h) - Wrap(t)) = h - t
<1>1. h \in Int /\ t \in Int /\ W \in Nat \ {0} /\ h < t + W
  BY CounterRange
<1>2. ((h % W) - (t % W)) % W = h - t
  BY <1>1, ModDifference
<1> QED BY <1>2 DEF Wrap

(* Two wrapped counters that are at most Capacity apart are equal only if  *)
(* the counts are: the empty test is exact.                                *)
LEMMA EmptyTest ==
    ASSUME NEW h \in Nat, NEW t \in Nat, t <= h, h <= t + Capacity
    PROVE  IsEmpty(Wrap(h), Wrap(t)) <=> h = t
<1>1. h \in Int /\ t \in Int /\ W \in Nat \ {0} /\ h < t + W
  BY CounterRange
<1>2. ASSUME t < h PROVE t % W # h % W
  BY <1>1, <1>2, ModNear
<1>3. h = t \/ t < h
  OBVIOUS
<1> QED BY <1>2, <1>3 DEF IsEmpty, Wrap

-----------------------------------------------------------------------------
(* The inductive invariant.  Pushes and pops count the published items;    *)
(* each message of a counter says how many it published and how many slot  *)
(* accesses came before it; what a thread has read of the other's counter  *)
(* bounds its own; and every item written and not yet read sits in its     *)
(* slot.  The properties alone are not inductive: they speak of the item   *)
(* at hand, while the argument needs all the items still in the slots.     *)
Pushes == Len(accepted)
Pops == Len(delivered)
Item(n) == IF n < Pushes THEN accepted[n + 1] ELSE offered

HeadInv ==
    /\ Len(head) = Pushes + 1
    /\ \A k \in 1 .. Len(head) : head[k] = [val |-> Wrap(k - 1), slotOps |-> k - 1]
    /\ writes = Pushes + (IF ppc = "publish" THEN 1 ELSE 0)
    /\ ppc # "idle" => pushHead = Wrap(Pushes) /\ offered \in Items

TailInv ==
    /\ Len(tail) = Pops + 1
    /\ \A k \in 1 .. Len(tail) : tail[k] = [val |-> Wrap(k - 1), slotOps |-> k - 1]
    /\ reads = Pops + (IF cpc = "publish" THEN 1 ELSE 0)
    /\ cpc # "idle" => popTail = Wrap(Pops)

KnowledgeInv ==
    /\ Pops <= headSeen - 1
    /\ cpc \in {"read", "publish"} => Pops < headSeen - 1
    /\ Pushes <= (tailSeen - 1) + Capacity
    /\ ppc \in {"write", "publish"} => Pushes < (tailSeen - 1) + Capacity

SlotInv ==
    /\ \A n \in reads .. writes - 1 : slots[Slot(n)] = Item(n)
    /\ cpc = "publish" => out = accepted[Pops + 1]

RingInv ==
    /\ TypeOK /\ HeadInv /\ TailInv /\ KnowledgeInv /\ SlotInv
    /\ InOrder /\ ApproxSizeInRange

(* An empty ring satisfies the invariant.                                  *)
LEMMA InitRingInv == Init => RingInv
<1> SUFFICES ASSUME Init PROVE RingInv
  OBVIOUS
<1>1. Wrap(0) = 0 /\ 0 \in 0 .. W - 1
  <2>1. 0 % W = 0
    BY CounterRange, ModIs
  <2> QED BY <2>1, CounterRange DEF Wrap
<1>2. TypeOK
  <2>1. [val |-> 0, slotOps |-> 0] \in Messages
    BY <1>1 DEF Messages
  <2>2. head \in Seq(Messages) /\ head # <<>> /\ tail \in Seq(Messages) /\ tail # <<>>
        /\ Len(head) = 1 /\ Len(tail) = 1
    BY <2>1 DEF Init
  <2>3. slots \in [0 .. Capacity - 1 -> Items \cup {Empty}]
    BY DEF Init
  <2>4. offered \in 0 .. MaxOffers
    BY RingAssumption DEF Init
  <2> QED BY <1>1, <2>2, <2>3, <2>4 DEF Init, TypeOK
<1>3. HeadInv
  BY <1>1 DEF Init, HeadInv, Pushes
<1>4. TailInv
  BY <1>1 DEF Init, TailInv, Pops
<1>5. KnowledgeInv
  BY CounterRange DEF Init, KnowledgeInv, Pushes, Pops
<1>6. SlotInv /\ InOrder /\ ApproxSizeInRange
  BY CounterRange DEF Init, SlotInv, InOrder, ApproxSizeInRange
<1> QED BY <1>2, <1>3, <1>4, <1>5, <1>6 DEF RingInv

(* What the invariant says about the distances between the counters: the   *)
(* consumer knows no more pushes than there are, the producer no more pops.*)
LEMMA Bounds ==
    ASSUME RingInv
    PROVE  /\ Pushes \in Nat /\ Pops \in Nat
           /\ headSeen \in Nat \ {0} /\ tailSeen \in Nat \ {0}
           /\ headSeen - 1 <= Pushes /\ tailSeen - 1 <= Pops
           /\ Pops <= headSeen - 1 /\ Pushes <= (tailSeen - 1) + Capacity
           /\ offered \in Nat /\ writes \in Nat /\ reads \in Nat
           /\ Pops <= reads /\ reads <= Pops + 1
<1>1. Pushes \in Nat /\ Pops \in Nat
  BY DEF RingInv, TypeOK, Pushes, Pops
<1>2. Len(head) = Pushes + 1 /\ Len(tail) = Pops + 1
  BY DEF RingInv, HeadInv, TailInv
<1>3. headSeen \in 1 .. Len(head) /\ tailSeen \in 1 .. Len(tail)
  BY DEF RingInv, TypeOK
<1>4. offered \in Nat /\ writes \in Nat /\ reads \in Nat
  BY DEF RingInv, TypeOK
<1>5. Pops <= reads /\ reads <= Pops + 1
  BY <1>1 DEF RingInv, TailInv
<1> QED BY <1>1, <1>2, <1>3, <1>4, <1>5 DEF RingInv, KnowledgeInv

(* What a load of the other thread's counter returns.                      *)
LEMMA HeadMessage ==
    ASSUME RingInv, NEW k \in 1 .. Len(head)
    PROVE  head[k].val = Wrap(k - 1) /\ head[k].slotOps = k - 1
BY DEF RingInv, HeadInv

(* The mirror image for tail_.                                             *)
LEMMA TailMessage ==
    ASSUME RingInv, NEW k \in 1 .. Len(tail)
    PROVE  tail[k].val = Wrap(k - 1) /\ tail[k].slotOps = k - 1
BY DEF RingInv, TailInv

-----------------------------------------------------------------------------
(* The relaxed load of head_ returns the wrapped number of pushes.         *)
LEMMA PushLoadHeadInv ==
    ASSUME RingInv, PushLoadHead PROVE RingInv'
<1>1. Len(head) \in 1 .. Len(head) /\ Len(head) - 1 = Pushes
  BY Bounds DEF RingInv, HeadInv
<1>2. pushHead' = Wrap(Pushes)
  BY <1>1, HeadMessage DEF PushLoadHead
<1>3. pushHead' \in 0 .. W - 1
  BY <1>2, Bounds, WrapFacts
<1>4. offered' \in Items /\ offered' \in 0 .. MaxOffers
  BY RingAssumption DEF PushLoadHead, RingInv, TypeOK, Items
<1>5. TypeOK'
  BY <1>3, <1>4 DEF PushLoadHead, RingInv, TypeOK, consumerVars
<1>6. HeadInv'
  BY <1>2, <1>4 DEF PushLoadHead, RingInv, HeadInv, Pushes
<1>7. TailInv' /\ KnowledgeInv' /\ InOrder' /\ ApproxSizeInRange'
  BY DEF PushLoadHead, RingInv, TailInv, KnowledgeInv, InOrder, ApproxSizeInRange,
         consumerVars, Pushes, Pops
<1>8. SlotInv'
  <2>1. writes = Pushes
    BY Bounds DEF PushLoadHead, RingInv, HeadInv
  <2>2. \A n \in reads .. writes - 1 : Item(n)' = Item(n)
    BY <2>1, Bounds DEF PushLoadHead, Item, Pushes
  <2> QED BY <2>2 DEF PushLoadHead, RingInv, SlotInv, consumerVars, Pops
<1> QED BY <1>5, <1>6, <1>7, <1>8 DEF RingInv

(* Whatever message of tail_ the producer reads, the full test measures    *)
(* the distance between its own pushes and the pops that message counts.   *)
LEMMA PushLoadTailFacts ==
    ASSUME RingInv, ppc = "loadTail", NEW i \in tailSeen .. Len(tail)
    PROVE  /\ i \in 1 .. Len(tail) /\ i - 1 \in Nat /\ i - 1 <= Pops /\ tailSeen <= i
           /\ i - 1 <= Pushes /\ Pushes <= (i - 1) + Capacity
           /\ IsFull(pushHead, tail[i].val) <=> Pushes - (i - 1) = Capacity
<1>1. i \in 1 .. Len(tail) /\ i - 1 \in Nat /\ i - 1 <= Pops /\ tailSeen <= i
  BY Bounds DEF RingInv, TailInv
<1>2. i - 1 <= Pushes /\ Pushes <= (i - 1) + Capacity
  BY <1>1, Bounds, CounterRange
<1>3. pushHead = Wrap(Pushes) /\ tail[i].val = Wrap(i - 1)
  BY <1>1, TailMessage DEF RingInv, HeadInv
<1>4. Wrap(Wrap(Pushes) - Wrap(i - 1)) = Pushes - (i - 1)
  <2> DEFINE h == Pushes
  <2> DEFINE t == i - 1
  <2>1. h \in Nat /\ t \in Nat /\ t <= h /\ h <= t + Capacity
    BY <1>1, <1>2, Bounds
  <2> HIDE DEF h, t
  <2>2. Wrap(Wrap(h) - Wrap(t)) = h - t
    BY <2>1, Distance
  <2> QED BY <2>2 DEF h, t
<1>5. IsFull(pushHead, tail[i].val) <=> Wrap(Wrap(Pushes) - Wrap(i - 1)) = Capacity
  BY <1>3, Zenon DEF IsFull
<1>6. IsFull(pushHead, tail[i].val) <=> Pushes - (i - 1) = Capacity
  BY <1>4, <1>5, Zenon
<1> QED BY <1>1, <1>2, <1>6, Zenon

(* The full test on whatever message the producer reads: not full means    *)
(* that there is room beyond the pops the producer knows of.               *)
LEMMA PushLoadTailInv ==
    ASSUME RingInv, PushLoadTail PROVE RingInv'
<1>1. PICK i \in tailSeen .. Len(tail) :
          /\ tailSeen' = i
          /\ ppc' = IF IsFull(pushHead, tail[i].val) THEN "idle" ELSE "write"
  BY DEF PushLoadTail
<1>2. i \in 1 .. Len(tail) /\ i - 1 \in Nat /\ i - 1 <= Pops /\ tailSeen <= i
  BY PushLoadTailFacts DEF PushLoadTail
<1>3. i - 1 <= Pushes /\ Pushes <= (i - 1) + Capacity
  BY PushLoadTailFacts DEF PushLoadTail
<1>5. IsFull(pushHead, tail[i].val) <=> Pushes - (i - 1) = Capacity
  BY PushLoadTailFacts DEF PushLoadTail
<1>6. ppc' = "write" => Pushes < (i - 1) + Capacity
  BY SMTT(30), <1>1, <1>2, <1>3, <1>5, Bounds, CounterRange
<1>7. ppc' \in {"idle", "write"}
  BY <1>1
<1>8. TypeOK'
  BY <1>1, <1>2, <1>7 DEF PushLoadTail, RingInv, TypeOK, consumerVars
<1>9. HeadInv'
  BY <1>7 DEF PushLoadTail, RingInv, HeadInv, Pushes
<1>10. KnowledgeInv'
  BY <1>1, <1>3, <1>6, <1>7 DEF PushLoadTail, RingInv, KnowledgeInv, consumerVars, Pushes, Pops
<1>11. TailInv' /\ SlotInv' /\ InOrder' /\ ApproxSizeInRange'
  BY DEF PushLoadTail, RingInv, TailInv, SlotInv, InOrder, ApproxSizeInRange,
         consumerVars, Pushes, Pops, Item
<1> QED BY <1>8, <1>9, <1>10, <1>11 DEF RingInv

(* The slot written is none of those that hold an item not yet read.       *)
LEMMA PushWriteSlotInv ==
    ASSUME RingInv, PushWriteSlot PROVE RingInv'
<1>1. /\ ppc = "write" /\ writes = Pushes /\ pushHead = Wrap(Pushes)
      /\ offered \in Items /\ Pushes < (tailSeen - 1) + Capacity
  BY Bounds DEF PushWriteSlot, RingInv, HeadInv, KnowledgeInv
<1>2. Slot(pushHead) = Slot(Pushes) /\ Slot(Pushes) \in 0 .. Capacity - 1
  BY <1>1, Bounds, SlotOfWrap
<1>3. slots' = [slots EXCEPT ![Slot(Pushes)] = offered]
  BY <1>2 DEF PushWriteSlot
<1>4. slots \in [0 .. Capacity - 1 -> Items \cup {Empty}]
  BY DEF RingInv, TypeOK
<1>5. slots' \in [0 .. Capacity - 1 -> Items \cup {Empty}]
  BY <1>1, <1>2, <1>3, <1>4
<1>6. TypeOK'
  BY <1>5, Bounds DEF PushWriteSlot, RingInv, TypeOK, consumerVars
<1>7. HeadInv' /\ TailInv' /\ InOrder' /\ ApproxSizeInRange'
  BY SMTT(30), Bounds DEF PushWriteSlot, RingInv, HeadInv, TailInv, InOrder, ApproxSizeInRange,
         consumerVars, Pushes, Pops
<1>8. KnowledgeInv'
  BY <1>1 DEF PushWriteSlot, RingInv, KnowledgeInv, consumerVars, Pushes, Pops
<1>9. SlotInv'
  <2>1. ASSUME NEW n \in reads .. writes PROVE slots'[Slot(n)] = Item(n)
    <3>1. n \in Nat /\ Pops <= n /\ n <= Pushes
      BY <1>1, Bounds
    <3>2. CASE n = Pushes
      BY <1>2, <1>3, <1>4, <3>2, Bounds DEF Item
    <3>3. CASE n < Pushes
      <4>1. Pushes < n + Capacity
        BY <1>1, <3>1, Bounds, CounterRange
      <4>2. Slot(n) # Slot(Pushes)
        BY <3>1, <3>3, <4>1, Bounds, SlotsDistinct
      <4>3. Slot(n) \in 0 .. Capacity - 1
        BY <3>1, SlotOfWrap
      <4>4. slots[Slot(n)] = Item(n)
        BY <1>1, <3>3, Bounds DEF RingInv, SlotInv
      <4> QED BY <1>2, <1>3, <1>4, <4>2, <4>3, <4>4
    <3> QED BY <3>1, <3>2, <3>3, Bounds
  <2>2. reads' = reads /\ writes' - 1 = writes
    BY Bounds DEF PushWriteSlot, consumerVars
  <2>3. \A n : Item(n)' = Item(n)
    BY DEF PushWriteSlot, Item, Pushes
  <2>4. \A n \in (reads .. writes - 1)' : (slots[Slot(n)] = Item(n))'
    BY <2>1, <2>2, <2>3
  <2>5. (cpc = "publish" => out = accepted[Pops + 1])'
    BY DEF PushWriteSlot, RingInv, SlotInv, consumerVars, Pops
  <2> QED BY <2>4, <2>5 DEF SlotInv
<1> QED BY <1>6, <1>7, <1>8, <1>9 DEF RingInv

(* The release store publishes the item written: the message it appends    *)
(* counts this push and carries its slot write.                            *)
LEMMA PushPublishInv ==
    ASSUME RingInv, PushPublish PROVE RingInv'
<1> DEFINE m == [val |-> Wrap(pushHead + 1), slotOps |-> writes]
<1>1. /\ ppc = "publish" /\ writes = Pushes + 1 /\ pushHead = Wrap(Pushes)
      /\ offered \in Items /\ Len(head) = Pushes + 1
      /\ Pushes < (tailSeen - 1) + Capacity
  BY Bounds DEF PushPublish, RingInv, HeadInv, KnowledgeInv
<1>2. Wrap(pushHead + 1) = Wrap(Pushes + 1) /\ Wrap(Pushes + 1) \in 0 .. W - 1
  BY <1>1, Bounds, WrapFacts
<1>3. m = [val |-> Wrap((Pushes + 2) - 1), slotOps |-> (Pushes + 2) - 1]
  <2>1. (Pushes + 2) - 1 = Pushes + 1
    BY Bounds
  <2> QED BY <1>1, <1>2, <2>1
<1>4. m \in Messages
  BY <1>1, <1>2, Bounds DEF Messages
<1> HIDE DEF m
<1>5. head \in Seq(Messages) /\ accepted \in Seq(Items) /\ head' = Append(head, m)
      /\ accepted' = Append(accepted, offered)
  BY DEF PushPublish, RingInv, TypeOK, m
<1>6. /\ head' \in Seq(Messages) /\ head' # <<>> /\ Len(head') = Len(head) + 1
      /\ \A k \in 1 .. Len(head) : head'[k] = head[k]
      /\ head'[Len(head) + 1] = m
  BY <1>4, <1>5
<1>7. /\ accepted' \in Seq(Items) /\ Pushes' = Pushes + 1
      /\ \A k \in 1 .. Pushes : accepted'[k] = accepted[k]
      /\ accepted'[Pushes + 1] = offered
  BY <1>1, <1>5 DEF Pushes
<1>8. TypeOK'
  <2>1. headSeen' \in 1 .. Len(head')
    BY <1>6, Bounds DEF PushPublish, RingInv, TypeOK, consumerVars
  <2> QED BY <1>6, <1>7, <2>1 DEF PushPublish, RingInv, TypeOK, consumerVars
<1>9. HeadInv'
  <2>1. Len(head') = Pushes' + 1
    BY <1>1, <1>6, <1>7, Bounds
  <2>2. ASSUME NEW k \in 1 .. Len(head')
        PROVE  head'[k] = [val |-> Wrap(k - 1), slotOps |-> k - 1]
    <3>1. CASE k \in 1 .. Len(head)
      BY <1>6, <3>1 DEF RingInv, HeadInv
    <3>2. CASE k = Pushes + 2
      <4>1. head'[k] = m
        BY SMTT(30), <1>1, <1>6, <3>2, Bounds
      <4> QED BY <1>3, <3>2, <4>1
    <3> QED BY SMTT(30), <1>1, <1>6, <3>1, <3>2, Bounds
  <2>3. writes' = Pushes' /\ ppc' = "idle"
    BY <1>1, <1>7 DEF PushPublish
  <2>4. writes' = Pushes' + 0
    BY <1>7, <2>3, Bounds
  <2>5. \A k \in 1 .. Len(head') : (head[k] = [val |-> Wrap(k - 1), slotOps |-> k - 1])'
    BY <2>2
  <2> QED BY <2>1, <2>3, <2>4, <2>5 DEF HeadInv
<1>10. TailInv' /\ ApproxSizeInRange'
  BY DEF PushPublish, RingInv, TailInv, ApproxSizeInRange, consumerVars, Pops
<1>11. KnowledgeInv'
  <2>1. Pushes' <= (tailSeen - 1) + Capacity
    BY <1>1, <1>7, Bounds, CounterRange
  <2>2. ppc' = "idle" /\ tailSeen' = tailSeen
    BY DEF PushPublish
  <2> QED BY <2>1, <2>2 DEF PushPublish, RingInv, KnowledgeInv, consumerVars, Pops
<1>12. InOrder'
  BY <1>7, Bounds DEF PushPublish, RingInv, InOrder, consumerVars, Pushes, Pops
<1>13. SlotInv'
  <2>1. ASSUME NEW n \in reads .. writes - 1 PROVE slots[Slot(n)] = accepted'[n + 1]
    <3>1. n \in Nat /\ Pops <= n /\ n <= Pushes
      BY <1>1, Bounds
    <3>2. slots[Slot(n)] = Item(n)
      BY DEF RingInv, SlotInv
    <3>3. CASE n < Pushes
      BY <1>7, <3>1, <3>2, <3>3, Bounds DEF Item
    <3>4. CASE n = Pushes
      BY <1>7, <3>2, <3>4, Bounds DEF Item
    <3> QED BY <3>1, <3>3, <3>4, Bounds
  <2>2. ASSUME NEW n \in reads .. writes - 1 PROVE Item(n)' = accepted'[n + 1]
    BY <1>1, <1>7, Bounds DEF Item
  <2>3. reads' = reads /\ writes' = writes /\ slots' = slots
    BY DEF PushPublish, consumerVars
  <2>4. \A n \in (reads .. writes - 1)' : (slots[Slot(n)] = Item(n))'
    BY <2>1, <2>2, <2>3
  <2>5. cpc = "publish" => Pops + 1 \in 1 .. Pushes
    BY Bounds DEF RingInv, KnowledgeInv
  <2>6. (cpc = "publish" => out = accepted[Pops + 1])'
    BY <1>7, <2>5 DEF PushPublish, RingInv, SlotInv, consumerVars, Pops
  <2> QED BY <2>4, <2>6 DEF SlotInv
<1> QED BY <1>8, <1>9, <1>10, <1>11, <1>12, <1>13 DEF RingInv

-----------------------------------------------------------------------------
(* The relaxed load of tail_ returns the wrapped number of pops.           *)
LEMMA PopLoadTailInv ==
    ASSUME RingInv, PopLoadTail PROVE RingInv'
<1>1. Len(tail) \in 1 .. Len(tail) /\ Len(tail) - 1 = Pops
  BY Bounds DEF RingInv, TailInv
<1>2. popTail' = Wrap(Pops)
  BY <1>1, TailMessage DEF PopLoadTail
<1>3. popTail' \in 0 .. W - 1
  BY <1>2, Bounds, WrapFacts
<1>4. TypeOK'
  BY <1>3 DEF PopLoadTail, RingInv, TypeOK, producerVars
<1>5. TailInv'
  BY <1>2 DEF PopLoadTail, RingInv, TailInv, Pops
<1>6. HeadInv' /\ KnowledgeInv' /\ InOrder' /\ ApproxSizeInRange'
  BY DEF PopLoadTail, RingInv, HeadInv, KnowledgeInv, InOrder, ApproxSizeInRange,
         producerVars, Pushes, Pops
<1>7. SlotInv'
  BY DEF PopLoadTail, RingInv, SlotInv, producerVars, Pushes, Pops, Item
<1> QED BY <1>4, <1>5, <1>6, <1>7 DEF RingInv

(* The empty test on whatever message the consumer reads: not empty means  *)
(* that it knows of a push beyond its pops.                                *)
LEMMA PopLoadHeadInv ==
    ASSUME RingInv, PopLoadHead PROVE RingInv'
<1>1. PICK i \in headSeen .. Len(head) :
          /\ headSeen' = i
          /\ cpc' = IF IsEmpty(head[i].val, popTail) THEN "idle" ELSE "read"
  BY DEF PopLoadHead, PopLoadHeadAt
<1>2. i \in 1 .. Len(head) /\ i - 1 \in Nat /\ i - 1 <= Pushes /\ headSeen <= i
  BY SMTT(30), Bounds DEF RingInv, HeadInv
<1>3. Pops <= i - 1 /\ i - 1 <= Pops + Capacity
  BY SMTT(30), <1>2, Bounds, CounterRange
<1>4. popTail = Wrap(Pops) /\ head[i].val = Wrap(i - 1)
  BY <1>2, HeadMessage DEF RingInv, TailInv, PopLoadHead, PopLoadHeadAt
<1>5. IsEmpty(head[i].val, popTail) <=> i - 1 = Pops
  BY <1>2, <1>3, <1>4, Bounds, EmptyTest
<1>6. cpc' = "read" => Pops < i - 1
  BY <1>1, <1>2, <1>3, <1>5, Bounds
<1>7. cpc' \in {"idle", "read"}
  BY <1>1
<1>8. TypeOK'
  BY <1>1, <1>2, <1>7 DEF PopLoadHead, PopLoadHeadAt, RingInv, TypeOK, producerVars
<1>9. TailInv'
  BY <1>7 DEF PopLoadHead, PopLoadHeadAt, RingInv, TailInv, Pops
<1>10. KnowledgeInv'
  BY <1>1, <1>3, <1>6, <1>7
     DEF PopLoadHead, PopLoadHeadAt, RingInv, KnowledgeInv, producerVars, Pushes, Pops
<1>11. HeadInv' /\ InOrder' /\ ApproxSizeInRange'
  BY DEF PopLoadHead, PopLoadHeadAt, RingInv, HeadInv, InOrder, ApproxSizeInRange,
         producerVars, Pushes, Pops
<1>12. SlotInv'
  BY <1>7 DEF PopLoadHead, PopLoadHeadAt, RingInv, SlotInv, producerVars, Pushes, Pops, Item
<1> QED BY <1>8, <1>9, <1>10, <1>11, <1>12 DEF RingInv

(* The slot emptied is none of those that hold a later item.               *)
LEMMA PopReadSlotInv ==
    ASSUME RingInv, PopReadSlot PROVE RingInv'
<1>1. /\ cpc = "read" /\ reads = Pops /\ popTail = Wrap(Pops)
      /\ Pops < headSeen - 1 /\ Pops < Pushes
  BY Bounds DEF PopReadSlot, RingInv, TailInv, KnowledgeInv
<1>2. /\ Pushes <= writes
      /\ ppc = "publish" => writes = Pushes + 1 /\ Pushes < Pops + Capacity
      /\ ppc # "publish" => writes = Pushes /\ Pushes <= Pops + Capacity
  <2>1. CASE ppc = "publish"
    <3>1. writes = Pushes + 1
      BY <2>1 DEF RingInv, HeadInv
    <3>2. Pushes < (tailSeen - 1) + Capacity
      BY <2>1 DEF RingInv, KnowledgeInv
    <3> QED BY <2>1, <3>1, <3>2, Bounds, CounterRange
  <2>2. CASE ppc # "publish"
    <3>1. writes = Pushes
      BY <2>2, Bounds DEF RingInv, HeadInv
    <3> QED BY <2>2, <3>1, Bounds, CounterRange
  <2> QED BY <2>1, <2>2
<1>3. Slot(popTail) = Slot(Pops) /\ Slot(Pops) \in 0 .. Capacity - 1
  BY <1>1, Bounds, SlotOfWrap
<1>4. slots' = [slots EXCEPT ![Slot(Pops)] = Empty] /\ out' = slots[Slot(Pops)]
  BY <1>3 DEF PopReadSlot
<1>5. slots \in [0 .. Capacity - 1 -> Items \cup {Empty}]
  BY DEF RingInv, TypeOK
<1>6. slots' \in [0 .. Capacity - 1 -> Items \cup {Empty}] /\ out' \in Items \cup {Empty}
  BY <1>3, <1>4, <1>5
<1>7. TypeOK'
  BY <1>6, Bounds DEF PopReadSlot, RingInv, TypeOK, producerVars
<1>8. HeadInv' /\ InOrder' /\ ApproxSizeInRange'
  BY DEF PopReadSlot, RingInv, HeadInv, InOrder, ApproxSizeInRange,
         producerVars, Pushes, Pops
<1>9. TailInv'
  <2>1. reads' = Pops + 1 /\ cpc' = "publish"
    BY <1>1 DEF PopReadSlot
  <2> QED BY <1>1, <2>1 DEF PopReadSlot, RingInv, TailInv, Pops
<1>10. KnowledgeInv'
  BY <1>1 DEF PopReadSlot, RingInv, KnowledgeInv, producerVars, Pushes, Pops
<1>11. SlotInv'
  <2>1. out' = accepted[Pops + 1]
    <3>1. Pops \in reads .. writes - 1
      BY <1>1, <1>2, Bounds
    <3>2. slots[Slot(Pops)] = Item(Pops)
      BY <3>1 DEF RingInv, SlotInv
    <3> QED BY <1>1, <1>4, <3>2 DEF Item
  <2>2. ASSUME NEW n \in reads + 1 .. writes - 1 PROVE slots'[Slot(n)] = Item(n)
    <3>1. n \in Nat /\ Pops < n /\ n < Pops + Capacity
      BY <1>1, <1>2, Bounds, CounterRange
    <3>2. Slot(Pops) # Slot(n) /\ Slot(n) \in 0 .. Capacity - 1
      BY <3>1, Bounds, SlotsDistinct, SlotOfWrap
    <3>3. slots[Slot(n)] = Item(n)
      BY <1>1, <3>1, Bounds DEF RingInv, SlotInv
    <3> QED BY <1>3, <1>4, <1>5, <3>2, <3>3
  <2>3. reads' = reads + 1 /\ writes' = writes
    BY DEF PopReadSlot, producerVars
  <2>4. \A n : Item(n)' = Item(n)
    BY DEF PopReadSlot, Item, Pushes, producerVars
  <2>5. \A n \in (reads .. writes - 1)' : (slots[Slot(n)] = Item(n))'
    BY <2>2, <2>3, <2>4
  <2>6. (cpc = "publish" => out = accepted[Pops + 1])'
    BY <2>1 DEF PopReadSlot, producerVars, Pops
  <2> QED BY <2>5, <2>6 DEF SlotInv
<1> QED BY <1>7, <1>8, <1>9, <1>10, <1>11 DEF RingInv

(* The release store frees the slot read: the message it appends counts    *)
(* this pop and carries its slot read.                                     *)
LEMMA PopPublishInv ==
    ASSUME RingInv, PopPublish PROVE RingInv'
<1> DEFINE m == [val |-> Wrap(popTail + 1), slotOps |-> reads]
<1>1. /\ cpc = "publish" /\ reads = Pops + 1 /\ popTail = Wrap(Pops)
      /\ Len(tail) = Pops + 1 /\ Pops < headSeen - 1
      /\ out = accepted[Pops + 1]
  BY Bounds DEF PopPublish, RingInv, TailInv, KnowledgeInv, SlotInv
<1>2. Wrap(popTail + 1) = Wrap(Pops + 1) /\ Wrap(Pops + 1) \in 0 .. W - 1
  BY <1>1, Bounds, WrapFacts
<1>3. m = [val |-> Wrap((Pops + 2) - 1), slotOps |-> (Pops + 2) - 1]
  <2>1. (Pops + 2) - 1 = Pops + 1
    BY Bounds
  <2> QED BY <1>1, <1>2, <2>1
<1>4. m \in Messages
  BY <1>1, <1>2, Bounds DEF Messages
<1> HIDE DEF m
<1>5. /\ tail \in Seq(Messages) /\ delivered \in Seq(Items \cup {Empty})
      /\ out \in Items \cup {Empty} /\ tail' = Append(tail, m)
      /\ delivered' = Append(delivered, out)
  BY DEF PopPublish, RingInv, TypeOK, m
<1>6. /\ tail' \in Seq(Messages) /\ tail' # <<>> /\ Len(tail') = Len(tail) + 1
      /\ \A k \in 1 .. Len(tail) : tail'[k] = tail[k]
      /\ tail'[Len(tail) + 1] = m
  BY <1>4, <1>5
<1>7. /\ delivered' \in Seq(Items \cup {Empty}) /\ Pops' = Pops + 1
      /\ \A k \in 1 .. Pops : delivered'[k] = delivered[k]
      /\ delivered'[Pops + 1] = out
  BY <1>5 DEF Pops
<1>8. TypeOK'
  <2>1. tailSeen' \in 1 .. Len(tail')
    BY <1>6, Bounds DEF PopPublish, RingInv, TypeOK, producerVars
  <2> QED BY <1>6, <1>7, <2>1 DEF PopPublish, RingInv, TypeOK, producerVars
<1>9. TailInv'
  <2>1. Len(tail') = Pops' + 1
    BY <1>1, <1>6, <1>7, Bounds
  <2>2. ASSUME NEW k \in 1 .. Len(tail')
        PROVE  tail'[k] = [val |-> Wrap(k - 1), slotOps |-> k - 1]
    <3>1. CASE k \in 1 .. Len(tail)
      BY <1>6, <3>1 DEF RingInv, TailInv
    <3>2. CASE k = Pops + 2
      <4>1. tail'[k] = m
        BY SMTT(30), <1>1, <1>6, <3>2, Bounds
      <4> QED BY <1>3, <3>2, <4>1
    <3> QED BY SMTT(30), <1>1, <1>6, <3>1, <3>2, Bounds
  <2>3. reads' = Pops' /\ cpc' = "idle"
    BY <1>1, <1>7 DEF PopPublish
  <2>4. reads' = Pops' + 0
    BY <1>7, <2>3, Bounds
  <2>5. \A k \in 1 .. Len(tail') : (tail[k] = [val |-> Wrap(k - 1), slotOps |-> k - 1])'
    BY <2>2
  <2> QED BY <2>1, <2>3, <2>4, <2>5 DEF TailInv
<1>10. HeadInv' /\ ApproxSizeInRange'
  BY DEF PopPublish, RingInv, HeadInv, ApproxSizeInRange, producerVars, Pushes
<1>11. KnowledgeInv'
  <2>1. Pops' <= headSeen - 1
    BY <1>1, <1>7, Bounds
  <2>2. cpc' = "idle" /\ headSeen' = headSeen
    BY DEF PopPublish
  <2> QED BY <2>1, <2>2 DEF PopPublish, RingInv, KnowledgeInv, producerVars, Pushes
<1>12. InOrder'
  <2>1. Pops + 1 <= Pushes
    BY <1>1, Bounds
  <2>2. ASSUME NEW k \in 1 .. Pops + 1 PROVE delivered'[k] = accepted[k]
    <3>1. CASE k \in 1 .. Pops
      BY <1>7, <3>1 DEF RingInv, InOrder, Pops
    <3>2. CASE k = Pops + 1
      BY <1>1, <1>7, <3>2
    <3> QED BY <3>1, <3>2, Bounds
  <2> QED BY <1>7, <2>1, <2>2 DEF PopPublish, InOrder, producerVars, Pushes, Pops
<1>13. SlotInv'
  BY DEF PopPublish, RingInv, SlotInv, producerVars, Pushes, Item
<1> QED BY <1>8, <1>9, <1>10, <1>11, <1>12, <1>13 DEF RingInv

(* A load by the consumer's approx_size measures an occupancy between 0    *)
(* and Capacity.                                                           *)
LEMMA ApproxSizeInv ==
    ASSUME RingInv, ApproxSize PROVE RingInv'
<1>1. PICK i \in headSeen .. Len(head) :
          /\ headSeen' = i
          /\ approx' = Occupancy(head[i].val, tail[Len(tail)].val)
  BY DEF ApproxSize
<1>2. i \in 1 .. Len(head) /\ i - 1 \in Nat /\ i - 1 <= Pushes /\ headSeen <= i
  BY SMTT(30), Bounds DEF RingInv, HeadInv
<1>3. Pops <= i - 1 /\ i - 1 <= Pops + Capacity
  BY SMTT(30), <1>2, Bounds, CounterRange
<1>4. Len(tail) \in 1 .. Len(tail) /\ Len(tail) - 1 = Pops
  BY SMTT(30), Bounds DEF RingInv, TailInv
<1>5. head[i].val = Wrap(i - 1) /\ tail[Len(tail)].val = Wrap(Pops)
  BY <1>2, <1>4, HeadMessage, TailMessage
<1>6. approx' = (i - 1) - Pops
  BY <1>1, <1>2, <1>3, <1>5, Bounds, Distance DEF Occupancy
<1>7. approx' \in 0 .. Capacity /\ approx' \in 0 .. W - 1
  BY SMTT(30), <1>2, <1>3, <1>6, Bounds, CounterRange
<1>8. TypeOK' /\ ApproxSizeInRange'
  BY <1>1, <1>2, <1>7 DEF ApproxSize, RingInv, TypeOK, ApproxSizeInRange, producerVars
<1>9. KnowledgeInv'
  BY <1>1, <1>3 DEF ApproxSize, RingInv, KnowledgeInv, producerVars, Pushes, Pops
<1>10. HeadInv' /\ TailInv' /\ InOrder'
  BY DEF ApproxSize, RingInv, HeadInv, TailInv, InOrder, producerVars, Pushes, Pops
<1>11. SlotInv'
  BY DEF ApproxSize, RingInv, SlotInv, producerVars, Pushes, Pops, Item
<1> QED BY <1>8, <1>9, <1>10, <1>11 DEF RingInv

-----------------------------------------------------------------------------
(* One lemma per action: every step preserves the invariant.               *)
LEMMA NextRingInv == RingInv /\ [Next]_vars => RingInv'
<1> SUFFICES ASSUME RingInv, [Next]_vars PROVE RingInv'
  OBVIOUS
<1>1. CASE Producer
  BY <1>1, PushLoadHeadInv, PushLoadTailInv, PushWriteSlotInv, PushPublishInv DEF Producer
<1>2. CASE Consumer
  BY <1>2, PopLoadTailInv, PopLoadHeadInv, PopReadSlotInv, PopPublishInv, ApproxSizeInv
     DEF Consumer
<1>3. CASE UNCHANGED vars
  BY <1>3 DEF vars, producerVars, consumerVars, RingInv, TypeOK, HeadInv, TailInv,
              KnowledgeInv, SlotInv, InOrder, ApproxSizeInRange, Pushes, Pops, Item
<1> QED BY <1>1, <1>2, <1>3 DEF Next

(* The invariant holds in every reachable state.                           *)
LEMMA AlwaysRingInv == Spec => []RingInv
BY InitRingInv, NextRingInv, PTL DEF Spec

(* The state of the ring always has its types.                             *)
THEOREM TypeCorrect == Spec => []TypeOK
<1>1. RingInv => TypeOK
  BY DEF RingInv
<1> QED BY <1>1, AlwaysRingInv, PTL

(* For every capacity and counter width, try_push and try_pop never touch  *)
(* a slot without the other thread's last access to it happening before.   *)
THEOREM RingHasNoDataRace == Spec => []NoDataRace
<1>1. RingInv => NoDataRace
  <2> SUFFICES ASSUME RingInv PROVE NoDataRace
    OBVIOUS
  <2>1. ASSUME ppc = "write" PROVE writes - Capacity < tail[tailSeen].slotOps
    <3>1. writes = Pushes /\ Pushes < (tailSeen - 1) + Capacity
      BY <2>1, Bounds DEF RingInv, HeadInv, KnowledgeInv
    <3>2. tail[tailSeen].slotOps = tailSeen - 1
      BY TailMessage DEF RingInv, TypeOK
    <3> QED BY <3>1, <3>2, Bounds, CounterRange
  <2>2. ASSUME cpc = "read" PROVE reads < head[headSeen].slotOps
    <3>1. reads = Pops /\ Pops < headSeen - 1
      BY <2>2, Bounds DEF RingInv, TailInv, KnowledgeInv
    <3>2. head[headSeen].slotOps = headSeen - 1
      BY HeadMessage DEF RingInv, TypeOK
    <3> QED BY <3>1, <3>2
  <2> QED BY <2>1, <2>2 DEF NoDataRace
<1> QED BY <1>1, AlwaysRingInv, PTL

(* For every capacity and counter width, what the consumer pops is what    *)
(* the producer pushed, in order, with nothing lost, repeated or torn.     *)
THEOREM RingIsFifo == Spec => []InOrder
<1>1. RingInv => InOrder
  BY DEF RingInv
<1> QED BY <1>1, AlwaysRingInv, PTL

(* For every capacity and counter width, the size the consumer sees is     *)
(* never the result of an underflow.                                       *)
THEOREM RingSizeInRange == Spec => []ApproxSizeInRange
<1>1. RingInv => ApproxSizeInRange
  BY DEF RingInv
<1> QED BY <1>1, AlwaysRingInv, PTL

-----------------------------------------------------------------------------
(* Refinement.  A step of the ring that only touches a local variable or a *)
(* slot leaves the abstract queue alone; a load of the other's counter     *)
(* learns, or refuses; the store of a counter accepts, or delivers.        *)
QueueOffered == IF ppc = "idle" THEN offered ELSE offered - 1

(* An empty ring is an empty queue.                                        *)
LEMMA InitRefines == Init => Queue!Init
BY DEF Init, Queue!Init

(* Beginning a push is not yet a step of the queue.                        *)
LEMMA PushLoadHeadRefines ==
    ASSUME RingInv, PushLoadHead PROVE UNCHANGED Queue!vars
<1>1. QueueOffered = offered /\ QueueOffered' = (offered + 1) - 1
  BY DEF PushLoadHead, QueueOffered
<1>2. QueueOffered' = QueueOffered
  BY <1>1, Bounds
<1> QED BY <1>2 DEF PushLoadHead, Queue!vars, QueueOffered, consumerVars

(* Loading tail_ learns of pops and, if that leaves the ring full,         *)
(* refuses.                                                                *)
LEMMA PushLoadTailRefines ==
    ASSUME RingInv, PushLoadTail PROVE Queue!Refuse \/ Queue!LearnPops
<1>1. PICK i \in tailSeen .. Len(tail) :
          /\ tailSeen' = i
          /\ ppc' = IF IsFull(pushHead, tail[i].val) THEN "idle" ELSE "write"
  BY DEF PushLoadTail
<1>2. i \in 1 .. Len(tail) /\ i - 1 \in Nat /\ i - 1 <= Pops /\ tailSeen <= i
  BY PushLoadTailFacts DEF PushLoadTail
<1>3. i - 1 <= Pushes /\ Pushes <= (i - 1) + Capacity
  BY PushLoadTailFacts DEF PushLoadTail
<1>5. IsFull(pushHead, tail[i].val) <=> Pushes - (i - 1) = Capacity
  BY PushLoadTailFacts DEF PushLoadTail
<1>6. tailSeen' - 1 \in tailSeen - 1 .. Pops
  BY <1>1, <1>2, Bounds
<1>7. /\ ppc = "loadTail" /\ offered' = offered /\ accepted' = accepted
      /\ delivered' = delivered /\ headSeen' = headSeen
  BY DEF PushLoadTail, consumerVars
<1>8. offered \in 1 .. MaxOffers
  BY <1>7 DEF RingInv, HeadInv, Items
<1>9. CASE ppc' = "idle"
  <2>1. Pushes - (tailSeen' - 1) = Capacity
    BY <1>1, <1>5, <1>9
  <2>2. (offered - 1) + 1 = offered /\ offered - 1 < MaxOffers
    BY <1>8, RingAssumption
  <2> QED BY <1>6, <1>7, <1>9, <2>1, <2>2 DEF Queue!Refuse, Pushes, Pops
<1>10. CASE ppc' = "write"
  BY <1>6, <1>7, <1>10 DEF Queue!LearnPops, Pops
<1> QED BY <1>1, <1>9, <1>10

(* The store of head_ accepts the item.                                    *)
LEMMA PushPublishRefines ==
    ASSUME RingInv, PushPublish PROVE Queue!Accept
<1>1. /\ ppc = "publish" /\ ppc' = "idle" /\ offered' = offered
      /\ accepted' = Append(accepted, offered) /\ delivered' = delivered
      /\ tailSeen' = tailSeen /\ headSeen' = headSeen
  BY DEF PushPublish, consumerVars
<1>2. offered \in 1 .. MaxOffers /\ Pushes < (tailSeen - 1) + Capacity
  BY <1>1 DEF RingInv, HeadInv, KnowledgeInv, Items
<1>3. (offered - 1) + 1 = offered /\ offered - 1 < MaxOffers
  BY <1>2, RingAssumption
<1>4. Pushes - (tailSeen - 1) < Capacity
  BY <1>2, Bounds, CounterRange
<1> QED BY <1>1, <1>3, <1>4 DEF Queue!Accept, Pushes

(* Loading head_, in try_pop or approx_size, learns of pushes.             *)
LEMMA PopLoadHeadRefines ==
    ASSUME RingInv, PopLoadHead \/ ApproxSize PROVE Queue!LearnPushes
<1>1. PICK i \in headSeen .. Len(head) : headSeen' = i
  BY DEF PopLoadHead, PopLoadHeadAt, ApproxSize
<1>2. headSeen' - 1 \in headSeen - 1 .. Pushes
  BY <1>1, Bounds DEF RingInv, HeadInv
<1>3. /\ offered' = offered /\ ppc' = ppc /\ accepted' = accepted
      /\ delivered' = delivered /\ tailSeen' = tailSeen
  BY DEF PopLoadHead, PopLoadHeadAt, ApproxSize, producerVars
<1> QED BY <1>2, <1>3 DEF Queue!LearnPushes, Pushes

(* The store of tail_ delivers the item.                                   *)
LEMMA PopPublishRefines ==
    ASSUME RingInv, PopPublish PROVE Queue!Deliver
<1>1. /\ offered' = offered /\ ppc' = ppc /\ accepted' = accepted
      /\ delivered' = Append(delivered, out)
      /\ tailSeen' = tailSeen /\ headSeen' = headSeen
  BY DEF PopPublish, producerVars
<1>2. out = accepted[Pops + 1] /\ Pops < headSeen - 1
  BY DEF PopPublish, RingInv, SlotInv, KnowledgeInv
<1> QED BY <1>1, <1>2 DEF Queue!Deliver, Pops

(* Every step of the ring is a step of the queue or leaves it alone.       *)
LEMMA NextRefines == RingInv /\ [Next]_vars => [Queue!Next]_(Queue!vars)
<1> SUFFICES ASSUME RingInv, [Next]_vars PROVE Queue!Next \/ UNCHANGED Queue!vars
  OBVIOUS
<1>1. CASE PushLoadHead
  BY <1>1, PushLoadHeadRefines
<1>2. CASE PushLoadTail
  BY <1>2, PushLoadTailRefines DEF Queue!Next
<1>3. CASE PushWriteSlot
  BY <1>3 DEF PushWriteSlot, Queue!vars, consumerVars
<1>4. CASE PushPublish
  BY <1>4, PushPublishRefines DEF Queue!Next
<1>5. CASE PopLoadTail
  BY <1>5 DEF PopLoadTail, Queue!vars, producerVars
<1>6. CASE PopLoadHead \/ ApproxSize
  BY <1>6, PopLoadHeadRefines DEF Queue!Next
<1>7. CASE PopReadSlot
  BY <1>7 DEF PopReadSlot, Queue!vars, producerVars
<1>8. CASE PopPublish
  BY <1>8, PopPublishRefines DEF Queue!Next
<1>9. CASE UNCHANGED vars
  BY <1>9 DEF vars, producerVars, consumerVars, Queue!vars
<1> QED BY <1>1, <1>2, <1>3, <1>4, <1>5, <1>6, <1>7, <1>8, <1>9 DEF Next, Producer, Consumer

(* For every capacity and counter width, the ring with its relaxed loads   *)
(* and wrapping counters implements the abstract credit-based queue.       *)
THEOREM RingImplementsQueue == Spec => ImplementsQueue
<1>1. RingInv /\ [Next]_vars => [Queue!Next]_(Queue!vars)
  BY NextRefines
<1> QED BY <1>1, InitRefines, AlwaysRingInv, PTL DEF Spec, ImplementsQueue, Queue!Spec
=============================================================================
