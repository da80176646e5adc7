------------------------ MODULE LockFreeQueueProofs ------------------------
(***************************************************************************)
(* Proofs about the ring buffer, for every capacity and every number of    *)
(* enqueue calls.                                                          *)
(***************************************************************************)
EXTENDS LockFreeQueue, TLAPS

-----------------------------------------------------------------------------
(***************************************************************************)
(* Arithmetic of the ring.                                                 *)
(***************************************************************************)

\* (i + 1) % buffer_capacity is the next slot, wrapping to 0 after the last.
LEMMA FollowingIsNext ==
  \A i \in Slots :
    /\ Following(i) \in Slots
    /\ Following(i) = IF i = BufferCapacity - 1 THEN 0 ELSE i + 1
BY CapacityAssumption DEF Slots, Following

\* Two slots with the same next slot are one slot.
LEMMA FollowingInjective ==
  \A i, j \in Slots : Following(i) = Following(j) => i = j
BY FollowingIsNext, CapacityAssumption DEF Slots

\* size() is between 0 and capacity(), and 0 for equal indices only.
LEMMA DistanceBounds ==
  \A h, t \in Slots :
    /\ Distance(h, t) \in 0 .. Capacity
    /\ Distance(h, t) = 0 <=> h = t
BY CapacityAssumption DEF Slots, Distance, Capacity

\* Moving head by one takes one item off a ring that is not empty.
LEMMA DistanceHead ==
  \A h, t \in Slots :
    h # t => Distance(Following(h), t) = Distance(h, t) - 1
BY FollowingIsNext, CapacityAssumption DEF Slots, Distance

\* Moving tail by one adds one item to a ring that is not full.
LEMMA DistanceTail ==
  \A h, t \in Slots :
    Following(t) # h => Distance(h, Following(t)) = Distance(h, t) + 1
BY FollowingIsNext, CapacityAssumption DEF Slots, Distance

\* The slots held after head moves by one were held before, but for the first.
LEMMA HeldAfterHead ==
  ASSUME NEW h \in Slots, NEW t \in Slots, NEW i \in Slots, h # t,
         Distance(Following(h), i) < Distance(Following(h), t)
  PROVE  Distance(h, i) < Distance(h, t) /\ i # h
BY FollowingIsNext, CapacityAssumption DEF Slots, Distance

\* The slots held after tail moves by one: those held before, and the old tail.
LEMMA HeldAfterTail ==
  ASSUME NEW h \in Slots, NEW t \in Slots, NEW i \in Slots, Following(t) # h,
         Distance(h, i) < Distance(h, Following(t))
  PROVE  \/ i = t /\ Distance(i, Following(t)) = 1
         \/ /\ i # t
            /\ Distance(h, i) < Distance(h, t)
            /\ Distance(i, Following(t)) = Distance(i, t) + 1
BY FollowingIsNext, CapacityAssumption DEF Slots, Distance

-----------------------------------------------------------------------------
(***************************************************************************)
(* Type correctness.                                                       *)
(***************************************************************************)

TypeInv == TypeOK /\ CallInv

LEMMA TypeInvInit == Init => TypeInv
<1> SUFFICES ASSUME Init PROVE TypeInv
  OBVIOUS
<1>1. 0 \in Slots
  BY CapacityAssumption DEF Slots
<1>2. buffer \in [Slots -> Items \cup {Empty, Torn}]
  BY DEF Init
<1>3. /\ enq \in [pc : EnqPCs, item : Items \cup {Empty}, tail : Slots, head : Slots]
      /\ deq \in [pc : DeqPCs, head : Slots, item : Items \cup {Empty, Torn, Nullopt}]
  BY <1>1 DEF Init, EnqPCs, DeqPCs
<1>4. /\ head \in Slots /\ tail \in Slots
      /\ published \in 0 .. MaxItems /\ delivered \in 0 .. MaxItems
  BY <1>1, MaxItemsAssumption DEF Init
<1>5. overlap \in BOOLEAN /\ overtaken \in BOOLEAN
  BY DEF Init
<1>6. CallInv
  BY DEF Init, CallInv
<1>7. QED
  BY <1>2, <1>3, <1>4, <1>5, <1>6 DEF TypeInv, TypeOK

LEMMA TypeInvStep == TypeInv /\ [Next]_vars => TypeInv'
<1> SUFFICES ASSUME TypeInv, [Next]_vars PROVE TypeInv'
  OBVIOUS
<1> USE CapacityAssumption, MaxItemsAssumption, FollowingIsNext
    DEF TypeInv, TypeOK, CallInv, EnqPCs, DeqPCs, queue, history
<1>1. CASE EnqueueBegin
  BY <1>1 DEF EnqueueBegin, Items
<1>2. CASE ReloadHead
  BY <1>2 DEF ReloadHead
<1>3. CASE DropOldest
  BY <1>3 DEF DropOldest
<1>4. CASE WriteBegin
  BY <1>4 DEF WriteBegin
<1>5. CASE WriteEnd
  <2>1. PICK v \in Outcomes(enq.item) : buffer' = [buffer EXCEPT ![enq.tail] = v]
    BY <1>5 DEF WriteEnd
  <2>2. v \in Items \cup {Empty, Torn}
    BY <2>1 DEF Outcomes
  <2>3. buffer' \in [Slots -> Items \cup {Empty, Torn}]
    BY <2>1, <2>2
  <2>4. QED
    BY <1>5, <2>3 DEF WriteEnd
<1>6. CASE PublishTail
  BY <1>6 DEF PublishTail
<1>7. CASE DequeueBegin
  BY <1>7 DEF DequeueBegin
<1>8. CASE DequeueEmpty
  BY <1>8 DEF DequeueEmpty
<1>9. CASE DequeueFound
  BY <1>9 DEF DequeueFound
<1>10. CASE MoveBegin
  BY <1>10 DEF MoveBegin
<1>11. CASE MoveEnd
  <2>1. PICK v \in Outcomes(buffer[deq.head]) :
          deq' = [deq EXCEPT !.pc = "store", !.item = v]
    BY <1>11 DEF MoveEnd
  <2>2. PICK left \in IF overlap THEN {buffer[deq.head], Empty, Torn} ELSE {Empty} :
          buffer' = [buffer EXCEPT ![deq.head] = left]
    BY <1>11 DEF MoveEnd
  <2>3. /\ v \in Items \cup {Empty, Torn}
        /\ left \in Items \cup {Empty, Torn}
    BY <2>1, <2>2 DEF Outcomes
  <2>4. /\ buffer' \in [Slots -> Items \cup {Empty, Torn}]
        /\ deq' \in [pc : DeqPCs, head : Slots, item : Items \cup {Empty, Torn, Nullopt}]
    BY <2>1, <2>2, <2>3
  <2>5. QED
    BY <1>11, <2>4 DEF MoveEnd
<1>12. CASE StoreHead
  BY <1>12 DEF StoreHead, Items, Empty, Torn, Nullopt
<1>13. CASE UNCHANGED vars
  BY <1>13 DEF vars
<1>14. QED
  BY <1>1, <1>2, <1>3, <1>4, <1>5, <1>6, <1>7, <1>8, <1>9, <1>10, <1>11, <1>12,
     <1>13 DEF Next, Enqueue, Dequeue

(***************************************************************************)
(* Every index stays inside the ring, every slot and every call keeps to   *)
(* its values, in all interleavings and after races too.                   *)
(***************************************************************************)
THEOREM TypeCorrect == Spec => []TypeOK
<1>1. Spec => []TypeInv
  BY TypeInvInit, TypeInvStep, PTL DEF Spec
<1>2. TypeInv => TypeOK
  BY DEF TypeInv
<1>3. QED
  BY <1>1, <1>2, PTL

-----------------------------------------------------------------------------
(***************************************************************************)
(* The FIFO invariant: what holds until one side is overtaken.             *)
(***************************************************************************)

FifoInv == /\ ~overlap
           /\ EnqueueInv
           /\ DequeueInv
           /\ LappedInv
           /\ ContentInv

\* The oldest item still held, and the item a Lapped dequeue was about to
\* take, are where the next steps of that dequeue look for them.
LEMMA OldestHeld ==
  ASSUME TypeOK, ContentInv, ~IsEmpty, deq.pc # "store" \/ deq.head # head
  PROVE  buffer[head] = Oldest + 1
<1>1. Distance(head, head) = 0 /\ Size > 0
  BY DistanceBounds DEF TypeOK, IsEmpty, Size, Capacity
<1>2. QED
  BY <1>1, DistanceBounds DEF TypeOK, ContentInv, Held, Oldest, Size, Capacity

\* While the producer owns the free slot, no dequeue looks at it.
LEMMA SlotsApart ==
  ASSUME TypeOK, CallInv, DequeueInv, LappedInv, EnqueueInv,
         Reserved, deq.pc \in {"move", "moving", "store"}
  PROVE  enq.tail # deq.head
<1>1. enq.tail = tail
  BY DEF Reserved, CallInv
<1>2. CASE Lapped
  BY <1>1, <1>2 DEF LappedInv, EnqueueInv, IsFull
<1>3. CASE ~Lapped
  BY <1>1, <1>3 DEF Lapped, DequeueInv, IsEmpty
<1>4. QED
  BY <1>2, <1>3

LEMMA IInvInit == Init => IInv
<1> SUFFICES ASSUME Init PROVE IInv
  OBVIOUS
<1>1. TypeOK /\ CallInv
  BY TypeInvInit DEF TypeInv
<1>2. Size = 0 /\ Oldest = 0
  BY DEF Init, Size, Oldest, Distance
<1>3. EnqueueInv /\ DequeueInv /\ LappedInv
  BY <1>2 DEF Init, EnqueueInv, DequeueInv, LappedInv, Reserved, Lapped
<1>4. ContentInv
  BY <1>1, <1>2, DistanceBounds DEF Init, TypeOK, ContentInv, Held, Capacity
<1>5. QED
  BY <1>1, <1>3, <1>4 DEF IInv, Init

\* The steps of the producer keep the FIFO invariant.
LEMMA EnqueueKeepsFifo ==
  ASSUME TypeOK, CallInv, TypeOK', FifoInv, ~overtaken, ~overtaken', Enqueue
  PROVE  FifoInv'
<1> USE DEF FifoInv, queue, history
<1>0. /\ head \in Slots /\ tail \in Slots /\ deq.head \in Slots
      /\ published \in Nat /\ delivered \in Nat
  BY MaxItemsAssumption DEF TypeOK
<1>1. CASE EnqueueBegin
  <2> USE <1>1 DEF EnqueueBegin
  <2>1. EnqueueInv'
    BY DEF EnqueueInv, Reserved, IsFull
  <2>2. DequeueInv' /\ ContentInv'
    BY DEF DequeueInv, ContentInv, Held, Size, Oldest, Lapped, IsEmpty
  <2>3. LappedInv'
    BY DEF LappedInv, Lapped, Oldest, Size
  <2>4. QED
    BY <2>1, <2>2, <2>3
<1>2. CASE ReloadHead
  <2> USE <1>2 DEF ReloadHead
  <2>1. EnqueueInv'
    <3>1. head # tail
      BY DEF IsEmpty
    <3>2. enq'.head # Following(tail)
      BY <1>0, <3>1, FollowingInjective DEF TypeOK
    <3>3. QED
      BY <3>2 DEF TypeOK, EnqueueInv, Reserved
  <2>2. DequeueInv' /\ ContentInv'
    BY DEF DequeueInv, ContentInv, Held, Size, Oldest, Lapped, IsEmpty
  <2>3. LappedInv'
    BY DEF LappedInv, Lapped, Oldest, Size
  <2>4. QED
    BY <2>1, <2>2, <2>3
<1>3. CASE DropOldest
  <2> USE <1>3 DEF DropOldest
  <2>1. EnqueueInv'
    BY DEF TypeOK, EnqueueInv, Reserved, IsFull
  <2>2. CASE enq.head = head
    <3>1. DequeueInv' /\ ContentInv'
      BY <2>2 DEF DequeueInv, ContentInv, Held, Size, Oldest, Lapped, IsEmpty
    <3>2. LappedInv'
      BY <2>2 DEF LappedInv, Lapped, Oldest, Size
    <3>3. QED
      BY <2>1, <3>1, <3>2
  <2>3. CASE enq.head # head
    <3>1. /\ head' = Following(head)
          /\ ~Lapped
      BY <2>3 DEF TooLate, Lapped
    <3>2. head # tail
      BY <3>1 DEF EnqueueInv
    <3>3. Size' = Size - 1 /\ Oldest' = Oldest + 1
      BY <1>0, <3>1, <3>2, DistanceHead, DistanceBounds DEF Size, Oldest, Capacity
    <3>4. Oldest \in Int
      BY <1>0, DistanceBounds DEF Oldest, Size, Capacity
    <3>5. deq.pc # "idle" => Lapped'
      BY <1>0, <2>3, <3>1 DEF Lapped
    <3>6. DequeueInv'
      BY <1>0, <3>3, <3>4, <3>5 DEF DequeueInv
    <3>7. LappedInv'
      <4> SUFFICES ASSUME deq.pc # "idle"
                   PROVE  /\ head' = Following(deq.head)
                          /\ delivered < Oldest'
                          /\ IF deq.pc = "store" THEN deq.item = Oldest'
                                                 ELSE buffer[deq.head] = Oldest'
        BY DEF LappedInv, Lapped
      <4>1. deq.head = head
        BY <3>1 DEF Lapped
      <4>2. delivered < Oldest'
        BY <1>0, <3>3, <3>4 DEF DequeueInv
      <4>3. CASE deq.pc = "store"
        BY <3>1, <3>3, <4>1, <4>2, <4>3 DEF DequeueInv
      <4>4. CASE deq.pc # "store"
        BY <3>1, <3>2, <3>3, <4>1, <4>2, <4>4, OldestHeld DEF IsEmpty
      <4>5. QED
        BY <4>3, <4>4
    <3>8. ContentInv'
      BY <1>0, <3>1, <3>2, HeldAfterHead DEF ContentInv, Held, Size
    <3>9. QED
      BY <2>1, <3>6, <3>7, <3>8
  <2>4. QED
    BY <2>2, <2>3
<1>4. CASE WriteBegin
  <2> USE <1>4 DEF WriteBegin
  <2>1. EnqueueInv'
    BY DEF TypeOK, EnqueueInv, Reserved, IsFull
  <2>2. DequeueInv' /\ ContentInv'
    BY DEF DequeueInv, ContentInv, Held, Size, Oldest, Lapped, IsEmpty
  <2>3. LappedInv'
    BY DEF LappedInv, Lapped, Oldest, Size
  <2>4. ~overlap'
    BY SlotsApart DEF SameSlot, Reserved
  <2>5. QED
    BY <2>1, <2>2, <2>3, <2>4
<1>5. CASE WriteEnd
  <2> USE <1>5 DEF WriteEnd
  <2>1. /\ enq.tail = tail
        /\ buffer' = [buffer EXCEPT ![tail] = enq.item]
    BY DEF CallInv, Outcomes
  <2>2. EnqueueInv'
    BY <1>0, <2>1 DEF TypeOK, EnqueueInv, Reserved, IsFull
  <2>3. DequeueInv'
    BY DEF DequeueInv, Size, Oldest, Lapped, IsEmpty
  <2>4. Lapped => deq.head # tail
    BY DEF LappedInv, EnqueueInv, Reserved, IsFull
  <2>5. LappedInv'
    BY <1>0, <2>1, <2>4 DEF TypeOK, LappedInv, Lapped, Oldest, Size
  <2>6. ~Held(tail)
    BY <1>0, DistanceBounds DEF Held, Size, Capacity
  <2>7. ContentInv'
    BY <2>1, <2>6 DEF TypeOK, ContentInv, Held, Size
  <2>8. QED
    BY <2>2, <2>3, <2>5, <2>7
<1>6. CASE PublishTail
  <2> USE <1>6 DEF PublishTail
  <2>1. /\ tail' = Following(tail)
        /\ Following(tail) # head
        /\ buffer[tail] = published + 1
    BY DEF CallInv, EnqueueInv, Reserved, IsFull
  <2>2. Size' = Size + 1 /\ Oldest' = Oldest
    BY <1>0, <2>1, DistanceTail, DistanceBounds DEF Size, Oldest, Capacity
  <2>3. EnqueueInv'
    BY DEF TypeOK, EnqueueInv, Reserved
  <2>4. DequeueInv'
    BY <2>1, <2>2 DEF DequeueInv, Lapped, IsEmpty
  <2>5. LappedInv'
    BY <2>2 DEF LappedInv, Lapped
  <2>6. ContentInv'
    <3> SUFFICES ASSUME NEW i \in Slots, Held(i)',
                        ~(deq.pc = "store" /\ deq.head = i)
                 PROVE  buffer[i] = (published + 1) - Distance(i, Following(tail)) + 1
      BY <2>1 DEF ContentInv, Held, Size
    <3>1. Distance(head, i) < Distance(head, Following(tail))
      BY <2>1 DEF Held, Size
    <3>2. \/ i = tail /\ Distance(i, Following(tail)) = 1
          \/ /\ i # tail
             /\ Distance(head, i) < Distance(head, tail)
             /\ Distance(i, Following(tail)) = Distance(i, tail) + 1
      BY <1>0, <2>1, <3>1, HeldAfterTail
    <3>3. CASE i = tail
      BY <1>0, <2>1, <3>2, <3>3
    <3>4. CASE i # tail
      BY <1>0, <3>2, <3>4, DistanceBounds DEF ContentInv, Held, Size, Capacity
    <3>5. QED
      BY <3>3, <3>4
  <2>7. QED
    BY <2>3, <2>4, <2>5, <2>6
<1>7. QED
  BY <1>1, <1>2, <1>3, <1>4, <1>5, <1>6 DEF Enqueue

\* The steps of the consumer keep the FIFO invariant.
LEMMA DequeueKeepsFifo ==
  ASSUME TypeOK, CallInv, TypeOK', FifoInv, ~overtaken, Dequeue
  PROVE  FifoInv'
<1> USE DEF FifoInv, queue, history
<1>0. /\ head \in Slots /\ tail \in Slots /\ deq.head \in Slots
      /\ published \in Nat /\ delivered \in Nat
      /\ Oldest \in Int
  BY MaxItemsAssumption, DistanceBounds DEF TypeOK, Oldest, Size, Capacity
<1>1. CASE DequeueBegin
  <2> USE <1>1 DEF DequeueBegin
  <2>1. EnqueueInv'
    BY DEF EnqueueInv, Reserved, IsFull
  <2>2. deq'.pc = "check" /\ deq'.head = head /\ ~Lapped'
    BY DEF Lapped
  <2>3. DequeueInv' /\ LappedInv'
    BY <2>2 DEF DequeueInv, LappedInv, Size, Oldest
  <2>4. ContentInv'
    <3>1. ~(deq.pc = "store" /\ deq.head = head)
      OBVIOUS
    <3>2. QED
      BY <2>2 DEF ContentInv, Held, Size
  <2>5. QED
    BY <2>1, <2>3, <2>4
<1>2. CASE DequeueEmpty
  <2> USE <1>2 DEF DequeueEmpty
  <2>1. EnqueueInv'
    BY DEF EnqueueInv, Reserved, IsFull
  <2>2. deq'.pc = "idle"
    BY DEF TypeOK
  <2>3. DequeueInv' /\ LappedInv' /\ ContentInv'
    BY <2>2 DEF DequeueInv, LappedInv, Lapped, ContentInv, Held, Size, Oldest
  <2>4. QED
    BY <2>1, <2>3
<1>3. CASE DequeueFound
  <2> USE <1>3 DEF DequeueFound
  <2>1. EnqueueInv'
    BY DEF EnqueueInv, Reserved, IsFull
  <2>2. deq'.pc = "move" /\ deq'.head = deq.head /\ Lapped' = Lapped
    BY DEF TypeOK, Lapped
  <2>3. DequeueInv'
    BY <2>2 DEF DequeueInv, Lapped, IsEmpty, Size, Oldest
  <2>4. LappedInv'
    BY <2>2 DEF LappedInv, Lapped, Size, Oldest
  <2>5. ContentInv'
    BY <2>2 DEF ContentInv, Held, Size
  <2>6. QED
    BY <2>1, <2>3, <2>4, <2>5
<1>4. CASE MoveBegin
  <2> USE <1>4 DEF MoveBegin
  <2>1. EnqueueInv'
    BY DEF EnqueueInv, Reserved, IsFull
  <2>2. deq'.pc = "moving" /\ deq'.head = deq.head /\ Lapped' = Lapped
    BY DEF TypeOK, Lapped
  <2>3. DequeueInv'
    BY <2>2 DEF DequeueInv, Lapped, IsEmpty, Size, Oldest
  <2>4. LappedInv'
    BY <2>2 DEF LappedInv, Lapped, Size, Oldest
  <2>5. ContentInv'
    BY <2>2 DEF ContentInv, Held, Size
  <2>6. ~overlap'
    BY SlotsApart DEF SameSlot, Reserved
  <2>7. QED
    BY <2>1, <2>3, <2>4, <2>5, <2>6
<1>5. CASE MoveEnd
  <2> USE <1>5 DEF MoveEnd
  <2>1. /\ deq' = [deq EXCEPT !.pc = "store", !.item = buffer[deq.head]]
        /\ buffer' = [buffer EXCEPT ![deq.head] = Empty]
    BY DEF Outcomes
  <2>2. /\ deq'.pc = "store" /\ deq'.head = deq.head
        /\ deq'.item = buffer[deq.head]
        /\ Lapped' = Lapped
    BY <2>1 DEF TypeOK, Lapped
  <2>3. EnqueueInv'
    BY <2>1, SlotsApart DEF TypeOK, CallInv, EnqueueInv, Reserved, IsFull
  <2>4. DequeueInv'
    <3>1. ~Lapped => deq'.item = Oldest + 1
      BY <2>2, OldestHeld DEF Lapped, DequeueInv
    <3>2. QED
      BY <2>2, <3>1 DEF DequeueInv, Lapped, IsEmpty, Size, Oldest
  <2>5. LappedInv'
    BY <2>2 DEF LappedInv, Lapped, Size, Oldest
  <2>6. ContentInv'
    BY <2>1, <2>2 DEF TypeOK, ContentInv, Held, Size
  <2>7. QED
    BY <2>3, <2>4, <2>5, <2>6
<1>6. CASE StoreHead
  <2> USE <1>6 DEF StoreHead
  <2>1. head' = Following(deq.head) /\ deq'.pc = "idle" /\ ~Lapped'
    BY DEF TypeOK, Lapped
  <2>2. LappedInv'
    BY <2>1 DEF LappedInv
  <2>3. CASE Lapped
    <3>1. head' = head
      BY <2>1, <2>3 DEF LappedInv
    <3>2. EnqueueInv'
      BY <3>1 DEF EnqueueInv, Reserved, IsFull
    <3>3. DequeueInv'
      BY <1>0, <2>1, <2>3, <3>1 DEF DequeueInv, LappedInv, Size, Oldest
    <3>4. ContentInv'
      <4>1. ~Held(deq.head)
        <5>1. Distance(Following(deq.head), deq.head) = Capacity
          BY <1>0, FollowingIsNext, CapacityAssumption DEF Distance, Slots, Capacity
        <5>2. QED
          BY <1>0, <2>1, <3>1, <5>1, DistanceBounds DEF Held, Size, Capacity
      <4>2. QED
        BY <2>1, <3>1, <4>1 DEF ContentInv, Held, Size
    <3>5. QED
      BY <2>2, <3>2, <3>3, <3>4
  <2>4. CASE ~Lapped
    <3>1. deq.head = head /\ head # tail /\ deq.item = Oldest + 1
      BY <2>4 DEF Lapped, DequeueInv, IsEmpty
    <3>2. Size' = Size - 1 /\ Oldest' = Oldest + 1
      BY <1>0, <2>1, <3>1, DistanceHead, DistanceBounds DEF Size, Oldest, Capacity
    <3>3. EnqueueInv'
      BY <1>0, <2>1, <3>1, FollowingInjective DEF EnqueueInv, Reserved, IsFull
    <3>4. DequeueInv'
      BY <1>0, <2>1, <3>1, <3>2 DEF DequeueInv
    <3>5. ContentInv'
      BY <1>0, <2>1, <3>1, HeldAfterHead DEF ContentInv, Held, Size
    <3>6. QED
      BY <2>2, <3>3, <3>4, <3>5
  <2>5. QED
    BY <2>3, <2>4
<1>7. QED
  BY <1>1, <1>2, <1>3, <1>4, <1>5, <1>6 DEF Dequeue

\* Once overtaken, always overtaken.
LEMMA OvertakenStays == [Next]_vars /\ overtaken => overtaken'
<1> SUFFICES ASSUME [Next]_vars, overtaken PROVE overtaken'
  OBVIOUS
<1>1. CASE Enqueue
  BY <1>1 DEF Enqueue, EnqueueBegin, ReloadHead, DropOldest, WriteBegin, WriteEnd,
              PublishTail, history
<1>2. CASE Dequeue
  BY <1>2 DEF Dequeue, DequeueBegin, DequeueEmpty, DequeueFound, MoveBegin,
              MoveEnd, StoreHead, history
<1>3. CASE UNCHANGED vars
  BY <1>3 DEF vars, history
<1>4. QED
  BY <1>1, <1>2, <1>3 DEF Next

LEMMA IInvStep == IInv /\ [Next]_vars => IInv'
<1> SUFFICES ASSUME IInv, [Next]_vars PROVE IInv'
  OBVIOUS
<1>1. TypeOK' /\ CallInv'
  BY TypeInvStep DEF IInv, TypeInv
<1>2. ASSUME ~overtaken' PROVE FifoInv'
  <2>1. ~overtaken /\ FifoInv
    BY <1>2, OvertakenStays DEF IInv, FifoInv
  <2>2. CASE Enqueue
    BY <1>1, <1>2, <2>1, <2>2, EnqueueKeepsFifo DEF IInv
  <2>3. CASE Dequeue
    BY <1>1, <2>1, <2>3, DequeueKeepsFifo DEF IInv
  <2>4. CASE UNCHANGED vars
    BY <2>1, <2>4 DEF vars, queue, history, FifoInv, EnqueueInv, DequeueInv,
                      LappedInv, ContentInv, Reserved, Lapped, Held, Size,
                      Oldest, IsFull, IsEmpty
  <2>5. QED
    BY <2>2, <2>3, <2>4 DEF Next
<1>3. QED
  BY <1>1, <1>2 DEF IInv, FifoInv

LEMMA IInvCorrect == Spec => []IInv
BY IInvInit, IInvStep, PTL DEF Spec

-----------------------------------------------------------------------------
(***************************************************************************)
(* Until overtaken, the ring holds the last Size items in order.           *)
(***************************************************************************)
THEOREM ContentCorrect == Spec => []FifoWindow
<1>1. IInv => FifoWindow
  BY DEF IInv, ContentInv, FifoWindow
<1>2. QED
  BY <1>1, IInvCorrect, PTL

(***************************************************************************)
(* Until overtaken, the two threads never access one slot at once.         *)
(***************************************************************************)
THEOREM RaceFree == Spec => []SlotsNotShared
<1>1. IInv => SlotsNotShared
  BY SlotsApart DEF IInv, SlotsNotShared, SameSlot, Reserved
<1>2. QED
  BY <1>1, IInvCorrect, PTL

(***************************************************************************)
(* Until overtaken, what a dequeue has moved out is a recent item.         *)
(***************************************************************************)
THEOREM Freshness == Spec => []Fresh
<1>1. IInv => Fresh
  <2> SUFFICES ASSUME IInv, ~overtaken, deq.pc = "store" PROVE Fresh
    BY DEF Fresh
  <2>1. Size \in 0 .. Capacity /\ published \in Nat
    BY DistanceBounds DEF IInv, TypeOK, Size
  <2>2. deq.item \in {Oldest, Oldest + 1}
    BY DEF IInv, DequeueInv, LappedInv
  <2>3. QED
    BY <2>1, <2>2, CapacityAssumption DEF Fresh, Oldest, Capacity
<1>2. QED
  BY <1>1, IInvCorrect, PTL

(***************************************************************************)
(* Until overtaken, a dequeue reports nullopt on an empty or a full ring.  *)
(***************************************************************************)
THEOREM NulloptCorrect == Spec => NulloptEmptyOrFull
<1>1. IInv /\ DequeueEmpty /\ ~overtaken => IsEmpty \/ IsFull
  BY DEF IInv, DequeueEmpty, LappedInv, Lapped, IsEmpty, IsFull
<1>2. IInv /\ [Next]_vars => [DequeueEmpty /\ ~overtaken => IsEmpty \/ IsFull]_vars
  BY <1>1
<1>3. QED
  BY <1>2, IInvCorrect, PTL DEF Spec, NulloptEmptyOrFull

(***************************************************************************)
(* Until overtaken, the enqueue that publishes an item (line 57 of         *)
(* lock_free_queue.hpp) leaves a ring that is not empty.                   *)
(***************************************************************************)
THEOREM PutHeld == Spec => HoldsWhatIsPut
<1>1. IInv /\ PublishTail /\ ~overtaken => ~IsEmpty'
  BY DEF IInv, PublishTail, CallInv, EnqueueInv, Reserved, IsEmpty, IsFull
<1>2. IInv /\ [Next]_vars => [PublishTail /\ ~overtaken => ~IsEmpty']_vars
  BY <1>1
<1>3. QED
  BY <1>2, IInvCorrect, PTL DEF Spec, HoldsWhatIsPut

-----------------------------------------------------------------------------
(***************************************************************************)
(* Refinement.  Until overtaken every step of the ring is a step of the    *)
(* drop-oldest FIFO, or none of its business.                              *)
(***************************************************************************)

\* A ring that is not full has room for one more item.
LEMMA RoomUnlessFull ==
  \A h, t \in Slots : Following(t) # h => Distance(h, t) < Capacity
BY FollowingIsNext, CapacityAssumption DEF Slots, Distance, Capacity

LEMMA FifoEnqueue ==
  ASSUME IInv, IInv', ~overtaken, ~overtaken', Enqueue
  PROVE  [Fifo!Next]_Fifo!vars
<1> USE DEF Fifo!Next, Fifo!vars, queue, history
<1>0. /\ head \in Slots /\ tail \in Slots /\ head' \in Slots /\ tail' \in Slots
      /\ published \in Nat /\ Size \in Nat /\ Oldest = published - Size
  BY DistanceBounds DEF IInv, TypeOK, Oldest, Size, Capacity
<1>a. overtaken' = overtaken
  BY DEF IInv, TypeOK
<1>1. CASE EnqueueBegin
  <2>1. Size' = Size /\ Oldest' = Oldest
    BY <1>1 DEF EnqueueBegin, Size, Oldest
  <2>2. CASE IsFull
    <3>1. Reserved = FALSE /\ Reserved' = FALSE
      BY <1>1, <2>2 DEF EnqueueBegin, Reserved
    <3>2. published' = published /\ delivered' = delivered
      BY <1>1 DEF EnqueueBegin
    <3>3. QED
      BY <1>a, <2>1, <3>1, <3>2
  <2>3. CASE ~IsFull
    <3>1. ~Reserved /\ Reserved' = TRUE
      BY <1>1, <2>3 DEF EnqueueBegin, Reserved
    <3>2. published - Oldest' < Capacity
      BY <1>0, <2>1, <2>3, RoomUnlessFull DEF IsFull, Size
    <3>3. Fifo!Reserve
      BY <1>1, <2>1, <3>1, <3>2 DEF EnqueueBegin, Fifo!Reserve
    <3>4. QED
      BY <3>3
  <2>4. QED
    BY <2>2, <2>3
<1>2. CASE ReloadHead
  <2>1. Reserved = FALSE /\ Reserved' = FALSE
    BY <1>2 DEF ReloadHead, Reserved, IInv, TypeOK
  <2>2. Oldest' = Oldest
    BY <1>2 DEF ReloadHead, Size, Oldest
  <2>3. published' = published /\ delivered' = delivered
    BY <1>2 DEF ReloadHead
  <2>4. QED
    BY <1>a, <2>1, <2>2, <2>3
<1>3. CASE DropOldest
  <2>1. ~Reserved /\ Reserved' = TRUE
    BY <1>3 DEF DropOldest, Reserved, IInv, TypeOK
  <2>2. published' - Oldest' < Capacity /\ published' = published
    <3>1. Following(tail') # head'
      BY <2>1 DEF IInv, EnqueueInv, IsFull
    <3>2. Distance(head', tail') < Capacity
      BY <1>0, <3>1, RoomUnlessFull
    <3>3. published' = published /\ Oldest' = published - Distance(head', tail')
      BY <1>3 DEF DropOldest, Oldest, Size
    <3>4. QED
      BY <1>0, <3>2, <3>3, DistanceBounds DEF Capacity
  <2>3. \/ Oldest' = Oldest
        \/ published - Oldest > 0 /\ Oldest' = Oldest + 1
    <3>1. CASE enq.head = head
      BY <1>3, <3>1 DEF DropOldest, Oldest, Size
    <3>2. CASE enq.head # head
      <4>1. head' = Following(head) /\ tail' = tail /\ published' = published
        BY <1>3, <3>2 DEF DropOldest, TooLate
      <4>2. head # tail
        BY <1>3, <4>1 DEF DropOldest, IInv, EnqueueInv
      <4>3. Size' = Size - 1 /\ Size > 0
        BY <1>0, <4>1, <4>2, DistanceHead, DistanceBounds DEF Size, Capacity
      <4>4. QED
        BY <1>0, <4>1, <4>3 DEF Oldest
    <3>3. QED
      BY <3>1, <3>2
  <2>4. Fifo!Reserve
    BY <1>3, <1>a, <2>1, <2>2, <2>3 DEF DropOldest, Fifo!Reserve, Fifo!Held
  <2>5. QED
    BY <2>4
<1>4. CASE WriteBegin \/ WriteEnd
  <2>1. Reserved = TRUE /\ Reserved' = TRUE
    BY <1>4 DEF WriteBegin, WriteEnd, Reserved, IInv, TypeOK
  <2>2. Oldest' = Oldest
    BY <1>4 DEF WriteBegin, WriteEnd, Size, Oldest
  <2>3. QED
    BY <1>4, <2>1, <2>2 DEF WriteBegin, WriteEnd
<1>5. CASE PublishTail
  <2>1. Reserved /\ Reserved' = FALSE
    BY <1>5 DEF PublishTail, Reserved, IInv, TypeOK
  <2>2. tail' = Following(tail) /\ head' = head /\ Following(tail) # head
    BY <1>5, <2>1 DEF PublishTail, IInv, CallInv, EnqueueInv, IsFull
  <2>3. Oldest' = Oldest
    BY <1>0, <1>5, <2>2, DistanceTail DEF PublishTail, Oldest, Size
  <2>4. Fifo!Put
    BY <1>5, <2>1, <2>3 DEF PublishTail, Fifo!Put
  <2>5. QED
    BY <2>4
<1>6. QED
  BY <1>1, <1>2, <1>3, <1>4, <1>5 DEF Enqueue

LEMMA FifoDequeue ==
  ASSUME IInv, ~overtaken, Dequeue
  PROVE  [Fifo!Next]_Fifo!vars
<1> USE DEF Fifo!Next, Fifo!vars, queue, history
<1>0. /\ head \in Slots /\ tail \in Slots /\ delivered \in Nat
      /\ published \in Nat /\ Size \in Nat /\ Oldest = published - Size
  BY DistanceBounds DEF IInv, TypeOK, Oldest, Size, Capacity
<1>1. CASE DequeueBegin \/ DequeueEmpty \/ DequeueFound \/ MoveBegin \/ MoveEnd
  <2>1. Oldest' = Oldest /\ Reserved' = Reserved
    BY <1>1 DEF DequeueBegin, DequeueEmpty, DequeueFound, MoveBegin, MoveEnd,
                Oldest, Size, Reserved
  <2>2. QED
    BY <1>1, <2>1 DEF DequeueBegin, DequeueEmpty, DequeueFound, MoveBegin, MoveEnd
<1>2. CASE StoreHead
  <2>1. Reserved' = Reserved /\ head' = Following(deq.head)
    BY <1>2 DEF StoreHead, Reserved
  <2>2. CASE Lapped
    <3>1. head' = head /\ Oldest' = Oldest
      BY <1>2, <2>1, <2>2 DEF StoreHead, IInv, LappedInv, Oldest, Size
    <3>2. delivered < Oldest /\ delivered' = Oldest
      BY <1>0, <1>2, <2>2 DEF StoreHead, IInv, LappedInv
    <3>3. Fifo!Take
      BY <1>2, <2>1, <3>1, <3>2 DEF StoreHead, Fifo!Take
    <3>4. QED
      BY <3>3
  <2>3. CASE ~Lapped
    <3>1. deq.head = head /\ head # tail /\ deq.item = Oldest + 1
          /\ delivered <= Oldest
      BY <1>2, <2>3 DEF StoreHead, IInv, Lapped, DequeueInv, IsEmpty
    <3>2. Size > 0 /\ Oldest' = Oldest + 1
      BY <1>0, <1>2, <2>1, <3>1, DistanceHead, DistanceBounds
         DEF StoreHead, Oldest, Size, Capacity
    <3>3. delivered' = Oldest + 1
      BY <1>0, <1>2, <3>1 DEF StoreHead
    <3>4. Fifo!Take
      BY <1>0, <1>2, <2>1, <3>2, <3>3 DEF StoreHead, Fifo!Take, Fifo!Held
    <3>5. QED
      BY <3>4
  <2>4. QED
    BY <2>2, <2>3
<1>3. QED
  BY <1>1, <1>2 DEF Dequeue

(***************************************************************************)
(* The ring implements the drop-oldest FIFO queue, for every capacity.     *)
(***************************************************************************)
THEOREM Refinement == Spec => ImplementsFifo
<1>1. Init => Fifo!Init
  <2>1. ASSUME Init PROVE Oldest = 0 /\ Reserved = FALSE
    BY <2>1 DEF Init, Oldest, Size, Distance, Reserved
  <2>2. QED
    BY <2>1 DEF Init, Fifo!Init
<1>2. IInv /\ IInv' /\ [Next]_vars => [Fifo!Next]_Fifo!vars
  <2> SUFFICES ASSUME IInv, IInv', [Next]_vars PROVE [Fifo!Next]_Fifo!vars
    OBVIOUS
  <2>1. CASE overtaken'
    BY <2>1 DEF Fifo!Next
  <2>2. CASE ~overtaken' /\ Enqueue
    BY <2>2, OvertakenStays, FifoEnqueue
  <2>3. CASE ~overtaken' /\ Dequeue
    BY <2>3, OvertakenStays, FifoDequeue
  <2>4. CASE UNCHANGED vars
    BY <2>4 DEF vars, queue, history, Oldest, Size, Reserved, Fifo!vars
  <2>5. QED
    BY <2>1, <2>2, <2>3, <2>4 DEF Next
<1>3. QED
  BY <1>1, <1>2, IInvCorrect, PTL DEF Spec, ImplementsFifo, Fifo!Spec

-----------------------------------------------------------------------------
(***************************************************************************)
(* What the program around a ring may rely on, whatever its capacity, and  *)
(* whether or not a side is overtaken.                                     *)
(***************************************************************************)

\* The number of the last item an enqueue call was given.
Given == IF enq.pc = "idle" THEN published ELSE published + 1

\* Nothing comes out that was not put in, and a call that found something
\* does not end in nullopt.
GivenInv ==
  /\ \A i \in Slots : buffer[i] <= Given
  /\ deq.item <= Given
  /\ delivered <= Given
  /\ deq.pc \in {"check", "move", "moving"} => deq.item = Nullopt
  /\ deq.pc = "store" => deq.item # Nullopt

UseInv == IInv /\ GivenInv

LEMMA UseInvInit == Init => UseInv
<1> SUFFICES ASSUME Init PROVE UseInv
  OBVIOUS
<1>1. GivenInv
  BY DEF Init, GivenInv, Given, Empty, Nullopt
<1>2. QED
  BY <1>1, IInvInit DEF UseInv

LEMMA GivenInvStep == IInv /\ GivenInv /\ [Next]_vars => GivenInv'
<1> SUFFICES ASSUME IInv, GivenInv, [Next]_vars PROVE GivenInv'
  OBVIOUS
<1> USE MaxItemsAssumption
    DEF IInv, TypeOK, CallInv, GivenInv, Given, EnqPCs, DeqPCs, Items, Empty, Torn,
        Nullopt, queue, history
<1>1. CASE EnqueueBegin
  BY <1>1 DEF EnqueueBegin
<1>2. CASE ReloadHead \/ DropOldest \/ WriteBegin
  BY <1>2 DEF ReloadHead, DropOldest, WriteBegin
<1>3. CASE WriteEnd
  <2>1. PICK v \in Outcomes(enq.item) : buffer' = [buffer EXCEPT ![enq.tail] = v]
    BY <1>3 DEF WriteEnd
  <2>2. v <= Given /\ Given' = Given /\ v \in Int
    BY <1>3, <2>1 DEF WriteEnd, Outcomes
  <2>3. QED
    BY <1>3, <2>1, <2>2 DEF WriteEnd
<1>4. CASE PublishTail
  BY <1>4 DEF PublishTail
<1>5. CASE DequeueBegin \/ DequeueEmpty \/ DequeueFound \/ MoveBegin
  BY <1>5 DEF DequeueBegin, DequeueEmpty, DequeueFound, MoveBegin
<1>6. CASE MoveEnd
  <2>1. PICK v \in Outcomes(buffer[deq.head]) :
          deq' = [deq EXCEPT !.pc = "store", !.item = v]
    BY <1>6 DEF MoveEnd
  <2>2. PICK left \in IF overlap THEN {buffer[deq.head], Empty, Torn} ELSE {Empty} :
          buffer' = [buffer EXCEPT ![deq.head] = left]
    BY <1>6 DEF MoveEnd
  <2>3. /\ v <= Given /\ v # Nullopt
        /\ left <= Given
        /\ Given' = Given
    BY <1>6, <2>1, <2>2 DEF MoveEnd, Outcomes
  <2>4. QED
    BY <1>6, <2>1, <2>2, <2>3 DEF MoveEnd
<1>7. CASE StoreHead
  BY <1>7 DEF StoreHead
<1>8. CASE UNCHANGED vars
  BY <1>8 DEF vars
<1>9. QED
  BY <1>1, <1>2, <1>3, <1>4, <1>5, <1>6, <1>7, <1>8 DEF Next, Enqueue, Dequeue

LEMMA UseInvStep == UseInv /\ [Next]_vars => UseInv'
BY IInvStep, GivenInvStep DEF UseInv

\* What a step of an enqueue does to the state its caller can see.
LEMMA EnqueueSeen ==
  ASSUME UseInv, Enqueue
  PROVE  /\ deq' = deq /\ delivered' = delivered
         /\ overtaken => overtaken'
         /\ enq.pc = "idle" => Given' = Given + 1 /\ enq'.pc # "idle"
         /\ enq.pc # "idle" => Given' = Given
         /\ published' = IF enq.pc # "idle" /\ enq'.pc = "idle"
                         THEN published + 1 ELSE published
<1> USE DEF Given, history
<1>1. /\ enq \in [pc : EnqPCs, item : Items \cup {Empty}, tail : Slots, head : Slots]
      /\ published \in Nat
  BY MaxItemsAssumption DEF UseInv, IInv, TypeOK
<1>2. CASE EnqueueBegin
  BY <1>1, <1>2 DEF EnqueueBegin
<1>3. CASE ReloadHead \/ DropOldest
  BY <1>1, <1>3 DEF ReloadHead, DropOldest
<1>4. CASE WriteBegin \/ WriteEnd
  BY <1>1, <1>4 DEF WriteBegin, WriteEnd
<1>5. CASE PublishTail
  BY <1>1, <1>5 DEF PublishTail
<1>6. QED
  BY <1>2, <1>3, <1>4, <1>5 DEF Enqueue

\* ... and a step of a dequeue.  A call that ends with an item has delivered it;
\* until overtaken that is a proper one, and newer than all before.
LEMMA DequeueSeen ==
  ASSUME UseInv, Dequeue
  PROVE  /\ enq' = enq /\ published' = published /\ overtaken' = overtaken
         /\ deq'.pc # "idle" \/ deq'.item = Nullopt => delivered' = delivered
         /\ ~overtaken /\ deq'.pc = "idle" /\ deq'.item # Nullopt
              => delivered' = deq'.item /\ delivered' > delivered
<1>0. /\ deq \in [pc : DeqPCs, head : Slots, item : Items \cup {Empty, Torn, Nullopt}]
      /\ deq.pc \in {"check", "move", "moving"} => deq.item = Nullopt
      /\ deq.pc = "store" => deq.item # Nullopt
      /\ published \in Nat /\ delivered \in Nat
  BY MaxItemsAssumption DEF UseInv, IInv, TypeOK, GivenInv
<1>1. CASE DequeueBegin
  BY <1>0, <1>1 DEF DequeueBegin, history
<1>2. CASE DequeueEmpty
  BY <1>0, <1>2 DEF DequeueEmpty, history
<1>3. CASE DequeueFound \/ MoveBegin \/ MoveEnd
  BY <1>0, <1>3 DEF DequeueFound, MoveBegin, MoveEnd, history
<1>4. CASE StoreHead
  <2>1. deq'.pc = "idle" /\ deq'.item = deq.item /\ deq.item # Nullopt
    BY <1>0, <1>4 DEF StoreHead
  <2>2. ASSUME ~overtaken PROVE deq.item > delivered
    <3>1. Oldest \in Int
      BY <1>0, DistanceBounds DEF UseInv, IInv, TypeOK, Oldest, Size, Capacity
    <3>2. QED
      BY <1>0, <1>4, <2>2, <3>1 DEF StoreHead, UseInv, IInv, DequeueInv, LappedInv
  <2>3. QED
    BY <1>0, <1>4, <2>1, <2>2, MaxItemsAssumption
       DEF StoreHead, Items, Empty, Torn, Nullopt
<1>5. QED
  BY <1>1, <1>2, <1>3, <1>4 DEF Dequeue

-----------------------------------------------------------------------------
(***************************************************************************)
(* The queue for a user who counts its items (CountedQueue), as the loops  *)
(* of ThreadLoops do: what the abstract FIFO queue promises is enough.     *)
(***************************************************************************)
FoundFull == enq.pc \in {"reload", "drop"}

Count == INSTANCE CountedQueue WITH
  Depth    <- Capacity,
  items    <- Fifo!Held,
  full     <- FoundFull,
  reserved <- Reserved,
  passed   <- delivered < Oldest

CountsItems == Count!Init /\ [][overtaken' \/ Count!Next]_Count!vars

\* The counters of the FIFO queue keep their order and its bound.
TakenInv ==
  /\ overtaken \in BOOLEAN
  /\ ~overtaken =>
       /\ published \in Nat /\ Oldest \in Nat /\ delivered \in Nat
       /\ delivered <= Oldest /\ Oldest <= published
       /\ published - Oldest <= Capacity
       /\ Reserved => published - Oldest < Capacity

LEMMA TakenInvInit == Fifo!Init => TakenInv
<1> SUFFICES ASSUME Fifo!Init PROVE TakenInv
  OBVIOUS
<1>1. Capacity \in Nat
  BY CapacityAssumption DEF Capacity
<1>2. /\ published = 0 /\ Oldest = 0 /\ delivered = 0
      /\ overtaken = FALSE
  BY DEF Fifo!Init
<1>3. ~Reserved
  BY DEF Fifo!Init
<1>4. published - Oldest <= Capacity
  BY <1>1, <1>2
<1>5. overtaken \in BOOLEAN
  BY <1>2
<1>6. QED
  BY <1>2, <1>3, <1>4, <1>5 DEF TakenInv

LEMMA TakenInvStep == TakenInv /\ overtaken' \in BOOLEAN /\ [Fifo!Next]_Fifo!vars => TakenInv'
<1> SUFFICES ASSUME TakenInv, overtaken' \in BOOLEAN, ~overtaken',
                    Fifo!Reserve \/ Fifo!Put \/ Fifo!Take \/ UNCHANGED Fifo!vars
             PROVE  TakenInv'
  BY DEF Fifo!Next, TakenInv
<1>1. Capacity \in Nat /\ Capacity' = Capacity
  BY CapacityAssumption DEF Capacity
<1>2. ~overtaken
  BY DEF Fifo!Reserve, Fifo!Put, Fifo!Take, Fifo!vars
<1>3. CASE Fifo!Reserve
  BY <1>1, <1>2, <1>3 DEF Fifo!Reserve, Fifo!Held, TakenInv
<1>4. CASE Fifo!Put
  <2>1. /\ published \in Nat /\ Oldest \in Nat /\ delivered \in Nat
        /\ delivered <= Oldest /\ Oldest <= published
        /\ published - Oldest < Capacity
    BY <1>2, <1>4 DEF Fifo!Put, TakenInv
  <2>2. /\ Reserved' = FALSE /\ published' = published + 1
        /\ Oldest' = Oldest /\ delivered' = delivered
    BY <1>4 DEF Fifo!Put
  <2>3. QED
    BY <1>1, <2>1, <2>2 DEF TakenInv
<1>5. CASE Fifo!Take
  BY <1>1, <1>2, <1>5 DEF Fifo!Take, Fifo!Held, TakenInv
<1>6. CASE UNCHANGED Fifo!vars
  BY <1>1, <1>2, <1>6 DEF Fifo!vars, TakenInv
<1>7. QED
  BY <1>3, <1>4, <1>5, <1>6

LEMMA TakenInvCorrect == Spec => []TakenInv
<1>1. TakenInv /\ IInv' /\ [Fifo!Next]_Fifo!vars => TakenInv'
  BY TakenInvStep DEF IInv, TypeOK
<1>2. QED
  BY <1>1, TakenInvInit, IInvCorrect, Refinement, PTL DEF ImplementsFifo, Fifo!Spec

\* Until overtaken each step of an enqueue is one of the counted queue.
LEMMA EnqueueCounts ==
  ASSUME IInv, IInv', TakenInv, ~overtaken, ~overtaken', Enqueue
  PROVE  [Count!Next]_Count!vars
<1> USE DEF Fifo!Held, history
<1>0. /\ head \in Slots /\ tail \in Slots
      /\ Capacity \in Nat /\ Capacity' = Capacity
      /\ published \in Nat /\ Oldest \in Nat /\ Oldest <= published
      /\ published - Oldest = Size
  BY CapacityAssumption, DistanceBounds
     DEF IInv, TypeOK, TakenInv, Capacity, Oldest, Size
<1>1. enq \in [pc : EnqPCs, item : Items \cup {Empty}, tail : Slots, head : Slots]
  BY DEF IInv, TypeOK
<1>2. [Fifo!Next]_Fifo!vars
  BY FifoEnqueue
<1>3. CASE EnqueueBegin
  <2>1. Fifo!Held' = Fifo!Held /\ UNCHANGED <<Oldest, delivered, published>>
    BY <1>3 DEF EnqueueBegin, Oldest, Size
  <2>2. ~Reserved /\ ~FoundFull
    BY <1>3 DEF EnqueueBegin, Reserved, FoundFull
  <2>3. CASE IsFull
    <3>1. ~Reserved' /\ FoundFull'
      BY <1>3, <2>3 DEF EnqueueBegin, Reserved, FoundFull
    <3>2. Size = Capacity
      BY <1>0, <2>3, FollowingIsNext, CapacityAssumption
         DEF IsFull, Size, Distance, Slots, Capacity
    <3>3. Fifo!Held = Capacity
      BY <1>0, <3>2
    <3>4. FoundFull' = TRUE /\ Reserved' = Reserved
      BY <2>2, <3>1 DEF FoundFull, Reserved
    <3>5. (delivered < Oldest)' = (delivered < Oldest)
      BY <2>1
    <3>6. Count!FindFull
      BY <2>1, <2>2, <3>3, <3>4, <3>5 DEF Count!FindFull
    <3>7. QED
      BY <3>6 DEF Count!Next
  <2>4. CASE ~IsFull
    <3>1. Reserved' = TRUE /\ FoundFull' = FALSE
      BY <1>3, <2>4 DEF EnqueueBegin, Reserved, FoundFull
    <3>2. Fifo!Held' < Capacity
      BY <1>0, <2>1, <2>4, RoomUnlessFull DEF IsFull, Size
    <3>3. (delivered < Oldest)' = (delivered < Oldest)
      BY <2>1
    <3>4. Count!Reserve
      BY <2>1, <2>2, <3>1, <3>2, <3>3 DEF Count!Reserve
    <3>5. QED
      BY <3>4 DEF Count!Next
  <2>5. QED
    BY <2>3, <2>4
<1>4. CASE DropOldest
  <2>1. ~Reserved /\ Reserved' = TRUE /\ FoundFull /\ FoundFull' = FALSE
    BY <1>1, <1>4 DEF DropOldest, Reserved, FoundFull
  <2>2. Fifo!Reserve
    BY <1>2, <2>1, <1>4 DEF Fifo!Next, Fifo!Put, Fifo!Take, Fifo!vars
  <2>3. /\ published' = published /\ delivered' = delivered
        /\ published - Oldest' < Capacity
        /\ \/ Oldest' = Oldest
           \/ published - Oldest > 0 /\ Oldest' = Oldest + 1
    BY <2>2 DEF Fifo!Reserve
  <2>4. Fifo!Held' < Capacity
    BY <1>0, <2>3
  <2>5. CASE Oldest' = Oldest
    <3>1. Fifo!Held' = Fifo!Held /\ (delivered < Oldest)' = (delivered < Oldest)
      BY <2>3, <2>5
    <3>2. Count!Reserve
      BY <2>1, <2>4, <3>1 DEF Count!Reserve
    <3>3. QED
      BY <3>2 DEF Count!Next
  <2>6. CASE published - Oldest > 0 /\ Oldest' = Oldest + 1
    <3>1. Fifo!Held' = Fifo!Held - 1
      BY <1>0, <2>3, <2>6
    <3>2. (delivered < Oldest)' = TRUE
      BY <2>3, <2>6, <1>0 DEF TakenInv
    <3>3. Count!Reserve
      BY <2>1, <2>4, <2>6, <3>1, <3>2 DEF Count!Reserve
    <3>4. QED
      BY <3>3 DEF Count!Next
  <2>7. QED
    BY <2>3, <2>5, <2>6
<1>5. CASE PublishTail
  <2>1. Reserved = TRUE /\ Reserved' = FALSE /\ FoundFull' = FoundFull
    BY <1>1, <1>5 DEF PublishTail, Reserved, FoundFull
  <2>2. published' = published + 1 /\ delivered' = delivered
    BY <1>5 DEF PublishTail
  <2>3. Oldest' = Oldest
    BY <1>0, <1>2, <1>5, <2>1, <2>2 DEF Fifo!Next, Fifo!Reserve, Fifo!Put, Fifo!Take, Fifo!vars
  <2>4. Fifo!Held' = Fifo!Held + 1 /\ (delivered < Oldest)' = (delivered < Oldest)
    BY <1>0, <2>2, <2>3
  <2>5. Count!Put
    BY <2>1, <2>4 DEF Count!Put
  <2>6. QED
    BY <2>5 DEF Count!Next
<1>6. CASE ReloadHead \/ WriteBegin \/ WriteEnd
  <2>0. /\ enq'.pc # enq.pc
        /\ enq.pc = "reload" <=> enq'.pc = "drop"
        /\ enq.pc \in {"reload", "write", "writing"}
        /\ enq'.pc \in {"drop", "writing", "publish"}
    BY <1>1, <1>6 DEF ReloadHead, WriteBegin, WriteEnd
  <2>1. Reserved' = Reserved /\ FoundFull' = FoundFull
    BY <2>0 DEF Reserved, FoundFull
  <2>2. UNCHANGED <<head, tail, published, delivered>>
    BY <1>6 DEF ReloadHead, WriteBegin, WriteEnd
  <2>3. Fifo!Held' = Fifo!Held /\ (delivered < Oldest)' = (delivered < Oldest)
    BY <2>2 DEF Oldest, Size
  <2>4. QED
    BY <2>1, <2>3 DEF Count!vars
<1>7. QED
  BY <1>3, <1>4, <1>5, <1>6 DEF Enqueue

\* ... and each step of a dequeue.
LEMMA DequeueCounts ==
  ASSUME IInv, TakenInv, ~overtaken, Dequeue
  PROVE  [Count!Next]_Count!vars
<1> USE DEF Fifo!Held, history
<1>1. /\ published \in Nat /\ Oldest \in Nat /\ delivered \in Nat
      /\ delivered <= Oldest /\ Oldest <= published
  BY DEF TakenInv
<1>2. [Fifo!Next]_Fifo!vars
  BY FifoDequeue
<1>3. enq' = enq /\ overtaken' = overtaken /\ published' = published
  BY DEF Dequeue, DequeueBegin, DequeueEmpty, DequeueFound, MoveBegin, MoveEnd, StoreHead
<1>4. Reserved' = Reserved /\ FoundFull' = FoundFull
  BY <1>3 DEF Reserved, FoundFull
<1>5. CASE Fifo!Take
  <2>1. \/ /\ published - Oldest > 0
           /\ Fifo!Held' = Fifo!Held - 1
           /\ (delivered < Oldest)' = FALSE
        \/ /\ delivered < Oldest
           /\ Fifo!Held' = Fifo!Held
           /\ (delivered < Oldest)' = FALSE
    BY <1>1, <1>3, <1>5 DEF Fifo!Take
  <2>2. Count!Take
    BY <1>4, <2>1 DEF Count!Take
  <2>3. QED
    BY <2>2 DEF Count!Next
<1>6. CASE UNCHANGED Fifo!vars
  BY <1>4, <1>6 DEF Fifo!vars, Count!vars
<1>7. ~Fifo!Reserve /\ ~Fifo!Put
  BY <1>3, <1>4, <1>1 DEF Fifo!Reserve, Fifo!Put
<1>8. QED
  BY <1>2, <1>3, <1>5, <1>6, <1>7 DEF Fifo!Next

(***************************************************************************)
(* Whoever relies on nothing but the number of the items held has the      *)
(* counted queue, until the ring is overtaken: an enqueue frees a place    *)
(* and then fills it, and a dequeue that was passed takes none of the      *)
(* items counted.                                                          *)
(***************************************************************************)
THEOREM Counting == Spec => CountsItems
<1>1. Init => Count!Init
  <2> SUFFICES ASSUME Init PROVE Count!Init
    OBVIOUS
  <2>1. Oldest = 0 /\ published = 0 /\ delivered = 0
    BY DEF Init, Oldest, Size, Distance
  <2>2. Reserved = FALSE /\ FoundFull = FALSE
    BY DEF Init, Reserved, FoundFull
  <2>3. QED
    BY <2>1, <2>2 DEF Count!Init, Fifo!Held
<1>2. IInv /\ IInv' /\ TakenInv /\ [Next]_vars => [overtaken' \/ Count!Next]_Count!vars
  <2> SUFFICES ASSUME IInv, IInv', TakenInv, [Next]_vars, ~overtaken'
               PROVE  [Count!Next]_Count!vars
    OBVIOUS
  <2>1. ~overtaken
    BY OvertakenStays
  <2>2. CASE Enqueue
    BY <2>1, <2>2, EnqueueCounts
  <2>3. CASE Dequeue
    BY <2>1, <2>3, DequeueCounts
  <2>4. CASE UNCHANGED vars
    BY <2>4 DEF vars, queue, history, Count!vars, Fifo!Held, Oldest, Size, Reserved,
                FoundFull
  <2>5. QED
    BY <2>2, <2>3, <2>4 DEF Next
<1>3. QED
  BY <1>1, <1>2, IInvCorrect, TakenInvCorrect, PTL DEF Spec, CountsItems

(***************************************************************************)
(* A poll that finds nothing is one of the counted queue's: it found no    *)
(* item, or as many as there is room for.                                  *)
(***************************************************************************)
PollsCount == [][DequeueEmpty /\ ~overtaken => Count!FindNothing]_vars

THEOREM PollsFindNothing == Spec => PollsCount
<1>1. IInv /\ [Next]_vars => [DequeueEmpty /\ ~overtaken => Count!FindNothing]_vars
  <2> SUFFICES ASSUME IInv, DequeueEmpty, ~overtaken PROVE Count!FindNothing
    OBVIOUS
  <2>1. /\ head \in Slots /\ tail \in Slots /\ published \in Nat
        /\ Fifo!Held = Size
    BY DistanceBounds, MaxItemsAssumption
       DEF IInv, TypeOK, Oldest, Size, Capacity, Fifo!Held
  <2>2. UNCHANGED <<Fifo!Held, FoundFull, Reserved, delivered < Oldest>>
    BY DEF DequeueEmpty, history, Oldest, Size, FoundFull, Reserved, Fifo!Held
  <2>3. IsEmpty \/ IsFull
    BY DEF IInv, DequeueEmpty, LappedInv, Lapped, IsEmpty, IsFull
  <2>4. CASE IsEmpty
    <3>1. Size = 0
      BY <2>1, <2>4 DEF IsEmpty, Size, Distance, Slots
    <3>2. QED
      BY <2>1, <2>2, <3>1 DEF Count!FindNothing, Count!vars
  <2>5. CASE IsFull
    <3>1. Size = Capacity
      BY <2>1, <2>5, FollowingIsNext, CapacityAssumption
         DEF IsFull, Size, Distance, Slots, Capacity
    <3>2. QED
      BY <2>1, <2>2, <3>1 DEF Count!FindNothing, Count!vars
  <2>6. QED
    BY <2>3, <2>4, <2>5
<1>2. QED
  BY <1>1, IInvCorrect, PTL DEF Spec, PollsCount

(***************************************************************************)
(* No item is handed out twice and none after a later one.                 *)
(***************************************************************************)
HandsOutInOrder == [][~overtaken' => delivered' > delivered]_delivered

THEOREM OnceInOrder == Spec => HandsOutInOrder
<1>1. TakenInv /\ [Fifo!Next]_Fifo!vars
        => [~overtaken' => delivered' > delivered]_delivered
  <2> SUFFICES ASSUME TakenInv, [Fifo!Next]_Fifo!vars, ~overtaken', delivered' # delivered
               PROVE  delivered' > delivered
    OBVIOUS
  <2>1. Fifo!Take
    BY DEF Fifo!Next, Fifo!vars, Fifo!Reserve, Fifo!Put
  <2>2. QED
    BY <2>1 DEF Fifo!Take, Fifo!Held, TakenInv
<1>2. QED
  BY <1>1, TakenInvCorrect, Refinement, PTL
     DEF ImplementsFifo, Fifo!Spec, HandsOutInOrder

(***************************************************************************)
(* Overtaken or not, what is in a slot or comes out of a dequeue is an     *)
(* item that an enqueue was given, if it is a proper item at all.  And a   *)
(* dequeue returns a moved-from or torn item only once overtaken.          *)
(***************************************************************************)
NothingInvented ==
  /\ \A i \in Slots : buffer[i] \in 1 .. Given \cup {Empty, Torn}
  /\ deq.item \in 1 .. Given \cup {Empty, Torn, Nullopt}
  /\ deq.item \in {Empty, Torn} => overtaken

ProperInv == deq.item \in {Empty, Torn} => overtaken

THEOREM NoItemInvented == Spec => []NothingInvented
<1> DEFINE StoreInv == ~overtaken /\ deq.pc = "store" => deq.item > 0
<1>a. IInv => StoreInv
  <2> SUFFICES ASSUME IInv, ~overtaken, deq.pc = "store" PROVE deq.item > 0
    OBVIOUS
  <2>1. Oldest \in Int /\ delivered \in Nat
    BY DistanceBounds, MaxItemsAssumption DEF IInv, TypeOK, Oldest, Size, Capacity
  <2>2. QED
    BY <2>1 DEF IInv, DequeueInv, LappedInv
<1>1. Init => ProperInv
  BY DEF Init, ProperInv, Empty, Torn, Nullopt
<1>2. IInv /\ StoreInv' /\ ProperInv /\ [Next]_vars => ProperInv'
  <2> SUFFICES ASSUME IInv, StoreInv', ProperInv, [Next]_vars, ~overtaken'
               PROVE  deq'.item \notin {Empty, Torn}
    BY DEF ProperInv
  <2>1. ~overtaken
    BY OvertakenStays
  <2>2. CASE MoveEnd
    <3>1. deq'.pc = "store"
      BY <2>2 DEF MoveEnd, IInv, TypeOK
    <3>2. QED
      BY <3>1 DEF Empty, Torn
  <2>3. CASE ~MoveEnd
    <3>1. deq'.item = deq.item \/ deq'.item = Nullopt
      BY <2>3 DEF Next, Enqueue, EnqueueBegin, ReloadHead, DropOldest, WriteBegin,
         WriteEnd, PublishTail, Dequeue, DequeueBegin, DequeueEmpty, DequeueFound,
         MoveBegin, StoreHead, vars, queue, IInv, TypeOK
    <3>2. QED
      BY <2>1, <3>1 DEF ProperInv, Empty, Torn, Nullopt
  <2>4. QED
    BY <2>2, <2>3
<1>3. UseInv /\ ProperInv => NothingInvented
  <2> SUFFICES ASSUME UseInv, ProperInv PROVE NothingInvented
    OBVIOUS
  <2>1. \A v \in Items : v <= Given => v \in 1 .. Given
    BY MaxItemsAssumption DEF Items, Given, UseInv, IInv, TypeOK
  <2>2. QED
    BY <2>1 DEF UseInv, IInv, TypeOK, GivenInv, ProperInv, NothingInvented
<1>4. QED
  BY <1>a, <1>1, <1>2, <1>3, IInvCorrect, UseInvInit, UseInvStep, PTL DEF Spec
=============================================================================
