--------------------------- MODULE LockFreeQueue ---------------------------
(***************************************************************************)
(* The ring buffer of src/utils/lock_free_queue.hpp, as one producer       *)
(* thread (enqueue) and one consumer thread (dequeue) execute it.          *)
(*                                                                         *)
(* Every load or store of an atomic index that the other thread may write  *)
(* is a step of its own.  The two accesses to a slot (the move-assignment  *)
(* in enqueue, the move-construction in dequeue) are not atomic: each has  *)
(* a begin and an end step, and when the accesses of the two threads to    *)
(* one slot overlap (a data race) either may leave and return anything a   *)
(* half-copied object can be.  The interleaving is sequentially            *)
(* consistent.  clear(), which nothing calls, is left out.                 *)
(*                                                                         *)
(* An item is the ordinal of the enqueue call that brought it: 1, 2, 3...  *)
(***************************************************************************)
EXTENDS Integers

CONSTANTS
  BufferCapacity,  \* buffer_capacity: the slots of the ring, one kept free
  MaxItems         \* bound: the number of enqueue calls of a behaviour

ASSUME CapacityAssumption == BufferCapacity \in Nat \ {0}
ASSUME MaxItemsAssumption == MaxItems \in Nat

VARIABLES
  buffer,     \* the slots
  head,       \* index of the oldest item, stored by BOTH threads
  tail,       \* index of the slot to write next, stored by the producer
  enq,        \* the enqueue call: pc, item, current_tail, new_head
  deq,        \* the dequeue call: pc, current_head, item (or the result)
  overlap,    \* the slot accesses in progress are a data race
  published,  \* history: the number of enqueue calls that returned
  delivered,  \* history: the last proper item a dequeue returned, or 0
  overtaken   \* history: one side's index store came two steps too late

queue   == <<buffer, head, tail, enq, deq, overlap>>
history == <<published, delivered, overtaken>>
vars    == <<queue, history>>

Empty   == 0    \* a T that is default-constructed or moved from
Torn    == -1   \* a T assembled from two overlapping accesses
Nullopt == -2   \* the std::nullopt a dequeue returns

Slots == 0 .. BufferCapacity - 1
Items == 1 .. MaxItems
EnqPCs == {"idle", "reload", "drop", "write", "writing", "publish"}
DeqPCs == {"idle", "check", "move", "moving", "store"}

\* Mutant of Following: the index is not wrapped.
FollowingUnwrapped(i) == i + 1

Following(i) == (i + 1) % BufferCapacity

\* size(): how many items lie between two indices of the ring.
Distance(h, t) == IF t >= h THEN t - h ELSE BufferCapacity - h + t

Size     == Distance(head, tail)
IsEmpty  == head = tail
IsFull   == Following(tail) = head
Capacity == BufferCapacity - 1

TypeOK ==
  /\ buffer \in [Slots -> Items \cup {Empty, Torn}]
  /\ head \in Slots
  /\ tail \in Slots
  /\ enq \in [pc : EnqPCs, item : Items \cup {Empty}, tail : Slots, head : Slots]
  /\ deq \in [pc : DeqPCs, head : Slots, item : Items \cup {Empty, Torn, Nullopt}]
  /\ overlap \in BOOLEAN
  /\ published \in 0 .. MaxItems
  /\ delivered \in 0 .. MaxItems
  /\ overtaken \in BOOLEAN

Init ==
  /\ buffer = [i \in Slots |-> Empty]
  /\ head = 0
  /\ tail = 0
  /\ enq = [pc |-> "idle", item |-> Empty, tail |-> 0, head |-> 0]
  /\ deq = [pc |-> "idle", head |-> 0, item |-> Nullopt]
  /\ overlap = FALSE
  /\ published = 0
  /\ delivered = 0
  /\ overtaken = FALSE

-----------------------------------------------------------------------------
(***************************************************************************)
(* enqueue.  The load of tail reads the producer's own last store, so it   *)
(* is one step with the first load of head.                                *)
(***************************************************************************)

\* Mutant of EnqueueBegin: the test for a full ring is missing.
EnqueueBeginUnchecked ==
  /\ enq.pc = "idle"
  /\ published < MaxItems
  /\ enq' = [pc |-> "write", item |-> published + 1, tail |-> tail, head |-> head]
  /\ UNCHANGED <<buffer, head, tail, deq, overlap, history>>

EnqueueBegin ==
  /\ enq.pc = "idle"
  /\ published < MaxItems
  /\ enq' = [pc   |-> IF IsFull THEN "reload" ELSE "write",
             item |-> published + 1,
             tail |-> tail,
             head |-> head]
  /\ UNCHANGED <<buffer, head, tail, deq, overlap, history>>

\* Mutant of ReloadHead: the new head is not one slot on.
ReloadHeadOnly ==
  /\ enq.pc = "reload"
  /\ enq' = [enq EXCEPT !.pc = "drop", !.head = head]
  /\ overtaken' = (overtaken \/ IsEmpty)
  /\ UNCHANGED <<buffer, head, tail, deq, overlap, published, delivered>>

\* The second load of head; the consumer may have moved it since the first.
ReloadHead ==
  /\ enq.pc = "reload"
  /\ enq' = [enq EXCEPT !.pc = "drop", !.head = Following(head)]
  /\ overtaken' = (overtaken \/ IsEmpty)
  /\ UNCHANGED <<buffer, head, tail, deq, overlap, published, delivered>>

(***************************************************************************)
(* The store that drops the oldest item.  It comes too late when it would  *)
(* move head anywhere but one slot on, or when the dequeue in progress     *)
(* has been passed by such a store before.                                 *)
(***************************************************************************)
TooLate ==
  /\ enq.head # head
  /\ \/ enq.head # Following(head)
     \/ deq.pc # "idle" /\ deq.head # head

DropOldest ==
  /\ enq.pc = "drop"
  /\ head' = enq.head
  /\ enq' = [enq EXCEPT !.pc = "write"]
  /\ overtaken' = (overtaken \/ TooLate)
  /\ UNCHANGED <<buffer, tail, deq, overlap, published, delivered>>

SameSlot == enq.tail = deq.head

WriteBegin ==
  /\ enq.pc = "write"
  /\ enq' = [enq EXCEPT !.pc = "writing"]
  /\ overlap' = (overlap \/ (deq.pc = "moving" /\ SameSlot))
  /\ UNCHANGED <<buffer, head, tail, deq, history>>

\* What a slot, or a moved-out item, may be when its access was a race.
Outcomes(proper) == IF overlap THEN {proper, Empty, Torn} ELSE {proper}

\* Mutant of WriteEnd: the item goes to the slot after tail.
WriteEndAhead ==
  /\ enq.pc = "writing"
  /\ enq' = [enq EXCEPT !.pc = "publish"]
  /\ \E v \in Outcomes(enq.item) :
       buffer' = [buffer EXCEPT ![Following(enq.tail)] = v]
  /\ overlap' = (overlap /\ deq.pc = "moving")
  /\ UNCHANGED <<head, tail, deq, history>>

WriteEnd ==
  /\ enq.pc = "writing"
  /\ enq' = [enq EXCEPT !.pc = "publish"]
  /\ \E v \in Outcomes(enq.item) : buffer' = [buffer EXCEPT ![enq.tail] = v]
  /\ overlap' = (overlap /\ deq.pc = "moving")
  /\ UNCHANGED <<head, tail, deq, history>>

PublishTail ==
  /\ enq.pc = "publish"
  /\ tail' = Following(enq.tail)
  /\ enq' = [enq EXCEPT !.pc = "idle"]
  /\ published' = published + 1
  /\ UNCHANGED <<buffer, head, deq, overlap, delivered, overtaken>>

Enqueue ==
  \/ EnqueueBegin \/ ReloadHead \/ DropOldest
  \/ WriteBegin \/ WriteEnd \/ PublishTail

-----------------------------------------------------------------------------
(***************************************************************************)
(* dequeue                                                                 *)
(***************************************************************************)

DequeueBegin ==
  /\ deq.pc = "idle"
  /\ deq' = [pc |-> "check", head |-> head, item |-> Nullopt]
  /\ UNCHANGED <<buffer, head, tail, enq, overlap, history>>

\* Mutant of DequeueEmpty: a ring that holds one item counts as empty.
DequeueEmptyEarly ==
  /\ deq.pc = "check"
  /\ deq.head = tail \/ Following(deq.head) = tail
  /\ deq' = [deq EXCEPT !.pc = "idle"]
  /\ UNCHANGED <<buffer, head, tail, enq, overlap, history>>

DequeueEmpty ==
  /\ deq.pc = "check"
  /\ deq.head = tail
  /\ deq' = [deq EXCEPT !.pc = "idle"]
  /\ UNCHANGED <<buffer, head, tail, enq, overlap, history>>

DequeueFound ==
  /\ deq.pc = "check"
  /\ deq.head # tail
  /\ deq' = [deq EXCEPT !.pc = "move"]
  /\ UNCHANGED <<buffer, head, tail, enq, overlap, history>>

MoveBegin ==
  /\ deq.pc = "move"
  /\ deq' = [deq EXCEPT !.pc = "moving"]
  /\ overlap' = (overlap \/ (enq.pc = "writing" /\ SameSlot))
  /\ UNCHANGED <<buffer, head, tail, enq, history>>

\* T item = std::move(buffer[current_head]) leaves a moved-from T behind.
MoveEnd ==
  /\ deq.pc = "moving"
  /\ \E v \in Outcomes(buffer[deq.head]) :
       deq' = [deq EXCEPT !.pc = "store", !.item = v]
  /\ \E left \in IF overlap THEN {buffer[deq.head], Empty, Torn} ELSE {Empty} :
       buffer' = [buffer EXCEPT ![deq.head] = left]
  /\ overlap' = (overlap /\ enq.pc = "writing")
  /\ UNCHANGED <<head, tail, enq, history>>

\* Mutants of StoreHead: head is loaded again; head is left where it was.
StoreHeadReloaded ==
  /\ deq.pc = "store"
  /\ head' = Following(head)
  /\ deq' = [deq EXCEPT !.pc = "idle"]
  /\ delivered' = IF deq.item > 0 THEN deq.item ELSE delivered
  /\ UNCHANGED <<buffer, tail, enq, overlap, published, overtaken>>

StoreHeadUnmoved ==
  /\ deq.pc = "store"
  /\ head' = deq.head
  /\ deq' = [deq EXCEPT !.pc = "idle"]
  /\ delivered' = IF deq.item > 0 THEN deq.item ELSE delivered
  /\ UNCHANGED <<buffer, tail, enq, overlap, published, overtaken>>

StoreHead ==
  /\ deq.pc = "store"
  /\ head' = Following(deq.head)
  /\ deq' = [deq EXCEPT !.pc = "idle"]
  /\ delivered' = IF deq.item > 0 THEN deq.item ELSE delivered
  /\ UNCHANGED <<buffer, tail, enq, overlap, published, overtaken>>

Dequeue ==
  \/ DequeueBegin \/ DequeueEmpty \/ DequeueFound
  \/ MoveBegin \/ MoveEnd \/ StoreHead

Next == Enqueue \/ Dequeue

Spec == Init /\ [][Next]_vars

\* Both threads keep calling, and no call contains a loop or a wait.
FairSpec == Spec /\ WF_vars(Enqueue) /\ WF_vars(Dequeue)

-----------------------------------------------------------------------------
(***************************************************************************)
(* What holds as long as neither side has been overtaken.                  *)
(***************************************************************************)

\* The last item that left the ring, by a dequeue or by a drop.
Oldest == published - Size

\* Slot i lies between head and tail.
Held(i) == Distance(head, i) < Size

(***************************************************************************)
(* The inductive invariant behind them, in parts.  CallInv and the type    *)
(* invariant hold in every state; the other parts until overtaken.         *)
(***************************************************************************)
Reserved == enq.pc \in {"write", "writing", "publish"}

\* The dequeue in progress was passed by one DropOldest: its item is no
\* longer in the ring, but nothing has been written over it.
Lapped == deq.pc # "idle" /\ deq.head # head

CallInv ==
  enq.pc # "idle" => /\ enq.tail = tail
                     /\ enq.item = published + 1
                     /\ published < MaxItems

EnqueueInv ==
  /\ enq.pc = "drop" => enq.head # Following(tail)
  /\ Reserved => ~IsFull
  /\ enq.pc = "publish" => buffer[tail] = enq.item

DequeueInv ==
  /\ deq.pc \in {"move", "moving", "store"} /\ ~Lapped => ~IsEmpty
  /\ deq.pc = "store" /\ ~Lapped => deq.item = Oldest + 1
  /\ delivered <= Oldest

LappedInv ==
  Lapped =>
    /\ head = Following(deq.head)
    /\ delivered < Oldest
    /\ IF deq.pc = "store" THEN deq.item = Oldest ELSE buffer[deq.head] = Oldest

ContentInv ==
  \A i \in Slots :
    Held(i) /\ ~(deq.pc = "store" /\ deq.head = i)
      => buffer[i] = published - Distance(i, tail) + 1

IInv ==
  /\ TypeOK
  /\ CallInv
  /\ ~overtaken => /\ ~overlap
                   /\ EnqueueInv
                   /\ DequeueInv
                   /\ LappedInv
                   /\ ContentInv

(***************************************************************************)
(* FIFO content (enqueue and dequeue together).  The slots from head to    *)
(* tail hold the last Size items in the order they were enqueued, none     *)
(* missing, doubled, moved-from or torn.  The slot a dequeue has just      *)
(* moved out of, and not yet released, is the one exception.               *)
(***************************************************************************)
FifoWindow ==
  ~overtaken =>
    \A i \in Slots :
      Held(i) => \/ buffer[i] = published - Distance(i, tail) + 1
                 \/ deq.pc = "store" /\ deq.head = i

(***************************************************************************)
(* No data race on a slot: the move-assignment of enqueue and the          *)
(* move-construction of dequeue never touch one slot at once, although     *)
(* the producer stores head under the consumer.                            *)
(***************************************************************************)
SlotsNotShared ==
  ~overtaken => ~(enq.pc = "writing" /\ deq.pc = "moving" /\ SameSlot)

(***************************************************************************)
(* Freshness, what dropping the oldest is for: the item a dequeue has      *)
(* moved out is one of the last BufferCapacity the producer put, however   *)
(* many of them it put after the dequeue had begun.                        *)
(***************************************************************************)
Fresh ==
  ~overtaken /\ deq.pc = "store" => deq.item > published - BufferCapacity

(***************************************************************************)
(* The queue implements the drop-oldest FIFO (DropOldestQueue): what a     *)
(* dequeue returns is proper, newer than all it returned before, and at    *)
(* most one item older than those held; an enqueue drops at most one.      *)
(***************************************************************************)
Fifo == INSTANCE DropOldestQueue WITH
  Depth    <- Capacity,
  newest   <- published,
  oldest   <- Oldest,
  reserved <- Reserved,
  returned <- delivered,
  broken   <- overtaken

ImplementsFifo == Fifo!Spec

(***************************************************************************)
(* A dequeue that reports std::nullopt finds the ring empty, or full: the  *)
(* one other case, which the comment "Check if empty" (line 66) misses, is *)
(* an enqueue that dropped the item the dequeue was about to examine and   *)
(* published its own in the slot before.                                   *)
(***************************************************************************)
NulloptEmptyOrFull ==
  [][DequeueEmpty /\ ~overtaken => IsEmpty \/ IsFull]_vars

(***************************************************************************)
(* An item is in the ring once its enqueue has published it: the drop that *)
(* made room for it has left head one slot ahead of the new tail.  A ring  *)
(* of one slot, which the constructor's assert(max_size > 0) admits, is    *)
(* overtaken by its first enqueue and never holds anything.                *)
(***************************************************************************)
HoldsWhatIsPut == [][PublishTail /\ ~overtaken => ~IsEmpty']_vars

(***************************************************************************)
(* No item stays in the ring for ever: while both threads run, an item     *)
(* that was enqueued is handed to the consumer or dropped.                 *)
(***************************************************************************)
NoItemStuck ==
  \A k \in Items : (published >= k) ~> (overtaken \/ Oldest >= k)
=============================================================================
