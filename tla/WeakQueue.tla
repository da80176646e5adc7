----------------------------- MODULE WeakQueue -----------------------------
(***************************************************************************)
(* The ring of src/utils/lock_free_queue.hpp in the memory model of C++:   *)
(* what its acquire, release and relaxed accesses promise, and no more.    *)
(*                                                                         *)
(* An atomic index is the sequence of the stores made to it, in            *)
(* modification order.  A thread has a view: which store to each index,    *)
(* and how many slot accesses of each thread, happened before what it does *)
(* next.  A load returns any store not older than the one in the view; an  *)
(* acquire load takes over the view that the store released.  A store goes *)
(* anywhere after the one in the view, so the two threads' stores to head  *)
(* may take effect late.  A slot access that some access of the other      *)
(* thread to the slot does not happen before is a data race.               *)
(***************************************************************************)
EXTENDS Integers, Sequences, SequencesExt

CONSTANTS
  BufferCapacity,
  MaxItems,        \* bound: enqueue calls
  MaxTakes         \* bound: dequeue calls that find an item

ASSUME WeakAssumption ==
  /\ BufferCapacity \in Nat \ {0}
  /\ {MaxItems, MaxTakes} \subseteq Nat

VARIABLES
  heads,    \* the stores to head, in modification order
  tails,    \* the stores to tail
  view,     \* what each thread knows of
  enq, deq, \* the calls in progress: pc and local variables
  buffer,
  touched,  \* for each slot and thread, the number of its last access
  raced,    \* history: there was a data race
  drops,    \* history: how many times the producer stored head
  taken     \* history: the items the dequeues returned

vars == <<heads, tails, view, enq, deq, buffer, touched, raced, drops, taken>>

Threads == {"producer", "consumer"}
Other(t) == CHOOSE u \in Threads : u # t

Slots == 0 .. BufferCapacity - 1
Empty == 0
Torn  == -1
Values == 1 .. MaxItems \cup {Empty, Torn}

Following(i) == (i + 1) % BufferCapacity

\* Every store to head has an id: its place may change, its id does not.
HeadIds == 0 .. MaxItems + MaxTakes
Views == [head : HeadIds, tail : 1 .. MaxItems + 1, slots : [Threads -> Nat]]
Start == [head |-> 0, tail |-> 1, slots |-> [t \in Threads |-> 0]]

TypeOK ==
  /\ heads \in Seq([id : HeadIds, value : Slots, view : Views])
  /\ tails \in Seq([value : Slots, view : Views])
  /\ view \in [Threads -> Views]
  /\ enq \in [pc : {"idle", "reload", "drop", "write", "publish"}, head : Slots]
  /\ deq \in [pc : {"idle", "check", "move", "store"}, head : Slots, item : Values]
  /\ buffer \in [Slots -> Values]
  /\ touched \in [Slots -> [Threads -> Nat]]
  /\ raced \in BOOLEAN
  /\ drops \in 0 .. MaxItems
  /\ taken \in Seq(Values)

Init ==
  /\ heads = <<[id |-> 0, value |-> 0, view |-> Start]>>
  /\ tails = <<[value |-> 0, view |-> Start]>>
  /\ view = [t \in Threads |-> Start]
  /\ enq = [pc |-> "idle", head |-> 0]
  /\ deq = [pc |-> "idle", head |-> 0, item |-> Empty]
  /\ buffer = [i \in Slots |-> Empty]
  /\ touched = [i \in Slots |-> [t \in Threads |-> 0]]
  /\ raced = FALSE
  /\ drops = 0
  /\ taken = <<>>

-----------------------------------------------------------------------------
(***************************************************************************)
(* The memory                                                              *)
(***************************************************************************)

\* Where the store to head with this id stands in modification order.
Place(id) == CHOOSE k \in DOMAIN heads : heads[k].id = id

Greatest(a, b) == IF a >= b THEN a ELSE b

Join(v, w) ==
  [head  |-> IF Place(v.head) >= Place(w.head) THEN v.head ELSE w.head,
   tail  |-> Greatest(v.tail, w.tail),
   slots |-> [t \in Threads |-> Greatest(v.slots[t], w.slots[t])]]

\* The stores to head and to tail that a load by t may return.
HeadsFor(t) == {heads[k] : k \in Place(view[t].head) .. Len(heads)}
TailsFor(t) == {tails[k] : k \in view[t].tail .. Len(tails)}

RelaxedLoadHead(t, store) == view' = [view EXCEPT ![t].head = store.id]
AcquireLoad(t, store)     == view' = [view EXCEPT ![t] = Join(@, store.view)]

\* A release store of head by t, which may be overtaken by those of the other
\* thread that t does not know of.
ReleaseStoreHead(t, value) ==
  LET released == [view[t] EXCEPT !.head = Len(heads)]
      store    == [id |-> Len(heads), value |-> value, view |-> released]
  IN  \E k \in Place(view[t].head) .. Len(heads) :
        /\ heads' = InsertAt(heads, k + 1, store)
        /\ view' = [view EXCEPT ![t] = released]

\* An access of t to slot i, and whether it races with the other thread.
Races(t, i) == touched[i][Other(t)] > view[t].slots[Other(t)]

Touch(t, i) ==
  LET n == view[t].slots[t] + 1
  IN  /\ view' = [view EXCEPT ![t].slots[t] = n]
      /\ touched' = [touched EXCEPT ![i][t] = n]
      /\ raced' = (raced \/ Races(t, i))

\* What a slot holds, or yields, after an access.
Outcomes(t, i, proper) == IF Races(t, i) THEN {proper, Empty, Torn} ELSE {proper}

-----------------------------------------------------------------------------
(***************************************************************************)
(* enqueue.  The producer's load of tail returns its own last store.       *)
(***************************************************************************)
published    == Len(tails) - 1
current_tail == Last(tails).value
next_tail    == Following(current_tail)

Testing(store) ==
  /\ enq.pc = "idle"
  /\ published < MaxItems
  /\ enq' = [enq EXCEPT !.pc = IF next_tail = store.value THEN "reload" ELSE "write"]
  /\ UNCHANGED <<heads, tails, deq, buffer, touched, raced, drops, taken>>

\* Mutant of EnqueueBegin: head is loaded with memory_order_relaxed.
EnqueueBeginRelaxed ==
  \E store \in HeadsFor("producer") :
    RelaxedLoadHead("producer", store) /\ Testing(store)

EnqueueBegin ==
  \E store \in HeadsFor("producer") :
    AcquireLoad("producer", store) /\ Testing(store)

ReloadHead ==
  /\ enq.pc = "reload"
  /\ \E store \in HeadsFor("producer") :
       /\ RelaxedLoadHead("producer", store)
       /\ enq' = [pc |-> "drop", head |-> Following(store.value)]
  /\ UNCHANGED <<heads, tails, deq, buffer, touched, raced, drops, taken>>

DropOldest ==
  /\ enq.pc = "drop"
  /\ ReleaseStoreHead("producer", enq.head)
  /\ enq' = [enq EXCEPT !.pc = "write"]
  /\ drops' = drops + 1
  /\ UNCHANGED <<tails, deq, buffer, touched, raced, taken>>

Write ==
  /\ enq.pc = "write"
  /\ Touch("producer", current_tail)
  /\ \E v \in Outcomes("producer", current_tail, published + 1) :
       buffer' = [buffer EXCEPT ![current_tail] = v]
  /\ enq' = [enq EXCEPT !.pc = "publish"]
  /\ UNCHANGED <<heads, tails, deq, drops, taken>>

Publishing(released) ==
  /\ enq.pc = "publish"
  /\ tails' = Append(tails, [value |-> next_tail, view |-> released])
  /\ view' = [view EXCEPT !["producer"].tail = Len(tails')]
  /\ enq' = [enq EXCEPT !.pc = "idle"]
  /\ UNCHANGED <<heads, deq, buffer, touched, raced, drops, taken>>

\* Mutant of PublishTail: tail is stored with memory_order_relaxed.
PublishTailRelaxed == Publishing([Start EXCEPT !.tail = Len(tails) + 1])

PublishTail == Publishing([view["producer"] EXCEPT !.tail = Len(tails) + 1])

Enqueue == EnqueueBegin \/ ReloadHead \/ DropOldest \/ Write \/ PublishTail

-----------------------------------------------------------------------------
(***************************************************************************)
(* dequeue                                                                 *)
(***************************************************************************)
DequeueBegin ==
  /\ deq.pc = "idle"
  /\ Len(taken) < MaxTakes
  /\ \E store \in HeadsFor("consumer") :
       /\ RelaxedLoadHead("consumer", store)
       /\ deq' = [deq EXCEPT !.pc = "check", !.head = store.value]
  /\ UNCHANGED <<heads, tails, enq, buffer, touched, raced, drops, taken>>

Check ==
  /\ deq.pc = "check"
  /\ \E store \in TailsFor("consumer") :
       /\ AcquireLoad("consumer", store)
       /\ deq' = [deq EXCEPT !.pc = IF deq.head = store.value THEN "idle" ELSE "move"]
  /\ UNCHANGED <<heads, tails, enq, buffer, touched, raced, drops, taken>>

Move ==
  /\ deq.pc = "move"
  /\ Touch("consumer", deq.head)
  /\ \E v \in Outcomes("consumer", deq.head, buffer[deq.head]) :
       deq' = [deq EXCEPT !.pc = "store", !.item = v]
  /\ \E left \in Outcomes("consumer", deq.head, Empty) :
       buffer' = [buffer EXCEPT ![deq.head] = left]
  /\ UNCHANGED <<heads, tails, enq, drops, taken>>

StoreHead ==
  /\ deq.pc = "store"
  /\ ReleaseStoreHead("consumer", Following(deq.head))
  /\ deq' = [deq EXCEPT !.pc = "idle"]
  /\ taken' = Append(taken, deq.item)
  /\ UNCHANGED <<tails, enq, buffer, touched, raced, drops>>

Dequeue == DequeueBegin \/ Check \/ Move \/ StoreHead

Ended ==
  /\ enq.pc = "idle" /\ published = MaxItems
  /\ deq.pc = "idle" /\ Len(taken) = MaxTakes
  /\ UNCHANGED vars

Next == Enqueue \/ Dequeue \/ Ended

Spec == Init /\ [][Next]_vars

-----------------------------------------------------------------------------
(***************************************************************************)
(* Until the producer stores head for the first time the memory orders     *)
(* given are enough: the ring is the FIFO queue of DropOldestQueue, whose  *)
(* items come out one by one, in order, none missing, torn or doubled.     *)
(***************************************************************************)
Fifo == INSTANCE DropOldestQueue WITH
  Depth    <- BufferCapacity - 1,
  newest   <- published,
  oldest   <- Len(taken),
  reserved <- enq.pc \in {"write", "publish"},
  returned <- IF taken = <<>> THEN 0 ELSE Last(taken),
  broken   <- drops > 0

ImplementsFifo == Fifo!Spec

(***************************************************************************)
(* No data race on a slot before the first drop, with one thread reusing   *)
(* the slots the other has emptied and loads that return old indices.      *)
(* Not after: dequeue loads head with memory_order_relaxed, may see the    *)
(* head that a drop stored with a tail from before, and then moves out of  *)
(* a slot whose write it has not synchronised with.                        *)
(***************************************************************************)
RaceNeedsDrop == raced => drops > 0
=============================================================================
