--------------------------- MODULE WeakQueueProofs ---------------------------
(***************************************************************************)
(* Proofs about the ring in the memory model of C++, for every capacity    *)
(* and any number of calls, up to the first drop.                          *)
(***************************************************************************)
EXTENDS WeakQueue, SequenceTheorems, TLAPS

-----------------------------------------------------------------------------
(***************************************************************************)
(* The inductive invariant.  Before a drop nobody but the consumer stores  *)
(* head, so that the n-th store to head is made after n items were taken,  *)
(* as the n-th store to tail is after n items were put.  What a thread     *)
(* knows of the other is what the store it last read had been released     *)
(* with, and it knows itself.                                              *)
(***************************************************************************)
Taken   == Len(taken)
Written == IF enq.pc = "publish" THEN published + 1 ELSE published
Moved   == IF deq.pc = "store" THEN Taken + 1 ELSE Taken

Knowledge == [head : Nat, tail : Nat, slots : [Threads -> Nat]]
HeadStore == [id : Nat, value : Slots, view : Knowledge]
TailStore == [value : Slots, view : Knowledge]

Shapes ==
  /\ heads \in Seq(HeadStore) /\ tails \in Seq(TailStore) /\ Len(tails) > 0
  /\ view \in [Threads -> Knowledge]
  /\ enq \in [pc : {"idle", "reload", "drop", "write", "publish"}, head : Slots]
  /\ deq \in [pc : {"idle", "check", "move", "store"}, head : Slots, item : Int]
  /\ buffer \in [Slots -> Int]
  /\ touched \in [Slots -> [Threads -> Nat]]
  /\ taken \in Seq(Int)

HeadsInv ==
  /\ Len(heads) = Taken + 1
  /\ \A n \in 0 .. Taken :
       LET store == heads[n + 1]
       IN  /\ store.id = n /\ store.value = n % BufferCapacity
           /\ store.view.head = n /\ store.view.tail <= published + 1
           /\ store.view.slots["consumer"] = n
           /\ store.view.slots["producer"] <= published

TailsInv ==
  \A n \in 0 .. published :
    LET store == tails[n + 1]
    IN  /\ store.value = n % BufferCapacity
        /\ store.view.head <= Taken /\ store.view.tail = n + 1
        /\ store.view.slots["producer"] = n
        /\ store.view.slots["consumer"] <= Moved

\* The producer writes only when it knows of enough items taken, and of every
\* item it knows to be taken it knows that the slot was emptied.
ProducerInv ==
  LET known == view["producer"]
  IN  /\ known.head <= Taken /\ known.tail = published + 1
      /\ known.slots["producer"] = Written
      /\ known.slots["consumer"] <= Moved
      /\ enq.pc # "drop" => known.slots["consumer"] >= known.head
      /\ published - known.head <= BufferCapacity - 1
      /\ enq.pc \in {"write", "publish"} =>
           published - known.head <= BufferCapacity - 2

\* The consumer moves only items it knows to be written.
ConsumerInv ==
  LET known == view["consumer"]
  IN  /\ known.head = Taken
      /\ known.tail <= published + 1 /\ known.tail > Moved
      /\ known.slots["producer"] = known.tail - 1
      /\ known.slots["consumer"] = Moved
      /\ deq.pc # "idle" => deq.head = Taken % BufferCapacity
      /\ deq.pc = "move" => known.tail > Taken + 1

\* The last access of a thread to a slot was for an item that belongs there.
TouchedInv ==
  \A s \in Slots :
    /\ LET n == touched[s]["producer"]
       IN  n > 0 => n <= Written /\ (n - 1) % BufferCapacity = s
    /\ LET n == touched[s]["consumer"]
       IN  n > 0 => n <= Moved /\ (n - 1) % BufferCapacity = s

ContentInv ==
  /\ \A n \in Moved + 1 .. Written : buffer[(n - 1) % BufferCapacity] = n
  /\ \A n \in 1 .. Taken : taken[n] = n
  /\ deq.pc = "store" => deq.item = Taken + 1

Synchronised ==
  /\ Shapes
  /\ HeadsInv /\ TailsInv /\ ProducerInv /\ ConsumerInv /\ TouchedInv /\ ContentInv
  /\ raced = FALSE

WeakInv == drops \in Nat /\ (drops = 0 => Synchronised)

-----------------------------------------------------------------------------
(***************************************************************************)
(* Arithmetic of the ring.                                                 *)
(***************************************************************************)

LEMMA Monotone ==
  ASSUME NEW a \in Int, NEW b \in Int, NEW n \in Nat, a <= b
  PROVE  a * n <= b * n
OBVIOUS

\* A number has one quotient and one remainder.
LEMMA OneQuotient ==
  ASSUME NEW N \in Nat \ {0}, NEW p \in Nat, NEW q \in Nat,
         NEW r \in 0 .. N - 1, NEW s \in 0 .. N - 1, p * N + r = q * N + s
  PROVE  p = q /\ r = s
<1> DEFINE pn == p * N
           qn == q * N
<1>1. pn \in Nat /\ qn \in Nat /\ pn + r = qn + s
  OBVIOUS
<1>2. ASSUME p + 1 <= q PROVE FALSE
  <2>1. (p + 1) * N <= q * N
    BY <1>2, Monotone
  <2>2. (p + 1) * N = pn + N
    OBVIOUS
  <2> HIDE DEF pn
  <2>3. QED
    BY <1>1, <2>1, <2>2
<1>3. ASSUME q + 1 <= p PROVE FALSE
  <2>1. (q + 1) * N <= p * N
    BY <1>3, Monotone
  <2>2. (q + 1) * N = qn + N
    OBVIOUS
  <2> HIDE DEF qn
  <2>3. QED
    BY <1>1, <2>1, <2>2
<1>4. p = q
  BY <1>2, <1>3
<1>5. QED
  BY <1>1, <1>4

LEMMA Remainder ==
  ASSUME NEW N \in Nat \ {0}, NEW n \in Nat
  PROVE  n % N \in 0 .. N - 1 /\ \E q \in Nat : n = q * N + (n % N)
<1>1. n % N \in 0 .. N - 1
  OBVIOUS
<1>2. n \div N \in Nat
  OBVIOUS
<1>3. n = (n \div N) * N + (n % N)
  OBVIOUS
<1>4. QED
  BY <1>1, <1>2, <1>3

LEMMA RemainderIs ==
  ASSUME NEW N \in Nat \ {0}, NEW n \in Nat, NEW q \in Nat, NEW r \in 0 .. N - 1,
         n = q * N + r
  PROVE  n % N = r
<1>1. PICK p \in Nat : n = p * N + (n % N)
  BY Remainder
<1> DEFINE s == n % N
<1>2. s \in 0 .. N - 1 /\ p * N + s = q * N + r
  BY <1>1, Remainder
<1> HIDE DEF s
<1>3. s = r
  BY <1>2, OneQuotient
<1>4. QED
  BY <1>3 DEF s

\* The n-th item is in slot n % BufferCapacity, the next in the next slot.
LEMMA SlotOf == \A n \in Nat : n % BufferCapacity \in Slots
BY WeakAssumption DEF Slots

LEMMA NextSlot ==
  ASSUME NEW n \in Nat
  PROVE  Following(n % BufferCapacity) = (n + 1) % BufferCapacity
<1> DEFINE N == BufferCapacity
           r == n % N
<1>1. N \in Nat \ {0}
  BY WeakAssumption
<1> HIDE DEF N
<1>2. PICK q \in Nat : n = q * N + r
  BY <1>1, Remainder
<1>3. r \in 0 .. N - 1
  BY <1>1, Remainder
<1> HIDE DEF r
<1>4. q * N \in Nat /\ (q + 1) * N = q * N + N
  BY <1>1
<1>5. CASE r + 1 < N
  <2>1. n + 1 = q * N + (r + 1) /\ r + 1 \in 0 .. N - 1
    BY <1>1, <1>2, <1>3, <1>4, <1>5
  <2>2. (n + 1) % N = r + 1
    <3>1. n + 1 \in Nat /\ q \in Nat
      OBVIOUS
    <3>2. QED
      BY <1>1, <2>1, <3>1, RemainderIs
  <2>3. (r + 1) % N = r + 1
    BY <1>1, <1>3, <1>5
  <2>4. QED
    BY <2>2, <2>3 DEF Following, N, r
<1>6. CASE r + 1 = N
  <2>1. n + 1 = (q + 1) * N + 0 /\ 0 \in 0 .. N - 1 /\ q + 1 \in Nat
    BY <1>1, <1>2, <1>3, <1>4, <1>6
  <2>2. (n + 1) % N = 0
    <3>1. n + 1 \in Nat
      OBVIOUS
    <3>2. QED
      BY <1>1, <2>1, <3>1, RemainderIs
  <2>3. (r + 1) % N = 0
    BY <1>1, <1>6
  <2>4. QED
    BY <2>2, <2>3 DEF Following, N, r
<1>7. QED
  BY <1>1, <1>3, <1>5, <1>6

\* Two items in one slot are at least a whole ring apart.
LEMMA SameSlot ==
  ASSUME NEW a \in Nat, NEW b \in Nat, a <= b, b < a + BufferCapacity,
         a % BufferCapacity = b % BufferCapacity
  PROVE  a = b
<1> DEFINE N == BufferCapacity
           r == a % N
<1>1. N \in Nat \ {0}
  BY WeakAssumption
<1>2. a % N = r /\ b % N = r /\ b < a + N
  OBVIOUS
<1> HIDE DEF N
<1>3. PICK p \in Nat : a = p * N + r
  BY <1>1, <1>2, Remainder
<1>4. PICK q \in Nat : b = q * N + r
  BY <1>1, <1>2, Remainder
<1>5. r \in Int
  BY <1>1, Remainder
<1> HIDE DEF r
<1>6. ASSUME p + 1 <= q PROVE FALSE
  <2>1. (p + 1) * N <= q * N /\ (p + 1) * N = p * N + N
    BY <1>1, <1>6, Monotone
  <2>2. p * N \in Nat /\ q * N \in Nat
    BY <1>1
  <2>3. QED
    BY <1>1, <1>2, <1>3, <1>4, <1>5, <2>1, <2>2
<1>7. q <= p
  BY <1>6
<1>8. q * N <= p * N /\ p * N \in Nat /\ q * N \in Nat
  BY <1>1, <1>7, Monotone
<1>9. QED
  BY <1>3, <1>4, <1>5, <1>8

-----------------------------------------------------------------------------
(***************************************************************************)
(* The memory, before the first drop.                                      *)
(***************************************************************************)

LEMMA Others == Other("producer") = "consumer" /\ Other("consumer") = "producer"
<1>1. \A u \in Threads : u # "producer" <=> u = "consumer"
  BY DEF Threads
<1>2. \A u \in Threads : u # "consumer" <=> u = "producer"
  BY DEF Threads
<1>3. "producer" \in Threads /\ "consumer" \in Threads
  BY DEF Threads
<1>4. QED
  BY <1>1, <1>2, <1>3 DEF Other

LEMMA Lengths ==
  ASSUME Shapes
  PROVE  /\ Taken \in Nat /\ published \in Nat /\ Written \in Nat /\ Moved \in Nat
         /\ Len(tails) = published + 1 /\ Len(heads) \in Nat
         /\ DOMAIN heads = 1 .. Len(heads)
BY DEF Shapes, Taken, published, Written, Moved

LEMMA HeadStores ==
  ASSUME Shapes, NEW n \in 0 .. Len(heads) - 1
  PROVE  heads[n + 1] \in HeadStore
<1>1. n + 1 \in 1 .. Len(heads)
  BY Lengths
<1>2. QED
  BY <1>1, ElementOfSeq DEF Shapes

LEMMA TailStores ==
  ASSUME Shapes, NEW n \in 0 .. published
  PROVE  tails[n + 1] \in TailStore
<1>1. n + 1 \in 1 .. Len(tails)
  BY Lengths
<1>2. QED
  BY <1>1, ElementOfSeq DEF Shapes

\* The stores to head stand in the order they were made in.
LEMMA InPlace ==
  ASSUME Shapes, HeadsInv, NEW n \in 0 .. Taken
  PROVE  Place(n) = n + 1
<1>1. n + 1 \in DOMAIN heads /\ heads[n + 1].id = n
  BY Lengths DEF HeadsInv
<1>2. ASSUME NEW k \in DOMAIN heads, heads[k].id = n PROVE k = n + 1
  <2>1. k - 1 \in 0 .. Taken /\ k \in Int
    BY Lengths DEF HeadsInv
  <2>2. heads[(k - 1) + 1].id = k - 1
    BY <2>1 DEF HeadsInv
  <2>3. (k - 1) + 1 = k
    BY <2>1
  <2>4. n = k - 1
    BY <1>2, <2>2, <2>3
  <2>5. QED
    BY <2>1, <2>4
<1>3. QED
  BY <1>1, <1>2 DEF Place

\* Of two views the later store to head is the one known of afterwards.
LEMMA Joined ==
  ASSUME Shapes, HeadsInv, NEW v \in Knowledge, NEW w \in Knowledge,
         v.head <= Taken, w.head <= Taken
  PROVE  /\ Join(v, w) \in Knowledge
         /\ Join(v, w).head = Greatest(v.head, w.head)
         /\ Join(v, w).tail = Greatest(v.tail, w.tail)
         /\ \A t \in Threads :
              Join(v, w).slots[t] = Greatest(v.slots[t], w.slots[t])
<1>1. v.head \in 0 .. Taken /\ w.head \in 0 .. Taken
  BY Lengths DEF Knowledge
<1>2. Place(v.head) = v.head + 1 /\ Place(w.head) = w.head + 1
  BY <1>1, InPlace
<1>3. \A a, b \in Nat : Greatest(a, b) \in Nat
  BY DEF Greatest
<1>4. Join(v, w).head = Greatest(v.head, w.head)
  BY <1>1, <1>2 DEF Join, Greatest
<1>5. /\ Join(v, w).tail = Greatest(v.tail, w.tail)
      /\ \A t \in Threads : Join(v, w).slots[t] = Greatest(v.slots[t], w.slots[t])
  BY DEF Join
<1>6. Join(v, w) \in Knowledge
  <2>1. Greatest(v.head, w.head) \in Nat /\ Greatest(v.tail, w.tail) \in Nat
    BY <1>3 DEF Knowledge
  <2>2. [t \in Threads |-> Greatest(v.slots[t], w.slots[t])] \in [Threads -> Nat]
    BY <1>3 DEF Knowledge
  <2>3. (IF Place(v.head) >= Place(w.head) THEN v.head ELSE w.head) \in Nat
    BY <1>1, Lengths
  <2>4. QED
    BY <2>1, <2>2, <2>3 DEF Join, Knowledge
<1>7. QED
  BY <1>4, <1>5, <1>6

\* A load of head yields a store that is not older than the one known of.
LEMMA HeadLoaded ==
  ASSUME Shapes, HeadsInv, NEW t \in Threads, view[t].head <= Taken,
         NEW store \in HeadsFor(t)
  PROVE  \E n \in view[t].head .. Taken : n \in 0 .. Taken /\ store = heads[n + 1]
<1>1. view[t].head \in 0 .. Taken
  BY Lengths DEF Shapes, Knowledge
<1>2. Place(view[t].head) = view[t].head + 1
  BY <1>1, InPlace
<1>3. PICK k \in view[t].head + 1 .. Taken + 1 : store = heads[k]
  BY <1>2 DEF HeadsFor, HeadsInv
<1>4. k - 1 \in view[t].head .. Taken /\ k - 1 \in 0 .. Taken /\ (k - 1) + 1 = k
  BY <1>1, Lengths
<1>5. QED
  BY <1>3, <1>4

LEMMA TailLoaded ==
  ASSUME Shapes, view["consumer"].tail > 0, NEW store \in TailsFor("consumer")
  PROVE  \E n \in view["consumer"].tail - 1 .. published :
           n \in 0 .. published /\ store = tails[n + 1]
<1>1. view["consumer"].tail \in Nat
  BY DEF Shapes, Knowledge, Threads
<1>2. PICK k \in view["consumer"].tail .. published + 1 : store = tails[k]
  BY Lengths DEF TailsFor
<1>3. /\ k - 1 \in view["consumer"].tail - 1 .. published /\ k - 1 \in 0 .. published
      /\ (k - 1) + 1 = k
  BY <1>1, Lengths
<1>4. QED
  BY <1>2, <1>3

\* The producer's own last store to tail gives the slot of the next item.
LEMMA TailNow ==
  ASSUME Shapes, TailsInv
  PROVE  /\ current_tail = published % BufferCapacity /\ current_tail \in Slots
         /\ next_tail = (published + 1) % BufferCapacity /\ next_tail \in Slots
<1>1. published \in 0 .. published /\ Len(tails) = published + 1
  BY Lengths
<1>2. tails[published + 1].value = published % BufferCapacity
  BY <1>1 DEF TailsInv
<1>3. current_tail = published % BufferCapacity
  BY <1>1, <1>2 DEF current_tail, Last
<1>4. next_tail = (published + 1) % BufferCapacity
  BY <1>1, <1>3, NextSlot DEF next_tail
<1>5. published + 1 \in Nat /\ published \in Nat
  BY Lengths
<1>6. QED
  BY <1>3, <1>4, <1>5, SlotOf

-----------------------------------------------------------------------------
LEMMA WeakInvInit == Init => WeakInv
<1> SUFFICES ASSUME Init PROVE WeakInv
  OBVIOUS
<1>1. /\ BufferCapacity \in Nat \ {0} /\ 0 \in Slots /\ 0 % BufferCapacity = 0
      /\ Empty \in Int
  BY WeakAssumption DEF Slots, Empty
<1>2. Start \in Knowledge
  BY DEF Start, Knowledge
<1>3. Shapes
  <2>1. heads \in Seq(HeadStore) /\ tails \in Seq(TailStore)
    BY <1>1, <1>2 DEF Init, HeadStore, TailStore
  <2>2. taken \in Seq(Int)
    BY EmptySeq DEF Init
  <2>3. QED
    BY <1>1, <1>2, <2>1, <2>2 DEF Init, Shapes
<1>4. Taken = 0 /\ published = 0 /\ Written = 0 /\ Moved = 0
  BY DEF Init, Taken, published, Written, Moved
<1>5. /\ Start.head = 0 /\ Start.tail = 1
      /\ Start.slots["producer"] = 0 /\ Start.slots["consumer"] = 0
      /\ view["producer"] = Start /\ view["consumer"] = Start
  BY DEF Init, Start, Threads
<1>6. heads[1] = [id |-> 0, value |-> 0, view |-> Start] /\ Len(heads) = 1
  BY DEF Init
<1>7. tails[1] = [value |-> 0, view |-> Start]
  BY DEF Init
<1>8. HeadsInv /\ TailsInv
  BY <1>1, <1>4, <1>5, <1>6, <1>7 DEF HeadsInv, TailsInv
<1>9. ProducerInv /\ ConsumerInv
  BY <1>1, <1>4, <1>5 DEF Init, ProducerInv, ConsumerInv
<1>10. TouchedInv
  BY DEF Init, TouchedInv, Threads
<1>11. ContentInv
  BY <1>4 DEF Init, ContentInv
<1>12. QED
  BY <1>3, <1>8, <1>9, <1>10, <1>11 DEF Init, WeakInv, Synchronised

-----------------------------------------------------------------------------
(***************************************************************************)
(* enqueue                                                                 *)
(***************************************************************************)

\* With a whole ring between them two items are in one slot.
LEMMA WholeRing ==
  ASSUME NEW n \in Nat
  PROVE  (n + BufferCapacity) % BufferCapacity = n % BufferCapacity
<1> DEFINE N == BufferCapacity
           r == n % N
<1>1. N \in Nat \ {0}
  BY WeakAssumption
<1> HIDE DEF N
<1>2. PICK q \in Nat : n = q * N + r
  BY <1>1, Remainder
<1>3. r \in 0 .. N - 1
  BY <1>1, Remainder
<1> HIDE DEF r
<1>4. n + N = (q + 1) * N + r /\ q + 1 \in Nat /\ n + N \in Nat
  BY <1>1, <1>2, <1>3
<1>5. (n + N) % N = r
  BY <1>1, <1>3, <1>4, RemainderIs
<1>6. QED
  BY <1>5 DEF N, r

LEMMA EnqueueBeginStep ==
  ASSUME Synchronised, EnqueueBegin
  PROVE  Synchronised'
<1>0. Shapes /\ HeadsInv /\ TailsInv /\ ProducerInv
  BY DEF Synchronised
<1>1. PICK store \in HeadsFor("producer") :
        AcquireLoad("producer", store) /\ Testing(store)
  BY DEF EnqueueBegin
<1> DEFINE known  == view["producer"]
           joined == Join(known, store.view)
<1>2. /\ enq.pc = "idle" /\ known \in Knowledge /\ known.head <= Taken
      /\ known.tail = published + 1 /\ known.slots["producer"] = published
      /\ known.slots["consumer"] \in known.head .. Moved
      /\ published - known.head <= BufferCapacity - 1
      /\ "producer" \in Threads /\ "consumer" \in Threads
  BY <1>0, <1>1 DEF Testing, ProducerInv, Written, Shapes, Threads, Knowledge
<1>3. PICK n \in known.head .. Taken : n \in 0 .. Taken /\ store = heads[n + 1]
  BY <1>0, <1>2, HeadLoaded
<1>4. /\ store.value = n % BufferCapacity /\ store.view \in Knowledge
      /\ store.view.head = n /\ store.view.tail <= published + 1
      /\ store.view.slots["consumer"] = n /\ store.view.slots["producer"] <= published
  <2>1. n \in 0 .. Len(heads) - 1
    BY <1>0, <1>3, Lengths DEF HeadsInv
  <2>2. heads[n + 1] \in HeadStore
    BY <1>0, <2>1, HeadStores
  <2>3. QED
    BY <1>0, <1>3, <2>2 DEF HeadsInv, HeadStore
<1>5. /\ Taken \in Nat /\ published \in Nat /\ Moved \in Nat /\ n <= Moved
      /\ BufferCapacity \in Nat
  BY <1>0, <1>3, Lengths, WeakAssumption DEF Moved
<1>6. /\ joined \in Knowledge
      /\ joined.head = n /\ joined.tail = published + 1
      /\ joined.slots["producer"] = published
      /\ joined.slots["consumer"] \in n .. Moved
  <2>1. /\ joined \in Knowledge
        /\ joined.head = Greatest(known.head, n)
        /\ joined.tail = Greatest(known.tail, store.view.tail)
        /\ joined.slots["producer"]
             = Greatest(known.slots["producer"], store.view.slots["producer"])
        /\ joined.slots["consumer"] = Greatest(known.slots["consumer"], n)
    BY <1>0, <1>2, <1>3, <1>4, Joined
  <2>2. /\ known.head \in Nat /\ store.view.tail \in Nat
        /\ store.view.slots["producer"] \in Nat
    BY <1>2, <1>4 DEF Knowledge
  <2> HIDE DEF joined, known
  <2>3. QED
    BY <1>2, <1>3, <1>4, <1>5, <2>1, <2>2 DEF Greatest
<1>7. /\ view' = [view EXCEPT !["producer"] = joined]
      /\ view' \in [Threads -> Knowledge]
      /\ view'["producer"] = joined /\ view'["consumer"] = view["consumer"]
  <2>1. view' = [view EXCEPT !["producer"] = joined]
    BY <1>1 DEF AcquireLoad
  <2>2. view \in [Threads -> Knowledge]
    BY <1>0 DEF Shapes
  <2> HIDE DEF joined
  <2>3. QED
    BY <1>2, <1>6, <2>1, <2>2
<1> HIDE DEF joined, known
<1>8. /\ UNCHANGED <<heads, tails, deq, buffer, touched, raced, taken>>
      /\ enq' = [enq EXCEPT !.pc = IF next_tail = store.value THEN "reload" ELSE "write"]
  BY <1>1 DEF Testing
<1>9. /\ Taken' = Taken /\ published' = published /\ Moved' = Moved
      /\ Written' = Written /\ Written = published
      /\ enq'.pc \in {"reload", "write"} /\ enq'.head = enq.head /\ enq.head \in Slots
      /\ enq'.pc = "write" => next_tail # store.value
      /\ enq' \in [pc : {"idle", "reload", "drop", "write", "publish"}, head : Slots]
  BY <1>0, <1>2, <1>8 DEF Taken, published, Moved, Written, Shapes
<1>10. enq'.pc = "write" => published - n <= BufferCapacity - 2
  <2>1. published - n <= BufferCapacity - 1
    BY <1>2, <1>3, <1>5 DEF Knowledge
  <2>2. published - n = BufferCapacity - 1 => next_tail = store.value
    <3>1. published - n = BufferCapacity - 1 => published + 1 = n + BufferCapacity
      BY <1>5
    <3>2. (n + BufferCapacity) % BufferCapacity = n % BufferCapacity
      BY <1>3, WholeRing
    <3>3. next_tail = (published + 1) % BufferCapacity
      BY <1>0, TailNow
    <3>4. QED
      BY <1>4, <3>1, <3>2, <3>3
  <2>3. QED
    BY <1>5, <1>9, <2>1, <2>2
<1>11. ProducerInv'
  BY <1>3, <1>5, <1>6, <1>7, <1>9, <1>10, <1>2 DEF ProducerInv, Knowledge
<1>12. ConsumerInv'
  BY <1>7, <1>8, <1>9 DEF Synchronised, ConsumerInv
<1>13. Shapes'
  BY <1>0, <1>7, <1>8, <1>9 DEF Shapes
<1>14. HeadsInv' /\ TailsInv' /\ TouchedInv' /\ ContentInv' /\ raced' = FALSE
  BY <1>8, <1>9 DEF Synchronised, HeadsInv, TailsInv, TouchedInv, ContentInv
<1>15. QED
  BY <1>11, <1>12, <1>13, <1>14 DEF Synchronised

\* Reading head again, relaxed: the producer now may know of an item taken and
\* not of the slot emptied; it is about to store head itself.
LEMMA ReloadHeadStep ==
  ASSUME Synchronised, ReloadHead
  PROVE  Synchronised'
<1>0. Shapes /\ HeadsInv /\ TailsInv /\ ProducerInv
  BY DEF Synchronised
<1> DEFINE known == view["producer"]
<1>1. PICK store \in HeadsFor("producer") :
        /\ view' = [view EXCEPT !["producer"].head = store.id]
        /\ enq' = [pc |-> "drop", head |-> Following(store.value)]
  BY DEF ReloadHead, RelaxedLoadHead
<1>2. /\ enq.pc = "reload" /\ known \in Knowledge /\ known.head <= Taken
      /\ UNCHANGED <<heads, tails, deq, buffer, touched, raced, taken>>
      /\ "producer" \in Threads /\ "consumer" \in Threads
  BY <1>0 DEF ReloadHead, ProducerInv, Shapes, Threads
<1>3. PICK n \in known.head .. Taken : n \in 0 .. Taken /\ store = heads[n + 1]
  BY <1>0, <1>1, <1>2, HeadLoaded
<1>4. store.id = n /\ store.value = n % BufferCapacity
  BY <1>0, <1>3 DEF HeadsInv
<1>5. /\ Taken \in Nat /\ published \in Nat /\ Moved \in Nat /\ n \in Nat
      /\ BufferCapacity \in Nat /\ known.head \in Nat
  BY <1>0, <1>2, <1>3, Lengths, WeakAssumption DEF Knowledge
<1>6. enq' \in [pc : {"idle", "reload", "drop", "write", "publish"}, head : Slots]
  BY <1>1, <1>4, <1>5, NextSlot, SlotOf
<1>7. /\ view'["producer"] = [known EXCEPT !.head = n]
      /\ view'["consumer"] = view["consumer"]
      /\ view' \in [Threads -> Knowledge]
  <2>1. view \in [Threads -> Knowledge]
    BY <1>0 DEF Shapes
  <2>2. [known EXCEPT !.head = n] \in Knowledge
    BY <1>2, <1>5 DEF Knowledge
  <2>3. QED
    BY <1>1, <1>2, <1>4, <2>1, <2>2
<1>8. /\ Taken' = Taken /\ published' = published /\ Moved' = Moved
      /\ Written' = Written /\ enq'.pc = "drop"
  BY <1>1, <1>2 DEF Taken, published, Moved, Written
<1>9. ProducerInv'
  <2>1. /\ view'["producer"].head = n /\ view'["producer"].tail = known.tail
        /\ view'["producer"].slots = known.slots
    BY <1>2, <1>7 DEF Knowledge
  <2>2. /\ known.tail = published + 1 /\ known.slots["producer"] = Written
        /\ known.slots["consumer"] <= Moved
        /\ published - known.head <= BufferCapacity - 1
    BY <1>0 DEF ProducerInv
  <2>3. n <= Taken /\ published - n <= BufferCapacity - 1
    BY <1>3, <1>5, <2>2
  <2> HIDE DEF known
  <2>4. QED
    BY <1>8, <2>1, <2>2, <2>3 DEF ProducerInv
<1>10. ConsumerInv'
  BY <1>7, <1>2, <1>8 DEF Synchronised, ConsumerInv
<1>11. Shapes'
  BY <1>0, <1>2, <1>6, <1>7 DEF Shapes
<1>12. HeadsInv' /\ TailsInv' /\ TouchedInv' /\ ContentInv' /\ raced' = FALSE
  BY <1>2, <1>8 DEF Synchronised, HeadsInv, TailsInv, TouchedInv, ContentInv
<1>13. QED
  BY <1>9, <1>10, <1>11, <1>12 DEF Synchronised

\* The write of an item: the consumer's last access to the slot was for an item
\* a whole ring before, which the producer knows to have left.
LEMMA WriteStep ==
  ASSUME Synchronised, Write
  PROVE  Synchronised'
<1> DEFINE known == view["producer"]
           s     == current_tail
           m     == touched[s]["consumer"]
<1>0. Shapes /\ TailsInv /\ ProducerInv /\ TouchedInv /\ ContentInv /\ ConsumerInv
  BY DEF Synchronised
<1>1. /\ enq.pc = "write" /\ enq' = [enq EXCEPT !.pc = "publish"]
      /\ UNCHANGED <<heads, tails, deq, drops, taken>>
      /\ Touch("producer", s)
      /\ \E v \in Outcomes("producer", s, published + 1) :
           buffer' = [buffer EXCEPT ![s] = v]
  BY DEF Write
<1>2. /\ s = published % BufferCapacity /\ s \in Slots
      /\ "producer" \in Threads /\ "consumer" \in Threads
      /\ Taken \in Nat /\ published \in Nat /\ Moved \in Nat
      /\ BufferCapacity \in Nat /\ Written = published
  BY <1>0, <1>1, TailNow, Lengths, WeakAssumption DEF Threads, Written
<1>3. /\ known \in Knowledge /\ known.head \in Nat /\ known.head <= Taken
      /\ known.slots["producer"] = published
      /\ known.slots["consumer"] \in known.head .. Moved
      /\ published - known.head <= BufferCapacity - 2
      /\ known.tail = published + 1
      /\ Moved <= published
  <2>1. known \in Knowledge
    BY <1>0 DEF Shapes, Threads
  <2>2. view["consumer"] \in Knowledge
    BY <1>0 DEF Shapes, Threads
  <2>3. Moved <= published
    BY <1>0, <1>2, <2>2 DEF ConsumerInv, Knowledge
  <2>4. QED
    BY <1>0, <1>1, <1>2, <2>1, <2>3 DEF ProducerInv, Knowledge, Threads
<1>4. m \in Nat /\ m <= known.slots["consumer"]
  <2>1. m \in Nat
    BY <1>0, <1>2 DEF Shapes
  <2>2. m > 0 => m <= Moved /\ (m - 1) % BufferCapacity = s
    BY <1>0, <1>2 DEF TouchedInv
  <2>3. ASSUME m > known.slots["consumer"] PROVE FALSE
    <3> HIDE DEF m, known, s
    <3>1. /\ m - 1 \in Nat /\ m - 1 <= published /\ published < (m - 1) + BufferCapacity
          /\ m - 1 # published
      BY <1>2, <1>3, <2>1, <2>2, <2>3
    <3>2. (m - 1) % BufferCapacity = published % BufferCapacity
      BY <1>2, <1>3, <2>1, <2>2, <2>3
    <3>3. QED
      BY <1>2, <3>1, <3>2, SameSlot
  <2> HIDE DEF m
  <2>4. QED
    BY <1>3, <2>1, <2>3
<1>5. ~Races("producer", s)
  BY <1>3, <1>4, Others DEF Races
<1>6. /\ view' = [view EXCEPT !["producer"].slots["producer"] = published + 1]
      /\ touched' = [touched EXCEPT ![s]["producer"] = published + 1]
      /\ raced' = FALSE
      /\ buffer' = [buffer EXCEPT ![s] = published + 1]
  <2>1. raced' = FALSE
    BY <1>1, <1>5 DEF Touch, Synchronised
  <2>2. buffer' = [buffer EXCEPT ![s] = published + 1]
    BY <1>1, <1>5 DEF Outcomes
  <2>3. QED
    BY <1>1, <1>3, <2>1, <2>2 DEF Touch
<1>7. /\ view' \in [Threads -> Knowledge]
      /\ view'["consumer"] = view["consumer"]
      /\ view'["producer"].head = known.head /\ view'["producer"].tail = known.tail
      /\ view'["producer"].slots["producer"] = published + 1
      /\ view'["producer"].slots["consumer"] = known.slots["consumer"]
  <2>1. view \in [Threads -> Knowledge]
    BY <1>0 DEF Shapes
  <2>2. view'["producer"] = [known EXCEPT !.slots["producer"] = published + 1]
    BY <1>2, <1>6, <2>1
  <2>3. [known EXCEPT !.slots["producer"] = published + 1] \in Knowledge
    BY <1>2, <1>3 DEF Knowledge
  <2>4. view' \in [Threads -> Knowledge] /\ view'["consumer"] = view["consumer"]
    BY <1>2, <1>6, <2>1, <2>2, <2>3
  <2>5. QED
    BY <1>2, <1>3, <2>2, <2>4 DEF Knowledge
<1>8. /\ Taken' = Taken /\ published' = published /\ Moved' = Moved
      /\ Written' = published + 1 /\ enq'.pc = "publish"
      /\ enq' \in [pc : {"idle", "reload", "drop", "write", "publish"}, head : Slots]
  BY <1>0, <1>1 DEF Taken, published, Moved, Written, Shapes
<1>9. /\ touched' \in [Slots -> [Threads -> Nat]]
      /\ touched'[s]["producer"] = published + 1
      /\ \A j \in Slots : touched'[j]["consumer"] = touched[j]["consumer"]
      /\ \A j \in Slots \ {s} : touched'[j] = touched[j]
  <2>1. touched \in [Slots -> [Threads -> Nat]]
    BY <1>0 DEF Shapes
  <2>2. touched'[s] = [touched[s] EXCEPT !["producer"] = published + 1]
    BY <1>2, <1>6, <2>1
  <2>3. touched'[s] \in [Threads -> Nat]
    BY <1>2, <2>1, <2>2
  <2>4. \A j \in Slots \ {s} : touched'[j] = touched[j]
    BY <1>6, <2>1
  <2>5. touched' \in [Slots -> [Threads -> Nat]]
    BY <1>2, <1>6, <2>1, <2>2, <2>3
  <2>6. /\ touched'[s]["producer"] = published + 1
        /\ touched'[s]["consumer"] = touched[s]["consumer"]
    BY <1>2, <2>1, <2>2
  <2>7. QED
    BY <2>4, <2>5, <2>6
<1>10. /\ buffer' \in [Slots -> Int] /\ buffer'[s] = published + 1
       /\ \A j \in Slots \ {s} : buffer'[j] = buffer[j]
  <2>1. buffer \in [Slots -> Int] /\ published + 1 \in Int
    BY <1>0, <1>2 DEF Shapes
  <2> HIDE DEF s
  <2>2. QED
    BY <1>2, <1>6, <2>1
<1> HIDE DEF known, s, m
<1>11. ProducerInv'
  BY <1>1, <1>2, <1>3, <1>7, <1>8 DEF ProducerInv
<1>12. ConsumerInv'
  BY <1>0, <1>1, <1>7, <1>8 DEF ConsumerInv
<1>13. TouchedInv'
  <2>1. ASSUME NEW j \in Slots, NEW n \in Nat, n = touched'[j]["producer"], n > 0
        PROVE  n <= published + 1 /\ (n - 1) % BufferCapacity = j
    <3>1. CASE j = s
      <4>1. n = published + 1 /\ n - 1 = published
        BY <1>2, <1>9, <2>1, <3>1
      <4>2. QED
        BY <1>2, <3>1, <4>1
    <3>2. CASE j # s
      <4>1. n = touched[j]["producer"]
        BY <1>9, <2>1, <3>2
      <4>2. n <= published /\ (n - 1) % BufferCapacity = j
        BY <1>0, <1>2, <2>1, <4>1 DEF TouchedInv
      <4>3. QED
        BY <1>2, <4>2
    <3>3. QED
      BY <3>1, <3>2
  <2>2. \A j \in Slots : touched'[j]["producer"] \in Nat
    BY <1>2, <1>9
  <2>3. QED
    BY <1>0, <1>8, <1>9, <2>1, <2>2 DEF TouchedInv
<1>14. ContentInv'
  <2>1. ASSUME NEW n \in Moved + 1 .. published + 1
        PROVE  buffer'[(n - 1) % BufferCapacity] = n
    <3>0. n \in Nat /\ n - 1 \in Nat /\ (n - 1) % BufferCapacity \in Slots
      BY <1>2, SlotOf
    <3>1. CASE n = published + 1
      BY <1>2, <1>10, <3>1
    <3>2. CASE n # published + 1
      <4>1. n \in Moved + 1 .. Written
        BY <1>2, <3>2
      <4>2. buffer[(n - 1) % BufferCapacity] = n
        BY <1>0, <4>1 DEF ContentInv
      <4>3. (n - 1) % BufferCapacity # s
        <5>1. Taken <= Moved
          BY <1>2 DEF Moved
        <5>2. /\ n - 1 <= published /\ published < (n - 1) + BufferCapacity
              /\ n - 1 # published
          BY <1>2, <1>3, <3>0, <3>2, <4>1, <5>1
        <5>3. QED
          BY <1>2, <3>0, <5>2, SameSlot
      <4>4. QED
        BY <1>10, <3>0, <4>2, <4>3
    <3>3. QED
      BY <3>1, <3>2
  <2>2. QED
    BY <1>0, <1>1, <1>8, <2>1 DEF ContentInv
<1>15. Shapes'
  BY <1>0, <1>1, <1>7, <1>8, <1>9, <1>10 DEF Shapes
<1>16. HeadsInv' /\ TailsInv'
  BY <1>1, <1>8 DEF Synchronised, HeadsInv, TailsInv
<1>17. QED
  BY <1>6, <1>11, <1>12, <1>13, <1>14, <1>15, <1>16 DEF Synchronised

\* The store of tail releases all the producer knows, the write included.
LEMMA PublishTailStep ==
  ASSUME Synchronised, PublishTail
  PROVE  Synchronised'
<1> DEFINE known    == view["producer"]
           released == [known EXCEPT !.tail = Len(tails) + 1]
           store    == [value |-> next_tail, view |-> released]
<1>0. Shapes /\ HeadsInv /\ TailsInv /\ ProducerInv /\ ConsumerInv
  BY DEF Synchronised
<1>1. /\ enq.pc = "publish" /\ enq' = [enq EXCEPT !.pc = "idle"]
      /\ tails' = Append(tails, store)
      /\ view' = [view EXCEPT !["producer"].tail = Len(tails')]
      /\ UNCHANGED <<heads, deq, buffer, touched, raced, drops, taken>>
  BY DEF PublishTail, Publishing
<1>2. /\ next_tail = (published + 1) % BufferCapacity /\ next_tail \in Slots
      /\ "producer" \in Threads /\ "consumer" \in Threads
      /\ Taken \in Nat /\ published \in Nat /\ Moved \in Nat
      /\ BufferCapacity \in Nat /\ Written = published + 1
      /\ Len(tails) = published + 1
  BY <1>0, <1>1, TailNow, Lengths, WeakAssumption DEF Threads, Written
<1>3. /\ known \in Knowledge /\ known.head \in Nat /\ known.head <= Taken
      /\ known.slots["producer"] = published + 1
      /\ known.slots["consumer"] \in known.head .. Moved
      /\ published - known.head <= BufferCapacity - 2
  <2>1. known \in Knowledge
    BY <1>0 DEF Shapes, Threads
  <2>2. QED
    BY <1>0, <1>1, <1>2, <2>1 DEF ProducerInv, Knowledge, Threads
<1>4. /\ released \in Knowledge /\ released.head = known.head
      /\ released.tail = published + 2 /\ released.slots = known.slots
  <2>1. Len(tails) + 1 = published + 2 /\ published + 2 \in Nat
    BY <1>2
  <2>2. released = [known EXCEPT !.tail = published + 2]
    BY <2>1
  <2> HIDE DEF released, known
  <2>3. QED
    BY <1>3, <2>1, <2>2 DEF Knowledge
<1>5. store \in TailStore /\ store.value = next_tail /\ store.view = released
  BY <1>2, <1>4 DEF TailStore
<1> HIDE DEF store
<1>6. /\ tails' \in Seq(TailStore) /\ Len(tails') = published + 2
      /\ \A n \in 0 .. published : tails'[n + 1] = tails[n + 1]
      /\ tails'[published + 2] = store
  <2>1. tails \in Seq(TailStore)
    BY <1>0 DEF Shapes
  <2>2. /\ tails' \in Seq(TailStore) /\ Len(tails') = Len(tails) + 1
        /\ \A k \in 1 .. Len(tails) : tails'[k] = tails[k]
        /\ tails'[Len(tails) + 1] = store
    BY <1>1, <1>5, <2>1, AppendProperties
  <2>3. QED
    BY <1>2, <2>2
<1>7. /\ view'["producer"] = released /\ view'["consumer"] = view["consumer"]
      /\ view' \in [Threads -> Knowledge]
  <2>1. view \in [Threads -> Knowledge]
    BY <1>0 DEF Shapes
  <2>2. view' = [view EXCEPT !["producer"] = released]
    <3>1. Len(tails') = Len(tails) + 1
      BY <1>2, <1>6
    <3>2. QED
      BY <1>1, <3>1
  <2> HIDE DEF released
  <2>3. QED
    BY <1>2, <1>4, <2>1, <2>2
<1>8. /\ Taken' = Taken /\ published' = published + 1 /\ Moved' = Moved
      /\ Written' = Written /\ enq'.pc = "idle"
      /\ enq' \in [pc : {"idle", "reload", "drop", "write", "publish"}, head : Slots]
  <2>1. published' = published + 1
    BY <1>2, <1>6 DEF published
  <2>2. enq'.pc = "idle"
    BY <1>0, <1>1 DEF Shapes
  <2>3. Taken' = Taken /\ Moved' = Moved
    BY <1>1 DEF Taken, Moved
  <2>4. Written' = Written
    BY <1>2, <2>1, <2>2 DEF Written
  <2>5. QED
    BY <1>0, <1>1, <2>1, <2>2, <2>3, <2>4 DEF Shapes
<1> HIDE DEF released, known
<1>9. ProducerInv'
  <2>1. /\ view'["producer"].head <= Taken'
        /\ view'["producer"].tail = published' + 1
    BY <1>2, <1>3, <1>4, <1>7, <1>8
  <2>2. /\ view'["producer"].slots["producer"] = Written'
        /\ view'["producer"].slots["consumer"] <= Moved'
        /\ view'["producer"].slots["consumer"] >= view'["producer"].head
    BY <1>2, <1>3, <1>4, <1>7, <1>8
  <2>3. published' - view'["producer"].head <= BufferCapacity - 1
    BY <1>2, <1>3, <1>4, <1>7, <1>8
  <2>4. QED
    BY <1>8, <2>1, <2>2, <2>3 DEF ProducerInv
<1>10. ConsumerInv'
  <2>1. view["consumer"].tail \in Nat
    BY <1>0, <1>2 DEF Shapes, Knowledge
  <2>2. QED
    BY <1>0, <1>1, <1>2, <1>7, <1>8, <2>1 DEF ConsumerInv
<1>11. TailsInv'
  <2>1. ASSUME NEW n \in 0 .. published + 1
        PROVE  /\ tails'[n + 1].value = n % BufferCapacity
               /\ tails'[n + 1].view.head <= Taken /\ tails'[n + 1].view.tail = n + 1
               /\ tails'[n + 1].view.slots["producer"] = n
               /\ tails'[n + 1].view.slots["consumer"] <= Moved
    <3>1. CASE n = published + 1
      <4>1. tails'[n + 1] = store /\ n + 1 = published + 2
        BY <1>2, <1>6, <3>1
      <4>2. QED
        BY <1>2, <1>3, <1>4, <1>5, <3>1, <4>1
    <3>2. CASE n # published + 1
      <4>1. n \in 0 .. published
        BY <1>2, <3>2
      <4>2. QED
        BY <1>0, <1>6, <4>1 DEF TailsInv
    <3>3. QED
      BY <3>1, <3>2
  <2>2. QED
    BY <1>8, <2>1 DEF TailsInv
<1>12. HeadsInv'
  <2>1. ASSUME NEW n \in 0 .. Taken
        PROVE  /\ heads[n + 1].view.tail <= published + 2
               /\ heads[n + 1].view.slots["producer"] <= published + 1
    <3>1. heads[n + 1] \in HeadStore
      BY <1>0, HeadStores, Lengths DEF HeadsInv
    <3>2. /\ heads[n + 1].view.tail \in Nat
          /\ heads[n + 1].view.slots["producer"] \in Nat
      BY <1>2, <3>1 DEF HeadStore, Knowledge
    <3>3. /\ heads[n + 1].view.tail <= published + 1
          /\ heads[n + 1].view.slots["producer"] <= published
      BY <1>0 DEF HeadsInv
    <3>4. QED
      BY <1>2, <3>2, <3>3
  <2>2. heads' = heads
    BY <1>1
  <2>3. (published + 1) + 1 = published + 2
    BY <1>2
  <2>4. QED
    BY <1>0, <1>8, <2>1, <2>2, <2>3 DEF HeadsInv
<1>13. Shapes'
  <2>1. Len(tails') > 0
    BY <1>2, <1>6
  <2>2. QED
    BY <1>0, <1>1, <1>6, <1>7, <1>8, <2>1 DEF Shapes
<1>14. TouchedInv' /\ ContentInv' /\ raced' = FALSE
  BY <1>1, <1>8 DEF Synchronised, TouchedInv, ContentInv
<1>15. QED
  BY <1>9, <1>10, <1>11, <1>12, <1>13, <1>14 DEF Synchronised

-----------------------------------------------------------------------------
(***************************************************************************)
(* dequeue                                                                 *)
(***************************************************************************)

\* The consumer reads its own last store to head: there is none later.
LEMMA DequeueBeginStep ==
  ASSUME Synchronised, DequeueBegin
  PROVE  Synchronised'
<1> DEFINE known == view["consumer"]
<1>0. Shapes /\ HeadsInv /\ ConsumerInv
  BY DEF Synchronised
<1>1. PICK store \in HeadsFor("consumer") :
        /\ view' = [view EXCEPT !["consumer"].head = store.id]
        /\ deq' = [deq EXCEPT !.pc = "check", !.head = store.value]
  BY DEF DequeueBegin, RelaxedLoadHead
<1>2. /\ deq.pc = "idle" /\ known.head = Taken /\ Taken \in Nat
      /\ UNCHANGED <<heads, tails, enq, buffer, touched, raced, taken>>
      /\ "producer" \in Threads /\ "consumer" \in Threads
  BY <1>0, Lengths DEF DequeueBegin, ConsumerInv, Threads
<1>3. store = heads[Taken + 1]
  <2>1. known.head <= Taken
    BY <1>2
  <2>2. PICK n \in known.head .. Taken : n \in 0 .. Taken /\ store = heads[n + 1]
    BY <1>0, <1>2, <2>1, HeadLoaded
  <2>3. n = Taken
    BY <1>2, <2>2
  <2>4. QED
    BY <2>2, <2>3
<1>4. store.id = Taken /\ store.value = Taken % BufferCapacity /\ store.value \in Slots
  BY <1>0, <1>2, <1>3, SlotOf DEF HeadsInv
<1>5. view' = view
  <2>1. view \in [Threads -> Knowledge] /\ known \in Knowledge
    BY <1>0, <1>2 DEF Shapes
  <2>2. [known EXCEPT !.head = Taken] = known
    BY <1>2, <2>1 DEF Knowledge
  <2>3. QED
    BY <1>1, <1>4, <2>1, <2>2
<1>6. /\ deq' \in [pc : {"idle", "check", "move", "store"}, head : Slots, item : Int]
      /\ deq'.pc = "check" /\ deq'.head = Taken % BufferCapacity
  BY <1>0, <1>1, <1>4 DEF Shapes
<1>7. /\ Taken' = Taken /\ published' = published /\ Moved' = Moved
      /\ Written' = Written
  BY <1>2, <1>6 DEF Taken, published, Moved, Written
<1>8. ConsumerInv'
  BY <1>0, <1>5, <1>6, <1>7 DEF ConsumerInv
<1>9. Shapes'
  BY <1>0, <1>2, <1>5, <1>6 DEF Shapes
<1>10. /\ HeadsInv' /\ TailsInv' /\ ProducerInv' /\ TouchedInv' /\ ContentInv'
       /\ raced' = FALSE
  BY <1>2, <1>5, <1>6, <1>7
     DEF Synchronised, HeadsInv, TailsInv, ProducerInv, TouchedInv, ContentInv
<1>11. QED
  BY <1>8, <1>9, <1>10 DEF Synchronised

\* Reading a tail other than head the consumer learns that an item was written.
LEMMA CheckStep ==
  ASSUME Synchronised, Check
  PROVE  Synchronised'
<1> DEFINE known == view["consumer"]
<1>0. Shapes /\ HeadsInv /\ TailsInv /\ ConsumerInv
  BY DEF Synchronised
<1>1. PICK store \in TailsFor("consumer") :
        /\ view' = [view EXCEPT !["consumer"] = Join(known, store.view)]
        /\ deq' = [deq EXCEPT !.pc = IF deq.head = store.value THEN "idle" ELSE "move"]
  BY DEF Check, AcquireLoad
<1> DEFINE joined == Join(known, store.view)
<1>2. /\ deq.pc = "check" /\ Moved = Taken
      /\ UNCHANGED <<heads, tails, enq, buffer, touched, raced, taken>>
      /\ "producer" \in Threads /\ "consumer" \in Threads
      /\ Taken \in Nat /\ published \in Nat /\ BufferCapacity \in Nat
  BY <1>0, Lengths, WeakAssumption DEF Check, Moved, Threads
<1>3. /\ known \in Knowledge /\ known.tail \in Nat /\ known.head = Taken
      /\ known.tail > Taken /\ known.slots["producer"] = known.tail - 1
      /\ known.slots["consumer"] = Taken /\ deq.head = Taken % BufferCapacity
  <2>1. known \in Knowledge /\ known.tail \in Nat
    BY <1>0, <1>2 DEF Shapes, Knowledge
  <2>2. QED
    BY <1>0, <1>2, <2>1 DEF ConsumerInv
<1>4. PICK n \in known.tail - 1 .. published : n \in 0 .. published /\ store = tails[n + 1]
  <2>1. known.tail > 0
    BY <1>2, <1>3
  <2>2. QED
    BY <1>0, <2>1, TailLoaded
<1>5. /\ store.value = n % BufferCapacity /\ store.view \in Knowledge
      /\ store.view.head <= Taken /\ store.view.tail = n + 1
      /\ store.view.slots["producer"] = n /\ store.view.slots["consumer"] <= Taken
  <2>1. tails[n + 1] \in TailStore
    BY <1>0, <1>4, TailStores
  <2>2. QED
    BY <1>0, <1>2, <1>4, <2>1 DEF TailsInv, TailStore
<1>6. /\ joined \in Knowledge
      /\ joined.head = Taken /\ joined.tail = n + 1
      /\ joined.slots["producer"] = n /\ joined.slots["consumer"] = Taken
  <2>0. known.head <= Taken
    BY <1>2, <1>3
  <2>1. /\ joined \in Knowledge
        /\ joined.head = Greatest(known.head, store.view.head)
        /\ joined.tail = Greatest(known.tail, store.view.tail)
        /\ joined.slots["producer"]
             = Greatest(known.slots["producer"], store.view.slots["producer"])
        /\ joined.slots["consumer"]
             = Greatest(known.slots["consumer"], store.view.slots["consumer"])
    BY <1>0, <1>2, <1>3, <1>5, <2>0, Joined
  <2>2. store.view.head \in Nat /\ store.view.slots["consumer"] \in Nat
    BY <1>2, <1>5 DEF Knowledge
  <2> HIDE DEF joined, known
  <2>3. QED
    BY <1>2, <1>3, <1>4, <1>5, <2>1, <2>2 DEF Greatest
<1>7. /\ view' \in [Threads -> Knowledge]
      /\ view'["consumer"] = joined /\ view'["producer"] = view["producer"]
  <2>1. view \in [Threads -> Knowledge] /\ view' = [view EXCEPT !["consumer"] = joined]
    BY <1>0, <1>1 DEF Shapes
  <2> HIDE DEF joined
  <2>2. QED
    BY <1>2, <1>6, <2>1
<1> HIDE DEF joined, known
<1>8. /\ deq' \in [pc : {"idle", "check", "move", "store"}, head : Slots, item : Int]
      /\ deq'.pc \in {"idle", "move"} /\ deq'.head = deq.head
      /\ deq'.pc = "move" => deq.head # store.value
  BY <1>0, <1>1 DEF Shapes
<1>9. /\ Taken' = Taken /\ published' = published /\ Moved' = Taken
      /\ Written' = Written
  BY <1>2, <1>8 DEF Taken, published, Moved, Written
<1>10. deq'.pc = "move" => n + 1 > Taken + 1
  <2>1. n >= Taken
    BY <1>2, <1>3, <1>4
  <2>2. deq'.pc = "move" => n # Taken
    BY <1>3, <1>5, <1>8
  <2>3. QED
    BY <1>2, <1>4, <2>1, <2>2
<1>11. ConsumerInv'
  <2>1. n >= Taken /\ n <= published /\ n \in Nat
    BY <1>2, <1>3, <1>4
  <2>2. QED
    BY <1>2, <1>3, <1>6, <1>7, <1>8, <1>9, <1>10, <2>1 DEF ConsumerInv
<1>12. Shapes'
  BY <1>0, <1>2, <1>7, <1>8 DEF Shapes
<1>13. ProducerInv'
  BY <1>2, <1>7, <1>9 DEF Synchronised, ProducerInv
<1>14. HeadsInv' /\ TailsInv' /\ TouchedInv' /\ ContentInv' /\ raced' = FALSE
  BY <1>2, <1>8, <1>9 DEF Synchronised, HeadsInv, TailsInv, TouchedInv, ContentInv
<1>15. QED
  BY <1>11, <1>12, <1>13, <1>14 DEF Synchronised

\* The move of an item out of its slot: the producer has not come round again.
LEMMA MoveStep ==
  ASSUME Synchronised, Move
  PROVE  Synchronised'
<1> DEFINE known == view["consumer"]
           s     == deq.head
           m     == touched[s]["producer"]
<1>0. Shapes /\ TailsInv /\ ProducerInv /\ TouchedInv /\ ContentInv /\ ConsumerInv
  BY DEF Synchronised
<1>1. /\ deq.pc = "move"
      /\ UNCHANGED <<heads, tails, enq, drops, taken>>
      /\ Touch("consumer", s)
      /\ \E v \in Outcomes("consumer", s, buffer[s]) :
           deq' = [deq EXCEPT !.pc = "store", !.item = v]
      /\ \E left \in Outcomes("consumer", s, Empty) :
           buffer' = [buffer EXCEPT ![s] = left]
  BY DEF Move
<1>2. /\ s = Taken % BufferCapacity /\ s \in Slots
      /\ "producer" \in Threads /\ "consumer" \in Threads
      /\ Taken \in Nat /\ published \in Nat /\ Written \in Nat /\ Moved = Taken
      /\ BufferCapacity \in Nat
  BY <1>0, <1>1, Lengths, SlotOf, WeakAssumption DEF ConsumerInv, Threads, Moved
<1>3. /\ known \in Knowledge /\ known.tail \in Nat /\ known.head = Taken
      /\ known.tail <= published + 1 /\ known.tail > Taken + 1
      /\ known.slots["producer"] = known.tail - 1
      /\ known.slots["consumer"] = Taken
  <2>1. known \in Knowledge /\ known.tail \in Nat
    BY <1>0, <1>2 DEF Shapes, Knowledge
  <2>2. QED
    BY <1>0, <1>1, <1>2, <2>1 DEF ConsumerInv
<1>4. Written <= Taken + BufferCapacity - 1
  <2>1. view["producer"].head \in Nat
    BY <1>0, <1>2 DEF Shapes, Knowledge
  <2>2. /\ view["producer"].head <= Taken
        /\ published - view["producer"].head <= BufferCapacity - 1
        /\ enq.pc = "publish" => published - view["producer"].head <= BufferCapacity - 2
    BY <1>0 DEF ProducerInv
  <2>3. Written - view["producer"].head <= BufferCapacity - 1
    BY <1>2, <2>1, <2>2 DEF Written
  <2>4. QED
    BY <1>2, <2>1, <2>2, <2>3
<1>5. m \in Nat /\ m <= known.slots["producer"]
  <2>1. m \in Nat
    BY <1>0, <1>2 DEF Shapes
  <2>2. m > 0 => m <= Written /\ (m - 1) % BufferCapacity = s
    BY <1>0, <1>2 DEF TouchedInv
  <2>3. ASSUME m > known.slots["producer"] PROVE FALSE
    <3> HIDE DEF m, known, s
    <3>1. /\ m - 1 \in Nat /\ Taken <= m - 1 /\ m - 1 < Taken + BufferCapacity
          /\ m - 1 # Taken
      BY <1>2, <1>3, <1>4, <2>1, <2>2, <2>3
    <3>2. (m - 1) % BufferCapacity = Taken % BufferCapacity
      BY <1>2, <1>3, <2>1, <2>2, <2>3
    <3>3. QED
      BY <1>2, <3>1, <3>2, SameSlot
  <2>4. known.slots["producer"] \in Int
    BY <1>3
  <2> HIDE DEF m
  <2>5. QED
    BY <2>1, <2>3, <2>4
<1>6. ~Races("consumer", s)
  BY <1>3, <1>5, Others DEF Races
<1>7. buffer[s] = Taken + 1
  <2>1. known.tail - 1 \in Nat /\ published <= Written
    BY <1>2, <1>3 DEF Written
  <2>2. Taken + 1 \in Moved + 1 .. Written /\ (Taken + 1) - 1 = Taken
    BY <1>2, <1>3, <2>1
  <2>3. buffer[((Taken + 1) - 1) % BufferCapacity] = Taken + 1
    BY <1>0, <2>2 DEF ContentInv
  <2>4. QED
    BY <1>2, <2>2, <2>3
<1>8. /\ view' = [view EXCEPT !["consumer"].slots["consumer"] = Taken + 1]
      /\ touched' = [touched EXCEPT ![s]["consumer"] = Taken + 1]
      /\ raced' = FALSE
      /\ buffer' = [buffer EXCEPT ![s] = Empty]
      /\ deq' = [deq EXCEPT !.pc = "store", !.item = Taken + 1]
  <2>1. raced' = FALSE
    BY <1>1, <1>6 DEF Touch, Synchronised
  <2>2. buffer' = [buffer EXCEPT ![s] = Empty]
    BY <1>1, <1>6 DEF Outcomes
  <2>3. deq' = [deq EXCEPT !.pc = "store", !.item = Taken + 1]
    BY <1>1, <1>6, <1>7 DEF Outcomes
  <2>4. QED
    BY <1>1, <1>3, <2>1, <2>2, <2>3 DEF Touch
<1>9. /\ view' \in [Threads -> Knowledge]
      /\ view'["producer"] = view["producer"]
      /\ view'["consumer"].head = Taken /\ view'["consumer"].tail = known.tail
      /\ view'["consumer"].slots["consumer"] = Taken + 1
      /\ view'["consumer"].slots["producer"] = known.tail - 1
  <2>1. view \in [Threads -> Knowledge]
    BY <1>0 DEF Shapes
  <2>2. view'["consumer"] = [known EXCEPT !.slots["consumer"] = Taken + 1]
    BY <1>2, <1>8, <2>1
  <2>3. [known EXCEPT !.slots["consumer"] = Taken + 1] \in Knowledge
    BY <1>2, <1>3 DEF Knowledge
  <2>4. view' \in [Threads -> Knowledge] /\ view'["producer"] = view["producer"]
    BY <1>2, <1>8, <2>1, <2>2, <2>3
  <2>5. QED
    BY <1>2, <1>3, <2>2, <2>4 DEF Knowledge
<1>10. Taken + 1 \in Int
  BY <1>2
<1>11. /\ deq' \in [pc : {"idle", "check", "move", "store"}, head : Slots, item : Int]
       /\ deq'.pc = "store" /\ deq'.head = s /\ deq'.item = Taken + 1
  BY <1>0, <1>8, <1>10 DEF Shapes
<1>12. /\ Taken' = Taken /\ published' = published /\ Moved' = Taken + 1
       /\ Written' = Written
  BY <1>1, <1>11 DEF Taken, published, Moved, Written
<1>13. /\ touched' \in [Slots -> [Threads -> Nat]]
       /\ touched'[s]["consumer"] = Taken + 1
       /\ \A j \in Slots : touched'[j]["producer"] = touched[j]["producer"]
       /\ \A j \in Slots \ {s} : touched'[j] = touched[j]
  <2>1. touched \in [Slots -> [Threads -> Nat]]
    BY <1>0 DEF Shapes
  <2>2. touched'[s] = [touched[s] EXCEPT !["consumer"] = Taken + 1]
    BY <1>2, <1>8, <2>1
  <2>3. touched'[s] \in [Threads -> Nat]
    BY <1>2, <2>1, <2>2
  <2>4. \A j \in Slots \ {s} : touched'[j] = touched[j]
    BY <1>8, <2>1
  <2>5. touched' \in [Slots -> [Threads -> Nat]]
    BY <1>2, <1>8, <2>1, <2>2, <2>3
  <2>6. /\ touched'[s]["consumer"] = Taken + 1
        /\ touched'[s]["producer"] = touched[s]["producer"]
    BY <1>2, <2>1, <2>2
  <2>7. QED
    BY <2>4, <2>5, <2>6
<1>14. buffer' \in [Slots -> Int] /\ \A j \in Slots \ {s} : buffer'[j] = buffer[j]
  <2>1. buffer \in [Slots -> Int] /\ Empty \in Int
    BY <1>0 DEF Shapes, Empty
  <2> HIDE DEF s
  <2>2. QED
    BY <1>2, <1>8, <2>1
<1> HIDE DEF known, s, m
<1>15. ConsumerInv'
  BY <1>2, <1>3, <1>9, <1>11, <1>12 DEF ConsumerInv
<1>16. ProducerInv'
  <2>1. view["producer"].slots["consumer"] \in Nat
    BY <1>0, <1>2 DEF Shapes, Knowledge
  <2>2. QED
    BY <1>0, <1>1, <1>2, <1>9, <1>12, <2>1 DEF ProducerInv
<1>17. TailsInv'
  <2>1. ASSUME NEW n \in 0 .. published
        PROVE  tails[n + 1].view.slots["consumer"] <= Taken + 1
    <3>1. tails[n + 1] \in TailStore
      BY <1>0, TailStores
    <3>2. tails[n + 1].view.slots["consumer"] \in Nat
      BY <1>2, <3>1 DEF TailStore, Knowledge
    <3>3. tails[n + 1].view.slots["consumer"] <= Taken
      BY <1>0, <1>2 DEF TailsInv
    <3>4. QED
      BY <1>2, <3>2, <3>3
  <2>2. QED
    BY <1>0, <1>1, <1>12, <2>1 DEF TailsInv
<1>18. TouchedInv'
  <2>1. ASSUME NEW j \in Slots, NEW n \in Nat, n = touched'[j]["consumer"], n > 0
        PROVE  n <= Taken + 1 /\ (n - 1) % BufferCapacity = j
    <3>1. CASE j = s
      <4>1. n = Taken + 1 /\ n - 1 = Taken
        BY <1>2, <1>13, <2>1, <3>1
      <4>2. QED
        BY <1>2, <3>1, <4>1
    <3>2. CASE j # s
      <4>1. n = touched[j]["consumer"]
        BY <1>13, <2>1, <3>2
      <4>2. n <= Taken /\ (n - 1) % BufferCapacity = j
        BY <1>0, <1>2, <2>1, <4>1 DEF TouchedInv
      <4>3. QED
        BY <1>2, <4>2
    <3>3. QED
      BY <3>1, <3>2
  <2>2. \A j \in Slots : touched'[j]["consumer"] \in Nat
    BY <1>2, <1>13
  <2>3. QED
    BY <1>0, <1>12, <1>13, <2>1, <2>2 DEF TouchedInv
<1>19. ContentInv'
  <2>1. ASSUME NEW n \in (Taken + 1) + 1 .. Written
        PROVE  buffer'[(n - 1) % BufferCapacity] = n
    <3>1. n - 1 \in Nat /\ (n - 1) % BufferCapacity \in Slots /\ n \in Moved + 1 .. Written
      BY <1>2, SlotOf
    <3>2. buffer[(n - 1) % BufferCapacity] = n
      BY <1>0, <3>1 DEF ContentInv
    <3>3. (n - 1) % BufferCapacity # s
      <4>1. Taken <= n - 1 /\ n - 1 < Taken + BufferCapacity /\ n - 1 # Taken
        BY <1>2, <1>4, <3>1
      <4>2. QED
        BY <1>2, <3>1, <4>1, SameSlot
    <3>4. QED
      BY <1>14, <3>1, <3>2, <3>3
  <2>2. QED
    BY <1>0, <1>1, <1>11, <1>12, <2>1 DEF ContentInv
<1>20. Shapes'
  BY <1>0, <1>1, <1>9, <1>11, <1>13, <1>14 DEF Shapes
<1>21. HeadsInv'
  BY <1>1, <1>12 DEF Synchronised, HeadsInv
<1>22. QED
  BY <1>8, <1>15, <1>16, <1>17, <1>18, <1>19, <1>20, <1>21 DEF Synchronised

\* To insert behind the last element is to append.
LEMMA InsertedLast ==
  ASSUME NEW S, NEW seq \in Seq(S), NEW e \in S
  PROVE  InsertAt(seq, Len(seq) + 1, e) = Append(seq, e)
<1> DEFINE n == Len(seq)
<1>1. n \in Nat /\ (n + 1) - 1 = n
  BY LenProperties
<1>2. SubSeq(seq, 1, n) = seq
  BY SubSeqFull
<1>3. SubSeq(seq, n + 1, n) = <<>>
  BY <1>1, SubSeqEmpty
<1>4. InsertAt(seq, n + 1, e) = (seq \o <<e>>) \o <<>>
  BY <1>1, <1>2, <1>3 DEF InsertAt
<1>5. seq \o <<e>> \in Seq(S) /\ Append(seq, e) = seq \o <<e>>
  <2>1. <<e>> \in Seq(S)
    OBVIOUS
  <2>2. QED
    BY <2>1, ConcatProperties, AppendIsConcat
<1>6. (seq \o <<e>>) \o <<>> = seq \o <<e>>
  BY <1>5, ConcatEmptySeq
<1>7. QED
  BY <1>4, <1>5, <1>6

\* The store of head releases all the consumer knows, the move included.
LEMMA StoreHeadStep ==
  ASSUME Synchronised, StoreHead
  PROVE  Synchronised'
<1> DEFINE known    == view["consumer"]
           released == [known EXCEPT !.head = Len(heads)]
           store    == [id |-> Len(heads), value |-> Following(deq.head),
                        view |-> released]
<1>0. Shapes /\ HeadsInv /\ TailsInv /\ ProducerInv /\ ConsumerInv /\ ContentInv
  BY DEF Synchronised
<1>1. /\ deq.pc = "store" /\ deq' = [deq EXCEPT !.pc = "idle"]
      /\ taken' = Append(taken, deq.item)
      /\ view' = [view EXCEPT !["consumer"] = released]
      /\ UNCHANGED <<tails, enq, buffer, touched, raced, drops>>
  BY DEF StoreHead, ReleaseStoreHead
<1>2. /\ "producer" \in Threads /\ "consumer" \in Threads
      /\ Taken \in Nat /\ published \in Nat /\ Moved = Taken + 1
      /\ Len(heads) = Taken + 1 /\ BufferCapacity \in Nat
  BY <1>0, <1>1, Lengths, WeakAssumption DEF HeadsInv, Threads, Moved
<1>3. /\ known \in Knowledge /\ known.tail \in Nat /\ known.head = Taken
      /\ known.tail <= published + 1 /\ known.tail > Taken + 1
      /\ known.slots["producer"] = known.tail - 1
      /\ known.slots["consumer"] = Taken + 1
      /\ deq.head = Taken % BufferCapacity
  <2>1. known \in Knowledge /\ known.tail \in Nat
    BY <1>0, <1>2 DEF Shapes, Knowledge
  <2>2. QED
    BY <1>0, <1>1, <1>2, <2>1 DEF ConsumerInv
<1>4. /\ released \in Knowledge /\ released.head = Taken + 1
      /\ released.tail = known.tail /\ released.slots = known.slots
  <2>1. released = [known EXCEPT !.head = Taken + 1] /\ Taken + 1 \in Nat
    BY <1>2
  <2> HIDE DEF released, known
  <2>2. QED
    BY <1>3, <2>1 DEF Knowledge
<1>5. /\ store \in HeadStore /\ store.id = Taken + 1
      /\ store.value = (Taken + 1) % BufferCapacity /\ store.view = released
  <2>1. /\ Following(deq.head) = (Taken + 1) % BufferCapacity
        /\ (Taken + 1) % BufferCapacity \in Slots /\ Taken + 1 \in Nat
    BY <1>2, <1>3, NextSlot, SlotOf
  <2> HIDE DEF released
  <2>2. QED
    BY <1>2, <1>4, <2>1 DEF HeadStore
<1>6. heads' = Append(heads, store)
  <2>1. PICK k \in Place(known.head) .. Len(heads) :
          heads' = InsertAt(heads, k + 1, store)
    BY DEF StoreHead, ReleaseStoreHead
  <2>2. Place(known.head) = Taken + 1
    <3>1. Taken \in 0 .. Taken
      BY <1>2
    <3>2. QED
      BY <1>0, <1>3, <3>1, InPlace
  <2>3. k = Len(heads)
    BY <1>2, <2>1, <2>2
  <2>4. heads \in Seq(HeadStore)
    BY <1>0 DEF Shapes
  <2> HIDE DEF store
  <2>5. QED
    BY <1>5, <2>1, <2>3, <2>4, InsertedLast
<1> HIDE DEF store
<1>7. /\ heads' \in Seq(HeadStore) /\ Len(heads') = Taken + 2
      /\ \A n \in 0 .. Taken : heads'[n + 1] = heads[n + 1]
      /\ heads'[Taken + 2] = store
  <2>1. heads \in Seq(HeadStore)
    BY <1>0 DEF Shapes
  <2>2. /\ heads' \in Seq(HeadStore) /\ Len(heads') = Len(heads) + 1
        /\ \A k \in 1 .. Len(heads) : heads'[k] = heads[k]
        /\ heads'[Len(heads) + 1] = store
    BY <1>5, <1>6, <2>1, AppendProperties
  <2>3. QED
    BY <1>2, <2>2
<1>8. /\ view'["consumer"] = released /\ view'["producer"] = view["producer"]
      /\ view' \in [Threads -> Knowledge]
  <2>1. view \in [Threads -> Knowledge]
    BY <1>0 DEF Shapes
  <2> HIDE DEF released
  <2>2. QED
    BY <1>1, <1>2, <1>4, <2>1
<1>9. /\ taken' \in Seq(Int) /\ Len(taken') = Taken + 1
      /\ \A n \in 1 .. Taken : taken'[n] = taken[n]
      /\ taken'[Taken + 1] = Taken + 1
  <2>1. taken \in Seq(Int) /\ deq.item = Taken + 1 /\ deq.item \in Int
    BY <1>0, <1>1, <1>2 DEF Shapes, ContentInv
  <2>2. /\ taken' \in Seq(Int) /\ Len(taken') = Len(taken) + 1
        /\ \A n \in 1 .. Len(taken) : taken'[n] = taken[n]
        /\ taken'[Len(taken) + 1] = deq.item
    BY <1>1, <2>1, AppendProperties
  <2>3. QED
    BY <2>1, <2>2 DEF Taken
<1>10. /\ Taken' = Taken + 1 /\ published' = published /\ Moved' = Moved
       /\ Written' = Written /\ deq'.pc = "idle"
       /\ deq' \in [pc : {"idle", "check", "move", "store"}, head : Slots, item : Int]
  <2>1. /\ deq'.pc = "idle"
        /\ deq' \in [pc : {"idle", "check", "move", "store"}, head : Slots, item : Int]
    BY <1>0, <1>1 DEF Shapes
  <2>2. Taken' = Taken + 1
    BY <1>9 DEF Taken
  <2>3. published' = published /\ Written' = Written
    BY <1>1 DEF published, Written
  <2>4. Moved' = Moved
    BY <1>2, <2>1, <2>2 DEF Moved
  <2>5. QED
    BY <2>1, <2>2, <2>3, <2>4
<1> HIDE DEF released, known
<1>11. ConsumerInv'
  BY <1>2, <1>3, <1>4, <1>8, <1>10 DEF ConsumerInv
<1>12. HeadsInv'
  <2>1. ASSUME NEW n \in 0 .. Taken + 1
        PROVE  /\ heads'[n + 1].id = n /\ heads'[n + 1].value = n % BufferCapacity
               /\ heads'[n + 1].view.head = n
               /\ heads'[n + 1].view.tail <= published + 1
               /\ heads'[n + 1].view.slots["consumer"] = n
               /\ heads'[n + 1].view.slots["producer"] <= published
    <3>1. CASE n = Taken + 1
      <4>1. heads'[n + 1] = store /\ known.tail - 1 <= published
        BY <1>2, <1>3, <1>7, <3>1
      <4>2. QED
        BY <1>3, <1>4, <1>5, <3>1, <4>1
    <3>2. CASE n # Taken + 1
      <4>1. n \in 0 .. Taken
        BY <1>2, <3>2
      <4>2. QED
        BY <1>0, <1>7, <4>1 DEF HeadsInv
    <3>3. QED
      BY <3>1, <3>2
  <2>2. Len(heads') = (Taken + 1) + 1
    BY <1>2, <1>7
  <2>3. QED
    BY <1>10, <2>1, <2>2 DEF HeadsInv
<1>13. TailsInv'
  <2>1. ASSUME NEW n \in 0 .. published
        PROVE  tails[n + 1].view.head <= Taken + 1
    <3>1. tails[n + 1] \in TailStore
      BY <1>0, TailStores
    <3>2. tails[n + 1].view.head \in Nat
      BY <3>1 DEF TailStore, Knowledge
    <3>3. tails[n + 1].view.head <= Taken
      BY <1>0 DEF TailsInv
    <3>4. QED
      BY <1>2, <3>2, <3>3
  <2>2. QED
    BY <1>0, <1>1, <1>10, <2>1 DEF TailsInv
<1>14. ProducerInv'
  <2>1. view["producer"].head \in Nat
    BY <1>0, <1>2 DEF Shapes, Knowledge
  <2>2. QED
    BY <1>0, <1>1, <1>2, <1>8, <1>10, <2>1 DEF ProducerInv
<1>15. ContentInv'
  <2>1. \A n \in 1 .. Taken + 1 : taken'[n] = n
    <3>1. \A n \in 1 .. Taken + 1 : n \in 1 .. Taken \/ n = Taken + 1
      BY <1>2
    <3>2. QED
      BY <1>0, <1>9, <3>1 DEF ContentInv
  <2>2. QED
    BY <1>0, <1>1, <1>10, <2>1 DEF ContentInv
<1>16. Shapes'
  BY <1>0, <1>1, <1>7, <1>8, <1>9, <1>10 DEF Shapes
<1>17. TouchedInv' /\ raced' = FALSE
  BY <1>1, <1>10 DEF Synchronised, TouchedInv
<1>18. QED
  BY <1>11, <1>12, <1>13, <1>14, <1>15, <1>16, <1>17 DEF Synchronised

-----------------------------------------------------------------------------
LEMMA StaysSynchronised ==
  ASSUME Synchronised, Next, ~DropOldest
  PROVE  Synchronised'
<1>1. CASE UNCHANGED vars
  BY <1>1 DEF vars, Synchronised, Shapes, HeadsInv, TailsInv, ProducerInv,
     ConsumerInv, TouchedInv, ContentInv, Taken, published, Written, Moved
<1>2. QED
  BY <1>1, EnqueueBeginStep, ReloadHeadStep, WriteStep, PublishTailStep,
     DequeueBeginStep, CheckStep, MoveStep, StoreHeadStep
     DEF Next, Enqueue, Dequeue, Ended

\* drops counts the drops.
LEMMA DropsCounted ==
  ASSUME drops \in Nat, [Next]_vars
  PROVE  /\ drops' \in Nat
         /\ drops > 0 => drops' > 0
         /\ DropOldest => drops' > 0
         /\ drops' = drops \/ DropOldest
<1>1. DropOldest => drops' = drops + 1
  BY DEF DropOldest
<1>2. ~DropOldest => drops' = drops
  BY DEF Next, Enqueue, Dequeue, Ended, vars, EnqueueBegin, Testing, ReloadHead, Write,
     PublishTail, Publishing, DequeueBegin, Check, Move, StoreHead
<1>3. QED
  BY <1>1, <1>2

LEMMA WeakInvStep == WeakInv /\ [Next]_vars => WeakInv'
<1> SUFFICES ASSUME WeakInv, [Next]_vars, drops' = 0 PROVE Synchronised'
  BY DropsCounted DEF WeakInv
<1>1. drops = 0 /\ Synchronised /\ ~DropOldest
  BY DropsCounted DEF WeakInv
<1>2. CASE Next
  BY <1>1, <1>2, StaysSynchronised
<1>3. CASE UNCHANGED vars
  BY <1>1, <1>3 DEF vars, Synchronised, Shapes, HeadsInv, TailsInv, ProducerInv,
     ConsumerInv, TouchedInv, ContentInv, Taken, published, Written, Moved
<1>4. QED
  BY <1>2, <1>3

\* Up to the first drop the memory orders keep the invariant.
THEOREM WeakInvCorrect == Spec => []WeakInv
BY WeakInvInit, WeakInvStep, PTL DEF Spec

\* enqueue and dequeue never race on a slot of the buffer before a drop: the
\* acquire and release accesses to head and tail order all they do there.
THEOREM NoRaceBeforeDrop == Spec => []RaceNeedsDrop
<1>1. WeakInv => RaceNeedsDrop
  BY DEF WeakInv, Synchronised, RaceNeedsDrop
<1>2. QED
  BY <1>1, WeakInvCorrect, PTL

-----------------------------------------------------------------------------
(***************************************************************************)
(* The refinement.                                                         *)
(***************************************************************************)

LEMMA FifoInit == Init => Fifo!Init
BY DEF Init, Fifo!Init, published

\* An enqueue makes room when it finds the ring not full.
LEMMA FifoEnqueueBegin ==
  ASSUME Synchronised, drops = 0, EnqueueBegin
  PROVE  Fifo!Reserve \/ UNCHANGED Fifo!vars
<1>1. /\ enq.pc = "idle" /\ UNCHANGED <<tails, drops, taken>>
      /\ enq'.pc \in {"reload", "write"}
  BY DEF EnqueueBegin, Testing, Synchronised, Shapes
<1>2. published' = published /\ Len(taken') = Len(taken)
  BY <1>1 DEF published
<1>3. CASE enq'.pc = "reload"
  BY <1>1, <1>2, <1>3 DEF Fifo!vars
<1>4. CASE enq'.pc = "write"
  <2>1. Synchronised'
    BY EnqueueBeginStep
  <2>2. view'["producer"].head \in Nat /\ view'["producer"].head <= Taken'
    BY <2>1 DEF Synchronised, ProducerInv, Shapes, Knowledge, Threads
  <2>3. published' - view'["producer"].head <= BufferCapacity - 2
    BY <1>4, <2>1 DEF Synchronised, ProducerInv
  <2>4. Taken' = Len(taken) /\ Len(taken) \in Nat /\ published \in Nat
    BY <1>1, Lengths DEF Taken, Synchronised
  <2>5. published - Len(taken) < BufferCapacity - 1
    BY <1>2, <2>2, <2>3, <2>4, WeakAssumption
  <2>6. QED
    BY <1>1, <1>2, <1>4, <2>5 DEF Fifo!Reserve
<1>5. QED
  BY <1>1, <1>3, <1>4

LEMMA FifoPublishTail ==
  ASSUME Synchronised, PublishTail
  PROVE  Fifo!Put
<1>1. /\ enq.pc = "publish" /\ enq'.pc = "idle" /\ UNCHANGED <<drops, taken>>
      /\ Len(tails') = Len(tails) + 1 /\ Len(tails) \in Nat
  BY DEF PublishTail, Publishing, Synchronised, Shapes
<1>2. published' = published + 1
  BY <1>1 DEF published
<1>3. QED
  BY <1>1, <1>2 DEF Fifo!Put

LEMMA FifoStoreHead ==
  ASSUME Synchronised, StoreHead
  PROVE  Fifo!Take
<1>1. deq.pc = "store" /\ UNCHANGED <<tails, enq, drops>>
      /\ taken' = Append(taken, deq.item)
  BY DEF StoreHead
<1>2. /\ Taken \in Nat /\ published \in Nat /\ deq.item = Taken + 1
      /\ taken \in Seq(Int) /\ deq.item \in Int
  BY <1>1, Lengths DEF Synchronised, Shapes, ContentInv
<1>3. /\ Len(taken') = Len(taken) + 1 /\ taken' # <<>> /\ Last(taken') = Len(taken) + 1
  <2>1. /\ Len(taken') = Len(taken) + 1
        /\ taken'[Len(taken) + 1] = deq.item
    BY <1>1, <1>2, AppendProperties
  <2>2. QED
    BY <1>2, <2>1 DEF Last, Taken
<1>4. published - Len(taken) > 0
  <2>1. view["consumer"].tail \in Nat
    BY DEF Synchronised, Shapes, Knowledge, Threads
  <2>2. view["consumer"].tail <= published + 1 /\ view["consumer"].tail > Taken + 1
    BY <1>1 DEF Synchronised, ConsumerInv, Moved
  <2>3. QED
    BY <1>2, <2>1, <2>2 DEF Taken
<1>5. published' = published
  BY <1>1 DEF published
<1>6. QED
  BY <1>1, <1>3, <1>4, <1>5 DEF Fifo!Take, Fifo!Held

LEMMA FifoStutters ==
  ASSUME Synchronised,
         ReloadHead \/ Write \/ DequeueBegin \/ Check \/ Move \/ UNCHANGED vars
  PROVE  UNCHANGED Fifo!vars
<1>1. UNCHANGED <<tails, taken, drops>>
  BY DEF ReloadHead, Write, DequeueBegin, Check, Move, vars
<1>2. (enq'.pc \in {"write", "publish"}) = (enq.pc \in {"write", "publish"})
  <2>1. CASE ReloadHead
    BY <2>1 DEF ReloadHead
  <2>2. CASE Write
    BY <2>2 DEF Write, Synchronised, Shapes
  <2>3. CASE enq' = enq
    BY <2>3
  <2>4. QED
    BY <2>1, <2>2, <2>3 DEF DequeueBegin, Check, Move, vars
<1>3. QED
  BY <1>1, <1>2 DEF Fifo!vars, published

LEMMA FifoStep == WeakInv /\ [Next]_vars => [Fifo!Next]_Fifo!vars
<1> SUFFICES ASSUME WeakInv, [Next]_vars PROVE [Fifo!Next]_Fifo!vars
  OBVIOUS
<1>1. CASE drops' > 0
  BY <1>1 DEF Fifo!Next
<1>2. CASE ~(drops' > 0)
  <2>1. drops = 0 /\ Synchronised /\ ~DropOldest
    BY <1>2, DropsCounted DEF WeakInv
  <2>2. CASE EnqueueBegin
    BY <2>1, <2>2, FifoEnqueueBegin DEF Fifo!Next
  <2>3. CASE PublishTail
    BY <2>1, <2>3, FifoPublishTail DEF Fifo!Next
  <2>4. CASE StoreHead
    BY <2>1, <2>4, FifoStoreHead DEF Fifo!Next
  <2>5. CASE ReloadHead \/ Write \/ DequeueBegin \/ Check \/ Move \/ UNCHANGED vars
    BY <2>1, <2>5, FifoStutters
  <2>6. QED
    BY <2>1, <2>2, <2>3, <2>4, <2>5 DEF Next, Enqueue, Dequeue, Ended
<1>3. QED
  BY <1>1, <1>2

\* Until the first drop the ring with weak memory is the FIFO queue: its items
\* come out in order, none missing, torn or doubled.
THEOREM WeakRefinement == Spec => ImplementsFifo
BY WeakInvCorrect, FifoInit, FifoStep, PTL DEF Spec, ImplementsFifo, Fifo!Spec
=============================================================================
