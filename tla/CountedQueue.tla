---------------------------- MODULE CountedQueue ----------------------------
(***************************************************************************)
(* DropOldestQueue for a user who asks how many items are held, and not    *)
(* which.  Of the items that left only one matters: an item dropped since  *)
(* the last dequeue that found something may be returned by the next one,  *)
(* which then leaves the number of items as it was.                        *)
(***************************************************************************)
EXTENDS Integers

CONSTANT Depth      \* the most items the queue holds

VARIABLES
  items,     \* how many are held
  full,      \* an enqueue has found the queue full, and will drop an item
  reserved,  \* an enqueue has made room for the item it will put
  passed     \* the last item that left was dropped

vars == <<items, full, reserved, passed>>

Init ==
  /\ items = 0
  /\ full = FALSE
  /\ reserved = FALSE
  /\ passed = FALSE

TypeOK ==
  /\ items \in 0 .. Depth
  /\ {full, reserved, passed} \subseteq BOOLEAN
  /\ reserved => items < Depth

FindFull ==
  /\ ~full /\ ~reserved
  /\ items = Depth
  /\ full' = TRUE
  /\ UNCHANGED <<items, reserved, passed>>

\* Mutant of Reserve: nothing is dropped from a full queue.
ReserveAlways ==
  /\ ~reserved
  /\ reserved' = TRUE
  /\ full' = FALSE
  /\ UNCHANGED <<items, passed>>

\* An enqueue drops an item only when it found the queue full, and not even then
\* if a dequeue has made room since.
Reserve ==
  /\ ~reserved
  /\ reserved' = TRUE
  /\ full' = FALSE
  /\ \/ UNCHANGED <<items, passed>>
     \/ full /\ items > 0 /\ items' = items - 1 /\ passed' = TRUE
  /\ items' < Depth

Put ==
  /\ reserved
  /\ reserved' = FALSE
  /\ items' = items + 1
  /\ UNCHANGED <<full, passed>>

Take ==
  /\ \/ items > 0 /\ items' = items - 1
     \/ passed /\ UNCHANGED items
  /\ passed' = FALSE
  /\ UNCHANGED <<full, reserved>>

\* An empty queue yields nothing, nor may a full one: the item that the
\* dequeue was about to take was dropped for one that filled the queue again.
FindNothing ==
  /\ items \in {0, Depth}
  /\ UNCHANGED vars

Next == FindFull \/ Reserve \/ Put \/ Take \/ FindNothing

Spec == Init /\ [][Next]_vars
=============================================================================
