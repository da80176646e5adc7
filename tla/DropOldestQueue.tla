-------------------------- MODULE DropOldestQueue --------------------------
(***************************************************************************)
(* What a user of the queue may rely on while neither thread is passed     *)
(* twice by the other: a bounded FIFO queue that makes room for a new item *)
(* by dropping the oldest.                                                 *)
(*                                                                         *)
(* Items are numbered in the order they are put.  The queue holds the      *)
(* items oldest+1 .. newest, so a state is two counters.  Once broken the  *)
(* queue promises nothing.                                                 *)
(***************************************************************************)
EXTENDS Integers

CONSTANT Depth      \* the most items the queue holds

VARIABLES
  newest,    \* the last item put
  oldest,    \* the last item that left, taken or dropped
  reserved,  \* an enqueue has made room for the item it will put
  returned,  \* the last item handed to the consumer
  broken     \* the queue no longer promises anything

vars == <<newest, oldest, reserved, returned, broken>>

Held == newest - oldest

Init ==
  /\ newest = 0
  /\ oldest = 0
  /\ reserved = FALSE
  /\ returned = 0
  /\ broken = FALSE

\* An enqueue makes room, dropping at most one item, and only the oldest.
Reserve ==
  /\ ~reserved
  /\ reserved' = TRUE
  /\ \/ oldest' = oldest
     \/ Held > 0 /\ oldest' = oldest + 1
  /\ newest - oldest' < Depth
  /\ UNCHANGED <<newest, returned, broken>>

Put ==
  /\ reserved
  /\ reserved' = FALSE
  /\ newest' = newest + 1
  /\ UNCHANGED <<oldest, returned, broken>>

(***************************************************************************)
(* The consumer gets the oldest item held, or the item an enqueue dropped  *)
(* while the dequeue was under way.  It never gets an item twice, nor one  *)
(* older than an item it has had.                                          *)
(***************************************************************************)
Take ==
  \/ /\ Held > 0
     /\ returned' = oldest + 1
     /\ oldest' = oldest + 1
     /\ UNCHANGED <<newest, reserved, broken>>
  \/ /\ returned < oldest
     /\ returned' = oldest
     /\ UNCHANGED <<newest, oldest, reserved, broken>>

Next == Reserve \/ Put \/ Take \/ broken'

Spec == Init /\ [][Next]_vars
=============================================================================
