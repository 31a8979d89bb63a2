----------------------------- MODULE FifoQueue -----------------------------
(***************************************************************************)
(* What the queue of internal/AtomicMWSRQueue.hpp promises: a bounded FIFO *)
(* of many writers and one reader.  A writer reserves the place behind the *)
(* last one and fills it later; the reader takes the first item as soon as *)
(* it is there, and gives its place back later.  Places may be filled in   *)
(* any order, and are emptied in the order in which they were reserved.    *)
(***************************************************************************)
EXTENDS Naturals, Sequences

CONSTANTS
    Items,      \* what the queue holds
    NoItem,     \* a null pointer, which is no item
    Capacity    \* the most places that are reserved at a time

VARIABLES
    queue,      \* the places, the oldest first; an empty one holds NoItem
    taken       \* the item taken from the first place, or NoItem

vars == <<queue, taken>>

Init == queue = <<>> /\ taken = NoItem

Reserve ==
    /\ Len(queue) < Capacity
    /\ queue' = Append(queue, NoItem)
    /\ UNCHANGED taken

\* The first place is not filled again once its item has been taken.
Fill(i, item) ==
    /\ queue[i] = NoItem
    /\ i = 1 => taken = NoItem
    /\ queue' = [queue EXCEPT ![i] = item]
    /\ UNCHANGED taken

Take ==
    /\ queue # <<>> /\ Head(queue) # NoItem
    /\ taken' = Head(queue)
    /\ queue' = [queue EXCEPT ![1] = NoItem]

Release ==
    /\ taken # NoItem
    /\ queue' = Tail(queue)
    /\ taken' = NoItem

Next ==
    \/ Reserve
    \/ \E i \in 1 .. Len(queue), item \in Items : Fill(i, item)
    \/ Take
    \/ Release

Spec == Init /\ [][Next]_vars
=============================================================================
