-------------------------- MODULE AtomicMWSRQueue --------------------------
(***************************************************************************)
(* The multi-writer single-reader queue of internal/AtomicMWSRQueue.hpp.   *)
(*                                                                         *)
(* The two indexes are 16 bits each and packed into one word, which is     *)
(* read, and replaced by compare-and-swap, as one (_indxes).  One step is  *)
(* one access to that word or to a place of _buf.                          *)
(***************************************************************************)
EXTENDS Naturals, Sequences, FiniteSets

CONSTANTS
    Writers,    \* the threads that enqueue
    Items,      \* what they enqueue
    NoItem,     \* 0, an empty place
    Size,       \* the argument of the constructor
    Width       \* the values of an unsigned short, 2^16

Slots == Size + 1   \* _size

\* The constructor's documentation asks for a size of 1 or more; the indexes ask for
\* no more places than they have values.
ASSUME QueueAssumption ==
    /\ Size \in Nat \ {0}
    /\ Width \in Nat
    /\ Slots <= Width
    /\ NoItem \notin Items

VARIABLES
    buf,    \* _buf
    w,      \* _index[0], where the next item goes
    r,      \* _index[1], where the next item comes from
    pc,     \* pc[p]: where writer p is in enqueue()
    old,    \* old[p]: its oldval, the indexes it has read
    item,   \* item[p]: its argument
    rpc,    \* where the reader is in dequeue()
    rold,   \* its oldval
    result  \* its result

queueVars == <<buf, w, r, pc, old, item, rpc, rold, result>>
writerVars == <<pc, old, item>>
readerVars == <<rpc, rold, result>>

Places == 0 .. Size
Indexes == [w : Places, r : Places]

\* An index that is incremented wraps at _size, and at the width of its type.
Advance(i) ==
    LET next == IF i + 1 = Width THEN 0 ELSE i + 1
    IN  IF next >= Slots THEN 0 ELSE next

\* Mutant: the write index at the end and the read index at the beginning are forgotten.
Full_NoWrap(x) == x.w + 1 = x.r

\* The two cases in which a queue with these indexes is full; one place stays empty.
Full(x) == x.w + 1 = x.r \/ x.w = x.r + Slots - 1

Now == [w |-> w, r |-> r]

\* size(): the places from r to w, those included that are reserved or being emptied.
Count(x) == IF x.w >= x.r THEN x.w - x.r ELSE x.w + Slots - x.r

QueueInit ==
    /\ buf = [i \in Places |-> NoItem]
    /\ w = 0 /\ r = 0
    /\ pc = [p \in Writers |-> "idle"]
    /\ old = [p \in Writers |-> [w |-> 0, r |-> 0]]
    /\ item = [p \in Writers |-> NoItem]
    /\ rpc = "idle"
    /\ rold = [w |-> 0, r |-> 0]
    /\ result = NoItem

-----------------------------------------------------------------------------
(***************************************************************************)
(* enqueue(value), by any writer.                                          *)
(***************************************************************************)

BeginEnqueue(p) ==
    /\ pc[p] = "idle"
    /\ \E x \in Items : item' = [item EXCEPT ![p] = x]
    /\ pc' = [pc EXCEPT ![p] = "load"]
    /\ UNCHANGED <<buf, w, r, old, readerVars>>

\* advance_w() reads the indexes and finds room,
LoadIndexes(p) ==
    /\ pc[p] = "load" /\ ~Full(Now)
    /\ old' = [old EXCEPT ![p] = Now]
    /\ pc' = [pc EXCEPT ![p] = "claim"]
    /\ UNCHANGED <<buf, w, r, item, readerVars>>

\* or finds the queue full: enqueue() returns false.
Refused(p) ==
    /\ pc[p] = "load" /\ Full(Now)
    /\ item' = [item EXCEPT ![p] = NoItem]
    /\ pc' = [pc EXCEPT ![p] = "idle"]
    /\ UNCHANGED <<buf, w, r, old, readerVars>>

\* Mutant: the write index is stored, whatever has become of the indexes.
Claim_Blind(p) ==
    /\ pc[p] = "claim"
    /\ w' = Advance(old[p].w)
    /\ pc' = [pc EXCEPT ![p] = "write"]
    /\ UNCHANGED <<buf, r, old, item, readerVars>>

\* The compare-and-swap succeeds when neither index has moved: the place is p's,
Claim(p) ==
    /\ pc[p] = "claim" /\ old[p] = Now
    /\ w' = Advance(w)
    /\ pc' = [pc EXCEPT ![p] = "write"]
    /\ UNCHANGED <<buf, r, old, item, readerVars>>

\* or fails, and the indexes are read again.
ClaimAgain(p) ==
    /\ pc[p] = "claim" /\ old[p] # Now
    /\ pc' = [pc EXCEPT ![p] = "load"]
    /\ UNCHANGED <<buf, w, r, old, item, readerVars>>

Write(p) ==
    /\ pc[p] = "write"
    /\ buf' = [buf EXCEPT ![old[p].w] = item[p]]
    /\ pc' = [pc EXCEPT ![p] = "idle"]
    /\ item' = [item EXCEPT ![p] = NoItem]
    /\ UNCHANGED <<w, r, old, readerVars>>

-----------------------------------------------------------------------------
(***************************************************************************)
(* dequeue(result), by the reader.                                         *)
(***************************************************************************)

\* The reader alone moves the read index, so that the place it reads is known when the
\* index is.  dequeue() returns false when nothing is there.
Read ==
    /\ rpc = "idle" /\ buf[r] # NoItem
    /\ result' = buf[r]
    /\ rold' = Now
    /\ rpc' = "clear"
    /\ UNCHANGED <<buf, w, r, writerVars>>

\* Mutant: the place is given back with its item.
Clear_Not ==
    /\ rpc = "clear"
    /\ rpc' = "load"
    /\ UNCHANGED <<buf, w, r, writerVars, rold, result>>

Clear ==
    /\ rpc = "clear"
    /\ buf' = [buf EXCEPT ![rold.r] = NoItem]
    /\ rpc' = "load"
    /\ UNCHANGED <<w, r, writerVars, rold, result>>

ReadLoad ==
    /\ rpc = "load"
    /\ rold' = Now
    /\ rpc' = "release"
    /\ UNCHANGED <<buf, w, r, writerVars, result>>

Release ==
    /\ rpc = "release" /\ rold = Now
    /\ r' = Advance(r)
    /\ rpc' = "idle"
    /\ result' = NoItem
    /\ UNCHANGED <<buf, w, writerVars, rold>>

\* Mutant: the compare-and-swap is tried again with the old value.
ReleaseAgain_NoLoad ==
    /\ rpc = "release" /\ rold # Now
    /\ UNCHANGED queueVars

\* A write preempted the reader.
ReleaseAgain ==
    /\ rpc = "release" /\ rold # Now
    /\ rpc' = "load"
    /\ UNCHANGED <<buf, w, r, writerVars, rold, result>>

-----------------------------------------------------------------------------
WriterStep(p) ==
    BeginEnqueue(p) \/ LoadIndexes(p) \/ Refused(p) \/ Claim(p) \/ ClaimAgain(p) \/ Write(p)

ReaderStep == Read \/ Clear \/ ReadLoad \/ Release \/ ReleaseAgain

QueueNext == ReaderStep \/ \E p \in Writers : WriterStep(p)

QueueSpec == QueueInit /\ [][QueueNext]_queueVars

\* The reader runs; a writer may be stopped anywhere for ever.
FairQueueSpec == QueueSpec /\ WF_queueVars(ReaderStep)

-----------------------------------------------------------------------------
(***************************************************************************)
(* Properties.                                                             *)
(***************************************************************************)

\* The indexes stay inside the array (they are incremented and wrapped apart from each
\* other), and what a thread remembers of them too.
QueueTypeOK ==
    /\ buf \in [Places -> Items \cup {NoItem}]
    /\ w \in Places /\ r \in Places
    /\ pc \in [Writers -> {"idle", "load", "claim", "write"}]
    /\ old \in [Writers -> Indexes]
    /\ item \in [Writers -> Items \cup {NoItem}]
    /\ rpc \in {"idle", "clear", "load", "release"}
    /\ rold \in Indexes
    /\ result \in Items \cup {NoItem}

\* The i-th place of the queue, counted from the read index.
Place(i) == IF r + i - 1 >= Slots THEN r + i - 1 - Slots ELSE r + i - 1

\* Place i is between the read and the write index.
Held(i) == IF r <= w THEN r <= i /\ i < w ELSE r <= i \/ i < w

\* "oldval is 'unique', other preempting threads will have a different value": a place
\* that a writer has claimed is in the queue, is empty, and is claimed by nobody else
\* nor about to be given back by the reader.
ClaimsExclusive ==
    \A p \in Writers : pc[p] = "write" =>
        /\ Held(old[p].w) /\ buf[old[p].w] = NoItem
        /\ rpc # "idle" => old[p].w # r
        /\ \A q \in Writers \ {p} : pc[q] = "write" => old[q].w # old[p].w

\* What the queue holds, and the item that dequeue() has taken out of its place.
Contents == [i \in 1 .. Count(Now) |-> buf[Place(i)]]
Taken == IF rpc \in {"load", "release"} THEN result ELSE NoItem

Fifo == INSTANCE FifoQueue WITH Capacity <- Size, queue <- Contents, taken <- Taken

\* enqueue() and dequeue() of any threads implement a first-in first-out queue of Size
\* places: no item is lost, duplicated, overwritten or overtaken.
IsFifoQueue == Fifo!Spec

\* isFull() and the test in advance_w() say that the queue is full exactly when size()
\* says that it holds what it was made for.
FullExact == Full(Now) <=> Count(Now) = Size

\* dequeue() returns although its compare-and-swap may fail: the writers that preempt the
\* reader fill the queue, and fail it no more.
DequeueReturns == rpc # "idle" ~> rpc = "idle"
=============================================================================
