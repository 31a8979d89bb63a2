--------------------------- MODULE BufferLockFree ---------------------------
(***************************************************************************)
(* The lock-free buffer of a connection (base/BufferLockFree.hpp): a queue *)
(* of pointers (AtomicMWSRQueue) to the elements of a pool (TsPool).       *)
(*                                                                         *)
(* The steps are those of the buffer: the pool is used as a set, as TsPool *)
(* shows it to be one.  An enqueue is a claim of a place and a write, as   *)
(* AtomicMWSRQueue shows; a dequeue keeps its three accesses, because a    *)
(* circular buffer dequeues in the threads of the writers too, which the   *)
(* queue does not allow.                                                   *)
(***************************************************************************)
EXTENDS Naturals, Sequences, FiniteSets

CONSTANTS
    Writers,    \* the threads that push
    Reader,     \* the thread that pops
    Values,     \* what they push
    NoValue,    \* no value
    Elements,   \* the elements of the pool
    Nil,        \* a null pointer
    Size,       \* bufsize
    Circular,   \* the values of mcircular to check
    Overlap     \* TRUE: the calls of a circular buffer overlap

Threads == Writers \cup {Reader}
Slots == Size + 1

ASSUME BufferAssumption ==
    /\ Size \in Nat \ {0}
    /\ Cardinality(Elements) = Size + 1     \* mpool(bufsize + 1)
    /\ Nil \notin Elements
    /\ NoValue \notin Values
    /\ Reader \notin Writers
    /\ Circular \subseteq BOOLEAN
    /\ Overlap \in BOOLEAN

VARIABLES
    mcircular,
    buf,    \* the places of bufs
    w, r,   \* the write and the read index of bufs
    free,   \* the elements mpool has to give
    data,   \* data[e]: what element e holds
    pc,     \* pc[t]: where thread t is in the buffer
    call,   \* call[t]: the operation it is in
    value,  \* value[t]: the argument of Push(), or what Pop() has copied
    mitem,  \* mitem[t]: the element to push
    itmp,   \* itmp[t]: the element dequeued
    spot    \* spot[t]: the place of bufs it works on

locals == <<pc, call, value, mitem, itmp, spot>>
vars == <<mcircular, buf, w, r, free, data, locals>>

Places == 0 .. Size

\* The place behind place i.
Following(i) == IF i = Size THEN 0 ELSE i + 1

Count == IF w >= r THEN w - r ELSE w + Slots - r      \* bufs.size()

Init ==
    /\ mcircular \in Circular
    /\ buf = [i \in Places |-> Nil]
    /\ w = 0 /\ r = 0
    /\ free = Elements
    /\ \E v \in Values : data = [e \in Elements |-> v]
    /\ pc = [t \in Threads |-> "idle"]
    /\ call = [t \in Threads |-> "none"]
    /\ value = [t \in Threads |-> NoValue]
    /\ mitem = [t \in Threads |-> Nil]
    /\ itmp = [t \in Threads |-> Nil]
    /\ spot = [t \in Threads |-> 0]

Goto(t, place) == pc' = [pc EXCEPT ![t] = place]

\* Thread t leaves the buffer.
Return(t) ==
    /\ Goto(t, "idle")
    /\ call' = [call EXCEPT ![t] = "none"]
    /\ value' = [value EXCEPT ![t] = NoValue]
    /\ mitem' = [mitem EXCEPT ![t] = Nil]
    /\ itmp' = [itmp EXCEPT ![t] = Nil]
    /\ spot' = [spot EXCEPT ![t] = 0]

\* Nobody else is in a call (Release() comes later and touches the pool only).
Alone(t) == \A u \in Threads \ {t} : pc[u] \in {"idle", "holding"}
MayCall(t) == pc[t] = "idle" /\ (mcircular /\ ~Overlap => Alone(t))

-----------------------------------------------------------------------------
(***************************************************************************)
(* Push(item)                                                              *)
(***************************************************************************)

\* Room, or a circular buffer that will make room.  (A full buffer returns false.)
Push(t) ==
    /\ t \in Writers /\ MayCall(t)
    /\ Count < Size \/ mcircular
    /\ \E v \in Values : value' = [value EXCEPT ![t] = v]
    /\ call' = [call EXCEPT ![t] = "push"]
    /\ Goto(t, "allocate")
    /\ UNCHANGED <<mcircular, buf, w, r, free, data, mitem, itmp, spot>>

\* Mutant: the element stays in the pool.
Allocate_Keep(t) ==
    /\ pc[t] = "allocate" /\ free # {}
    /\ \E e \in free : mitem' = [mitem EXCEPT ![t] = e]
    /\ Goto(t, IF call[t] = "push" THEN "fill" ELSE "sample")
    /\ UNCHANGED <<mcircular, buf, w, r, free, data, call, value, itmp, spot>>

\* mpool.allocate(), for Push() and for data_sample()
Allocate(t) ==
    /\ pc[t] = "allocate" /\ free # {}
    /\ \E e \in free : /\ mitem' = [mitem EXCEPT ![t] = e]
                       /\ free' = free \ {e}
    /\ Goto(t, IF call[t] = "push" THEN "fill" ELSE "sample")
    /\ UNCHANGED <<mcircular, buf, w, r, data, call, value, itmp, spot>>

\* The other threads hold all elements that are not in the queue: the call fails ...
NoElement(t) ==
    /\ pc[t] = "allocate" /\ free = {}
    /\ call[t] = "push" => ~mcircular
    /\ Return(t)
    /\ UNCHANGED <<mcircular, buf, w, r, free, data>>

\* ... or a circular buffer takes the oldest element out of the queue.
TakeOldest(t) ==
    /\ pc[t] = "allocate" /\ free = {}
    /\ call[t] = "push" /\ mcircular
    /\ call' = [call EXCEPT ![t] = "reuse"]
    /\ Goto(t, "dequeue")
    /\ UNCHANGED <<mcircular, buf, w, r, free, data, value, mitem, itmp, spot>>

\* *mitem = item
Fill(t) ==
    /\ pc[t] = "fill"
    /\ data' = [data EXCEPT ![mitem[t]] = value[t]]
    /\ Goto(t, "enqueue")
    /\ UNCHANGED <<mcircular, buf, w, r, free, call, value, mitem, itmp, spot>>

\* bufs.enqueue(mitem): claim a place ...
Claim(t) ==
    /\ pc[t] = "enqueue" /\ Count < Size
    /\ spot' = [spot EXCEPT ![t] = w]
    /\ w' = Following(w)
    /\ Goto(t, "store")
    /\ UNCHANGED <<mcircular, buf, r, free, data, call, value, mitem, itmp>>

\* ... and write to it: Push() returns true.
Store(t) ==
    /\ pc[t] = "store"
    /\ buf' = [buf EXCEPT ![spot[t]] = mitem[t]]
    /\ Return(t)
    /\ UNCHANGED <<mcircular, w, r, free, data>>

\* Mutant: the element is not given back.
Full_Leak(t) ==
    /\ pc[t] = "enqueue" /\ Count = Size /\ ~mcircular
    /\ Return(t)
    /\ UNCHANGED <<mcircular, buf, w, r, free, data>>

\* The queue is full by now: the element goes back and Push() returns false ...
Full(t) ==
    /\ pc[t] = "enqueue" /\ Count = Size /\ ~mcircular
    /\ free' = free \cup {mitem[t]}
    /\ Return(t)
    /\ UNCHANGED <<mcircular, buf, w, r, data>>

\* ... or a circular buffer drops its oldest element, as often as it takes.
DropOldest(t) ==
    /\ pc[t] = "enqueue" /\ Count = Size /\ mcircular
    /\ call' = [call EXCEPT ![t] = "drop"]
    /\ Goto(t, "dequeue")
    /\ UNCHANGED <<mcircular, buf, w, r, free, data, value, mitem, itmp, spot>>

-----------------------------------------------------------------------------
(***************************************************************************)
(* bufs.dequeue(), by the reader and by the writers of a circular buffer.  *)
(***************************************************************************)

\* The oldest place is read,
Dequeue(t) ==
    /\ pc[t] = "dequeue" /\ buf[r] # Nil
    /\ itmp' = [itmp EXCEPT ![t] = buf[r]]
    /\ spot' = [spot EXCEPT ![t] = r]
    /\ Goto(t, "clear")
    /\ UNCHANGED <<mcircular, buf, w, r, free, data, call, value, mitem>>

\* cleared,
Clear(t) ==
    /\ pc[t] = "clear"
    /\ buf' = [buf EXCEPT ![spot[t]] = Nil]
    /\ Goto(t, "advance")
    /\ UNCHANGED <<mcircular, w, r, free, data, call, value, mitem, itmp, spot>>

AfterDequeue(op) ==
    CASE op = "reuse" -> "fill"
      [] op = "pop"   -> "copy"
      [] op = "hold"  -> "holding"
      [] OTHER        -> "deallocate"     \* drop, clear

\* Mutant: the read index moves on by two.
Advance_Two(t) ==
    /\ pc[t] = "advance"
    /\ r' = Following(Following(r))
    /\ mitem' = IF call[t] = "reuse" THEN [mitem EXCEPT ![t] = itmp[t]] ELSE mitem
    /\ itmp' = IF call[t] = "reuse" THEN [itmp EXCEPT ![t] = Nil] ELSE itmp
    /\ call' = IF call[t] = "reuse" THEN [call EXCEPT ![t] = "push"] ELSE call
    /\ Goto(t, AfterDequeue(call[t]))
    /\ UNCHANGED <<mcircular, buf, w, free, data, value, spot>>

\* and given back, whatever the read index is by now.
Advance(t) ==
    /\ pc[t] = "advance"
    /\ r' = Following(r)
    /\ mitem' = IF call[t] = "reuse" THEN [mitem EXCEPT ![t] = itmp[t]] ELSE mitem
    /\ itmp' = IF call[t] = "reuse" THEN [itmp EXCEPT ![t] = Nil] ELSE itmp
    /\ call' = IF call[t] = "reuse" THEN [call EXCEPT ![t] = "push"] ELSE call
    /\ Goto(t, AfterDequeue(call[t]))
    /\ UNCHANGED <<mcircular, buf, w, free, data, value, spot>>

\* Nothing is there.  Pop() and Push() return false, clear() ends; the loop that drops
\* elements does not look, and goes on with the element it dequeued before, if any.
NothingThere(t) ==
    /\ pc[t] = "dequeue" /\ buf[r] = Nil
    /\ IF call[t] = "drop"
         THEN Goto(t, "deallocate") /\ UNCHANGED <<call, value, mitem, itmp, spot>>
         ELSE Return(t)
    /\ UNCHANGED <<mcircular, buf, w, r, free, data>>

\* mpool.deallocate(itmp) (which does nothing for a null pointer)
Deallocate(t) ==
    /\ pc[t] = "deallocate"
    /\ free' = free \cup ({itmp[t]} \ {Nil})
    /\ CASE call[t] = "drop" ->
              Goto(t, "enqueue") /\ UNCHANGED <<call, value, mitem, itmp, spot>>
         [] call[t] = "clear" ->
              /\ Goto(t, "dequeue")
              /\ itmp' = [itmp EXCEPT ![t] = Nil]
              /\ UNCHANGED <<call, value, mitem, spot>>
         [] OTHER -> Return(t)
    /\ UNCHANGED <<mcircular, buf, w, r, data>>

-----------------------------------------------------------------------------
(***************************************************************************)
(* Pop(), PopWithoutRelease(), clear() and the other calls of the reader.  *)
(***************************************************************************)
Take(op) ==
    /\ MayCall(Reader)
    /\ call' = [call EXCEPT ![Reader] = op]
    /\ Goto(Reader, "dequeue")
    /\ UNCHANGED <<mcircular, buf, w, r, free, data, value, mitem, itmp, spot>>

\* item = *ipop, then mpool.deallocate(ipop)
CopyOut ==
    /\ pc[Reader] = "copy"
    /\ value' = [value EXCEPT ![Reader] = data[itmp[Reader]]]
    /\ Goto(Reader, "deallocate")
    /\ UNCHANGED <<mcircular, buf, w, r, free, data, call, mitem, itmp, spot>>

\* Mutant: the element is given back while the caller uses it.
Release_Early ==
    /\ pc[Reader] = "holding"
    /\ free' = free \cup {itmp[Reader]}
    /\ UNCHANGED <<mcircular, buf, w, r, data, locals>>

\* Release(item), some time after PopWithoutRelease()
Release ==
    /\ pc[Reader] = "holding"
    /\ Goto(Reader, "deallocate")
    /\ UNCHANGED <<mcircular, buf, w, r, free, data, call, value, mitem, itmp, spot>>

\* data_sample(): borrow an element and read it
DataSample ==
    /\ MayCall(Reader)
    /\ call' = [call EXCEPT ![Reader] = "sample"]
    /\ Goto(Reader, "allocate")
    /\ UNCHANGED <<mcircular, buf, w, r, free, data, value, mitem, itmp, spot>>

SampleRead ==
    /\ pc[Reader] = "sample"
    /\ free' = free \cup {mitem[Reader]}
    /\ Return(Reader)
    /\ UNCHANGED <<mcircular, buf, w, r, data>>

\* data_sample(sample) initialises the pool, not the queue.  It is "not thread-safe", and
\* only of use before there is data: the elements in the queue would be given out again.
SetDataSample ==
    /\ free = Elements /\ \A t \in Threads : pc[t] = "idle"
    /\ \E v \in Values : data' = [e \in Elements |-> v]
    /\ UNCHANGED <<mcircular, buf, w, r, free, locals>>

-----------------------------------------------------------------------------
BufferStep(t) ==
    \/ Push(t) \/ Allocate(t) \/ NoElement(t) \/ TakeOldest(t) \/ Fill(t)
    \/ Claim(t) \/ Store(t) \/ Full(t) \/ DropOldest(t)
    \/ Dequeue(t) \/ Clear(t) \/ Advance(t) \/ NothingThere(t) \/ Deallocate(t)

Next ==
    \/ \E t \in Threads : BufferStep(t)
    \/ \E op \in {"pop", "hold", "clear"} : Take(op)
    \/ CopyOut \/ Release \/ DataSample \/ SampleRead \/ SetDataSample

Spec == Init /\ [][Next]_vars

-----------------------------------------------------------------------------
(***************************************************************************)
(* Properties.                                                             *)
(***************************************************************************)

\* Indexes, elements and values stay in their ranges.
TypeOK ==
    /\ mcircular \in BOOLEAN
    /\ buf \in [Places -> Elements \cup {Nil}]
    /\ w \in Places /\ r \in Places
    /\ free \subseteq Elements
    /\ data \in [Elements -> Values]
    /\ pc \in [Threads -> {"idle", "allocate", "fill", "sample", "enqueue", "store",
                           "dequeue", "clear", "advance", "copy", "deallocate", "holding"}]
    /\ call \in [Threads -> {"none", "push", "reuse", "drop", "pop", "hold", "clear",
                             "sample"}]
    /\ value \in [Threads -> Values \cup {NoValue}]
    /\ mitem \in [Threads -> Elements \cup {Nil}]
    /\ itmp \in [Threads -> Elements \cup {Nil}]
    /\ spot \in [Threads -> Places]

\* The places where element e is: the pool, a place of the queue, the hands of a thread.
\* (A thread that has read a place has the element only once it has cleared it; one that
\* has dropped an element remembers it.)
Owners(e) ==
    {"pool" : x \in {f \in free : f = e}}
    \cup {i \in Places : buf[i] = e}
    \cup {<<t, "push">> : t \in {u \in Threads : mitem[u] = e}}
    \cup {<<t, "pop">> : t \in {u \in Threads :
              itmp[u] = e /\ pc[u] \in {"advance", "copy", "holding", "deallocate"}}}

\* An element of the pool is in one place: none is lost, none is given to two writers, in
\* the queue twice, or back in the pool while somebody uses it.
OneOwner == \A e \in Elements : Cardinality(Owners(e)) = 1

\* What the reader has dequeued is not overwritten before it is copied or released.
Intact ==
    [][pc[Reader] \in {"advance", "copy", "holding"}
         => data'[itmp[Reader]] = data[itmp[Reader]]]_vars

\* The values in the queue, and the one being taken out of it.
Contents ==
    [i \in 1 .. Count |->
        LET e == buf[IF r + i - 1 >= Slots THEN r + i - 1 - Slots ELSE r + i - 1]
        IN  IF e = Nil THEN NoValue ELSE data[e]]

Taken ==
    IF \E t \in Threads : pc[t] = "advance"
      THEN data[itmp[CHOOSE t \in Threads : pc[t] = "advance"]]
      ELSE NoValue

Fifo == INSTANCE FifoQueue
        WITH Items <- Values, NoItem <- NoValue, Capacity <- Size,
             queue <- Contents, taken <- Taken

\* "read and write data of type T in a FIFO way": values leave the buffer in the order in
\* which Push() put them in, whether Pop(), clear() or a circular Push() takes them out.
IsFifoQueue == Fifo!Spec
=============================================================================
