------------------------ MODULE BufferLockFreeProofs ------------------------
(***************************************************************************)
(* The elements of a lock-free buffer have one owner each and its values   *)
(* leave it in the order in which they came, for any number of writers and *)
(* any size: of a linear buffer whatever its calls overlap, and of a       *)
(* circular one whose calls do not.                                        *)
(***************************************************************************)
EXTENDS BufferLockFree, FiniteSetTheorems, SequenceTheorems, TLAPS

\* A circular buffer dequeues in the threads of its writers, which the queue does
\* not allow: its calls are not made at the same time.
InTurn == TRUE \in Circular => ~Overlap

\* The places in the queue, claimed or written.
Held(i) == IF r <= w THEN r <= i /\ i < w ELSE r <= i \/ i < w

Dequeuing(t) == pc[t] \in {"dequeue", "clear", "advance"}

\* t has the element it has dequeued.
Taking(t) == pc[t] \in {"advance", "copy", "holding", "deallocate"}

\* t is in a call that has to be the only one of a circular buffer.
Busy(t) == pc[t] \notin {"idle", "holding"} /\ ~(pc[t] = "deallocate" /\ call[t] = "hold")

\* Where thread t is in the operation it is in.
InCall(t) ==
    /\ call[t] = "none" => pc[t] = "idle"
    /\ call[t] = "push" => pc[t] \in {"allocate", "fill", "enqueue", "store"}
    /\ call[t] = "reuse" => Dequeuing(t)
    /\ call[t] = "drop" => Dequeuing(t) \/ pc[t] \in {"deallocate", "enqueue", "store"}
    /\ call[t] = "pop" => Dequeuing(t) \/ pc[t] \in {"copy", "deallocate"}
    /\ call[t] = "hold" => Dequeuing(t) \/ pc[t] \in {"holding", "deallocate"}
    /\ call[t] = "clear" => Dequeuing(t) \/ pc[t] = "deallocate"
    /\ call[t] = "sample" => pc[t] \in {"allocate", "sample"}
    /\ call[t] \in {"reuse", "drop"} => mcircular
    /\ t \in Writers => call[t] \in {"none", "push", "reuse", "drop"}
    /\ t = Reader => call[t] \in {"none", "pop", "hold", "clear", "sample"}

Calls == (\A t \in Threads : InCall(t)) /\ (mcircular => ~Overlap)

\* One thread at a time is in a call of a circular buffer.
Solo == mcircular => \A t, u \in Threads : Busy(t) /\ Busy(u) => t = u

\* The element to push, the value it is to hold, and the element thread t has dequeued.
ItemsOf(t) ==
    /\ mitem[t] # Nil <=> \/ pc[t] \in {"fill", "sample", "enqueue", "store"}
                          \/ call[t] = "drop"
    /\ call[t] \in {"push", "reuse", "drop"} => value[t] \in Values
    /\ pc[t] = "clear" => spot[t] = r /\ itmp[t] = buf[r] /\ buf[r] # Nil
    /\ Taking(t) => itmp[t] # Nil
    /\ pc[t] = "advance" => spot[t] = r /\ buf[r] = Nil /\ w # r

Items == \A t \in Threads : ItemsOf(t)

\* Places outside the queue are empty, and so are those which are claimed, by one
\* thread each, and the one that is given back.
Queue ==
    /\ \A i \in Places : ~Held(i) => buf[i] = Nil
    /\ \A t \in Threads : pc[t] = "store" => Held(spot[t]) /\ buf[spot[t]] = Nil
    /\ \A t, u \in Threads : pc[t] = "store" /\ pc[u] = "store" /\ spot[t] = spot[u] => t = u
    /\ \A t, u \in Threads : pc[t] = "store" /\ pc[u] = "advance" => spot[t] # r

\* When a circular buffer drops an element, there is one.
Dropping ==
    /\ mcircular => \A i \in Places : Held(i) /\ buf[i] = Nil =>
                       \E t \in Threads : \/ pc[t] = "store" /\ spot[t] = i
                                          \/ pc[t] = "advance" /\ i = r
    /\ \A t \in Threads : pc[t] = "dequeue" /\ call[t] = "drop" => w # r

Hand(t) == IF Taking(t) THEN itmp[t] ELSE Nil

\* No element has two owners ...
Disjoint ==
    /\ \A i \in Places : buf[i] # Nil =>
          buf[i] \notin free /\ \A j \in Places : buf[j] = buf[i] => j = i
    /\ \A t \in Threads : mitem[t] # Nil =>
          /\ mitem[t] \notin free
          /\ \A i \in Places : buf[i] # mitem[t]
          /\ \A u \in Threads : mitem[u] = mitem[t] => u = t
    /\ \A t \in Threads : Hand(t) # Nil =>
          /\ Hand(t) \notin free
          /\ \A i \in Places : buf[i] # Hand(t)
          /\ \A u \in Threads : mitem[u] # Hand(t) /\ (Hand(u) = Hand(t) => u = t)

\* ... and each has one.
Covered ==
    \A e \in Elements :
        \/ e \in free
        \/ \E i \in Places : buf[i] = e
        \/ \E t \in Threads : mitem[t] = e \/ Hand(t) = e

Inv == Calls /\ Solo /\ Items /\ Queue /\ Dropping /\ Disjoint /\ Covered
IInv == TypeOK /\ Inv

USE BufferAssumption

-----------------------------------------------------------------------------
(***************************************************************************)
(* Places                                                                  *)
(***************************************************************************)

\* A claim puts one place more into the queue, the one at the write index.
LEMMA HeldAfterClaim ==
    ASSUME TypeOK, Count < Size, w' = Following(w), UNCHANGED r
    PROVE  /\ ~Held(w) /\ w' # r
           /\ \A i \in Places : Held(i)' <=> Held(i) \/ i = w
  BY DEF TypeOK, Places, Count, Slots, Following, Held

\* A release takes the place at the read index out of it.
LEMMA HeldAfterRelease ==
    ASSUME TypeOK, w # r, r' = Following(r), UNCHANGED w
    PROVE  /\ Held(r) /\ r' \in Places
           /\ \A i \in Places : Held(i)' <=> Held(i) /\ i # r
  BY DEF TypeOK, Places, Following, Held

\* A place that is held makes the indexes differ.
LEMMA SomeHeld ==
    ASSUME TypeOK
    PROVE  /\ Held(r) <=> w # r
           /\ (\E i \in Places : Held(i)) => w # r
  BY DEF TypeOK, Places, Held

LEMMA FullHolds ==
    ASSUME TypeOK, Count = Size
    PROVE  w # r
  BY DEF TypeOK, Places, Count, Slots

-----------------------------------------------------------------------------
(***************************************************************************)
(* Init                                                                    *)
(***************************************************************************)
LEMMA InitInv ==
    ASSUME InTurn, Init
    PROVE  IInv
  <1>1. TypeOK
    BY DEF Init, TypeOK, Places
  <1>2. Calls /\ Solo
    BY DEF Init, InTurn, Calls, InCall, Solo, Dequeuing, Busy, Threads
  <1>3. Items /\ Disjoint /\ Covered
    BY DEF Init, Items, ItemsOf, Disjoint, Covered, Taking, Hand
  <1>4. Queue /\ Dropping
    BY DEF Init, Queue, Dropping, Held, Places
  <1> QED
    BY <1>1, <1>2, <1>3, <1>4 DEF IInv, Inv

-----------------------------------------------------------------------------
(***************************************************************************)
(* Types, and what a step leaves alone                                     *)
(***************************************************************************)

ReaderStep ==
    \/ \E op \in {"pop", "hold", "clear"} : Take(op)
    \/ CopyOut \/ Release \/ DataSample \/ SampleRead

\* A step of thread t.
StepOf(t) == BufferStep(t) \/ (t = Reader /\ ReaderStep)

LEMMA StepTypes ==
    ASSUME TypeOK, Calls, Items, NEW t \in Threads, StepOf(t)
    PROVE  TypeOK'
  <1> USE DEF TypeOK, Goto
  <1>1. /\ \A i \in Places : Following(i) \in Places
        /\ 0 \in Places
    BY DEF Following, Places
  <1>2. Return(t) => /\ pc' \in [Threads -> {"idle", "allocate", "fill", "sample", "enqueue",
                                   "store", "dequeue", "clear", "advance", "copy",
                                   "deallocate", "holding"}]
                     /\ call' \in [Threads -> {"none", "push", "reuse", "drop", "pop", "hold",
                                     "clear", "sample"}]
                     /\ value' \in [Threads -> Values \cup {NoValue}]
                     /\ mitem' \in [Threads -> Elements \cup {Nil}]
                     /\ itmp' \in [Threads -> Elements \cup {Nil}]
                     /\ spot' \in [Threads -> Places]
    BY <1>1 DEF Return
  <1>3. ASSUME Push(t) PROVE TypeOK'
    BY <1>3 DEF Push
  <1>4. ASSUME Allocate(t) PROVE TypeOK'
    BY <1>4 DEF Allocate
  <1>5. ASSUME NoElement(t) PROVE TypeOK'
    BY <1>2, <1>5 DEF NoElement
  <1>6. ASSUME TakeOldest(t) PROVE TypeOK'
    BY <1>6 DEF TakeOldest
  <1>7. ASSUME Fill(t) PROVE TypeOK'
    <2>1. mitem[t] \in Elements /\ value[t] \in Values
      BY <1>7 DEF Items, ItemsOf, Calls, InCall, Fill, Dequeuing
    <2> QED
      BY <1>7, <2>1 DEF Fill
  <1>8. ASSUME Claim(t) PROVE TypeOK'
    BY <1>1, <1>8 DEF Claim
  <1>9. ASSUME Store(t) PROVE TypeOK'
    BY <1>2, <1>9 DEF Store
  <1>10. ASSUME Full(t) PROVE TypeOK'
    <2>1. mitem[t] \in Elements
      BY <1>10 DEF Items, ItemsOf, Full
    <2> QED
      BY <1>2, <1>10, <2>1 DEF Full
  <1>11. ASSUME DropOldest(t) PROVE TypeOK'
    BY <1>11 DEF DropOldest
  <1>12. ASSUME Dequeue(t) PROVE TypeOK'
    BY <1>12 DEF Dequeue
  <1>13. ASSUME Clear(t) PROVE TypeOK'
    BY <1>13 DEF Clear
  <1>14. ASSUME Advance(t) PROVE TypeOK'
    BY <1>1, <1>14 DEF Advance, AfterDequeue
  <1>15. ASSUME NothingThere(t) PROVE TypeOK'
    BY <1>2, <1>15 DEF NothingThere
  <1>16. ASSUME Deallocate(t) PROVE TypeOK'
    <2>1. free' \subseteq Elements
      BY <1>16 DEF Deallocate
    <2> QED
      BY <1>2, <1>16, <2>1 DEF Deallocate
  <1>17. ASSUME t = Reader, ReaderStep PROVE TypeOK'
    <2>1. ASSUME NEW op \in {"pop", "hold", "clear"}, Take(op) PROVE TypeOK'
      BY <1>17, <2>1 DEF Take
    <2>2. ASSUME CopyOut PROVE TypeOK'
      <3>1. itmp[Reader] \in Elements
        BY <1>17, <2>2 DEF Items, ItemsOf, Taking, CopyOut
      <3> QED
        BY <1>17, <2>2, <3>1 DEF CopyOut
    <2>3. ASSUME Release \/ DataSample PROVE TypeOK'
      BY <1>17, <2>3 DEF Release, DataSample
    <2>4. ASSUME SampleRead PROVE TypeOK'
      <3>1. mitem[Reader] \in Elements
        BY <1>17, <2>4 DEF Items, ItemsOf, SampleRead
      <3> QED
        BY <1>2, <1>17, <2>4, <3>1 DEF SampleRead
    <2> QED
      BY <1>17, <2>1, <2>2, <2>3, <2>4 DEF ReaderStep
  <1> QED
    BY <1>3, <1>4, <1>5, <1>6, <1>7, <1>8, <1>9, <1>10, <1>11, <1>12, <1>13, <1>14, <1>15,
       <1>16, <1>17 DEF StepOf, BufferStep

\* The other threads stay where they are.
LEMMA OthersStay ==
    ASSUME TypeOK, NEW t \in Threads, StepOf(t)
    PROVE  /\ UNCHANGED mcircular
           /\ \A u \in Threads \ {t} :
                 /\ UNCHANGED <<pc[u], call[u], mitem[u], itmp[u], spot[u], value[u]>>
                 /\ (Taking(u)' <=> Taking(u)) /\ (Dequeuing(u)' <=> Dequeuing(u))
                 /\ (Busy(u)' <=> Busy(u)) /\ Hand(u)' = Hand(u)
  <1> DEFINE Stay == \A u \in Threads \ {t} :
                        UNCHANGED <<pc[u], call[u], mitem[u], itmp[u], spot[u], value[u]>>
  <1>1. UNCHANGED mcircular
    BY DEF StepOf, BufferStep, ReaderStep, Push, Allocate, NoElement, TakeOldest, Fill,
           Claim, Store, Full, DropOldest, Dequeue, Clear, Advance, NothingThere, Deallocate,
           Take, CopyOut, Release, DataSample, SampleRead
  <1>2. Stay
    <2> USE DEF TypeOK, Goto
    <2>1. Return(t) => Stay
      BY DEF Return
    <2>2. Push(t) \/ Allocate(t) \/ TakeOldest(t) \/ Fill(t) \/ Claim(t) \/ DropOldest(t)
          => Stay
      BY DEF Push, Allocate, TakeOldest, Fill, Claim, DropOldest
    <2>3. NoElement(t) \/ Store(t) \/ Full(t) => Stay
      BY <2>1 DEF NoElement, Store, Full
    <2>4. Dequeue(t) \/ Clear(t) \/ Advance(t) => Stay
      BY DEF Dequeue, Clear, Advance
    <2>5. NothingThere(t) => Stay
      BY <2>1 DEF NothingThere
    <2>6. Deallocate(t) => Stay
      BY <2>1 DEF Deallocate
    <2>7. t = Reader /\ ReaderStep => Stay
      BY <2>1 DEF ReaderStep, Take, CopyOut, Release, DataSample, SampleRead
    <2> QED
      BY <2>2, <2>3, <2>4, <2>5, <2>6, <2>7 DEF StepOf, BufferStep
  <1> QED
    BY <1>1, <1>2 DEF Taking, Dequeuing, Busy, Hand

-----------------------------------------------------------------------------
(***************************************************************************)
(* Calls                                                                   *)
(***************************************************************************)
LEMMA CallsStep ==
    ASSUME TypeOK, Calls, NEW t \in Threads, StepOf(t)
    PROVE  Calls'
  <1> USE DEF TypeOK, InCall, Dequeuing, Goto
  <1>1. InCall(t)
    BY DEF Calls
  <1>2. Return(t) => InCall(t)'
    BY DEF Return, Threads
  <1>3. Push(t) => InCall(t)'
    BY DEF Push
  <1>4. Allocate(t) \/ TakeOldest(t) \/ Fill(t) \/ Claim(t) \/ DropOldest(t) => InCall(t)'
    BY <1>1 DEF Allocate, TakeOldest, Fill, Claim, DropOldest, Threads
  <1>5. NoElement(t) \/ Store(t) \/ Full(t) => InCall(t)'
    BY <1>2 DEF NoElement, Store, Full
  <1>6. Dequeue(t) \/ Clear(t) => InCall(t)'
    BY <1>1 DEF Dequeue, Clear
  <1>7. Advance(t) => InCall(t)'
    BY <1>1 DEF Advance, AfterDequeue, Threads
  <1>8. NothingThere(t) => InCall(t)'
    BY <1>1, <1>2 DEF NothingThere
  <1>9. Deallocate(t) => InCall(t)'
    BY <1>1, <1>2 DEF Deallocate
  <1>10. t = Reader /\ ReaderStep => InCall(t)'
    BY <1>1, <1>2 DEF ReaderStep, Take, CopyOut, Release, DataSample, SampleRead
  <1>11. InCall(t)'
    BY <1>3, <1>4, <1>5, <1>6, <1>7, <1>8, <1>9, <1>10 DEF StepOf, BufferStep
  <1>12. \A u \in Threads \ {t} : InCall(u)'
    BY OthersStay DEF Calls
  <1> QED
    BY <1>11, <1>12, OthersStay DEF Calls

\* A thread that is in no call enters one of a circular buffer when no other is in it.
LEMMA SoloStep ==
    ASSUME TypeOK, Calls, Solo, NEW t \in Threads, StepOf(t)
    PROVE  Solo'
  <1> SUFFICES ASSUME mcircular
               PROVE  (\A v, u \in Threads : Busy(v) /\ Busy(u) => v = u)'
    BY OthersStay DEF Solo
  <1>1. ASSUME Busy(t)
        PROVE  \A u \in Threads \ {t} : ~Busy(u)'
    BY <1>1, OthersStay DEF Solo
  <1>2. ASSUME ~Busy(t), Busy(t)'
        PROVE  MayCall(t)
    <2> USE DEF TypeOK, Busy, Goto
    <2>1. ASSUME Return(t)
          PROVE  FALSE
      BY <1>2, <2>1 DEF Return
    <2>2. BufferStep(t) => MayCall(t)
      BY <1>2, <2>1 DEF BufferStep, Push, Allocate, NoElement, TakeOldest, Fill, Claim, Store,
                        Full, DropOldest, Dequeue, Clear, Advance, NothingThere, Deallocate
    <2>3. t = Reader /\ ReaderStep => MayCall(t)
      BY <1>2, <2>1 DEF ReaderStep, Take, CopyOut, Release, DataSample, SampleRead, Calls,
                        InCall, Dequeuing
    <2> QED
      BY <2>2, <2>3 DEF StepOf
  <1>3. ASSUME MayCall(t)
        PROVE  \A u \in Threads \ {t} : ~Busy(u)'
    BY <1>3, OthersStay DEF MayCall, Alone, Calls, Busy
  <1>4. ASSUME ~Busy(t)'
        PROVE  \A v, u \in Threads : Busy(v)' /\ Busy(u)' => v = u
    BY <1>4, OthersStay DEF Solo
  <1> QED
    BY <1>1, <1>2, <1>3, <1>4

\* One thread at a time is in dequeue().
LEMMA OneDequeues ==
    ASSUME Calls, Solo, NEW t \in Threads, NEW u \in Threads, Dequeuing(t), Dequeuing(u)
    PROVE  t = u
  <1>1. ASSUME NEW v \in Threads, Dequeuing(v)
        PROVE  (mcircular \/ v = Reader) /\ Busy(v)
    BY <1>1 DEF Calls, InCall, Dequeuing, Busy, Threads
  <1> QED
    BY <1>1 DEF Solo

-----------------------------------------------------------------------------
(***************************************************************************)
(* The queue                                                               *)
(***************************************************************************)

\* The steps that leave the queue alone.
Aside(t) ==
    \/ Push(t) \/ Allocate(t) \/ NoElement(t) \/ TakeOldest(t) \/ Fill(t) \/ Full(t)
    \/ DropOldest(t) \/ Dequeue(t) \/ NothingThere(t) \/ Deallocate(t)
    \/ (t = Reader /\ ReaderStep)

LEMMA AsideStep ==
    ASSUME TypeOK, Calls, NEW t \in Threads, Aside(t)
    PROVE  /\ UNCHANGED <<buf, w, r>> /\ Count' = Count
           /\ \A i \in Places : Held(i)' <=> Held(i)
           /\ pc[t] \notin {"store", "advance", "clear"}
           /\ pc'[t] \notin {"store", "advance"}
  <1> USE DEF Goto, Return, TypeOK
  <1>1. UNCHANGED <<buf, w, r>>
    BY DEF Aside, ReaderStep, Push, Allocate, NoElement, TakeOldest, Fill, Full, DropOldest,
           Dequeue, NothingThere, Deallocate, Take, CopyOut, Release, DataSample, SampleRead
  <1> DEFINE Elsewhere == /\ pc[t] \notin {"store", "advance", "clear"}
                          /\ pc'[t] \notin {"store", "advance"}
  <1>2. Elsewhere
    <2>1. Push(t) \/ Allocate(t) \/ NoElement(t) \/ TakeOldest(t) \/ Fill(t) => Elsewhere
      BY DEF Push, Allocate, NoElement, TakeOldest, Fill, MayCall
    <2>2. Full(t) \/ DropOldest(t) \/ Dequeue(t) \/ NothingThere(t) \/ Deallocate(t) => Elsewhere
      BY DEF Full, DropOldest, Dequeue, NothingThere, Deallocate
    <2>3. t = Reader /\ ReaderStep => Elsewhere
      BY DEF ReaderStep, Take, CopyOut, Release, DataSample, SampleRead, MayCall
    <2> QED
      BY <2>1, <2>2, <2>3 DEF Aside
  <1> QED
    BY <1>1, <1>2 DEF Held, Count

LEMMA QueueStep ==
    ASSUME IInv, NEW t \in Threads, StepOf(t)
    PROVE  Queue'
  <1> USE DEF IInv, Inv
  <1> DEFINE Storing(u) == pc[u] = "store"
             Freeing(u) == pc[u] = "advance"
  <1>1. \A u \in Threads \ {t} : UNCHANGED <<pc[u], spot[u]>>
    BY OthersStay
  <1>2. CASE Aside(t)
    BY <1>1, <1>2, AsideStep DEF Queue, TypeOK
  <1>3. CASE Claim(t)
    <2>1. /\ Count < Size /\ w' = Following(w) /\ UNCHANGED <<r, buf>>
          /\ pc'[t] = "store" /\ spot'[t] = w
      BY <1>3 DEF Claim, Goto, TypeOK
    <2>2. ~Held(w) /\ \A i \in Places : Held(i)' <=> Held(i) \/ i = w
      BY <2>1, HeldAfterClaim
    <2>3. \A u \in Threads : Freeing(u) => w # r /\ Held(r)
      BY SomeHeld DEF Items, ItemsOf
    <2> QED
      BY <1>1, <2>1, <2>2, <2>3 DEF Queue, TypeOK
  <1>4. CASE Store(t)
    <2>1. /\ pc[t] = "store" /\ pc'[t] = "idle" /\ UNCHANGED <<w, r>>
          /\ buf' = [buf EXCEPT ![spot[t]] = mitem[t]]
      BY <1>4 DEF Store, Return, Goto, TypeOK
    <2>2. \A i \in Places : (Held(i)' <=> Held(i)) /\ (i # spot[t] => buf'[i] = buf[i])
      BY <2>1 DEF Held, TypeOK
    <2> QED
      BY <1>1, <2>1, <2>2 DEF Queue, TypeOK
  <1>5. CASE Clear(t)
    <2>1. /\ pc[t] = "clear" /\ pc'[t] = "advance" /\ UNCHANGED <<w, r>>
          /\ spot[t] = r /\ buf[r] # Nil
          /\ buf' = [buf EXCEPT ![r] = Nil]
      BY <1>5 DEF Clear, Goto, TypeOK, Items, ItemsOf
    <2>2. \A i \in Places : (Held(i)' <=> Held(i)) /\ (buf[i] = Nil => buf'[i] = Nil)
      BY <2>1 DEF Held, TypeOK
    <2> QED
      BY <1>1, <2>1, <2>2 DEF Queue, TypeOK
  <1>6. CASE Advance(t)
    <2>1. /\ pc[t] = "advance" /\ pc'[t] \notin {"advance", "store"} /\ UNCHANGED <<w, buf>>
          /\ r' = Following(r) /\ w # r /\ buf[r] = Nil
      BY <1>6 DEF Advance, AfterDequeue, Goto, TypeOK, Items, ItemsOf
    <2>2. \A i \in Places : Held(i)' <=> Held(i) /\ i # r
      BY <2>1, HeldAfterRelease
    <2>3. \A u \in Threads : Freeing(u) => u = t
      BY <2>1, OneDequeues DEF Dequeuing
    <2> QED
      BY <1>1, <2>1, <2>2, <2>3 DEF Queue, TypeOK
  <1> QED
    BY <1>2, <1>3, <1>4, <1>5, <1>6 DEF StepOf, BufferStep, Aside

LEMMA DroppingStep ==
    ASSUME IInv, NEW t \in Threads, StepOf(t)
    PROVE  Dropping'
  <1> USE DEF IInv, Inv
  <1> DEFINE Empties(u, i) == \/ pc[u] = "store" /\ spot[u] = i
                              \/ pc[u] = "advance" /\ i = r
  <1>1. \A u \in Threads \ {t} : UNCHANGED <<pc[u], spot[u], call[u]>> /\ (Busy(u)' <=> Busy(u))
    BY OthersStay
  <1>2. UNCHANGED mcircular
    BY OthersStay
  <1>3. ASSUME mcircular
        PROVE  \A i \in Places : Held(i)' /\ buf'[i] = Nil => \E u \in Threads : Empties(u, i)'
    <2>0. \A i \in Places : Held(i) /\ buf[i] = Nil => \E u \in Threads : Empties(u, i)
      BY <1>3 DEF Dropping
    <2>1. CASE Aside(t)
      <3>1. ~Empties(t, 0) /\ \A i \in Places : ~Empties(t, i)
        BY <2>1, AsideStep
      <3> QED
        BY <1>1, <2>0, <2>1, <3>1, AsideStep
    <2>2. CASE Claim(t)
      <3>1. /\ Count < Size /\ w' = Following(w) /\ UNCHANGED <<r, buf>>
            /\ pc[t] = "enqueue" /\ pc'[t] = "store" /\ spot'[t] = w
        BY <2>2 DEF Claim, Goto, TypeOK
      <3>2. \A i \in Places : Held(i)' <=> Held(i) \/ i = w
        BY <3>1, HeldAfterClaim
      <3> QED
        BY <1>1, <2>0, <3>1, <3>2
    <2>3. CASE Store(t)
      <3>1. /\ pc[t] = "store" /\ UNCHANGED <<w, r>> /\ mitem[t] # Nil
            /\ buf' = [buf EXCEPT ![spot[t]] = mitem[t]]
        BY <2>3 DEF Store, Items, ItemsOf
      <3>2. \A i \in Places : /\ Held(i)' <=> Held(i)
                              /\ buf'[i] = IF i = spot[t] THEN mitem[t] ELSE buf[i]
        BY <3>1 DEF Held, TypeOK
      <3> QED
        BY <1>1, <2>0, <3>1, <3>2
    <2>4. CASE Clear(t)
      <3>1. /\ pc[t] = "clear" /\ pc'[t] = "advance" /\ UNCHANGED <<w, r>> /\ spot[t] = r
            /\ buf' = [buf EXCEPT ![spot[t]] = Nil]
        BY <2>4 DEF Clear, Goto, TypeOK, Items, ItemsOf
      <3>2. \A i \in Places : /\ Held(i)' <=> Held(i)
                              /\ buf'[i] = IF i = r THEN Nil ELSE buf[i]
        BY <3>1 DEF Held, TypeOK
      <3> QED
        BY <1>1, <2>0, <3>1, <3>2
    <2>5. CASE Advance(t)
      <3>1. /\ pc[t] = "advance" /\ UNCHANGED <<w, buf>>
            /\ r' = Following(r) /\ w # r
        BY <2>5 DEF Advance, Items, ItemsOf
      <3>2. \A i \in Places : Held(i)' <=> Held(i) /\ i # r
        BY <3>1, HeldAfterRelease
      <3> QED
        BY <1>1, <2>0, <3>1, <3>2
    <2> QED
      BY <2>1, <2>2, <2>3, <2>4, <2>5 DEF StepOf, BufferStep, Aside
  <1>4. ASSUME NEW u \in Threads, pc'[u] = "dequeue", call'[u] = "drop"
        PROVE  w' # r'
    <2>1. CASE u = t
      <3>1. DropOldest(t)
        BY <1>4, <2>1 DEF StepOf, BufferStep, ReaderStep, Push, Allocate, NoElement, TakeOldest,
              Fill, Claim, Store, Full, Dequeue, Clear, Advance, AfterDequeue, NothingThere,
              Deallocate, Take, CopyOut, Release, DataSample, SampleRead, Goto, Return, TypeOK
      <3> QED
        BY <3>1, FullHolds DEF DropOldest
    <2>2. CASE u # t
      <3>1. w # r /\ mcircular /\ Busy(u)
        BY <1>1, <1>4, <2>2 DEF Dropping, Calls, InCall, Busy
      <3>2. ~Busy(t)
        BY <2>2, <3>1 DEF Solo
      <3>3. UNCHANGED <<w, r>>
        BY <3>2, AsideStep DEF StepOf, BufferStep, Aside, Busy, Claim, Store, Clear, Advance
      <3> QED
        BY <3>1, <3>3
    <2> QED
      BY <2>1, <2>2
  <1> QED
    BY <1>2, <1>3, <1>4 DEF Dropping

LEMMA SomethingThere ==
    ASSUME IInv, NEW t \in Threads, pc[t] = "dequeue", call[t] = "drop"
    PROVE  buf[r] # Nil
  <1> USE DEF IInv, Inv
  <1>1. w # r /\ Held(r) /\ r \in Places /\ mcircular /\ Busy(t)
    BY SomeHeld DEF Dropping, TypeOK, Calls, InCall, Busy
  <1>2. \A u \in Threads : pc[u] \in {"store", "advance"} => Busy(u) /\ u # t
    BY DEF Busy
  <1> QED
    BY <1>1, <1>2 DEF Dropping, Solo

LEMMA ItemsStep ==
    ASSUME IInv, NEW t \in Threads, StepOf(t)
    PROVE  Items'
  <1> USE DEF IInv, Inv, TypeOK, ItemsOf, Taking, Goto
  <1>1. InCall(t) /\ ItemsOf(t)
    BY DEF Calls, Items
  <1>2. Return(t) => ItemsOf(t)'
    BY DEF Return
  <1>3. Push(t) => ItemsOf(t)'
    BY <1>1 DEF Push, MayCall, InCall, Dequeuing
  <1>4. Allocate(t) \/ TakeOldest(t) \/ Fill(t) \/ Claim(t) => ItemsOf(t)'
    BY <1>1 DEF Allocate, TakeOldest, Fill, Claim, InCall, Dequeuing
  <1>5. NoElement(t) \/ Store(t) \/ Full(t) => ItemsOf(t)'
    BY <1>2 DEF NoElement, Store, Full
  <1>6. DropOldest(t) => ItemsOf(t)'
    BY <1>1 DEF DropOldest, InCall, Dequeuing
  <1>7. Dequeue(t) => ItemsOf(t)'
    BY <1>1 DEF Dequeue
  <1>8. Clear(t) => ItemsOf(t)'
    <2>1. ASSUME Clear(t) PROVE Held(r)
      BY <1>1, <2>1 DEF Clear, Queue
    <2> QED
      BY <1>1, <2>1, SomeHeld DEF Clear
  <1>9. Advance(t) => ItemsOf(t)'
    BY <1>1 DEF Advance, AfterDequeue, InCall, Dequeuing
  <1>10. NothingThere(t) => ItemsOf(t)'
    BY <1>2, SomethingThere DEF NothingThere
  <1>11. Deallocate(t) => ItemsOf(t)'
    BY <1>1, <1>2 DEF Deallocate
  <1>12. t = Reader /\ ReaderStep => ItemsOf(t)'
    BY <1>1, <1>2 DEF ReaderStep, Take, CopyOut, Release, DataSample, SampleRead, MayCall,
                      InCall, Dequeuing
  <1>13. ItemsOf(t)'
    BY <1>3, <1>4, <1>5, <1>6, <1>7, <1>8, <1>9, <1>10, <1>11, <1>12 DEF StepOf, BufferStep
  <1>14. ASSUME NEW u \in Threads \ {t}
         PROVE  ItemsOf(u)'
    <2>0. /\ ItemsOf(u)
          /\ UNCHANGED <<pc[u], call[u], mitem[u], itmp[u], spot[u], value[u]>>
      BY OthersStay DEF Items
    <2>1. ASSUME pc[u] \in {"clear", "advance"}
          PROVE  /\ UNCHANGED <<buf[r], r>>
                 /\ w # r => w' # r'
      <3>1. ~Dequeuing(t)
        BY <2>1, OneDequeues DEF Dequeuing
      <3>2. CASE Aside(t)
        BY <3>2, AsideStep
      <3>3. CASE Claim(t)
        BY <3>3, HeldAfterClaim DEF Claim
      <3>4. CASE Store(t)
        <4>1. spot[t] # r
          BY <2>0, <2>1, <3>4 DEF Store, Queue
        <4> QED
          BY <3>4, <4>1 DEF Store
      <3> QED
        BY <3>1, <3>2, <3>3, <3>4 DEF StepOf, BufferStep, Aside, Clear, Advance, Dequeuing
    <2> QED
      BY <2>0, <2>1
  <1> QED
    BY <1>13, <1>14 DEF Items

-----------------------------------------------------------------------------
(***************************************************************************)
(* The elements                                                            *)
(***************************************************************************)

\* What a step of thread t may do with the elements: leave them where they are ...
Keeps(t) ==
    UNCHANGED <<free, buf, mitem[t], Hand(t)>>

\* ... take one from the pool ...
Allocates(t) ==
    /\ mitem[t] = Nil /\ mitem'[t] \in free /\ free' = free \ {mitem'[t]}
    /\ UNCHANGED <<buf, Hand(t)>>

\* ... put the one to push into the queue or back into the pool ...
Stores(t) ==
    /\ mitem[t] # Nil /\ mitem'[t] = Nil
    /\ buf[spot[t]] = Nil /\ buf' = [buf EXCEPT ![spot[t]] = mitem[t]]
    /\ UNCHANGED <<free, Hand(t)>>

GivesBack(t) ==
    /\ mitem[t] # Nil /\ mitem'[t] = Nil
    /\ free' = free \cup {mitem[t]}
    /\ UNCHANGED <<buf, Hand(t)>>

\* ... take one out of the queue ...
Dequeues(t) ==
    /\ buf[r] # Nil /\ Hand(t) = Nil
    /\ buf' = [buf EXCEPT ![r] = Nil] /\ Hand(t)' = buf[r]
    /\ UNCHANGED <<free, mitem[t]>>

\* ... to push it again or to put it back into the pool.
Reuses(t) ==
    /\ mitem[t] = Nil /\ mitem'[t] = Hand(t)
    /\ Hand(t) # Nil /\ Hand(t)' = Nil
    /\ UNCHANGED <<free, buf>>

Frees(t) ==
    /\ Hand(t) # Nil /\ Hand(t)' = Nil
    /\ free' = free \cup {Hand(t)}
    /\ UNCHANGED <<buf, mitem[t]>>

LEMMA ElementSteps ==
    ASSUME IInv, NEW t \in Threads, StepOf(t)
    PROVE  \/ Keeps(t) \/ Allocates(t) \/ Stores(t) \/ GivesBack(t)
           \/ Dequeues(t) \/ Reuses(t) \/ Frees(t)
  <1> USE DEF IInv, Inv, TypeOK, Hand, Taking, Goto
  <1>1. InCall(t) /\ ItemsOf(t)
    BY DEF Calls, Items
  <1>2. Return(t) => mitem'[t] = Nil /\ Hand(t)' = Nil
    BY DEF Return
  <1>3. Push(t) \/ TakeOldest(t) \/ Fill(t) \/ Claim(t) \/ DropOldest(t) \/ Dequeue(t)
        => Keeps(t)
    BY DEF Keeps, Push, TakeOldest, Fill, Claim, DropOldest, Dequeue, MayCall
  <1>4. Allocate(t) => Allocates(t)
    BY <1>1 DEF Allocates, Allocate, ItemsOf, InCall, Dequeuing
  <1>5. NoElement(t) => Keeps(t)
    BY <1>1, <1>2 DEF Keeps, NoElement, ItemsOf, InCall, Dequeuing
  <1>6. Store(t) => Stores(t)
    BY <1>1, <1>2 DEF Stores, Store, ItemsOf, Queue
  <1>7. Full(t) => GivesBack(t)
    BY <1>1, <1>2 DEF GivesBack, Full, ItemsOf
  <1>8. Clear(t) => Dequeues(t)
    BY <1>1 DEF Dequeues, Clear, ItemsOf
  <1>9. Advance(t) => Keeps(t) \/ Reuses(t)
    BY <1>1 DEF Keeps, Reuses, Advance, AfterDequeue, ItemsOf, InCall, Dequeuing
  <1>10. NothingThere(t) => Keeps(t)
    BY <1>1, <1>2, SomethingThere DEF Keeps, NothingThere, ItemsOf
  <1>11. Deallocate(t) => Frees(t)
    BY <1>1, <1>2 DEF Frees, Deallocate, ItemsOf
  <1>12. t = Reader /\ ReaderStep => Keeps(t) \/ GivesBack(t)
    BY <1>1, <1>2 DEF Keeps, GivesBack, ReaderStep, Take, CopyOut, Release, DataSample,
                      SampleRead, MayCall, ItemsOf
  <1> QED
    BY <1>3, <1>4, <1>5, <1>6, <1>7, <1>8, <1>9, <1>10, <1>11, <1>12 DEF StepOf, BufferStep

LEMMA DisjointStep ==
    ASSUME IInv, NEW t \in Threads, StepOf(t)
    PROVE  Disjoint'
  <1> USE DEF IInv, Inv
  <1>1. \A u \in Threads \ {t} : mitem'[u] = mitem[u] /\ Hand(u)' = Hand(u)
    BY OthersStay
  <1>2. /\ buf \in [Places -> Elements \cup {Nil}] /\ free \subseteq Elements
        /\ \A i \in Places : pc[t] = "store" /\ i = spot[t] => i \in Places
        /\ r \in Places /\ spot[t] \in Places
        /\ \A u \in Threads : mitem[u] \in Elements \cup {Nil}
                              /\ Hand(u) \in Elements \cup {Nil}
    BY DEF TypeOK, Hand
  <1>3. CASE Keeps(t)
    BY <1>1, <1>2, <1>3 DEF Keeps, Disjoint
  <1>4. CASE Allocates(t)
    BY <1>1, <1>2, <1>4 DEF Allocates, Disjoint
  <1>5. CASE Stores(t)
    <2>1. \A i \in Places : buf'[i] = IF i = spot[t] THEN mitem[t] ELSE buf[i]
      BY <1>2, <1>5 DEF Stores
    <2> QED
      BY <1>1, <1>2, <1>5, <2>1 DEF Stores, Disjoint
  <1>6. CASE GivesBack(t)
    BY <1>1, <1>2, <1>6 DEF GivesBack, Disjoint
  <1>7. CASE Dequeues(t)
    <2>1. \A i \in Places : buf'[i] = IF i = r THEN Nil ELSE buf[i]
      BY <1>2, <1>7 DEF Dequeues
    <2> QED
      BY <1>1, <1>2, <1>7, <2>1 DEF Dequeues, Disjoint
  <1>8. CASE Reuses(t)
    BY <1>1, <1>2, <1>8 DEF Reuses, Disjoint
  <1>9. CASE Frees(t)
    BY <1>1, <1>2, <1>9 DEF Frees, Disjoint
  <1> QED
    BY <1>3, <1>4, <1>5, <1>6, <1>7, <1>8, <1>9, ElementSteps

LEMMA CoveredStep ==
    ASSUME IInv, NEW t \in Threads, StepOf(t)
    PROVE  Covered'
  <1> USE DEF IInv, Inv
  <1>1. \A u \in Threads \ {t} : mitem'[u] = mitem[u] /\ Hand(u)' = Hand(u)
    BY OthersStay
  <1>2. /\ buf \in [Places -> Elements \cup {Nil}] /\ free \subseteq Elements
        /\ r \in Places /\ spot[t] \in Places
    BY DEF TypeOK
  <1>3. CASE Keeps(t) \/ Allocates(t)
    BY <1>1, <1>3 DEF Keeps, Allocates, Covered
  <1>4. CASE Stores(t)
    <2>1. \A i \in Places : buf'[i] = IF i = spot[t] THEN mitem[t] ELSE buf[i]
      BY <1>2, <1>4 DEF Stores
    <2> QED
      BY <1>1, <1>2, <1>4, <2>1 DEF Stores, Covered
  <1>5. CASE Dequeues(t)
    <2>1. \A i \in Places : buf'[i] = IF i = r THEN Nil ELSE buf[i]
      BY <1>2, <1>5 DEF Dequeues
    <2> QED
      BY <1>1, <1>2, <1>5, <2>1 DEF Dequeues, Covered
  <1>6. CASE GivesBack(t) \/ Reuses(t) \/ Frees(t)
    BY <1>1, <1>6 DEF GivesBack, Reuses, Frees, Covered
  <1> QED
    BY <1>3, <1>4, <1>5, <1>6, ElementSteps

-----------------------------------------------------------------------------
(***************************************************************************)
(* The refinement: what the places from the read to the write index show.  *)
(***************************************************************************)
Shows == Values \cup {NoValue}
Shown == [i \in Places |-> IF buf[i] = Nil THEN NoValue ELSE data[buf[i]]]

Span(x, y) == IF x >= y THEN x - y ELSE x + Slots - y
From(y, i) == IF y + i - 1 >= Slots THEN y + i - 1 - Slots ELSE y + i - 1
Segment(b, x, y) == [i \in 1 .. Span(x, y) |-> b[From(y, i)]]

LEMMA Spans ==
    ASSUME NEW x \in Places, NEW y \in Places
    PROVE  /\ Span(x, y) \in 0 .. Size
           /\ \A i \in 1 .. Span(x, y) : From(y, i) \in Places
  BY DEF Span, From, Places, Slots

LEMMA ContentsIsSegment ==
    ASSUME TypeOK, TypeOK'
    PROVE  /\ Shown \in [Places -> Shows] /\ Shown' \in [Places -> Shows]
           /\ Contents = Segment(Shown, w, r)
           /\ Contents' = Segment(Shown', w', r')
  <1>1. Count = Span(w, r) /\ Count' = Span(w', r')
    BY DEF Count, Span
  <1>2. Shown \in [Places -> Shows] /\ Shown' \in [Places -> Shows]
    BY DEF TypeOK, Shown, Shows
  <1>3. Contents = Segment(Shown, w, r)
    BY <1>1, Spans DEF Contents, Segment, Shown, From, TypeOK
  <1>4. Contents' = Segment(Shown', w', r')
    BY <1>1, Spans DEF Contents, Segment, Shown, From, TypeOK
  <1> QED
    BY <1>2, <1>3, <1>4

IsSegment(s, b, x, y) ==
    /\ s \in Seq(Shows)
    /\ Len(s) = Span(x, y)
    /\ Span(x, y) \in 0 .. Size
    /\ \A i \in 1 .. Span(x, y) : From(y, i) \in Places /\ s[i] = b[From(y, i)]

LEMMA SegmentType ==
    ASSUME NEW b \in [Places -> Shows], NEW x \in Places, NEW y \in Places
    PROVE  IsSegment(Segment(b, x, y), b, x, y)
  <1>1. Segment(b, x, y) \in [1 .. Span(x, y) -> Shows]
    BY Spans DEF Segment
  <1>2. Span(x, y) \in 0 .. Size
    BY Spans
  <1>3. Segment(b, x, y) \in Seq(Shows) /\ Len(Segment(b, x, y)) = Span(x, y)
    BY <1>1, <1>2
  <1> QED
    BY <1>3, Spans DEF Segment, IsSegment

\* The places of a segment are the held ones, and differ.
LEMMA SegmentPlaces ==
    ASSUME TypeOK, NEW k \in Places, Held(k)
    PROVE  \E i \in 1 .. Span(w, r) :
              /\ From(r, i) = k
              /\ \A j \in 1 .. Span(w, r) : From(r, j) = k => j = i
  <1> DEFINE n == Span(k, r) + 1
  <1>1. n \in 1 .. Span(w, r) /\ From(r, n) = k
    BY DEF Held, Span, From, TypeOK, Places, Slots
  <1>2. \A j \in 1 .. Span(w, r) : From(r, j) = k => j = n
    BY DEF Held, Span, From, TypeOK, Places, Slots
  <1> QED
    BY <1>1, <1>2

Put(f, k, v) == [f EXCEPT ![k] = v]

\* One place of a segment changes.
LEMMA SegmentExcept ==
    ASSUME NEW b \in [Places -> Shows], NEW x \in Places, NEW y \in Places, NEW v \in Shows,
           NEW k \in Places, NEW n \in 1 .. Span(x, y), From(y, n) = k,
           \A j \in 1 .. Span(x, y) : From(y, j) = k => j = n
    PROVE  Segment(Put(b, k, v), x, y) = Put(Segment(b, x, y), n, v)
  BY Spans DEF Segment, Put

\* What is in the queue or in somebody's hands is not written.
LEMMA DataStays ==
    ASSUME IInv, NEW t \in Threads, StepOf(t)
    PROVE  /\ \A i \in Places : buf[i] # Nil => data'[buf[i]] = data[buf[i]]
           /\ \A u \in Threads : pc[u] = "advance" => data'[itmp[u]] = data[itmp[u]]
  <1> USE DEF IInv, Inv
  <1>1. CASE Fill(t)
    <2>1. mitem[t] # Nil
      BY <1>1 DEF Fill, Items, ItemsOf
    <2>2. \A u \in Threads : pc[u] = "advance" => Hand(u) = itmp[u] /\ Hand(u) # Nil
      BY DEF Hand, Taking, Items, ItemsOf
    <2>3. \A e \in Elements : e # mitem[t] => data'[e] = data[e]
      BY <1>1 DEF Fill, TypeOK
    <2> QED
      BY <2>1, <2>2, <2>3 DEF Disjoint, TypeOK
  <1>2. CASE ~Fill(t)
    BY <1>2 DEF StepOf, BufferStep, ReaderStep, Push, Allocate, NoElement, TakeOldest, Claim,
          Store, Full, DropOldest, Dequeue, Clear, Advance, NothingThere, Deallocate, Take,
          CopyOut, Release, DataSample, SampleRead
  <1> QED
    BY <1>1, <1>2

LEMMA TakenIs ==
    /\ \A t \in Threads : (\A u \in Threads : pc[u] = "advance" <=> u = t)
          => Taken = data[itmp[t]]
    /\ \A t \in Threads : (\A u \in Threads : pc'[u] = "advance" <=> u = t)
          => Taken' = data'[itmp'[t]]
    /\ (\A u \in Threads : pc[u] # "advance") => Taken = NoValue
    /\ (\A u \in Threads : pc'[u] # "advance") => Taken' = NoValue
  BY DEF Taken

LEMMA TakenStays ==
    ASSUME IInv, NEW t \in Threads, StepOf(t), pc[t] # "advance", pc'[t] # "advance"
    PROVE  Taken' = Taken
  <1>1. \A u \in Threads : pc[u] = "advance" <=> pc'[u] = "advance"
    BY OthersStay DEF IInv
  <1>2. CASE \A u \in Threads : pc[u] # "advance"
    BY <1>1, <1>2, TakenIs
  <1>3. ASSUME NEW u \in Threads, pc[u] = "advance"
        PROVE  Taken' = Taken
    <2>1. \A v \in Threads : pc[v] = "advance" <=> v = u
      BY <1>3, OneDequeues DEF Dequeuing, IInv, Inv
    <2>2. itmp'[u] = itmp[u]
      BY <1>3, OthersStay DEF IInv
    <2>3. data'[itmp[u]] = data[itmp[u]]
      BY <1>3, DataStays
    <2> QED
      BY <1>1, <2>1, <2>2, <2>3, TakenIs
  <1> QED
    BY <1>2, <1>3

\* A claim reserves a place.
LEMMA ClaimReserves ==
    ASSUME IInv, IInv', NEW t \in Threads, Claim(t)
    PROVE  Fifo!Reserve
  <1> DEFINE s == Segment(Shown, w, r)
             z == Segment(Shown', w', r')
  <1>1. StepOf(t)
    BY DEF StepOf, BufferStep
  <1>2. /\ Count < Size /\ w' = Following(w) /\ r' = r /\ buf' = buf /\ data' = data
        /\ w \in Places /\ r \in Places /\ w' \in Places
        /\ pc[t] = "enqueue" /\ pc'[t] = "store"
    BY DEF IInv, TypeOK, Claim, Goto
  <1>3. Shown[w] = NoValue /\ Shown' = Shown
    BY <1>2, HeldAfterClaim DEF IInv, Inv, Queue, Shown
  <1>4. Span(w', r) = Span(w, r) + 1 /\ Span(w, r) < Size /\ From(r, Span(w, r) + 1) = w
    BY <1>2 DEF Count, Span, From, Places, Following, Slots
  <1>5. /\ Shown \in [Places -> Shows] /\ Contents = s /\ Contents' = z
    BY ContentsIsSegment DEF IInv
  <1>6. IsSegment(s, Shown, w, r)
    BY <1>2, <1>5, SegmentType
  <1>7. IsSegment(z, Shown, w', r)
    BY <1>2, <1>3, <1>5, SegmentType
  <1>8. z = Append(s, NoValue)
    <2> HIDE DEF s, z
    <2> USE DEF IsSegment
    <2>1. /\ Append(s, NoValue) \in Seq(Shows) /\ Len(Append(s, NoValue)) = Len(s) + 1
          /\ \A i \in 1 .. Len(s) : Append(s, NoValue)[i] = s[i]
          /\ Append(s, NoValue)[Len(s) + 1] = NoValue
      BY <1>6, NoValue \in Shows DEF Shows
    <2>2. \A i \in 1 .. Len(z) : z[i] = Append(s, NoValue)[i]
      BY <1>3, <1>4, <1>6, <1>7, <2>1
    <2> QED
      BY <1>4, <1>6, <1>7, <2>1, <2>2, SeqEqual
  <1>9. Taken' = Taken
    BY <1>1, <1>2, TakenStays
  <1> QED
    BY <1>4, <1>5, <1>6, <1>8, <1>9 DEF Fifo!Reserve, IsSegment

\* A write fills the place that was claimed.
LEMMA StoreFills ==
    ASSUME IInv, IInv', NEW t \in Threads, Store(t)
    PROVE  \E i \in 1 .. Len(Contents), v \in Values : Fifo!Fill(i, v)
  <1> DEFINE k == spot[t]
             v == data[mitem[t]]
             s == Segment(Shown, w, r)
  <1>1. /\ k \in Places /\ Held(k) /\ buf[k] = Nil /\ mitem[t] \in Elements /\ v \in Values
        /\ w' = w /\ r' = r /\ data' = data /\ pc[t] = "store" /\ pc'[t] = "idle"
        /\ w \in Places /\ r \in Places
        /\ buf' = [buf EXCEPT ![k] = mitem[t]]
    BY DEF IInv, Inv, TypeOK, Store, Queue, Items, ItemsOf, Return, Goto
  <1>2. StepOf(t)
    BY DEF StepOf, BufferStep
  <1>3. PICK n \in 1 .. Span(w, r) :
           /\ From(r, n) = k
           /\ \A j \in 1 .. Span(w, r) : From(r, j) = k => j = n
    BY <1>1, SegmentPlaces DEF IInv
  <1>4. /\ Shown \in [Places -> Shows] /\ Contents = s
        /\ Contents' = Segment(Shown', w, r)
    BY <1>1, ContentsIsSegment DEF IInv
  <1>5. Shown' = [Shown EXCEPT ![k] = v] /\ Shown[k] = NoValue /\ v \in Shows
    BY <1>1 DEF Shown, IInv, TypeOK, Shows
  <1>6. Contents' = [s EXCEPT ![n] = v]
    <2> HIDE DEF k, v
    <2>1. w \in Places /\ r \in Places /\ k \in Places /\ v \in Shows
      BY <1>1, <1>5
    <2>2. Segment(Put(Shown, k, v), w, r) = Put(s, n, v)
      BY <1>3, <1>4, <2>1, SegmentExcept
    <2> QED
      BY <1>4, <1>5, <2>2 DEF Put
  <1>7. IsSegment(s, Shown, w, r)
    BY <1>1, <1>4, SegmentType
  <1>8. s[n] = NoValue /\ n \in 1 .. Len(s)
    <2> HIDE DEF s, k
    <2> QED
      BY <1>3, <1>5, <1>7 DEF IsSegment
  <1>9. n = 1 => Taken = NoValue
    <2>1. n = 1 => k = r
      BY <1>1, <1>3 DEF From, Places, Slots
    <2>2. k = r => \A u \in Threads : pc[u] # "advance"
      BY <1>1 DEF IInv, Inv, Queue
    <2> QED
      BY <2>1, <2>2, TakenIs
  <1>10. Taken' = Taken
    BY <1>1, <1>2, TakenStays
  <1>11. Fifo!Fill(n, v)
    BY <1>4, <1>6, <1>8, <1>9, <1>10 DEF Fifo!Fill
  <1> QED
    BY <1>1, <1>4, <1>8, <1>11

\* Clearing the place takes the value.
LEMMA ClearTakes ==
    ASSUME IInv, IInv', NEW t \in Threads, Clear(t)
    PROVE  Fifo!Take
  <1> DEFINE s == Segment(Shown, w, r)
  <1>1. /\ buf[r] = itmp[t] /\ buf[r] \in Elements /\ spot[t] = r
        /\ buf' = [buf EXCEPT ![r] = Nil] /\ w' = w /\ r' = r /\ data' = data /\ itmp' = itmp
        /\ pc[t] = "clear" /\ pc'[t] = "advance"
        /\ w \in Places /\ r \in Places /\ Held(r)
    <2>1. spot[t] = r /\ itmp[t] = buf[r] /\ buf[r] # Nil /\ Held(r)
      BY DEF IInv, Inv, TypeOK, Clear, Items, ItemsOf, Queue
    <2> QED
      BY <2>1 DEF Clear, Goto, IInv, TypeOK
  <1>2. w # r
    BY <1>1, SomeHeld DEF IInv
  <1>3. Span(w, r) \in 1 .. Size /\ From(r, 1) = r
    BY <1>1, <1>2 DEF Span, From, Places, Slots
  <1>4. \A j \in 1 .. Span(w, r) : From(r, j) = r => j = 1
    BY <1>1, <1>3 DEF Span, From, Places, Slots
  <1>5. /\ Shown \in [Places -> Shows] /\ Contents = s
        /\ Contents' = Segment(Shown', w, r)
    BY <1>1, ContentsIsSegment DEF IInv
  <1>6. /\ Shown' = [Shown EXCEPT ![r] = NoValue] /\ NoValue \in Shows
        /\ Shown[r] = data[itmp[t]] /\ data[itmp[t]] \in Values
    BY <1>1 DEF Shown, IInv, TypeOK, Shows
  <1>7. Contents' = [s EXCEPT ![1] = NoValue]
    <2>1. w \in Places /\ r \in Places /\ 1 \in 1 .. Span(w, r)
      BY <1>1, <1>3
    <2>2. Segment(Put(Shown, r, NoValue), w, r) = Put(s, 1, NoValue)
      BY <1>3, <1>4, <1>5, <1>6, <2>1, SegmentExcept
    <2> QED
      BY <1>5, <1>6, <2>2 DEF Put
  <1>8. IsSegment(s, Shown, w, r)
    BY <1>1, <1>5, SegmentType
  <1>9. s # <<>> /\ Head(s) = data[itmp[t]]
    <2> HIDE DEF s
    <2>1. Len(s) >= 1 /\ s[1] = data[itmp[t]] /\ s \in Seq(Shows)
      BY <1>3, <1>6, <1>8 DEF IsSegment
    <2> QED
      BY <2>1
  <1>10. \A u \in Threads : pc'[u] = "advance" <=> u = t
    <2>1. \A u \in Threads : pc[u] = "advance" => u = t
      BY <1>1, OneDequeues DEF Dequeuing, IInv, Inv
    <2>2. \A u \in Threads \ {t} : pc'[u] = pc[u]
      BY OthersStay DEF StepOf, BufferStep, IInv
    <2> QED
      BY <1>1, <2>1, <2>2
  <1>11. Taken' = Head(s)
    BY <1>1, <1>9, <1>10, TakenIs
  <1> QED
    BY <1>5, <1>6, <1>7, <1>9, <1>11 DEF Fifo!Take

\* Advancing the read index gives the place back.
LEMMA AdvanceReleases ==
    ASSUME IInv, IInv', NEW t \in Threads, Advance(t)
    PROVE  Fifo!Release
  <1> DEFINE s == Segment(Shown, w, r)
             z == Segment(Shown', w', r')
  <1>1. /\ w # r /\ r' = Following(r) /\ w' = w /\ buf' = buf /\ data' = data
        /\ w \in Places /\ r \in Places /\ r' \in Places
        /\ itmp[t] \in Elements /\ pc[t] = "advance" /\ pc'[t] # "advance"
    BY DEF IInv, Inv, TypeOK, Advance, AfterDequeue, Goto, Items, ItemsOf, Taking
  <1>2. /\ Span(w, r) \in 1 .. Size /\ Span(w, r') = Span(w, r) - 1
        /\ \A i \in 1 .. Span(w, r) - 1 : From(r', i) = From(r, i + 1)
    BY <1>1 DEF Span, From, Places, Following, Slots
  <1>3. /\ Shown \in [Places -> Shows] /\ Contents = s /\ Contents' = z
    BY ContentsIsSegment DEF IInv
  <1>4. Shown' = Shown
    BY <1>1 DEF Shown
  <1>5. IsSegment(s, Shown, w, r)
    BY <1>1, <1>3, SegmentType
  <1>6. IsSegment(z, Shown, w, r')
    BY <1>1, <1>3, <1>4, SegmentType
  <1>7. z = Tail(s)
    <2> HIDE DEF s, z
    <2> USE DEF IsSegment
    <2>1. /\ Tail(s) \in Seq(Shows) /\ Len(Tail(s)) = Len(s) - 1
          /\ \A i \in 1 .. Len(Tail(s)) : Tail(s)[i] = s[i + 1]
      BY <1>2, <1>5, HeadTailProperties
    <2>2. \A i \in 1 .. Len(z) : z[i] = Tail(s)[i]
      BY <1>2, <1>5, <1>6, <2>1
    <2> QED
      BY <1>2, <1>5, <1>6, <2>1, <2>2, SeqEqual
  <1>8. \A u \in Threads : pc[u] = "advance" <=> u = t
    BY <1>1, OneDequeues DEF Dequeuing, IInv, Inv
  <1>9. Taken # NoValue
    <2>1. Taken = data[itmp[t]]
      BY <1>8, TakenIs
    <2> QED
      BY <1>1, <2>1 DEF IInv, TypeOK
  <1>10. Taken' = NoValue
    <2>1. \A u \in Threads : pc'[u] # "advance"
      BY <1>1, <1>8, OthersStay DEF StepOf, BufferStep, IInv
    <2> QED
      BY <2>1, TakenIs
  <1> QED
    BY <1>3, <1>7, <1>9, <1>10 DEF Fifo!Release

\* The other steps change nothing that can be seen.
LEMMA AsideStutters ==
    ASSUME IInv, IInv', NEW t \in Threads, Aside(t)
    PROVE  UNCHANGED <<Contents, Taken>>
  <1>1. StepOf(t)
    BY DEF Aside, StepOf, BufferStep
  <1>2. /\ UNCHANGED <<buf, w, r>>
        /\ pc[t] # "advance" /\ pc'[t] # "advance"
    BY AsideStep DEF IInv, Inv
  <1>3. Shown' = Shown
    BY <1>1, <1>2, DataStays DEF Shown
  <1>4. Contents' = Contents
    BY <1>2, <1>3, ContentsIsSegment DEF IInv
  <1>5. Taken' = Taken
    BY <1>1, <1>2, TakenStays
  <1> QED
    BY <1>4, <1>5

\* data_sample() finds no elements outside of the pool.
LEMMA SetDataSampleStutters ==
    ASSUME IInv, IInv', SetDataSample
    PROVE  UNCHANGED <<Contents, Taken>>
  <1>1. \A i \in Places : buf[i] = Nil /\ buf'[i] = Nil
    BY DEF SetDataSample, IInv, Inv, Disjoint, TypeOK
  <1>2. UNCHANGED <<w, r>>
    BY DEF SetDataSample
  <1>3. Shown' = Shown
    BY <1>1 DEF Shown
  <1>4. Contents' = Contents
    BY <1>2, <1>3, ContentsIsSegment DEF IInv
  <1>5. Taken' = Taken
    <2>1. \A u \in Threads : pc[u] # "advance" /\ pc'[u] # "advance"
      BY DEF SetDataSample, locals
    <2> QED
      BY <2>1, TakenIs
  <1> QED
    BY <1>4, <1>5

\* Every step of the buffer is a step of the abstract queue, or none.
LEMMA StepFifo ==
    ASSUME IInv, IInv', [Next]_vars
    PROVE  [Fifo!Next]_(Fifo!vars)
  <1> USE DEF Fifo!vars
  <1>1. ASSUME NEW t \in Threads, StepOf(t)
        PROVE  [Fifo!Next]_(Fifo!vars)
    <2>1. CASE Claim(t)
      BY <2>1, ClaimReserves DEF Fifo!Next
    <2>2. CASE Store(t)
      BY <2>2, StoreFills DEF Fifo!Next
    <2>3. CASE Clear(t)
      BY <2>3, ClearTakes DEF Fifo!Next
    <2>4. CASE Advance(t)
      BY <2>4, AdvanceReleases DEF Fifo!Next
    <2>5. CASE Aside(t)
      BY <2>5, AsideStutters
    <2> QED
      BY <1>1, <2>1, <2>2, <2>3, <2>4, <2>5 DEF StepOf, BufferStep, Aside
  <1>2. CASE SetDataSample
    BY <1>2, SetDataSampleStutters
  <1>3. CASE UNCHANGED vars
    BY <1>3 DEF vars, locals, Contents, Count, Taken
  <1>4. ASSUME Next
        PROVE  SetDataSample \/ \E t \in Threads : StepOf(t)
    BY <1>4 DEF Next, StepOf, ReaderStep, Threads
  <1> QED
    BY <1>1, <1>2, <1>3, <1>4

LEMMA InitFifo ==
    ASSUME Init
    PROVE  Fifo!Init
  <1>1. Contents = <<>>
    BY DEF Init, Contents, Count
  <1>2. Taken = NoValue
    BY TakenIs DEF Init
  <1> QED
    BY <1>1, <1>2 DEF Fifo!Init

-----------------------------------------------------------------------------
(***************************************************************************)
(* Theorems                                                                *)
(***************************************************************************)
LEMMA InductiveStep ==
    ASSUME IInv, [Next]_vars
    PROVE  IInv'
  <1>1. ASSUME NEW t \in Threads, StepOf(t)
        PROVE  IInv'
    <2>1. TypeOK' /\ Calls' /\ Solo' /\ Items'
      BY <1>1, StepTypes, CallsStep, SoloStep, ItemsStep DEF IInv, Inv
    <2>2. Queue' /\ Dropping' /\ Disjoint' /\ Covered'
      BY <1>1, QueueStep, DroppingStep, DisjointStep, CoveredStep
    <2> QED
      BY <2>1, <2>2 DEF IInv, Inv
  <1>2. ASSUME SetDataSample
        PROVE  IInv'
    <2>1. TypeOK'
      BY <1>2 DEF SetDataSample, IInv, TypeOK, locals
    <2>2. Inv'
      BY <1>2 DEF SetDataSample, locals, IInv, Inv, Calls, InCall, Dequeuing, Solo, Busy, Items,
                  ItemsOf, Taking, Queue, Held, Dropping, Disjoint, Covered, Hand
    <2> QED
      BY <2>1, <2>2 DEF IInv
  <1>3. CASE UNCHANGED vars
    <2>1. TypeOK'
      BY <1>3 DEF vars, locals, IInv, TypeOK
    <2>2. Inv'
      BY <1>3 DEF vars, locals, IInv, Inv, Calls, InCall, Dequeuing, Solo, Busy, Items, ItemsOf,
                  Taking, Queue, Held, Dropping, Disjoint, Covered, Hand
    <2> QED
      BY <2>1, <2>2 DEF IInv
  <1>4. ASSUME Next
        PROVE  SetDataSample \/ \E t \in Threads : StepOf(t)
    BY <1>4 DEF Next, StepOf, ReaderStep, Threads
  <1> QED
    BY <1>1, <1>2, <1>3, <1>4

LEMMA Invariance ==
    ASSUME InTurn
    PROVE  Spec => []IInv
  <1>1. Init => IInv
    BY InitInv
  <1>2. IInv /\ [Next]_vars => IInv'
    BY InductiveStep
  <1> QED
    BY <1>1, <1>2, PTL DEF Spec

\* BufferLockFree.hpp: the indexes, elements and values of the buffer stay in their ranges.
THEOREM Types ==
    ASSUME InTurn
    PROVE  Spec => []TypeOK
  <1>1. IInv => TypeOK
    BY DEF IInv
  <1> QED
    BY <1>1, Invariance, PTL

\* BufferLockFree::Push(), Pop(), Release(), clear(): an element of the pool is in the pool,
\* in one place of the queue, or in the hands of one thread.
THEOREM EachHasOneOwner ==
    ASSUME InTurn
    PROVE  Spec => []OneOwner
  <1>1. ASSUME IInv, NEW e \in Elements
        PROVE  Cardinality(Owners(e)) = 1
    <2> USE DEF IInv, Inv
    <2> DEFINE Pool == {"pool" : x \in {f \in free : f = e}}
               Queued == {i \in Places : buf[i] = e}
               Pushed == {<<t, "push">> : t \in {u \in Threads : mitem[u] = e}}
               Popped == {<<t, "pop">> : t \in {u \in Threads : Taking(u) /\ itmp[u] = e}}
    <2>0. Owners(e) = Pool \cup Queued \cup Pushed \cup Popped
      <3>1. Popped = {<<t, "pop">> : t \in {u \in Threads :
                itmp[u] = e /\ pc[u] \in {"advance", "copy", "holding", "deallocate"}}}
        BY DEF Taking
      <3> HIDE DEF Popped
      <3> QED
        BY <3>1 DEF Owners
    <2>1. e # Nil /\ \A u \in Threads : Hand(u) = e <=> Taking(u) /\ itmp[u] = e
      BY DEF Hand
    <2>2. CASE e \in free
      <3>1. /\ \A i \in Places : buf[i] # e
            /\ \A u \in Threads : mitem[u] # e /\ Hand(u) # e
        BY <1>1, <2>1, <2>2 DEF Disjoint
      <3>2. Pool = {"pool"} /\ Queued = {} /\ Pushed = {} /\ Popped = {}
        BY <2>1, <2>2, <3>1
      <3> HIDE DEF Pool, Queued, Pushed, Popped
      <3>3. Owners(e) = {"pool"}
        BY <2>0, <3>2
      <3> QED
        BY <3>3, FS_Singleton
    <2>3. ASSUME NEW i \in Places, buf[i] = e
          PROVE  Cardinality(Owners(e)) = 1
      <3>1. /\ e \notin free
            /\ \A j \in Places : buf[j] = e <=> j = i
            /\ \A u \in Threads : mitem[u] # e /\ Hand(u) # e
        BY <1>1, <2>1, <2>3 DEF Disjoint
      <3>2. Pool = {} /\ Queued = {i} /\ Pushed = {} /\ Popped = {}
        BY <2>1, <3>1
      <3> HIDE DEF Pool, Queued, Pushed, Popped
      <3>3. Owners(e) = {i}
        BY <2>0, <3>2
      <3> QED
        BY <3>3, FS_Singleton
    <2>4. ASSUME NEW t \in Threads, mitem[t] = e
          PROVE  Cardinality(Owners(e)) = 1
      <3>1. /\ e \notin free
            /\ \A i \in Places : buf[i] # e
            /\ \A u \in Threads : (mitem[u] = e <=> u = t) /\ Hand(u) # e
        BY <1>1, <2>1, <2>4 DEF Disjoint
      <3>2. Pool = {} /\ Queued = {} /\ Pushed = {<<t, "push">>} /\ Popped = {}
        BY <2>1, <3>1
      <3> HIDE DEF Pool, Queued, Pushed, Popped
      <3>3. Owners(e) = {<<t, "push">>}
        BY <2>0, <3>2
      <3> QED
        BY <3>3, FS_Singleton
    <2>5. ASSUME NEW t \in Threads, Hand(t) = e
          PROVE  Cardinality(Owners(e)) = 1
      <3>1. /\ e \notin free
            /\ \A i \in Places : buf[i] # e
            /\ \A u \in Threads : mitem[u] # e /\ (Hand(u) = e <=> u = t)
        BY <1>1, <2>1, <2>5 DEF Disjoint
      <3>2. Pool = {} /\ Queued = {} /\ Pushed = {} /\ Popped = {<<t, "pop">>}
        BY <2>1, <3>1
      <3> HIDE DEF Pool, Queued, Pushed, Popped
      <3>3. Owners(e) = {<<t, "pop">>}
        BY <2>0, <3>2
      <3> QED
        BY <3>3, FS_Singleton
    <2> QED
      BY <1>1, <2>2, <2>3, <2>4, <2>5 DEF Covered
  <1>2. IInv => OneOwner
    BY <1>1 DEF OneOwner
  <1> QED
    BY <1>2, Invariance, PTL

\* BufferLockFree::Pop(), PopWithoutRelease(): what the reader has dequeued is not overwritten
\* before it is copied or released.
THEOREM DequeuedStaysIntact ==
    ASSUME InTurn
    PROVE  Spec => Intact
  <1> DEFINE Same == pc[Reader] \in {"advance", "copy", "holding"}
                        => data'[itmp[Reader]] = data[itmp[Reader]]
  <1>1. ASSUME IInv, Next
        PROVE  Same
    <2> SUFFICES ASSUME pc[Reader] \in {"advance", "copy", "holding"}, data' # data
                 PROVE  Same
      OBVIOUS
    <2>1. Reader \in Threads
      BY DEF Threads
    <2>2. ~SetDataSample
      BY <2>1 DEF SetDataSample
    <2>3. PICK t \in Threads : Fill(t)
      BY <1>1, <2>2 DEF Next, BufferStep, Push, Allocate, NoElement, TakeOldest, Claim, Store,
            Full, DropOldest, Dequeue, Clear, Advance, NothingThere, Deallocate, Take, CopyOut,
            Release, DataSample, SampleRead
    <2>4. Hand(Reader) # Nil /\ Hand(Reader) = itmp[Reader]
      BY <1>1, <2>1 DEF IInv, Inv, Items, ItemsOf, Hand, Taking
    <2>5. mitem[t] # itmp[Reader]
      BY <1>1, <2>1, <2>4 DEF IInv, Inv, Disjoint
    <2> QED
      BY <1>1, <2>1, <2>3, <2>4, <2>5 DEF Fill, IInv, TypeOK
  <1>2. IInv /\ [Next]_vars => [Same]_vars
    BY <1>1
  <1> QED
    BY <1>2, Invariance, PTL DEF Spec, Intact

\* BufferLockFree.hpp, "read and write data of type T in a FIFO way": the values come out in
\* the order in which they were put in, none twice and none lost but those clear() and a
\* circular Push() take out.
THEOREM Implements ==
    ASSUME InTurn
    PROVE  Spec => IsFifoQueue
  <1>1. Init => Fifo!Init
    BY InitFifo
  <1>2. IInv /\ IInv' /\ [Next]_vars => [Fifo!Next]_(Fifo!vars)
    BY StepFifo
  <1> QED
    BY <1>1, <1>2, Invariance, PTL DEF Spec, IsFifoQueue, Fifo!Spec
=============================================================================
