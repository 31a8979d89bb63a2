--------------------------- MODULE LockFreeProofs ---------------------------
(***************************************************************************)
(* The two lock-free structures that mark what a thread has read: the data *)
(* object, whose readers hold a counter of their buffer, and the memory    *)
(* pool, whose head carries a tag.  Each part is about one of them, for    *)
(* any number of threads; neither uses the other.                          *)
(***************************************************************************)
EXTENDS DataObjectLockFree, TsPool, FiniteSetTheorems, WellFoundedInduction,
        NaturalsInduction, TLAPS

-----------------------------------------------------------------------------
(***************************************************************************)
(* DataObjectLockFree for any number of readers: with fewer readers than   *)
(* MAX_THREADS the writer always finds a free buffer, never writes to the  *)
(* buffer a reader copies from, and the object is an atomic register.      *)
(***************************************************************************)
USE DataObjectAssumption

\* Where the writer stands with respect to the buffer that is read.
Pointers ==
    /\ wpc \in {"idle", "writing"} => write_ptr # read_ptr
    /\ wpc \in {"scan", "publish"} => wrote_ptr # read_ptr
    /\ wpc \in {"publish", "advance"} => Ring(write_ptr) # read_ptr
    /\ wpc = "publish" => Ring(write_ptr) # wrote_ptr

\* No reader copies from the buffer the writer owns, or will own next.
Excluded ==
    \A r \in Readers : pc[r] = "copy" =>
        /\ wpc \in {"idle", "writing"} => reading[r] # write_ptr
        /\ wpc \in {"publish", "advance"} => reading[r] # Ring(write_ptr)

\* The buffers the search has found occupied: those after wrote_ptr, round the
\* ring, up to write_ptr.
Scanned ==
    IF write_ptr >= wrote_ptr
      THEN {b \in Buffers : wrote_ptr < b /\ b <= write_ptr}
      ELSE {b \in Buffers : wrote_ptr < b \/ b <= write_ptr}

\* The readers that can have made them so.  A reader whose last buffer was one of
\* them stays in this set: it can only go to read_ptr, which the search leaves alone.
Moved == {r \in Readers : reading[r] \in Scanned \cup {read_ptr}}

\* Every reader keeps the search from at most one buffer.
Bound == wpc = "scan" => Cardinality(Scanned \ {read_ptr}) <= Cardinality(Moved)

IInv == TypeOK /\ CounterExact /\ Pointers /\ Excluded /\ Bound

-----------------------------------------------------------------------------
\* The ring has at least three buffers, and every buffer has another one next.
LEMMA RingType ==
    /\ \A b \in Buffers : Ring(b) \in Buffers /\ Ring(b) # b
    /\ 0 \in Buffers /\ 1 \in Buffers
    /\ Ring(1) # 0 /\ 1 # 0
    BY DEF Ring, Buffers, BufLen

LEMMA Finite ==
    /\ IsFiniteSet(Buffers) /\ Cardinality(Buffers) = MaxThreads + 2
    /\ \A S \in SUBSET Buffers : IsFiniteSet(S) /\ Cardinality(S) \in Nat
    /\ \A S \in SUBSET Readers : IsFiniteSet(S) /\ Cardinality(S) \in Nat
  <1>1. IsFiniteSet(Buffers) /\ Cardinality(Buffers) = MaxThreads + 2
    BY FS_Interval DEF Buffers, BufLen
  <1>2. ASSUME NEW S \in SUBSET Buffers
        PROVE  IsFiniteSet(S) /\ Cardinality(S) \in Nat
    BY <1>1, FS_Subset, FS_CardinalityType
  <1>3. ASSUME NEW S \in SUBSET Readers
        PROVE  IsFiniteSet(S) /\ Cardinality(S) \in Nat
    BY FS_Subset, FS_CardinalityType
  <1> QED
    BY <1>1, <1>2, <1>3

\* The steps of Set() and Get() keep the pointers in the ring.
LEMMA StepTypes == TypeOK /\ [Next]_vars => TypeOK'
  <1> SUFFICES ASSUME TypeOK, [Next]_vars PROVE TypeOK'
    OBVIOUS
  <1> USE RingType DEF TypeOK, readerVars, writerVars
  <1>1. CASE SetBegin BY <1>1 DEF SetBegin
  <1>2. CASE SetData BY <1>2 DEF SetData
  <1>3. CASE Skip BY <1>3 DEF Skip
  <1>4. CASE GiveUp BY <1>4 DEF GiveUp
  <1>5. CASE Found BY <1>5 DEF Found
  <1>6. CASE Publish BY <1>6 DEF Publish
  <1>7. CASE Advance BY <1>7 DEF Advance
  <1>8. ASSUME NEW r \in Readers, GetPtr(r) PROVE TypeOK' BY <1>8 DEF GetPtr
  <1>9. ASSUME NEW r \in Readers, Lock(r) PROVE TypeOK' BY <1>9 DEF Lock
  <1>10. ASSUME NEW r \in Readers, Locked(r) PROVE TypeOK' BY <1>10 DEF Locked
  <1>11. ASSUME NEW r \in Readers, StartOver(r) PROVE TypeOK' BY <1>11 DEF StartOver
  <1>12. ASSUME NEW r \in Readers, Copy(r) PROVE TypeOK' BY <1>12 DEF Copy
  <1>13. ASSUME NEW r \in Readers, Unlock(r) PROVE TypeOK' BY <1>13 DEF Unlock
  <1>14. CASE UNCHANGED vars BY <1>14 DEF vars
  <1> QED
    BY <1>1, <1>2, <1>3, <1>4, <1>5, <1>6, <1>7, <1>8, <1>9, <1>10, <1>11,
       <1>12, <1>13, <1>14 DEF Next, Writer, Reader

-----------------------------------------------------------------------------
\* oro_atomic_inc() and oro_atomic_dec() of Get() keep the counters exact.
LEMMA StepCounter == TypeOK /\ CounterExact /\ [Next]_vars => CounterExact'
  <1> SUFFICES ASSUME TypeOK, CounterExact, [Next]_vars PROVE CounterExact'
    OBVIOUS
  <1> USE DEF TypeOK, CounterExact
  <1>1. ASSUME Writer \/ UNCHANGED vars PROVE CounterExact'
    <2>1. UNCHANGED <<counter, reading, pc>>
      BY <1>1 DEF Writer, SetBegin, SetData, Skip, GiveUp, Found, Publish,
                  Advance, readerVars, vars
    <2> QED
      BY <2>1 DEF Holders
  <1>2. ASSUME NEW r \in Readers, Lock(r) PROVE CounterExact'
    <2> SUFFICES ASSUME NEW b \in Buffers PROVE counter'[b] = Cardinality(Holders(b)')
      OBVIOUS
    <2>1. CASE b = reading[r]
      <3>1. Holders(b)' = Holders(b) \cup {r} /\ r \notin Holders(b)
        BY <1>2, <2>1 DEF Lock, Holders
      <3>2. IsFiniteSet(Holders(b))
        BY Finite DEF Holders
      <3>3. Cardinality(Holders(b)') = Cardinality(Holders(b)) + 1
        BY <3>1, <3>2, FS_AddElement
      <3> QED
        BY <1>2, <2>1, <3>3 DEF Lock
    <2>2. CASE b # reading[r]
      <3>1. Holders(b)' = Holders(b)
        BY <1>2, <2>2 DEF Lock, Holders
      <3> QED
        BY <1>2, <2>2, <3>1 DEF Lock
    <2> QED
      BY <2>1, <2>2
  <1>3. ASSUME NEW r \in Readers, StartOver(r) \/ Unlock(r) PROVE CounterExact'
    <2> SUFFICES ASSUME NEW b \in Buffers PROVE counter'[b] = Cardinality(Holders(b)')
      OBVIOUS
    <2>0. /\ pc[r] \in {"check", "unlock"} /\ pc' = [pc EXCEPT ![r] = "idle"]
          /\ counter' = [counter EXCEPT ![reading[r]] = @ - 1]
          /\ reading' = reading
      BY <1>3 DEF StartOver, Unlock
    <2>1. CASE b = reading[r]
      <3>1. Holders(b)' = Holders(b) \ {r} /\ r \in Holders(b)
        BY <2>0, <2>1 DEF Holders
      <3>2. IsFiniteSet(Holders(b)) /\ Cardinality(Holders(b)) \in Nat
        BY Finite DEF Holders
      <3>3. Cardinality(Holders(b)') = Cardinality(Holders(b)) - 1
        BY <3>1, <3>2, FS_RemoveElement
      <3> QED
        BY <2>0, <2>1, <3>3
    <2>2. CASE b # reading[r]
      <3>1. Holders(b)' = Holders(b)
        BY <2>0, <2>2 DEF Holders
      <3> QED
        BY <2>0, <2>2, <3>1
    <2> QED
      BY <2>1, <2>2
  <1>4. ASSUME NEW r \in Readers, GetPtr(r) \/ Locked(r) \/ Copy(r)
        PROVE  CounterExact'
    <2>1. counter' = counter
      BY <1>4 DEF GetPtr, Locked, Copy
    <2>2. \A b \in Buffers : Holders(b)' = Holders(b)
      BY <1>4 DEF GetPtr, Locked, Copy, Holders
    <2> QED
      BY <2>1, <2>2
  <1> QED
    BY <1>1, <1>2, <1>3, <1>4 DEF Next, Reader

-----------------------------------------------------------------------------
\* The readers are too few to occupy the whole ring: the search of Set() ends
\* before it comes round to the buffer it started from.
LEMMA Room == TypeOK /\ Pointers /\ Bound /\ EnoughBuffers => RoomFound
  <1> SUFFICES ASSUME TypeOK, Pointers, Bound, EnoughBuffers,
                      wpc = "scan", Ring(write_ptr) = wrote_ptr
               PROVE  FALSE
    BY DEF RoomFound
  <1> DEFINE others == Buffers \ {wrote_ptr}
  <1>1. Scanned = others
    BY DEF TypeOK, Scanned, Ring, Buffers, BufLen
  <1>2. wrote_ptr \in Buffers /\ read_ptr \in others
    BY DEF TypeOK, Pointers
  <1>3. IsFiniteSet(others) /\ Cardinality(others) = MaxThreads + 1
    BY <1>2, Finite, FS_RemoveElement
  <1> HIDE DEF others
  <1>4. Cardinality(others \ {read_ptr}) = MaxThreads
    <2>1. Cardinality(others \ {read_ptr}) = Cardinality(others) - 1
      BY <1>2, <1>3, FS_RemoveElement
    <2> QED
      BY <1>3, <2>1
  <1>5. Cardinality(Moved) <= Cardinality(Readers)
    BY FS_Subset DEF Moved
  <1>6. Cardinality(Moved) \in Nat /\ Cardinality(Readers) \in Nat
    BY Finite DEF Moved
  <1> QED
    BY <1>1, <1>4, <1>5, <1>6 DEF Bound, EnoughBuffers

\* A buffer the search skips is held by a reader it had not counted yet.
LEMMA StepBound ==
    TypeOK /\ CounterExact /\ Bound /\ [Next]_vars => Bound'
  <1> SUFFICES ASSUME TypeOK, CounterExact, Bound, [Next]_vars, wpc' = "scan"
               PROVE  Cardinality(Scanned' \ {read_ptr'}) <= Cardinality(Moved')
    BY DEF Bound
  <1> DEFINE seen == Scanned \ {read_ptr}
  <1>0. /\ seen \in SUBSET Buffers /\ IsFiniteSet(seen) /\ Cardinality(seen) \in Nat
        /\ Moved \in SUBSET Readers /\ IsFiniteSet(Moved) /\ Cardinality(Moved) \in Nat
        /\ Moved' \in SUBSET Readers /\ IsFiniteSet(Moved') /\ Cardinality(Moved') \in Nat
    <2>1. seen \in SUBSET Buffers /\ Moved \in SUBSET Readers /\ Moved' \in SUBSET Readers
      BY DEF Scanned, Moved
    <2> QED
      BY <2>1, Finite
  <1>1. CASE SetData
    <2>1. Scanned' = {}
      BY <1>1 DEF SetData, Scanned, TypeOK, Buffers
    <2>2. Cardinality(Scanned' \ {read_ptr'}) = 0
      BY <2>1, FS_EmptySet
    <2> QED
      BY <1>0, <2>2
  <1>2. CASE Skip
    <2> DEFINE b == Ring(write_ptr)
    <2>1. /\ b \in Buffers /\ b # wrote_ptr /\ write_ptr' = b
          /\ read_ptr' = read_ptr /\ wrote_ptr' = wrote_ptr
          /\ reading' = reading /\ wpc = "scan"
      BY <1>2, RingType DEF Skip, readerVars, TypeOK
    <2>2. Scanned' = Scanned \cup {b} /\ b \notin Scanned
      <3>1. b = Ring(write_ptr) /\ write_ptr \in 0 .. BufLen - 1
            /\ wrote_ptr \in 0 .. BufLen - 1 /\ b # wrote_ptr /\ BufLen \in Nat
        BY <2>1 DEF TypeOK, Buffers, BufLen
      <3> HIDE DEF b
      <3>2. CASE write_ptr = BufLen - 1
        <4>1. b = 0
          BY <3>1, <3>2 DEF Ring
        <4> QED
          BY <2>1, <3>1, <3>2, <4>1 DEF Scanned, Buffers
      <3>3. CASE write_ptr # BufLen - 1
        <4>1. b = write_ptr + 1
          BY <3>1, <3>3 DEF Ring
        <4> QED
          BY <2>1, <3>1, <3>3, <4>1 DEF Scanned, Buffers
      <3> QED
        BY <3>2, <3>3
    <2>3. CASE b = read_ptr
      <3>1. Scanned' \ {read_ptr'} = seen /\ Moved' = Moved
        BY <2>1, <2>2, <2>3 DEF Moved
      <3> QED
        BY <2>1, <3>1 DEF Bound
    <2>4. CASE b # read_ptr
      <3>1. counter[b] # 0
        BY <1>2, <2>4 DEF Skip, Occupied
      <3>2. Holders(b) # {}
        BY <2>1, <3>1, FS_EmptySet DEF CounterExact
      <3>3. PICK r \in Readers : reading[r] = b
        BY <3>2 DEF Holders
      <3>4. r \notin Moved /\ Moved \cup {r} \subseteq Moved'
        BY <2>1, <2>2, <2>4, <3>3 DEF Moved
      <3>5. Cardinality(Moved \cup {r}) = Cardinality(Moved) + 1
        BY <1>0, <3>4, FS_AddElement
      <3>6. Cardinality(Moved \cup {r}) <= Cardinality(Moved')
        BY <1>0, <3>4, FS_Subset
      <3>7. Scanned' \ {read_ptr'} = seen \cup {b} /\ b \notin seen
        BY <2>1, <2>2, <2>4
      <3>8. Cardinality(seen \cup {b}) = Cardinality(seen) + 1
        BY <1>0, <3>7, FS_AddElement
      <3> HIDE DEF seen, b
      <3>9. Cardinality(seen) <= Cardinality(Moved)
        BY <2>1 DEF Bound, seen
      <3>10. Cardinality(Scanned' \ {read_ptr'}) = Cardinality(seen) + 1
        BY <3>7, <3>8
      <3> QED
        BY <1>0, <3>5, <3>6, <3>9, <3>10
    <2> QED
      BY <2>3, <2>4
  <1>3. ASSUME NEW r \in Readers, GetPtr(r)
        PROVE  Cardinality(Scanned' \ {read_ptr'}) <= Cardinality(Moved')
    <2>1. /\ Scanned' = Scanned /\ read_ptr' = read_ptr /\ wpc = "scan"
          /\ reading' = [reading EXCEPT ![r] = read_ptr]
      BY <1>3 DEF GetPtr, writerVars, Scanned
    <2>2. Moved \subseteq Moved'
      BY <2>1 DEF Moved, TypeOK
    <2>3. Cardinality(Moved) <= Cardinality(Moved')
      BY <1>0, <2>2, FS_Subset
    <2>4. Cardinality(Scanned' \ {read_ptr'}) <= Cardinality(Moved)
      BY <2>1 DEF Bound
    <2> HIDE DEF seen
    <2> QED
      BY <1>0, <2>1, <2>3, <2>4 DEF seen
  <1>4. CASE UNCHANGED <<reading, read_ptr, write_ptr, wrote_ptr, wpc>>
    <2>1. Scanned' = Scanned /\ Moved' = Moved /\ read_ptr' = read_ptr
      BY <1>4 DEF Scanned, Moved
    <2> QED
      BY <1>4, <2>1 DEF Bound
  <1> QED
    BY <1>1, <1>2, <1>3, <1>4
       DEF Next, Writer, Reader, SetBegin, GiveUp, Found, Publish, Advance, Lock,
           Locked, StartOver, Copy, Unlock, writerVars, readerVars, vars

-----------------------------------------------------------------------------
\* Set() leaves the buffer it publishes, for one that is not being read.
LEMMA StepPointers == TypeOK /\ Pointers /\ RoomFound /\ [Next]_vars => Pointers'
  <1> SUFFICES ASSUME TypeOK, Pointers, RoomFound, [Next]_vars PROVE Pointers'
    OBVIOUS
  <1>1. CASE SetBegin \/ SetData \/ Skip \/ GiveUp
    BY <1>1 DEF SetBegin, SetData, Skip, GiveUp, Pointers
  <1>2. CASE Found
    BY <1>2 DEF Found, Occupied, Pointers, RoomFound
  <1>3. CASE Publish
    BY <1>3 DEF Publish, Pointers
  <1>4. CASE Advance
    BY <1>4 DEF Advance, Pointers
  <1>5. CASE UNCHANGED writerVars
    BY <1>5 DEF writerVars, Pointers
  <1> QED
    BY <1>1, <1>2, <1>3, <1>4, <1>5
       DEF Next, Writer, Reader, GetPtr, Lock, Locked, StartOver, Copy, Unlock,
           writerVars, vars

\* The buffer Set() goes on with is free, and no Get() enters it: a reader that is
\* late sees that read_ptr is another.
LEMMA StepExcluded ==
    TypeOK /\ CounterExact /\ Pointers /\ RoomFound /\ Excluded /\ [Next]_vars
      => Excluded'
  <1> SUFFICES ASSUME TypeOK, CounterExact, Pointers, RoomFound, Excluded, [Next]_vars,
                      NEW r \in Readers, pc'[r] = "copy"
               PROVE  /\ wpc' \in {"idle", "writing"} => reading'[r] # write_ptr'
                      /\ wpc' \in {"publish", "advance"}
                           => reading'[r] # Ring(write_ptr)'
    BY DEF Excluded
  <1>1. CASE SetBegin \/ SetData \/ Skip \/ GiveUp \/ Publish \/ Advance
    BY <1>1 DEF SetBegin, SetData, Skip, GiveUp, Publish, Advance, RoomFound,
                readerVars, Excluded, Ring
  <1>2. CASE Found
    <2> DEFINE b == Ring(write_ptr)
    <2>1. b \in Buffers /\ counter[b] = 0
      BY <1>2, RingType DEF Found, Occupied, TypeOK
    <2>2. Cardinality(Holders(b)) = 0
      BY <2>1 DEF CounterExact
    <2>3. Holders(b) = {}
      BY <2>2, Finite, FS_EmptySet DEF Holders
    <2>4. pc[r] = "copy" /\ reading' = reading /\ write_ptr' = write_ptr
          /\ wpc' = "publish"
      BY <1>2 DEF Found, readerVars
    <2>5. reading[r] # b
      BY <2>3, <2>4 DEF Holders
    <2> QED
      BY <2>4, <2>5 DEF Ring
  <1>3. ASSUME NEW s \in Readers, Locked(s)
        PROVE  /\ wpc' \in {"idle", "writing"} => reading'[r] # write_ptr'
               /\ wpc' \in {"publish", "advance"} => reading'[r] # Ring(write_ptr)'
    <2>1. UNCHANGED <<wpc, write_ptr, reading>> /\ Ring(write_ptr)' = Ring(write_ptr)
      BY <1>3 DEF Locked, writerVars, Ring
    <2>2. CASE r = s
      <3>1. reading[r] = read_ptr
        BY <1>3, <2>2 DEF Locked
      <3> QED
        BY <2>1, <3>1 DEF Pointers
    <2>3. CASE r # s
      <3>1. pc[r] = "copy"
        BY <1>3, <2>3 DEF Locked, TypeOK
      <3> QED
        BY <2>1, <3>1 DEF Excluded
    <2> QED
      BY <2>2, <2>3
  <1>4. ASSUME NEW s \in Readers,
               GetPtr(s) \/ Lock(s) \/ StartOver(s) \/ Copy(s) \/ Unlock(s)
        PROVE  /\ wpc' \in {"idle", "writing"} => reading'[r] # write_ptr'
               /\ wpc' \in {"publish", "advance"} => reading'[r] # Ring(write_ptr)'
    <2>1. UNCHANGED <<wpc, write_ptr>> /\ Ring(write_ptr)' = Ring(write_ptr)
      BY <1>4 DEF GetPtr, Lock, StartOver, Copy, Unlock, writerVars, Ring
    <2>2. pc[r] = "copy" /\ reading'[r] = reading[r]
      BY <1>4 DEF GetPtr, Lock, StartOver, Copy, Unlock, TypeOK
    <2> QED
      BY <2>1, <2>2 DEF Excluded
  <1>5. CASE UNCHANGED vars
    BY <1>5 DEF vars, Excluded, Ring
  <1> QED
    BY <1>1, <1>2, <1>3, <1>4, <1>5 DEF Next, Writer, Reader

-----------------------------------------------------------------------------
\* A new object: nobody reads, the writer owns the buffer after the one to read.
LEMMA InitIInv == Init => IInv
  <1> SUFFICES ASSUME Init PROVE IInv
    OBVIOUS
  <1>1. TypeOK
    BY RingType DEF Init, TypeOK
  <1>2. CounterExact
    <2>1. \A b \in Buffers : Holders(b) = {}
      BY DEF Init, Holders
    <2> QED
      BY <2>1, FS_EmptySet DEF Init, CounterExact
  <1>3. Pointers /\ Excluded /\ Bound
    BY DEF Init, Pointers, Excluded, Bound
  <1> QED
    BY <1>1, <1>2, <1>3 DEF IInv

LEMMA StepIInv == EnoughBuffers /\ IInv /\ [Next]_vars => IInv'
  BY Room, StepTypes, StepCounter, StepBound, StepPointers, StepExcluded DEF IInv

LEMMA Invariant == ASSUME EnoughBuffers PROVE Spec => []IInv
  <1>1. IInv /\ [Next]_vars => IInv'
    BY StepIInv
  <1> QED
    BY InitIInv, <1>1, PTL DEF Spec

\* The pointers of the object stay in its ring, whoever reads it.
THEOREM TypeCorrect == Spec => []TypeOK
  <1>1. Init => TypeOK
    BY InitIInv DEF IInv
  <1> QED
    BY <1>1, StepTypes, PTL DEF Spec

\* A counter of a buffer is the number of readers that hold it: Get() gives back
\* what it takes, also when it starts over, for any number of readers.
THEOREM Counted == Spec => []CounterExact
  <1>1. Init => TypeOK /\ CounterExact
    BY InitIInv DEF IInv
  <1>2. TypeOK /\ CounterExact /\ [Next]_vars => TypeOK' /\ CounterExact'
    BY StepTypes, StepCounter
  <1> QED
    BY <1>1, <1>2, PTL DEF Spec

\* With fewer readers than MAX_THREADS, Set() always finds a buffer to go on with.
THEOREM AlwaysRoom == ASSUME EnoughBuffers PROVE Spec => []RoomFound
  <1>1. IInv => RoomFound
    BY Room DEF IInv
  <1> QED
    BY Invariant, <1>1, PTL

\* With fewer readers than MAX_THREADS, Set() never writes to the buffer a Get()
\* copies from.
THEOREM NeverTorn == ASSUME EnoughBuffers PROVE Spec => []NoTornCopy
  <1>1. IInv => NoTornCopy
    BY DEF IInv, Excluded, NoTornCopy
  <1> QED
    BY Invariant, <1>1, PTL

-----------------------------------------------------------------------------
\* What the readers have, or will copy out of the buffer they have locked.
Pulled ==
    [r \in Readers |-> IF pc[r] = "copy" THEN data[reading[r]] ELSE pull[r]]

\* Every step is a Set(), when it publishes, a Get(), when it has locked its buffer,
\* or changes nothing that can be seen from outside.
LEMMA StepObject ==
    IInv /\ [Next]_vars => [Object!Next]_<<data[read_ptr], Pulled>>
  <1> SUFFICES ASSUME IInv, [Next]_vars
               PROVE  \/ Object!Set
                      \/ \E r \in Readers : Object!Get(r)
                      \/ UNCHANGED <<data[read_ptr], Pulled>>
    BY DEF Object!Next
  <1>0. TypeOK /\ Pointers /\ Excluded
    BY DEF IInv
  <1>1. CASE SetData
    <2>1. UNCHANGED <<read_ptr, reading, pull, pc>>
      BY <1>1 DEF SetData, readerVars
    <2>2. data'[read_ptr] = data[read_ptr]
      BY <1>0, <1>1 DEF SetData, TypeOK, Pointers
    <2>3. \A r \in Readers : pc[r] = "copy" => data'[reading[r]] = data[reading[r]]
      BY <1>0, <1>1 DEF SetData, TypeOK, Excluded
    <2> QED
      BY <2>1, <2>2, <2>3 DEF Pulled
  <1>2. CASE Publish
    <2>1. Pulled' = Pulled
      BY <1>2 DEF Publish, readerVars, Pulled
    <2>2. data'[read_ptr'] \in Samples
      BY <1>0, <1>2 DEF Publish, TypeOK
    <2> QED
      BY <2>1, <2>2 DEF Object!Set, Pulled
  <1>3. CASE SetBegin \/ Skip \/ GiveUp \/ Found \/ Advance \/ UNCHANGED vars
    <2>1. UNCHANGED <<data, read_ptr, reading, pull, pc>>
      BY <1>3 DEF SetBegin, Skip, GiveUp, Found, Advance, readerVars, vars
    <2> QED
      BY <2>1 DEF Pulled
  <1>4. ASSUME NEW r \in Readers, Locked(r)
        PROVE  Object!Get(r)
    <2>1. UNCHANGED <<data, read_ptr, reading, pull>>
          /\ pc' = [pc EXCEPT ![r] = "copy"] /\ reading[r] = read_ptr
      BY <1>4 DEF Locked, writerVars
    <2>2. Pulled' = [Pulled EXCEPT ![r] = data[read_ptr]]
      BY <1>0, <2>1 DEF Pulled, TypeOK
    <2> QED
      BY <2>1, <2>2 DEF Object!Get, Pulled
  <1>5. ASSUME NEW r \in Readers, Copy(r)
        PROVE  UNCHANGED <<data[read_ptr], Pulled>>
    <2>1. /\ UNCHANGED <<data, read_ptr, reading>> /\ pc[r] = "copy"
          /\ pull' = [pull EXCEPT ![r] = data[reading[r]]]
          /\ pc' = [pc EXCEPT ![r] = "unlock"]
      BY <1>5 DEF Copy, writerVars
    <2> QED
      BY <1>0, <2>1 DEF Pulled, TypeOK
  <1>6. ASSUME NEW r \in Readers, GetPtr(r)
        PROVE  UNCHANGED <<data[read_ptr], Pulled>>
    <2>1. /\ UNCHANGED <<data, read_ptr, pull>> /\ pc[r] = "idle"
          /\ reading' = [reading EXCEPT ![r] = read_ptr]
          /\ pc' = [pc EXCEPT ![r] = "lock"]
      BY <1>6 DEF GetPtr, writerVars
    <2>2. \A s \in Readers : /\ pc'[s] = "copy" <=> pc[s] = "copy"
                             /\ pc[s] = "copy" => reading'[s] = reading[s]
      BY <1>0, <2>1 DEF TypeOK
    <2> QED
      BY <2>1, <2>2 DEF Pulled
  <1>7. ASSUME NEW r \in Readers, Lock(r) \/ StartOver(r) \/ Unlock(r)
        PROVE  UNCHANGED <<data[read_ptr], Pulled>>
    <2>1. /\ UNCHANGED <<data, read_ptr, pull, reading>>
          /\ \A s \in Readers : pc'[s] = "copy" <=> pc[s] = "copy"
      BY <1>0, <1>7 DEF Lock, StartOver, Unlock, writerVars, TypeOK
    <2> QED
      BY <2>1 DEF Pulled
  <1> QED
    BY <1>1, <1>2, <1>3, <1>4, <1>5, <1>6, <1>7 DEF Next, Writer, Reader

\* With fewer readers than MAX_THREADS, Set() and Get() are atomic: the object
\* implements a register.
THEOREM Atomic == ASSUME EnoughBuffers PROVE Spec => IsDataObject
  <1>1. Init => Object!Init
    <2> SUFFICES ASSUME Init PROVE Object!Init
      OBVIOUS
    <2>1. PICK s \in Samples : /\ data = [b \in Buffers |-> s]
                               /\ pull = [r \in Readers |-> s]
      BY DEF Init
    <2>2. data[read_ptr] = s
      BY <2>1, RingType DEF Init
    <2>3. Pulled = [r \in Readers |-> s]
      BY <2>1 DEF Init, Pulled
    <2> QED
      BY <2>2, <2>3 DEF Object!Init, Pulled
  <1>2. IInv /\ [Next]_vars => [Object!Next]_<<data[read_ptr], Pulled>>
    BY StepObject
  <1> QED
    BY Invariant, <1>1, <1>2, PTL DEF Spec, IsDataObject, Object!Spec, Pulled

HIDE DataObjectAssumption

-----------------------------------------------------------------------------
(***************************************************************************)
(* TsPool: the memory pool loses no element and gives none out twice, for  *)
(* any number of threads, elements and values of the tag.                  *)
(***************************************************************************)
USE PoolAssumption

Attempting(t) == at[t] \in {"getNext", "allocate", "link", "deallocate"}
Handing(t) == at[t] \in {"readHead", "link", "deallocate"}

\* The tag: a thread that finds the tag it has read finds the head it has read.
TagTells ==
    \A t \in Threads : Attempting(t) /\ old[t].tag = head.tag => old[t] = head

\* What a thread has read or written since then.
Locals ==
    \A t \in Threads :
        /\ at[t] \in {"getNext", "allocate"} => old[t].index \in Elements
        /\ at[t] = "allocate" /\ old[t] = head => succ[t] = next[head.index]
        /\ at[t] = "deallocate" => next[elem[t]] = old[t].index

\* The elements that are handed in have one thread each, and no user.
Apart ==
    /\ \A t \in Threads : Handing(t) => elem[t] \in Elements \ used
    /\ \A t, u \in Threads : Handing(t) /\ Handing(u) /\ elem[t] = elem[u] => t = u

\* c is the list: n elements, each of them once, and then the end.
IsList(n, c) ==
    /\ c[0] = head.index /\ c[n] = End
    /\ \A i \in 0 .. n - 1 : c[i] \in Elements /\ next[c[i]] = c[i + 1]
    /\ \A i, j \in 0 .. n - 1 : c[i] = c[j] => i = j

\* The list holds what nobody uses or hands in.
Rest == Elements \ (used \cup Returning)
ListIsRest ==
    \E n \in Nat : \E c \in [0 .. n -> Indexes] :
        IsList(n, c) /\ {c[i] : i \in 0 .. n - 1} = Rest

PoolInv == TagTells /\ Locals /\ Apart /\ ListIsRest
PoolIInv == PoolTypeOK /\ PoolInv

-----------------------------------------------------------------------------
(***************************************************************************)
(* PoolInit                                                                    *)
(***************************************************************************)
LEMMA PoolInitInv == PoolInit => PoolIInv
  <1> SUFFICES ASSUME PoolInit PROVE PoolIInv
    OBVIOUS
  <1>1. PoolTypeOK
    BY DEF PoolInit, PoolTypeOK, Heads, Indexes, Elements, NoHead, Linked
  <1>2. TagTells /\ Locals /\ Apart
    BY DEF PoolInit, TagTells, Locals, Apart, Attempting, Handing
  <1>3. Rest = Elements
    BY DEF PoolInit, Rest, Returning
  <1> DEFINE c == [i \in 0 .. Capacity |-> IF i = Capacity THEN End ELSE i]
  <1>4. c \in [0 .. Capacity -> Indexes]
    BY DEF Indexes, Elements
  <1>5. IsList(Capacity, c)
    BY DEF PoolInit, IsList, Linked, Elements
  <1>6. {c[i] : i \in 0 .. Capacity - 1} = Rest
    <2>1. \A i \in 0 .. Capacity - 1 : c[i] = i
      OBVIOUS
    <2> HIDE DEF c
    <2> QED
      BY <1>3, <2>1 DEF Elements
  <1> HIDE DEF c
  <1>7. ListIsRest
    BY <1>4, <1>5, <1>6 DEF ListIsRest
  <1> QED
    BY <1>1, <1>2, <1>7 DEF PoolIInv, PoolInv

-----------------------------------------------------------------------------
(***************************************************************************)
(* The list                                                                *)
(***************************************************************************)

LEMMA ReturningIs ==
    \A x : x \in Returning <=> \E t \in Threads : Handing(t) /\ elem[t] = x
  BY DEF Returning, Handing

\* The next value of the tag is a tag, and another one.
LEMMA NextTag ==
    ASSUME PoolTypeOK
    PROVE  (head.tag + 1) % Tags \in 0 .. Tags - 1
  <1>1. head.tag \in 0 .. Tags - 1
    BY DEF PoolTypeOK, Heads
  <1> QED
    BY <1>1

\* As long as the links of its elements stay, the list does.
LEMMA ListKept ==
    ASSUME ListIsRest, UNCHANGED head, Rest' = Rest, \A e \in Rest : next'[e] = next[e]
    PROVE  ListIsRest'
  <1>1. PICK n \in Nat : \E c \in [0 .. n -> Indexes] :
                IsList(n, c) /\ {c[i] : i \in 0 .. n - 1} = Rest
    BY DEF ListIsRest
  <1>2. PICK c \in [0 .. n -> Indexes] : IsList(n, c) /\ {c[i] : i \in 0 .. n - 1} = Rest
    BY <1>1
  <1>3. \A i \in 0 .. n - 1 : next'[c[i]] = next[c[i]]
    BY <1>2
  <1>4. IsList(n, c)'
    BY <1>2, <1>3 DEF IsList
  <1>5. ListIsRest' <=> \E m \in Nat : \E d \in [0 .. m -> Indexes] :
                           IsList(m, d)' /\ {d[i] : i \in 0 .. m - 1} = Rest'
    BY DEF ListIsRest
  <1> QED
    BY <1>2, <1>4, <1>5

\* The first element is taken from the list.
LEMMA ListWithoutFirst ==
    ASSUME ListIsRest, head.index \in Elements, head'.index = next[head.index],
           UNCHANGED next, Rest' = Rest \ {head.index}
    PROVE  ListIsRest'
  <1>1. PICK n \in Nat : \E c \in [0 .. n -> Indexes] :
                IsList(n, c) /\ {c[i] : i \in 0 .. n - 1} = Rest
    BY DEF ListIsRest
  <1>2. PICK c \in [0 .. n -> Indexes] : IsList(n, c) /\ {c[i] : i \in 0 .. n - 1} = Rest
    BY <1>1
  <1>3. n # 0
    BY <1>2 DEF IsList
  <1> DEFINE m == n - 1
             d == [i \in 0 .. m |-> c[i + 1]]
  <1>4. m \in Nat /\ d \in [0 .. m -> Indexes]
    BY <1>3
  <1>5. \A i \in 0 .. m : d[i] = c[i + 1]
    OBVIOUS
  <1> HIDE DEF d
  <1>6. IsList(m, d)'
    <2>1. c[0] = head.index /\ next[c[0]] = c[1]
      BY <1>2, <1>3 DEF IsList
    <2>2. d[0] = head'.index /\ d[m] = End
      BY <1>2, <1>4, <1>5, <2>1 DEF IsList
    <2>3. \A i \in 0 .. m - 1 : d[i] \in Elements /\ next[d[i]] = d[i + 1]
      BY <1>2, <1>4, <1>5 DEF IsList
    <2>4. \A i, j \in 0 .. m - 1 : d[i] = d[j] => i = j
      <3> TAKE i, j \in 0 .. m - 1
      <3>1. i + 1 \in 0 .. n - 1 /\ j + 1 \in 0 .. n - 1 /\ d[i] = c[i + 1] /\ d[j] = c[j + 1]
        BY <1>4, <1>5
      <3>2. \A k, l \in 0 .. n - 1 : c[k] = c[l] => k = l
        BY <1>2 DEF IsList
      <3>3. d[i] = d[j] => i + 1 = j + 1
        BY <3>1, <3>2
      <3> QED
        BY <3>3
    <2> QED
      BY <2>2, <2>3, <2>4 DEF IsList
  <1>7. {d[i] : i \in 0 .. m - 1} = Rest'
    <2>1. c[0] = head.index
      BY <1>2 DEF IsList
    <2>2. \A i \in 0 .. m - 1 : i + 1 \in 0 .. n - 1 /\ d[i] = c[i + 1] /\ d[i] # c[0]
      <3> TAKE i \in 0 .. m - 1
      <3>1. i + 1 \in 0 .. n - 1 /\ 0 \in 0 .. n - 1 /\ d[i] = c[i + 1] /\ i + 1 # 0
        BY <1>3, <1>5
      <3>2. \A j, k \in 0 .. n - 1 : c[j] = c[k] => j = k
        BY <1>2 DEF IsList
      <3> QED
        BY <3>1, <3>2
    <2>3. \A i \in 0 .. n - 1 : i # 0 => i - 1 \in 0 .. m - 1 /\ c[i] = d[i - 1]
      BY <1>5
    <2> QED
      BY <1>2, <2>1, <2>2, <2>3
  <1>8. ListIsRest' <=> \E k \in Nat : \E f \in [0 .. k -> Indexes] :
                           IsList(k, f)' /\ {f[i] : i \in 0 .. k - 1} = Rest'
    BY DEF ListIsRest
  <1> HIDE DEF m
  <1> QED
    BY <1>4, <1>6, <1>7, <1>8

\* An element with a link to the first one becomes the first.
LEMMA ListWithFirst ==
    ASSUME ListIsRest, NEW e \in Elements, e \notin Rest, next[e] = head.index,
           head'.index = e, UNCHANGED next, Rest' = Rest \cup {e}
    PROVE  ListIsRest'
  <1>1. PICK n \in Nat : \E c \in [0 .. n -> Indexes] :
                IsList(n, c) /\ {c[i] : i \in 0 .. n - 1} = Rest
    BY DEF ListIsRest
  <1>2. PICK c \in [0 .. n -> Indexes] : IsList(n, c) /\ {c[i] : i \in 0 .. n - 1} = Rest
    BY <1>1
  <1> DEFINE m == n + 1
             d == [i \in 0 .. m |-> IF i = 0 THEN e ELSE c[i - 1]]
  <1>3. m \in Nat /\ d \in [0 .. m -> Indexes]
    BY DEF Indexes
  <1>4. d[0] = e /\ \A i \in 1 .. m : d[i] = c[i - 1]
    OBVIOUS
  <1> HIDE DEF d
  <1>5. \A i \in 1 .. m - 1 : i - 1 \in 0 .. n - 1 /\ d[i] = c[i - 1] /\ d[i] # e
    <2> TAKE i \in 1 .. m - 1
    <2>1. i - 1 \in 0 .. n - 1 /\ d[i] = c[i - 1]
      BY <1>4
    <2> QED
      BY <1>2, <2>1
  <1>6. IsList(m, d)'
    <2>1. d[0] = head'.index /\ d[m] = End
      BY <1>2, <1>4 DEF IsList
    <2>2. \A i \in 0 .. m - 1 : d[i] \in Elements /\ next[d[i]] = d[i + 1]
      <3> TAKE i \in 0 .. m - 1
      <3>1. CASE i = 0
        BY <1>2, <1>4, <3>1 DEF IsList
      <3>2. CASE i # 0
        <4>1. i - 1 \in 0 .. n - 1 /\ d[i] = c[i - 1] /\ d[i + 1] = c[(i - 1) + 1]
          BY <1>4, <3>2
        <4> QED
          BY <1>2, <4>1 DEF IsList
      <3> QED
        BY <3>1, <3>2
    <2>3. \A i, j \in 0 .. m - 1 : d[i] = d[j] => i = j
      <3> SUFFICES ASSUME NEW i \in 0 .. m - 1, NEW j \in 0 .. m - 1, d[i] = d[j]
                   PROVE  i = j
        OBVIOUS
      <3>1. CASE i = 0 \/ j = 0
        BY <1>4, <1>5, <3>1
      <3>2. CASE i # 0 /\ j # 0
        <4>1. i - 1 \in 0 .. n - 1 /\ j - 1 \in 0 .. n - 1 /\ c[i - 1] = c[j - 1]
          BY <1>4, <3>2
        <4>2. i - 1 = j - 1
          BY <1>2, <4>1 DEF IsList
        <4> QED
          BY <4>2
      <3> QED
        BY <3>1, <3>2
    <2> QED
      BY <2>1, <2>2, <2>3 DEF IsList
  <1>7. {d[i] : i \in 0 .. m - 1} = Rest'
    <2>1. \A i \in 0 .. n - 1 : i + 1 \in 0 .. m - 1 /\ d[i + 1] = c[i]
      BY <1>4
    <2>2. \A i \in 0 .. m - 1 : i = 0 \/ i \in 1 .. m - 1
      OBVIOUS
    <2>3. 0 \in 0 .. m - 1
      OBVIOUS
    <2> QED
      BY <1>2, <1>4, <1>5, <2>1, <2>2, <2>3
  <1>8. ListIsRest' <=> \E k \in Nat : \E f \in [0 .. k -> Indexes] :
                           IsList(k, f)' /\ {f[i] : i \in 0 .. k - 1} = Rest'
    BY DEF ListIsRest
  <1> HIDE DEF m
  <1> QED
    BY <1>3, <1>6, <1>7, <1>8

LEMMA FirstIsFree ==
    ASSUME ListIsRest, head.index \in Elements
    PROVE  head.index \in Rest
  <1>1. PICK n \in Nat : \E c \in [0 .. n -> Indexes] :
                IsList(n, c) /\ {c[i] : i \in 0 .. n - 1} = Rest
    BY DEF ListIsRest
  <1>2. PICK c \in [0 .. n -> Indexes] : IsList(n, c) /\ {c[i] : i \in 0 .. n - 1} = Rest
    BY <1>1
  <1>3. n # 0 /\ c[0] = head.index
    BY <1>2 DEF IsList
  <1> QED
    BY <1>2, <1>3

-----------------------------------------------------------------------------
(***************************************************************************)
(* The steps                                                               *)
(***************************************************************************)

LEMMA PoolStepTypes ==
    ASSUME PoolIInv, NEW t \in Threads, Allocate(t) \/ Deallocate(t) \/ Work(t)
    PROVE  PoolTypeOK'
  <1> USE DEF PoolIInv, PoolInv
  <1>0. NoHead \in Heads
    BY DEF NoHead, Heads, Indexes
  <1>1. CASE Allocate(t) \/ Exhausted(t) \/ GetHead(t)
    BY <1>0, <1>1 DEF PoolTypeOK, Allocate, Exhausted, GetHead, Return, Forget, Goto, Indexes
  <1>2. CASE GetNext(t)
    BY <1>2 DEF PoolTypeOK, GetNext, Goto, Locals
  <1>3. CASE AllocateAgain(t) \/ DeallocateAgain(t)
    BY <1>0, <1>3 DEF PoolTypeOK, AllocateAgain, DeallocateAgain, Forget, Goto, Indexes
  <1>4. CASE Allocated(t)
    <2>1. head' \in Heads
      BY <1>4, NextTag DEF Allocated, NewHead, PoolTypeOK, Heads
    <2>2. head.index \in Elements
      BY <1>4 DEF Allocated, Locals
    <2> QED
      BY <1>0, <1>4, <2>1, <2>2 DEF PoolTypeOK, Allocated, Return, Forget, Goto, Indexes
  <1>5. CASE Deallocate(t)
    BY <1>5 DEF PoolTypeOK, Deallocate, Goto, Indexes
  <1>6. CASE ReadHead(t)
    BY <1>6 DEF PoolTypeOK, ReadHead, Goto
  <1>7. CASE Link(t)
    <2>1. old[t].index \in Indexes
      BY DEF PoolTypeOK, Heads
    <2> QED
      BY <1>7, <2>1 DEF PoolTypeOK, Link, Goto
  <1>8. CASE Deallocated(t)
    <2>1. head' \in Heads
      BY <1>8, NextTag DEF Deallocated, NewHead, PoolTypeOK, Heads
    <2> QED
      BY <1>0, <1>8, <2>1 DEF PoolTypeOK, Deallocated, Return, Forget, Goto, Indexes
  <1> QED
    BY <1>1, <1>2, <1>3, <1>4, <1>5, <1>6, <1>7, <1>8 DEF Work

\* Only a compare-and-swap changes the head, and gives it a tag that nobody has read.
LEMMA TagTellsStep ==
    ASSUME PoolIInv, NEW t \in Threads, Allocate(t) \/ Deallocate(t) \/ Work(t)
    PROVE  TagTells'
  <1> USE DEF PoolIInv, PoolInv
  <1>1. \A u \in Threads \ {t} : UNCHANGED <<at[u], old[u]>>
    BY DEF PoolTypeOK, Work, Allocate, Exhausted, GetHead, GetNext, Allocated, AllocateAgain,
           Deallocate, ReadHead, Link, Deallocated, DeallocateAgain, Return, Forget, Goto
  <1>2. CASE UNCHANGED head
    <2>1. Attempting(t)' => (old'[t] = head \/ (old'[t] = old[t] /\ Attempting(t)))
      BY DEF PoolTypeOK, Work, Allocate, Exhausted, GetHead, GetNext, Allocated, AllocateAgain,
             Deallocate, ReadHead, Link, Deallocated, DeallocateAgain, Return, Forget, Goto,
             Attempting
    <2> QED
      BY <1>1, <1>2, <2>1 DEF TagTells, Attempting
  <1>3. CASE Allocated(t) \/ Deallocated(t)
    <2>1. head'.tag = (head.tag + 1) % Tags
      BY <1>3 DEF Allocated, Deallocated, NewHead
    <2>2. \A u \in Threads : Attempting(u) => old[u].tag # head'.tag
      BY <1>3, <2>1 DEF Allocated, Deallocated, NotLapped, Attempting
    <2>3. ~Attempting(t)'
      BY <1>3 DEF Allocated, Deallocated, Return, Goto, Attempting, PoolTypeOK
    <2> QED
      BY <1>1, <2>2, <2>3 DEF TagTells, Attempting
  <1>4. UNCHANGED head \/ Allocated(t) \/ Deallocated(t)
    BY DEF Work, Allocate, Exhausted, GetHead, GetNext, AllocateAgain, Deallocate, ReadHead,
           Link, DeallocateAgain
  <1> QED
    BY <1>2, <1>3, <1>4

\* What a thread has read of a link is what it is as long as the head has the same tag.
LEMMA LocalsStep ==
    ASSUME PoolIInv, NEW t \in Threads, Allocate(t) \/ Deallocate(t) \/ Work(t)
    PROVE  Locals'
  <1> USE DEF PoolIInv, PoolInv
  <1>1. \A u \in Threads \ {t} : UNCHANGED <<at[u], old[u], succ[u], elem[u]>>
    BY DEF PoolTypeOK, Work, Allocate, Exhausted, GetHead, GetNext, Allocated, AllocateAgain,
           Deallocate, ReadHead, Link, Deallocated, DeallocateAgain, Return, Forget, Goto
  <1>2. CASE Link(t)
    <2>1. /\ elem[t] \in Elements /\ elem[t] \notin Rest
          /\ \A u \in Threads \ {t} : Handing(u) => elem[u] # elem[t]
      BY <1>2, ReturningIs DEF Link, Apart, Handing, Rest
    <2>2. /\ next'[elem[t]] = old[t].index /\ at'[t] = "deallocate"
          /\ \A e \in Elements : e # elem[t] => next'[e] = next[e]
          /\ UNCHANGED <<head, old, succ, elem>>
      BY <1>2, <2>1 DEF Link, Goto, PoolTypeOK
    <2>3. ASSUME NEW u \in Threads \ {t}
          PROVE  /\ at[u] = "allocate" /\ old[u] = head => next'[head.index] = next[head.index]
                 /\ at[u] = "deallocate" => next'[elem[u]] = next[elem[u]]
      <3>1. at[u] = "allocate" /\ old[u] = head => next'[head.index] = next[head.index]
        BY <2>1, <2>2, FirstIsFree DEF Locals
      <3>2. at[u] = "deallocate" => next'[elem[u]] = next[elem[u]]
        BY <2>1, <2>2 DEF Apart, Handing
      <3> QED
        BY <3>1, <3>2
    <2> QED
      BY <1>1, <2>2, <2>3 DEF Locals
  <1>3. CASE Allocated(t) \/ Deallocated(t)
    <2>1. head'.tag = (head.tag + 1) % Tags /\ UNCHANGED next /\ at'[t] = "idle"
      BY <1>3 DEF Allocated, Deallocated, NewHead, Return, Goto, PoolTypeOK
    <2>2. \A u \in Threads : Attempting(u) => old[u].tag # head'.tag
      BY <1>3, <2>1 DEF Allocated, Deallocated, NotLapped, Attempting
    <2>3. \A u \in Threads : at[u] = "allocate" => old[u] # head'
      BY <2>2 DEF Attempting
    <2> QED
      BY <1>1, <2>1, <2>3 DEF Locals
  <1>4. CASE GetHead(t) \/ GetNext(t)
    <2>1. UNCHANGED <<head, next, elem>>
      BY <1>4 DEF GetHead, GetNext
    <2>2. /\ at'[t] \in {"getNext", "allocate"} /\ old'[t].index \in Elements
          /\ at'[t] = "allocate" /\ old'[t] = head => succ'[t] = next[head.index]
      BY <1>4 DEF GetHead, GetNext, Goto, PoolTypeOK, Locals, Heads, Indexes
    <2> QED
      BY <1>1, <2>1, <2>2 DEF Locals
  <1>5. CASE \/ Allocate(t) \/ Deallocate(t) \/ Exhausted(t) \/ AllocateAgain(t)
             \/ ReadHead(t) \/ DeallocateAgain(t)
    <2>1. UNCHANGED <<head, next>> /\ at'[t] \in {"idle", "getHead", "readHead", "link"}
      BY <1>5 DEF Allocate, Deallocate, Exhausted, AllocateAgain, ReadHead, DeallocateAgain,
                  Return, Goto, PoolTypeOK
    <2> QED
      BY <1>1, <2>1 DEF Locals
  <1> QED
    BY <1>2, <1>3, <1>4, <1>5 DEF Work

\* The elements that are handed in stay apart, and the list is what they leave.
LEMMA ElementsStep ==
    ASSUME PoolIInv, NEW t \in Threads, Allocate(t) \/ Deallocate(t) \/ Work(t)
    PROVE  Apart' /\ ListIsRest'
  <1> USE DEF PoolIInv, PoolInv
  <1>1. \A u \in Threads \ {t} : UNCHANGED <<at[u], elem[u]>> /\ (Handing(u)' <=> Handing(u))
    BY DEF PoolTypeOK, Work, Allocate, Exhausted, GetHead, GetNext, Allocated, AllocateAgain,
           Deallocate, ReadHead, Link, Deallocated, DeallocateAgain, Return, Forget, Goto,
           Handing
  <1>2. \A x : x \in Returning' <=> \E u \in Threads : Handing(u)' /\ elem'[u] = x
    BY DEF Returning, Handing
  <1>3. CASE \/ Allocate(t) \/ Exhausted(t) \/ GetHead(t) \/ GetNext(t) \/ AllocateAgain(t)
             \/ ReadHead(t) \/ Link(t) \/ DeallocateAgain(t)
    <2>1. /\ UNCHANGED <<head, used>> /\ (Handing(t)' <=> Handing(t))
          /\ Handing(t) => UNCHANGED elem[t]
      BY <1>3 DEF Allocate, Exhausted, GetHead, GetNext, AllocateAgain, ReadHead, Link,
                  DeallocateAgain, Return, Goto, Handing, PoolTypeOK
    <2>2. Apart'
      BY <1>1, <2>1 DEF Apart
    <2>3. Returning' = Returning
      BY <1>1, <1>2, <2>1, ReturningIs
    <2>4. \A e \in Rest : next'[e] = next[e]
      <3>1. CASE Link(t)
        <4>1. elem[t] \notin Rest
          BY <3>1, ReturningIs DEF Link, Handing, Rest
        <4> QED
          BY <3>1, <4>1 DEF Link, Rest, PoolTypeOK
      <3>2. CASE ~Link(t)
        BY <1>3, <3>2 DEF Allocate, Exhausted, GetHead, GetNext, AllocateAgain, ReadHead,
                          DeallocateAgain
      <3> QED
        BY <3>1, <3>2
    <2>5. Rest' = Rest
      BY <2>1, <2>3 DEF Rest
    <2> QED
      BY <2>1, <2>2, <2>4, <2>5, ListKept
  <1>4. CASE Deallocate(t)
    <2>1. PICK e \in used : elem' = [elem EXCEPT ![t] = e] /\ used' = used \ {e}
      BY <1>4 DEF Deallocate
    <2>2. e \in Elements /\ elem'[t] = e /\ ~Handing(t) /\ Handing(t)' /\ UNCHANGED <<head, next>>
      BY <1>4, <2>1 DEF Deallocate, Goto, Handing, PoolTypeOK
    <2>3. Apart'
      BY <1>1, <2>1, <2>2 DEF Apart
    <2>4. \A x : x \in Returning' <=> x \in Returning \/ x = e
      BY <1>1, <1>2, <2>2, ReturningIs
    <2>5. Rest' = Rest
      BY <2>1, <2>4 DEF Rest
    <2> QED
      BY <2>2, <2>3, <2>5, ListKept
  <1>5. CASE Allocated(t)
    <2>1. /\ UNCHANGED next /\ used' = used \cup {head.index} /\ head' = NewHead(succ[t])
          /\ ~Handing(t) /\ ~Handing(t)' /\ at[t] = "allocate" /\ old[t] = head
      BY <1>5 DEF Allocated, Return, Goto, Handing, PoolTypeOK
    <2>2. head.index \in Elements /\ head'.index = next[head.index]
      BY <2>1 DEF Locals, NewHead
    <2>3. head.index \in Rest
      BY <2>2, FirstIsFree
    <2>4. \A u \in Threads : Handing(u) => elem[u] # head.index
      BY <2>3, ReturningIs DEF Rest
    <2>5. Apart'
      BY <1>1, <2>1, <2>4 DEF Apart
    <2>6. Returning' = Returning
      <3>1. \A u \in Threads : (Handing(u)' <=> Handing(u)) /\ (Handing(u) => elem'[u] = elem[u])
        BY <1>1, <2>1
      <3>2. \A x : x \in Returning' <=> x \in Returning
        BY <1>2, <3>1, ReturningIs
      <3> QED
        BY <3>2
    <2>7. Rest' = Rest \ {head.index}
      BY <2>1, <2>6 DEF Rest
    <2> QED
      BY <2>1, <2>2, <2>5, <2>7, ListWithoutFirst
  <1>6. CASE Deallocated(t)
    <2>1. /\ UNCHANGED <<next, used>> /\ head' = NewHead(elem[t])
          /\ Handing(t) /\ ~Handing(t)' /\ at[t] = "deallocate" /\ old[t] = head
      BY <1>6 DEF Deallocated, Return, Goto, Handing, PoolTypeOK
    <2>2. /\ elem[t] \in Elements \ used /\ head'.index = elem[t]
          /\ next[elem[t]] = head.index /\ elem[t] \notin Rest
      BY <2>1, ReturningIs DEF Apart, Locals, NewHead, Rest
    <2>3. Apart'
      BY <1>1, <2>1 DEF Apart
    <2>4. \A x : x \in Returning' <=> x \in Returning /\ x # elem[t]
      BY <1>1, <1>2, <2>1, ReturningIs DEF Apart
    <2>5. Rest' = Rest \cup {elem[t]}
      BY <2>1, <2>2, <2>4 DEF Rest
    <2> QED
      BY <2>1, <2>2, <2>3, <2>5, ListWithFirst
  <1> QED
    BY <1>3, <1>4, <1>5, <1>6 DEF Work

LEMMA AlwaysPoolInv == PoolSpec => []PoolIInv
  <1>1. PoolIInv /\ [PoolNext]_poolVars => PoolIInv'
    <2> SUFFICES ASSUME PoolIInv, [PoolNext]_poolVars PROVE PoolIInv'
      OBVIOUS
    <2>1. ASSUME NEW t \in Threads, Allocate(t) \/ Deallocate(t) \/ Work(t) PROVE PoolIInv'
      BY <2>1, PoolStepTypes, TagTellsStep, LocalsStep, ElementsStep DEF PoolIInv, PoolInv
    <2>2. CASE UNCHANGED poolVars
      <3>1. PoolTypeOK'
        BY <2>2 DEF PoolIInv, poolVars, PoolTypeOK
      <3>2. TagTells' /\ Locals' /\ Apart'
        BY <2>2 DEF PoolIInv, PoolInv, poolVars, TagTells, Locals, Apart, Attempting, Handing
      <3>3. UNCHANGED <<head, next>> /\ Rest' = Rest
        BY <2>2 DEF poolVars, Rest, Returning
      <3> QED
        BY <3>1, <3>2, <3>3, ListKept DEF PoolIInv, PoolInv
    <2> QED
      BY <2>1, <2>2 DEF PoolNext
  <1> QED
    BY <1>1, PoolInitInv, PTL DEF PoolSpec

-----------------------------------------------------------------------------
(***************************************************************************)
(* Following the list                                                      *)
(***************************************************************************)

\* A set of natural numbers that is not empty has a least member.
LEMMA LeastMember ==
    ASSUME NEW T, T \subseteq Nat, T # {}
    PROVE  \E x \in T : \A y \in T : ~(y < x)
  <1>1. IsWellFoundedOn(OpToRel(<, Nat), Nat)
    BY NatLessThanWellFounded
  <1>2. PICK x \in T : \A y \in T : ~(<<y, x>> \in OpToRel(<, Nat))
    BY <1>1, WFMin
  <1>3. ASSUME NEW y \in T PROVE ~(y < x)
    BY <1>2 DEF OpToRel
  <1> QED
    BY <1>3

\* What follows the links as size() does comes to the elements of the list, one
\* after the other, and then stays at the end.
LEMMA FollowsList ==
    ASSUME NEW n \in 0 .. Capacity, NEW c \in [0 .. n -> Indexes], IsList(n, c)
    PROVE  \A k \in 0 .. Capacity : Follow[k] = IF k <= n THEN c[k] ELSE End
  <1> DEFINE Fits(f) == f = [k \in 0 .. Capacity |->
                               IF k = 0 THEN head.index
                               ELSE IF f[k - 1] = End THEN End ELSE next[f[k - 1]]]
             g == [k \in 0 .. Capacity |-> IF k <= n THEN c[k] ELSE End]
  <1>1. \A k \in 0 .. Capacity :
           g[k] = IF k = 0 THEN head.index
                  ELSE IF g[k - 1] = End THEN End ELSE next[g[k - 1]]
    <2> TAKE k \in 0 .. Capacity
    <2>1. CASE k = 0
      BY <2>1 DEF IsList
    <2>2. CASE k \in 1 .. n
      <3>1. k - 1 \in 0 .. n - 1 /\ g[k - 1] = c[k - 1] /\ g[k] = c[(k - 1) + 1]
        BY <2>2
      <3>2. c[k - 1] # End /\ next[c[k - 1]] = c[(k - 1) + 1]
        BY <3>1 DEF IsList
      <3> QED
        BY <2>2, <3>1, <3>2
    <2>3. CASE k > n
      <3>1. k - 1 \in 0 .. Capacity /\ g[k] = End /\ k # 0
        BY <2>3
      <3>2. g[k - 1] = End
        BY <2>3, <3>1 DEF IsList
      <3> QED
        BY <3>1, <3>2
    <2> QED
      BY <2>1, <2>2, <2>3
  <1>2. Fits(g)
    BY <1>1
  <1>3. Follow = CHOOSE f : Fits(f)
    BY DEF Follow
  <1>4. Fits(Follow)
    <2> HIDE DEF Fits, g
    <2>1. \E f : Fits(f)
      BY <1>2
    <2>2. Fits(CHOOSE f : Fits(f))
      BY <2>1
    <2> QED
      BY <1>3, <2>2
  <1>5. \A k \in 0 .. Capacity :
           Follow[k] = IF k = 0 THEN head.index
                       ELSE IF Follow[k - 1] = End THEN End ELSE next[Follow[k - 1]]
    BY <1>4
  <1> DEFINE T == {k \in 0 .. Capacity : Follow[k] # g[k]}
  <1>6. T = {}
    <2> SUFFICES ASSUME T # {} PROVE FALSE
      OBVIOUS
    <2>0. T \subseteq Nat
      OBVIOUS
    <2>1. PICK x \in T : \A y \in T : ~(y < x)
      <3> HIDE DEF T
      <3> QED
        BY <2>0, LeastMember
    <2>2. x # 0
      BY <1>1, <1>5, <2>1
    <2>3. x - 1 \in 0 .. Capacity /\ x - 1 < x
      BY <2>1, <2>2
    <2>4. Follow[x - 1] = g[x - 1]
      BY <2>1, <2>3
    <2> QED
      BY <1>1, <1>5, <2>1, <2>2, <2>4
  <1> QED
    BY <1>6

-----------------------------------------------------------------------------
(***************************************************************************)
(* The theorems                                                            *)
(***************************************************************************)

\* allocate() and deallocate() leave links, heads and elements in their ranges.
THEOREM PoolTypes == PoolSpec => []PoolTypeOK
  <1>1. PoolIInv => PoolTypeOK
    BY DEF PoolIInv
  <1> QED
    BY <1>1, AlwaysPoolInv, PTL

\* The pool loses no element, gives none to two threads, and its list ends: what
\* ~TsPool() and size() assert, for any number of threads in allocate() and deallocate().
THEOREM PoolConserves == PoolSpec => []Conserved
  <1>1. PoolIInv => Conserved
    <2> SUFFICES ASSUME PoolIInv PROVE Conserved
      OBVIOUS
    <2>1. PICK n \in Nat : \E c \in [0 .. n -> Indexes] :
                  IsList(n, c) /\ {c[i] : i \in 0 .. n - 1} = Rest
      BY DEF ListIsRest, PoolIInv, PoolInv
    <2>2. PICK c \in [0 .. n -> Indexes] : IsList(n, c) /\ {c[i] : i \in 0 .. n - 1} = Rest
      BY <2>1
    <2>3. IsFiniteSet(Elements) /\ Cardinality(Elements) = Capacity
      BY FS_Interval DEF Elements
    <2>4. n \in 0 .. Capacity
      <3> DEFINE b == [i \in 0 .. n - 1 |-> c[i]]
      <3>1. b \in Injection(0 .. n - 1, Elements)
        BY <2>2 DEF IsList, Injection, IsInjective
      <3>2. Cardinality(0 .. n - 1) <= Capacity
        BY <2>3, <3>1, FS_Injection
      <3>3. Cardinality(0 .. n - 1) = n
        BY FS_Interval
      <3> QED
        BY <3>2, <3>3
    <2>5. \A k \in 0 .. Capacity : Follow[k] = IF k <= n THEN c[k] ELSE End
      BY <2>2, <2>4, FollowsList
    <2>6. c[n] = End /\ \A i \in 0 .. n - 1 : c[i] \in Elements
      BY <2>2 DEF IsList
    <2>7. Follow[Capacity] = End
      BY <2>4, <2>5, <2>6
    <2>8. Free = Rest
      <3>1. ASSUME NEW x \in Free PROVE x \in Rest
        <4>1. PICK k \in 0 .. Capacity : x = Follow[k] /\ x # End
          BY DEF Free
        <4>2. k \in 0 .. n - 1 /\ x = c[k]
          BY <2>4, <2>5, <2>6, <4>1
        <4> QED
          BY <2>2, <4>2
      <3>2. ASSUME NEW x \in Rest PROVE x \in Free
        <4>1. PICK i \in 0 .. n - 1 : x = c[i]
          BY <2>2
        <4>2. i \in 0 .. Capacity /\ Follow[i] = x /\ x # End
          BY <2>4, <2>5, <2>6, <4>1
        <4> QED
          BY <4>2 DEF Free
      <3> QED
        BY <3>1, <3>2
    <2>9. /\ used \subseteq Elements /\ Returning \subseteq Elements
          /\ used \cap Returning = {}
      BY ReturningIs DEF PoolIInv, PoolInv, PoolTypeOK, Apart
    <2>10. Free \cup used \cup Returning = Elements
      BY <2>8, <2>9 DEF Rest
    <2>11. Cardinality(Free) + Cardinality(used) + Cardinality(Returning) = Capacity
      <3>1. /\ IsFiniteSet(Free) /\ IsFiniteSet(used) /\ IsFiniteSet(Returning)
        BY <2>3, <2>8, <2>9, FS_Subset DEF Rest
      <3>2. Free \cap used = {} /\ (Free \cup used) \cap Returning = {}
        BY <2>8, <2>9 DEF Rest
      <3>3. /\ IsFiniteSet(Free \cup used)
            /\ Cardinality(Free \cup used) = Cardinality(Free) + Cardinality(used)
                                             - Cardinality(Free \cap used)
        BY <3>1, FS_Union
      <3>4. Cardinality(Elements) = Cardinality(Free \cup used) + Cardinality(Returning)
                                    - Cardinality((Free \cup used) \cap Returning)
        BY <2>10, <3>1, <3>3, FS_Union
      <3>5. /\ Cardinality(Free \cap used) = 0
            /\ Cardinality((Free \cup used) \cap Returning) = 0
        BY <3>2, FS_EmptySet, Zenon
      <3>6. Cardinality(Free) \in Nat /\ Cardinality(used) \in Nat /\ Cardinality(Returning) \in Nat
        BY <3>1, FS_CardinalityType
      <3>7. Cardinality(Free \cup used) = Cardinality(Free) + Cardinality(used)
        BY <3>3, <3>5, <3>6
      <3>8. Cardinality(Elements) = Cardinality(Free \cup used) + Cardinality(Returning)
        BY <3>4, <3>5, <3>6, <3>7
      <3> QED
        BY <2>3, <3>7, <3>8
    <2> QED
      BY <2>7, <2>10, <2>11 DEF Conserved
  <1> QED
    BY <1>1, AlwaysPoolInv, PTL

=============================================================================
