------------------------- MODULE DataObjectLockFree -------------------------
(***************************************************************************)
(* DataObjectLockFree of base/DataObjectLockFree.hpp: a ring of buffers,   *)
(* one of them pointed to by read_ptr, another by write_ptr, each with a   *)
(* counter of the readers that hold it.  One thread calls Set(), any       *)
(* number of threads call Get().                                           *)
(*                                                                         *)
(* One step is one access to shared memory, in program order and           *)
(* sequentially consistent (the code marks two places "XXX smp_mb").       *)
(* Copying a sample takes time: it begins in one step and ends in another. *)
(***************************************************************************)
EXTENDS Integers, FiniteSets

CONSTANTS
    Readers,        \* the threads that call Get()
    Samples,        \* the values of the data type
    MaxThreads      \* MAX_THREADS

ASSUME DataObjectAssumption ==
    /\ MaxThreads \in Nat \ {0}
    /\ IsFiniteSet(Readers)
    /\ Samples # {}

\* MAX_THREADS counts the thread that writes.
EnoughBuffers == Cardinality(Readers) < MaxThreads

\* Mutant: one buffer less.
BufLen_Small == MaxThreads + 1

\* BUF_LEN
BufLen == MaxThreads + 2
Buffers == 0 .. BufLen - 1

\* DataBuf::next: data_sample() links the buffers to a ring.
Ring(b) == IF b = BufLen - 1 THEN 0 ELSE b + 1

VARIABLES
    data,       \* data[b]: the sample in buffer b
    counter,    \* counter[b]
    read_ptr,
    write_ptr,
    push,       \* the sample Set() was called with
    wrote_ptr,  \* local of Set()
    wpc,        \* where the writer is
    reading,    \* reading[r]: local of Get()
    pull,       \* pull[r]: what the last Get() returned
    pc          \* pc[r]: where reader r is

writerVars == <<data, read_ptr, write_ptr, push, wrote_ptr, wpc>>
readerVars == <<counter, reading, pull, pc>>
vars == <<data, counter, read_ptr, write_ptr, push, wrote_ptr, wpc, reading,
          pull, pc>>

Init ==
    /\ \E s \in Samples : /\ data = [b \in Buffers |-> s]
                          /\ push = s
                          /\ pull = [r \in Readers |-> s]
    /\ counter = [b \in Buffers |-> 0]
    /\ read_ptr = 0
    /\ write_ptr = 1
    /\ wrote_ptr = 1
    /\ wpc = "idle"
    /\ reading = [r \in Readers |-> 0]
    /\ pc = [r \in Readers |-> "idle"]

-----------------------------------------------------------------------------
(***************************************************************************)
(* Set()                                                                   *)
(***************************************************************************)

SetBegin ==
    /\ wpc = "idle"
    /\ push' \in Samples
    /\ wpc' = "writing"
    /\ UNCHANGED <<data, read_ptr, write_ptr, wrote_ptr, readerVars>>

\* write_ptr->data = push; wrote_ptr = write_ptr
SetData ==
    /\ wpc = "writing"
    /\ data' = [data EXCEPT ![write_ptr] = push]
    /\ wrote_ptr' = write_ptr
    /\ wpc' = "scan"
    /\ UNCHANGED <<read_ptr, write_ptr, push, readerVars>>

\* Mutant: does not look at the counter of the next buffer.
Occupied_NoCounter == Ring(write_ptr) = read_ptr

\* The next buffer is occupied, by a reader or because it is the one to read.
Occupied == counter[Ring(write_ptr)] # 0 \/ Ring(write_ptr) = read_ptr

\* Mutant: the search never notices that it went round.
Skip_Forever ==
    /\ wpc = "scan" /\ Occupied
    /\ write_ptr' = Ring(write_ptr)
    /\ UNCHANGED <<data, read_ptr, push, wrote_ptr, wpc, readerVars>>

\* Go to the next buffer, unless that is where the search began.
Skip ==
    /\ wpc = "scan" /\ Occupied /\ Ring(write_ptr) # wrote_ptr
    /\ write_ptr' = Ring(write_ptr)
    /\ UNCHANGED <<data, read_ptr, push, wrote_ptr, wpc, readerVars>>

\* The whole ring is occupied, the buffer just written included ("nothing found,
\* to many readers"): Set() returns and the sample is not published.
GiveUp ==
    /\ wpc = "scan" /\ Occupied /\ Ring(write_ptr) = wrote_ptr
    /\ write_ptr' = wrote_ptr
    /\ wpc' = "idle"
    /\ UNCHANGED <<data, read_ptr, push, wrote_ptr, readerVars>>

\* The next buffer is not occupied.  The search may have come round to the buffer
\* just written, which no reader holds.
Found ==
    /\ wpc = "scan" /\ ~Occupied
    /\ wpc' = "publish"
    /\ UNCHANGED <<data, read_ptr, write_ptr, push, wrote_ptr, readerVars>>

\* read_ptr = wrote_ptr
Publish ==
    /\ wpc = "publish"
    /\ read_ptr' = wrote_ptr
    /\ wpc' = "advance"
    /\ UNCHANGED <<data, write_ptr, push, wrote_ptr, readerVars>>

\* write_ptr = write_ptr->next
Advance ==
    /\ wpc = "advance"
    /\ write_ptr' = Ring(write_ptr)
    /\ wpc' = "idle"
    /\ UNCHANGED <<data, read_ptr, push, wrote_ptr, readerVars>>

-----------------------------------------------------------------------------
(***************************************************************************)
(* Get()                                                                   *)
(***************************************************************************)

\* reading = read_ptr
GetPtr(r) ==
    /\ pc[r] = "idle"
    /\ reading' = [reading EXCEPT ![r] = read_ptr]
    /\ pc' = [pc EXCEPT ![r] = "lock"]
    /\ UNCHANGED <<writerVars, counter, pull>>

\* oro_atomic_inc(&reading->counter)
Lock(r) ==
    /\ pc[r] = "lock"
    /\ counter' = [counter EXCEPT ![reading[r]] = @ + 1]
    /\ pc' = [pc EXCEPT ![r] = "check"]
    /\ UNCHANGED <<writerVars, reading, pull>>

\* Mutant: copies from the buffer whatever read_ptr has become.
Locked_NoCheck(r) ==
    /\ pc[r] = "check"
    /\ pc' = [pc EXCEPT ![r] = "copy"]
    /\ UNCHANGED <<writerVars, counter, reading, pull>>

\* reading == read_ptr: the buffer is ours.
Locked(r) ==
    /\ pc[r] = "check" /\ reading[r] = read_ptr
    /\ pc' = [pc EXCEPT ![r] = "copy"]
    /\ UNCHANGED <<writerVars, counter, reading, pull>>

\* Mutant: starts over without releasing the buffer.
StartOver_Keep(r) ==
    /\ pc[r] = "check" /\ reading[r] # read_ptr
    /\ pc' = [pc EXCEPT ![r] = "idle"]
    /\ UNCHANGED <<writerVars, counter, reading, pull>>

\* read_ptr changed: release the buffer and start over.
StartOver(r) ==
    /\ pc[r] = "check" /\ reading[r] # read_ptr
    /\ counter' = [counter EXCEPT ![reading[r]] = @ - 1]
    /\ pc' = [pc EXCEPT ![r] = "idle"]
    /\ UNCHANGED <<writerVars, reading, pull>>

\* pull = reading->data
Copy(r) ==
    /\ pc[r] = "copy"
    /\ pull' = [pull EXCEPT ![r] = data[reading[r]]]
    /\ pc' = [pc EXCEPT ![r] = "unlock"]
    /\ UNCHANGED <<writerVars, counter, reading>>

\* oro_atomic_dec(&reading->counter)
Unlock(r) ==
    /\ pc[r] = "unlock"
    /\ counter' = [counter EXCEPT ![reading[r]] = @ - 1]
    /\ pc' = [pc EXCEPT ![r] = "idle"]
    /\ UNCHANGED <<writerVars, reading, pull>>

-----------------------------------------------------------------------------
Writer == SetBegin \/ SetData \/ Skip \/ GiveUp \/ Found \/ Publish \/ Advance

Reader(r) ==
    GetPtr(r) \/ Lock(r) \/ Locked(r) \/ StartOver(r) \/ Copy(r) \/ Unlock(r)

Next == Writer \/ \E r \in Readers : Reader(r)

Spec == Init /\ [][Next]_vars

\* The writer's thread runs; readers may be preempted for ever.
FairSpec == Spec /\ WF_vars(Writer)

-----------------------------------------------------------------------------
(***************************************************************************)
(* Properties.                                                             *)
(***************************************************************************)

\* The pointers stay in the ring, the locals of Set() and Get() have their types.
TypeOK ==
    /\ data \in [Buffers -> Samples]
    /\ counter \in [Buffers -> Int]
    /\ read_ptr \in Buffers /\ write_ptr \in Buffers /\ wrote_ptr \in Buffers
    /\ push \in Samples
    /\ wpc \in {"idle", "writing", "scan", "publish", "advance"}
    /\ reading \in [Readers -> Buffers]
    /\ pull \in [Readers -> Samples]
    /\ pc \in [Readers -> {"idle", "lock", "check", "copy", "unlock"}]

\* The readers that have incremented the counter of a buffer.
Holders(b) ==
    {r \in Readers : pc[r] \in {"check", "copy", "unlock"} /\ reading[r] = b}

\* A counter counts the readers that hold the buffer: one that came too late in
\* Get() and starts over has given back what it took.
CounterExact == \A b \in Buffers : counter[b] = Cardinality(Holders(b))

\* Set() never writes to a buffer from which a Get() is copying: once it has its
\* counter up and has seen read_ptr unchanged, Get() is "sure that 'reading' is a
\* valid buffer to read from".
NoTornCopy ==
    wpc = "writing" => \A r \in Readers : pc[r] = "copy" => reading[r] # write_ptr

\* What the object and its readers look like from outside: a sample is the value
\* once it is published, a Get() has its result once it has locked the buffer.
Object == INSTANCE DataObject WITH
    val  <- data[read_ptr],
    pull <- [r \in Readers |-> IF pc[r] = "copy" THEN data[reading[r]] ELSE pull[r]]

\* Set() and Get() are atomic: no Get() returns a mixture of samples, a sample
\* that was never set, or one older than the value when it was called.
IsDataObject == Object!Spec

\* Set() is wait free: it returns whatever the readers do, even if they are
\* preempted for ever while they hold a buffer.
SetReturns == wpc = "writing" ~> wpc = "idle"

\* Set() finds a buffer to go on with before it is round, so that every sample
\* is published and the writer leaves the buffer it publishes.
RoomFound == wpc = "scan" => Ring(write_ptr) # wrote_ptr
=============================================================================
