------------------------------- MODULE TsPool -------------------------------
(***************************************************************************)
(* The lock-free memory pool of internal/TsPool.hpp: a free list whose     *)
(* head carries a tag, so that a compare-and-swap notices that the list    *)
(* has changed even when the same element is first again.  One step is one *)
(* access to the head or to the link of an element.                        *)
(*                                                                         *)
(* The tag has 16 bits: a thread that is preempted between reading the     *)
(* head and replacing it, while the others change it 2^16 times, sees the  *)
(* same tag again.  NotLapped excludes that; no run goes that far.         *)
(***************************************************************************)
EXTENDS Naturals, FiniteSets

CONSTANTS
    Threads,
    Capacity,   \* pool_capacity
    Tags,       \* the values of a tag, 2^16
    End         \* index -1, the end of the list

Elements == 0 .. Capacity - 1

ASSUME PoolAssumption ==
    /\ Capacity \in Nat \ {0}
    /\ Tags \in Nat \ {0, 1}
    /\ End \notin Elements

VARIABLES
    head,   \* head.next: the index of the first free element, and the tag
    next,   \* next[e]: pool[e].next.ptr.index
    at,     \* at[t]: where thread t is in allocate() or deallocate()
    old,    \* old[t]: its oldval
    succ,   \* succ[t]: newval.ptr.index in allocate()
    elem,   \* elem[t]: the element it deallocates
    used    \* the elements that have been allocated, and not been handed in

poolVars == <<head, next, at, old, succ, elem, used>>

Indexes == Elements \cup {End}
Heads == [index : Indexes, tag : 0 .. Tags - 1]
NoHead == [index |-> End, tag |-> 0]

\* clear(): the list holds every element.
Linked == [e \in Elements |-> IF e = Capacity - 1 THEN End ELSE e + 1]

PoolInit ==
    /\ head = [index |-> 0, tag |-> 0]
    /\ next = Linked
    /\ at = [t \in Threads |-> "idle"]
    /\ old = [t \in Threads |-> NoHead]
    /\ succ = [t \in Threads |-> End]
    /\ elem = [t \in Threads |-> End]
    /\ used = {}

Goto(t, place) == at' = [at EXCEPT ![t] = place]

\* The locals of an attempt are forgotten when it ends ...
Forget(t) ==
    /\ old' = [old EXCEPT ![t] = NoHead]
    /\ succ' = [succ EXCEPT ![t] = End]

\* ... and the argument with the call.
Return(t) ==
    /\ Goto(t, "idle")
    /\ Forget(t)
    /\ elem' = [elem EXCEPT ![t] = End]

\* Mutant: no tag.
NewHead_SameTag(index) == [index |-> index, tag |-> head.tag]

\* Every change of the head increments the tag.
NewHead(index) == [index |-> index, tag |-> (head.tag + 1) % Tags]

\* The bound: no thread is overtaken by all values of the tag in one attempt.
NotLapped ==
    \A t \in Threads :
        at[t] \in {"getNext", "allocate", "link", "deallocate"} =>
            old[t].tag # (head.tag + 1) % Tags

-----------------------------------------------------------------------------
(***************************************************************************)
(* allocate()                                                              *)
(***************************************************************************)
Allocate(t) ==
    /\ at[t] = "idle"
    /\ Goto(t, "getHead")
    /\ UNCHANGED <<head, next, old, succ, elem, used>>

\* The pool is empty: allocate() returns 0.
Exhausted(t) ==
    /\ at[t] = "getHead" /\ head.index = End
    /\ Return(t)
    /\ UNCHANGED <<head, next, used>>

GetHead(t) ==
    /\ at[t] = "getHead" /\ head.index # End
    /\ old' = [old EXCEPT ![t] = head]
    /\ Goto(t, "getNext")
    /\ UNCHANGED <<head, next, succ, elem, used>>

\* The element may have been allocated, used and freed since the head was read.
GetNext(t) ==
    /\ at[t] = "getNext"
    /\ succ' = [succ EXCEPT ![t] = next[old[t].index]]
    /\ Goto(t, "allocate")
    /\ UNCHANGED <<head, next, old, elem, used>>

\* The compare-and-swap succeeds: the element is the caller's ...
Allocated(t) ==
    /\ at[t] = "allocate" /\ head = old[t] /\ NotLapped
    /\ head' = NewHead(succ[t])
    /\ used' = used \cup {head.index}
    /\ Return(t)
    /\ UNCHANGED next

\* ... or fails.
AllocateAgain(t) ==
    /\ at[t] = "allocate" /\ head # old[t]
    /\ Goto(t, "getHead")
    /\ Forget(t)
    /\ UNCHANGED <<head, next, elem, used>>

-----------------------------------------------------------------------------
(***************************************************************************)
(* deallocate(Value), by any thread that holds the element.                *)
(***************************************************************************)
Deallocate(t) ==
    /\ at[t] = "idle"
    /\ \E e \in used : /\ elem' = [elem EXCEPT ![t] = e]
                       /\ used' = used \ {e}
    /\ Goto(t, "readHead")
    /\ UNCHANGED <<head, next, old, succ>>

ReadHead(t) ==
    /\ at[t] = "readHead"
    /\ old' = [old EXCEPT ![t] = head]
    /\ Goto(t, "link")
    /\ UNCHANGED <<head, next, succ, elem, used>>

Link(t) ==
    /\ at[t] = "link"
    /\ next' = [next EXCEPT ![elem[t]] = old[t].index]
    /\ Goto(t, "deallocate")
    /\ UNCHANGED <<head, old, succ, elem, used>>

\* Mutant: the head is stored without comparing.
Deallocated_Blind(t) ==
    /\ at[t] = "deallocate" /\ NotLapped
    /\ head' = NewHead(elem[t])
    /\ Return(t)
    /\ UNCHANGED <<next, used>>

Deallocated(t) ==
    /\ at[t] = "deallocate" /\ head = old[t] /\ NotLapped
    /\ head' = NewHead(elem[t])
    /\ Return(t)
    /\ UNCHANGED <<next, used>>

\* Mutant: the head is not read again.
DeallocateAgain_NoRead(t) ==
    /\ at[t] = "deallocate" /\ head # old[t]
    /\ Goto(t, "link")
    /\ UNCHANGED <<head, next, old, succ, elem, used>>

DeallocateAgain(t) ==
    /\ at[t] = "deallocate" /\ head # old[t]
    /\ Goto(t, "readHead")
    /\ Forget(t)
    /\ UNCHANGED <<head, next, elem, used>>

-----------------------------------------------------------------------------
\* What a thread does inside a call.
Work(t) ==
    \/ Exhausted(t) \/ GetHead(t) \/ GetNext(t) \/ Allocated(t) \/ AllocateAgain(t)
    \/ ReadHead(t) \/ Link(t) \/ Deallocated(t) \/ DeallocateAgain(t)

PoolNext == \E t \in Threads : Allocate(t) \/ Deallocate(t) \/ Work(t)

PoolSpec == PoolInit /\ [][PoolNext]_poolVars

\* A thread that is in a call is scheduled.
FairPoolSpec == PoolSpec /\ \A t \in Threads : WF_poolVars(Work(t))

-----------------------------------------------------------------------------
(***************************************************************************)
(* Properties.                                                             *)
(***************************************************************************)

\* Links and heads are elements of the pool or the end of the list (clear() puts it there).
PoolTypeOK ==
    /\ head \in Heads
    /\ next \in [Elements -> Indexes]
    /\ at \in [Threads -> {"idle", "getHead", "getNext", "allocate", "readHead", "link",
                           "deallocate"}]
    /\ old \in [Threads -> Heads]
    /\ succ \in [Threads -> Indexes]
    /\ elem \in [Threads -> Indexes]
    /\ used \subseteq Elements

\* The k-th index of the list, as size() follows it.
Follow[k \in 0 .. Capacity] ==
    IF k = 0 THEN head.index
    ELSE IF Follow[k - 1] = End THEN End ELSE next[Follow[k - 1]]

Free == {Follow[k] : k \in 0 .. Capacity} \ {End}

\* Elements between the call of deallocate() and its compare-and-swap.
Returning == {elem[t] : t \in {u \in Threads : at[u] \in {"readHead", "link", "deallocate"}}}

\* No element is lost, allocated twice or freed while it is in use, and the list ends: the
\* destructor asserts "not all pieces were deallocated" and size() "abort on corruption due
\* to concurrency".
Conserved ==
    /\ Follow[Capacity] = End
    /\ Free \cup used \cup Returning = Elements
    /\ Cardinality(Free) + Cardinality(used) + Cardinality(Returning) = Capacity

\* The compare-and-swaps make progress: when every thread is in a call, one of them
\* returns, however they preempt each other.
SomeoneReturns == (\A t \in Threads : at[t] # "idle") ~> (\E t \in Threads : at[t] = "idle")
=============================================================================
