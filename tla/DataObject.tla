----------------------------- MODULE DataObject -----------------------------
(***************************************************************************)
(* What a data object of base/DataObjectInterface.hpp promises: a register *)
(* that Set() writes and Get() reads atomically.  The concrete objects     *)
(* (DataObjectLockFree) implement it; a Set() that finds no room for its   *)
(* sample changes nothing.                                                 *)
(***************************************************************************)
CONSTANTS
    Readers,    \* the threads that call Get()
    Samples     \* the values of the data type

VARIABLES
    val,        \* the value of the object
    pull        \* pull[r]: what the last Get() of reader r copied out

Init ==
    /\ val \in Samples
    /\ pull = [r \in Readers |-> val]

Set == val' \in Samples /\ UNCHANGED pull

Get(r) == pull' = [pull EXCEPT ![r] = val] /\ UNCHANGED val

Next == Set \/ \E r \in Readers : Get(r)

Spec == Init /\ [][Next]_<<val, pull>>
=============================================================================
