---------------------------- MODULE MCDataObject ----------------------------
(***************************************************************************)
(* Instances of DataObjectLockFree: readers and samples are model values.  *)
(***************************************************************************)
EXTENDS DataObjectLockFree
=============================================================================
