------------------------- MODULE MCAtomicMWSRQueue -------------------------
(***************************************************************************)
(* Instances of AtomicMWSRQueue: writers and items are model values, and   *)
(* the indexes have few values.                                            *)
(***************************************************************************)
EXTENDS AtomicMWSRQueue
=============================================================================
