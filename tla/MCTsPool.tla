------------------------------ MODULE MCTsPool ------------------------------
(***************************************************************************)
(* Instances of TsPool: few elements and a short tag.                      *)
(***************************************************************************)
EXTENDS TsPool
=============================================================================
