------------------------- MODULE MCExecutionEngine -------------------------
(***************************************************************************)
(* Two engines and one client thread, which calls through engine a.        *)
(***************************************************************************)
EXTENDS ExecutionEngine, TLC

CONSTANTS a, b, c

MsgSymmetry == Permutations(Msgs)

CallerIsA == [x \in Clients |-> a]
=============================================================================
