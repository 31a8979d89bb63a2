------------------------------ MODULE MCThread ------------------------------
(***************************************************************************)
(* Environments for Thread.                                                *)
(***************************************************************************)
EXTENDS Thread

Env(p, ps, mine, others, own, fs) ==
    [period |-> p, periods |-> ps, faults |-> fs,
     calls |-> [c \in Callers |-> IF c = Owner THEN mine ELSE IF c = Self THEN own ELSE others]]

All == {"start", "stop", "destroy"}
MCEnvironments == {
    Env(1, {}, All, {"trigger", "setScheduler"}, {}, {}),
    Env(1, {}, All, {"trigger", "setScheduler"}, {}, {"timeout"}),
    Env(1, {}, All, {"setScheduler"}, {}, {"overrun", "throw", "timeout", "overlap"}),
    Env(0, {}, All, {"trigger", "setScheduler"}, {}, {}),
    Env(1, {0, 1}, All \cup {"setPeriod"}, {"trigger"}, {}, {}),
    Env(1, {1, 2}, All \cup {"setPeriod"}, {"trigger"}, {}, {}),
    Env(1, {0, 1, 2}, All, {"trigger"}, {"setPeriod"}, {}),
    Env(0, {}, {"start", "destroy"}, {"setScheduler"}, {"trigger"}, {"throw", "refuse"}),
    Env(1, {}, {"start", "destroy"}, {"setScheduler"}, {"trigger"}, {"throw", "overrun", "refuse"}),
    Env(0, {}, {"start", "destroy"}, {"trigger"}, {"stop", "trigger"}, {}),
    Env(1, {}, {"start", "destroy"}, {"trigger"}, {"stop", "trigger"}, {}),
    Env(1, {}, All, {"trigger"}, {}, {"overlap"}),
    Env(0, {}, All, {"trigger"}, {}, {"overlap"})}

\* The proofs cover every one of them.
ASSUME EnvironmentsAssumption == Orderly /\ Even /\ Heeded
=============================================================================
