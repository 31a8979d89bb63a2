---------------------------- MODULE FunctionGraph ----------------------------
(***************************************************************************)
(* A program or function of the scripting engine                           *)
(* (scripting/FunctionGraph.cpp): its status, the requests of its users    *)
(* and its place in a graph of commands.  The graph is a chain: node 0 is  *)
(* startv, the last node is exitv.  Users and the engine that executes the *)
(* program call these operations without a lock.                           *)
(***************************************************************************)
EXTENDS Naturals

CONSTANT Exit   \* exitv: the number of commands

ASSUME ExitAssumption == Exit \in Nat \ {0}

Statuses == {"stopped", "paused", "running", "error"}

\* node is current; it is fresh when it is not previous.
Program == [status : Statuses, pausing : BOOLEAN, mstep : BOOLEAN,
            node : 0 .. Exit, fresh : BOOLEAN]

NewProgram ==
    [status |-> "stopped", pausing |-> FALSE, mstep |-> FALSE, node |-> 0, fresh |-> TRUE]

Reset(p) == [p EXCEPT !.node = 0, !.fresh = TRUE, !.status = "stopped"]

Stop(p) == [p EXCEPT !.status = "stopped"]

\* A program that has stopped begins again; one that is paused goes on.
Startable(p) == p.status \in {"stopped", "paused"}
Rewound(p) == IF p.status = "stopped" THEN Reset(p) ELSE p
Start(p) == IF Startable(p) THEN [Rewound(p) EXCEPT !.status = "running"] ELSE p

Pause(p) == [Rewound(p) EXCEPT !.pausing = TRUE]

StepOnce(p) == IF p.status = "paused" THEN [p EXCEPT !.mstep = TRUE] ELSE p

\* execute() when a pause was requested: nothing else happens.
Paused(p) == [p EXCEPT !.status = "paused", !.pausing = FALSE]

\* execute() of a paused program that was told to step().
Stepped(p) == [p EXCEPT !.mstep = FALSE]

\* A command begins; it throws, has to wait, or leads to node n.
Begun(p) == [p EXCEPT !.fresh = FALSE]
Thrown(p) == [p EXCEPT !.status = "error"]
LedTo(p, n) == [p EXCEPT !.node = n, !.fresh = TRUE]
AtExit(p) == p.node = Exit

\* The loop of executeUntil() goes on when the node is a new one.
KeepsGoing(p) == p.fresh /\ p.status = "running" /\ ~p.pausing

IsDone(p) == p.status \in {"stopped", "error"}
==============================================================================
