----------------------------- MODULE MCTaskCore -----------------------------
(***************************************************************************)
(* Instances of TaskCore: what the clients call, and what the hooks of     *)
(* the user's component do.                                                *)
(***************************************************************************)
EXTENDS TaskCore, TLC

Program(initial, ops, calls, throws, refuses) ==
    [initial |-> initial, ops |-> ops, calls |-> calls, throws |-> throws,
     refuses |-> refuses]

LifeCycle == {"configure", "start", "stop", "cleanup"}
NoStopOps == {"configure", "start", "cleanup", "trigger", "activate"}
HooksOfClients == {"configureHook", "startHook", "stopHook", "cleanupHook", "exceptionHook"}
ErrorAndRecover == {<<"updateHook", "error">>, <<"errorHook", "recover">>}

\* A component whose clients stop it; the hooks they call may throw, stop() may fail.
StoppedByClients ==
    Program("PreOperational", LifeCycle \cup {"recover", "trigger"},
            {<<"updateHook", "trigger">>}, HooksOfClients, TRUE)

\* A component nobody stops, whose engine's hooks fail, recover and give up.
FailsInEngine ==
    Program("Stopped", NoStopOps, ErrorAndRecover \cup {<<"errorHook", "fatal">>},
            Hooks \ {"errorHook"}, FALSE)

\* A component nobody stops, whose errorHook() may throw too.
ThrowsInEngine ==
    Program("Stopped", NoStopOps, ErrorAndRecover, {"startHook", "updateHook", "errorHook"},
            FALSE)

\* A component that is not started, whose operations may throw: the client recovers it
\* (Racing) ...
ThrowsInOperation ==
    Program("Stopped", {"recover", "trigger", "activate"}, {}, {"operation"}, FALSE)
\* ... or leaves it in Exception.
ThrowsForGood == Program("Stopped", {"error", "trigger"}, {}, {"operation"}, FALSE)

AllPrograms == {StoppedByClients, FailsInEngine, ThrowsInEngine, ThrowsInOperation,
                ThrowsForGood}

\* The programs of the counterexamples.
ErrorBeforeStop == {Program("PreOperational", LifeCycle, {<<"updateHook", "error">>}, {}, FALSE)}
ThrowsBeforeStop == {Program("PreOperational", LifeCycle, {}, {"updateHook"}, FALSE)}

\* The programs are those the theorems of TaskCoreProofs are about, and those of the
\* counterexamples are not.
ASSUME /\ \A u \in AllPrograms : Disciplined(u)
       /\ \A u \in ErrorBeforeStop \cup ThrowsBeforeStop : ~Disciplined(u)
=============================================================================
