---------------------------- MODULE MCStateMachine ----------------------------
\* Two states and the final one, with programs of every kind.
EXTENDS StateMachine

CONSTANTS sA, sB, sF

MCStates == {sA, sB, sF}
MCTransitions ==
    [s \in MCStates \cup {Null} |->
        CASE s = sA -> <<sF, sB>> [] s = sB -> <<sA>> [] s = sF -> <<>> [] OTHER -> <<sB>>]
\* A state with a run program has an exit program too.
MCPrograms ==
    {<<"entry", sB>>, <<"run", sA>>, <<"handle", sA>>, <<"exit", sA>>, <<"run", sB>>, <<"exit", sB>>,
     <<"entry", sF>>, <<"trans", sA, sB>>, <<"trans", sA, Null>>}
MCEvents == {<<sA, Null>>, <<Null, sF>>}
MCMayFail == {<<"entry", sB>>, <<"exit", sA>>}

\* The proofs are about machines like this one.
ASSUME ProgramsAssumption == Announced /\ FinalRests /\ Restarts
==============================================================================
