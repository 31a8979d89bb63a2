---------------------------- MODULE StateMachine ----------------------------
(***************************************************************************)
(* A state machine of the scripting engine (scripting/StateMachine.cpp):   *)
(* its status, the requests made to it, the state it is in and the         *)
(* programs that are pending on the way to the next one.                   *)
(*                                                                         *)
(* The machine is a record, and an operation of the code that runs         *)
(* programs maps a machine to the set of machines it may leave: a          *)
(* condition may hold or not, a program may end, wait or fail.  Field ok   *)
(* is what the operation returned.                                         *)
(*                                                                         *)
(* An assumption on the users: all calls come from the thread of the       *)
(* engine, between two calls of execute(), as those of other programs and  *)
(* of events do.  The code does not see to it.  The service registers the  *)
(* operations for the thread of the caller (StateMachineService.cpp:68-91),*)
(* and only execute() and deactivate() take the lock execlock.             *)
(*                                                                         *)
(* Stepping through the preconditions of a transition is a step that       *)
(* leaves the machine as it is; loading and unloading, and events raised   *)
(* by its own programs, are left out.                                      *)
(***************************************************************************)
EXTENDS Naturals, Sequences, FiniteSets

CONSTANTS
    States, InitState, FiniState,
    Null,          \* the null pointer: no state, and the key of global transitions
    Transitions,   \* Transitions[s]: the targets of s, highest priority first
    Programs,      \* <<kind, state>>, and <<"trans", from, to>> of a transition
    Events,        \* <<from, to>>: the events the machine reacts to
    MayWait,       \* the programs that may take more than one execute()
    MayFail,       \* the programs that may end in error
    Patient        \* users wait for the end of a transition before they start or
                   \* pause the machine, for that of a request before they deactivate
                   \* it, and for that of a deactivation before any request

ASSUME MachineAssumption ==
    /\ {InitState, FiniState} \subseteq States /\ Null \notin States
    /\ DOMAIN Transitions = States \cup {Null}
    /\ \A s \in States : Transitions[s] \in Seq(States)
    /\ Transitions[Null] \in Seq(States \cup {Null})
    /\ MayWait \subseteq Programs /\ MayFail \subseteq Programs
    /\ Events \subseteq (States \cup {Null}) \X (States \cup {Null})
    /\ Patient \in BOOLEAN

VARIABLE m

Statuses == {"inactive", "activating", "active", "requesting", "running", "stopping",
             "stopped", "resetting", "deactivating", "paused", "error"}
Requests == {"nill", "pausing", "gostop", "goreset"}
Slots == {"trans", "exit", "entry", "handle", "run"}

None == <<>>   \* no program

Fresh ==
    [status |-> "inactive", request |-> "nill", current |-> Null, next |-> Null,
     trans |-> None, exit |-> None, entry |-> None, handle |-> None, run |-> None,
     prog |-> None, progStatus |-> [p \in Programs |-> "stopped"],
     req |-> 1, mstep |-> FALSE, events |-> {}, ok |-> TRUE]

\* A program nobody refers to is reset before it is used again.
Settled(n) ==
    LET used == {n[s] : s \in Slots \cup {"prog"}}
    IN  [n EXCEPT !.progStatus =
            [p \in Programs |-> IF p \in used THEN @[p] ELSE "stopped"], !.ok = TRUE]

Program(kind, s) == IF <<kind, s>> \in Programs THEN <<kind, s>> ELSE None
TransProgram(s, t) == IF <<"trans", s, t>> \in Programs THEN <<"trans", s, t>> ELSE None

Interruptible(n) == n.prog = None \/ n.prog = n.run
InTransition(n) == n.prog # None /\ n.prog # n.run /\ n.prog # n.handle

-----------------------------------------------------------------------------
(* Programs *)

\* reset() and start() of a program, which becomes pending in a slot.
Pend(n, slot, p) ==
    IF p = None THEN [n EXCEPT ![slot] = None]
                ELSE [n EXCEPT ![slot] = p, !.progStatus[p] = "running"]

\* It becomes the current program when there is none.
Begin(n, slot, p) ==
    LET b == Pend(n, slot, p) IN IF b.prog = None THEN [b EXCEPT !.prog = p] ELSE b

RunState(n, s) == Begin(n, "run", Program("run", s))
HandleState(n, s) == Begin(n, "handle", Program("handle", s))
LeaveState(n) ==
    [Begin(n, "exit", Program("exit", n.current)) EXCEPT !.events = @ \ {n.current}]
EnterState(n, s) ==
    [Begin(n, "entry", Program("entry", s)) EXCEPT !.next = s, !.events = @ \cup {s}]

\* execute() of a program: what its status may be after it.
Outcomes(p, status) ==
    CASE status = "running" ->
            {"stopped"} \cup (IF p \in MayWait THEN {"running"} ELSE {})
                        \cup (IF p \in MayFail THEN {"error"} ELSE {})
      [] status = "stepping" ->
            {"stopped"} \cup (IF p \in MayWait THEN {"paused"} ELSE {})
                        \cup (IF p \in MayFail THEN {"error"} ELSE {})
      [] OTHER -> {status}

\* Mutant: a program that has ended remains the current one.
ExecuteProgram_KeepCurrent(n, slot, stepping) ==
    LET p == n[slot]
        old == n.progStatus[p]
        after == IF ~stepping THEN Outcomes(p, old)
                 ELSE {IF old = "paused" THEN "stepping" ELSE old}
        Left(st) == [n EXCEPT !.prog = p, !.progStatus[p] = st, !.ok = FALSE]
    IN  {CASE st = "error" -> [Left(st) EXCEPT !.status = "error", !.request = "nill"]
           [] st = "stopped" -> [Left(st) EXCEPT ![slot] = None, !.ok = TRUE]
           [] OTHER -> Left(st) : st \in after}

\* executeProgram(), true when the program is done.  A step is only asked
\* for: it is taken when the program is executed next.
ExecuteProgram(n, slot, stepping) ==
    LET p == n[slot]
        old == n.progStatus[p]
        after == IF ~stepping THEN Outcomes(p, old)
                 ELSE {IF old = "paused" THEN "stepping" ELSE old}
        Left(st) == [n EXCEPT !.prog = p, !.progStatus[p] = st, !.ok = FALSE]
    IN  {CASE st = "error" -> [Left(st) EXCEPT !.status = "error", !.request = "nill"]
           [] st = "stopped" -> [Left(st) EXCEPT ![slot] = None, !.prog = None, !.ok = TRUE]
           [] OTHER -> Left(st) : st \in after}

\* The machines of S for which all went well so far go on with Op.
Then(S, Op(_)) == UNION {IF n.ok THEN Op(n) ELSE {n} : n \in S}

\* The first pending program in a sequence of slots.
FirstOf(n, slots) ==
    LET pending == SelectSeq(slots, LAMBDA s : n[s] # None)
    IN  IF pending = <<>> THEN None ELSE n[Head(pending)]

\* The program in a slot, if any; a step ends with it.
Stage(n, slot, stepping, follow) ==
    IF n[slot] = None THEN {n}
    ELSE Then(ExecuteProgram(n, slot, stepping), LAMBDA d :
            {IF stepping THEN [d EXCEPT !.prog = FirstOf(d, follow), !.ok = FALSE] ELSE d})

\* A handle program that is pending is completed before the transition program.
TransStage(n, stepping) ==
    IF n.trans = None THEN {n}
    ELSE Stage(n, IF n.handle # None THEN "handle" ELSE "trans", stepping,
               <<"exit", "entry", "run">>)

SwitchState(n) ==
    IF n.current = n.next THEN n
    ELSE [n EXCEPT !.current = n.next, !.req = IF n.next = Null THEN @ ELSE 1]

\* What is pending in the state that is entered.
HandleStages(n, stepping) ==
    Then(Stage(n, "handle", stepping, <<"run">>), LAMBDA e : Stage(e, "run", stepping, <<>>))

EnterStages(n, stepping) ==
    Then(Stage(n, "entry", stepping, <<"run">>), LAMBDA d : HandleStages(d, stepping))

\* Out of the state that is left, to the next one or to none.
ExitStages(n, stepping) ==
    Then(Stage(n, "exit", stepping, <<"entry", "run">>), LAMBDA b :
        IF b.current # Null /\ b.next = Null THEN {SwitchState(b)}
                                            ELSE EnterStages(SwitchState(b), stepping))

\* executePending(), true when nothing is pending any more.
ExecutePending(n, stepping) ==
    IF n.status = "error" THEN {[n EXCEPT !.ok = FALSE]}
    ELSE Then(TransStage([n EXCEPT !.ok = TRUE], stepping), LAMBDA a : ExitStages(a, stepping))

-----------------------------------------------------------------------------
(* Changing state *)

\* A transition to the state itself: its program, or the handle program.
ToSelf(n, p) ==
    IF p # None THEN [Pend(n, "trans", p) EXCEPT !.prog = p, !.req = 1]
    ELSE IF n.handle = None THEN HandleState(n, n.current)
    ELSE n

\* To another state; an exit program in error is skipped.
ToOther(n, s, p) ==
    LET a == Pend([n EXCEPT !.run = None, !.handle = None], "trans", p)
        failed == a.exit # None /\ a.progStatus[a.exit] = "error"
    IN  EnterState(IF failed THEN [a EXCEPT !.exit = None] ELSE LeaveState(a), s)

ChangeState(n, s, p, stepping) ==
    LET begun == IF s = n.current THEN ToSelf(n, p) ELSE ToOther(n, s, p)
    IN  {[RunState(d, s) EXCEPT !.ok = TRUE] :
            d \in IF stepping THEN {begun} ELSE ExecutePending(begun, FALSE)}

\* The global transitions, one of which may be taken; Null is the state itself.
Globals(n, stepping) ==
    UNION {ChangeState(n, IF Transitions[Null][i] = Null THEN n.current ELSE Transitions[Null][i],
                       TransProgram(Null, Transitions[Null][i]), stepping) :
           i \in DOMAIN Transitions[Null]}

\* Mutant: the evaluation of transitions stays at the last one.
Otherwise_KeepReq(n, stepping) ==
    Globals(n, stepping) \cup ChangeState(n, n.current, None, stepping)

\* No transition can be taken: the state is handled.
Otherwise(n, stepping) ==
    Globals(n, stepping) \cup ChangeState([n EXCEPT !.req = 1], n.current, None, stepping)

\* requestNextState(): the transitions are evaluated from reqstep on, or one
\* of them in a step.
RequestNextState(n, stepping) ==
    LET edges == Transitions[n.current]
        last == [n EXCEPT !.req = Len(edges)]
        Taken(i) == ChangeState([n EXCEPT !.req = i], edges[i],
                                TransProgram(n.current, edges[i]), stepping)
    IN  IF n.current = Null \/ ~Interruptible(n) \/ n.trans # None THEN {n}
        ELSE IF edges = <<>> THEN Otherwise(n, stepping)
        ELSE IF ~stepping THEN (UNION {Taken(i) : i \in n.req .. Len(edges)}) \cup Otherwise(last, FALSE)
        ELSE {n} \cup Taken(n.req)
                 \cup (IF n.req = Len(edges) THEN Otherwise(n, TRUE)
                                             ELSE {[n EXCEPT !.req = @ + 1]})

\* requestStateChange(): a transition to s, or the way to the final state and
\* from there to the initial one, which are always open.
RequestStateChange(n, s) ==
    LET Leads(from) == \E i \in DOMAIN Transitions[from] : Transitions[from][i] = s
    IN  IF n.current = Null \/ ~Interruptible(n) THEN {[n EXCEPT !.ok = FALSE]}
        ELSE IF s = n.current THEN ChangeState(n, s, None, FALSE)
        ELSE (UNION {ChangeState(n, s, TransProgram(from, s), FALSE) :
                         from \in {f \in {n.current, Null} : Leads(f)}})
             \cup (IF s = FiniState \/ (s = InitState /\ n.current = FiniState)
                   THEN ChangeState(n, s, None, FALSE) ELSE {[n EXCEPT !.ok = FALSE]})

RequestFinalState(n) ==
    IF n.current = Null \/ (n.status # "error" /\ ~Interruptible(n))
    THEN {[n EXCEPT !.ok = FALSE]}
    ELSE RequestStateChange(n, FiniState)

RequestInitialState(n) ==
    IF Interruptible(n) /\ n.current \in {InitState, FiniState}
    THEN RequestStateChange(n, InitState) ELSE {n}

-----------------------------------------------------------------------------
(***************************************************************************)
(* execute(), called in every round of the engine                          *)
(***************************************************************************)

Status(n, s) == [n EXCEPT !.status = s]

\* Mutant: only a machine that is in a state changes its status.
WhenDone_InState(S, s) == {IF n.ok /\ n.current # Null THEN Status(n, s) ELSE n : n \in S}

\* The status s when all that was pending is done.
WhenDone(S, s) == {IF n.ok THEN Status(n, s) ELSE n : n \in S}

\* Mutant: the machine counts as stopped before it has reached the final state.
ExecuteStop_Early(n) ==
    UNION {{IF f.ok THEN [Status(f, "stopped") EXCEPT !.request = "nill"] ELSE f :
            f \in RequestFinalState(d)} : d \in ExecutePending(n, FALSE)}

ExecuteStop(n) ==
    UNION {{IF f.ok
            THEN [Status(f, IF InTransition(f) THEN "stopping" ELSE "stopped")
                    EXCEPT !.request = "nill"]
            ELSE f : f \in RequestFinalState(d)} : d \in ExecutePending(n, FALSE)}

ExecuteReset(n) ==
    {[r EXCEPT !.request = "nill"] :
        r \in UNION {IF d.ok THEN {Status(i, IF InTransition(i) THEN "resetting" ELSE "active") :
                                   i \in RequestInitialState(d)} ELSE {d} :
                     d \in ExecutePending(n, FALSE)}}

ExecuteStep(n) ==
    {[d EXCEPT !.mstep = FALSE] :
        d \in Then(ExecutePending(n, TRUE), LAMBDA e : RequestNextState(e, TRUE))}

ExecuteStatus(n) ==
    LET pending == ExecutePending(n, FALSE)
    IN  CASE n.status = "requesting" ->
                WhenDone(Then(pending, LAMBDA d : RequestNextState(d, FALSE)), "active")
          [] n.status = "active" -> pending
          [] n.status = "running" -> Then(pending, LAMBDA d : RequestNextState(d, FALSE))
          [] n.status = "paused" -> IF n.mstep THEN ExecuteStep(n) ELSE {n}
          [] n.status = "error" -> {n}
          [] n.status = "activating" ->
                {IF InTransition(d) THEN d ELSE Status(d, "active") : d \in pending}
          [] n.status = "stopping" -> WhenDone(pending, "stopped")
          [] n.status = "deactivating" -> WhenDone(pending, "inactive")
          [] n.status = "resetting" -> WhenDone(pending, "active")
          [] n.status = "stopped" ->
                {IF d.current # FiniState THEN Status(d, "active") ELSE d : d \in pending}

Execute ==
    m' \in {Settled(n) : n \in
        CASE m.status = "inactive" -> {[m EXCEPT !.request = "nill"]}
          [] m.status # "inactive" /\ m.request = "pausing" ->
                {[Status(m, "paused") EXCEPT !.request = "nill"]}
          [] m.status # "inactive" /\ m.request = "gostop" -> ExecuteStop(m)
          [] m.status # "inactive" /\ m.request = "goreset" -> ExecuteReset(m)
          [] m.status # "inactive" /\ m.request = "nill" -> ExecuteStatus(m)}

-----------------------------------------------------------------------------
(***************************************************************************)
(* The calls of users and events                                           *)
(***************************************************************************)

Alive == m.status # "inactive"

Leaving == m.next = Null

\* Nothing is pending but a run program.
Quiet == Interruptible(m) /\ m.trans = None /\ m.exit = None /\ m.entry = None

\* initc, the initialisation of the machine's variables, may fail.
Activate ==
    /\ ~Alive
    /\ LET n == [EnterState([m EXCEPT !.request = "nill"], InitState)
                    EXCEPT !.req = 1, !.events = @ \cup {Null}]
       IN  m' \in {Settled(IF d.ok THEN Status(d, "active")
                           ELSE IF d.status = "error" THEN d ELSE Status(d, "activating")) :
                   d \in ExecutePending(n, FALSE)}

\* Whatever state it is in is left; programs in error are skipped.
Deactivate ==
    /\ Alive
    /\ Patient => m.request = "nill"
    /\ LET Failed(slot) == m[slot] # None /\ m.progStatus[m[slot]] = "error"
           a == [m EXCEPT !.events = @ \ {Null},
                          !.exit = IF Failed("exit") THEN None ELSE @,
                          !.trans = IF Failed("trans") THEN None ELSE @]
           b == IF a.next # Null /\ a.current # Null THEN LeaveState(a)
                ELSE [a EXCEPT !.exit = None, !.trans = None]
           c == [b EXCEPT !.prog = None, !.entry = None, !.handle = None, !.run = None,
                          !.next = Null]
       IN  m' \in {Settled(Status(d, IF d.ok THEN "inactive" ELSE "deactivating")) :
                   d \in ExecutePending(c, FALSE)}

\* start(), which is automatic().
Automatic ==
    /\ Alive /\ m.status # "error"
    /\ Patient => Quiet /\ ~Leaving
    /\ m' = Settled(RunState(Status(m, "running"), m.current))

Reactive ==
    /\ Alive /\ m.status # "error"
    /\ Patient => ~Leaving
    /\ m' = Status(m, "active")

\* pause() of the current program, which is executed to make it so.
Pause ==
    /\ Alive
    /\ Patient => Quiet /\ ~Leaving
    /\ m' = [m EXCEPT !.request = "pausing",
                      !.progStatus = IF m.prog = None THEN @
                                     ELSE [@ EXCEPT ![m.prog] = "paused"]]

Step ==
    \/ m.status = "paused" /\ ~m.mstep /\ m' = [m EXCEPT !.mstep = TRUE]
    \/ m.status = "active" /\ m' = Status(m, "requesting")

Stop ==
    /\ Alive
    /\ Patient => ~Leaving
    /\ m' = [m EXCEPT !.request = "gostop"]

Reset ==
    /\ m.status = "stopped"
    /\ m' = [m EXCEPT !.request = "goreset"]

RequestState ==
    /\ Patient => ~Leaving
    /\ \E s \in States : m' \in {Settled(n) : n \in RequestStateChange(m, s)}

\* eventTransition(): an event that is connected arrives, and its guard holds.
EventTransition ==
    \E e \in Events :
        LET from == IF e[1] = Null THEN m.current ELSE e[1]
            to == IF e[2] = Null THEN from ELSE e[2]
        IN  /\ e[1] \in m.events
            /\ m.current # Null /\ from = m.current /\ ~InTransition(m)
            /\ m' \in {Settled(n) : n \in ChangeState(m, to, TransProgram(e[1], e[2]), FALSE)}

-----------------------------------------------------------------------------
Init == m = Fresh

Next ==
    \/ Execute
    \/ Activate \/ Deactivate \/ Automatic \/ Reactive \/ Pause \/ Step
    \/ Stop \/ Reset \/ RequestState \/ EventTransition

-----------------------------------------------------------------------------
(***************************************************************************)
(* The machines whose programs come in order.  What a state has left to do *)
(* when it is left is forgotten without a trace only if an exit program    *)
(* takes its place; README says what happens to other machines.            *)
(***************************************************************************)

Linked(s, t) ==
    \E f \in {s, Null} : \E i \in DOMAIN Transitions[f] : Transitions[f][i] = t

\* A state with a run or handle program has an exit program, the way of a transition to a
\* state with a run program has a program before that one, and run and handle programs do
\* not end in error.
Announced ==
    /\ \A s \in States :
          <<"run", s>> \in Programs \/ <<"handle", s>> \in Programs => <<"exit", s>> \in Programs
    /\ \A s, t \in States :
          s # t /\ Linked(s, t) /\ <<"run", t>> \in Programs =>
              <<"exit", s>> \in Programs \/ <<"entry", t>> \in Programs
    /\ \A s \in States : <<"run", s>> \notin MayFail /\ <<"handle", s>> \notin MayFail

\* The final state has no run program; while one waits, a machine that is being stopped
\* can be asked for another state.
FinalRests == <<"run", FiniState>> \notin Programs

\* A transition of a state to itself begins the evaluation of the transitions anew: it has a
\* program, or is the one that is evaluated first.
Restarts ==
    /\ \A s \in States : \A i \in DOMAIN Transitions[s] :
          Transitions[s][i] = s => i = 1 \/ <<"trans", s, s>> \in Programs
    /\ \A s \in States : \A i \in DOMAIN Transitions[Null] :
          Transitions[Null][i] \in {s, Null} /\ Len(Transitions[s]) > 1 =>
              <<"trans", Null, Transitions[Null][i]>> \in Programs

-----------------------------------------------------------------------------
\* Type correctness.
TypeOK ==
    /\ m.status \in Statuses /\ m.request \in Requests
    /\ {m.current, m.next} \subseteq States \cup {Null}
    /\ \A s \in Slots \cup {"prog"} : m[s] \in Programs \cup {None}
    /\ m.progStatus \in [Programs -> {"stopped", "running", "paused", "stepping", "error"}]
    /\ m.req \in Nat
    /\ m.current # Null /\ m.req # 1 => m.req \in DOMAIN Transitions[m.current]
    /\ m.mstep \in BOOLEAN /\ m.ok = TRUE /\ m.events \subseteq States \cup {Null}

\* A program that is pending belongs to the state that is left, entered or
\* active, whatever requests and events arrive during a transition: no exit
\* program runs after its state was left, no entry or run program of another
\* state than the next.
OwnPrograms ==
    /\ m.exit # None => m.exit[2] = m.current
    /\ m.handle # None => m.handle[2] = m.current
    /\ m.entry # None => m.entry[2] = m.next
    /\ m.run # None => m.run[2] = m.next

\* The current program is one of the pending ones: otherwise nothing ends
\* it, and the machine would be in transition for ever.
CurrentIsPending == m.prog = None \/ \E s \in Slots : m.prog = m[s]

\* An inactive machine is in no state, and has nothing pending.
InactiveIsIdle ==
    m.status = "inactive" =>
        /\ m.current = Null /\ m.next = Null /\ m.prog = None
        /\ \A s \in Slots : m[s] = None

\* What is pending fits the state of the machine, in every stage of a transition.
PendingInOrder == OwnPrograms /\ CurrentIsPending /\ InactiveIsIdle

\* Every evaluation of the transitions of a state begins with the first, which
\* has the highest priority, unless it goes on with the steps of a paused one.
PriorityKept ==
    [][m.status # "paused" /\ m.req = 1 /\ m'.next = m'.current => m'.req = 1]_m

\* A machine becomes stopped in its final state only, when it has left the
\* others by their exit programs.
StoppedInFinal ==
    [][m.status # "stopped" /\ m'.status = "stopped" =>
           m'.current = FiniState /\ m'.exit = None /\ m'.entry = None]_m

\* What has begun ends.  A stop that was asked for is done, or another request
\* replaces it; only a machine in error does not stop.
NoStall ==
    /\ \A s \in {"activating", "stopping", "resetting", "deactivating"} :
          m.status = s ~> m.status # s
    /\ m.request = "gostop" ~> m.request # "gostop" \/ m.status = "error"

Spec == Init /\ [][Next]_m

\* The engine executes the machine, and a program ends that is not a run program.
ProgramEnds == m.prog # None /\ m.prog[1] # "run" /\ Execute /\ m'.prog # m.prog
FairSpec == Spec /\ WF_m(Execute) /\ SF_m(ProgramEnds)
==============================================================================
