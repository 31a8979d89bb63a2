------------------------------- MODULE Thread -------------------------------
(***************************************************************************)
(* An Activity and the os::Thread it is: thread_function(), which steps a  *)
(* periodic runnable or loops a non-periodic one, and the calls that start, *)
(* stop, trigger, reprogram and destroy it.  The only lock is breaker,     *)
(* which is recursive and held while the runnable is stepped; everything   *)
(* else is read and written without one.                                   *)
(*                                                                         *)
(* The runnable is user code.  Its steps and loops return, throw, take     *)
(* longer than the period and call the activity themselves (caller Self);  *)
(* its hooks initialize(), finalize() and breakLoop() return and may       *)
(* refuse.  What it and the clients do is an environment, chosen at the    *)
(* start.                                                                  *)
(***************************************************************************)
EXTENDS Naturals, FiniteSets

CONSTANTS
    Owner,         \* the client that starts, stops and destroys the activity
    Others,        \* other clients
    Self,          \* the runnable, calling from step() and loop()
    Environments,  \* what they do: see IsEnvironment
    MaxOverrun,    \* maxOverRun
    MaxSignals,    \* bound on the semaphore: no call begins that may pass it
    None

Callers == {Owner, Self} \cup Others
Operations == {"start", "stop", "trigger", "setPeriod", "setScheduler", "destroy"}
Faults == {"throw",      \* steps and loops throw
           "overrun",    \* steps may last longer than the period
           "timeout",    \* and than the time stop() waits for them
           "refuse",     \* initialize() and breakLoop() may return false
           "overlap"}    \* calls that conflict overlap

IsEnvironment(e) ==
    /\ e.period \in Nat /\ e.periods \subseteq Nat
    /\ e.faults \subseteq Faults
    /\ e.calls \in [Callers -> SUBSET Operations]
    /\ \A c \in Callers \ {Owner} : "destroy" \notin e.calls[c]

ASSUME ThreadAssumption ==
    /\ IsFiniteSet(Others) /\ Self \notin Others \cup {Owner} /\ None \notin Callers
    /\ \A e \in Environments : IsEnvironment(e)
    /\ MaxOverrun \in Nat \ {0} /\ MaxSignals \in Nat \ {0}

VARIABLES
    env,
    active, running, inloop, prepareForExit,
    period,       \* 0 when not periodic
    cur_period,   \* what thread_function believes it to be
    task_period,  \* what the operating system waits for
    overruns,
    sem,
    breaker,      \* the holder, or None
    at,           \* where thread_function is
    pc,           \* where each caller is,
    op,           \* in which operation,
    arg,          \* its argument or what it has read of period,
    hooked,       \* initialize() was called and finalize() was not
    owed          \* a start() or trigger() returns true and no step has begun yet

flags == <<active, running, inloop, prepareForExit>>
timing == <<period, cur_period, task_period, overruns>>
callers == <<pc, op, arg>>
ghosts == <<hooked, owed>>
vars == <<env, flags, timing, sem, breaker, at, callers, ghosts>>

Periods == {env.period} \cup env.periods
Fault(f) == f \in env.faults
IsRunning == IF period = 0 THEN inloop ELSE running
Quiet == \A c \in Callers : pc[c] = "idle"

\* Once the activity is destroyed nobody uses it any more.
Alive == op[Owner] \notin {"destroy", "delete"}

Init ==
    /\ env \in Environments
    /\ active = FALSE /\ running = FALSE /\ inloop = FALSE /\ prepareForExit = FALSE
    /\ period = env.period /\ cur_period = env.period /\ task_period = env.period
    /\ overruns = 0 /\ sem = 0 /\ breaker = None
    /\ at = "check"
    /\ pc = [c \in Callers |-> "idle"] /\ op = [c \in Callers |-> "none"]
    /\ arg = [c \in Callers |-> 0]
    /\ hooked = FALSE /\ owed = FALSE

-----------------------------------------------------------------------------
(* thread_function *)

UserCode == at \in {"step", "loop"}

\* Where thread_function goes on when it leaves the inner loops.
After == IF overruns = MaxOverrun THEN "emergency" ELSE IF prepareForExit THEN "done" ELSE "check"

\* A thread that has nothing to do drops out of periodic mode and waits.
Check ==
    /\ at = "check"
    /\ IF ~active \/ period = 0 \/ ~running
       THEN /\ at' = "wait"
            /\ IF period # 0 THEN overruns' = 0 /\ task_period' = 0
                             ELSE UNCHANGED <<overruns, task_period>>
       ELSE at' = "run" /\ UNCHANGED <<overruns, task_period>>
    /\ UNCHANGED <<env, flags, period, cur_period, sem, breaker, callers, ghosts>>

\* rtos_sem_wait(), configure() and the test whether to exit.
Wake ==
    /\ at = "wait" /\ sem > 0
    /\ sem' = sem - 1
    /\ task_period' = period
    /\ at' = IF prepareForExit THEN After ELSE "run"
    /\ UNCHANGED <<env, flags, period, cur_period, overruns, breaker, callers, ghosts>>

Run ==
    /\ at = "run"
    /\ at' = IF ~running THEN "check" ELSE IF period # 0 THEN "lockStep" ELSE "lockLoop"
    /\ UNCHANGED <<env, flags, timing, sem, breaker, callers, ghosts>>

Take(from, to) ==
    /\ at = from /\ breaker = None
    /\ breaker' = Self /\ at' = to
    /\ UNCHANGED <<env, flags, timing, sem, callers, ghosts>>

\* Mutant: the periodic loop does not look whether it is stopped.
StepBegin_Untested ==
    /\ at = "while"
    /\ IF ~prepareForExit
       THEN at' = "step" /\ owed' = FALSE /\ UNCHANGED breaker
       ELSE at' = After /\ breaker' = None /\ UNCHANGED owed
    /\ UNCHANGED <<env, flags, timing, sem, callers, hooked>>

\* Mutant: the periodic loop does not look whether it has to exit.
StepBegin_NoExit ==
    /\ at = "while"
    /\ IF running
       THEN at' = "step" /\ owed' = FALSE /\ UNCHANGED breaker
       ELSE at' = After /\ breaker' = None /\ UNCHANGED owed
    /\ UNCHANGED <<env, flags, timing, sem, callers, hooked>>

\* The periodic loop, which holds breaker between its steps too.
StepBegin ==
    /\ at = "while"
    /\ IF running /\ ~prepareForExit
       THEN at' = "step" /\ owed' = FALSE /\ UNCHANGED breaker
       ELSE at' = After /\ breaker' = None /\ UNCHANGED owed
    /\ UNCHANGED <<env, flags, timing, sem, callers, hooked>>

StepEnd ==
    /\ at = "step" /\ pc[Self] = "idle"
    /\ at' = "stepped"
    /\ UNCHANGED <<env, flags, timing, sem, breaker, callers, ghosts>>

\* The thread notices that its period was changed, and may cease to be periodic.
NewPeriod ==
    /\ at = "stepped"
    /\ cur_period' = period
    /\ task_period' = IF cur_period # period THEN period ELSE task_period
    /\ IF cur_period # period /\ period = 0 THEN at' = After /\ breaker' = None
                                            ELSE at' = "sleep" /\ UNCHANGED breaker
    /\ UNCHANGED <<env, flags, period, overruns, sem, callers, ghosts>>

\* rtos_task_wait_period().  A step on time makes up for one that was late.  The
\* count is not reset by an emergency stop and may pass MaxOverrun when the
\* thread is started again at once; it is bounded by MaxOverrun + 1 here.
WaitPeriod ==
    /\ at = "sleep"
    /\ \E late \in {FALSE} \cup (IF Fault("overrun") /\ task_period # 0 THEN {TRUE} ELSE {}) :
          /\ overruns' = IF late THEN (IF overruns > MaxOverrun THEN overruns ELSE overruns + 1)
                               ELSE IF overruns > 0 THEN overruns - 1 ELSE 0
          /\ IF late /\ overruns' = MaxOverrun THEN at' = "emergency" /\ breaker' = None
                                               ELSE at' = "while" /\ UNCHANGED breaker
    /\ UNCHANGED <<env, flags, period, cur_period, task_period, sem, callers, ghosts>>

LoopBegin ==
    /\ at = "locked"
    /\ inloop' = TRUE /\ at' = "loop" /\ owed' = FALSE
    /\ UNCHANGED <<env, active, running, prepareForExit, timing, sem, breaker, callers, hooked>>

LoopEnd ==
    /\ at = "loop" /\ pc[Self] = "idle"
    /\ inloop' = FALSE /\ breaker' = None /\ at' = "check"
    /\ UNCHANGED <<env, active, running, prepareForExit, timing, sem, callers, ghosts>>

Throw ==
    /\ UserCode /\ pc[Self] = "idle" /\ Fault("throw")
    /\ inloop' = FALSE /\ breaker' = None /\ at' = "emergency"
    /\ UNCHANGED <<env, active, running, prepareForExit, timing, sem, callers, ghosts>>

\* emergencyStop()
EmergencyStop ==
    /\ at = "emergency"
    /\ running' = FALSE /\ inloop' = FALSE /\ at' = "inactive"
    /\ UNCHANGED <<env, active, prepareForExit, timing, sem, breaker, callers, ghosts>>

EmergencyFinalize ==
    /\ at = "inactive"
    /\ active' = FALSE /\ at' = "finalize" /\ hooked' = FALSE /\ owed' = FALSE
    /\ UNCHANGED <<env, running, inloop, prepareForExit, timing, sem, breaker, callers>>

Recover ==
    /\ at = "finalize"
    /\ at' = IF prepareForExit THEN "done" ELSE "check"
    /\ UNCHANGED <<env, flags, timing, sem, breaker, callers, ghosts>>

ThreadStep ==
    \/ Check \/ Wake \/ Run \/ Take("lockStep", "while") \/ Take("lockLoop", "locked")
    \/ StepBegin \/ NewPeriod \/ WaitPeriod \/ LoopBegin
    \/ EmergencyStop \/ EmergencyFinalize \/ Recover

-----------------------------------------------------------------------------
(* Calls *)

\* Nothing in the code orders two calls that change the same state, nor a
\* trigger() and a stop(); the environment does, unless it has "overlap".
Conflict(o1, o2) ==
    LET commands == {"start", "stop", "setPeriod"}
    IN  \/ {o1, o2} \subseteq commands \/ {o1, o2} = {"stop", "trigger"}

\* A runnable calls from its own step or loop.  The owner destroys the activity
\* when nobody else is in a call.
MayBegin(c, o) ==
    /\ pc[c] = "idle" /\ o \in env.calls[c] /\ Alive
    /\ c = Self => UserCode
    /\ o = "destroy" => \A d \in Callers : pc[d] = "idle"
    /\ \A d \in Callers : pc[d] # "idle" /\ Conflict(o, op[d]) => Fault("overlap")
    /\ sem + Cardinality({d \in Callers : pc[d] # "idle"}) < MaxSignals

Begin(c, o, a) ==
    /\ MayBegin(c, o)
    /\ pc' = [pc EXCEPT ![c] = IF o = "setScheduler" THEN "signal"
                               ELSE IF o = "destroy" THEN "stop" ELSE o]
    /\ op' = [op EXCEPT ![c] = o] /\ arg' = [arg EXCEPT ![c] = a]
    /\ UNCHANGED <<env, flags, timing, sem, breaker, at, ghosts>>

Goto(c, to) == pc' = [pc EXCEPT ![c] = to] /\ UNCHANGED <<op, arg>>

\* A call ends; ~Activity() and ~Thread() go on after their stop().
Return(c) == Goto(c, IF op[c] = "destroy" THEN "destroy" ELSE IF op[c] = "delete" THEN "delete" ELSE "idle")

\* start() of an active non-periodic thread signals it, of a periodic one fails.
Start(c) ==
    /\ pc[c] = "start"
    /\ IF ~active
       THEN pc' = [pc EXCEPT ![c] = "activate"] /\ arg' = [arg EXCEPT ![c] = period] /\ UNCHANGED op
       ELSE IF period = 0 THEN Goto(c, "again") ELSE Return(c)
    /\ UNCHANGED <<env, flags, timing, sem, breaker, at, ghosts>>

Activate(c) ==
    /\ pc[c] = "activate"
    /\ active' = TRUE /\ Goto(c, "initialize")
    /\ UNCHANGED <<env, running, inloop, prepareForExit, timing, sem, breaker, at, ghosts>>

\* The end of initialize(), and the test that nobody stopped the thread meanwhile.
Initialize(c) ==
    /\ pc[c] = "initialize"
    /\ \E ok \in {TRUE} \cup (IF Fault("refuse") THEN {FALSE} ELSE {}) :
          IF ok /\ active
          THEN hooked' = TRUE /\ UNCHANGED active /\ Goto(c, "run")
          ELSE active' = FALSE /\ UNCHANGED hooked /\ Return(c)
    /\ UNCHANGED <<env, running, inloop, prepareForExit, timing, sem, breaker, at, owed>>

Started(c) ==
    /\ pc[c] = "run"
    /\ running' = TRUE /\ Goto(c, IF arg[c] = 0 THEN "signal" ELSE "makePeriodic")
    /\ UNCHANGED <<env, active, inloop, prepareForExit, timing, sem, breaker, at, ghosts>>

\* Mutant: the operating system is not told.
MakePeriodic_Not(c) ==
    /\ pc[c] = "makePeriodic"
    /\ Goto(c, "signal")
    /\ UNCHANGED <<env, flags, timing, sem, breaker, at, ghosts>>

MakePeriodic(c) ==
    /\ pc[c] = "makePeriodic"
    /\ task_period' = period /\ Goto(c, "signal")
    /\ UNCHANGED <<env, flags, period, cur_period, overruns, sem, breaker, at, ghosts>>

\* A thread with a signal it has not yet taken needs no other.
Again(c) ==
    /\ pc[c] = "again"
    /\ IF sem > 0 THEN Return(c) /\ owed' = TRUE ELSE Goto(c, "signal") /\ UNCHANGED owed
    /\ UNCHANGED <<env, flags, timing, sem, breaker, at, hooked>>

Signal(c) ==
    /\ pc[c] = "signal"
    /\ sem' = sem + 1
    /\ owed' = (owed \/ op[c] \in {"start", "trigger"})
    /\ IF op[c] = "delete" THEN Goto(c, "join") ELSE Return(c)
    /\ UNCHANGED <<env, flags, timing, breaker, at, hooked>>

Trigger(c) ==
    /\ pc[c] = "trigger"
    /\ IF active THEN Goto(c, "start") ELSE Return(c)
    /\ UNCHANGED <<env, flags, timing, sem, breaker, at, ghosts>>

\* stop() of a non-periodic thread in its loop asks it to leave it.
Stop(c) ==
    /\ pc[c] = "stop"
    /\ IF ~active THEN Return(c) /\ UNCHANGED running
       ELSE /\ running' = FALSE
            /\ arg' = [arg EXCEPT ![c] = period] /\ UNCHANGED op
            /\ pc' = [pc EXCEPT ![c] = IF period = 0 /\ inloop THEN "breakLoop" ELSE "lock"]
    /\ UNCHANGED <<env, active, inloop, prepareForExit, timing, sem, breaker, at, ghosts>>

BreakLoop(c) ==
    /\ pc[c] = "breakLoop"
    /\ \/ Goto(c, "lock") /\ UNCHANGED running
       \/ Fault("refuse") /\ Return(c) /\ running' = TRUE
    /\ UNCHANGED <<env, active, inloop, prepareForExit, timing, sem, breaker, at, ghosts>>

\* The lock is released at once; it makes stop() wait for the step or loop.
Lock(c) ==
    /\ pc[c] = "lock" /\ breaker \in {None, c}
    /\ task_period' = IF arg[c] = 0 THEN task_period ELSE 0
    /\ Goto(c, "finalize")
    /\ UNCHANGED <<env, flags, period, cur_period, overruns, sem, breaker, at, ghosts>>

TimeOut(c) ==
    /\ pc[c] = "lock" /\ breaker \notin {None, c} /\ Fault("timeout")
    /\ Goto(c, "giveUp")
    /\ UNCHANGED <<env, flags, timing, sem, breaker, at, ghosts>>

GiveUp(c) ==
    /\ pc[c] = "giveUp"
    /\ running' = TRUE /\ Return(c)
    /\ UNCHANGED <<env, active, inloop, prepareForExit, timing, sem, breaker, at, ghosts>>

FinalizeBegin(c) ==
    /\ pc[c] = "finalize"
    /\ hooked' = FALSE /\ owed' = FALSE /\ Goto(c, "deactivate")
    /\ UNCHANGED <<env, flags, timing, sem, breaker, at>>

Deactivate(c) ==
    /\ pc[c] = "deactivate"
    /\ active' = FALSE /\ Return(c)
    /\ UNCHANGED <<env, running, inloop, prepareForExit, timing, sem, breaker, at, ghosts>>

\* setPeriod(): a change of the rate is noticed by the thread, one between
\* periodic and not is made here.
SetPeriod(c) ==
    /\ pc[c] = "setPeriod"
    /\ IF (arg[c] = 0) # (period = 0)
       THEN task_period' = arg[c] /\ Goto(c, "switch") /\ UNCHANGED period
       ELSE period' = arg[c] /\ Return(c) /\ UNCHANGED task_period
    /\ UNCHANGED <<env, flags, cur_period, overruns, sem, breaker, at, ghosts>>

\* Mutant: the thread that waits for a command is not woken.
Switch_Silent(c) ==
    /\ pc[c] = "switch"
    /\ period' = arg[c] /\ Return(c)
    /\ UNCHANGED <<env, flags, cur_period, task_period, overruns, sem, breaker, at, ghosts>>

Switch(c) ==
    /\ pc[c] = "switch"
    /\ period' = arg[c]
    /\ IF period = 0 THEN Goto(c, "signal") ELSE Return(c)
    /\ UNCHANGED <<env, flags, cur_period, task_period, overruns, sem, breaker, at, ghosts>>

\* ~Thread() after the stop() of ~Activity(): another stop() if the thread runs.
Destroy(c) ==
    /\ pc[c] = "destroy"
    /\ op' = [op EXCEPT ![c] = "delete"] /\ UNCHANGED arg
    /\ pc' = [pc EXCEPT ![c] = IF IsRunning THEN "stop" ELSE "delete"]
    /\ UNCHANGED <<env, flags, timing, sem, breaker, at, ghosts>>

\* terminate()
Terminate(c) ==
    /\ pc[c] = "delete"
    /\ prepareForExit' = TRUE /\ Goto(c, "signal")
    /\ UNCHANGED <<env, active, running, inloop, timing, sem, breaker, at, ghosts>>

Join(c) ==
    /\ pc[c] = "join" /\ at = "done"
    /\ Goto(c, "gone")
    /\ UNCHANGED <<env, flags, timing, sem, breaker, at, ghosts>>

CallStep(c) ==
    \/ Start(c) \/ Activate(c) \/ Initialize(c) \/ Started(c) \/ MakePeriodic(c)
    \/ Again(c) \/ Signal(c) \/ Trigger(c)
    \/ Stop(c) \/ BreakLoop(c) \/ Lock(c) \/ GiveUp(c) \/ FinalizeBegin(c) \/ Deactivate(c)
    \/ SetPeriod(c) \/ Switch(c) \/ Destroy(c) \/ Terminate(c) \/ Join(c)

Gone == pc[Owner] = "gone" /\ UNCHANGED vars

Next ==
    \/ Gone
    \/ ThreadStep \/ StepEnd \/ LoopEnd \/ Throw
    \/ \E c \in Callers :
          \/ CallStep(c) \/ TimeOut(c)
          \/ \E o \in Operations :
                \E a \in IF o = "setPeriod" THEN env.periods ELSE {0} : Begin(c, o, a)

Spec == Init /\ [][Next]_vars

\* Threads that are not blocked run, steps and loops return, and a waiter gets
\* a lock that is free again and again.
Fairness ==
    /\ WF_vars(ThreadStep) /\ SF_vars(StepEnd) /\ SF_vars(LoopEnd)
    /\ \A c \in Callers : WF_vars(CallStep(c)) /\ SF_vars(Lock(c))

FairSpec == Spec /\ Fairness

-----------------------------------------------------------------------------
(* Environments *)

\* Nothing makes the thread stop itself.
Calm(e) == "throw" \notin e.faults /\ "overrun" \notin e.faults

\* The thread may stop itself: then nobody else stops it, only one client starts it, and
\* the stop() of its destruction waits as long as it takes.
Alone(e) ==
    /\ "timeout" \notin e.faults
    /\ \A c \in Callers : "stop" \notin e.calls[c]
    /\ \A c \in Others : "start" \notin e.calls[c] /\ "trigger" \notin e.calls[c]

\* The environments in which StepsInside is proved.
Orderly == \A e \in Environments : "overlap" \in e.faults \/ Calm(e) \/ Alone(e)

\* Nobody makes the activity periodic or not,
Fixed(e) ==
    \/ \A c \in Callers : "setPeriod" \notin e.calls[c]
    \/ 0 \notin {e.period} \cup e.periods
\* or the runnable does, and the activity is started by nothing but a start().
Inward(e) ==
    /\ Calm(e) /\ "refuse" \notin e.faults
    /\ \A c \in Callers \ {Self} : "setPeriod" \notin e.calls[c]

Regular(e) ==
    "overlap" \notin e.faults /\ (Calm(e) \/ Alone(e)) /\ (Fixed(e) \/ Inward(e))

\* The environments in which Paced is proved, and those of which it says nothing.
Even == \A e \in Environments :
            \/ Regular(e) \/ "overlap" \in e.faults
            \/ 0 \in e.periods /\ "setPeriod" \in e.calls[Owner]

\* No stop() that has cleared running sets it again and goes on.
Attentive(e) ==
    /\ "timeout" \notin e.faults
    /\ "refuse" \notin e.faults \/ \A c \in Callers : "stop" \notin e.calls[c]

\* The environments in which Awake is proved, and those of which it says nothing.
Heeded == \A e \in Environments : Attentive(e) \/ "timeout" \in e.faults

-----------------------------------------------------------------------------
(* Properties *)

TypeOK ==
    /\ env \in Environments
    /\ active \in BOOLEAN /\ running \in BOOLEAN /\ inloop \in BOOLEAN
    /\ prepareForExit \in BOOLEAN /\ hooked \in BOOLEAN /\ owed \in BOOLEAN
    /\ inloop <=> at = "loop"
    /\ period \in Periods \cup {0} /\ cur_period \in Periods \cup {0}
    /\ task_period \in Periods \cup {0}
    /\ overruns \in 0..(MaxOverrun + 1) /\ sem \in 0..MaxSignals
    /\ breaker = IF at \in {"while", "step", "stepped", "sleep", "locked", "loop"} THEN Self ELSE None
    /\ at \in {"check", "wait", "run", "lockStep", "while", "step", "stepped", "sleep", "lockLoop",
               "locked", "loop", "emergency", "inactive", "finalize", "done"}
    /\ op \in [Callers -> Operations \cup {"none", "delete"}]

\* A thread that sleeps with no signal has nothing to do: it is not an active
\* periodic one, and every start() and trigger() has been answered by a step.
Awake ==
    at = "wait" /\ sem = 0 /\ Quiet /\ active /\ running /\ ~Fault("timeout") =>
        period = 0 /\ ~owed

\* A periodic step begins between initialize() and finalize(), and finalize() is not
\* called during it, unless the step stops the activity itself.
StepsInside ==
    [][~Fault("overlap") =>
         /\ StepBegin /\ at' = "step" => hooked
         /\ at = "step" /\ hooked /\ ~hooked' => pc[Self] = "finalize"]_vars

\* Another thread makes this one periodic or not.
SwitchedOutside == 0 \in env.periods /\ "setPeriod" \in env.calls[Owner]

\* A periodic thread waits between its steps: the operating system never has
\* period 0 for it, with which rtos_task_wait_period() returns at once.
Paced ==
    at = "sleep" /\ Quiet /\ running /\ period # 0 /\ ~SwitchedOutside /\ ~Fault("overlap") =>
        task_period # 0

\* Destruction ends.
Terminates == pc[Owner] = "destroy" ~> pc[Owner] = "gone"
=============================================================================
