------------------------------ MODULE TaskCore ------------------------------
(***************************************************************************)
(* The life of a component (base/TaskCore.cpp): its state, the hooks its   *)
(* user implements and the operations that call them.                      *)
(*                                                                         *)
(* configure(), start(), stop(), ... are executed in the thread of the     *)
(* client that calls them (TaskContext.cpp:102-117), updateHook() and      *)
(* errorHook() in the thread of the engine (ExecutionEngine::step).        *)
(*                                                                         *)
(* No lock protects mTaskState and mTargetState.  Every store to one of    *)
(* them is a step of its own: where the code has "mTargetState =           *)
(* mTaskState = s", other threads can come in between.  So are the         *)
(* conditions of recover() and error(), which any number of clients may    *)
(* call.  The condition of configure(), cleanup(), start(), stop() and of  *)
(* an update is one step with the store or the call that follows it: see   *)
(* Disciplined.                                                            *)
(*                                                                         *)
(* A thread is a stack of the calls it is in.  The activity is non-periodic*)
(* (Activity, os/Thread.cpp) and reduced to what start() and stop() use.   *)
(***************************************************************************)
EXTENDS Integers, Sequences

CONSTANTS
    Clients,        \* threads that call the operations of the component
    Engine,         \* the thread of its engine
    Users           \* the programs to check: see IsProgram

Threads == Clients \cup {Engine}
Hooks == {"configureHook", "startHook", "updateHook", "errorHook", "stopHook",
          "cleanupHook", "exceptionHook"}
Operations == {"configure", "cleanup", "start", "stop", "recover", "error",
               "exception", "fatal", "activate", "trigger"}

\* A program around the component: its mInitialState, the operations the clients call
\* (exception() and fatal() are protected), <<hook, operation>>: what its hooks call, what
\* may throw (its hooks, the operations its engine executes), and whether
\* breakUpdateHook() may return false or a stop() time out.
IsProgram(u) ==
    /\ DOMAIN u = {"initial", "ops", "calls", "throws", "refuses"}
    /\ u.initial \in {"PreOperational", "Stopped"}
    /\ u.ops \subseteq Operations \ {"exception", "fatal"}
    /\ u.calls \subseteq Hooks \X Operations
    /\ u.throws \subseteq Hooks \cup {"operation"}
    /\ u.refuses \in BOOLEAN

ASSUME TaskCoreAssumption == Engine \notin Clients /\ \A u \in Users : IsProgram(u)

\* enum TaskState
TaskState == {"PreOperational", "FatalError", "Exception", "Stopped", "Running",
              "RunTimeError"}
RunningStates == {"Running", "RunTimeError"}        \* >= Running
ConfiguredStates == RunningStates \cup {"Stopped"}  \* >= Stopped

VARIABLES
    mTaskState,
    mTargetState,
    stack,      \* stack[t]: the calls thread t is in, the innermost first
    ret,        \* ret[t]: how the last call of t ended
    active,     \* Thread::active of the activity
    running,    \* Thread::running
    sem,        \* a signal waits in Thread::sem
    user,       \* the program this behaviour belongs to
    life        \* history: what the hooks have done to the user's component

states == <<mTaskState, mTargetState>>
activity == <<active, running, sem>>
vars == <<mTaskState, mTargetState, stack, ret, active, running, sem, user, life>>

InitialState == user.initial
ClientOps == user.ops
MayCall == user.calls
MayThrow == user.throws
MayRefuse == user.refuses

\* A call: where it is, and the state it has saved in a local variable.
Frame(at) == [at |-> at, saved |-> "none"]
At(t) == IF stack[t] = <<>> THEN "idle" ELSE Head(stack[t]).at
Saved(t) == Head(stack[t]).saved

\* Thread t goes on at another place of the call it is in ...
Goto(t, at) ==
    stack' = [stack EXCEPT ![t] = <<[Head(@) EXCEPT !.at = at]>> \o Tail(@)]
\* ... and keeps a state in a local variable ...
Enter(t, at, s) ==
    stack' = [stack EXCEPT ![t] = <<[at |-> at, saved |-> s]>> \o Tail(@)]
\* ... calls something, and will go on at another place ...
Call(t, callee, at) ==
    stack' = [stack EXCEPT ![t] =
                <<Frame(callee), [Head(@) EXCEPT !.at = at]>> \o Tail(@)]
\* ... or returns.
Return(t, r) ==
    /\ stack' = [stack EXCEPT ![t] = Tail(@)]
    /\ ret' = [ret EXCEPT ![t] = r]

SetState(s) == mTaskState' = s
SetTarget(s) == mTargetState' = s

\* The engine is in step() and holds the lock `breaker'.
InLoop == stack[Engine] # <<>> /\ At(Engine) # "awake"

Init ==
    /\ user \in Users
    /\ mTaskState = InitialState
    /\ mTargetState = InitialState
    /\ stack = [t \in Threads |-> <<>>]
    /\ ret = [t \in Threads |-> "none"]
    /\ active = TRUE
    /\ running = TRUE
    /\ sem = TRUE
    /\ life = IF InitialState = "Stopped" THEN "configured" ELSE "cleaned"

-----------------------------------------------------------------------------
(***************************************************************************)
(* The activity.                                                           *)
(***************************************************************************)

\* Thread::start(): signals an active thread, starts another.
Start ==
    /\ active' = TRUE
    /\ running' = (running \/ ~active)
    /\ sem' = TRUE

Activate(t) ==
    /\ At(t) = "activate"
    /\ Start
    /\ Return(t, "true")
    /\ UNCHANGED <<states, life>>

\* Activity::trigger()
Trigger(t) ==
    /\ At(t) = "trigger"
    /\ IF active THEN Start ELSE UNCHANGED activity
    /\ Return(t, IF active THEN "true" ELSE "false")
    /\ UNCHANGED <<states, life>>

\* Thread::stop()
HaltInactive(t) ==
    /\ At(t) = "halt" /\ ~active
    /\ Return(t, "false")
    /\ UNCHANGED <<states, activity, life>>

Halt(t) ==
    /\ At(t) = "halt" /\ active
    /\ running' = FALSE
    /\ Goto(t, "halting")
    /\ UNCHANGED <<states, active, sem, ret, life>>

\* breakLoop() refuses, or the wait for the lock times out.
HaltFails(t) ==
    /\ At(t) = "halting" /\ InLoop /\ MayRefuse
    /\ running' = TRUE
    /\ Return(t, "false")
    /\ UNCHANGED <<states, active, sem, life>>

\* Mutant: does not wait for the lock.
Halted_NoLock(t) ==
    /\ At(t) = "halting"
    /\ active' = FALSE
    /\ Return(t, "true")
    /\ UNCHANGED <<states, running, sem, life>>

\* The lock is free, or the engine's own thread has it.
Halted(t) ==
    /\ At(t) = "halting" /\ (InLoop => t = Engine)
    /\ active' = FALSE
    /\ Return(t, "true")
    /\ UNCHANGED <<states, running, sem, life>>

-----------------------------------------------------------------------------
(***************************************************************************)
(* The hooks: user code, which may call operations, throw or return.       *)
(***************************************************************************)

HookCalls(t, op) ==
    /\ <<At(t), op>> \in MayCall
    /\ Call(t, op, At(t))
    /\ UNCHANGED <<states, activity, ret, life>>

Results(hook) == IF hook \in {"configureHook", "startHook"} THEN {"true", "false"}
                                                          ELSE {"true"}

\* What a hook that returns has made of the component.
LifeAfter(hook, r) ==
    CASE hook = "configureHook" -> IF r = "true" THEN "configured" ELSE "cleaned"
      [] hook = "startHook" /\ r = "true" -> "started"
      [] hook = "stopHook" -> "configured"
      [] hook = "cleanupHook" -> "cleaned"
      [] OTHER -> life

HookReturns(t, r) ==
    /\ At(t) \in Hooks /\ r \in Results(At(t))
    /\ Return(t, r)
    /\ life' = LifeAfter(At(t), r)
    /\ UNCHANGED <<states, activity>>

HookThrows(t) ==
    /\ At(t) \in Hooks \cap MayThrow
    /\ Return(t, "throw")
    /\ UNCHANGED <<states, activity, life>>

\* A hook has thrown: the operation that called it catches and calls exception().
\* The operation returns false when exception() has.
Catch(t) ==
    /\ At(t) \in {"configured", "cleaned", "started", "stopped"} /\ ret[t] = "throw"
    /\ Goto(t, "exception")
    /\ UNCHANGED <<states, activity, ret, life>>

-----------------------------------------------------------------------------
(***************************************************************************)
(* configure(), cleanup(), recover(), error(), fatal().                    *)
(***************************************************************************)

\* An operation whose guard does not hold returns false.
NotAllowed(t) ==
    /\ \/ At(t) = "configure" /\ mTaskState \notin {"Stopped", "PreOperational"}
       \/ At(t) \in {"cleanup", "start"} /\ mTaskState # "Stopped"
       \/ At(t) = "stop" /\ mTaskState \notin RunningStates
       \/ At(t) = "recoverError" /\ mTaskState # "RunTimeError"
       \/ At(t) = "error" /\ mTargetState \notin RunningStates
    /\ Return(t, "false")
    /\ UNCHANGED <<states, activity, life>>

\* Mutant: configures in any state in which the component does not run.
Configure_NotRunning(t) ==
    /\ At(t) = "configure" /\ mTaskState \notin RunningStates
    /\ SetTarget("Stopped")
    /\ Call(t, "configureHook", "configured")
    /\ UNCHANGED <<mTaskState, activity, ret, life>>

Configure(t) ==
    /\ At(t) = "configure" /\ mTaskState \in {"Stopped", "PreOperational"}
    /\ SetTarget("Stopped")
    /\ Call(t, "configureHook", "configured")
    /\ UNCHANGED <<mTaskState, activity, ret, life>>

Configured(t) ==
    /\ At(t) = "configured" /\ ret[t] = "true"
    /\ SetState("Stopped")
    /\ Return(t, "true")
    /\ UNCHANGED <<mTargetState, activity, life>>

ConfigureFailed(t) ==
    /\ At(t) = "configured" /\ ret[t] = "false"
    /\ SetState("PreOperational")
    /\ Enter(t, "target", "PreOperational")
    /\ UNCHANGED <<mTargetState, activity, ret, life>>

\* "mTargetState = mTaskState = s" comes to its second store, and the operation returns.
Target(t) ==
    /\ At(t) = "target"
    /\ SetTarget(Saved(t))
    /\ Return(t, ret[t])
    /\ UNCHANGED <<mTaskState, activity, life>>

Cleanup(t) ==
    /\ At(t) = "cleanup" /\ mTaskState = "Stopped"
    /\ SetTarget("PreOperational")
    /\ Call(t, "cleanupHook", "cleaned")
    /\ UNCHANGED <<mTaskState, activity, ret, life>>

\* Mutant: cleanup() does not leave the Stopped state.
Cleaned_NoState(t) ==
    /\ At(t) = "cleaned" /\ ret[t] # "throw"
    /\ Return(t, "true")
    /\ UNCHANGED <<states, activity, life>>

Cleaned(t) ==
    /\ At(t) = "cleaned" /\ ret[t] # "throw"
    /\ SetState("PreOperational")
    /\ Return(t, "true")
    /\ UNCHANGED <<mTargetState, activity, life>>

\* recover() from an exception, to where the component began ...
Recover(t) ==
    /\ At(t) = "recover" /\ mTaskState = "Exception"
    /\ Enter(t, "store", InitialState)
    /\ UNCHANGED <<states, activity, ret, life>>

NoException(t) ==
    /\ At(t) = "recover" /\ mTaskState # "Exception"
    /\ Goto(t, "recoverError")
    /\ UNCHANGED <<states, activity, ret, life>>

\* ... and, if there is none, from an error.
RecoverError(t) ==
    /\ At(t) = "recoverError" /\ mTaskState = "RunTimeError"
    /\ Enter(t, "store", "Running")
    /\ UNCHANGED <<states, activity, ret, life>>

\* error() looks at the target, to detect a call within start().
Error(t) ==
    /\ At(t) = "error" /\ mTargetState \in RunningStates
    /\ Enter(t, "store", "RunTimeError")
    /\ UNCHANGED <<states, activity, ret, life>>

\* The first store of recover() and error(), whatever has happened since the condition.
Store(t) ==
    /\ At(t) = "store"
    /\ SetState(Saved(t))
    /\ Goto(t, "target")
    /\ ret' = [ret EXCEPT ![t] = "true"]
    /\ UNCHANGED <<mTargetState, activity, life>>

\* fatal(), which calls no hooks and stops the activity.
Fatal(t) ==
    /\ At(t) = "fatal"
    /\ SetState("FatalError")
    /\ Goto(t, "fatalTarget")
    /\ UNCHANGED <<mTargetState, activity, ret, life>>

FatalTarget(t) ==
    /\ At(t) = "fatalTarget"
    /\ SetTarget("FatalError")
    /\ Goto(t, "halt")
    /\ UNCHANGED <<mTaskState, activity, ret, life>>

-----------------------------------------------------------------------------
(***************************************************************************)
(* start() and stop().                                                     *)
(***************************************************************************)

StartTask(t) ==
    /\ At(t) = "start" /\ mTaskState = "Stopped"
    /\ SetTarget("Running")
    /\ Call(t, "startHook", "started")
    /\ UNCHANGED <<mTaskState, activity, ret, life>>

\* Mutant: start() does not trigger().
Started_NoTrigger(t) ==
    /\ At(t) = "started" /\ ret[t] = "true"
    /\ SetState("Running")
    /\ Return(t, "true")
    /\ UNCHANGED <<mTargetState, activity, life>>

\* startHook() returned true: enter Running and trigger() updateHook().
Started(t) ==
    /\ At(t) = "started" /\ ret[t] = "true"
    /\ SetState("Running")
    /\ Goto(t, "trigger")
    /\ UNCHANGED <<mTargetState, activity, ret, life>>

StartFailed(t) ==
    /\ At(t) = "started" /\ ret[t] = "false"
    /\ SetTarget("Stopped")
    /\ Return(t, "false")
    /\ UNCHANGED <<mTaskState, activity, life>>

\* stop(): orig = mTaskState, then stopTask(): stop and start the activity, "a
\* forced synchronization point".
StopTask(t) ==
    /\ At(t) = "stop" /\ mTaskState \in RunningStates
    /\ SetTarget("Stopped")
    /\ stack' = [stack EXCEPT ![t] =
                   <<Frame("halt"), [at |-> "restart", saved |-> mTaskState]>> \o Tail(@)]
    /\ UNCHANGED <<mTaskState, activity, ret, life>>

\* The activity has stopped: start it again, then stopHook().
Restart(t) ==
    /\ At(t) = "restart" /\ ret[t] = "true"
    /\ Start
    /\ Call(t, "stopHook", "stopped")
    /\ UNCHANGED <<states, ret, life>>

\* Mutant: forgets to restore the target.
StopFailed_NoTarget(t) ==
    /\ At(t) = "restart" /\ ret[t] = "false"
    /\ SetState(Saved(t))
    /\ Return(t, "false")
    /\ UNCHANGED <<mTargetState, activity, life>>

\* stopTask() failed: go back to the state at the call.
StopFailed(t) ==
    /\ At(t) = "restart" /\ ret[t] = "false"
    /\ SetState(Saved(t))
    /\ Goto(t, "target")
    /\ UNCHANGED <<mTargetState, activity, ret, life>>

Stopped(t) ==
    /\ At(t) = "stopped" /\ ret[t] # "throw"
    /\ SetState("Stopped")
    /\ Return(t, "true")
    /\ UNCHANGED <<mTargetState, activity, life>>

-----------------------------------------------------------------------------
(***************************************************************************)
(* exception(): stopHook(), cleanupHook() and exceptionHook(), as far as   *)
(* the state it was called in asks for them; fatal() when one of them      *)
(* throws.                                                                 *)
(***************************************************************************)

Raise(t) ==
    /\ At(t) = "exception"
    /\ Enter(t, "raise", mTaskState)
    /\ ret' = [ret EXCEPT ![t] = "none"]
    /\ UNCHANGED <<states, activity, life>>

RaiseState(t) ==
    /\ At(t) = "raise"
    /\ SetState("Exception")
    /\ Goto(t, "raiseTarget")
    /\ UNCHANGED <<mTargetState, activity, ret, life>>

RaiseTarget(t) ==
    /\ At(t) = "raiseTarget"
    /\ SetTarget("Exception")
    /\ Goto(t, "raised")
    /\ UNCHANGED <<mTaskState, activity, ret, life>>

RaiseStop(t) ==
    /\ At(t) = "raised"
    /\ IF Saved(t) \in RunningStates THEN Call(t, "stopHook", "raisedStop")
                                     ELSE Goto(t, "raisedStop")
    /\ UNCHANGED <<states, activity, ret, life>>

RaiseClean(t) ==
    /\ At(t) = "raisedStop" /\ ret[t] # "throw"
    /\ IF Saved(t) \in ConfiguredStates /\ InitialState = "PreOperational"
         THEN Call(t, "cleanupHook", "raisedClean")
         ELSE Goto(t, "raisedClean")
    /\ UNCHANGED <<states, activity, ret, life>>

RaiseHook(t) ==
    /\ At(t) = "raisedClean" /\ ret[t] # "throw"
    /\ Call(t, "exceptionHook", "raisedHook")
    /\ UNCHANGED <<states, activity, ret, life>>

Raised(t) ==
    /\ At(t) = "raisedHook" /\ ret[t] # "throw"
    /\ Return(t, "false")
    /\ UNCHANGED <<states, activity, life>>

RaiseFatal(t) ==
    /\ At(t) \in {"raisedStop", "raisedClean", "raisedHook"} /\ ret[t] = "throw"
    /\ Goto(t, "fatal")
    /\ UNCHANGED <<states, activity, ret, life>>

-----------------------------------------------------------------------------
(***************************************************************************)
(* The engine: step() on every signal, which calls updateHook() in the     *)
(* Running state and then errorHook() in the RunTimeError state.           *)
(***************************************************************************)

Wake ==
    /\ stack[Engine] = <<>> /\ sem
    /\ sem' = FALSE
    /\ stack' = IF running THEN [stack EXCEPT ![Engine] = <<Frame("awake")>>] ELSE stack
    /\ UNCHANGED <<states, active, running, ret, life>>

Step ==
    /\ At(Engine) = "awake"
    /\ Goto(Engine, "step")
    /\ ret' = [ret EXCEPT ![Engine] = "none"]
    /\ UNCHANGED <<states, activity, life>>

\* An operation that the engine executed in processMessages() has thrown: reportError().
OperationThrew ==
    /\ At(Engine) = "step" /\ "operation" \in MayThrow
    /\ Call(Engine, "exception", "step")
    /\ UNCHANGED <<states, activity, ret, life>>

Update ==
    /\ At(Engine) = "step"
    /\ IF mTaskState = "Running" /\ mTargetState = "Running"
         THEN Call(Engine, "updateHook", "updated")
         ELSE Goto(Engine, "updated")
    /\ UNCHANGED <<states, activity, ret, life>>

UpdateThrew ==
    /\ At(Engine) = "updated" /\ ret[Engine] = "throw"
    /\ Call(Engine, "exception", "updated")
    /\ UNCHANGED <<states, activity, ret, life>>

HandleError ==
    /\ At(Engine) = "updated" /\ ret[Engine] # "throw"
    /\ IF mTaskState = "RunTimeError"
         THEN Call(Engine, "errorHook", "handled")
         ELSE Goto(Engine, "handled")
    /\ ret' = [ret EXCEPT ![Engine] = "none"]
    /\ UNCHANGED <<states, activity, life>>

ErrorThrew ==
    /\ At(Engine) = "handled" /\ ret[Engine] = "throw"
    /\ Call(Engine, "exception", "handled")
    /\ UNCHANGED <<states, activity, ret, life>>

EndStep ==
    /\ At(Engine) = "handled" /\ ret[Engine] # "throw"
    /\ Return(Engine, "none")
    /\ UNCHANGED <<states, activity, life>>

-----------------------------------------------------------------------------
\* A client calls an operation.
ClientCalls(c, op) ==
    /\ stack[c] = <<>>
    /\ stack' = [stack EXCEPT ![c] = <<Frame(op)>>]
    /\ ret' = [ret EXCEPT ![c] = "none"]
    /\ UNCHANGED <<states, activity, life>>

\* What a thread does once it is in a call.
Progress(t) ==
    \/ Activate(t) \/ Trigger(t)
    \/ HaltInactive(t) \/ Halt(t) \/ HaltFails(t) \/ Halted(t)
    \/ \E r \in {"true", "false"} : HookReturns(t, r)
    \/ HookThrows(t) \/ Catch(t) \/ NotAllowed(t)
    \/ Configure(t) \/ Configured(t) \/ ConfigureFailed(t) \/ Cleanup(t) \/ Cleaned(t)
    \/ Recover(t) \/ NoException(t) \/ RecoverError(t) \/ Error(t) \/ Store(t) \/ Target(t)
    \/ Fatal(t) \/ FatalTarget(t)
    \/ StartTask(t) \/ Started(t) \/ StartFailed(t)
    \/ StopTask(t) \/ Restart(t) \/ StopFailed(t) \/ Stopped(t)
    \/ Raise(t) \/ RaiseState(t) \/ RaiseTarget(t)
    \/ RaiseStop(t) \/ RaiseClean(t) \/ RaiseHook(t) \/ Raised(t)
    \/ RaiseFatal(t)

EngineStep ==
    Wake \/ Step \/ Update \/ UpdateThrew \/ HandleError \/ ErrorThrew \/ EndStep

Next ==
    /\ \/ EngineStep \/ OperationThrew
       \/ \E t \in Threads : Progress(t) \/ \E op \in Operations : HookCalls(t, op)
       \/ \E c \in Clients, op \in ClientOps : ClientCalls(c, op)
    /\ UNCHANGED user

Spec == Init /\ [][Next]_vars

\* The threads are scheduled and every hook returns; nobody has to call anything.
FairSpec ==
    /\ Spec
    /\ WF_vars(EngineStep /\ UNCHANGED user)
    /\ \A t \in Threads : WF_vars(Progress(t) /\ UNCHANGED user)

-----------------------------------------------------------------------------
(***************************************************************************)
(* Environments.  No lock keeps two operations apart, and stop() and       *)
(* exception() go on from a state they have read before a wait: the order  *)
(* of the hooks, and some of the states, are in the hands of the programs. *)
(* In the following ones they hold; README says what happens in others.    *)
(* In these, too, no thread stores a state between a condition and the     *)
(* store or call it guards that are one step here: configure(), start() and*)
(* so on are called by the only client, and while one of their conditions  *)
(* holds the engine stores nothing; in NotStarted nobody calls them.       *)
(***************************************************************************)

\* One thread calls the operations.
OneClient == \A c, d \in Clients : c = d

\* Operations that only signal the engine.
Signals == {"trigger", "activate"}

\* A component its client stops: what its engine executes neither fails nor throws, and
\* recover() finds a component that exception() has cleaned up.
StoppedByClient(u) ==
    /\ u.initial = "PreOperational" \/ "recover" \notin u.ops
    /\ "error" \notin u.ops
    /\ u.calls \subseteq Hooks \X Signals
    /\ u.throws \cap {"updateHook", "errorHook", "operation"} = {}

\* A component nobody stops: the hooks of its engine fail, recover, give up or throw (but
\* for a hook that calls fatal()), in the thread of the engine.
NobodyStops(u) ==
    /\ u.ops \cap {"stop", "recover", "error"} = {}
    /\ \A hook \in Hooks, op \in Operations : <<hook, op>> \in u.calls =>
          \/ op \in Signals
          \/ hook \in {"updateHook", "errorHook"} /\ op \in {"error", "recover", "fatal"}
    /\ \A hook \in Hooks : <<hook, "fatal">> \in u.calls => hook \notin u.throws
    /\ "operation" \notin u.throws

\* A component that is not started, of any number of clients: the operations that its
\* engine executes may throw, its exceptionHook() does not.
NotStarted(u) ==
    /\ u.ops \subseteq {"recover", "error"} \cup Signals
    /\ u.calls \subseteq Hooks \X Signals
    /\ "exceptionHook" \notin u.throws

\* A client may be between the stores of recover() while an operation of the engine throws,
\* and the engine between those of exception(): one can write mTaskState last, and the
\* other mTargetState.
Racing(u) == "recover" \in u.ops /\ "operation" \in u.throws

Disciplined(u) == NotStarted(u) \/ (OneClient /\ (StoppedByClient(u) \/ NobodyStops(u)))

-----------------------------------------------------------------------------
(***************************************************************************)
(* Properties.                                                             *)
(***************************************************************************)

\* The states are those of the enumeration (a state that stop() restores too), and
\* a thread is only in calls the code makes.
TypeOK ==
    /\ mTaskState \in TaskState /\ mTargetState \in TaskState
    /\ active \in BOOLEAN /\ running \in BOOLEAN /\ sem \in BOOLEAN
    /\ life \in {"cleaned", "configured", "started"}
    /\ \A t \in Threads :
         /\ ret[t] \in {"none", "true", "false", "throw"}
         /\ \A i \in 1 .. Len(stack[t]) :
              stack[t][i].saved \in TaskState \cup {"none"}

\* Thread t is in a hook, or in an operation its hook has called.
InHook(t) == \E i \in 1 .. Len(stack[t]) : stack[t][i].at \in Hooks

\* The hooks of a component never run at the same time in two threads: stop() is "a
\* forced synchronization point, since stop() will only return when step()
\* returned".
HooksExclusive == \A t, u \in Threads : InHook(t) /\ InHook(u) => t = u

\* A hook finds the component as the hooks before it have left it.
LifeNeeded(hook) ==
    CASE hook \in {"startHook", "cleanupHook"} -> {"configured"}
      [] hook \in {"updateHook", "errorHook", "stopHook"} -> {"started"}
      [] hook = "configureHook" -> {"cleaned", "configured"}
      [] OTHER -> {"cleaned", "configured", "started"}

Entered(t, hook) ==
    /\ Len(stack'[t]) > Len(stack[t])
    /\ Head(stack'[t]).at = hook

\* Hooks are called in order, in the face of failures and exceptions:
\* startHook() only after a configureHook() that succeeded, updateHook(), errorHook() and
\* stopHook() only after a startHook() that succeeded, cleanupHook() never before
\* stopHook() and never twice.
HookOrder ==
    [][\A t \in Threads, hook \in Hooks : Entered(t, hook) => life \in LifeNeeded(hook)]_vars

\* "If getTaskState() != getTargetState, a transition is taking place": when nobody is
\* in a call they are equal, unless recover() and exception() can overlap (Racing), whose
\* stores no lock keeps apart.
Settled ==
    (\A t \in Threads : stack[t] = <<>>) /\ ~Racing(user) => mTaskState = mTargetState

\* A component in trouble is not brought back by accident: FatalError, "this state can
\* not be left", by no operation, Exception by recover() only (or for FatalError),
\* whatever state another thread had read before.
StatesLeft ==
    [][/\ mTaskState = "FatalError" => mTaskState' = "FatalError"
       /\ mTaskState = "Exception" =>
            \/ mTaskState' \in {"Exception", "FatalError"}
            \/ \E t \in Threads : At(t) = "store" /\ mTaskState' = InitialState]_vars

\* start() triggers: a component whose startHook() has succeeded is updated, or its error
\* handled ("in case start() or updateHook() called error(), this will be called"), if
\* nobody stops it.
Updated ==
    (\E c \in Clients : At(c) = "started" /\ ret[c] = "true")
      ~> (\/ At(Engine) \in {"updateHook", "errorHook"}
          \/ \E t \in Threads : At(t) = "stop"
          \/ mTaskState \in {"Exception", "FatalError"})
=============================================================================
