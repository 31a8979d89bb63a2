---------------------------- MODULE ThreadProofs ----------------------------
(***************************************************************************)
(* Proofs about module Thread, for any environments, clients and bounds.   *)
(***************************************************************************)
EXTENDS Thread, FiniteSetTheorems, TLAPS

\* Where a call is that has found the thread inactive and has not set running yet,
Starting == {"activate", "initialize", "run"}
\* and one that has cleared running and has not called finalize() yet.
Stopping == {"breakLoop", "lock", "giveUp", "finalize"}
\* Where the thread is that goes to a periodic step, or is between two of them,
Periodic == {"lockStep", "while", "step", "stepped", "sleep"}
\* or that has found the activity running.
Busy == Periodic \cup {"lockLoop", "locked", "loop"}

\* What is left of a destruction.
Ending == {"stop", "deactivate", "destroy", "delete", "signal", "join", "gone"} \cup Stopping

Locals ==
    /\ pc \in [Callers -> {"idle", "trigger", "start", "makePeriodic", "again",
                           "setPeriod", "switch"} \cup Starting \cup Ending]
    /\ arg \in [Callers -> Periods \cup {0}]

\* The operation that a call is in.
Calls ==
    \A c \in Callers :
        /\ pc[c] # "idle" => op[c] \in env.calls[c] \cup {"delete"}
        /\ pc[c] \in {"start", "makePeriodic", "again"} \cup Starting => op[c] \in {"start", "trigger"}
        /\ pc[c] = "trigger" => op[c] = "trigger"
        /\ pc[c] \in {"stop", "deactivate"} \cup Stopping => op[c] \in {"stop", "destroy", "delete"}
        /\ pc[c] \in {"setPeriod", "switch"} => op[c] = "setPeriod"
        /\ pc[c] = "destroy" => op[c] = "destroy"
        /\ pc[c] \in {"delete", "join", "gone"} => op[c] = "delete"
        /\ pc[c] = "signal" => op[c] # "destroy"
        /\ op[c] \in {"destroy", "delete"} => c = Owner /\ pc[c] \in Ending

\* A destruction is alone; the runnable calls from its own code.
Users ==
    /\ ~Alive => \A c \in Callers \ {Owner} : pc[c] = "idle"
    /\ pc[Self] # "idle" => UserCode
    /\ prepareForExit => ~Alive

\* Calls that conflict do not overlap.
Excluded ==
    ~Fault("overlap") =>
        \A c, d \in Callers : c # d /\ pc[c] # "idle" /\ pc[d] # "idle" => ~Conflict(op[c], op[d])

\* The activity runs, and is about to, after its initialize(); a stop() that has found it
\* active keeps it from running until it calls finalize() or gives up.
CalmFacts ==
    /\ overruns = 0 /\ at \notin {"emergency", "inactive", "finalize"}
    /\ running => hooked
    /\ \A c \in Callers :
          /\ pc[c] = "run" => hooked
          /\ pc[c] \in Stopping => hooked /\ ~running
          /\ pc[c] = "deactivate" => ~running
          /\ pc[c] = "finalize" /\ c # Self => at # "step"
    /\ active /\ (\A c \in Callers : pc[c] \notin {"initialize", "deactivate"}) => hooked

\* The owner's start() finds the activity inactive when the thread has stopped itself
\* entirely, or was never started.  A refusal of the destructor's breakLoop() may set
\* running again after that, but not for a periodic step.
AloneFacts ==
    /\ running => hooked \/ (~Alive /\ period = 0 /\ at \notin Periodic)
    /\ pc[Owner] \in Starting => ~running /\ at \in {"check", "wait", "run", "finalize"}
    /\ pc[Owner] = "run" => hooked /\ active
    /\ Alive => /\ at \in Busy \cup {"emergency"} => running
                /\ running \/ at = "inactive" => active
                /\ at # "done"
    /\ running /\ at = "inactive" => ~Alive /\ period = 0
    /\ \A c \in Callers :
          /\ c # Owner => pc[c] \notin Starting
          /\ pc[c] \in Stopping \cup {"deactivate"} => c = Owner /\ ~running /\ pc[c] # "giveUp"
          /\ pc[c] = "breakLoop" => period = 0 /\ at \notin Periodic
          /\ pc[c] = "finalize" => at # "step"

\* The operating system has a period for a periodic activity that runs, or that a stop()
\* may yet leave running, unless a call is about to tell it or the thread is when it wakes.
Told ==
    /\ period # 0 /\ at # "wait"
    /\ \A c \in Callers : pc[c] \notin {"makePeriodic", "switch"}
    /\ running \/ (Calm(env) /\ \E c \in Callers : pc[c] \in {"breakLoop", "lock", "giveUp"})
    => task_period # 0

\* start() knows whether the activity is periodic, and a stop() finds it running.
PaceFacts ==
    /\ Told
    /\ period \in Periods
    /\ Calm(env) /\ active /\ (\A c \in Callers : pc[c] \notin {"deactivate"} \cup Starting \cup Stopping)
          => running
    /\ \A c \in Callers :
          /\ pc[c] \in Starting => (arg[c] = 0 <=> period = 0)
          /\ pc[c] \in {"setPeriod", "switch"} => arg[c] \in env.periods
          /\ pc[c] = "switch" => c = Self /\ Inward(env) /\ (arg[c] # 0 => task_period # 0)
          /\ Inward(env) => /\ pc[c] = "start" /\ op[c] = "trigger" => active
                            /\ pc[c] \in {"makePeriodic"} \cup Starting => op[c] = "start"

\* Where the thread is that has taken a signal and has not stepped yet, or goes to a step.
Coming == {"run", "lockStep", "while", "lockLoop", "locked"}

\* Without a signal, what is owed to a running activity is on its way, and so is what wakes a
\* thread that sleeps and has a periodic activity to step.
AwakeFacts ==
    /\ \A c \in Callers : pc[c] # "giveUp"
    /\ Alive /\ sem = 0 /\ running =>
          /\ owed /\ at \notin Coming => \E c \in Callers : pc[c] \in {"makePeriodic", "signal"}
          /\ at = "wait" /\ period # 0 /\ active =>
                \E c \in Callers : pc[c] \in {"initialize", "run", "makePeriodic", "signal"}

\* Calls that may still signal the thread, each of them once.
Pending == {c \in Callers : pc[c] \notin {"idle", "join", "gone"}}
Bounded == sem + Cardinality(Pending) <= MaxSignals

Inv == TypeOK /\ Locals /\ Calls /\ Bounded
IInv == /\ Inv /\ Users /\ Excluded
        /\ Calm(env) /\ ~Fault("overlap") => CalmFacts
        /\ Alone(env) => AloneFacts
        /\ Regular(env) => PaceFacts
        /\ Attentive(env) => AwakeFacts

USE ThreadAssumption

-----------------------------------------------------------------------------
(***************************************************************************)
(* What a step leaves alone.                                               *)
(***************************************************************************)

LEMMA Cast ==
    /\ Owner \in Callers /\ Self \in Callers /\ Owner # Self
    /\ None \notin Callers /\ IsFiniteSet(Callers)
  <1>1. Callers = ((Others \cup {Self}) \cup {Owner})
    BY DEF Callers
  <1>2. IsFiniteSet(Others \cup {Self})
    BY FS_AddElement
  <1>3. IsFiniteSet(Callers)
    BY <1>1, <1>2, FS_AddElement
  <1> QED
    BY <1>3 DEF Callers

Thrd == ThreadStep \/ StepEnd \/ LoopEnd \/ Throw

\* The thread does not touch the calls.
LEMMA ThreadLeaves ==
    ASSUME Thrd
    PROVE  UNCHANGED <<env, prepareForExit, period, pc, op, arg>>
  BY DEF Thrd, ThreadStep, Check, Wake, Run, Take, StepBegin, NewPeriod, WaitPeriod, LoopBegin,
         EmergencyStop, EmergencyFinalize, Recover, StepEnd, LoopEnd, Throw, flags, timing, callers

\* A call changes neither where the thread is nor another call.
LEMMA CallLeaves ==
    ASSUME NEW c \in Callers, Inv, CallStep(c) \/ TimeOut(c)
    PROVE  /\ UNCHANGED <<env, inloop, cur_period, overruns, breaker, at>>
           /\ pc[c] # "idle"
           /\ \A d \in Callers \ {c} : pc'[d] = pc[d] /\ op'[d] = op[d]
           /\ \/ op' = op
              \/ op[c] = "destroy" /\ op' = [op EXCEPT ![c] = "delete"]
  <1>1. CASE Start(c)
    BY <1>1 DEF Start, Return, Goto, Inv, Locals, flags, timing
  <1>2. CASE Activate(c)
    BY <1>2 DEF Activate, Goto, Inv, Locals, flags, timing
  <1>3. CASE Initialize(c)
    BY <1>3 DEF Initialize, Return, Goto, Inv, Locals, flags, timing
  <1>4. CASE Started(c)
    BY <1>4 DEF Started, Goto, Inv, Locals, flags, timing
  <1>5. CASE MakePeriodic(c)
    BY <1>5 DEF MakePeriodic, Goto, Inv, Locals, flags, timing
  <1>6. CASE Again(c)
    BY <1>6 DEF Again, Return, Goto, Inv, Locals, flags, timing
  <1>7. CASE Signal(c)
    BY <1>7 DEF Signal, Return, Goto, Inv, Locals, flags, timing
  <1>8. CASE Trigger(c)
    BY <1>8 DEF Trigger, Return, Goto, Inv, Locals, flags, timing
  <1>9. CASE Stop(c)
    BY <1>9 DEF Stop, Return, Goto, Inv, Locals, flags, timing
  <1>10. CASE BreakLoop(c)
    BY <1>10 DEF BreakLoop, Return, Goto, Inv, Locals, flags, timing
  <1>11. CASE Lock(c)
    BY <1>11 DEF Lock, Goto, Inv, Locals, flags, timing
  <1>12. CASE GiveUp(c)
    BY <1>12 DEF GiveUp, Return, Goto, Inv, Locals, flags, timing
  <1>13. CASE FinalizeBegin(c)
    BY <1>13 DEF FinalizeBegin, Goto, Inv, Locals, flags, timing
  <1>14. CASE Deactivate(c)
    BY <1>14 DEF Deactivate, Return, Goto, Inv, Locals, flags, timing
  <1>15. CASE SetPeriod(c)
    BY <1>15 DEF SetPeriod, Return, Goto, Inv, Locals, flags, timing
  <1>16. CASE Switch(c)
    BY <1>16 DEF Switch, Return, Goto, Inv, Locals, flags, timing
  <1>17. CASE Destroy(c)
    BY <1>17 DEF Destroy, Inv, Locals, TypeOK, Calls, flags, timing
  <1>18. CASE Terminate(c)
    BY <1>18 DEF Terminate, Goto, Inv, Locals, flags, timing
  <1>19. CASE Join(c)
    BY <1>19 DEF Join, Goto, Inv, Locals, flags, timing
  <1>20. CASE TimeOut(c)
    BY <1>20 DEF TimeOut, Goto, Inv, Locals, flags, timing
  <1> QED
    BY <1>1, <1>2, <1>3, <1>4, <1>5, <1>6, <1>7, <1>8, <1>9, <1>10, <1>11, <1>12, <1>13, <1>14, <1>15, <1>16, <1>17, <1>18, <1>19, <1>20 DEF CallStep

-----------------------------------------------------------------------------
(***************************************************************************)
(* Types.                                                                  *)
(***************************************************************************)

\* The thread ends a step in a place where it may be, with a period it knows.
LEMMA ThreadTypes ==
    ASSUME Inv, Thrd
    PROVE  TypeOK' /\ sem' <= sem
  <1>1. env \in Environments /\ IsEnvironment(env)
    BY DEF Inv, TypeOK
  <1>2. MaxOverrun \in Nat /\ MaxOverrun # 0
    OBVIOUS
  <1>3. CASE Check
    BY <1>1, <1>2, <1>3 DEF Check, After, Inv, TypeOK, Periods, flags, timing, callers, ghosts
  <1>4. CASE Wake
    BY <1>1, <1>2, <1>4 DEF Wake, After, Inv, TypeOK, Periods, flags, timing, callers, ghosts
  <1>5. CASE Run
    BY <1>1, <1>2, <1>5 DEF Run, After, Inv, TypeOK, Periods, flags, timing, callers, ghosts
  <1>6. CASE Take("lockStep", "while")
    BY <1>1, <1>2, <1>6 DEF Take, Inv, TypeOK, Periods, flags, timing, callers, ghosts
  <1>7. CASE Take("lockLoop", "locked")
    BY <1>1, <1>2, <1>7 DEF Take, Inv, TypeOK, Periods, flags, timing, callers, ghosts
  <1>8. CASE StepBegin
    <2>1. /\ active' \in BOOLEAN /\ running' \in BOOLEAN /\ prepareForExit' \in BOOLEAN
          /\ hooked' \in BOOLEAN /\ owed' \in BOOLEAN
      BY <1>8, Zenon DEF StepBegin, Inv, TypeOK, flags, ghosts
    <2>2. inloop' <=> at' = "loop"
      BY <1>8 DEF StepBegin, After, UserCode, Inv, TypeOK, flags
    <2>3. inloop' \in BOOLEAN
      BY <1>8, Zenon DEF StepBegin, Inv, TypeOK, flags
    <2> QED
      BY <1>1, <1>2, <1>8, <2>1, <2>2, <2>3 DEF StepBegin, After, UserCode, Inv, TypeOK, Periods, timing, callers
  <1>9. CASE NewPeriod
    BY <1>1, <1>2, <1>9 DEF NewPeriod, After, UserCode, Inv, TypeOK, Periods, flags, timing, callers, ghosts
  <1>10. CASE WaitPeriod
    BY <1>1, <1>2, <1>10 DEF WaitPeriod, After, UserCode, Inv, TypeOK, Periods, flags, timing, callers, ghosts
  <1>11. CASE LoopBegin
    <2>1. /\ active' \in BOOLEAN /\ running' \in BOOLEAN /\ prepareForExit' \in BOOLEAN
          /\ hooked' \in BOOLEAN /\ owed' \in BOOLEAN
      BY <1>11, Zenon DEF LoopBegin, Inv, TypeOK, flags, ghosts
    <2>2. inloop' <=> at' = "loop"
      BY <1>11 DEF LoopBegin, After, UserCode, Inv, TypeOK, flags
    <2>3. inloop' \in BOOLEAN
      BY <1>11, Zenon DEF LoopBegin, Inv, TypeOK, flags
    <2> QED
      BY <1>1, <1>2, <1>11, <2>1, <2>2, <2>3 DEF LoopBegin, After, UserCode, Inv, TypeOK, Periods, timing, callers
  <1>12. CASE EmergencyStop
    <2>1. /\ active' \in BOOLEAN /\ running' \in BOOLEAN /\ prepareForExit' \in BOOLEAN
          /\ hooked' \in BOOLEAN /\ owed' \in BOOLEAN
      BY <1>12, Zenon DEF EmergencyStop, Inv, TypeOK, flags, ghosts
    <2>2. inloop' <=> at' = "loop"
      BY <1>12 DEF EmergencyStop, After, UserCode, Inv, TypeOK, flags
    <2>3. inloop' \in BOOLEAN
      BY <1>12, Zenon DEF EmergencyStop, Inv, TypeOK, flags
    <2> QED
      BY <1>1, <1>2, <1>12, <2>1, <2>2, <2>3 DEF EmergencyStop, After, UserCode, Inv, TypeOK, Periods, timing, callers
  <1>13. CASE EmergencyFinalize
    <2>1. /\ active' \in BOOLEAN /\ running' \in BOOLEAN /\ prepareForExit' \in BOOLEAN
          /\ hooked' \in BOOLEAN /\ owed' \in BOOLEAN
      BY <1>13, Zenon DEF EmergencyFinalize, Inv, TypeOK, flags, ghosts
    <2>2. inloop' <=> at' = "loop"
      BY <1>13 DEF EmergencyFinalize, After, UserCode, Inv, TypeOK, flags
    <2>3. inloop' \in BOOLEAN
      BY <1>13, Zenon DEF EmergencyFinalize, Inv, TypeOK, flags
    <2> QED
      BY <1>1, <1>2, <1>13, <2>1, <2>2, <2>3 DEF EmergencyFinalize, After, UserCode, Inv, TypeOK, Periods, timing, callers
  <1>14. CASE Recover
    BY <1>1, <1>2, <1>14 DEF Recover, After, UserCode, Inv, TypeOK, Periods, flags, timing, callers, ghosts
  <1>15. CASE StepEnd
    BY <1>1, <1>2, <1>15 DEF StepEnd, After, UserCode, Inv, TypeOK, Periods, flags, timing, callers, ghosts
  <1>16. CASE LoopEnd
    <2>1. /\ active' \in BOOLEAN /\ running' \in BOOLEAN /\ prepareForExit' \in BOOLEAN
          /\ hooked' \in BOOLEAN /\ owed' \in BOOLEAN
      BY <1>16, Zenon DEF LoopEnd, Inv, TypeOK, flags, ghosts
    <2>2. inloop' <=> at' = "loop"
      BY <1>16 DEF LoopEnd, After, UserCode, Inv, TypeOK, flags
    <2>3. inloop' \in BOOLEAN
      BY <1>16, Zenon DEF LoopEnd, Inv, TypeOK, flags
    <2> QED
      BY <1>1, <1>2, <1>16, <2>1, <2>2, <2>3 DEF LoopEnd, After, UserCode, Inv, TypeOK, Periods, timing, callers
  <1>17. CASE Throw
    <2>1. /\ active' \in BOOLEAN /\ running' \in BOOLEAN /\ prepareForExit' \in BOOLEAN
          /\ hooked' \in BOOLEAN /\ owed' \in BOOLEAN
      BY <1>17, Zenon DEF Throw, Inv, TypeOK, flags, ghosts
    <2>2. inloop' <=> at' = "loop"
      BY <1>17 DEF Throw, After, UserCode, Inv, TypeOK, flags
    <2>3. inloop' \in BOOLEAN
      BY <1>17, Zenon DEF Throw, Inv, TypeOK, flags
    <2> QED
      BY <1>1, <1>2, <1>17, <2>1, <2>2, <2>3 DEF Throw, After, UserCode, Inv, TypeOK, Periods, timing, callers
  <1> QED
    BY <1>3, <1>4, <1>5, <1>6, <1>7, <1>8, <1>9, <1>10, <1>11, <1>12, <1>13, <1>14, <1>15, <1>16, <1>17 DEF Thrd, ThreadStep

\* A call ends a step in a place of its operation.
LEMMA CallPlaces ==
    ASSUME NEW c \in Callers, Inv, CallStep(c) \/ TimeOut(c)
    PROVE  Locals' /\ Calls'
  <1>1. /\ UNCHANGED env /\ op \in [Callers -> Operations \cup {"none", "delete"}]
        /\ pc[c] # "idle" /\ op[c] \in env.calls[c] \cup {"delete"}
        /\ \A d \in Callers \ {c} : pc'[d] = pc[d] /\ op'[d] = op[d]
        /\ op'[c] = op[c] \/ (op[c] = "destroy" /\ op'[c] = "delete")
    <2>1. /\ UNCHANGED env /\ pc[c] # "idle"
          /\ \A d \in Callers \ {c} : pc'[d] = pc[d] /\ op'[d] = op[d]
      BY CallLeaves
    <2>2. op' = op \/ (op[c] = "destroy" /\ op' = [op EXCEPT ![c] = "delete"])
      BY CallLeaves
    <2> QED
      BY <2>1, <2>2 DEF Inv, Calls, TypeOK
  <1>2. SUFFICES /\ Locals'
                 /\ pc'[c] \in {"start", "makePeriodic", "again"} \cup Starting => op'[c] \in {"start", "trigger"}
                 /\ pc'[c] = "trigger" => op'[c] = "trigger"
                 /\ pc'[c] \in {"stop", "deactivate"} \cup Stopping => op'[c] \in {"stop", "destroy", "delete"}
                 /\ pc'[c] \in {"setPeriod", "switch"} => op'[c] = "setPeriod"
                 /\ pc'[c] = "destroy" => op'[c] = "destroy"
                 /\ pc'[c] \in {"delete", "join", "gone"} => op'[c] = "delete"
                 /\ pc'[c] = "signal" => op'[c] # "destroy"
                 /\ op'[c] \in {"destroy", "delete"} => c = Owner /\ pc'[c] \in Ending
    BY <1>1 DEF Inv, Calls
  <1>3. CASE Start(c)
    BY <1>3, <1>1 DEF Start, Return, Goto, Inv, Locals, Calls, TypeOK, Starting, Stopping, Ending, timing, Periods
  <1>4. CASE Activate(c)
    BY <1>4, <1>1 DEF Activate, Goto, Inv, Locals, Calls, TypeOK, Starting, Stopping, Ending, timing, Periods
  <1>5. CASE Initialize(c)
    BY <1>5, <1>1 DEF Initialize, Return, Goto, Inv, Locals, Calls, TypeOK, Starting, Stopping, Ending, timing, Periods
  <1>6. CASE Started(c)
    BY <1>6, <1>1 DEF Started, Goto, Inv, Locals, Calls, TypeOK, Starting, Stopping, Ending, timing, Periods
  <1>7. CASE MakePeriodic(c)
    BY <1>7, <1>1 DEF MakePeriodic, Goto, Inv, Locals, Calls, TypeOK, Starting, Stopping, Ending, timing, Periods
  <1>8. CASE Again(c)
    BY <1>8, <1>1 DEF Again, Return, Goto, Inv, Locals, Calls, TypeOK, Starting, Stopping, Ending, timing, Periods
  <1>9. CASE Signal(c)
    BY <1>9, <1>1 DEF Signal, Return, Goto, Inv, Locals, Calls, TypeOK, Starting, Stopping, Ending, timing, Periods
  <1>10. CASE Trigger(c)
    BY <1>10, <1>1 DEF Trigger, Return, Goto, Inv, Locals, Calls, TypeOK, Starting, Stopping, Ending, timing, Periods
  <1>11. CASE Stop(c)
    BY <1>11, <1>1 DEF Stop, Return, Goto, Inv, Locals, Calls, TypeOK, Starting, Stopping, Ending, timing, Periods
  <1>12. CASE BreakLoop(c)
    BY <1>12, <1>1 DEF BreakLoop, Return, Goto, Inv, Locals, Calls, TypeOK, Starting, Stopping, Ending, timing, Periods
  <1>13. CASE Lock(c)
    BY <1>13, <1>1 DEF Lock, Goto, Inv, Locals, Calls, TypeOK, Starting, Stopping, Ending, timing, Periods
  <1>14. CASE GiveUp(c)
    BY <1>14, <1>1 DEF GiveUp, Return, Goto, Inv, Locals, Calls, TypeOK, Starting, Stopping, Ending, timing, Periods
  <1>15. CASE FinalizeBegin(c)
    BY <1>15, <1>1 DEF FinalizeBegin, Goto, Inv, Locals, Calls, TypeOK, Starting, Stopping, Ending, timing, Periods
  <1>16. CASE Deactivate(c)
    BY <1>16, <1>1 DEF Deactivate, Return, Goto, Inv, Locals, Calls, TypeOK, Starting, Stopping, Ending, timing, Periods
  <1>17. CASE SetPeriod(c)
    BY <1>17, <1>1 DEF SetPeriod, Return, Goto, Inv, Locals, Calls, TypeOK, Starting, Stopping, Ending, timing, Periods
  <1>18. CASE Switch(c)
    BY <1>18, <1>1 DEF Switch, Return, Goto, Inv, Locals, Calls, TypeOK, Starting, Stopping, Ending, timing, Periods
  <1>19. CASE Destroy(c)
    BY <1>19, <1>1 DEF Destroy, Goto, Inv, Locals, Calls, TypeOK, Starting, Stopping, Ending, timing, Periods
  <1>20. CASE Terminate(c)
    BY <1>20, <1>1 DEF Terminate, Goto, Inv, Locals, Calls, TypeOK, Starting, Stopping, Ending, timing, Periods
  <1>21. CASE Join(c)
    BY <1>21, <1>1 DEF Join, Goto, Inv, Locals, Calls, TypeOK, Starting, Stopping, Ending, timing, Periods
  <1>22. CASE TimeOut(c)
    BY <1>22, <1>1 DEF TimeOut, Goto, Inv, Locals, Calls, TypeOK, Starting, Stopping, Ending, timing, Periods
  <1> QED
    BY <1>3, <1>4, <1>5, <1>6, <1>7, <1>8, <1>9, <1>10, <1>11, <1>12, <1>13, <1>14, <1>15, <1>16, <1>17, <1>18, <1>19, <1>20, <1>21, <1>22 DEF CallStep

\* The calls that may still signal the thread are finitely many.
LEMMA PendingFinite ==
    /\ IsFiniteSet(Pending) /\ Cardinality(Pending) \in Nat
    /\ IsFiniteSet(Pending') /\ Cardinality(Pending') \in Nat
  <1>1. Pending \subseteq Callers /\ Pending' \subseteq Callers
    BY DEF Pending
  <1> QED
    BY <1>1, Cast, FS_Subset, FS_CardinalityType

\* A call signals the thread as its last step, or as its last but one.
LEMMA CallBounded ==
    ASSUME NEW c \in Callers, Inv, CallStep(c) \/ TimeOut(c)
    PROVE  Bounded' /\ sem' \in 0 .. MaxSignals
  <1>1. /\ \A d \in Callers \ {c} : pc'[d] = pc[d]
        /\ pc[c] # "idle"
    BY CallLeaves
  <1>2. CASE Signal(c)
    <2>1. c \in Pending /\ c \notin Pending' /\ sem' = sem + 1
      BY <1>2 DEF Signal, Goto, Return, Pending, Inv, Locals, Calls
    <2>2. Pending' \subseteq Pending \ {c}
      BY <1>1, <2>1 DEF Pending
    <2>3. Cardinality(Pending') <= Cardinality(Pending) - 1
      BY <2>1, <2>2, PendingFinite, FS_Subset, FS_RemoveElement
    <2> QED
      BY <2>1, <2>3, PendingFinite DEF Inv, Bounded, TypeOK
  <1>3. ASSUME ~Signal(c) PROVE sem' = sem /\ (c \in Pending' => c \in Pending)
    <2>1. CASE Start(c)
      BY <2>1, <1>1, <1>3 DEF Start, Return, Goto, Inv, Locals, Pending
    <2>2. CASE Activate(c)
      BY <2>2, <1>1, <1>3 DEF Activate, Goto, Inv, Locals, Pending
    <2>3. CASE Initialize(c)
      BY <2>3, <1>1, <1>3 DEF Initialize, Return, Goto, Inv, Locals, Pending
    <2>4. CASE Started(c)
      BY <2>4, <1>1, <1>3 DEF Started, Goto, Inv, Locals, Pending
    <2>5. CASE MakePeriodic(c)
      BY <2>5, <1>1, <1>3 DEF MakePeriodic, Goto, Inv, Locals, Pending
    <2>6. CASE Again(c)
      BY <2>6, <1>1, <1>3 DEF Again, Return, Goto, Inv, Locals, Pending
    <2>7. CASE Signal(c)
      BY <2>7, <1>3
    <2>8. CASE Trigger(c)
      BY <2>8, <1>1, <1>3 DEF Trigger, Return, Goto, Inv, Locals, Pending
    <2>9. CASE Stop(c)
      BY <2>9, <1>1, <1>3 DEF Stop, Return, Goto, Inv, Locals, Pending
    <2>10. CASE BreakLoop(c)
      BY <2>10, <1>1, <1>3 DEF BreakLoop, Return, Goto, Inv, Locals, Pending
    <2>11. CASE Lock(c)
      BY <2>11, <1>1, <1>3 DEF Lock, Goto, Inv, Locals, Pending
    <2>12. CASE GiveUp(c)
      BY <2>12, <1>1, <1>3 DEF GiveUp, Return, Goto, Inv, Locals, Pending
    <2>13. CASE FinalizeBegin(c)
      BY <2>13, <1>1, <1>3 DEF FinalizeBegin, Goto, Inv, Locals, Pending
    <2>14. CASE Deactivate(c)
      BY <2>14, <1>1, <1>3 DEF Deactivate, Return, Goto, Inv, Locals, Pending
    <2>15. CASE SetPeriod(c)
      BY <2>15, <1>1, <1>3 DEF SetPeriod, Return, Goto, Inv, Locals, Pending
    <2>16. CASE Switch(c)
      BY <2>16, <1>1, <1>3 DEF Switch, Return, Goto, Inv, Locals, Pending
    <2>17. CASE Destroy(c)
      BY <2>17, <1>1, <1>3 DEF Destroy, Goto, Inv, Locals, Pending
    <2>18. CASE Terminate(c)
      BY <2>18, <1>1, <1>3 DEF Terminate, Goto, Inv, Locals, Pending
    <2>19. CASE Join(c)
      BY <2>19, <1>1, <1>3 DEF Join, Goto, Inv, Locals, Pending
    <2>20. CASE TimeOut(c)
      BY <2>20, <1>1, <1>3 DEF TimeOut, Goto, Inv, Locals, Pending
    <2> QED
      BY <2>1, <2>2, <2>3, <2>4, <2>5, <2>6, <2>7, <2>8, <2>9, <2>10, <2>11, <2>12, <2>13, <2>14, <2>15, <2>16, <2>17, <2>18, <2>19, <2>20 DEF CallStep
  <1>4. CASE ~Signal(c)
    <2>1. Pending' \subseteq Pending
      BY <1>1, <1>3, <1>4 DEF Pending
    <2>2. Cardinality(Pending') <= Cardinality(Pending)
      BY <2>1, PendingFinite, FS_Subset
    <2> QED
      BY <1>3, <1>4, <2>2, PendingFinite DEF Inv, Bounded, TypeOK
  <1> QED
    BY <1>2, <1>4

\* What a call stores has the type of what it stores it in.
LEMMA CallTypes ==
    ASSUME NEW c \in Callers, Inv, CallStep(c) \/ TimeOut(c)
    PROVE  TypeOK'
  <1>1. UNCHANGED <<env, inloop, cur_period, overruns, breaker, at>>
    BY CallLeaves
  <1>2. op' = op \/ op' = [op EXCEPT ![c] = "delete"]
    BY CallLeaves
  <1>3. sem' \in 0 .. MaxSignals
    BY CallBounded
  <1>4. /\ env \in Environments /\ arg[c] \in Periods \cup {0}
        /\ op' \in [Callers -> Operations \cup {"none", "delete"}]
    BY <1>2 DEF Inv, TypeOK, Locals
  <1>5. /\ period' \in Periods \cup {0} /\ task_period' \in Periods \cup {0}
        /\ active' \in BOOLEAN /\ running' \in BOOLEAN /\ prepareForExit' \in BOOLEAN
        /\ hooked' \in BOOLEAN /\ owed' \in BOOLEAN
    <2>1. /\ period' \in {period, arg[c]} /\ task_period' \in {task_period, period, arg[c], 0}
      <3>1. CASE Start(c)
        BY <3>1 DEF Start, Return, Goto, timing
      <3>2. CASE Activate(c)
        BY <3>2 DEF Activate, Goto, timing
      <3>3. CASE Initialize(c)
        BY <3>3 DEF Initialize, Return, Goto, timing
      <3>4. CASE Started(c)
        BY <3>4 DEF Started, Goto, timing
      <3>5. CASE MakePeriodic(c)
        BY <3>5 DEF MakePeriodic, Goto, timing
      <3>6. CASE Again(c)
        BY <3>6 DEF Again, Return, Goto, timing
      <3>7. CASE Signal(c)
        BY <3>7 DEF Signal, Return, Goto, timing
      <3>8. CASE Trigger(c)
        BY <3>8 DEF Trigger, Return, Goto, timing
      <3>9. CASE Stop(c)
        BY <3>9 DEF Stop, Return, Goto, timing
      <3>10. CASE BreakLoop(c)
        BY <3>10 DEF BreakLoop, Return, Goto, timing
      <3>11. CASE Lock(c)
        BY <3>11 DEF Lock, Goto, timing
      <3>12. CASE GiveUp(c)
        BY <3>12 DEF GiveUp, Return, Goto, timing
      <3>13. CASE FinalizeBegin(c)
        BY <3>13 DEF FinalizeBegin, Goto, timing
      <3>14. CASE Deactivate(c)
        BY <3>14 DEF Deactivate, Return, Goto, timing
      <3>15. CASE SetPeriod(c)
        BY <3>15 DEF SetPeriod, Return, Goto, timing
      <3>16. CASE Switch(c)
        BY <3>16 DEF Switch, Return, Goto, timing
      <3>17. CASE Destroy(c)
        BY <3>17 DEF Destroy, Goto, timing
      <3>18. CASE Terminate(c)
        BY <3>18 DEF Terminate, Goto, timing
      <3>19. CASE Join(c)
        BY <3>19 DEF Join, Goto, timing
      <3>20. CASE TimeOut(c)
        BY <3>20 DEF TimeOut, Goto, timing
      <3> QED
        BY <3>1, <3>2, <3>3, <3>4, <3>5, <3>6, <3>7, <3>8, <3>9, <3>10, <3>11, <3>12, <3>13, <3>14, <3>15, <3>16, <3>17, <3>18, <3>19, <3>20 DEF CallStep
    <2>2. /\ active' \in {active, TRUE, FALSE} /\ running' \in {running, TRUE, FALSE}
          /\ prepareForExit' \in {prepareForExit, TRUE} /\ hooked' \in {hooked, TRUE, FALSE}
          /\ owed' \in {owed, TRUE, FALSE}
      <3>1. CASE Start(c)
        BY <3>1, Zenon DEF Start, flags, ghosts
      <3>2. CASE Activate(c)
        BY <3>2, Zenon DEF Activate, flags, ghosts
      <3>3. CASE Initialize(c)
        BY <3>3, Zenon DEF Initialize, flags, ghosts
      <3>4. CASE Started(c)
        BY <3>4, Zenon DEF Started, flags, ghosts
      <3>5. CASE MakePeriodic(c)
        BY <3>5, Zenon DEF MakePeriodic, flags, ghosts
      <3>6. CASE Again(c)
        BY <3>6, Zenon DEF Again, flags, ghosts
      <3>7. CASE Signal(c)
        BY <3>7, Zenon DEF Signal, flags, ghosts
      <3>8. CASE Trigger(c)
        BY <3>8, Zenon DEF Trigger, flags, ghosts
      <3>9. CASE Stop(c)
        BY <3>9, Zenon DEF Stop, flags, ghosts
      <3>10. CASE BreakLoop(c)
        BY <3>10, Zenon DEF BreakLoop, flags, ghosts
      <3>11. CASE Lock(c)
        BY <3>11, Zenon DEF Lock, flags, ghosts
      <3>12. CASE GiveUp(c)
        BY <3>12, Zenon DEF GiveUp, flags, ghosts
      <3>13. CASE FinalizeBegin(c)
        BY <3>13, Zenon DEF FinalizeBegin, flags, ghosts
      <3>14. CASE Deactivate(c)
        BY <3>14, Zenon DEF Deactivate, flags, ghosts
      <3>15. CASE SetPeriod(c)
        BY <3>15, Zenon DEF SetPeriod, flags, ghosts
      <3>16. CASE Switch(c)
        BY <3>16, Zenon DEF Switch, flags, ghosts
      <3>17. CASE Destroy(c)
        BY <3>17, Zenon DEF Destroy, flags, ghosts
      <3>18. CASE Terminate(c)
        BY <3>18, Zenon DEF Terminate, flags, ghosts
      <3>19. CASE Join(c)
        BY <3>19, Zenon DEF Join, flags, ghosts
      <3>20. CASE TimeOut(c)
        BY <3>20, Zenon DEF TimeOut, flags, ghosts
      <3> QED
        BY <3>1, <3>2, <3>3, <3>4, <3>5, <3>6, <3>7, <3>8, <3>9, <3>10, <3>11, <3>12, <3>13, <3>14, <3>15, <3>16, <3>17, <3>18, <3>19, <3>20 DEF CallStep
    <2>3. /\ period \in Periods \cup {0} /\ task_period \in Periods \cup {0}
          /\ active \in BOOLEAN /\ running \in BOOLEAN /\ prepareForExit \in BOOLEAN
          /\ hooked \in BOOLEAN /\ owed \in BOOLEAN
      BY DEF Inv, TypeOK
    <2>4. period' \in Periods \cup {0} /\ task_period' \in Periods \cup {0}
      BY <1>4, <2>1, <2>3
    <2>5. \A a \in BOOLEAN : \A b \in {a, TRUE, FALSE} : b \in BOOLEAN
      OBVIOUS
    <2> QED
      BY <2>2, <2>3, <2>4, <2>5
  <1> QED
    BY <1>1, <1>3, <1>4, <1>5 DEF Inv, TypeOK, Periods

\* A call begins when it may signal the thread once more, at the first place of its operation.
LEMMA BeginInv ==
    ASSUME NEW c \in Callers, NEW o \in Operations,
           NEW a \in IF o = "setPeriod" THEN env.periods ELSE {0}, Inv, Begin(c, o, a)
    PROVE  Inv'
  <1>1. /\ IsEnvironment(env) /\ o \in env.calls[c] /\ pc[c] = "idle" /\ Alive
        /\ UNCHANGED <<env, flags, timing, sem, breaker, at, ghosts>>
        /\ op' = [op EXCEPT ![c] = o] /\ arg' = [arg EXCEPT ![c] = a]
    BY DEF Begin, MayBegin, Inv, TypeOK
  <1>2. PICK place \in Operations \cup {"signal"} :
           /\ pc' = [pc EXCEPT ![c] = place]
           /\ place = IF o = "setScheduler" THEN "signal" ELSE IF o = "destroy" THEN "stop" ELSE o
    BY DEF Begin, Operations
  <1>3. o = "destroy" => c = Owner
    BY <1>1 DEF IsEnvironment
  <1>4. TypeOK'
    BY <1>1 DEF Inv, TypeOK, Periods, flags, timing, ghosts
  <1>5. Locals'
    BY <1>1, <1>2 DEF Inv, Locals, Periods, Operations, Ending, flags, timing
  <1>6. Calls'
    <2>1. \A d \in Callers : pc'[d] = (IF d = c THEN place ELSE pc[d])
                             /\ op'[d] = (IF d = c THEN o ELSE op[d])
      BY <1>1, <1>2 DEF Inv, Locals, TypeOK
    <2>2. \A d \in Callers \ {c} : pc'[d] = pc[d] /\ op'[d] = op[d]
      BY <2>1
    <2>3. pc'[c] = place /\ op'[c] = o
      BY <2>1
    <2> QED
      BY <1>1, <1>2, <1>3, <2>2, <2>3 DEF Inv, Calls, Operations, Starting, Stopping, Ending
  <1>7. Bounded'
    <2> DEFINE N == {d \in Callers : pc[d] # "idle"}
    <2>1. N \subseteq Callers /\ Pending' \subseteq N \cup {c} /\ c \notin N
      BY <1>1, <1>2 DEF Pending, Inv, Locals
    <2>2. sem + Cardinality(N) < MaxSignals
      BY DEF Begin, MayBegin
    <2> HIDE DEF N
    <2>3. IsFiniteSet(N) /\ Cardinality(N) \in Nat
      BY <2>1, Cast, FS_Subset, FS_CardinalityType
    <2>4. IsFiniteSet(N \cup {c}) /\ Cardinality(N \cup {c}) = Cardinality(N) + 1
      BY <2>1, <2>3, FS_AddElement
    <2>5. Cardinality(Pending') <= Cardinality(N) + 1
      BY <2>1, <2>4, FS_Subset
    <2> QED
      BY <1>1, <2>2, <2>3, <2>5, PendingFinite DEF Bounded, Inv, TypeOK
  <1> QED
    BY <1>4, <1>5, <1>6, <1>7 DEF Inv

\* The thread changes no call.
LEMMA ThreadInv ==
    ASSUME Inv, Thrd
    PROVE  Inv'
  <1>1. UNCHANGED <<env, prepareForExit, period, pc, op, arg>> /\ sem' <= sem /\ TypeOK'
    BY ThreadLeaves, ThreadTypes
  <1>2. Locals' /\ Calls'
    BY <1>1 DEF Inv, Locals, Calls, Periods
  <1>3. Bounded'
    <2>1. Pending' = Pending
      BY <1>1 DEF Pending
    <2> QED
      BY <1>1, <2>1, PendingFinite DEF Inv, Bounded, TypeOK
  <1> QED
    BY <1>1, <1>2, <1>3 DEF Inv

LEMMA InitInv == Init => Inv
  <1> SUFFICES ASSUME Init PROVE Inv
    OBVIOUS
  <1>1. IsEnvironment(env)
    BY DEF Init
  <1>2. TypeOK
    <2>1. /\ active \in BOOLEAN /\ running \in BOOLEAN /\ inloop \in BOOLEAN
          /\ prepareForExit \in BOOLEAN /\ hooked \in BOOLEAN /\ owed \in BOOLEAN
      BY Zenon DEF Init
    <2>2. /\ env \in Environments /\ at = "check" /\ ~inloop /\ breaker = None
          /\ period = env.period /\ cur_period = env.period /\ task_period = env.period
          /\ overruns = 0 /\ sem = 0 /\ op = [c \in Callers |-> "none"]
      BY DEF Init
    <2> QED
      BY <2>1, <2>2 DEF TypeOK, Periods
  <1>3. Locals
    BY DEF Init, Locals
  <1>4. Calls
    BY DEF Init, Calls, Starting, Stopping, Ending
  <1>5. Pending = {}
    BY DEF Init, Pending
  <1> QED
    BY <1>2, <1>3, <1>4, <1>5, FS_EmptySet DEF Inv, Bounded, Init

LEMMA StepInv == Inv /\ [Next]_vars => Inv'
  <1> SUFFICES ASSUME Inv, [Next]_vars PROVE Inv'
    OBVIOUS
  <1>1. CASE Thrd
    BY <1>1, ThreadInv
  <1>2. ASSUME NEW c \in Callers, CallStep(c) \/ TimeOut(c) PROVE Inv'
    BY <1>2, CallPlaces, CallBounded, CallTypes DEF Inv
  <1>3. ASSUME NEW c \in Callers, NEW o \in Operations,
               NEW a \in IF o = "setPeriod" THEN env.periods ELSE {0}, Begin(c, o, a)
        PROVE  Inv'
    BY <1>3, BeginInv
  <1>4. CASE UNCHANGED vars
    BY <1>4 DEF Inv, TypeOK, Locals, Calls, Bounded, Pending, Periods,
                vars, flags, timing, callers, ghosts
  <1> QED
    BY <1>1, <1>2, <1>3, <1>4 DEF Next, Gone, Thrd

\* The thread and its clients are always where they may be, period and the period of the
\* operating system are among those they were given, and the semaphore stays below its bound.
THEOREM Types == Spec => []TypeOK
  <1>1. Inv => TypeOK
    BY DEF Inv
  <1> QED
    BY InitInv, StepInv, <1>1, PTL DEF Spec

-----------------------------------------------------------------------------
(***************************************************************************)
(* Which calls go together.                                                *)
(***************************************************************************)

\* A call does not bring a destroyed activity back, nor does it make one end.
LEMMA CallAlive ==
    ASSUME NEW c \in Callers, Inv, CallStep(c) \/ TimeOut(c)
    PROVE  /\ Alive' = Alive
           /\ prepareForExit' => prepareForExit \/ op[c] = "delete"
           /\ op[c] \in {"destroy", "delete"} => c = Owner
           /\ pc'[c] # "idle" => op'[c] = op[c] \/ (op[c] = "destroy" /\ op'[c] = "delete")
  <1>1. op' = op \/ (op[c] = "destroy" /\ op' = [op EXCEPT ![c] = "delete"])
    BY CallLeaves
  <1>2. op[c] \in {"destroy", "delete"} => c = Owner
    BY DEF Inv, Calls
  <1>3. op'[c] = op[c] \/ (op[c] = "destroy" /\ op'[c] = "delete")
    BY <1>1 DEF Inv, TypeOK
  <1>4. op'[Owner] = op[Owner] \/ (op[Owner] = "destroy" /\ op'[Owner] = "delete")
    BY <1>1, <1>2, Cast DEF Inv, TypeOK
  <1>5. prepareForExit' => prepareForExit \/ op[c] = "delete"
    <2>1. CASE Start(c)
      BY <2>1 DEF Start, flags
    <2>2. CASE Activate(c)
      BY <2>2 DEF Activate, flags
    <2>3. CASE Initialize(c)
      BY <2>3 DEF Initialize, flags
    <2>4. CASE Started(c)
      BY <2>4 DEF Started, flags
    <2>5. CASE MakePeriodic(c)
      BY <2>5 DEF MakePeriodic, flags
    <2>6. CASE Again(c)
      BY <2>6 DEF Again, flags
    <2>7. CASE Signal(c)
      BY <2>7 DEF Signal, flags
    <2>8. CASE Trigger(c)
      BY <2>8 DEF Trigger, flags
    <2>9. CASE Stop(c)
      BY <2>9 DEF Stop, flags
    <2>10. CASE BreakLoop(c)
      BY <2>10 DEF BreakLoop, flags
    <2>11. CASE Lock(c)
      BY <2>11 DEF Lock, flags
    <2>12. CASE GiveUp(c)
      BY <2>12 DEF GiveUp, flags
    <2>13. CASE FinalizeBegin(c)
      BY <2>13 DEF FinalizeBegin, flags
    <2>14. CASE Deactivate(c)
      BY <2>14 DEF Deactivate, flags
    <2>15. CASE SetPeriod(c)
      BY <2>15 DEF SetPeriod, flags
    <2>16. CASE Switch(c)
      BY <2>16 DEF Switch, flags
    <2>17. CASE Destroy(c)
      BY <2>17 DEF Destroy, flags
    <2>18. CASE Terminate(c)
      BY <2>18 DEF Terminate, Inv, Calls
    <2>19. CASE Join(c)
      BY <2>19 DEF Join, flags
    <2>20. CASE TimeOut(c)
      BY <2>20 DEF TimeOut, flags
    <2> QED
      BY <2>1, <2>2, <2>3, <2>4, <2>5, <2>6, <2>7, <2>8, <2>9, <2>10, <2>11, <2>12, <2>13, <2>14, <2>15, <2>16, <2>17, <2>18, <2>19, <2>20 DEF CallStep
  <1> QED
    BY <1>2, <1>3, <1>4, <1>5 DEF Alive

LEMMA UsersStep == Inv /\ Inv' /\ Users /\ [Next]_vars => Users'
  <1> SUFFICES ASSUME Inv, Inv', Users, [Next]_vars PROVE Users'
    OBVIOUS
  <1>1. CASE Thrd
    <2>1. UNCHANGED <<env, prepareForExit, pc, op>>
      BY <1>1, ThreadLeaves
    <2>2. UserCode => pc[Self] = "idle" \/ UserCode'
      BY <1>1 DEF Thrd, ThreadStep, Check, Wake, Run, Take, StepBegin, NewPeriod, WaitPeriod, LoopBegin,
                  EmergencyStop, EmergencyFinalize, Recover, StepEnd, LoopEnd, Throw, UserCode
    <2> QED
      BY <2>1, <2>2 DEF Users, Alive
  <1>2. ASSUME NEW c \in Callers, CallStep(c) \/ TimeOut(c) PROVE Users'
    <2>1. /\ at' = at /\ pc[c] # "idle"
          /\ \A d \in Callers \ {c} : pc'[d] = pc[d]
      BY <1>2, CallLeaves
    <2>2. /\ Alive' = Alive /\ (prepareForExit' => prepareForExit \/ op[c] = "delete")
          /\ op[c] \in {"destroy", "delete"} => c = Owner
      BY <1>2, CallAlive
    <2>3. ~Alive' => \A d \in Callers \ {Owner} : pc'[d] = "idle"
      BY <2>1, <2>2 DEF Users
    <2>4. pc'[Self] # "idle" => UserCode'
      BY <2>1, Cast DEF Users, UserCode
    <2>5. prepareForExit' => ~Alive'
      BY <2>2 DEF Users, Alive
    <2> QED
      BY <2>3, <2>4, <2>5 DEF Users
  <1>3. ASSUME NEW c \in Callers, NEW o \in Operations, NEW a, Begin(c, o, a)
        PROVE  Users'
    <2>1. /\ UNCHANGED <<at, prepareForExit, env>> /\ Alive /\ o \in env.calls[c]
          /\ op' = [op EXCEPT ![c] = o]
          /\ c = Self => UserCode
          /\ o = "destroy" => \A d \in Callers : pc[d] = "idle"
          /\ \A d \in Callers \ {c} : pc'[d] = pc[d]
      BY <1>3 DEF Begin, MayBegin, flags, Inv, Locals
    <2>2. o = "destroy" => c = Owner
      BY <2>1 DEF IsEnvironment, Inv, TypeOK
    <2>3. ~Alive' => o = "destroy"
      BY <2>1, Cast DEF Alive, Operations, Inv, TypeOK
    <2>4. ~Alive' => \A d \in Callers \ {Owner} : pc'[d] = "idle"
      BY <2>1, <2>2, <2>3
    <2>5. pc'[Self] # "idle" => UserCode'
      BY <2>1, Cast DEF Users, UserCode
    <2> QED
      BY <2>1, <2>4, <2>5 DEF Users
  <1>4. CASE UNCHANGED vars
    BY <1>4 DEF Users, Alive, UserCode, vars, flags, callers
  <1> QED
    BY <1>1, <1>2, <1>3, <1>4 DEF Next, Gone, Thrd

LEMMA ExcludedStep == Inv /\ Inv' /\ Excluded /\ [Next]_vars => Excluded'
  <1> SUFFICES ASSUME Inv, Inv', Excluded, [Next]_vars PROVE Excluded'
    OBVIOUS
  <1>1. CASE Thrd
    BY <1>1, ThreadLeaves DEF Excluded, Fault
  <1>2. ASSUME NEW c \in Callers, CallStep(c) \/ TimeOut(c) PROVE Excluded'
    <2>1. /\ env' = env /\ pc[c] # "idle"
          /\ \A d \in Callers \ {c} : pc'[d] = pc[d] /\ op'[d] = op[d]
      BY <1>2, CallLeaves
    <2>2. pc'[c] # "idle" => op'[c] = op[c] \/ op'[c] = "delete"
      BY <1>2, CallAlive
    <2> QED
      BY <2>1, <2>2 DEF Excluded, Fault, Conflict
  <1>3. ASSUME NEW c \in Callers, NEW o \in Operations, NEW a, Begin(c, o, a)
        PROVE  Excluded'
    <2>1. /\ env' = env
          /\ \A d \in Callers \ {c} : pc'[d] = pc[d] /\ op'[d] = op[d]
          /\ op'[c] = o
          /\ ~Fault("overlap") => \A d \in Callers : pc[d] # "idle" => ~Conflict(o, op[d])
      BY <1>3 DEF Begin, MayBegin, Inv, Locals, TypeOK
    <2>2. \A o1, o2 : Conflict(o1, o2) <=> Conflict(o2, o1)
      BY DEF Conflict
    <2> QED
      BY <2>1, <2>2 DEF Excluded, Fault
  <1>4. CASE UNCHANGED vars
    BY <1>4 DEF Excluded, Fault, vars, callers
  <1> QED
    BY <1>1, <1>2, <1>3, <1>4 DEF Next, Gone, Thrd

-----------------------------------------------------------------------------
(***************************************************************************)
(* Nothing makes the thread stop itself.                                   *)
(***************************************************************************)

\* While a stop() is under way nobody else starts or stops the activity.
LEMMA Exclusive ==
    ASSUME Inv, Users, Excluded, ~Fault("overlap"), NEW c \in Callers, NEW d \in Callers, c # d,
           pc[c] \in {"stop", "deactivate"} \cup Stopping
    PROVE  pc[d] \notin {"stop", "deactivate", "start", "makePeriodic", "again"} \cup Starting \cup Stopping
  <1>1. op[c] \in {"stop", "destroy", "delete"} /\ pc[c] # "idle"
    BY DEF Inv, Calls, Stopping
  <1>2. CASE op[c] = "stop"
    <2>1. ~Conflict("stop", op[d]) \/ pc[d] = "idle"
      BY <1>1, <1>2 DEF Excluded
    <2>2. op[d] \notin {"start", "trigger", "stop"} \/ pc[d] = "idle"
      BY <2>1 DEF Conflict
    <2>3. op[d] \in {"destroy", "delete"} => pc[c] = "idle"
      BY DEF Inv, Calls, Users, Alive
    <2> QED
      BY <1>1, <2>2, <2>3 DEF Inv, Calls, Starting, Stopping
  <1>3. CASE op[c] \in {"destroy", "delete"}
    BY <1>3 DEF Inv, Calls, Users, Alive, Starting, Stopping
  <1> QED
    BY <1>1, <1>2, <1>3

LEMMA CalmThread ==
    ASSUME Inv, CalmFacts, Calm(env), Thrd
    PROVE  CalmFacts'
  <1>1. UNCHANGED <<env, pc>>
    BY ThreadLeaves
  <1>2. ~Fault("throw") /\ ~Fault("overrun") /\ overruns # MaxOverrun
    BY DEF Calm, Fault, CalmFacts
  <1>3. /\ UNCHANGED <<active, running, hooked>>
        /\ overruns' = 0 /\ at' \notin {"emergency", "inactive", "finalize"}
        /\ at' = "step" => running \/ at = "step"
    <2>1. CASE Check
      BY <1>2, <2>1 DEF Check, After, CalmFacts, Inv, TypeOK, flags, timing, ghosts
    <2>2. CASE Wake
      BY <1>2, <2>2 DEF Wake, After, CalmFacts, Inv, TypeOK, flags, timing, ghosts
    <2>3. CASE Run
      BY <1>2, <2>3 DEF Run, After, CalmFacts, Inv, TypeOK, flags, timing, ghosts
    <2>4. CASE Take("lockStep", "while")
      BY <1>2, <2>4 DEF Take, After, CalmFacts, Inv, TypeOK, flags, timing, ghosts
    <2>5. CASE Take("lockLoop", "locked")
      BY <1>2, <2>5 DEF Take, After, CalmFacts, Inv, TypeOK, flags, timing, ghosts
    <2>6. CASE StepBegin
      BY <1>2, <2>6 DEF StepBegin, After, CalmFacts, Inv, TypeOK, flags, timing, ghosts
    <2>7. CASE NewPeriod
      BY <1>2, <2>7 DEF NewPeriod, After, CalmFacts, Inv, TypeOK, flags, timing, ghosts
    <2>8. CASE WaitPeriod
      BY <1>2, <2>8 DEF WaitPeriod, After, CalmFacts, Inv, TypeOK, flags, timing, ghosts
    <2>9. CASE LoopBegin
      BY <1>2, <2>9 DEF LoopBegin, After, CalmFacts, Inv, TypeOK, flags, timing, ghosts
    <2>10. CASE EmergencyStop
      BY <1>2, <2>10 DEF EmergencyStop, After, CalmFacts, Inv, TypeOK, flags, timing, ghosts
    <2>11. CASE EmergencyFinalize
      BY <1>2, <2>11 DEF EmergencyFinalize, After, CalmFacts, Inv, TypeOK, flags, timing, ghosts
    <2>12. CASE Recover
      BY <1>2, <2>12 DEF Recover, After, CalmFacts, Inv, TypeOK, flags, timing, ghosts
    <2>13. CASE StepEnd
      BY <1>2, <2>13 DEF StepEnd, After, CalmFacts, Inv, TypeOK, flags, timing, ghosts
    <2>14. CASE LoopEnd
      BY <1>2, <2>14 DEF LoopEnd, After, CalmFacts, Inv, TypeOK, flags, timing, ghosts
    <2>15. CASE Throw
      BY <1>2, <2>15 DEF Throw, After, CalmFacts, Inv, TypeOK, flags, timing, ghosts
    <2> QED
      BY <2>1, <2>2, <2>3, <2>4, <2>5, <2>6, <2>7, <2>8, <2>9, <2>10, <2>11, <2>12, <2>13, <2>14, <2>15 DEF Thrd, ThreadStep
  <1>4. \A c \in Callers : pc[c] = "finalize" => ~running
    BY DEF CalmFacts, Stopping
  <1> QED
    BY <1>1, <1>3, <1>4 DEF CalmFacts

LEMMA CalmCall ==
    ASSUME Inv, Users, Excluded, ~Fault("overlap"), CalmFacts,
           NEW c \in Callers, CallStep(c) \/ TimeOut(c)
    PROVE  CalmFacts'
  <1>1. /\ UNCHANGED <<env, overruns, at>>
        /\ \A d \in Callers \ {c} : pc'[d] = pc[d]
    BY CallLeaves
  <1>2. ASSUME NEW d \in Callers \ {c}
        PROVE  /\ pc[c] \in {"stop", "deactivate"} \cup Stopping =>
                      pc[d] \notin {"deactivate"} \cup Starting \cup Stopping
               /\ pc[c] \in {"start"} \cup Starting => pc[d] \notin {"deactivate"} \cup Stopping
    BY Exclusive DEF Starting, Stopping
  <1>3. CASE Start(c)
    BY <1>3, <1>1, <1>2 DEF Start, Return, Goto, Inv, Locals, CalmFacts, Starting, Stopping, flags, ghosts
  <1>4. CASE Activate(c)
    BY <1>4, <1>1, <1>2 DEF Activate, Goto, Inv, Locals, CalmFacts, Starting, Stopping, flags, ghosts
  <1>5. CASE Initialize(c)
    BY <1>5, <1>1, <1>2 DEF Initialize, Return, Goto, Inv, Locals, CalmFacts, Starting, Stopping, flags, ghosts
  <1>6. CASE Started(c)
    BY <1>6, <1>1, <1>2 DEF Started, Goto, Inv, Locals, CalmFacts, Starting, Stopping, flags, ghosts
  <1>7. CASE MakePeriodic(c)
    BY <1>7, <1>1, <1>2 DEF MakePeriodic, Goto, Inv, Locals, CalmFacts, Starting, Stopping, flags, ghosts
  <1>8. CASE Again(c)
    BY <1>8, <1>1, <1>2 DEF Again, Return, Goto, Inv, Locals, CalmFacts, Starting, Stopping, flags, ghosts
  <1>9. CASE Signal(c)
    BY <1>9, <1>1, <1>2 DEF Signal, Return, Goto, Inv, Locals, CalmFacts, Starting, Stopping, flags, ghosts
  <1>10. CASE Trigger(c)
    BY <1>10, <1>1, <1>2 DEF Trigger, Return, Goto, Inv, Locals, CalmFacts, Starting, Stopping, flags, ghosts
  <1>11. CASE Stop(c)
    BY <1>11, <1>1, <1>2 DEF Stop, Return, Goto, Inv, Locals, CalmFacts, Starting, Stopping, flags, ghosts
  <1>12. CASE BreakLoop(c)
    BY <1>12, <1>1, <1>2 DEF BreakLoop, Return, Goto, Inv, Locals, CalmFacts, Starting, Stopping, flags, ghosts
  <1>13. CASE Lock(c)
    BY <1>13, <1>1, <1>2, Cast DEF Lock, Goto, TypeOK, Inv, Locals, CalmFacts, Starting, Stopping, flags, ghosts
  <1>14. CASE GiveUp(c)
    BY <1>14, <1>1, <1>2 DEF GiveUp, Return, Goto, Inv, Locals, CalmFacts, Starting, Stopping, flags, ghosts
  <1>15. CASE FinalizeBegin(c)
    BY <1>15, <1>1, <1>2 DEF FinalizeBegin, Goto, Inv, Locals, CalmFacts, Starting, Stopping, flags, ghosts
  <1>16. CASE Deactivate(c)
    BY <1>16, <1>1, <1>2 DEF Deactivate, Return, Goto, Inv, Locals, CalmFacts, Starting, Stopping, flags, ghosts
  <1>17. CASE SetPeriod(c)
    BY <1>17, <1>1, <1>2 DEF SetPeriod, Return, Goto, Inv, Locals, CalmFacts, Starting, Stopping, flags, ghosts
  <1>18. CASE Switch(c)
    BY <1>18, <1>1, <1>2 DEF Switch, Return, Goto, Inv, Locals, CalmFacts, Starting, Stopping, flags, ghosts
  <1>19. CASE Destroy(c)
    BY <1>19, <1>1, <1>2 DEF Destroy, Goto, Inv, Locals, CalmFacts, Starting, Stopping, flags, ghosts
  <1>20. CASE Terminate(c)
    BY <1>20, <1>1, <1>2 DEF Terminate, Goto, Inv, Locals, CalmFacts, Starting, Stopping, flags, ghosts
  <1>21. CASE Join(c)
    BY <1>21, <1>1, <1>2 DEF Join, Goto, Inv, Locals, CalmFacts, Starting, Stopping, flags, ghosts
  <1>22. CASE TimeOut(c)
    BY <1>22, <1>1, <1>2 DEF TimeOut, Goto, Inv, Locals, CalmFacts, Starting, Stopping, flags, ghosts
  <1> QED
    BY <1>3, <1>4, <1>5, <1>6, <1>7, <1>8, <1>9, <1>10, <1>11, <1>12, <1>13, <1>14, <1>15, <1>16, <1>17, <1>18, <1>19, <1>20, <1>21, <1>22 DEF CallStep

LEMMA CalmBegin ==
    ASSUME Inv, CalmFacts, NEW c \in Callers, NEW o \in Operations, NEW a, Begin(c, o, a)
    PROVE  CalmFacts'
  <1>1. UNCHANGED <<overruns, at, active, running, hooked>> /\ pc[c] = "idle"
    BY DEF Begin, MayBegin, flags, timing, ghosts
  <1>2. /\ \A d \in Callers \ {c} : pc'[d] = pc[d]
        /\ pc'[c] \in Operations \cup {"signal"}
    BY DEF Begin, Operations, Inv, Locals
  <1>3. \A d \in Callers : pc'[d] = pc[d] \/ pc'[d] \notin {"initialize", "deactivate", "run"} \cup Stopping
    BY <1>2 DEF Operations, Stopping
  <1>4. \A d \in Callers : pc[d] \in {"initialize", "deactivate"} => pc'[d] = pc[d]
    BY <1>1, <1>2
  <1> QED
    BY <1>1, <1>3, <1>4 DEF CalmFacts, Stopping

-----------------------------------------------------------------------------
(***************************************************************************)
(* The thread may stop itself and nobody else stops it.                    *)
(***************************************************************************)

LEMMA AloneThread ==
    ASSUME Inv, Users, AloneFacts, Thrd
    PROVE  AloneFacts'
  <1>1. UNCHANGED <<env, prepareForExit, period, pc, op>> /\ Alive' = Alive
    BY ThreadLeaves DEF Alive
  <1>2. /\ prepareForExit => ~Alive
        /\ pc[Owner] \in Starting => Alive
        /\ \A c \in Callers : pc[c] = "finalize" => ~running
    BY Cast DEF Users, Inv, Calls, Alive, AloneFacts, Stopping
  <1>3. CASE Check
    BY <1>1, <1>2, <1>3 DEF Check, After, UserCode, AloneFacts, Starting, Busy, Periodic, flags, timing, ghosts
  <1>4. CASE Wake
    BY <1>1, <1>2, <1>4 DEF Wake, After, UserCode, AloneFacts, Starting, Busy, Periodic, flags, timing, ghosts
  <1>5. CASE Run
    BY <1>1, <1>2, <1>5 DEF Run, After, UserCode, AloneFacts, Starting, Busy, Periodic, flags, timing, ghosts
  <1>6. CASE Take("lockStep", "while")
    BY <1>1, <1>2, <1>6 DEF Take, After, UserCode, AloneFacts, Starting, Busy, Periodic, flags, timing, ghosts
  <1>7. CASE Take("lockLoop", "locked")
    BY <1>1, <1>2, <1>7 DEF Take, After, UserCode, AloneFacts, Starting, Busy, Periodic, flags, timing, ghosts
  <1>8. CASE StepBegin
    BY <1>1, <1>2, <1>8 DEF StepBegin, After, UserCode, AloneFacts, Starting, Busy, Periodic, flags, timing, ghosts
  <1>9. CASE NewPeriod
    BY <1>1, <1>2, <1>9 DEF NewPeriod, After, UserCode, AloneFacts, Starting, Busy, Periodic, flags, timing, ghosts
  <1>10. CASE WaitPeriod
    BY <1>1, <1>2, <1>10 DEF WaitPeriod, After, UserCode, AloneFacts, Starting, Busy, Periodic, flags, timing, ghosts
  <1>11. CASE LoopBegin
    BY <1>1, <1>2, <1>11 DEF LoopBegin, After, UserCode, AloneFacts, Starting, Busy, Periodic, flags, timing, ghosts
  <1>12. CASE EmergencyStop
    BY <1>1, <1>2, <1>12 DEF EmergencyStop, After, UserCode, AloneFacts, Starting, Busy, Periodic, flags, timing, ghosts
  <1>13. CASE EmergencyFinalize
    BY <1>1, <1>2, <1>13 DEF EmergencyFinalize, After, UserCode, AloneFacts, Starting, Busy, Periodic, flags, timing, ghosts
  <1>14. CASE Recover
    BY <1>1, <1>2, <1>14 DEF Recover, After, UserCode, AloneFacts, Starting, Busy, Periodic, flags, timing, ghosts
  <1>15. CASE StepEnd
    BY <1>1, <1>2, <1>15 DEF StepEnd, After, UserCode, AloneFacts, Starting, Busy, Periodic, flags, timing, ghosts
  <1>16. CASE LoopEnd
    BY <1>1, <1>2, <1>16 DEF LoopEnd, After, UserCode, AloneFacts, Starting, Busy, Periodic, flags, timing, ghosts
  <1>17. CASE Throw
    BY <1>1, <1>2, <1>17 DEF Throw, After, UserCode, AloneFacts, Starting, Busy, Periodic, flags, timing, ghosts
  <1> QED
    BY <1>3, <1>4, <1>5, <1>6, <1>7, <1>8, <1>9, <1>10, <1>11, <1>12, <1>13, <1>14, <1>15, <1>16, <1>17 DEF Thrd, ThreadStep

\* Who starts the activity, and who stops it.
LEMMA AloneCallers ==
    ASSUME Inv, Users, Alone(env), NEW c \in Callers
    PROVE  /\ pc[c] \in {"start"} \cup Starting => Alive /\ (c = Owner \/ (c = Self /\ UserCode))
           /\ pc[c] \in {"stop", "deactivate"} \cup Stopping => c = Owner /\ ~Alive
           /\ pc[c] \in {"setPeriod", "switch"} => Alive
  <1>1. pc[c] # "idle" => op[c] # "stop" /\ (op[c] \in {"start", "trigger"} => c \notin Others)
    BY DEF Inv, Calls, Alone
  <1>2. pc[c] # "idle" /\ op[c] \notin {"destroy", "delete"} => Alive
    BY Cast DEF Inv, Calls, Users, Alive
  <1>3. op[c] \in {"destroy", "delete"} => c = Owner /\ ~Alive
    BY DEF Inv, Calls, Alive
  <1>4. pc[c] \in {"start"} \cup Starting => pc[c] # "idle" /\ op[c] \in {"start", "trigger"}
    BY DEF Inv, Calls, Starting
  <1>5. pc[c] \in {"stop", "deactivate"} \cup Stopping =>
            pc[c] # "idle" /\ op[c] \in {"stop", "destroy", "delete"}
    BY DEF Inv, Calls, Stopping
  <1>6. pc[c] \in {"setPeriod", "switch"} => pc[c] # "idle" /\ op[c] = "setPeriod"
    BY DEF Inv, Calls
  <1>7. c = Self /\ pc[c] # "idle" => UserCode
    BY DEF Users
  <1> QED
    BY <1>1, <1>2, <1>3, <1>4, <1>5, <1>6, <1>7 DEF Callers

LEMMA AloneCall ==
    ASSUME Inv, Users, Alone(env), AloneFacts, NEW c \in Callers, CallStep(c) \/ TimeOut(c)
    PROVE  AloneFacts'
  <1>1. /\ UNCHANGED <<env, inloop, breaker, at>> /\ Alive' = Alive
        /\ \A d \in Callers \ {c} : pc'[d] = pc[d]
    BY CallLeaves, CallAlive
  <1>2. /\ pc[c] \in {"start"} \cup Starting => Alive /\ (c = Owner \/ (c = Self /\ UserCode))
        /\ pc[c] \in {"stop", "deactivate"} \cup Stopping => c = Owner /\ ~Alive
        /\ pc[c] \in {"setPeriod", "switch"} => Alive
        /\ Alive => \A d \in Callers : pc[d] # "breakLoop"
    BY AloneCallers DEF Stopping
  <1>3. CASE Start(c)
    BY <1>3, <1>1, <1>2, Cast DEF Start, Return, Goto, TypeOK, UserCode, Busy, Periodic, Inv, Locals, AloneFacts, Starting, Stopping, flags, timing, ghosts
  <1>4. CASE Activate(c)
    BY <1>4, <1>1, <1>2, Cast DEF Activate, Goto, Inv, Locals, AloneFacts, Starting, Stopping, flags, timing, ghosts
  <1>5. CASE Initialize(c)
    BY <1>5, <1>1, <1>2, Cast DEF Initialize, Return, Goto, Inv, Locals, AloneFacts, Starting, Stopping, flags, timing, ghosts
  <1>6. CASE Started(c)
    BY <1>6, <1>1, <1>2, Cast DEF Started, Goto, Periodic,  Inv, Locals, AloneFacts, Starting, Stopping, flags, timing, ghosts
  <1>7. CASE MakePeriodic(c)
    BY <1>7, <1>1, <1>2, Cast DEF MakePeriodic, Goto, Inv, Locals, AloneFacts, Starting, Stopping, flags, timing, ghosts
  <1>8. CASE Again(c)
    BY <1>8, <1>1, <1>2, Cast DEF Again, Return, Goto, Inv, Locals, AloneFacts, Starting, Stopping, flags, timing, ghosts
  <1>9. CASE Signal(c)
    BY <1>9, <1>1, <1>2, Cast DEF Signal, Return, Goto, Inv, Locals, AloneFacts, Starting, Stopping, flags, timing, ghosts
  <1>10. CASE Trigger(c)
    BY <1>10, <1>1, <1>2, Cast DEF Trigger, Return, Goto, Inv, Locals, AloneFacts, Starting, Stopping, flags, timing, ghosts
  <1>11. CASE Stop(c)
    BY <1>11, <1>1, <1>2, Cast DEF Stop, Return, Goto, TypeOK, Periodic, Inv, Locals, AloneFacts, Starting, Stopping, flags, timing, ghosts
  <1>12. CASE BreakLoop(c)
    BY <1>12, <1>1, <1>2, Cast DEF BreakLoop, Return, Goto, Inv, Locals, AloneFacts, Starting, Stopping, flags, timing, ghosts
  <1>13. CASE Lock(c)
    BY <1>13, <1>1, <1>2, Cast DEF Lock, Goto, TypeOK, Periodic, Inv, Locals, AloneFacts, Starting, Stopping, flags, timing, ghosts
  <1>14. CASE GiveUp(c)
    BY <1>14 DEF GiveUp, AloneFacts, Stopping
  <1>15. CASE FinalizeBegin(c)
    BY <1>15, <1>1, <1>2, Cast DEF FinalizeBegin, Goto, Inv, Locals, AloneFacts, Starting, Stopping, flags, timing, ghosts
  <1>16. CASE Deactivate(c)
    BY <1>16, <1>1, <1>2, Cast DEF Deactivate, Return, Goto, Inv, Locals, AloneFacts, Starting, Stopping, flags, timing, ghosts
  <1>17. CASE SetPeriod(c)
    BY <1>17, <1>1, <1>2, Cast DEF SetPeriod, Return, Goto, Inv, Locals, AloneFacts, Starting, Stopping, flags, timing, ghosts
  <1>18. CASE Switch(c)
    BY <1>18, <1>1, <1>2, Cast DEF Switch, Return, Goto, Inv, Locals, AloneFacts, Starting, Stopping, flags, timing, ghosts
  <1>19. CASE Destroy(c)
    BY <1>19, <1>1, <1>2, Cast DEF Destroy, Goto, Inv, Locals, AloneFacts, Starting, Stopping, flags, timing, ghosts
  <1>20. CASE Terminate(c)
    BY <1>20, <1>1, <1>2, Cast DEF Terminate, Goto, Inv, Locals, AloneFacts, Starting, Stopping, flags, timing, ghosts
  <1>21. CASE Join(c)
    BY <1>21, <1>1, <1>2, Cast DEF Join, Goto, Inv, Locals, AloneFacts, Starting, Stopping, flags, timing, ghosts
  <1>22. CASE TimeOut(c)
    BY <1>22 DEF TimeOut, Alone, Fault
  <1> QED
    BY <1>3, <1>4, <1>5, <1>6, <1>7, <1>8, <1>9, <1>10, <1>11, <1>12, <1>13, <1>14, <1>15, <1>16, <1>17, <1>18, <1>19, <1>20, <1>21, <1>22 DEF CallStep

LEMMA AloneBegin ==
    ASSUME Inv, AloneFacts, NEW c \in Callers, NEW o \in Operations, NEW a, Begin(c, o, a)
    PROVE  AloneFacts'
  <1>1. UNCHANGED <<at, active, running, hooked, period>> /\ Alive
    BY DEF Begin, MayBegin, flags, timing, ghosts
  <1>2. /\ \A d \in Callers \ {c} : pc'[d] = pc[d]
        /\ pc'[c] \in Operations \cup {"signal"}
    BY DEF Begin, Operations, Inv, Locals
  <1>3. \A d \in Callers : pc'[d] = pc[d] \/ pc'[d] \notin {"deactivate"} \cup Starting \cup Stopping
    BY <1>2 DEF Operations, Starting, Stopping
  <1>4. \A d \in Callers : pc'[d] \in {"run", "breakLoop", "finalize"} => pc'[d] = pc[d]
    BY <1>3 DEF Starting, Stopping
  <1> QED
    BY <1>1, <1>3, <1>4, Cast DEF AloneFacts

-----------------------------------------------------------------------------
(***************************************************************************)
(* The period of the operating system.                                     *)
(***************************************************************************)

\* While the period is set nobody starts the activity, but by a trigger(), or stops it.
LEMMA PeriodExclusive ==
    ASSUME Inv, Users, Excluded, ~Fault("overlap"), NEW c \in Callers, NEW d \in Callers, c # d,
           pc[c] \in {"setPeriod", "switch"}, pc[d] # "idle"
    PROVE  op[d] \notin {"start", "stop", "destroy", "delete", "setPeriod"}
  <1>1. op[c] = "setPeriod" /\ pc[c] # "idle"
    BY DEF Inv, Calls
  <1>2. ~Conflict("setPeriod", op[d])
    BY <1>1 DEF Excluded
  <1>3. op[d] \in {"destroy", "delete"} => d = Owner /\ ~Alive
    BY DEF Inv, Calls, Alive
  <1>4. op[d] \notin {"destroy", "delete"}
    BY <1>1, <1>3 DEF Users
  <1> QED
    BY <1>2, <1>4 DEF Conflict

LEMMA PaceThread ==
    ASSUME Inv, Users, Calm(env) => CalmFacts, Regular(env), PaceFacts, Thrd
    PROVE  PaceFacts'
  <1>1. UNCHANGED <<env, period, pc, op, arg>>
    BY ThreadLeaves
  <1>2. /\ Calm(env) => running' = running /\ active' = active
        /\ running' => running
        /\ at' # "wait" => task_period' = period \/ (at # "wait" /\ task_period' = task_period)
        /\ UserCode => task_period' = task_period
    <2>1. CASE Check
      BY <2>1 DEF Check, UserCode, CalmFacts, flags, timing
    <2>2. CASE Wake
      BY <2>2 DEF Wake, UserCode, CalmFacts, flags, timing
    <2>3. CASE Run
      BY <2>3 DEF Run, UserCode, CalmFacts, flags, timing
    <2>4. CASE Take("lockStep", "while")
      BY <2>4 DEF Take, UserCode, CalmFacts, flags, timing
    <2>5. CASE Take("lockLoop", "locked")
      BY <2>5 DEF Take, UserCode, CalmFacts, flags, timing
    <2>6. CASE StepBegin
      BY <2>6 DEF StepBegin, UserCode, CalmFacts, flags, timing
    <2>7. CASE NewPeriod
      BY <2>7 DEF NewPeriod, UserCode, CalmFacts, flags, timing
    <2>8. CASE WaitPeriod
      BY <2>8 DEF WaitPeriod, UserCode, CalmFacts, flags, timing
    <2>9. CASE LoopBegin
      BY <2>9 DEF LoopBegin, UserCode, CalmFacts, flags, timing
    <2>10. CASE EmergencyStop
      BY <2>10 DEF EmergencyStop, UserCode, CalmFacts, flags, timing
    <2>11. CASE EmergencyFinalize
      BY <2>11 DEF EmergencyFinalize, UserCode, CalmFacts, flags, timing
    <2>12. CASE Recover
      BY <2>12 DEF Recover, UserCode, CalmFacts, flags, timing
    <2>13. CASE StepEnd
      BY <2>13 DEF StepEnd, UserCode, CalmFacts, flags, timing
    <2>14. CASE LoopEnd
      BY <2>14 DEF LoopEnd, UserCode, CalmFacts, flags, timing
    <2>15. CASE Throw
      BY <2>15 DEF Throw, UserCode, CalmFacts, flags, timing
    <2> QED
      BY <2>1, <2>2, <2>3, <2>4, <2>5, <2>6, <2>7, <2>8, <2>9, <2>10, <2>11, <2>12, <2>13, <2>14, <2>15 DEF Thrd, ThreadStep
  <1>3. Told'
    BY <1>1, <1>2 DEF PaceFacts, Told
  <1>4. \A c \in Callers : pc[c] = "switch" => task_period' = task_period
    BY <1>2 DEF PaceFacts, Users
  <1>5. Inward(env) => Calm(env)
    BY DEF Inward
  <1> QED
    BY <1>1, <1>2, <1>3, <1>4, <1>5 DEF PaceFacts, Periods

LEMMA PaceCall ==
    ASSUME Inv, Users, Excluded, Regular(env), PaceFacts,
           Calm(env) => CalmFacts, Alone(env) => AloneFacts,
           NEW c \in Callers, CallStep(c) \/ TimeOut(c)
    PROVE  PaceFacts'
  <1>1. /\ UNCHANGED <<env, at>>
        /\ \A d \in Callers \ {c} : pc'[d] = pc[d] /\ op'[d] = op[d]
        /\ Inward(env) => Calm(env)
    BY CallLeaves DEF Inward
  <1>2. ~Fault("overlap") /\ (Calm(env) \/ Alone(env))
    BY DEF Regular, Fault
  <1>3. ASSUME NEW d \in Callers \ {c}
        PROVE  /\ pc[c] \in {"stop", "deactivate"} \cup Stopping =>
                      pc[d] \notin {"deactivate", "start"} \cup Starting \cup Stopping
               /\ pc[c] \in {"stop", "deactivate"} \cup Stopping => pc[d] # "switch"
               /\ pc[c] \in {"setPeriod", "switch"} /\ Inward(env) => pc[d] \notin Starting
               /\ pc[c] = "makePeriodic" => pc[d] # "switch"
    <2>1. pc[c] \in {"stop", "deactivate"} \cup Stopping =>
                      pc[d] \notin {"deactivate", "start"} \cup Starting \cup Stopping
      BY <1>2, Exclusive
    <2>2. pc[c] \in {"stop", "deactivate"} \cup Stopping =>
              pc[c] # "idle" /\ op[c] \in {"stop", "destroy", "delete"}
      BY DEF Inv, Calls, Stopping
    <2>3. pc[d] = "switch" /\ pc[c] # "idle" => op[c] \notin {"start", "stop", "destroy", "delete"}
      BY <1>2, PeriodExclusive
    <2>4. pc[c] \in {"setPeriod", "switch"} /\ pc[d] # "idle" => op[d] # "start"
      BY <1>2, PeriodExclusive
    <2>5. Inward(env) /\ pc[d] \in Starting => op[d] = "start" /\ pc[d] # "idle"
      BY DEF PaceFacts, Starting
    <2>6. pc[d] = "switch" /\ pc[c] = "makePeriodic" => op[c] = "start" /\ pc[c] # "idle"
      BY DEF PaceFacts
    <2> QED
      BY <2>1, <2>2, <2>3, <2>4, <2>5, <2>6
  <1>4. /\ pc[c] \in {"breakLoop", "lock", "giveUp"} => ~running
        /\ pc[c] \in {"breakLoop", "giveUp"} => Calm(env) \/ period = 0
    BY <1>2 DEF CalmFacts, AloneFacts, Stopping
  <1>5. pc[c] = "setPeriod" =>
            /\ arg[c] \in env.periods
            /\ ((arg[c] = 0) # (period = 0)) => c = Self /\ Inward(env)
    <2>1. pc[c] = "setPeriod" => "setPeriod" \in env.calls[c]
      BY DEF Inv, Calls
    <2>2. pc[c] = "setPeriod" => arg[c] \in env.periods /\ period \in {env.period} \cup env.periods
      BY DEF PaceFacts, Periods
    <2>3. pc[c] = "setPeriod" /\ Fixed(env) => arg[c] # 0 /\ period # 0
      BY <2>1, <2>2 DEF Fixed
    <2>4. pc[c] = "setPeriod" /\ Inward(env) => c = Self
      BY <2>1 DEF Inward
    <2> QED
      BY <2>2, <2>3, <2>4 DEF Regular
  <1>6. Inward(env) => ~Fault("refuse")
    BY DEF Inward, Fault
  <1>7. CASE Start(c)
    <2>1. /\ UNCHANGED <<active, running, period, task_period>> /\ pc[c] = "start" /\ op' = op
          /\ pc'[c] \in {"activate", "again", "idle", "destroy", "delete"}
          /\ pc'[c] = "activate" => ~active /\ arg'[c] = period
          /\ \A d \in Callers \ {c} : arg'[d] = arg[d]
      BY <1>7 DEF Start, Return, Goto, Inv, Locals, TypeOK, flags, timing
    <2>2. Told'
      BY <1>1, <2>1 DEF PaceFacts, Told
    <2>3. Inward(env) /\ pc'[c] = "activate" => op[c] = "start"
      BY <2>1 DEF PaceFacts, Inv, Calls
    <2> QED
      BY <1>1, <2>1, <2>2, <2>3 DEF PaceFacts, Periods, Starting, Stopping
  <1>8. CASE Activate(c)
    BY <1>8, <1>1, <1>2, <1>3, <1>4, <1>5, <1>6 DEF Activate, Goto, Inv, Locals, TypeOK, Periods, PaceFacts, Told, Starting, Stopping, flags, timing
  <1>9. CASE Initialize(c)
    <2>1. /\ UNCHANGED <<running, period, task_period, op, arg>> /\ pc[c] = "initialize"
          /\ pc'[c] \in {"run", "idle", "destroy", "delete"}
          /\ active' => active
          /\ pc'[c] # "run" => ~active'
          /\ ~Fault("refuse") => active' \/ ~active
      BY <1>9 DEF Initialize, Return, Goto, Inv, Locals, timing
    <2>2. Told'
      BY <1>1, <2>1 DEF PaceFacts, Told
    <2> QED
      BY <1>1, <1>6, <2>1, <2>2 DEF PaceFacts, Periods, Starting, Stopping
  <1>10. CASE Started(c)
    BY <1>10, <1>1, <1>2, <1>3, <1>4, <1>5, <1>6 DEF Started, Goto, Inv, Locals, TypeOK, Periods, PaceFacts, Told, Starting, Stopping, flags, timing
  <1>11. CASE MakePeriodic(c)
    BY <1>11, <1>1, <1>2, <1>3, <1>4, <1>5, <1>6 DEF MakePeriodic, Goto, Inv, Locals, TypeOK, Periods, PaceFacts, Told, Starting, Stopping, flags, timing
  <1>12. CASE Again(c)
    BY <1>12, <1>1, <1>2, <1>3, <1>4, <1>5, <1>6 DEF Again, Return, Goto, Inv, Locals, TypeOK, Periods, PaceFacts, Told, Starting, Stopping, flags, timing
  <1>13. CASE Signal(c)
    BY <1>13, <1>1, <1>2, <1>3, <1>4, <1>5, <1>6 DEF Signal, Return, Goto, Inv, Locals, TypeOK, Periods, PaceFacts, Told, Starting, Stopping, flags, timing
  <1>14. CASE Trigger(c)
    BY <1>14, <1>1, <1>2, <1>3, <1>4, <1>5, <1>6 DEF Trigger, Return, Goto, Inv, Locals, TypeOK, Periods, PaceFacts, Told, Starting, Stopping, flags, timing
  <1>15. CASE Stop(c)
    BY <1>15, <1>1, <1>2, <1>3, <1>4, <1>5, <1>6 DEF Stop, Return, Goto, Inv, Locals, TypeOK, Periods, PaceFacts, Told, Starting, Stopping, flags, timing
  <1>16. CASE BreakLoop(c)
    BY <1>16, <1>1, <1>2, <1>3, <1>4, <1>5, <1>6 DEF BreakLoop, Return, Goto, Inv, Locals, TypeOK, Periods, PaceFacts, Told, Starting, Stopping, flags, timing
  <1>17. CASE Lock(c)
    BY <1>17, <1>1, <1>2, <1>3, <1>4, <1>5, <1>6 DEF Lock, Goto, Inv, Locals, TypeOK, Periods, PaceFacts, Told, Starting, Stopping, flags, timing
  <1>18. CASE GiveUp(c)
    BY <1>18, <1>1, <1>2, <1>3, <1>4, <1>5, <1>6 DEF GiveUp, Return, Goto, Inv, Locals, TypeOK, Periods, PaceFacts, Told, Starting, Stopping, flags, timing
  <1>19. CASE FinalizeBegin(c)
    BY <1>19, <1>1, <1>2, <1>3, <1>4, <1>5, <1>6 DEF FinalizeBegin, Goto, Inv, Locals, TypeOK, Periods, PaceFacts, Told, Starting, Stopping, flags, timing
  <1>20. CASE Deactivate(c)
    BY <1>20, <1>1, <1>2, <1>3, <1>4, <1>5, <1>6 DEF Deactivate, Return, Goto, Inv, Locals, TypeOK, Periods, PaceFacts, Told, Starting, Stopping, flags, timing
  <1>21. CASE SetPeriod(c)
    BY <1>21, <1>1, <1>2, <1>3, <1>4, <1>5, <1>6 DEF SetPeriod, Return, Goto, Inv, Locals, TypeOK, Periods, PaceFacts, Told, Starting, Stopping, flags, timing
  <1>22. CASE Switch(c)
    BY <1>22, <1>1, <1>2, <1>3, <1>4, <1>5, <1>6 DEF Switch, Return, Goto, Inv, Locals, TypeOK, Periods, PaceFacts, Told, Starting, Stopping, flags, timing
  <1>23. CASE Destroy(c)
    BY <1>23, <1>1, <1>2, <1>3, <1>4, <1>5, <1>6 DEF Destroy, Goto, Inv, Locals, TypeOK, Periods, PaceFacts, Told, Starting, Stopping, flags, timing
  <1>24. CASE Terminate(c)
    BY <1>24, <1>1, <1>2, <1>3, <1>4, <1>5, <1>6 DEF Terminate, Goto, Inv, Locals, TypeOK, Periods, PaceFacts, Told, Starting, Stopping, flags, timing
  <1>25. CASE Join(c)
    BY <1>25, <1>1, <1>2, <1>3, <1>4, <1>5, <1>6 DEF Join, Goto, Inv, Locals, TypeOK, Periods, PaceFacts, Told, Starting, Stopping, flags, timing
  <1>26. CASE TimeOut(c)
    BY <1>26, <1>1, <1>2, <1>3, <1>4, <1>5, <1>6 DEF TimeOut, Goto, Inv, Locals, TypeOK, Periods, PaceFacts, Told, Starting, Stopping, flags, timing
  <1> QED
    BY <1>7, <1>8, <1>9, <1>10, <1>11, <1>12, <1>13, <1>14, <1>15, <1>16, <1>17, <1>18, <1>19, <1>20, <1>21, <1>22, <1>23, <1>24, <1>25, <1>26 DEF CallStep

LEMMA PaceBegin ==
    ASSUME Inv, PaceFacts, NEW c \in Callers, NEW o \in Operations,
           NEW a \in IF o = "setPeriod" THEN env.periods ELSE {0}, Begin(c, o, a)
    PROVE  PaceFacts'
  <1>1. /\ UNCHANGED <<env, at, active, running, period, task_period>> /\ pc[c] = "idle"
        /\ op' = [op EXCEPT ![c] = o] /\ arg' = [arg EXCEPT ![c] = a]
    BY DEF Begin, MayBegin, flags, timing
  <1>2. PICK place \in Operations \cup {"signal"} :
           /\ pc' = [pc EXCEPT ![c] = place]
           /\ place = IF o = "setScheduler" THEN "signal" ELSE IF o = "destroy" THEN "stop" ELSE o
    BY DEF Begin, Operations
  <1>3. /\ \A d \in Callers \ {c} : pc'[d] = pc[d] /\ op'[d] = op[d] /\ arg'[d] = arg[d]
        /\ pc'[c] = place /\ op'[c] = o /\ arg'[c] = a
    BY <1>1, <1>2 DEF Inv, Locals, TypeOK
  <1>4. place \notin {"makePeriodic", "switch", "deactivate"} \cup Starting \cup Stopping
    BY DEF Operations, Starting, Stopping
  <1>5. /\ place = "setPeriod" => a \in env.periods
        /\ place = "start" => o = "start"
    BY <1>2 DEF Operations
  <1>6. pc[c] \notin {"makePeriodic", "switch", "deactivate"} \cup Starting \cup Stopping
    BY <1>1 DEF Starting, Stopping
  <1>7. Told'
    BY <1>1, <1>3, <1>4, <1>6 DEF PaceFacts, Told, Stopping
  <1> QED
    BY <1>1, <1>3, <1>4, <1>5, <1>6, <1>7 DEF PaceFacts, Periods

-----------------------------------------------------------------------------
(***************************************************************************)
(* A thread that sleeps.                                                   *)
(***************************************************************************)

LEMMA AwakeThread ==
    ASSUME Inv, Users, AwakeFacts, Thrd
    PROVE  AwakeFacts'
  <1>1. UNCHANGED <<env, prepareForExit, period, pc, op, arg>>
    BY ThreadLeaves
  <1>2. Alive' = Alive /\ (prepareForExit => ~Alive)
    BY <1>1 DEF Alive, Users
  <1>3. ASSUME Alive, sem' = 0, running'
        PROVE  /\ running /\ (sem = 0 \/ at = "wait")
               /\ owed' => owed
               /\ owed' /\ at \in Coming => at' \in Coming
               /\ at' = "wait" => at = "check" /\ (~active \/ period = 0)
               /\ at = "wait" => at' = "run"
    <2>1. CASE Check
      BY <1>2, <1>3, <2>1 DEF Check, UserCode, After, Coming, Inv, TypeOK, flags, timing, ghosts
    <2>2. CASE Wake
      BY <1>2, <1>3, <2>2 DEF Wake, UserCode, After, Coming, Inv, TypeOK, flags, timing, ghosts
    <2>3. CASE Run
      BY <1>2, <1>3, <2>3 DEF Run, UserCode, After, Coming, Inv, TypeOK, flags, timing, ghosts
    <2>4. CASE Take("lockStep", "while")
      BY <1>2, <1>3, <2>4 DEF Take, UserCode, After, Coming, Inv, TypeOK, flags, timing, ghosts
    <2>5. CASE Take("lockLoop", "locked")
      BY <1>2, <1>3, <2>5 DEF Take, UserCode, After, Coming, Inv, TypeOK, flags, timing, ghosts
    <2>6. CASE StepBegin
      BY <1>2, <1>3, <2>6 DEF StepBegin, UserCode, After, Coming, Inv, TypeOK, flags, timing, ghosts
    <2>7. CASE NewPeriod
      BY <1>2, <1>3, <2>7 DEF NewPeriod, UserCode, After, Coming, Inv, TypeOK, flags, timing, ghosts
    <2>8. CASE WaitPeriod
      BY <1>2, <1>3, <2>8 DEF WaitPeriod, UserCode, After, Coming, Inv, TypeOK, flags, timing, ghosts
    <2>9. CASE LoopBegin
      BY <1>2, <1>3, <2>9 DEF LoopBegin, UserCode, After, Coming, Inv, TypeOK, flags, timing, ghosts
    <2>10. CASE EmergencyStop
      BY <1>2, <1>3, <2>10 DEF EmergencyStop, UserCode, After, Coming, Inv, TypeOK, flags, timing, ghosts
    <2>11. CASE EmergencyFinalize
      BY <1>2, <1>3, <2>11 DEF EmergencyFinalize, UserCode, After, Coming, Inv, TypeOK, flags, timing, ghosts
    <2>12. CASE Recover
      BY <1>2, <1>3, <2>12 DEF Recover, UserCode, After, Coming, Inv, TypeOK, flags, timing, ghosts
    <2>13. CASE StepEnd
      BY <1>2, <1>3, <2>13 DEF StepEnd, UserCode, After, Coming, Inv, TypeOK, flags, timing, ghosts
    <2>14. CASE LoopEnd
      BY <1>2, <1>3, <2>14 DEF LoopEnd, UserCode, After, Coming, Inv, TypeOK, flags, timing, ghosts
    <2>15. CASE Throw
      BY <1>2, <1>3, <2>15 DEF Throw, UserCode, After, Coming, Inv, TypeOK, flags, timing, ghosts
    <2> QED
      BY <2>1, <2>2, <2>3, <2>4, <2>5, <2>6, <2>7, <2>8, <2>9, <2>10, <2>11, <2>12, <2>13, <2>14, <2>15 DEF Thrd, ThreadStep
  <1>4. at' = "wait" => active' = active
    BY DEF Thrd, ThreadStep, Check, Wake, Run, Take, StepBegin, NewPeriod, WaitPeriod, LoopBegin,
           EmergencyStop, EmergencyFinalize, Recover, StepEnd, LoopEnd, Throw, After, flags
  <1> QED
    BY <1>1, <1>2, <1>3, <1>4 DEF AwakeFacts, Coming

LEMMA AwakeCall ==
    ASSUME Inv, Attentive(env), AwakeFacts, NEW c \in Callers, CallStep(c) \/ TimeOut(c)
    PROVE  AwakeFacts'
  <1>1. /\ UNCHANGED <<env, at>>
        /\ \A d \in Callers \ {c} : pc'[d] = pc[d]
        /\ pc[c] # "giveUp" /\ ~Fault("timeout")
    BY CallLeaves DEF AwakeFacts, Attentive, Fault
  <1>2. /\ op[c] \in {"destroy", "delete"} => ~Alive
        /\ pc[c] = "breakLoop" /\ Fault("refuse") => ~Alive
    <2>1. op[c] \in {"destroy", "delete"} => ~Alive
      BY DEF Inv, Calls, Alive
    <2>2. pc[c] = "breakLoop" => op[c] \in {"stop", "destroy", "delete"} /\ op[c] \in env.calls[c] \cup {"delete"}
      BY DEF Inv, Calls, Stopping
    <2> QED
      BY <2>1, <2>2 DEF Attentive, Fault
  <1>3. Alive' = Alive
    BY CallLeaves, Cast DEF Alive, Inv, TypeOK
  <1>4. CASE Start(c)
    BY <1>4, <1>1, <1>2, <1>3 DEF Start, Return, Goto, Inv, Locals, TypeOK, AwakeFacts, Stopping, flags, timing, ghosts
  <1>5. CASE Activate(c)
    BY <1>5, <1>1, <1>2, <1>3 DEF Activate, Goto, Inv, Locals, TypeOK, AwakeFacts, Stopping, flags, timing, ghosts
  <1>6. CASE Initialize(c)
    BY <1>6, <1>1, <1>2, <1>3 DEF Initialize, Return, Goto, Inv, Locals, TypeOK, AwakeFacts, Stopping, flags, timing, ghosts
  <1>7. CASE Started(c)
    BY <1>7, <1>1, <1>2, <1>3 DEF Started, Goto, Inv, Locals, TypeOK, AwakeFacts, Stopping, flags, timing, ghosts
  <1>8. CASE MakePeriodic(c)
    BY <1>8, <1>1, <1>2, <1>3 DEF MakePeriodic, Goto, Inv, Locals, TypeOK, AwakeFacts, Stopping, flags, timing, ghosts
  <1>9. CASE Again(c)
    BY <1>9, <1>1, <1>2, <1>3 DEF Again, Return, Goto, Inv, Locals, TypeOK, AwakeFacts, Stopping, flags, timing, ghosts
  <1>10. CASE Signal(c)
    BY <1>10, <1>1, <1>2, <1>3 DEF Signal, Return, Goto, Inv, Locals, TypeOK, AwakeFacts, Stopping, flags, timing, ghosts
  <1>11. CASE Trigger(c)
    BY <1>11, <1>1, <1>2, <1>3 DEF Trigger, Return, Goto, Inv, Locals, TypeOK, AwakeFacts, Stopping, flags, timing, ghosts
  <1>12. CASE Stop(c)
    BY <1>12, <1>1, <1>2, <1>3 DEF Stop, Return, Goto, Inv, Locals, TypeOK, AwakeFacts, Stopping, flags, timing, ghosts
  <1>13. CASE BreakLoop(c)
    BY <1>13, <1>1, <1>2, <1>3 DEF BreakLoop, Return, Goto, Inv, Locals, TypeOK, AwakeFacts, Stopping, flags, timing, ghosts
  <1>14. CASE Lock(c)
    BY <1>14, <1>1, <1>2, <1>3 DEF Lock, Goto, Inv, Locals, TypeOK, AwakeFacts, Stopping, flags, timing, ghosts
  <1>15. CASE GiveUp(c)
    BY <1>15, <1>1, <1>2, <1>3 DEF GiveUp, Return, Goto, Inv, Locals, TypeOK, AwakeFacts, Stopping, flags, timing, ghosts
  <1>16. CASE FinalizeBegin(c)
    BY <1>16, <1>1, <1>2, <1>3 DEF FinalizeBegin, Goto, Inv, Locals, TypeOK, AwakeFacts, Stopping, flags, timing, ghosts
  <1>17. CASE Deactivate(c)
    BY <1>17, <1>1, <1>2, <1>3 DEF Deactivate, Return, Goto, Inv, Locals, TypeOK, AwakeFacts, Stopping, flags, timing, ghosts
  <1>18. CASE SetPeriod(c)
    BY <1>18, <1>1, <1>2, <1>3 DEF SetPeriod, Return, Goto, Inv, Locals, TypeOK, AwakeFacts, Stopping, flags, timing, ghosts
  <1>19. CASE Switch(c)
    BY <1>19, <1>1, <1>2, <1>3 DEF Switch, Return, Goto, Inv, Locals, TypeOK, AwakeFacts, Stopping, flags, timing, ghosts
  <1>20. CASE Destroy(c)
    BY <1>20, <1>1, <1>2, <1>3 DEF Destroy, Goto, Inv, Locals, TypeOK, AwakeFacts, Stopping, flags, timing, ghosts
  <1>21. CASE Terminate(c)
    BY <1>21, <1>1, <1>2, <1>3 DEF Terminate, Goto, Inv, Locals, TypeOK, AwakeFacts, Stopping, flags, timing, ghosts
  <1>22. CASE Join(c)
    BY <1>22, <1>1, <1>2, <1>3 DEF Join, Goto, Inv, Locals, TypeOK, AwakeFacts, Stopping, flags, timing, ghosts
  <1>23. CASE TimeOut(c)
    BY <1>23, <1>1, <1>2, <1>3 DEF TimeOut, Goto, Inv, Locals, TypeOK, AwakeFacts, Stopping, flags, timing, ghosts
  <1> QED
    BY <1>4, <1>5, <1>6, <1>7, <1>8, <1>9, <1>10, <1>11, <1>12, <1>13, <1>14, <1>15, <1>16, <1>17, <1>18, <1>19, <1>20, <1>21, <1>22, <1>23 DEF CallStep

LEMMA AwakeBegin ==
    ASSUME Inv, AwakeFacts, NEW c \in Callers, NEW o \in Operations, NEW a, Begin(c, o, a)
    PROVE  AwakeFacts'
  <1>1. /\ UNCHANGED <<at, active, running, period, sem, owed>> /\ pc[c] = "idle" /\ Alive
        /\ \A d \in Callers \ {c} : pc'[d] = pc[d]
        /\ pc'[c] \in Operations \cup {"signal"}
    BY DEF Begin, MayBegin, Operations, Inv, Locals, flags, timing, ghosts
  <1>2. pc'[c] # "giveUp"
    BY <1>1 DEF Operations
  <1> QED
    BY <1>1, <1>2 DEF AwakeFacts

-----------------------------------------------------------------------------
(***************************************************************************)
(* The invariant, and what it shows.                                       *)
(***************************************************************************)

LEMMA InitIInv == Init => IInv
  <1> SUFFICES ASSUME Init PROVE IInv
    OBVIOUS
  <1>1. /\ \A c \in Callers : pc[c] = "idle" /\ op[c] = "none"
        /\ at = "check" /\ overruns = 0 /\ ~active /\ ~running /\ ~prepareForExit
    BY DEF Init
  <1>2. Users /\ Excluded
    BY <1>1, Cast DEF Users, Alive, Excluded
  <1>3. CalmFacts
    BY <1>1 DEF CalmFacts, Stopping
  <1>4. AloneFacts
    BY <1>1, Cast DEF AloneFacts, Starting, Stopping, Busy, Periodic
  <1>5. PaceFacts
    <2>1. period = env.period
      BY DEF Init
    <2> QED
      BY <1>1, <2>1 DEF PaceFacts, Told, Periods, Starting
  <1>6. AwakeFacts
    BY <1>1 DEF AwakeFacts
  <1> QED
    BY <1>2, <1>3, <1>4, <1>5, <1>6, InitInv DEF IInv

LEMMA StepIInv == IInv /\ [Next]_vars => IInv'
  <1> SUFFICES ASSUME IInv, [Next]_vars PROVE IInv'
    OBVIOUS
  <1>1. Inv' /\ Users' /\ Excluded'
    BY StepInv, UsersStep, ExcludedStep DEF IInv
  <1>2. env' = env
    BY ThreadLeaves, CallLeaves DEF IInv, Next, Thrd, Gone, vars, Begin
  <1>3. ASSUME Calm(env), ~Fault("overlap") PROVE CalmFacts'
    <2>1. CalmFacts
      BY <1>3 DEF IInv
    <2>2. CASE Thrd
      BY <1>3, <2>1, <2>2, CalmThread DEF IInv
    <2>3. ASSUME NEW c \in Callers, CallStep(c) \/ TimeOut(c) PROVE CalmFacts'
      BY <1>3, <2>1, <2>3, CalmCall DEF IInv
    <2>4. ASSUME NEW c \in Callers, NEW o \in Operations, NEW a, Begin(c, o, a)
          PROVE  CalmFacts'
      BY <2>1, <2>4, CalmBegin DEF IInv
    <2>5. CASE UNCHANGED vars
      BY <2>1, <2>5 DEF CalmFacts, vars, flags, timing, callers, ghosts
    <2> QED
      BY <2>2, <2>3, <2>4, <2>5 DEF Next, Gone, Thrd
  <1>4. ASSUME Alone(env) PROVE AloneFacts'
    <2>1. AloneFacts
      BY <1>4 DEF IInv
    <2>2. CASE Thrd
      BY <2>1, <2>2, AloneThread DEF IInv
    <2>3. ASSUME NEW c \in Callers, CallStep(c) \/ TimeOut(c) PROVE AloneFacts'
      BY <1>4, <2>1, <2>3, AloneCall DEF IInv
    <2>4. ASSUME NEW c \in Callers, NEW o \in Operations, NEW a, Begin(c, o, a)
          PROVE  AloneFacts'
      BY <2>1, <2>4, AloneBegin DEF IInv
    <2>5. CASE UNCHANGED vars
      BY <2>1, <2>5 DEF AloneFacts, Alive, vars, flags, timing, callers, ghosts
    <2> QED
      BY <2>2, <2>3, <2>4, <2>5 DEF Next, Gone, Thrd
  <1>5. ASSUME Regular(env) PROVE PaceFacts'
    <2>1. /\ PaceFacts /\ (Calm(env) => CalmFacts) /\ (Alone(env) => AloneFacts)
          /\ Inv /\ Users /\ Excluded
      BY <1>5 DEF IInv, Regular, Fault
    <2>2. CASE Thrd
      BY <1>5, <2>1, <2>2, PaceThread
    <2>3. ASSUME NEW c \in Callers, CallStep(c) \/ TimeOut(c) PROVE PaceFacts'
      BY <1>5, <2>1, <2>3, PaceCall
    <2>4. ASSUME NEW c \in Callers, NEW o \in Operations,
                 NEW a \in IF o = "setPeriod" THEN env.periods ELSE {0}, Begin(c, o, a)
          PROVE  PaceFacts'
      BY <2>1, <2>4, PaceBegin
    <2>5. CASE UNCHANGED vars
      BY <2>1, <2>5 DEF PaceFacts, Told, Periods, vars, flags, timing, callers
    <2> QED
      BY <2>2, <2>3, <2>4, <2>5 DEF Next, Gone, Thrd
  <1>6. ASSUME Attentive(env) PROVE AwakeFacts'
    <2>1. AwakeFacts /\ Inv /\ Users
      BY <1>6 DEF IInv
    <2>2. CASE Thrd
      BY <2>1, <2>2, AwakeThread
    <2>3. ASSUME NEW c \in Callers, CallStep(c) \/ TimeOut(c) PROVE AwakeFacts'
      BY <1>6, <2>1, <2>3, AwakeCall
    <2>4. ASSUME NEW c \in Callers, NEW o \in Operations, NEW a, Begin(c, o, a)
          PROVE  AwakeFacts'
      BY <2>1, <2>4, AwakeBegin
    <2>5. CASE UNCHANGED vars
      BY <2>1, <2>5 DEF AwakeFacts, Alive, vars, flags, timing, callers, ghosts
    <2> QED
      BY <2>2, <2>3, <2>4, <2>5 DEF Next, Gone, Thrd
  <1> QED
    BY <1>1, <1>2, <1>3, <1>4, <1>5, <1>6
       DEF IInv, Calm, Alone, Regular, Fixed, Inward, Attentive, Fault

\* A periodic step that begins finds running set, and hence initialize() called; finalize()
\* is called by a stop() that has had breaker since it cleared running, or by the thread.
LEMMA InsideStep ==
    ASSUME Orderly, IInv, [Next]_vars, ~Fault("overlap")
    PROVE  /\ StepBegin /\ at' = "step" => hooked
           /\ at = "step" /\ hooked /\ ~hooked' => pc[Self] = "finalize"
  <1>1. /\ Inv /\ Users
        /\ (Calm(env) /\ CalmFacts) \/ (Alone(env) /\ AloneFacts)
    BY DEF Orderly, IInv, Inv, TypeOK, Fault
  <1>2. ASSUME StepBegin, at' = "step" PROVE hooked
    <2>1. running /\ at = "while"
      BY <1>2 DEF StepBegin, After
    <2> QED
      BY <1>1, <2>1 DEF CalmFacts, AloneFacts, Periodic
  <1>3. ASSUME at = "step", hooked, ~hooked' PROVE pc[Self] = "finalize"
    <2>1. PICK c \in Callers : FinalizeBegin(c)
      <3>1. CASE Thrd
        BY <1>3, <3>1 DEF Thrd, ThreadStep, Check, Wake, Run, Take, StepBegin, NewPeriod, WaitPeriod,
                          LoopBegin, EmergencyStop, EmergencyFinalize, Recover, StepEnd, LoopEnd,
                          Throw, ghosts
      <3>2. ASSUME NEW c \in Callers, CallStep(c) \/ TimeOut(c) PROVE FinalizeBegin(c)
        BY <1>3, <3>2 DEF CallStep, Start, Activate, Initialize, Started, MakePeriodic, Again, Signal,
                          Trigger, Stop, BreakLoop, Lock, TimeOut, GiveUp, Deactivate, SetPeriod,
                          Switch, Destroy, Terminate, Join, ghosts
      <3>3. ASSUME NEW c \in Callers, NEW o \in Operations, NEW a, Begin(c, o, a) PROVE FALSE
        BY <1>3, <3>3 DEF Begin, ghosts
      <3>4. CASE UNCHANGED vars
        BY <1>3, <3>4 DEF vars, ghosts
      <3> QED
        BY <3>1, <3>2, <3>3, <3>4 DEF Next, Gone, Thrd
    <2>2. pc[c] = "finalize"
      BY <2>1 DEF FinalizeBegin
    <2>3. c = Self
      BY <1>1, <1>3, <2>2 DEF CalmFacts, AloneFacts
    <2> QED
      BY <2>2, <2>3
  <1> QED
    BY <1>2, <1>3

\* In an orderly environment a step of a periodic activity begins between its initialize()
\* and its finalize(), and finalize() is not called while it lasts, except by the step.
THEOREM StepsAreInside == Orderly => (Spec => StepsInside)
  <1> SUFFICES ASSUME Orderly PROVE Spec => StepsInside
    OBVIOUS
  <1>1. IInv /\ [Next]_vars =>
            [~Fault("overlap") =>
               /\ StepBegin /\ at' = "step" => hooked
               /\ at = "step" /\ hooked /\ ~hooked' => pc[Self] = "finalize"]_vars
    BY InsideStep
  <1> QED
    BY InitIInv, StepIInv, <1>1, PTL DEF Spec, StepsInside

\* In an environment where only the runnable makes its activity periodic or not, a periodic
\* activity that runs never waits for its next step with the period 0.
THEOREM StaysPaced == Even => (Spec => []Paced)
  <1> SUFFICES ASSUME Even PROVE Spec => []Paced
    OBVIOUS
  <1>1. IInv => Paced
    <2> SUFFICES ASSUME IInv, at = "sleep", Quiet, running, period # 0, ~SwitchedOutside,
                        ~Fault("overlap")
                 PROVE  task_period # 0
      BY DEF Paced
    <2>1. Regular(env)
      BY DEF Even, IInv, Inv, TypeOK, SwitchedOutside, Fault
    <2>2. Told
      BY <2>1 DEF IInv, PaceFacts
    <2> QED
      BY <2>2 DEF Told, Quiet
  <1> QED
    BY InitIInv, StepIInv, <1>1, PTL DEF Spec

\* Where no stop() that has cleared running sets it again, a running activity whose thread
\* sleeps without a signal has nothing to do, whatever calls overlapped before.
THEOREM StaysAwake == Heeded => (Spec => []Awake)
  <1> SUFFICES ASSUME Heeded PROVE Spec => []Awake
    OBVIOUS
  <1>1. IInv => Awake
    <2> SUFFICES ASSUME IInv, at = "wait", sem = 0, Quiet, active, running, ~Fault("timeout")
                 PROVE  period = 0 /\ ~owed
      BY DEF Awake
    <2>1. AwakeFacts
      BY DEF Heeded, IInv, Inv, TypeOK, Fault
    <2>2. Alive
      BY Cast DEF Alive, IInv, Inv, Calls, Ending, Stopping, Quiet
    <2> QED
      BY <2>1, <2>2 DEF AwakeFacts, Coming, Quiet
  <1> QED
    BY InitIInv, StepIInv, <1>1, PTL DEF Spec
=============================================================================
