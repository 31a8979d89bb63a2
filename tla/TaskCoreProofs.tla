--------------------------- MODULE TaskCoreProofs ---------------------------
(***************************************************************************)
(* Theorems about TaskCore.  Its types are those of every program; that    *)
(* the hooks exclude each other and keep their order, and that no state is *)
(* left or lost, holds in the environments of Disciplined.                 *)
(*                                                                         *)
(* The inductive invariant has two cases.  Orderly, for one client, says   *)
(* which calls the client and the engine can be in (ClientShape,           *)
(* EngineShape), what each of them knows of the states and of the life of  *)
(* the component while it is there (ClientState, EngineState), that the    *)
(* component is at rest when the client is in no exclusive part of an      *)
(* operation (Rest), and that the engine is in no hook while the client is *)
(* in one (Apart).  Unstarted is for a component that nobody starts.       *)
(*                                                                         *)
(* A state is stored into mTaskState first and into mTargetState in a step *)
(* of its own: Halfway is the engine between the two, "target",            *)
(* "raiseTarget" and "fatalTarget" are the places of a call that is.       *)
(***************************************************************************)
EXTENDS TaskCore, SequenceTheorems, TLAPS

(***************************************************************************)
(* The calls a thread is in.                                               *)
(***************************************************************************)
Places ==
    Operations \cup Hooks \cup
    {"halt", "halting", "configured", "cleaned", "started", "stopped", "restart",
     "recoverError", "store", "target", "fatalTarget",
     "raise", "raiseTarget", "raised", "raisedStop", "raisedClean", "raisedHook",
     "awake", "step", "updated", "handled"}
Frames == [at : Places, saved : TaskState \cup {"none"}]
Stacks == stack \in [Threads -> Seq(Frames)]
Returns == {"none", "true", "false", "throw"}

\* How many calls thread t is in; where the d-th of them is, counted from the outermost
\* one, and what it has saved.
Depth(t) == Len(stack[t])
Place(t, d) == IF d \in 1 .. Len(stack[t]) THEN stack[t][Len(stack[t]) + 1 - d].at ELSE "idle"
Kept(t, d) == IF d \in 1 .. Len(stack[t]) THEN stack[t][Len(stack[t]) + 1 - d].saved ELSE "idle"

\* Where a call has saved a state to store it later, and not its absence.
Saving == {"restart", "store", "target"}
Saves == \A t \in Threads, d \in Nat : Place(t, d) \in Saving => Kept(t, d) \in TaskState

Typed ==
    /\ Stacks
    /\ Saves
    /\ ret \in [Threads -> Returns]
    /\ mTaskState \in TaskState /\ mTargetState \in TaskState
    /\ active \in BOOLEAN /\ running \in BOOLEAN /\ sem \in BOOLEAN
    /\ life \in {"cleaned", "configured", "started"}
    /\ user \in Users

\* A step of another thread, seen by thread u.
Stays(u) ==
    /\ Depth(u)' = Depth(u)
    /\ Place(u, 1)' = Place(u, 1) /\ Place(u, 2)' = Place(u, 2)
    /\ Place(u, 3)' = Place(u, 3) /\ Place(u, 4)' = Place(u, 4)
    /\ Kept(u, 1)' = Kept(u, 1) /\ Kept(u, 2)' = Kept(u, 2) /\ Kept(u, 3)' = Kept(u, 3)

\* The hook that returns to a place.
HookOf(p) ==
    CASE p = "configured" -> "configureHook" [] p = "started" -> "startHook"
      [] p \in {"stopped", "raisedStop"} -> "stopHook"
      [] p \in {"cleaned", "raisedClean"} -> "cleanupHook"
      [] p = "raisedHook" -> "exceptionHook"
      [] p = "updated" -> "updateHook" [] p = "handled" -> "errorHook" [] OTHER -> "none"

Entering == {"raise", "raiseTarget"}
Raising == {"raised", "raisedStop", "raisedClean", "raisedHook"}
Halting == {"halt", "halting"}
\* The exclusive parts of the operations of a client.
Held == {"configured", "started", "cleaned", "stopped", "exception", "fatal", "fatalTarget"}
          \cup Entering \cup Raising
\* recover(), for a client.
Recovering == {"recover", "recoverError", "store"}

(***************************************************************************)
(* Orderly: one client, which stops the component or fails in its engine.  *)
(***************************************************************************)
\* The calls the client can be in ...
ClientShape(c) ==
    /\ Depth(c) \in 0 .. 3
    /\ Depth(c) >= 1 => Place(c, 1) \in {"configure", "cleanup", "start", "stop", "restart", "target"}
          \cup Recovering \cup Signals \cup Held \cup Halting
    /\ Depth(c) >= 2 => \/ Place(c, 2) = HookOf(Place(c, 1)) /\ Place(c, 2) \in Hooks
                        \/ Place(c, 1) = "restart" /\ Place(c, 2) \in Halting /\ Depth(c) = 2
    /\ Depth(c) = 3 => Place(c, 3) \in Signals
    /\ Place(c, 1) \in {"stop", "restart", "stopped"} => ~NobodyStops(user)
    /\ Place(c, 1) \in Recovering => ~NobodyStops(user) /\ InitialState = "PreOperational"
    /\ Depth(c) = 1 /\ Place(c, 1) \in {"configured", "started", "cleaned", "stopped", "restart"}
         => ret[c] # "none"
    /\ Depth(c) = 1 /\ Place(c, 1) = "restart" => ret[c] # "throw"

\* ... and those of the engine.
EngineShape ==
    /\ Depth(Engine) \in 0 .. 4
    /\ Depth(Engine) >= 1 => Place(Engine, 1) \in {"awake", "step", "updated", "handled"}
    /\ Place(Engine, 1) \in {"idle", "awake", "step"} => ret[Engine] = "none"
    /\ Depth(Engine) >= 2 =>
         /\ Place(Engine, 1) \in {"updated", "handled"}
         /\ \/ Place(Engine, 2) = HookOf(Place(Engine, 1))
            \/ Place(Engine, 2) \in {"exception", "fatal", "fatalTarget"} \cup Halting \cup Entering \cup Raising
               /\ NobodyStops(user)
    /\ Depth(Engine) >= 3 =>
         \/ Place(Engine, 2) \in Hooks /\ Depth(Engine) = 3 /\ Place(Engine, 3) \in Signals
         \/ /\ Place(Engine, 2) \in Hooks /\ Depth(Engine) = 3 /\ NobodyStops(user)
            /\ Place(Engine, 3) \in {"error", "target", "fatal", "fatalTarget"} \cup Recovering \cup Halting
            /\ Place(Engine, 3) \in ({"fatal", "fatalTarget"} \cup Halting) => <<Place(Engine, 2), "fatal">> \in MayCall
         \/ Place(Engine, 2) \in Raising /\ Place(Engine, 3) = HookOf(Place(Engine, 2)) /\ Place(Engine, 3) \in Hooks
    /\ Depth(Engine) = 4 => Place(Engine, 4) \in Signals

\* What the hooks have done to a component whose state is s.
Fits(s) == /\ s = "PreOperational" => life = "cleaned"
           /\ s = "Stopped" => life = "configured"
           /\ s \in RunningStates => life = "started"

\* The hook has returned to the operation of the client.
Returned(c) == Depth(c) = 1 /\ ret[c] \in {"true", "false"}
\* The d-th call of thread t is exception(), after Raise: what it has done to the component.
RaisedLife(t, d) ==
    /\ Place(t, d) \in Entering \cup {"raised"} => Fits(Kept(t, d))
    /\ Place(t, d) = "raisedStop" /\ Depth(t) > d =>
         life = "started" /\ Kept(t, d) \in RunningStates
    /\ Place(t, d) = "raisedStop" /\ Depth(t) = d /\ ret[t] # "throw" =>
         life = IF Kept(t, d) = "PreOperational" THEN "cleaned" ELSE "configured"
    /\ Place(t, d) = "raisedClean" /\ Depth(t) > d => life = "configured"
    /\ Place(t, d) = "raisedClean" /\ Depth(t) = d /\ ret[t] # "throw"
         /\ InitialState = "PreOperational" => life = "cleaned"
    /\ Place(t, d) = "raisedHook" /\ InitialState = "PreOperational" => life = "cleaned"

\* What the client knows in its exclusive part of an operation.
ClientState(c) ==
    /\ Place(c, 1) = "configured" =>
         /\ mTargetState = "Stopped" /\ mTaskState \in {"Stopped", "PreOperational"}
         /\ IF Returned(c) THEN life = IF ret[c] = "true" THEN "configured" ELSE "cleaned"
                           ELSE Fits(mTaskState)
    /\ Place(c, 1) = "started" =>
         /\ mTargetState = "Running" /\ mTaskState = "Stopped"
         /\ life = IF Returned(c) /\ ret[c] = "true" THEN "started" ELSE "configured"
    /\ Place(c, 1) = "cleaned" =>
         /\ mTargetState = "PreOperational" /\ mTaskState = "Stopped"
         /\ life = IF Returned(c) THEN "cleaned" ELSE "configured"
    /\ Place(c, 1) = "stopped" =>
         /\ mTargetState = "Stopped" /\ mTaskState = "Running"
         /\ life = IF Returned(c) THEN "configured" ELSE "started"
    /\ Place(c, 1) = "restart" =>
         /\ mTargetState = "Stopped" /\ mTaskState = "Running"
         /\ life = "started" /\ Kept(c, 1) = "Running"
    /\ Place(c, 1) = "store" => mTaskState = "Exception" /\ Kept(c, 1) = "PreOperational"
    /\ Place(c, 1) = "target" =>
         /\ mTaskState = Kept(c, 1) /\ Kept(c, 1) \in {"PreOperational", "Running"}
         /\ NobodyStops(user) => Kept(c, 1) = "PreOperational"
         /\ Fits(Kept(c, 1))
    /\ Place(c, 1) \in {"exception", "raise"} =>
         /\ \/ mTaskState \in {"Stopped", "PreOperational"}
            \/ mTaskState = "Running" /\ mTargetState = "Stopped"
         /\ Fits(mTaskState)
    /\ Place(c, 1) = "raise" => Kept(c, 1) = mTaskState
    /\ Place(c, 1) = "raiseTarget" => mTaskState = "Exception"
    /\ Place(c, 1) \in Raising => mTaskState = "Exception" /\ mTargetState = "Exception"
    /\ Place(c, 1) \in Entering \cup Raising =>
         /\ Kept(c, 1) \in {"PreOperational", "Stopped", "Running"}
         /\ RaisedLife(c, 1)
    /\ Place(c, 1) = "fatal" => mTaskState = "Exception" /\ mTargetState = "Exception"
    /\ Place(c, 1) = "fatalTarget" => mTaskState = "FatalError"

\* The client is where the engine must be in no hook: stop() holds from the return of
\* Thread::stop() on.
Holding(c) == Place(c, 1) \in Held \/ (Place(c, 1) = "restart" /\ Depth(c) = 1 /\ ret[c] = "true")
\* The engine is in a hook, or in the exception() that follows one.
Busy == Depth(Engine) >= 2 \/ (Depth(Engine) = 1 /\ ret[Engine] = "throw")

\* The engine is between two stores of one state.
Halfway == \/ Place(Engine, 2) \in {"raiseTarget", "fatalTarget"}
           \/ Place(Engine, 3) \in {"target", "fatalTarget"}

\* The component is as the states say, and no transition is taking place.
Calm ==
    /\ Halfway \/ mTaskState = mTargetState
    /\ Fits(mTaskState)
    /\ ~NobodyStops(user) /\ mTaskState = "Exception" /\ InitialState = "PreOperational"
         => life = "cleaned"

Rest == (\A c \in Clients : Place(c, 1) \notin Held \cup {"restart", "target"}) => Calm

\* What the engine knows in the calls of a hook or of exception().
EngineState ==
    /\ ~NobodyStops(user) => mTaskState # "RunTimeError"
    /\ Depth(Engine) = 1 /\ ret[Engine] = "throw" =>
         NobodyStops(user) /\ mTaskState \in RunningStates
    /\ Place(Engine, 2) \in Hooks =>
         \/ mTaskState \in RunningStates
         \/ mTaskState = "FatalError" /\ <<Place(Engine, 2), "fatal">> \in MayCall
    /\ Place(Engine, 2) \in {"exception", "raise"} => mTaskState \in RunningStates
    /\ Place(Engine, 2) \in {"raiseTarget"} \cup Raising => mTaskState = "Exception"
    /\ Place(Engine, 2) \in Entering \cup Raising =>
         Kept(Engine, 2) \in RunningStates /\ RaisedLife(Engine, 2)
    /\ Place(Engine, 2) = "fatal" => mTaskState = "Exception"
    /\ Place(Engine, 2) \in {"fatalTarget"} \cup Halting => mTaskState = "FatalError"
    /\ Place(Engine, 3) \in {"store", "target"} => Kept(Engine, 3) \in RunningStates /\ mTaskState \in RunningStates
    /\ Place(Engine, 3) = "target" => mTaskState = Kept(Engine, 3)
    /\ Place(Engine, 3) = "fatalTarget" => mTaskState = "FatalError"

Apart == \A c \in Clients : Holding(c) => ~Busy

Orderly ==
    /\ OneClient /\ (StoppedByClient(user) \/ NobodyStops(user))
    /\ \A c \in Clients : ClientShape(c) /\ ClientState(c)
    /\ EngineShape /\ EngineState
    /\ Rest
    /\ Apart

(***************************************************************************)
(* Unstarted: nobody starts the component.                                 *)
(***************************************************************************)
UnstartedEngine ==
    /\ Depth(Engine) \in 0 .. 4
    /\ Depth(Engine) >= 1 => Place(Engine, 1) \in {"awake", "step", "updated", "handled"}
    /\ ret[Engine] # "throw"
    /\ Depth(Engine) >= 2 =>
         /\ Place(Engine, 1) = "step" /\ Place(Engine, 2) \in {"exception"} \cup Entering \cup Raising
         /\ Place(Engine, 2) # "exception" => Kept(Engine, 2) \in {InitialState, "Exception"}
         /\ "operation" \in MayThrow
    /\ Depth(Engine) >= 3 => Place(Engine, 2) = "raisedHook" /\ Place(Engine, 3) = "exceptionHook"
    /\ Depth(Engine) = 4 => Place(Engine, 4) \in Signals

Unstarted ==
    /\ NotStarted(user)
    /\ {mTaskState, mTargetState} \subseteq {InitialState, "Exception"}
    /\ mTaskState = "Exception" => "operation" \in MayThrow
    /\ ~Racing(user) => IF Place(Engine, 2) = "raiseTarget" THEN mTaskState = "Exception"
                                                            ELSE mTaskState = mTargetState
    /\ \A c \in Clients :
         /\ Depth(c) \in 0 .. 1
         /\ Depth(c) = 1 => Place(c, 1) \in {"error", "target"} \cup Recovering \cup Signals
         /\ Place(c, 1) \in Recovering => "recover" \in ClientOps
         /\ Place(c, 1) \in {"store", "target"} => Racing(user) /\ Kept(c, 1) = InitialState
    /\ UnstartedEngine

IInv == Typed /\ (Orderly \/ Unstarted)

\* The calls of a hook that the code makes.
HookCalled(t, hook) ==
    \/ Configure(t) /\ hook = "configureHook"
    \/ Cleanup(t) /\ hook = "cleanupHook"
    \/ StartTask(t) /\ hook = "startHook"
    \/ Restart(t) /\ hook = "stopHook"
    \/ RaiseStop(t) /\ Saved(t) \in RunningStates /\ hook = "stopHook"
    \/ RaiseClean(t) /\ Saved(t) \in ConfiguredStates /\ InitialState = "PreOperational"
                     /\ hook = "cleanupHook"
    \/ RaiseHook(t) /\ hook = "exceptionHook"
    \/ t = Engine /\ Update /\ mTaskState = "Running" /\ mTargetState = "Running"
                  /\ hook = "updateHook"
    \/ t = Engine /\ HandleError /\ mTaskState = "RunTimeError" /\ hook = "errorHook"

-----------------------------------------------------------------------------
(***************************************************************************)
(* The stacks. A call is counted from the outermost one of its thread, so  *)
(* that a step of the innermost call leaves the others where they are.     *)
(***************************************************************************)

\* What a thread sees of its own stack.
LEMMA TopPlace ==
  ASSUME Stacks, NEW t \in Threads
  PROVE  /\ Depth(t) \in Nat
         /\ (At(t) # "idle" => Depth(t) >= 1)
         /\ Depth(t) >= 1 => At(t) = Place(t, Depth(t)) /\ Saved(t) = Kept(t, Depth(t)) /\ stack[t] # <<>>
         /\ Depth(t) = 0 => At(t) = "idle" /\ stack[t] = <<>>
  BY DEF Stacks, Depth, Place, Kept, At, Saved, Frames

\* The stack below its innermost call, under one call or under two.
LEMMA Topped ==
  ASSUME NEW S, NEW s \in Seq(S), s # <<>>, NEW f \in S
  PROVE  /\ <<f>> \o Tail(s) \in Seq(S)
         /\ Len(<<f>> \o Tail(s)) = Len(s)
         /\ (<<f>> \o Tail(s))[1] = f
         /\ \A i \in 2 .. Len(s) : (<<f>> \o Tail(s))[i] = s[i]
<1>1. /\ Tail(s) \in Seq(S) /\ Len(Tail(s)) = Len(s) - 1
      /\ \A i \in 1 .. Len(Tail(s)) : Tail(s)[i] = s[i + 1]
  BY HeadTailProperties
<1>2. <<f>> \in Seq(S) /\ Len(<<f>>) = 1 /\ <<f>>[1] = f
  OBVIOUS
<1>3. Len(s) \in Nat /\ Len(s) >= 1
  OBVIOUS
<1> DEFINE u == <<f>>
           v == Tail(s)
<1>4. /\ u \o v \in Seq(S) /\ Len(u \o v) = Len(u) + Len(v)
      /\ \A i \in 1 .. Len(u) + Len(v) :
           (u \o v)[i] = IF i <= Len(u) THEN u[i] ELSE v[i - Len(u)]
  BY <1>1, <1>2, ConcatProperties
<1>5. /\ v \in Seq(S) /\ Len(v) = Len(s) - 1
      /\ \A i \in 1 .. Len(v) : v[i] = s[i + 1]
      /\ Len(u) = 1 /\ u[1] = f
  BY <1>1, <1>2
<1> HIDE DEF u, v
<1>6. /\ u \o v \in Seq(S) /\ Len(u \o v) = Len(s) /\ (u \o v)[1] = f
      /\ \A i \in 2 .. Len(s) : (u \o v)[i] = s[i]
  BY <1>3, <1>4, <1>5
<1> QED
  BY <1>6 DEF u, v

\* A call on a stack, above the call that makes it.
LEMMA Called ==
  ASSUME NEW S, NEW s \in Seq(S), s # <<>>, NEW f \in S, NEW g \in S
  PROVE  /\ <<g, f>> \o Tail(s) \in Seq(S)
         /\ Len(<<g, f>> \o Tail(s)) = Len(s) + 1
         /\ (<<g, f>> \o Tail(s))[1] = g
         /\ (<<g, f>> \o Tail(s))[2] = f
         /\ \A i \in 2 .. Len(s) : (<<g, f>> \o Tail(s))[i + 1] = s[i]
<1>1. /\ Tail(s) \in Seq(S) /\ Len(Tail(s)) = Len(s) - 1
      /\ \A i \in 1 .. Len(Tail(s)) : Tail(s)[i] = s[i + 1]
  BY HeadTailProperties
<1>2. /\ <<g, f>> \in Seq(S) /\ Len(<<g, f>>) = 2
      /\ <<g, f>>[1] = g /\ <<g, f>>[2] = f
  OBVIOUS
<1>3. Len(s) \in Nat /\ Len(s) >= 1
  OBVIOUS
<1> DEFINE u == <<g, f>>
           v == Tail(s)
<1>4. /\ u \o v \in Seq(S) /\ Len(u \o v) = Len(u) + Len(v)
      /\ \A i \in 1 .. Len(u) + Len(v) :
           (u \o v)[i] = IF i <= Len(u) THEN u[i] ELSE v[i - Len(u)]
  BY <1>1, <1>2, ConcatProperties
<1>5. /\ v \in Seq(S) /\ Len(v) = Len(s) - 1
      /\ \A i \in 1 .. Len(v) : v[i] = s[i + 1]
      /\ Len(u) = 2 /\ u[1] = g /\ u[2] = f
  BY <1>1, <1>2
<1> HIDE DEF u, v
<1>6. /\ u \o v \in Seq(S) /\ Len(u \o v) = Len(s) + 1 /\ (u \o v)[1] = g
      /\ (u \o v)[2] = f
      /\ \A i \in 2 .. Len(s) : (u \o v)[i + 1] = s[i]
  <2>1. Len(v) \in Nat
    BY <1>5
  <2>2. (u \o v)[1] = g /\ (u \o v)[2] = f
    BY <1>3, <1>4, <1>5, <2>1
  <2>3. ASSUME NEW i \in 2 .. Len(s)
        PROVE  (u \o v)[i + 1] = s[i]
    <3>1. i + 1 \in 1 .. Len(u) + Len(v) /\ ~(i + 1 <= Len(u)) /\ i + 1 - Len(u) = i - 1
      BY <1>3, <1>5
    <3>2. i - 1 \in 1 .. Len(v) /\ (i - 1) + 1 = i
      BY <1>3, <1>5
    <3> QED
      BY <1>4, <1>5, <3>1, <3>2
  <2> QED
    BY <1>3, <1>4, <1>5, <2>2, <2>3
<1> QED
  BY <1>6 DEF u, v

\* A change of the place of the innermost call, counted from the outermost one.
LEMMA MovedView ==
  ASSUME Stacks, NEW t \in Threads, Depth(t) >= 1, NEW f \in Frames,
         stack' = [stack EXCEPT ![t] = <<f>> \o Tail(@)]
  PROVE  /\ Stacks'
         /\ \A u \in Threads : Depth(u)' = Depth(u)
         /\ \A u \in Threads, d \in Nat :
               /\ Kept(u, d)' = IF u = t /\ d = Depth(t) THEN f.saved ELSE Kept(u, d)
               /\ Place(u, d)' = IF u = t /\ d = Depth(t) THEN f.at ELSE Place(u, d)
<1> DEFINE s == stack[t]
           r == <<f>> \o Tail(s)
<1>1. s \in Seq(Frames) /\ s # <<>> /\ Len(s) \in Nat /\ Len(s) >= 1 /\ Depth(t) = Len(s)
  BY DEF Stacks, Depth
<1>2. /\ r \in Seq(Frames) /\ Len(r) = Len(s)
      /\ r[1] = f /\ \A i \in 2 .. Len(s) : r[i] = s[i]
  BY <1>1, Topped
<1> HIDE DEF r
<1>3. stack' = [stack EXCEPT ![t] = r]
  BY DEF r
<1>4. Stacks'
  BY <1>2, <1>3 DEF Stacks
<1>5. stack'[t] = r /\ \A u \in Threads : u # t => stack'[u] = stack[u]
  BY <1>3 DEF Stacks
<1>6. \A u \in Threads : Depth(u)' = Depth(u)
  BY <1>2, <1>5 DEF Depth
<1>7. ASSUME NEW d \in Nat
      PROVE  /\ Kept(t, d)' = IF d = Depth(t) THEN f.saved ELSE Kept(t, d)
             /\ Place(t, d)' = IF d = Depth(t) THEN f.at ELSE Place(t, d)
  <2> HIDE DEF s
  <2>1. CASE d \in 1 .. Len(s)
    <3>1. Len(s) + 1 - d \in 1 .. Len(s) /\ (d # Len(s) => Len(s) + 1 - d \in 2 .. Len(s))
      BY <1>1, <2>1
    <3>2. d = Len(s) => Len(s) + 1 - d = 1
      BY <1>1, <2>1
    <3>3. r[Len(s) + 1 - d] = IF d = Len(s) THEN f ELSE s[Len(s) + 1 - d]
      BY <1>2, <3>1, <3>2
    <3>4. /\ d \in 1 .. Len(stack'[t])
          /\ stack'[t][Len(stack'[t]) + 1 - d] = IF d = Len(s) THEN f ELSE s[Len(s) + 1 - d]
      BY <1>2, <1>5, <2>1, <3>3
    <3>5. Kept(t, d)' = IF d = Len(s) THEN f.saved ELSE Kept(t, d)
      BY <2>1, <3>4 DEF Kept, s
    <3>6. Place(t, d)' = IF d = Len(s) THEN f.at ELSE Place(t, d)
      BY <2>1, <3>4 DEF Place, s
    <3> QED
      BY <1>1, <3>5, <3>6
  <2>2. CASE d \notin 1 .. Len(s)
    BY <1>1, <1>2, <1>5, <2>2 DEF Kept, Place, s
  <2> QED
    BY <2>1, <2>2
<1>8. ASSUME NEW u \in Threads, u # t, NEW d \in Nat
      PROVE  Kept(u, d)' = Kept(u, d) /\ Place(u, d)' = Place(u, d)
  BY <1>5, <1>8 DEF Kept, Place
<1> QED
  BY <1>4, <1>6, <1>7, <1>8

\* The same for Goto ...
LEMMA GotoView ==
  ASSUME Stacks, NEW t \in Threads, NEW at \in Places, Depth(t) >= 1, Goto(t, at)
  PROVE  /\ Stacks'
         /\ \A u \in Threads : Depth(u)' = Depth(u)
         /\ \A u \in Threads, d \in Nat :
               /\ Kept(u, d)' = Kept(u, d)
               /\ Place(u, d)' = IF u = t /\ d = Depth(t) THEN at ELSE Place(u, d)
<1> DEFINE f == [Head(stack[t]) EXCEPT !.at = at]
<1>1. stack[t] \in Seq(Frames) /\ stack[t] # <<>> /\ stack[t][1] \in Frames
  BY DEF Stacks, Depth
<1>2. f \in Frames /\ f.at = at /\ f.saved = stack[t][1].saved
  <2>1. Head(stack[t]) = stack[t][1]
    BY <1>1
  <2> QED
    BY <1>1, <2>1 DEF Frames
<1>3. stack' = [stack EXCEPT ![t] = <<f>> \o Tail(@)]
  BY DEF Goto
<1>4. f.saved = Kept(t, Depth(t))
  BY <1>1, <1>2 DEF Kept, Depth
<1> HIDE DEF f
<1>5. /\ Stacks'
      /\ \A u \in Threads : Depth(u)' = Depth(u)
      /\ \A u \in Threads, d \in Nat :
            /\ Kept(u, d)' = IF u = t /\ d = Depth(t) THEN f.saved ELSE Kept(u, d)
            /\ Place(u, d)' = IF u = t /\ d = Depth(t) THEN f.at ELSE Place(u, d)
  BY <1>2, <1>3, MovedView
<1> QED
  BY <1>2, <1>4, <1>5

\* ... for Enter ...
LEMMA EnterView ==
  ASSUME Stacks, NEW t \in Threads, NEW at \in Places, NEW s \in TaskState \cup {"none"},
         Depth(t) >= 1, Enter(t, at, s)
  PROVE  /\ Stacks'
         /\ \A u \in Threads : Depth(u)' = Depth(u)
         /\ \A u \in Threads, d \in Nat :
               /\ Kept(u, d)' = IF u = t /\ d = Depth(t) THEN s ELSE Kept(u, d)
               /\ Place(u, d)' = IF u = t /\ d = Depth(t) THEN at ELSE Place(u, d)
<1> DEFINE f == [at |-> at, saved |-> s]
<1>1. f \in Frames /\ f.at = at /\ f.saved = s
  BY DEF Frames
<1>2. stack' = [stack EXCEPT ![t] = <<f>> \o Tail(@)]
  BY DEF Enter
<1> HIDE DEF f
<1>3. /\ Stacks'
      /\ \A u \in Threads : Depth(u)' = Depth(u)
      /\ \A u \in Threads, d \in Nat :
            /\ Kept(u, d)' = IF u = t /\ d = Depth(t) THEN f.saved ELSE Kept(u, d)
            /\ Place(u, d)' = IF u = t /\ d = Depth(t) THEN f.at ELSE Place(u, d)
  BY <1>1, <1>2, MovedView
<1> QED
  BY <1>1, <1>3

\* ... for a new call above a changed one ...
LEMMA CalledView ==
  ASSUME Stacks, NEW t \in Threads, Depth(t) >= 1, NEW f \in Frames, NEW g \in Frames,
         stack' = [stack EXCEPT ![t] = <<g, f>> \o Tail(@)]
  PROVE  /\ Stacks'
         /\ \A u \in Threads : Depth(u)' = IF u = t THEN Depth(t) + 1 ELSE Depth(u)
         /\ \A u \in Threads, d \in Nat :
               /\ Kept(u, d)' = IF u = t /\ d = Depth(t) THEN f.saved
                                ELSE IF u = t /\ d = Depth(t) + 1 THEN g.saved ELSE Kept(u, d)
               /\ Place(u, d)' = IF u = t /\ d = Depth(t) THEN f.at
                                 ELSE IF u = t /\ d = Depth(t) + 1 THEN g.at ELSE Place(u, d)
<1> DEFINE s == stack[t]
           r == <<g, f>> \o Tail(s)
<1>1. s \in Seq(Frames) /\ s # <<>> /\ Len(s) \in Nat /\ Len(s) >= 1 /\ Depth(t) = Len(s)
  BY DEF Stacks, Depth
<1>2. /\ r \in Seq(Frames) /\ Len(r) = Len(s) + 1
      /\ r[1] = g /\ r[2] = f /\ \A i \in 2 .. Len(s) : r[i + 1] = s[i]
  BY <1>1, Called
<1> HIDE DEF r
<1>3. stack' = [stack EXCEPT ![t] = r]
  BY DEF r
<1>4. Stacks'
  BY <1>2, <1>3 DEF Stacks
<1>5. stack'[t] = r /\ \A u \in Threads : u # t => stack'[u] = stack[u]
  BY <1>3 DEF Stacks
<1>6. \A u \in Threads : Depth(u)' = IF u = t THEN Depth(t) + 1 ELSE Depth(u)
  BY <1>1, <1>2, <1>5 DEF Depth
<1>7. ASSUME NEW d \in Nat
      PROVE  /\ Kept(t, d)' = IF d = Depth(t) THEN f.saved
                                ELSE IF d = Depth(t) + 1 THEN g.saved ELSE Kept(t, d)
             /\ Place(t, d)' = IF d = Depth(t) THEN f.at
                                 ELSE IF d = Depth(t) + 1 THEN g.at ELSE Place(t, d)
  <2> HIDE DEF s
  <2>1. CASE d \in 1 .. Len(s)
    <3>1. Len(s) + 1 - d \in 1 .. Len(s) /\ (d # Len(s) => Len(s) + 1 - d \in 2 .. Len(s))
      BY <1>1, <2>1
    <3>2. d = Len(s) => Len(s) + 2 - d = 2
      BY <1>1, <2>1
    <3>3. r[Len(s) + 2 - d] = IF d = Len(s) THEN f ELSE s[Len(s) + 1 - d]
      <4>1. Len(s) + 2 - d = (Len(s) + 1 - d) + 1
        BY <1>1, <2>1
      <4> QED
        BY <1>2, <3>1, <3>2, <4>1
    <3>4. d \in 1 .. Len(r) /\ Len(r) + 1 - d = Len(s) + 2 - d /\ d # Depth(t) + 1
      BY <1>1, <1>2, <2>1
    <3>5. /\ d \in 1 .. Len(stack'[t])
          /\ stack'[t][Len(stack'[t]) + 1 - d] = IF d = Len(s) THEN f ELSE s[Len(s) + 1 - d]
      BY <1>5, <3>3, <3>4
    <3>6. Kept(t, d)' = IF d = Len(s) THEN f.saved ELSE Kept(t, d)
      BY <2>1, <3>5 DEF Kept, s
    <3>7. Place(t, d)' = IF d = Len(s) THEN f.at ELSE Place(t, d)
      BY <2>1, <3>5 DEF Place, s
    <3> QED
      BY <1>1, <3>4, <3>6, <3>7
  <2>2. CASE d = Len(s) + 1
    <3>1. d \in 1 .. Len(r) /\ Len(r) + 1 - d = 1 /\ d # Len(s)
      BY <1>1, <1>2, <2>2
    <3>2. d \in 1 .. Len(stack'[t]) /\ stack'[t][Len(stack'[t]) + 1 - d] = g
      BY <1>2, <1>5, <3>1
    <3>3. d # Depth(t) /\ d = Depth(t) + 1
      BY <1>1, <2>2, <3>1
    <3>4. Kept(t, d)' = g.saved
      BY <3>2 DEF Kept
    <3>5. Place(t, d)' = g.at
      BY <3>2 DEF Place
    <3> QED
      BY <3>3, <3>4, <3>5
  <2>3. CASE d \notin 1 .. Len(s) + 1
    BY <1>1, <1>2, <1>5, <2>3 DEF Kept, Place, s
  <2> QED
    BY <1>1, <2>1, <2>2, <2>3
<1>8. ASSUME NEW u \in Threads, u # t, NEW d \in Nat
      PROVE  Kept(u, d)' = Kept(u, d) /\ Place(u, d)' = Place(u, d)
  BY <1>5, <1>8 DEF Kept, Place
<1> QED
  BY <1>4, <1>6, <1>7, <1>8

\* ... for Call ...
LEMMA CallView ==
  ASSUME Stacks, NEW t \in Threads, NEW callee \in Places, NEW at \in Places, Depth(t) >= 1,
         Call(t, callee, at)
  PROVE  /\ Stacks'
         /\ \A u \in Threads : Depth(u)' = IF u = t THEN Depth(t) + 1 ELSE Depth(u)
         /\ \A u \in Threads, d \in Nat :
               /\ Kept(u, d)' = IF u = t /\ d = Depth(t) + 1 THEN "none" ELSE Kept(u, d)
               /\ Place(u, d)' = IF u = t /\ d = Depth(t) THEN at
                                 ELSE IF u = t /\ d = Depth(t) + 1 THEN callee ELSE Place(u, d)
<1> DEFINE f == [Head(stack[t]) EXCEPT !.at = at]
           g == Frame(callee)
<1>1. stack[t] \in Seq(Frames) /\ stack[t] # <<>> /\ stack[t][1] \in Frames
  BY DEF Stacks, Depth
<1>2. f \in Frames /\ f.at = at /\ f.saved = stack[t][1].saved
  <2>1. Head(stack[t]) = stack[t][1]
    BY <1>1
  <2> QED
    BY <1>1, <2>1 DEF Frames
<1>3. stack' = [stack EXCEPT ![t] = <<g, f>> \o Tail(@)]
  BY DEF Call
<1>4. f.saved = Kept(t, Depth(t)) /\ Depth(t) \in Nat
  BY <1>1, <1>2 DEF Kept, Depth
<1>5. g \in Frames /\ g.at = callee /\ g.saved = "none"
  BY DEF Frame, Frames
<1> HIDE DEF f, g
<1>6. /\ Stacks'
      /\ \A u \in Threads : Depth(u)' = IF u = t THEN Depth(t) + 1 ELSE Depth(u)
      /\ \A u \in Threads, d \in Nat :
            /\ Kept(u, d)' = IF u = t /\ d = Depth(t) THEN f.saved
                             ELSE IF u = t /\ d = Depth(t) + 1 THEN g.saved ELSE Kept(u, d)
            /\ Place(u, d)' = IF u = t /\ d = Depth(t) THEN f.at
                              ELSE IF u = t /\ d = Depth(t) + 1 THEN g.at ELSE Place(u, d)
  BY <1>2, <1>3, <1>5, CalledView
<1>7. Depth(t) # Depth(t) + 1
  BY <1>4
<1> QED
  BY <1>2, <1>4, <1>5, <1>6, <1>7

\* ... and for Return.
LEMMA ReturnView ==
  ASSUME Stacks, NEW t \in Threads, Depth(t) >= 1, NEW r, Return(t, r)
  PROVE  /\ Stacks'
         /\ \A u \in Threads : Depth(u)' = IF u = t THEN Depth(t) - 1 ELSE Depth(u)
         /\ \A u \in Threads, d \in Nat :
               /\ Kept(u, d)' = IF u = t /\ d = Depth(t) THEN "idle" ELSE Kept(u, d)
               /\ Place(u, d)' = IF u = t /\ d = Depth(t) THEN "idle" ELSE Place(u, d)
<1> DEFINE s == stack[t]
           z == Tail(s)
<1>1. s \in Seq(Frames) /\ s # <<>> /\ Len(s) \in Nat /\ Len(s) >= 1 /\ Depth(t) = Len(s)
  BY DEF Stacks, Depth
<1>2. /\ z \in Seq(Frames) /\ Len(z) = Len(s) - 1
      /\ \A i \in 1 .. Len(z) : z[i] = s[i + 1]
  BY <1>1, HeadTailProperties
<1> HIDE DEF z
<1>3. stack' = [stack EXCEPT ![t] = z]
  BY DEF z, Return
<1>4. Stacks'
  BY <1>2, <1>3 DEF Stacks
<1>5. stack'[t] = z /\ \A u \in Threads : u # t => stack'[u] = stack[u]
  BY <1>3 DEF Stacks
<1>6. \A u \in Threads : Depth(u)' = IF u = t THEN Depth(t) - 1 ELSE Depth(u)
  BY <1>1, <1>2, <1>5 DEF Depth
<1>7. ASSUME NEW d \in Nat
      PROVE  /\ Kept(t, d)' = IF d = Depth(t) THEN "idle" ELSE Kept(t, d)
             /\ Place(t, d)' = IF d = Depth(t) THEN "idle" ELSE Place(t, d)
  <2> HIDE DEF s
  <2>1. CASE d \in 1 .. Len(z)
    <3>1. Len(z) + 1 - d \in 1 .. Len(z) /\ (Len(z) + 1 - d) + 1 = Len(s) + 1 - d
      BY <1>1, <1>2, <2>1
    <3>2. z[Len(z) + 1 - d] = s[Len(s) + 1 - d]
      BY <1>2, <3>1
    <3>3. d \in 1 .. Len(s) /\ d # Len(s)
      BY <1>1, <1>2, <2>1
    <3> QED
      BY <1>1, <1>5, <2>1, <3>2, <3>3 DEF Kept, Place, s
  <2>2. CASE d \notin 1 .. Len(z)
    BY <1>1, <1>2, <1>5, <2>2 DEF Kept, Place, s
  <2> QED
    BY <2>1, <2>2
<1>8. ASSUME NEW u \in Threads, u # t, NEW d \in Nat
      PROVE  Kept(u, d)' = Kept(u, d) /\ Place(u, d)' = Place(u, d)
  BY <1>5, <1>8 DEF Kept, Place
<1> QED
  BY <1>4, <1>6, <1>7, <1>8

\* A thread that is in no call makes one.
LEMMA FirstView ==
  ASSUME Stacks, NEW t \in Threads, stack[t] = <<>>, NEW op \in Places,
         stack' = [stack EXCEPT ![t] = <<Frame(op)>>]
  PROVE  /\ Stacks'
         /\ \A u \in Threads : Depth(u)' = IF u = t THEN 1 ELSE Depth(u)
         /\ \A u \in Threads, d \in Nat :
               /\ Kept(u, d)' = IF u = t /\ d = 1 THEN "none" ELSE Kept(u, d)
               /\ Place(u, d)' = IF u = t /\ d = 1 THEN op ELSE Place(u, d)
<1>1. /\ Frame(op) \in Frames /\ Frame(op).at = op /\ Frame(op).saved = "none"
      /\ <<Frame(op)>> \in Seq(Frames)
  BY DEF Frame, Frames
<1>2. Stacks'
  BY <1>1 DEF Stacks
<1>3. stack'[t] = <<Frame(op)>> /\ \A u \in Threads : u # t => stack'[u] = stack[u]
  BY DEF Stacks
<1>4. \A u \in Threads : Depth(u)' = IF u = t THEN 1 ELSE Depth(u)
  BY <1>3 DEF Depth
<1>5. ASSUME NEW d \in Nat
      PROVE  /\ Kept(t, d)' = IF d = 1 THEN "none" ELSE Kept(t, d)
             /\ Place(t, d)' = IF d = 1 THEN op ELSE Place(t, d)
  BY <1>1, <1>3 DEF Kept, Place
<1>6. ASSUME NEW u \in Threads, u # t, NEW d \in Nat
      PROVE  Kept(u, d)' = Kept(u, d) /\ Place(u, d)' = Place(u, d)
  BY <1>3, <1>6 DEF Kept, Place
<1> QED
  BY <1>2, <1>4, <1>5, <1>6

\* The views again, in the form the steps use: the other threads stay where they are.
LEMMA Going ==
  ASSUME Stacks, NEW t \in Threads, NEW at \in Places, Depth(t) >= 1, Goto(t, at)
  PROVE  /\ Stacks'
         /\ \A u \in Threads : u # t => Stays(u)
         /\ Depth(t)' = Depth(t)
         /\ \A d \in 1 .. 4 : /\ Kept(t, d)' = Kept(t, d)
                              /\ Place(t, d)' = IF d = Depth(t) THEN at ELSE Place(t, d)
  BY GotoView DEF Stays

\* The same for Enter ...
LEMMA Keeping ==
  ASSUME Stacks, NEW t \in Threads, NEW at \in Places, NEW s \in TaskState \cup {"none"},
         Depth(t) >= 1, Enter(t, at, s)
  PROVE  /\ Stacks'
         /\ \A u \in Threads : u # t => Stays(u)
         /\ Depth(t)' = Depth(t)
         /\ \A d \in 1 .. 4 : /\ Kept(t, d)' = IF d = Depth(t) THEN s ELSE Kept(t, d)
                              /\ Place(t, d)' = IF d = Depth(t) THEN at ELSE Place(t, d)
  BY EnterView DEF Stays

\* ... for Call ...
LEMMA Calling ==
  ASSUME Stacks, NEW t \in Threads, NEW callee \in Places, NEW at \in Places, Depth(t) >= 1,
         Call(t, callee, at)
  PROVE  /\ Stacks'
         /\ \A u \in Threads : u # t => Stays(u)
         /\ Depth(t)' = Depth(t) + 1
         /\ \A d \in 1 .. 4 :
               /\ Kept(t, d)' = IF d = Depth(t) + 1 THEN "none" ELSE Kept(t, d)
               /\ Place(t, d)' = IF d = Depth(t) THEN at
                                 ELSE IF d = Depth(t) + 1 THEN callee ELSE Place(t, d)
  BY CallView DEF Stays

\* ... for Return ...
LEMMA Returning ==
  ASSUME Stacks, NEW t \in Threads, Depth(t) >= 1, NEW r, Return(t, r)
  PROVE  /\ Stacks'
         /\ \A u \in Threads : u # t => Stays(u)
         /\ Depth(t)' = Depth(t) - 1
         /\ \A d \in 1 .. 4 :
               /\ Kept(t, d)' = IF d = Depth(t) THEN "idle" ELSE Kept(t, d)
               /\ Place(t, d)' = IF d = Depth(t) THEN "idle" ELSE Place(t, d)
  BY ReturnView DEF Stays

\* ... for the first call of a thread ...
LEMMA Beginning ==
  ASSUME Stacks, NEW t \in Threads, stack[t] = <<>>, NEW op \in Places,
         stack' = [stack EXCEPT ![t] = <<Frame(op)>>]
  PROVE  /\ \A u \in Threads : u # t => Stays(u)
         /\ Depth(t)' = 1 /\ Place(t, 1)' = op
         /\ \A d \in 2 .. 4 : Place(t, d)' = "idle"
<1>1. /\ \A u \in Threads : Depth(u)' = IF u = t THEN 1 ELSE Depth(u)
      /\ \A u \in Threads, d \in Nat :
           /\ Kept(u, d)' = IF u = t /\ d = 1 THEN "none" ELSE Kept(u, d)
           /\ Place(u, d)' = IF u = t /\ d = 1 THEN op ELSE Place(u, d)
  BY FirstView
<1>2. \A u \in Threads : u # t => Stays(u)
  BY <1>1 DEF Stays
<1>3. Depth(t)' = 1 /\ Place(t, 1)' = op
  BY <1>1
<1>4. ASSUME NEW d \in 2 .. 4
      PROVE  Place(t, d)' = "idle"
  <2>1. Len(stack[t]) = 0 /\ d \notin 1 .. Len(stack[t])
    OBVIOUS
  <2>2. Place(t, d) = "idle"
    BY <2>1 DEF Place
  <2> QED
    BY <1>1, <2>2
<1> QED
  BY <1>2, <1>3, <1>4

\* ... and for a step that leaves the stacks alone.
LEMMA Staying ==
  ASSUME UNCHANGED stack
  PROVE  /\ Stacks' = Stacks
         /\ \A u : Stays(u)
         /\ \A u, d : Place(u, d)' = Place(u, d) /\ Kept(u, d)' = Kept(u, d)
  BY DEF Stacks, Stays, Depth, Place, Kept

\* The thread of the engine is no client.
LEMMA ThreadsDiffer == Engine \in Threads /\ Engine \notin Clients /\ Clients \subseteq Threads
  BY TaskCoreAssumption DEF Threads

\* A step that goes to no place of Saving leaves what has been saved, and so does one
\* from such a place.
LEMMA SavesKept ==
  ASSUME Stacks, Saves, NEW t \in Threads
  PROVE  /\ \A at \in Places \ Saving : Depth(t) >= 1 /\ Goto(t, at) => Stacks' /\ Saves'
         /\ \A at \in Places : Depth(t) >= 1 /\ Kept(t, Depth(t)) \in TaskState /\ Goto(t, at)
              => Stacks' /\ Saves'
         /\ \A at \in Places, s \in TaskState : Depth(t) >= 1 /\ Enter(t, at, s) => Stacks' /\ Saves'
         /\ \A callee, at \in Places \ Saving : Depth(t) >= 1 /\ Call(t, callee, at) => Stacks' /\ Saves'
         /\ \A r : Depth(t) >= 1 /\ Return(t, r) => Stacks' /\ Saves'
         /\ \A op \in Operations : stack[t] = <<>> /\ stack' = [stack EXCEPT ![t] = <<Frame(op)>>] => Stacks' /\ Saves'
<1>1. ASSUME NEW at \in Places \ Saving, Depth(t) >= 1, Goto(t, at)
      PROVE  Stacks' /\ Saves'
  <2>1. /\ Stacks'
        /\ \A u \in Threads, d \in Nat :
               /\ Kept(u, d)' = Kept(u, d)
               /\ Place(u, d)' = IF u = t /\ d = Depth(t) THEN at ELSE Place(u, d)
    BY <1>1, GotoView
  <2> QED
    BY <2>1 DEF Saves
<1>2. ASSUME NEW callee \in Places \ Saving, NEW at \in Places \ Saving, Depth(t) >= 1,
             Call(t, callee, at)
      PROVE  Stacks' /\ Saves'
  <2>1. /\ Stacks'
        /\ \A u \in Threads, d \in Nat :
               /\ Kept(u, d)' = IF u = t /\ d = Depth(t) + 1 THEN "none" ELSE Kept(u, d)
               /\ Place(u, d)' = IF u = t /\ d = Depth(t) THEN at
                                 ELSE IF u = t /\ d = Depth(t) + 1 THEN callee ELSE Place(u, d)
    BY <1>2, CallView
  <2>2. Depth(t) \in Nat
    BY TopPlace
  <2> QED
    BY <2>1, <2>2 DEF Saves
<1>3. ASSUME NEW r, Depth(t) >= 1, Return(t, r)
      PROVE  Stacks' /\ Saves'
  <2>1. /\ Stacks'
        /\ \A u \in Threads, d \in Nat :
               /\ Kept(u, d)' = IF u = t /\ d = Depth(t) THEN "idle" ELSE Kept(u, d)
               /\ Place(u, d)' = IF u = t /\ d = Depth(t) THEN "idle" ELSE Place(u, d)
    BY <1>3, ReturnView
  <2> QED
    BY <2>1 DEF Saves, Saving
<1>4. ASSUME NEW op \in Operations, stack[t] = <<>>, stack' = [stack EXCEPT ![t] = <<Frame(op)>>]
      PROVE  Stacks' /\ Saves'
  <2>1. op \in Places /\ op \notin Saving
    BY DEF Places, Operations, Saving
  <2>2. /\ Stacks'
        /\ \A u \in Threads, d \in Nat :
               /\ Kept(u, d)' = IF u = t /\ d = 1 THEN "none" ELSE Kept(u, d)
               /\ Place(u, d)' = IF u = t /\ d = 1 THEN op ELSE Place(u, d)
    BY <1>4, <2>1, FirstView
  <2> QED
    BY <2>1, <2>2 DEF Saves
<1>5. ASSUME NEW at \in Places, Depth(t) >= 1, Kept(t, Depth(t)) \in TaskState, Goto(t, at)
      PROVE  Stacks' /\ Saves'
  <2>1. /\ Stacks'
        /\ \A u \in Threads, d \in Nat :
               /\ Kept(u, d)' = Kept(u, d)
               /\ Place(u, d)' = IF u = t /\ d = Depth(t) THEN at ELSE Place(u, d)
    BY <1>5, GotoView
  <2> QED
    BY <1>5, <2>1 DEF Saves
<1>6. ASSUME NEW at \in Places, NEW s \in TaskState, Depth(t) >= 1, Enter(t, at, s)
      PROVE  Stacks' /\ Saves'
  <2>1. /\ Stacks'
        /\ \A u \in Threads, d \in Nat :
               /\ Kept(u, d)' = IF u = t /\ d = Depth(t) THEN s ELSE Kept(u, d)
               /\ Place(u, d)' = IF u = t /\ d = Depth(t) THEN at ELSE Place(u, d)
    BY <1>6, EnterView
  <2> QED
    BY <2>1 DEF Saves
<1> QED
  BY <1>1, <1>2, <1>3, <1>4, <1>5, <1>6

\* An action is in a call of its thread.
LEMMA Active ==
  ASSUME Stacks, NEW t \in Threads, At(t) # "idle"
  PROVE  Depth(t) \in Nat /\ Depth(t) >= 1 /\ Saved(t) = Kept(t, Depth(t))
         /\ At(t) = Place(t, Depth(t)) /\ Saved(t) \in TaskState \cup {"none"} /\ At(t) \in Places
<1>1. /\ stack[t] \in Seq(Frames) /\ stack[t] # <<>>
  BY TopPlace DEF Stacks
<1>2. Head(stack[t]) \in Frames
  BY <1>1, HeadTailProperties
<1>3. Saved(t) \in TaskState \cup {"none"} /\ At(t) \in Places
  BY <1>1, <1>2 DEF Frames, Saved, At
<1> QED
  BY <1>3, TopPlace

-----------------------------------------------------------------------------
(***************************************************************************)
(* Types. They hold of every program.                                      *)
(***************************************************************************)

\* What a thread does in a call keeps the types ...
LEMMA TypedProgress ==
  ASSUME Typed, NEW t \in Threads, Progress(t), UNCHANGED user
  PROVE  Typed'
<1> USE DEF Typed
<1> DEFINE Moved == Stacks' /\ Saves' /\ ret' \in [Threads -> Returns]
<1>0. SUFFICES ASSUME At(t) # "idle"
               PROVE  Typed'
  BY DEF Progress, Activate, Trigger, HaltInactive, Halt, HaltFails, Halted, HookReturns,
     HookThrows, Catch, NotAllowed, Configure, Configured, ConfigureFailed, Cleanup, Cleaned,
     Recover, NoException, RecoverError, Error, Store, Target, Fatal, FatalTarget, StartTask,
     Started, StartFailed, StopTask, Restart, StopFailed, Stopped, Raise, RaiseState, RaiseTarget,
     RaiseStop, RaiseClean, RaiseHook, Raised, RaiseFatal, Hooks
<1>1. /\ Depth(t) \in Nat /\ Depth(t) >= 1 /\ At(t) = Place(t, Depth(t))
      /\ Saved(t) = Kept(t, Depth(t)) /\ At(t) \in Places
      /\ Saved(t) \in TaskState \cup {"none"}
  BY <1>0, Active
<1>2. ASSUME NEW r \in Returns, Return(t, r)
      PROVE  Moved
  BY <1>1, <1>2, SavesKept DEF Return
<1>3. ASSUME NEW at \in Places \ Saving, Goto(t, at), ret' \in [Threads -> Returns]
      PROVE  Moved
  BY <1>1, <1>3, SavesKept
<1>4. ASSUME NEW callee \in Places \ Saving, NEW at \in Places \ Saving,
             Call(t, callee, at), UNCHANGED ret
      PROVE  Moved
  BY <1>1, <1>4, SavesKept
<1>5. InitialState \in TaskState
  BY TaskCoreAssumption DEF IsProgram, InitialState, TaskState
<1>41. ASSUME NEW at \in Places, NEW s \in TaskState, Enter(t, at, s), ret' \in [Threads -> Returns]
      PROVE  Moved
  BY <1>1, <1>41, SavesKept
<1>42. ASSUME NEW at \in Places, At(t) \in Saving, Goto(t, at), ret' \in [Threads -> Returns]
      PROVE  Moved
  <2>1. Kept(t, Depth(t)) \in TaskState
    BY <1>1, <1>42 DEF Saves
  <2> QED
    BY <1>1, <1>42, <2>1, SavesKept
<1>43. At(t) \in Saving => Saved(t) \in TaskState
  BY <1>1 DEF Saves
<1> HIDE DEF Moved
<1>6. ASSUME Moved, UNCHANGED <<states, activity, life>>
      PROVE  Typed'
  BY <1>6 DEF Moved, states, activity
<1>7. ASSUME Moved, mTaskState' \in TaskState, mTargetState' \in TaskState,
             UNCHANGED <<activity, life>>
      PROVE  Typed'
  BY <1>7 DEF Moved, activity
<1>8. ASSUME Moved, active' \in BOOLEAN, running' \in BOOLEAN, sem' \in BOOLEAN,
             UNCHANGED <<states, life>>
      PROVE  Typed'
  BY <1>8 DEF Moved, states
<1>9. /\ "true" \in Returns /\ "false" \in Returns /\ "none" \in Returns /\ "throw" \in Returns
      /\ ret[t] \in Returns
  BY DEF Returns
<1>10. CASE Activate(t)
  BY <1>2, <1>8, <1>9, <1>10 DEF Activate, Start
<1>11. CASE Trigger(t)
  BY <1>2, <1>8, <1>9, <1>11 DEF Trigger, Start, activity
<1>12. CASE HaltInactive(t)
  BY <1>2, <1>6, <1>9, <1>12 DEF HaltInactive
<1>13. CASE Halt(t)
  BY <1>3, <1>8, <1>13 DEF Halt, Places, Saving
<1>14. CASE HaltFails(t)
  BY <1>2, <1>8, <1>9, <1>14 DEF HaltFails
<1>15. CASE Halted(t)
  BY <1>2, <1>8, <1>9, <1>15 DEF Halted
<1>16. ASSUME NEW r \in {"true", "false"}, HookReturns(t, r)
       PROVE  Typed'
  <2>1. Moved
    BY <1>2, <1>9, <1>16 DEF HookReturns
  <2>2. life' \in {"cleaned", "configured", "started"}
    BY <1>16 DEF HookReturns, LifeAfter
  <2> QED
    BY <1>16, <2>1, <2>2 DEF HookReturns, Moved, states, activity
<1>17. CASE HookThrows(t)
  BY <1>2, <1>6, <1>9, <1>17 DEF HookThrows
<1>18. CASE Catch(t)
  BY <1>3, <1>6, <1>18 DEF Catch, Places, Operations, Saving
<1>19. CASE NotAllowed(t)
  BY <1>2, <1>6, <1>9, <1>19 DEF NotAllowed
<1>20. CASE Configure(t)
  <2>1. Moved
    BY <1>4, <1>20 DEF Configure, Places, Hooks, Saving
  <2> QED
    BY <1>7, <1>20, <2>1 DEF Configure, SetTarget, TaskState
<1>21. CASE Configured(t)
  BY <1>2, <1>7, <1>9, <1>21 DEF Configured, SetState, TaskState
<1>44. CASE ConfigureFailed(t)
  <2>1. "PreOperational" \in TaskState /\ "target" \in Places
    BY DEF TaskState, Places
  <2> QED
    BY <1>7, <1>41, <1>44, <2>1 DEF ConfigureFailed, SetState
<1>22. CASE Cleanup(t)
  <2>1. Moved
    BY <1>4, <1>22 DEF Cleanup, Places, Hooks, Saving
  <2> QED
    BY <1>7, <1>22, <2>1 DEF Cleanup, SetTarget, TaskState
<1>23. CASE Cleaned(t)
  BY <1>2, <1>7, <1>9, <1>23 DEF Cleaned, SetState, TaskState
<1>24. CASE Recover(t)
  <2>1. "store" \in Places
    BY DEF Places
  <2> QED
    BY <1>5, <1>6, <1>24, <1>41, <2>1 DEF Recover
<1>45. CASE NoException(t)
  BY <1>3, <1>6, <1>45 DEF NoException, Places, Saving
<1>46. CASE RecoverError(t)
  <2>1. "Running" \in TaskState /\ "store" \in Places
    BY DEF TaskState, Places
  <2> QED
    BY <1>6, <1>41, <1>46, <2>1 DEF RecoverError
<1>25. CASE Error(t)
  <2>1. "RunTimeError" \in TaskState /\ "store" \in Places
    BY DEF TaskState, Places
  <2> QED
    BY <1>6, <1>25, <1>41, <2>1 DEF Error
<1>26. CASE Store(t)
  <2>1. "target" \in Places /\ At(t) \in Saving
    BY <1>26 DEF Store, Places, Saving
  <2> QED
    BY <1>7, <1>9, <1>26, <1>42, <1>43, <2>1 DEF Store, SetState
<1>47. CASE Target(t)
  <2>1. At(t) \in Saving
    BY <1>47 DEF Target, Saving
  <2> QED
    BY <1>2, <1>7, <1>9, <1>43, <1>47, <2>1 DEF Target, SetTarget
<1>27. CASE Fatal(t)
  BY <1>3, <1>7, <1>27 DEF Fatal, SetState, TaskState, Places, Saving
<1>48. CASE FatalTarget(t)
  BY <1>3, <1>7, <1>48 DEF FatalTarget, SetTarget, TaskState, Places, Saving
<1>28. CASE StartTask(t)
  <2>1. Moved
    BY <1>4, <1>28 DEF StartTask, Places, Hooks, Saving
  <2> QED
    BY <1>7, <1>28, <2>1 DEF StartTask, SetTarget, TaskState
<1>29. CASE Started(t)
  BY <1>3, <1>7, <1>29 DEF Started, SetState, TaskState, Places, Operations, Saving
<1>30. CASE StartFailed(t)
  BY <1>2, <1>7, <1>9, <1>30 DEF StartFailed, SetTarget, TaskState
<1>31. CASE StopTask(t)
  <2> DEFINE f == [at |-> "restart", saved |-> mTaskState]
             g == Frame("halt")
  <2>1. /\ f \in Frames /\ g \in Frames
        /\ f.at = "restart" /\ f.saved = mTaskState /\ g.at = "halt"
    BY DEF Frames, Frame, Places
  <2>2. stack' = [stack EXCEPT ![t] = <<g, f>> \o Tail(@)]
    BY <1>31 DEF StopTask
  <2> HIDE DEF f, g
  <2>3. /\ Stacks'
        /\ \A u \in Threads, d \in Nat :
             /\ Kept(u, d)' = IF u = t /\ d = Depth(t) THEN f.saved
                              ELSE IF u = t /\ d = Depth(t) + 1 THEN g.saved ELSE Kept(u, d)
             /\ Place(u, d)' = IF u = t /\ d = Depth(t) THEN f.at
                               ELSE IF u = t /\ d = Depth(t) + 1 THEN g.at ELSE Place(u, d)
    BY <1>1, <2>1, <2>2, CalledView
  <2>4. Moved
    BY <1>1, <1>31, <2>1, <2>3 DEF Saves, Saving, StopTask, Moved
  <2> QED
    BY <1>7, <1>31, <2>4 DEF StopTask, SetTarget, TaskState
<1>32. CASE Restart(t)
  <2>1. Moved
    BY <1>4, <1>32 DEF Restart, Places, Hooks, Saving
  <2> QED
    BY <1>8, <1>32, <2>1 DEF Restart, Start
<1>33. CASE StopFailed(t)
  <2>1. "target" \in Places /\ At(t) \in Saving
    BY <1>33 DEF StopFailed, Places, Saving
  <2> QED
    BY <1>7, <1>33, <1>42, <1>43, <2>1 DEF StopFailed, SetState
<1>34. CASE Stopped(t)
  BY <1>2, <1>7, <1>9, <1>34 DEF Stopped, SetState, TaskState
<1>35. CASE Raise(t)
  <2>1. "raise" \in Places
    BY DEF Places
  <2> QED
    BY <1>6, <1>9, <1>35, <1>41, <2>1 DEF Raise
<1>49. CASE RaiseState(t)
  BY <1>3, <1>7, <1>49 DEF RaiseState, SetState, TaskState, Places, Saving
<1>50. CASE RaiseTarget(t)
  BY <1>3, <1>7, <1>50 DEF RaiseTarget, SetTarget, TaskState, Places, Saving
<1>36. CASE RaiseStop(t)
  <2>1. Moved
    BY <1>3, <1>4, <1>36 DEF RaiseStop, Places, Hooks, Saving
  <2> QED
    BY <1>6, <1>36, <2>1 DEF RaiseStop
<1>37. CASE RaiseClean(t)
  <2>1. Moved
    BY <1>3, <1>4, <1>37 DEF RaiseClean, Places, Hooks, Saving
  <2> QED
    BY <1>6, <1>37, <2>1 DEF RaiseClean
<1>38. CASE RaiseHook(t)
  <2>1. Moved
    BY <1>4, <1>38 DEF RaiseHook, Places, Hooks, Saving
  <2> QED
    BY <1>6, <1>38, <2>1 DEF RaiseHook
<1>39. CASE Raised(t)
  BY <1>2, <1>6, <1>9, <1>39 DEF Raised
<1>40. CASE RaiseFatal(t)
  BY <1>3, <1>6, <1>40 DEF RaiseFatal, Places, Operations, Saving
<1> QED
  BY <1>10, <1>11, <1>12, <1>13, <1>14, <1>15, <1>16, <1>17, <1>18, <1>19, <1>20, <1>21, <1>22,
     <1>23, <1>24, <1>25, <1>26, <1>27, <1>28, <1>29, <1>30, <1>31, <1>32, <1>33, <1>34, <1>35,
     <1>36, <1>37, <1>38, <1>39, <1>40, <1>44, <1>45, <1>46, <1>47, <1>48, <1>49, <1>50 DEF Progress

\* ... and so does every step.
LEMMA TypedNext ==
  ASSUME Typed, [Next]_vars
  PROVE  Typed'
<1> USE DEF Typed
<1>1. ASSUME NEW at \in Places \ Saving, At(Engine) # "idle", Goto(Engine, at)
      PROVE  Stacks' /\ Saves'
  BY <1>1, SavesKept, Active, ThreadsDiffer
<1>2. ASSUME NEW t \in Threads, NEW callee \in Places \ Saving,
             NEW at \in Places \ Saving, At(t) # "idle", Call(t, callee, at)
      PROVE  Stacks' /\ Saves'
  BY <1>2, SavesKept, Active
<1>3. ASSUME At(Engine) # "idle", NEW r, Return(Engine, r)
      PROVE  Stacks' /\ Saves'
  BY <1>3, SavesKept, Active, ThreadsDiffer
<1>4. ASSUME Stacks', Saves', ret' \in [Threads -> Returns], UNCHANGED <<states, activity, life, user>>
      PROVE  Typed'
  BY <1>4 DEF states, activity
<1>5. CASE UNCHANGED vars
  BY <1>5, Staying DEF vars, states, activity, Saves
<1>6. CASE Wake /\ UNCHANGED user
  <2>1. ASSUME running
        PROVE  Stacks' /\ Saves'
    <3>1. stack' = [stack EXCEPT ![Engine] = <<Frame("awake")>>] /\ stack[Engine] = <<>>
      BY <1>6, <2>1 DEF Wake
    <3>2. "awake" \in Places
      BY DEF Places
    <3>3. /\ Stacks'
          /\ \A u \in Threads, d \in Nat :
               /\ Kept(u, d)' = IF u = Engine /\ d = 1 THEN "none" ELSE Kept(u, d)
               /\ Place(u, d)' = IF u = Engine /\ d = 1 THEN "awake" ELSE Place(u, d)
      BY <3>1, <3>2, FirstView, ThreadsDiffer
    <3> QED
      BY <3>3 DEF Saves, Saving
  <2>2. ASSUME ~running
        PROVE  Stacks' /\ Saves'
    BY <1>6, <2>2, Staying DEF Wake, Saves
  <2> QED
    BY <1>6, <2>1, <2>2 DEF Wake, states
<1>7. CASE Step /\ UNCHANGED user
  <2>1. Stacks' /\ Saves'
    BY <1>1, <1>7 DEF Step, Places, Saving
  <2> QED
    BY <1>4, <1>7, <2>1 DEF Step, Returns
<1>8. CASE OperationThrew /\ UNCHANGED user
  <2>1. Stacks' /\ Saves'
    BY <1>2, <1>8, ThreadsDiffer DEF OperationThrew, Places, Operations, Saving
  <2> QED
    BY <1>4, <1>8, <2>1 DEF OperationThrew
<1>9. CASE Update /\ UNCHANGED user
  <2>1. Stacks' /\ Saves'
    BY <1>1, <1>2, <1>9, ThreadsDiffer DEF Update, Places, Hooks, Saving
  <2> QED
    BY <1>4, <1>9, <2>1 DEF Update
<1>10. CASE UpdateThrew /\ UNCHANGED user
  <2>1. Stacks' /\ Saves'
    BY <1>2, <1>10, ThreadsDiffer DEF UpdateThrew, Places, Operations, Saving
  <2> QED
    BY <1>4, <1>10, <2>1 DEF UpdateThrew
<1>11. CASE HandleError /\ UNCHANGED user
  <2>1. Stacks' /\ Saves'
    BY <1>1, <1>2, <1>11, ThreadsDiffer DEF HandleError, Places, Hooks, Saving
  <2> QED
    BY <1>4, <1>11, <2>1 DEF HandleError, Returns
<1>12. CASE ErrorThrew /\ UNCHANGED user
  <2>1. Stacks' /\ Saves'
    BY <1>2, <1>12, ThreadsDiffer DEF ErrorThrew, Places, Operations, Saving
  <2> QED
    BY <1>4, <1>12, <2>1 DEF ErrorThrew
<1>13. CASE EndStep /\ UNCHANGED user
  <2>1. Stacks' /\ Saves'
    BY <1>3, <1>13 DEF EndStep
  <2> QED
    BY <1>4, <1>13, <2>1 DEF EndStep, Return, Returns
<1>14. ASSUME NEW t \in Threads, NEW op \in Operations, HookCalls(t, op), UNCHANGED user
       PROVE  Typed'
  <2>1. <<At(t), op>> \in Hooks \X Operations
    BY <1>14, TaskCoreAssumption DEF HookCalls, MayCall, IsProgram
  <2>2. At(t) \in Places \ Saving /\ At(t) # "idle" /\ op \in Places \ Saving
    BY <2>1 DEF Hooks, Operations, Places, Saving
  <2>3. Stacks' /\ Saves'
    BY <1>2, <1>14, <2>2 DEF HookCalls
  <2> QED
    BY <1>4, <1>14, <2>3 DEF HookCalls
<1>15. ASSUME NEW c \in Clients, NEW op \in ClientOps, ClientCalls(c, op), UNCHANGED user
       PROVE  Typed'
  <2>1. op \in Operations
    BY TaskCoreAssumption DEF ClientOps, IsProgram
  <2>2. Stacks' /\ Saves'
    BY <1>15, <2>1, SavesKept, ThreadsDiffer DEF ClientCalls
  <2> QED
    BY <1>4, <1>15, <2>2 DEF ClientCalls, Returns
<1> QED
  BY <1>5, <1>6, <1>7, <1>8, <1>9, <1>10, <1>11, <1>12, <1>13, <1>14, <1>15, TypedProgress
     DEF Next, EngineStep

-----------------------------------------------------------------------------
(***************************************************************************)
(* The steps of a client, in the environments with one client.             *)
(***************************************************************************)

\* A thread has a place in each of its calls, and in no other.
LEMMA PlaceInDepth ==
  ASSUME Stacks, NEW t \in Threads, NEW d \in Nat
  PROVE  Place(t, d) # "idle" <=> d \in 1 .. Depth(t)
<1>1. stack[t] \in Seq(Frames) /\ Len(stack[t]) \in Nat
  BY DEF Stacks
<1>2. CASE d \in 1 .. Len(stack[t])
  <2>1. Len(stack[t]) + 1 - d \in 1 .. Len(stack[t])
    BY <1>1, <1>2
  <2>2. stack[t][Len(stack[t]) + 1 - d] \in Frames
    BY <1>1, <2>1
  <2>3. Place(t, d) \in Places
    BY <1>2, <2>2 DEF Place, Frames
  <2> QED
    BY <1>2, <2>3 DEF Places, Operations, Hooks, Depth
<1>3. CASE d \notin 1 .. Len(stack[t])
  BY <1>3 DEF Place, Depth
<1> QED
  BY <1>2, <1>3

\* Where the client can be.
LEMMA ClientAt ==
  ASSUME Typed, Orderly, NEW c \in Clients, At(c) # "idle"
  PROVE  /\ Depth(c) \in 1 .. 3 /\ Place(c, Depth(c)) = At(c) /\ Saved(c) = Kept(c, Depth(c))
         /\ At(c) \in Hooks => Depth(c) = 2 /\ HookOf(Place(c, 1)) = At(c)
         /\ At(c) \in Signals => Depth(c) \in {1, 3}
         /\ At(c) \in Halting => Depth(c) = 1 \/ (Depth(c) = 2 /\ Place(c, 1) = "restart")
         /\ At(c) \notin Hooks \cup Signals \cup Halting => Depth(c) = 1
<1>1. c \in Threads
  BY DEF Threads
<1>2. /\ Depth(c) \in Nat /\ Depth(c) >= 1
      /\ At(c) = Place(c, Depth(c)) /\ Saved(c) = Kept(c, Depth(c))
  BY <1>1, Active DEF Typed
<1>3. ClientShape(c)
  BY DEF Orderly
<1> QED
  BY <1>2, <1>3 DEF ClientShape, Signals, Halting, Hooks, HookOf, Held, Raising, Entering,
     Recovering

\* What it means that the engine is in no hook.
LEMMA NotBusy ==
  ASSUME Typed, Orderly
  PROVE  /\ \A c \in Clients : Holding(c) => ~Busy
         /\ ~Busy \/ mTaskState \notin {"Stopped", "PreOperational"}
         /\ ~Busy \/ NobodyStops(user) \/ mTaskState # "Exception"
         /\ ~Busy => Place(Engine, 2) = "idle" /\ Place(Engine, 3) = "idle" /\ Depth(Engine) <= 1 
<1>1. /\ Depth(Engine) \in Nat /\ \A d \in Nat : Place(Engine, d) # "idle" <=> d \in 1 .. Depth(Engine)
  BY ThreadsDiffer, PlaceInDepth, TopPlace DEF Typed
<1>2. EngineShape /\ EngineState /\ Apart
  BY DEF Orderly
<1>3. ~Busy \/ mTaskState \notin {"Stopped", "PreOperational"}
  BY <1>1, <1>2 DEF EngineShape, EngineState, Busy, Hooks, Halting, Raising, HookOf,
     RunningStates, Entering, Recovering
<1>4. SUFFICES ASSUME Busy, ~NobodyStops(user), mTaskState = "Exception"
               PROVE  FALSE
  BY <1>1, <1>2, <1>3 DEF Apart, Busy
<1> QED
  BY <1>1, <1>2, <1>4 DEF EngineShape, EngineState, Busy, Hooks, Halting, Raising, HookOf,
     RunningStates, Entering, Recovering

\* A step of the client.
LEMMA ClientMoves ==
  ASSUME Typed, Orderly, NEW c \in Clients, UNCHANGED user, Stays(Engine), ret'[Engine] = ret[Engine],
         ClientShape(c)', ClientState(c)',
         Busy => UNCHANGED <<mTaskState, life>>,
         mTaskState' = mTaskState \/ mTaskState' # "RunTimeError",
         Holding(c)' => ~Busy,
         Place(c, 1)' \in Held \cup {"restart", "target"} \/ Calm'
  PROVE  Orderly'
<1>1. \A d \in Clients : d = c
  BY DEF Orderly, OneClient
<1>2. EngineShape'
  BY DEF Orderly, EngineShape, Stays, MayCall, Entering, Recovering
<1>3. Busy' = Busy
  BY DEF Busy, Stays
<1>4. EngineState'
  <2>1. CASE UNCHANGED <<mTaskState, life>>
    BY <2>1 DEF Orderly, EngineState, Stays, MayCall, RaisedLife, Fits, InitialState, Entering
  <2>2. CASE ~Busy
    <3>1. Place(Engine, 2)' = "idle" /\ Place(Engine, 3)' = "idle"
      BY <2>2, NotBusy DEF Stays
    <3>2. ~NobodyStops(user') => mTaskState' # "RunTimeError"
      BY DEF Orderly, EngineState, Entering
    <3> QED
      BY <2>2, <1>3, <3>1, <3>2 DEF EngineState, Busy, Hooks, Raising, Halting, Entering
  <2> QED
    BY <2>1, <2>2
<1>5. Rest'
  BY DEF Rest
<1>6. Apart'
  BY <1>1, <1>3 DEF Apart
<1>7. \A d \in Clients : (ClientShape(d) /\ ClientState(d))'
  BY <1>1
<1> QED
  BY <1>2, <1>4, <1>5, <1>6, <1>7 DEF Orderly, OneClient

\* A step of the engine.
LEMMA EngineMoves ==
  ASSUME Typed, Orderly, UNCHANGED user,
         \A c \in Clients : Stays(c) /\ ret'[c] = ret[c],
         EngineShape', EngineState',
         \/ UNCHANGED <<states, life>> /\ ~Halfway
         \/ Busy /\ NobodyStops(user) /\ Calm',
         Busy' => Busy \/ \A c \in Clients : ~Holding(c)
  PROVE  Orderly'
<1>1. ASSUME NEW c \in Clients
      PROVE  ClientShape(c)'
  BY DEF Orderly, ClientShape, Stays, InitialState, Recovering
<1>2. ASSUME NEW c \in Clients
      PROVE  Holding(c)' = Holding(c)
  BY DEF Holding, Stays
<1>3. ASSUME NEW c \in Clients
      PROVE  ClientState(c)'
  <2>1. CASE UNCHANGED <<states, life>>
    <3>1. ClientState(c) /\ Stays(c) /\ ret'[c] = ret[c]
      BY DEF Orderly
    <3> QED
      BY <2>1, <3>1 DEF ClientState, Stays, states, Returned, RaisedLife, Fits, InitialState,
         Entering
  <2>2. CASE Busy /\ NobodyStops(user)
    <3>1. ~Holding(c) /\ ClientShape(c)
      BY <2>2, NotBusy DEF Orderly
    <3>2. Place(c, 1)' \notin Held \cup {"restart", "store", "target"}
      <4>1. ClientState(c) /\ Place(c, 1)' = Place(c, 1)
        BY DEF Orderly, Stays
      <4>2. Place(c, 1) # "target"
        BY <2>2, <4>1, NotBusy DEF ClientState, Entering
      <4> QED
        BY <2>2, <3>1, <4>1, <4>2 DEF Holding, ClientShape, Stays, Recovering
    <3> QED
      BY <3>2 DEF ClientState, Held, Entering
  <2> QED
    BY <2>1, <2>2
<1>4. Rest'
  BY DEF Rest, Orderly, Calm, Fits, Stays, states, InitialState
<1>5. Apart'
  BY <1>2 DEF Orderly, Apart
<1> QED
  BY <1>1, <1>3, <1>4, <1>5 DEF Orderly, OneClient

\* A client in a hook or in what a hook calls is in the exclusive part of its operation.
LEMMA ClientInHook ==
  ASSUME Typed, Orderly, NEW c \in Clients, Depth(c) \in {2, 3}
  PROVE  \/ Place(c, 1) \in Held
         \/ Depth(c) = 2 /\ Place(c, 1) = "restart" /\ Place(c, 2) \in Halting
<1>1. ClientShape(c)
  BY DEF Orderly
<1> QED
  BY <1>1 DEF ClientShape, HookOf, Hooks, Held, Raising, Signals, Halting, Entering, Recovering

\* Calm, while the client is in none of the exclusive parts.
LEMMA CalmOutside ==
  ASSUME Typed, Orderly, NEW c \in Clients, Place(c, 1) \notin Held \cup {"restart", "target"}
  PROVE  Calm
<1>1. \A d \in Clients : d = c
  BY DEF Orderly, OneClient
<1> QED
  BY <1>1 DEF Orderly, Rest

\* The operations of the activity, called by the client.
LEMMA ClientActivity ==
  ASSUME Typed, Orderly, NEW c \in Clients, UNCHANGED user,
         \/ Activate(c) \/ Trigger(c) \/ HaltInactive(c) \/ Halt(c) \/ HaltFails(c) \/ Halted(c)
  PROVE  Orderly'
<1>1. c \in Threads /\ Engine \in Threads /\ c # Engine
  BY ThreadsDiffer
<1>2. At(c) # "idle" /\ At(c) \in Signals \cup Halting
  BY DEF Activate, Trigger, HaltInactive, Halt, HaltFails, Halted, Signals, Halting
<1>3. /\ Depth(c) \in 1 .. 3 /\ Place(c, Depth(c)) = At(c)
      /\ At(c) \in Signals => Depth(c) \in {1, 3}
      /\ At(c) \in Halting => Depth(c) = 1 \/ (Depth(c) = 2 /\ Place(c, 1) = "restart")
  BY <1>2, ClientAt DEF Signals, Halting, Hooks
<1>4. ClientShape(c) /\ ClientState(c)
  BY DEF Orderly
<1>5. UNCHANGED <<mTaskState, mTargetState, life>>
  BY DEF Activate, Trigger, HaltInactive, Halt, HaltFails, Halted, states
<1>6. Place(c, 1) \notin Held \cup {"restart", "target"} => Calm
  BY CalmOutside
<1>7. Stays(Engine) => Calm' = Calm
  BY <1>5 DEF Calm, Fits, InitialState, Halfway, Stays
<1>8. CASE Halt(c)
  <2>1. Goto(c, "halting") /\ "halting" \in Places /\ ret' = ret /\ At(c) = "halt"
    BY <1>8 DEF Halt, Places
  <2>2. /\ Stays(Engine) /\ Depth(c)' = Depth(c)
        /\ \A d \in 1 .. 4 : /\ Kept(c, d)' = Kept(c, d)
                             /\ Place(c, d)' = IF d = Depth(c) THEN "halting" ELSE Place(c, d)
    BY <1>1, <1>3, <2>1, Going DEF Typed
  <2>3. ClientShape(c)'
    BY <1>3, <1>4, <2>1, <2>2 DEF ClientShape, Halting, Hooks, HookOf, Signals, Held, Raising,
       InitialState, Entering, Recovering
  <2>4. ClientState(c)' /\ ~Holding(c)'
    BY <1>3, <1>4, <1>5, <2>1, <2>2 DEF ClientState, Halting, Held, Raising, Holding, Signals,
       Entering
  <2>5. Place(c, 1)' \in {"restart"} \/ Calm'
    BY <1>3, <1>6, <1>7, <2>1, <2>2 DEF Halting, Held, Raising, Entering
  <2> QED
    BY <1>5, <2>1, <2>2, <2>3, <2>4, <2>5, ClientMoves
<1>9. CASE ~Halt(c)
  <2>1. PICK r \in {"true", "false"} : Return(c, r)
    BY <1>9 DEF Activate, Trigger, HaltInactive, Halt, HaltFails, Halted
  <2>2. /\ Stays(Engine) /\ Depth(c)' = Depth(c) - 1
        /\ \A d \in 1 .. 4 :
               /\ Kept(c, d)' = IF d = Depth(c) THEN "idle" ELSE Kept(c, d)
               /\ Place(c, d)' = IF d = Depth(c) THEN "idle" ELSE Place(c, d)
    BY <1>1, <1>3, <2>1, Returning DEF Typed
  <2>3. ret'[c] = r /\ ret'[Engine] = ret[Engine]
    BY <1>1, <2>1 DEF Return, Typed
  <2>4. CASE Depth(c) = 1
    <3>1. Depth(c)' = 0 /\ Place(c, 1)' = "idle" /\ Place(c, 1) = At(c)
      BY <1>3, <2>2, <2>4
    <3>2. ClientShape(c)' /\ ClientState(c)' /\ ~Holding(c)'
      BY <3>1 DEF ClientShape, ClientState, Holding, Held, Raising, Entering, Recovering
    <3>3. Calm'
      BY <1>2, <1>6, <1>7, <2>2, <3>1 DEF Signals, Halting, Held, Raising, Entering
    <3> QED
      BY <1>5, <2>2, <2>3, <3>2, <3>3, ClientMoves
  <2>5. CASE Depth(c) = 3
    <3>1. /\ Depth(c)' = 2 /\ Place(c, 1)' = Place(c, 1) /\ Place(c, 2)' = Place(c, 2)
          /\ Kept(c, 1)' = Kept(c, 1) /\ Place(c, 3)' = "idle"
      BY <2>2, <2>5
    <3>2. ClientShape(c)'
      BY <1>4, <2>5, <3>1 DEF ClientShape, InitialState, Recovering
    <3>3. ClientState(c)'
      BY <1>4, <1>5, <2>5, <3>1 DEF ClientState, Returned, RaisedLife, Fits, InitialState, Entering
    <3>4. Place(c, 1) \in Held
      BY <2>5, ClientInHook
    <3>5. ~Busy
      BY <3>4, NotBusy DEF Holding
    <3> QED
      BY <1>5, <2>2, <2>3, <3>1, <3>2, <3>3, <3>4, <3>5, ClientMoves
  <2>6. CASE Depth(c) = 2
    <3>1. At(c) \in Halting /\ Place(c, 1) = "restart"
      BY <1>2, <1>3, <2>6
    <3>2. /\ Depth(c)' = 1 /\ Place(c, 1)' = "restart" /\ Place(c, 2)' = "idle"
          /\ Kept(c, 1)' = Kept(c, 1)
      BY <2>2, <2>6, <3>1
    <3>3. ClientShape(c)'
      BY <1>4, <2>3, <3>1, <3>2 DEF ClientShape, Recovering
    <3>4. ClientState(c)'
      BY <1>4, <1>5, <3>1, <3>2 DEF ClientState, Held, Raising, Entering
    <3>5. Holding(c)' => ~Busy
      <4>1. SUFFICES ASSUME r = "true"
                     PROVE  ~Busy
        BY <2>3, <3>2 DEF Holding, Held, Raising, Entering
      <4>2. Return(c, "true")
        BY <2>1, <4>1
      <4>3. Halted(c)
        <5>1. ret'[c] = "true"
          BY <2>3, <4>1
        <5>2. ~Activate(c) /\ ~Trigger(c)
          BY <3>1 DEF Activate, Trigger, Halting
        <5>3. ASSUME HaltInactive(c) \/ HaltFails(c)
              PROVE  FALSE
          <6>1. Return(c, "false")
            BY <5>3 DEF HaltInactive, HaltFails
          <6> QED
            BY <1>1, <5>1, <6>1 DEF Return, Typed
        <5> QED
          BY <1>9, <5>2, <5>3
      <4>4. ~InLoop
        BY <1>1, <4>3 DEF Halted
      <4>5. stack[Engine] = <<>> \/ At(Engine) = "awake"
        BY <4>4 DEF InLoop
      <4>6. Depth(Engine) = 0 \/ (Place(Engine, Depth(Engine)) = "awake" /\ Depth(Engine) \in Nat)
        <5>1. stack[Engine] = <<>> => Depth(Engine) = 0
          BY DEF Depth
        <5> QED
          BY <1>1, <4>5, <5>1, Active DEF Typed
      <4>7. EngineShape
        BY DEF Orderly
      <4> QED
        BY <4>6, <4>7 DEF EngineShape, Busy, HookOf, Hooks, Halting, Signals, Raising, Entering,
           Recovering
    <3> QED
      BY <1>5, <2>2, <2>3, <3>2, <3>3, <3>4, <3>5, ClientMoves
  <2> QED
    BY <1>3, <2>4, <2>5, <2>6
<1> QED
  BY <1>8, <1>9

\* What the hooks of the client do.
LEMMA ClientHooks ==
  ASSUME Typed, Orderly, NEW c \in Clients, UNCHANGED user,
         \/ \E r \in {"true", "false"} : HookReturns(c, r)
         \/ HookThrows(c)
         \/ \E op \in Operations : HookCalls(c, op)
  PROVE  Orderly'
<1>1. c \in Threads /\ Engine \in Threads /\ c # Engine
  BY ThreadsDiffer
<1>2. At(c) \in Hooks /\ At(c) # "idle"
  <2>1. \A op : <<At(c), op>> \in MayCall => At(c) \in Hooks
    BY TaskCoreAssumption DEF Typed, MayCall, IsProgram
  <2> QED
    BY <2>1 DEF HookReturns, HookThrows, HookCalls, Hooks
<1>3. Depth(c) = 2 /\ Place(c, 2) = At(c) /\ HookOf(Place(c, 1)) = At(c)
  BY <1>2, ClientAt
<1>4. ClientShape(c) /\ ClientState(c)
  BY DEF Orderly
<1>5. Place(c, 1) \in Held /\ ~Busy
  <2>1. Place(c, 1) \in Held
    BY <1>2, <1>3, ClientInHook DEF Halting, Hooks
  <2> QED
    BY <2>1, NotBusy DEF Holding
<1>6. UNCHANGED <<mTaskState, mTargetState>>
  BY DEF HookReturns, HookThrows, HookCalls, states
<1>7. ASSUME NEW r \in {"true", "false", "throw"}, Return(c, r)
      PROVE  /\ Stays(Engine) /\ Depth(c)' = 1 /\ Place(c, 1)' = Place(c, 1)
             /\ Place(c, 2)' = "idle" /\ Kept(c, 1)' = Kept(c, 1)
             /\ ret'[c] = r /\ ret'[Engine] = ret[Engine]
             /\ ClientShape(c)'
  <2>1. /\ Stays(Engine) /\ Depth(c)' = 1 /\ Place(c, 1)' = Place(c, 1)
        /\ Place(c, 2)' = "idle" /\ Kept(c, 1)' = Kept(c, 1)
    BY <1>1, <1>3, <1>7, Returning DEF Typed
  <2>2. ret'[c] = r /\ ret'[Engine] = ret[Engine]
    BY <1>1, <1>7 DEF Return, Typed
  <2>3. ClientShape(c)'
    BY <1>3, <1>4, <1>5, <2>1, <2>2 DEF ClientShape, Held, Raising, InitialState, Entering,
       Recovering
  <2> QED
    BY <2>1, <2>2, <2>3
<1>8. ASSUME NEW r \in {"true", "false"}, HookReturns(c, r)
      PROVE  Orderly'
  <2>1. Return(c, r) /\ life' = LifeAfter(At(c), r) /\ (At(c) \notin {"configureHook", "startHook"} => r = "true")
    BY <1>8 DEF HookReturns, Results
  <2>2. /\ Stays(Engine) /\ Depth(c)' = 1 /\ Place(c, 1)' = Place(c, 1)
        /\ Kept(c, 1)' = Kept(c, 1) /\ ret'[c] = r /\ ret'[Engine] = ret[Engine]
        /\ ClientShape(c)'
    BY <1>7, <2>1
  <2>3. CASE Place(c, 1) \notin Raising
    <3>1. Place(c, 1) \in {"configured", "started", "cleaned", "stopped"}
      BY <1>2, <1>3, <1>5, <2>3 DEF HookOf, Held, Hooks, Entering
    <3>2. Place(c, 1) = "configured" => life' = IF r = "true" THEN "configured" ELSE "cleaned"
      BY <1>3, <2>1 DEF HookOf, LifeAfter
    <3>3. Place(c, 1) = "started" => life' = IF r = "true" THEN "started" ELSE "configured"
      BY <1>3, <1>4, <2>1 DEF HookOf, LifeAfter, ClientState, Returned, Entering
    <3>4. Place(c, 1) = "cleaned" => life' = "cleaned"
      BY <1>3, <2>1 DEF HookOf, LifeAfter
    <3>5. Place(c, 1) = "stopped" => life' = "configured"
      BY <1>3, <2>1 DEF HookOf, LifeAfter
    <3>6. ClientState(c)'
      BY <1>4, <1>6, <2>2, <3>1, <3>2, <3>3, <3>4, <3>5 DEF ClientState, Returned, Raising, Entering
    <3> QED
      BY <1>5, <1>6, <2>2, <3>6, ClientMoves
  <2>4. CASE Place(c, 1) \in Raising
    <3>1. RaisedLife(c, 1)
      BY <1>4, <2>4 DEF ClientState, Entering
    <3>2. RaisedLife(c, 1)'
      BY <1>2, <1>3, <2>1, <2>2, <2>4, <3>1
         DEF RaisedLife, HookOf, Hooks, LifeAfter, Raising, InitialState, Fits, RunningStates,
            Entering
    <3>3. ClientState(c)'
      BY <1>4, <1>6, <2>2, <2>4, <3>2 DEF ClientState, Raising, Entering
    <3> QED
      BY <1>5, <1>6, <2>2, <3>3, ClientMoves
  <2> QED
    BY <2>3, <2>4
<1>9. CASE HookThrows(c)
  <2>1. Return(c, "throw") /\ life' = life
    BY <1>9 DEF HookThrows
  <2>2. /\ Stays(Engine) /\ Depth(c)' = 1 /\ Place(c, 1)' = Place(c, 1)
        /\ Kept(c, 1)' = Kept(c, 1) /\ ret'[c] = "throw" /\ ret'[Engine] = ret[Engine]
        /\ ClientShape(c)'
    BY <1>7, <2>1
  <2>3. ClientState(c)'
    BY <1>2, <1>3, <1>4, <1>5, <1>6, <2>1, <2>2
       DEF ClientState, HookOf, Hooks, RaisedLife, Returned, Raising, Fits, InitialState, Entering
  <2> QED
    BY <1>5, <1>6, <2>1, <2>2, <2>3, ClientMoves
<1>10. ASSUME NEW op \in Operations, HookCalls(c, op)
       PROVE  Orderly'
  <2>1. op \in Signals
    <3>1. <<At(c), op>> \in MayCall
      BY <1>10 DEF HookCalls
    <3>2. At(c) \notin {"updateHook", "errorHook"}
      BY <1>3, <1>5 DEF HookOf, Held, Raising, Entering
    <3>3. CASE StoppedByClient(user)
      BY <3>1, <3>3 DEF StoppedByClient, MayCall
    <3>4. CASE NobodyStops(user)
      BY <1>2, <3>1, <3>2, <3>4 DEF NobodyStops, MayCall
    <3> QED
      BY <3>3, <3>4 DEF Orderly
  <2>2. Call(c, op, At(c)) /\ op \in Places /\ At(c) \in Places /\ ret' = ret /\ life' = life
    BY <1>2, <1>10 DEF HookCalls, Places
  <2>3. /\ Stays(Engine) /\ Depth(c)' = 3 /\ Place(c, 1)' = Place(c, 1)
        /\ Place(c, 2)' = Place(c, 2) /\ Place(c, 3)' = op /\ Kept(c, 1)' = Kept(c, 1)
    BY <1>1, <1>3, <2>2, Calling DEF Typed
  <2>4. ClientShape(c)'
    BY <1>2, <1>3, <1>4, <1>5, <2>1, <2>3 DEF ClientShape, InitialState, Recovering
  <2>5. ClientState(c)'
    BY <1>3, <1>4, <1>6, <2>2, <2>3 DEF ClientState, Returned, RaisedLife, Fits, InitialState,
       Entering
  <2> QED
    BY <1>5, <1>6, <2>2, <2>3, <2>4, <2>5, ClientMoves
<1> QED
  BY <1>8, <1>9, <1>10

\* The operations the client begins, and those that do not begin.
LEMMA ClientBegins ==
  ASSUME Typed, Orderly, NEW c \in Clients, UNCHANGED user,
         \/ \E op \in ClientOps : ClientCalls(c, op)
         \/ NotAllowed(c) \/ Configure(c) \/ Cleanup(c) \/ StartTask(c) \/ StopTask(c)
         \/ Recover(c) \/ NoException(c) \/ RecoverError(c) \/ Error(c) \/ Fatal(c)
  PROVE  Orderly'
<1>1. c \in Threads /\ Engine \in Threads /\ c # Engine
  BY ThreadsDiffer
<1>2. ClientShape(c) /\ ClientState(c)
  BY DEF Orderly
<1>3. ASSUME NEW op \in ClientOps, ClientCalls(c, op)
      PROVE  Orderly'
  <2>1. op \in Operations \ {"exception", "fatal"} /\ op # "error"
    BY TaskCoreAssumption DEF Orderly, Typed, IsProgram, ClientOps, StoppedByClient, NobodyStops
  <2>2. /\ op \in {"stop", "recover"} => ~NobodyStops(user)
        /\ op = "recover" => InitialState = "PreOperational"
    BY DEF Orderly, ClientOps, StoppedByClient, NobodyStops, InitialState
  <2>3. stack[c] = <<>> /\ stack' = [stack EXCEPT ![c] = <<Frame(op)>>] /\ op \in Places
    BY <1>3, <2>1 DEF ClientCalls, Places
  <2>4. Depth(c) = 0 /\ Place(c, 1) = "idle"
    BY <2>3 DEF Depth, Place
  <2>5. Stays(Engine) /\ Depth(c)' = 1 /\ Place(c, 1)' = op
    <3>1. /\ \A u \in Threads : Depth(u)' = IF u = c THEN 1 ELSE Depth(u)
          /\ \A u \in Threads, d \in Nat :
               /\ Kept(u, d)' = IF u = c /\ d = 1 THEN "none" ELSE Kept(u, d)
               /\ Place(u, d)' = IF u = c /\ d = 1 THEN op ELSE Place(u, d)
      BY <1>1, <2>3, FirstView DEF Typed
    <3> QED
      BY <1>1, <3>1 DEF Stays
  <2>6. ret'[Engine] = ret[Engine] /\ UNCHANGED <<mTaskState, mTargetState, life>>
    BY <1>1, <1>3 DEF ClientCalls, Typed, states
  <2>7. op \notin Held \cup {"restart", "store", "target"} /\ op \notin {"halt", "halting"}
    BY <2>1 DEF Operations, Held, Raising, Entering
  <2>8. ClientShape(c)'
    BY <2>1, <2>2, <2>5, <2>7 DEF ClientShape, Operations, Signals, Held, InitialState, Entering,
       Recovering
  <2>9. ClientState(c)' /\ ~Holding(c)'
    BY <2>5, <2>7 DEF ClientState, Holding, Held, Entering
  <2>10. Calm'
    <3>1. Calm
      BY <2>4, CalmOutside DEF Held, Raising, Entering
    <3> QED
      BY <2>5, <2>6, <3>1 DEF Calm, Fits, InitialState, Halfway, Stays
  <2> QED
    BY <2>5, <2>6, <2>8, <2>9, <2>10, ClientMoves
<1>4. SUFFICES ASSUME \/ NotAllowed(c) \/ Configure(c) \/ Cleanup(c) \/ StartTask(c)
                      \/ StopTask(c) \/ Recover(c) \/ NoException(c) \/ RecoverError(c)
                      \/ Error(c) \/ Fatal(c)
               PROVE  Orderly'
  BY <1>3
<1>5. At(c) # "idle" /\ At(c) \notin Hooks \cup Signals \cup Halting
  BY <1>4 DEF NotAllowed, Configure, Cleanup, StartTask, StopTask, Recover, NoException,
     RecoverError, Error, Fatal, Hooks, Signals, Halting
<1>6. Depth(c) = 1 /\ Place(c, 1) = At(c)
  BY <1>5, ClientAt
<1>7. Place(c, 1) \notin Held \cup {"restart", "target"} => Calm
  BY CalmOutside
<1>8. At(c) # "error"
  BY <1>2, <1>6 DEF ClientShape, Signals, Held, Raising, Halting, Entering, Recovering
<1>9. ASSUME NEW callee \in Places, NEW at \in Places, Call(c, callee, at)
      PROVE  /\ Stays(Engine) /\ Depth(c)' = 2
             /\ Place(c, 1)' = at /\ Place(c, 2)' = callee
  BY <1>1, <1>6, <1>9, Calling DEF Typed
<1>10. CASE NotAllowed(c)
  <2>1. Return(c, "false") /\ UNCHANGED <<mTaskState, mTargetState, life>>
    BY <1>10 DEF NotAllowed, states
  <2>2. Stays(Engine) /\ Depth(c)' = 0 /\ Place(c, 1)' = "idle"
    BY <1>1, <1>6, <2>1, Returning DEF Typed
  <2>3. ret'[Engine] = ret[Engine]
    BY <1>1, <2>1 DEF Return, Typed
  <2>4. ClientShape(c)' /\ ClientState(c)' /\ ~Holding(c)'
    BY <2>2 DEF ClientShape, ClientState, Holding, Held, Raising, Entering, Recovering
  <2>5. Calm'
    <3>1. Calm
      BY <1>6, <1>7, <1>10 DEF NotAllowed, Held, Raising, Entering
    <3> QED
      BY <2>1, <2>2, <3>1 DEF Calm, Fits, InitialState, Halfway, Stays
  <2> QED
    BY <2>1, <2>2, <2>3, <2>4, <2>5, ClientMoves
<1>11. CASE Configure(c)
  <2>1. /\ Call(c, "configureHook", "configured") /\ mTaskState \in {"Stopped", "PreOperational"}
        /\ mTargetState' = "Stopped" /\ UNCHANGED <<mTaskState, life, ret>> /\ At(c) = "configure"
    BY <1>11 DEF Configure, SetTarget
  <2>2. /\ Stays(Engine) /\ Depth(c)' = 2
        /\ Place(c, 1)' = "configured" /\ Place(c, 2)' = "configureHook"
    BY <1>9, <2>1 DEF Places, Hooks
  <2>3. Calm /\ ~Busy
    BY <1>6, <1>7, <2>1, NotBusy DEF Held, Raising, Entering
  <2>4. ClientShape(c)'
    BY <2>2 DEF ClientShape, HookOf, Hooks, Held, Entering, Recovering
  <2>5. ClientState(c)'
    BY <2>1, <2>2, <2>3 DEF ClientState, Calm, Fits, Returned, Raising, Entering, Halfway
  <2> QED
    BY <2>1, <2>2, <2>3, <2>4, <2>5, ClientMoves DEF Held, Entering
<1>12. CASE Cleanup(c)
  <2>1. /\ Call(c, "cleanupHook", "cleaned") /\ mTaskState = "Stopped"
        /\ mTargetState' = "PreOperational" /\ UNCHANGED <<mTaskState, life, ret>>
        /\ At(c) = "cleanup"
    BY <1>12 DEF Cleanup, SetTarget
  <2>2. /\ Stays(Engine) /\ Depth(c)' = 2
        /\ Place(c, 1)' = "cleaned" /\ Place(c, 2)' = "cleanupHook"
    BY <1>9, <2>1 DEF Places, Hooks
  <2>3. Calm /\ ~Busy
    BY <1>6, <1>7, <2>1, NotBusy DEF Held, Raising, Entering
  <2>4. ClientShape(c)'
    BY <2>2 DEF ClientShape, HookOf, Hooks, Held, Entering, Recovering
  <2>5. ClientState(c)'
    BY <2>1, <2>2, <2>3 DEF ClientState, Calm, Fits, Returned, Raising, Entering, Halfway
  <2> QED
    BY <2>1, <2>2, <2>3, <2>4, <2>5, ClientMoves DEF Held, Entering
<1>13. CASE StartTask(c)
  <2>1. /\ Call(c, "startHook", "started") /\ mTaskState = "Stopped"
        /\ mTargetState' = "Running" /\ UNCHANGED <<mTaskState, life, ret>> /\ At(c) = "start"
    BY <1>13 DEF StartTask, SetTarget
  <2>2. /\ Stays(Engine) /\ Depth(c)' = 2
        /\ Place(c, 1)' = "started" /\ Place(c, 2)' = "startHook"
    BY <1>9, <2>1 DEF Places, Hooks
  <2>3. Calm /\ ~Busy
    BY <1>6, <1>7, <2>1, NotBusy DEF Held, Raising, Entering
  <2>4. ClientShape(c)'
    BY <2>2 DEF ClientShape, HookOf, Hooks, Held, Entering, Recovering
  <2>5. ClientState(c)'
    BY <2>1, <2>2, <2>3 DEF ClientState, Calm, Fits, Returned, Raising, Entering, Halfway
  <2> QED
    BY <2>1, <2>2, <2>3, <2>4, <2>5, ClientMoves DEF Held, Entering
<1>14. CASE StopTask(c)
  <2> DEFINE f == [at |-> "restart", saved |-> mTaskState]
             g == Frame("halt")
  <2>1. /\ f \in Frames /\ g \in Frames
        /\ f.at = "restart" /\ f.saved = mTaskState /\ g.at = "halt"
    BY DEF Frames, Frame, Places, Typed
  <2>2. stack' = [stack EXCEPT ![c] = <<g, f>> \o Tail(@)]
    BY <1>14 DEF StopTask
  <2> HIDE DEF f, g
  <2>3. /\ Stacks'
        /\ \A u \in Threads : Depth(u)' = IF u = c THEN Depth(c) + 1 ELSE Depth(u)
        /\ \A u \in Threads, d \in Nat :
             /\ Kept(u, d)' = IF u = c /\ d = Depth(c) THEN f.saved
                              ELSE IF u = c /\ d = Depth(c) + 1 THEN g.saved ELSE Kept(u, d)
             /\ Place(u, d)' = IF u = c /\ d = Depth(c) THEN f.at
                               ELSE IF u = c /\ d = Depth(c) + 1 THEN g.at ELSE Place(u, d)
    <3>1. Stacks /\ Depth(c) >= 1
      BY <1>6 DEF Typed
    <3> QED
      BY <1>1, <2>1, <2>2, <3>1, CalledView
  <2>4. Stays(Engine)
    BY <1>1, <2>3 DEF Stays
  <2>5. Depth(c)' = 2 /\ Place(c, 1)' = "restart" /\ Place(c, 2)' = "halt" /\ Kept(c, 1)' = mTaskState
    BY <1>1, <1>6, <2>1, <2>3
  <2>6. /\ mTargetState' = "Stopped" /\ UNCHANGED <<mTaskState, life, ret>>
        /\ mTaskState \in RunningStates /\ At(c) = "stop"
    BY <1>14 DEF StopTask, SetTarget
  <2>7. ~NobodyStops(user) /\ mTaskState = "Running" /\ Calm
    BY <1>2, <1>6, <1>7, <2>6 DEF ClientShape, Orderly, EngineState, RunningStates, Held,
       Raising, Entering, Recovering
  <2>8. ClientShape(c)'
    BY <2>5, <2>7 DEF ClientShape, Halting, Recovering
  <2>9. ClientState(c)' /\ ~Holding(c)'
    BY <2>5, <2>6, <2>7 DEF ClientState, Holding, Held, Raising, Calm, Fits, RunningStates,
       Entering, Halfway
  <2> QED
    BY <2>4, <2>5, <2>6, <2>8, <2>9, ClientMoves
<1>15. CASE Recover(c)
  <2>1. /\ Enter(c, "store", InitialState) /\ "store" \in Places /\ At(c) = "recover"
        /\ mTaskState = "Exception" /\ UNCHANGED <<mTaskState, mTargetState, life, ret>>
    BY <1>15 DEF Recover, states, Places
  <2>2. ~NobodyStops(user) /\ InitialState = "PreOperational" /\ Calm
    BY <1>2, <1>6, <1>7, <2>1 DEF ClientShape, Held, Raising, Entering, Recovering
  <2>3. InitialState \in TaskState
    BY <2>2 DEF TaskState
  <2>4. Stays(Engine) /\ Depth(c)' = 1 /\ Place(c, 1)' = "store" /\ Kept(c, 1)' = InitialState
    BY <1>1, <1>6, <2>1, <2>3, Keeping DEF Typed
  <2>5. ClientShape(c)'
    BY <2>2, <2>4 DEF ClientShape, Recovering, InitialState
  <2>6. ClientState(c)' /\ ~Holding(c)'
    BY <2>1, <2>2, <2>4 DEF ClientState, Holding, Held, Raising, Entering
  <2>7. Calm'
    BY <2>1, <2>2, <2>4 DEF Calm, Fits, InitialState, Halfway, Stays
  <2> QED
    BY <2>1, <2>4, <2>5, <2>6, <2>7, ClientMoves
<1>16. CASE NoException(c)
  <2>1. /\ Goto(c, "recoverError") /\ "recoverError" \in Places /\ At(c) = "recover"
        /\ UNCHANGED <<mTaskState, mTargetState, life, ret>>
    BY <1>16 DEF NoException, states, Places
  <2>2. ~NobodyStops(user) /\ InitialState = "PreOperational" /\ Calm
    BY <1>2, <1>6, <1>7, <2>1 DEF ClientShape, Held, Raising, Entering, Recovering
  <2>3. Stays(Engine) /\ Depth(c)' = 1 /\ Place(c, 1)' = "recoverError"
    BY <1>1, <1>6, <2>1, Going DEF Typed
  <2>4. ClientShape(c)'
    BY <2>2, <2>3 DEF ClientShape, Recovering, InitialState
  <2>5. ClientState(c)' /\ ~Holding(c)'
    BY <2>3 DEF ClientState, Holding, Held, Raising, Entering
  <2>6. Calm'
    BY <2>1, <2>2, <2>3 DEF Calm, Fits, InitialState, Halfway, Stays
  <2> QED
    BY <2>1, <2>3, <2>4, <2>5, <2>6, ClientMoves
<1>17. CASE RecoverError(c)
  <2>1. At(c) = "recoverError" /\ mTaskState = "RunTimeError"
    BY <1>17 DEF RecoverError
  <2> QED
    BY <1>2, <1>6, <2>1 DEF ClientShape, Recovering, Orderly, EngineState, Entering
<1>18. CASE Error(c)
  BY <1>8, <1>18 DEF Error
<1>19. CASE Fatal(c)
  <2>1. /\ Goto(c, "fatalTarget") /\ "fatalTarget" \in Places /\ UNCHANGED <<ret, life>>
        /\ At(c) = "fatal" /\ mTaskState' = "FatalError"
    BY <1>19 DEF Fatal, SetState, Places
  <2>2. Stays(Engine) /\ Depth(c)' = 1 /\ Place(c, 1)' = "fatalTarget"
    BY <1>1, <1>6, <2>1, Going DEF Typed
  <2>3. ~Busy
    BY <1>6, <2>1, NotBusy DEF Holding, Held, Entering
  <2>4. ClientShape(c)' /\ ClientState(c)' /\ Place(c, 1)' \in Held
    BY <2>1, <2>2 DEF ClientShape, ClientState, Held, Raising, Entering, Recovering
  <2> QED
    BY <2>1, <2>2, <2>3, <2>4, ClientMoves
<1> QED
  BY <1>4, <1>10, <1>11, <1>12, <1>13, <1>14, <1>15, <1>16, <1>17, <1>18, <1>19

\* The operations of the client that go on after a hook has returned, or after the activity
\* has stopped.
LEMMA ClientEnds ==
  ASSUME Typed, Orderly, NEW c \in Clients, UNCHANGED user,
         \/ Catch(c) \/ Configured(c) \/ ConfigureFailed(c) \/ Cleaned(c) \/ Started(c)
         \/ StartFailed(c) \/ Restart(c) \/ StopFailed(c) \/ Stopped(c)
  PROVE  Orderly'
<1>1. c \in Threads /\ Engine \in Threads /\ c # Engine
  BY ThreadsDiffer
<1>2. ClientShape(c) /\ ClientState(c)
  BY DEF Orderly
<1>3. At(c) \in {"configured", "cleaned", "started", "stopped", "restart"}
  BY DEF Catch, Configured, ConfigureFailed, Cleaned, Started, StartFailed, Restart, StopFailed,
     Stopped
<1>4. Depth(c) = 1 /\ Place(c, 1) = At(c) /\ Saved(c) = Kept(c, 1)
  BY <1>3, ClientAt DEF Hooks, Signals, Halting
<1>5. ret[c] \in {"true", "false", "throw"}
  BY <1>1, <1>2, <1>3, <1>4 DEF ClientShape, Typed, Returns, Recovering
<1>6. At(c) # "restart" \/ ret[c] = "true" => ~Busy
  BY <1>3, <1>4, NotBusy DEF Holding, Held, Entering
<1>7. ASSUME NEW r, Return(c, r)
      PROVE  /\ Stays(Engine) /\ Depth(c)' = 0 /\ Place(c, 1)' = "idle"
             /\ ret'[Engine] = ret[Engine]
             /\ ClientShape(c)' /\ ClientState(c)' /\ ~Holding(c)'
  <2>1. Stays(Engine) /\ Depth(c)' = 0 /\ Place(c, 1)' = "idle"
    BY <1>1, <1>4, <1>7, Returning DEF Typed
  <2>2. ret'[Engine] = ret[Engine]
    BY <1>1, <1>7 DEF Return, Typed
  <2>3. ClientShape(c)' /\ ClientState(c)' /\ ~Holding(c)'
    BY <2>1 DEF ClientShape, ClientState, Holding, Held, Raising, Entering, Recovering
  <2> QED
    BY <2>1, <2>2, <2>3
<1>8. CASE Catch(c)
  <2>1. /\ Goto(c, "exception") /\ "exception" \in Places /\ ret[c] = "throw"
        /\ UNCHANGED <<mTaskState, mTargetState, life, ret>> /\ At(c) # "restart"
    BY <1>8 DEF Catch, states, Places, Operations
  <2>2. Stays(Engine) /\ Depth(c)' = 1 /\ Place(c, 1)' = "exception"
    BY <1>1, <1>4, <2>1, Going DEF Typed
  <2>3. ClientShape(c)'
    BY <2>2 DEF ClientShape, Held, Entering, Recovering
  <2>4. /\ \/ mTaskState \in {"Stopped", "PreOperational"}
           \/ mTaskState = "Running" /\ mTargetState = "Stopped"
        /\ Fits(mTaskState)
    BY <1>2, <1>3, <1>4, <2>1 DEF ClientState, Returned, Fits, RunningStates, Entering
  <2>5. ClientState(c)'
    BY <2>1, <2>2, <2>4 DEF ClientState, Raising, Fits, Entering
  <2> QED
    BY <1>6, <2>1, <2>2, <2>3, <2>5, ClientMoves DEF Held, Entering
<1>9. CASE Configured(c)
  <2>1. Return(c, "true") /\ At(c) = "configured" /\ ret[c] = "true" /\ life' = life
    BY <1>9 DEF Configured
  <2>2. mTargetState = "Stopped" /\ life = "configured"
    BY <1>2, <1>4, <1>5, <2>1 DEF ClientState, Returned, Entering
  <2>3. mTaskState' = "Stopped" /\ mTargetState' = "Stopped" /\ life' = "configured"
    BY <1>9, <2>1, <2>2 DEF Configured, SetState
  <2>4. Calm'
    BY <2>3 DEF Calm, Fits, RunningStates, Halfway
  <2> QED
    BY <1>6, <1>7, <2>1, <2>3, <2>4, ClientMoves
<1>16. CASE ConfigureFailed(c)
  <2>1. /\ Enter(c, "target", "PreOperational") /\ "target" \in Places
        /\ "PreOperational" \in TaskState /\ UNCHANGED <<life, ret>>
        /\ At(c) = "configured" /\ ret[c] = "false" /\ mTaskState' = "PreOperational"
    BY <1>16 DEF ConfigureFailed, SetState, Places, TaskState
  <2>2. life = "cleaned"
    BY <1>2, <1>4, <1>5, <2>1 DEF ClientState, Returned, Entering
  <2>3. /\ Stays(Engine) /\ Depth(c)' = 1 /\ Place(c, 1)' = "target"
        /\ Kept(c, 1)' = "PreOperational"
    BY <1>1, <1>4, <2>1, Keeping DEF Typed
  <2>4. ClientShape(c)'
    BY <2>3 DEF ClientShape, Recovering
  <2>5. ClientState(c)' /\ ~Holding(c)'
    BY <2>1, <2>2, <2>3 DEF ClientState, Holding, Held, Raising, Entering, Fits, RunningStates
  <2> QED
    BY <1>6, <2>1, <2>3, <2>4, <2>5, ClientMoves
<1>10. CASE Cleaned(c)
  <2>1. Return(c, "true") /\ At(c) = "cleaned" /\ ret[c] # "throw" /\ life' = life
    BY <1>10 DEF Cleaned
  <2>2. mTargetState = "PreOperational" /\ mTaskState = "Stopped" /\ life = "cleaned"
    BY <1>2, <1>4, <1>5, <2>1 DEF ClientState, Returned, Entering
  <2>3. mTaskState' = "PreOperational" /\ mTargetState' = "PreOperational" /\ life' = "cleaned"
    BY <1>10, <2>1, <2>2 DEF Cleaned, SetState
  <2>4. Calm'
    BY <2>3 DEF Calm, Fits, RunningStates, Halfway
  <2> QED
    BY <1>6, <1>7, <2>1, <2>3, <2>4, ClientMoves
<1>11. CASE Started(c)
  <2>1. /\ Goto(c, "trigger") /\ "trigger" \in Places /\ At(c) = "started" /\ ret[c] = "true"
        /\ UNCHANGED <<life, ret>>
    BY <1>11 DEF Started, Places, Operations
  <2>2. mTargetState = "Running" /\ mTaskState = "Stopped" /\ life = "started"
    BY <1>2, <1>4, <1>5, <2>1 DEF ClientState, Returned, Entering
  <2>3. mTaskState' = "Running" /\ mTargetState' = "Running" /\ life' = "started"
    BY <1>11, <2>1, <2>2 DEF Started, SetState
  <2>4. Calm'
    BY <2>3 DEF Calm, Fits, RunningStates, Halfway
  <2>5. Stays(Engine) /\ Depth(c)' = 1 /\ Place(c, 1)' = "trigger"
    BY <1>1, <1>4, <2>1, Going DEF Typed
  <2>6. ClientShape(c)' /\ ClientState(c)' /\ ~Holding(c)'
    BY <2>5 DEF ClientShape, ClientState, Holding, Held, Raising, Signals, Entering, Recovering
  <2> QED
    BY <1>6, <2>1, <2>3, <2>4, <2>5, <2>6, ClientMoves
<1>12. CASE StartFailed(c)
  <2>1. /\ Return(c, "false") /\ At(c) = "started" /\ ret[c] = "false" /\ life' = life
    BY <1>12 DEF StartFailed
  <2>2. mTaskState = "Stopped" /\ life = "configured"
    BY <1>2, <1>4, <1>5, <2>1 DEF ClientState, Returned, Entering
  <2>3. mTaskState' = "Stopped" /\ mTargetState' = "Stopped" /\ life' = "configured"
    BY <1>12, <2>1, <2>2 DEF StartFailed, SetTarget
  <2>4. Calm'
    BY <2>3 DEF Calm, Fits, RunningStates, Halfway
  <2> QED
    BY <1>6, <1>7, <2>1, <2>3, <2>4, ClientMoves
<1>13. CASE Restart(c)
  <2>1. /\ Call(c, "stopHook", "stopped") /\ "stopHook" \in Places /\ "stopped" \in Places
        /\ UNCHANGED <<mTaskState, mTargetState, life, ret>>
        /\ At(c) = "restart" /\ ret[c] = "true"
    BY <1>13 DEF Restart, states, Places, Hooks
  <2>2. /\ Stays(Engine) /\ Depth(c)' = 2
        /\ Place(c, 1)' = "stopped" /\ Place(c, 2)' = "stopHook"
    BY <1>1, <1>4, <2>1, Calling DEF Typed
  <2>3. ClientShape(c)'
    BY <1>2, <1>4, <2>1, <2>2 DEF ClientShape, Held, HookOf, Hooks, Entering, Recovering
  <2>4. ClientState(c)'
    BY <1>2, <1>4, <2>1, <2>2 DEF ClientState, Returned, Raising, Entering
  <2> QED
    BY <1>6, <2>1, <2>2, <2>3, <2>4, ClientMoves DEF Held, Entering
<1>14. CASE StopFailed(c)
  <2>1. /\ Goto(c, "target") /\ "target" \in Places /\ At(c) = "restart"
        /\ UNCHANGED <<life, ret>> /\ mTaskState' = Saved(c)
    BY <1>14 DEF StopFailed, SetState, Places
  <2>2. /\ Kept(c, 1) = "Running" /\ mTaskState = "Running" /\ life = "started"
        /\ ~NobodyStops(user)
    BY <1>2, <1>4, <2>1 DEF ClientState, ClientShape, Entering, Recovering
  <2>3. Stays(Engine) /\ Depth(c)' = 1 /\ Place(c, 1)' = "target" /\ Kept(c, 1)' = "Running"
    BY <1>1, <1>4, <2>1, <2>2, Going DEF Typed
  <2>4. ClientShape(c)'
    BY <2>3 DEF ClientShape, Recovering
  <2>5. ClientState(c)' /\ ~Holding(c)'
    BY <1>4, <2>1, <2>2, <2>3
       DEF ClientState, Holding, Held, Raising, Entering, Fits, RunningStates
  <2> QED
    BY <1>4, <2>1, <2>2, <2>3, <2>4, <2>5, ClientMoves
<1>15. CASE Stopped(c)
  <2>1. Return(c, "true") /\ At(c) = "stopped" /\ ret[c] # "throw" /\ life' = life
    BY <1>15 DEF Stopped
  <2>2. mTargetState = "Stopped" /\ life = "configured"
    BY <1>2, <1>4, <1>5, <2>1 DEF ClientState, Returned, Entering
  <2>3. mTaskState' = "Stopped" /\ mTargetState' = "Stopped" /\ life' = "configured"
    BY <1>15, <2>1, <2>2 DEF Stopped, SetState
  <2>4. Calm'
    BY <2>3 DEF Calm, Fits, RunningStates, Halfway
  <2> QED
    BY <1>6, <1>7, <2>1, <2>3, <2>4, ClientMoves
<1> QED
  BY <1>8, <1>9, <1>10, <1>11, <1>12, <1>13, <1>14, <1>15, <1>16

\* The second store of an operation, and the first one of recover() and of the end of
\* fatal(), for the client.
LEMMA ClientStores ==
  ASSUME Typed, Orderly, NEW c \in Clients, UNCHANGED user,
         Store(c) \/ Target(c) \/ FatalTarget(c)
  PROVE  Orderly'
<1>1. c \in Threads /\ Engine \in Threads /\ c # Engine
  BY ThreadsDiffer
<1>2. ClientShape(c) /\ ClientState(c)
  BY DEF Orderly
<1>3. At(c) \in {"store", "target", "fatalTarget"}
  BY DEF Store, Target, FatalTarget
<1>4. Depth(c) = 1 /\ Place(c, 1) = At(c) /\ Saved(c) = Kept(c, 1)
  BY <1>3, ClientAt DEF Hooks, Signals, Halting
<1>5. CASE Store(c)
  <2>1. /\ Goto(c, "target") /\ "target" \in Places /\ At(c) = "store"
        /\ mTaskState' = Saved(c) /\ life' = life /\ ret'[Engine] = ret[Engine]
    BY <1>1, <1>5 DEF Store, SetState, Places, Typed
  <2>2. /\ mTaskState = "Exception" /\ Kept(c, 1) = "PreOperational" /\ ~NobodyStops(user)
        /\ InitialState = "PreOperational"
    BY <1>2, <1>4, <2>1 DEF ClientState, ClientShape, Entering, Recovering
  <2>3. life = "cleaned" /\ ~Busy
    <3>1. Calm
      BY <1>4, <2>1, CalmOutside DEF Held, Raising, Entering
    <3> QED
      BY <2>2, <3>1, NotBusy DEF Calm
  <2>4. /\ Stays(Engine) /\ Depth(c)' = 1 /\ Place(c, 1)' = "target"
        /\ Kept(c, 1)' = "PreOperational"
    BY <1>1, <1>4, <2>1, <2>2, Going DEF Typed
  <2>5. ClientShape(c)'
    BY <2>4 DEF ClientShape, Recovering
  <2>6. ClientState(c)' /\ ~Holding(c)'
    BY <1>4, <2>1, <2>2, <2>3, <2>4
       DEF ClientState, Holding, Held, Raising, Entering, Fits, RunningStates
  <2> QED
    BY <1>4, <2>1, <2>2, <2>3, <2>4, <2>5, <2>6, ClientMoves
<1>6. CASE Target(c)
  <2>1. /\ Return(c, ret[c]) /\ At(c) = "target" /\ mTargetState' = Saved(c)
        /\ UNCHANGED <<mTaskState, life>>
    BY <1>6 DEF Target, SetTarget
  <2>2. /\ mTaskState = Kept(c, 1) /\ Kept(c, 1) \in {"PreOperational", "Running"}
        /\ Fits(Kept(c, 1))
    BY <1>2, <1>4, <2>1 DEF ClientState, Entering
  <2>3. Stays(Engine) /\ Depth(c)' = 0 /\ Place(c, 1)' = "idle"
    BY <1>1, <1>4, <2>1, Returning DEF Typed
  <2>4. ret'[Engine] = ret[Engine]
    BY <1>1, <2>1 DEF Return, Typed
  <2>5. ClientShape(c)' /\ ClientState(c)' /\ ~Holding(c)'
    BY <2>3 DEF ClientShape, ClientState, Holding, Held, Raising, Entering, Recovering
  <2>6. Calm'
    BY <1>4, <2>1, <2>2 DEF Calm, Fits
  <2> QED
    BY <2>1, <2>3, <2>4, <2>5, <2>6, ClientMoves
<1>7. CASE FatalTarget(c)
  <2>1. /\ Goto(c, "halt") /\ "halt" \in Places /\ UNCHANGED <<mTaskState, ret, life>>
        /\ At(c) = "fatalTarget" /\ mTargetState' = "FatalError"
    BY <1>7 DEF FatalTarget, SetTarget, Places
  <2>2. Stays(Engine) /\ Depth(c)' = 1 /\ Place(c, 1)' = "halt"
    BY <1>1, <1>4, <2>1, Going DEF Typed
  <2>3. mTaskState = "FatalError"
    BY <1>2, <1>4, <2>1 DEF ClientState, Entering
  <2>4. ClientShape(c)' /\ ClientState(c)' /\ ~Holding(c)'
    BY <2>2 DEF ClientShape, ClientState, Holding, Held, Raising, Entering, Halting, Recovering
  <2>5. Calm'
    BY <2>1, <2>3 DEF Calm, Fits, RunningStates
  <2> QED
    BY <2>1, <2>2, <2>4, <2>5, ClientMoves
<1> QED
  BY <1>5, <1>6, <1>7

\* exception(), called by the client.
LEMMA ClientRaises ==
  ASSUME Typed, Orderly, NEW c \in Clients, UNCHANGED user,
         \/ Raise(c) \/ RaiseState(c) \/ RaiseTarget(c) \/ RaiseStop(c) \/ RaiseClean(c)
         \/ RaiseHook(c) \/ Raised(c) \/ RaiseFatal(c)
  PROVE  Orderly'
<1>1. c \in Threads /\ Engine \in Threads /\ c # Engine
  BY ThreadsDiffer
<1>2. ClientShape(c) /\ ClientState(c)
  BY DEF Orderly
<1>3. At(c) \in {"exception"} \cup Entering \cup Raising
  BY DEF Raise, RaiseState, RaiseTarget, Entering, RaiseStop, RaiseClean, RaiseHook, Raised, RaiseFatal, Raising
<1>4. Depth(c) = 1 /\ Place(c, 1) = At(c) /\ Saved(c) = Kept(c, 1)
  BY <1>3, ClientAt DEF Hooks, Signals, Halting, Raising, Entering
<1>5. ~Busy
  BY <1>3, <1>4, NotBusy DEF Holding, Held, Entering
<1>6. ASSUME NEW at \in Entering \cup Raising, Goto(c, at), ret' = ret
      PROVE  /\ Stays(Engine) /\ Depth(c)' = 1 /\ Place(c, 1)' = at /\ Kept(c, 1)' = Kept(c, 1)
             /\ ClientShape(c)'
  <2>1. at \in Places
    BY DEF Places, Raising, Entering
  <2>2. Stays(Engine) /\ Depth(c)' = 1 /\ Place(c, 1)' = at /\ Kept(c, 1)' = Kept(c, 1)
    BY <1>1, <1>4, <1>6, <2>1, Going DEF Typed
  <2>3. ClientShape(c)'
    BY <2>2 DEF ClientShape, Held, Raising, Entering, Recovering
  <2> QED
    BY <2>2, <2>3
<1>7. ASSUME NEW at \in Raising, HookOf(at) \in Hooks, Call(c, HookOf(at), at), ret' = ret
      PROVE  /\ Stays(Engine) /\ Depth(c)' = 2 /\ Place(c, 1)' = at /\ Kept(c, 1)' = Kept(c, 1)
             /\ ClientShape(c)'
  <2>1. at \in Places /\ HookOf(at) \in Places
    BY <1>7 DEF Places, Raising
  <2>2. Stays(Engine) /\ Depth(c)' = 2 /\ Place(c, 1)' = at /\ Kept(c, 1)' = Kept(c, 1)
        /\ Place(c, 2)' = HookOf(at)
    BY <1>1, <1>4, <1>7, <2>1, Calling DEF Typed
  <2>3. ClientShape(c)'
    BY <1>7, <2>2 DEF ClientShape, Held, Raising, Entering, Recovering
  <2> QED
    BY <2>2, <2>3
<1>8. At(c) \in Raising => /\ mTaskState = "Exception" /\ mTargetState = "Exception"
                           /\ Kept(c, 1) \in {"PreOperational", "Stopped", "Running"}
                           /\ RaisedLife(c, 1)
  BY <1>2, <1>4 DEF ClientState, Entering
<1>9. ASSUME Place(c, 1)' \in Raising, Kept(c, 1)' = Kept(c, 1), At(c) \in Raising,
             UNCHANGED <<mTaskState, mTargetState>>, RaisedLife(c, 1)'
      PROVE  ClientState(c)'
  BY <1>8, <1>9 DEF ClientState, Raising, Entering
<1>10. CASE Raise(c)
  <2>1. /\ Enter(c, "raise", mTaskState) /\ "raise" \in Places /\ At(c) = "exception"
        /\ mTaskState \in TaskState /\ UNCHANGED <<mTaskState, mTargetState, life>>
        /\ ret'[Engine] = ret[Engine]
    BY <1>1, <1>10 DEF Raise, states, Places, Typed
  <2>2. Stays(Engine) /\ Depth(c)' = 1 /\ Place(c, 1)' = "raise" /\ Kept(c, 1)' = mTaskState
    BY <1>1, <1>4, <2>1, Keeping DEF Typed
  <2>3. /\ \/ mTaskState \in {"Stopped", "PreOperational"}
           \/ mTaskState = "Running" /\ mTargetState = "Stopped"
        /\ Fits(mTaskState)
    BY <1>2, <1>4, <2>1 DEF ClientState
  <2>4. ClientShape(c)' /\ Place(c, 1)' \in Held
    BY <2>2 DEF ClientShape, Held, Raising, Entering, Recovering
  <2>5. RaisedLife(c, 1)'
    BY <2>1, <2>2, <2>3 DEF RaisedLife, Fits, Entering
  <2>6. ClientState(c)'
    BY <2>1, <2>2, <2>3, <2>5 DEF ClientState, Raising, Entering, Fits
  <2> QED
    BY <1>5, <2>1, <2>2, <2>4, <2>6, ClientMoves
<1>16. CASE RaiseState(c)
  <2>1. /\ Goto(c, "raiseTarget") /\ "raiseTarget" \in Entering /\ At(c) = "raise"
        /\ mTaskState' = "Exception" /\ UNCHANGED <<life, ret>>
    BY <1>16 DEF RaiseState, SetState, Entering
  <2>2. /\ Stays(Engine) /\ Depth(c)' = 1 /\ Place(c, 1)' = "raiseTarget"
        /\ Kept(c, 1)' = Kept(c, 1) /\ ClientShape(c)'
    BY <1>6, <2>1
  <2>3. Kept(c, 1) \in {"PreOperational", "Stopped", "Running"} /\ Fits(Kept(c, 1))
    BY <1>2, <1>4, <2>1 DEF ClientState, Entering
  <2>4. RaisedLife(c, 1)'
    BY <2>1, <2>2, <2>3 DEF RaisedLife, Fits
  <2>5. ClientState(c)'
    BY <2>1, <2>2, <2>3, <2>4 DEF ClientState, Raising
  <2> QED
    BY <1>5, <2>1, <2>2, <2>5, ClientMoves DEF Held
<1>17. CASE RaiseTarget(c)
  <2>1. /\ Goto(c, "raised") /\ "raised" \in Raising /\ At(c) = "raiseTarget"
        /\ mTargetState' = "Exception" /\ UNCHANGED <<mTaskState, life, ret>>
    BY <1>17 DEF RaiseTarget, SetTarget, Raising
  <2>2. /\ Stays(Engine) /\ Depth(c)' = 1 /\ Place(c, 1)' = "raised"
        /\ Kept(c, 1)' = Kept(c, 1) /\ ClientShape(c)'
    BY <1>6, <2>1
  <2>3. /\ Kept(c, 1) \in {"PreOperational", "Stopped", "Running"} /\ RaisedLife(c, 1)
        /\ mTaskState = "Exception"
    BY <1>2, <1>4, <2>1 DEF ClientState, Entering
  <2>4. RaisedLife(c, 1)'
    BY <1>4, <2>1, <2>2, <2>3 DEF RaisedLife, Fits, Entering
  <2>5. ClientState(c)'
    BY <2>1, <2>2, <2>3, <2>4 DEF ClientState, Raising, Entering
  <2> QED
    BY <1>5, <2>1, <2>2, <2>5, ClientMoves DEF Held
<1>11. CASE RaiseStop(c)
  <2>1. /\ UNCHANGED <<mTaskState, mTargetState, life, ret>> /\ At(c) = "raised"
        /\ IF Saved(c) \in RunningStates THEN Call(c, "stopHook", "raisedStop")
                                         ELSE Goto(c, "raisedStop")
    BY <1>11 DEF RaiseStop, states
  <2>2. "raisedStop" \in Raising /\ HookOf("raisedStop") = "stopHook" /\ "stopHook" \in Hooks
        /\ At(c) \in Raising
    BY <2>1 DEF Raising, HookOf, Hooks
  <2>3. /\ Stays(Engine) /\ Place(c, 1)' = "raisedStop" /\ Kept(c, 1)' = Kept(c, 1)
        /\ Depth(c)' = IF Saved(c) \in RunningStates THEN 2 ELSE 1
        /\ ClientShape(c)'
    BY <1>6, <1>7, <2>1, <2>2
  <2>4. RaisedLife(c, 1)'
    BY <1>4, <1>8, <2>1, <2>2, <2>3 DEF RaisedLife, Fits, RunningStates, Entering
  <2>5. ClientState(c)'
    BY <1>9, <2>1, <2>2, <2>3, <2>4
  <2> QED
    BY <1>5, <2>1, <2>2, <2>3, <2>5, ClientMoves DEF Held, Entering
<1>12. CASE RaiseClean(c)
  <2>1. /\ UNCHANGED <<mTaskState, mTargetState, life, ret>>
        /\ At(c) = "raisedStop" /\ ret[c] # "throw"
        /\ IF Saved(c) \in ConfiguredStates /\ InitialState = "PreOperational"
             THEN Call(c, "cleanupHook", "raisedClean")
             ELSE Goto(c, "raisedClean")
    BY <1>12 DEF RaiseClean, states
  <2>2. "raisedClean" \in Raising /\ HookOf("raisedClean") = "cleanupHook"
        /\ "cleanupHook" \in Hooks /\ At(c) \in Raising
    BY <2>1 DEF Raising, HookOf, Hooks
  <2>3. /\ Stays(Engine) /\ Place(c, 1)' = "raisedClean" /\ Kept(c, 1)' = Kept(c, 1)
        /\ Depth(c)' = IF Saved(c) \in ConfiguredStates /\ InitialState = "PreOperational"
                         THEN 2 ELSE 1
        /\ ClientShape(c)'
    BY <1>6, <1>7, <2>1, <2>2
  <2>4. RaisedLife(c, 1)'
    BY <1>4, <1>8, <2>1, <2>2, <2>3 DEF RaisedLife, ConfiguredStates, RunningStates,
       InitialState, Entering
  <2>5. ClientState(c)'
    BY <1>9, <2>1, <2>2, <2>3, <2>4
  <2> QED
    BY <1>5, <2>1, <2>2, <2>3, <2>5, ClientMoves DEF Held, Entering
<1>13. CASE RaiseHook(c)
  <2>1. /\ UNCHANGED <<mTaskState, mTargetState, life, ret>>
        /\ At(c) = "raisedClean" /\ ret[c] # "throw"
        /\ Call(c, "exceptionHook", "raisedHook")
    BY <1>13 DEF RaiseHook, states
  <2>2. "raisedHook" \in Raising /\ HookOf("raisedHook") = "exceptionHook"
        /\ "exceptionHook" \in Hooks /\ At(c) \in Raising
    BY <2>1 DEF Raising, HookOf, Hooks
  <2>3. /\ Stays(Engine) /\ Place(c, 1)' = "raisedHook" /\ Kept(c, 1)' = Kept(c, 1)
        /\ Depth(c)' = 2 /\ ClientShape(c)'
    BY <1>7, <2>1, <2>2
  <2>4. RaisedLife(c, 1)'
    BY <1>4, <1>8, <2>1, <2>2, <2>3 DEF RaisedLife, InitialState, Entering
  <2>5. ClientState(c)'
    BY <1>9, <2>1, <2>2, <2>3, <2>4
  <2> QED
    BY <1>5, <2>1, <2>2, <2>3, <2>5, ClientMoves DEF Held, Entering
<1>14. CASE Raised(c)
  <2>1. /\ Return(c, "false") /\ UNCHANGED <<mTaskState, mTargetState, life>>
        /\ At(c) = "raisedHook"
    BY <1>14 DEF Raised, states
  <2>2. Stays(Engine) /\ Depth(c)' = 0 /\ Place(c, 1)' = "idle"
    BY <1>1, <1>4, <2>1, Returning DEF Typed
  <2>3. ret'[Engine] = ret[Engine]
    BY <1>1, <2>1 DEF Return, Typed
  <2>4. ClientShape(c)' /\ ClientState(c)' /\ ~Holding(c)'
    BY <2>2 DEF ClientShape, ClientState, Holding, Held, Raising, Entering, Recovering
  <2>5. Calm'
    <3>1. mTaskState = "Exception" /\ mTargetState = "Exception" /\ RaisedLife(c, 1)
      BY <1>8, <2>1 DEF Raising
    <3> QED
      BY <1>4, <2>1, <3>1 DEF Calm, Fits, RaisedLife, RunningStates, InitialState, Entering, Halfway
  <2> QED
    BY <2>1, <2>2, <2>3, <2>4, <2>5, ClientMoves
<1>15. CASE RaiseFatal(c)
  <2>1. /\ Goto(c, "fatal") /\ UNCHANGED <<mTaskState, mTargetState, life, ret>>
        /\ At(c) \in Raising /\ "fatal" \in Places
    BY <1>15 DEF RaiseFatal, states, Raising, Places, Operations
  <2>2. Stays(Engine) /\ Depth(c)' = 1 /\ Place(c, 1)' = "fatal"
    BY <1>1, <1>4, <2>1, Going DEF Typed
  <2>3. ClientShape(c)'
    BY <2>2 DEF ClientShape, Held, Entering, Recovering
  <2>4. ClientState(c)'
    BY <1>8, <2>1, <2>2 DEF ClientState, Raising, Entering
  <2> QED
    BY <1>5, <2>1, <2>2, <2>3, <2>4, ClientMoves DEF Held, Entering
<1> QED
  BY <1>10, <1>11, <1>12, <1>13, <1>14, <1>15, <1>16, <1>17

-----------------------------------------------------------------------------
(***************************************************************************)
(* The steps of the engine, in the same environments.                      *)
(***************************************************************************)

\* Where the engine can be.
LEMMA EngineAt ==
  ASSUME Typed, Orderly, At(Engine) # "idle"
  PROVE  /\ Depth(Engine) \in 1 .. 4 /\ Place(Engine, Depth(Engine)) = At(Engine)
         /\ Saved(Engine) = Kept(Engine, Depth(Engine))
         /\ \/ At(Engine) \in {"awake", "step", "updated", "handled"} /\ Depth(Engine) = 1
            \/ At(Engine) \in {"updateHook", "errorHook"} /\ Depth(Engine) = 2
            \/ /\ At(Engine) \in Hooks /\ Depth(Engine) = 3 /\ Place(Engine, 2) \in Raising
               /\ HookOf(Place(Engine, 2)) = At(Engine) /\ NobodyStops(user)
            \/ At(Engine) \in Signals /\ Depth(Engine) \in {3, 4}
            \/ /\ At(Engine) \in {"error", "target", "fatal", "fatalTarget"} \cup Recovering
                                  \cup Halting
               /\ Depth(Engine) = 3 /\ Place(Engine, 2) \in {"updateHook", "errorHook"}
               /\ NobodyStops(user)
               /\ At(Engine) \in {"fatal", "fatalTarget"} \cup Halting =>
                    <<Place(Engine, 2), "fatal">> \in MayCall
            \/ /\ At(Engine) \in {"exception", "fatal", "fatalTarget"} \cup Halting
                                  \cup Entering \cup Raising
               /\ Depth(Engine) = 2 /\ NobodyStops(user)
<1>1. /\ Depth(Engine) \in Nat /\ Depth(Engine) >= 1
      /\ At(Engine) = Place(Engine, Depth(Engine))
      /\ Saved(Engine) = Kept(Engine, Depth(Engine))
  BY ThreadsDiffer, Active DEF Typed
<1>2. EngineShape
  BY DEF Orderly
<1>3. Depth(Engine) \in 1 .. 4
  BY <1>1, <1>2 DEF EngineShape, Entering, Recovering
<1>4. CASE Depth(Engine) = 1
  BY <1>1, <1>2, <1>4 DEF EngineShape, Entering, Recovering
<1>5. CASE Depth(Engine) = 2
  BY <1>1, <1>2, <1>5 DEF EngineShape, HookOf, Entering, Recovering
<1>6. CASE Depth(Engine) = 3
  <2>1. CASE Place(Engine, 2) \in Hooks
    <3>1. Place(Engine, 2) \in {"updateHook", "errorHook"}
      BY <1>2, <1>6, <2>1 DEF EngineShape, HookOf, Hooks, Halting, Raising, Entering, Recovering
    <3> QED
      BY <1>1, <1>2, <1>6, <2>1, <3>1 DEF EngineShape, Hooks, Raising, Entering, Recovering
  <2>2. CASE Place(Engine, 2) \notin Hooks
    <3>1. /\ Place(Engine, 2) \in Raising /\ Place(Engine, 3) = HookOf(Place(Engine, 2))
          /\ Place(Engine, 3) \in Hooks
      BY <1>2, <1>6, <2>2 DEF EngineShape, Entering, Recovering
    <3>2. NobodyStops(user)
      BY <1>2, <1>6, <3>1 DEF EngineShape, HookOf, Raising, Entering, Recovering
    <3> QED
      BY <1>1, <1>3, <1>6, <3>1, <3>2
  <2> QED
    BY <2>1, <2>2
<1>7. CASE Depth(Engine) = 4
  BY <1>1, <1>2, <1>7 DEF EngineShape, Entering, Recovering
<1> QED
  BY <1>3, <1>4, <1>5, <1>6, <1>7

\* While the engine is busy with its failure, the client is in none of the exclusive parts.
LEMMA BusyCalm ==
  ASSUME Typed, Orderly, Busy, NobodyStops(user)
  PROVE  Calm
<1>1. ASSUME NEW c \in Clients
      PROVE  Place(c, 1) \notin Held \cup {"restart", "target"}
  <2>1. ~Holding(c) /\ ClientShape(c) /\ ClientState(c)
    BY NotBusy DEF Orderly
  <2>2. Place(c, 1) # "target"
    BY <2>1, NotBusy DEF ClientState, Entering
  <2> QED
    BY <2>1, <2>2 DEF Holding, ClientShape, Recovering
<1> QED
  BY <1>1 DEF Orderly, Rest

\* The client holds only in states in which the engine calls no hook.
LEMMA NoHookWhileHeld ==
  ASSUME Typed, Orderly, NEW c \in Clients, Holding(c)
  PROVE  mTaskState # "RunTimeError" /\ ~(mTaskState = "Running" /\ mTargetState = "Running")
<1>1. ClientState(c)
  BY DEF Orderly
<1> QED
  BY <1>1 DEF ClientState, Holding, Held, Raising, Entering

\* The loop of the engine, up to the hooks.
LEMMA EngineLoop ==
  ASSUME Typed, Orderly, UNCHANGED user, EngineStep \/ OperationThrew
  PROVE  Orderly'
<1>1. /\ Engine \in Threads /\ \A c \in Clients : c \in Threads /\ c # Engine
  BY ThreadsDiffer
<1>2. EngineShape /\ EngineState
  BY DEF Orderly
<1>3. UNCHANGED <<states, life>> /\ UNCHANGED <<mTaskState, mTargetState>>
  BY DEF EngineStep, OperationThrew, Wake, Step, Update, UpdateThrew, HandleError, ErrorThrew,
     EndStep, states
<1>4. ~OperationThrew
  BY DEF Orderly, OperationThrew, StoppedByClient, NobodyStops, MayThrow
<1>5. CASE Wake /\ ~running
  <2>1. Stacks' /\ (\A u : Stays(u)) /\ ret' = ret
    BY <1>5, Staying DEF Wake, Typed
  <2>2. EngineShape'
    BY <1>2, <2>1 DEF EngineShape, Stays, MayCall, Entering, Recovering
  <2>3. EngineState' /\ Busy' = Busy
    BY <1>2, <1>3, <2>1 DEF EngineState, Stays, MayCall, RaisedLife, Fits, InitialState, Busy,
       Entering
  <2>4. ~Halfway
    BY <1>5 DEF Wake, Halfway, Place
  <2> QED
    BY <1>3, <2>1, <2>2, <2>3, <2>4, EngineMoves
<1>6. CASE Wake /\ running
  <2>1. /\ stack[Engine] = <<>> /\ stack' = [stack EXCEPT ![Engine] = <<Frame("awake")>>]
        /\ "awake" \in Places /\ ret' = ret
    BY <1>6 DEF Wake, Places
  <2>2. Depth(Engine) = 0 /\ Place(Engine, 1) = "idle"
    BY <2>1 DEF Depth, Place
  <2>3. /\ \A u \in Threads : Depth(u)' = IF u = Engine THEN 1 ELSE Depth(u)
        /\ \A u \in Threads, d \in Nat :
             /\ Kept(u, d)' = IF u = Engine /\ d = 1 THEN "none" ELSE Kept(u, d)
             /\ Place(u, d)' = IF u = Engine /\ d = 1 THEN "awake" ELSE Place(u, d)
    BY <1>1, <2>1, FirstView DEF Typed
  <2>4. \A c \in Clients : Stays(c)
    BY <1>1, <2>3 DEF Stays
  <2>5. /\ Depth(Engine)' = 1 /\ Place(Engine, 1)' = "awake"
        /\ Place(Engine, 2)' = "idle" /\ Place(Engine, 3)' = "idle"
    BY <1>1, <2>2, <2>3, PlaceInDepth DEF Typed
  <2>6. ret'[Engine] = "none"
    BY <1>2, <2>1, <2>2 DEF EngineShape, Entering, Recovering
  <2>7. EngineShape'
    BY <2>5, <2>6 DEF EngineShape, Entering, Recovering
  <2>8. EngineState' /\ ~Busy'
    BY <1>2, <1>3, <2>5, <2>6 DEF EngineState, Busy, Hooks, Raising, Halting, Entering
  <2>9. ~Halfway
    BY <2>1 DEF Halfway, Place
  <2> QED
    BY <1>3, <2>1, <2>4, <2>7, <2>8, <2>9, EngineMoves
<1>7. SUFFICES ASSUME Step \/ Update \/ UpdateThrew \/ HandleError \/ ErrorThrew \/ EndStep
               PROVE  Orderly'
  BY <1>4, <1>5, <1>6 DEF EngineStep
<1>8. At(Engine) \in {"awake", "step", "updated", "handled"}
  BY <1>7 DEF Step, Update, UpdateThrew, HandleError, ErrorThrew, EndStep
<1>9. Depth(Engine) = 1 /\ Place(Engine, 1) = At(Engine)
  BY <1>8, EngineAt DEF Hooks, Signals, Halting, Raising, Entering, Recovering
<1>10. Place(Engine, 2) = "idle" /\ Place(Engine, 3) = "idle" /\ Place(Engine, 4) = "idle"
  BY <1>1, <1>9, PlaceInDepth DEF Typed
<1>19. ~Halfway
  BY <1>10 DEF Halfway
<1>11. ASSUME NEW at \in {"step", "updated", "handled"}, Goto(Engine, at),
              ret'[Engine] = "none", \A c \in Clients : ret'[c] = ret[c]
       PROVE  Orderly'
  <2>1. at \in Places
    BY DEF Places
  <2>2. /\ \A c \in Clients : Stays(c)
        /\ Depth(Engine)' = 1 /\ Place(Engine, 1)' = at
        /\ Place(Engine, 2)' = "idle" /\ Place(Engine, 3)' = "idle"
    BY <1>1, <1>9, <1>10, <1>11, <2>1, Going DEF Typed
  <2>3. EngineShape'
    BY <1>11, <2>2 DEF EngineShape, Entering, Recovering
  <2>4. EngineState' /\ ~Busy'
    BY <1>2, <1>3, <1>11, <2>2 DEF EngineState, Busy, Hooks, Raising, Halting, Entering
  <2> QED
    BY <1>3, <1>11, <1>19, <2>2, <2>3, <2>4, EngineMoves
<1>12. ASSUME NEW at \in {"updated", "handled"}, NEW callee \in {HookOf(at), "exception"},
              Call(Engine, callee, at), \A c \in Clients : ret'[c] = ret[c],
              mTaskState \in RunningStates, callee = "exception" => NobodyStops(user) /\ Busy,
              Busy \/ \A c \in Clients : ~Holding(c)
       PROVE  Orderly'
  <2>1. at \in Places /\ callee \in Places
    BY DEF Places, HookOf, Hooks, Operations
  <2>2. /\ \A c \in Clients : Stays(c)
        /\ Depth(Engine)' = 2 /\ Place(Engine, 1)' = at
        /\ Place(Engine, 2)' = callee /\ Place(Engine, 3)' = "idle"
    BY <1>1, <1>9, <1>10, <1>12, <2>1, Calling DEF Typed
  <2>3. EngineShape'
    BY <1>12, <2>2 DEF EngineShape, Entering, Recovering
  <2>4. EngineState'
    BY <1>2, <1>3, <1>12, <2>2 DEF EngineState, Hooks, Raising, Halting, HookOf, Entering
  <2> QED
    BY <1>3, <1>12, <1>19, <2>2, <2>3, <2>4, EngineMoves
<1>13. CASE Step
  <2>1. Goto(Engine, "step") /\ ret' = [ret EXCEPT ![Engine] = "none"]
    BY <1>13 DEF Step
  <2> QED
    BY <1>1, <1>11, <2>1 DEF Typed
<1>14. CASE Update
  <2>1. ret' = ret /\ ret[Engine] = "none"
    BY <1>2, <1>9, <1>14 DEF Update, EngineShape, Entering, Recovering
  <2>2. CASE mTaskState = "Running" /\ mTargetState = "Running"
    <3>1. Call(Engine, "updateHook", "updated") /\ HookOf("updated") = "updateHook"
      BY <1>14, <2>2 DEF Update, HookOf
    <3>2. \A c \in Clients : ~Holding(c)
      BY <2>2, NoHookWhileHeld
    <3> QED
      BY <1>12, <2>1, <2>2, <3>1, <3>2 DEF RunningStates
  <2>3. CASE ~(mTaskState = "Running" /\ mTargetState = "Running")
    BY <1>11, <1>14, <2>1, <2>3 DEF Update
  <2> QED
    BY <2>2, <2>3
<1>15. CASE UpdateThrew
  <2>1. Call(Engine, "exception", "updated") /\ ret' = ret /\ ret[Engine] = "throw"
    BY <1>15 DEF UpdateThrew
  <2>2. NobodyStops(user) /\ mTaskState \in RunningStates /\ Busy
    BY <1>2, <1>9, <2>1 DEF EngineState, Busy, Entering
  <2> QED
    BY <1>12, <2>1, <2>2
<1>16. CASE HandleError
  <2>1. ret' = [ret EXCEPT ![Engine] = "none"]
    BY <1>16 DEF HandleError
  <2>2. ret'[Engine] = "none" /\ \A c \in Clients : ret'[c] = ret[c]
    BY <1>1, <2>1 DEF Typed
  <2>3. CASE mTaskState = "RunTimeError"
    <3>1. Call(Engine, "errorHook", "handled") /\ HookOf("handled") = "errorHook"
      BY <1>16, <2>3 DEF HandleError, HookOf
    <3>2. \A c \in Clients : ~Holding(c)
      BY <2>3, NoHookWhileHeld
    <3> QED
      BY <1>12, <2>2, <2>3, <3>1, <3>2 DEF RunningStates
  <2>4. CASE mTaskState # "RunTimeError"
    BY <1>11, <1>16, <2>2, <2>4 DEF HandleError
  <2> QED
    BY <2>3, <2>4
<1>17. CASE ErrorThrew
  <2>1. Call(Engine, "exception", "handled") /\ ret' = ret /\ ret[Engine] = "throw"
    BY <1>17 DEF ErrorThrew
  <2>2. NobodyStops(user) /\ mTaskState \in RunningStates /\ Busy
    BY <1>2, <1>9, <2>1 DEF EngineState, Busy, Entering
  <2> QED
    BY <1>12, <2>1, <2>2
<1>18. CASE EndStep
  <2>1. Return(Engine, "none")
    BY <1>18 DEF EndStep
  <2>2. /\ \A c \in Clients : Stays(c)
        /\ Depth(Engine)' = 0 /\ Place(Engine, 1)' = "idle"
        /\ Place(Engine, 2)' = "idle" /\ Place(Engine, 3)' = "idle"
    BY <1>1, <1>9, <1>10, <2>1, Returning DEF Typed
  <2>3. ret'[Engine] = "none" /\ \A c \in Clients : ret'[c] = ret[c]
    BY <1>1, <2>1 DEF Return, Typed
  <2>4. EngineShape'
    BY <2>2, <2>3 DEF EngineShape, Entering, Recovering
  <2>5. EngineState' /\ ~Busy'
    BY <1>2, <1>3, <2>2, <2>3 DEF EngineState, Busy, Hooks, Raising, Halting, Entering
  <2> QED
    BY <1>3, <1>19, <2>2, <2>3, <2>4, <2>5, EngineMoves
<1> QED
  BY <1>7, <1>13, <1>14, <1>15, <1>16, <1>17, <1>18

\* A call of the engine that returns to the call below it.
LEMMA EngineReturns ==
  ASSUME Typed, Orderly, NEW r \in Returns, Return(Engine, r), Depth(Engine) \in 2 .. 4
  PROVE  /\ \A c \in Clients : Stays(c) /\ ret'[c] = ret[c]
         /\ ret'[Engine] = r
         /\ Depth(Engine)' = Depth(Engine) - 1
         /\ Place(Engine, 1)' = Place(Engine, 1)
         /\ Place(Engine, 2)' = IF Depth(Engine) = 2 THEN "idle" ELSE Place(Engine, 2)
         /\ Place(Engine, 3)' = IF Depth(Engine) = 3 THEN "idle" ELSE Place(Engine, 3)
         /\ Depth(Engine) >= 3 => Kept(Engine, 2)' = Kept(Engine, 2)
         /\ UNCHANGED user => EngineShape'
<1>1. /\ Engine \in Threads /\ \A c \in Clients : c \in Threads /\ c # Engine
  BY ThreadsDiffer
<1>2. /\ \A c \in Clients : Stays(c)
      /\ Depth(Engine)' = Depth(Engine) - 1
      /\ Place(Engine, 1)' = Place(Engine, 1)
      /\ Place(Engine, 2)' = IF Depth(Engine) = 2 THEN "idle" ELSE Place(Engine, 2)
      /\ Place(Engine, 3)' = IF Depth(Engine) = 3 THEN "idle" ELSE Place(Engine, 3)
      /\ Depth(Engine) >= 3 => Kept(Engine, 2)' = Kept(Engine, 2)
  BY <1>1, Returning DEF Typed
<1>3. ret'[Engine] = r /\ \A c \in Clients : ret'[c] = ret[c]
  BY <1>1 DEF Return, Typed
<1>4. EngineShape
  BY DEF Orderly
<1>5. ASSUME UNCHANGED user
      PROVE  EngineShape'
  <2>1. Place(Engine, 1)' \in {"updated", "handled"}
    BY <1>2, <1>4 DEF EngineShape, Entering, Recovering
  <2> QED
    BY <1>2, <1>4, <1>5, <2>1 DEF EngineShape, MayCall, Entering, Recovering
<1> QED
  BY <1>2, <1>3, <1>5

\* The operations of the activity, called by a hook of the engine or by fatal().
LEMMA EngineActivity ==
  ASSUME Typed, Orderly, UNCHANGED user,
         \/ Activate(Engine) \/ Trigger(Engine) \/ HaltInactive(Engine) \/ Halt(Engine)
         \/ HaltFails(Engine) \/ Halted(Engine)
  PROVE  Orderly'
<1>1. /\ Engine \in Threads /\ \A c \in Clients : c \in Threads /\ c # Engine
  BY ThreadsDiffer
<1>2. EngineShape /\ EngineState
  BY DEF Orderly
<1>3. At(Engine) # "idle" /\ At(Engine) \in Signals \cup Halting
  BY DEF Activate, Trigger, HaltInactive, Halt, HaltFails, Halted, Signals, Halting
<1>4. /\ Depth(Engine) \in 2 .. 4 /\ Place(Engine, Depth(Engine)) = At(Engine)
      /\ At(Engine) \in Signals => Depth(Engine) \in {3, 4}
      /\ At(Engine) \in Halting => /\ Depth(Engine) \in {2, 3} /\ NobodyStops(user)
                                   /\ Depth(Engine) = 3 =>
                                        /\ Place(Engine, 2) \in {"updateHook", "errorHook"}
                                        /\ <<Place(Engine, 2), "fatal">> \in MayCall
  BY <1>3, EngineAt DEF Signals, Halting, Hooks, Raising, Entering, Recovering
<1>5. UNCHANGED <<states, life>> /\ UNCHANGED <<mTaskState, mTargetState>>
  BY DEF Activate, Trigger, HaltInactive, Halt, HaltFails, Halted, states
<1>6. Busy /\ ~Halfway
  <2>1. \A d \in {2, 3} : Place(Engine, d) \notin {"raiseTarget", "target", "fatalTarget"}
    BY <1>1, <1>2, <1>3, <1>4, PlaceInDepth
       DEF Typed, EngineShape, Signals, Halting, Hooks, Raising, Entering, Recovering, HookOf
  <2> QED
    BY <1>4, <2>1 DEF Busy, Halfway
<1>7. CASE Halt(Engine)
  <2>1. Goto(Engine, "halting") /\ "halting" \in Places /\ ret' = ret /\ At(Engine) = "halt"
    BY <1>7 DEF Halt, Places
  <2>2. /\ \A c \in Clients : Stays(c)
        /\ Depth(Engine)' = Depth(Engine) /\ Place(Engine, 1)' = Place(Engine, 1)
        /\ Place(Engine, 2)' = IF Depth(Engine) = 2 THEN "halting" ELSE Place(Engine, 2)
        /\ Place(Engine, 3)' = IF Depth(Engine) = 3 THEN "halting" ELSE Place(Engine, 3)
        /\ Kept(Engine, 2)' = Kept(Engine, 2)
    BY <1>1, <1>4, <2>1, Going DEF Typed
  <2>3. EngineShape'
    BY <1>2, <1>4, <2>1, <2>2 DEF EngineShape, Halting, MayCall, Hooks, Raising, HookOf,
       Entering, Recovering
  <2>4. EngineState'
    <3>1. CASE Depth(Engine) = 2
      <4>1. mTaskState = "FatalError"
        BY <1>2, <1>4, <2>1, <3>1 DEF EngineState, Halting, Entering
      <4>2. Place(Engine, 2)' = "halting" /\ Place(Engine, 3)' = "idle"
        BY <1>1, <2>2, <3>1, PlaceInDepth DEF Typed
      <4> QED
        BY <1>2, <1>5, <2>1, <2>2, <3>1, <4>1, <4>2
           DEF EngineState, Halting, Hooks, Raising, RunningStates, Entering
    <3>2. CASE Depth(Engine) = 3
      <4>1. Place(Engine, 2)' = Place(Engine, 2) /\ Place(Engine, 2) \in {"updateHook", "errorHook"}
            /\ Place(Engine, 3)' = "halting"
        BY <1>3, <1>4, <2>1, <2>2, <3>2 DEF Halting
      <4> QED
        BY <1>2, <1>5, <2>1, <2>2, <3>2, <4>1
           DEF EngineState, Halting, Hooks, Raising, MayCall, Entering
    <3> QED
      BY <1>4, <2>1, <3>1, <3>2 DEF Halting
  <2> QED
    BY <1>5, <1>6, <2>1, <2>2, <2>3, <2>4, EngineMoves
<1>8. CASE ~Halt(Engine)
  <2>1. PICK r \in {"true", "false"} : Return(Engine, r)
    BY <1>8 DEF Activate, Trigger, HaltInactive, Halt, HaltFails, Halted
  <2>2. r \in Returns
    BY DEF Returns
  <2>3. /\ \A c \in Clients : Stays(c) /\ ret'[c] = ret[c]
        /\ ret'[Engine] = r
        /\ Depth(Engine)' = Depth(Engine) - 1
        /\ Place(Engine, 1)' = Place(Engine, 1)
        /\ Place(Engine, 2)' = IF Depth(Engine) = 2 THEN "idle" ELSE Place(Engine, 2)
        /\ Place(Engine, 3)' = IF Depth(Engine) = 3 THEN "idle" ELSE Place(Engine, 3)
        /\ Depth(Engine) >= 3 => Kept(Engine, 2)' = Kept(Engine, 2)
        /\ EngineShape'
    BY <1>4, <2>1, <2>2, EngineReturns
  <2>4. CASE Depth(Engine) = 2
    <3>1. Place(Engine, 2)' = "idle" /\ Place(Engine, 3)' = "idle"
      BY <1>1, <2>3, <2>4, PlaceInDepth DEF Typed
    <3> QED
      <4>1. EngineState'
        BY <1>2, <1>5, <2>3, <3>1 DEF EngineState, Hooks, Raising, Halting, Entering
      <4> QED
        BY <1>5, <1>6, <2>3, <4>1, EngineMoves
  <2>5. CASE Depth(Engine) = 3
    <3>1. Place(Engine, 2)' = Place(Engine, 2) /\ Place(Engine, 3)' = "idle"
          /\ Depth(Engine)' = 2
      BY <2>3, <2>5
    <3>2. Place(Engine, 2) \notin Raising \cup Entering
      BY <1>2, <1>3, <1>4, <2>5 DEF EngineShape, Raising, HookOf, Hooks, Signals, Halting,
         Entering, Recovering
    <3>3. EngineState'
      BY <1>2, <1>5, <2>3, <3>1, <3>2 DEF EngineState, MayCall, Entering
    <3> QED
      BY <1>5, <1>6, <2>3, <3>3, EngineMoves
  <2>6. CASE Depth(Engine) = 4
    <3>1. Place(Engine, 2)' = Place(Engine, 2) /\ Place(Engine, 3)' = Place(Engine, 3)
          /\ Depth(Engine)' = 3 /\ Kept(Engine, 2)' = Kept(Engine, 2)
      BY <2>3, <2>6
    <3>2. Place(Engine, 2) \in Raising /\ Place(Engine, 3) \in Hooks
      BY <1>2, <2>6 DEF EngineShape, Entering, Recovering
    <3>3. EngineState'
      <4>1. RaisedLife(Engine, 2)'
        BY <1>2, <1>5, <2>6, <3>1, <3>2 DEF EngineState, RaisedLife, Fits, InitialState, Entering
      <4> QED
        BY <1>2, <1>5, <2>3, <3>1, <3>2, <4>1 DEF EngineState, MayCall, Entering, Hooks
    <3> QED
      BY <1>5, <1>6, <2>3, <3>3, EngineMoves
  <2> QED
    BY <1>4, <2>4, <2>5, <2>6
<1> QED
  BY <1>7, <1>8

\* What the hooks do that the engine calls.
LEMMA EngineHooks ==
  ASSUME Typed, Orderly, UNCHANGED user,
         \/ \E r \in {"true", "false"} : HookReturns(Engine, r)
         \/ HookThrows(Engine)
         \/ \E op \in Operations : HookCalls(Engine, op)
  PROVE  Orderly'
<1>1. /\ Engine \in Threads /\ \A c \in Clients : c \in Threads /\ c # Engine
  BY ThreadsDiffer
<1>2. EngineShape /\ EngineState
  BY DEF Orderly
<1>3. At(Engine) \in Hooks /\ At(Engine) # "idle"
  <2>1. \A op : <<At(Engine), op>> \in MayCall => At(Engine) \in Hooks
    BY TaskCoreAssumption DEF Typed, MayCall, IsProgram
  <2> QED
    BY <2>1 DEF HookReturns, HookThrows, HookCalls, Hooks
<1>4. /\ Depth(Engine) \in 2 .. 4 /\ Place(Engine, Depth(Engine)) = At(Engine)
      /\ \/ At(Engine) \in {"updateHook", "errorHook"} /\ Depth(Engine) = 2
         \/ /\ Depth(Engine) = 3 /\ Place(Engine, 2) \in Raising
            /\ HookOf(Place(Engine, 2)) = At(Engine) /\ NobodyStops(user)
  BY <1>3, EngineAt DEF Signals, Halting, Hooks, Raising, Entering, Recovering
<1>5. Busy /\ ~Halfway
  <2>1. \A d \in {2, 3} : Place(Engine, d) \notin {"raiseTarget", "target", "fatalTarget"}
    BY <1>1, <1>3, <1>4, PlaceInDepth DEF Typed, Hooks, Raising
  <2> QED
    BY <1>4, <2>1 DEF Busy, Halfway
<1>6. UNCHANGED <<mTaskState, mTargetState>> /\ UNCHANGED states
  BY DEF HookReturns, HookThrows, HookCalls, states
<1>7. CASE Depth(Engine) = 2 /\ \E r \in {"true", "false"} : HookReturns(Engine, r)
  <2>1. At(Engine) \in {"updateHook", "errorHook"}
    BY <1>4, <1>7
  <2>2. PICK r \in {"true", "false"} : HookReturns(Engine, r)
    BY <1>7
  <2>3. Return(Engine, r) /\ life' = life /\ r \in Returns /\ r # "throw"
    BY <2>1, <2>2 DEF HookReturns, LifeAfter, Returns
  <2>4. /\ \A c \in Clients : Stays(c) /\ ret'[c] = ret[c]
        /\ ret'[Engine] = r /\ Depth(Engine)' = 1 /\ Place(Engine, 1)' = Place(Engine, 1)
        /\ Place(Engine, 2)' = "idle" /\ EngineShape'
    BY <1>4, <1>7, <2>3, EngineReturns
  <2>5. Place(Engine, 3)' = "idle"
    <3>1. Place(Engine, 3) = "idle"
      BY <1>1, <1>7, PlaceInDepth DEF Typed
    <3>2. Place(Engine, 3)' = Place(Engine, 3)
      BY <1>4, <1>7, <2>3, EngineReturns
    <3> QED
      BY <3>1, <3>2
  <2>6. EngineState'
    BY <1>2, <1>6, <2>3, <2>4, <2>5 DEF EngineState, Hooks, Raising, Halting, Entering
  <2> QED
    BY <1>5, <1>6, <2>3, <2>4, <2>6, EngineMoves
<1>8. CASE Depth(Engine) = 2 /\ HookThrows(Engine)
  <2>1. At(Engine) \in {"updateHook", "errorHook"} /\ Place(Engine, 2) = At(Engine)
    BY <1>4, <1>8
  <2>2. Return(Engine, "throw") /\ life' = life /\ "throw" \in Returns /\ At(Engine) \in MayThrow
    BY <1>8 DEF HookThrows, Returns
  <2>3. NobodyStops(user)
    BY <2>1, <2>2 DEF Orderly, StoppedByClient, MayThrow
  <2>4. mTaskState \in RunningStates
    BY <1>2, <1>3, <2>1, <2>2, <2>3 DEF EngineState, NobodyStops, MayCall, MayThrow, Entering
  <2>5. /\ \A c \in Clients : Stays(c) /\ ret'[c] = ret[c]
        /\ ret'[Engine] = "throw" /\ Depth(Engine)' = 1 /\ Place(Engine, 1)' = Place(Engine, 1)
        /\ Place(Engine, 2)' = "idle" /\ EngineShape'
    BY <1>4, <1>8, <2>2, EngineReturns
  <2>6. Place(Engine, 3)' = "idle"
    <3>1. Place(Engine, 3) = "idle"
      BY <1>1, <1>8, PlaceInDepth DEF Typed
    <3>2. Place(Engine, 3)' = Place(Engine, 3)
      BY <1>4, <1>8, <2>2, EngineReturns
    <3> QED
      BY <3>1, <3>2
  <2>7. EngineState'
    BY <1>2, <1>6, <2>2, <2>3, <2>4, <2>5, <2>6 DEF EngineState, Hooks, Raising, Halting, Entering
  <2> QED
    BY <1>5, <1>6, <2>2, <2>5, <2>7, EngineMoves
<1>9. ASSUME Depth(Engine) = 3, NEW r \in Returns, Return(Engine, r), RaisedLife(Engine, 2)'
      PROVE  Orderly'
  <2>1. Place(Engine, 2) \in Raising /\ NobodyStops(user)
    BY <1>4, <1>9
  <2>2. /\ \A c \in Clients : Stays(c) /\ ret'[c] = ret[c]
        /\ Depth(Engine)' = 2
        /\ Place(Engine, 2)' = Place(Engine, 2) /\ Place(Engine, 3)' = "idle"
        /\ Kept(Engine, 2)' = Kept(Engine, 2) /\ EngineShape'
    BY <1>4, <1>9, EngineReturns
  <2>3. mTaskState = "Exception" /\ Kept(Engine, 2) \in RunningStates
    BY <1>2, <2>1 DEF EngineState, Entering
  <2>4. EngineState'
    BY <1>6, <1>9, <2>1, <2>2, <2>3 DEF EngineState, Hooks, Raising, Halting, Entering
  <2>5. Calm'
    <3>1. mTaskState = mTargetState
      BY <1>5, <2>1, BusyCalm DEF Calm, Halfway
    <3> QED
      BY <1>6, <2>1, <2>3, <3>1 DEF Calm, Fits, RunningStates, Halfway
  <2> QED
    BY <1>5, <2>1, <2>2, <2>4, <2>5, EngineMoves
<1>10. CASE Depth(Engine) = 3 /\ \E r \in {"true", "false"} : HookReturns(Engine, r)
  <2>1. PICK r \in {"true", "false"} : HookReturns(Engine, r)
    BY <1>10
  <2>2. /\ Place(Engine, 2) \in Raising /\ HookOf(Place(Engine, 2)) = At(Engine)
        /\ RaisedLife(Engine, 2) /\ Kept(Engine, 2) \in RunningStates
    BY <1>2, <1>4, <1>10 DEF EngineState, Entering
  <2>3. Return(Engine, r) /\ r \in Returns /\ life' = LifeAfter(At(Engine), r)
        /\ (At(Engine) \notin {"configureHook", "startHook"} => r = "true")
    BY <2>1 DEF HookReturns, Results, Returns
  <2>4. /\ Depth(Engine)' = 2 /\ Place(Engine, 2)' = Place(Engine, 2)
        /\ Kept(Engine, 2)' = Kept(Engine, 2)
    BY <1>4, <1>10, <2>3, EngineReturns
  <2>5. RaisedLife(Engine, 2)'
    BY <1>3, <1>10, <2>2, <2>3, <2>4
       DEF RaisedLife, HookOf, Hooks, LifeAfter, Raising, InitialState, Fits, RunningStates,
          Entering
  <2> QED
    BY <1>9, <1>10, <2>3, <2>5
<1>11. CASE Depth(Engine) = 3 /\ HookThrows(Engine)
  <2>1. /\ Place(Engine, 2) \in Raising /\ HookOf(Place(Engine, 2)) = At(Engine)
        /\ RaisedLife(Engine, 2)
    BY <1>2, <1>4, <1>11 DEF EngineState, Entering
  <2>2. Return(Engine, "throw") /\ "throw" \in Returns /\ life' = life
    BY <1>11 DEF HookThrows, Returns
  <2>3. /\ Depth(Engine)' = 2 /\ Place(Engine, 2)' = Place(Engine, 2)
        /\ Kept(Engine, 2)' = Kept(Engine, 2) /\ ret'[Engine] = "throw"
    BY <1>4, <1>11, <2>2, EngineReturns
  <2>4. RaisedLife(Engine, 2)'
    BY <1>3, <1>11, <2>1, <2>2, <2>3 DEF RaisedLife, HookOf, Hooks, Raising, InitialState, Fits,
       Entering
  <2> QED
    BY <1>9, <1>11, <2>2, <2>4
<1>12. ASSUME NEW op \in Operations, HookCalls(Engine, op)
       PROVE  Orderly'
  <2>1. <<At(Engine), op>> \in MayCall /\ Call(Engine, op, At(Engine))
        /\ op \in Places /\ At(Engine) \in Places /\ ret' = ret /\ life' = life
    BY <1>3, <1>12 DEF HookCalls, Places
  <2>2. \/ op \in Signals
        \/ /\ NobodyStops(user) /\ At(Engine) \in {"updateHook", "errorHook"}
           /\ op \in {"error", "recover", "fatal"}
    <3>1. CASE StoppedByClient(user)
      BY <2>1, <3>1 DEF StoppedByClient, MayCall
    <3>2. CASE NobodyStops(user)
      BY <1>3, <2>1, <3>2 DEF NobodyStops, MayCall
    <3> QED
      BY <3>1, <3>2 DEF Orderly
  <2>3. /\ \A c \in Clients : Stays(c)
        /\ Depth(Engine)' = Depth(Engine) + 1
        /\ Place(Engine, 1)' = Place(Engine, 1) /\ Place(Engine, 2)' = Place(Engine, 2)
        /\ Place(Engine, 3)' = IF Depth(Engine) = 2 THEN op ELSE Place(Engine, 3)
        /\ Depth(Engine) = 3 => Place(Engine, 4)' = op
        /\ Kept(Engine, 2)' = Kept(Engine, 2)
    BY <1>1, <1>4, <2>1, Calling DEF Typed
  <2>4. CASE Depth(Engine) = 2
    <3>1. At(Engine) \in {"updateHook", "errorHook"} /\ Place(Engine, 2) = At(Engine)
      BY <1>4, <2>4
    <3>2. Place(Engine, 3)' = op /\ Depth(Engine)' = 3
      BY <2>3, <2>4
    <3>3. op \in {"fatal"} \cup Halting => <<Place(Engine, 2), "fatal">> \in MayCall
      BY <2>1, <2>2, <3>1 DEF Signals, Halting
    <3>4. EngineShape'
      BY <1>2, <1>3, <2>2, <2>3, <2>4, <3>1, <3>2, <3>3 DEF EngineShape, MayCall, Entering,
         Recovering
    <3>5. op \notin {"store", "target", "fatalTarget"}
      BY DEF Operations
    <3>6. EngineState'
      BY <1>2, <1>3, <1>6, <2>1, <2>3, <3>1, <3>2, <3>5
         DEF EngineState, MayCall, Raising, Halting, Entering
    <3> QED
      BY <1>5, <1>6, <2>1, <2>3, <3>4, <3>6, EngineMoves
  <2>5. CASE Depth(Engine) = 3
    <3>1. /\ Place(Engine, 2) \in Raising /\ HookOf(Place(Engine, 2)) = At(Engine)
          /\ Place(Engine, 3) = At(Engine)
      BY <1>4, <2>5
    <3>2. op \in Signals
      BY <2>2, <3>1 DEF HookOf, Raising
    <3>3. Place(Engine, 4)' = op /\ Depth(Engine)' = 4 /\ Place(Engine, 3)' = Place(Engine, 3)
      BY <2>3, <2>5
    <3>4. EngineShape'
      BY <1>2, <1>3, <2>3, <2>5, <3>1, <3>2, <3>3 DEF EngineShape, MayCall, Entering, Recovering
    <3>5. RaisedLife(Engine, 2)'
      <4>1. RaisedLife(Engine, 2)
        BY <1>2, <3>1 DEF EngineState, Entering
      <4> QED
        BY <2>1, <2>3, <2>5, <3>3, <4>1 DEF RaisedLife, Fits, InitialState, Entering
    <3>6. EngineState'
      BY <1>2, <1>3, <1>6, <2>1, <2>3, <2>5, <3>1, <3>3, <3>5
         DEF EngineState, MayCall, Raising, Halting, Hooks, Entering
    <3> QED
      BY <1>5, <1>6, <2>1, <2>3, <3>4, <3>6, EngineMoves
  <2> QED
    BY <1>4, <2>4, <2>5
<1> QED
  BY <1>4, <1>7, <1>8, <1>10, <1>11, <1>12

\* The operations that updateHook() and errorHook() call, and fatal() after exception().
LEMMA EngineErrors ==
  ASSUME Typed, Orderly, UNCHANGED user,
         \/ NotAllowed(Engine) \/ Recover(Engine) \/ NoException(Engine) \/ RecoverError(Engine)
         \/ Error(Engine) \/ Store(Engine) \/ Target(Engine)
         \/ Fatal(Engine) \/ FatalTarget(Engine)
  PROVE  Orderly'
<1>1. /\ Engine \in Threads /\ \A c \in Clients : c \in Threads /\ c # Engine
  BY ThreadsDiffer
<1>2. EngineShape /\ EngineState
  BY DEF Orderly
<1>3. At(Engine) \in {"configure", "cleanup", "start", "stop", "error", "target", "fatal",
                      "fatalTarget"} \cup Recovering
  BY DEF NotAllowed, Recover, NoException, RecoverError, Error, Store, Target, Fatal,
     FatalTarget, Recovering
<1>4. /\ Depth(Engine) \in {2, 3} /\ Place(Engine, Depth(Engine)) = At(Engine)
      /\ Saved(Engine) = Kept(Engine, Depth(Engine)) /\ NobodyStops(user)
      /\ At(Engine) \in {"error", "target", "fatal", "fatalTarget"} \cup Recovering
      /\ Depth(Engine) = 2 => At(Engine) \in {"fatal", "fatalTarget"}
      /\ Depth(Engine) = 3 => /\ Place(Engine, 2) \in {"updateHook", "errorHook"}
                              /\ Place(Engine, 2) \in Hooks
                              /\ At(Engine) \in {"fatal", "fatalTarget"} =>
                                   <<Place(Engine, 2), "fatal">> \in MayCall
  BY <1>3, EngineAt DEF Signals, Halting, Hooks, Raising, Entering, Recovering
<1>5. Busy /\ Calm
  <2>1. Busy
    BY <1>4 DEF Busy
  <2> QED
    BY <1>4, <2>1, BusyCalm
<1>6. At(Engine) \notin {"target", "fatalTarget"} => ~Halfway /\ mTaskState = mTargetState
  <2>1. Depth(Engine) = 2 => Place(Engine, 3) = "idle"
    BY <1>1, PlaceInDepth DEF Typed
  <2> QED
    BY <1>4, <1>5, <2>1 DEF Halfway, Calm
<1>7. Depth(Engine) = 3 => \/ mTaskState \in RunningStates /\ life = "started"
                           \/ mTaskState = "FatalError"
  BY <1>2, <1>4, <1>5 DEF EngineState, Calm, Fits, Entering
<1>8. ASSUME Depth(Engine) = 3, NEW r \in Returns, Return(Engine, r), life' = life,
             mTaskState' = mTaskState, mTargetState' = mTaskState
      PROVE  Orderly'
  <2>1. /\ \A c \in Clients : Stays(c) /\ ret'[c] = ret[c]
        /\ Depth(Engine)' = 2
        /\ Place(Engine, 2)' = Place(Engine, 2) /\ Place(Engine, 3)' = "idle"
        /\ EngineShape'
    BY <1>8, EngineReturns
  <2>2. EngineState'
    BY <1>2, <1>4, <1>8, <2>1 DEF EngineState, Hooks, Raising, Halting, MayCall, Entering
  <2>3. Calm'
    BY <1>4, <1>5, <1>8 DEF Calm, Fits
  <2> QED
    BY <1>4, <1>5, <2>1, <2>2, <2>3, EngineMoves
<1>9. ASSUME Depth(Engine) = 3, NEW s \in RunningStates, Enter(Engine, "store", s),
             mTaskState \in RunningStates, At(Engine) \notin {"target", "fatalTarget"},
             UNCHANGED <<states, ret, life>>
      PROVE  Orderly'
  <2>1. "store" \in Places /\ s \in TaskState /\ UNCHANGED <<mTaskState, mTargetState>>
    BY <1>9 DEF Places, TaskState, RunningStates, states
  <2>2. /\ \A c \in Clients : Stays(c)
        /\ Depth(Engine)' = 3 /\ Place(Engine, 1)' = Place(Engine, 1)
        /\ Place(Engine, 2)' = Place(Engine, 2) /\ Place(Engine, 3)' = "store"
        /\ Kept(Engine, 3)' = s
    BY <1>1, <1>4, <1>9, <2>1, Keeping DEF Typed
  <2>3. EngineShape'
    BY <1>2, <1>4, <1>9, <2>2 DEF EngineShape, Halting, MayCall, Entering, Recovering
  <2>4. EngineState'
    BY <1>2, <1>4, <1>9, <2>1, <2>2 DEF EngineState, Hooks, Raising, Halting, MayCall, Entering
  <2> QED
    BY <1>5, <1>6, <1>9, <2>2, <2>3, <2>4, EngineMoves
<1>10. CASE NotAllowed(Engine)
  <2>1. /\ Return(Engine, "false") /\ "false" \in Returns
        /\ life' = life /\ UNCHANGED <<mTaskState, mTargetState>>
        /\ At(Engine) \notin {"target", "fatal", "fatalTarget"}
    BY <1>10 DEF NotAllowed, states, Returns
  <2> QED
    BY <1>4, <1>6, <1>8, <2>1
<1>11. CASE Recover(Engine)
  <2>1. At(Engine) = "recover" /\ mTaskState = "Exception"
    BY <1>11 DEF Recover
  <2> QED
    BY <1>4, <1>7, <2>1 DEF RunningStates
<1>12. CASE NoException(Engine)
  <2>1. /\ Goto(Engine, "recoverError") /\ "recoverError" \in Places /\ ret' = ret
        /\ UNCHANGED states /\ UNCHANGED <<mTaskState, mTargetState>> /\ life' = life
        /\ At(Engine) = "recover"
    BY <1>12 DEF NoException, Places, states
  <2>2. /\ \A c \in Clients : Stays(c)
        /\ Depth(Engine)' = 3 /\ Place(Engine, 1)' = Place(Engine, 1)
        /\ Place(Engine, 2)' = Place(Engine, 2) /\ Place(Engine, 3)' = "recoverError"
    BY <1>1, <1>4, <2>1, Going DEF Typed
  <2>3. EngineShape'
    BY <1>2, <1>4, <2>1, <2>2 DEF EngineShape, Halting, MayCall, Entering, Recovering
  <2>4. EngineState'
    BY <1>2, <1>4, <2>1, <2>2 DEF EngineState, Hooks, Raising, Halting, MayCall, Entering
  <2> QED
    BY <1>5, <1>6, <2>1, <2>2, <2>3, <2>4, EngineMoves
<1>13. CASE RecoverError(Engine)
  <2>1. /\ At(Engine) = "recoverError" /\ mTaskState = "RunTimeError"
        /\ Enter(Engine, "store", "Running") /\ UNCHANGED <<states, ret, life>>
    BY <1>13 DEF RecoverError
  <2>2. Depth(Engine) = 3 /\ mTaskState \in RunningStates /\ "Running" \in RunningStates
    BY <1>4, <2>1 DEF RunningStates
  <2> QED
    BY <1>9, <2>1, <2>2
<1>14. CASE Error(Engine)
  <2>1. /\ At(Engine) = "error" /\ mTargetState \in RunningStates
        /\ Enter(Engine, "store", "RunTimeError") /\ UNCHANGED <<states, ret, life>>
    BY <1>14 DEF Error
  <2>2. Depth(Engine) = 3 /\ mTaskState \in RunningStates /\ "RunTimeError" \in RunningStates
    BY <1>4, <1>6, <2>1 DEF RunningStates
  <2> QED
    BY <1>9, <2>1, <2>2
<1>15. CASE Store(Engine)
  <2>1. /\ Goto(Engine, "target") /\ "target" \in Places /\ At(Engine) = "store"
        /\ mTaskState' = Saved(Engine) /\ life' = life /\ \A c \in Clients : ret'[c] = ret[c]
    BY <1>1, <1>15 DEF Store, SetState, Places, Typed
  <2>2. /\ Depth(Engine) = 3 /\ Kept(Engine, 3) \in RunningStates /\ life = "started"
        /\ Saved(Engine) = Kept(Engine, 3)
    BY <1>2, <1>4, <1>7, <2>1 DEF EngineState, RunningStates, Entering
  <2>3. /\ \A c \in Clients : Stays(c)
        /\ Depth(Engine)' = 3 /\ Place(Engine, 1)' = Place(Engine, 1)
        /\ Place(Engine, 2)' = Place(Engine, 2) /\ Place(Engine, 3)' = "target"
        /\ Kept(Engine, 3)' = Kept(Engine, 3)
    BY <1>1, <1>4, <2>1, <2>2, Going DEF Typed
  <2>4. EngineShape'
    BY <1>2, <1>4, <2>2, <2>3 DEF EngineShape, Halting, MayCall, Entering, Recovering
  <2>5. EngineState'
    BY <1>4, <2>1, <2>2, <2>3 DEF EngineState, Hooks, Raising, Halting, Entering
  <2>6. Calm'
    BY <1>4, <2>1, <2>2, <2>3 DEF Calm, Halfway, Fits, RunningStates
  <2> QED
    BY <1>4, <1>5, <2>1, <2>3, <2>4, <2>5, <2>6, EngineMoves
<1>16. CASE Target(Engine)
  <2>1. /\ Return(Engine, ret[Engine]) /\ ret[Engine] \in Returns /\ At(Engine) = "target"
        /\ mTargetState' = Saved(Engine) /\ UNCHANGED <<mTaskState, life>>
    BY <1>1, <1>16 DEF Target, SetTarget, Typed
  <2>2. Depth(Engine) = 3 /\ mTaskState = Kept(Engine, 3) /\ Saved(Engine) = Kept(Engine, 3)
    BY <1>2, <1>4, <2>1 DEF EngineState, Entering, Recovering
  <2> QED
    BY <1>8, <2>1, <2>2
<1>17. ASSUME NEW at \in {"fatalTarget", "halt"}, Goto(Engine, at), ret' = ret, life' = life,
              mTaskState' = "FatalError", at = "fatalTarget" \/ mTargetState' = "FatalError",
              At(Engine) \in {"fatal", "fatalTarget"}
       PROVE  Orderly'
  <2>1. at \in Places
    BY DEF Places
  <2>2. /\ \A c \in Clients : Stays(c)
        /\ Depth(Engine)' = Depth(Engine) /\ Place(Engine, 1)' = Place(Engine, 1)
        /\ Place(Engine, 2)' = IF Depth(Engine) = 2 THEN at ELSE Place(Engine, 2)
        /\ Place(Engine, 3)' = IF Depth(Engine) = 3 THEN at ELSE Place(Engine, 3)
    BY <1>1, <1>4, <1>17, <2>1, Going DEF Typed
  <2>3. Depth(Engine) = 2 => Place(Engine, 3) = "idle"
    BY <1>1, PlaceInDepth DEF Typed
  <2>4. Calm'
    BY <1>4, <1>17, <2>2 DEF Calm, Fits, RunningStates, Halfway
  <2>5. CASE Depth(Engine) = 2
    <3>1. EngineShape'
      BY <1>2, <1>4, <1>17, <2>2, <2>5 DEF EngineShape, Halting, Entering, Recovering
    <3>2. EngineState'
      BY <1>4, <1>17, <2>2, <2>3, <2>5 DEF EngineState, Hooks, Raising, Halting, Entering
    <3> QED
      BY <1>4, <1>5, <1>17, <2>2, <2>4, <3>1, <3>2, EngineMoves
  <2>6. CASE Depth(Engine) = 3
    <3>1. EngineShape'
      BY <1>2, <1>4, <1>17, <2>2, <2>6 DEF EngineShape, Halting, MayCall, Entering, Recovering
    <3>2. EngineState'
      BY <1>4, <1>17, <2>2, <2>6 DEF EngineState, Hooks, Raising, Halting, MayCall, Entering
    <3> QED
      BY <1>4, <1>5, <1>17, <2>2, <2>4, <3>1, <3>2, EngineMoves
  <2> QED
    BY <1>4, <2>5, <2>6
<1>18. CASE Fatal(Engine)
  BY <1>17, <1>18 DEF Fatal, SetState
<1>19. CASE FatalTarget(Engine)
  <2>1. mTaskState = "FatalError"
    BY <1>2, <1>4, <1>19 DEF FatalTarget, EngineState, Entering
  <2> QED
    BY <1>17, <1>19, <2>1 DEF FatalTarget, SetTarget
<1> QED
  BY <1>10, <1>11, <1>12, <1>13, <1>14, <1>15, <1>16, <1>18, <1>19

\* exception(), called by the engine for what a hook has thrown.
LEMMA EngineRaises ==
  ASSUME Typed, Orderly, UNCHANGED user,
         \/ Raise(Engine) \/ RaiseState(Engine) \/ RaiseTarget(Engine) \/ RaiseStop(Engine)
         \/ RaiseClean(Engine) \/ RaiseHook(Engine) \/ Raised(Engine) \/ RaiseFatal(Engine)
  PROVE  Orderly'
<1>1. /\ Engine \in Threads /\ \A c \in Clients : c \in Threads /\ c # Engine
  BY ThreadsDiffer
<1>2. EngineShape /\ EngineState
  BY DEF Orderly
<1>3. At(Engine) \in {"exception"} \cup Entering \cup Raising
  BY DEF Raise, RaiseState, RaiseTarget, RaiseStop, RaiseClean, RaiseHook, Raised, RaiseFatal,
     Entering, Raising
<1>4. /\ Depth(Engine) = 2 /\ Place(Engine, 2) = At(Engine) /\ Saved(Engine) = Kept(Engine, 2)
      /\ NobodyStops(user)
  BY <1>3, EngineAt DEF Signals, Halting, Hooks, Raising, Entering, Recovering
<1>5. Busy /\ Calm /\ Place(Engine, 3) = "idle"
  <2>1. Busy
    BY <1>4 DEF Busy
  <2> QED
    BY <1>1, <1>4, <2>1, BusyCalm, PlaceInDepth DEF Typed
<1>15. At(Engine) # "raiseTarget" => ~Halfway
  BY <1>3, <1>4, <1>5 DEF Halfway, Entering, Raising
<1>6. At(Engine) \in Raising => /\ mTaskState = "Exception" /\ Kept(Engine, 2) \in RunningStates
                                /\ RaisedLife(Engine, 2)
  BY <1>2, <1>4 DEF EngineState, Entering
<1>7. ASSUME NEW at \in Raising, Goto(Engine, at), ret' = ret, At(Engine) \in Raising,
             UNCHANGED <<states, mTaskState, life>>, RaisedLife(Engine, 2)'
      PROVE  Orderly'
  <2>1. at \in Places
    BY DEF Places, Raising
  <2>2. /\ \A c \in Clients : Stays(c)
        /\ Depth(Engine)' = 2 /\ Place(Engine, 1)' = Place(Engine, 1)
        /\ Place(Engine, 2)' = at /\ Place(Engine, 3)' = "idle" /\ Kept(Engine, 2)' = Kept(Engine, 2)
    BY <1>1, <1>4, <1>5, <1>7, <2>1, Going DEF Typed
  <2>3. EngineShape'
    BY <1>2, <1>4, <1>7, <2>2 DEF EngineShape, Entering, Recovering
  <2>4. EngineState'
    BY <1>4, <1>6, <1>7, <2>2 DEF EngineState, Hooks, Raising, Halting, Entering
  <2> QED
    BY <1>5, <1>7, <1>15, <2>2, <2>3, <2>4, EngineMoves DEF Raising
<1>8. ASSUME NEW at \in Raising, HookOf(at) \in Hooks, Call(Engine, HookOf(at), at), ret' = ret,
             At(Engine) \in Raising,
             UNCHANGED <<states, mTaskState, life>>, RaisedLife(Engine, 2)'
      PROVE  Orderly'
  <2>1. at \in Places /\ HookOf(at) \in Places
    BY <1>8 DEF Places, Raising
  <2>2. /\ \A c \in Clients : Stays(c)
        /\ Depth(Engine)' = 3 /\ Place(Engine, 1)' = Place(Engine, 1)
        /\ Place(Engine, 2)' = at /\ Place(Engine, 3)' = HookOf(at)
        /\ Kept(Engine, 2)' = Kept(Engine, 2)
    BY <1>1, <1>4, <1>8, <2>1, Calling DEF Typed
  <2>3. EngineShape'
    BY <1>2, <1>4, <1>8, <2>2 DEF EngineShape, Entering, Recovering
  <2>4. EngineState'
    BY <1>4, <1>6, <1>8, <2>2 DEF EngineState, Hooks, Raising, Halting, Entering
  <2> QED
    BY <1>5, <1>8, <1>15, <2>2, <2>3, <2>4, EngineMoves DEF Raising
<1>9. CASE Raise(Engine)
  <2>1. /\ Enter(Engine, "raise", mTaskState) /\ "raise" \in Places /\ mTaskState \in TaskState
        /\ At(Engine) = "exception" /\ UNCHANGED <<states, mTaskState, life>>
        /\ ret'[Engine] = "none" /\ \A c \in Clients : ret'[c] = ret[c]
    BY <1>1, <1>9 DEF Raise, states, Places, Typed
  <2>2. /\ \A c \in Clients : Stays(c)
        /\ Depth(Engine)' = 2 /\ Place(Engine, 1)' = Place(Engine, 1)
        /\ Place(Engine, 2)' = "raise" /\ Kept(Engine, 2)' = mTaskState
        /\ Place(Engine, 3)' = "idle"
    BY <1>1, <1>4, <1>5, <2>1, Keeping DEF Typed
  <2>3. mTaskState \in RunningStates /\ Fits(mTaskState)
    BY <1>2, <1>4, <1>5, <2>1 DEF EngineState, Calm
  <2>4. EngineShape'
    BY <1>2, <1>4, <2>2 DEF EngineShape, Entering, Recovering
  <2>5. RaisedLife(Engine, 2)'
    BY <2>1, <2>2, <2>3 DEF RaisedLife, Fits, Entering
  <2>6. EngineState'
    BY <1>4, <2>1, <2>2, <2>3, <2>5 DEF EngineState, Hooks, Raising, Halting, Entering
  <2> QED
    BY <1>5, <1>15, <2>1, <2>2, <2>4, <2>6, EngineMoves
<1>16. ASSUME NEW at \in {"raiseTarget", "raised"}, Goto(Engine, at), ret' = ret, life' = life,
              mTaskState' = "Exception", at = "raiseTarget" \/ mTargetState' = "Exception",
              At(Engine) \in Entering
       PROVE  Orderly'
  <2>1. at \in Places
    BY DEF Places
  <2>2. /\ \A c \in Clients : Stays(c)
        /\ Depth(Engine)' = 2 /\ Place(Engine, 1)' = Place(Engine, 1)
        /\ Place(Engine, 2)' = at /\ Place(Engine, 3)' = "idle" /\ Kept(Engine, 2)' = Kept(Engine, 2)
    BY <1>1, <1>4, <1>5, <1>16, <2>1, Going DEF Typed
  <2>3. Kept(Engine, 2) \in RunningStates /\ Fits(Kept(Engine, 2))
    BY <1>2, <1>4, <1>16 DEF EngineState, RaisedLife
  <2>4. EngineShape'
    BY <1>2, <1>4, <2>2 DEF EngineShape, Raising, Entering, Recovering
  <2>5. RaisedLife(Engine, 2)'
    BY <1>16, <2>2, <2>3 DEF RaisedLife, Fits
  <2>6. EngineState'
    BY <1>4, <1>16, <2>2, <2>3, <2>5 DEF EngineState, Hooks, Raising, Halting, Entering
  <2>7. Calm'
    BY <1>4, <1>16, <2>2 DEF Calm, Fits, RunningStates, Halfway
  <2> QED
    BY <1>4, <1>5, <1>16, <2>2, <2>4, <2>6, <2>7, EngineMoves
<1>17. CASE RaiseState(Engine)
  BY <1>16, <1>17 DEF RaiseState, SetState, Entering
<1>18. CASE RaiseTarget(Engine)
  <2>1. mTaskState = "Exception"
    BY <1>2, <1>4, <1>18 DEF RaiseTarget, EngineState
  <2> QED
    BY <1>16, <1>18, <2>1 DEF RaiseTarget, SetTarget, Entering
<1>10. CASE RaiseStop(Engine)
  <2>1. /\ UNCHANGED <<states, mTaskState, life>> /\ ret' = ret /\ At(Engine) = "raised"
        /\ IF Saved(Engine) \in RunningStates THEN Call(Engine, "stopHook", "raisedStop")
                                              ELSE Goto(Engine, "raisedStop")
    BY <1>10 DEF RaiseStop, states
  <2>2. "raisedStop" \in Raising /\ HookOf("raisedStop") = "stopHook" /\ "stopHook" \in Hooks
        /\ "raisedStop" \in Places /\ "stopHook" \in Places /\ At(Engine) \in Raising
    BY <2>1 DEF Raising, HookOf, Hooks, Places
  <2>3. Call(Engine, "stopHook", "raisedStop")
    BY <1>4, <1>6, <2>1, <2>2
  <2>4. /\ Depth(Engine)' = 3 /\ Place(Engine, 2)' = "raisedStop"
        /\ Kept(Engine, 2)' = Kept(Engine, 2)
    BY <1>1, <1>4, <2>2, <2>3, Calling DEF Typed
  <2>5. RaisedLife(Engine, 2)'
    BY <1>4, <1>6, <2>1, <2>2, <2>4 DEF RaisedLife, Fits, RunningStates, Entering
  <2> QED
    BY <1>8, <2>1, <2>2, <2>3, <2>5
<1>11. CASE RaiseClean(Engine)
  <2>1. /\ UNCHANGED <<states, mTaskState, life>> /\ ret' = ret
        /\ At(Engine) = "raisedStop" /\ ret[Engine] # "throw"
        /\ IF Saved(Engine) \in ConfiguredStates /\ InitialState = "PreOperational"
             THEN Call(Engine, "cleanupHook", "raisedClean")
             ELSE Goto(Engine, "raisedClean")
    BY <1>11 DEF RaiseClean, states
  <2>2. "raisedClean" \in Raising /\ HookOf("raisedClean") = "cleanupHook"
        /\ "cleanupHook" \in Hooks /\ At(Engine) \in Raising
        /\ "raisedClean" \in Places /\ "cleanupHook" \in Places
    BY <2>1 DEF Raising, HookOf, Hooks, Places
  <2>3. Saved(Engine) \in ConfiguredStates
    BY <1>4, <1>6, <2>2 DEF ConfiguredStates
  <2>4. life = "configured"
    BY <1>4, <1>6, <2>1, <2>2 DEF RaisedLife, RunningStates, Entering
  <2>5. CASE InitialState = "PreOperational"
    <3>1. Call(Engine, "cleanupHook", "raisedClean")
      BY <2>1, <2>3, <2>5
    <3>2. Depth(Engine)' = 3 /\ Place(Engine, 2)' = "raisedClean"
      BY <1>1, <1>4, <2>2, <3>1, Calling DEF Typed
    <3>3. RaisedLife(Engine, 2)'
      BY <2>1, <2>4, <3>2 DEF RaisedLife, Entering
    <3> QED
      BY <1>8, <2>1, <2>2, <3>1, <3>3
  <2>6. CASE InitialState # "PreOperational"
    <3>1. Goto(Engine, "raisedClean")
      BY <2>1, <2>6
    <3>2. Depth(Engine)' = 2 /\ Place(Engine, 2)' = "raisedClean"
      BY <1>1, <1>4, <2>2, <3>1, Going DEF Typed
    <3>3. RaisedLife(Engine, 2)'
      BY <2>6, <3>2 DEF RaisedLife, InitialState, Entering
    <3> QED
      BY <1>7, <2>1, <2>2, <3>1, <3>3
  <2> QED
    BY <2>5, <2>6
<1>12. CASE RaiseHook(Engine)
  <2>1. /\ UNCHANGED <<states, mTaskState, life>> /\ ret' = ret
        /\ At(Engine) = "raisedClean" /\ ret[Engine] # "throw"
        /\ Call(Engine, "exceptionHook", "raisedHook")
    BY <1>12 DEF RaiseHook, states
  <2>2. "raisedHook" \in Raising /\ HookOf("raisedHook") = "exceptionHook"
        /\ "exceptionHook" \in Hooks /\ At(Engine) \in Raising
        /\ "raisedHook" \in Places /\ "exceptionHook" \in Places
    BY <2>1 DEF Raising, HookOf, Hooks, Places
  <2>3. Depth(Engine)' = 3 /\ Place(Engine, 2)' = "raisedHook"
    BY <1>1, <1>4, <2>1, <2>2, Calling DEF Typed
  <2>4. RaisedLife(Engine, 2)'
    BY <1>4, <1>6, <2>1, <2>2, <2>3 DEF RaisedLife, InitialState, Entering
  <2> QED
    BY <1>8, <2>1, <2>2, <2>4
<1>13. CASE Raised(Engine)
  <2>1. /\ Return(Engine, "false") /\ "false" \in Returns /\ UNCHANGED <<states, mTaskState, life>>
        /\ At(Engine) = "raisedHook"
    BY <1>13 DEF Raised, states, Returns
  <2>2. /\ \A c \in Clients : Stays(c) /\ ret'[c] = ret[c]
        /\ ret'[Engine] = "false" /\ Depth(Engine)' = 1
        /\ Place(Engine, 2)' = "idle" /\ Place(Engine, 3)' = Place(Engine, 3)
        /\ EngineShape'
    BY <1>4, <2>1, EngineReturns
  <2>3. EngineState'
    BY <1>4, <1>5, <2>1, <2>2 DEF EngineState, Hooks, Raising, Halting, Entering
  <2> QED
    BY <1>5, <1>15, <2>1, <2>2, <2>3, EngineMoves
<1>14. CASE RaiseFatal(Engine)
  <2>1. /\ Goto(Engine, "fatal") /\ UNCHANGED <<states, mTaskState, life>> /\ ret' = ret
        /\ At(Engine) \in Raising /\ "fatal" \in Places
    BY <1>14 DEF RaiseFatal, states, Raising, Places, Operations
  <2>2. /\ \A c \in Clients : Stays(c)
        /\ Depth(Engine)' = 2 /\ Place(Engine, 1)' = Place(Engine, 1)
        /\ Place(Engine, 2)' = "fatal" /\ Place(Engine, 3)' = "idle"
    BY <1>1, <1>4, <1>5, <2>1, Going DEF Typed
  <2>3. EngineShape'
    BY <1>2, <1>4, <2>2 DEF EngineShape, Entering, Recovering
  <2>4. EngineState'
    BY <1>4, <1>6, <2>1, <2>2 DEF EngineState, Hooks, Raising, Halting, Entering
  <2> QED
    BY <1>5, <1>15, <2>1, <2>2, <2>3, <2>4, EngineMoves DEF Raising
<1> QED
  BY <1>9, <1>10, <1>11, <1>12, <1>13, <1>14, <1>17, <1>18

-----------------------------------------------------------------------------
(***************************************************************************)
(* A component that is not started, with any number of clients.            *)
(***************************************************************************)

\* What any step of a component that is not started comes down to.
LEMMA UnstartedMoves ==
  ASSUME Unstarted, UNCHANGED user,
         NEW t \in Threads, \A u \in Threads : u # t => Stays(u),
         t # Engine =>
           /\ Depth(t)' \in 0 .. 1
           /\ Depth(t)' = 1 => Place(t, 1)' \in {"error", "target"} \cup Recovering \cup Signals
           /\ Place(t, 1)' \in Recovering => "recover" \in ClientOps
           /\ Place(t, 1)' \in {"store", "target"} => Racing(user) /\ Kept(t, 1)' = InitialState
           /\ ret'[Engine] = ret[Engine],
         t = Engine => UnstartedEngine',
         {mTaskState', mTargetState'} \subseteq {InitialState, "Exception"},
         mTaskState' = "Exception" => "operation" \in MayThrow,
         ~Racing(user) => IF Place(Engine, 2)' = "raiseTarget" THEN mTaskState' = "Exception"
                                                              ELSE mTaskState' = mTargetState'
  PROVE  Unstarted'
<1>1. Engine \in Threads /\ \A c \in Clients : c \in Threads /\ c # Engine
  BY ThreadsDiffer
<1>2. UnstartedEngine'
  BY <1>1 DEF Unstarted, UnstartedEngine, Stays, InitialState, MayThrow
<1>3. ASSUME NEW c \in Clients
      PROVE  /\ Depth(c)' \in 0 .. 1
             /\ Depth(c)' = 1 => Place(c, 1)' \in {"error", "target"} \cup Recovering \cup Signals
             /\ Place(c, 1)' \in Recovering => "recover" \in ClientOps
             /\ Place(c, 1)' \in {"store", "target"} => Racing(user) /\ Kept(c, 1)' = InitialState
  <2>1. CASE c = t
    BY <1>1, <2>1
  <2>2. CASE c # t
    BY <1>1, <2>2 DEF Unstarted, Stays
  <2> QED
    BY <2>1, <2>2
<1> QED
  BY <1>2, <1>3 DEF Unstarted, InitialState, ClientOps, MayThrow

\* A step of a client that leaves the states alone, and one of the engine that is not
\* between two stores.
LEMMA UnstartedStates ==
  ASSUME Unstarted, UNCHANGED <<mTaskState, mTargetState, user>>,
         \/ Place(Engine, 2)' = Place(Engine, 2)
         \/ Place(Engine, 2) # "raiseTarget" /\ Place(Engine, 2)' # "raiseTarget"
  PROVE  /\ {mTaskState', mTargetState'} \subseteq {InitialState, "Exception"}
         /\ mTaskState' = "Exception" => "operation" \in MayThrow
         /\ ~Racing(user) => IF Place(Engine, 2)' = "raiseTarget" THEN mTaskState' = "Exception"
                                                                 ELSE mTaskState' = mTargetState'
  BY DEF Unstarted

\* The clients: recover(), error() and the signals.
LEMMA UnstartedClient ==
  ASSUME Typed, Unstarted, UNCHANGED user, NEW c \in Clients,
         \/ Progress(c)
         \/ \E op \in Operations : HookCalls(c, op)
         \/ \E op \in ClientOps : ClientCalls(c, op)
  PROVE  Unstarted'
<1>1. c \in Threads /\ Engine \in Threads /\ c # Engine
  BY ThreadsDiffer
<1>2. CASE \E op \in ClientOps : ClientCalls(c, op)
  <2>1. PICK op \in ClientOps : ClientCalls(c, op)
    BY <1>2
  <2>2. /\ stack[c] = <<>> /\ stack' = [stack EXCEPT ![c] = <<Frame(op)>>]
        /\ UNCHANGED <<mTaskState, mTargetState>> /\ ret'[Engine] = ret[Engine]
    BY <1>1, <2>1 DEF ClientCalls, Typed, states
  <2>3. op \in {"recover", "error"} \cup Signals /\ op \in Places
    BY DEF Unstarted, NotStarted, ClientOps, Signals, Places, Operations
  <2>4. /\ \A u \in Threads : u # c => Stays(u)
        /\ Depth(c)' = 1 /\ Place(c, 1)' = op
    BY <1>1, <2>2, <2>3, Beginning DEF Typed
  <2>5. Place(Engine, 2)' = Place(Engine, 2)
    BY <1>1, <2>4 DEF Stays
  <2>6. /\ {mTaskState', mTargetState'} \subseteq {InitialState, "Exception"}
        /\ mTaskState' = "Exception" => "operation" \in MayThrow
        /\ ~Racing(user) => IF Place(Engine, 2)' = "raiseTarget" THEN mTaskState' = "Exception"
                                                                ELSE mTaskState' = mTargetState'
    BY <2>2, <2>5, UnstartedStates
  <2>7. /\ op \in {"error", "target"} \cup Recovering \cup Signals
        /\ op \in Recovering => "recover" \in ClientOps
        /\ op \notin {"store", "target"}
    BY <2>3 DEF Recovering, Signals
  <2> QED
    BY <1>1, <2>2, <2>4, <2>6, <2>7, UnstartedMoves
<1>3. CASE Progress(c) \/ \E op \in Operations : HookCalls(c, op)
  <2>1. ~\E op \in Operations : HookCalls(c, op) /\ At(c) = "idle"
    BY TaskCoreAssumption DEF Typed, HookCalls, MayCall, IsProgram, Hooks
  <2>2. At(c) # "idle"
    BY <1>3, <2>1
       DEF Progress, Activate, Trigger, HaltInactive, Halt, HaltFails, Halted, HookReturns,
       HookThrows, Catch, NotAllowed, Configure, Configured, ConfigureFailed, Cleanup, Cleaned,
       Recover, NoException, RecoverError, Error, Store, Target, Fatal, FatalTarget, StartTask,
       Started, StartFailed, StopTask, Restart, StopFailed, Stopped, Raise, RaiseState,
       RaiseTarget, RaiseStop, RaiseClean, RaiseHook, Raised, RaiseFatal, Hooks
  <2>3. /\ Depth(c) = 1 /\ At(c) = Place(c, 1) /\ Saved(c) = Kept(c, 1)
        /\ At(c) \in {"error", "target"} \cup Recovering \cup Signals
        /\ At(c) \in Recovering => "recover" \in ClientOps
        /\ At(c) \in {"store", "target"} => Racing(user) /\ Kept(c, 1) = InitialState
    BY <1>1, <2>2, Active DEF Typed, Unstarted
  <2>4. /\ mTargetState \notin RunningStates /\ mTaskState \notin RunningStates
        /\ InitialState \in TaskState
    BY TaskCoreAssumption DEF Typed, Unstarted, IsProgram, InitialState, RunningStates, TaskState
  <2>5. Activate(c) \/ Trigger(c) \/ NotAllowed(c) \/ Recover(c) \/ NoException(c) \/ Store(c)
        \/ Target(c)
    <3>1. ~\E op \in Operations : HookCalls(c, op)
      <4>1. At(c) \notin Hooks
        BY <2>3 DEF Hooks, Signals, Recovering
      <4>2. MayCall \subseteq Hooks \X Operations
        BY TaskCoreAssumption DEF Typed, MayCall, IsProgram
      <4> QED
        BY <4>1, <4>2 DEF HookCalls
    <3>2. At(c) \in {"error", "target", "recover", "recoverError", "store", "trigger", "activate"}
      BY <2>3 DEF Signals, Recovering
    <3>3. ~RecoverError(c) /\ ~Error(c)
      BY <2>4 DEF RecoverError, Error, RunningStates
    <3> QED
      BY <1>3, <3>1, <3>2, <3>3
       DEF Progress, HaltInactive, Halt, HaltFails, Halted, HookReturns,
       HookThrows, Catch, Configure, Configured, ConfigureFailed, Cleanup, Cleaned,
       Fatal, FatalTarget, StartTask, Started, StartFailed, StopTask, Restart, StopFailed,
       Stopped, Raise, RaiseState, RaiseTarget, RaiseStop, RaiseClean, RaiseHook, Raised,
       RaiseFatal, Hooks
  <2>6. ASSUME NEW r, Return(c, r)
        PROVE  /\ \A u \in Threads : u # c => Stays(u)
               /\ Depth(c)' = 0 /\ Place(c, 1)' = "idle" /\ ret'[Engine] = ret[Engine]
               /\ Place(Engine, 2)' = Place(Engine, 2)
    <3>1. ret'[Engine] = ret[Engine]
      BY <1>1, <2>6 DEF Return, Typed
    <3>2. (\A u \in Threads : u # c => Stays(u)) /\ Depth(c)' = 0 /\ Place(c, 1)' = "idle"
      BY <1>1, <2>3, <2>6, Returning DEF Typed
    <3> QED
      BY <1>1, <3>1, <3>2 DEF Stays
  <2>7. CASE Activate(c) \/ Trigger(c) \/ NotAllowed(c)
    <3>1. UNCHANGED <<mTaskState, mTargetState>>
      BY <2>7 DEF Activate, Trigger, NotAllowed, states
    <3>2. PICK r \in {"true", "false"} : Return(c, r)
      BY <2>7 DEF Activate, Trigger, NotAllowed
    <3>3. /\ {mTaskState', mTargetState'} \subseteq {InitialState, "Exception"}
          /\ mTaskState' = "Exception" => "operation" \in MayThrow
          /\ ~Racing(user) => IF Place(Engine, 2)' = "raiseTarget" THEN mTaskState' = "Exception"
                                                                  ELSE mTaskState' = mTargetState'
      BY <2>6, <3>1, <3>2, UnstartedStates
    <3> QED
      BY <1>1, <2>6, <3>2, <3>3, UnstartedMoves DEF Recovering
  <2>8. CASE NoException(c) \/ Recover(c)
    <3>1. /\ UNCHANGED <<mTaskState, mTargetState>> /\ ret' = ret /\ At(c) = "recover"
          /\ "recoverError" \in Places /\ "store" \in Places
          /\ \/ Goto(c, "recoverError")
             \/ Enter(c, "store", InitialState) /\ mTaskState = "Exception"
      BY <2>8 DEF NoException, Recover, states, Places
    <3>2. /\ \A u \in Threads : u # c => Stays(u)
          /\ Depth(c)' = 1
          /\ \/ Place(c, 1)' = "recoverError"
             \/ Place(c, 1)' = "store" /\ Kept(c, 1)' = InitialState /\ mTaskState = "Exception"
      BY <1>1, <2>3, <2>4, <3>1, Going, Keeping DEF Typed
    <3>3. "recover" \in ClientOps /\ (mTaskState = "Exception" => Racing(user))
      BY <2>3, <3>1 DEF Unstarted, Racing, Recovering, ClientOps, MayThrow
    <3>4. Place(Engine, 2)' = Place(Engine, 2)
      BY <1>1, <3>2 DEF Stays
    <3>5. /\ {mTaskState', mTargetState'} \subseteq {InitialState, "Exception"}
          /\ mTaskState' = "Exception" => "operation" \in MayThrow
          /\ ~Racing(user) => IF Place(Engine, 2)' = "raiseTarget" THEN mTaskState' = "Exception"
                                                                  ELSE mTaskState' = mTargetState'
      BY <3>1, <3>4, UnstartedStates
    <3> QED
      BY <1>1, <3>1, <3>2, <3>3, <3>5, UnstartedMoves DEF Recovering
  <2>9. CASE Store(c)
    <3>1. /\ Goto(c, "target") /\ "target" \in Places /\ mTaskState' = Saved(c) /\ At(c) = "store"
          /\ mTargetState' = mTargetState /\ ret'[Engine] = ret[Engine]
      BY <1>1, <2>9 DEF Store, SetState, Places, Typed
    <3>2. /\ \A u \in Threads : u # c => Stays(u)
          /\ Depth(c)' = 1 /\ Place(c, 1)' = "target" /\ Kept(c, 1)' = Kept(c, 1)
      BY <1>1, <2>3, <3>1, Going DEF Typed
    <3>3. Racing(user) /\ Kept(c, 1) = InitialState /\ mTaskState' = InitialState
      BY <2>3, <3>1
    <3>4. {mTaskState', mTargetState'} \subseteq {InitialState, "Exception"}
      BY <3>1, <3>3 DEF Unstarted
    <3>5. "operation" \in MayThrow
      BY <3>3 DEF Racing, MayThrow
    <3> QED
      BY <1>1, <3>1, <3>2, <3>3, <3>4, <3>5, UnstartedMoves DEF Recovering
  <2>10. CASE Target(c)
    <3>1. /\ Return(c, ret[c]) /\ mTargetState' = Saved(c) /\ At(c) = "target"
          /\ mTaskState' = mTaskState
      BY <2>10 DEF Target, SetTarget
    <3>2. Racing(user) /\ mTargetState' = InitialState
      BY <2>3, <3>1
    <3>3. {mTaskState', mTargetState'} \subseteq {InitialState, "Exception"}
      BY <3>1, <3>2 DEF Unstarted
    <3>4. "operation" \in MayThrow
      BY <3>2 DEF Racing, MayThrow
    <3> QED
      BY <1>1, <2>6, <3>1, <3>2, <3>3, <3>4, UnstartedMoves DEF Recovering
  <2> QED
    BY <2>5, <2>7, <2>8, <2>9, <2>10
<1> QED
  BY <1>2, <1>3

\* The loop of the engine calls no hook.
LEMMA UnstartedLoop ==
  ASSUME Typed, Unstarted, UNCHANGED user, EngineStep \/ OperationThrew
  PROVE  Unstarted'
<1>1. Engine \in Threads
  BY ThreadsDiffer
<1>2. UnstartedEngine
  BY DEF Unstarted
<1>3. UNCHANGED <<mTaskState, mTargetState>>
  BY DEF EngineStep, OperationThrew, Wake, Step, Update, UpdateThrew, HandleError, ErrorThrew,
     EndStep, states
<1>4. mTaskState \notin RunningStates
  BY TaskCoreAssumption DEF Unstarted, Typed, IsProgram, InitialState, RunningStates
<1>11. ASSUME \A u \in Threads : u # Engine => Stays(u), UnstartedEngine',
              Place(Engine, 2) # "raiseTarget", Place(Engine, 2)' # "raiseTarget"
       PROVE  Unstarted'
  <2>1. /\ {mTaskState', mTargetState'} \subseteq {InitialState, "Exception"}
        /\ mTaskState' = "Exception" => "operation" \in MayThrow
        /\ ~Racing(user) => IF Place(Engine, 2)' = "raiseTarget" THEN mTaskState' = "Exception"
                                                                ELSE mTaskState' = mTargetState'
    BY <1>3, <1>11, UnstartedStates
  <2> QED
    BY <1>1, <1>11, <2>1, UnstartedMoves
<1>5. CASE Wake /\ ~running
  <2>1. UNCHANGED <<stack, ret>>
    BY <1>5 DEF Wake
  <2>2. \A u : Stays(u)
    BY <2>1, Staying
  <2>3. UnstartedEngine'
    BY <1>2, <2>1, <2>2 DEF UnstartedEngine, Stays, InitialState, MayThrow
  <2>4. Place(Engine, 2) = "idle" /\ Place(Engine, 2)' = "idle"
    BY <1>5, <2>1 DEF Wake, Place
  <2> QED
    BY <1>11, <2>2, <2>3, <2>4
<1>6. CASE Wake /\ running
  <2>1. /\ stack[Engine] = <<>> /\ stack' = [stack EXCEPT ![Engine] = <<Frame("awake")>>]
        /\ "awake" \in Places /\ ret' = ret
    BY <1>6 DEF Wake, Places
  <2>2. /\ \A u \in Threads : u # Engine => Stays(u)
        /\ Depth(Engine)' = 1 /\ Place(Engine, 1)' = "awake" /\ Place(Engine, 2)' = "idle"
    <3>1. Stacks
      BY DEF Typed
    <3>2. /\ \A u \in Threads : u # Engine => Stays(u)
          /\ Depth(Engine)' = 1 /\ Place(Engine, 1)' = "awake"
          /\ \A d \in 2 .. 4 : Place(Engine, d)' = "idle"
      BY <1>1, <2>1, <3>1, Beginning
    <3> QED
      BY <3>2
  <2>3. UnstartedEngine'
    BY <1>2, <2>1, <2>2 DEF UnstartedEngine
  <2>4. Place(Engine, 2) = "idle"
    BY <2>1 DEF Place
  <2> QED
    BY <1>11, <2>2, <2>3, <2>4
<1>7. ASSUME At(Engine) \in {"awake", "step", "updated", "handled"}
      PROVE  Depth(Engine) = 1 /\ Place(Engine, 1) = At(Engine) /\ Place(Engine, 2) = "idle"
  <2>1. Depth(Engine) = 1 /\ Place(Engine, 1) = At(Engine)
    BY <1>1, <1>2, <1>7, Active DEF UnstartedEngine, Entering, Raising, Signals, Typed
  <2> QED
    BY <1>1, <2>1, PlaceInDepth DEF Typed
<1>8. CASE OperationThrew
  <2>1. Call(Engine, "exception", "step") /\ At(Engine) = "step" /\ ret' = ret
        /\ "exception" \in Places /\ "step" \in Places /\ "operation" \in MayThrow
    BY <1>8 DEF OperationThrew, Places, Operations
  <2>2. /\ \A u \in Threads : u # Engine => Stays(u)
        /\ Depth(Engine)' = 2 /\ Place(Engine, 1)' = "step" /\ Place(Engine, 2)' = "exception"
    BY <1>1, <1>7, <2>1, Calling DEF Typed
  <2>3. UnstartedEngine'
    BY <1>2, <2>1, <2>2 DEF UnstartedEngine, MayThrow
  <2> QED
    BY <1>7, <1>11, <2>1, <2>2, <2>3
<1>9. CASE EndStep
  <2>1. Return(Engine, "none") /\ At(Engine) = "handled"
    BY <1>9 DEF EndStep
  <2>2. /\ \A u \in Threads : u # Engine => Stays(u)
        /\ Depth(Engine)' = 0 /\ ret'[Engine] # "throw" /\ Place(Engine, 2)' = Place(Engine, 2)
    <3>1. ret'[Engine] = "none"
      BY <1>1, <2>1 DEF Return, Typed
    <3> QED
      BY <1>1, <1>7, <2>1, <3>1, Returning DEF Typed
  <2>3. UnstartedEngine'
    BY <2>2 DEF UnstartedEngine
  <2> QED
    BY <1>7, <1>11, <2>1, <2>2, <2>3
<1>10. CASE Step \/ Update \/ UpdateThrew \/ HandleError \/ ErrorThrew
  <2>1. PICK at \in {"step", "updated", "handled"} : Goto(Engine, at)
    <3>1. "Running" \in RunningStates /\ "RunTimeError" \in RunningStates
      BY DEF RunningStates
    <3> QED
      BY <1>2, <1>4, <1>10, <3>1
         DEF Step, Update, UpdateThrew, HandleError, ErrorThrew, UnstartedEngine
  <2>2. at \in Places /\ ret'[Engine] # "throw" /\ Depth(Engine) = 1 /\ Place(Engine, 2) = "idle"
    BY <1>1, <1>2, <1>7, <1>10
       DEF Places, Step, Update, UpdateThrew, HandleError, ErrorThrew, UnstartedEngine, Typed
  <2>3. /\ \A u \in Threads : u # Engine => Stays(u)
        /\ Depth(Engine)' = 1 /\ Place(Engine, 1)' = at /\ Place(Engine, 2)' = "idle"
    BY <1>1, <2>1, <2>2, Going DEF Typed
  <2>4. UnstartedEngine'
    BY <2>2, <2>3 DEF UnstartedEngine
  <2> QED
    BY <1>11, <2>2, <2>3, <2>4
<1> QED
  BY <1>5, <1>6, <1>8, <1>9, <1>10 DEF EngineStep

\* exception(), for an operation that has thrown, calls exceptionHook() only.
LEMMA UnstartedRaises ==
  ASSUME Typed, Unstarted, UNCHANGED user,
         Progress(Engine) \/ \E op \in Operations : HookCalls(Engine, op)
  PROVE  Unstarted'
<1>1. Engine \in Threads
  BY ThreadsDiffer
<1>2. UnstartedEngine /\ NotStarted(user) /\ user \in Users
      /\ (InitialState \in {"PreOperational", "Stopped"})
  BY TaskCoreAssumption DEF Unstarted, Typed, IsProgram, InitialState
<1>3. At(Engine) # "idle"
  <2>1. ~\E op \in Operations : HookCalls(Engine, op) /\ At(Engine) = "idle"
    BY TaskCoreAssumption DEF Typed, HookCalls, MayCall, IsProgram, Hooks
  <2> QED
    BY <2>1
       DEF Progress, Activate, Trigger, HaltInactive, Halt, HaltFails, Halted, HookReturns,
       HookThrows, Catch, NotAllowed, Configure, Configured, ConfigureFailed, Cleanup, Cleaned,
       Recover, NoException, RecoverError, Error, Store, Target, Fatal, FatalTarget, StartTask,
       Started, StartFailed, StopTask, Restart, StopFailed, Stopped, Raise, RaiseState,
       RaiseTarget, RaiseStop, RaiseClean, RaiseHook, Raised, RaiseFatal, Hooks
<1>4. /\ At(Engine) = Place(Engine, Depth(Engine)) /\ Saved(Engine) = Kept(Engine, Depth(Engine))
      /\ Depth(Engine) \in 1 .. 4
  BY <1>1, <1>2, <1>3, Active DEF Typed, UnstartedEngine
<1>5. \/ Depth(Engine) = 1 /\ At(Engine) \in {"awake", "step", "updated", "handled"}
      \/ Depth(Engine) = 2 /\ At(Engine) \in {"exception"} \cup Entering \cup Raising
      \/ Depth(Engine) = 3 /\ At(Engine) = "exceptionHook"
      \/ Depth(Engine) = 4 /\ At(Engine) \in Signals
  BY <1>2, <1>4 DEF UnstartedEngine
<1>6. {mTaskState, mTargetState} \subseteq {InitialState, "Exception"} /\ mTaskState \in TaskState
  BY DEF Unstarted, Typed
<1>10. At(Engine) # "raiseTarget" => Place(Engine, 2) # "raiseTarget"
  <2>1. Depth(Engine) = 1 => Place(Engine, 2) = "idle"
    BY <1>1, PlaceInDepth DEF Typed
  <2> QED
    BY <1>2, <1>4, <2>1 DEF UnstartedEngine
<1>11. ASSUME \A u \in Threads : u # Engine => Stays(u), UnstartedEngine', UNCHANGED states,
              At(Engine) # "raiseTarget", Place(Engine, 2)' # "raiseTarget"
       PROVE  Unstarted'
  <2>1. /\ {mTaskState', mTargetState'} \subseteq {InitialState, "Exception"}
        /\ mTaskState' = "Exception" => "operation" \in MayThrow
        /\ ~Racing(user) => IF Place(Engine, 2)' = "raiseTarget" THEN mTaskState' = "Exception"
                                                                ELSE mTaskState' = mTargetState'
    BY <1>10, <1>11, UnstartedStates DEF states
  <2> QED
    BY <1>1, <1>11, <2>1, UnstartedMoves
<1>7. ASSUME NEW r \in {"true", "false"}, Return(Engine, r), UNCHANGED states,
             At(Engine) # "raiseTarget"
      PROVE  Unstarted'
  <2>1. /\ \A u \in Threads : u # Engine => Stays(u)
        /\ Depth(Engine)' = Depth(Engine) - 1 /\ ret'[Engine] = r
        /\ \A d \in 1 .. 4 : Kept(Engine, d)' = IF d = Depth(Engine) THEN "idle" ELSE Kept(Engine, d)
        /\ \A d \in 1 .. 4 : Place(Engine, d)' = IF d = Depth(Engine) THEN "idle" ELSE Place(Engine, d)
    <3>1. ret'[Engine] = r
      BY <1>1, <1>7 DEF Return, Typed
    <3> QED
      BY <1>1, <1>4, <1>7, <3>1, Returning DEF Typed
  <2>2. UnstartedEngine'
    BY <1>2, <1>4, <2>1 DEF UnstartedEngine, InitialState, MayThrow
  <2>3. Place(Engine, 2)' # "raiseTarget"
    BY <1>7, <1>10, <2>1
  <2> QED
    BY <1>7, <1>11, <2>1, <2>2, <2>3
<1>8. ASSUME NEW op \in Operations, HookCalls(Engine, op)
      PROVE  Unstarted'
  <2>1. /\ <<At(Engine), op>> \in user.calls /\ Call(Engine, op, At(Engine))
        /\ UNCHANGED states /\ ret' = ret /\ op \in Places /\ At(Engine) \in Hooks
    BY <1>8, TaskCoreAssumption DEF HookCalls, MayCall, Typed, IsProgram, Places
  <2>2. op \in Signals /\ Depth(Engine) = 3 /\ At(Engine) = "exceptionHook"
        /\ At(Engine) \in Places
    BY <1>2, <1>5, <2>1 DEF NotStarted, Hooks, Entering, Raising, Signals, Places
  <2>3. /\ \A u \in Threads : u # Engine => Stays(u)
        /\ Depth(Engine)' = 4
        /\ Kept(Engine, 2)' = Kept(Engine, 2) /\ Place(Engine, 1)' = Place(Engine, 1)
        /\ Place(Engine, 2)' = Place(Engine, 2) /\ Place(Engine, 3)' = "exceptionHook"
        /\ Place(Engine, 4)' = op
    BY <1>1, <2>1, <2>2, Calling DEF Typed
  <2>4. UnstartedEngine'
    BY <1>2, <2>1, <2>2, <2>3 DEF UnstartedEngine, InitialState, MayThrow
  <2> QED
    BY <1>10, <1>11, <2>1, <2>2, <2>3, <2>4
<1>9. CASE Progress(Engine)
  <2>1. "exceptionHook" \notin MayThrow
    BY <1>2 DEF NotStarted, MayThrow
  <2>2. \/ Activate(Engine) \/ Trigger(Engine) \/ Raised(Engine)
        \/ \E r \in {"true", "false"} : HookReturns(Engine, r)
        \/ Raise(Engine) \/ RaiseState(Engine) \/ RaiseTarget(Engine)
        \/ RaiseStop(Engine) \/ RaiseClean(Engine) \/ RaiseHook(Engine)
    BY <1>2, <1>5, <1>9, <2>1
       DEF Progress, HaltInactive, Halt, HaltFails, Halted,
       HookThrows, Catch, NotAllowed, Configure, Configured, ConfigureFailed, Cleanup, Cleaned,
       Recover, NoException, RecoverError, Error, Store, Target, Fatal, FatalTarget, StartTask,
       Started, StartFailed, StopTask, Restart, StopFailed, Stopped, RaiseFatal, Hooks, Entering,
       Raising, Signals, UnstartedEngine
  <2>3. CASE Activate(Engine) \/ Trigger(Engine) \/ Raised(Engine)
    BY <1>7, <2>3 DEF Activate, Trigger, Raised
  <2>4. ASSUME NEW r \in {"true", "false"}, HookReturns(Engine, r)
        PROVE  Unstarted'
    BY <1>7, <2>4 DEF HookReturns, Hooks
  <2>5. ASSUME NEW at \in Raising, Goto(Engine, at), At(Engine) \in Raising, ret' = ret,
               UNCHANGED states
        PROVE  Unstarted'
    <3>1. Depth(Engine) = 2 /\ at \in Places
      BY <1>5, <2>5 DEF Raising, Signals, Places
    <3>2. /\ \A u \in Threads : u # Engine => Stays(u)
          /\ Depth(Engine)' = 2 /\ Place(Engine, 1)' = Place(Engine, 1)
          /\ Place(Engine, 2)' = at /\ Kept(Engine, 2)' = Kept(Engine, 2)
      BY <1>1, <2>5, <3>1, Going DEF Typed
    <3>3. UnstartedEngine'
      BY <1>2, <1>4, <2>5, <3>1, <3>2 DEF UnstartedEngine, InitialState, Raising, MayThrow
    <3> QED
      BY <1>11, <2>5, <3>2, <3>3 DEF Raising
  <2>6. At(Engine) \in Raising => Saved(Engine) \in {InitialState, "Exception"}
    BY <1>2, <1>4, <1>5 DEF UnstartedEngine, Raising, Signals
  <2>7. CASE RaiseStop(Engine)
    <3>1. Goto(Engine, "raisedStop") /\ ret' = ret /\ UNCHANGED states
      BY <1>2, <2>6, <2>7 DEF RaiseStop, Raising, RunningStates
    <3> QED
      BY <2>5, <2>7, <3>1 DEF RaiseStop, Raising
  <2>8. CASE RaiseClean(Engine)
    <3>1. Goto(Engine, "raisedClean") /\ ret' = ret /\ UNCHANGED states
      BY <1>2, <2>6, <2>8 DEF RaiseClean, Raising, ConfiguredStates, RunningStates
    <3> QED
      BY <2>5, <2>8, <3>1 DEF RaiseClean, Raising
  <2>9. CASE RaiseHook(Engine)
    <3>1. /\ Call(Engine, "exceptionHook", "raisedHook") /\ ret' = ret /\ UNCHANGED states
          /\ "exceptionHook" \in Places /\ "raisedHook" \in Places /\ At(Engine) = "raisedClean"
      BY <2>9 DEF RaiseHook, Places, Hooks
    <3>2. Depth(Engine) = 2
      BY <1>5, <3>1 DEF Signals
    <3>3. /\ \A u \in Threads : u # Engine => Stays(u)
          /\ Depth(Engine)' = 3 /\ Place(Engine, 1)' = Place(Engine, 1)
          /\ Place(Engine, 2)' = "raisedHook" /\ Kept(Engine, 2)' = Kept(Engine, 2)
          /\ Place(Engine, 3)' = "exceptionHook"
      BY <1>1, <3>1, <3>2, Calling DEF Typed
    <3>4. /\ Place(Engine, 1) = "step" /\ ret[Engine] # "throw"
          /\ Kept(Engine, 2) \in {InitialState, "Exception"} /\ "operation" \in MayThrow
      <4>1. Depth(Engine) >= 2 /\ Place(Engine, 2) = At(Engine)
        BY <1>4, <3>2
      <4>2. Place(Engine, 2) # "exception"
        BY <3>1, <4>1
      <4> QED
        BY <1>2, <4>1, <4>2 DEF UnstartedEngine
    <3>5. UnstartedEngine'
      BY <3>1, <3>3, <3>4 DEF UnstartedEngine, InitialState, Raising, MayThrow
    <3> QED
      BY <1>11, <3>1, <3>3, <3>5
  <2>10. CASE Raise(Engine)
    <3>1. /\ Enter(Engine, "raise", mTaskState) /\ "raise" \in Places /\ At(Engine) = "exception"
          /\ UNCHANGED states /\ ret'[Engine] = "none"
      BY <1>1, <2>10 DEF Raise, Places, Typed
    <3>2. Depth(Engine) = 2
      BY <1>5, <3>1 DEF Signals
    <3>3. /\ \A u \in Threads : u # Engine => Stays(u)
          /\ Depth(Engine)' = 2 /\ Place(Engine, 1)' = Place(Engine, 1)
          /\ Place(Engine, 2)' = "raise" /\ Kept(Engine, 2)' = mTaskState
      BY <1>1, <1>6, <3>1, <3>2, Keeping DEF Typed
    <3>4. UnstartedEngine'
      BY <1>2, <1>6, <3>1, <3>2, <3>3 DEF UnstartedEngine, InitialState, Entering, MayThrow
    <3> QED
      BY <1>11, <3>1, <3>3, <3>4
  <2>11. ASSUME NEW at \in {"raiseTarget", "raised"}, Goto(Engine, at), ret' = ret,
                At(Engine) \in Entering
         PROVE  /\ \A u \in Threads : u # Engine => Stays(u)
                /\ Place(Engine, 2)' = at /\ UnstartedEngine' /\ "operation" \in MayThrow
    <3>1. Depth(Engine) = 2 /\ at \in Places
      BY <1>5, <2>11 DEF Entering, Signals, Places
    <3>2. /\ \A u \in Threads : u # Engine => Stays(u)
          /\ Depth(Engine)' = 2 /\ Place(Engine, 1)' = Place(Engine, 1)
          /\ Place(Engine, 2)' = at /\ Kept(Engine, 2)' = Kept(Engine, 2)
      BY <1>1, <2>11, <3>1, Going DEF Typed
    <3>3. UnstartedEngine' /\ "operation" \in MayThrow
      BY <1>2, <1>4, <2>11, <3>1, <3>2
         DEF UnstartedEngine, InitialState, Entering, Raising, MayThrow
    <3> QED
      BY <3>2, <3>3
  <2>12. CASE RaiseState(Engine)
    <3>1. /\ Goto(Engine, "raiseTarget") /\ ret' = ret /\ At(Engine) \in Entering
          /\ mTaskState' = "Exception" /\ mTargetState' = mTargetState
      BY <2>12 DEF RaiseState, SetState, Entering
    <3>2. {mTaskState', mTargetState'} \subseteq {InitialState, "Exception"}
      BY <1>6, <3>1
    <3> QED
      BY <1>1, <2>11, <3>1, <3>2, UnstartedMoves
  <2>13. CASE RaiseTarget(Engine)
    <3>1. /\ Goto(Engine, "raised") /\ ret' = ret /\ At(Engine) = "raiseTarget"
          /\ mTargetState' = "Exception" /\ mTaskState' = mTaskState
      BY <2>13 DEF RaiseTarget, SetTarget
    <3>2. Place(Engine, 2) = "raiseTarget" /\ At(Engine) \in Entering
      BY <1>4, <1>5, <3>1 DEF Signals, Entering
    <3>3. ~Racing(user) => mTaskState = "Exception"
      BY <3>2 DEF Unstarted
    <3>4. {mTaskState', mTargetState'} \subseteq {InitialState, "Exception"}
      BY <1>6, <3>1
    <3> QED
      BY <1>1, <2>11, <3>1, <3>2, <3>3, <3>4, UnstartedMoves
  <2> QED
    BY <2>2, <2>3, <2>4, <2>7, <2>8, <2>9, <2>10, <2>12, <2>13
<1> QED
  BY <1>8, <1>9

-----------------------------------------------------------------------------
(***************************************************************************)
(* The inductive invariant.                                                *)
(***************************************************************************)

\* Every step, in the environments with one client ...
LEMMA OrderlyNext ==
  ASSUME Typed, Orderly, [Next]_vars
  PROVE  Orderly'
<1>1. CASE UNCHANGED vars
  <2>1. UNCHANGED <<stack, ret, states, mTaskState, mTargetState, life, user>>
    BY <1>1 DEF vars, states
  <2>2. /\ \A u : Stays(u)
    BY <2>1, Staying
  <2>3. EngineShape' /\ EngineState'
    BY <2>1, <2>2 DEF Orderly, EngineShape, EngineState, Stays, MayCall, RaisedLife, Fits,
       InitialState, Entering, Recovering
  <2>4. Busy' = Busy /\ Halfway' = Halfway
    BY <2>1, <2>2 DEF Busy, Halfway, Stays
  <2>5. Rest'
    BY <2>1, <2>2, <2>4 DEF Orderly, Rest, Calm, Fits, InitialState, Stays, states
  <2>6. Apart'
    BY <2>1, <2>2, <2>4 DEF Orderly, Apart, Holding, Stays
  <2>7. \A c \in Clients : ClientShape(c)' /\ ClientState(c)'
    <3>1. ASSUME NEW c \in Clients
          PROVE  ClientShape(c)'
      BY <2>1, <2>2 DEF Orderly, ClientShape, Stays, InitialState, Recovering
    <3>2. ASSUME NEW c \in Clients
          PROVE  ClientState(c)'
      BY <2>1, <2>2 DEF Orderly, ClientState, Stays, Returned, RaisedLife, Fits, InitialState,
         Entering
    <3> QED
      BY <3>1, <3>2
  <2> QED
    BY <2>1, <2>3, <2>5, <2>6, <2>7 DEF Orderly, OneClient
<1>2. CASE Next
  <2>1. UNCHANGED user
    BY <1>2 DEF Next
  <2>2. CASE EngineStep \/ OperationThrew
    BY <2>1, <2>2, EngineLoop
  <2>3. ASSUME NEW c \in Clients, Progress(c) \/ \E op \in Operations : HookCalls(c, op)
        PROVE  Orderly'
    BY <2>1, <2>3, ClientActivity, ClientHooks, ClientBegins, ClientEnds, ClientStores,
       ClientRaises DEF Progress
  <2>4. CASE Progress(Engine) \/ \E op \in Operations : HookCalls(Engine, op)
    <3>1. CASE \/ Activate(Engine) \/ Trigger(Engine) \/ HaltInactive(Engine) \/ Halt(Engine)
               \/ HaltFails(Engine) \/ Halted(Engine)
      BY <2>1, <3>1, EngineActivity
    <3>2. CASE \/ \E r \in {"true", "false"} : HookReturns(Engine, r)
               \/ HookThrows(Engine)
               \/ \E op \in Operations : HookCalls(Engine, op)
      BY <2>1, <3>2, EngineHooks
    <3>3. CASE \/ NotAllowed(Engine) \/ Recover(Engine) \/ NoException(Engine)
               \/ RecoverError(Engine) \/ Error(Engine) \/ Store(Engine) \/ Target(Engine)
               \/ Fatal(Engine) \/ FatalTarget(Engine)
      BY <2>1, <3>3, EngineErrors
    <3>4. CASE \/ Raise(Engine) \/ RaiseState(Engine) \/ RaiseTarget(Engine) \/ RaiseStop(Engine)
               \/ RaiseClean(Engine) \/ RaiseHook(Engine) \/ Raised(Engine) \/ RaiseFatal(Engine)
      BY <2>1, <3>4, EngineRaises
    <3>5. CASE \/ Catch(Engine) \/ Configure(Engine) \/ Configured(Engine)
               \/ ConfigureFailed(Engine) \/ Cleanup(Engine) \/ Cleaned(Engine) \/ StartTask(Engine) \/ Started(Engine) \/ StartFailed(Engine)
               \/ StopTask(Engine) \/ Restart(Engine) \/ StopFailed(Engine) \/ Stopped(Engine)
      <4>1. At(Engine) \in {"configure", "configured", "cleanup", "cleaned", "start", "started",
                            "stop", "restart", "stopped"}
        BY <3>5 DEF Catch, Configure, Configured, ConfigureFailed, Cleanup, Cleaned, StartTask,
           Started, StartFailed, StopTask, Restart, StopFailed, Stopped
      <4> QED
        BY <4>1, EngineAt DEF Hooks, Signals, Halting, Raising, Entering, Recovering
    <3> QED
      BY <2>4, <3>1, <3>2, <3>3, <3>4, <3>5 DEF Progress
  <2>5. ASSUME NEW c \in Clients, \E op \in ClientOps : ClientCalls(c, op)
        PROVE  Orderly'
    BY <2>1, <2>5, ClientBegins
  <2> QED
    BY <1>2, <2>2, <2>3, <2>4, <2>5 DEF Next, Threads
<1> QED
  BY <1>1, <1>2

\* ... and in those where nobody starts the component.
LEMMA UnstartedNext ==
  ASSUME Typed, Unstarted, [Next]_vars
  PROVE  Unstarted'
<1>1. CASE UNCHANGED vars
  <2>1. UNCHANGED <<stack, ret, mTaskState, mTargetState, user>>
    BY <1>1 DEF vars
  <2>2. \A u : Stays(u)
    BY <2>1, Staying
  <2>3. UnstartedEngine'
    BY <2>1, <2>2 DEF Unstarted, UnstartedEngine, Stays, InitialState, MayThrow
  <2>4. Place(Engine, 2)' = Place(Engine, 2)
    BY <2>2 DEF Stays
  <2>5. /\ {mTaskState', mTargetState'} \subseteq {InitialState, "Exception"}
        /\ mTaskState' = "Exception" => "operation" \in MayThrow
        /\ ~Racing(user) => IF Place(Engine, 2)' = "raiseTarget" THEN mTaskState' = "Exception"
                                                                ELSE mTaskState' = mTargetState'
    BY <2>1, <2>4, UnstartedStates
  <2> QED
    BY <2>1, <2>2, <2>3, <2>5, UnstartedMoves, ThreadsDiffer
<1>2. CASE Next
  <2>1. UNCHANGED user
    BY <1>2 DEF Next
  <2> QED
    BY <1>2, <2>1, UnstartedClient, UnstartedLoop, UnstartedRaises DEF Next, Threads
<1> QED
  BY <1>1, <1>2

\* The constructor: every thread is outside.
LEMMA InitTyped ==
  ASSUME Init
  PROVE  Typed /\ \A t \in Threads : /\ stack[t] = <<>> /\ Depth(t) = 0 /\ ret[t] = "none"
                                     /\ \A d : Place(t, d) = "idle"
<1>1. \A t \in Threads : stack[t] = <<>> /\ Depth(t) = 0 /\ ret[t] = "none"
  BY DEF Init, Depth
<1>2. ASSUME NEW t \in Threads, NEW d
      PROVE  Place(t, d) = "idle"
  BY <1>1 DEF Place
<1>3. Stacks
  BY DEF Init, Stacks
<1>4. Saves
  BY <1>2 DEF Saves, Saving
<1>5. InitialState \in {"PreOperational", "Stopped"}
  BY TaskCoreAssumption DEF Init, IsProgram, InitialState
<1>6. Typed
  BY <1>3, <1>4, <1>5 DEF Init, Typed, Returns, TaskState
<1> QED
  BY <1>1, <1>2, <1>6

\* The invariant holds after the constructor ...
LEMMA InitIInv ==
  ASSUME \A u \in Users : Disciplined(u), Init
  PROVE  IInv
<1>1. Engine \in Threads /\ \A c \in Clients : c \in Threads
  BY ThreadsDiffer
<1>2. /\ Typed
      /\ \A t \in Threads : /\ stack[t] = <<>> /\ Depth(t) = 0 /\ ret[t] = "none"
                            /\ \A d : Place(t, d) = "idle"
  BY InitTyped
<1>3. InitialState \in {"PreOperational", "Stopped"} /\ Disciplined(user)
  BY TaskCoreAssumption DEF Init, IsProgram, InitialState
<1>4. CASE NotStarted(user)
  <2>1. UnstartedEngine
    BY <1>1, <1>2 DEF UnstartedEngine
  <2>2. /\ mTaskState = InitialState /\ mTargetState = InitialState
        /\ mTaskState # "Exception" /\ Place(Engine, 2) = "idle"
    BY <1>1, <1>2, <1>3 DEF Init
  <2>3. \A c \in Clients : Depth(c) = 0 /\ Place(c, 1) = "idle"
    BY <1>1, <1>2
  <2>4. Unstarted
    BY <1>4, <2>1, <2>2, <2>3 DEF Unstarted, Recovering
  <2> QED
    BY <1>2, <2>4 DEF IInv
<1>5. CASE OneClient /\ (StoppedByClient(user) \/ NobodyStops(user))
  <2>1. EngineShape
    BY <1>1, <1>2 DEF EngineShape, Entering, Recovering
  <2>2. EngineState
    BY <1>1, <1>2, <1>3 DEF EngineState, Init, Hooks, Raising, Halting, Entering
  <2>3. ASSUME NEW c \in Clients
        PROVE  ClientShape(c) /\ ClientState(c)
    <3>1. Depth(c) = 0 /\ Place(c, 1) = "idle"
      BY <1>1, <1>2
    <3> QED
      BY <3>1 DEF ClientShape, ClientState, Raising, Recovering, Entering
  <2>4. Calm
    BY <1>3 DEF Init, Calm, Fits, RunningStates, Halfway
  <2>5. Apart
    BY <1>1, <1>2 DEF Apart, Busy
  <2> QED
    BY <1>2, <1>5, <2>1, <2>2, <2>3, <2>4, <2>5 DEF IInv, Orderly, Rest
<1> QED
  BY <1>3, <1>4, <1>5 DEF Disciplined

\* ... and for ever.
LEMMA Invariance == (\A u \in Users : Disciplined(u)) => (Spec => []IInv)
<1> SUFFICES ASSUME \A u \in Users : Disciplined(u)
             PROVE  Spec => []IInv
  OBVIOUS
<1>1. Init => IInv
  BY InitIInv
<1>2. IInv /\ [Next]_vars => IInv'
  BY TypedNext, OrderlyNext, UnstartedNext DEF IInv
<1> QED
  BY <1>1, <1>2, PTL DEF Spec

-----------------------------------------------------------------------------
(***************************************************************************)
(* What it says of the hooks and the states.                               *)
(***************************************************************************)

\* A hook of the engine is one of its exclusive parts ...
LEMMA EngineHookBusy ==
  ASSUME Typed, EngineShape \/ UnstartedEngine, InHook(Engine)
  PROVE  Busy
<1>1. Engine \in Threads
  BY ThreadsDiffer
<1>2. stack[Engine] \in Seq(Frames) /\ Len(stack[Engine]) \in Nat
  BY <1>1 DEF Typed, Stacks
<1>3. PICK i \in 1 .. Len(stack[Engine]) : stack[Engine][i].at \in Hooks
  BY DEF InHook
<1> DEFINE n == Len(stack[Engine])
<1>4. i \in 1 .. n /\ n \in Nat
  BY <1>2, <1>3
<1> HIDE DEF n
<1>5. n >= 2 \/ (n = 1 /\ i = 1)
  BY <1>4
<1>6. CASE n >= 2
  BY <1>6 DEF Busy, Depth, n
<1>7. CASE n = 1 /\ i = 1
  <2>1. Depth(Engine) = 1 /\ Place(Engine, 1) \in Hooks
    BY <1>3, <1>7 DEF Depth, Place, n
  <2> QED
    BY <2>1 DEF EngineShape, UnstartedEngine, Hooks, Entering, Recovering
<1> QED
  BY <1>5, <1>6, <1>7

\* ... and so is a hook of the client.
LEMMA ClientHookHolds ==
  ASSUME Typed, Orderly, NEW c \in Clients, InHook(c)
  PROVE  Holding(c)
<1>1. c \in Threads /\ ClientShape(c)
  BY DEF Threads, Orderly
<1>2. stack[c] \in Seq(Frames) /\ Len(stack[c]) \in Nat
  BY <1>1 DEF Typed, Stacks
<1>3. PICK i \in 1 .. Len(stack[c]) : stack[c][i].at \in Hooks
  BY DEF InHook
<1> DEFINE d == Len(stack[c]) + 1 - i
<1>4. d \in 1 .. Len(stack[c]) /\ Len(stack[c]) + 1 - d = i
  BY <1>2, <1>3
<1> HIDE DEF d
<1>5. Place(c, d) \in Hooks
  BY <1>3, <1>4 DEF Place
<1>6. d # 1
  <2>1. Place(c, 1) \notin Hooks
    <3>1. Depth(c) >= 1
      BY <1>2, <1>3 DEF Depth
    <3> QED
      BY <1>1, <3>1 DEF ClientShape, Hooks, Held, Raising, Signals, Halting, Entering, Recovering
  <2> QED
    BY <1>5, <2>1
<1>7. Depth(c) \in {2, 3} /\ d \in 2 .. Depth(c)
  <2>1. Depth(c) \in 0 .. 3
    BY <1>1 DEF ClientShape, Recovering
  <2>2. d \in 1 .. Depth(c)
    BY <1>4 DEF Depth
  <2> QED
    BY <1>6, <2>1, <2>2
<1>8. CASE Place(c, 1) \in Held
  BY <1>8 DEF Holding
<1>9. CASE Depth(c) = 2 /\ Place(c, 2) \in Halting
  BY <1>5, <1>7, <1>9 DEF Hooks, Halting
<1> QED
  BY <1>7, <1>8, <1>9, ClientInHook

\* Hence no two threads are in hooks.
LEMMA ExclusiveHooks == IInv => HooksExclusive
<1> SUFFICES ASSUME IInv, NEW t \in Threads, NEW u \in Threads, InHook(t), InHook(u)
             PROVE  t = u
  BY DEF HooksExclusive
<1>1. Typed
  BY DEF IInv
<1>2. CASE Orderly
  <2>1. \A c \in Clients : InHook(c) => Holding(c) /\ ~Busy
    BY <1>1, <1>2, ClientHookHolds, NotBusy
  <2>2. InHook(Engine) => Busy
    BY <1>1, <1>2, EngineHookBusy DEF Orderly
  <2>3. \A c, d \in Clients : c = d
    BY <1>2 DEF Orderly, OneClient
  <2> QED
    BY <2>1, <2>2, <2>3 DEF Threads
<1>3. CASE Unstarted
  <2>1. ASSUME NEW c \in Clients, InHook(c)
        PROVE  FALSE
    <3>1. c \in Threads /\ Depth(c) \in 0 .. 1
      BY <1>3 DEF Threads, Unstarted
    <3>2. PICK i \in 1 .. Len(stack[c]) : stack[c][i].at \in Hooks
      BY <2>1 DEF InHook
    <3>3. i = 1 /\ Len(stack[c]) = 1 /\ Depth(c) = 1
      BY <3>1, <3>2 DEF Depth
    <3>4. Place(c, 1) \in Hooks
      BY <3>2, <3>3 DEF Place
    <3> QED
      BY <1>3, <3>3, <3>4 DEF Unstarted, Hooks, Signals, Recovering
  <2> QED
    BY <2>1 DEF Threads
<1> QED
  BY <1>2, <1>3 DEF IInv

\* A component that is at rest when nobody is in a call.
LEMMA SettledStates == IInv => Settled
<1> SUFFICES ASSUME IInv, \A t \in Threads : stack[t] = <<>>, ~Racing(user)
             PROVE  mTaskState = mTargetState
  BY DEF Settled
<1>3. Place(Engine, 2) = "idle" /\ Place(Engine, 3) = "idle"
  <2>1. stack[Engine] = <<>>
    BY ThreadsDiffer
  <2> QED
    BY <2>1 DEF Place
<1>1. CASE Orderly
  <2>1. ASSUME NEW c \in Clients
        PROVE  Place(c, 1) = "idle"
    <3>1. stack[c] = <<>>
      BY DEF Threads
    <3> QED
      BY <3>1 DEF Place
  <2> QED
    BY <1>1, <1>3, <2>1 DEF Orderly, Rest, Calm, Held, Raising, Entering, Halfway
<1>2. CASE Unstarted
  BY <1>2, <1>3 DEF Unstarted
<1> QED
  BY <1>1, <1>2 DEF IInv

\* Where the last call of a thread comes from.
LEMMA LastCall ==
  ASSUME Stacks, NEW t \in Threads, NEW hook, Entered(t, hook), NEW u \in Threads, Depth(u) >= 1
  PROVE  /\ \A at \in Places : ~Goto(u, at)
         /\ \A at \in Places, s \in TaskState \cup {"none"} : ~Enter(u, at, s)
         /\ \A r : ~Return(u, r)
         /\ \A callee, at \in Places : Call(u, callee, at) => t = u /\ hook = callee
<1>1. Depth(t)' > Depth(t) /\ Depth(t) \in Nat /\ Depth(u) \in Nat
  BY TopPlace DEF Entered, Depth
<1>2. ASSUME NEW at \in Places, Goto(u, at)
      PROVE  FALSE
  BY <1>1, <1>2, GotoView
<1>5. ASSUME NEW at \in Places, NEW s \in TaskState \cup {"none"}, Enter(u, at, s)
      PROVE  FALSE
  BY <1>1, <1>5, EnterView
<1>3. ASSUME NEW r, Return(u, r)
      PROVE  FALSE
  BY <1>1, <1>3, ReturnView
<1>4. ASSUME NEW callee \in Places, NEW at \in Places, Call(u, callee, at)
      PROVE  t = u /\ hook = callee
  <2>1. t = u
    BY <1>1, <1>4, CallView
  <2>2. stack[u] \in Seq(Frames) /\ stack[u] # <<>> /\ Head(stack[u]) \in Frames
    BY TopPlace, HeadTailProperties DEF Stacks
  <2> DEFINE f == [Head(stack[u]) EXCEPT !.at = at]
  <2>3. f \in Frames /\ Frame(callee) \in Frames /\ Frame(callee).at = callee
    BY <2>2 DEF Frames, Frame
  <2>4. stack'[u] = <<Frame(callee), f>> \o Tail(stack[u])
    BY <1>4 DEF Call, Stacks
  <2> HIDE DEF f
  <2>5. stack'[u][1] = Frame(callee) /\ Len(stack'[u]) = Len(stack[u]) + 1
    BY <2>2, <2>3, <2>4, Called
  <2>6. Head(stack'[u]) = stack'[u][1]
    BY DEF Head
  <2> QED
    BY <2>1, <2>3, <2>5, <2>6 DEF Entered
<1> QED
  BY <1>2, <1>3, <1>4, <1>5

\* A thread is in a hook it was not in before only by one of these calls.
LEMMA EnteredByCall ==
  ASSUME Typed, Next, NEW t \in Threads, NEW hook \in Hooks, Entered(t, hook)
  PROVE  HookCalled(t, hook)
<1>1. Engine \in Threads /\ \A c \in Clients : c \in Threads
  BY ThreadsDiffer
<1>2. Depth(t)' > Depth(t) /\ Depth(t) \in Nat
  BY TopPlace DEF Entered, Depth, Typed
<1>3. hook \notin Operations /\ Hooks \subseteq Places /\ Operations \subseteq Places /\ hook # "halt"
  BY DEF Hooks, Operations, Places
<1>4. ASSUME NEW u \in Threads, At(u) # "idle"
      PROVE  /\ \A at \in Places : ~Goto(u, at)
             /\ \A at \in Places, s \in TaskState \cup {"none"} : ~Enter(u, at, s)
             /\ \A r : ~Return(u, r)
             /\ \A callee, at \in Places : Call(u, callee, at) => t = u /\ hook = callee
  <2>1. Depth(u) >= 1
    BY <1>4, Active DEF Typed
  <2> QED
    BY <2>1, LastCall DEF Typed
<1>5. CASE EngineStep \/ OperationThrew
  <2>1. CASE Wake
    <3>1. /\ stack[Engine] = <<>> /\ "awake" \in Places
          /\ stack' = IF running THEN [stack EXCEPT ![Engine] = <<Frame("awake")>>] ELSE stack
      BY <2>1 DEF Wake, Places
    <3>2. CASE running
      <4>1. stack'[Engine] = <<Frame("awake")>> /\ \A u \in Threads : u # Engine => stack'[u] = stack[u]
        BY <1>1, <3>1, <3>2 DEF Typed, Stacks
      <4>2. t = Engine
        BY <1>2, <4>1 DEF Depth
      <4>3. hook = "awake"
        BY <4>1, <4>2 DEF Entered, Frame
      <4> QED
        BY <4>3 DEF Hooks
    <3>3. CASE ~running
      BY <1>2, <3>1, <3>3 DEF Depth
    <3> QED
      BY <3>2, <3>3
  <2>2. CASE ~Wake
    <3>1. At(Engine) # "idle"
      BY <1>5, <2>2 DEF EngineStep, OperationThrew, Step, Update, UpdateThrew, HandleError,
         ErrorThrew, EndStep
    <3>2. /\ {"step", "updated", "handled", "exception"} \subseteq Places
          /\ "exception" \notin Hooks
      BY DEF Places, Operations, Hooks
    <3>3. Update \/ HandleError
      BY <1>1, <1>4, <1>5, <2>2, <3>1, <3>2
         DEF EngineStep, OperationThrew, Step, UpdateThrew, ErrorThrew, EndStep
    <3>4. "updateHook" \in Places /\ "errorHook" \in Places
      BY DEF Places, Hooks
    <3>5. CASE Update
      BY <1>1, <1>4, <3>1, <3>2, <3>4, <3>5 DEF Update, HookCalled
    <3>6. CASE HandleError
      BY <1>1, <1>4, <3>1, <3>2, <3>4, <3>6 DEF HandleError, HookCalled
    <3> QED
      BY <3>3, <3>5, <3>6
  <2> QED
    BY <2>1, <2>2
<1>6. ASSUME NEW u \in Threads, NEW op \in Operations, HookCalls(u, op)
      PROVE  FALSE
  <2>1. <<At(u), op>> \in Hooks \X Operations
    BY <1>6, TaskCoreAssumption DEF HookCalls, MayCall, IsProgram, Typed
  <2>2. At(u) # "idle" /\ At(u) \in Places /\ op \in Places
    BY <1>3, <2>1 DEF Hooks
  <2> QED
    BY <1>3, <1>4, <1>6, <2>2 DEF HookCalls
<1>7. ASSUME NEW c \in Clients, NEW op \in ClientOps, ClientCalls(c, op)
      PROVE  FALSE
  <2>1. op \in Operations
    BY TaskCoreAssumption DEF ClientOps, IsProgram, Typed
  <2>2. stack'[c] = <<Frame(op)>> /\ \A u \in Threads : u # c => stack'[u] = stack[u]
    BY <1>1, <1>7 DEF ClientCalls, Typed, Stacks
  <2>3. t = c
    BY <1>2, <2>2 DEF Depth
  <2>4. hook = op
    BY <2>2, <2>3 DEF Entered, Frame
  <2> QED
    BY <1>3, <2>1, <2>4
<1>8. ASSUME NEW u \in Threads, Progress(u)
      PROVE  HookCalled(t, hook)
  <2>1. At(u) # "idle"
    BY <1>8
       DEF Progress, Activate, Trigger, HaltInactive, Halt, HaltFails, Halted, HookReturns,
       HookThrows, Catch, NotAllowed, Configure, Configured, ConfigureFailed, Cleanup, Cleaned,
       Recover, NoException, RecoverError, Error, Store, Target, Fatal, FatalTarget, StartTask,
       Started, StartFailed, StopTask, Restart, StopFailed, Stopped, Raise, RaiseState,
       RaiseTarget, RaiseStop, RaiseClean, RaiseHook, Raised, RaiseFatal, Hooks
  <2>2. /\ \A at \in Places : ~Goto(u, at)
        /\ \A at \in Places, s \in TaskState \cup {"none"} : ~Enter(u, at, s)
        /\ \A r : ~Return(u, r)
        /\ \A callee, at \in Places : Call(u, callee, at) => t = u /\ hook = callee
    BY <1>4, <2>1
  <2>3. {"halting", "exception", "recoverError", "store", "target", "fatalTarget", "halt",
         "trigger", "raise", "raiseTarget", "raised", "raisedStop", "raisedClean", "fatal"}
          \subseteq Places
    BY DEF Places, Operations
  <2>4. Depth(u) >= 1 /\ Depth(u) \in Nat /\ stack[u] \in Seq(Frames) /\ stack[u] # <<>>
    BY <2>1, Active, TopPlace DEF Typed, Stacks
  <2>5. ~StopTask(u)
    <3>1. SUFFICES ASSUME StopTask(u)
                   PROVE  FALSE
      OBVIOUS
    <3> DEFINE f == [at |-> "restart", saved |-> mTaskState]
               g == Frame("halt")
    <3>2. f \in Frames /\ g \in Frames /\ g.at = "halt"
      BY DEF Frames, Frame, Typed, Places
    <3>3. stack' = [stack EXCEPT ![u] = <<g, f>> \o Tail(@)]
      BY <3>1 DEF StopTask
    <3> HIDE DEF f, g
    <3>4. \A v \in Threads : Depth(v)' = IF v = u THEN Depth(u) + 1 ELSE Depth(v)
      BY <2>4, <3>2, <3>3, CalledView DEF Typed
    <3>5. t = u
      BY <1>2, <3>4
    <3>6. stack'[u] = <<g, f>> \o Tail(stack[u])
      BY <3>3 DEF Typed, Stacks
    <3>7. stack'[u][1] = g
      BY <2>4, <3>2, <3>6, Called
    <3>8. Head(stack'[u]) = stack'[u][1]
      BY DEF Head
    <3> QED
      BY <1>3, <3>2, <3>5, <3>7, <3>8 DEF Entered
  <2>6. ~(\/ ConfigureFailed(u) \/ Recover(u) \/ RecoverError(u) \/ Error(u) \/ Raise(u))
    <3>1. {InitialState, mTaskState, "PreOperational", "Running", "RunTimeError"} \subseteq TaskState
      BY TaskCoreAssumption DEF Typed, IsProgram, InitialState, TaskState
    <3> QED
      BY <2>2, <2>3, <3>1 DEF ConfigureFailed, Recover, RecoverError, Error, Raise
  <2>7. \/ Configure(u) \/ Cleanup(u) \/ StartTask(u) \/ Restart(u)
        \/ RaiseStop(u) \/ RaiseClean(u) \/ RaiseHook(u)
    BY <1>8, <2>2, <2>3, <2>5, <2>6
       DEF Progress, Activate, Trigger, HaltInactive, Halt, HaltFails, Halted, HookReturns,
       HookThrows, Catch, NotAllowed, Configured, Cleaned, NoException, Store, Target,
       Fatal, FatalTarget, Started, StartFailed, StopFailed, Stopped,
       RaiseState, RaiseTarget, Raised, RaiseFatal
  <2>8. {"configureHook", "configured", "cleanupHook", "cleaned", "startHook", "started",
         "stopHook", "stopped", "exceptionHook", "raisedHook", "raisedStop", "raisedClean"}
          \subseteq Places
    BY DEF Places, Hooks
  <2> QED
    BY <2>2, <2>3, <2>7, <2>8 DEF Configure, Cleanup, StartTask, Restart, RaiseStop, RaiseClean,
       RaiseHook, HookCalled
<1> QED
  BY <1>5, <1>6, <1>7, <1>8 DEF Next

\* A hook that is called finds the component as the hooks before it have left it.
LEMMA OrderedHooks ==
  ASSUME IInv, Next, NEW t \in Threads, NEW hook \in Hooks, Entered(t, hook)
  PROVE  life \in LifeNeeded(hook)
<1>1. Typed /\ HookCalled(t, hook)
  BY EnteredByCall DEF IInv
<1>2. life \in {"cleaned", "configured", "started"}
  BY <1>1 DEF Typed
<1>3. CASE RaiseHook(t) /\ hook = "exceptionHook"
  BY <1>2, <1>3 DEF LifeNeeded
<1>4. SUFFICES ASSUME ~(RaiseHook(t) /\ hook = "exceptionHook")
               PROVE  life \in LifeNeeded(hook)
  BY <1>3
<1>5. At(t) # "idle" /\ Depth(t) \in Nat /\ Depth(t) >= 1 /\ At(t) = Place(t, Depth(t))
      /\ Saved(t) = Kept(t, Depth(t))
  <2>1. At(t) # "idle"
    BY <1>1 DEF HookCalled, Configure, Cleanup, StartTask, Restart, RaiseStop, RaiseClean,
       RaiseHook, Update, HandleError
  <2> QED
    BY <1>1, <2>1, Active DEF Typed
<1>6. CASE Unstarted
  <2>1. InitialState \in {"PreOperational", "Stopped"} /\ mTaskState \notin RunningStates
    BY <1>1, <1>6, TaskCoreAssumption DEF Typed, Unstarted, IsProgram, InitialState, RunningStates
  <2>2. CASE t \in Clients
    <3>1. At(t) \in {"error", "target"} \cup Recovering \cup Signals
      BY <1>5, <1>6, <2>2 DEF Unstarted
    <3> QED
      BY <1>1, <1>4, <3>1, <2>2, ThreadsDiffer DEF HookCalled, Configure, Cleanup, StartTask,
         Restart, RaiseStop, RaiseClean, Signals, Recovering
  <2>3. CASE t = Engine
    <3>1. \/ At(t) \in {"awake", "step", "updated", "handled", "exception", "exceptionHook"} \cup Signals
          \/ At(t) \in Entering \cup Raising /\ Saved(t) \in {InitialState, "Exception"}
      BY <1>5, <1>6, <2>3 DEF Unstarted, UnstartedEngine
    <3>2. RaiseStop(t) \/ RaiseClean(t) => Saved(t) \in {InitialState, "Exception"}
      BY <3>1 DEF RaiseStop, RaiseClean, Signals
    <3>3. "Running" \in RunningStates /\ "RunTimeError" \in RunningStates
      BY DEF RunningStates
    <3> QED
      BY <1>1, <1>4, <2>1, <3>1, <3>2, <3>3
         DEF HookCalled, Configure, Cleanup, StartTask, Restart, Signals, ConfiguredStates,
             RunningStates, Raising, Entering
  <2> QED
    BY <2>2, <2>3 DEF Threads
<1>7. CASE Orderly /\ t \in Clients
  <2>1. ClientState(t) /\ ClientShape(t) /\ t # Engine
    BY <1>7, ThreadsDiffer DEF Orderly
  <2>2. At(t) \in {"configure", "cleanup", "start", "restart", "raised", "raisedStop"}
    BY <1>1, <1>4, <2>1 DEF HookCalled, Configure, Cleanup, StartTask, Restart, RaiseStop,
       RaiseClean
  <2>3. Depth(t) = 1 /\ Place(t, 1) = At(t) /\ Saved(t) = Kept(t, 1)
    BY <1>1, <1>5, <1>7, <2>2, ClientAt DEF Hooks, Signals, Halting
  <2>4. At(t) \in {"configure", "cleanup", "start"} => Calm
    BY <1>1, <1>7, <2>3, CalmOutside DEF Held, Raising, Entering
  <2>5. CASE Configure(t) /\ hook = "configureHook"
    <3>1. mTaskState \in {"Stopped", "PreOperational"} /\ Fits(mTaskState)
      BY <2>4, <2>5 DEF Configure, Calm, Halfway
    <3> QED
      BY <2>5, <3>1 DEF Fits, LifeNeeded
  <2>6. CASE (Cleanup(t) /\ hook = "cleanupHook") \/ (StartTask(t) /\ hook = "startHook")
    <3>1. mTaskState = "Stopped" /\ Fits(mTaskState)
      BY <2>4, <2>6 DEF Cleanup, StartTask, Calm, Halfway
    <3> QED
      BY <2>6, <3>1 DEF Fits, LifeNeeded
  <2>7. CASE Restart(t) /\ hook = "stopHook"
    <3>1. life = "started"
      BY <2>1, <2>3, <2>7 DEF Restart, ClientState, Entering
    <3> QED
      BY <2>7, <3>1 DEF LifeNeeded
  <2>8. CASE RaiseStop(t) /\ Saved(t) \in RunningStates /\ hook = "stopHook"
    <3>1. life = "started"
      BY <2>1, <2>3, <2>8 DEF RaiseStop, ClientState, Raising, RaisedLife, Fits, Entering
    <3> QED
      BY <2>8, <3>1 DEF LifeNeeded
  <2>9. CASE RaiseClean(t) /\ Saved(t) \in ConfiguredStates /\ hook = "cleanupHook"
    <3>1. life = "configured"
      BY <2>1, <2>3, <2>9
         DEF RaiseClean, ClientState, Raising, RaisedLife, ConfiguredStates, RunningStates, Entering
    <3> QED
      BY <2>9, <3>1 DEF LifeNeeded
  <2>10. \/ Configure(t) /\ hook = "configureHook"
         \/ Cleanup(t) /\ hook = "cleanupHook"
         \/ StartTask(t) /\ hook = "startHook"
         \/ Restart(t) /\ hook = "stopHook"
         \/ RaiseStop(t) /\ Saved(t) \in RunningStates /\ hook = "stopHook"
         \/ RaiseClean(t) /\ Saved(t) \in ConfiguredStates /\ hook = "cleanupHook"
    BY <1>1, <1>4, <2>1 DEF HookCalled
  <2> QED
    BY <2>5, <2>6, <2>7, <2>8, <2>9, <2>10
<1>8. CASE Orderly /\ t = Engine
  <2>1. EngineState
    BY <1>8 DEF Orderly
  <2>2. CASE /\ \/ mTaskState = "Running" /\ mTargetState = "Running"
                \/ mTaskState = "RunTimeError"
             /\ hook \in {"updateHook", "errorHook"}
    <3>1. ASSUME NEW c \in Clients
          PROVE  Place(c, 1) \notin Held \cup {"restart"} /\ ClientState(c)
      <4>1. ~Holding(c) /\ ClientState(c)
        BY <1>1, <1>8, <2>2, NoHookWhileHeld DEF Orderly
      <4> QED
        BY <2>2, <4>1 DEF Holding, ClientState, Entering
    <3>2. ASSUME Calm
          PROVE  life = "started"
      BY <2>2, <3>2 DEF Calm, Fits, RunningStates
    <3>3. life = "started"
      <4>1. SUFFICES ASSUME ~Calm
                     PROVE  life = "started"
        BY <3>2
      <4>2. PICK c \in Clients : Place(c, 1) = "target"
        BY <1>8, <3>1, <4>1 DEF Orderly, Rest
      <4>3. /\ mTaskState = Kept(c, 1) /\ Kept(c, 1) \in {"PreOperational", "Running"}
            /\ Fits(Kept(c, 1))
        BY <3>1, <4>2 DEF ClientState
      <4> QED
        BY <2>2, <4>3 DEF Fits, RunningStates
    <3> QED
      BY <2>2, <3>3 DEF LifeNeeded
  <2>3. CASE \/ RaiseStop(t) /\ hook = "stopHook"
             \/ RaiseClean(t) /\ hook = "cleanupHook"
    <3>1. At(Engine) \in {"raised", "raisedStop"}
      BY <1>8, <2>3 DEF RaiseStop, RaiseClean
    <3>2. Depth(Engine) = 2 /\ Place(Engine, 2) = At(Engine) /\ At(Engine) \in Raising
      BY <1>1, <1>8, <3>1, EngineAt DEF Hooks, Signals, Halting, Raising, Entering, Recovering
    <3>3. Kept(Engine, 2) \in RunningStates /\ RaisedLife(Engine, 2)
      BY <2>1, <3>2 DEF EngineState, Entering
    <3>4. CASE RaiseStop(t)
      <4>1. life = "started" /\ hook = "stopHook"
        BY <1>8, <2>3, <3>2, <3>3, <3>4 DEF RaiseStop, RaiseClean, RaisedLife, Fits, Entering
      <4> QED
        BY <4>1 DEF LifeNeeded
    <3>5. CASE RaiseClean(t)
      <4>1. life = "configured" /\ hook = "cleanupHook"
        BY <1>8, <2>3, <3>2, <3>3, <3>5 DEF RaiseStop, RaiseClean, RaisedLife, RunningStates,
           Entering
      <4> QED
        BY <4>1 DEF LifeNeeded
    <3> QED
      BY <2>3, <3>4, <3>5
  <2>4. At(Engine) \notin {"configure", "cleanup", "start", "restart"}
    BY <1>1, <1>5, <1>8, EngineAt DEF Hooks, Signals, Halting, Raising, Entering, Recovering
  <2> QED
    BY <1>1, <1>4, <1>8, <2>2, <2>3, <2>4
       DEF HookCalled, Configure, Cleanup, StartTask, Restart
<1> QED
  BY <1>6, <1>7, <1>8 DEF IInv, Threads

\* What changes the state.
LEMMA StateChanges ==
  ASSUME Next, mTaskState' # mTaskState
  PROVE  \E t \in Threads :
            \/ Configured(t) \/ ConfigureFailed(t) \/ Cleaned(t) \/ Store(t) \/ Fatal(t)
            \/ Started(t) \/ StopFailed(t) \/ Stopped(t) \/ RaiseState(t)
<1>1. ~(EngineStep \/ OperationThrew)
  BY DEF EngineStep, OperationThrew, Wake, Step, Update, UpdateThrew, HandleError, ErrorThrew,
     EndStep, states
<1>2. /\ ~\E t \in Threads, op \in Operations : HookCalls(t, op)
      /\ ~\E c \in Clients, op \in ClientOps : ClientCalls(c, op)
  BY DEF HookCalls, ClientCalls, states
<1>3. PICK t \in Threads : Progress(t)
  BY <1>1, <1>2 DEF Next
<1> QED
  BY <1>3 DEF Progress, Activate, Trigger, HaltInactive, Halt, HaltFails, Halted, HookReturns,
     HookThrows, Catch, NotAllowed, Configure, Cleanup, Recover, NoException, RecoverError, Error,
     Target, FatalTarget, StartTask, StartFailed, StopTask, Restart, Raise, RaiseTarget, RaiseStop,
     RaiseClean, RaiseHook, Raised, RaiseFatal, states

\* A step that leaves FatalError or Exception.
LEMMA LeavingStates ==
  ASSUME IInv, Next
  PROVE  /\ mTaskState = "FatalError" => mTaskState' = "FatalError"
         /\ mTaskState = "Exception" =>
              \/ mTaskState' \in {"Exception", "FatalError"}
              \/ \E t \in Threads : At(t) = "store" /\ mTaskState' = InitialState
<1>1. SUFFICES ASSUME mTaskState \in {"FatalError", "Exception"},
                      mTaskState' # mTaskState, mTaskState' # "FatalError"
               PROVE  /\ mTaskState = "Exception"
                      /\ \E t \in Threads : At(t) = "store" /\ mTaskState' = InitialState
  OBVIOUS
<1>2. PICK t \in Threads :
            \/ Configured(t) \/ ConfigureFailed(t) \/ Cleaned(t) \/ Store(t) \/ Fatal(t)
            \/ Started(t) \/ StopFailed(t) \/ Stopped(t) \/ RaiseState(t)
  BY <1>1, StateChanges
<1>3. ~Fatal(t)
  BY <1>1 DEF Fatal, SetState
<1>4. At(t) \in {"configured", "cleaned", "store", "started", "restart", "stopped", "raise"}
  BY <1>2, <1>3 DEF Configured, ConfigureFailed, Cleaned, Store, Started, StopFailed, Stopped,
     RaiseState
<1>5. Typed
  BY DEF IInv
<1>6. /\ At(t) = "store" => mTaskState' = Saved(t)
      /\ At(t) = "raise" => mTaskState' = "Exception"
  BY <1>2, <1>3 DEF Configured, ConfigureFailed, Cleaned, Store, Started, StopFailed, Stopped,
     RaiseState, SetState
<1>8. /\ Depth(t) \in Nat /\ Depth(t) >= 1 /\ At(t) = Place(t, Depth(t))
      /\ Saved(t) = Kept(t, Depth(t))
  BY <1>4, <1>5, Active DEF Typed
<1>9. CASE Unstarted
  <2>1. mTaskState = "Exception"
    BY <1>1, <1>5, <1>9, TaskCoreAssumption DEF Unstarted, Typed, IsProgram, InitialState
  <2>2. CASE t \in Clients
    <3>1. Depth(t) = 1 /\ Place(t, 1) = At(t) /\ Saved(t) = Kept(t, 1)
      BY <1>8, <1>9, <2>2 DEF Unstarted
    <3>2. At(t) = "store" /\ Saved(t) = InitialState
      BY <1>4, <1>9, <2>2, <3>1 DEF Unstarted, Signals, Recovering
    <3> QED
      BY <1>6, <2>1, <3>2
  <2>3. CASE t = Engine
    <3>1. At(t) = "raise"
      BY <1>4, <1>8, <1>9, <2>3 DEF Unstarted, UnstartedEngine, Entering, Raising, Signals
    <3> QED
      BY <1>1, <1>6, <2>1, <3>1
  <2> QED
    BY <2>2, <2>3 DEF Threads
<1>10. CASE Orderly /\ t \in Clients
  <2>1. ClientShape(t) /\ ClientState(t)
    BY <1>10 DEF Orderly
  <2>2. Place(t, 1) = At(t) /\ Saved(t) = Kept(t, 1)
    BY <1>4, <1>5, <1>10, ClientAt DEF Hooks, Signals, Halting
  <2>3. At(t) = "store"
    BY <1>1, <1>4, <2>1, <2>2 DEF ClientState
  <2>4. /\ mTaskState = "Exception" /\ Saved(t) = "PreOperational"
        /\ InitialState = "PreOperational"
    BY <2>1, <2>2, <2>3 DEF ClientState, ClientShape, Recovering
  <2> QED
    BY <1>6, <2>3, <2>4
<1>11. CASE Orderly /\ t = Engine
  <2>1. \/ Place(Engine, 3) = "store"
        \/ Place(Engine, 2) = "raise"
    BY <1>4, <1>5, <1>11, EngineAt DEF Hooks, Signals, Halting, Entering, Raising, Recovering
  <2>2. mTaskState \in RunningStates
    BY <1>11, <2>1 DEF Orderly, EngineState
  <2> QED
    BY <1>1, <2>2 DEF RunningStates
<1> QED
  BY <1>9, <1>10, <1>11 DEF IInv, Threads

-----------------------------------------------------------------------------
(***************************************************************************)
(* The theorems.                                                           *)
(***************************************************************************)

\* The states are those of the enumeration, those that stop() restores too, and the
\* threads are only in calls the code makes: for every program, and any number of clients.
THEOREM TypeCorrect == Spec => []TypeOK
<1>1. Init => Typed
  BY InitTyped
<1>2. Typed /\ [Next]_vars => Typed'
  BY TypedNext
<1>3. ASSUME Typed
      PROVE  TypeOK
  <2>1. ASSUME NEW t \in Threads, NEW i \in 1 .. Len(stack[t])
        PROVE  stack[t][i].saved \in TaskState \cup {"none"}
    <3>1. stack[t] \in Seq(Frames)
      BY <1>3 DEF Typed, Stacks
    <3>2. stack[t][i] \in Frames
      BY <3>1
    <3> QED
      BY <3>2 DEF Frames
  <2> QED
    BY <1>3, <2>1 DEF Typed, TypeOK, Returns
<1> QED
  BY <1>1, <1>2, <1>3, PTL DEF Spec

\* The hooks of a component never run at the same time in two threads: the wait of stop()
\* for the step of the engine, and the states that keep the engine from its hooks while the
\* client is in one, take the place of a lock.
THEOREM HooksExclude ==
  ASSUME \A u \in Users : Disciplined(u)
  PROVE  Spec => []HooksExclusive
  BY Invariance, ExclusiveHooks, PTL

\* When nobody is in a call, no transition is taking place: every path through the
\* operations, those through failures and exceptions too, ends with mTaskState = mTargetState,
\* although the two are stored one after the other: unless recover() and exception() can
\* overlap (Racing).
THEOREM StatesSettle ==
  ASSUME \A u \in Users : Disciplined(u)
  PROVE  Spec => []Settled
  BY Invariance, SettledStates, PTL

\* Each hook is called only when those before it have succeeded and have not been undone,
\* in the face of failures and exceptions.
THEOREM HooksOrdered ==
  ASSUME \A u \in Users : Disciplined(u)
  PROVE  Spec => HookOrder
<1> DEFINE Ordered == \A t \in Threads, hook \in Hooks :
                         Entered(t, hook) => life \in LifeNeeded(hook)
<1>1. IInv /\ [Next]_vars => [Ordered]_vars
  BY OrderedHooks
<1>2. Spec => []IInv
  BY Invariance
<1>3. Spec => [][Ordered]_vars
  BY <1>1, <1>2, PTL DEF Spec
<1> QED
  BY <1>3 DEF HookOrder

\* FatalError is not left, and Exception by recover() only, although the operations go on
\* from a state they have read before a hook or a wait.
THEOREM StatesKept ==
  ASSUME \A u \in Users : Disciplined(u)
  PROVE  Spec => StatesLeft
<1> DEFINE Left == /\ mTaskState = "FatalError" => mTaskState' = "FatalError"
                   /\ mTaskState = "Exception" =>
                        \/ mTaskState' \in {"Exception", "FatalError"}
                        \/ \E t \in Threads : At(t) = "store" /\ mTaskState' = InitialState
<1>1. IInv /\ [Next]_vars => [Left]_vars
  BY LeavingStates
<1>2. Spec => []IInv
  BY Invariance
<1>3. Spec => [][Left]_vars
  BY <1>1, <1>2, PTL DEF Spec
<1> QED
  BY <1>3 DEF StatesLeft
=============================================================================
