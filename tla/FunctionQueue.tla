---------------------------- MODULE FunctionQueue ----------------------------
(***************************************************************************)
(* Programs and functions of the scripting engine in an ExecutionEngine    *)
(* (ExecutionEngine.cpp: runFunction, removeFunction, processFunctions,    *)
(* processMessages), and the threads that load, drive and unload them      *)
(* (ScriptingService for programs, CallFunction for called functions).     *)
(*                                                                         *)
(* One client owns each function.  The engine runs one command of a        *)
(* program in two steps, its begin and its end: whatever a client does to  *)
(* the program in between happens during the command.  Neither queue is    *)
(* ever full, and a RemoveMsg is executed in one step.                     *)
(***************************************************************************)
EXTENDS FunctionGraph, Integers, FiniteSets, Sequences, SequencesExt

CONSTANTS
    Functions,   \* programs and functions, one client each
    Called,      \* those with munload_on_stop, run by a CallFunction
    Resident,    \* programs loaded and started at first or absent, never unloaded
    Driven,      \* programs whose client starts, pauses, steps and stops them
    MayThrow,    \* those with a command that may throw
    MayCall,     \* those with a command that waits for another component
    MayStop,     \* the activity of the engine may be stopped and started
    MayHurry,    \* a CallFunction may be reset before its function is unloaded
    MayJoin,     \* a function may join a round that began with an empty queue
    None         \* a null pointer

ASSUME FunctionsAssumption ==
    /\ IsFiniteSet(Functions)
    /\ Called \subseteq Functions
    /\ Resident \subseteq Functions \ Called
    /\ Driven \subseteq Functions \ Called
    /\ MayThrow \subseteq Functions /\ MayCall \subseteq Functions
    /\ MayStop \in BOOLEAN /\ MayHurry \in BOOLEAN /\ MayJoin \in BOOLEAN
    /\ None \notin Functions

VARIABLES
    prog,      \* prog[f]: the FunctionGraph of f
    loaded,    \* the functions whose engine pointer is set
    fqueue,    \* f_queue, oldest first
    mqueue,    \* mqueue: the functions whose RemoveMsg waits, oldest first
    found,     \* the functions whose RemoveMsg was executed
    active,    \* the activity of the engine is active
    msgLock,   \* the client that holds msg_lock, or None
    epc,       \* where the engine's thread is
    nested,    \* processMessages() was called by a command
    got,       \* this processMessages() dequeued something
    nbr,       \* nbr in processFunctions(); below zero it is no limit
    cur,       \* foo, the function that is executed
    at,        \* the node of the command that runs
    cpc        \* cpc[f]: where the client of f is

engineVars == <<epc, nested, got, nbr, cur, at>>
vars == <<prog, loaded, fqueue, mqueue, found, active, msgLock, engineVars, cpc>>

Loaded(f) == f \in loaded

Init ==
    /\ loaded \in SUBSET Resident
    /\ prog = [f \in Functions |->
                  IF f \in loaded THEN Start(NewProgram) ELSE NewProgram]
    /\ fqueue = SetToSeq(loaded)
    /\ mqueue = <<>> /\ found = {}
    /\ active = TRUE
    /\ msgLock = None
    /\ epc = "idle" /\ nested = FALSE /\ got = FALSE
    /\ nbr = 0 /\ cur = None /\ at = 0
    /\ cpc = [f \in Functions |-> IF f \in loaded THEN "in" ELSE "out"]

Update(f, p) == prog' = [prog EXCEPT ![f] = p]

\* msg_cond.broadcast(), with the other moves of the clients in new.
Wakened(new) ==
    [f \in Functions |-> IF new[f] = "asleep" THEN "lock" ELSE new[f]]

-----------------------------------------------------------------------------
(***************************************************************************)
(* step(): processMessages(), then processFunctions()                      *)
(***************************************************************************)

Step ==
    /\ epc = "idle" /\ active
    /\ epc' = "messages" /\ nested' = FALSE /\ got' = FALSE
    /\ UNCHANGED <<prog, loaded, fqueue, mqueue, found, active, msgLock, nbr, cur, at, cpc>>

\* Mutant: the function is put back when it is met.
Without_Kept(f) == fqueue

\* Mutant: what was taken before it is not put back.
Without_Dropped(f) ==
    IF \E i \in DOMAIN fqueue : fqueue[i] = f
    THEN LET i == CHOOSE i \in DOMAIN fqueue : fqueue[i] = f
         IN  SubSeq(fqueue, i + 1, Len(fqueue))
    ELSE fqueue

\* removeSelfFunction() turns the queue until it meets f, and keeps it so.
Without(f) ==
    IF \E i \in DOMAIN fqueue : fqueue[i] = f
    THEN LET i == CHOOSE i \in DOMAIN fqueue : fqueue[i] = f
         IN  SubSeq(fqueue, i + 1, Len(fqueue)) \o SubSeq(fqueue, 1, i - 1)
    ELSE fqueue

RemoveMsg ==
    /\ epc = "messages" /\ mqueue # <<>>
    /\ fqueue' = Without(Head(mqueue))
    /\ found' = found \cup {Head(mqueue)}
    /\ mqueue' = Tail(mqueue)
    /\ got' = TRUE
    /\ UNCHANGED <<prog, loaded, active, msgLock, epc, nested, nbr, cur, at, cpc>>

\* Mutant: the lock is not taken before the broadcast.
MessagesDone_NoLock ==
    /\ epc = "messages" /\ mqueue = <<>>
    /\ epc' = "broadcast"
    /\ UNCHANGED <<prog, loaded, fqueue, mqueue, found, active, msgLock,
                   nested, got, nbr, cur, at, cpc>>

\* Taking and giving back msg_lock, so that no client is about to sleep.
MessagesDone ==
    /\ epc = "messages" /\ mqueue = <<>> /\ msgLock = None
    /\ epc' = "broadcast"
    /\ UNCHANGED <<prog, loaded, fqueue, mqueue, found, active, msgLock,
                   nested, got, nbr, cur, at, cpc>>

\* The broadcast; then the nested caller waits, or the functions are run.
Broadcast ==
    /\ epc = "broadcast"
    /\ cpc' = IF got THEN Wakened(cpc) ELSE cpc
    /\ epc' = IF nested THEN "blocked" ELSE "functions"
    /\ nbr' = IF nested THEN nbr ELSE Len(fqueue)
    /\ got' = FALSE
    /\ UNCHANGED <<prog, loaded, fqueue, mqueue, found, active, msgLock, nested, cur, at>>

FunctionsDone ==
    /\ epc = "functions" /\ fqueue = <<>>
    /\ epc' = "idle" /\ nbr' = 0
    /\ UNCHANGED <<prog, loaded, fqueue, mqueue, found, active, msgLock,
                   nested, got, cur, at, cpc>>

Dequeue ==
    /\ epc = "functions" /\ fqueue # <<>>
    /\ cur' = Head(fqueue) /\ fqueue' = Tail(fqueue)
    /\ epc' = "execute"
    /\ UNCHANGED <<prog, loaded, mqueue, found, active, msgLock, nested, got, nbr, at, cpc>>

-----------------------------------------------------------------------------
(* execute() of the function that was dequeued *)

\* The result of execute(): TRUE puts the function back, FALSE drops it.
Result(keep) == epc' = (IF keep THEN "requeue" ELSE "unload") /\ at' = 0

\* Executing needs no lock, and touches nothing but the program.
Executing ==
    UNCHANGED <<loaded, fqueue, mqueue, found, active, msgLock, nested, got, nbr, cur, cpc>>

ExecutePausing ==
    /\ epc = "execute" /\ prog[cur].pausing
    /\ Update(cur, Paused(prog[cur]))
    /\ Result(TRUE)
    /\ Executing

ExecuteNothing ==
    /\ epc = "execute" /\ ~prog[cur].pausing
    /\ \/ prog[cur].status = "paused" /\ ~prog[cur].mstep /\ Result(TRUE)
       \/ IsDone(prog[cur]) /\ Result(cur \notin Called)
    /\ UNCHANGED prog /\ Executing

\* executeUntil(), or executeStep() for a paused program.
ExecuteBegin ==
    /\ epc = "execute" /\ ~prog[cur].pausing
    /\ \/ /\ prog[cur].status = "running"
          /\ Update(cur, Begun(prog[cur])) /\ epc' = "command"
       \/ /\ prog[cur].status = "paused" /\ prog[cur].mstep
          /\ Update(cur, Begun(Stepped(prog[cur]))) /\ epc' = "single"
    /\ at' = prog[cur].node
    /\ Executing

CommandThrows ==
    /\ epc \in {"command", "single"} /\ cur \in MayThrow /\ at < Exit
    /\ Update(cur, Thrown(prog[cur]))
    /\ Result(epc = "single")
    /\ Executing

\* The command has ended and left p: executeUntil() goes on with the next
\* node, or the program is done if the node is exitv.
Ended(p) ==
    IF epc = "command" /\ KeepsGoing(p)
    THEN Update(cur, Begun(p)) /\ at' = p.node /\ UNCHANGED epc
    ELSE /\ Update(cur, IF AtExit(p) THEN Stop(p) ELSE p)
         /\ Result(epc = "single" \/ ~AtExit(p) \/ cur \notin Called)

\* The program waits in its node (or in startv, if it was reset meanwhile) ...
CommandWaits ==
    /\ epc \in {"command", "single"}
    /\ Ended(prog[cur])
    /\ Executing

\* ... or the command leads to the node after the one it began in.
CommandEnds ==
    /\ epc \in {"command", "single"} /\ at < Exit
    /\ Ended(LedTo(prog[cur], at + 1))
    /\ Executing

\* A command waits for an operation of another component:
\* waitAndProcessMessages() of this engine.
CommandCalls ==
    /\ epc = "command" /\ cur \in MayCall /\ at < Exit
    /\ epc' = "messages" /\ nested' = TRUE /\ got' = FALSE
    /\ UNCHANGED <<prog, loaded, fqueue, mqueue, found, active, msgLock, nbr, cur, at, cpc>>

\* msg_cond is signalled; the answer of the operation has come, or not.
CallAnswered ==
    /\ epc = "blocked"
    /\ epc' = "command" /\ nested' = FALSE
    /\ UNCHANGED <<prog, loaded, fqueue, mqueue, found, active, msgLock, got, nbr, cur, at, cpc>>

CallInterrupted ==
    /\ epc = "blocked" /\ mqueue # <<>>
    /\ epc' = "messages" /\ got' = FALSE
    /\ UNCHANGED <<prog, loaded, fqueue, mqueue, found, active, msgLock,
                   nested, nbr, cur, at, cpc>>

-----------------------------------------------------------------------------
(* The rest of the round of processFunctions() *)

\* if ( --nbr == 0 ) break;
NextFunction ==
    /\ nbr' = IF nbr > 0 THEN nbr - 1 ELSE -1
    /\ epc' = IF nbr = 1 THEN "idle" ELSE "functions"
    /\ cur' = None

Requeue ==
    /\ epc = "requeue"
    /\ fqueue' = Append(fqueue, cur)
    /\ NextFunction
    /\ UNCHANGED <<prog, loaded, mqueue, found, active, msgLock, nested, got, at, cpc>>

\* foo->unloaded()
Unload ==
    /\ epc = "unload"
    /\ loaded' = loaded \ {cur}
    /\ epc' = "signal"
    /\ UNCHANGED <<prog, fqueue, mqueue, found, active, msgLock, nested, got,
                   nbr, cur, at, cpc>>

\* msg_cond.broadcast(), without msg_lock.
Signal ==
    /\ epc = "signal"
    /\ cpc' = Wakened(cpc)
    /\ NextFunction
    /\ UNCHANGED <<prog, loaded, fqueue, mqueue, found, active, msgLock, nested, got, at>>

-----------------------------------------------------------------------------
(***************************************************************************)
(* The client of f                                                         *)
(***************************************************************************)

Client(f, from, to) == cpc[f] = from /\ cpc' = [cpc EXCEPT ![f] = to]

\* loadProgram() resets the program; runFunction() calls loaded(), which
\* starts a function that unloads on stop.
Load(f) ==
    /\ f \notin Resident
    /\ Client(f, "out", "enqueue")
    /\ loaded' = loaded \cup {f}
    /\ Update(f, IF f \in Called THEN Start(prog[f]) ELSE Reset(prog[f]))
    /\ UNCHANGED <<fqueue, mqueue, found, active, msgLock, engineVars>>

\* A round with nbr = 0 that yet dequeues a function has no end while that
\* function is kept: MayJoin bounds when a function is queued.
Enqueue(f) ==
    /\ Client(f, "enqueue", "in")
    /\ MayJoin \/ epc # "functions" \/ nbr # 0
    /\ fqueue' = Append(fqueue, f)
    /\ UNCHANGED <<prog, loaded, mqueue, found, active, msgLock, engineVars>>

\* The requests a user may make at any time of a program it has loaded.
Request(f) ==
    /\ cpc[f] = "in" /\ f \in Driven
    /\ \E p \in {IF Loaded(f) THEN Start(prog[f]) ELSE prog[f],
                 IF Loaded(f) THEN Pause(prog[f]) ELSE prog[f],
                 IF Loaded(f) THEN StepOnce(prog[f]) ELSE prog[f],
                 Stop(prog[f])} :
          Update(f, p)
    /\ UNCHANGED <<loaded, fqueue, mqueue, found, active, msgLock, engineVars, cpc>>

\* CallFunction returns when the function is done (fooDone): it can be seen
\* so before the engine has unloaded it.
Returned(f) ==
    /\ f \in Called /\ IsDone(prog[f])
    /\ Client(f, "in", "done")
    /\ UNCHANGED <<prog, loaded, fqueue, mqueue, found, active, msgLock, engineVars>>

\* unloadProgram(), or reset() of a CallFunction: in general after the engine
\* has unloaded the function.
MayUnload(f) ==
    \/ f \in Called /\ cpc[f] = "done" /\ (Loaded(f) => MayHurry)
    \/ f \notin Called \cup Resident /\ cpc[f] = "in"

\* removeFunction() when it need not wait for the engine: the function is
\* not loaded, or the engine is not running.
RemoveNow(f) ==
    /\ MayUnload(f)
    /\ \/ ~Loaded(f) /\ UNCHANGED fqueue /\ cpc' = [cpc EXCEPT ![f] = "out"]
       \/ /\ Loaded(f) /\ ~active /\ fqueue' = Without(f)
          /\ cpc' = [cpc EXCEPT ![f] = "found"]
    /\ UNCHANGED <<prog, loaded, mqueue, found, active, msgLock, engineVars>>

\* process(): the message is queued, then those who wait are woken up.
RemoveSend(f) ==
    /\ MayUnload(f) /\ Loaded(f) /\ active
    /\ mqueue' = Append(mqueue, f)
    /\ cpc' = Wakened([cpc EXCEPT ![f] = "wait"])
    /\ UNCHANGED <<prog, loaded, fqueue, found, active, msgLock, engineVars>>

\* Mutant: nor does it wait for an engine that was stopped meanwhile.
Gone_Stopped(f) == ~Loaded(f) \/ f \in found \/ ~active

Gone(f) == ~Loaded(f) \/ f \in found

\* waitForMessagesInternal(): tested once without the lock ...
FirstTest(f) ==
    /\ cpc[f] = "wait"
    /\ cpc' = [cpc EXCEPT ![f] = IF Gone(f) THEN "found" ELSE "lock"]
    /\ UNCHANGED <<prog, loaded, fqueue, mqueue, found, active, msgLock, engineVars>>

Lock(f) ==
    /\ Client(f, "lock", "test") /\ msgLock = None
    /\ msgLock' = f
    /\ UNCHANGED <<prog, loaded, fqueue, mqueue, found, active, engineVars>>

\* ... and again with it, which msg_cond.wait() gives up.
Test(f) ==
    /\ Client(f, "test", IF Gone(f) THEN "found" ELSE "sleep")
    /\ msgLock' = IF Gone(f) THEN None ELSE msgLock
    /\ UNCHANGED <<prog, loaded, fqueue, mqueue, found, active, engineVars>>

Sleep(f) ==
    /\ Client(f, "sleep", "asleep")
    /\ msgLock' = None
    /\ UNCHANGED <<prog, loaded, fqueue, mqueue, found, active, engineVars>>

\* f->unloaded(), then removeFunction() returns true.
Removed(f) ==
    /\ Client(f, "found", "out")
    /\ loaded' = loaded \ {f} /\ found' = found \ {f}
    /\ UNCHANGED <<prog, fqueue, mqueue, active, msgLock, engineVars>>

-----------------------------------------------------------------------------
\* Thread::stop() waits for the end of a step; start() follows later.
StopEngine ==
    /\ MayStop /\ active /\ epc = "idle"
    /\ active' = FALSE
    /\ UNCHANGED <<prog, loaded, fqueue, mqueue, found, msgLock, engineVars, cpc>>

StartEngine ==
    /\ ~active
    /\ active' = TRUE
    /\ UNCHANGED <<prog, loaded, fqueue, mqueue, found, msgLock, engineVars, cpc>>

EngineStep ==
    \/ Step \/ RemoveMsg \/ MessagesDone \/ Broadcast \/ FunctionsDone \/ Dequeue
    \/ ExecutePausing \/ ExecuteNothing \/ ExecuteBegin
    \/ CommandThrows \/ CommandWaits \/ CommandEnds
    \/ CommandCalls \/ CallAnswered \/ CallInterrupted
    \/ Requeue \/ Unload \/ Signal

ClientStep(f) ==
    \/ Enqueue(f) \/ FirstTest(f) \/ Lock(f) \/ Test(f) \/ Sleep(f) \/ Removed(f)

Next ==
    \/ EngineStep \/ StopEngine \/ StartEngine
    \/ \E f \in Functions :
          \/ ClientStep(f) \/ Load(f) \/ Request(f) \/ Returned(f)
          \/ RemoveNow(f) \/ RemoveSend(f)

-----------------------------------------------------------------------------
\* Type correctness.
TypeOK ==
    /\ prog \in [Functions -> Program]
    /\ loaded \subseteq Functions /\ found \subseteq Functions
    /\ fqueue \in Seq(Functions) /\ mqueue \in Seq(Functions)
    /\ active \in BOOLEAN /\ nested \in BOOLEAN /\ got \in BOOLEAN
    /\ msgLock \in Functions \cup {None} /\ cur \in Functions \cup {None}
    /\ nbr \in -1 .. Cardinality(Functions) /\ at \in 0 .. Exit
    /\ cpc \in [Functions -> {"out", "enqueue", "in", "done", "wait", "lock",
                              "test", "sleep", "asleep", "found"}]

Waiting(f) == cpc[f] \in {"wait", "lock", "test", "sleep", "asleep"}

\* How often the engine holds f: in its queue, or in its hand.
InEngine(f) ==
    Cardinality({i \in DOMAIN fqueue : fqueue[i] = f})
    + (IF cur = f /\ epc # "signal" THEN 1 ELSE 0)

\* A function that is loaded and not being removed is in the engine once,
\* whatever messages turned the queue while it or another one was executed.
NothingLost ==
    \A f \in loaded :
        cpc[f] \in {"in", "done"} \/ (Waiting(f) /\ f \notin found) => InEngine(f) = 1

\* The engine never executes or keeps a function that is not loaded, or whose
\* removeFunction() is about to return: its client may destroy it.
RemovedIsGone ==
    \A f \in Functions : cpc[f] \in {"out", "found"} \/ ~Loaded(f) => InEngine(f) = 0

\* A RemoveMsg lives on the stack of removeFunction(): none is queued when
\* that has returned.
NoDanglingRemove == \A i \in DOMAIN mqueue : Waiting(mqueue[i])

\* removeFunction() of a running engine returns, also when other programs
\* run, or a command of one waits for a call.
RemoveReturns == \A f \in Functions : cpc[f] = "wait" ~> cpc[f] = "out"

Spec == Init /\ [][Next]_vars

\* The threads run, and an engine that was stopped is started again.  An
\* answer comes, and users do not restart a program for ever while it is
\* executed.
FairSpec ==
    /\ Spec
    /\ WF_vars(EngineStep) /\ WF_vars(StartEngine)
    /\ SF_vars(Step) /\ SF_vars(CallAnswered)
    /\ \A f \in Functions : WF_vars(ClientStep(f))
    /\ []<>(epc \notin {"command", "single"})
==============================================================================
