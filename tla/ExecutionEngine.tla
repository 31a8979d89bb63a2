-------------------------- MODULE ExecutionEngine --------------------------
(***************************************************************************)
(* Messages between ExecutionEngines: operations sent by one thread,       *)
(* executed by the thread of the engine that owns the operation, and       *)
(* returned to the engine of the caller, as ExecutionEngine.cpp and        *)
(* LocalOperationCaller.hpp do it.                                         *)
(*                                                                         *)
(* Every engine has its own activity thread, which bears the engine's      *)
(* name.  A client is any other thread; it uses the engine Caller[c] as    *)
(* the caller of its operations (the GlobalEngine, or the engine of a      *)
(* component it drives from outside).                                      *)
(*                                                                         *)
(* One step is one access to shared state: the queue (its own steps are    *)
(* the subject of AtomicMWSRQueue), the semaphore of the activity, the    *)
(* mutex msg_lock, the condition msg_cond, the 'executed' flag.  The body  *)
(* of an operation is a leaf: it calls no other operation.                 *)
(***************************************************************************)
EXTENDS Naturals, Sequences, FiniteSets

CONSTANTS
    Engines,     \* the engines, each with its own activity thread
    Clients,     \* threads that are no engine's thread
    Caller,      \* Caller[c]: the engine a client gives its operation callers
    Msgs,        \* the clones of operation callers alive at one time
    QueueSize,   \* ORONUM_EE_MQUEUE_SIZE
    MayCall,     \* the threads that call operations
    MayFail,     \* the engines whose owner may enter FatalError
    MayStop,     \* the engines whose activity is stopped and started
    MayTimeOut,  \* those of them whose stop() may fail
    NoMsg        \* a null pointer

Threads == Engines \cup Clients

ASSUME EnginesAssumption ==
    /\ Engines \cap Clients = {}
    /\ Caller \in [Clients -> Engines]
    /\ QueueSize \in Nat \ {0}
    /\ MayCall \subseteq Threads
    /\ MayFail \subseteq Engines
    /\ MayStop \subseteq Engines
    /\ MayTimeOut \subseteq MayStop
    /\ Engines # {}
    /\ NoMsg \notin Msgs \cup Threads

VARIABLES
    mqueue,     \* mqueue[e]: the messages of engine e, oldest first
    sem,        \* sem[e]: the activity's semaphore is up, its thread has a step to do
    active,     \* the engines whose activity is active
    running,    \* the engines whose thread may enter loop() when it wakes up
    stopper,    \* stopper[e]: how far a Thread::stop() by another thread is
    fatal,      \* the engines whose owner is in FatalError
    msgLock,    \* msgLock[e]: the holder of msg_lock, or NoMsg
    pc,         \* pc[t]: where thread t is
    com,        \* com[e]: the message executeAndDispose() is called on
    got,        \* got[e]: this call of processMessages() dequeued something
    cur,        \* cur[t]: the operation thread t is sending or collecting
    dest,       \* dest[t]: the engine whose process() thread t is in
    accepted,   \* accepted[t]: the result of that process()
    target,     \* target[m]: the engine that owns the operation (myengine)
    caller,     \* caller[m]: the engine the result is returned to
    executed,   \* the messages whose RStore says executed
    self,       \* the messages that hold a reference to themselves
    handles     \* the messages referenced by do_send() or by a SendHandle

msgVars == <<target, caller, executed, self, handles>>
lifeVars == <<active, running, stopper, fatal>>
handVars == <<com, got>>
callVars == <<cur, dest, accepted>>
vars == <<mqueue, sem, lifeVars, msgLock, pc, handVars, callVars, msgVars>>

\* The shared_ptr count of a clone is not zero.
Alive == self \cup handles

Home(t) == IF t \in Engines THEN "hook" ELSE "idle"

\* The engine whose msg_cond a collecting thread waits on.
WaitEngine(t) == IF t \in Engines THEN t ELSE Caller[t]

Goto(t, l) == pc' = [pc EXCEPT ![t] = l]

Init ==
    /\ mqueue = [e \in Engines |-> <<>>]
    /\ sem = [e \in Engines |-> TRUE]           \* Thread::start() signals once
    /\ active = Engines /\ running = Engines
    /\ stopper = [e \in Engines |-> "none"]
    /\ fatal = {}
    /\ msgLock = [e \in Engines |-> NoMsg]
    /\ pc = [t \in Threads |-> IF t \in Engines THEN "semWait" ELSE "idle"]
    /\ com = [e \in Engines |-> NoMsg]
    /\ got = [e \in Engines |-> FALSE]
    /\ cur = [t \in Threads |-> NoMsg]
    /\ dest = [t \in Threads |-> WaitEngine(t)]
    /\ accepted = [t \in Threads |-> FALSE]
    /\ target = [m \in Msgs |-> CHOOSE e \in Engines : TRUE]
    /\ caller = [m \in Msgs |-> CHOOSE e \in Engines : TRUE]
    /\ executed = {}
    /\ self = {}
    /\ handles = {}

-----------------------------------------------------------------------------
(***************************************************************************)
(* The engine's thread: rtos_sem_wait(), then loop() calls step(), which   *)
(* calls processMessages() and then the owner's updateHook().              *)
(***************************************************************************)

Wake(e) ==
    /\ pc[e] = "semWait" /\ sem[e] /\ e \in running
    /\ sem' = [sem EXCEPT ![e] = FALSE]
    /\ got' = [got EXCEPT ![e] = FALSE]
    /\ Goto(e, "dequeue")
    /\ UNCHANGED <<mqueue, lifeVars, msgLock, com, callVars, msgVars>>

\* The thread consumes a signal it finds itself not allowed to act upon.
WakeInVain(e) ==
    /\ pc[e] = "semWait" /\ sem[e] /\ e \notin running
    /\ sem' = [sem EXCEPT ![e] = FALSE]
    /\ UNCHANGED <<mqueue, lifeVars, msgLock, pc, handVars, callVars,
                   msgVars>>

\* Mutant: the slot is read but not released.
Dequeue_Peek(e) ==
    /\ pc[e] = "dequeue" /\ mqueue[e] # <<>>
    /\ com' = [com EXCEPT ![e] = Head(mqueue[e])]
    /\ got' = [got EXCEPT ![e] = TRUE]
    /\ Goto(e, "execute")
    /\ UNCHANGED <<mqueue, sem, lifeVars, msgLock, callVars, msgVars>>

\* while ( mqueue->dequeue(com) )
Dequeue(e) ==
    /\ pc[e] = "dequeue" /\ mqueue[e] # <<>>
    /\ com' = [com EXCEPT ![e] = Head(mqueue[e])]
    /\ mqueue' = [mqueue EXCEPT ![e] = Tail(@)]
    /\ got' = [got EXCEPT ![e] = TRUE]
    /\ Goto(e, "execute")
    /\ UNCHANGED <<sem, lifeVars, msgLock, callVars, msgVars>>

QueueEmpty(e) ==
    /\ pc[e] = "dequeue" /\ mqueue[e] = <<>>
    /\ Goto(e, "pmLock")
    /\ UNCHANGED <<mqueue, sem, lifeVars, msgLock, handVars, callVars,
                   msgVars>>

\* Mutant: the result is returned before the RStore is marked executed.
Execute_Unmarked(e) ==
    /\ pc[e] = "execute" /\ com[e] \notin executed
    /\ dest' = [dest EXCEPT ![e] = caller[com[e]]]
    /\ Goto(e, "process")
    /\ UNCHANGED <<mqueue, sem, lifeVars, msgLock, handVars, cur, accepted,
                   msgVars>>

\* executeAndDispose() in the engine that owns the operation: execute it, then
\* return the message to the engine of the caller.
Execute(e) ==
    /\ pc[e] = "execute" /\ com[e] \notin executed
    /\ executed' = executed \cup {com[e]}
    /\ dest' = [dest EXCEPT ![e] = caller[com[e]]]
    /\ Goto(e, "process")
    /\ UNCHANGED <<mqueue, sem, lifeVars, msgLock, handVars, cur, accepted,
                   target, caller, self, handles>>

\* executeAndDispose() in the engine of the caller: the message is back.
Dispose(e) ==
    /\ pc[e] = "execute" /\ com[e] \in executed
    /\ self' = self \ {com[e]}
    /\ com' = [com EXCEPT ![e] = NoMsg]
    /\ Goto(e, "dequeue")
    /\ UNCHANGED <<mqueue, sem, lifeVars, msgLock, got, callVars, target,
                   caller, executed, handles>>

\* Mutant: disposes whatever process() returned.
ReplyDone_Always(e) ==
    /\ pc[e] = "processed" /\ com[e] # NoMsg
    /\ self' = self \ {com[e]}
    /\ com' = [com EXCEPT ![e] = NoMsg]
    /\ Goto(e, "dequeue")
    /\ UNCHANGED <<mqueue, sem, lifeVars, msgLock, got, callVars, target,
                   caller, executed, handles>>

\* process() returned to executeAndDispose(): if (!result) dispose().
ReplyDone(e) ==
    /\ pc[e] = "processed" /\ com[e] # NoMsg
    /\ self' = IF accepted[e] THEN self ELSE self \ {com[e]}
    /\ com' = [com EXCEPT ![e] = NoMsg]
    /\ Goto(e, "dequeue")
    /\ UNCHANGED <<mqueue, sem, lifeVars, msgLock, got, callVars, target,
                   caller, executed, handles>>

\* Where processMessages() returns to: step(), or waitAndProcessMessages().
AfterMessages(e) == IF cur[e] = NoMsg THEN "hook" ELSE "waitLock"

\* Mutant: the queue is emptied without passing msg_lock before the broadcast.
PassLock_NoLock(e) ==
    /\ pc[e] = "pmLock"
    /\ Goto(e, IF got[e] THEN "pmBroadcast" ELSE AfterMessages(e))
    /\ UNCHANGED <<mqueue, sem, lifeVars, msgLock, handVars, callVars,
                   msgVars>>

\* Lock and unlock msg_lock, so that no waiter is between its test of the
\* predicate and its wait.
PassLock(e) ==
    /\ pc[e] = "pmLock" /\ msgLock[e] = NoMsg
    /\ Goto(e, IF got[e] THEN "pmBroadcast" ELSE AfterMessages(e))
    /\ UNCHANGED <<mqueue, sem, lifeVars, msgLock, handVars, callVars,
                   msgVars>>

\* Every thread that sleeps on the condition of engine e has to lock again: an
\* engine's thread to leave its wait, a client to test the predicate again.
Woken(e) ==
    [t \in Threads |->
        IF pc[t] = "asleep" /\ WaitEngine(t) = e
          THEN IF t \in Engines THEN "relock" ELSE "waitLock"
          ELSE pc[t]]

BroadcastMessages(e) ==
    /\ pc[e] = "pmBroadcast"
    /\ pc' = [Woken(e) EXCEPT ![e] = AfterMessages(e)]
    /\ UNCHANGED <<mqueue, sem, lifeVars, msgLock, handVars, callVars,
                   msgVars>>

\* Mutant: a step that ends takes the semaphore down.
EndStep_Drain(e) ==
    /\ pc[e] = "hook"
    /\ sem' = [sem EXCEPT ![e] = FALSE]
    /\ Goto(e, "semWait")
    /\ UNCHANGED <<mqueue, lifeVars, msgLock, handVars, callVars, msgVars>>

\* updateHook() returns, and so does step().
EndStep(e) ==
    /\ pc[e] = "hook"
    /\ Goto(e, "semWait")
    /\ UNCHANGED <<mqueue, sem, lifeVars, msgLock, handVars, callVars,
                   msgVars>>

\* updateHook() or an operation calls fatal(), or the operation throws and so does a hook
\* of the exception() that reportError() calls: the state changes and the activity is
\* stopped from inside its own loop(), which the recursive mutex 'breaker' lets pass.
Fatal(e) ==
    /\ e \in MayFail \ fatal
    /\ pc[e] = "hook" \/ (pc[e] = "execute" /\ com[e] \notin executed)
    /\ fatal' = fatal \cup {e}
    /\ active' = active \ {e}
    /\ running' = running \ {e}
    /\ UNCHANGED <<mqueue, sem, stopper, msgLock, pc, handVars, callVars,
                   msgVars>>

-----------------------------------------------------------------------------
(***************************************************************************)
(* Thread::stop() and Thread::start() of a non periodic activity, called   *)
(* by a thread that is not its own.                                        *)
(***************************************************************************)

\* stop() clears 'running' before it waits for loop() to return.
StopBegin(e) ==
    /\ e \in MayStop \cap active /\ stopper[e] = "none"
    /\ running' = running \ {e}
    /\ stopper' = [stopper EXCEPT ![e] = "stopping"]
    /\ UNCHANGED <<mqueue, sem, active, fatal, msgLock, pc, handVars,
                   callVars, msgVars>>

\* It got 'breaker': the thread is outside loop().
StopEnd(e) ==
    /\ stopper[e] = "stopping" /\ pc[e] = "semWait"
    /\ active' = active \ {e}
    /\ stopper' = [stopper EXCEPT ![e] = "none"]
    /\ UNCHANGED <<mqueue, sem, running, fatal, msgLock, pc, handVars,
                   callVars, msgVars>>

\* breakLoop() refused or the lock timed out, while the thread was in loop() ...
StopTimeOut(e) ==
    /\ e \in MayTimeOut
    /\ stopper[e] = "stopping" /\ pc[e] # "semWait"
    /\ stopper' = [stopper EXCEPT ![e] = "failed"]
    /\ UNCHANGED <<mqueue, sem, active, running, fatal, msgLock, pc,
                   handVars, callVars, msgVars>>

\* ... and stop() undoes what it did.
StopFail(e) ==
    /\ stopper[e] = "failed"
    /\ running' = running \cup {e}
    /\ stopper' = [stopper EXCEPT ![e] = "none"]
    /\ UNCHANGED <<mqueue, sem, active, fatal, msgLock, pc, handVars,
                   callVars, msgVars>>

\* start() of an activity that is not active always signals.
StartActivity(e) ==
    /\ e \in MayStop \ active /\ stopper[e] = "none"
    /\ active' = active \cup {e}
    /\ running' = running \cup {e}
    /\ sem' = [sem EXCEPT ![e] = TRUE]
    /\ UNCHANGED <<mqueue, stopper, fatal, msgLock, pc, handVars, callVars,
                   msgVars>>

-----------------------------------------------------------------------------
(***************************************************************************)
(* process(c): enqueue, trigger the activity, broadcast msg_cond without   *)
(* holding msg_lock.                                                       *)
(***************************************************************************)

\* Only FatalError rejects a message before it reaches the queue.
Reject(t) ==
    /\ pc[t] = "process" /\ dest[t] \in fatal
    /\ accepted' = [accepted EXCEPT ![t] = FALSE]
    /\ Goto(t, "processed")
    /\ UNCHANGED <<mqueue, sem, lifeVars, msgLock, handVars, cur, dest,
                   msgVars>>

\* The message of this call: the one executed, or the one sent.
Passed(t) == IF t \in Engines /\ com[t] # NoMsg THEN com[t] ELSE cur[t]

Enqueue(t) ==
    /\ pc[t] = "process" /\ dest[t] \notin fatal
    /\ Len(mqueue[dest[t]]) < QueueSize
    /\ mqueue' = [mqueue EXCEPT ![dest[t]] = Append(@, Passed(t))]
    /\ accepted' = [accepted EXCEPT ![t] = TRUE]
    /\ Goto(t, "trigger")
    /\ UNCHANGED <<sem, lifeVars, msgLock, handVars, cur, dest, msgVars>>

\* A full queue refuses the message; process() triggers and broadcasts anyway.
EnqueueFull(t) ==
    /\ pc[t] = "process" /\ dest[t] \notin fatal
    /\ Len(mqueue[dest[t]]) = QueueSize
    /\ accepted' = [accepted EXCEPT ![t] = FALSE]
    /\ Goto(t, "trigger")
    /\ UNCHANGED <<mqueue, sem, lifeVars, msgLock, handVars, cur, dest,
                   msgVars>>

\* Activity::trigger(): nothing unless active; Thread::start() of an active thread
\* signals unless the semaphore is up.
Trigger(t) ==
    /\ pc[t] = "trigger"
    /\ sem' = IF dest[t] \in active THEN [sem EXCEPT ![dest[t]] = TRUE] ELSE sem
    /\ Goto(t, "broadcast")
    /\ UNCHANGED <<mqueue, lifeVars, msgLock, handVars, callVars, msgVars>>

Broadcast(t) ==
    /\ pc[t] = "broadcast"
    /\ pc' = [Woken(dest[t]) EXCEPT ![t] = "processed"]
    /\ UNCHANGED <<mqueue, sem, lifeVars, msgLock, handVars, callVars,
                   msgVars>>

-----------------------------------------------------------------------------
(***************************************************************************)
(* send() and collect() of LocalOperationCallerImpl.                       *)
(***************************************************************************)

\* cloneRT(), and do_send() enters the process() of the owner's engine.
Send(t) ==
    /\ pc[t] = Home(t) /\ t \in MayCall \ fatal
    /\ \E m \in Msgs \ Alive, e \in Engines :
         /\ cur' = [cur EXCEPT ![t] = m]
         /\ target' = [target EXCEPT ![m] = e]
         /\ caller' = [caller EXCEPT ![m] = WaitEngine(t)]
         /\ executed' = executed \ {m}
         /\ handles' = handles \cup {m}
         /\ dest' = [dest EXCEPT ![t] = e]
    /\ Goto(t, "process")
    /\ UNCHANGED <<mqueue, sem, lifeVars, msgLock, handVars, accepted, self>>

\* process() returned to do_send(), not to executeAndDispose().
InDoSend(t) == pc[t] = "processed" /\ (t \in Engines => com[t] = NoMsg)

\* The last copy of the SendHandle, or the clone in do_send(), goes out of scope.
DropHandle(t) ==
    /\ handles' = handles \ {cur[t]}
    /\ cur' = [cur EXCEPT ![t] = NoMsg]
    /\ Goto(t, Home(t))

\* cl->self = cl only now, when the message has been in the queue for a while.
SendAccepted(t) ==
    /\ InDoSend(t) /\ accepted[t]
    /\ self' = self \cup {cur[t]}
    /\ Goto(t, "sent")
    /\ UNCHANGED <<mqueue, sem, lifeVars, msgLock, handVars, callVars,
                   target, caller, executed, handles>>

\* The empty SendHandle: SendFailure.
SendRefused(t) ==
    /\ InDoSend(t) /\ ~accepted[t]
    /\ DropHandle(t)
    /\ UNCHANGED <<mqueue, sem, lifeVars, msgLock, handVars, dest, accepted,
                   target, caller, executed, self>>

\* send() without collect().
Forget(t) ==
    /\ pc[t] = "sent"
    /\ DropHandle(t)
    /\ UNCHANGED <<mqueue, sem, lifeVars, msgLock, handVars, dest, accepted,
                   target, caller, executed, self>>

Collect(t) ==
    /\ pc[t] = "sent"
    /\ Goto(t, "test")
    /\ UNCHANGED <<mqueue, sem, lifeVars, msgLock, handVars, callVars,
                   msgVars>>

\* The predicate holds, without or with the lock: collect() returns.
Collected(t) ==
    /\ \/ pc[t] = "test"
       \/ pc[t] = "waitLock" /\ msgLock[WaitEngine(t)] = NoMsg
    /\ cur[t] \in executed
    /\ DropHandle(t)
    /\ UNCHANGED <<mqueue, sem, lifeVars, msgLock, handVars, dest, accepted,
                   target, caller, executed, self>>

\* It does not hold.  waitAndProcessMessages(): the engine's own thread processes
\* messages before it takes the lock ...
ProcessMessages(e) ==
    /\ pc[e] = "test" /\ cur[e] \notin executed
    /\ got' = [got EXCEPT ![e] = FALSE]
    /\ Goto(e, "dequeue")
    /\ UNCHANGED <<mqueue, sem, lifeVars, msgLock, com, callVars, msgVars>>

\* ... and waitForMessagesInternal(): another thread takes it at once.
WaitForMessages(c) ==
    /\ pc[c] = "test" /\ cur[c] \notin executed
    /\ Goto(c, "waitLock")
    /\ UNCHANGED <<mqueue, sem, lifeVars, msgLock, handVars, callVars,
                   msgVars>>

\* Take msg_lock, test again, and keep the lock to wait.
WaitLock(t) ==
    /\ pc[t] = "waitLock" /\ msgLock[WaitEngine(t)] = NoMsg
    /\ cur[t] \notin executed
    /\ msgLock' = [msgLock EXCEPT ![WaitEngine(t)] = t]
    /\ Goto(t, "wait")
    /\ UNCHANGED <<mqueue, sem, lifeVars, handVars, callVars, msgVars>>

\* msg_cond.wait(msg_lock): release the lock and sleep.
Wait(t) ==
    /\ pc[t] = "wait"
    /\ msgLock' = [msgLock EXCEPT ![WaitEngine(t)] = NoMsg]
    /\ Goto(t, "asleep")
    /\ UNCHANGED <<mqueue, sem, lifeVars, handVars, callVars, msgVars>>

\* An engine's thread leaves the wait: it locks, unlocks and tests again.
Relock(t) ==
    /\ pc[t] = "relock" /\ msgLock[WaitEngine(t)] = NoMsg
    /\ Goto(t, "test")
    /\ UNCHANGED <<mqueue, sem, lifeVars, msgLock, handVars, callVars,
                   msgVars>>

-----------------------------------------------------------------------------
EngineStep(e) ==
    \/ Wake(e) \/ WakeInVain(e) \/ Dequeue(e) \/ QueueEmpty(e) \/ Execute(e)
    \/ Dispose(e) \/ ReplyDone(e) \/ PassLock(e) \/ BroadcastMessages(e)
    \/ EndStep(e) \/ ProcessMessages(e)

CallStep(t) ==
    \/ Reject(t) \/ Enqueue(t) \/ EnqueueFull(t) \/ Trigger(t) \/ Broadcast(t)
    \/ SendAccepted(t) \/ SendRefused(t) \/ Forget(t) \/ Collect(t)
    \/ Collected(t) \/ WaitLock(t) \/ Wait(t) \/ Relock(t)

StopStep(e) == StopBegin(e) \/ StopEnd(e) \/ StopTimeOut(e) \/ StopFail(e)

Next ==
    \/ \E e \in Engines : \/ EngineStep(e) \/ Fatal(e)
                         \/ StopStep(e) \/ StartActivity(e)
    \/ \E t \in Threads : CallStep(t) \/ Send(t)
    \/ \E c \in Clients : WaitForMessages(c)

Spec == Init /\ [][Next]_vars

\* The operating system runs every thread that is not blocked; nothing obliges
\* a thread to send, nor a component to fail.
Fairness ==
    /\ \A e \in Engines : WF_vars(EngineStep(e))
    /\ \A e \in Engines : WF_vars(StopEnd(e) \/ StopFail(e))
    /\ \A t \in Threads : WF_vars(CallStep(t))
    /\ \A c \in Clients : WF_vars(WaitForMessages(c))

FairSpec == Spec /\ Fairness

-----------------------------------------------------------------------------
(***************************************************************************)
(* Properties.                                                             *)
(***************************************************************************)

Places == {"semWait", "dequeue", "execute", "pmLock", "pmBroadcast", "hook",
           "idle", "process", "trigger", "broadcast", "processed", "sent",
           "test", "waitLock", "wait", "asleep", "relock"}

\* Every variable keeps its type; the queue never outgrows its capacity
\* (ExecutionEngine.cpp's mqueue of ORONUM_EE_MQUEUE_SIZE messages).
TypeOK ==
    /\ mqueue \in [Engines -> Seq(Msgs)]
    /\ \A e \in Engines : Len(mqueue[e]) <= QueueSize
    /\ sem \in [Engines -> BOOLEAN]
    /\ active \subseteq Engines
    /\ running \subseteq Engines
    /\ stopper \in [Engines -> {"none", "stopping", "failed"}]
    /\ fatal \subseteq Engines
    /\ msgLock \in [Engines -> Threads \cup {NoMsg}]
    /\ pc \in [Threads -> Places]
    /\ com \in [Engines -> Msgs \cup {NoMsg}]
    /\ got \in [Engines -> BOOLEAN]
    /\ cur \in [Threads -> Msgs \cup {NoMsg}]
    /\ dest \in [Threads -> Engines]
    /\ accepted \in [Threads -> BOOLEAN]
    /\ target \in [Msgs -> Engines]
    /\ caller \in [Msgs -> Engines]
    /\ executed \subseteq Msgs
    /\ self \subseteq Msgs
    /\ handles \subseteq Msgs

\* The message engine e holds outside its queue and may still dereference.
InHand(e) ==
    IF pc[e] \in {"execute", "process"} THEN {com[e]} \ {NoMsg} ELSE {}

Queued(e) == {mqueue[e][i] : i \in 1..Len(mqueue[e])}

\* No engine holds a pointer to a clone that has been destroyed: a message in
\* a queue, or being executed, has a reference left, its own (self) or the one
\* of do_send()/SendHandle, although do_send() sets self only after the message
\* is in the queue and the sender may drop its handle at any moment.
NoDanglingMessage ==
    \A e \in Engines : Queued(e) \cup InHand(e) \subseteq Alive

\* ExecutionThread OwnThread: an operation is executed by the thread of the
\* engine that owns it, once, and what travels after that is the return to the
\* engine of the caller; executeAndDispose() tells the two apart by 'executed'.
OwnThread ==
    \A e \in Engines : \A m \in Queued(e) \cup InHand(e) :
        pc[e] # "process" \/ m \notin InHand(e) =>
            e = IF m \in executed THEN caller[m] ELSE target[m]

\* A message is in one place: no queue holds it twice, no two queues hold it,
\* no engine works on a message that a queue holds.
OnePlace ==
    /\ \A e, f \in Engines : e # f =>
          (Queued(e) \cup InHand(e)) \cap (Queued(f) \cup InHand(f)) = {}
    /\ \A e \in Engines : /\ Cardinality(Queued(e)) = Len(mqueue[e])
                          /\ InHand(e) \cap Queued(e) = {}

\* Between two dequeues of one call of processMessages().
EmptyingQueue(e) == pc[e] \in {"dequeue", "execute"} \/ com[e] # NoMsg

\* A thread that has enqueued for engine e and has not triggered yet.
TriggerComing(e) == \E t \in Threads : pc[t] = "trigger" /\ dest[t] = e

\* A message in the queue is never forgotten by a thread that has left
\* processMessages(), in its hook, asleep in a collect() or in rtos_sem_wait():
\* unless its activity is being stopped (the next start() signals),
\* the semaphore is up, or the process() that enqueued is about to trigger.
\* A stop() that gives up half way takes signals away: those are left out.
NoForgottenMessage ==
    \A e \in Engines \ MayTimeOut :
        e \in running /\ mqueue[e] # <<>> =>
            EmptyingQueue(e) \/ sem[e] \/ TriggerComing(e)

\* A client that collects an operation gets its answer: collect() returns.
\* waitForMessages() of a thread that is not the engine's relies on the caller's
\* engine passing msg_lock between executing the return and the broadcast.
ClientCollects ==
    \A c \in Clients : pc[c] = "test" ~> pc[c] = "idle"
=============================================================================
