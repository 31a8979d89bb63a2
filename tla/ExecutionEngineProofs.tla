----------------------- MODULE ExecutionEngineProofs -----------------------
(***************************************************************************)
(* Proofs about module ExecutionEngine, for any number of engines, client  *)
(* threads and messages and any capacity of the queues.                    *)
(***************************************************************************)
EXTENDS ExecutionEngine, FiniteSetTheorems, TLAPS

\* Where a thread is while it is inside process().
InProcess == {"process", "trigger", "broadcast", "processed"}

\* The locals of processMessages() and of do_send(): 'com' points to a message
\* from its dequeue until it is disposed of or returned, and a process() that
\* is not the return of 'com' sends 'cur'.
Locals ==
    /\ \A e \in Engines : com[e] # NoMsg => pc[e] \in InProcess \cup {"execute"}
    /\ \A e \in Engines : pc[e] = "execute" => com[e] # NoMsg
    /\ \A t \in Threads :
          pc[t] \in InProcess /\ (t \in Engines => com[t] = NoMsg) => cur[t] # NoMsg

Types == TypeOK /\ Locals

\* How 'running', 'active' and the stage of a stop() that never fails hang together.
StopOrder ==
    /\ running \ MayTimeOut \subseteq active
    /\ \A e \in Engines \ MayTimeOut : stopper[e] # "failed"
    /\ \A e \in running \ MayTimeOut : stopper[e] = "none"

\* What makes NoForgottenMessage inductive: a thread that may enter its loop is
\* active, and no stop() gives 'running' back after signals were lost.
Signals ==
    /\ StopOrder
    /\ NoForgottenMessage

USE EnginesAssumption DEF Threads

\* ExecutionEngine's constructor and the activity's first start() leave every
\* queue empty and no thread inside a call.
LEMMA InitTypes == Init => Types /\ Signals
  <1> SUFFICES ASSUME Init PROVE Types /\ Signals
    OBVIOUS
  <1>1. TypeOK
    <2>1. \A t \in Threads : WaitEngine(t) \in Engines
      BY DEF WaitEngine
    <2>2. (CHOOSE e \in Engines : TRUE) \in Engines
      OBVIOUS
    <2>3. Len(<<>>) = 0 /\ <<>> \in Seq(Msgs)
      OBVIOUS
    <2>4. pc \in [Threads -> Places]
      BY DEF Init, Places
    <2>5. dest \in [Threads -> Engines]
      BY <2>1 DEF Init
    <2>6. target \in [Msgs -> Engines] /\ caller \in [Msgs -> Engines]
      BY <2>2 DEF Init
    <2> QED
      BY <2>3, <2>4, <2>5, <2>6 DEF Init, TypeOK
  <1>2. Locals
    BY DEF Init, Locals, InProcess
  <1>3. Signals
    BY DEF Init, Signals, StopOrder, NoForgottenMessage
  <1> QED
    BY <1>1, <1>2, <1>3 DEF Types

\* Waking the sleepers of an engine moves threads between known places only.
LEMMA WokenType ==
    ASSUME TypeOK, NEW e \in Engines
    PROVE  /\ Woken(e) \in [Threads -> Places]
           /\ \A t \in Threads : \/ Woken(e)[t] = pc[t]
                                 \/ pc[t] = "asleep" /\ Woken(e)[t] \in {"relock", "waitLock"}
  <1> USE DEF Threads
  <1>1. ASSUME NEW t \in Threads
        PROVE  \/ Woken(e)[t] = pc[t]
               \/ pc[t] = "asleep" /\ Woken(e)[t] \in {"relock", "waitLock"}
    BY DEF Woken
  <1>2. \A t \in Threads : Woken(e)[t] \in Places
    BY <1>1 DEF TypeOK, Places
  <1> QED
    BY <1>1, <1>2 DEF Woken

\* Every action keeps the types and the rules for the locals.
LEMMA StepTypes == Types /\ [Next]_vars => Types'
  <1> SUFFICES ASSUME Types, [Next]_vars PROVE Types'
    OBVIOUS
  <1> USE DEF Types
  <1>1. ASSUME NEW e \in Engines, Wake(e) PROVE Types'
    <2>1. TypeOK'
      BY <1>1 DEF Wake, Goto, msgVars, lifeVars, handVars, callVars, TypeOK, Locals, Places, InProcess
    <2>2. Locals'
      BY <1>1 DEF Wake, Goto, msgVars, lifeVars, handVars, callVars, TypeOK, Locals, Places, InProcess
    <2> QED
      BY <2>1, <2>2
  <1>2. ASSUME NEW e \in Engines, WakeInVain(e) PROVE Types'
    <2>1. TypeOK'
      BY <1>2 DEF WakeInVain, Goto, msgVars, lifeVars, handVars, callVars, TypeOK, Locals, Places, InProcess
    <2>2. Locals'
      BY <1>2 DEF WakeInVain, Goto, msgVars, lifeVars, handVars, callVars, TypeOK, Locals, Places, InProcess
    <2> QED
      BY <2>1, <2>2
  <1>3. ASSUME NEW e \in Engines, Dequeue(e) PROVE Types'
    <2>1. mqueue[e] \in Seq(Msgs) /\ mqueue[e] # <<>> /\ Len(mqueue[e]) <= QueueSize
      BY <1>3 DEF Dequeue, TypeOK
    <2>2. /\ Head(mqueue[e]) \in Msgs /\ Tail(mqueue[e]) \in Seq(Msgs)
          /\ Len(Tail(mqueue[e])) <= QueueSize
      BY <2>1
    <2>3. Head(mqueue[e]) # NoMsg
      BY <2>2
    <2>4. /\ com' = [com EXCEPT ![e] = Head(mqueue[e])]
          /\ pc[e] = "dequeue" /\ pc' = [pc EXCEPT ![e] = "execute"] /\ cur' = cur
      BY <1>3 DEF Dequeue, Goto, callVars
    <2>5. com'[e] # NoMsg /\ pc'[e] = "execute"
      BY <2>3, <2>4 DEF TypeOK
    <2>6. TypeOK'
      BY <1>3, <2>1, <2>2, <2>3 DEF Dequeue, Goto, msgVars, lifeVars, handVars, callVars, TypeOK, Locals, Places, InProcess
    <2>7. Locals'
      BY <2>4, <2>5 DEF TypeOK, Locals, InProcess
    <2> QED
      BY <2>6, <2>7
  <1>4. ASSUME NEW e \in Engines, QueueEmpty(e) PROVE Types'
    <2>1. TypeOK'
      BY <1>4 DEF QueueEmpty, Goto, msgVars, lifeVars, handVars, callVars, TypeOK, Locals, Places, InProcess
    <2>2. Locals'
      BY <1>4 DEF QueueEmpty, Goto, msgVars, lifeVars, handVars, callVars, TypeOK, Locals, Places, InProcess
    <2> QED
      BY <2>1, <2>2
  <1>5. ASSUME NEW e \in Engines, Execute(e) PROVE Types'
    <2>1. com[e] \in Msgs
      BY <1>5 DEF Execute, TypeOK, Locals
    <2>2. TypeOK'
      BY <1>5, <2>1 DEF Execute, Goto, msgVars, lifeVars, handVars, callVars, TypeOK, Locals, Places, InProcess
    <2>3. Locals'
      BY <1>5, <2>1 DEF Execute, Goto, msgVars, lifeVars, handVars, callVars, TypeOK, Locals, Places, InProcess
    <2> QED
      BY <2>2, <2>3
  <1>6. ASSUME NEW e \in Engines, Dispose(e) PROVE Types'
    <2>1. TypeOK'
      BY <1>6 DEF Dispose, Goto, msgVars, lifeVars, handVars, callVars, TypeOK, Locals, Places, InProcess
    <2>2. Locals'
      BY <1>6 DEF Dispose, Goto, msgVars, lifeVars, handVars, callVars, TypeOK, Locals, Places, InProcess
    <2> QED
      BY <2>1, <2>2
  <1>7. ASSUME NEW e \in Engines, ReplyDone(e) PROVE Types'
    <2>1. TypeOK'
      BY <1>7 DEF ReplyDone, Goto, msgVars, lifeVars, handVars, callVars, TypeOK, Locals, Places, InProcess
    <2>2. Locals'
      BY <1>7 DEF ReplyDone, Goto, msgVars, lifeVars, handVars, callVars, TypeOK, Locals, Places, InProcess
    <2> QED
      BY <2>1, <2>2
  <1>8. ASSUME NEW e \in Engines, PassLock(e) PROVE Types'
    <2>1. TypeOK'
      BY <1>8 DEF PassLock, AfterMessages, Goto, msgVars, lifeVars, handVars, callVars, TypeOK, Locals, Places, InProcess
    <2>2. Locals'
      BY <1>8 DEF PassLock, AfterMessages, Goto, msgVars, lifeVars, handVars, callVars, TypeOK, Locals, Places, InProcess
    <2> QED
      BY <2>1, <2>2
  <1>9. ASSUME NEW e \in Engines, BroadcastMessages(e) PROVE Types'
    <2>1. e \in Engines
      BY DEF TypeOK
    <2>2. /\ Woken(e) \in [Threads -> Places]
          /\ \A u \in Threads :
                \/ Woken(e)[u] = pc[u]
                \/ pc[u] = "asleep" /\ Woken(e)[u] \in {"relock", "waitLock"}
      BY <2>1, WokenType
    <2>3. TypeOK'
      BY <1>9, <2>1, <2>2 DEF BroadcastMessages, AfterMessages, Goto, msgVars, lifeVars, handVars, callVars, TypeOK, Locals, Places, InProcess
    <2>4. Locals'
      BY <1>9, <2>1, <2>2 DEF BroadcastMessages, AfterMessages, Goto, msgVars, lifeVars, handVars, callVars, TypeOK, Locals, Places, InProcess
    <2> QED
      BY <2>3, <2>4
  <1>10. ASSUME NEW e \in Engines, EndStep(e) PROVE Types'
    <2>1. TypeOK'
      BY <1>10 DEF EndStep, Goto, msgVars, lifeVars, handVars, callVars, TypeOK, Locals, Places, InProcess
    <2>2. Locals'
      BY <1>10 DEF EndStep, Goto, msgVars, lifeVars, handVars, callVars, TypeOK, Locals, Places, InProcess
    <2> QED
      BY <2>1, <2>2
  <1>11. ASSUME NEW e \in Engines, Fatal(e) PROVE Types'
    <2>1. TypeOK'
      BY <1>11 DEF Fatal, Goto, msgVars, lifeVars, handVars, callVars, TypeOK, Locals, Places, InProcess
    <2>2. Locals'
      BY <1>11 DEF Fatal, Goto, msgVars, lifeVars, handVars, callVars, TypeOK, Locals, Places, InProcess
    <2> QED
      BY <2>1, <2>2
  <1>12. ASSUME NEW e \in Engines, ProcessMessages(e) PROVE Types'
    <2>1. TypeOK'
      BY <1>12 DEF ProcessMessages, Goto, msgVars, lifeVars, handVars, callVars, TypeOK, Locals, Places, InProcess
    <2>2. Locals'
      BY <1>12 DEF ProcessMessages, Goto, msgVars, lifeVars, handVars, callVars, TypeOK, Locals, Places, InProcess
    <2> QED
      BY <2>1, <2>2
  <1>13. ASSUME NEW e \in Engines, StopBegin(e) PROVE Types'
    <2>1. TypeOK'
      BY <1>13 DEF StopBegin, Goto, msgVars, lifeVars, handVars, callVars, TypeOK, Locals, Places, InProcess
    <2>2. Locals'
      BY <1>13 DEF StopBegin, Goto, msgVars, lifeVars, handVars, callVars, TypeOK, Locals, Places, InProcess
    <2> QED
      BY <2>1, <2>2
  <1>14. ASSUME NEW e \in Engines, StopEnd(e) PROVE Types'
    <2>1. TypeOK'
      BY <1>14 DEF StopEnd, Goto, msgVars, lifeVars, handVars, callVars, TypeOK, Locals, Places, InProcess
    <2>2. Locals'
      BY <1>14 DEF StopEnd, Goto, msgVars, lifeVars, handVars, callVars, TypeOK, Locals, Places, InProcess
    <2> QED
      BY <2>1, <2>2
  <1>15. ASSUME NEW e \in Engines, StopTimeOut(e) PROVE Types'
    <2>1. TypeOK'
      BY <1>15 DEF StopTimeOut, Goto, msgVars, lifeVars, handVars, callVars, TypeOK, Locals, Places, InProcess
    <2>2. Locals'
      BY <1>15 DEF StopTimeOut, Goto, msgVars, lifeVars, handVars, callVars, TypeOK, Locals, Places, InProcess
    <2> QED
      BY <2>1, <2>2
  <1>16. ASSUME NEW e \in Engines, StopFail(e) PROVE Types'
    <2>1. TypeOK'
      BY <1>16 DEF StopFail, Goto, msgVars, lifeVars, handVars, callVars, TypeOK, Locals, Places, InProcess
    <2>2. Locals'
      BY <1>16 DEF StopFail, Goto, msgVars, lifeVars, handVars, callVars, TypeOK, Locals, Places, InProcess
    <2> QED
      BY <2>1, <2>2
  <1>17. ASSUME NEW e \in Engines, StartActivity(e) PROVE Types'
    <2>1. TypeOK'
      BY <1>17 DEF StartActivity, Goto, msgVars, lifeVars, handVars, callVars, TypeOK, Locals, Places, InProcess
    <2>2. Locals'
      BY <1>17 DEF StartActivity, Goto, msgVars, lifeVars, handVars, callVars, TypeOK, Locals, Places, InProcess
    <2> QED
      BY <2>1, <2>2
  <1>18. ASSUME NEW t \in Threads, Reject(t) PROVE Types'
    <2>1. TypeOK'
      BY <1>18 DEF Reject, Goto, msgVars, lifeVars, handVars, callVars, TypeOK, Locals, Places, InProcess
    <2>2. Locals'
      BY <1>18 DEF Reject, Goto, msgVars, lifeVars, handVars, callVars, TypeOK, Locals, Places, InProcess
    <2> QED
      BY <2>1, <2>2
  <1>19. ASSUME NEW t \in Threads, Enqueue(t) PROVE Types'
    <2>1. Passed(t) \in Msgs /\ dest[t] \in Engines
      BY <1>19 DEF Enqueue, Passed, TypeOK, Locals, InProcess
    <2>2. LET q == Append(mqueue[dest[t]], Passed(t))
          IN  q \in Seq(Msgs) /\ Len(q) <= QueueSize
      BY <2>1, <1>19 DEF Enqueue, TypeOK
    <2>3. TypeOK'
      BY <1>19, <2>1, <2>2 DEF Enqueue, Goto, msgVars, lifeVars, handVars, callVars, TypeOK, Locals, Places, InProcess
    <2>4. Locals'
      BY <1>19, <2>1, <2>2 DEF Enqueue, Goto, msgVars, lifeVars, handVars, callVars, TypeOK, Locals, Places, InProcess
    <2> QED
      BY <2>3, <2>4
  <1>20. ASSUME NEW t \in Threads, EnqueueFull(t) PROVE Types'
    <2>1. TypeOK'
      BY <1>20 DEF EnqueueFull, Goto, msgVars, lifeVars, handVars, callVars, TypeOK, Locals, Places, InProcess
    <2>2. Locals'
      BY <1>20 DEF EnqueueFull, Goto, msgVars, lifeVars, handVars, callVars, TypeOK, Locals, Places, InProcess
    <2> QED
      BY <2>1, <2>2
  <1>21. ASSUME NEW t \in Threads, Trigger(t) PROVE Types'
    <2>1. TypeOK'
      BY <1>21 DEF Trigger, Goto, msgVars, lifeVars, handVars, callVars, TypeOK, Locals, Places, InProcess
    <2>2. Locals'
      BY <1>21 DEF Trigger, Goto, msgVars, lifeVars, handVars, callVars, TypeOK, Locals, Places, InProcess
    <2> QED
      BY <2>1, <2>2
  <1>22. ASSUME NEW t \in Threads, Broadcast(t) PROVE Types'
    <2>1. dest[t] \in Engines
      BY DEF TypeOK
    <2>2. /\ Woken(dest[t]) \in [Threads -> Places]
          /\ \A u \in Threads :
                \/ Woken(dest[t])[u] = pc[u]
                \/ pc[u] = "asleep" /\ Woken(dest[t])[u] \in {"relock", "waitLock"}
      BY <2>1, WokenType
    <2>3. TypeOK'
      BY <1>22, <2>1, <2>2 DEF Broadcast, Goto, msgVars, lifeVars, handVars, callVars, TypeOK, Locals, Places, InProcess
    <2>4. Locals'
      BY <1>22, <2>1, <2>2 DEF Broadcast, Goto, msgVars, lifeVars, handVars, callVars, TypeOK, Locals, Places, InProcess
    <2> QED
      BY <2>3, <2>4
  <1>23. ASSUME NEW t \in Threads, SendAccepted(t) PROVE Types'
    <2>1. cur[t] \in Msgs
      BY <1>23 DEF SendAccepted, InDoSend, TypeOK, Locals, InProcess
    <2>2. /\ pc[t] = "processed" /\ pc' = [pc EXCEPT ![t] = "sent"]
          /\ (t \in Engines => com[t] = NoMsg)
          /\ self' = self \cup {cur[t]}
          /\ UNCHANGED <<mqueue, sem, lifeVars, msgLock, handVars, callVars, target,
                         caller, executed, handles>>
      BY <1>23 DEF SendAccepted, InDoSend, Goto
    <2>3. TypeOK'
      BY <2>1, <2>2 DEF InDoSend, Goto, msgVars, lifeVars, handVars, callVars, TypeOK, Locals, Places, InProcess
    <2>4. Locals'
      BY <2>1, <2>2 DEF InDoSend, Goto, msgVars, lifeVars, handVars, callVars, TypeOK, Locals, Places, InProcess
    <2> QED
      BY <2>3, <2>4
  <1>24. ASSUME NEW t \in Threads, SendRefused(t) PROVE Types'
    <2>1. TypeOK'
      BY <1>24 DEF SendRefused, InDoSend, Home, DropHandle, Goto, msgVars, lifeVars, handVars, callVars, TypeOK, Locals, Places, InProcess
    <2>2. Locals'
      BY <1>24 DEF SendRefused, InDoSend, Home, DropHandle, Goto, msgVars, lifeVars, handVars, callVars, TypeOK, Locals, Places, InProcess
    <2> QED
      BY <2>1, <2>2
  <1>25. ASSUME NEW t \in Threads, Forget(t) PROVE Types'
    <2>1. TypeOK'
      BY <1>25 DEF Forget, Home, DropHandle, Goto, msgVars, lifeVars, handVars, callVars, TypeOK, Locals, Places, InProcess
    <2>2. Locals'
      BY <1>25 DEF Forget, Home, DropHandle, Goto, msgVars, lifeVars, handVars, callVars, TypeOK, Locals, Places, InProcess
    <2> QED
      BY <2>1, <2>2
  <1>26. ASSUME NEW t \in Threads, Collect(t) PROVE Types'
    <2>1. TypeOK'
      BY <1>26 DEF Collect, Goto, msgVars, lifeVars, handVars, callVars, TypeOK, Locals, Places, InProcess
    <2>2. Locals'
      BY <1>26 DEF Collect, Goto, msgVars, lifeVars, handVars, callVars, TypeOK, Locals, Places, InProcess
    <2> QED
      BY <2>1, <2>2
  <1>27. ASSUME NEW t \in Threads, Collected(t) PROVE Types'
    <2>1. TypeOK'
      BY <1>27 DEF Collected, Home, DropHandle, WaitEngine, Goto, msgVars, lifeVars, handVars, callVars, TypeOK, Locals, Places, InProcess
    <2>2. Locals'
      BY <1>27 DEF Collected, Home, DropHandle, WaitEngine, Goto, msgVars, lifeVars, handVars, callVars, TypeOK, Locals, Places, InProcess
    <2> QED
      BY <2>1, <2>2
  <1>28. ASSUME NEW t \in Threads, WaitLock(t) PROVE Types'
    <2>1. TypeOK'
      BY <1>28 DEF WaitLock, WaitEngine, Goto, msgVars, lifeVars, handVars, callVars, TypeOK, Locals, Places, InProcess
    <2>2. Locals'
      BY <1>28 DEF WaitLock, WaitEngine, Goto, msgVars, lifeVars, handVars, callVars, TypeOK, Locals, Places, InProcess
    <2> QED
      BY <2>1, <2>2
  <1>29. ASSUME NEW t \in Threads, Wait(t) PROVE Types'
    <2>1. TypeOK'
      BY <1>29 DEF Wait, WaitEngine, Goto, msgVars, lifeVars, handVars, callVars, TypeOK, Locals, Places, InProcess
    <2>2. Locals'
      BY <1>29 DEF Wait, WaitEngine, Goto, msgVars, lifeVars, handVars, callVars, TypeOK, Locals, Places, InProcess
    <2> QED
      BY <2>1, <2>2
  <1>30. ASSUME NEW t \in Threads, Relock(t) PROVE Types'
    <2>1. TypeOK'
      BY <1>30 DEF Relock, WaitEngine, Goto, msgVars, lifeVars, handVars, callVars, TypeOK, Locals, Places, InProcess
    <2>2. Locals'
      BY <1>30 DEF Relock, WaitEngine, Goto, msgVars, lifeVars, handVars, callVars, TypeOK, Locals, Places, InProcess
    <2> QED
      BY <2>1, <2>2
  <1>31. ASSUME NEW c \in Clients, WaitForMessages(c) PROVE Types'
    <2>1. TypeOK'
      BY <1>31 DEF WaitForMessages, Goto, msgVars, lifeVars, handVars, callVars, TypeOK, Locals, Places, InProcess
    <2>2. Locals'
      BY <1>31 DEF WaitForMessages, Goto, msgVars, lifeVars, handVars, callVars, TypeOK, Locals, Places, InProcess
    <2> QED
      BY <2>1, <2>2
  <1>32. ASSUME NEW t \in Threads, Send(t) PROVE Types'
    <2>1. PICK m \in Msgs \ Alive, e \in Engines :
            /\ cur' = [cur EXCEPT ![t] = m]
            /\ target' = [target EXCEPT ![m] = e]
            /\ caller' = [caller EXCEPT ![m] = WaitEngine(t)]
            /\ executed' = executed \ {m}
            /\ handles' = handles \cup {m}
            /\ dest' = [dest EXCEPT ![t] = e]
      BY <1>32 DEF Send
    <2>2. /\ pc[t] = Home(t)
          /\ pc' = [pc EXCEPT ![t] = "process"]
          /\ UNCHANGED <<mqueue, sem, lifeVars, msgLock, handVars, accepted, self>>
      BY <1>32 DEF Send, Goto
    <2>3. WaitEngine(t) \in Engines
      BY DEF WaitEngine
    <2>4. TypeOK'
      BY <2>1, <2>2, <2>3 DEF Home, Goto, msgVars, lifeVars, handVars, callVars, TypeOK, Locals, Places, InProcess
    <2>5. Locals'
      BY <2>1, <2>2, <2>3 DEF Home, Goto, msgVars, lifeVars, handVars, callVars, TypeOK, Locals, Places, InProcess
    <2> QED
      BY <2>4, <2>5
  <1>33. CASE UNCHANGED vars
    BY <1>33 DEF vars, msgVars, lifeVars, handVars, callVars, TypeOK, Locals
  <1> QED
    BY <1>1, <1>2, <1>3, <1>4, <1>5, <1>6, <1>7, <1>8, <1>9, <1>10, <1>11, <1>12, <1>13, <1>14, <1>15, <1>16, <1>17, <1>18, <1>19, <1>20, <1>21, <1>22, <1>23, <1>24, <1>25, <1>26, <1>27, <1>28, <1>29, <1>30, <1>31, <1>32, <1>33 DEF Next, EngineStep, CallStep, StopStep

\* Every action keeps the rule that a queued message has somebody who will look
\* for it, where no stop() fails half way.
LEMMA StepSignals ==
    Types /\ Signals /\ [Next]_vars => Signals'
  <1> SUFFICES ASSUME Types, Signals, [Next]_vars PROVE Signals'
    OBVIOUS
  <1> USE DEF Types, Signals, StopOrder
  <1>1. ASSUME NEW e \in Engines, Wake(e) PROVE Signals'
    <2>1. StopOrder'
      BY <1>1 DEF Wake, Goto, msgVars, lifeVars, handVars, callVars, TypeOK
    <2>2. NoForgottenMessage'
      <3> SUFFICES ASSUME NEW f \in Engines \ MayTimeOut, f \in running', mqueue'[f] # <<>>
                   PROVE  EmptyingQueue(f)' \/ sem'[f] \/ TriggerComing(f)'
        BY DEF NoForgottenMessage
      <3>1. CASE TriggerComing(f)
        <4>1. PICK u \in Threads : pc[u] = "trigger" /\ dest[u] = f
          BY <3>1 DEF TriggerComing
        <4> QED
          BY <4>1, <1>1 DEF Wake, Goto, msgVars, lifeVars, handVars, callVars, TypeOK, Locals, InProcess, EmptyingQueue, TriggerComing
      <3>2. CASE EmptyingQueue(f)
        BY <3>2, <1>1 DEF Wake, Goto, msgVars, lifeVars, handVars, callVars, TypeOK, Locals, InProcess, EmptyingQueue, TriggerComing
      <3>3. CASE sem[f]
        BY <3>3, <1>1 DEF Wake, Goto, msgVars, lifeVars, handVars, callVars, TypeOK, Locals, InProcess, EmptyingQueue, TriggerComing
      <3>4. CASE mqueue[f] = <<>> \/ f \notin running
        BY <3>4, <1>1 DEF Wake, Goto, msgVars, lifeVars, handVars, callVars, TypeOK, Locals, InProcess, EmptyingQueue, TriggerComing
      <3> QED
        BY <3>1, <3>2, <3>3, <3>4 DEF NoForgottenMessage
    <2> QED
      BY <2>1, <2>2
  <1>2. ASSUME NEW e \in Engines, WakeInVain(e) PROVE Signals'
    <2>1. StopOrder'
      BY <1>2 DEF WakeInVain, Goto, msgVars, lifeVars, handVars, callVars, TypeOK
    <2>2. NoForgottenMessage'
      <3> SUFFICES ASSUME NEW f \in Engines \ MayTimeOut, f \in running', mqueue'[f] # <<>>
                   PROVE  EmptyingQueue(f)' \/ sem'[f] \/ TriggerComing(f)'
        BY DEF NoForgottenMessage
      <3>1. CASE TriggerComing(f)
        <4>1. PICK u \in Threads : pc[u] = "trigger" /\ dest[u] = f
          BY <3>1 DEF TriggerComing
        <4> QED
          BY <4>1, <1>2 DEF WakeInVain, Goto, msgVars, lifeVars, handVars, callVars, TypeOK, Locals, InProcess, EmptyingQueue, TriggerComing
      <3>2. CASE EmptyingQueue(f)
        BY <3>2, <1>2 DEF WakeInVain, Goto, msgVars, lifeVars, handVars, callVars, TypeOK, Locals, InProcess, EmptyingQueue, TriggerComing
      <3>3. CASE sem[f]
        BY <3>3, <1>2 DEF WakeInVain, Goto, msgVars, lifeVars, handVars, callVars, TypeOK, Locals, InProcess, EmptyingQueue, TriggerComing
      <3>4. CASE mqueue[f] = <<>> \/ f \notin running
        BY <3>4, <1>2 DEF WakeInVain, Goto, msgVars, lifeVars, handVars, callVars, TypeOK, Locals, InProcess, EmptyingQueue, TriggerComing
      <3> QED
        BY <3>1, <3>2, <3>3, <3>4 DEF NoForgottenMessage
    <2> QED
      BY <2>1, <2>2
  <1>3. ASSUME NEW e \in Engines, Dequeue(e) PROVE Signals'
    <2>1. mqueue[e] \in Seq(Msgs) /\ mqueue[e] # <<>> /\ Len(mqueue[e]) <= QueueSize
      BY <1>3 DEF Dequeue, TypeOK
    <2>2. /\ Head(mqueue[e]) \in Msgs /\ Tail(mqueue[e]) \in Seq(Msgs)
          /\ Len(Tail(mqueue[e])) <= QueueSize
      BY <2>1
    <2>3. Head(mqueue[e]) # NoMsg
      BY <2>2
    <2>4. StopOrder'
      BY <1>3, <2>1, <2>2, <2>3 DEF Dequeue, Goto, msgVars, lifeVars, handVars, callVars, TypeOK
    <2>5. NoForgottenMessage'
      <3> SUFFICES ASSUME NEW f \in Engines \ MayTimeOut, f \in running', mqueue'[f] # <<>>
                   PROVE  EmptyingQueue(f)' \/ sem'[f] \/ TriggerComing(f)'
        BY DEF NoForgottenMessage
      <3>1. CASE TriggerComing(f)
        <4>1. PICK u \in Threads : pc[u] = "trigger" /\ dest[u] = f
          BY <3>1 DEF TriggerComing
        <4> QED
          BY <4>1, <1>3, <2>1, <2>2, <2>3 DEF Dequeue, Goto, msgVars, lifeVars, handVars, callVars, TypeOK, Locals, InProcess, EmptyingQueue, TriggerComing
      <3>2. CASE EmptyingQueue(f)
        BY <3>2, <1>3, <2>1, <2>2, <2>3 DEF Dequeue, Goto, msgVars, lifeVars, handVars, callVars, TypeOK, Locals, InProcess, EmptyingQueue, TriggerComing
      <3>3. CASE sem[f]
        BY <3>3, <1>3, <2>1, <2>2, <2>3 DEF Dequeue, Goto, msgVars, lifeVars, handVars, callVars, TypeOK, Locals, InProcess, EmptyingQueue, TriggerComing
      <3>4. CASE mqueue[f] = <<>> \/ f \notin running
        BY <3>4, <1>3, <2>1, <2>2, <2>3 DEF Dequeue, Goto, msgVars, lifeVars, handVars, callVars, TypeOK, Locals, InProcess, EmptyingQueue, TriggerComing
      <3> QED
        BY <3>1, <3>2, <3>3, <3>4 DEF NoForgottenMessage
    <2> QED
      BY <2>4, <2>5
  <1>4. ASSUME NEW e \in Engines, QueueEmpty(e) PROVE Signals'
    <2>1. StopOrder'
      BY <1>4 DEF QueueEmpty, Goto, msgVars, lifeVars, handVars, callVars, TypeOK
    <2>2. NoForgottenMessage'
      BY <1>4 DEF QueueEmpty, Goto, msgVars, lifeVars, handVars, callVars, TypeOK, Locals, InProcess, EmptyingQueue, TriggerComing, NoForgottenMessage
    <2> QED
      BY <2>1, <2>2
  <1>5. ASSUME NEW e \in Engines, Execute(e) PROVE Signals'
    <2>1. com[e] \in Msgs
      BY <1>5 DEF Execute, TypeOK, Locals
    <2>2. StopOrder'
      BY <1>5, <2>1 DEF Execute, Goto, msgVars, lifeVars, handVars, callVars, TypeOK
    <2>3. NoForgottenMessage'
      BY <1>5, <2>1 DEF Execute, Goto, msgVars, lifeVars, handVars, callVars, TypeOK, Locals, InProcess, EmptyingQueue, TriggerComing, NoForgottenMessage
    <2> QED
      BY <2>2, <2>3
  <1>6. ASSUME NEW e \in Engines, Dispose(e) PROVE Signals'
    <2>1. StopOrder'
      BY <1>6 DEF Dispose, Goto, msgVars, lifeVars, handVars, callVars, TypeOK
    <2>2. NoForgottenMessage'
      BY <1>6 DEF Dispose, Goto, msgVars, lifeVars, handVars, callVars, TypeOK, Locals, InProcess, EmptyingQueue, TriggerComing, NoForgottenMessage
    <2> QED
      BY <2>1, <2>2
  <1>7. ASSUME NEW e \in Engines, ReplyDone(e) PROVE Signals'
    <2>1. StopOrder'
      BY <1>7 DEF ReplyDone, Goto, msgVars, lifeVars, handVars, callVars, TypeOK
    <2>2. NoForgottenMessage'
      BY <1>7 DEF ReplyDone, Goto, msgVars, lifeVars, handVars, callVars, TypeOK, Locals, InProcess, EmptyingQueue, TriggerComing, NoForgottenMessage
    <2> QED
      BY <2>1, <2>2
  <1>8. ASSUME NEW e \in Engines, PassLock(e) PROVE Signals'
    <2>1. StopOrder'
      BY <1>8 DEF PassLock, AfterMessages, Goto, msgVars, lifeVars, handVars, callVars, TypeOK
    <2>2. NoForgottenMessage'
      BY <1>8 DEF PassLock, AfterMessages, Goto, msgVars, lifeVars, handVars, callVars, TypeOK, Locals, InProcess, EmptyingQueue, TriggerComing, NoForgottenMessage
    <2> QED
      BY <2>1, <2>2
  <1>9. ASSUME NEW e \in Engines, BroadcastMessages(e) PROVE Signals'
    <2>1. e \in Engines
      BY DEF TypeOK
    <2>2. /\ Woken(e) \in [Threads -> Places]
          /\ \A u \in Threads :
                \/ Woken(e)[u] = pc[u]
                \/ pc[u] = "asleep" /\ Woken(e)[u] \in {"relock", "waitLock"}
      BY <2>1, WokenType
    <2>3. StopOrder'
      BY <1>9, <2>1, <2>2 DEF BroadcastMessages, AfterMessages, Goto, msgVars, lifeVars, handVars, callVars, TypeOK
    <2>4. NoForgottenMessage'
      <3> SUFFICES ASSUME NEW f \in Engines \ MayTimeOut, f \in running', mqueue'[f] # <<>>
                   PROVE  EmptyingQueue(f)' \/ sem'[f] \/ TriggerComing(f)'
        BY DEF NoForgottenMessage
      <3>1. CASE TriggerComing(f)
        <4>1. PICK u \in Threads : pc[u] = "trigger" /\ dest[u] = f
          BY <3>1 DEF TriggerComing
        <4> QED
          BY <4>1, <1>9, <2>1, <2>2 DEF BroadcastMessages, AfterMessages, Goto, msgVars, lifeVars, handVars, callVars, TypeOK, Locals, InProcess, EmptyingQueue, TriggerComing
      <3>2. CASE EmptyingQueue(f)
        BY <3>2, <1>9, <2>1, <2>2 DEF BroadcastMessages, AfterMessages, Goto, msgVars, lifeVars, handVars, callVars, TypeOK, Locals, InProcess, EmptyingQueue, TriggerComing
      <3>3. CASE sem[f]
        BY <3>3, <1>9, <2>1, <2>2 DEF BroadcastMessages, AfterMessages, Goto, msgVars, lifeVars, handVars, callVars, TypeOK, Locals, InProcess, EmptyingQueue, TriggerComing
      <3>4. CASE mqueue[f] = <<>> \/ f \notin running
        BY <3>4, <1>9, <2>1, <2>2 DEF BroadcastMessages, AfterMessages, Goto, msgVars, lifeVars, handVars, callVars, TypeOK, Locals, InProcess, EmptyingQueue, TriggerComing
      <3> QED
        BY <3>1, <3>2, <3>3, <3>4 DEF NoForgottenMessage
    <2> QED
      BY <2>3, <2>4
  <1>10. ASSUME NEW e \in Engines, EndStep(e) PROVE Signals'
    <2>1. StopOrder'
      BY <1>10 DEF EndStep, Goto, msgVars, lifeVars, handVars, callVars, TypeOK
    <2>2. NoForgottenMessage'
      BY <1>10 DEF EndStep, Goto, msgVars, lifeVars, handVars, callVars, TypeOK, Locals, InProcess, EmptyingQueue, TriggerComing, NoForgottenMessage
    <2> QED
      BY <2>1, <2>2
  <1>11. ASSUME NEW e \in Engines, Fatal(e) PROVE Signals'
    <2>1. StopOrder'
      BY <1>11 DEF Fatal, Goto, msgVars, lifeVars, handVars, callVars, TypeOK
    <2>2. NoForgottenMessage'
      <3> SUFFICES ASSUME NEW f \in Engines \ MayTimeOut, f \in running', mqueue'[f] # <<>>
                   PROVE  EmptyingQueue(f)' \/ sem'[f] \/ TriggerComing(f)'
        BY DEF NoForgottenMessage
      <3>1. CASE TriggerComing(f)
        <4>1. PICK u \in Threads : pc[u] = "trigger" /\ dest[u] = f
          BY <3>1 DEF TriggerComing
        <4> QED
          BY <4>1, <1>11 DEF Fatal, Goto, msgVars, lifeVars, handVars, callVars, TypeOK, Locals, InProcess, EmptyingQueue, TriggerComing
      <3>2. CASE EmptyingQueue(f)
        BY <3>2, <1>11 DEF Fatal, Goto, msgVars, lifeVars, handVars, callVars, TypeOK, Locals, InProcess, EmptyingQueue, TriggerComing
      <3>3. CASE sem[f]
        BY <3>3, <1>11 DEF Fatal, Goto, msgVars, lifeVars, handVars, callVars, TypeOK, Locals, InProcess, EmptyingQueue, TriggerComing
      <3>4. CASE mqueue[f] = <<>> \/ f \notin running
        BY <3>4, <1>11 DEF Fatal, Goto, msgVars, lifeVars, handVars, callVars, TypeOK, Locals, InProcess, EmptyingQueue, TriggerComing
      <3> QED
        BY <3>1, <3>2, <3>3, <3>4 DEF NoForgottenMessage
    <2> QED
      BY <2>1, <2>2
  <1>12. ASSUME NEW e \in Engines, ProcessMessages(e) PROVE Signals'
    <2>1. StopOrder'
      BY <1>12 DEF ProcessMessages, Goto, msgVars, lifeVars, handVars, callVars, TypeOK
    <2>2. NoForgottenMessage'
      BY <1>12 DEF ProcessMessages, Goto, msgVars, lifeVars, handVars, callVars, TypeOK, Locals, InProcess, EmptyingQueue, TriggerComing, NoForgottenMessage
    <2> QED
      BY <2>1, <2>2
  <1>13. ASSUME NEW e \in Engines, StopBegin(e) PROVE Signals'
    <2>1. StopOrder'
      BY <1>13 DEF StopBegin, Goto, msgVars, lifeVars, handVars, callVars, TypeOK
    <2>2. NoForgottenMessage'
      <3> SUFFICES ASSUME NEW f \in Engines \ MayTimeOut, f \in running', mqueue'[f] # <<>>
                   PROVE  EmptyingQueue(f)' \/ sem'[f] \/ TriggerComing(f)'
        BY DEF NoForgottenMessage
      <3>1. CASE TriggerComing(f)
        <4>1. PICK u \in Threads : pc[u] = "trigger" /\ dest[u] = f
          BY <3>1 DEF TriggerComing
        <4> QED
          BY <4>1, <1>13 DEF StopBegin, Goto, msgVars, lifeVars, handVars, callVars, TypeOK, Locals, InProcess, EmptyingQueue, TriggerComing
      <3>2. CASE EmptyingQueue(f)
        BY <3>2, <1>13 DEF StopBegin, Goto, msgVars, lifeVars, handVars, callVars, TypeOK, Locals, InProcess, EmptyingQueue, TriggerComing
      <3>3. CASE sem[f]
        BY <3>3, <1>13 DEF StopBegin, Goto, msgVars, lifeVars, handVars, callVars, TypeOK, Locals, InProcess, EmptyingQueue, TriggerComing
      <3>4. CASE mqueue[f] = <<>> \/ f \notin running
        BY <3>4, <1>13 DEF StopBegin, Goto, msgVars, lifeVars, handVars, callVars, TypeOK, Locals, InProcess, EmptyingQueue, TriggerComing
      <3> QED
        BY <3>1, <3>2, <3>3, <3>4 DEF NoForgottenMessage
    <2> QED
      BY <2>1, <2>2
  <1>14. ASSUME NEW e \in Engines, StopEnd(e) PROVE Signals'
    <2>1. StopOrder'
      BY <1>14 DEF StopEnd, Goto, msgVars, lifeVars, handVars, callVars, TypeOK
    <2>2. NoForgottenMessage'
      BY <1>14 DEF StopEnd, Goto, msgVars, lifeVars, handVars, callVars, TypeOK, Locals, InProcess, EmptyingQueue, TriggerComing, NoForgottenMessage
    <2> QED
      BY <2>1, <2>2
  <1>15. ASSUME NEW e \in Engines, StopTimeOut(e) PROVE Signals'
    <2>1. StopOrder'
      BY <1>15 DEF StopTimeOut, Goto, msgVars, lifeVars, handVars, callVars, TypeOK
    <2>2. NoForgottenMessage'
      BY <1>15 DEF StopTimeOut, Goto, msgVars, lifeVars, handVars, callVars, TypeOK, Locals, InProcess, EmptyingQueue, TriggerComing, NoForgottenMessage
    <2> QED
      BY <2>1, <2>2
  <1>16. ASSUME NEW e \in Engines, StopFail(e) PROVE Signals'
    <2>1. StopOrder'
      BY <1>16 DEF StopFail, Goto, msgVars, lifeVars, handVars, callVars, TypeOK
    <2>2. NoForgottenMessage'
      <3> SUFFICES ASSUME NEW f \in Engines \ MayTimeOut, f \in running', mqueue'[f] # <<>>
                   PROVE  EmptyingQueue(f)' \/ sem'[f] \/ TriggerComing(f)'
        BY DEF NoForgottenMessage
      <3>1. CASE TriggerComing(f)
        <4>1. PICK u \in Threads : pc[u] = "trigger" /\ dest[u] = f
          BY <3>1 DEF TriggerComing
        <4> QED
          BY <4>1, <1>16 DEF StopFail, Goto, msgVars, lifeVars, handVars, callVars, TypeOK, Locals, InProcess, EmptyingQueue, TriggerComing
      <3>2. CASE EmptyingQueue(f)
        BY <3>2, <1>16 DEF StopFail, Goto, msgVars, lifeVars, handVars, callVars, TypeOK, Locals, InProcess, EmptyingQueue, TriggerComing
      <3>3. CASE sem[f]
        BY <3>3, <1>16 DEF StopFail, Goto, msgVars, lifeVars, handVars, callVars, TypeOK, Locals, InProcess, EmptyingQueue, TriggerComing
      <3>4. CASE mqueue[f] = <<>> \/ f \notin running
        BY <3>4, <1>16 DEF StopFail, Goto, msgVars, lifeVars, handVars, callVars, TypeOK, Locals, InProcess, EmptyingQueue, TriggerComing
      <3> QED
        BY <3>1, <3>2, <3>3, <3>4 DEF NoForgottenMessage
    <2> QED
      BY <2>1, <2>2
  <1>17. ASSUME NEW e \in Engines, StartActivity(e) PROVE Signals'
    <2>1. StopOrder'
      BY <1>17 DEF StartActivity, Goto, msgVars, lifeVars, handVars, callVars, TypeOK
    <2>2. NoForgottenMessage'
      <3> SUFFICES ASSUME NEW f \in Engines \ MayTimeOut, f \in running', mqueue'[f] # <<>>
                   PROVE  EmptyingQueue(f)' \/ sem'[f] \/ TriggerComing(f)'
        BY DEF NoForgottenMessage
      <3>1. CASE TriggerComing(f)
        <4>1. PICK u \in Threads : pc[u] = "trigger" /\ dest[u] = f
          BY <3>1 DEF TriggerComing
        <4> QED
          BY <4>1, <1>17 DEF StartActivity, Goto, msgVars, lifeVars, handVars, callVars, TypeOK, Locals, InProcess, EmptyingQueue, TriggerComing
      <3>2. CASE EmptyingQueue(f)
        BY <3>2, <1>17 DEF StartActivity, Goto, msgVars, lifeVars, handVars, callVars, TypeOK, Locals, InProcess, EmptyingQueue, TriggerComing
      <3>3. CASE sem[f]
        BY <3>3, <1>17 DEF StartActivity, Goto, msgVars, lifeVars, handVars, callVars, TypeOK, Locals, InProcess, EmptyingQueue, TriggerComing
      <3>4. CASE mqueue[f] = <<>> \/ f \notin running
        BY <3>4, <1>17 DEF StartActivity, Goto, msgVars, lifeVars, handVars, callVars, TypeOK, Locals, InProcess, EmptyingQueue, TriggerComing
      <3> QED
        BY <3>1, <3>2, <3>3, <3>4 DEF NoForgottenMessage
    <2> QED
      BY <2>1, <2>2
  <1>18. ASSUME NEW t \in Threads, Reject(t) PROVE Signals'
    <2>1. StopOrder'
      BY <1>18 DEF Reject, Goto, msgVars, lifeVars, handVars, callVars, TypeOK
    <2>2. NoForgottenMessage'
      BY <1>18 DEF Reject, Goto, msgVars, lifeVars, handVars, callVars, TypeOK, Locals, InProcess, EmptyingQueue, TriggerComing, NoForgottenMessage
    <2> QED
      BY <2>1, <2>2
  <1>19. ASSUME NEW t \in Threads, Enqueue(t) PROVE Signals'
    <2>1. Passed(t) \in Msgs /\ dest[t] \in Engines
      BY <1>19 DEF Enqueue, Passed, TypeOK, Locals, InProcess
    <2>2. LET q == Append(mqueue[dest[t]], Passed(t))
          IN  q \in Seq(Msgs) /\ Len(q) <= QueueSize
      BY <2>1, <1>19 DEF Enqueue, TypeOK
    <2>3. StopOrder'
      BY <1>19, <2>1, <2>2 DEF Enqueue, Goto, msgVars, lifeVars, handVars, callVars, TypeOK
    <2>4. NoForgottenMessage'
      <3> SUFFICES ASSUME NEW f \in Engines \ MayTimeOut, f \in running', mqueue'[f] # <<>>
                   PROVE  EmptyingQueue(f)' \/ sem'[f] \/ TriggerComing(f)'
        BY DEF NoForgottenMessage
      <3>1. CASE TriggerComing(f)
        <4>1. PICK u \in Threads : pc[u] = "trigger" /\ dest[u] = f
          BY <3>1 DEF TriggerComing
        <4> QED
          BY <4>1, <1>19, <2>1, <2>2 DEF Enqueue, Goto, msgVars, lifeVars, handVars, callVars, TypeOK, Locals, InProcess, EmptyingQueue, TriggerComing
      <3>2. CASE EmptyingQueue(f)
        BY <3>2, <1>19, <2>1, <2>2 DEF Enqueue, Goto, msgVars, lifeVars, handVars, callVars, TypeOK, Locals, InProcess, EmptyingQueue, TriggerComing
      <3>3. CASE sem[f]
        BY <3>3, <1>19, <2>1, <2>2 DEF Enqueue, Goto, msgVars, lifeVars, handVars, callVars, TypeOK, Locals, InProcess, EmptyingQueue, TriggerComing
      <3>4. CASE mqueue[f] = <<>> \/ f \notin running
        BY <3>4, <1>19, <2>1, <2>2 DEF Enqueue, Goto, msgVars, lifeVars, handVars, callVars, TypeOK, Locals, InProcess, EmptyingQueue, TriggerComing
      <3> QED
        BY <3>1, <3>2, <3>3, <3>4 DEF NoForgottenMessage
    <2> QED
      BY <2>3, <2>4
  <1>20. ASSUME NEW t \in Threads, EnqueueFull(t) PROVE Signals'
    <2>1. StopOrder'
      BY <1>20 DEF EnqueueFull, Goto, msgVars, lifeVars, handVars, callVars, TypeOK
    <2>2. NoForgottenMessage'
      BY <1>20 DEF EnqueueFull, Goto, msgVars, lifeVars, handVars, callVars, TypeOK, Locals, InProcess, EmptyingQueue, TriggerComing, NoForgottenMessage
    <2> QED
      BY <2>1, <2>2
  <1>21. ASSUME NEW t \in Threads, Trigger(t) PROVE Signals'
    <2>1. StopOrder'
      BY <1>21 DEF Trigger, Goto, msgVars, lifeVars, handVars, callVars, TypeOK
    <2>2. NoForgottenMessage'
      <3> SUFFICES ASSUME NEW f \in Engines \ MayTimeOut, f \in running', mqueue'[f] # <<>>
                   PROVE  EmptyingQueue(f)' \/ sem'[f] \/ TriggerComing(f)'
        BY DEF NoForgottenMessage
      <3>1. CASE TriggerComing(f)
        <4>1. PICK u \in Threads : pc[u] = "trigger" /\ dest[u] = f
          BY <3>1 DEF TriggerComing
        <4> QED
          BY <4>1, <1>21 DEF Trigger, Goto, msgVars, lifeVars, handVars, callVars, TypeOK, Locals, InProcess, EmptyingQueue, TriggerComing
      <3>2. CASE EmptyingQueue(f)
        BY <3>2, <1>21 DEF Trigger, Goto, msgVars, lifeVars, handVars, callVars, TypeOK, Locals, InProcess, EmptyingQueue, TriggerComing
      <3>3. CASE sem[f]
        BY <3>3, <1>21 DEF Trigger, Goto, msgVars, lifeVars, handVars, callVars, TypeOK, Locals, InProcess, EmptyingQueue, TriggerComing
      <3>4. CASE mqueue[f] = <<>> \/ f \notin running
        BY <3>4, <1>21 DEF Trigger, Goto, msgVars, lifeVars, handVars, callVars, TypeOK, Locals, InProcess, EmptyingQueue, TriggerComing
      <3> QED
        BY <3>1, <3>2, <3>3, <3>4 DEF NoForgottenMessage
    <2> QED
      BY <2>1, <2>2
  <1>22. ASSUME NEW t \in Threads, Broadcast(t) PROVE Signals'
    <2>1. dest[t] \in Engines
      BY DEF TypeOK
    <2>2. /\ Woken(dest[t]) \in [Threads -> Places]
          /\ \A u \in Threads :
                \/ Woken(dest[t])[u] = pc[u]
                \/ pc[u] = "asleep" /\ Woken(dest[t])[u] \in {"relock", "waitLock"}
      BY <2>1, WokenType
    <2>3. StopOrder'
      BY <1>22, <2>1, <2>2 DEF Broadcast, Goto, msgVars, lifeVars, handVars, callVars, TypeOK
    <2>4. NoForgottenMessage'
      <3> SUFFICES ASSUME NEW f \in Engines \ MayTimeOut, f \in running', mqueue'[f] # <<>>
                   PROVE  EmptyingQueue(f)' \/ sem'[f] \/ TriggerComing(f)'
        BY DEF NoForgottenMessage
      <3>1. CASE TriggerComing(f)
        <4>1. PICK u \in Threads : pc[u] = "trigger" /\ dest[u] = f
          BY <3>1 DEF TriggerComing
        <4> QED
          BY <4>1, <1>22, <2>1, <2>2 DEF Broadcast, Goto, msgVars, lifeVars, handVars, callVars, TypeOK, Locals, InProcess, EmptyingQueue, TriggerComing
      <3>2. CASE EmptyingQueue(f)
        BY <3>2, <1>22, <2>1, <2>2 DEF Broadcast, Goto, msgVars, lifeVars, handVars, callVars, TypeOK, Locals, InProcess, EmptyingQueue, TriggerComing
      <3>3. CASE sem[f]
        BY <3>3, <1>22, <2>1, <2>2 DEF Broadcast, Goto, msgVars, lifeVars, handVars, callVars, TypeOK, Locals, InProcess, EmptyingQueue, TriggerComing
      <3>4. CASE mqueue[f] = <<>> \/ f \notin running
        BY <3>4, <1>22, <2>1, <2>2 DEF Broadcast, Goto, msgVars, lifeVars, handVars, callVars, TypeOK, Locals, InProcess, EmptyingQueue, TriggerComing
      <3> QED
        BY <3>1, <3>2, <3>3, <3>4 DEF NoForgottenMessage
    <2> QED
      BY <2>3, <2>4
  <1>23. ASSUME NEW t \in Threads, SendAccepted(t) PROVE Signals'
    <2>1. cur[t] \in Msgs
      BY <1>23 DEF SendAccepted, InDoSend, TypeOK, Locals, InProcess
    <2>2. /\ pc[t] = "processed" /\ pc' = [pc EXCEPT ![t] = "sent"]
          /\ (t \in Engines => com[t] = NoMsg)
          /\ self' = self \cup {cur[t]}
          /\ UNCHANGED <<mqueue, sem, lifeVars, msgLock, handVars, callVars, target,
                         caller, executed, handles>>
      BY <1>23 DEF SendAccepted, InDoSend, Goto
    <2>3. StopOrder'
      BY <2>1, <2>2 DEF InDoSend, Goto, msgVars, lifeVars, handVars, callVars, TypeOK
    <2>4. NoForgottenMessage'
      BY <2>1, <2>2 DEF InDoSend, Goto, msgVars, lifeVars, handVars, callVars, TypeOK, Locals, InProcess, EmptyingQueue, TriggerComing, NoForgottenMessage
    <2> QED
      BY <2>3, <2>4
  <1>24. ASSUME NEW t \in Threads, SendRefused(t) PROVE Signals'
    <2>1. StopOrder'
      BY <1>24 DEF SendRefused, InDoSend, Home, DropHandle, Goto, msgVars, lifeVars, handVars, callVars, TypeOK
    <2>2. NoForgottenMessage'
      BY <1>24 DEF SendRefused, InDoSend, Home, DropHandle, Goto, msgVars, lifeVars, handVars, callVars, TypeOK, Locals, InProcess, EmptyingQueue, TriggerComing, NoForgottenMessage
    <2> QED
      BY <2>1, <2>2
  <1>25. ASSUME NEW t \in Threads, Forget(t) PROVE Signals'
    <2>1. StopOrder'
      BY <1>25 DEF Forget, Home, DropHandle, Goto, msgVars, lifeVars, handVars, callVars, TypeOK
    <2>2. NoForgottenMessage'
      BY <1>25 DEF Forget, Home, DropHandle, Goto, msgVars, lifeVars, handVars, callVars, TypeOK, Locals, InProcess, EmptyingQueue, TriggerComing, NoForgottenMessage
    <2> QED
      BY <2>1, <2>2
  <1>26. ASSUME NEW t \in Threads, Collect(t) PROVE Signals'
    <2>1. StopOrder'
      BY <1>26 DEF Collect, Goto, msgVars, lifeVars, handVars, callVars, TypeOK
    <2>2. NoForgottenMessage'
      BY <1>26 DEF Collect, Goto, msgVars, lifeVars, handVars, callVars, TypeOK, Locals, InProcess, EmptyingQueue, TriggerComing, NoForgottenMessage
    <2> QED
      BY <2>1, <2>2
  <1>27. ASSUME NEW t \in Threads, Collected(t) PROVE Signals'
    <2>1. StopOrder'
      BY <1>27 DEF Collected, Home, DropHandle, WaitEngine, Goto, msgVars, lifeVars, handVars, callVars, TypeOK
    <2>2. NoForgottenMessage'
      BY <1>27 DEF Collected, Home, DropHandle, WaitEngine, Goto, msgVars, lifeVars, handVars, callVars, TypeOK, Locals, InProcess, EmptyingQueue, TriggerComing, NoForgottenMessage
    <2> QED
      BY <2>1, <2>2
  <1>28. ASSUME NEW t \in Threads, WaitLock(t) PROVE Signals'
    <2>1. StopOrder'
      BY <1>28 DEF WaitLock, WaitEngine, Goto, msgVars, lifeVars, handVars, callVars, TypeOK
    <2>2. NoForgottenMessage'
      BY <1>28 DEF WaitLock, WaitEngine, Goto, msgVars, lifeVars, handVars, callVars, TypeOK, Locals, InProcess, EmptyingQueue, TriggerComing, NoForgottenMessage
    <2> QED
      BY <2>1, <2>2
  <1>29. ASSUME NEW t \in Threads, Wait(t) PROVE Signals'
    <2>1. StopOrder'
      BY <1>29 DEF Wait, WaitEngine, Goto, msgVars, lifeVars, handVars, callVars, TypeOK
    <2>2. NoForgottenMessage'
      BY <1>29 DEF Wait, WaitEngine, Goto, msgVars, lifeVars, handVars, callVars, TypeOK, Locals, InProcess, EmptyingQueue, TriggerComing, NoForgottenMessage
    <2> QED
      BY <2>1, <2>2
  <1>30. ASSUME NEW t \in Threads, Relock(t) PROVE Signals'
    <2>1. StopOrder'
      BY <1>30 DEF Relock, WaitEngine, Goto, msgVars, lifeVars, handVars, callVars, TypeOK
    <2>2. NoForgottenMessage'
      BY <1>30 DEF Relock, WaitEngine, Goto, msgVars, lifeVars, handVars, callVars, TypeOK, Locals, InProcess, EmptyingQueue, TriggerComing, NoForgottenMessage
    <2> QED
      BY <2>1, <2>2
  <1>31. ASSUME NEW c \in Clients, WaitForMessages(c) PROVE Signals'
    <2>1. StopOrder'
      BY <1>31 DEF WaitForMessages, Goto, msgVars, lifeVars, handVars, callVars, TypeOK
    <2>2. NoForgottenMessage'
      BY <1>31 DEF WaitForMessages, Goto, msgVars, lifeVars, handVars, callVars, TypeOK, Locals, InProcess, EmptyingQueue, TriggerComing, NoForgottenMessage
    <2> QED
      BY <2>1, <2>2
  <1>32. ASSUME NEW t \in Threads, Send(t) PROVE Signals'
    <2>1. PICK m \in Msgs \ Alive, e \in Engines :
            /\ cur' = [cur EXCEPT ![t] = m]
            /\ target' = [target EXCEPT ![m] = e]
            /\ caller' = [caller EXCEPT ![m] = WaitEngine(t)]
            /\ executed' = executed \ {m}
            /\ handles' = handles \cup {m}
            /\ dest' = [dest EXCEPT ![t] = e]
      BY <1>32 DEF Send
    <2>2. /\ pc[t] = Home(t)
          /\ pc' = [pc EXCEPT ![t] = "process"]
          /\ UNCHANGED <<mqueue, sem, lifeVars, msgLock, handVars, accepted, self>>
      BY <1>32 DEF Send, Goto
    <2>3. WaitEngine(t) \in Engines
      BY DEF WaitEngine
    <2>4. StopOrder'
      BY <2>1, <2>2, <2>3 DEF Home, Goto, msgVars, lifeVars, handVars, callVars, TypeOK
    <2>5. NoForgottenMessage'
      <3> SUFFICES ASSUME NEW f \in Engines \ MayTimeOut, f \in running', mqueue'[f] # <<>>
                   PROVE  EmptyingQueue(f)' \/ sem'[f] \/ TriggerComing(f)'
        BY DEF NoForgottenMessage
      <3>1. CASE TriggerComing(f)
        <4>1. PICK u \in Threads : pc[u] = "trigger" /\ dest[u] = f
          BY <3>1 DEF TriggerComing
        <4> QED
          BY <4>1, <2>1, <2>2, <2>3 DEF Home, Goto, msgVars, lifeVars, handVars, callVars, TypeOK, Locals, InProcess, EmptyingQueue, TriggerComing
      <3>2. CASE EmptyingQueue(f)
        BY <3>2, <2>1, <2>2, <2>3 DEF Home, Goto, msgVars, lifeVars, handVars, callVars, TypeOK, Locals, InProcess, EmptyingQueue, TriggerComing
      <3>3. CASE sem[f]
        BY <3>3, <2>1, <2>2, <2>3 DEF Home, Goto, msgVars, lifeVars, handVars, callVars, TypeOK, Locals, InProcess, EmptyingQueue, TriggerComing
      <3>4. CASE mqueue[f] = <<>> \/ f \notin running
        BY <3>4, <2>1, <2>2, <2>3 DEF Home, Goto, msgVars, lifeVars, handVars, callVars, TypeOK, Locals, InProcess, EmptyingQueue, TriggerComing
      <3> QED
        BY <3>1, <3>2, <3>3, <3>4 DEF NoForgottenMessage
    <2> QED
      BY <2>4, <2>5
  <1>33. CASE UNCHANGED vars
    BY <1>33 DEF vars, msgVars, lifeVars, handVars, callVars, NoForgottenMessage, EmptyingQueue, TriggerComing
  <1> QED
    BY <1>1, <1>2, <1>3, <1>4, <1>5, <1>6, <1>7, <1>8, <1>9, <1>10, <1>11, <1>12, <1>13, <1>14, <1>15, <1>16, <1>17, <1>18, <1>19, <1>20, <1>21, <1>22, <1>23, <1>24, <1>25, <1>26, <1>27, <1>28, <1>29, <1>30, <1>31, <1>32, <1>33 DEF Next, EngineStep, CallStep, StopStep

-----------------------------------------------------------------------------
(***************************************************************************)
(* Custody: who has a message, and why it is still alive.                  *)
(***************************************************************************)

\* The message engine e has taken from its queue and not handed on: until process()
\* has accepted its return, or executeAndDispose() has disposed of it.
Held(e) ==
    IF \/ pc[e] \in {"execute", "process"}
       \/ pc[e] \in {"trigger", "broadcast", "processed"} /\ ~accepted[e]
    THEN {com[e]} \ {NoMsg} ELSE {}

Has(e) == Queued(e) \cup Held(e)

\* Thread t is in the process() that do_send() calls, before and after the queue.
Sending(t) == pc[t] = "process" /\ (t \in Engines => com[t] = NoMsg)
Sent(t) ==
    /\ pc[t] \in {"trigger", "broadcast", "processed"}
    /\ t \in Engines => com[t] = NoMsg

\* Nobody else sends or collects the clone a thread has made.
OwnCur ==
    /\ \A t \in Threads : cur[t] # NoMsg => cur[t] \in handles
    /\ \A t, u \in Threads : cur[t] = cur[u] /\ cur[t] # NoMsg => t = u

\* A clone that is about to be sent is new.
Fresh ==
    \A t \in Threads : Sending(t) =>
        /\ cur[t] \notin executed
        /\ target[cur[t]] = dest[t]
        /\ \A e \in Engines : cur[t] \notin Has(e)

\* What is returned has been executed, and goes to the engine of the caller.
Replying ==
    \A e \in Engines : pc[e] = "process" /\ com[e] # NoMsg =>
        com[e] \in executed /\ dest[e] = caller[com[e]]

\* A message refers to itself, or do_send() is still to make it do so.
Kept ==
    \A e \in Engines : \A m \in Has(e) :
        m \in self \/ \E t \in Threads : cur[t] = m /\ Sent(t) /\ accepted[t]

\* A message that waits or is executed is where it belongs.
AtHome ==
    \A e \in Engines : \A m \in Queued(e) \cup InHand(e) :
        pc[e] # "process" \/ m \notin InHand(e) =>
            e = IF m \in executed THEN caller[m] ELSE target[m]

\* One place for each message.
Single ==
    /\ \A e, f \in Engines : e # f => Has(e) \cap Has(f) = {}
    /\ \A e \in Engines : Held(e) \cap Queued(e) = {}
    /\ \A e \in Engines : \A i, j \in 1 .. Len(mqueue[e]) :
          mqueue[e][i] = mqueue[e][j] => i = j

Custody == OwnCur /\ Fresh /\ Replying /\ Kept /\ AtHome /\ Single

\* The constructors leave no message anywhere.
LEMMA InitCustody == Init => Custody
  <1> SUFFICES ASSUME Init PROVE Custody
    OBVIOUS
  <1>1. \A e \in Engines : Has(e) = {} /\ InHand(e) = {} /\ Queued(e) = {}
    BY DEF Init, Has, Held, InHand, Queued
  <1>2. \A t \in Threads : cur[t] = NoMsg /\ pc[t] \notin {"process", "trigger", "broadcast", "processed"}
    BY DEF Init
  <1> QED
    BY <1>1, <1>2 DEF Init, Custody, OwnCur, Fresh, Sending, Replying, Kept, AtHome, Single

\* A step that only moves threads between places where they hold the same messages.
LEMMA CustodyFrame ==
    ASSUME Types, Custody,
           UNCHANGED <<mqueue, com, cur, dest, accepted, msgVars>>,
           \A t \in Threads :
              \/ pc'[t] = pc[t]
              \/ {pc[t], pc'[t]} \subseteq {"trigger", "broadcast", "processed"}
              \/ {pc[t], pc'[t]} \cap (InProcess \cup {"execute"}) = {}
    PROVE  Custody'
  <1>1. \A e \in Engines : /\ Queued(e)' = Queued(e) /\ Held(e)' = Held(e)
                           /\ InHand(e)' = InHand(e) /\ Has(e)' = Has(e)
    BY DEF Queued, Held, InHand, Has, InProcess
  <1>2. \A t \in Threads : /\ Sending(t)' = Sending(t) /\ Sent(t)' = Sent(t)
                           /\ pc'[t] = "process" <=> pc[t] = "process"
    BY DEF Sending, Sent, InProcess
  <1>3. OwnCur'
    BY DEF Custody, OwnCur, msgVars
  <1>4. Fresh'
    BY <1>1, <1>2 DEF Custody, Fresh, msgVars
  <1>5. Replying'
    BY <1>2 DEF Custody, Replying, msgVars
  <1>6. Kept'
    BY <1>1, <1>2 DEF Custody, Kept, msgVars
  <1>7. AtHome'
    BY <1>1, <1>2 DEF Custody, AtHome, msgVars
  <1>8. Single'
    BY <1>1 DEF Custody, Single
  <1> QED
    BY <1>3, <1>4, <1>5, <1>6, <1>7, <1>8 DEF Custody

\* while ( mqueue->dequeue(com) ): the message goes from the queue into a hand.
LEMMA DequeueCustody ==
    ASSUME Types, Types', Custody, NEW e \in Engines, Dequeue(e)
    PROVE  Custody'
  <1> DEFINE m == Head(mqueue[e])
  <1>1. /\ pc[e] = "dequeue" /\ pc' = [pc EXCEPT ![e] = "execute"]
        /\ com' = [com EXCEPT ![e] = m]
        /\ mqueue[e] # <<>> /\ mqueue' = [mqueue EXCEPT ![e] = Tail(@)]
        /\ UNCHANGED <<cur, dest, accepted, target, caller, executed, self, handles>>
    BY DEF Dequeue, Goto, callVars, msgVars
  <1>2. mqueue[e] \in Seq(Msgs) /\ e \in Threads /\ mqueue'[e] = Tail(mqueue[e])
    BY <1>1 DEF Types, TypeOK
  <1>3. /\ m = mqueue[e][1] /\ m \in Msgs /\ 1 \in 1 .. Len(mqueue[e])
        /\ Len(Tail(mqueue[e])) = Len(mqueue[e]) - 1
        /\ \A i \in 1 .. Len(Tail(mqueue[e])) :
              Tail(mqueue[e])[i] = mqueue[e][i + 1] /\ i + 1 \in 1 .. Len(mqueue[e])
    BY <1>1, <1>2
  <1>4. \A i, j \in 1 .. Len(mqueue[e]) : mqueue[e][i] = mqueue[e][j] => i = j
    BY DEF Custody, Single
  <1>5. Queued(e)' \subseteq Queued(e) /\ m \in Queued(e) /\ m \notin Queued(e)'
    <2>1. m \in Queued(e)
      BY <1>3 DEF Queued
    <2>2. Queued(e)' = {Tail(mqueue[e])[i] : i \in 1 .. Len(Tail(mqueue[e]))}
      BY <1>2 DEF Queued
    <2>3. \A i \in 1 .. Len(Tail(mqueue[e])) : i + 1 # 1 /\ Tail(mqueue[e])[i] # m
      BY <1>3, <1>4
    <2>4. Queued(e)' \subseteq Queued(e)
      <3> SUFFICES ASSUME NEW i \in 1 .. Len(Tail(mqueue[e]))
                   PROVE  Tail(mqueue[e])[i] \in Queued(e)
        BY <2>2
      <3> QED
        BY <1>3 DEF Queued
    <2> QED
      BY <2>1, <2>2, <2>3, <2>4
  <1>6. Held(e)' = {m} /\ InHand(e)' = {m} /\ pc'[e] = "execute" /\ m # NoMsg
    <2>1. pc'[e] = "execute" /\ com'[e] = m /\ m # NoMsg
      BY <1>1, <1>2, <1>3 DEF Types, TypeOK
    <2> QED
      BY <2>1 DEF Held, InHand
  <1>7. \A f \in Engines \ {e} : /\ Queued(f)' = Queued(f) /\ Held(f)' = Held(f)
                                 /\ InHand(f)' = InHand(f) /\ pc'[f] = pc[f] /\ com'[f] = com[f]
    BY <1>1, <1>2 DEF Queued, Held, InHand, Types, TypeOK
  <1>8. \A f \in Engines : Has(f)' \subseteq Has(f)
    BY <1>5, <1>6, <1>7 DEF Has
  <1>9. \A t \in Threads : Sending(t)' = Sending(t) /\ Sent(t)' = Sent(t)
    BY <1>1, <1>2 DEF Sending, Sent, Types, TypeOK
  <1>10. OwnCur'
    BY <1>1 DEF Custody, OwnCur
  <1>11. Fresh'
    BY <1>1, <1>8, <1>9 DEF Custody, Fresh
  <1>12. Replying'
    BY <1>1, <1>6, <1>7 DEF Custody, Replying
  <1>13. Kept'
    BY <1>1, <1>8, <1>9 DEF Custody, Kept
  <1>14. AtHome'
    BY <1>1, <1>5, <1>6, <1>7 DEF Custody, AtHome
  <1>15. Single'
    <2>1. \A i, j \in 1 .. Len(mqueue'[e]) : mqueue'[e][i] = mqueue'[e][j] => i = j
      BY <1>2, <1>3, <1>4
    <2>2. \A f \in Engines \ {e} : mqueue'[f] = mqueue[f]
      BY <1>1, <1>2 DEF Types, TypeOK
    <2>3. \A f, g \in Engines : f # g => Has(f)' \cap Has(g)' = {}
      BY <1>8 DEF Custody, Single
    <2>4. \A f \in Engines : Held(f)' \cap Queued(f)' = {}
      BY <1>5, <1>6, <1>7 DEF Custody, Single
    <2> QED
      BY <2>1, <2>2, <2>3, <2>4 DEF Custody, Single
  <1> QED
    BY <1>10, <1>11, <1>12, <1>13, <1>14, <1>15 DEF Custody

\* The operation has been executed: the same message is now on its way back.
LEMMA ExecuteCustody ==
    ASSUME Types, Types', Custody, NEW e \in Engines, Execute(e)
    PROVE  Custody'
  <1> DEFINE m == com[e]
  <1>1. /\ pc[e] = "execute" /\ pc' = [pc EXCEPT ![e] = "process"]
        /\ m \notin executed /\ executed' = executed \cup {m}
        /\ dest' = [dest EXCEPT ![e] = caller[m]]
        /\ UNCHANGED <<mqueue, com, cur, accepted, target, caller, self, handles>>
    BY DEF Execute, Goto, handVars
  <1>2. m \in Msgs /\ m # NoMsg /\ e \in Threads
    BY <1>1 DEF Types, TypeOK, Locals
  <1>3. /\ Held(e) = {m} /\ Held(e)' = {m} /\ InHand(e)' = {m}
        /\ pc'[e] = "process" /\ dest'[e] = caller[m]
    BY <1>1, <1>2 DEF Held, InHand, Types, TypeOK
  <1>4. \A f \in Engines \ {e} : /\ Held(f)' = Held(f) /\ InHand(f)' = InHand(f)
                                 /\ pc'[f] = pc[f] /\ dest'[f] = dest[f]
    BY <1>1, <1>2 DEF Held, InHand, Types, TypeOK
  <1>5. \A f \in Engines : Queued(f)' = Queued(f) /\ Has(f)' = Has(f)
    BY <1>1, <1>3, <1>4 DEF Queued, Has
  <1>6. \A t \in Threads : /\ Sending(t)' = Sending(t) /\ Sent(t)' = Sent(t)
                           /\ Sending(t) => dest'[t] = dest[t]
    <2>1. Sending(e)' = Sending(e) /\ Sent(e)' = Sent(e) /\ ~Sending(e)
      BY <1>1, <1>2, <1>3 DEF Sending, Sent
    <2>2. \A t \in Threads \ {e} : pc'[t] = pc[t] /\ dest'[t] = dest[t]
      BY <1>1, <1>2 DEF Types, TypeOK
    <2> QED
      BY <1>1, <2>1, <2>2 DEF Sending, Sent
  <1>7. \A f \in Engines \ {e} : m \notin Queued(f) \cup Held(f)
    BY <1>3 DEF Custody, Single, Has
  <1>8. m \notin Queued(e)
    BY <1>3 DEF Custody, Single
  <1>9. \A f \in Engines : InHand(f) \subseteq Held(f)
    BY DEF InHand, Held
  <1>10. OwnCur'
    BY <1>1 DEF Custody, OwnCur
  <1>11. Fresh'
    <2>1. \A t \in Threads : Sending(t) => cur[t] # m
      BY <1>3 DEF Custody, Fresh, Has
    <2> QED
      BY <1>1, <1>5, <1>6, <2>1 DEF Custody, Fresh
  <1>12. Replying'
    BY <1>1, <1>2, <1>3, <1>4 DEF Custody, Replying
  <1>13. Kept'
    BY <1>1, <1>5, <1>6 DEF Custody, Kept
  <1>14. AtHome'
    <2>1. \A f \in Engines : \A k \in Queued(f) : k # m
      BY <1>7, <1>8
    <2>2. \A f \in Engines \ {e} : \A k \in InHand(f) : k # m
      BY <1>7, <1>9
    <2> QED
      BY <1>1, <1>3, <1>4, <1>5, <2>1, <2>2 DEF Custody, AtHome
  <1>15. Single'
    BY <1>1, <1>3, <1>4, <1>5 DEF Custody, Single
  <1> QED
    BY <1>10, <1>11, <1>12, <1>13, <1>14, <1>15 DEF Custody

\* A hand that lets its message go, and nobody else has it.
LEMMA LetGo ==
    ASSUME Types, Types', Custody, NEW e \in Engines, com[e] # NoMsg,
           pc' = [pc EXCEPT ![e] = "dequeue"],
           pc[e] \in {"execute", "processed"},
           com' = [com EXCEPT ![e] = NoMsg],
           UNCHANGED <<mqueue, cur, dest, accepted, target, caller, executed, handles>>,
           \/ self' = self
           \/ self' = self \ {com[e]} /\ Held(e) = {com[e]}
    PROVE  Custody'
  <1>1. e \in Threads /\ pc'[e] = "dequeue" /\ com'[e] = NoMsg
    BY DEF Types, TypeOK
  <1>2. Held(e)' = {} /\ InHand(e)' = {}
    BY <1>1 DEF Held, InHand
  <1>3. \A f \in Engines \ {e} : /\ Held(f)' = Held(f) /\ InHand(f)' = InHand(f)
                                 /\ pc'[f] = pc[f] /\ com'[f] = com[f]
    BY <1>1 DEF Held, InHand, Types, TypeOK
  <1>4. \A f \in Engines : Queued(f)' = Queued(f)
    BY DEF Queued
  <1>5. \A f \in Engines : Has(f)' \subseteq Has(f)
    BY <1>2, <1>3, <1>4 DEF Has
  <1>6. \A t \in Threads : Sending(t)' = Sending(t) /\ Sent(t)' = Sent(t)
    <2>1. Sending(e)' = Sending(e) /\ Sent(e)' = Sent(e)
      BY <1>1 DEF Sending, Sent
    <2>2. \A t \in Threads \ {e} : /\ pc'[t] = pc[t]
                                   /\ t \in Engines => com'[t] = com[t]
      BY <1>1, <1>3 DEF Types, TypeOK
    <2> QED
      BY <2>1, <2>2 DEF Sending, Sent
  <1>7. \A f \in Engines : \A m \in Has(f)' : m \in self => m \in self'
    <2> SUFFICES ASSUME NEW f \in Engines, NEW m \in Has(f)',
                        self' = self \ {com[e]}, Held(e) = {com[e]}
                 PROVE  m # com[e]
      OBVIOUS
    <2>1. CASE f = e
      BY <2>1, <1>2, <1>4 DEF Custody, Single, Has
    <2>2. CASE f # e
      BY <2>2, <1>5 DEF Custody, Single, Has
    <2> QED
      BY <2>1, <2>2
  <1>8. OwnCur'
    BY DEF Custody, OwnCur
  <1>9. Fresh'
    BY <1>5, <1>6 DEF Custody, Fresh
  <1>10. Replying'
    BY <1>1, <1>3 DEF Custody, Replying
  <1>11. Kept'
    BY <1>5, <1>6, <1>7 DEF Custody, Kept
  <1>12. AtHome'
    BY <1>2, <1>3, <1>4 DEF Custody, AtHome
  <1>13. Single'
    BY <1>2, <1>3, <1>4, <1>5 DEF Custody, Single
  <1> QED
    BY <1>8, <1>9, <1>10, <1>11, <1>12, <1>13 DEF Custody

\* executeAndDispose() of a message that is back.
LEMMA DisposeCustody ==
    ASSUME Types, Types', Custody, NEW e \in Engines, Dispose(e)
    PROVE  Custody'
  <1>1. /\ pc[e] = "execute" /\ com[e] # NoMsg
        /\ pc' = [pc EXCEPT ![e] = "dequeue"] /\ com' = [com EXCEPT ![e] = NoMsg]
        /\ self' = self \ {com[e]}
        /\ UNCHANGED <<mqueue, cur, dest, accepted, target, caller, executed, handles>>
    BY DEF Dispose, Goto, callVars, Types, TypeOK, Locals
  <1>2. Held(e) = {com[e]}
    BY <1>1 DEF Held
  <1> QED
    BY <1>1, <1>2, LetGo

\* process() has returned to executeAndDispose(): dispose() only if it refused.
LEMMA ReplyDoneCustody ==
    ASSUME Types, Types', Custody, NEW e \in Engines, ReplyDone(e)
    PROVE  Custody'
  <1>1. /\ pc[e] = "processed" /\ com[e] # NoMsg
        /\ pc' = [pc EXCEPT ![e] = "dequeue"] /\ com' = [com EXCEPT ![e] = NoMsg]
        /\ self' = IF accepted[e] THEN self ELSE self \ {com[e]}
        /\ UNCHANGED <<mqueue, cur, dest, accepted, target, caller, executed, handles>>
    BY DEF ReplyDone, Goto, callVars
  <1>2. ~accepted[e] => Held(e) = {com[e]}
    BY <1>1 DEF Held
  <1> QED
    BY <1>1, <1>2, LetGo

\* What process() is called for: the message that goes into the queue.
LEMMA PassedMessage ==
    ASSUME Types, Custody, NEW t \in Threads, pc[t] = "process"
    PROVE  /\ Passed(t) \in Msgs /\ Passed(t) # NoMsg /\ dest[t] \in Engines
           /\ ~Sending(t) => t \in Engines /\ Passed(t) = com[t] /\ Held(t) = {Passed(t)}
           /\ Sending(t) => Passed(t) = cur[t] /\ (t \in Engines => Held(t) = {})
           /\ dest[t] = IF Passed(t) \in executed THEN caller[Passed(t)]
                                                  ELSE target[Passed(t)]
  <1>1. CASE Sending(t)
    <2>1. Passed(t) = cur[t] /\ cur[t] # NoMsg /\ (t \in Engines => Held(t) = {})
      BY <1>1 DEF Sending, Passed, Held, Types, Locals, InProcess
    <2> QED
      BY <1>1, <2>1 DEF Custody, Fresh, Types, TypeOK
  <1>2. CASE ~Sending(t)
    <2>1. t \in Engines /\ com[t] # NoMsg
      BY <1>2 DEF Sending
    <2>2. Passed(t) = com[t] /\ Held(t) = {com[t]}
      BY <2>1 DEF Passed, Held
    <2> QED
      BY <1>2, <2>1, <2>2 DEF Custody, Replying, Types, TypeOK
  <1> QED
    BY <1>1, <1>2

\* process() refuses the message: who called it still has it.
LEMMA Refused ==
    ASSUME Types, Types', Custody, NEW t \in Threads, pc[t] = "process",
           NEW place \in {"trigger", "processed"}, pc' = [pc EXCEPT ![t] = place],
           accepted' = [accepted EXCEPT ![t] = FALSE],
           UNCHANGED <<mqueue, com, cur, dest, msgVars>>
    PROVE  Custody'
  <1>1. pc'[t] = place /\ accepted'[t] = FALSE
    BY DEF Types, TypeOK
  <1>2. \A u \in Threads \ {t} : pc'[u] = pc[u] /\ accepted'[u] = accepted[u]
    BY DEF Types, TypeOK
  <1>3. \A e \in Engines : /\ Held(e)' = Held(e) /\ Queued(e)' = Queued(e)
                           /\ Has(e)' = Has(e)
                           /\ InHand(e)' = IF e = t THEN {} ELSE InHand(e)
    BY <1>1, <1>2 DEF Held, InHand, Queued, Has
  <1>4. \A u \in Threads : Sending(u)' => Sending(u)
    BY <1>1, <1>2 DEF Sending
  <1>5. \A u \in Threads : Sent(u) /\ accepted[u] => Sent(u)' /\ accepted'[u]
    BY <1>1, <1>2 DEF Sent
  <1>6. OwnCur'
    BY DEF Custody, OwnCur, msgVars
  <1>7. Fresh'
    BY <1>3, <1>4 DEF Custody, Fresh, msgVars
  <1>8. Replying'
    BY <1>1, <1>2 DEF Custody, Replying, msgVars
  <1>9. Kept'
    BY <1>3, <1>5 DEF Custody, Kept, msgVars
  <1>10. AtHome'
    <2>1. \A e \in Engines : InHand(e) \cap Queued(e) = {}
      BY DEF Custody, Single, InHand, Held
    <2>2. \A e \in Engines : \A m \in Queued(e) \cup InHand(e)' :
             (pc'[e] # "process" \/ m \notin InHand(e)') =>
                 /\ m \in Queued(e) \cup InHand(e)
                 /\ pc[e] # "process" \/ m \notin InHand(e)
      BY <1>2, <1>3, <2>1
    <2> QED
      BY <1>3, <2>2 DEF Custody, AtHome, msgVars
  <1>11. Single'
    BY <1>3 DEF Custody, Single
  <1> QED
    BY <1>6, <1>7, <1>8, <1>9, <1>10, <1>11 DEF Custody

\* In FatalError ...
LEMMA RejectCustody ==
    ASSUME Types, Types', Custody, NEW t \in Threads, Reject(t)
    PROVE  Custody'
  BY Refused DEF Reject, Goto, handVars

\* ... or because the queue is full.
LEMMA EnqueueFullCustody ==
    ASSUME Types, Types', Custody, NEW t \in Threads, EnqueueFull(t)
    PROVE  Custody'
  BY Refused DEF EnqueueFull, Goto, handVars

\* process() accepts it: the message is in the queue and in no hand any more.
LEMMA EnqueueCustody ==
    ASSUME Types, Types', Custody, NEW t \in Threads, Enqueue(t)
    PROVE  Custody'
  <1> PICK m, d : m = Passed(t) /\ d = dest[t]
    OBVIOUS
  <1>1. /\ pc[t] = "process" /\ pc' = [pc EXCEPT ![t] = "trigger"]
        /\ mqueue' = [mqueue EXCEPT ![d] = Append(@, m)]
        /\ accepted' = [accepted EXCEPT ![t] = TRUE]
        /\ UNCHANGED <<com, cur, dest, target, caller, executed, self, handles>>
    BY DEF Enqueue, Goto, handVars, msgVars
  <1>2. /\ m \in Msgs /\ m # NoMsg /\ d \in Engines
        /\ ~Sending(t) => t \in Engines /\ m = com[t] /\ Held(t) = {m}
        /\ Sending(t) => m = cur[t] /\ (t \in Engines => Held(t) = {})
        /\ d = IF m \in executed THEN caller[m] ELSE target[m]
    BY <1>1, PassedMessage
  <1>3. mqueue[d] \in Seq(Msgs) /\ mqueue'[d] = Append(mqueue[d], m)
    BY <1>1, <1>2 DEF Types, TypeOK
  <1>4. /\ Len(mqueue'[d]) = Len(mqueue[d]) + 1 /\ mqueue'[d][Len(mqueue[d]) + 1] = m
        /\ Len(mqueue[d]) \in Nat
        /\ \A i \in 1 .. Len(mqueue[d]) : mqueue'[d][i] = mqueue[d][i]
    BY <1>2, <1>3
  <1>5. Queued(d)' = Queued(d) \cup {m}
    <2>1. 1 .. Len(mqueue'[d]) = (1 .. Len(mqueue[d])) \cup {Len(mqueue[d]) + 1}
      BY <1>4
    <2>2. Queued(d)' = {mqueue'[d][i] : i \in 1 .. Len(mqueue'[d])}
      BY DEF Queued
    <2>3. {mqueue'[d][i] : i \in 1 .. Len(mqueue[d])} = Queued(d)
      BY <1>4 DEF Queued
    <2> QED
      BY <1>4, <2>1, <2>2, <2>3
  <1>6. \A e \in Engines \ {d} : Queued(e)' = Queued(e) /\ mqueue'[e] = mqueue[e]
    <2> TAKE e \in Engines \ {d}
    <2>1. mqueue'[e] = mqueue[e]
      BY <1>1, <1>2 DEF Types, TypeOK
    <2> QED
      BY <2>1 DEF Queued
  <1>7. pc'[t] = "trigger" /\ accepted'[t] /\
        \A u \in Threads \ {t} : pc'[u] = pc[u] /\ accepted'[u] = accepted[u]
    BY <1>1 DEF Types, TypeOK
  <1>8. \A e \in Engines : /\ Held(e)' = IF e = t THEN {} ELSE Held(e)
                           /\ InHand(e)' = IF e = t THEN {} ELSE InHand(e)
                           /\ InHand(e) \subseteq Held(e)
    BY <1>1, <1>7 DEF Held, InHand
  <1>9. \A e \in Engines : m \notin Queued(e) /\ m \notin Held(e)'
    <2>1. CASE Sending(t)
      BY <1>2, <1>8, <2>1 DEF Custody, Fresh, Has
    <2>2. CASE ~Sending(t)
      <3>1. \A e \in Engines : e # t => m \notin Has(e)
        BY <1>2, <2>2 DEF Custody, Single, Has
      <3>2. t \in Engines => m \notin Queued(t)
        BY <1>2, <2>2 DEF Custody, Single
      <3> QED
        BY <1>2, <1>8, <2>2, <3>1, <3>2 DEF Has
    <2> QED
      BY <2>1, <2>2
  <1>10. \A e \in Engines : \A k \in Has(e)' : k \in Has(e) \/ (e = d /\ k = m)
    BY <1>5, <1>6, <1>8 DEF Has
  <1>11. \A u \in Threads : /\ Sending(u)' => Sending(u) /\ u # t
                            /\ Sent(u) /\ accepted[u] => Sent(u)' /\ accepted'[u]
    BY <1>1, <1>7 DEF Sending, Sent
  <1>12. OwnCur'
    BY <1>1 DEF Custody, OwnCur
  <1>13. Fresh'
    <2>1. \A u \in Threads : Sending(u)' => cur[u] # m
      <3>1. CASE Sending(t)
        BY <1>2, <1>11, <3>1 DEF Custody, OwnCur
      <3>2. CASE ~Sending(t)
        BY <1>2, <1>11, <3>2 DEF Custody, Fresh, Has
      <3> QED
        BY <3>1, <3>2
    <2> QED
      BY <1>1, <1>10, <1>11, <2>1 DEF Custody, Fresh
  <1>14. Replying'
    BY <1>1, <1>7 DEF Custody, Replying
  <1>15. Kept'
    <2>1. m \in self' \/ \E u \in Threads : cur'[u] = m /\ Sent(u)' /\ accepted'[u]
      <3>1. CASE Sending(t)
        <4>1. Sent(t)'
          BY <1>1, <1>7, <3>1 DEF Sending, Sent
        <4> QED
          BY <1>1, <1>2, <1>7, <3>1, <4>1
      <3>2. CASE ~Sending(t)
        <4>1. m \in Has(t) /\ t \in Engines
          BY <1>2, <3>2 DEF Has
        <4> QED
          BY <1>1, <1>11, <4>1 DEF Custody, Kept
      <3> QED
        BY <3>1, <3>2
    <2> QED
      BY <1>1, <1>10, <1>11, <2>1 DEF Custody, Kept
  <1>16. AtHome'
    <2> SUFFICES ASSUME NEW e \in Engines, NEW k \in Queued(e)' \cup InHand(e)',
                        pc'[e] # "process" \/ k \notin InHand(e)'
                 PROVE  e = IF k \in executed THEN caller[k] ELSE target[k]
      BY <1>1 DEF AtHome
    <2>1. CASE k = m
      BY <1>2, <1>8, <1>9, <2>1, <1>6
    <2>2. CASE k # m
      <3>1. k \in Queued(e) \cup InHand(e)
        BY <1>5, <1>6, <1>8, <2>2
      <3>2. pc[e] # "process" \/ k \notin InHand(e)
        <4>1. CASE e = t
          <5>1. k \in Queued(e)
            BY <1>5, <1>6, <1>8, <2>2, <4>1
          <5>2. InHand(e) \cap Queued(e) = {}
            BY <1>8 DEF Custody, Single
          <5> QED
            BY <5>1, <5>2
        <4>2. CASE e # t
          BY <1>7, <1>8, <4>2
        <4> QED
          BY <4>1, <4>2
      <3> QED
        BY <3>1, <3>2 DEF Custody, AtHome
    <2> QED
      BY <2>1, <2>2
  <1>17. Single'
    <2>1. \A i, j \in 1 .. Len(mqueue'[d]) : mqueue'[d][i] = mqueue'[d][j] => i = j
      <3>1. \A i \in 1 .. Len(mqueue[d]) : mqueue[d][i] # m
        BY <1>2, <1>9 DEF Queued
      <3> QED
        <4>1. \A i, j \in 1 .. Len(mqueue[d]) : mqueue[d][i] = mqueue[d][j] => i = j
          BY <1>2 DEF Custody, Single
        <4> SUFFICES ASSUME NEW i \in 1 .. Len(mqueue'[d]), NEW j \in 1 .. Len(mqueue'[d]),
                            mqueue'[d][i] = mqueue'[d][j]
                     PROVE  i = j
          OBVIOUS
        <4>2. \A k \in 1 .. Len(mqueue'[d]) :
                 k \in 1 .. Len(mqueue[d]) \/ k = Len(mqueue[d]) + 1
          BY <1>4
        <4>3. CASE i \in 1 .. Len(mqueue[d]) /\ j \in 1 .. Len(mqueue[d])
          BY <1>4, <4>1, <4>3
        <4>4. CASE i \in 1 .. Len(mqueue[d]) /\ j = Len(mqueue[d]) + 1
          BY <1>4, <3>1, <4>4
        <4>5. CASE i = Len(mqueue[d]) + 1 /\ j \in 1 .. Len(mqueue[d])
          BY <1>4, <3>1, <4>5
        <4> QED
          BY <4>2, <4>3, <4>4, <4>5
    <2>2. \A e, f \in Engines : e # f => Has(e)' \cap Has(f)' = {}
      BY <1>5, <1>6, <1>8, <1>9 DEF Custody, Single, Has
    <2>3. \A e \in Engines : Held(e)' \cap Queued(e)' = {}
      BY <1>5, <1>6, <1>8, <1>9 DEF Custody, Single
    <2> QED
      BY <1>6, <2>1, <2>2, <2>3 DEF Custody, Single
  <1> QED
    BY <1>12, <1>13, <1>14, <1>15, <1>16, <1>17 DEF Custody

\* do_send() makes the message refer to itself, and from then on it is kept by that.
LEMMA SendAcceptedCustody ==
    ASSUME Types, Types', Custody, NEW t \in Threads, SendAccepted(t)
    PROVE  Custody'
  <1>1. /\ pc[t] = "processed" /\ (t \in Engines => com[t] = NoMsg) /\ accepted[t]
        /\ pc' = [pc EXCEPT ![t] = "sent"] /\ self' = self \cup {cur[t]}
        /\ UNCHANGED <<mqueue, com, cur, dest, accepted, target, caller, executed, handles>>
    BY DEF SendAccepted, InDoSend, Goto, handVars, callVars
  <1>2. pc'[t] = "sent" /\ \A u \in Threads \ {t} : pc'[u] = pc[u]
    BY <1>1 DEF Types, TypeOK
  <1>3. \A e \in Engines : /\ Held(e)' = Held(e) /\ Queued(e)' = Queued(e)
                           /\ InHand(e)' = InHand(e) /\ Has(e)' = Has(e)
    BY <1>1, <1>2 DEF Held, Queued, InHand, Has
  <1>4. \A u \in Threads : /\ Sending(u)' = Sending(u)
                           /\ Sent(u) /\ u # t => Sent(u)'
                           /\ (pc'[u] = "process") = (pc[u] = "process")
    BY <1>1, <1>2 DEF Sending, Sent
  <1>5. OwnCur'
    BY <1>1 DEF Custody, OwnCur
  <1>6. Fresh'
    BY <1>1, <1>3, <1>4 DEF Custody, Fresh
  <1>7. Replying'
    BY <1>1, <1>4 DEF Custody, Replying
  <1>8. Kept'
    BY <1>1, <1>3, <1>4 DEF Custody, Kept
  <1>9. AtHome'
    BY <1>1, <1>3, <1>4 DEF Custody, AtHome
  <1>10. Single'
    BY <1>1, <1>3 DEF Custody, Single
  <1> QED
    BY <1>5, <1>6, <1>7, <1>8, <1>9, <1>10 DEF Custody

\* The handle of a message goes: nobody was to make the message refer to itself.
LEMMA Dropped ==
    ASSUME Types, Types', Custody, NEW t \in Threads, DropHandle(t),
           \/ pc[t] \in {"sent", "test", "waitLock"}
           \/ InDoSend(t) /\ ~accepted[t],
           UNCHANGED <<mqueue, com, dest, accepted, target, caller, executed, self>>
    PROVE  Custody'
  <1>1. /\ handles' = handles \ {cur[t]} /\ cur' = [cur EXCEPT ![t] = NoMsg]
        /\ pc' = [pc EXCEPT ![t] = Home(t)]
    BY DEF DropHandle, Goto
  <1>2. /\ pc'[t] \in {"hook", "idle"} /\ cur'[t] = NoMsg
        /\ \A u \in Threads \ {t} : pc'[u] = pc[u] /\ cur'[u] = cur[u]
    BY <1>1 DEF Home, Types, TypeOK
  <1>3. \A e \in Engines : /\ Held(e)' = Held(e) /\ Queued(e)' = Queued(e)
                           /\ InHand(e)' = InHand(e) /\ Has(e)' = Has(e)
    <2> TAKE e \in Engines
    <2>1. Held(e)' = Held(e)
      BY <1>2 DEF Held, InDoSend
    <2>2. Queued(e)' = Queued(e)
      BY DEF Queued
    <2>3. InHand(e)' = InHand(e)
      BY <1>2 DEF InHand, InDoSend
    <2> QED
      BY <2>1, <2>2, <2>3 DEF Has
  <1>4. \A u \in Threads : /\ Sending(u)' => Sending(u) /\ u # t
                           /\ Sent(u) /\ accepted[u] => Sent(u)' /\ u # t
                           /\ (pc'[u] = "process") = (pc[u] = "process")
    BY <1>2 DEF Sending, Sent, InDoSend
  <1>5. OwnCur'
    BY <1>1, <1>2 DEF Custody, OwnCur
  <1>6. Fresh'
    BY <1>2, <1>3, <1>4 DEF Custody, Fresh
  <1>7. Replying'
    BY <1>4 DEF Custody, Replying
  <1>8. Kept'
    BY <1>2, <1>3, <1>4 DEF Custody, Kept
  <1>9. AtHome'
    BY <1>3, <1>4 DEF Custody, AtHome
  <1>10. Single'
    BY <1>3 DEF Custody, Single
  <1> QED
    BY <1>5, <1>6, <1>7, <1>8, <1>9, <1>10 DEF Custody

LEMMA SendRefusedCustody ==
    ASSUME Types, Types', Custody, NEW t \in Threads, SendRefused(t)
    PROVE  Custody'
  BY Dropped DEF SendRefused, handVars

LEMMA ForgetCustody ==
    ASSUME Types, Types', Custody, NEW t \in Threads, Forget(t)
    PROVE  Custody'
  BY Dropped DEF Forget, handVars

LEMMA CollectedCustody ==
    ASSUME Types, Types', Custody, NEW t \in Threads, Collected(t)
    PROVE  Custody'
  BY Dropped DEF Collected, handVars

\* cloneRT() takes a clone that nobody refers to: it is in no queue and no hand.
LEMMA SendCustody ==
    ASSUME Types, Types', Custody, NEW t \in Threads, Send(t)
    PROVE  Custody'
  <1>1. PICK m \in Msgs \ Alive, d \in Engines :
          /\ cur' = [cur EXCEPT ![t] = m]
          /\ target' = [target EXCEPT ![m] = d]
          /\ caller' = [caller EXCEPT ![m] = WaitEngine(t)]
          /\ executed' = executed \ {m}
          /\ handles' = handles \cup {m}
          /\ dest' = [dest EXCEPT ![t] = d]
    BY DEF Send
  <1>2. /\ pc[t] = Home(t) /\ pc' = [pc EXCEPT ![t] = "process"]
        /\ UNCHANGED <<mqueue, com, accepted, self>>
    BY DEF Send, Goto, handVars
  <1>3. /\ pc[t] \in {"hook", "idle"} /\ pc'[t] = "process" /\ cur'[t] = m /\ dest'[t] = d
        /\ \A u \in Threads \ {t} : pc'[u] = pc[u] /\ cur'[u] = cur[u] /\ dest'[u] = dest[u]
        /\ t \in Engines => com[t] = NoMsg
    BY <1>1, <1>2 DEF Home, Types, TypeOK, Locals, InProcess
  <1>4. /\ m \notin self /\ m \notin handles /\ m # NoMsg
        /\ target'[m] = d
        /\ \A k \in Msgs \ {m} : target'[k] = target[k] /\ caller'[k] = caller[k]
    BY <1>1 DEF Alive, Types, TypeOK
  <1>5. \A u \in Threads : cur[u] # m
    BY <1>4 DEF Custody, OwnCur
  <1>6. \A e \in Engines : m \notin Has(e) /\ Has(e) \subseteq Msgs
    <2>1. \A e \in Engines : m \notin Has(e)
      BY <1>4, <1>5 DEF Custody, Kept
    <2>2. \A e \in Engines : Has(e) \subseteq Msgs
      <3> TAKE e \in Engines
      <3>1. mqueue[e] \in Seq(Msgs)
        BY DEF Types, TypeOK
      <3>2. \A i \in 1 .. Len(mqueue[e]) : mqueue[e][i] \in Msgs
        BY <3>1
      <3>3. Queued(e) \subseteq Msgs
        BY <3>2 DEF Queued
      <3>4. Held(e) \subseteq Msgs
        BY DEF Held, Types, TypeOK
      <3> QED
        BY <3>3, <3>4 DEF Has
    <2> QED
      BY <2>1, <2>2
  <1>7. \A e \in Engines : /\ Held(e)' = Held(e) /\ Queued(e)' = Queued(e)
                           /\ InHand(e)' = InHand(e) /\ Has(e)' = Has(e)
                           /\ InHand(e) \subseteq Has(e)
    <2> TAKE e \in Engines
    <2>1. Held(e)' = Held(e)
      BY <1>2, <1>3 DEF Held
    <2>2. Queued(e)' = Queued(e)
      BY <1>2, <1>3 DEF Queued
    <2>3. InHand(e)' = InHand(e) /\ InHand(e) \subseteq Held(e)
      BY <1>2, <1>3 DEF InHand, Held
    <2> QED
      BY <2>1, <2>2, <2>3 DEF Has
  <1>8. \A u \in Threads : /\ Sending(u)' => Sending(u) \/ u = t
                           /\ Sent(u) => Sent(u)' /\ u # t
    BY <1>2, <1>3 DEF Sending, Sent
  <1>9. OwnCur'
    BY <1>1, <1>3, <1>5 DEF Custody, OwnCur
  <1>10. Fresh'
    <2> SUFFICES ASSUME NEW u \in Threads, Sending(u)'
                 PROVE  /\ cur'[u] \notin executed'
                        /\ target'[cur'[u]] = dest'[u]
                        /\ \A e \in Engines : cur'[u] \notin Has(e)'
      BY DEF Fresh
    <2>1. CASE u = t
      BY <1>1, <1>3, <1>4, <1>6, <1>7, <2>1
    <2>2. CASE u # t
      <3>1. Sending(u) /\ cur'[u] = cur[u] /\ cur[u] # m /\ cur[u] \in Msgs
        <4>1. Sending(u) /\ cur'[u] = cur[u] /\ cur[u] # m
          BY <1>3, <1>5, <1>8, <2>2
        <4>2. cur[u] # NoMsg
          BY <4>1 DEF Sending, Types, Locals, InProcess
        <4> QED
          BY <4>1, <4>2 DEF Types, TypeOK
      <3> QED
        BY <1>1, <1>3, <1>4, <1>7, <2>2, <3>1 DEF Custody, Fresh
    <2> QED
      BY <2>1, <2>2
  <1>11. Replying'
    <2> SUFFICES ASSUME NEW e \in Engines, pc'[e] = "process", com'[e] # NoMsg
                 PROVE  com'[e] \in executed' /\ dest'[e] = caller'[com'[e]]
      BY DEF Replying
    <2>1. e # t /\ pc[e] = "process" /\ com'[e] = com[e] /\ com[e] \in Msgs
      <3>1. e \in Threads /\ com'[e] = com[e]
        BY <1>2
      <3>2. e # t
        BY <1>3, <3>1
      <3> QED
        BY <1>3, <3>1, <3>2 DEF Types, TypeOK
    <2>2. com[e] # m
      BY <1>2, <1>6, <2>1 DEF Has, Held
    <2> QED
      BY <1>1, <1>2, <1>3, <1>4, <2>1, <2>2 DEF Custody, Replying
  <1>12. Kept'
    <2>1. \A u \in Threads : u # t => cur'[u] = cur[u]
      BY <1>3
    <2> QED
      BY <1>2, <1>7, <1>8, <2>1 DEF Custody, Kept
  <1>13. AtHome'
    <2> SUFFICES ASSUME NEW e \in Engines, NEW k \in Queued(e)' \cup InHand(e)',
                        pc'[e] # "process" \/ k \notin InHand(e)'
                 PROVE  e = IF k \in executed' THEN caller'[k] ELSE target'[k]
      BY DEF AtHome
    <2>1. k \in Queued(e) \cup InHand(e) /\ k \in Msgs /\ k # m
      BY <1>6, <1>7 DEF Has
    <2>2. pc[e] # "process" \/ k \notin InHand(e)
      BY <1>3, <1>7
    <2> QED
      BY <1>1, <1>4, <2>1, <2>2 DEF Custody, AtHome
  <1>14. Single'
    BY <1>2, <1>7 DEF Custody, Single
  <1> QED
    BY <1>9, <1>10, <1>11, <1>12, <1>13, <1>14 DEF Custody

\* One thread moves on, outside of process() and of the execution of a message.
LEMMA CustodyMove ==
    ASSUME Types, Custody, NEW t \in Threads, NEW place,
           pc' = [pc EXCEPT ![t] = place],
           UNCHANGED <<mqueue, com, cur, dest, accepted, msgVars>>,
           \/ {pc[t], place} \subseteq {"trigger", "broadcast", "processed"}
           \/ {pc[t], place} \cap (InProcess \cup {"execute"}) = {}
    PROVE  Custody'
  <1>1. pc'[t] = place /\ \A u \in Threads \ {t} : pc'[u] = pc[u]
    BY DEF Types, TypeOK
  <1> QED
    BY <1>1, CustodyFrame

\* No step of any thread loses a message, duplicates one or frees one that is in use.
LEMMA StepCustody == Types /\ Types' /\ Custody /\ [Next]_vars => Custody'
  <1> SUFFICES ASSUME Types, Types', Custody, [Next]_vars PROVE Custody'
    OBVIOUS
  <1>1. ASSUME NEW e \in Engines, Wake(e) PROVE Custody'
    <2>1. /\ pc[e] = "semWait" /\ pc' = [pc EXCEPT ![e] = "dequeue"]
          /\ UNCHANGED <<mqueue, com, cur, dest, accepted, msgVars>>
      BY <1>1 DEF Wake, Goto, callVars
    <2>2. e \in Threads
      BY DEF Threads
    <2>3. {pc[e], "dequeue"} \cap (InProcess \cup {"execute"}) = {}
      BY <2>1 DEF InProcess
    <2> QED
      BY <2>1, <2>2, <2>3, CustodyMove
  <1>2. ASSUME NEW e \in Engines, WakeInVain(e) PROVE Custody'
    BY <1>2, CustodyFrame DEF WakeInVain, Goto, msgVars, lifeVars, handVars, callVars, InProcess
  <1>3. ASSUME NEW e \in Engines, QueueEmpty(e) PROVE Custody'
    BY <1>3, CustodyMove DEF QueueEmpty, Goto, msgVars, lifeVars, handVars, callVars, InProcess
  <1>4. ASSUME NEW e \in Engines, PassLock(e) PROVE Custody'
    <2>1. PICK place \in {"pmBroadcast", "hook", "waitLock"} : pc' = [pc EXCEPT ![e] = place]
      BY <1>4 DEF PassLock, Goto, AfterMessages
    <2> QED
      BY <1>4, <2>1, CustodyMove DEF PassLock, msgVars, lifeVars, handVars, callVars, InProcess
  <1>5. ASSUME NEW e \in Engines, EndStep(e) PROVE Custody'
    BY <1>5, CustodyMove DEF EndStep, Goto, msgVars, lifeVars, handVars, callVars, InProcess
  <1>6. ASSUME NEW e \in Engines, Fatal(e) PROVE Custody'
    BY <1>6, CustodyFrame DEF Fatal, Goto, msgVars, lifeVars, handVars, callVars, InProcess
  <1>7. ASSUME NEW e \in Engines, StopBegin(e) PROVE Custody'
    BY <1>7, CustodyFrame DEF StopBegin, Goto, msgVars, lifeVars, handVars, callVars, InProcess
  <1>8. ASSUME NEW e \in Engines, StopEnd(e) PROVE Custody'
    BY <1>8, CustodyFrame DEF StopEnd, Goto, msgVars, lifeVars, handVars, callVars, InProcess
  <1>9. ASSUME NEW e \in Engines, StopTimeOut(e) PROVE Custody'
    BY <1>9, CustodyFrame DEF StopTimeOut, Goto, msgVars, lifeVars, handVars, callVars, InProcess
  <1>10. ASSUME NEW e \in Engines, StopFail(e) PROVE Custody'
    BY <1>10, CustodyFrame DEF StopFail, Goto, msgVars, lifeVars, handVars, callVars, InProcess
  <1>11. ASSUME NEW e \in Engines, StartActivity(e) PROVE Custody'
    BY <1>11, CustodyFrame DEF StartActivity, Goto, msgVars, lifeVars, handVars, callVars, InProcess
  <1>12. ASSUME NEW e \in Engines, ProcessMessages(e) PROVE Custody'
    BY <1>12, CustodyMove DEF ProcessMessages, Goto, msgVars, lifeVars, handVars, callVars, InProcess
  <1>13. ASSUME NEW e \in Engines, BroadcastMessages(e) PROVE Custody'
    BY <1>13, CustodyFrame, WokenType DEF BroadcastMessages, AfterMessages, Goto, msgVars, lifeVars, handVars, callVars, InProcess
  <1>14. ASSUME NEW t \in Threads, Trigger(t) PROVE Custody'
    BY <1>14, CustodyMove DEF Trigger, Goto, msgVars, lifeVars, handVars, callVars, InProcess
  <1>15. ASSUME NEW t \in Threads, Collect(t) PROVE Custody'
    BY <1>15, CustodyMove DEF Collect, Goto, msgVars, lifeVars, handVars, callVars, InProcess
  <1>16. ASSUME NEW t \in Threads, WaitLock(t) PROVE Custody'
    BY <1>16, CustodyMove DEF WaitLock, Goto, msgVars, lifeVars, handVars, callVars, InProcess, WaitEngine
  <1>17. ASSUME NEW t \in Threads, Wait(t) PROVE Custody'
    BY <1>17, CustodyMove DEF Wait, Goto, msgVars, lifeVars, handVars, callVars, InProcess, WaitEngine
  <1>18. ASSUME NEW t \in Threads, Relock(t) PROVE Custody'
    BY <1>18, CustodyMove DEF Relock, Goto, msgVars, lifeVars, handVars, callVars, InProcess, WaitEngine
  <1>19. ASSUME NEW c \in Clients, WaitForMessages(c) PROVE Custody'
    BY <1>19, CustodyMove DEF WaitForMessages, Goto, msgVars, lifeVars, handVars, callVars, InProcess
  <1>20. ASSUME NEW t \in Threads, Broadcast(t) PROVE Custody'
    <2>1. dest[t] \in Engines
      BY DEF Types, TypeOK
    <2>2. \A u \in Threads : \/ Woken(dest[t])[u] = pc[u]
                             \/ pc[u] = "asleep" /\ Woken(dest[t])[u] \in {"relock", "waitLock"}
      BY <2>1, WokenType DEF Types
    <2>3. pc[t] = "broadcast" /\ pc' = [Woken(dest[t]) EXCEPT ![t] = "processed"]
      BY <1>20 DEF Broadcast
    <2>4. \A u \in Threads : u # t => pc'[u] = Woken(dest[t])[u]
      BY <2>3 DEF Woken
    <2>5. pc'[t] = "processed"
      BY <2>3 DEF Woken
    <2> QED
      BY <1>20, <2>2, <2>3, <2>4, <2>5, CustodyFrame DEF Broadcast, Goto, msgVars, lifeVars, handVars, callVars, InProcess
  <1>21. ASSUME NEW e \in Engines, Dequeue(e) PROVE Custody'
    BY <1>21, DequeueCustody
  <1>22. ASSUME NEW e \in Engines, Execute(e) PROVE Custody'
    BY <1>22, ExecuteCustody
  <1>23. ASSUME NEW e \in Engines, Dispose(e) PROVE Custody'
    BY <1>23, DisposeCustody
  <1>24. ASSUME NEW e \in Engines, ReplyDone(e) PROVE Custody'
    BY <1>24, ReplyDoneCustody
  <1>25. ASSUME NEW t \in Threads, Reject(t) PROVE Custody'
    BY <1>25, RejectCustody
  <1>26. ASSUME NEW t \in Threads, Enqueue(t) PROVE Custody'
    BY <1>26, EnqueueCustody
  <1>27. ASSUME NEW t \in Threads, EnqueueFull(t) PROVE Custody'
    BY <1>27, EnqueueFullCustody
  <1>28. ASSUME NEW t \in Threads, SendAccepted(t) PROVE Custody'
    BY <1>28, SendAcceptedCustody
  <1>29. ASSUME NEW t \in Threads, SendRefused(t) PROVE Custody'
    BY <1>29, SendRefusedCustody
  <1>30. ASSUME NEW t \in Threads, Forget(t) PROVE Custody'
    BY <1>30, ForgetCustody
  <1>31. ASSUME NEW t \in Threads, Collected(t) PROVE Custody'
    BY <1>31, CollectedCustody
  <1>32. ASSUME NEW t \in Threads, Send(t) PROVE Custody'
    BY <1>32, SendCustody
  <1>33. CASE UNCHANGED vars
    BY <1>33, CustodyFrame DEF vars, Goto, msgVars, lifeVars, handVars, callVars
  <1> QED
    BY <1>1, <1>2, <1>3, <1>4, <1>5, <1>6, <1>7, <1>8, <1>9, <1>10, <1>11, <1>12, <1>13, <1>14, <1>15, <1>16, <1>17, <1>18, <1>19, <1>20, <1>21, <1>22, <1>23, <1>24, <1>25, <1>26, <1>27, <1>28, <1>29, <1>30, <1>31, <1>32, <1>33 DEF Next, EngineStep, CallStep, StopStep

\* Types, and the bound of the queue (MWSRQueue of ORONUM_EE_MQUEUE_SIZE).
THEOREM TypeCorrect == Spec => []TypeOK
  <1>1. Types => TypeOK
    BY DEF Types
  <1> QED
    BY <1>1, InitTypes, StepTypes, PTL DEF Spec

\* A message that process() accepted is never left behind by an engine that goes
\* back to its semaphore, to its hook or to sleep in a collect(), where no
\* Thread::stop() gives up half way.
THEOREM NothingForgotten ==
    Spec => []NoForgottenMessage
  <1>1. Types /\ Signals /\ [Next]_vars => Types' /\ Signals'
    BY StepTypes, StepSignals
  <1>2. Signals => NoForgottenMessage
    BY DEF Signals
  <1> QED
    BY <1>1, <1>2, InitTypes, PTL DEF Spec

\* A queue without a message twice has as many messages as places.
LEMMA DistinctCount ==
    ASSUME NEW q \in Seq(Msgs), \A i, j \in 1 .. Len(q) : q[i] = q[j] => i = j
    PROVE  Cardinality({q[i] : i \in 1 .. Len(q)}) = Len(q)
  <1> DEFINE S == {q[i] : i \in 1 .. Len(q)}
             f == [i \in 1 .. Len(q) |-> q[i]]
  <1>1. f \in Bijection(1 .. Len(q), S)
    BY DEF Bijection, Injection, Surjection, IsInjective
  <1>2. Len(q) \in Nat
    OBVIOUS
  <1> HIDE DEF S, f
  <1>3. ExistsBijection(1 .. Len(q), S)
    BY <1>1, Zenon DEF ExistsBijection
  <1>4. Cardinality(S) = Len(q)
    BY <1>2, <1>3, FS_CountingElements
  <1> QED
    BY <1>4 DEF S

\* The invariant of all runs of the engines.
LEMMA AlwaysCustody == Spec => [](Types /\ Custody)
  <1>1. Types /\ Custody /\ [Next]_vars => Types' /\ Custody'
    BY StepTypes, StepCustody
  <1> QED
    BY <1>1, InitTypes, InitCustody, PTL DEF Spec

\* A message in a queue or in the hands of an engine is never freed, although do_send()
\* makes it refer to itself only after it was queued (LocalOperationCaller.hpp:139) and
\* its sender drops the handle at any time.
THEOREM NothingDangles == Spec => []NoDanglingMessage
  <1>1. Types /\ Custody => NoDanglingMessage
    <2> SUFFICES ASSUME Types, Custody, NEW e \in Engines, NEW m \in Queued(e) \cup InHand(e)
                 PROVE  m \in Alive
      BY DEF NoDanglingMessage
    <2>1. m \in Has(e)
      BY DEF Has, Held, InHand
    <2>2. m # NoMsg
      <3>1. mqueue[e] \in Seq(Msgs)
        BY DEF Types, TypeOK
      <3>2. \A i \in 1 .. Len(mqueue[e]) : mqueue[e][i] \in Msgs
        BY <3>1
      <3> QED
        BY <3>2 DEF Queued, InHand
    <2> QED
      BY <2>1, <2>2 DEF Custody, Kept, OwnCur, Alive
  <1> QED
    BY <1>1, AlwaysCustody, PTL

\* An OwnThread operation is executed by the thread of the engine that owns it, and its
\* return goes to the engine of the caller.
THEOREM InOwnThread == Spec => []OwnThread
  <1>1. Custody => OwnThread
    BY DEF Custody, AtHome, OwnThread
  <1> QED
    BY <1>1, AlwaysCustody, PTL

\* No message is in two queues, twice in one, or in a queue while an engine works on it.
THEOREM InOnePlace == Spec => []OnePlace
  <1>1. Types /\ Custody => OnePlace
    <2> SUFFICES ASSUME Types, Custody PROVE OnePlace
      OBVIOUS
    <2>1. \A e \in Engines : InHand(e) \subseteq Held(e)
      BY DEF InHand, Held
    <2>2. \A e, f \in Engines : e # f =>
             (Queued(e) \cup InHand(e)) \cap (Queued(f) \cup InHand(f)) = {}
      BY <2>1 DEF Custody, Single, Has
    <2>3. \A e \in Engines : InHand(e) \cap Queued(e) = {}
      BY <2>1 DEF Custody, Single
    <2>4. \A e \in Engines : Cardinality(Queued(e)) = Len(mqueue[e])
      BY DistinctCount DEF Custody, Single, Queued, Types, TypeOK
    <2> QED
      BY <2>2, <2>3, <2>4 DEF OnePlace
  <1> QED
    BY <1>1, AlwaysCustody, PTL
=============================================================================
