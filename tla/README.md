# A TLA+ verification of Orocos RTT

Orocos RTT is a C++ toolkit for real-time components. A component (`TaskContext`)
has an `ExecutionEngine` that runs its hooks, operations and scripts in the thread of
an activity, and exchanges data with other components through ports. What makes it
hard is that nearly all of this is lock-free or protected by one lock at a carefully
chosen moment: the queues and pools under the ports and the engines, the operation
calls that travel between two engines, the life cycle whose transitions are made by
client threads while the engine's thread runs the hooks.

Paths below are relative to `src/`; modules and configurations are in this directory.

- [Inventory](#inventory)
- [Plan](#plan)
- [The modules](#the-modules)
- [The runs](#the-runs)
- [Fairness](#fairness)
- [The proofs](#the-proofs)
- [Met while modelling](#met-while-modelling)
- [What is not modelled](#what-is-not-modelled)

## Inventory

| Component | State | Operations | What is hard | What makes it correct |
|---|---|---|---|---|
| Execution engine and operation calls (`rtt/ExecutionEngine.cpp`, `rtt/internal/LocalOperationCaller.hpp`, `rtt/SendHandle.hpp`) | `mqueue`, `f_queue`, `children`, `msg_lock`/`msg_cond`; per call a clone with `self`, the result store and the handles | `process`, `processMessages`, `processFunctions`, `processChildren`, `waitForMessages`, `stopTask`, `removeFunction`; `send`, `collect`, `executeAndDispose` | a message passes through two engines while its sender may forget it; one mutex held by one side of a condition only; full queues; engines that fail | executed once, by its owner's thread; never dereferenced after its destruction; never left in a queue; collectors return |
| Threads and activities (`rtt/os/Thread.cpp`, `rtt/Activity.cpp`) | `active`, `running`, `inloop`, `prepareForExit`, `period`, a semaphore, the mutex `breaker` | `start`, `stop`, `trigger`, `setPeriod`, `terminate`, `thread_function` | stop racing the wake-up; stop that times out; start of an active thread; changes of the period | no step outside `initialize()` and `finalize()`; a thread that sleeps has nothing to do; destruction ends |
| Task state machine (`rtt/base/TaskCore.cpp`) | `mTaskState`, `mTargetState`, `mInitialState` | `configure`, `start`, `stop`, `cleanup`, `recover`, `error`, `exception`, `fatal` | two threads, no lock; hooks that fail, throw or call operations | hooks exclude each other and come in order; states are left only as documented |
| Data objects (`rtt/base/DataObject*.hpp`) | a ring of buffers with reader counts, `read_ptr`, `write_ptr` | `Set`, `Get`, `data_sample` | the pointer is read before the count is raised; preempted readers | atomic register; wait-free writer |
| Lock-free queues (`rtt/internal/AtomicMWSRQueue.hpp`, `AtomicQueue.hpp`) | an array and two 16-bit indexes in one word | `enqueue`, `dequeue`, `isFull`, `size`, `clear` | claim and write are two steps; wrap of the indexes | bounded FIFO |
| Memory pool (`rtt/internal/TsPool.hpp`) | free list with a tagged head | `allocate`, `deallocate`, `clear` | ABA | no element lost or given out twice |
| Buffers (`rtt/base/BufferLockFree.hpp`, `BufferLocked.hpp`, `BufferUnSync.hpp`) | a queue of pointers into a pool | `Push`, `Pop`, `PopWithoutRelease`, `Release`, `clear` | pool and queue change at different times; circular `Push` is a reader | element ownership; FIFO |
| Connections and channels (`rtt/internal/Channel*Element.hpp`, `ConnectionManager.cpp`, `ConnFactory.cpp`) | chains of reference-counted elements, lists of channels | `write`, `read`, `disconnect`, `signal` | disconnecting while data flows; one reader round several channels | each sample `NewData` once; no call into a removed chain |
| Ports (`rtt/InputPort.hpp`, `OutputPort.hpp`, `DataFlowInterface.cpp`) | a manager, the last written sample | `write`, `read`, `connectTo`, `setDataSample` | a connection is added while another thread writes | a new connection starts from the last sample |
| Periodic, sequential and slave activities (`rtt/extras/`) | list of runnables, `runner` flags | `start`, `stop`, `execute`, `trigger` | step and stop in different threads | no step after stop |
| Timer (`rtt/os/Timer.cpp`) | expiry and period per timer, a mutex and a condition | `arm`, `startTimer`, `killTimer`, `loop` | a timer is killed while it expires | a killed timer does not fire |
| Signals (`rtt/internal/SignalBase.cpp`, `ListLockFree.hpp`) | list of connections, `emitting` | `emit`, `connect`, `disconnect` | handlers that connect and disconnect during emission | every handler that stays connected is called once |
| Scripting engine (`rtt/scripting/StateMachine.cpp`, `FunctionGraph.cpp`, `CallFunction.hpp`) | status and node of a program; current and next state, pending programs, `reqstep`, `currentProg` | `start`, `pause`, `step`, `stop`, `runFunction`, `removeFunction`; `activate`, `requestState`, `deactivate` | programs that are unloaded while they are executed; events during a transition; errors half way | a removed program is never executed again; programs run in their own state and in order; requests are honoured |
| Services, types, properties, marshalling, loaders, transports, logger, operating system layer | registries, trees, files | see `PROJECT.json` | mostly sequential or outside the repository | see `PROJECT.json` |

How they interact. A port's `write()` goes down a chain of channel elements into a
data object or a buffer and signals the reading component, whose engine is triggered
through its activity. An operation called from another component becomes a clone that
is enqueued in the owner's engine, executed by its thread and enqueued again in the
caller's engine, which disposes of it. `TaskCore` asks its engine to stop and start the
activity around `stopHook()`, and is stepped by it. Everything blocks on one of three
things: the semaphore of a thread, `msg_cond` of an engine, the mutex `breaker` of a
thread's loop.

`PROJECT.json` lists all components with what is modelled of each, and the hazards: the
lines at which each of these is hard to test.

## Plan

The most important behaviour first. Done:

1. `ExecutionEngine`: operation calls between engines. Proofs: all safety properties.
2. `DataObject`, `DataObjectLockFree`: the register and its lock-free implementation. Proofs: all safety properties and the implementation.
3. `TaskCore`: the life cycle with the thread of the engine and the threads of clients. Proofs: all safety properties, in the environments in which they hold.
4. `FifoQueue`, `AtomicMWSRQueue`: the queue below engines and buffers. Proofs: all safety properties and the implementation.
5. `TsPool`, and `BufferLockFree` over the queue and the pool. Proofs: all safety properties, and that the buffer implements the queue.
6. `FunctionGraph`, and `FunctionQueue` over it: programs in an engine, `removeFunction()`, the waits of clients. Proofs: all safety properties.
7. `StateMachine`: the state machines of the scripting engine. Proofs: all safety properties, for machines whose programs come in order.
8. `Connections`: channels, connection managers and ports with their storage. Proofs: all safety properties.
9. `Thread`: the thread of an activity, periodic and not. Proofs: all safety properties.

Next, in this order:

10. `Timer`, and `TimerThread` with `PeriodicActivity` over `Thread`.
11. `SignalBase` with its lists; `AtomicQueue`.
12. The children of an engine, and slave activities.

Every safety property of a run is stated by a theorem; what is left to prove are the new modules.

## The modules

Every action is one step of one thread on shared state, and is mapped in
`PROJECT.json` to the lines it translates. Operators named `X_Something` with the
comment "Mutant" are plausible bugs in the definition `X` that follows them; they are
used to make sure that each property notices one.

### ExecutionEngine

State: per engine `mqueue`, the semaphore `sem`, `active`, `running` and the stage of a
`Thread::stop()` (`stopper`), `fatal` (owner in FatalError), the holder of `msg_lock`, the
local `com` of `processMessages()`; per thread its place `pc` and the call it is in (`cur`,
`dest`, `accepted`); per message the owner's engine (`target`), the caller's engine
(`caller`), `executed`, and the two kinds of reference that keep a clone alive, `self` and
`handles`.

Actions, by the code they belong to: `Wake`, `WakeInVain` (thread_function), `Dequeue` to
`BroadcastMessages` (processMessages and executeAndDispose), `EndStep`, `Fatal`, `StopBegin` to
`StartActivity` (Thread), `Reject` to `Broadcast` (process), `Send`, `SendAccepted`,
`SendRefused`, `Forget` (send), `Collect` to `Relock` (collect and the waits). Which threads
call, and which engines may fail, be stopped or have a stop that gives up, are constants
(`MayCall`, `MayFail`, `MayStop`, `MayTimeOut`), so that each configuration says what
its environment does. `Fatal` happens in `updateHook()` or while an operation executes.

Abstractions: operations are leaves and have no data; clones are a finite set of messages
that are used again after they have died; the queue is a sequence, which `AtomicMWSRQueue`
justifies except for an item hidden behind a place that is claimed and not yet written (its
writer has still to trigger, and is a `TriggerComing` of `NoForgottenMessage`); the function queue is
in `FunctionQueue`; the children do not appear; the activity is not periodic, and `Trigger` is
one step (`Thread` has its two).

### DataObject and DataObjectLockFree

`DataObject` is an atomic register. `DataObjectLockFree` has the ring of buffers with a
step for each access of `Set()` and `Get()`; the copy of a sample begins in one step and
ends in another, and `NoTornCopy` says that no `Set()` is writing in between. The refinement
mapping is `data[read_ptr]` for the value, and the result of a `Get()` is fixed when it has
verified its lock.

`SetReturns` is checked with more readers than the object is made for: a `Set()` that finds
no room gives up (`GiveUp`).

### TaskCore

A thread is a stack of the calls it is in, because operations call hooks, hooks call
operations, `exception()` is called by all of them and calls three hooks itself, and
`stop()` calls the activity and comes back. The state is `mTaskState`, `mTargetState`, the
stacks with the return value of the last call (`stack`, `ret`), the activity as `stop()`,
`start()` and `trigger()` see it, and a history variable `life`: what the hooks have made of
the user's component (cleaned, configured, started), against which `HookOrder` compares.
User code is a parameter: a set of programs (`IsProgram`) that say what clients call, what
hooks call, which hooks throw and whether `stop()` may be refused. A queued operation that throws
has the engine call `exception()` (`OperationThrew`); what else operations do is in `ExecutionEngine`.

`mTargetState = mTaskState = s` is two stores that no lock protects, so it is two steps, in the order of the program: `ConfigureFailed`,
`Store` (of `recover()` and `error()`), `StopFailed`, `RaiseState`, `Fatal`, then `Target`, `RaiseTarget`,
`FatalTarget`. The conditions of `recover()` and `error()` are steps before them, and so is the copy that `exception()` makes. Merged is the condition
of `configure()`, `cleanup()`, `start()` and `stop()` with the store to `mTargetState` that follows, and that of an update with
its hook: only one client calls the former in the programs that are checked, and the engine stores nothing while they hold.

### FifoQueue and AtomicMWSRQueue

`FifoQueue` is what the queue promises: places are reserved at the end, filled in any order,
emptied at the front. `AtomicMWSRQueue` has the array and the indexes with one step for
each access to either; a compare-and-swap is one step that succeeds or fails. The
refinement mapping is the segment of the array between the indexes. The width of an index
is the constant `Width` (65536 in the code), and `QueueAssumption` asks that the places
(`size + 1`) are no more than that.

### TsPool

The free list with its tagged head; the elements in use are a set. `NotLapped` is the one
bound in a guard: no thread is overtaken in one attempt by as many changes as the tag has
values (65536 in the code, `Tags` here).

### BufferLockFree

The buffer over its queue and its pool. The pool is a set, as `TsPool` shows it to be; an
`enqueue` is a claim and a write, and a `dequeue` three accesses, because a circular `Push()`
makes them in a writer's thread too. `Overlap` says whether the calls of a circular buffer
overlap. The refinement mapping to `FifoQueue` replaces pointers by the values they
point to.

### FunctionGraph and FunctionQueue

A program is a chain of commands with a status, a place in the chain, and the requests of
its users (`FunctionGraph`, pure operators). `FunctionQueue` has the engine's `f_queue`,
the `RemoveMsg` part of `mqueue`, the engine's thread (`epc`, with the function `cur` it executes and
the round's `nbr`) and one client per function (`cpc`), which is a `CallFunction` or the user of
a program. The actions follow `runFunction()`, `removeFunction()`, `removeSelfFunction()`,
`processFunctions()`, `processMessages()` and the waits. A command is begun and ended in two
steps, and may throw, or wait for another component and process messages meanwhile.

Abstractions: one client per function; queues are never full; a `RemoveMsg` is executed in one
step. `MayHurry` says whether a `CallFunction` may be reset before its function is unloaded; the
run has it false, see below for what happens otherwise. So has it `MayJoin`, which lets a function be
queued between the `size()` and the `dequeue()` of a round that found the queue empty. A resident program is
loaded and started in the first state, or absent in the whole behaviour: then the queue is empty at times.

### StateMachine

The machine is a record `m`: `status`, `request`, the current and the next state, a slot for each kind
of program that may be pending (`trans`, `exit`, `entry`, `handle`, `run`), `prog` (currentProg), the
status of the programs, `req` (reqstep), the states whose events are connected. An operation of the code maps
a machine to the set of machines it may leave, since conditions and programs are user code; `ok` is what it
returned. Actions: `Execute`, the requests of users, and events.

An assumption on the users: all calls come from the engine's thread between two `execute()`, as those of events and of other programs
do. The code does not see to it: `StateMachineService` registers the operations for the thread of the caller
(`rtt/scripting/StateMachineService.cpp:68-91`, ClientThread by default), and only `execute()` and `deactivate()` take `execlock`, so that
a client of another thread may change the status while programs run. That is not modelled.

Abstractions: stepping through the
preconditions of a transition leaves the machine as it is; loading, unloading and events that a machine raises
itself are left out. `Patient` users wait for one request to be done before they make the next. `Announced` is what a theorem
needs of the programs: a state with a run or handle program has an exit program, the way into a state with a run program has an
exit or entry program before it, and run and handle programs do not end in error. `FinalRests`, for what is said of stopping: the final state has no
run program. `Restarts`, for what is said of priorities: a transition of a state to itself has a program or is the first. `executePending()` is cut where a program
ends: the rest of it is `ExitStages`, `EnterStages`, `HandleStages`.

### Connections

A connection is a chain of three elements (`Elements`): an endpoint at each port and a storage, which is
a locked buffer, linear or circular, or a data object. `chan` has the links that still exist, the ports the endpoints know,
the storage and the flags of a data connection; `conns` the list of each port and `current` the channel an input reads
from. Each thread has a sequence of instructions to do (`todo`), one per critical section or access of a shared
variable; a call puts the instructions of its body in front. Threads are the writer of each output, the reader of
each input, and clients that connect and disconnect.

Merged: `connectionAdded()` with the creation of the chain; taking the manager's lock with the beginning of a read. `Quiet`
connections are made while nobody writes, `Initialised` ones send the last sample when they are made. Two clients do not make and
break connections of the same ports at a time (`Pairs`, `MayDisconnect`).

`OnePerPair` and `Orderly` are what a theorem needs of the connections: no two have the same ports, and a buffer
that is initialised is quiet. What goes wrong otherwise is described below.

### Thread

State: the four flags, `period`, what the thread believes it to be (`cur_period`) and what the operating
system waits for (`task_period`), `overruns`, the semaphore, the holder of `breaker`, where `thread_function` is
(`at`) and where each caller is (`pc`). Callers are the owner, another client, and the runnable itself (`Self`), which calls
from its steps. `env` says what is called and what may fail. `hooked` and `owed` are history
variables: the last hook that was called, and whether a `start()` or `trigger()` is still to be answered by a step.

Merged: the reads of one condition; waking up and `configure()`; leaving `loop()` and giving the lock back. `overruns` is
bounded by `MaxOverrun + 1` and the semaphore by `MaxSignals`.

### MC modules

A module `MCX` gives the constants of `X` that a configuration cannot write down: functions, symmetry sets, the
programs of `TaskCore`, the environments of `Thread`, the machine of `StateMachine`. `MCTaskCore`, `MCThread`, `MCConnections` and `MCStateMachine` also evaluate the hypotheses of the
theorems for their instances.

## The runs

| Run | Instance | Shows |
|---|---|---|
| `EE_components` | engines a, b, both calling either engine; a may enter FatalError; both are stopped and started, b's stop may give up; 2 messages, queues of 1 | `NoDanglingMessage`, `OwnThread`, `OnePlace`, `NoForgottenMessage` |
| `EE_client` | a client thread that calls through the engine of a; 2 messages, queues of 1 | `ClientCollects` |
| `DO_register` | 2 readers, MAX_THREADS 3 (5 buffers), 2 samples | `CounterExact`, `NoTornCopy`, `RoomFound`, `IsDataObject` |
| `DO_wait_free` | 3 readers, MAX_THREADS 2, readers may stop anywhere | `SetReturns` |
| `TC_life` | one client and the engine, five programs | `HooksExclusive`, `Settled`, `HookOrder`, `StatesLeft`, `Updated` |
| `MQ_fifo` | 2 writers, 3 items in 4 places, indexes of 4 values, 2 values | `ClaimsExclusive`, `FullExact`, `IsFifoQueue`, `DequeueReturns` |
| `TP_pool` | 3 threads, 2 elements, 5 tags | `Conserved`, `SomeoneReturns` |
| `BF_fifo` | 3 writers, the reader, 2 places, 3 elements, linear and circular | `OneOwner`, `Intact`, `IsFifoQueue` |
| `FQ_programs` | a called function, a program that is loaded, driven and unloaded, one that stays; a command that throws, one that calls another component; the activity is stopped and started | `NothingLost`, `RemovedIsGone`, `NoDanglingRemove`, `RemoveReturns` |
| `SM_life` | two states and the final one, programs of all kinds, two of which fail, a global transition, two events, all requests | `PendingInOrder`, `PriorityKept`, `StoppedInFinal`, `NoStall` |
| `CN_ports` | outputs that write 2 samples and 1, one input, a circular buffer of 1 and a data connection, 2 clients | `EndsAgree`, `CurrentConnected`, `Noticed`, `NewIsNewer` |
| `TH_life` | the owner, another client and the runnable, 13 environments, at most 2 overruns | `Awake`, `Paced`, `StepsInside`, `Terminates` |

Every module states the types of its variables as `TypeOK`, which is no property of a run: it is proved where there are
proofs and says nothing that the other properties do not need.

Why the bounds are enough for what they show:

- Engines: two engines make every route a message can take (its own engine, the other
  one, a caller that is either). One-place queues are full whenever a second message arrives,
  so that refusals of a send and of a return both happen. Two messages let a second one overtake, wait
  behind or refuse the first; a third would only lengthen the queues.
- Data object: two readers hold two buffers and the search has to pass both; the
  general case is proved. Two samples tell a stale or torn value from the right one.
- Queue: two writers and the reader make every conflict of two compare-and-swaps; four
  places wrap several times; `Width = 4` makes the index wrap at its width in the same place as at
  the end of the array, the extreme that `QueueAssumption` allows. The general case is proved.
- Pool: an ABA needs one thread preempted and two others that change the head three times;
  five tags leave `NotLapped` room for that.
- Buffer: three writers and the reader can hold all three elements and leave the queue
  empty, which is where `Push()` of a linear buffer fails although there is room. A circular
  buffer is checked with calls that do not overlap (`PopWithoutRelease()` may keep its element
  across them), since the other case is wrong: see below.
- Life cycle: one client at a time, since nothing in the code orders the operations of two
  clients and no document allows it. The five programs of `TC_life` are: a component that
  clients stop, whose hooks may throw when clients call them, and whose stop may fail; one that nobody stops, whose engine
  calls `error()`, `recover()` and `fatal()` and throws; one whose `errorHook()` throws as well; one whose operations throw when the engine executes them,
  while clients recover, trigger and activate it; one whose operations throw and that nobody recovers. `Settled` says nothing of the
  fourth (`Racing`): `recover()` and `exception()` can overlap there, and leave the two states different (see below). The other
  properties hold of it.
  What lies between these programs is wrong in the code and described below: a
  `stop()` that meets an error or exception of the same step.

- Functions: one function of each kind of client; a command each, which is the one the engine is in when a client acts.
  Three functions make a round in which one is executed, one waits and one is removed.
- State machine: every kind of program exists in some state and is missing in another; every program may wait, so that
  each request and event arrives in every stage of a transition.
- Connections: two channels of different kinds make the reader change its current channel; two samples on one of
  them overwrite each other in both storages; two clients break a connection from both ends, or make one while the other breaks it.
- Thread: each environment has one kind of trouble, and those it can meet together. Two overruns in a row are the
  least that differ from one; three signals are more than the thread and two calls can use. With
  `overlap` conflicting calls overlap and only `Awake` and `Terminates` are claimed, since the code does not hold the others (below).

Deadlock is checked in all runs except those of `ExecutionEngine`, where the system may
stop for good: the callers are free not to call again, all engines sleep in
`rtos_sem_wait()`, and an engine in FatalError does nothing any more.

## Fairness

- `ExecutionEngine`: the operating system runs every thread that is not blocked (`WF` of the
  engine's own steps, of the steps inside a call, and of the two ends of a stop). No fairness
  on starting a call, on failing or on stopping. `msg_lock` is held for one step only, but a client that
  waits for it competes with the engine's own thread; the run shows that weak fairness
  suffices.
- `DataObjectLockFree`: the writer runs; readers may be preempted for ever while they
  hold a buffer. That is the claim "wait free".
- `AtomicMWSRQueue`: the reader runs; writers may stop anywhere.
- `TsPool`: threads inside a call run.
- `TaskCore`: threads inside a call run and hooks return; nobody has to call. A hook that
  calls operations again and again never returns, which is why calls by hooks are outside
  the fair steps and `Updated` is checked with programs in which that cannot starve it.
- `FunctionQueue`: the engine's thread runs, its activity is started again, commands end (`Step`, `CallAnswered` and
  the last conjunct: a command that pauses or calls is over again and again), and clients that are in a call go on.
- `StateMachine`: the engine executes the machine, and a program that may wait ends at last.
- `Thread`: threads that are not blocked run, steps and loops return, and a stop that competes for `breaker` again
  and again gets it or times out.
- `Connections` has safety properties only: with fairness its state space is too large. `Noticed` is the safety side of
  "a sample is read": new data that is not signalled has its signal coming.

## The proofs

Checked by TLAPS for every value of the constants that satisfies the named
assumptions.

`ExecutionEngineProofs`, from `EnginesAssumption`:

- `TypeCorrect`: `Spec => []TypeOK`, with the bound of the queues. `TypeOK` alone is not inductive:
  a message is appended (`Passed(t)`) that is `com` or `cur`, so `Locals` says when these are messages.
- `NothingForgotten`: `Spec => []NoForgottenMessage`. The strengthening is `StopOrder`: an engine that may run is
  active, and is not being stopped, so that a `Trigger` for it signals; whoever enqueues is
  a `TriggerComing`, and a thread that takes the semaphore down begins to empty the queue.
- `NothingDangles`, `InOwnThread`, `InOnePlace`: `NoDanglingMessage`, `OwnThread` and `OnePlace` hold always. None is inductive,
  and they need each other. `Custody` is: it says who keeps a message alive at every place of its route. A message that travels
  has `self` or the handle of the `send()` that still has it (`Kept`, `Sending`, `Sent`), which is why `do_send()` may set `self` late;
  one that is in a queue or in hand is there once and in the hands of one thread (`Has`, `Single`); where it is follows from
  `executed` (`AtHome`, `Replying`); and a message that is sent again is a dead one (`Fresh`). The steps are grouped by what they do to
  a message (`DequeueCustody`, `ExecuteCustody`, `LetGo`, `PassedMessage`, `Refused`, `Dropped`); `CustodyFrame` is
  for the rest.

`LockFreeProofs`, its part about `DataObjectLockFree`, from `DataObjectAssumption`; the last three also from `EnoughBuffers`, that
there are fewer readers than MAX_THREADS (which counts the writer):

- `TypeCorrect`, `Counted` (a counter is the cardinality of its holders, by the facts on finite sets).
- `AlwaysRoom`, `NeverTorn`: the inductive invariant is `TypeOK`, `CounterExact`, `Pointers` (where
  the writer stands relative to `read_ptr`), `Excluded` (nobody copies from a buffer the writer owns or
  will own) and `Bound`: the search has passed no more buffers than there are readers that could have held
  one. A count of readers against buffers then gives that the search ends
  before it is round; without that a `Set()` would publish the buffer it goes on writing.
- `Atomic`: `Spec => IsDataObject`.

`QueueProofs`, its part about `FunctionQueue`, from `FunctionsAssumption` and `Careful`: no `CallFunction` is reset before its function is unloaded, and the programs
that are unloaded have no command that throws or calls another component. `FQ_programs` keeps to it, and what happens to users
who do not is described below. `MayJoin` may be true.

- `Types`, `LoadedAreKept` (`NothingLost`), `RemovedAreGone` (`RemovedIsGone`), `NoMessageDangles` (`NoDanglingRemove`). The inductive invariant is
  `TypeOK` with `Locals` (what a place of the engine's thread says of `cur`), `OnePlace` (no function is queued twice, or queued and in hand), `Placed` (a
  function is in the engine exactly as long as its client has not found it removed), `Owners` (which client may be at which place) and `Messages` (one
  `RemoveMsg` per waiting client). `AppendMembers`, `TailMembers` and `WithoutMembers` say what the operations on sequences do to the members
  and to distinctness, so that the steps need no sequences.

`QueueProofs`, its part about `AtomicMWSRQueue`, from `QueueAssumption`:

- `TypeCorrect`, `Exclusive`, `FullCorrect`. The inductive invariant is `QueueTypeOK`, `QueueLocals` (what a thread
  knows between two of its steps), `FreeIsEmpty` (places outside the queue are empty) and `ClaimsExclusive`.
- `Implements`: `QueueSpec => IsFifoQueue`. Each step of the queue that moves an index or changes a place is
  shown to append, fill, take or drop in the segment between the indexes (`ClaimReserves`,
  `WriteFills`, `ClearTakes`, `ReleaseReleases`); the others leave the segment alone.

`LockFreeProofs`, its part about `TsPool`, from `PoolAssumption`; `NotLapped`, the guard on the tag, is part of the specification:

- `PoolTypes`, `PoolConserves` (`Conserved`). `ListIsRest` says that some sequence of distinct elements begins at the head, follows `next` to the
  end, and consists of what nobody uses or hands in; `ListWithoutFirst` and `ListWithFirst` are what the two compare-and-swaps do to
  it. A compare-and-swap may succeed because `TagTells`: a thread that finds its tag finds its head, and the link it has read since is still the link (`Locals`).
  `Follow`, by which `Conserved` collects the free elements, is a recursive function. What it computes (`FollowsList`) is shown by the
  least number for which it fails (`LeastMember`), since the library's induction takes an operator.

`BufferLockFreeProofs`, from `BufferAssumption` and `InTurn`: the calls of a circular buffer do not overlap (those of a linear one may):

- `Types`, `EachHasOneOwner` (`OneOwner`), `DequeuedStaysIntact` (`Intact`, an action property). The inductive invariant is `TypeOK` with `Calls` and `Solo` (where a
  thread may be, and that it is alone in a circular buffer), `ItemsOf` (what it has in its hands there), `Queue` (places that are not held, claimed or given
  back are empty, each claim has one writer), `Dropping` (the loop that drops elements finds one: it does not look), `Disjoint`
  and `Covered`. A step either leaves the elements where they are or is one of six moves (`ElementSteps`), and only these matter for the last two.
- `Implements`: `Spec => IsFifoQueue`. `Shown` is what a place shows through its pointer; `Contents` is the segment of it between the indexes. That a
  `Push()` fills its element before it is queued and nobody writes to it afterwards is `DataStays`, which `Disjoint` gives.

`ThreadProofs`, from `ThreadAssumption`. What an activity does depends on what its runnable and its clients do, so each property has a
hypothesis about the environments; `MCThread` has the three of them evaluated for the environments of `TH_life`, which they all cover. They say nothing of
environments in which the property itself claims nothing.

- `Types`. A call can signal the thread once, so the signals given and those that may come are counted together (`Bounded`); `Locals` and `Calls` say where a call may be.
- `StepsAreInside`: `Orderly => (Spec => StepsInside)`. Either the thread never stops itself (`Calm`), or nobody else stops it before its destruction, which waits
  as long as it takes, and one client starts it (`Alone`). `Excluded` follows from the guard on conflicting calls. In a calm environment
  whoever has cleared `running` keeps it cleared until `finalize()` or until it gives up, and `hooked` follows from `running` (`CalmFacts`); the
  lock a `stop()` has had means that no step is under way when it gets to `finalize()`. Alone, a `start()` finds `active` cleared, which the thread does last but `finalize()` in
  an emergency stop (`AloneFacts`); the refusal of a destructor's `breakLoop()` is the exception, and only of a thread that is not periodic.
  TLC refutes `StepsInside` when steps throw and there is a `stop()`, a `stop()` that times out, or another client's `trigger()`.
- `StaysPaced`: `Even => (Spec => []Paced)`. The activity stays periodic or not (`Fixed`), or its own steps switch it and nothing but a `start()` starts it
  (`Inward`). `Told` says who is still about to tell the operating system; `PaceFacts` that `start()` has not been overtaken by a `setPeriod()`. TLC
  refutes `Paced` when the steps switch it and `initialize()` may refuse a `start()` that a `trigger()` overlaps.
- `StaysAwake`: `Heeded => (Spec => []Awake)`. No `stop()` sets `running` again (`Attentive`); calls may overlap as they like. Without a signal, what is owed is
  in the hands of the thread, or of a call that has still to signal (`AwakeFacts`).

`TaskCoreProofs`, from `TaskCoreAssumption`. No lock keeps two operations of a component apart: what a client may rely on depends on what the hooks and the other clients do.

- `TypeCorrect`, of every program and any number of clients.
- `HooksExclude` (`HooksExclusive`), `StatesSettle` (`Settled`), `HooksOrdered` (`HookOrder`), `StatesKept` (`StatesLeft`), each from `\A u \in Users : Disciplined(u)`. A
  program is `Disciplined` in one of three ways. With one client (`OneClient`), either the client stops the component and its engine neither fails nor throws
  (`StoppedByClient`; the hooks that the client calls may fail and throw, and `stop()` may be refused), or nobody stops it and
  its engine fails, recovers, gives up and throws (`NobodyStops`). With any number of clients nobody starts it, and the operations that its engine executes
  throw (`NotStarted`). `Settled` excludes the program of these whose clients call `recover()` while an operation may throw (`Racing`), since the property
  fails there. `MCTaskCore` has TLC evaluate that the programs of `TC_life` are disciplined, and that those of the counterexamples are not: with
  `ErrorBeforeStop`, the step that a `stop()` has signalled enters `errorHook()` while the client is in `stopHook()`, and with `ThrowsBeforeStop` a second `stopHook()` follows that of
  `exception()`. A hook that calls `fatal()` and then throws leaves FatalError by the `exception()` that follows, so `NobodyStops` keeps the two apart.
- The inductive invariant is `Typed` with `Orderly` or, for `NotStarted`, `Unstarted`. The properties speak of the states and of the innermost call of each thread; which
  calls may be below that one, and what each of them has read before, is what has to be known. `Place(t, d)` and `Kept(t, d)` are the place of the `d`-th call of a thread, counted
  from the outermost, and the state it has saved, so that a step moves the last one and leaves the others. `ClientShape` and `EngineShape` say which calls are
  possible, `ClientState` and `EngineState` what is true of the states and of `life` while a thread is in them: `Fits`, what a state says of the
  component, holds only when no hook is under way. `Rest` is that a client outside the exclusive part of an operation leaves `mTaskState = mTargetState`, but for an engine
  between its two stores (`Halfway`), and
  `Apart` that the engine is in no hook while the client is in one. The engine tests the state before its hook, and the client has changed it by then or has waited
  for the step in `stop()`; `Holding` includes the moment at which that wait has ended.
- `MovedView`, `CalledView` and the like turn a step into what it does to `Depth`, `Place` and `Kept`, so that the steps of the invariant need no sequences;
  `Stays(u)` is what they leave of the other thread.

`ConnectionsProofs`, from `ConnectionsAssumption`, for any number of ports, connections and clients:

- `Types`, `CurrentIsConnected` (`CurrentConnected`), of every environment. The inductive invariant is `Shape`: `TypeOK`, `CurrentConnected` and `Readers`, that what
  a reader has still to read is in its list. It makes the channel it finds new data in the current one some steps later, and only the
  lock that it holds meanwhile keeps the channel connected.
- `EndsAlwaysAgree`: `OnePerPair => (Spec => []EndsAgree)`. `EndsAgree` speaks of the moments in which no client is at work; `Bonds` is what holds at the others. A
  disconnection goes from the `Near` end to the `Far` one and clears the links on its way back, so its instructions form a stack (`Stacked`, `Closed`).
  An end begins it once, when it loses its entry (`Once`), so there are at most two, from either end. While the far port has its entry, the
  links that lead to it are there and some client is on its way to that entry (`FarEnd`); each link that is left is one some client will clear (`Covers`,
  `Apart`), though another, from the other end, may have cleared those beyond. A connection that is being made is whole and nobody else's (`Made`, `Adding`). Without
  `OnePerPair` the entry that is removed may be that of another connection.
- `SamplesAreNoticed`: `OnePerPair => (Spec => []Noticed)`. `Attended` says in whose hands a sample that waits is: it is signalled, the writer has still
  to signal it, or the reader has still to look at it. A reader that finds another channel's sample reads again, which is why `mark` and `read` count.
- `NewIsAlwaysNewer`: `OnePerPair /\ Orderly => (Spec => []NewIsNewer)`. `Fresh` bounds what is stored by what was written, and keeps a sample that is on its
  way newer than all that is in the channel; `Writers` says that it is on its way to a channel once. A data connection needs only that the value read is not newer than the
  value stored, also between `Get()` and the flag. `Flow` is the conjunction of these, over `Shape` and `Bonds`.

The lemmas are about what an action does to the members of the lists and of the instructions (`Has`, `Listed`), so that the steps of the invariants need no
sequences; a client's action then preserves each part of `Bonded(c)` for its own connection and leaves the others alone.

`StateMachineProofs`, from `Patient` and `Announced`, `StopsInFinal` from `FinalRests` too, `PriorityIsKept` from `Restarts` too
(each theorem has them as hypotheses):

- `PendingKept` (`PendingInOrder`), `MachineTypes`, and `MachineKept`, the inductive invariant. It says, for each place where a machine can be left between
  two calls, what may be pending there: programs of its own state or of the next one (`Own`), which have been begun (`Begun`), one of which is current
  (`Current`); between two states the exit program of one and the entry program of the other, if they exist, and no handle program (`OnTheWay`); and that
  a machine that users see at rest is in its state (`Visible`), so that a request or an event finds the slots it overwrites empty, or an exit
  program that `leaveState()` puts in their place. `PendingInOrder` alone says nothing of where an error or a wait leaves the machine.
- An operation is a set of outcomes, composed by `Then`, an operator that takes an operator. The proof never expands it twice: `Ended`, `Waiting` and `Arrived`
  say how one program, or a sequence of stages, may end; each operation is shown to take a machine that keeps the invariant to
  outcomes of these kinds (`RequestNextState`, `ChangeState`, `ExecutePending`, one lemma each), and each action to settle one.
- `StopsInFinal` (`StoppedInFinal`). What a machine can do wrong while it stops is to turn elsewhere, and the invariant above does not
  exclude that. `Halting` does: a machine that is being stopped goes to the final state, has a program that is current and no handle program, so it is in transition
  as users see it and not interruptible, and requests and events leave it alone. `executePending()` then leaves it on the way, or in the final state with
  nothing to leave or enter (`Nearing`), and only the latter is called stopped.
- `PriorityIsKept` (`PriorityKept`). `executePending()` begins the evaluation anew where the state is switched, and only there, which the lemmas about it say
  (`Led`); so `changeState()` to another state, if it arrives, leaves `reqstep` at the beginning, and to the state itself it does so when a program
  is started (`ChangePrompt`). That is why a transition of a state to itself, the state's own or a global one, must have a program unless nothing comes before it.

Only model-checked: all liveness (`ClientCollects`, `SetReturns`, `Updated`,
`DequeueReturns`, `SomeoneReturns`, `RemoveReturns`, `NoStall`, `Terminates`), which is out of the prover's reach.

## Met while modelling

What the code does at these places is not what the properties above say, or not what a
comment or a document says. The models keep the code as it is; the runs are given the
programs and environments in which the property holds, and TLC finds the order of events
described here as soon as they are not.

Engine and operations:

- `process()` broadcasts `msg_cond` without `msg_lock` (`rtt/ExecutionEngine.cpp:249`). A component that waits in
  `collect()` inside its own step (lines 293-295) has processed its queue and tested its predicate; the answer is
  enqueued and broadcast before it waits. The next message would wake it; if there is none it
  sleeps for ever, where `rtt/ExecutionEngine.hpp:149-152` promises to return once the predicate holds. Clients outside any engine are safe
  (`ClientCollects`), because `processMessages()` passes the lock.
- A result rejected by the caller's engine in FatalError (`rtt/ExecutionEngine.cpp:245`) is disposed of without a
  broadcast; a client waiting on that engine is not woken, where `rtt/internal/LocalOperationCaller.hpp:73-74` promises a
  SendFailure. `EE_client` therefore has no FatalError.
- A `stop()` that fails clears `running` and sets it again (`rtt/os/Thread.cpp:421, 428, 437`); a signal consumed in between
  (`WakeInVain`) is lost, where `rtt/base/ActivityInterface.hpp:204-205` promises an execution. `NoForgottenMessage` therefore leaves out
  `MayTimeOut`.
- `do_send()` sets `self` after `process()` (`rtt/internal/LocalOperationCaller.hpp:139`): when the clone has been disposed of by then it
  owns itself for ever, a leak. `NoDanglingMessage` shows the other direction.

Life cycle:

- `stop()` of a component in RunTimeError restarts the engine (`rtt/ExecutionEngine.cpp:406`) before `stopHook()`, and the step
  this signals calls `errorHook()` meanwhile.
- `stop()` that waits for an `updateHook()` which throws calls `stopHook()` again and replaces Exception by Stopped
  (`rtt/base/TaskCore.cpp:219-221`), against `doc/xml/orocos-task-context.xml:1920-1926`.
- `error()` called by `startHook()` leaves the state Running and the target RunTimeError (`rtt/base/TaskCore.cpp:197`): neither
  `updateHook()` nor `errorHook()` is called, against `rtt/ExecutionEngine.cpp:344`.
- `fatal()` called by `configureHook()` is overwritten by the result of the hook
  (`rtt/base/TaskCore.cpp:109`), against `doc/xml/orocos-task-context.xml:1915-1917`.
- `stop()` from a client while `updateHook()` stops the component calls `stopHook()` twice (`rtt/base/TaskCore.cpp:220`).
- `exception()` and `recover()` store the two states one after the other, without a lock (`rtt/base/TaskCore.cpp:162,182`). An operation throws in
  the engine, whose `exception()` stores `mTaskState` = Exception; a client's `recover()` sees it, and stores both states as `mInitialState`; the
  engine stores `mTargetState` = Exception and calls `exceptionHook()`. Nobody is in a call any more and the states
  differ for good, against `rtt/base/TaskCore.hpp:148` ("a transition is taking place"). A `recover()` that has seen Exception
  may also store after a `fatal()`, when `exceptionHook()` throws: FatalError is lost.
- `exception()` does not look at the state it leaves (`rtt/base/TaskCore.cpp:161-162`). When two queued operations throw in one
  step and `exceptionHook()` throws too, the first enters FatalError and the second replaces it by Exception, from
  which `recover()` leads back, against `doc/xml/orocos-task-context.xml:1915-1917`.
- An operation that throws calls `exception()` in the thread of the engine (`rtt/ExecutionEngine.cpp:424`), whose hooks overlap with
  one that a client is in at that moment.
- `breakUpdateHook()` returns true (`rtt/base/TaskCore.cpp:311-314`); `rtt/base/TaskCore.hpp:389` says false by default.

Data objects, buffers and queues:

- `Push()` of a full circular `BufferLockFree` dequeues in the writer's thread (`rtt/base/BufferLockFree.hpp:173`) while the reader may be in
  `dequeue()`, where `rtt/internal/AtomicMWSRQueue.hpp:126` says "Only one thread may call this.": both get the same element, which is freed twice. Its
  loop does not look at the result either and may free the element of the round before again.
- The comment of `DataObjectLockFree` asks for readers+2*writers buffers (`rtt/base/DataObjectLockFree.hpp:72-73`): four for two readers
  and a writer, which is MAX_THREADS 2. With those, `EnoughBuffers` fails: the two readers hold two buffers, `read_ptr` a third, the search comes round to the
  buffer just written, takes it as free (line 206), and the next `Set()` writes into the
  buffer that is being read.
- `data_sample(sample)` of `BufferLockFree` empties the pool's books and not the queue (`rtt/base/BufferLockFree.hpp:98`); `rtt/base/BufferInterface.hpp:128-129`
  promises an empty buffer, and `rtt/OutputPort.hpp:230-239` calls it on live connections.
- A linear `Push()` fails on a buffer that is not full when other writers and the reader hold the elements
  (`rtt/base/BufferLockFree.hpp:149-152`).
- `dequeue()` returns "false if queue is empty" (`rtt/internal/AtomicMWSRQueue.hpp:245`), and also when the first place is claimed and not yet
  written (line 135) while later places are full.
- `AtomicMWSRQueue` takes any size; with 65536 or more the 16-bit index wraps before the
  end of the array (line 110), so that places are never used and `size()` is wrong.

Functions (`rtt/ExecutionEngine.cpp`, `rtt/scripting/`):

- A function that ends by itself while `removeFunction()` waits lets it return with the `RemoveMsg` of its stack still
  in the queue (line 180). In `FQ_programs` a `CallFunction` is reset when its function has been unloaded (`MayHurry` FALSE).
- In `processFunctions()` a function that arrives after an empty queue was measured makes `nbr` negative and the
  round endless as long as one function stays (lines 119-130): no message is processed any more, and with `MayJoin` TRUE
  `RemoveReturns` of `FunctionQueue` has a counterexample of 16 steps.
- A program blocked in a call while it executes is not found by a `RemoveMsg` executed meanwhile: it is unloaded and put
  back all the same.
- `processFunctions()` broadcasts without `msg_lock` too (line 125): `waitForFunctions()` may miss it. `removeFunction()`
  does not depend on it, but that a `CallFunction` of another thread returns cannot be claimed.
- `waitAndProcessFunctions()` executes a called function once and sleeps until a message comes (line 313).
- The results of `enqueue()` are ignored (lines 127, 141): a function a full queue refuses is lost and stays loaded.
- A program that is stopped and started again during a command has the node that `reset()` set overwritten
  (`rtt/scripting/FunctionGraph.cpp:269`).

State machines (`rtt/scripting/StateMachine.cpp`):

- `leaveState()` forgets `currentRun` and not `currentProg`: after a state with a run program and without any
  other program on the way the machine is "in transition" for ever. `SM_life` gives such a state an exit program.
- The same is left behind in rarer ways, which is why `Announced` asks for more: by a handle program that waits in a state without an exit program;
  by a run or handle program that ends in error, and an event that comes before the machine is deactivated; and by a stepped transition into a state with a
  run program, with no exit or entry program on the way, when an event, a request or `start()` comes before the switch.
- While a machine that is being stopped waits for the run program of its final state it is not in transition as users see it: a request for another state
  is accepted, and when it is done the machine is called stopped, in that state. TLC finds it in 6 steps. `FinalRests` excludes such programs.
- `start()` during a transition schedules the run program of the old state, which runs in the new one (line 218).
- `start()`, `reactive()`, `stop()` and requests during a deactivation cancel or stall it; `deactivate()` with a stop
  pending never becomes inactive, with a reset pending it becomes active without a state (lines 281-307). An error
  while a request is served is overwritten by active (line 321).
- `stop()` of a machine in error does not reach the final state, although `rtt/scripting/StateMachine.hpp` says that
  `requestFinalState()` always proceeds.
- A transition of a state to itself without a program does not begin the evaluation anew (lines 420-433): transitions before it wait
  for a round.
- Paused entry and handle programs are not resumed by `start()`. `executeProgram()` dereferences a current program that
  the program itself may have removed (line 1106). The iterator of a stepped precondition is kept from one
  transition to another (lines 693-723). A deactivation in a transition leaves the events of the next state
  connected.
- `recursiveCheckLoadStateMachine()` has its check of the children behind a throw (`rtt/scripting/ScriptingService.cpp:217-224`).

Connections and ports:

- `removeConnection()` finds an entry by the port at the other end (`rtt/internal/ConnectionManager.cpp:144`). With two connections
  between the same ports that are broken at once, or one made while the other is broken, a dead channel stays in the
  input's list, or `inputReady()` calls a null port.
- A connection is in the output's list before the input's (`rtt/internal/ConnFactory.cpp:102`): a sample that signals
  in between cannot be read and is not signalled again. In `CN_ports` the buffer is connected while nobody writes.
- `write()` keeps the last sample before it writes it to the connections (`rtt/OutputPort.hpp:250`): a connection made meanwhile
  gets it twice or not at all. In `CN_ports` only the data connection is initialised, where the second copy replaces the first.
- The flags of `ChannelDataElement` are set without a lock (`rtt/internal/ChannelDataElement.hpp:66`): a sample may be new twice, or be read as OldData
  first, where `FlowStatus` says that old data was already read.
- `setDataSample()` of a live connection delivers the sample, where `rtt/OutputPort.hpp` says it will not, and drops what a buffer
  holds, without its lock (`rtt/base/BufferLocked.hpp:83`).
- `dataOnPort()` queues a port each time it is signalled, in 64 places, and ignores a refusal (`rtt/TaskContext.cpp:423`).
- `read()` tries the current channel first (`rtt/internal/ConnectionManager.hpp:163`): one that always has new data starves the others.

Threads (`rtt/os/Thread.cpp`, `rtt/Activity.cpp`):

- A non-periodic thread does not test `running` again under `breaker` (lines 123, 176): its `loop()` may begin after a `stop()` that
  has called `finalize()` and returned true, where the comment of line 174 says that `stop()` waits.
- `trigger()` tests `isActive()` and calls `start()` (`rtt/Activity.cpp:128`): when a `stop()`, an emergency stop or a failing
  `initialize()` comes in between, it initialises and starts a stopped activity, which may end up running and not active.
- A `stop()` that times out sets `running` after the thread has left its loop: an active, running, periodic thread sleeps.
  After an emergency stop it steps although it is not active.
- `configure()` between the two halves of `setPeriod()` tells the operating system period 0 while `cur_period` already
  has the new one: the thread steps without ever waiting. A stale `cur_period` also keeps an old rate that was changed and changed back. `Paced`
  leaves these environments out (`SwitchedOutside`).
- `overruns` is not reset by an emergency stop and compared for equality (line 162): a thread started at once counts past the limit.
- An emergency stop that overlaps a `stop()` calls `finalize()` twice. Between its two halves (lines 228, 230) a whole `stop()` and `start()` fit: it then clears `active` and
  calls `finalize()` of the activity started again, which goes on stepping.
- A `trigger()` that finds the activity active during a `start()` whose `initialize()` refuses starts it itself. Its `rtos_task_make_periodic()` (line 390) between the two
  halves of a `setPeriod()` of the first step leaves the operating system with period 0.
- A `stop()` whose `breakLoop()` returns false after `loop()` has returned sets `running` again (line 428): the signal of a `trigger()` that the thread took in
  between is lost. A `Runnable` that does not implement `breakLoop()` returns false.
- A step that stops its own activity has `finalize()` called inside it, and a client may start it before that step returns.

## What is not modelled

- The children of an engine, timers, signals, `TimerThread` and the activities of `rtt/extras/`, `AtomicQueue`: planned.
- The creation of threads, priorities and affinities: they belong to the operating system.
- Connections through streams, remote and out-of-band transports, `setDataSample()`, `DataFlowInterface`, the
  destruction of a port that is connected.
- Weak memory. All steps are sequentially consistent. `DataObjectLockFree` marks two places "XXX smp_mb"; on the
  processors whose CAS and atomic counters are in `rtt/os/` these instructions order the accesses.
- Script parsers, type kits, marshalling, loaders, transports, the logger and the operating system layer:
  sequential tree building, tables, files, or behaviour that belongs to code outside the
  repository. `PROJECT.json` gives the reason for each.
