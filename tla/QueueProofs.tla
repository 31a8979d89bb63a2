----------------------------- MODULE QueueProofs -----------------------------
(***************************************************************************)
(* The two queues of the engine: the queue of its functions, for any       *)
(* number of functions and clients and programs of any length, and the     *)
(* lock-free queue of its messages, for any number of writers and any size *)
(* the indexes can count.  Each part is about one of them; neither uses    *)
(* the other.                                                              *)
(***************************************************************************)
EXTENDS FunctionQueue, AtomicMWSRQueue, FiniteSetTheorems, SequenceTheorems, TLAPS

-----------------------------------------------------------------------------
(***************************************************************************)
(* FunctionQueue.                                                          *)
(***************************************************************************)
\* What the users of the engine keep to: a CallFunction is reset when its function has
\* been unloaded, and a program that is unloaded has no command that throws or calls
\* another component.  README says what happens otherwise.
Careful == ~MayHurry /\ MayThrow \cup MayCall \subseteq Called \cup Resident

Members(q) == {q[i] : i \in 1 .. Len(q)}
Distinct(q) == \A i, j \in 1 .. Len(q) : q[i] = q[j] => i = j

\* Where the engine's thread has a function that it took out of the queue.
InHand == {"execute", "command", "single", "requeue", "unload", "signal", "blocked"}

\* The engine will execute f, keep it or unload it.
Owed(f) == f \in Members(fqueue) \/ (cur = f /\ epc # "signal")

\* The locals of step(), and of the processMessages() that a command may call.
Locals ==
    /\ epc \in {"idle", "messages", "broadcast", "functions"} \cup InHand
    /\ cur # None <=> epc \in InHand \/ nested
    /\ nested => epc \in {"messages", "broadcast", "blocked"} /\ cur \in MayCall
    /\ epc = "blocked" => nested
    /\ epc = "unload" => cur \in Called \cup Resident
    /\ ~active => epc = "idle"

\* A function is in one place of the engine.
OnePlace ==
    /\ Distinct(fqueue)
    /\ cur \in Members(fqueue) => epc = "signal"

\* The engine holds the functions that are loaded and enqueued, until their removal.
Placed ==
    \A f \in Functions :
        Owed(f) <=> /\ f \in loaded /\ f \notin found
                    /\ cpc[f] \in {"in", "done"} \/ Waiting(f)

\* Where the client of f is, and what the engine has been told about f.
Owners ==
    \A f \in Functions :
        /\ Waiting(f) \/ cpc[f] \in {"found", "enqueue"} => f \in loaded
        /\ cpc[f] = "done" => f \in Called
        /\ Waiting(f) => f \notin Called \cup Resident
        /\ f \in Resident => cpc[f] \in {"in", "out"}
        /\ cpc[f] = "out" => f \notin loaded
        /\ f \in found => Waiting(f) \/ cpc[f] = "found"

\* A RemoveMsg waits for the engine no longer than its sender does.
Messages ==
    /\ Distinct(mqueue)
    /\ \A f \in Functions : f \in Members(mqueue) => Waiting(f) /\ f \notin found

Inv == Locals /\ OnePlace /\ Placed /\ Owners /\ Messages

USE FunctionsAssumption, ExitAssumption

-----------------------------------------------------------------------------
(***************************************************************************)
(* Sequences without repetition.                                           *)
(***************************************************************************)

\* AtomicMWSRQueue::enqueue() of something new.
LEMMA AppendMembers ==
    ASSUME NEW S, NEW q \in Seq(S), NEW x \in S
    PROVE  /\ Append(q, x) \in Seq(S)
           /\ Members(Append(q, x)) = Members(q) \cup {x}
           /\ Distinct(q) /\ x \notin Members(q) => Distinct(Append(q, x))
  <1>1. /\ Append(q, x) \in Seq(S) /\ Len(q) \in Nat
        /\ Len(Append(q, x)) = Len(q) + 1 /\ Append(q, x)[Len(q) + 1] = x
        /\ \A i \in 1 .. Len(q) : Append(q, x)[i] = q[i]
    OBVIOUS
  <1>2. 1 .. Len(q) + 1 = (1 .. Len(q)) \cup {Len(q) + 1}
    BY <1>1
  <1> HIDE DEF Members
  <1>3. Members(Append(q, x)) = Members(q) \cup {x}
    <2>1. Members(Append(q, x)) = {Append(q, x)[i] : i \in (1 .. Len(q)) \cup {Len(q) + 1}}
      BY <1>1, <1>2 DEF Members
    <2>2. {Append(q, x)[i] : i \in 1 .. Len(q)} = Members(q)
      BY <1>1 DEF Members
    <2> QED
      BY <1>1, <2>1, <2>2
  <1>4. ASSUME Distinct(q), x \notin Members(q) PROVE Distinct(Append(q, x))
    <2> SUFFICES ASSUME NEW i \in 1 .. Len(q) + 1, NEW j \in 1 .. Len(q) + 1,
                        Append(q, x)[i] = Append(q, x)[j]
                 PROVE  i = j
      BY <1>1 DEF Distinct
    <2>1. \A k \in 1 .. Len(q) : q[k] # x
      BY <1>4 DEF Members
    <2> QED
      BY <1>1, <1>2, <1>4, <2>1 DEF Distinct
  <1> QED
    BY <1>1, <1>3, <1>4

\* dequeue() of a queue that is not empty.
LEMMA TailMembers ==
    ASSUME NEW S, NEW q \in Seq(S), q # <<>>, Distinct(q)
    PROVE  /\ Tail(q) \in Seq(S) /\ Head(q) \in S /\ Head(q) \in Members(q)
           /\ Members(Tail(q)) = Members(q) \ {Head(q)}
           /\ Distinct(Tail(q))
  <1>1. /\ Tail(q) \in Seq(S) /\ Head(q) \in S /\ Head(q) = q[1] /\ 1 \in 1 .. Len(q)
        /\ Len(q) \in Nat /\ Len(Tail(q)) = Len(q) - 1
        /\ \A i \in 1 .. Len(q) - 1 : Tail(q)[i] = q[i + 1] /\ i + 1 \in 1 .. Len(q)
    OBVIOUS
  <1>2. Members(Tail(q)) = Members(q) \ {Head(q)}
    <2>1. ASSUME NEW x \in Members(Tail(q)) PROVE x \in Members(q) \ {Head(q)}
      <3>1. PICK i \in 1 .. Len(Tail(q)) : x = Tail(q)[i]
        BY DEF Members
      <3>2. i + 1 \in 1 .. Len(q) /\ x = q[i + 1] /\ i + 1 # 1
        BY <1>1, <3>1
      <3> QED
        BY <1>1, <3>2 DEF Members, Distinct
    <2>2. ASSUME NEW x \in Members(q) \ {Head(q)} PROVE x \in Members(Tail(q))
      <3>1. PICK i \in 1 .. Len(q) : x = q[i]
        BY DEF Members
      <3>2. i - 1 \in 1 .. Len(Tail(q)) /\ Tail(q)[i - 1] = x
        BY <1>1, <3>1
      <3> QED
        BY <3>2 DEF Members
    <2> QED
      BY <2>1, <2>2
  <1>3. Distinct(Tail(q))
    BY <1>1 DEF Distinct
  <1> QED
    BY <1>1, <1>2, <1>3 DEF Members

\* removeSelfFunction() takes out f, and nothing else.
LEMMA WithoutMembers ==
    ASSUME fqueue \in Seq(Functions), Distinct(fqueue), NEW f
    PROVE  /\ Without(f) \in Seq(Functions)
           /\ Members(Without(f)) = Members(fqueue) \ {f}
           /\ Distinct(Without(f))
  <1>1. CASE f \notin Members(fqueue)
    <2>1. Without(f) = fqueue
      BY <1>1 DEF Without, Members
    <2> QED
      BY <1>1, <2>1
  <1>2. CASE f \in Members(fqueue)
    <2> DEFINE n == Len(fqueue)
    <2>1. DOMAIN fqueue = 1 .. n /\ n \in Nat
      OBVIOUS
    <2>2. PICK k \in 1 .. n : /\ fqueue[k] = f
                              /\ Without(f) = SubSeq(fqueue, k + 1, n) \o SubSeq(fqueue, 1, k - 1)
      <3>1. \E i \in DOMAIN fqueue : fqueue[i] = f
        BY <1>2, <2>1 DEF Members
      <3> DEFINE c == CHOOSE i \in DOMAIN fqueue : fqueue[i] = f
      <3>2. c \in 1 .. n /\ fqueue[c] = f
        BY <2>1, <3>1
      <3>3. Without(f) = SubSeq(fqueue, c + 1, n) \o SubSeq(fqueue, 1, c - 1)
        BY <3>1 DEF Without
      <3> QED
        BY <3>2, <3>3
    <2> DEFINE a == SubSeq(fqueue, k + 1, n)
               b == SubSeq(fqueue, 1, k - 1)
    <2>3. /\ a \in Seq(Functions) /\ Len(a) = n - k
          /\ \A i \in 1 .. n - k : a[i] = fqueue[k + i]
      <3>0. k + 1 \in Int /\ n \in Int /\ \A i \in k + 1 .. n : fqueue[i] \in Functions
        BY <2>1
      <3>1. /\ a \in Seq(Functions) /\ Len(a) = IF k + 1 <= n THEN n - (k + 1) + 1 ELSE 0
            /\ \A i \in 1 .. n - (k + 1) + 1 : a[i] = fqueue[(k + 1) + i - 1]
        BY <3>0, SubSeqProperties
      <3>2. \A i \in 1 .. n - k : (k + 1) + i - 1 = k + i
        BY <2>1
      <3> HIDE DEF a
      <3>3. n - (k + 1) + 1 = n - k
        BY <2>1
      <3>4. \A x \in Nat : \A y \in 1 .. x :
               (IF y + 1 <= x THEN x - (y + 1) + 1 ELSE 0) = x - y
        OBVIOUS
      <3>5. (IF k + 1 <= n THEN n - (k + 1) + 1 ELSE 0) = n - k
        BY <2>1, <3>4
      <3> QED
        BY <3>1, <3>2, <3>3, <3>5
    <2>4. /\ b \in Seq(Functions) /\ Len(b) = k - 1
          /\ \A i \in 1 .. k - 1 : b[i] = fqueue[i]
      BY <2>1
    <2> HIDE DEF a, b
    <2>5. /\ a \o b \in Seq(Functions) /\ Len(a \o b) = n - 1
          /\ \A i \in 1 .. n - k : (a \o b)[i] = fqueue[k + i]
          /\ \A i \in n - k + 1 .. n - 1 : (a \o b)[i] = fqueue[i - (n - k)]
      <3>0. a \o b \in Seq(Functions) /\ Len(a \o b) = Len(a) + Len(b)
        <4>1. a \in Seq(Functions) /\ b \in Seq(Functions)
          BY <2>3, <2>4
        <4> QED
          BY <4>1, ConcatProperties
      <3>1. a \o b \in Seq(Functions) /\ Len(a \o b) = n - 1
        BY <2>1, <2>3, <2>4, <3>0
      <3>2. \A i \in 1 .. n - k : (a \o b)[i] = a[i]
        BY <2>1, <2>3, <2>4
      <3>3. \A i \in n - k + 1 .. n - 1 : (a \o b)[i] = b[i - (n - k)]
                                          /\ i - (n - k) \in 1 .. k - 1
        BY <2>1, <2>3, <2>4
      <3> QED
        BY <2>3, <2>4, <3>1, <3>2, <3>3
    <2>6. Without(f) = a \o b
      BY <2>2 DEF a, b
    <2>7. \A i \in 1 .. n - 1 :
             \E j \in 1 .. n \ {k} : /\ (a \o b)[i] = fqueue[j]
                                     /\ i = IF j > k THEN j - k ELSE j + (n - k)
      <3> TAKE i \in 1 .. n - 1
      <3>1. CASE i <= n - k
        <4>1. k + i \in 1 .. n \ {k} /\ (a \o b)[i] = fqueue[k + i]
          BY <2>1, <2>5, <3>1
        <4> QED
          BY <2>1, <4>1
      <3>2. CASE i > n - k
        <4>1. i - (n - k) \in 1 .. n \ {k} /\ (a \o b)[i] = fqueue[i - (n - k)]
          BY <2>1, <2>5, <3>2
        <4> QED
          BY <2>1, <3>2, <4>1
      <3>3. i <= n - k \/ i > n - k
        BY <2>1
      <3> QED
        BY <3>1, <3>2, <3>3
    <2>8. \A j \in 1 .. n \ {k} : \E i \in 1 .. n - 1 : (a \o b)[i] = fqueue[j]
      <3> TAKE j \in 1 .. n \ {k}
      <3>1. CASE j > k
        <4>1. j - k \in 1 .. n - k /\ k + (j - k) = j /\ j - k \in 1 .. n - 1
          BY <2>1, <3>1
        <4> QED
          BY <2>5, <4>1
      <3>2. CASE j < k
        <4>1. j + (n - k) \in n - k + 1 .. n - 1 /\ (j + (n - k)) - (n - k) = j
              /\ j + (n - k) \in 1 .. n - 1
          BY <2>1, <3>2
        <4> QED
          BY <2>5, <4>1
      <3>3. j > k \/ j < k
        BY <2>1
      <3> QED
        BY <3>1, <3>2, <3>3
    <2>9. \A j \in 1 .. n \ {k} : fqueue[j] # f
      BY <2>2 DEF Distinct
    <2>10. Members(a \o b) = Members(fqueue) \ {f}
      <3>1. ASSUME NEW x \in Members(a \o b) PROVE x \in Members(fqueue) \ {f}
        <4>1. PICK i \in 1 .. n - 1 : x = (a \o b)[i]
          BY <2>5 DEF Members
        <4>2. PICK j \in 1 .. n \ {k} : x = fqueue[j]
          BY <2>7, <4>1
        <4>3. x # f
          BY <2>9, <4>2
        <4>4. x \in Members(fqueue)
          BY <4>2 DEF Members
        <4> QED
          BY <4>3, <4>4
      <3>2. ASSUME NEW x \in Members(fqueue) \ {f} PROVE x \in Members(a \o b)
        <4>1. PICK j \in 1 .. n : x = fqueue[j]
          BY DEF Members
        <4>2. j # k
          BY <2>2, <4>1
        <4>3. PICK i \in 1 .. n - 1 : (a \o b)[i] = fqueue[j]
          BY <2>8, <4>1, <4>2
        <4> QED
          BY <2>5, <4>1, <4>3 DEF Members
      <3> QED
        BY <3>1, <3>2
    <2>11. Distinct(a \o b)
      <3> SUFFICES ASSUME NEW x \in 1 .. n - 1, NEW y \in 1 .. n - 1, (a \o b)[x] = (a \o b)[y]
                   PROVE  x = y
        BY <2>5 DEF Distinct
      <3>1. PICK i \in 1 .. n \ {k} : /\ (a \o b)[x] = fqueue[i]
                                      /\ x = IF i > k THEN i - k ELSE i + (n - k)
        BY <2>7
      <3>2. PICK j \in 1 .. n \ {k} : /\ (a \o b)[y] = fqueue[j]
                                      /\ y = IF j > k THEN j - k ELSE j + (n - k)
        BY <2>7
      <3>3. i = j
        BY <3>1, <3>2 DEF Distinct
      <3> QED
        BY <3>1, <3>2, <3>3
    <2> QED
      BY <2>5, <2>6, <2>10, <2>11
  <1> QED
    BY <1>1, <1>2


\* A queue without repetition is no longer than the set of its members.
LEMMA QueueBound ==
    ASSUME fqueue \in Seq(Functions), Distinct(fqueue)
    PROVE  Len(fqueue) \in 0 .. Cardinality(Functions)
  <1>1. Len(fqueue) \in Nat /\ fqueue \in [1 .. Len(fqueue) -> Functions]
    OBVIOUS
  <1>2. fqueue \in Injection(1 .. Len(fqueue), Functions)
    BY <1>1 DEF Injection, IsInjective, Distinct
  <1>3. Cardinality(1 .. Len(fqueue)) <= Cardinality(Functions)
    BY <1>2, FS_Injection
  <1>4. Cardinality(1 .. Len(fqueue)) = Len(fqueue)
    BY <1>1, FS_Interval
  <1>5. Cardinality(Functions) \in Nat
    BY FS_CardinalityType
  <1> QED
    BY <1>1, <1>3, <1>4, <1>5

-----------------------------------------------------------------------------
(***************************************************************************)
(* The operations of a program keep its type.                              *)
(***************************************************************************)
LEMMA ProgramTypes ==
    ASSUME NEW p \in Program
    PROVE  /\ Reset(p) \in Program /\ Stop(p) \in Program /\ Start(p) \in Program
           /\ Pause(p) \in Program /\ StepOnce(p) \in Program /\ Paused(p) \in Program
           /\ Stepped(p) \in Program /\ Begun(p) \in Program /\ Thrown(p) \in Program
           /\ \A n \in 0 .. Exit : LedTo(p, n) \in Program
           /\ NewProgram \in Program /\ p.node \in 0 .. Exit
  <1>0. Stop(p) \in Program
    BY DEF Program, Statuses, Stop
  <1>1. Reset(p) \in Program
    <2>1. \A x \in Program : [x EXCEPT !.node = 0] \in Program
      BY DEF Program
    <2>2. \A x \in Program : [x EXCEPT !.fresh = TRUE] \in Program
      BY DEF Program
    <2>3. \A x \in Program : [x EXCEPT !.status = "stopped"] \in Program
      BY DEF Program, Statuses
    <2> QED
      BY <2>1, <2>2, <2>3 DEF Reset
  <1>2. Rewound(p) \in Program
    BY <1>1 DEF Rewound
  <1>3. Start(p) \in Program
    <2>1. [Rewound(p) EXCEPT !.status = "running"] \in Program
      BY <1>2 DEF Program, Statuses
    <2> QED
      BY <2>1 DEF Start
  <1>4. Pause(p) \in Program
    BY <1>2 DEF Pause, Program
  <1>5. StepOnce(p) \in Program /\ Stepped(p) \in Program
    BY DEF StepOnce, Stepped, Program
  <1>6. Paused(p) \in Program /\ Thrown(p) \in Program
    BY DEF Paused, Thrown, Program, Statuses
  <1>7. Begun(p) \in Program
    BY DEF Begun, Program
  <1>8. \A n \in 0 .. Exit : LedTo(p, n) \in Program
    BY DEF LedTo, Program
  <1>9. NewProgram \in Program /\ p.node \in 0 .. Exit
    BY DEF NewProgram, Program, Statuses
  <1> QED
    BY <1>0, <1>1, <1>3, <1>4, <1>5, <1>6, <1>7, <1>8, <1>9

LEMMA UpdateType ==
    ASSUME prog \in [Functions -> Program], NEW f, NEW p \in Program, Update(f, p)
    PROVE  prog' \in [Functions -> Program]
  BY DEF Update

-----------------------------------------------------------------------------
(***************************************************************************)
(* Initially the engine holds the residents that are loaded.               *)
(***************************************************************************)

\* SetToSeq(S) is a sequence of the members of S, each of them once.
LEMMA SetToSeqMembers ==
    ASSUME NEW S \in SUBSET Functions
    PROVE  /\ SetToSeq(S) \in Seq(Functions) /\ Members(SetToSeq(S)) = S
           /\ Distinct(SetToSeq(S))
  <1>1. IsFiniteSet(S) /\ Cardinality(S) \in Nat
    BY FS_Subset, FS_CardinalityType
  <1> DEFINE n == Cardinality(S)
             q == SetToSeq(S)
  <1>2. \E b \in [1 .. n -> S] : IsInjective(b)
    BY <1>1, FS_CardinalityType DEF ExistsBijection, Bijection, Injection
  <1>3. q \in [1 .. n -> S] /\ IsInjective(q)
    BY <1>2 DEF SetToSeq
  <1> HIDE DEF q
  <1>4. \A f \in S : \E i \in 1 .. n : q[i] = f
    <2>1. q \in Injection(1 .. n, S)
      BY <1>3 DEF Injection
    <2>2. IsFiniteSet(1 .. n) /\ Cardinality(1 .. n) = n
      BY <1>1, FS_Interval
    <2>3. q \in Surjection(1 .. n, S)
      BY <1>1, <2>1, <2>2, FS_Injection
    <2> QED
      BY <2>3 DEF Surjection
  <1>5. q \in Seq(Functions) /\ Len(q) = n
    BY <1>1, <1>3
  <1>6. Members(q) = S
    BY <1>3, <1>4, <1>5 DEF Members
  <1>7. Distinct(q)
    BY <1>3, <1>5 DEF Distinct, IsInjective
  <1> QED
    BY <1>5, <1>6, <1>7 DEF q

IInv == TypeOK /\ Inv

LEMMA InitInv == Init => IInv
  <1> SUFFICES ASSUME Init PROVE IInv
    OBVIOUS
  <1>1. fqueue \in Seq(Functions) /\ Members(fqueue) = loaded /\ Distinct(fqueue)
    BY SetToSeqMembers DEF Init
  <1>2. mqueue \in Seq(Functions) /\ Members(mqueue) = {} /\ Distinct(mqueue)
    BY DEF Init, Members, Distinct
  <1>3. NewProgram \in Program
    BY DEF NewProgram, Program, Statuses
  <1>4. Start(NewProgram) \in Program
    BY <1>3, ProgramTypes
  <1>5. Cardinality(Functions) \in Nat
    BY FS_CardinalityType
  <1>6. TypeOK
    <2>1. prog \in [Functions -> Program]
      BY <1>3, <1>4 DEF Init
    <2>2. cpc \in [Functions -> {"in", "out"}]
      BY DEF Init
    <2>3. nbr \in -1 .. Cardinality(Functions) /\ at \in 0 .. Exit
      BY <1>5 DEF Init
    <2>4. cpc \in [Functions -> {"out", "enqueue", "in", "done", "wait", "lock",
                                 "test", "sleep", "asleep", "found"}]
      BY <2>2
    <2> QED
      BY <1>1, <1>2, <2>1, <2>3, <2>4 DEF Init, TypeOK
  <1> HIDE DEF Members, Distinct
  <1>7. Locals /\ OnePlace /\ Placed /\ Owners /\ Messages
    BY <1>1, <1>2 DEF Init, Locals, InHand, OnePlace, Placed, Owed, Owners, Messages, Waiting
  <1> QED
    BY <1>6, <1>7 DEF IInv, Inv

-----------------------------------------------------------------------------
(***************************************************************************)
(* Steps of the engine that leave the queues and the clients alone.        *)
(***************************************************************************)

\* The queues, the clients and what the engine has in hand are as before.
LEMMA HandKept ==
    ASSUME OnePlace, Placed, Owners, Messages,
           UNCHANGED <<loaded, fqueue, mqueue, found, cpc, cur>>,
           epc = "signal" <=> epc' = "signal"
    PROVE  OnePlace' /\ Placed' /\ Owners' /\ Messages'
  <1>1. UNCHANGED <<Members(fqueue), Members(mqueue), Distinct(fqueue), Distinct(mqueue)>>
    BY DEF Members, Distinct
  <1>2. \A f \in Functions : (Waiting(f) <=> Waiting(f)') /\ (Owed(f) <=> Owed(f)')
    BY <1>1 DEF Waiting, Owed
  <1> HIDE DEF Members, Distinct
  <1> QED
    BY <1>1, <1>2 DEF OnePlace, Placed, Owners, Messages

\* Clients that wake up are where the type says, and wait if they waited before.
LEMMA WakenedMoves ==
    ASSUME NEW c, NEW f \in Functions
    PROVE  Wakened(c)[f] = IF c[f] = "asleep" THEN "lock" ELSE c[f]
  BY DEF Wakened

\* Every step keeps the type.
LEMMA StepTypes ==
    ASSUME IInv, Next
    PROVE  TypeOK'
  <1> USE DEF IInv, Inv
  <1> Cardinality(Functions) \in Nat
    BY FS_CardinalityType
  <1>1. CASE Step \/ MessagesDone \/ FunctionsDone \/ StopEngine \/ StartEngine \/ Unload
    <2>1. 0 \in -1 .. Cardinality(Functions)
      OBVIOUS
    <2>2. nbr' \in -1 .. Cardinality(Functions)
      BY <1>1, <2>1 DEF TypeOK, Step, MessagesDone, FunctionsDone, StopEngine, StartEngine,
                        Unload, engineVars
    <2>3. CASE Step \/ MessagesDone \/ FunctionsDone
      BY <2>2, <2>3 DEF TypeOK, Step, MessagesDone, FunctionsDone
    <2>4. CASE StopEngine \/ StartEngine \/ Unload
      BY <2>4 DEF TypeOK, StopEngine, StartEngine, Unload, engineVars
    <2> QED
      BY <1>1, <2>3, <2>4
  <1>2. CASE RemoveMsg
    <2>1. Head(mqueue) \in Functions /\ Tail(mqueue) \in Seq(Functions)
      BY <1>2 DEF RemoveMsg, TypeOK
    <2>2. Without(Head(mqueue)) \in Seq(Functions)
      BY WithoutMembers DEF TypeOK, OnePlace
    <2> QED
      BY <1>2, <2>1, <2>2 DEF RemoveMsg, TypeOK
  <1>3. CASE Broadcast
    <2>1. Wakened(cpc) \in [Functions -> {"out", "enqueue", "in", "done", "wait", "lock",
                                          "test", "sleep", "asleep", "found"}]
      BY DEF Wakened, TypeOK
    <2>2. Len(fqueue) \in 0 .. Cardinality(Functions) /\ Cardinality(Functions) \in Nat
      BY QueueBound, FS_CardinalityType DEF TypeOK, OnePlace
    <2>3. Len(fqueue) \in -1 .. Cardinality(Functions)
      BY <2>2
    <2> QED
      BY <1>3, <2>1, <2>3 DEF Broadcast, TypeOK
  <1>4. CASE Dequeue
    <2>1. Head(fqueue) \in Functions /\ Tail(fqueue) \in Seq(Functions)
      BY <1>4 DEF Dequeue, TypeOK
    <2> QED
      BY <1>4, <2>1 DEF Dequeue, TypeOK
  <1>5. CASE \/ ExecutePausing \/ ExecuteNothing \/ ExecuteBegin
             \/ CommandThrows \/ CommandWaits \/ CommandEnds
    <2>1. cur \in Functions /\ prog[cur] \in Program
      BY <1>5 DEF ExecutePausing, ExecuteNothing, ExecuteBegin, CommandThrows, CommandWaits,
                  CommandEnds, Locals, InHand, TypeOK
    <2>2. ASSUME NEW x \in Program, Update(cur, x) PROVE prog' \in [Functions -> Program]
      BY <2>2, UpdateType DEF TypeOK
    <2>3. 0 \in 0 .. Exit /\ prog[cur].node \in 0 .. Exit
      BY <2>1, ProgramTypes
    <2>4. ASSUME NEW x \in Program, Ended(x)
          PROVE  prog' \in [Functions -> Program] /\ at' \in 0 .. Exit
      <3>1. Begun(x) \in Program /\ Stop(x) \in Program /\ x.node \in 0 .. Exit
        BY ProgramTypes
      <3>2. (IF AtExit(x) THEN Stop(x) ELSE x) \in Program
        BY <3>1
      <3> QED
        BY <2>2, <2>3, <2>4, <3>1, <3>2 DEF Ended, Result
    <2>5. prog' \in [Functions -> Program] /\ at' \in 0 .. Exit
      <3>1. CASE ExecutePausing
        BY <2>1, <2>2, <2>3, <3>1, ProgramTypes DEF ExecutePausing, Result
      <3>2. CASE ExecuteNothing
        BY <2>3, <3>2 DEF ExecuteNothing, Result, TypeOK
      <3>3. CASE ExecuteBegin
        <4>1. Begun(prog[cur]) \in Program /\ Begun(Stepped(prog[cur])) \in Program
          BY <2>1, ProgramTypes
        <4> QED
          BY <2>2, <2>3, <3>3, <4>1 DEF ExecuteBegin
      <3>4. CASE CommandThrows
        BY <2>1, <2>2, <2>3, <3>4, ProgramTypes DEF CommandThrows, Result
      <3>5. CASE CommandWaits
        BY <2>1, <2>4, <3>5 DEF CommandWaits
      <3>6. CASE CommandEnds
        <4>1. at + 1 \in 0 .. Exit
          BY <3>6 DEF CommandEnds, TypeOK
        <4>2. LedTo(prog[cur], at + 1) \in Program
          BY <2>1, <4>1, ProgramTypes
        <4> QED
          BY <2>4, <3>6, <4>2 DEF CommandEnds
      <3> QED
        BY <1>5, <3>1, <3>2, <3>3, <3>4, <3>5, <3>6
    <2>6. Executing
      BY <1>5 DEF ExecutePausing, ExecuteNothing, ExecuteBegin, CommandThrows, CommandWaits,
                  CommandEnds
    <2> QED
      BY <2>5, <2>6 DEF Executing, TypeOK
  <1>6. CASE CommandCalls \/ CallAnswered \/ CallInterrupted
    BY <1>6 DEF TypeOK, CommandCalls, CallAnswered, CallInterrupted
  <1>7. CASE Requeue \/ Signal
    <2>1. nbr' \in -1 .. Cardinality(Functions) /\ cur' \in Functions \cup {None}
      BY <1>7, FS_CardinalityType DEF TypeOK, Requeue, Signal, NextFunction
    <2>2. CASE Requeue
      <3>1. cur \in Functions
        BY <2>2 DEF Requeue, Locals, InHand, TypeOK
      <3>2. Append(fqueue, cur) \in Seq(Functions)
        BY <3>1 DEF TypeOK
      <3> QED
        BY <2>1, <2>2, <3>2 DEF TypeOK, Requeue
    <2>3. CASE Signal
      BY <2>1, <2>3 DEF TypeOK, Signal, Wakened
    <2> QED
      BY <1>7, <2>2, <2>3
  <1>8. ASSUME NEW f \in Functions,
               ClientStep(f) \/ Returned(f) \/ Request(f) \/ Load(f)
        PROVE  TypeOK'
    <2>1. CASE Load(f)
      <3>1. Start(prog[f]) \in Program /\ Reset(prog[f]) \in Program
        BY ProgramTypes DEF TypeOK
      <3>2. prog' \in [Functions -> Program]
        BY <2>1, <3>1 DEF Load, Update, TypeOK
      <3> QED
        BY <2>1, <3>2 DEF Load, Client, TypeOK, engineVars
    <2>2. CASE Request(f)
      <3>1. /\ Start(prog[f]) \in Program /\ Pause(prog[f]) \in Program
            /\ StepOnce(prog[f]) \in Program /\ Stop(prog[f]) \in Program
            /\ prog[f] \in Program
        BY ProgramTypes DEF TypeOK
      <3>2. prog' \in [Functions -> Program]
        BY <2>2, <3>1 DEF Request, Update, TypeOK
      <3> QED
        BY <2>2, <3>2 DEF Request, TypeOK, engineVars
    <2>3. CASE Enqueue(f)
      BY <2>3, AppendMembers DEF Enqueue, Client, TypeOK, engineVars
    <2>4. CASE FirstTest(f) \/ Lock(f) \/ Test(f)
      BY <2>4 DEF FirstTest, Lock, Test, Client, TypeOK, engineVars
    <2>5. CASE Sleep(f) \/ Removed(f) \/ Returned(f)
      BY <2>5 DEF Sleep, Removed, Returned, Client, TypeOK, engineVars
    <2> QED
      BY <1>8, <2>1, <2>2, <2>3, <2>4, <2>5 DEF ClientStep
  <1>9. ASSUME NEW f \in Functions, RemoveNow(f)
        PROVE  TypeOK'
    <2>1. Without(f) \in Seq(Functions)
      BY WithoutMembers DEF TypeOK, OnePlace
    <2> QED
      BY <1>9, <2>1 DEF RemoveNow, TypeOK, engineVars
  <1>10. ASSUME NEW f \in Functions, RemoveSend(f)
         PROVE  TypeOK'
    <2>1. Append(mqueue, f) \in Seq(Functions)
      BY DEF TypeOK
    <2> QED
      BY <1>10, <2>1 DEF RemoveSend, Wakened, TypeOK, engineVars
  <1> QED
    BY <1>1, <1>2, <1>3, <1>4, <1>5, <1>6, <1>7, <1>8, <1>9, <1>10 DEF Next, EngineStep

-----------------------------------------------------------------------------
(***************************************************************************)
(* The invariant: steps of the engine.                                     *)
(***************************************************************************)

\* The engine goes from one stage to the next, or executes what it has in hand.
LEMMA StagesInv ==
    ASSUME IInv, Careful,
           \/ Step \/ MessagesDone \/ FunctionsDone \/ StopEngine \/ StartEngine
           \/ ExecutePausing \/ ExecuteNothing \/ ExecuteBegin
           \/ CommandThrows \/ CommandWaits \/ CommandEnds
           \/ CommandCalls \/ CallAnswered \/ CallInterrupted
    PROVE  Inv'
  <1> USE DEF IInv, Inv
  <1>1. CASE Step \/ MessagesDone \/ FunctionsDone \/ StopEngine \/ StartEngine
    <2>1. Locals'
      BY <1>1 DEF Step, MessagesDone, FunctionsDone, StopEngine, StartEngine, engineVars,
                  Locals, InHand, TypeOK
    <2>2. UNCHANGED <<loaded, fqueue, mqueue, found, cpc, cur>>
          /\ (epc = "signal" <=> epc' = "signal")
      BY <1>1 DEF Step, MessagesDone, FunctionsDone, StopEngine, StartEngine, engineVars
    <2> QED
      BY <2>1, <2>2, HandKept
  <1>2. CASE CommandCalls \/ CallAnswered \/ CallInterrupted
    <2>1. Locals'
      BY <1>2 DEF CommandCalls, CallAnswered, CallInterrupted, Locals, InHand, TypeOK
    <2>2. UNCHANGED <<loaded, fqueue, mqueue, found, cpc, cur>>
          /\ (epc = "signal" <=> epc' = "signal")
      BY <1>2 DEF CommandCalls, CallAnswered, CallInterrupted
    <2> QED
      BY <2>1, <2>2, HandKept
  <1>3. CASE \/ ExecutePausing \/ ExecuteNothing \/ ExecuteBegin
             \/ CommandThrows \/ CommandWaits \/ CommandEnds
    <2>1. epc \in {"execute", "command", "single"} /\ Executing
      BY <1>3 DEF ExecutePausing, ExecuteNothing, ExecuteBegin, CommandThrows, CommandWaits,
                  CommandEnds
    <2>2. epc' \in {"command", "single", "requeue", "unload"}
      BY <1>3 DEF ExecutePausing, ExecuteNothing, ExecuteBegin, CommandThrows, CommandWaits,
                  CommandEnds, Ended, Result
    <2>3. epc' = "unload" => cur \in Called \cup Resident
      BY <1>3 DEF ExecutePausing, ExecuteNothing, ExecuteBegin, CommandThrows, CommandWaits,
                  CommandEnds, Ended, Result, Careful
    <2>4. Locals'
      BY <2>1, <2>2, <2>3 DEF Executing, Locals, InHand
    <2> QED
      BY <2>1, <2>2, <2>4, HandKept DEF Executing
  <1> QED
    BY <1>1, <1>2, <1>3

\* The function of a RemoveMsg is taken out of the queue, and is not in hand.
LEMMA RemoveMsgInv ==
    ASSUME IInv, Careful, RemoveMsg
    PROVE  Inv'
  <1> USE DEF IInv, Inv
  <1> DEFINE f == Head(mqueue)
  <1>1. /\ f \in Functions /\ f \in Members(mqueue)
        /\ Members(mqueue') = Members(mqueue) \ {f} /\ Distinct(mqueue')
    BY TailMembers DEF RemoveMsg, TypeOK, Messages
  <1>2. Members(fqueue') = Members(fqueue) \ {f} /\ Distinct(fqueue')
    BY WithoutMembers DEF RemoveMsg, TypeOK, OnePlace
  <1>3. /\ epc = "messages" /\ epc' = epc /\ found' = found \cup {f}
        /\ UNCHANGED <<loaded, active, nested, cur, cpc>>
    BY DEF RemoveMsg
  <1> HIDE DEF f, Members, Distinct
  <1>4. Waiting(f) /\ cur # f
    BY <1>1, <1>3 DEF Messages, Owners, Locals, InHand, Careful
  <1>5. Locals'
    BY <1>3 DEF Locals, InHand
  <1>6. OnePlace'
    BY <1>2, <1>3 DEF OnePlace
  <1>7. Placed'
    BY <1>2, <1>3, <1>4 DEF Placed, Owed, Waiting
  <1>8. Owners'
    BY <1>3, <1>4 DEF Owners, Waiting
  <1>9. Messages'
    BY <1>1, <1>3 DEF Messages, Waiting
  <1> QED
    BY <1>5, <1>6, <1>7, <1>8, <1>9

\* Clients that wait in msg_cond wake up.
LEMMA BroadcastInv ==
    ASSUME IInv, Broadcast
    PROVE  Inv'
  <1> USE DEF IInv, Inv
  <1>1. \A f \in Functions : cpc'[f] = cpc[f] \/ (Waiting(f) /\ Waiting(f)')
    <2> TAKE f \in Functions
    <2>1. cpc'[f] = cpc[f] \/ (cpc[f] = "asleep" /\ cpc'[f] = "lock")
      BY WakenedMoves DEF Broadcast
    <2> QED
      BY <2>1 DEF Waiting
  <1>2. /\ UNCHANGED <<loaded, fqueue, mqueue, found, active, nested, cur>>
        /\ epc = "broadcast" /\ epc' = IF nested THEN "blocked" ELSE "functions"
    BY DEF Broadcast
  <1>3. UNCHANGED <<Members(fqueue), Members(mqueue), Distinct(fqueue), Distinct(mqueue)>>
    BY <1>2 DEF Members, Distinct
  <1> HIDE DEF Members, Distinct
  <1>4. Locals' /\ OnePlace'
    BY <1>2, <1>3 DEF Locals, InHand, OnePlace
  <1>5. Placed'
    BY <1>1, <1>2, <1>3 DEF Placed, Owed, Waiting
  <1>6. Owners' /\ Messages'
    BY <1>1, <1>2, <1>3 DEF Owners, Messages, Waiting
  <1> QED
    BY <1>4, <1>5, <1>6

\* The oldest function passes from the queue into the hand.
LEMMA DequeueInv ==
    ASSUME IInv, Dequeue
    PROVE  Inv'
  <1> USE DEF IInv, Inv
  <1>1. /\ Head(fqueue) \in Functions /\ Head(fqueue) \in Members(fqueue)
        /\ Members(fqueue') = Members(fqueue) \ {Head(fqueue)} /\ Distinct(fqueue')
    BY TailMembers DEF Dequeue, TypeOK, OnePlace
  <1>2. /\ epc = "functions" /\ epc' = "execute" /\ cur' = Head(fqueue)
        /\ UNCHANGED <<loaded, mqueue, found, active, nested, cpc>>
    BY DEF Dequeue
  <1>3. UNCHANGED <<Members(mqueue), Distinct(mqueue)>>
    BY <1>2 DEF Members, Distinct
  <1>4. cur = None /\ ~nested /\ active
    BY <1>2 DEF Locals, InHand
  <1> HIDE DEF Members, Distinct
  <1>5. Locals' /\ OnePlace'
    BY <1>1, <1>2, <1>4 DEF Locals, InHand, OnePlace
  <1>6. \A f \in Functions : Owed(f)' <=> Owed(f)
    BY <1>1, <1>2, <1>4 DEF Owed
  <1>7. Placed' /\ Owners' /\ Messages'
    BY <1>2, <1>3, <1>6 DEF Placed, Owners, Messages, Waiting
  <1> QED
    BY <1>5, <1>7

\* The function in hand goes back to the end of the queue.
LEMMA RequeueInv ==
    ASSUME IInv, Requeue
    PROVE  Inv'
  <1> USE DEF IInv, Inv
  <1>1. cur \in Functions /\ cur \notin Members(fqueue) /\ ~nested /\ active
    BY DEF Requeue, Locals, InHand, TypeOK, OnePlace
  <1>2. Members(fqueue') = Members(fqueue) \cup {cur} /\ Distinct(fqueue')
    BY <1>1, AppendMembers DEF Requeue, TypeOK, OnePlace
  <1>3. /\ epc = "requeue" /\ epc' \in {"idle", "functions"} /\ cur' = None
        /\ UNCHANGED <<loaded, mqueue, found, active, nested, cpc>>
    BY DEF Requeue, NextFunction
  <1>4. UNCHANGED <<Members(mqueue), Distinct(mqueue)>>
    BY <1>3 DEF Members, Distinct
  <1>5. None \notin Members(fqueue)
    BY DEF Members, TypeOK
  <1> HIDE DEF Members, Distinct
  <1>6. Locals' /\ OnePlace'
    BY <1>1, <1>2, <1>3, <1>5 DEF Locals, InHand, OnePlace
  <1>7. \A f \in Functions : Owed(f)' <=> Owed(f)
    BY <1>2, <1>3 DEF Owed
  <1>8. Placed' /\ Owners' /\ Messages'
    BY <1>3, <1>4, <1>7 DEF Placed, Owners, Messages, Waiting
  <1> QED
    BY <1>6, <1>8

\* The function in hand is dropped: it unloads on stop, or is never unloaded otherwise.
LEMMA UnloadInv ==
    ASSUME IInv, Unload
    PROVE  Inv'
  <1> USE DEF IInv, Inv
  <1>1. /\ cur \in Functions /\ cur \notin Members(fqueue) /\ ~nested /\ active
        /\ cur \in Called \cup Resident
    BY DEF Unload, Locals, InHand, TypeOK, OnePlace
  <1>2. /\ epc = "unload" /\ epc' = "signal" /\ loaded' = loaded \ {cur}
        /\ UNCHANGED <<fqueue, mqueue, found, active, nested, cpc, cur>>
    BY DEF Unload
  <1>3. UNCHANGED <<Members(fqueue), Members(mqueue), Distinct(fqueue), Distinct(mqueue)>>
    BY <1>2 DEF Members, Distinct
  <1> HIDE DEF Members, Distinct
  <1>4. Owed(cur) /\ cpc[cur] \in {"in", "done"}
    BY <1>1, <1>2 DEF Owed, Placed, Owners
  <1>5. Locals' /\ OnePlace'
    BY <1>1, <1>2, <1>3 DEF Locals, InHand, OnePlace
  <1>6. Placed'
    BY <1>1, <1>2, <1>3 DEF Placed, Owed, Waiting
  <1>7. Owners' /\ Messages'
    BY <1>1, <1>2, <1>3, <1>4 DEF Owners, Messages, Waiting
  <1> QED
    BY <1>5, <1>6, <1>7

\* ... and those who wait are told.
LEMMA SignalInv ==
    ASSUME IInv, Signal
    PROVE  Inv'
  <1> USE DEF IInv, Inv
  <1>1. \A f \in Functions : cpc'[f] = cpc[f] \/ (Waiting(f) /\ Waiting(f)')
    <2> TAKE f \in Functions
    <2>1. cpc'[f] = cpc[f] \/ (cpc[f] = "asleep" /\ cpc'[f] = "lock")
      BY WakenedMoves DEF Signal
    <2> QED
      BY <2>1 DEF Waiting
  <1>2. /\ UNCHANGED <<loaded, fqueue, mqueue, found, active, nested>>
        /\ epc = "signal" /\ epc' \in {"idle", "functions"} /\ cur' = None
    BY DEF Signal, NextFunction
  <1>3. UNCHANGED <<Members(fqueue), Members(mqueue), Distinct(fqueue), Distinct(mqueue)>>
    BY <1>2 DEF Members, Distinct
  <1>4. None \notin Members(fqueue)
    BY DEF Members, TypeOK
  <1>5. ~nested /\ active
    BY <1>2 DEF Locals
  <1> HIDE DEF Members, Distinct
  <1>6. Locals' /\ OnePlace'
    BY <1>2, <1>3, <1>4, <1>5 DEF Locals, InHand, OnePlace
  <1>7. \A f \in Functions : Owed(f)' <=> Owed(f)
    BY <1>2, <1>3 DEF Owed
  <1>8. Placed'
    BY <1>1, <1>2, <1>7 DEF Placed, Waiting
  <1>9. Owners' /\ Messages'
    BY <1>1, <1>2, <1>3 DEF Owners, Messages, Waiting
  <1> QED
    BY <1>6, <1>8, <1>9

-----------------------------------------------------------------------------
(***************************************************************************)
(* The invariant: steps of the clients.                                    *)
(***************************************************************************)

\* A client moves, and the engine stays where it is.
LEMMA EngineKept ==
    ASSUME Locals, UNCHANGED <<active, engineVars>>
    PROVE  Locals'
  BY DEF Locals, InHand, engineVars

\* loaded(), before the function is queued.
LEMMA LoadInv ==
    ASSUME IInv, NEW g \in Functions, Load(g)
    PROVE  Inv'
  <1> USE DEF IInv, Inv
  <1>1. /\ g \notin Resident /\ cpc[g] = "out" /\ loaded' = loaded \cup {g}
        /\ \A f \in Functions : cpc'[f] = IF f = g THEN "enqueue" ELSE cpc[f]
        /\ UNCHANGED <<fqueue, mqueue, found, active, engineVars>>
    BY DEF Load, Client, TypeOK
  <1>2. UNCHANGED <<Members(fqueue), Members(mqueue), Distinct(fqueue), Distinct(mqueue)>>
    BY <1>1 DEF Members, Distinct
  <1> HIDE DEF Members, Distinct
  <1>3. Locals' /\ OnePlace'
    BY <1>1, <1>2, EngineKept DEF OnePlace, engineVars
  <1>4. \A f \in Functions : Owed(f)' <=> Owed(f)
    BY <1>1, <1>2 DEF Owed, engineVars
  <1>5. Placed'
    BY <1>1, <1>4 DEF Placed, Waiting
  <1>6. Owners' /\ Messages'
    BY <1>1, <1>2 DEF Owners, Messages, Waiting
  <1> QED
    BY <1>3, <1>5, <1>6

\* runFunction() has queued the function: the engine holds it from now on.
LEMMA EnqueueInv ==
    ASSUME IInv, NEW g \in Functions, Enqueue(g)
    PROVE  Inv'
  <1> USE DEF IInv, Inv
  <1>1. /\ cpc[g] = "enqueue" /\ fqueue' = Append(fqueue, g)
        /\ \A f \in Functions : cpc'[f] = IF f = g THEN "in" ELSE cpc[f]
        /\ UNCHANGED <<loaded, mqueue, found, active, engineVars>>
    BY DEF Enqueue, Client, TypeOK
  <1>2. ~Owed(g) /\ g \in loaded /\ g \notin found
    BY <1>1 DEF Placed, Owners, Waiting
  <1>3. Members(fqueue') = Members(fqueue) \cup {g} /\ Distinct(fqueue')
    BY <1>1, <1>2, AppendMembers DEF Owed, TypeOK, OnePlace
  <1>4. UNCHANGED <<Members(mqueue), Distinct(mqueue)>>
    BY <1>1 DEF Members, Distinct
  <1> HIDE DEF Members, Distinct
  <1>5. Locals' /\ OnePlace'
    BY <1>1, <1>2, <1>3, EngineKept DEF OnePlace, Owed, engineVars
  <1>6. \A f \in Functions : Owed(f)' <=> Owed(f) \/ f = g
    BY <1>1, <1>3 DEF Owed, engineVars
  <1>7. Placed'
    BY <1>1, <1>2, <1>6 DEF Placed, Waiting
  <1>8. Owners' /\ Messages'
    BY <1>1, <1>2, <1>4 DEF Owners, Messages, Waiting
  <1> QED
    BY <1>5, <1>7, <1>8

\* The queues and what the engine knows of the clients are as before, and the
\* client of g goes from one place to another.
LEMMA ClientMoves ==
    ASSUME IInv, NEW g \in Functions, NEW to,
           UNCHANGED <<loaded, fqueue, mqueue, found, active, engineVars>>,
           \A f \in Functions : cpc'[f] = IF f = g THEN to ELSE cpc[f],
           \/ Waiting(g) /\ to \in {"lock", "test", "sleep", "asleep"}
           \/ Waiting(g) /\ g \in found /\ to = "found"
           \/ cpc[g] = "in" /\ to = "done" /\ g \in Called
           \/ cpc[g] \in {"in", "done"} /\ g \notin loaded \cup Resident /\ to = "out"
    PROVE  Inv'
  <1> USE DEF IInv, Inv
  <1>1. UNCHANGED <<Members(fqueue), Members(mqueue), Distinct(fqueue), Distinct(mqueue)>>
    BY DEF Members, Distinct
  <1> HIDE DEF Members, Distinct
  <1>2. Locals' /\ OnePlace'
    BY <1>1, EngineKept DEF OnePlace, engineVars
  <1>3. \A f \in Functions : Owed(f)' <=> Owed(f)
    BY <1>1 DEF Owed, engineVars
  <1>4. Placed'
    BY <1>3 DEF Placed, Waiting
  <1>5. Owners'
    BY DEF Owners, Waiting
  <1>6. Messages'
    BY <1>1 DEF Messages, Waiting
  <1> QED
    BY <1>2, <1>4, <1>5, <1>6

\* A client tests and waits, or sees that its function has returned.
LEMMA WaitInv ==
    ASSUME IInv, NEW g \in Functions,
           FirstTest(g) \/ Lock(g) \/ Test(g) \/ Sleep(g) \/ Returned(g)
    PROVE  Inv'
  <1> USE DEF IInv, Inv
  <1>1. UNCHANGED <<loaded, fqueue, mqueue, found, active, engineVars>>
    BY DEF FirstTest, Lock, Test, Sleep, Returned
  <1>2. Waiting(g) /\ Gone(g) => g \in found
    BY DEF Owners, Gone, Loaded
  <1>3. \E to : /\ \A f \in Functions : cpc'[f] = IF f = g THEN to ELSE cpc[f]
                /\ \/ Waiting(g) /\ to \in {"lock", "test", "sleep", "asleep"}
                   \/ Waiting(g) /\ g \in found /\ to = "found"
                   \/ cpc[g] = "in" /\ to = "done" /\ g \in Called
    <2>1. CASE FirstTest(g)
      BY <1>2, <2>1 DEF FirstTest, Waiting, TypeOK
    <2>2. CASE Lock(g)
      BY <2>2 DEF Lock, Client, Waiting, TypeOK
    <2>3. CASE Test(g)
      BY <1>2, <2>3 DEF Test, Client, Waiting, TypeOK
    <2>4. CASE Sleep(g)
      BY <2>4 DEF Sleep, Client, Waiting, TypeOK
    <2>5. CASE Returned(g)
      BY <2>5 DEF Returned, Client, TypeOK
    <2> QED
      BY <2>1, <2>2, <2>3, <2>4, <2>5
  <1> HIDE DEF IInv, Inv
  <1> QED
    BY <1>1, <1>3, ClientMoves

\* A user drives a program it has loaded.
LEMMA RequestInv ==
    ASSUME IInv, NEW g \in Functions, Request(g)
    PROVE  Inv'
  <1>1. UNCHANGED <<loaded, fqueue, mqueue, found, active, engineVars, cpc>>
    BY DEF Request
  <1>2. UNCHANGED cur /\ (epc = "signal" <=> epc' = "signal")
    BY <1>1 DEF engineVars
  <1> QED
    BY <1>1, <1>2, HandKept, EngineKept DEF IInv, Inv

\* removeFunction() of a function that is not loaded, or of an engine that stands still.
LEMMA RemoveNowInv ==
    ASSUME IInv, Careful, NEW g \in Functions, RemoveNow(g)
    PROVE  Inv'
  <1> USE DEF IInv, Inv
  <1>1. CASE ~Loaded(g) /\ UNCHANGED fqueue /\ cpc' = [cpc EXCEPT ![g] = "out"]
    <2>1. UNCHANGED <<loaded, fqueue, mqueue, found, active, engineVars>>
      BY <1>1 DEF RemoveNow
    <2>2. cpc[g] \in {"in", "done"} /\ g \notin loaded \cup Resident
      BY <1>1 DEF RemoveNow, MayUnload, Loaded
    <2>3. \A f \in Functions : cpc'[f] = IF f = g THEN "out" ELSE cpc[f]
      BY <1>1 DEF TypeOK
    <2> HIDE DEF IInv, Inv
    <2> QED
      BY <2>1, <2>2, <2>3, ClientMoves
  <1>2. CASE /\ Loaded(g) /\ ~active /\ fqueue' = Without(g)
             /\ cpc' = [cpc EXCEPT ![g] = "found"]
    <2>1. UNCHANGED <<loaded, mqueue, found, active, engineVars>>
      BY DEF RemoveNow
    <2>2. cpc[g] = "in" /\ g \notin Called \cup Resident /\ g \in loaded
      BY <1>2 DEF RemoveNow, MayUnload, Loaded, Careful
    <2>3. \A f \in Functions : cpc'[f] = IF f = g THEN "found" ELSE cpc[f]
      BY <1>2 DEF TypeOK
    <2>4. Members(fqueue') = Members(fqueue) \ {g} /\ Distinct(fqueue')
      BY <1>2, WithoutMembers DEF TypeOK, OnePlace
    <2>5. UNCHANGED <<Members(mqueue), Distinct(mqueue)>>
      BY <2>1 DEF Members, Distinct
    <2>6. cur = None
      BY <1>2 DEF Locals, InHand
    <2> HIDE DEF Members, Distinct
    <2>7. Locals' /\ OnePlace'
      BY <2>1, <2>4, EngineKept DEF OnePlace, engineVars
    <2>8. \A f \in Functions : Owed(f)' <=> Owed(f) /\ f # g
      BY <2>1, <2>4, <2>6 DEF Owed, engineVars
    <2>9. Placed'
      BY <2>1, <2>3, <2>8 DEF Placed, Waiting
    <2>10. Owners' /\ Messages'
      BY <2>1, <2>2, <2>3, <2>5 DEF Owners, Messages, Waiting
    <2> QED
      BY <2>7, <2>9, <2>10
  <1> QED
    BY <1>1, <1>2 DEF RemoveNow

\* removeFunction() sends its message, and wakes up those who wait.
LEMMA RemoveSendInv ==
    ASSUME IInv, Careful, NEW g \in Functions, RemoveSend(g)
    PROVE  Inv'
  <1> USE DEF IInv, Inv
  <1>1. /\ UNCHANGED <<loaded, fqueue, found, active, engineVars>>
        /\ mqueue' = Append(mqueue, g)
        /\ cpc[g] = "in" /\ g \notin Called \cup Resident /\ g \in loaded
    BY DEF RemoveSend, MayUnload, Loaded, Careful
  <1>2. \A f \in Functions : \/ f = g /\ cpc'[f] = "wait"
                             \/ f # g /\ cpc'[f] = cpc[f]
                             \/ f # g /\ Waiting(f) /\ Waiting(f)'
    BY DEF RemoveSend, Wakened, Waiting, TypeOK
  <1>3. g \notin Members(mqueue) /\ g \notin found
    BY <1>1 DEF Messages, Owners, Waiting
  <1>4. Members(mqueue') = Members(mqueue) \cup {g} /\ Distinct(mqueue')
    BY <1>1, <1>3, AppendMembers DEF Messages, TypeOK
  <1>5. UNCHANGED <<Members(fqueue), Distinct(fqueue)>>
    BY <1>1 DEF Members, Distinct
  <1> HIDE DEF Members, Distinct
  <1>6. Locals' /\ OnePlace'
    BY <1>1, <1>5, EngineKept DEF OnePlace, engineVars
  <1>7. \A f \in Functions : Owed(f)' <=> Owed(f)
    BY <1>1, <1>5 DEF Owed, engineVars
  <1>8. Placed'
    BY <1>1, <1>2, <1>7 DEF Placed, Waiting
  <1>9. Owners'
    BY <1>1, <1>2 DEF Owners, Waiting
  <1>10. Messages'
    BY <1>1, <1>2, <1>3, <1>4 DEF Messages, Waiting
  <1> QED
    BY <1>6, <1>8, <1>9, <1>10

\* removeFunction() returns: nothing of the function is left.
LEMMA RemovedInv ==
    ASSUME IInv, NEW g \in Functions, Removed(g)
    PROVE  Inv'
  <1> USE DEF IInv, Inv
  <1>1. /\ cpc[g] = "found" /\ loaded' = loaded \ {g} /\ found' = found \ {g}
        /\ \A f \in Functions : cpc'[f] = IF f = g THEN "out" ELSE cpc[f]
        /\ UNCHANGED <<fqueue, mqueue, active, engineVars>>
    BY DEF Removed, Client, TypeOK
  <1>2. UNCHANGED <<Members(fqueue), Members(mqueue), Distinct(fqueue), Distinct(mqueue)>>
    BY <1>1 DEF Members, Distinct
  <1> HIDE DEF Members, Distinct
  <1>3. Locals' /\ OnePlace'
    BY <1>1, <1>2, EngineKept DEF OnePlace, engineVars
  <1>4. \A f \in Functions : Owed(f)' <=> Owed(f)
    BY <1>1, <1>2 DEF Owed, engineVars
  <1>5. Placed'
    BY <1>1, <1>4 DEF Placed, Waiting
  <1>6. Owners' /\ Messages'
    BY <1>1, <1>2 DEF Owners, Messages, Waiting
  <1> QED
    BY <1>3, <1>5, <1>6

-----------------------------------------------------------------------------
(***************************************************************************)
(* The theorems.                                                           *)
(***************************************************************************)

LEMMA StepInv ==
    ASSUME Careful, IInv, [Next]_vars
    PROVE  IInv'
  <1>1. CASE Next
    <2>1. TypeOK'
      BY <1>1, StepTypes
    <2>2. CASE EngineStep \/ StopEngine \/ StartEngine
      BY <2>2, StagesInv, RemoveMsgInv, BroadcastInv, DequeueInv, RequeueInv, UnloadInv,
         SignalInv, <2>1 DEF EngineStep, IInv
    <2>3. ASSUME NEW f \in Functions,
                 \/ ClientStep(f) \/ Load(f) \/ Request(f) \/ Returned(f)
                 \/ RemoveNow(f) \/ RemoveSend(f)
          PROVE  Inv'
      BY <2>3, LoadInv, EnqueueInv, WaitInv, RequestInv, RemoveNowInv, RemoveSendInv,
         RemovedInv DEF ClientStep
    <2> QED
      BY <1>1, <2>1, <2>2, <2>3 DEF Next, IInv
  <1>2. CASE UNCHANGED vars
    <2>1. TypeOK'
      BY <1>2 DEF IInv, TypeOK, vars, engineVars
    <2>2. Inv'
      BY <1>2, HandKept, EngineKept DEF IInv, Inv, vars, engineVars
    <2> QED
      BY <2>1, <2>2 DEF IInv
  <1> QED
    BY <1>1, <1>2

LEMMA AlwaysInv ==
    ASSUME Careful
    PROVE  Spec => []IInv
  <1>1. Careful /\ IInv /\ [Next]_vars => IInv'
    BY StepInv
  <1> QED
    BY <1>1, InitInv, PTL DEF Spec

\* The engine holds a function once if it is in the queue or in hand, or not at all.
LEMMA HeldOnce ==
    ASSUME IInv, NEW f \in Functions
    PROVE  InEngine(f) = IF Owed(f) THEN 1 ELSE 0
  <1> DEFINE I == {i \in DOMAIN fqueue : fqueue[i] = f}
  <1>1. DOMAIN fqueue = 1 .. Len(fqueue)
    BY DEF IInv, TypeOK
  <1>2. CASE f \in Members(fqueue)
    <2>1. PICK k \in 1 .. Len(fqueue) : fqueue[k] = f
      BY <1>2 DEF Members
    <2>2. I = {k}
      BY <1>1, <2>1 DEF IInv, Inv, OnePlace, Distinct
    <2>3. Cardinality(I) = 1
      BY <2>2, FS_Singleton
    <2>4. ~(cur = f /\ epc # "signal")
      BY <1>2 DEF IInv, Inv, OnePlace
    <2> HIDE DEF I
    <2>5. InEngine(f) = Cardinality(I) + 0
      BY <2>4 DEF InEngine, I
    <2> QED
      BY <1>2, <2>3, <2>5 DEF Owed
  <1>3. CASE f \notin Members(fqueue)
    <2>1. I = {}
      BY <1>1, <1>3 DEF Members
    <2>2. Cardinality(I) = 0
      BY <2>1, FS_EmptySet
    <2> HIDE DEF I
    <2>3. InEngine(f) = Cardinality(I) + (IF cur = f /\ epc # "signal" THEN 1 ELSE 0)
      BY DEF InEngine, I
    <2> QED
      BY <1>3, <2>2, <2>3 DEF Owed
  <1> QED
    BY <1>2, <1>3

\* runFunction() and removeFunction(), the rounds of the engine and its stops and
\* starts keep every variable within its type.
THEOREM Types ==
    ASSUME Careful
    PROVE  Spec => []TypeOK
  <1>1. IInv => TypeOK
    BY DEF IInv
  <1> QED
    BY <1>1, AlwaysInv, PTL

\* removeSelfFunction() turns the queue while another function is executed, or
\* called another component: still no function that is loaded is lost.
THEOREM LoadedAreKept ==
    ASSUME Careful
    PROVE  Spec => []NothingLost
  <1>1. IInv => NothingLost
    <2> SUFFICES ASSUME IInv, NEW f \in loaded,
                        cpc[f] \in {"in", "done"} \/ (Waiting(f) /\ f \notin found)
                 PROVE  InEngine(f) = 1
      BY DEF NothingLost
    <2>1. f \in Functions
      BY DEF IInv, TypeOK
    <2>2. f \notin found
      BY <2>1 DEF IInv, Inv, Owners, Waiting
    <2>3. Owed(f)
      BY <2>1, <2>2 DEF IInv, Inv, Placed
    <2> QED
      BY <2>1, <2>3, HeldOnce
  <1> QED
    BY <1>1, AlwaysInv, PTL

\* When removeFunction() returns, or the engine has unloaded a function, neither the
\* queue nor the loop of processFunctions() has it.
THEOREM RemovedAreGone ==
    ASSUME Careful
    PROVE  Spec => []RemovedIsGone
  <1>1. IInv => RemovedIsGone
    BY HeldOnce DEF RemovedIsGone, IInv, Inv, Placed, Waiting, Loaded
  <1> QED
    BY <1>1, AlwaysInv, PTL

\* The RemoveMsg on the stack of removeFunction() has been executed when it returns.
THEOREM NoMessageDangles ==
    ASSUME Careful
    PROVE  Spec => []NoDanglingRemove
  <1>1. IInv => NoDanglingRemove
    <2> SUFFICES ASSUME IInv, NEW i \in DOMAIN mqueue PROVE Waiting(mqueue[i])
      BY DEF NoDanglingRemove
    <2>1. mqueue[i] \in Functions /\ mqueue[i] \in Members(mqueue)
      BY DEF IInv, TypeOK, Members
    <2> QED
      BY <2>1 DEF IInv, Inv, Messages
  <1> QED
    BY <1>1, AlwaysInv, PTL

-----------------------------------------------------------------------------
(***************************************************************************)
(* AtomicMWSRQueue implements a bounded first-in first-out queue.          *)
(***************************************************************************)
\* What a thread knows between two of its steps.
QueueLocals ==
    /\ \A p \in Writers : pc[p] # "idle" => item[p] \in Items
    /\ \A p \in Writers : pc[p] = "claim" => ~Full(old[p])
    /\ rpc # "idle" => rold.r = r /\ w # r /\ result \in Items
    /\ rpc = "clear" => buf[r] = result
    /\ rpc \in {"load", "release"} => buf[r] = NoItem

\* A place outside the queue is empty: the reader clears before it gives back.
FreeIsEmpty == \A i \in Places : ~Held(i) => buf[i] = NoItem

QueueIInv == QueueTypeOK /\ QueueLocals /\ FreeIsEmpty /\ ClaimsExclusive

USE QueueAssumption DEF Slots

\* As long as the indexes have a value for every place, only the wrap at _size counts.
LEMMA AdvanceWraps ==
    ASSUME NEW i \in Places
    PROVE  Advance(i) = (IF i = Size THEN 0 ELSE i + 1) /\ Advance(i) \in Places
  BY DEF Advance, Places

\* isFull() compares the indexes as size() counts them.
LEMMA FullIsCount ==
    ASSUME NEW x \in Indexes
    PROVE  /\ Full(x) <=> Count(x) = Size
           /\ Count(x) \in 0 .. Size
  BY DEF Full, Count, Indexes, Places

-----------------------------------------------------------------------------
\* The indexes stay in the array.
LEMMA QueueInitInv == QueueInit => QueueIInv
  <1> SUFFICES ASSUME QueueInit PROVE QueueIInv
    OBVIOUS
  <1>1. QueueTypeOK
    BY DEF QueueInit, QueueTypeOK, Places, Indexes
  <1>2. QueueLocals /\ FreeIsEmpty /\ ClaimsExclusive
    BY DEF QueueInit, QueueLocals, FreeIsEmpty, ClaimsExclusive
  <1> QED
    BY <1>1, <1>2 DEF QueueIInv

\* A claim puts one place more into the queue, the one at the write index.
LEMMA HeldAfterClaim ==
    ASSUME QueueTypeOK, ~Full(Now), w' = Advance(w), r' = r
    PROVE  ~Held(w) /\ w' # r /\ \A i \in Places : Held(i)' <=> Held(i) \/ i = w
  <1>1. w' = (IF w = Size THEN 0 ELSE w + 1)
    BY AdvanceWraps DEF QueueTypeOK
  <1> QED
    BY <1>1 DEF QueueTypeOK, Held, Full, Now, Places

\* A release takes the place at the read index out of it.
LEMMA HeldAfterRelease ==
    ASSUME QueueTypeOK, w # r, r' = Advance(r), w' = w
    PROVE  \A i \in Places : Held(i)' <=> Held(i) /\ i # r
  <1>1. r' = (IF r = Size THEN 0 ELSE r + 1)
    BY AdvanceWraps DEF QueueTypeOK
  <1> QED
    BY <1>1 DEF QueueTypeOK, Held, Places

-----------------------------------------------------------------------------
\* Every step of every thread keeps the invariant.
LEMMA QueueStepInv == QueueIInv /\ [QueueNext]_queueVars => QueueIInv'
  <1> SUFFICES ASSUME QueueIInv, [QueueNext]_queueVars PROVE QueueIInv'
    OBVIOUS
  <1> USE DEF QueueIInv
  <1>1. ASSUME NEW p \in Writers, BeginEnqueue(p) PROVE QueueIInv'
    <2>1. PICK x \in Items : item' = [item EXCEPT ![p] = x]
      BY <1>1 DEF BeginEnqueue
    <2>2. QueueTypeOK'
      BY <1>1, <2>1 DEF BeginEnqueue, QueueTypeOK, readerVars
    <2>3. QueueLocals' /\ FreeIsEmpty' /\ ClaimsExclusive'
      BY <1>1, <2>1 DEF BeginEnqueue, QueueTypeOK, readerVars, QueueLocals,
         FreeIsEmpty, ClaimsExclusive, Held
    <2> QED
      BY <2>2, <2>3
  <1>2. ASSUME NEW p \in Writers, LoadIndexes(p) PROVE QueueIInv'
    <2>1. Now \in Indexes
      BY DEF Now, Indexes, QueueTypeOK
    <2>2. QueueTypeOK'
      BY <1>2, <2>1 DEF LoadIndexes, QueueTypeOK, readerVars
    <2>3. QueueLocals'
      BY <1>2, <2>1 DEF LoadIndexes, QueueTypeOK, readerVars, QueueLocals
    <2>4. FreeIsEmpty' /\ ClaimsExclusive'
      BY <1>2 DEF LoadIndexes, QueueTypeOK, readerVars, FreeIsEmpty, ClaimsExclusive, Held
    <2> QED
      BY <2>2, <2>3, <2>4
  <1>3. ASSUME NEW p \in Writers, Refused(p) PROVE QueueIInv'
    <2>1. QueueTypeOK'
      BY <1>3 DEF Refused, QueueTypeOK, readerVars
    <2>2. QueueLocals' /\ FreeIsEmpty' /\ ClaimsExclusive'
      BY <1>3 DEF Refused, QueueTypeOK, readerVars, QueueLocals,
         FreeIsEmpty, ClaimsExclusive, Held
    <2> QED
      BY <2>1, <2>2
  <1>4. ASSUME NEW p \in Writers, Claim(p) PROVE QueueIInv'
    <2>1. /\ ~Full(Now) /\ w' = Advance(w) /\ r' = r /\ w' \in Places
          /\ old[p].w = w /\ w \in Places
      BY <1>4, AdvanceWraps DEF Claim, QueueLocals, QueueTypeOK, readerVars, Now
    <2>2. ~Held(w) /\ w' # r /\ \A i \in Places : Held(i)' <=> Held(i) \/ i = w
      BY <2>1, HeldAfterClaim
    <2>3. buf' = buf /\ buf[w] = NoItem
      BY <1>4, <2>1, <2>2 DEF Claim, FreeIsEmpty
    <2>4. QueueTypeOK'
      BY <1>4, <2>1 DEF Claim, QueueTypeOK, readerVars
    <2>5. QueueLocals'
      BY <1>4, <2>1, <2>2 DEF Claim, QueueTypeOK, readerVars, QueueLocals
    <2>6. FreeIsEmpty'
      BY <2>2, <2>3 DEF FreeIsEmpty
    <2>7. ClaimsExclusive'
      <3> SUFFICES ASSUME NEW q \in Writers, pc'[q] = "write"
                   PROVE  /\ Held(old[q].w)' /\ buf[old[q].w] = NoItem
                          /\ rpc # "idle" => old[q].w # r
                          /\ \A u \in Writers \ {q} : pc'[u] = "write" => old[u].w # old[q].w
        BY <1>4, <2>1 DEF Claim, ClaimsExclusive, readerVars
      <3>0. old[q].w \in Places
        BY DEF QueueTypeOK, Indexes
      <3>1. rpc # "idle" => Held(r) /\ r # w
        BY <2>2 DEF QueueLocals, Held, QueueTypeOK, Places
      <3>2. CASE q = p
        BY <3>1, <3>2, <1>4, <2>1, <2>2, <2>3 DEF Claim, ClaimsExclusive, QueueTypeOK
      <3>3. CASE q # p
        <4>1. pc[q] = "write" /\ Held(old[q].w)
          BY <3>3, <1>4 DEF Claim, ClaimsExclusive, QueueTypeOK
        <4>2. old[q].w # w
          BY <4>1, <2>2
        <4>3. \A u \in Writers \ {q} : pc'[u] = "write" => old[u].w # old[q].w
          BY <3>3, <4>1, <4>2, <1>4, <2>1 DEF Claim, ClaimsExclusive, QueueTypeOK
        <4>4. Held(old[q].w)'
          BY <3>0, <4>1, <2>1, <2>2, <1>4 DEF Claim, Held
        <4> QED
          BY <4>1, <4>3, <4>4 DEF ClaimsExclusive
      <3> QED
        BY <3>2, <3>3
    <2> QED
      BY <2>4, <2>5, <2>6, <2>7
  <1>5. ASSUME NEW p \in Writers, ClaimAgain(p) PROVE QueueIInv'
    <2>1. QueueTypeOK'
      BY <1>5 DEF ClaimAgain, QueueTypeOK, readerVars
    <2>2. QueueLocals' /\ FreeIsEmpty' /\ ClaimsExclusive'
      BY <1>5 DEF ClaimAgain, QueueTypeOK, readerVars, QueueLocals,
         FreeIsEmpty, ClaimsExclusive, Held
    <2> QED
      BY <2>1, <2>2
  <1>6. ASSUME NEW p \in Writers, Write(p) PROVE QueueIInv'
    <2>1. /\ old[p].w \in Places /\ item[p] \in Items /\ Held(old[p].w)
          /\ rpc # "idle" => old[p].w # r
      BY <1>6 DEF Write, QueueTypeOK, Indexes, QueueLocals, ClaimsExclusive
    <2>2. QueueTypeOK'
      BY <1>6, <2>1 DEF Write, QueueTypeOK, readerVars
    <2>3. QueueLocals'
      BY <1>6, <2>1 DEF Write, QueueTypeOK, readerVars, QueueLocals
    <2>4. FreeIsEmpty'
      BY <1>6, <2>1 DEF Write, QueueTypeOK, FreeIsEmpty, Held
    <2>5. ClaimsExclusive'
      BY <1>6, <2>1 DEF Write, QueueTypeOK, readerVars, ClaimsExclusive, Held
    <2> QED
      BY <2>2, <2>3, <2>4, <2>5
  <1>7. CASE Read
    <2>1. buf[r] \in Items /\ Now \in Indexes /\ Now.r = r
      BY <1>7 DEF Read, QueueTypeOK, Now, Indexes
    <2>2. Held(r)
      BY <1>7 DEF Read, FreeIsEmpty, QueueTypeOK
    <2>3. w # r
      BY <2>2 DEF Held, QueueTypeOK, Places
    <2>4. QueueTypeOK'
      BY <1>7, <2>1 DEF Read, QueueTypeOK, writerVars
    <2>5. QueueLocals' /\ FreeIsEmpty'
      BY <1>7, <2>1, <2>3 DEF Read, QueueTypeOK, writerVars, QueueLocals, FreeIsEmpty, Held
    <2>6. ClaimsExclusive'
      BY <1>7, <2>1 DEF Read, QueueTypeOK, writerVars, ClaimsExclusive, Held
    <2> QED
      BY <2>4, <2>5, <2>6
  <1>8. CASE Clear
    <2>1. rold.r = r /\ w # r
      BY <1>8 DEF Clear, QueueLocals
    <2>2. QueueTypeOK'
      BY <1>8 DEF Clear, QueueTypeOK, writerVars
    <2>3. QueueLocals' /\ FreeIsEmpty' /\ ClaimsExclusive'
      BY <1>8, <2>1 DEF Clear, QueueTypeOK, writerVars, QueueLocals,
         FreeIsEmpty, ClaimsExclusive, Held
    <2> QED
      BY <2>2, <2>3
  <1>9. CASE ReadLoad
    <2>1. Now \in Indexes /\ Now.r = r
      BY DEF Now, Indexes, QueueTypeOK
    <2>2. QueueTypeOK'
      BY <1>9, <2>1 DEF ReadLoad, QueueTypeOK, writerVars
    <2>3. QueueLocals' /\ FreeIsEmpty' /\ ClaimsExclusive'
      BY <1>9, <2>1 DEF ReadLoad, QueueTypeOK, writerVars, QueueLocals,
         FreeIsEmpty, ClaimsExclusive, Held
    <2> QED
      BY <2>2, <2>3
  <1>10. CASE Release
    <2>1. /\ w # r /\ buf[r] = NoItem /\ r' = Advance(r) /\ r' \in Places
          /\ w' = w /\ buf' = buf /\ r \in Places
      BY <1>10, AdvanceWraps DEF Release, QueueLocals, QueueTypeOK
    <2>2. \A i \in Places : Held(i)' <=> Held(i) /\ i # r
      BY <2>1, HeldAfterRelease
    <2>3. QueueTypeOK'
      BY <1>10, <2>1 DEF Release, QueueTypeOK, writerVars
    <2>4. QueueLocals'
      BY <1>10, <2>1 DEF Release, QueueTypeOK, writerVars, QueueLocals
    <2>5. FreeIsEmpty'
      BY <2>1, <2>2 DEF FreeIsEmpty
    <2>6. ClaimsExclusive'
      <3>1. \A p \in Writers : pc[p] = "write" => old[p].w \in Places /\ old[p].w # r
        BY <1>10 DEF Release, ClaimsExclusive, QueueTypeOK, Indexes
      <3> QED
        BY <1>10, <2>1, <2>2, <3>1 DEF Release, ClaimsExclusive, writerVars
    <2> QED
      BY <2>3, <2>4, <2>5, <2>6
  <1>11. CASE ReleaseAgain
    <2>1. QueueTypeOK'
      BY <1>11 DEF ReleaseAgain, QueueTypeOK, writerVars
    <2>2. QueueLocals' /\ FreeIsEmpty' /\ ClaimsExclusive'
      BY <1>11 DEF ReleaseAgain, QueueTypeOK, writerVars, QueueLocals,
         FreeIsEmpty, ClaimsExclusive, Held
    <2> QED
      BY <2>1, <2>2
  <1>12. CASE UNCHANGED queueVars
    <2>1. QueueTypeOK'
      BY <1>12 DEF queueVars, QueueTypeOK
    <2>2. QueueLocals' /\ FreeIsEmpty' /\ ClaimsExclusive'
      BY <1>12 DEF queueVars, QueueLocals, FreeIsEmpty, ClaimsExclusive, Held
    <2> QED
      BY <2>1, <2>2
  <1> QED
    BY <1>1, <1>2, <1>3, <1>4, <1>5, <1>6, <1>7, <1>8, <1>9, <1>10, <1>11, <1>12
    DEF QueueNext, WriterStep, ReaderStep

-----------------------------------------------------------------------------
(***************************************************************************)
(* The refinement: what the places from the read to the write index hold.  *)
(***************************************************************************)

Values == Items \cup {NoItem}

\* size() with the indexes apart.
Span(x, y) == IF x >= y THEN x - y ELSE x + Slots - y
From(y, i) == IF y + i - 1 >= Slots THEN y + i - 1 - Slots ELSE y + i - 1
Segment(b, x, y) == [i \in 1 .. Span(x, y) |-> b[From(y, i)]]

\* Contents is the segment of _buf between the indexes.
LEMMA ContentsIsSegment ==
    /\ Contents = Segment(buf, w, r)
    /\ Contents' = Segment(buf', w', r')
  BY DEF Contents, Segment, Count, Now, Span, From, Place

IsSegment(s, b, x, y) ==
    /\ s \in Seq(Values)
    /\ Len(s) = Span(x, y)
    /\ Span(x, y) \in 0 .. Size
    /\ \A i \in 1 .. Span(x, y) : From(y, i) \in Places /\ s[i] = b[From(y, i)]

\* A segment is a sequence of values, of the length size() gives.
LEMMA SegmentType ==
    ASSUME NEW b \in [Places -> Values], NEW x \in Places, NEW y \in Places
    PROVE  IsSegment(Segment(b, x, y), b, x, y)
  <1>1. Span(x, y) \in 0 .. Size
    BY DEF Span, Places
  <1>2. \A i \in 1 .. Span(x, y) : From(y, i) \in Places
    BY DEF Span, From, Places
  <1>3. Segment(b, x, y) \in [1 .. Span(x, y) -> Values]
    BY <1>2 DEF Segment
  <1>4. Segment(b, x, y) \in Seq(Values) /\ Len(Segment(b, x, y)) = Span(x, y)
    BY <1>1, <1>3
  <1> QED
    BY <1>1, <1>2, <1>4 DEF Segment, IsSegment

\* The places of a segment are the held ones, and differ.
LEMMA SegmentPlaces ==
    ASSUME QueueTypeOK, NEW k \in Places, Held(k)
    PROVE  \E i \in 1 .. Span(w, r) :
              /\ From(r, i) = k
              /\ \A j \in 1 .. Span(w, r) : From(r, j) = k => j = i
  <1> DEFINE n == Span(k, r) + 1
  <1>1. n \in 1 .. Span(w, r) /\ From(r, n) = k
    BY DEF Held, Span, From, QueueTypeOK, Places
  <1>2. \A j \in 1 .. Span(w, r) : From(r, j) = k => j = n
    BY DEF Held, Span, From, QueueTypeOK, Places
  <1> QED
    BY <1>1, <1>2

\* A claim reserves a place.
LEMMA ClaimReserves ==
    ASSUME QueueIInv, NEW p \in Writers, Claim(p)
    PROVE  Fifo!Reserve
  <1> DEFINE s == Segment(buf, w, r)
             t == Segment(buf', w', r')
  <1>1. /\ ~Full(Now) /\ w' = Advance(w) /\ r' = r /\ buf' = buf
        /\ w \in Places /\ r \in Places /\ buf \in [Places -> Values] /\ w' \in Places
        /\ buf' \in [Places -> Values] /\ r' \in Places
    BY AdvanceWraps DEF QueueIInv, QueueTypeOK, Claim, QueueLocals, Values
  <1>2. ~Held(w) /\ buf[w] = NoItem
    BY <1>1, HeldAfterClaim DEF QueueIInv, FreeIsEmpty
  <1>3. w' = (IF w = Size THEN 0 ELSE w + 1)
    BY <1>1, AdvanceWraps
  <1>4. Span(w', r) = Span(w, r) + 1 /\ Span(w, r) < Size /\ From(r, Span(w, r) + 1) = w
    BY <1>1, <1>3 DEF Full, Now, Span, From, Places
  <1>5. IsSegment(s, buf, w, r)
    BY <1>1, SegmentType
  <1>6. IsSegment(t, buf', w', r')
    BY <1>1, SegmentType
  <1>7. t = Append(s, NoItem)
    <2> HIDE DEF s, t
    <2> USE DEF IsSegment
    <2>1. /\ Append(s, NoItem) \in Seq(Values) /\ Len(Append(s, NoItem)) = Len(s) + 1
          /\ \A i \in 1 .. Len(s) : Append(s, NoItem)[i] = s[i]
          /\ Append(s, NoItem)[Len(s) + 1] = NoItem
      BY <1>5, NoItem \in Values DEF Values
    <2>2. \A i \in 1 .. Len(t) : t[i] = Append(s, NoItem)[i]
      BY <1>1, <1>2, <1>4, <1>5, <1>6, <2>1
    <2> QED
      BY <1>1, <1>4, <1>5, <1>6, <2>1, <2>2, SeqEqual
  <1>8. Taken' = Taken
    BY DEF Claim, readerVars, Taken
  <1> QED
    BY <1>4, <1>5, <1>7, <1>8, ContentsIsSegment DEF Fifo!Reserve, IsSegment

\* A write fills the place that was claimed.
LEMMA WriteFills ==
    ASSUME QueueIInv, NEW p \in Writers, Write(p)
    PROVE  \E i \in 1 .. Len(Contents) : Fifo!Fill(i, item[p])
  <1> DEFINE k == old[p].w
             s == Segment(buf, w, r)
             t == Segment(buf', w', r')
  <1>1. /\ k \in Places /\ Held(k) /\ buf[k] = NoItem /\ item[p] \in Items
        /\ rpc # "idle" => k # r
    BY DEF QueueIInv, QueueTypeOK, Indexes, Write, ClaimsExclusive, QueueLocals
  <1>2. /\ buf' = [buf EXCEPT ![k] = item[p]] /\ w' = w /\ r' = r /\ Taken' = Taken
        /\ w \in Places /\ r \in Places /\ buf \in [Places -> Values]
        /\ buf' \in [Places -> Values] /\ w' \in Places /\ r' \in Places
    BY <1>1 DEF QueueIInv, QueueTypeOK, Write, readerVars, Taken, Values
  <1>3. PICK n \in 1 .. Span(w, r) :
           /\ From(r, n) = k
           /\ \A j \in 1 .. Span(w, r) : From(r, j) = k => j = n
    BY <1>1, SegmentPlaces DEF QueueIInv
  <1>4. IsSegment(s, buf, w, r)
    BY <1>2, SegmentType
  <1>5. IsSegment(t, buf', w', r')
    BY <1>2, SegmentType
  <1>6. t = [s EXCEPT ![n] = item[p]]
    <2> HIDE DEF s, t, k
    <2> USE DEF IsSegment
    <2>1. /\ [s EXCEPT ![n] = item[p]] \in Seq(Values)
          /\ Len([s EXCEPT ![n] = item[p]]) = Len(s)
          /\ \A j \in 1 .. Len(s) :
                [s EXCEPT ![n] = item[p]][j] = IF j = n THEN item[p] ELSE s[j]
      BY <1>1, <1>3, <1>4, ExceptSeq DEF Values
    <2>2. \A j \in 1 .. Span(w, r) : t[j] = IF j = n THEN item[p] ELSE s[j]
      BY <1>1, <1>2, <1>3, <1>4, <1>5
    <2> QED
      BY <1>1, <1>2, <1>4, <1>5, <2>1, <2>2, SeqEqual
  <1>7. n = 1 => Taken = NoItem
    <2>1. n = 1 => k = r
      BY <1>2, <1>3 DEF From, Places
    <2> QED
      BY <2>1, <1>1 DEF Taken
  <1>8. s[n] = NoItem /\ n \in 1 .. Len(s)
    <2> HIDE DEF s, k
    <2> QED
      BY <1>1, <1>3, <1>4 DEF IsSegment
  <1> QED
    BY <1>2, <1>6, <1>7, <1>8, ContentsIsSegment DEF Fifo!Fill

\* Clearing the place takes the item.
LEMMA ClearTakes ==
    ASSUME QueueIInv, Clear
    PROVE  Fifo!Take
  <1> DEFINE s == Segment(buf, w, r)
             t == Segment(buf', w', r')
  <1>1. /\ buf[r] = result /\ result \in Items /\ w # r
        /\ buf' = [buf EXCEPT ![r] = NoItem] /\ w' = w /\ r' = r /\ Taken' = result
        /\ w \in Places /\ r \in Places /\ buf \in [Places -> Values]
        /\ buf' \in [Places -> Values] /\ w' \in Places /\ r' \in Places
    BY DEF QueueIInv, QueueTypeOK, Clear, QueueLocals, Taken, Values
  <1>2. Span(w, r) \in 1 .. Size /\ From(r, 1) = r
    BY <1>1 DEF Span, From, Places
  <1>3. \A j \in 1 .. Span(w, r) : From(r, j) = r => j = 1
    BY <1>1, <1>2 DEF Span, From, Places
  <1>4. IsSegment(s, buf, w, r)
    BY <1>1, SegmentType
  <1>5. IsSegment(t, buf', w', r')
    BY <1>1, SegmentType
  <1>6. t = [s EXCEPT ![1] = NoItem]
    <2> HIDE DEF s, t
    <2> USE DEF IsSegment
    <2>1. /\ [s EXCEPT ![1] = NoItem] \in Seq(Values)
          /\ Len([s EXCEPT ![1] = NoItem]) = Len(s)
          /\ \A j \in 1 .. Len(s) : [s EXCEPT ![1] = NoItem][j] = IF j = 1 THEN NoItem ELSE s[j]
      BY <1>2, <1>4, ExceptSeq DEF Values
    <2>2. \A j \in 1 .. Span(w, r) : t[j] = IF j = 1 THEN NoItem ELSE s[j]
      BY <1>1, <1>2, <1>3, <1>4, <1>5
    <2> QED
      BY <1>1, <1>2, <1>4, <1>5, <2>1, <2>2, SeqEqual
  <1>7. s # <<>> /\ Head(s) = result
    <2> HIDE DEF s
    <2> USE DEF IsSegment
    <2>1. Len(s) >= 1 /\ s[1] = result
      BY <1>1, <1>2, <1>4
    <2> QED
      BY <1>4, <2>1
  <1> QED
    BY <1>1, <1>6, <1>7, ContentsIsSegment DEF Fifo!Take

\* Advancing the read index gives the place back.
LEMMA ReleaseReleases ==
    ASSUME QueueIInv, Release
    PROVE  Fifo!Release
  <1> DEFINE s == Segment(buf, w, r)
             t == Segment(buf', w', r')
  <1>1. /\ w # r /\ r' = Advance(r) /\ w' = w /\ buf' = buf
        /\ w \in Places /\ r \in Places /\ buf \in [Places -> Values] /\ r' \in Places
        /\ buf' \in [Places -> Values] /\ w' \in Places
    BY AdvanceWraps DEF QueueIInv, QueueTypeOK, Release, QueueLocals, Values
  <1>2. r' = (IF r = Size THEN 0 ELSE r + 1)
    BY <1>1, AdvanceWraps
  <1>3. /\ Span(w, r) \in 1 .. Size /\ Span(w, r') = Span(w, r) - 1
        /\ \A i \in 1 .. Span(w, r) - 1 : From(r', i) = From(r, i + 1)
    BY <1>1, <1>2 DEF Span, From, Places
  <1>4. IsSegment(s, buf, w, r)
    BY <1>1, SegmentType
  <1>5. IsSegment(t, buf', w', r')
    BY <1>1, SegmentType
  <1>6. t = Tail(s)
    <2> HIDE DEF s, t
    <2> USE DEF IsSegment
    <2>1. /\ Tail(s) \in Seq(Values) /\ Len(Tail(s)) = Len(s) - 1
          /\ \A i \in 1 .. Len(Tail(s)) : Tail(s)[i] = s[i + 1]
      BY <1>3, <1>4, HeadTailProperties
    <2>2. \A i \in 1 .. Len(t) : t[i] = Tail(s)[i]
      BY <1>1, <1>3, <1>4, <1>5, <2>1
    <2> QED
      BY <1>1, <1>3, <1>4, <1>5, <2>1, <2>2, SeqEqual
  <1>7. Taken # NoItem /\ Taken' = NoItem
    BY DEF QueueIInv, QueueLocals, Release, Taken
  <1> QED
    BY <1>6, <1>7, ContentsIsSegment DEF Fifo!Release

\* Every step of the queue is a step of the abstract one, or none.
LEMMA StepFifo == QueueIInv /\ [QueueNext]_queueVars => [Fifo!Next]_(Fifo!vars)
  <1> SUFFICES ASSUME QueueIInv, [QueueNext]_queueVars, UNCHANGED <<Contents, Taken>> => FALSE
               PROVE  Fifo!Next
    BY DEF Fifo!vars
  <1>1. ASSUME buf' = buf, w' = w, r' = r, Taken' = Taken PROVE FALSE
    BY <1>1 DEF Contents, Count, Now, Place
  <1>2. ASSUME NEW p \in Writers, BeginEnqueue(p) \/ LoadIndexes(p) \/ Refused(p) \/ ClaimAgain(p)
        PROVE  FALSE
    BY <1>1, <1>2 DEF BeginEnqueue, LoadIndexes, Refused, ClaimAgain, readerVars, Taken
  <1>3. ASSUME NEW p \in Writers, Claim(p) PROVE Fifo!Next
    BY <1>3, ClaimReserves DEF Fifo!Next
  <1>4. ASSUME NEW p \in Writers, Write(p) PROVE Fifo!Next
    <2>1. item[p] \in Items
      BY <1>4 DEF Write, QueueIInv, QueueLocals
    <2> QED
      BY <2>1, <1>4, WriteFills DEF Fifo!Next
  <1>5. CASE Read \/ ReadLoad \/ ReleaseAgain \/ UNCHANGED queueVars
    BY <1>1, <1>5 DEF Read, ReadLoad, ReleaseAgain, queueVars, Taken
  <1>6. CASE Clear
    BY <1>6, ClearTakes DEF Fifo!Next
  <1>7. CASE Release
    BY <1>7, ReleaseReleases DEF Fifo!Next
  <1> QED
    BY <1>2, <1>3, <1>4, <1>5, <1>6, <1>7 DEF QueueNext, WriterStep, ReaderStep

\* An empty array is an empty sequence.
LEMMA InitFifo == QueueInit => Fifo!Init
  <1> SUFFICES ASSUME QueueInit PROVE Fifo!Init
    OBVIOUS
  <1>1. Contents = <<>>
    BY DEF QueueInit, Contents, Count, Now
  <1> QED
    BY <1>1 DEF QueueInit, Fifo!Init, Taken

-----------------------------------------------------------------------------
\* The indexes never leave the array, whatever the threads do.
THEOREM TypeCorrect == QueueSpec => []QueueTypeOK
  <1>1. QueueIInv => QueueTypeOK
    BY DEF QueueIInv
  <1> QED
    BY <1>1, QueueInitInv, QueueStepInv, PTL DEF QueueSpec

\* "oldval is 'unique'": a claimed place belongs to one writer until it is written.
THEOREM Exclusive == QueueSpec => []ClaimsExclusive
  <1>1. QueueIInv => ClaimsExclusive
    BY DEF QueueIInv
  <1> QED
    BY <1>1, QueueInitInv, QueueStepInv, PTL DEF QueueSpec

\* isFull() is size() = capacity() for all indexes that occur.
THEOREM FullCorrect == QueueSpec => []FullExact
  <1>1. QueueTypeOK => FullExact
    <2> SUFFICES ASSUME QueueTypeOK PROVE FullExact
      OBVIOUS
    <2>1. Now \in Indexes
      BY DEF QueueTypeOK, Now, Indexes
    <2> QED
      BY <2>1, FullIsCount DEF FullExact
  <1> QED
    BY <1>1, TypeCorrect, PTL

\* enqueue() and dequeue() implement a bounded first-in first-out queue.
THEOREM Implements == QueueSpec => IsFifoQueue
  <1> QED
    BY QueueInitInv, QueueStepInv, InitFifo, StepFifo, PTL DEF QueueSpec, IsFifoQueue, Fifo!Spec
=============================================================================
