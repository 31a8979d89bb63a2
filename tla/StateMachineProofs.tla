------------------------- MODULE StateMachineProofs -------------------------
(***************************************************************************)
(* What is pending fits the state of the machine, for any states,          *)
(* transitions, events and programs that are Announced, whatever the       *)
(* programs wait for and wherever they fail, when the users are Patient;   *)
(* a machine that is stopped gets to its final state, if FinalRests; the   *)
(* evaluation of transitions keeps their priority, if Restarts.            *)
(*                                                                         *)
(* An operation is a function from a machine to the set of machines it may *)
(* leave, so the lemmas are about a machine n and a machine x that is one  *)
(* of these; the variable m appears only in the lemmas about the steps.    *)
(***************************************************************************)
EXTENDS StateMachine, TLAPS

(***************************************************************************)
(* The inductive invariant.                                                *)
(***************************************************************************)
ProgramStatuses == {"stopped", "running", "paused", "stepping", "error"}
Pending == Programs \cup {None}
Machines ==
    [status : Statuses, request : Requests, current : States \cup {Null},
     next : States \cup {Null}, trans : Pending, exit : Pending, entry : Pending,
     handle : Pending, run : Pending, prog : Pending,
     progStatus : [Programs -> ProgramStatuses], req : Nat \ {0}, mstep : BOOLEAN,
     events : SUBSET (States \cup {Null}), ok : BOOLEAN]

\* What is pending belongs to the state that is left or to the one that is entered.
Own(n) ==
    /\ n.trans # None => n.trans[1] = "trans"
    /\ n.exit \in {None, Program("exit", n.current)}
    /\ n.handle \in {None, Program("handle", n.current)}
    /\ n.entry \in {None, Program("entry", n.next)}
    /\ n.run \in {None, Program("run", n.next)}

Current(n) == n.prog \in {None, n.trans, n.exit, n.entry, n.handle, n.run}

\* What is pending has been started, and only programs that may fail have failed.
Begun(n) ==
    /\ \A s \in Slots : n[s] # None => n.progStatus[n[s]] # "stopped"
    /\ \A p \in Programs : n.progStatus[p] = "error" => p \in MayFail

\* Between two states.
Crossing(n) == n.current # n.next /\ n.current # Null /\ n.next # Null

\* The transition that is evaluated next is one of the state's.
Counted(n) == n.current # Null => n.req = 1 \/ n.req \in DOMAIN Transitions[n.current]

OnTheWay(n) ==
    /\ Counted(n)
    /\ n.current # n.next => n.handle = None
    /\ n.handle # None => n.exit = None /\ n.entry = None
    /\ Crossing(n) => /\ n.exit = Program("exit", n.current)
                      /\ n.entry = Program("entry", n.next)
    /\ n.current = Null => n.exit = None /\ n.trans = None
    /\ n.next = Null => /\ n.entry = None /\ n.handle = None /\ n.run = None
                        /\ Null \notin n.events /\ n.current \notin n.events

\* A machine that is not in transition, as the users see it, is in its state, or between two
\* that have no programs.
Visible(n) ==
    \/ InTransition(n) \/ n.next = Null
    \/ /\ n.exit = None /\ n.entry = None
       /\ n.current # n.next => n.run = None

Good(n) ==
    /\ n \in Machines
    /\ Own(n) /\ Current(n) /\ Begun(n) /\ OnTheWay(n) /\ Visible(n)
    /\ n.status = "error" => InTransition(n)

\* Between two calls.
Kept(n) ==
    /\ Good(n)
    /\ n.status = "inactive" <=> n.current = Null
    /\ n.current = Null => n.next = Null
    /\ n.status = "deactivating" => n.next = Null
    /\ n.next = Null => n.status \in {"inactive", "deactivating", "error"} /\ n.request = "nill"

IInv == Kept(m) /\ m.ok


-----------------------------------------------------------------------------
(***************************************************************************)
(* The fields of a machine.                                                *)
(***************************************************************************)
\* Each slot holds programs of its own kind.
Kinds(n) == \A s \in Slots : n[s] # None => n[s] \in Programs /\ n[s][1] = s

Alike(n, x) ==
    /\ x.status = n.status /\ x.request = n.request
    /\ x.current = n.current /\ x.next = n.next /\ x.events = n.events /\ x.req = n.req

\* What the operations see of a program.
LEMMA ProgramIs ==
  ASSUME NEW kind, NEW s
  PROVE  /\ Program(kind, s) \in Pending
         /\ Program(kind, s) # None => /\ Program(kind, s) = <<kind, s>>
                                       /\ Program(kind, s) \in Programs
                                       /\ Program(kind, s)[1] = kind
                                       /\ Program(kind, s)[2] = s
         /\ <<kind, s>> \in Programs => Program(kind, s) # None
<1>1. <<kind, s>> # <<>>
  OBVIOUS
<1> QED
  BY <1>1 DEF Program, Pending, None

\* Transition programs, too.
LEMMA TransIs ==
  ASSUME NEW s, NEW t
  PROVE  /\ TransProgram(s, t) \in Pending
         /\ TransProgram(s, t) # None => TransProgram(s, t)[1] = "trans"
  BY DEF TransProgram, Pending, None

\* A pending program is in one slot.
LEMMA OwnKinds ==
  ASSUME NEW n \in Machines, Own(n)
  PROVE  Kinds(n)
<1>1. /\ n.trans \in Pending /\ n.exit \in Pending /\ n.entry \in Pending
      /\ n.handle \in Pending /\ n.run \in Pending
  BY DEF Machines
<1>2. /\ n.exit # None => n.exit[1] = "exit"
      /\ n.entry # None => n.entry[1] = "entry"
      /\ n.handle # None => n.handle[1] = "handle"
      /\ n.run # None => n.run[1] = "run"
      /\ n.trans # None => n.trans[1] = "trans"
  <2>1. \A kind : \A s : Program(kind, s) # None => Program(kind, s)[1] = kind
    BY ProgramIs
  <2> QED
    BY <2>1 DEF Own
<1> QED
  BY <1>1, <1>2 DEF Kinds, Slots, Pending

\* The same, slot by slot.
LEMMA Different ==
  ASSUME NEW n \in Machines, Kinds(n)
  PROVE  \A s, t \in Slots : s # t /\ n[s] # None => n[s] # n[t]
  BY DEF Kinds

\* Another program in a slot.
LEMMA Filled ==
  ASSUME NEW n \in Machines, NEW slot \in Slots, NEW p \in Pending
  PROVE  /\ [n EXCEPT ![slot] = p] \in Machines
         /\ [n EXCEPT ![slot] = p][slot] = p
         /\ \A s \in Slots \ {slot} : [n EXCEPT ![slot] = p][s] = n[s]
         /\ [n EXCEPT ![slot] = p].prog = n.prog
         /\ [n EXCEPT ![slot] = p].progStatus = n.progStatus
         /\ Alike(n, [n EXCEPT ![slot] = p])
  BY DEF Machines, Slots, Alike

\* In x, another program is in the slot, and has been started.
Holds(n, slot, p, x) ==
    /\ x \in Machines /\ x[slot] = p
    /\ \A s \in Slots \ {slot} : x[s] = n[s]
    /\ x.progStatus = IF p = None THEN n.progStatus ELSE [n.progStatus EXCEPT ![p] = "running"]
    /\ Alike(n, x)

\* A program becomes pending.
LEMMA Pended ==
  ASSUME NEW n \in Machines, NEW slot \in Slots, NEW p \in Pending
  PROVE  Holds(n, slot, p, Pend(n, slot, p)) /\ Pend(n, slot, p).prog = n.prog
<1>1. CASE p = None
  BY <1>1, Filled DEF Pend, Holds
<1>2. CASE p # None
  <2> DEFINE st == [n.progStatus EXCEPT ![p] = "running"]
             x == [n EXCEPT ![slot] = p, !.progStatus = st]
  <2>1. p \in Programs
    BY <1>2 DEF Pending
  <2>2. st \in [Programs -> ProgramStatuses]
    BY <2>1 DEF Machines, ProgramStatuses
  <2>3. [n EXCEPT ![slot] = p, !.progStatus[p] = "running"] = x
    BY DEF Machines, Slots
  <2>4. Pend(n, slot, p) = x
    BY <1>2, <2>3 DEF Pend
  <2> HIDE DEF st
  <2>5. x \in Machines
    BY <2>2 DEF Machines, Slots
  <2>6. x.progStatus = st /\ x.prog = n.prog /\ Alike(n, x)
    BY DEF Machines, Slots, Alike
  <2>7. x[slot] = p /\ \A s \in Slots \ {slot} : x[s] = n[s]
    BY DEF Machines, Slots
  <2> QED
    BY <1>2, <2>4, <2>5, <2>6, <2>7 DEF st, Holds
<1> QED
  BY <1>1, <1>2

\* The same, when it becomes the current one if there is none.
LEMMA BeginIs ==
  ASSUME NEW n \in Machines, NEW slot \in Slots, NEW p \in Pending
  PROVE  /\ Holds(n, slot, p, Begin(n, slot, p))
         /\ Begin(n, slot, p).prog = IF n.prog = None THEN p ELSE n.prog
<1> DEFINE b == Pend(n, slot, p)
           c == [b EXCEPT !.prog = p]
<1>1. Begin(n, slot, p) = IF b.prog = None THEN c ELSE b
  BY DEF Begin
<1>2. Holds(n, slot, p, b) /\ b.prog = n.prog
  BY Pended
<1> HIDE DEF b
<1>3. /\ c \in Machines /\ c.prog = p /\ c.progStatus = b.progStatus /\ Alike(b, c)
      /\ \A s \in Slots : c[s] = b[s]
  BY <1>2 DEF Holds, Machines, Slots, Alike
<1> QED
  BY <1>1, <1>2, <1>3 DEF Holds, Alike

\* A program that is pending has been started ...
LEMMA BegunStays ==
  ASSUME NEW n \in Machines, Begun(n), NEW x \in Machines,
         \A s \in Slots : x[s] # None => \/ \E t \in Slots : x[s] = n[t]
                                         \/ x.progStatus[x[s]] \in {"running", "paused"},
         \A p \in Programs : x.progStatus[p] \in {n.progStatus[p], "running", "paused"}
  PROVE  Begun(x)
<1>1. ASSUME NEW s \in Slots, x[s] # None, x.progStatus[x[s]] = "stopped" PROVE FALSE
  <2>1. PICK t \in Slots : x[s] = n[t]
    BY <1>1
  <2>2. x[s] \in Programs
    BY <1>1 DEF Machines, Slots, Pending
  <2> QED
    BY <1>1, <2>1, <2>2 DEF Begun
<1>2. ASSUME NEW p \in Programs, x.progStatus[p] = "error" PROVE p \in MayFail
  BY <1>2 DEF Begun
<1> QED
  BY <1>1, <1>2 DEF Begun

\* The statuses of the programs are the same.
LEMMA SameBegun ==
  ASSUME NEW n, Begun(n), NEW x,
         x.trans = n.trans, x.exit = n.exit, x.entry = n.entry, x.handle = n.handle,
         x.run = n.run, x.progStatus = n.progStatus
  PROVE  Begun(x)
  BY DEF Begun, Slots

-----------------------------------------------------------------------------
(***************************************************************************)
(* execute() of a pending program.                                         *)
(***************************************************************************)
\* The program in a slot has ended ...
Ended(n, slot, x) ==
    /\ x \in Machines /\ x.ok /\ Alike(n, x)
    /\ x[slot] = None /\ x.prog = None
    /\ \A s \in Slots \ {slot} : x[s] = n[s]
    /\ Begun(x)

\* ... or has something left to do, or has failed.
Waiting(n, slot, x) ==
    /\ x \in Machines /\ ~x.ok
    /\ x.current = n.current /\ x.next = n.next /\ x.events = n.events /\ x.req = n.req
    /\ x.request \in {n.request, "nill"}
    /\ x.status = n.status \/ (x.status = "error" /\ n[slot] \in MayFail)
    /\ x.prog = n[slot]
    /\ \A s \in Slots : x[s] = n[s]
    /\ Begun(x)

\* What a program may do.
LEMMA OutcomesAre ==
  ASSUME NEW p \in Programs, NEW status \in ProgramStatuses, NEW st \in Outcomes(p, status)
  PROVE  /\ st \in ProgramStatuses
         /\ st = "error" => p \in MayFail \/ status = "error"
         /\ st = "running" => status = "running"
         /\ st = "stepping" => status = "stepping"
  BY DEF Outcomes, ProgramStatuses

\* execute() of a program: it ends, it waits, or it fails; no program ends when a step is
\* only asked for.
LEMMA Executed ==
  ASSUME NEW n \in Machines, Begun(n), Kinds(n), NEW slot \in Slots, n[slot] # None,
         NEW stepping \in BOOLEAN, NEW x \in ExecuteProgram(n, slot, stepping)
  PROVE  (~stepping /\ Ended(n, slot, x)) \/ Waiting(n, slot, x)
<1> DEFINE p == n[slot]
           old == n.progStatus[p]
           after == IF ~stepping THEN Outcomes(p, old)
                    ELSE {IF old = "paused" THEN "stepping" ELSE old}
           Left(st) == [n EXCEPT !.prog = p, !.progStatus[p] = st, !.ok = FALSE]
<1>1. p \in Programs
  BY DEF Kinds
<1>2. old \in ProgramStatuses /\ old # "stopped" /\ (old = "error" => p \in MayFail)
  BY <1>1 DEF Machines, Begun
<1>3. \A st \in after : /\ st \in ProgramStatuses
                        /\ st = "error" => p \in MayFail
                        /\ stepping => st # "stopped"
  <2>1. CASE stepping
    BY <1>2, <2>1 DEF ProgramStatuses
  <2>2. CASE ~stepping
    BY <1>1, <1>2, <2>2, OutcomesAre
  <2> QED
    BY <2>1, <2>2
<1>4. PICK st \in after :
        x = CASE st = "error" -> [Left(st) EXCEPT !.status = "error", !.request = "nill"]
              [] st = "stopped" -> [Left(st) EXCEPT ![slot] = None, !.prog = None, !.ok = TRUE]
              [] OTHER -> Left(st)
  BY DEF ExecuteProgram
<1>5. st \in ProgramStatuses /\ (st = "error" => p \in MayFail) /\ (stepping => st # "stopped")
  BY <1>3
<1> DEFINE ps == [n.progStatus EXCEPT ![p] = st]
           d == [n EXCEPT !.prog = p, !.progStatus = ps, !.ok = FALSE]
<1>6. /\ ps \in [Programs -> ProgramStatuses]
      /\ ps[p] = st /\ \A q \in Programs \ {p} : ps[q] = n.progStatus[q]
  BY <1>1, <1>5 DEF Machines
<1>7. Left(st) = d
  BY <1>1 DEF Machines
<1> HIDE DEF ps, after
<1>8. /\ d \in Machines /\ ~d.ok /\ Alike(n, d) /\ d.prog = p /\ d.progStatus = ps
      /\ \A s \in Slots : d[s] = n[s]
  <2>1. p \in Pending
    BY <1>1 DEF Pending
  <2> HIDE DEF p
  <2>2. d \in Machines
    BY <1>6, <2>1 DEF Machines
  <2>3. ~d.ok /\ Alike(n, d) /\ d.prog = p /\ d.progStatus = ps
    BY DEF Machines, Alike
  <2>4. \A s \in Slots : d[s] = n[s]
    BY DEF Machines, Slots
  <2> QED
    BY <2>2, <2>3, <2>4
<1>0. p = n[slot]
  OBVIOUS
<1> HIDE DEF d, p
<1>9. \A s \in Slots : n[s] # None /\ n[s] # p => ps[n[s]] # "stopped"
  BY <1>6 DEF Begun, Kinds
<1>10. \A q \in Programs : ps[q] = "error" => q \in MayFail
  BY <1>1, <1>5, <1>6 DEF Begun
<1>11. \A s \in Slots \ {slot} : n[s] # None => n[s] # p
  BY Different DEF p
<1>12. CASE st = "stopped"
  <2>1. x = [d EXCEPT ![slot] = None, !.prog = None, !.ok = TRUE]
    BY <1>4, <1>7, <1>12
  <2>2. /\ x \in Machines /\ x.ok /\ Alike(d, x) /\ x.prog = None /\ x.progStatus = d.progStatus
    <3>1. None \in Pending
      BY DEF Pending
    <3>2. x \in Machines
      BY <1>8, <2>1, <3>1 DEF Machines, Slots
    <3>3. x.ok /\ x.prog = None /\ x.progStatus = d.progStatus
      BY <1>8, <2>1 DEF Machines, Slots
    <3>4. Alike(d, x)
      BY <1>8, <2>1 DEF Machines, Slots, Alike
    <3> QED
      BY <3>2, <3>3, <3>4
  <2>3. x[slot] = None /\ \A s \in Slots \ {slot} : x[s] = d[s]
    BY <1>8, <2>1 DEF Machines, Slots
  <2>4. Begun(x)
    BY <1>8, <1>9, <1>10, <1>11, <2>2, <2>3 DEF Begun
  <2> QED
    BY <1>5, <1>8, <1>12, <2>2, <2>3, <2>4 DEF Ended, Alike
<1>13. CASE st = "error"
  <2>1. x = [d EXCEPT !.status = "error", !.request = "nill"]
    BY <1>4, <1>7, <1>13
  <2>2. /\ x \in Machines /\ ~x.ok /\ x.status = "error" /\ x.request = "nill"
        /\ x.current = d.current /\ x.next = d.next /\ x.events = d.events /\ x.req = d.req
        /\ x.prog = d.prog /\ x.progStatus = d.progStatus
        /\ \A s \in Slots : x[s] = d[s]
    BY <1>8, <2>1 DEF Machines, Slots, Statuses, Requests
  <2>3. Begun(x)
    BY <1>6, <1>8, <1>9, <1>10, <1>13, <2>2 DEF Begun
  <2> QED
    BY <1>0, <1>5, <1>8, <1>13, <2>2, <2>3 DEF Waiting, Alike
<1>14. CASE st # "stopped" /\ st # "error"
  <2>1. x = d
    BY <1>4, <1>7, <1>14
  <2>2. Begun(d)
    BY <1>6, <1>8, <1>9, <1>10, <1>14 DEF Begun
  <2> QED
    BY <1>0, <1>8, <2>1, <2>2 DEF Waiting, Alike
<1> QED
  BY <1>12, <1>13, <1>14

\* A stage of executePending() passes an empty slot by.
LEMMA Staged ==
  ASSUME NEW n \in Machines, n.ok, Begun(n), Kinds(n), NEW slot \in Slots,
         NEW stepping \in BOOLEAN, NEW follow, NEW x \in Stage(n, slot, stepping, follow)
  PROVE  \/ n[slot] = None /\ x = n
         \/ n[slot] # None /\ ~stepping /\ Ended(n, slot, x)
         \/ n[slot] # None /\ Waiting(n, slot, x)
<1>1. CASE n[slot] = None
  BY <1>1 DEF Stage
<1>2. CASE n[slot] # None
  <2>1. PICK d \in ExecuteProgram(n, slot, stepping) :
          IF d.ok
          THEN x = IF stepping THEN [d EXCEPT !.prog = FirstOf(d, follow), !.ok = FALSE] ELSE d
          ELSE x = d
    BY <1>2 DEF Stage, Then
  <2>2. (~stepping /\ Ended(n, slot, d)) \/ Waiting(n, slot, d)
    BY <1>2, Executed
  <2> QED
    BY <1>2, <2>1, <2>2 DEF Waiting, Ended
<1> QED
  BY <1>1, <1>2

-----------------------------------------------------------------------------
(***************************************************************************)
(* executePending(): the machine on its way through the stages.            *)
(***************************************************************************)
\* Before a stage.
Ready(n) ==
    /\ n \in Machines /\ n.ok /\ n.status # "error"
    /\ Own(n) /\ Begun(n) /\ OnTheWay(n)

\* What an execution leaves alone.
Led(n, x) ==
    /\ x.next = n.next /\ x.events = n.events /\ x.current \in {n.current, n.next}
    /\ x.status \in {n.status, "error"} /\ x.request \in {n.request, "nill"}
    /\ x.run \in {None, n.run} /\ x.trans \in {None, n.trans} /\ x.handle \in {None, n.handle}
    /\ x.req \in {n.req, 1}
    /\ n.next # Null /\ x.current # n.current => x.req = 1

\* A program has something left to do, or has failed ...
Waits(x) ==
    /\ ~x.ok /\ x.prog # None /\ Good(x)
    /\ x.current # x.next => InTransition(x) /\ x.prog \in {x.trans, x.exit}
    /\ x.handle # None => x.prog = x.handle

\* ... or the machine has arrived.
Arrived(x) ==
    /\ x.ok /\ x.prog = None /\ Good(x) /\ x.status # "error" /\ x.current = x.next
    /\ x.exit = None /\ x.entry = None /\ x.handle = None /\ x.run = None

\* Run and handle programs do not fail.
LEMMA RunsSucceed ==
  ASSUME Announced, NEW n \in Machines, Own(n), OnTheWay(n)
  PROVE  /\ n.run # None => n.run \notin MayFail
         /\ n.handle # None => n.handle \notin MayFail
<1>0. \A s \in States : <<"run", s>> \notin MayFail /\ <<"handle", s>> \notin MayFail
  BY DEF Announced
<1>1. ASSUME n.run # None PROVE n.run \notin MayFail
  <2>1. n.run = <<"run", n.next>>
    <3>1. n.run = Program("run", n.next)
      BY <1>1 DEF Own
    <3> QED
      BY <1>1, <3>1, ProgramIs
  <2>2. n.next \in States
    <3>1. n.next # Null
      BY <1>1 DEF OnTheWay
    <3>2. n.next \in States \cup {Null}
      BY DEF Machines
    <3> QED
      BY <3>1, <3>2
  <2> QED
    BY <1>0, <2>1, <2>2
<1>2. ASSUME n.handle # None PROVE n.handle \notin MayFail
  <2>1. n.handle = <<"handle", n.current>>
    <3>1. n.handle = Program("handle", n.current)
      BY <1>2 DEF Own
    <3> QED
      BY <1>2, <3>1, ProgramIs
  <2>2. n.current \in States
    <3>1. n.current # Null
      BY <1>2 DEF OnTheWay
    <3>2. n.current \in States \cup {Null}
      BY DEF Machines
    <3> QED
      BY <3>1, <3>2
  <2> QED
    BY <1>0, <2>1, <2>2
<1> QED
  BY <1>1, <1>2

\* A program that waits is the current one.
LEMMA WaitingWaits ==
  ASSUME Announced, NEW n, Ready(n), NEW slot \in Slots, n[slot] # None,
         \/ slot \in {"trans", "exit"}
         \/ n.exit = None /\ n.current = n.next /\ (slot = "entry" \/ n.entry = None),
         slot \in {"trans", "run"} => n.handle = None,
         NEW x, Waiting(n, slot, x)
  PROVE  Led(n, x) /\ Waits(x)
<1>1. Kinds(n) /\ n \in Machines
  BY OwnKinds DEF Ready
<1>2. /\ x.trans = n.trans /\ x.exit = n.exit /\ x.entry = n.entry
      /\ x.handle = n.handle /\ x.run = n.run
  BY DEF Waiting, Slots
<1>3. /\ x.current = n.current /\ x.next = n.next /\ x.events = n.events /\ x.req = n.req
      /\ x \in Machines /\ ~x.ok /\ x.prog = n[slot] /\ Begun(x)
      /\ x.request \in {n.request, "nill"}
      /\ x.status = n.status \/ (x.status = "error" /\ n[slot] \in MayFail)
  BY DEF Waiting
<1>4. Own(x) /\ OnTheWay(x)
  BY <1>2, <1>3 DEF Ready, Own, OnTheWay, Counted, Crossing
<1>5. Led(n, x)
  BY <1>2, <1>3 DEF Led
<1>6. Current(x)
  BY <1>2, <1>3 DEF Current, Slots
<1>7. slot \in {"trans", "exit", "entry"} => InTransition(x)
  <2>1. \A s \in Slots \ {slot} : n[slot] # n[s]
    BY <1>1, Different
  <2>2. slot \in {"trans", "exit", "entry"} => n[slot] # n.run /\ n[slot] # n.handle
    BY <2>1 DEF Slots
  <2> QED
    BY <1>2, <1>3, <2>2 DEF InTransition
<1>8. Visible(x)
  BY <1>2, <1>3, <1>7 DEF Visible
<1>9. x.status = "error" => InTransition(x)
  <2>1. slot \in {"run", "handle"} => n[slot] \notin MayFail
    BY <1>1, RunsSucceed DEF Ready
  <2> QED
    BY <1>3, <1>7, <2>1 DEF Ready, Slots
<1>10. x.current # x.next => InTransition(x) /\ x.prog \in {x.trans, x.exit}
  BY <1>2, <1>3, <1>7
<1>11. x.handle # None => x.prog = x.handle
  <2>1. slot \in {"exit", "entry"} => n.handle = None
    BY DEF Ready, OnTheWay
  <2> QED
    BY <1>2, <1>3, <2>1 DEF Slots
<1> QED
  BY <1>3, <1>4, <1>5, <1>6, <1>8, <1>9, <1>10, <1>11 DEF Waits, Good

\* A program that has ended leaves the others; after an exit program the state is left.
LEMMA EndedReady ==
  ASSUME NEW n, Ready(n), NEW slot \in Slots \ {"exit"}, n[slot] # None,
         slot = "entry" => n.current = n.next,
         NEW x, Ended(n, slot, x)
  PROVE  /\ Ready(x) /\ Led(n, x) /\ Alike(n, x) /\ x.prog = None /\ x[slot] = None
         /\ \A s \in Slots \ {slot} : x[s] = n[s]
<1>1. /\ x \in Machines /\ x.ok /\ Alike(n, x) /\ x.prog = None /\ Begun(x)
      /\ x[slot] = None /\ \A s \in Slots \ {slot} : x[s] = n[s]
  BY DEF Ended
<1>2. /\ x.exit = n.exit
      /\ x.trans \in {None, n.trans} /\ x.handle \in {None, n.handle}
      /\ x.run \in {None, n.run} /\ x.entry \in {None, n.entry}
      /\ n.current # n.next => x.entry = n.entry
  BY <1>1 DEF Slots
<1>3. /\ x.current = n.current /\ x.next = n.next /\ x.events = n.events /\ x.req = n.req
      /\ x.status = n.status /\ x.request = n.request
  BY <1>1 DEF Alike
<1>4. Own(x)
  BY <1>2, <1>3 DEF Own, Ready
<1>5. OnTheWay(x)
  BY <1>2, <1>3 DEF OnTheWay, Counted, Ready, Crossing
<1>6. Led(n, x)
  BY <1>2, <1>3 DEF Led
<1> QED
  BY <1>1, <1>3, <1>4, <1>5, <1>6 DEF Ready

\* One stage.
LEMMA LedFurther ==
  ASSUME NEW n, NEW x, NEW y, Led(n, x), Led(x, y)
  PROVE  Led(n, y)
  BY DEF Led

\* In its state, before the stages that are left: nothing else is pending but a transition
\* program that a handle program has gone before.
In(n) ==
    /\ Ready(n) /\ n.current = n.next /\ n.exit = None
    /\ Current(n) /\ (n.prog = None \/ n.trans = None)

\* A program that ended is followed by the next stage.
LEMMA EndedIn ==
  ASSUME NEW n, In(n), NEW slot \in {"entry", "handle", "run"}, n[slot] # None,
         NEW x, Ended(n, slot, x)
  PROVE  /\ In(x) /\ Led(n, x) /\ x[slot] = None /\ x.prog = None
         /\ \A s \in Slots \ {slot} : x[s] = n[s]
<1>1. slot \in Slots \ {"exit"}
  BY DEF Slots
<1>2. /\ Ready(x) /\ Led(n, x) /\ Alike(n, x) /\ x.prog = None /\ x[slot] = None
      /\ \A s \in Slots \ {slot} : x[s] = n[s]
  BY <1>1, EndedReady DEF In
<1>3. x.exit = n.exit
  BY <1>1, <1>2 DEF Slots
<1> QED
  BY <1>2, <1>3 DEF In, Current, Alike

\* The run program.
LEMMA RunStage ==
  ASSUME Announced, NEW n, In(n), n.entry = None, n.handle = None, NEW stepping \in BOOLEAN,
         NEW x \in Stage(n, "run", stepping, <<>>)
  PROVE  Led(n, x) /\ (Waits(x) \/ Arrived(x))
<1>1. "run" \in Slots /\ n \in Machines /\ n.ok /\ Begun(n) /\ Kinds(n) /\ Ready(n)
  BY OwnKinds DEF In, Ready, Slots
<1>2. \/ n.run = None /\ x = n
      \/ n.run # None /\ Ended(n, "run", x)
      \/ n.run # None /\ Waiting(n, "run", x)
  BY <1>1, Staged
<1>3. ASSUME NEW y, In(y), y.entry = None, y.handle = None, y.run = None, y.prog = None
      PROVE  Arrived(y)
  BY <1>3 DEF Arrived, In, Ready, Good, Visible
<1>4. CASE n.run = None /\ x = n
  <2>1. n.prog = None
    BY <1>4 DEF In, Current
  <2> QED
    BY <1>3, <1>4, <2>1 DEF Led
<1>5. CASE n.run # None /\ Ended(n, "run", x)
  <2>1. /\ In(x) /\ Led(n, x) /\ x.run = None /\ x.prog = None
        /\ \A s \in Slots \ {"run"} : x[s] = n[s]
    BY <1>5, EndedIn
  <2>2. x.entry = None /\ x.handle = None
    BY <2>1 DEF Slots
  <2> QED
    BY <1>3, <2>1, <2>2
<1>6. CASE n.run # None /\ Waiting(n, "run", x)
  BY <1>1, <1>6, WaitingWaits DEF In
<1> QED
  BY <1>2, <1>4, <1>5, <1>6

\* Then's cases: an execution that ended goes on, another is the result.
LEMMA HandleStage ==
  ASSUME Announced, NEW n, In(n), n.entry = None, NEW stepping \in BOOLEAN,
         NEW x \in HandleStages(n, stepping)
  PROVE  Led(n, x) /\ (Waits(x) \/ Arrived(x))
<1>1. "handle" \in Slots /\ n \in Machines /\ n.ok /\ Begun(n) /\ Kinds(n) /\ Ready(n)
  BY OwnKinds DEF In, Ready, Slots
<1>2. PICK e \in Stage(n, "handle", stepping, <<"run">>) :
        IF e.ok THEN x \in Stage(e, "run", stepping, <<>>) ELSE x = e
  BY DEF HandleStages, Then
<1>3. \/ n.handle = None /\ e = n
      \/ n.handle # None /\ Ended(n, "handle", e)
      \/ n.handle # None /\ Waiting(n, "handle", e)
  BY <1>1, Staged
<1>4. CASE n.handle = None /\ e = n
  BY <1>1, <1>2, <1>4, RunStage
<1>5. CASE n.handle # None /\ Ended(n, "handle", e)
  <2>1. /\ In(e) /\ Led(n, e) /\ e.handle = None
        /\ \A s \in Slots \ {"handle"} : e[s] = n[s]
    BY <1>5, EndedIn
  <2>2. e.entry = None /\ e.ok
    BY <2>1 DEF Slots, In, Ready
  <2>3. Led(e, x) /\ (Waits(x) \/ Arrived(x))
    BY <1>2, <2>1, <2>2, RunStage
  <2> QED
    BY <2>1, <2>3, LedFurther
<1>6. CASE n.handle # None /\ Waiting(n, "handle", e)
  <2>1. x = e
    BY <1>2, <1>6 DEF Waiting
  <2> QED
    BY <1>1, <1>6, <2>1, WaitingWaits DEF In
<1> QED
  BY <1>3, <1>4, <1>5, <1>6

\* From the entry program on.
LEMMA EnterStage ==
  ASSUME Announced, NEW n, In(n), NEW stepping \in BOOLEAN, NEW x \in EnterStages(n, stepping)
  PROVE  Led(n, x) /\ (Waits(x) \/ Arrived(x))
<1>1. "entry" \in Slots /\ n \in Machines /\ n.ok /\ Begun(n) /\ Kinds(n) /\ Ready(n)
  BY OwnKinds DEF In, Ready, Slots
<1>2. PICK d \in Stage(n, "entry", stepping, <<"run">>) :
        IF d.ok THEN x \in HandleStages(d, stepping) ELSE x = d
  BY DEF EnterStages, Then
<1>3. \/ n.entry = None /\ d = n
      \/ n.entry # None /\ Ended(n, "entry", d)
      \/ n.entry # None /\ Waiting(n, "entry", d)
  BY <1>1, Staged
<1>4. CASE n.entry = None /\ d = n
  BY <1>1, <1>2, <1>4, HandleStage
<1>5. CASE n.entry # None /\ Ended(n, "entry", d)
  <2>1. In(d) /\ Led(n, d) /\ d.entry = None
    BY <1>5, EndedIn
  <2>2. d.ok
    BY <2>1 DEF In, Ready
  <2>3. Led(d, x) /\ (Waits(x) \/ Arrived(x))
    BY <1>2, <2>1, <2>2, HandleStage
  <2> QED
    BY <2>1, <2>3, LedFurther
<1>6. CASE n.entry # None /\ Waiting(n, "entry", d)
  <2>1. x = d
    BY <1>2, <1>6 DEF Waiting
  <2> QED
    BY <1>1, <1>6, <2>1, WaitingWaits DEF In
<1> QED
  BY <1>3, <1>4, <1>5, <1>6

\* The state is left for the next one, or for none.
Out(n) ==
    /\ Ready(n)
    /\ n.prog = None \/ n.trans = None
    /\ Current(n) \/ n.exit # None
    /\ n.next = Null => n.trans = None

\* Its exit program is done.
Gone(n) ==
    /\ n \in Machines /\ n.ok /\ n.status # "error" /\ n.exit = None /\ Counted(n)
    /\ Own(n) /\ Begun(n) /\ Current(n) /\ (n.prog = None \/ n.trans = None)
    /\ n.current # n.next => n.handle = None
    /\ n.handle # None => n.entry = None
    /\ n.current = Null => n.trans = None
    /\ n.next = Null => /\ n.entry = None /\ n.handle = None /\ n.run = None /\ n.trans = None
                        /\ Null \notin n.events /\ n.current \notin n.events

\* The machine is in its next state.
LEMMA Switched ==
  ASSUME NEW n, Gone(n)
  PROVE  /\ In(SwitchState(n)) /\ Led(n, SwitchState(n)) /\ SwitchState(n).trans = n.trans
         /\ n.current # Null /\ n.next = Null => Arrived(SwitchState(n))
<1> DEFINE x == SwitchState(n)
<1>1. /\ x \in Machines /\ x.current = n.next /\ x.next = n.next /\ x.events = n.events
      /\ x.status = n.status /\ x.request = n.request /\ x.ok = n.ok
      /\ x.prog = n.prog /\ x.progStatus = n.progStatus
      /\ x.trans = n.trans /\ x.exit = n.exit /\ x.entry = n.entry
      /\ x.handle = n.handle /\ x.run = n.run
      /\ x.req = IF n.current = n.next \/ n.next = Null THEN n.req ELSE 1
  <2>1. n \in Machines /\ n.req \in Nat \ {0} /\ 1 \in Nat \ {0}
    BY DEF Gone, Machines
  <2>2. CASE n.current = n.next
    BY <2>1, <2>2 DEF SwitchState
  <2>3. CASE n.current # n.next
    <3> DEFINE r == IF n.next = Null THEN n.req ELSE 1
    <3>1. r \in Nat \ {0}
      BY <2>1
    <3>2. x = [n EXCEPT !.current = n.next, !.req = r]
      BY <2>3 DEF SwitchState
    <3>3. r = IF n.current = n.next \/ n.next = Null THEN n.req ELSE 1
      BY <2>3
    <3> HIDE DEF r, x
    <3> QED
      BY <2>1, <3>1, <3>2, <3>3 DEF Machines
  <2> QED
    BY <2>2, <2>3
<1> HIDE DEF x
<1>2. \A s \in Slots : x[s] = n[s]
  BY <1>1 DEF Slots
<1>3. Begun(x)
  BY <1>1, <1>2 DEF Begun, Gone
<1>4. Own(x)
  BY <1>1 DEF Own, Gone
<1>5. OnTheWay(x)
  BY <1>1 DEF OnTheWay, Counted, Gone, Crossing
<1>6. Current(x)
  BY <1>1 DEF Current, Gone
<1>7. Ready(x)
  BY <1>1, <1>3, <1>4, <1>5 DEF Ready, Gone
<1>8. In(x)
  BY <1>1, <1>6, <1>7 DEF In, Gone
<1>9. Led(n, x)
  BY <1>1 DEF Led
<1>10. ASSUME n.current # Null, n.next = Null PROVE Arrived(x)
  <2>1. x.entry = None /\ x.handle = None /\ x.run = None /\ x.exit = None /\ x.trans = None
    BY <1>1, <1>10 DEF Gone
  <2>2. x.prog = None
    BY <1>6, <2>1 DEF Current
  <2>3. Good(x)
    BY <1>1, <1>3, <1>4, <1>5, <1>6, <2>1 DEF Good, Visible, Gone
  <2> QED
    BY <1>1, <2>1, <2>2, <2>3 DEF Arrived, Gone
<1> QED
  BY <1>1, <1>8, <1>9, <1>10 DEF x

\* All stages from the exit program on.
LEMMA ExitStage ==
  ASSUME Announced, NEW n, Out(n), NEW stepping \in BOOLEAN, NEW x \in ExitStages(n, stepping)
  PROVE  Led(n, x) /\ (Waits(x) \/ Arrived(x))
<1>1. "exit" \in Slots /\ n \in Machines /\ n.ok /\ Begun(n) /\ Kinds(n) /\ Ready(n)
  BY OwnKinds DEF Out, Ready, Slots
<1>2. PICK b \in Stage(n, "exit", stepping, <<"entry", "run">>) :
        IF b.ok THEN x \in IF b.current # Null /\ b.next = Null
                           THEN {SwitchState(b)} ELSE EnterStages(SwitchState(b), stepping)
                ELSE x = b
  BY DEF ExitStages, Then
<1>3. \/ n.exit = None /\ b = n
      \/ n.exit # None /\ Ended(n, "exit", b)
      \/ n.exit # None /\ Waiting(n, "exit", b)
  BY <1>1, Staged
<1>4. ASSUME NEW c, Gone(c), Led(n, c),
             x \in IF c.current # Null /\ c.next = Null
                   THEN {SwitchState(c)} ELSE EnterStages(SwitchState(c), stepping)
      PROVE  Led(n, x) /\ (Waits(x) \/ Arrived(x))
  <2>1. /\ In(SwitchState(c)) /\ Led(c, SwitchState(c))
        /\ c.current # Null /\ c.next = Null => Arrived(SwitchState(c))
    BY <1>4, Switched
  <2>2. Led(SwitchState(c), x) /\ (Waits(x) \/ Arrived(x))
    BY <1>4, <2>1, EnterStage DEF Led
  <2> QED
    BY <1>4, <2>1, <2>2, LedFurther
<1>5. CASE n.exit = None /\ b = n
  <2>1. Gone(n)
    BY <1>5 DEF Gone, Out, Ready, OnTheWay
  <2> QED
    BY <1>1, <1>2, <1>4, <1>5, <2>1 DEF Led
<1>6. CASE n.exit # None /\ Ended(n, "exit", b)
  <2>1. /\ b \in Machines /\ b.ok /\ Begun(b) /\ b.exit = None /\ b.prog = None
        /\ b.trans = n.trans /\ b.entry = n.entry /\ b.handle = n.handle /\ b.run = n.run
        /\ b.current = n.current /\ b.next = n.next /\ b.events = n.events /\ b.req = n.req
        /\ b.status = n.status /\ b.request = n.request
    BY <1>6 DEF Ended, Slots, Alike
  <2>2. Own(b)
    BY <2>1 DEF Own, Out, Ready
  <2>3. Gone(b)
    BY <2>1, <2>2 DEF Gone, Out, Ready, OnTheWay, Counted, Current
  <2>4. Led(n, b)
    BY <2>1 DEF Led
  <2> QED
    BY <1>2, <1>4, <2>1, <2>3, <2>4
<1>7. CASE n.exit # None /\ Waiting(n, "exit", b)
  <2>1. x = b
    BY <1>2, <1>7 DEF Waiting
  <2> QED
    BY <1>1, <1>7, <2>1, WaitingWaits
<1> QED
  BY <1>3, <1>5, <1>6, <1>7

\* Before executePending(): a pending program is current, or an exit program goes first.
Coming(n) ==
    /\ n \in Machines /\ n.status # "error"
    /\ Own(n) /\ Begun(n) /\ OnTheWay(n) /\ (Current(n) \/ n.exit # None)

\* The transition program, and a handle program that goes before it.
LEMMA TransitionStage ==
  ASSUME Announced, NEW n, Ready(n), Current(n) \/ n.exit # None, NEW stepping \in BOOLEAN,
         NEW x \in TransStage(n, stepping)
  PROVE  /\ Led(n, x)
         /\ Waits(x) \/ (Out(x) /\ (stepping \/ n.handle = None => x.trans = None))
<1>1. n \in Machines /\ n.ok /\ Begun(n) /\ Kinds(n) /\ Ready(n)
  BY OwnKinds DEF Ready
<1>2. CASE n.trans = None
  <2>1. x = n
    BY <1>2 DEF TransStage
  <2> QED
    BY <1>1, <1>2, <2>1 DEF Led, Out, Ready, OnTheWay
<1>3. CASE n.trans # None
  <2> DEFINE slot == IF n.handle # None THEN "handle" ELSE "trans"
  <2>1. slot \in Slots \ {"exit"} /\ n[slot] # None /\ slot # "entry"
    BY <1>3 DEF Slots
  <2>2. x \in Stage(n, slot, stepping, <<"exit", "entry", "run">>)
    BY <1>3 DEF TransStage
  <2>3. n.handle # None => n.current = n.next /\ n.exit = None /\ n.entry = None
    BY <1>1 DEF Ready, OnTheWay
  <2>4. (~stepping /\ Ended(n, slot, x)) \/ Waiting(n, slot, x)
    BY <1>1, <2>1, <2>2, Staged
  <2>5. CASE Waiting(n, slot, x)
    <3>1. slot = "trans" \/ (n.exit = None /\ n.current = n.next /\ n.entry = None)
      BY <2>3
    <3>2. slot \in {"trans", "run"} => n.handle = None
      OBVIOUS
    <3> HIDE DEF slot
    <3> QED
      BY <1>1, <2>1, <2>5, <3>1, <3>2, WaitingWaits
  <2>6. CASE ~stepping /\ Ended(n, slot, x)
    <3>1. /\ Ready(x) /\ Led(n, x) /\ Alike(n, x) /\ x.prog = None /\ x[slot] = None
      <4> HIDE DEF slot
      <4> QED
        BY <1>1, <2>1, <2>6, EndedReady
    <3>2. n.handle = None => x.trans = None
      BY <3>1
    <3>3. x.next = Null => x.trans = None
      BY <1>1, <3>1, <3>2 DEF Ready, OnTheWay, Alike
    <3> QED
      BY <2>6, <3>1, <3>2, <3>3 DEF Out, Current
  <2> QED
    BY <2>4, <2>5, <2>6
<1> QED
  BY <1>2, <1>3

\* executePending(): something is left to do, or has failed, or the machine has arrived.
LEMMA PendingExecuted ==
  ASSUME Announced, NEW n, Coming(n), NEW stepping \in BOOLEAN,
         NEW x \in ExecutePending(n, stepping)
  PROVE  /\ Led(n, x) /\ (Waits(x) \/ Arrived(x))
         /\ x.ok /\ (stepping \/ n.handle = None) => x.trans = None
<1> DEFINE c == [n EXCEPT !.ok = TRUE]
<1>1. /\ Ready(c) /\ (Current(c) \/ c.exit # None) /\ Alike(n, c)
      /\ c.run = n.run /\ c.trans = n.trans /\ c.handle = n.handle
  <2>1. /\ n \in Machines /\ c \in Machines /\ c.ok /\ c.progStatus = n.progStatus
        /\ c.current = n.current /\ c.next = n.next /\ c.events = n.events /\ c.req = n.req
        /\ c.status = n.status /\ c.request = n.request
        /\ c.trans = n.trans /\ c.exit = n.exit /\ c.entry = n.entry
        /\ c.handle = n.handle /\ c.run = n.run /\ c.prog = n.prog
    BY DEF Coming, Machines
  <2> HIDE DEF c
  <2>2. Begun(c)
    BY <2>1, SameBegun DEF Coming
  <2>3. Own(c) /\ OnTheWay(c) /\ (Current(c) \/ c.exit # None)
    BY <2>1 DEF Coming, Own, OnTheWay, Counted, Crossing, Current
  <2> QED
    BY <2>1, <2>2, <2>3 DEF Ready, Coming, Alike
<1>2. PICK a \in TransStage(c, stepping) :
        IF a.ok THEN x \in ExitStages(a, stepping) ELSE x = a
  BY DEF ExecutePending, Then, Coming
<1> HIDE DEF c
<1>3. /\ Led(n, a)
      /\ Waits(a) \/ (Out(a) /\ (stepping \/ n.handle = None => a.trans = None))
  <2>1. /\ Led(c, a)
        /\ Waits(a) \/ (Out(a) /\ (stepping \/ c.handle = None => a.trans = None))
    BY <1>1, <1>2, TransitionStage
  <2> QED
    BY <1>1, <2>1 DEF Led, Alike
<1>4. CASE Waits(a)
  BY <1>2, <1>3, <1>4 DEF Waits
<1>5. CASE Out(a) /\ (stepping \/ n.handle = None => a.trans = None)
  <2>1. x \in ExitStages(a, stepping)
    BY <1>2, <1>5 DEF Out, Ready
  <2>2. Led(a, x) /\ (Waits(x) \/ Arrived(x))
    BY <1>5, <2>1, ExitStage
  <2> QED
    BY <1>3, <1>5, <2>2, LedFurther DEF Led
<1> QED
  BY <1>3, <1>4, <1>5

-----------------------------------------------------------------------------
(***************************************************************************)
(* The machine between two calls.                                          *)
(***************************************************************************)
\* The null pointer is no state.
LEMMA NullState == Null \notin States
  BY MachineAssumption

\* What matters is what is pending, and the states.
LEMMA SameIsGood ==
  ASSUME NEW n, Good(n), NEW x \in Machines,
         x.trans = n.trans, x.exit = n.exit, x.entry = n.entry, x.handle = n.handle,
         x.run = n.run, x.prog = n.prog, Begun(x),
         x.current = n.current, x.next = n.next, x.events \subseteq n.events, Counted(x),
         x.status = "error" => n.status = "error" \/ InTransition(n)
  PROVE  Good(x)
<1>1. Own(x) /\ Current(x)
  BY DEF Good, Own, Current
<1>2. InTransition(x) <=> InTransition(n)
  BY DEF InTransition
<1>3. OnTheWay(x)
  BY DEF Good, OnTheWay, Crossing
<1>4. Visible(x)
  BY <1>2 DEF Good, Visible
<1> QED
  BY <1>1, <1>2, <1>3, <1>4 DEF Good

\* What an operation returns is no part of it ...
LEMMA Returned ==
  ASSUME NEW n \in Machines, NEW b \in BOOLEAN
  PROVE  LET x == [n EXCEPT !.ok = b]
         IN  /\ Good(n) => Good(x)
             /\ x \in Machines /\ x.ok = b /\ Alike(n, x) /\ x.prog = n.prog
             /\ x.trans = n.trans /\ x.exit = n.exit /\ x.entry = n.entry
             /\ x.handle = n.handle /\ x.run = n.run
<1> DEFINE x == [n EXCEPT !.ok = b]
<1>1. /\ x \in Machines /\ x.ok = b /\ Alike(n, x) /\ x.prog = n.prog
      /\ x.progStatus = n.progStatus
      /\ x.trans = n.trans /\ x.exit = n.exit /\ x.entry = n.entry
      /\ x.handle = n.handle /\ x.run = n.run
  BY DEF Machines, Alike
<1> HIDE DEF x
<1>2. ASSUME Good(n) PROVE Good(x)
  <2>1. Begun(x)
    BY <1>1, <1>2, SameBegun DEF Good
  <2> QED
    BY <1>1, <1>2, <2>1, SameIsGood DEF Alike, Good, OnTheWay, Counted
<1> QED
  BY <1>1, <1>2 DEF x

\* A machine that waits is in a state.
LEMMA WaitsSomewhere ==
  ASSUME NEW x, Waits(x)
  PROVE  x.current # Null
<1>1. ASSUME x.current = Null PROVE FALSE
  <2>1. /\ x.prog # None /\ x.prog \in {None, x.trans, x.exit, x.entry, x.handle, x.run}
        /\ x.exit = None /\ x.trans = None
    BY <1>1 DEF Waits, Good, OnTheWay, Current
  <2>2. x.current = x.next
    BY <2>1 DEF Waits
  <2>3. x.entry = None /\ x.handle = None /\ x.run = None
    BY <1>1, <2>2 DEF Waits, Good, OnTheWay
  <2> QED
    BY <2>1, <2>3
<1> QED
  BY <1>1

-----------------------------------------------------------------------------
(***************************************************************************)
(* Changing state.                                                         *)
(***************************************************************************)
\* The machine is in a state, and so it will be.
Somewhere(n) == Good(n) /\ n.current \in States /\ n.next \in States

Moved(n, x) ==
    /\ Somewhere(x)
    /\ x.status \in {n.status, "error"} /\ x.request \in {n.request, "nill"}

\* ... nor of a machine that has moved.
LEMMA MovedReturned ==
  ASSUME NEW n, NEW x, Moved(n, x), NEW b \in BOOLEAN
  PROVE  Moved(n, [x EXCEPT !.ok = b])
<1> DEFINE y == [x EXCEPT !.ok = b]
<1>1. x \in Machines /\ Good(x)
  BY DEF Moved, Somewhere, Good
<1>2. Good(y) /\ Alike(x, y)
  BY <1>1, Returned
<1> HIDE DEF y
<1>3. Moved(n, y)
  BY <1>2 DEF Moved, Somewhere, Alike
<1> QED
  BY <1>3 DEF y

\* The run program of the next state becomes pending, or that of a state that has none.
LEMMA RunPends ==
  ASSUME NEW n, Somewhere(n), NEW s \in States,
         s = n.next \/ (Program("run", s) = None /\ n.run = None),
         n.current # n.next /\ ~InTransition(n) => Program("run", s) = None
  PROVE  Moved(n, RunState(n, s)) /\ Moved(n, [RunState(n, s) EXCEPT !.ok = TRUE])
<1> DEFINE p == Program("run", s)
           x == RunState(n, s)
<1>1. n \in Machines /\ "run" \in Slots /\ p \in Pending
  BY ProgramIs DEF Somewhere, Good, Slots
<1>2. /\ x \in Machines /\ x.run = p /\ (\A t \in Slots \ {"run"} : x[t] = n[t])
      /\ x.prog = (IF n.prog = None THEN p ELSE n.prog)
      /\ x.progStatus = IF p = None THEN n.progStatus ELSE [n.progStatus EXCEPT ![p] = "running"]
      /\ Alike(n, x)
  <2>1. Holds(n, "run", p, x) /\ x.prog = IF n.prog = None THEN p ELSE n.prog
    BY <1>1, BeginIs DEF RunState
  <2> HIDE DEF p, x
  <2> QED
    BY <2>1 DEF Holds
<1>3. p = Program("run", n.next) \/ (p = None /\ n.run = None)
  OBVIOUS
<1>4. p # None => p \in Programs /\ p[1] = "run"
  BY ProgramIs
<1>5. n.current # n.next /\ ~InTransition(n) => p = None
  OBVIOUS
<1> HIDE DEF p, x
<1>6. /\ x.trans = n.trans /\ x.exit = n.exit /\ x.entry = n.entry /\ x.handle = n.handle
      /\ x.current = n.current /\ x.next = n.next /\ x.events = n.events /\ x.req = n.req
      /\ x.status = n.status /\ x.request = n.request
  BY <1>2 DEF Slots, Alike
<1>7. Own(x)
  BY <1>2, <1>3, <1>6 DEF Own, Somewhere, Good
<1>8. Current(x)
  BY <1>2, <1>3, <1>6 DEF Current, Own, Somewhere, Good
<1>9. Begun(x)
  <2>1. \A q \in Programs : x.progStatus[q] \in {n.progStatus[q], "running", "paused"}
    BY <1>1, <1>2, <1>4 DEF Machines
  <2>2. x.run # None => x.progStatus[x.run] = "running"
    BY <1>1, <1>2, <1>4 DEF Machines
  <2>3. \A t \in Slots : x[t] # None => \/ \E u \in Slots : x[t] = n[u]
                                         \/ x.progStatus[x[t]] \in {"running", "paused"}
    BY <1>2, <2>2
  <2> QED
    BY <1>1, <1>2, <2>1, <2>3, BegunStays DEF Somewhere, Good
<1>10. OnTheWay(x)
  BY <1>6, NullState DEF OnTheWay, Counted, Crossing, Somewhere, Good
<1>11. InTransition(n) => InTransition(x)
  <2>1. ASSUME InTransition(n) PROVE x.prog = n.prog /\ n.prog # None /\ n.prog # n.handle
    BY <1>2, <2>1 DEF InTransition
  <2>2. ASSUME InTransition(n) PROVE n.prog # p
    <3>1. Kinds(n)
      BY <1>1, OwnKinds DEF Somewhere, Good
    <3>2. n.prog # None /\ n.prog \in {n.trans, n.exit, n.entry}
      BY <2>2 DEF InTransition, Somewhere, Good, Current
    <3>3. n.prog[1] # "run"
      BY <3>1, <3>2 DEF Kinds, Slots
    <3> QED
      BY <1>4, <3>2, <3>3
  <2> QED
    BY <1>2, <1>6, <2>1, <2>2 DEF InTransition
<1>12. Visible(x)
  BY <1>2, <1>5, <1>6, <1>11 DEF Visible, Somewhere, Good
<1>13. x.status = "error" => InTransition(x)
  BY <1>6, <1>11 DEF Somewhere, Good
<1>14. Moved(n, x)
  BY <1>2, <1>6, <1>7, <1>8, <1>9, <1>10, <1>12, <1>13 DEF Moved, Somewhere, Good
<1>15. Moved(n, [x EXCEPT !.ok = TRUE])
  BY <1>14, MovedReturned
<1> QED
  BY <1>14, <1>15 DEF x

\* A machine in no transition is in its state with no exit or entry program, or between two
\* that have none.
LEMMA Settling ==
  ASSUME Announced, NEW n, Somewhere(n), ~InTransition(n)
  PROVE  /\ n.exit = None /\ n.entry = None /\ n.status # "error"
         /\ n.prog \in {None, n.run, n.handle}
         /\ n.current # n.next => /\ n.run = None /\ n.handle = None
                                  /\ Program("run", n.current) = None
                                  /\ Program("handle", n.current) = None
<1>1. n.next # Null /\ n.current # Null
  BY NullState DEF Somewhere
<1>2. /\ n.exit = None /\ n.entry = None /\ n.status # "error"
      /\ n.prog \in {None, n.run, n.handle}
      /\ n.current # n.next => n.run = None /\ n.handle = None
  BY <1>1 DEF Somewhere, Good, Visible, OnTheWay, InTransition
<1>3. ASSUME n.current # n.next
      PROVE  Program("run", n.current) = None /\ Program("handle", n.current) = None
  <2>1. Program("exit", n.current) = None
    BY <1>1, <1>2, <1>3 DEF Somewhere, Good, OnTheWay, Crossing
  <2>2. <<"exit", n.current>> \notin Programs
    BY <2>1, ProgramIs
  <2>3. <<"run", n.current>> \notin Programs /\ <<"handle", n.current>> \notin Programs
    BY <2>2 DEF Announced, Somewhere
  <2> QED
    BY <2>3 DEF Program
<1> QED
  BY <1>2, <1>3

\* A transition of a state to itself.
LEMMA SelfBegins ==
  ASSUME Announced, NEW n, Somewhere(n), ~InTransition(n),
         NEW p \in Pending, p # None => p[1] = "trans"
  PROVE  /\ Coming(ToSelf(n, p)) /\ Current(ToSelf(n, p)) /\ Visible(ToSelf(n, p))
         /\ ToSelf(n, p).current = n.current /\ ToSelf(n, p).next = n.next
         /\ ToSelf(n, p).run = n.run
         /\ ToSelf(n, p).status = n.status /\ ToSelf(n, p).request = n.request
<1> DEFINE x == ToSelf(n, p)
<1>1. n \in Machines /\ "trans" \in Slots /\ "handle" \in Slots /\ n.current # Null
  BY NullState DEF Somewhere, Good, Slots
<1>2. /\ n.exit = None /\ n.entry = None /\ n.status # "error"
      /\ n.prog \in {None, n.run, n.handle}
      /\ n.current # n.next => n.run = None /\ Program("handle", n.current) = None
  BY Settling
<1>3. CASE p # None
  <2> DEFINE b == Pend(n, "trans", p)
  <2>1. /\ b \in Machines /\ b.trans = p /\ (\A s \in Slots \ {"trans"} : b[s] = n[s])
        /\ b.progStatus = (IF p = None THEN n.progStatus ELSE [n.progStatus EXCEPT ![p] = "running"])
        /\ Alike(n, b)
    <3>1. Holds(n, "trans", p, b)
      BY <1>1, Pended
    <3> HIDE DEF b
    <3> QED
      BY <3>1 DEF Holds
  <2>2. x = [b EXCEPT !.prog = p, !.req = 1]
    BY <1>3 DEF ToSelf
  <2> HIDE DEF b, x
  <2>3. /\ x \in Machines /\ x.req = 1 /\ x.prog = p /\ x.progStatus = b.progStatus
        /\ x.current = b.current /\ x.next = b.next /\ x.events = b.events
        /\ x.status = b.status /\ x.request = b.request /\ x.trans = b.trans
        /\ x.exit = b.exit /\ x.entry = b.entry /\ x.handle = b.handle /\ x.run = b.run
    <3>1. 1 \in Nat \ {0}
      OBVIOUS
    <3> QED
      BY <2>1, <2>2, <3>1 DEF Machines
  <2>4. /\ x.trans = p /\ x.exit = None /\ x.entry = None
        /\ x.handle = n.handle /\ x.run = n.run
        /\ x.current = n.current /\ x.next = n.next /\ x.events = n.events
        /\ x.status = n.status /\ x.request = n.request
    BY <1>2, <2>1, <2>3 DEF Slots, Alike
  <2>5. Own(x)
    BY <2>4 DEF Own, Somewhere, Good
  <2>6. Begun(x)
    <3>1. \A q \in Programs : x.progStatus[q] \in {n.progStatus[q], "running", "paused"}
      BY <1>1, <1>3, <2>1, <2>3 DEF Machines, Pending
    <3>2. x.progStatus[x.trans] = "running"
      BY <1>1, <1>3, <2>1, <2>3 DEF Machines, Pending
    <3>3. \A s \in Slots \ {"trans"} : x[s] = n[s]
      BY <1>2, <2>4 DEF Slots
    <3>4. \A s \in Slots : x[s] # None => \/ \E u \in Slots : x[s] = n[u]
                                          \/ x.progStatus[x[s]] \in {"running", "paused"}
      BY <3>2, <3>3
    <3> QED
      BY <1>1, <2>3, <3>1, <3>4, BegunStays DEF Somewhere, Good
  <2>7. OnTheWay(x)
    BY <1>1, <1>2, <2>3, <2>4 DEF OnTheWay, Counted, Crossing, Somewhere, Good
  <2>8. Visible(x) /\ Current(x)
    BY <1>2, <2>3, <2>4 DEF Visible, Current
  <2> QED
    BY <1>2, <2>3, <2>4, <2>5, <2>6, <2>7, <2>8 DEF Coming, Ready, x
<1>4. CASE p = None /\ n.handle = None
  <2> DEFINE h == Program("handle", n.current)
  <2>1. h \in Pending /\ (h # None => h \in Programs)
    BY ProgramIs
  <2>2. x = Begin(n, "handle", h)
    BY <1>4 DEF ToSelf, HandleState
  <2>3. /\ x \in Machines /\ x.handle = h /\ (\A s \in Slots \ {"handle"} : x[s] = n[s])
        /\ x.prog = (IF n.prog = None THEN h ELSE n.prog)
        /\ x.progStatus = (IF h = None THEN n.progStatus ELSE [n.progStatus EXCEPT ![h] = "running"])
        /\ Alike(n, x)
    <3>1. Holds(n, "handle", h, x) /\ x.prog = IF n.prog = None THEN h ELSE n.prog
      BY <1>1, <2>1, <2>2, BeginIs
    <3> HIDE DEF h, x
    <3> QED
      BY <3>1 DEF Holds
  <2>0. h = Program("handle", n.current)
    OBVIOUS
  <2> HIDE DEF h, x
  <2>4. /\ x.trans = n.trans /\ x.exit = None /\ x.entry = None /\ x.run = n.run
        /\ x.current = n.current /\ x.next = n.next /\ x.events = n.events /\ x.req = n.req
        /\ x.status = n.status /\ x.request = n.request
    BY <1>2, <2>3 DEF Slots, Alike
  <2>5. Own(x)
    BY <2>0, <2>3, <2>4 DEF Own, Somewhere, Good
  <2>6. Begun(x)
    <3>1. \A q \in Programs : x.progStatus[q] \in {n.progStatus[q], "running", "paused"}
      BY <1>1, <2>1, <2>3 DEF Machines
    <3>2. x.handle # None => x.progStatus[x.handle] = "running"
      BY <1>1, <2>1, <2>3 DEF Machines
    <3>3. \A s \in Slots : x[s] # None => \/ \E u \in Slots : x[s] = n[u]
                                          \/ x.progStatus[x[s]] \in {"running", "paused"}
      BY <2>3, <3>2
    <3> QED
      BY <1>1, <2>3, <3>1, <3>3, BegunStays DEF Somewhere, Good
  <2>7. OnTheWay(x)
    BY <1>1, <1>2, <2>0, <2>3, <2>4 DEF OnTheWay, Counted, Crossing, Somewhere, Good
  <2>8. Visible(x)
    BY <1>2, <2>4 DEF Visible
  <2>9. Current(x)
    BY <1>2, <1>4, <2>3, <2>4 DEF Current
  <2> QED
    BY <1>2, <2>3, <2>4, <2>5, <2>6, <2>7, <2>8, <2>9 DEF Coming, Ready, x
<1>5. CASE p = None /\ n.handle # None
  <2>1. x = n
    BY <1>5 DEF ToSelf
  <2> QED
    BY <1>2, <2>1 DEF Coming, Ready, Somewhere, Good
<1> QED
  BY <1>3, <1>4, <1>5

\* A transition to another state.
LEMMA OtherBegins ==
  ASSUME Announced, NEW n, Somewhere(n), ~InTransition(n),
         NEW s \in States, s # n.current, NEW p \in Pending, p # None => p[1] = "trans"
  PROVE  /\ Coming(ToOther(n, s, p))
         /\ ToOther(n, s, p).current = n.current /\ ToOther(n, s, p).next = s
         /\ ToOther(n, s, p).run = None /\ ToOther(n, s, p).handle = None
         /\ ToOther(n, s, p).status = n.status /\ ToOther(n, s, p).request = n.request
         /\ n.prog = None =>
              /\ Current(ToOther(n, s, p)) /\ Visible(ToOther(n, s, p))
              /\ ~InTransition(ToOther(n, s, p)) =>
                   Program("exit", n.current) = None /\ Program("entry", s) = None
<1> DEFINE n0 == [n EXCEPT !.run = None, !.handle = None]
           a == Pend(n0, "trans", p)
           e == Program("exit", n.current)
           t == Program("entry", s)
           b == Begin(a, "exit", e)
           c == [b EXCEPT !.events = @ \ {n.current}]
           d == Begin(c, "entry", t)
           x == [d EXCEPT !.next = s, !.events = @ \cup {s}]
<1>1. /\ n \in Machines /\ n.current # Null /\ s # Null
      /\ "trans" \in Slots /\ "exit" \in Slots /\ "entry" \in Slots
      /\ e \in Pending /\ t \in Pending
      /\ (e # None => e \in Programs /\ e[1] = "exit")
      /\ (t # None => t \in Programs /\ t[1] = "entry")
  BY NullState, ProgramIs DEF Somewhere, Good, Slots
<1>a. a = Pend(n0, "trans", p)
  OBVIOUS
<1>b. b = Begin(a, "exit", e)
  OBVIOUS
<1>c. c = [b EXCEPT !.events = @ \ {n.current}]
  OBVIOUS
<1>d. d = Begin(c, "entry", t)
  OBVIOUS
<1>x. x = [d EXCEPT !.next = s, !.events = @ \cup {s}]
  OBVIOUS
<1>e. e \in Pending /\ t \in Pending
  BY ProgramIs
<1>k. "trans" \in Slots /\ "exit" \in Slots /\ "entry" \in Slots
  BY DEF Slots
<1> HIDE DEF a, b, c, d, x, e, t
<1>2. /\ n.exit = None /\ n.entry = None /\ n.status # "error"
      /\ n.prog \in {None, n.run, n.handle}
      /\ n.current # n.next => n.run = None /\ n.handle = None
  BY Settling
<1>3. n.prog # None => e # None
  <2>1. ASSUME n.prog # None PROVE e # None
    <3>1. n.current = n.next
      BY <1>2, <2>1
    <3>2. n.prog = Program("run", n.current) \/ n.prog = Program("handle", n.current)
      BY <1>2, <2>1, <3>1 DEF Somewhere, Good, Own
    <3>3. <<"run", n.current>> \in Programs \/ <<"handle", n.current>> \in Programs
      BY <2>1, <3>2 DEF Program
    <3>4. <<"exit", n.current>> \in Programs
      BY <3>3 DEF Announced, Somewhere
    <3> QED
      BY <3>4, ProgramIs DEF e
  <2> QED
    BY <2>1
<1>4. /\ n0 \in Machines /\ n0.run = None /\ n0.handle = None
      /\ n0.trans = n.trans /\ n0.exit = n.exit /\ n0.entry = n.entry
      /\ n0.prog = n.prog /\ n0.progStatus = n.progStatus /\ Alike(n, n0)
  BY <1>1 DEF Machines, Alike, Pending
<1> HIDE DEF n0
<1>5. /\ a \in Machines /\ a.trans = p /\ (\A u \in Slots \ {"trans"} : a[u] = n0[u])
      /\ a.progStatus = (IF p = None THEN n0.progStatus ELSE [n0.progStatus EXCEPT ![p] = "running"])
      /\ a.prog = n0.prog /\ Alike(n0, a)
  <2>1. n0 \in Machines
    BY <1>4
  <2>2. Holds(n0, "trans", p, a) /\ a.prog = n0.prog
    BY <1>a, <1>k, <2>1, Pended
  <2> QED
    BY <2>2 DEF Holds
<1>6. ToOther(n, s, p) = x
  <2>1. a.exit = None /\ a.current = n.current
    BY <1>2, <1>4, <1>5 DEF Slots, Alike
  <2> QED
    BY <2>1 DEF ToOther, LeaveState, EnterState, n0, a, b, c, d, x, e, t
<1>7. /\ b \in Machines /\ b.exit = e /\ (\A u \in Slots \ {"exit"} : b[u] = a[u])
      /\ b.progStatus = (IF e = None THEN a.progStatus ELSE [a.progStatus EXCEPT ![e] = "running"])
      /\ b.prog = (IF a.prog = None THEN e ELSE a.prog) /\ Alike(a, b)
  <2>1. a \in Machines
    BY <1>5
  <2>2. Holds(a, "exit", e, b) /\ b.prog = IF a.prog = None THEN e ELSE a.prog
    BY <1>b, <1>e, <1>k, <2>1, BeginIs
  <2> QED
    BY <2>2 DEF Holds
<1>8. /\ c \in Machines /\ c.trans = b.trans /\ c.exit = b.exit /\ c.entry = b.entry
      /\ c.handle = b.handle /\ c.run = b.run /\ c.prog = b.prog /\ c.progStatus = b.progStatus
      /\ c.status = b.status /\ c.request = b.request /\ c.current = b.current
      /\ c.next = b.next /\ c.req = b.req /\ c.events = b.events \ {n.current}
  BY <1>c, <1>7 DEF Machines
<1>9. /\ d \in Machines /\ d.entry = t /\ (\A u \in Slots \ {"entry"} : d[u] = c[u])
      /\ d.progStatus = (IF t = None THEN c.progStatus ELSE [c.progStatus EXCEPT ![t] = "running"])
      /\ d.prog = (IF c.prog = None THEN t ELSE c.prog) /\ Alike(c, d)
  <2>1. c \in Machines
    BY <1>8
  <2>2. Holds(c, "entry", t, d) /\ d.prog = IF c.prog = None THEN t ELSE c.prog
    BY <1>d, <1>e, <1>k, <2>1, BeginIs
  <2> QED
    BY <2>2 DEF Holds
<1>10. /\ x \in Machines /\ x.trans = d.trans /\ x.exit = d.exit /\ x.entry = d.entry
       /\ x.handle = d.handle /\ x.run = d.run /\ x.prog = d.prog /\ x.progStatus = d.progStatus
       /\ x.status = d.status /\ x.request = d.request /\ x.current = d.current /\ x.next = s
       /\ x.req = d.req
  BY <1>x, <1>9 DEF Machines
<1>11. /\ x.trans = p /\ x.exit = e /\ x.entry = t /\ x.handle = None /\ x.run = None
       /\ x.current = n.current /\ x.status = n.status /\ x.request = n.request
       /\ x.req = n.req
  BY <1>4, <1>5, <1>7, <1>8, <1>9, <1>10 DEF Slots, Alike
<1>12. x.prog = IF n.prog # None THEN n.prog ELSE IF e # None THEN e ELSE t
  BY <1>4, <1>5, <1>7, <1>8, <1>9, <1>10
<1>13. Begun(x)
  <2>1. \A q \in Programs : a.progStatus[q] \in {n.progStatus[q], "running"}
    BY <1>1, <1>4, <1>5 DEF Machines, Pending
  <2>2. \A q \in Programs : b.progStatus[q] \in {a.progStatus[q], "running"}
    BY <1>1, <1>5, <1>7 DEF Machines, Pending
  <2>3. \A q \in Programs : x.progStatus[q] \in {b.progStatus[q], "running"}
    BY <1>1, <1>8, <1>9, <1>10 DEF Machines, Pending
  <2>4. \A q \in Programs : x.progStatus[q] \in {n.progStatus[q], "running", "paused"}
    BY <2>1, <2>2, <2>3
  <2>5. p # None => p \in Programs /\ x.progStatus[p] = "running"
    <3>1. p # None => p \in Programs /\ a.progStatus[p] = "running"
      BY <1>4, <1>5 DEF Machines, Pending
    <3> QED
      BY <2>2, <2>3, <3>1
  <2>6. e # None => x.progStatus[e] = "running"
    <3>1. e # None => b.progStatus[e] = "running"
      BY <1>1, <1>5, <1>7 DEF Machines
    <3> QED
      BY <1>1, <2>3, <3>1
  <2>7. t # None => x.progStatus[t] = "running"
    BY <1>1, <1>8, <1>9, <1>10 DEF Machines
  <2>8. \A u \in Slots : x[u] # None => x.progStatus[x[u]] \in {"running", "paused"}
    BY <1>11, <2>5, <2>6, <2>7 DEF Slots
  <2> QED
    BY <1>1, <1>10, <2>4, <2>8, BegunStays DEF Somewhere, Good
<1>14. Own(x)
  BY <1>10, <1>11 DEF Own, e, t
<1>15. OnTheWay(x)
  BY <1>1, <1>10, <1>11 DEF OnTheWay, Counted, Crossing, Somewhere, Good, e, t
<1>16. ASSUME n.prog = None
       PROVE  Current(x) /\ Visible(x) /\ (~InTransition(x) => e = None /\ t = None)
  <2>1. x.prog = IF e # None THEN e ELSE t
    BY <1>12, <1>16
  <2> QED
    BY <1>11, <2>1 DEF Current, Visible, InTransition
<1>17. Current(x) \/ x.exit # None
  BY <1>3, <1>11, <1>16
<1>18. Coming(x)
  BY <1>2, <1>10, <1>11, <1>13, <1>14, <1>15, <1>17 DEF Coming, Ready
<1> QED
  BY <1>6, <1>10, <1>11, <1>16, <1>18 DEF e, t

\* A step that follows another.
LEMMA MovedFurther ==
  ASSUME NEW n, NEW x, NEW y, x.status \in {n.status, "error"}, x.request \in {n.request, "nill"},
         Moved(x, y)
  PROVE  Moved(n, y)
  BY DEF Moved

\* changeState() in one go.
LEMMA Changed ==
  ASSUME Announced, NEW n, Somewhere(n), ~InTransition(n), NEW s \in States,
         NEW p \in Pending, p # None => p[1] = "trans", NEW x \in ChangeState(n, s, p, FALSE)
  PROVE  Moved(n, x)
<1> DEFINE y == IF s = n.current THEN ToSelf(n, p) ELSE ToOther(n, s, p)
<1>1. PICK d \in ExecutePending(y, FALSE) : x = [RunState(d, s) EXCEPT !.ok = TRUE]
  BY DEF ChangeState
<1>2. /\ Coming(y) /\ y.current = n.current /\ y.status = n.status /\ y.request = n.request
      /\ y.next \in States
      /\ s = y.next \/ (Program("run", s) = None /\ y.run = None)
  <2>1. CASE s = n.current
    <3>1. /\ Coming(y) /\ y.current = n.current /\ y.next = n.next /\ y.run = n.run
          /\ y.status = n.status /\ y.request = n.request
      BY <2>1, SelfBegins
    <3>2. n.current # n.next => n.run = None /\ Program("run", n.current) = None
      BY Settling
    <3> QED
      BY <2>1, <3>1, <3>2 DEF Somewhere
  <2>2. CASE s # n.current
    BY <2>2, OtherBegins
  <2> QED
    BY <2>1, <2>2
<1> HIDE DEF y
<1>3. Led(y, d) /\ (Waits(d) \/ Arrived(d))
  BY <1>2, PendingExecuted
<1>4. Good(d) /\ (d.current # d.next => InTransition(d))
  BY <1>3 DEF Waits, Arrived
<1>5. /\ d.current \in States /\ d.next = y.next /\ (d.run = None \/ d.run = y.run)
      /\ d.status \in {n.status, "error"} /\ d.request \in {n.request, "nill"}
  BY <1>2, <1>3 DEF Led, Somewhere
<1>6. Moved(d, x)
  <2>1. Somewhere(d)
    BY <1>2, <1>4, <1>5 DEF Somewhere
  <2>2. s = d.next \/ (Program("run", s) = None /\ d.run = None)
    BY <1>2, <1>5
  <2> QED
    BY <1>1, <1>4, <2>1, <2>2, RunPends
<1> QED
  BY <1>5, <1>6, MovedFurther

\* changeState() in a step: the programs are left pending.
LEMMA ChangedInStep ==
  ASSUME Announced, NEW n, Somewhere(n), n.prog = None, n.current = n.next,
         NEW s \in States, s = n.current \/ Linked(n.current, s),
         NEW p \in Pending, p # None => p[1] = "trans", NEW x \in ChangeState(n, s, p, TRUE)
  PROVE  Moved(n, x)
<1> DEFINE y == IF s = n.current THEN ToSelf(n, p) ELSE ToOther(n, s, p)
<1>1. x = [RunState(y, s) EXCEPT !.ok = TRUE]
  BY DEF ChangeState
<1>2. ~InTransition(n)
  BY DEF InTransition
<1>3. /\ Coming(y) /\ Current(y) /\ Visible(y) /\ y.current = n.current /\ y.next = s
      /\ y.status = n.status /\ y.request = n.request
      /\ y.current # y.next /\ ~InTransition(y) => Program("run", s) = None
  <2>1. CASE s = n.current
    BY <1>2, <2>1, SelfBegins
  <2>2. CASE s # n.current
    <3>1. /\ Coming(y) /\ Current(y) /\ Visible(y) /\ y.current = n.current /\ y.next = s
          /\ y.status = n.status /\ y.request = n.request
          /\ ~InTransition(y) => Program("exit", n.current) = None /\ Program("entry", s) = None
      BY <1>2, <2>2, OtherBegins
    <3>2. ASSUME Program("exit", n.current) = None, Program("entry", s) = None
          PROVE  Program("run", s) = None
      <4>1. <<"exit", n.current>> \notin Programs /\ <<"entry", s>> \notin Programs
        BY <3>2, ProgramIs
      <4>2. <<"run", s>> \notin Programs
        BY <2>2, <4>1 DEF Announced, Somewhere
      <4> QED
        BY <4>2 DEF Program
    <3> QED
      BY <3>1, <3>2
  <2> QED
    BY <2>1, <2>2
<1> HIDE DEF y
<1>4. Somewhere(y)
  BY <1>3 DEF Somewhere, Good, Coming, Ready
<1>5. Moved(y, x)
  BY <1>1, <1>3, <1>4, RunPends
<1> QED
  BY <1>3, <1>5, MovedFurther

-----------------------------------------------------------------------------
(***************************************************************************)
(* Requests to change state.                                               *)
(***************************************************************************)
\* A machine that can change its state, at once or in a step.
Able(n, stepping) ==
    /\ Somewhere(n) /\ ~InTransition(n)
    /\ stepping => n.prog = None /\ n.current = n.next

\* Either way to change it.
LEMMA Changes ==
  ASSUME Announced, NEW n, NEW stepping \in BOOLEAN, Able(n, stepping),
         NEW s \in States, stepping => s = n.current \/ Linked(n.current, s),
         NEW p \in Pending, p # None => p[1] = "trans", NEW x \in ChangeState(n, s, p, stepping)
  PROVE  Moved(n, x)
<1>1. CASE stepping
  <2>1. x \in ChangeState(n, s, p, TRUE)
    BY <1>1
  <2> QED
    BY <1>1, <2>1, ChangedInStep DEF Able
<1>2. CASE ~stepping
  <2>1. x \in ChangeState(n, s, p, FALSE)
    BY <1>2
  <2> QED
    BY <2>1, Changed DEF Able
<1> QED
  BY <1>1, <1>2

\* The evaluation goes on with another transition.
LEMMA Counting ==
  ASSUME NEW n, NEW stepping, Able(n, stepping), NEW i \in Nat \ {0},
         i = 1 \/ i \in DOMAIN Transitions[n.current]
  PROVE  LET c == [n EXCEPT !.req = i]
         IN  /\ Able(c, stepping) /\ Moved(n, c) /\ c.current = n.current
             /\ c.status = n.status /\ c.request = n.request
<1> DEFINE c == [n EXCEPT !.req = i]
<1>1. n \in Machines
  BY DEF Able, Somewhere, Good
<1>2. /\ c \in Machines /\ c.req = i
      /\ c.current = n.current /\ c.next = n.next /\ c.events = n.events
      /\ c.status = n.status /\ c.request = n.request /\ c.progStatus = n.progStatus
      /\ c.trans = n.trans /\ c.exit = n.exit /\ c.entry = n.entry
      /\ c.handle = n.handle /\ c.run = n.run /\ c.prog = n.prog
  BY <1>1 DEF Machines
<1> HIDE DEF c
<1>3. Begun(c)
  BY <1>2, SameBegun DEF Able, Somewhere, Good
<1>4. Counted(c)
  BY <1>2 DEF Counted
<1>5. Good(c)
  BY <1>2, <1>3, <1>4, SameIsGood DEF Able, Somewhere
<1>6. Somewhere(c) /\ ~InTransition(c)
  BY <1>2, <1>5 DEF Able, Somewhere, InTransition
<1> QED
  BY <1>2, <1>6 DEF Able, Moved, c

\* Transitions lead to states.
LEMMA Targets ==
  /\ \A s \in States : /\ DOMAIN Transitions[s] = 1 .. Len(Transitions[s])
                       /\ Len(Transitions[s]) \in Nat
                       /\ \A i \in DOMAIN Transitions[s] :
                            Transitions[s][i] \in States /\ Linked(s, Transitions[s][i])
  /\ \A i \in DOMAIN Transitions[Null] :
       /\ Transitions[Null][i] \in States \cup {Null}
       /\ \A s \in States : Linked(s, Transitions[Null][i])
  BY MachineAssumption DEF Linked

\* A global transition.
LEMMA GlobalsMove ==
  ASSUME Announced, NEW n, NEW stepping \in BOOLEAN, Able(n, stepping),
         NEW x \in Globals(n, stepping)
  PROVE  Moved(n, x)
<1>1. PICK i \in DOMAIN Transitions[Null] :
        x \in ChangeState(n, IF Transitions[Null][i] = Null THEN n.current ELSE Transitions[Null][i],
                          TransProgram(Null, Transitions[Null][i]), stepping)
  BY DEF Globals
<1> DEFINE t == Transitions[Null][i]
           s == IF t = Null THEN n.current ELSE t
           p == TransProgram(Null, t)
<1>2. n.current \in States
  BY DEF Able, Somewhere
<1>3. t \in States \cup {Null} /\ Linked(n.current, t)
  BY <1>2, Targets
<1>4. s \in States /\ (s = n.current \/ Linked(n.current, s))
  BY <1>2, <1>3
<1>5. p \in Pending /\ (p # None => p[1] = "trans")
  BY TransIs
<1>6. x \in ChangeState(n, s, p, stepping)
  BY <1>1
<1> HIDE DEF s, p
<1> QED
  BY <1>4, <1>5, <1>6, Changes

\* No transition program is the same as none.
LEMMA NoProgram == None \in Pending
  BY DEF Pending

\* The state is handled.
LEMMA OtherwiseMoves ==
  ASSUME Announced, NEW n, NEW stepping \in BOOLEAN, Able(n, stepping),
         NEW x \in Otherwise(n, stepping)
  PROVE  Moved(n, x)
<1>1. CASE x \in Globals(n, stepping)
  BY <1>1, GlobalsMove
<1>2. CASE x \in ChangeState([n EXCEPT !.req = 1], n.current, None, stepping)
  <2> DEFINE c == [n EXCEPT !.req = 1]
  <2>1. /\ Able(c, stepping) /\ c.current = n.current
        /\ c.status = n.status /\ c.request = n.request
    BY Counting
  <2>2. x \in ChangeState(c, c.current, None, stepping)
    BY <1>2, <2>1
  <2> HIDE DEF c
  <2>3. c.current \in States
    BY <2>1 DEF Able, Somewhere
  <2>4. Moved(c, x)
    BY <2>1, <2>2, <2>3, NoProgram, Changes
  <2> QED
    BY <2>1, <2>4, MovedFurther
<1> QED
  BY <1>1, <1>2 DEF Otherwise

\* requestNextState().
LEMMA NextRequested ==
  ASSUME Announced, NEW n, NEW stepping \in BOOLEAN, Able(n, stepping),
         NEW x \in RequestNextState(n, stepping)
  PROVE  Moved(n, x)
<1> DEFINE edges == Transitions[n.current]
           last == [n EXCEPT !.req = Len(edges)]
           Taken(i) == ChangeState([n EXCEPT !.req = i], edges[i],
                                   TransProgram(n.current, edges[i]), stepping)
<1>0. Moved(n, n)
  BY DEF Able, Moved
<1>1. n.current \in States /\ n.req \in Nat \ {0} /\ (n.req = 1 \/ n.req \in DOMAIN edges)
  BY NullState DEF Able, Somewhere, Good, Machines, OnTheWay, Counted
<1>2. /\ DOMAIN edges = 1 .. Len(edges) /\ Len(edges) \in Nat
      /\ \A i \in DOMAIN edges : edges[i] \in States /\ Linked(n.current, edges[i])
  BY <1>1, Targets
<1>3. ASSUME NEW i \in DOMAIN edges, x \in Taken(i) PROVE Moved(n, x)
  <2> DEFINE c == [n EXCEPT !.req = i]
             p == TransProgram(n.current, edges[i])
  <2>1. i \in Nat \ {0}
    BY <1>2
  <2>2. /\ Able(c, stepping) /\ c.current = n.current
        /\ c.status = n.status /\ c.request = n.request
    BY <2>1, Counting
  <2>3. x \in ChangeState(c, edges[i], p, stepping)
    BY <1>3
  <2>4. p \in Pending /\ (p # None => p[1] = "trans")
    BY TransIs
  <2>5. edges[i] \in States /\ Linked(n.current, edges[i])
    BY <1>2
  <2> HIDE DEF c, p, edges
  <2>6. Moved(c, x)
    BY <2>2, <2>3, <2>4, <2>5, Changes
  <2> QED
    BY <2>2, <2>6, MovedFurther
<1>4. ASSUME edges # <<>> PROVE Len(edges) \in DOMAIN edges /\ n.req \in DOMAIN edges
  <2>1. edges \in Seq(States)
    BY <1>1, MachineAssumption
  <2>2. Len(edges) # 0
    BY <1>4, <2>1
  <2> QED
    BY <1>1, <1>2, <2>2
<1>5. CASE n.current = Null \/ ~Interruptible(n) \/ n.trans # None
  BY <1>0, <1>5 DEF RequestNextState
<1>6. CASE ~(n.current = Null \/ ~Interruptible(n) \/ n.trans # None) /\ edges = <<>>
  BY <1>6, OtherwiseMoves DEF RequestNextState
<1>7. CASE /\ ~(n.current = Null \/ ~Interruptible(n) \/ n.trans # None) /\ edges # <<>>
           /\ ~stepping
  <2>1. (\E i \in n.req .. Len(edges) : x \in Taken(i)) \/ x \in Otherwise(last, FALSE)
    BY <1>7 DEF RequestNextState
  <2>2. CASE \E i \in n.req .. Len(edges) : x \in Taken(i)
    <3>1. \A i \in n.req .. Len(edges) : i \in DOMAIN edges
      BY <1>1, <1>2
    <3> HIDE DEF edges, Taken
    <3> QED
      BY <1>3, <2>2, <3>1
  <2>3. CASE x \in Otherwise(last, FALSE)
    <3>1. Len(edges) \in Nat \ {0} /\ Len(edges) \in DOMAIN edges
      BY <1>2, <1>4, <1>7
    <3>2. Able(last, stepping) /\ last.status = n.status /\ last.request = n.request
      BY <3>1, Counting
    <3> HIDE DEF last
    <3>3. Moved(last, x)
      BY <1>7, <2>3, <3>2, OtherwiseMoves
    <3> QED
      BY <3>2, <3>3, MovedFurther
  <2> QED
    BY <2>1, <2>2, <2>3
<1>8. CASE /\ ~(n.current = Null \/ ~Interruptible(n) \/ n.trans # None) /\ edges # <<>>
           /\ stepping
  <2>1. \/ x = n \/ x \in Taken(n.req)
        \/ n.req = Len(edges) /\ x \in Otherwise(n, TRUE)
        \/ n.req # Len(edges) /\ x = [n EXCEPT !.req = n.req + 1]
    BY <1>8 DEF RequestNextState
  <2>2. CASE n.req # Len(edges) /\ x = [n EXCEPT !.req = n.req + 1]
    <3>1. n.req + 1 \in Nat \ {0} /\ n.req + 1 \in DOMAIN edges
      BY <1>1, <1>2, <1>4, <1>8, <2>2
    <3> QED
      BY <2>2, <3>1, Counting
  <2>3. CASE n.req = Len(edges) /\ x \in Otherwise(n, TRUE)
    BY <1>8, <2>3, OtherwiseMoves
  <2> QED
    BY <1>0, <1>3, <1>4, <1>8, <2>1, <2>2, <2>3
<1> QED
  BY <1>5, <1>6, <1>7, <1>8

\* The machine refuses.
Refused(n, x) == x = [n EXCEPT !.ok = FALSE]

\* requestStateChange().
LEMMA ChangeRequested ==
  ASSUME Announced, NEW n, Good(n), n.next \in States, NEW s \in States,
         NEW x \in RequestStateChange(n, s)
  PROVE  Refused(n, x) \/ (n.current # Null /\ Moved(n, x))
<1>1. CASE n.current = Null \/ ~Interruptible(n)
  BY <1>1 DEF RequestStateChange, Refused
<1>2. CASE n.current # Null /\ Interruptible(n)
  <2>1. Somewhere(n) /\ ~InTransition(n)
    BY <1>2 DEF Somewhere, Good, Machines, Interruptible, InTransition
  <2>2. \/ Refused(n, x)
        \/ x \in ChangeState(n, s, None, FALSE)
        \/ \E from \in {n.current, Null} : x \in ChangeState(n, s, TransProgram(from, s), FALSE)
    BY <1>2 DEF RequestStateChange, Refused
  <2>3. CASE x \in ChangeState(n, s, None, FALSE)
    BY <1>2, <2>1, <2>3, NoProgram, Changed
  <2>4. ASSUME NEW from \in {n.current, Null}, x \in ChangeState(n, s, TransProgram(from, s), FALSE)
        PROVE  Moved(n, x)
    <3>1. TransProgram(from, s) \in Pending
          /\ (TransProgram(from, s) # None => TransProgram(from, s)[1] = "trans")
      BY TransIs
    <3> QED
      BY <2>1, <2>4, <3>1, Changed
  <2> QED
    BY <1>2, <2>2, <2>3, <2>4
<1> QED
  BY <1>1, <1>2

\* requestFinalState().
LEMMA FinalRequested ==
  ASSUME Announced, NEW n, Good(n), n.next \in States, NEW x \in RequestFinalState(n)
  PROVE  Refused(n, x) \/ (n.current # Null /\ Moved(n, x))
<1>1. Refused(n, x) \/ x \in RequestStateChange(n, FiniState)
  BY DEF RequestFinalState, Refused
<1>2. FiniState \in States
  BY MachineAssumption
<1> QED
  BY <1>1, <1>2, ChangeRequested

\* requestInitialState().
LEMMA InitialRequested ==
  ASSUME Announced, NEW n, Good(n), n.next \in States, NEW x \in RequestInitialState(n)
  PROVE  x = n \/ Refused(n, x) \/ (n.current # Null /\ Moved(n, x))
<1>1. x = n \/ x \in RequestStateChange(n, InitState)
  BY DEF RequestInitialState
<1>2. InitState \in States
  BY MachineAssumption
<1> QED
  BY <1>1, <1>2, ChangeRequested

-----------------------------------------------------------------------------
(***************************************************************************)
(* Between two calls.                                                      *)
(***************************************************************************)
\* The same programs are pending, in another status or with another request.
LEMMA Unmoved ==
  ASSUME NEW n, Good(n), NEW x \in Machines,
         x.trans = n.trans, x.exit = n.exit, x.entry = n.entry, x.handle = n.handle,
         x.run = n.run, x.prog = n.prog, x.progStatus = n.progStatus,
         x.current = n.current, x.next = n.next, x.events \subseteq n.events, x.req = n.req,
         x.status = "error" => n.status = "error"
  PROVE  Good(x)
<1>1. Begun(x)
  BY SameBegun DEF Good
<1>2. Counted(x)
  BY DEF Good, OnTheWay, Counted
<1> QED
  BY <1>1, <1>2, SameIsGood

\* The statuses of the programs nobody refers to are forgotten.
LEMMA SettledIs ==
  ASSUME NEW n, Kept(n)
  PROVE  Kept(Settled(n)) /\ Settled(n).ok
<1> DEFINE used == {n[s] : s \in Slots \cup {"prog"}}
           ps == [p \in Programs |-> IF p \in used THEN n.progStatus[p] ELSE "stopped"]
           x == [n EXCEPT !.progStatus = ps, !.ok = TRUE]
<1>1. n \in Machines
  BY DEF Kept, Good
<1>2. Settled(n) = x
  BY DEF Settled
<1>3. ps \in [Programs -> ProgramStatuses]
  BY <1>1 DEF Machines, ProgramStatuses
<1>4. \A p \in Programs : ps[p] \in {n.progStatus[p], "stopped"}
  OBVIOUS
<1>5. \A s \in Slots : n[s] \in Programs => ps[n[s]] = n.progStatus[n[s]]
  OBVIOUS
<1> HIDE DEF ps, used
<1>6. /\ x \in Machines /\ x.ok /\ x.progStatus = ps /\ x.req = n.req
      /\ x.current = n.current /\ x.next = n.next /\ x.events = n.events
      /\ x.status = n.status /\ x.request = n.request
      /\ x.trans = n.trans /\ x.exit = n.exit /\ x.entry = n.entry
      /\ x.handle = n.handle /\ x.run = n.run /\ x.prog = n.prog
  BY <1>1, <1>3 DEF Machines
<1> HIDE DEF x
<1>7. Begun(x)
  <2>1. \A s \in Slots : x[s] = n[s] /\ n[s] \in Pending
    BY <1>1, <1>6 DEF Slots, Machines
  <2>2. \A s \in Slots : x[s] # None => x[s] \in Programs /\ x.progStatus[x[s]] = n.progStatus[n[s]]
    BY <1>5, <1>6, <2>1 DEF Pending
  <2>3. \A s \in Slots : x[s] # None => x.progStatus[x[s]] # "stopped"
    BY <2>1, <2>2 DEF Kept, Good, Begun
  <2>4. \A p \in Programs : x.progStatus[p] = "error" => p \in MayFail
    BY <1>4, <1>6 DEF Kept, Good, Begun
  <2> QED
    BY <2>3, <2>4 DEF Begun
<1>8. Counted(x)
  BY <1>6 DEF Kept, Good, OnTheWay, Counted
<1>9. Good(x)
  BY <1>6, <1>7, <1>8, SameIsGood DEF Kept, Good
<1> QED
  BY <1>2, <1>6, <1>9 DEF Kept

\* A machine that has moved.
LEMMA MovedIsKept ==
  ASSUME NEW n, n.status # "inactive", n.status # "deactivating", NEW x, Moved(n, x)
  PROVE  Kept(x)
<1>1. x.next # Null /\ x.current # Null
  BY NullState DEF Moved, Somewhere
<1> QED
  BY <1>1 DEF Kept, Moved, Somewhere

\* Another status or request.
LEMMA StatusIs ==
  ASSUME NEW n, Good(n), NEW st \in Statuses, NEW rq \in Requests,
         st = "error" => n.status = "error",
         NEW x, x \in {Status(n, st), [Status(n, st) EXCEPT !.request = rq]}
  PROVE  /\ Good(x) /\ x.current = n.current /\ x.next = n.next /\ x.status = st
         /\ x.request \in {n.request, rq} /\ x.ok = n.ok
<1> DEFINE y == [n EXCEPT !.status = st]
<1>0. n \in Machines /\ y = Status(n, st)
  BY DEF Good, Status
<1>1. /\ y \in Machines /\ y.progStatus = n.progStatus /\ y.req = n.req /\ y.ok = n.ok
      /\ y.current = n.current /\ y.next = n.next /\ y.events = n.events
      /\ y.status = st /\ y.request = n.request
      /\ y.trans = n.trans /\ y.exit = n.exit /\ y.entry = n.entry
      /\ y.handle = n.handle /\ y.run = n.run /\ y.prog = n.prog
  BY <1>0 DEF Machines
<1> HIDE DEF y
<1>2. x = y \/ x = [y EXCEPT !.request = rq]
  BY <1>0
<1>3. /\ x \in Machines /\ x.progStatus = n.progStatus /\ x.req = n.req /\ x.ok = n.ok
      /\ x.current = n.current /\ x.next = n.next /\ x.events = n.events
      /\ x.status = st /\ x.request \in {n.request, rq}
      /\ x.trans = n.trans /\ x.exit = n.exit /\ x.entry = n.entry
      /\ x.handle = n.handle /\ x.run = n.run /\ x.prog = n.prog
  <2>1. CASE x = y
    BY <1>1, <2>1
  <2>2. CASE x = [y EXCEPT !.request = rq]
    BY <1>1, <2>2 DEF Machines
  <2> QED
    BY <1>2, <2>1, <2>2
<1>4. Good(x)
  BY <1>3, Unmoved
<1> QED
  BY <1>3, <1>4

\* A machine that is not on its way out.
Live(n) ==
    /\ Good(n) /\ n.current # Null /\ n.next \in States
    /\ n.status \notin {"inactive", "deactivating"}

\* It may be in any status but those.
LEMMA LiveIsKept ==
  ASSUME NEW n, Live(n)
  PROVE  Kept(n)
  BY NullState DEF Live, Kept

\* So may it be after an operation that has moved it, or has refused.
LEMMA LiveStays ==
  ASSUME NEW n, Live(n), NEW x, Refused(n, x) \/ Moved(n, x) \/ x = n
  PROVE  Live(x)
<1>1. CASE Refused(n, x)
  BY <1>1, Returned DEF Live, Good, Refused, Alike
<1>2. CASE Moved(n, x)
  BY <1>2, NullState DEF Live, Moved, Somewhere
<1> QED
  BY <1>1, <1>2

\* ... and when its status changes.
LEMMA LiveStatus ==
  ASSUME NEW n, Live(n), NEW st \in Statuses \ {"inactive", "deactivating", "error"},
         NEW rq \in Requests, NEW x, x \in {Status(n, st), [Status(n, st) EXCEPT !.request = rq]}
  PROVE  Live(x) /\ x.ok = n.ok
<1>1. Good(n) /\ st \in Statuses /\ (st = "error" => n.status = "error")
  BY DEF Live
<1>2. /\ Good(x) /\ x.current = n.current /\ x.next = n.next /\ x.status = st
      /\ x.ok = n.ok
  BY <1>1, StatusIs
<1> QED
  BY <1>2 DEF Live

\* execute() of what is pending.
Rested(n, x) ==
    /\ Good(x) /\ x.next = n.next
    /\ x.status \in {n.status, "error"} /\ x.request \in {n.request, "nill"}
    /\ x.ok => Arrived(x)
    /\ ~x.ok => x.current # Null
    /\ n.next # Null => x.current # Null

\* It is so from any state.
LEMMA Resting ==
  ASSUME Announced, NEW n, Good(n), n.current # Null, NEW stepping \in BOOLEAN,
         NEW x \in ExecutePending(n, stepping)
  PROVE  Rested(n, x) /\ (x.ok /\ stepping => x.trans = None)
<1>1. CASE n.status = "error"
  <2>1. x = [n EXCEPT !.ok = FALSE]
    BY <1>1 DEF ExecutePending
  <2>2. n \in Machines
    BY DEF Good
  <2>3. Good(x) /\ x.ok = FALSE /\ Alike(n, x)
    BY <2>1, <2>2, Returned
  <2> QED
    BY <2>3 DEF Rested, Alike
<1>2. CASE n.status # "error"
  <2>1. Coming(n)
    BY <1>2 DEF Coming, Good
  <2>2. /\ Led(n, x) /\ (Waits(x) \/ Arrived(x))
        /\ x.ok /\ (stepping \/ n.handle = None) => x.trans = None
    BY <2>1, PendingExecuted
  <2>3. CASE Waits(x)
    <3>1. ~x.ok /\ Good(x) /\ x.current # Null
      BY <2>3, WaitsSomewhere DEF Waits
    <3> QED
      BY <2>2, <3>1 DEF Rested, Led
  <2>4. CASE Arrived(x)
    BY <2>2, <2>4 DEF Rested, Led, Arrived
  <2> QED
    BY <2>2, <2>3, <2>4
<1> QED
  BY <1>1, <1>2

\* A machine that is not on its way out stays so.
LEMMA LiveRests ==
  ASSUME Announced, NEW n, Live(n), NEW stepping \in BOOLEAN, NEW x \in ExecutePending(n, stepping)
  PROVE  Live(x) /\ (x.ok => Able(x, stepping))
<1>1. Rested(n, x)
  BY Resting DEF Live
<1>2. Live(x)
  BY <1>1, NullState DEF Live, Rested
<1>3. ASSUME x.ok PROVE Able(x, stepping)
  <2>1. Arrived(x)
    BY <1>1, <1>3 DEF Rested
  <2> QED
    BY <1>2, <2>1 DEF Able, Somewhere, Live, Arrived, InTransition
<1> QED
  BY <1>2, <1>3

\* gostop.
LEMMA StopExecuted ==
  ASSUME Announced, NEW n, Live(n), NEW x \in ExecuteStop(n)
  PROVE  Kept(x)
<1>1. PICK d \in ExecutePending(n, FALSE) : \E f \in RequestFinalState(d) :
        x = IF f.ok THEN [Status(f, IF InTransition(f) THEN "stopping" ELSE "stopped")
                            EXCEPT !.request = "nill"]
                    ELSE f
  BY DEF ExecuteStop
<1>2. PICK f \in RequestFinalState(d) :
        x = IF f.ok THEN [Status(f, IF InTransition(f) THEN "stopping" ELSE "stopped")
                            EXCEPT !.request = "nill"]
                    ELSE f
  BY <1>1
<1>3. Live(d)
  BY <1>1, LiveRests
<1>4. Live(f)
  <2>1. Refused(d, f) \/ Moved(d, f)
    BY <1>2, <1>3, FinalRequested DEF Live
  <2> QED
    BY <1>3, <2>1, LiveStays
<1>5. ASSUME f.ok PROVE Live(x)
  <2> DEFINE st == IF InTransition(f) THEN "stopping" ELSE "stopped"
  <2>1. st \in Statuses \ {"inactive", "deactivating", "error"} /\ "nill" \in Requests
    BY DEF Statuses, Requests
  <2>2. x = [Status(f, st) EXCEPT !.request = "nill"]
    BY <1>2, <1>5
  <2> HIDE DEF st
  <2> QED
    BY <1>4, <2>1, <2>2, LiveStatus
<1> QED
  BY <1>2, <1>4, <1>5, LiveIsKept

\* goreset.
LEMMA ResetExecuted ==
  ASSUME Announced, NEW n, Live(n), NEW x \in ExecuteReset(n)
  PROVE  Kept(x)
<1>1. PICK d \in ExecutePending(n, FALSE) :
        \E r \in (IF d.ok THEN {Status(i, IF InTransition(i) THEN "resetting" ELSE "active") :
                                   i \in RequestInitialState(d)} ELSE {d}) :
          x = [r EXCEPT !.request = "nill"]
  BY DEF ExecuteReset
<1>2. PICK r \in (IF d.ok THEN {Status(i, IF InTransition(i) THEN "resetting" ELSE "active") :
                                   i \in RequestInitialState(d)} ELSE {d}) :
        x = [r EXCEPT !.request = "nill"]
  BY <1>1
<1>3. Live(d)
  BY <1>1, LiveRests
<1>4. Live(r)
  <2>1. CASE ~d.ok
    BY <1>2, <1>3, <2>1
  <2>2. CASE d.ok
    <3>1. PICK i \in RequestInitialState(d) :
            r = Status(i, IF InTransition(i) THEN "resetting" ELSE "active")
      BY <1>2, <2>2
    <3> DEFINE st == IF InTransition(i) THEN "resetting" ELSE "active"
    <3>2. i = d \/ Refused(d, i) \/ Moved(d, i)
      BY <1>3, <3>1, InitialRequested DEF Live
    <3>3. Live(i)
      BY <1>3, <3>2, LiveStays
    <3>4. st \in Statuses \ {"inactive", "deactivating", "error"} /\ "nill" \in Requests
      BY DEF Statuses, Requests
    <3>5. r = Status(i, st)
      BY <3>1
    <3> HIDE DEF st
    <3> QED
      BY <3>3, <3>4, <3>5, LiveStatus
  <2> QED
    BY <2>1, <2>2
<1>5. /\ x \in Machines /\ x.progStatus = r.progStatus /\ x.req = r.req
      /\ x.current = r.current /\ x.next = r.next /\ x.events = r.events /\ x.status = r.status
      /\ x.trans = r.trans /\ x.exit = r.exit /\ x.entry = r.entry
      /\ x.handle = r.handle /\ x.run = r.run /\ x.prog = r.prog
  BY <1>2, <1>4 DEF Live, Good, Machines, Requests
<1>6. Live(x)
  BY <1>4, <1>5, Unmoved DEF Live
<1> QED
  BY <1>6, LiveIsKept

\* A step of a paused machine.
LEMMA StepExecuted ==
  ASSUME Announced, NEW n, Live(n), NEW x \in ExecuteStep(n)
  PROVE  Kept(x)
<1>1. PICK d \in Then(ExecutePending(n, TRUE), LAMBDA e : RequestNextState(e, TRUE)) :
        x = [d EXCEPT !.mstep = FALSE]
  BY DEF ExecuteStep
<1>2. PICK e \in ExecutePending(n, TRUE) :
        IF e.ok THEN d \in RequestNextState(e, TRUE) ELSE d = e
  BY DEF Then
<1>3. Live(e) /\ (e.ok => Able(e, TRUE))
  BY <1>2, LiveRests
<1>4. Live(d)
  <2>1. CASE e.ok
    <3>1. Moved(e, d)
      BY <1>2, <1>3, <2>1, NextRequested
    <3> QED
      BY <1>3, <3>1, LiveStays
  <2>2. CASE ~e.ok
    BY <1>2, <1>3, <2>2
  <2> QED
    BY <2>1, <2>2
<1>5. /\ x \in Machines /\ x.progStatus = d.progStatus /\ x.req = d.req
      /\ x.current = d.current /\ x.next = d.next /\ x.events = d.events /\ x.status = d.status
      /\ x.trans = d.trans /\ x.exit = d.exit /\ x.entry = d.entry
      /\ x.handle = d.handle /\ x.run = d.run /\ x.prog = d.prog
  BY <1>1, <1>4 DEF Live, Good, Machines
<1>6. Live(x)
  BY <1>4, <1>5, Unmoved DEF Live
<1> QED
  BY <1>6, LiveIsKept

\* The transitions of a machine that is active or running are evaluated.
LEMMA RoundExecuted ==
  ASSUME Announced, NEW n, Live(n),
         NEW d \in Then(ExecutePending(n, FALSE), LAMBDA e : RequestNextState(e, FALSE))
  PROVE  Live(d)
<1>1. PICK e \in ExecutePending(n, FALSE) :
        IF e.ok THEN d \in RequestNextState(e, FALSE) ELSE d = e
  BY DEF Then
<1>2. Live(e) /\ (e.ok => Able(e, FALSE))
  BY <1>1, LiveRests
<1>3. CASE e.ok
  <2>1. Moved(e, d)
    BY <1>1, <1>2, <1>3, NextRequested
  <2> QED
    BY <1>2, <2>1, LiveStays
<1>4. CASE ~e.ok
  BY <1>1, <1>2, <1>4
<1> QED
  BY <1>3, <1>4

\* The status follows.
LEMMA Done ==
  ASSUME NEW S, \A d \in S : Live(d),
         NEW st \in Statuses \ {"inactive", "deactivating", "error"}, NEW x \in WhenDone(S, st)
  PROVE  Kept(x)
<1>1. PICK d \in S : x = IF d.ok THEN Status(d, st) ELSE d
  BY DEF WhenDone
<1>2. "nill" \in Requests
  BY DEF Requests
<1>3. Live(x)
  BY <1>1, <1>2, LiveStatus
<1> QED
  BY <1>3, LiveIsKept

\* The deactivation is done when the machine is in no state.
LEMMA DeactivationExecuted ==
  ASSUME Announced, NEW n, Kept(n), n.status = "deactivating",
         NEW x \in WhenDone(ExecutePending(n, FALSE), "inactive")
  PROVE  Kept(x)
<1>1. PICK d \in ExecutePending(n, FALSE) : x = IF d.ok THEN Status(d, "inactive") ELSE d
  BY DEF WhenDone
<1>2. n.next = Null /\ n.current # Null /\ n.request = "nill"
  BY DEF Kept
<1>3. Rested(n, d)
  BY <1>2, Resting DEF Kept
<1>4. CASE d.ok
  <2>1. d.current = Null /\ d.next = Null /\ d.request = "nill" /\ Good(d)
    BY <1>2, <1>3, <1>4 DEF Rested, Arrived
  <2>2. "nill" \in Requests /\ "inactive" \in Statuses
    BY DEF Requests, Statuses
  <2>3. /\ Good(x) /\ x.current = d.current /\ x.next = d.next /\ x.status = "inactive"
        /\ x.request = "nill"
    BY <1>1, <1>4, <2>1, <2>2, StatusIs
  <2> QED
    BY <2>1, <2>3 DEF Kept
<1>5. CASE ~d.ok
  BY <1>1, <1>2, <1>3, <1>5 DEF Rested, Kept
<1> QED
  BY <1>4, <1>5

\* A machine that is alive and is neither deactivated nor in error.
LEMMA LiveNow ==
  ASSUME NEW n, Kept(n), n.status # "inactive", n.next # Null
  PROVE  Live(n)
  BY DEF Kept, Live, Good, Machines

\* execute() in a status.
LEMMA StatusExecuted ==
  ASSUME Announced, NEW n, Kept(n), n.status # "inactive", NEW x \in ExecuteStatus(n)
  PROVE  Kept(x)
<1> DEFINE pending == ExecutePending(n, FALSE)
           round == Then(pending, LAMBDA d : RequestNextState(d, FALSE))
<1>1. ASSUME n.status \notin {"deactivating", "error"} PROVE Live(n)
  BY <1>1, LiveNow DEF Kept
<1>2. \A d \in pending : Live(n) => Live(d)
  BY LiveRests
<1>3. \A d \in round : Live(n) => Live(d)
  BY RoundExecuted
<1>4. n.status \in Statuses
  BY DEF Kept, Good, Machines
<1>5. CASE n.status = "requesting"
  <2>1. x \in WhenDone(round, "active")
    BY <1>5 DEF ExecuteStatus
  <2>2. "active" \in Statuses \ {"inactive", "deactivating", "error"}
    BY DEF Statuses
  <2> HIDE DEF pending, round
  <2> QED
    BY <1>1, <1>3, <1>5, <2>1, <2>2, Done
<1>6. CASE n.status = "active"
  <2>1. x \in pending
    BY <1>6 DEF ExecuteStatus
  <2> HIDE DEF pending, round
  <2> QED
    BY <1>1, <1>2, <1>6, <2>1, LiveIsKept
<1>7. CASE n.status = "running"
  <2>1. x \in round
    BY <1>7 DEF ExecuteStatus
  <2> HIDE DEF pending, round
  <2> QED
    BY <1>1, <1>3, <1>7, <2>1, LiveIsKept
<1>8. CASE n.status = "paused"
  <2>1. x = n \/ x \in ExecuteStep(n)
    BY <1>8 DEF ExecuteStatus
  <2> QED
    BY <1>1, <1>8, <2>1, StepExecuted
<1>9. CASE n.status = "error"
  <2>1. x = n
    BY <1>9 DEF ExecuteStatus
  <2> QED
    BY <2>1
<1>10. CASE n.status = "activating"
  <2>1. PICK d \in pending : x = IF InTransition(d) THEN d ELSE Status(d, "active")
    BY <1>10 DEF ExecuteStatus
  <2>2. "active" \in Statuses \ {"inactive", "deactivating", "error"} /\ "nill" \in Requests
    BY DEF Statuses, Requests
  <2> HIDE DEF pending, round
  <2>3. Live(d)
    BY <1>1, <1>2, <1>10, <2>1
  <2>4. Live(x)
    BY <2>1, <2>2, <2>3, LiveStatus
  <2> QED
    BY <2>4, LiveIsKept
<1>11. CASE n.status = "stopping"
  <2>1. x \in WhenDone(pending, "stopped")
    BY <1>11 DEF ExecuteStatus
  <2>2. "stopped" \in Statuses \ {"inactive", "deactivating", "error"}
    BY DEF Statuses
  <2> HIDE DEF pending, round
  <2> QED
    BY <1>1, <1>2, <1>11, <2>1, <2>2, Done
<1>12. CASE n.status = "deactivating"
  BY <1>12, DeactivationExecuted DEF ExecuteStatus
<1>13. CASE n.status = "resetting"
  <2>1. x \in WhenDone(pending, "active")
    BY <1>13 DEF ExecuteStatus
  <2>2. "active" \in Statuses \ {"inactive", "deactivating", "error"}
    BY DEF Statuses
  <2> HIDE DEF pending, round
  <2> QED
    BY <1>1, <1>2, <1>13, <2>1, <2>2, Done
<1>14. CASE n.status = "stopped"
  <2>1. PICK d \in pending : x = IF d.current # FiniState THEN Status(d, "active") ELSE d
    BY <1>14 DEF ExecuteStatus
  <2>2. "active" \in Statuses \ {"inactive", "deactivating", "error"} /\ "nill" \in Requests
    BY DEF Statuses, Requests
  <2> HIDE DEF pending, round
  <2>3. Live(d)
    BY <1>1, <1>2, <1>14, <2>1
  <2>4. Live(x)
    BY <2>1, <2>2, <2>3, LiveStatus
  <2> QED
    BY <2>4, LiveIsKept
<1> QED
  BY <1>4, <1>5, <1>6, <1>7, <1>8, <1>9, <1>10, <1>11, <1>12, <1>13, <1>14 DEF Statuses

-----------------------------------------------------------------------------
(***************************************************************************)
(* The steps.                                                              *)
(***************************************************************************)
\* What an action leaves is settled.
LEMMA KeptStays ==
  ASSUME NEW n, Kept(n), m' = Settled(n)
  PROVE  IInv'
<1>1. Kept(Settled(n)) /\ Settled(n).ok
  BY SettledIs
<1> QED
  BY <1>1 DEF IInv, Kept, Good, Own, Current, Begun, OnTheWay, Counted, Crossing, Visible,
              InTransition

\* execute().
LEMMA ExecuteKeeps ==
  ASSUME Announced, IInv, Execute
  PROVE  IInv'
<1>1. PICK n \in (CASE m.status = "inactive" -> {[m EXCEPT !.request = "nill"]}
                    [] m.status # "inactive" /\ m.request = "pausing" ->
                          {[Status(m, "paused") EXCEPT !.request = "nill"]}
                    [] m.status # "inactive" /\ m.request = "gostop" -> ExecuteStop(m)
                    [] m.status # "inactive" /\ m.request = "goreset" -> ExecuteReset(m)
                    [] m.status # "inactive" /\ m.request = "nill" -> ExecuteStatus(m)) :
        m' = Settled(n)
  BY DEF Execute
<1>2. Kept(m) /\ Good(m) /\ m \in Machines
  BY DEF IInv, Kept, Good
<1>3. ASSUME m.status # "inactive", m.request # "nill" PROVE Live(m)
  BY <1>2, <1>3, LiveNow DEF Kept
<1>4. CASE m.status = "inactive"
  <2>1. n = [m EXCEPT !.request = "nill"]
    BY <1>1, <1>4
  <2>2. /\ n \in Machines /\ n.progStatus = m.progStatus /\ n.req = m.req /\ n.request = "nill"
        /\ n.current = m.current /\ n.next = m.next /\ n.events = m.events /\ n.status = m.status
        /\ n.trans = m.trans /\ n.exit = m.exit /\ n.entry = m.entry
        /\ n.handle = m.handle /\ n.run = m.run /\ n.prog = m.prog
    BY <1>2, <2>1 DEF Machines, Requests
  <2>3. Good(n)
    BY <1>2, <2>2, Unmoved
  <2>4. Kept(n)
    BY <1>2, <2>2, <2>3 DEF Kept
  <2> QED
    BY <1>1, <2>4, KeptStays
<1>5. CASE m.status # "inactive" /\ m.request = "pausing"
  <2>1. n = [Status(m, "paused") EXCEPT !.request = "nill"]
    BY <1>1, <1>5
  <2>2. "paused" \in Statuses \ {"inactive", "deactivating", "error"} /\ "nill" \in Requests
    BY DEF Statuses, Requests
  <2>3. Live(n)
    BY <1>3, <1>5, <2>1, <2>2, LiveStatus
  <2> QED
    BY <1>1, <2>3, LiveIsKept, KeptStays
<1>6. CASE m.status # "inactive" /\ m.request = "gostop"
  <2>1. n \in ExecuteStop(m)
    BY <1>1, <1>6
  <2> QED
    BY <1>1, <1>3, <1>6, <2>1, StopExecuted, KeptStays
<1>7. CASE m.status # "inactive" /\ m.request = "goreset"
  <2>1. n \in ExecuteReset(m)
    BY <1>1, <1>7
  <2> QED
    BY <1>1, <1>3, <1>7, <2>1, ResetExecuted, KeptStays
<1>8. CASE m.status # "inactive" /\ m.request = "nill"
  <2>1. n \in ExecuteStatus(m)
    BY <1>1, <1>8
  <2> QED
    BY <1>1, <1>2, <1>8, <2>1, StatusExecuted, KeptStays
<1>9. m.request \in Requests
  BY <1>2 DEF Machines
<1> QED
  BY <1>4, <1>5, <1>6, <1>7, <1>8, <1>9 DEF Requests

\* The same, when the action leaves the statuses of programs alone.
LEMMA KeptNow ==
  ASSUME NEW n, Kept(n), n.ok, m' = n
  PROVE  IInv'
  BY DEF IInv, Kept, Good, Own, Current, Begun, OnTheWay, Counted, Crossing, Visible, InTransition

\* The fields that tell where the machine is in its transitions.
SamePlace(n, x) == x.current = n.current /\ x.next = n.next /\ x.req = n.req

LEMMA SettledPlace ==
  ASSUME NEW n \in Machines
  PROVE  SamePlace(n, Settled(n))
  BY DEF Settled, Machines, SamePlace

LEMMA StatusPlace ==
  ASSUME NEW n \in Machines, NEW st, NEW rq
  PROVE  /\ SamePlace(n, Status(n, st))
         /\ SamePlace(n, [Status(n, st) EXCEPT !.request = rq])
         /\ SamePlace(n, [n EXCEPT !.request = rq])
  BY DEF Status, Machines, SamePlace

\* execute() of what is pending goes on with the evaluation or begins it anew.
LEMMA RestsPrompt ==
  ASSUME Announced, NEW n, Good(n), NEW stepping \in BOOLEAN,
         NEW x \in ExecutePending(n, stepping)
  PROVE  x.req \in {n.req, 1}
<1>1. CASE n.status = "error"
  BY <1>1 DEF ExecutePending, Good, Machines
<1>2. CASE n.status # "error"
  <2>1. Coming(n)
    BY <1>2 DEF Coming, Good
  <2> QED
    BY <2>1, PendingExecuted DEF Led
<1> QED
  BY <1>1, <1>2

\* activate().
LEMMA ActivateKeeps ==
  ASSUME Announced, IInv, Activate
  PROVE  IInv' /\ m'.req = 1
<1> DEFINE a == [m EXCEPT !.request = "nill"]
           e == Program("entry", InitState)
           b == Begin(a, "entry", e)
           c == [b EXCEPT !.next = InitState, !.events = @ \cup {InitState}]
           n == [c EXCEPT !.req = 1, !.events = @ \cup {Null}]
<1>a. a = [m EXCEPT !.request = "nill"]
  OBVIOUS
<1>b. b = Begin(a, "entry", e)
  OBVIOUS
<1>c. c = [b EXCEPT !.next = InitState, !.events = @ \cup {InitState}]
  OBVIOUS
<1>n. n = [c EXCEPT !.req = 1, !.events = @ \cup {Null}]
  OBVIOUS
<1>e. /\ e \in Pending /\ (e # None => e \in Programs) /\ "entry" \in Slots
      /\ InitState \in States
  BY ProgramIs, MachineAssumption DEF Slots
<1>1. PICK d \in ExecutePending(n, FALSE) :
        m' = Settled(IF d.ok THEN Status(d, "active")
                     ELSE IF d.status = "error" THEN d ELSE Status(d, "activating"))
  BY DEF Activate, EnterState
<1> HIDE DEF a, b, c, n, e
<1>2. /\ m \in Machines /\ m.status = "inactive" /\ m.current = Null /\ m.next = Null
      /\ m.exit = None /\ m.trans = None /\ m.handle = None /\ m.run = None /\ m.entry = None
      /\ m.prog = None /\ Begun(m)
  <2>1. m \in Machines /\ m.status = "inactive" /\ m.current = Null /\ m.next = Null
    BY DEF Activate, Alive, IInv, Kept, Good
  <2>2. /\ m.exit = None /\ m.trans = None /\ m.handle = None /\ m.run = None /\ m.entry = None
    BY <2>1 DEF IInv, Kept, Good, OnTheWay
  <2> QED
    BY <2>1, <2>2 DEF IInv, Kept, Good, Current
<1>3. /\ a \in Machines /\ a.status = "inactive" /\ a.current = Null /\ a.next = Null
      /\ a.exit = None /\ a.trans = None /\ a.handle = None /\ a.run = None /\ a.entry = None
      /\ a.prog = None /\ a.progStatus = m.progStatus
  BY <1>a, <1>2 DEF Machines, Requests
<1>4. Holds(a, "entry", e, b) /\ b.prog = e
  BY <1>b, <1>e, <1>3, BeginIs
<1>5. /\ b \in Machines /\ b.status = "inactive" /\ b.current = Null
      /\ b.exit = None /\ b.trans = None /\ b.handle = None /\ b.run = None /\ b.entry = e
  BY <1>3, <1>4 DEF Holds, Slots, Alike
<1>6. /\ c \in Machines /\ c.status = "inactive" /\ c.current = Null /\ c.next = InitState
      /\ c.exit = None /\ c.trans = None /\ c.handle = None /\ c.run = None /\ c.entry = e
      /\ c.prog = e /\ c.progStatus = b.progStatus
  BY <1>c, <1>e, <1>4, <1>5 DEF Machines
<1>7. /\ n \in Machines /\ n.status = "inactive" /\ n.current = Null /\ n.next = InitState
      /\ n.req = 1
      /\ n.exit = None /\ n.trans = None /\ n.handle = None /\ n.run = None /\ n.entry = e
      /\ n.prog = e /\ n.progStatus = b.progStatus
  <2>1. 1 \in Nat \ {0}
    OBVIOUS
  <2> QED
    BY <1>n, <1>6, <2>1 DEF Machines
<1>8. Begun(n)
  <2>1. /\ \A q \in Programs : n.progStatus[q] \in {m.progStatus[q], "running", "paused"}
        /\ e # None => n.progStatus[e] = "running"
    BY <1>e, <1>2, <1>3, <1>4, <1>7 DEF Holds, Machines
  <2>2. \A s \in Slots : n[s] # None => n.progStatus[n[s]] \in {"running", "paused"}
    BY <1>7, <2>1 DEF Slots
  <2> QED
    BY <1>2, <1>7, <2>1, <2>2, BegunStays
<1>9. Coming(n)
  <2>1. Own(n) /\ Current(n)
    BY <1>7 DEF Own, Current, e
  <2>2. OnTheWay(n)
    BY <1>e, <1>7, NullState DEF OnTheWay, Counted, Crossing
  <2> QED
    BY <1>7, <1>8, <2>1, <2>2 DEF Coming
<1>10. /\ Good(d) /\ d.current # Null /\ d.next \in States
       /\ d.status \in {"inactive", "error"} /\ d.req = 1
  <2>1. Led(n, d) /\ (Waits(d) \/ Arrived(d))
    BY <1>1, <1>9, PendingExecuted
  <2>2. d.next = InitState /\ d.status \in {"inactive", "error"} /\ d.req = 1
    BY <1>7, <2>1 DEF Led
  <2>3. CASE Waits(d)
    BY <1>e, <2>2, <2>3, WaitsSomewhere DEF Waits
  <2>4. CASE Arrived(d)
    BY <1>e, <2>2, <2>4, NullState DEF Arrived
  <2> QED
    BY <2>1, <2>3, <2>4
<1>11. ASSUME NEW st \in {"active", "activating"} PROVE Live(Status(d, st))
  <2>1. st \in Statuses /\ st # "error" /\ "nill" \in Requests
    BY DEF Statuses, Requests
  <2>2. /\ Good(Status(d, st)) /\ Status(d, st).current = d.current
        /\ Status(d, st).next = d.next /\ Status(d, st).status = st
    BY <1>10, <2>1, StatusIs
  <2> QED
    BY <1>10, <2>2 DEF Live
<1>12. d.status = "error" => Live(d)
  BY <1>10 DEF Live
<1>13. m'.req = 1
  <2>1. d \in Machines
    BY <1>10 DEF Good
  <2>2. PICK y \in {d, Status(d, "active"), Status(d, "activating")} : m' = Settled(y)
    BY <1>1
  <2>3. y \in Machines
    BY <2>1, <2>2 DEF Status, Machines, Statuses
  <2> QED
    BY <1>10, <2>1, <2>2, <2>3, StatusPlace, SettledPlace DEF SamePlace
<1> QED
  BY <1>1, <1>11, <1>12, <1>13, LiveIsKept, KeptStays

\* Nothing of the machine is left but what its exit and transition programs have to do.
LEMMA Abandoned ==
  ASSUME NEW c \in Machines, Own(c), Begun(c), c.prog = None, c.next = Null,
         c.current # Null, c.entry = None, c.handle = None, c.run = None,
         Null \notin c.events, c.current \notin c.events, Counted(c),
         NEW x \in Machines, x.status # "error",
         x.trans = c.trans, x.exit = c.exit, x.entry = c.entry, x.handle = c.handle,
         x.run = c.run, x.prog = c.prog, x.progStatus = c.progStatus,
         x.current = c.current, x.next = c.next, x.events = c.events, x.req = c.req
  PROVE  Good(x)
<1>1. Begun(x)
  BY SameBegun
<1>2. Own(x) /\ Current(x)
  BY DEF Own, Current
<1>3. OnTheWay(x) /\ Visible(x)
  BY DEF OnTheWay, Counted, Crossing, Visible
<1> QED
  BY <1>1, <1>2, <1>3 DEF Good

\* deactivate(), before executePending().
LEMMA DeactivateKeeps ==
  ASSUME Patient, Announced, IInv, Deactivate
  PROVE  IInv' /\ m'.req \in {m.req, 1}
<1> DEFINE Failed(slot) == m[slot] # None /\ m.progStatus[m[slot]] = "error"
           exit == IF Failed("exit") THEN None ELSE m.exit
           trans == IF Failed("trans") THEN None ELSE m.trans
           a == [m EXCEPT !.events = @ \ {Null}, !.exit = exit, !.trans = trans]
           e == Program("exit", a.current)
           l == Begin(a, "exit", e)
           left == [l EXCEPT !.events = @ \ {a.current}]
           b == IF a.next # Null /\ a.current # Null THEN left
                ELSE [a EXCEPT !.exit = None, !.trans = None]
           c == [b EXCEPT !.prog = None, !.entry = None, !.handle = None, !.run = None,
                          !.next = Null]
<1>a. a = [m EXCEPT !.events = @ \ {Null}, !.exit = exit, !.trans = trans]
  OBVIOUS
<1>e. e = Program("exit", a.current)
  OBVIOUS
<1>k. e \in Pending /\ (e # None => e \in Programs) /\ "exit" \in Slots
  BY ProgramIs DEF Slots
<1>l. l = Begin(a, "exit", e) /\ left = [l EXCEPT !.events = @ \ {a.current}]
  OBVIOUS
<1>b. b = IF a.next # Null /\ a.current # Null THEN left ELSE [a EXCEPT !.exit = None, !.trans = None]
  OBVIOUS
<1>c. c = [b EXCEPT !.prog = None, !.entry = None, !.handle = None, !.run = None, !.next = Null]
  OBVIOUS
<1>x. exit \in {None, m.exit} /\ trans \in {None, m.trans}
  OBVIOUS
<1>1. PICK d \in ExecutePending(c, FALSE) :
        m' = Settled(Status(d, IF d.ok THEN "inactive" ELSE "deactivating"))
  BY DEF Deactivate, LeaveState
<1> HIDE DEF Failed, exit, trans, a, e, l, left, b, c
<1>2. /\ m \in Machines /\ m.status # "inactive" /\ m.current # Null /\ m.request = "nill"
      /\ Own(m) /\ Begun(m) /\ OnTheWay(m)
  BY DEF Deactivate, Alive, IInv, Kept, Good
<1>3. /\ a \in Machines /\ a.status = m.status /\ a.request = "nill" /\ a.req = m.req
      /\ a.current = m.current /\ a.next = m.next /\ a.events = m.events \ {Null}
      /\ a.exit \in {None, m.exit} /\ a.trans \in {None, m.trans} /\ a.entry = m.entry
      /\ a.handle = m.handle /\ a.run = m.run /\ a.progStatus = m.progStatus
  BY <1>a, <1>x, <1>2 DEF Machines, Pending
<1>4. /\ b \in Machines /\ b.status = m.status /\ b.request = "nill" /\ b.req = m.req
      /\ b.current = m.current /\ Null \notin b.events /\ m.current \notin b.events
      /\ b.exit = None \/ (b.exit = e /\ b.progStatus[e] = "running")
      /\ b.trans \in {None, m.trans}
      /\ \A q \in Programs : b.progStatus[q] \in {m.progStatus[q], "running", "paused"}
  <2>1. CASE m.next # Null
    <3>1. b = left
      BY <1>b, <1>2, <1>3, <2>1
    <3>2. Holds(a, "exit", e, l)
      BY <1>k, <1>l, <1>3, BeginIs
    <3>3. /\ l \in Machines /\ l.exit = e /\ l.trans = a.trans
          /\ l.status = a.status /\ l.request = a.request /\ l.req = a.req
          /\ l.current = a.current /\ l.next = a.next /\ l.events = a.events
      BY <3>2 DEF Holds, Slots, Alike
    <3>4. /\ e # None => l.progStatus[e] = "running"
          /\ \A q \in Programs : l.progStatus[q] \in {m.progStatus[q], "running", "paused"}
      BY <1>k, <1>3, <3>2 DEF Holds, Machines
    <3>5. /\ left \in Machines /\ left.exit = e /\ left.trans = l.trans
          /\ left.status = l.status /\ left.request = l.request /\ left.req = l.req
          /\ left.current = l.current /\ left.events = l.events \ {a.current}
          /\ left.progStatus = l.progStatus
      BY <1>l, <3>3 DEF Machines
    <3> QED
      BY <1>3, <3>1, <3>3, <3>4, <3>5
  <2>2. CASE m.next = Null
    <3>1. b = [a EXCEPT !.exit = None, !.trans = None]
      BY <1>b, <1>3, <2>2
    <3>2. m.current \notin m.events
      BY <1>2, <2>2 DEF OnTheWay
    <3> QED
      BY <1>3, <3>1, <3>2 DEF Machines, Pending
  <2> QED
    BY <2>1, <2>2
<1>5. /\ c \in Machines /\ c.status = m.status /\ c.request = "nill" /\ c.req = m.req
      /\ c.current = m.current /\ c.next = Null /\ Null \notin c.events /\ m.current \notin c.events
      /\ c.exit = b.exit /\ c.trans = b.trans /\ c.entry = None /\ c.handle = None /\ c.run = None
      /\ c.prog = None /\ c.progStatus = b.progStatus
  BY <1>c, <1>4 DEF Machines, Pending
<1>6. Begun(c)
  <2>1. \A s \in Slots : c[s] # None => \/ \E t \in Slots : c[s] = m[t]
                                         \/ c.progStatus[c[s]] \in {"running", "paused"}
    BY <1>4, <1>5 DEF Slots
  <2>2. \A q \in Programs : c.progStatus[q] \in {m.progStatus[q], "running", "paused"}
    BY <1>4, <1>5
  <2> QED
    BY <1>2, <1>5, <2>1, <2>2, BegunStays
<1>7. Own(c) /\ Counted(c)
  BY <1>e, <1>2, <1>3, <1>4, <1>5 DEF Own, OnTheWay, Counted
<1>8. CASE m.status = "error"
  <2> DEFINE x == Status(d, "deactivating")
  <2>1. d = [c EXCEPT !.ok = FALSE]
    BY <1>1, <1>5, <1>8 DEF ExecutePending
  <2>2. /\ d \in Machines /\ d.ok = FALSE /\ Alike(c, d) /\ d.progStatus = c.progStatus
        /\ d.trans = c.trans /\ d.exit = c.exit /\ d.entry = c.entry
        /\ d.handle = c.handle /\ d.run = c.run /\ d.prog = c.prog
    BY <1>5, <2>1 DEF Machines, Alike
  <2>3. /\ x \in Machines /\ x.status = "deactivating" /\ x.request = d.request
        /\ x.progStatus = d.progStatus /\ x.req = d.req
        /\ x.current = d.current /\ x.next = d.next /\ x.events = d.events
        /\ x.trans = d.trans /\ x.exit = d.exit /\ x.entry = d.entry
        /\ x.handle = d.handle /\ x.run = d.run /\ x.prog = d.prog
    BY <2>2 DEF Status, Machines, Statuses
  <2>4. m' = Settled(x)
    BY <1>1, <2>2
  <2> HIDE DEF x
  <2>5. Good(x)
    BY <1>2, <1>5, <1>6, <1>7, <2>2, <2>3, Abandoned DEF Alike
  <2>6. Kept(x)
    BY <1>2, <1>5, <2>2, <2>3, <2>5 DEF Kept, Alike
  <2>7. m'.req = m.req
    BY <1>5, <2>2, <2>3, <2>4, SettledPlace DEF SamePlace, Alike
  <2> QED
    BY <2>4, <2>6, <2>7, KeptStays
<1>9. CASE m.status # "error"
  <2> DEFINE st == IF d.ok THEN "inactive" ELSE "deactivating"
             x == Status(d, st)
  <2>1. Good(c)
    BY <1>2, <1>5, <1>6, <1>7, <1>9, Abandoned
  <2>2. Rested(c, d)
    BY <1>1, <1>2, <1>5, <2>1, Resting
  <2>3. st \in Statuses /\ st # "error" /\ "nill" \in Requests
    BY DEF Statuses, Requests
  <2>4. /\ Good(x) /\ x.current = d.current /\ x.next = d.next /\ x.status = st
        /\ x.request \in {d.request, "nill"}
    <3> HIDE DEF st
    <3> QED
      BY <2>2, <2>3, StatusIs DEF Rested
  <2>5. m' = Settled(x)
    BY <1>1
  <2>6. d.next = Null /\ d.request = "nill" /\ (d.ok <=> d.current = Null)
    BY <1>5, <2>2 DEF Rested, Arrived
  <2>7. st = "inactive" <=> d.ok
    OBVIOUS
  <2>8. st \in {"inactive", "deactivating"}
    OBVIOUS
  <2>9. SamePlace(d, x)
    BY <2>2, StatusPlace DEF Rested, Good
  <2> HIDE DEF st, x
  <2>10. Kept(x)
    BY <2>4, <2>6, <2>7, <2>8 DEF Kept
  <2>11. m'.req \in {m.req, 1}
    <3>1. d.req \in {c.req, 1}
      BY <1>1, <2>1, RestsPrompt
    <3>2. SamePlace(x, Settled(x))
      BY <2>4, SettledPlace DEF Good
    <3> QED
      BY <1>5, <2>5, <2>9, <3>1, <3>2 DEF SamePlace
  <2> QED
    BY <2>5, <2>10, <2>11, KeptStays
<1> QED
  BY <1>8, <1>9

\* start().
LEMMA AutomaticKeeps ==
  ASSUME Patient, Announced, IInv, Automatic
  PROVE  IInv'
<1> DEFINE n == Status(m, "running")
           x == RunState(n, m.current)
<1>1. m' = Settled(x)
  BY DEF Automatic
<1>2. Live(m) /\ ~InTransition(m)
  BY LiveNow DEF Automatic, Alive, Leaving, Quiet, IInv, Interruptible, InTransition
<1>3. "running" \in Statuses \ {"inactive", "deactivating", "error"} /\ "nill" \in Requests
  BY DEF Statuses, Requests
<1>4. Live(n) /\ n.current = m.current /\ n.prog = m.prog /\ n.run = m.run /\ n.handle = m.handle
  <2>1. m \in Machines
    BY <1>2 DEF Live, Good
  <2> QED
    BY <1>2, <1>3, <2>1, LiveStatus DEF Status, Machines
<1> HIDE DEF n
<1>5. Somewhere(n) /\ ~InTransition(n)
  BY <1>2, <1>4 DEF Somewhere, Live, Good, Machines, InTransition
<1>6. Moved(n, x)
  <2>1. n.current # n.next => n.run = None /\ Program("run", n.current) = None
    BY <1>5, Settling
  <2>2. n.current \in States
    BY <1>5 DEF Somewhere
  <2> QED
    BY <1>4, <1>5, <2>1, <2>2, RunPends
<1> QED
  BY <1>1, <1>4, <1>6, LiveStays, LiveIsKept, KeptStays

\* What a request does when it comes.
LEMMA LiveAltered ==
  ASSUME NEW n, Live(n), NEW st \in Statuses, NEW rq \in Requests, NEW b \in BOOLEAN,
         st = n.status \/ st \notin {"inactive", "deactivating", "error"},
         NEW x, x = [n EXCEPT !.status = st, !.request = rq, !.mstep = b]
  PROVE  Kept(x)
<1>1. /\ n \in Machines
  BY DEF Live, Good
<1>2. /\ x \in Machines /\ x.status = st /\ x.progStatus = n.progStatus /\ x.req = n.req
      /\ x.current = n.current /\ x.next = n.next /\ x.events = n.events
      /\ x.trans = n.trans /\ x.exit = n.exit /\ x.entry = n.entry
      /\ x.handle = n.handle /\ x.run = n.run /\ x.prog = n.prog
  BY <1>1 DEF Machines
<1>3. Good(x)
  <2>1. Good(n) /\ (x.status = "error" => n.status = "error")
    BY <1>2 DEF Live
  <2> QED
    BY <1>2, <2>1, Unmoved
<1>4. Live(x)
  BY <1>2, <1>3 DEF Live
<1> QED
  BY <1>4, LiveIsKept

\* reactive().
LEMMA ReactiveKeeps ==
  ASSUME Patient, IInv, Reactive
  PROVE  IInv'
<1>1. Live(m)
  BY LiveNow DEF Reactive, Alive, Leaving, IInv
<1>2. "active" \in Statuses \ {"inactive", "deactivating", "error"} /\ "nill" \in Requests
  BY DEF Statuses, Requests
<1>3. Live(Status(m, "active")) /\ Status(m, "active").ok = m.ok
  BY <1>1, <1>2, LiveStatus
<1> QED
  BY <1>3, LiveIsKept, KeptNow DEF Reactive, IInv

\* pause().
LEMMA PauseKeeps ==
  ASSUME Patient, IInv, Pause
  PROVE  IInv'
<1> DEFINE ps == IF m.prog = None THEN m.progStatus ELSE [m.progStatus EXCEPT ![m.prog] = "paused"]
           x == [m EXCEPT !.request = "pausing", !.progStatus = ps]
<1>1. m' = x
  BY DEF Pause
<1>2. Live(m) /\ m \in Machines /\ Begun(m)
  BY LiveNow DEF Pause, Alive, Leaving, IInv, Live, Good
<1>3. /\ ps \in [Programs -> ProgramStatuses]
      /\ \A q \in Programs : ps[q] \in {m.progStatus[q], "paused"}
  <2>1. m.prog # None => m.prog \in Programs
    BY <1>2 DEF Machines, Pending
  <2> QED
    BY <1>2, <2>1 DEF Machines, ProgramStatuses
<1> HIDE DEF ps
<1>4. /\ x \in Machines /\ x.progStatus = ps /\ x.req = m.req /\ x.status = m.status
      /\ x.current = m.current /\ x.next = m.next /\ x.events = m.events
      /\ x.trans = m.trans /\ x.exit = m.exit /\ x.entry = m.entry
      /\ x.handle = m.handle /\ x.run = m.run /\ x.prog = m.prog /\ x.ok = m.ok
  BY <1>2, <1>3 DEF Machines, Requests
<1> HIDE DEF x
<1>5. Begun(x)
  <2>1. \A s \in Slots : x[s] = m[s]
    BY <1>4 DEF Slots
  <2>2. \A q \in Programs : x.progStatus[q] \in {m.progStatus[q], "running", "paused"}
    BY <1>3, <1>4
  <2> QED
    BY <1>2, <1>4, <2>1, <2>2, BegunStays
<1>6. Counted(x)
  BY <1>2, <1>4 DEF Live, Good, OnTheWay, Counted
<1>7. Good(x)
  BY <1>2, <1>4, <1>5, <1>6, SameIsGood DEF Live
<1>8. Live(x)
  BY <1>2, <1>4, <1>7 DEF Live
<1> QED
  BY <1>1, <1>4, <1>8, LiveIsKept, KeptNow DEF IInv

\* A request that is only noted.
LEMMA NotedKeeps ==
  ASSUME Live(m), m.ok, NEW rq \in Requests, m' = [m EXCEPT !.request = rq]
  PROVE  IInv'
<1> DEFINE x == [m EXCEPT !.request = rq]
<1>1. m \in Machines
  BY DEF Live, Good
<1>2. /\ x \in Machines /\ x.status = m.status /\ x.progStatus = m.progStatus /\ x.req = m.req
      /\ x.current = m.current /\ x.next = m.next /\ x.events = m.events
      /\ x.trans = m.trans /\ x.exit = m.exit /\ x.entry = m.entry
      /\ x.handle = m.handle /\ x.run = m.run /\ x.prog = m.prog /\ x.ok = m.ok
  BY <1>1 DEF Machines
<1>3. m' = x
  OBVIOUS
<1> HIDE DEF x
<1>4. Good(x)
  BY <1>2, Unmoved DEF Live
<1>5. Live(x)
  BY <1>2, <1>4 DEF Live
<1> QED
  BY <1>2, <1>3, <1>5, LiveIsKept, KeptNow

\* step().
LEMMA StepKeeps ==
  ASSUME IInv, Step
  PROVE  IInv'
<1>1. Live(m) /\ m \in Machines
  BY LiveNow DEF Step, IInv, Kept, Good
<1>2. CASE m' = [m EXCEPT !.mstep = TRUE]
  <2> DEFINE x == [m EXCEPT !.mstep = TRUE]
  <2>1. /\ x \in Machines /\ x.status = m.status /\ x.progStatus = m.progStatus /\ x.req = m.req
        /\ x.current = m.current /\ x.next = m.next /\ x.events = m.events
        /\ x.trans = m.trans /\ x.exit = m.exit /\ x.entry = m.entry
        /\ x.handle = m.handle /\ x.run = m.run /\ x.prog = m.prog /\ x.ok = m.ok
    BY <1>1 DEF Machines
  <2>2. m' = x
    BY <1>2
  <2> HIDE DEF x
  <2>3. Good(x)
    BY <1>1, <2>1, Unmoved DEF Live
  <2>4. Live(x)
    BY <1>1, <2>1, <2>3 DEF Live
  <2> QED
    BY <2>1, <2>2, <2>4, LiveIsKept, KeptNow DEF IInv
<1>3. CASE m' = Status(m, "requesting")
  <2>1. "requesting" \in Statuses \ {"inactive", "deactivating", "error"} /\ "nill" \in Requests
    BY DEF Statuses, Requests
  <2>2. Live(Status(m, "requesting")) /\ Status(m, "requesting").ok = m.ok
    BY <1>1, <2>1, LiveStatus
  <2> QED
    BY <1>3, <2>2, LiveIsKept, KeptNow DEF IInv
<1> QED
  BY <1>2, <1>3 DEF Step

\* stop() and reset().
LEMMA StopKeeps ==
  ASSUME Patient, IInv, Stop \/ Reset
  PROVE  IInv'
<1>1. Live(m)
  BY LiveNow DEF Stop, Reset, Alive, Leaving, IInv, Kept
<1>2. "gostop" \in Requests /\ "goreset" \in Requests
  BY DEF Requests
<1> QED
  BY <1>1, <1>2, NotedKeeps DEF Stop, Reset, IInv

\* requestState().
LEMMA RequestKeeps ==
  ASSUME Patient, Announced, IInv, RequestState
  PROVE  IInv'
<1>1. PICK s \in States : \E n \in RequestStateChange(m, s) : m' = Settled(n)
  BY DEF RequestState
<1>2. PICK n \in RequestStateChange(m, s) : m' = Settled(n)
  BY <1>1
<1>3. m.next \in States /\ m.next # Null /\ Kept(m) /\ Good(m)
  BY NullState DEF RequestState, Leaving, IInv, Kept, Good, Machines
<1>4. m.current # Null
  BY <1>3 DEF Kept
<1>5. Live(m)
  BY <1>3, <1>4, LiveNow DEF Kept
<1>6. Refused(m, n) \/ Moved(m, n)
  BY <1>2, <1>3, ChangeRequested
<1> QED
  BY <1>2, <1>5, <1>6, LiveStays, LiveIsKept, KeptStays

\* eventTransition().
LEMMA EventChanges ==
  ASSUME IInv, EventTransition
  PROVE  /\ Somewhere(m) /\ ~InTransition(m) /\ Live(m)
         /\ \E to \in States, p \in Pending :
              /\ p # None => p[1] = "trans"
              /\ \E n \in ChangeState(m, to, p, FALSE) : m' = Settled(n)
<1>1. PICK e \in Events :
        LET from == IF e[1] = Null THEN m.current ELSE e[1]
            to == IF e[2] = Null THEN from ELSE e[2]
        IN  /\ e[1] \in m.events
            /\ m.current # Null /\ from = m.current /\ ~InTransition(m)
            /\ m' \in {Settled(n) : n \in ChangeState(m, to, TransProgram(e[1], e[2]), FALSE)}
  BY DEF EventTransition
<1> DEFINE to == IF e[2] = Null THEN m.current ELSE e[2]
           p == TransProgram(e[1], e[2])
<1>2. /\ e[1] \in m.events /\ (e[1] = Null \/ e[1] = m.current)
      /\ m.current # Null /\ ~InTransition(m)
  BY <1>1
<1>3. \E n \in ChangeState(m, to, p, FALSE) : m' = Settled(n)
  BY <1>1
<1>4. Kept(m) /\ Good(m) /\ m.next # Null
  BY <1>2 DEF IInv, Kept, Good, OnTheWay
<1>5. Live(m)
  BY <1>2, <1>4, LiveNow DEF Kept
<1>6. Somewhere(m)
  BY <1>2, <1>4, <1>5 DEF Live, Somewhere, Good, Machines
<1>7. to \in States
  BY <1>6, MachineAssumption DEF Somewhere
<1>8. p \in Pending /\ (p # None => p[1] = "trans")
  BY TransIs
<1> HIDE DEF to, p
<1> QED
  BY <1>2, <1>3, <1>5, <1>6, <1>7, <1>8

LEMMA EventKeeps ==
  ASSUME Announced, IInv, EventTransition
  PROVE  IInv'
<1>1. Somewhere(m) /\ ~InTransition(m) /\ Live(m)
  BY EventChanges
<1>2. PICK to \in States, p \in Pending :
        /\ p # None => p[1] = "trans"
        /\ \E n \in ChangeState(m, to, p, FALSE) : m' = Settled(n)
  BY EventChanges
<1>3. PICK n \in ChangeState(m, to, p, FALSE) : m' = Settled(n)
  BY <1>2
<1>4. Moved(m, n)
  BY <1>1, <1>2, Changed
<1> QED
  BY <1>1, <1>3, <1>4, LiveStays, LiveIsKept, KeptStays

-----------------------------------------------------------------------------
(***************************************************************************)
(* The theorem.                                                            *)
(***************************************************************************)
\* A machine that was loaded is inactive.
LEMMA InitKept ==
  ASSUME Init
  PROVE  IInv
<1>1. /\ m.status = "inactive" /\ m.request = "nill" /\ m.current = Null /\ m.next = Null
      /\ m.trans = None /\ m.exit = None /\ m.entry = None /\ m.handle = None /\ m.run = None
      /\ m.prog = None /\ m.progStatus = [p \in Programs |-> "stopped"]
      /\ m.events = {} /\ m.req = 1 /\ m.mstep = FALSE /\ m.ok = TRUE
  BY DEF Init, Fresh
<1>2. m \in Machines
  <2>1. [p \in Programs |-> "stopped"] \in [Programs -> ProgramStatuses]
    BY DEF ProgramStatuses
  <2> QED
    BY <2>1 DEF Init, Fresh, Machines, Pending, Statuses, Requests
<1>3. Own(m) /\ Current(m) /\ OnTheWay(m) /\ Visible(m)
  BY <1>1 DEF Own, Current, OnTheWay, Counted, Crossing, Visible
<1>4. Begun(m)
  BY <1>1 DEF Begun, Slots
<1> QED
  BY <1>1, <1>2, <1>3, <1>4 DEF IInv, Kept, Good

\* The inductive invariant holds.
THEOREM MachineKept ==
  ASSUME Patient, Announced
  PROVE  Spec => []IInv
<1>1. Init => IInv
  BY InitKept
<1>2. IInv /\ [Next]_m => IInv'
  <2> SUFFICES ASSUME IInv, [Next]_m PROVE IInv'
    OBVIOUS
  <2>1. CASE Execute
    BY <2>1, ExecuteKeeps
  <2>2. CASE Activate
    BY <2>2, ActivateKeeps
  <2>3. CASE Deactivate
    BY <2>3, DeactivateKeeps
  <2>4. CASE Automatic
    BY <2>4, AutomaticKeeps
  <2>5. CASE Reactive
    BY <2>5, ReactiveKeeps
  <2>6. CASE Pause
    BY <2>6, PauseKeeps
  <2>7. CASE Step
    BY <2>7, StepKeeps
  <2>8. CASE Stop \/ Reset
    BY <2>8, StopKeeps
  <2>9. CASE RequestState
    BY <2>9, RequestKeeps
  <2>10. CASE EventTransition
    BY <2>10, EventKeeps
  <2>11. CASE UNCHANGED m
    BY <2>11, KeptNow DEF IInv
  <2> QED
    BY <2>1, <2>2, <2>3, <2>4, <2>5, <2>6, <2>7, <2>8, <2>9, <2>10, <2>11 DEF Next
<1> QED
  BY <1>1, <1>2, PTL DEF Spec

\* Every field of the machine keeps its type, and reqstep is a transition of its state.
THEOREM MachineTypes ==
  ASSUME Patient, Announced
  PROVE  Spec => []TypeOK
<1>1. IInv => TypeOK
  BY DEF IInv, Kept, Good, OnTheWay, Counted, TypeOK, Machines, Pending, ProgramStatuses, Slots
<1> QED
  BY <1>1, MachineKept, PTL

\* PendingInOrder: what is pending fits the state of the machine in every stage of a
\* transition, in the programs that Announced describes, whatever waits or fails.
THEOREM PendingKept ==
  ASSUME Patient, Announced
  PROVE  Spec => []PendingInOrder
<1>1. IInv => PendingInOrder
  <2> SUFFICES ASSUME IInv PROVE PendingInOrder
    OBVIOUS
  <2>1. Good(m) /\ Own(m)
    BY DEF IInv, Kept, Good
  <2>2. OwnPrograms
    <3>1. \A kind : \A s : Program(kind, s) # None => Program(kind, s)[2] = s
      BY ProgramIs
    <3> QED
      BY <2>1, <3>1 DEF Own, OwnPrograms
  <2>3. CurrentIsPending
    BY <2>1 DEF Good, Current, CurrentIsPending, Slots
  <2>4. InactiveIsIdle
    <3> SUFFICES ASSUME m.status = "inactive"
                 PROVE  /\ m.current = Null /\ m.next = Null /\ m.prog = None
                        /\ \A s \in Slots : m[s] = None
      BY DEF InactiveIsIdle
    <3>1. m.current = Null /\ m.next = Null
      BY DEF IInv, Kept
    <3>2. /\ m.exit = None /\ m.trans = None /\ m.handle = None /\ m.run = None
          /\ m.entry = None
      BY <2>1, <3>1 DEF Good, OnTheWay
    <3>3. m.prog = None
      BY <2>1, <3>2 DEF Good, Current
    <3> QED
      BY <3>1, <3>2, <3>3 DEF Slots
  <2> QED
    BY <2>2, <2>3, <2>4 DEF PendingInOrder
<1> QED
  BY <1>1, MachineKept, PTL

-----------------------------------------------------------------------------
(***************************************************************************)
(* Stopping.                                                               *)
(***************************************************************************)
\* A machine that is being stopped is on its way to the final state, and no event or
\* request can change that.
Halting(n) == n.status = "stopping" => n.next = FiniState /\ n.prog # None /\ n.handle = None

\* A machine that executePending() leaves on the way to the final state, or there.
Nearing(x) ==
    /\ x.next = FiniState /\ x.run = None
    /\ InTransition(x) => x.handle = None
    /\ ~InTransition(x) => x.current = FiniState /\ x.exit = None /\ x.entry = None

\* What a step from n to x may do to a machine that is stopped or being stopped.
Halts(n, x) ==
    /\ Halting(x)
    /\ n.status # "stopped" /\ x.status = "stopped" =>
           x.current = FiniState /\ x.exit = None /\ x.entry = None

\* The fields this is about.
Same(n, x) ==
    /\ x.status = n.status /\ x.current = n.current /\ x.next = n.next /\ x.prog = n.prog
    /\ x.exit = n.exit /\ x.entry = n.entry /\ x.handle = n.handle /\ x.run = n.run

LEMMA SameHalts ==
  ASSUME NEW n, NEW x, NEW y, Halts(n, x), Same(x, y)
  PROVE  Halts(n, y)
  BY DEF Halts, Halting, Same

\* Nothing is to be shown of another status.
LEMMA OtherwiseHalts ==
  ASSUME NEW n, NEW x, x.status \notin {"stopping", "stopped"}
  PROVE  Halts(n, x)
  BY DEF Halts, Halting

LEMMA SettledSame ==
  ASSUME NEW n \in Machines
  PROVE  Same(n, Settled(n))
  BY DEF Settled, Machines, Same

\* The final state has no run program.
LEMMA FinalHasNoRun ==
  ASSUME FinalRests
  PROVE  Program("run", FiniState) = None /\ FiniState \in States /\ FiniState # Null
  BY MachineAssumption DEF FinalRests, Program

\* executePending() on the way to the final state.
LEMMA FinalNears ==
  ASSUME Announced, FinalRests, NEW n, Coming(n), n.next = FiniState,
         NEW stepping \in BOOLEAN, NEW x \in ExecutePending(n, stepping)
  PROVE  /\ Nearing(x) /\ Good(x)
         /\ x.ok => x.current = FiniState /\ x.exit = None /\ x.entry = None
         /\ ~x.ok => x.prog # None
         /\ n.handle = None => x.handle = None
<1>1. Led(n, x) /\ (Waits(x) \/ Arrived(x))
  BY PendingExecuted
<1>2. x.next = FiniState /\ (n.handle = None => x.handle = None)
  BY <1>1 DEF Led
<1>3. Good(x) /\ x \in Machines /\ Own(x)
  BY <1>1 DEF Waits, Arrived, Good
<1>4. x.run = None
  BY <1>2, <1>3, FinalHasNoRun DEF Own
<1>5. CASE Waits(x)
  <2>1. x.prog # None /\ (x.handle # None => x.prog = x.handle) /\ ~x.ok
    BY <1>5 DEF Waits
  <2>2. InTransition(x) => x.handle = None
    BY <2>1 DEF InTransition
  <2>3. ~InTransition(x) => x.current = FiniState
    BY <1>2, <1>5 DEF Waits
  <2>4. ~InTransition(x) => x.exit = None /\ x.entry = None
    BY <1>2, <1>3, FinalHasNoRun DEF Good, Visible
  <2> QED
    BY <1>2, <1>3, <1>4, <2>1, <2>2, <2>3, <2>4 DEF Nearing
<1>6. CASE Arrived(x)
  BY <1>2, <1>3, <1>4, <1>6 DEF Arrived, Nearing
<1> QED
  BY <1>1, <1>5, <1>6

\* The run program of the final state, which it does not have, becomes pending.
LEMMA FinalPends ==
  ASSUME FinalRests, NEW d, Good(d), Nearing(d)
  PROVE  LET f == [RunState(d, FiniState) EXCEPT !.ok = TRUE]
         IN  Nearing(f) /\ f.ok /\ f \in Machines
<1> DEFINE b == RunState(d, FiniState)
           f == [b EXCEPT !.ok = TRUE]
<1>1. b = Begin(d, "run", None) /\ d \in Machines /\ "run" \in Slots
  BY FinalHasNoRun DEF RunState, Good, Slots
<1>2. Holds(d, "run", None, b) /\ b.prog = d.prog
  BY <1>1, BeginIs, NoProgram
<1> HIDE DEF b
<1>3. /\ b \in Machines /\ b.current = d.current /\ b.next = d.next /\ b.run = None
      /\ b.exit = d.exit /\ b.entry = d.entry /\ b.handle = d.handle /\ b.prog = d.prog
  BY <1>2 DEF Holds, Slots, Alike
<1>4. f \in Machines /\ f.ok /\ Same(b, f)
  BY <1>3 DEF Machines, Same
<1> HIDE DEF f
<1>5. InTransition(f) <=> InTransition(d)
  BY <1>3, <1>4 DEF InTransition, Nearing, Same
<1>6. Nearing(f)
  BY <1>3, <1>4, <1>5 DEF Nearing, Same
<1> QED
  BY <1>4, <1>6 DEF f, b

\* changeState() of a machine that is at rest, or executes a run program, to the final state.
LEMMA FinalChanged ==
  ASSUME Announced, FinalRests, NEW d, Somewhere(d), Interruptible(d), d.current = d.next,
         NEW p \in Pending, p # None => p[1] = "trans", d.current = FiniState => p = None,
         NEW f \in ChangeState(d, FiniState, p, FALSE)
  PROVE  Nearing(f) /\ f.ok /\ f \in Machines
<1> DEFINE y == IF FiniState = d.current THEN ToSelf(d, p) ELSE ToOther(d, FiniState, p)
<1>1. PICK x \in ExecutePending(y, FALSE) : f = [RunState(x, FiniState) EXCEPT !.ok = TRUE]
  BY DEF ChangeState
<1>2. ~InTransition(d)
  BY DEF Interruptible, InTransition
<1>3. Coming(y) /\ y.next = FiniState
  <2>1. CASE FiniState = d.current
    BY <1>2, <2>1, SelfBegins
  <2>2. CASE FiniState # d.current
    BY <1>2, <2>2, FinalHasNoRun, OtherBegins
  <2> QED
    BY <2>1, <2>2
<1> HIDE DEF y
<1>4. Nearing(x) /\ Good(x)
  BY <1>1, <1>3, FinalNears
<1> QED
  BY <1>1, <1>4, FinalPends

\* requestFinalState() is refused, by a machine that is not in the final state, or moves.
LEMMA FinalNeared ==
  ASSUME Announced, FinalRests, NEW d, Good(d), d.next \in States,
         Interruptible(d) => d.current = d.next, NEW f \in RequestFinalState(d)
  PROVE  \/ Refused(d, f) /\ ~f.ok /\ f.status = d.status
            /\ (d.current = FiniState => ~Interruptible(d))
         \/ Nearing(f) /\ f.ok /\ f \in Machines
<1>1. /\ d \in Machines /\ FiniState \in States /\ FiniState # Null
  BY FinalHasNoRun DEF Good
<1>2. CASE f = [d EXCEPT !.ok = FALSE] /\ (d.current = FiniState => ~Interruptible(d))
  BY <1>1, <1>2 DEF Refused, Machines
<1>3. CASE /\ f \in RequestStateChange(d, FiniState)
           /\ ~(f = [d EXCEPT !.ok = FALSE] /\ (d.current = FiniState => ~Interruptible(d)))
  <2>1. d.current # Null /\ Interruptible(d)
    BY <1>1, <1>3 DEF RequestStateChange
  <2>2. Somewhere(d) /\ d.current = d.next
    BY <1>1, <2>1 DEF Somewhere, Machines
  <2>3. \/ f \in ChangeState(d, FiniState, None, FALSE)
        \/ /\ d.current # FiniState
           /\ \E from \in {d.current, Null} :
                 f \in ChangeState(d, FiniState, TransProgram(from, FiniState), FALSE)
    BY <1>3, <2>1 DEF RequestStateChange
  <2>4. CASE f \in ChangeState(d, FiniState, None, FALSE)
    BY <2>1, <2>2, <2>4, NoProgram, FinalChanged
  <2>5. ASSUME d.current # FiniState, NEW from \in {d.current, Null},
               f \in ChangeState(d, FiniState, TransProgram(from, FiniState), FALSE)
        PROVE  Nearing(f) /\ f.ok /\ f \in Machines
    <3>1. /\ TransProgram(from, FiniState) \in Pending
          /\ (TransProgram(from, FiniState) # None =>
                TransProgram(from, FiniState)[1] = "trans")
      BY TransIs
    <3> QED
      BY <2>1, <2>2, <2>5, <3>1, FinalChanged
  <2> QED
    BY <2>3, <2>4, <2>5
<1> QED
  <2>1. f = [d EXCEPT !.ok = FALSE] \/ f \in RequestStateChange(d, FiniState)
    BY DEF RequestFinalState
  <2>2. d.current = FiniState /\ Interruptible(d) => f \in RequestStateChange(d, FiniState)
    BY <1>1 DEF RequestFinalState
  <2> QED
    BY <1>2, <1>3, <2>1, <2>2

\* A machine that is being stopped goes on, whatever it executes.
LEMMA StoppingRests ==
  ASSUME Announced, FinalRests, NEW n, Live(n), n.status = "stopping", Halting(n),
         NEW x \in ExecutePending(n, FALSE)
  PROVE  /\ x.ok => x.current = FiniState /\ x.exit = None /\ x.entry = None /\ Arrived(x)
         /\ ~x.ok => x.next = FiniState /\ x.prog # None /\ x.handle = None
<1>1. Coming(n) /\ n.next = FiniState /\ n.handle = None
  BY DEF Live, Good, Coming, Halting
<1>2. Rested(n, x)
  BY Resting DEF Live
<1> QED
  BY <1>1, <1>2, FinalNears DEF Nearing, Rested

\* After execute() of what is pending the machine is in its state, or in transition.
LEMMA RestsInState ==
  ASSUME Announced, NEW n, Live(n), NEW x \in ExecutePending(n, FALSE), Interruptible(x)
  PROVE  x.current = x.next
<1>1. ~InTransition(x)
  BY DEF Interruptible, InTransition
<1>2. n.status # "error"
  <2> SUFFICES ASSUME n.status = "error" PROVE FALSE
    OBVIOUS
  <2>1. x = [n EXCEPT !.ok = FALSE] /\ n \in Machines /\ InTransition(n)
    BY DEF ExecutePending, Live, Good
  <2>2. x.prog = n.prog /\ x.run = n.run /\ x.handle = n.handle
    BY <2>1 DEF Machines
  <2> QED
    BY <1>1, <2>1, <2>2 DEF InTransition
<1>3. Coming(n)
  BY <1>2 DEF Live, Good, Coming
<1>4. Waits(x) \/ Arrived(x)
  BY <1>3, PendingExecuted
<1> QED
  BY <1>1, <1>4 DEF Waits, Arrived

\* gostop.
LEMMA StopHalts ==
  ASSUME Announced, FinalRests, NEW n, Live(n), Halting(n), NEW x \in ExecuteStop(n)
  PROVE  Halts(n, x)
<1>1. PICK d \in ExecutePending(n, FALSE) : \E f \in RequestFinalState(d) :
        x = IF f.ok THEN [Status(f, IF InTransition(f) THEN "stopping" ELSE "stopped")
                            EXCEPT !.request = "nill"]
                    ELSE f
  BY DEF ExecuteStop
<1>2. PICK f \in RequestFinalState(d) :
        x = IF f.ok THEN [Status(f, IF InTransition(f) THEN "stopping" ELSE "stopped")
                            EXCEPT !.request = "nill"]
                    ELSE f
  BY <1>1
<1>3. Live(d) /\ Good(d) /\ d.next \in States /\ (Interruptible(d) => d.current = d.next)
  BY <1>1, LiveRests, RestsInState DEF Live
<1>4. Rested(n, d)
  BY <1>1, Resting DEF Live
<1>5. CASE /\ Refused(d, f) /\ ~f.ok /\ f.status = d.status
           /\ (d.current = FiniState => ~Interruptible(d))
  <2>1. x = f
    BY <1>2, <1>5
  <2>2. ASSUME x.status = "stopping" PROVE x.next = FiniState /\ x.prog # None /\ x.handle = None
    <3>1. n.status = "stopping"
      BY <1>4, <1>5, <2>1, <2>2 DEF Rested
    <3>2. d.ok => d.current = FiniState /\ d.prog = None
      BY <1>1, <3>1, StoppingRests DEF Arrived
    <3>3. ~d.ok
      BY <1>5, <3>2 DEF Interruptible
    <3>4. d.next = FiniState /\ d.prog # None /\ d.handle = None /\ d \in Machines
      BY <1>1, <1>3, <3>1, <3>3, StoppingRests DEF Good
    <3> QED
      BY <1>5, <2>1, <3>4 DEF Refused, Machines
  <2>3. x.status = "stopped" => n.status = "stopped"
    BY <1>4, <1>5, <2>1 DEF Rested
  <2> QED
    BY <2>2, <2>3 DEF Halts, Halting
<1>6. CASE Nearing(f) /\ f.ok /\ f \in Machines
  <2> DEFINE st == IF InTransition(f) THEN "stopping" ELSE "stopped"
  <2>1. x = [Status(f, st) EXCEPT !.request = "nill"]
    BY <1>2, <1>6
  <2>2. /\ x.status = st /\ x.current = f.current /\ x.next = f.next /\ x.prog = f.prog
        /\ x.exit = f.exit /\ x.entry = f.entry /\ x.handle = f.handle
    BY <1>6, <2>1 DEF Status, Machines
  <2>3. CASE InTransition(f)
    BY <1>6, <2>2, <2>3 DEF Halts, Halting, Nearing, InTransition
  <2>4. CASE ~InTransition(f)
    BY <1>6, <2>2, <2>4 DEF Halts, Halting, Nearing
  <2> QED
    BY <2>3, <2>4
<1> QED
  BY <1>2, <1>3, <1>5, <1>6, FinalNeared

\* The status of what is executed is the machine's, or error.
Follows(n, x) == x.status \in {n.status, "error"} /\ x \in Machines

\* goreset.
LEMMA ResetHalts ==
  ASSUME Announced, FinalRests, NEW n, Live(n), Halting(n), NEW x \in ExecuteReset(n)
  PROVE  Halts(n, x)
<1>1. PICK d \in ExecutePending(n, FALSE) :
        \E r \in (IF d.ok THEN {Status(i, IF InTransition(i) THEN "resetting" ELSE "active") :
                                   i \in RequestInitialState(d)} ELSE {d}) :
          x = [r EXCEPT !.request = "nill"]
  BY DEF ExecuteReset
<1>2. PICK r \in (IF d.ok THEN {Status(i, IF InTransition(i) THEN "resetting" ELSE "active") :
                                   i \in RequestInitialState(d)} ELSE {d}) :
        x = [r EXCEPT !.request = "nill"]
  BY <1>1
<1>3. Live(d) /\ d \in Machines /\ Rested(n, d)
  BY <1>1, LiveRests, Resting DEF Live, Good
<1>4. CASE d.ok
  <2>1. PICK i \in RequestInitialState(d) :
          r = Status(i, IF InTransition(i) THEN "resetting" ELSE "active")
    BY <1>2, <1>4
  <2>2. i \in Machines
    <3>1. i = d \/ Refused(d, i) \/ Moved(d, i)
      BY <1>3, <2>1, InitialRequested DEF Live
    <3>2. Live(i)
      BY <1>3, <3>1, LiveStays
    <3> QED
      BY <3>2 DEF Live, Good
  <2>3. x.status \in {"resetting", "active"}
    BY <1>2, <2>1, <2>2 DEF Status, Machines
  <2> QED
    BY <2>3, OtherwiseHalts
<1>5. CASE ~d.ok
  <2>1. x = [d EXCEPT !.request = "nill"]
    BY <1>2, <1>5
  <2>2. Same(d, x)
    BY <1>3, <2>1 DEF Machines, Same
  <2>3. Halts(n, d)
    <3>1. d.status = "stopping" => d.next = FiniState /\ d.prog # None /\ d.handle = None
      BY <1>1, <1>3, <1>5, StoppingRests DEF Rested
    <3>2. d.status = "stopped" => n.status = "stopped"
      BY <1>3 DEF Rested
    <3> QED
      BY <3>1, <3>2 DEF Halts, Halting
  <2> QED
    BY <2>2, <2>3, SameHalts
<1> QED
  BY <1>4, <1>5

\* A round.
LEMMA RoundFollows ==
  ASSUME Announced, NEW n, Live(n), NEW stepping \in BOOLEAN,
         NEW d \in Then(ExecutePending(n, stepping), LAMBDA e : RequestNextState(e, stepping))
  PROVE  Follows(n, d)
<1>1. PICK e \in ExecutePending(n, stepping) :
        IF e.ok THEN d \in RequestNextState(e, stepping) ELSE d = e
  BY DEF Then
<1>2. /\ Live(e) /\ (e.ok => Able(e, stepping)) /\ e.status \in {n.status, "error"}
      /\ e \in Machines
  BY <1>1, LiveRests, Resting DEF Live, Rested, Good
<1>3. CASE e.ok
  <2>1. Moved(e, d)
    BY <1>1, <1>2, <1>3, NextRequested
  <2> QED
    BY <1>2, <2>1 DEF Moved, Somewhere, Good, Follows
<1>4. CASE ~e.ok
  BY <1>1, <1>2, <1>4 DEF Follows
<1> QED
  BY <1>3, <1>4

\* Where a machine that is neither stopped nor being stopped follows.
LEMMA FollowsHalts ==
  ASSUME NEW n, NEW x, Follows(n, x), n.status # "stopping"
  PROVE  Halts(n, x)
  BY DEF Follows, Halts, Halting

LEMMA DoneHalts ==
  ASSUME NEW n, n.status # "stopping", NEW S, \A d \in S : Follows(n, d),
         NEW st, st \notin {"stopping", "stopped"}, NEW x \in WhenDone(S, st)
  PROVE  Halts(n, x)
<1>1. PICK d \in S : x = IF d.ok THEN Status(d, st) ELSE d
  BY DEF WhenDone
<1>2. CASE d.ok
  <2>1. x.status = st
    BY <1>1, <1>2 DEF Status, Follows, Machines
  <2> QED
    BY <2>1, OtherwiseHalts
<1>3. CASE ~d.ok
  BY <1>1, <1>3, FollowsHalts
<1> QED
  BY <1>2, <1>3

\* execute() in a status.
LEMMA StatusHalts ==
  ASSUME Announced, FinalRests, NEW n, Kept(n), Halting(n), n.status # "inactive",
         NEW x \in ExecuteStatus(n)
  PROVE  Halts(n, x)
<1> DEFINE pending == ExecutePending(n, FALSE)
           round == Then(pending, LAMBDA d : RequestNextState(d, FALSE))
<1>1. ASSUME n.status \notin {"deactivating", "error"} PROVE Live(n)
  BY <1>1, LiveNow DEF Kept
<1>2. \A d \in pending : Follows(n, d)
  BY Resting DEF Kept, Rested, Follows, Good
<1>3. \A d \in round : Live(n) => Follows(n, d)
  BY RoundFollows
<1>4. n.status \in Statuses
  BY DEF Kept, Good, Machines
<1>5. CASE n.status = "requesting"
  <2>1. x \in WhenDone(round, "active")
    BY <1>5 DEF ExecuteStatus
  <2> HIDE DEF pending, round
  <2> QED
    BY <1>1, <1>3, <1>5, <2>1, DoneHalts
<1>6. CASE n.status = "active"
  <2>1. x \in pending
    BY <1>6 DEF ExecuteStatus
  <2> HIDE DEF pending, round
  <2> QED
    BY <1>2, <1>6, <2>1, FollowsHalts
<1>7. CASE n.status = "running"
  <2>1. x \in round
    BY <1>7 DEF ExecuteStatus
  <2> HIDE DEF pending, round
  <2> QED
    BY <1>1, <1>3, <1>7, <2>1, FollowsHalts
<1>8. CASE n.status = "paused"
  <2>1. CASE x = n
    BY <1>8, <2>1, OtherwiseHalts
  <2>2. CASE x \in ExecuteStep(n)
    <3>1. PICK d \in Then(ExecutePending(n, TRUE), LAMBDA e : RequestNextState(e, TRUE)) :
            x = [d EXCEPT !.mstep = FALSE]
      BY <2>2 DEF ExecuteStep
    <3>2. Follows(n, d)
      BY <1>1, <1>8, <3>1, RoundFollows
    <3>3. x.status = d.status
      BY <3>1, <3>2 DEF Follows, Machines
    <3> QED
      BY <1>8, <3>2, <3>3, OtherwiseHalts DEF Follows
  <2> QED
    BY <1>8, <2>1, <2>2 DEF ExecuteStatus
<1>9. CASE n.status = "error"
  <2>1. x = n
    BY <1>9 DEF ExecuteStatus
  <2> QED
    BY <1>9, <2>1, OtherwiseHalts
<1>10. CASE n.status = "activating"
  <2>1. PICK d \in pending : x = IF InTransition(d) THEN d ELSE Status(d, "active")
    BY <1>10 DEF ExecuteStatus
  <2> HIDE DEF pending, round
  <2>2. x.status \in {"activating", "error", "active"}
    BY <1>2, <1>10, <2>1 DEF Follows, Status, Machines
  <2> QED
    BY <2>2, OtherwiseHalts
<1>11. CASE n.status = "stopping"
  <2>1. PICK d \in pending : x = IF d.ok THEN Status(d, "stopped") ELSE d
    BY <1>11 DEF ExecuteStatus, WhenDone
  <2>2. /\ d.ok => d.current = FiniState /\ d.exit = None /\ d.entry = None
        /\ ~d.ok => d.next = FiniState /\ d.prog # None /\ d.handle = None
    BY <1>1, <1>11, <2>1, StoppingRests
  <2> HIDE DEF pending, round
  <2>3. Follows(n, d)
    BY <1>2, <2>1
  <2>4. CASE d.ok
    <3>1. /\ x.status = "stopped" /\ x.current = d.current /\ x.exit = d.exit
          /\ x.entry = d.entry
      BY <2>1, <2>3, <2>4 DEF Follows, Status, Machines
    <3> QED
      BY <2>2, <2>4, <3>1 DEF Halts, Halting
  <2>5. CASE ~d.ok
    BY <1>11, <2>1, <2>2, <2>3, <2>5 DEF Halts, Halting, Follows
  <2> QED
    BY <2>4, <2>5
<1>12. CASE n.status = "deactivating"
  <2>1. x \in WhenDone(pending, "inactive")
    BY <1>12 DEF ExecuteStatus
  <2> HIDE DEF pending, round
  <2> QED
    BY <1>2, <1>12, <2>1, DoneHalts
<1>13. CASE n.status = "resetting"
  <2>1. x \in WhenDone(pending, "active")
    BY <1>13 DEF ExecuteStatus
  <2> HIDE DEF pending, round
  <2> QED
    BY <1>2, <1>13, <2>1, DoneHalts
<1>14. CASE n.status = "stopped"
  <2>1. PICK d \in pending : x = IF d.current # FiniState THEN Status(d, "active") ELSE d
    BY <1>14 DEF ExecuteStatus
  <2> HIDE DEF pending, round
  <2>2. x.status \in {"stopped", "error", "active"}
    BY <1>2, <1>14, <2>1 DEF Follows, Status, Machines
  <2> QED
    BY <1>14, <2>2 DEF Halts, Halting
<1> QED
  BY <1>4, <1>5, <1>6, <1>7, <1>8, <1>9, <1>10, <1>11, <1>12, <1>13, <1>14 DEF Statuses

\* execute().
LEMMA ExecuteHalts ==
  ASSUME Announced, FinalRests, IInv, Halting(m), Execute
  PROVE  Halts(m, m')
<1>1. PICK n \in (CASE m.status = "inactive" -> {[m EXCEPT !.request = "nill"]}
                    [] m.status # "inactive" /\ m.request = "pausing" ->
                          {[Status(m, "paused") EXCEPT !.request = "nill"]}
                    [] m.status # "inactive" /\ m.request = "gostop" -> ExecuteStop(m)
                    [] m.status # "inactive" /\ m.request = "goreset" -> ExecuteReset(m)
                    [] m.status # "inactive" /\ m.request = "nill" -> ExecuteStatus(m)) :
        m' = Settled(n)
  BY DEF Execute
<1>2. Kept(m) /\ m \in Machines
  BY DEF IInv, Kept, Good
<1>3. ASSUME m.status # "inactive", m.request # "nill" PROVE Live(m)
  BY <1>2, <1>3, LiveNow DEF Kept
<1>4. m.request \in Requests
  BY <1>2 DEF Machines
<1>5. Halts(m, n) /\ n \in Machines
  <2>1. CASE m.status = "inactive"
    <3>1. n \in Machines /\ n.status = m.status
      BY <1>1, <1>2, <2>1 DEF Machines, Requests
    <3> QED
      BY <2>1, <3>1, OtherwiseHalts
  <2>2. CASE m.status # "inactive" /\ m.request = "pausing"
    <3>1. n = [Status(m, "paused") EXCEPT !.request = "nill"]
      BY <1>1, <2>2
    <3>2. n \in Machines /\ n.status = "paused"
      BY <1>2, <3>1 DEF Status, Machines, Requests, Statuses
    <3> QED
      BY <3>2, OtherwiseHalts
  <2>3. CASE m.status # "inactive" /\ m.request = "gostop"
    <3>1. n \in ExecuteStop(m)
      BY <1>1, <2>3
    <3> QED
      BY <1>3, <2>3, <3>1, StopHalts, StopExecuted DEF Kept, Good
  <2>4. CASE m.status # "inactive" /\ m.request = "goreset"
    <3>1. n \in ExecuteReset(m)
      BY <1>1, <2>4
    <3> QED
      BY <1>3, <2>4, <3>1, ResetHalts, ResetExecuted DEF Kept, Good
  <2>5. CASE m.status # "inactive" /\ m.request = "nill"
    <3>1. n \in ExecuteStatus(m)
      BY <1>1, <2>5
    <3> QED
      BY <1>2, <2>5, <3>1, StatusHalts, StatusExecuted DEF Kept, Good
  <2> QED
    BY <1>4, <2>1, <2>2, <2>3, <2>4, <2>5 DEF Requests
<1> QED
  BY <1>1, <1>5, SettledSame, SameHalts

\* activate() and deactivate() leave the machine in statuses of their own.
LEMMA SettledStatus ==
  ASSUME NEW n, NEW x, x \in Machines, x = Settled(n)
  PROVE  x.status = n.status /\ DOMAIN n = DOMAIN x /\ "status" \in DOMAIN n
<1>1. "status" \in DOMAIN x
  BY DEF Machines
<1>2. DOMAIN n = DOMAIN x
  BY DEF Settled
<1> QED
  BY <1>1, <1>2 DEF Settled

LEMMA ActivationHalts ==
  ASSUME m' \in Machines, Activate \/ Deactivate
  PROVE  Halts(m, m')
<1>1. CASE Activate
  <2>1. PICK d : m' = Settled(IF d.ok THEN Status(d, "active")
                              ELSE IF d.status = "error" THEN d ELSE Status(d, "activating"))
    BY <1>1 DEF Activate
  <2> DEFINE k == IF d.ok THEN Status(d, "active")
                  ELSE IF d.status = "error" THEN d ELSE Status(d, "activating")
  <2>2. m'.status = k.status /\ "status" \in DOMAIN k
    BY <2>1, SettledStatus
  <2>3. DOMAIN k = DOMAIN d
    BY DEF Status
  <2>4. k.status \in {"active", "error", "activating"}
    BY <2>2, <2>3 DEF Status
  <2> QED
    BY <2>2, <2>4, OtherwiseHalts
<1>2. CASE Deactivate
  <2>1. PICK d : m' = Settled(Status(d, IF d.ok THEN "inactive" ELSE "deactivating"))
    BY <1>2 DEF Deactivate
  <2> DEFINE k == Status(d, IF d.ok THEN "inactive" ELSE "deactivating")
  <2>2. m'.status = k.status /\ "status" \in DOMAIN k
    BY <2>1, SettledStatus
  <2>3. k.status \in {"inactive", "deactivating"}
    BY <2>2 DEF Status
  <2> QED
    BY <2>2, <2>3, OtherwiseHalts
<1> QED
  BY <1>1, <1>2

\* start(), reactive(), pause(), step(), stop() and reset() leave a machine that is being
\* stopped as it is, or give it another status.
LEMMA CallHalts ==
  ASSUME Patient, Announced, IInv, Halting(m), m' \in Machines,
         Automatic \/ Reactive \/ Pause \/ Step \/ Stop \/ Reset
  PROVE  Halts(m, m')
<1>1. m \in Machines
  BY DEF IInv, Kept, Good
<1>2. CASE Automatic
  <2> DEFINE n == Status(m, "running")
             x == RunState(n, m.current)
  <2>1. n \in Machines /\ n.status = "running"
    BY <1>1 DEF Status, Machines, Statuses
  <2> HIDE DEF n
  <2>2. x.status = "running"
    <3>1. "run" \in Slots /\ Program("run", m.current) \in Pending
      BY ProgramIs DEF Slots
    <3>2. Holds(n, "run", Program("run", m.current), x)
      BY <2>1, <3>1, BeginIs DEF RunState
    <3> QED
      BY <2>1, <3>2 DEF Holds, Alike
  <2>3. m' = Settled(x)
    BY <1>2 DEF Automatic, n
  <2> HIDE DEF x
  <2> QED
    BY <2>2, <2>3, SettledStatus, OtherwiseHalts
<1>3. CASE Reactive
  <2>1. m'.status = "active"
    BY <1>1, <1>3 DEF Reactive, Status, Machines
  <2> QED
    BY <2>1, OtherwiseHalts
<1>4. CASE Same(m, m')
  BY <1>4 DEF Halts, Halting, Same
<1>5. CASE Pause
  <2>1. Same(m, m')
    BY <1>1, <1>5 DEF Pause, Machines, Same
  <2> QED
    BY <1>4, <2>1
<1>6. CASE Step
  <2>1. Same(m, m') \/ m'.status = "requesting"
    BY <1>1, <1>6 DEF Step, Status, Machines, Same
  <2> QED
    BY <1>4, <2>1, OtherwiseHalts
<1>7. CASE Stop \/ Reset
  <2>1. Same(m, m')
    BY <1>1, <1>7 DEF Stop, Reset, Machines, Same
  <2> QED
    BY <1>4, <2>1
<1> QED
  BY <1>2, <1>3, <1>5, <1>6, <1>7

\* A machine that is being stopped is in transition.
LEMMA HaltingInTransition ==
  ASSUME FinalRests, NEW n, Good(n), Halting(n), n.status = "stopping"
  PROVE  InTransition(n) /\ ~Interruptible(n)
<1>1. n.run = None
  BY FinalHasNoRun DEF Good, Own, Halting
<1> QED
  BY <1>1 DEF InTransition, Interruptible, Halting

\* requestState() and eventTransition() are refused by it.
LEMMA RequestHalts ==
  ASSUME Patient, Announced, FinalRests, IInv, Halting(m), RequestState \/ EventTransition
  PROVE  Halts(m, m')
<1>1. Kept(m) /\ Good(m) /\ m \in Machines
  BY DEF IInv, Kept, Good
<1>2. CASE RequestState
  <2>1. PICK s \in States : \E n \in RequestStateChange(m, s) : m' = Settled(n)
    BY <1>2 DEF RequestState
  <2>2. PICK n \in RequestStateChange(m, s) : m' = Settled(n)
    BY <2>1
  <2>3. m.next \in States
    BY <1>1, <1>2 DEF RequestState, Leaving, Machines
  <2>4. CASE Refused(m, n)
    <3>1. n \in Machines /\ Same(m, n)
      BY <1>1, <2>4 DEF Refused, Machines, Same
    <3>2. Halts(m, n)
      BY <3>1 DEF Halts, Halting, Same
    <3> QED
      BY <2>2, <3>1, <3>2, SettledSame, SameHalts
  <2>5. CASE ~Refused(m, n)
    <3>1. Interruptible(m)
      BY <2>2, <2>5 DEF RequestStateChange, Refused
    <3>2. m.status # "stopping"
      BY <1>1, <3>1, HaltingInTransition
    <3>3. Follows(m, n)
      BY <1>1, <2>2, <2>3, <2>5, ChangeRequested DEF Moved, Somewhere, Good, Follows
    <3> QED
      BY <2>2, <3>2, <3>3, FollowsHalts, SettledSame, SameHalts DEF Follows
  <2> QED
    BY <2>4, <2>5
<1>3. CASE EventTransition
  <2>1. PICK e \in Events :
          LET from == IF e[1] = Null THEN m.current ELSE e[1]
              to == IF e[2] = Null THEN from ELSE e[2]
          IN  /\ e[1] \in m.events
              /\ m.current # Null /\ from = m.current /\ ~InTransition(m)
              /\ m' \in {Settled(n) : n \in ChangeState(m, to, TransProgram(e[1], e[2]), FALSE)}
    BY <1>3 DEF EventTransition
  <2> DEFINE to == IF e[2] = Null THEN m.current ELSE e[2]
             p == TransProgram(e[1], e[2])
  <2>2. /\ e[1] \in m.events /\ (e[1] = Null \/ e[1] = m.current)
        /\ m.current # Null /\ ~InTransition(m)
    BY <2>1
  <2>3. PICK n \in ChangeState(m, to, p, FALSE) : m' = Settled(n)
    BY <2>1
  <2>4. m.next # Null
    BY <1>1, <2>2 DEF Good, OnTheWay
  <2>5. Somewhere(m)
    BY <1>1, <2>2, <2>4 DEF Somewhere, Machines
  <2>6. to \in States
    BY <2>5, MachineAssumption DEF Somewhere
  <2>7. p \in Pending /\ (p # None => p[1] = "trans")
    BY TransIs
  <2> HIDE DEF to, p
  <2>8. Follows(m, n)
    BY <2>2, <2>3, <2>5, <2>6, <2>7, Changed DEF Moved, Somewhere, Good, Follows
  <2>9. m.status # "stopping"
    BY <1>1, <2>2, HaltingInTransition
  <2> QED
    BY <2>3, <2>8, <2>9, FollowsHalts, SettledSame, SameHalts DEF Follows
<1> QED
  BY <1>2, <1>3

\* StoppedInFinal: a machine becomes stopped in its final state only, when it has left
\* the others by their exit programs, in machines whose final state has no run program.
THEOREM StopsInFinal ==
  ASSUME Patient, Announced, FinalRests
  PROVE  Spec => StoppedInFinal
<1>1. Init => Halting(m)
  BY DEF Init, Fresh, Halting
<1>2. IInv /\ Halting(m) /\ [Next]_m /\ IInv' => Halting(m)' /\ (UNCHANGED m \/ Halts(m, m'))
  <2> SUFFICES ASSUME IInv, Halting(m), [Next]_m, IInv'
               PROVE  Halting(m') /\ (UNCHANGED m \/ Halts(m, m'))
    BY DEF Halting
  <2>1. m' \in Machines
    BY DEF IInv, Kept, Good
  <2>2. CASE UNCHANGED m
    BY <2>2 DEF Halting
  <2>3. CASE Next
    <3>1. Halts(m, m')
      BY <2>1, <2>3, ExecuteHalts, ActivationHalts, CallHalts, RequestHalts DEF Next
    <3> QED
      BY <3>1 DEF Halts
  <2> QED
    BY <2>2, <2>3
<1>3. UNCHANGED m \/ Halts(m, m')
      => [m.status # "stopped" /\ m'.status = "stopped" =>
             m'.current = FiniState /\ m'.exit = None /\ m'.entry = None]_m
  BY DEF Halts
<1> QED
  BY <1>1, <1>2, <1>3, MachineKept, PTL DEF Spec, StoppedInFinal

-----------------------------------------------------------------------------
(***************************************************************************)
(* The evaluation of the transitions.                                      *)
(***************************************************************************)
\* A machine whose evaluation was at the first transition is there again when it is in a state.
Prompt(n, x) == n.req = 1 /\ x.current = x.next => x.req = 1

LEMMA SamePrompt ==
  ASSUME NEW n, NEW x, NEW y, Prompt(n, x), SamePlace(x, y)
  PROVE  Prompt(n, y)
  BY DEF Prompt, SamePlace

\* A run program that is scheduled changes nothing of this.
LEMMA RunPlace ==
  ASSUME NEW d \in Machines, NEW s
  PROVE  SamePlace(d, [RunState(d, s) EXCEPT !.ok = TRUE])
<1> DEFINE b == RunState(d, s)
<1>1. Program("run", s) \in Pending /\ "run" \in Slots
  BY ProgramIs DEF Slots
<1>2. Holds(d, "run", Program("run", s), b)
  BY <1>1, BeginIs DEF RunState
<1>3. b \in Machines /\ SamePlace(d, b)
  BY <1>2 DEF Holds, Alike, SamePlace
<1> HIDE DEF b
<1>4. SamePlace(d, [b EXCEPT !.ok = TRUE])
  BY <1>3 DEF Machines, SamePlace
<1> QED
  BY <1>4 DEF b

\* changeState(): a transition of a state to itself has to have a program, or to find the
\* evaluation at its beginning.
LEMMA ChangePrompt ==
  ASSUME Announced, NEW n, Somewhere(n), ~InTransition(n), NEW s \in States,
         NEW p \in Pending, p # None => p[1] = "trans",
         n.req = 1 \/ s # n.current \/ p # None,
         NEW x \in ChangeState(n, s, p, FALSE)
  PROVE  x.current = x.next => x.req = 1
<1> DEFINE y == IF s = n.current THEN ToSelf(n, p) ELSE ToOther(n, s, p)
<1>1. PICK d \in ExecutePending(y, FALSE) : x = [RunState(d, s) EXCEPT !.ok = TRUE]
  BY DEF ChangeState
<1>2. /\ Coming(y) /\ y.next \in States
      /\ s = n.current => y.req = 1
      /\ s # n.current => y.current # y.next
  <2>1. CASE s = n.current
    <3>1. Coming(y) /\ y.next = n.next
      BY <2>1, SelfBegins
    <3>2. y.req = 1
      <4>1. n \in Machines
        BY DEF Somewhere, Good
      <4>2. CASE p # None
        <5>1. y = [Pend(n, "trans", p) EXCEPT !.prog = p, !.req = 1]
          BY <2>1, <4>2 DEF ToSelf
        <5>2. Pend(n, "trans", p) \in Machines
          BY <4>1, Pended DEF Holds, Slots
        <5> QED
          BY <5>1, <5>2 DEF Machines
      <4>3. CASE p = None
        <5>1. y = n \/ y = Begin(n, "handle", Program("handle", n.current))
          BY <2>1, <4>3 DEF ToSelf, HandleState
        <5>2. Program("handle", n.current) \in Pending /\ "handle" \in Slots
          BY ProgramIs DEF Slots
        <5>3. \A q \in Pending : Holds(n, "handle", q, Begin(n, "handle", q))
          BY <4>1, <5>2, BeginIs
        <5>4. Begin(n, "handle", Program("handle", n.current)).req = n.req
          BY <5>2, <5>3 DEF Holds, Alike
        <5> QED
          BY <2>1, <4>3, <5>1, <5>4
      <4> QED
        BY <4>2, <4>3
    <3> QED
      BY <2>1, <3>1, <3>2 DEF Somewhere
  <2>2. CASE s # n.current
    BY <2>2, OtherBegins
  <2> QED
    BY <2>1, <2>2
<1> HIDE DEF y
<1>3. Led(y, d) /\ d \in Machines
  <2>1. Led(y, d) /\ (Waits(d) \/ Arrived(d))
    BY <1>1, <1>2, PendingExecuted
  <2> QED
    BY <2>1 DEF Waits, Arrived, Good
<1>4. d.current = d.next => d.req = 1
  <2>1. y.next # Null
    BY <1>2, NullState
  <2> QED
    BY <1>2, <1>3, <2>1 DEF Led
<1> QED
  BY <1>1, <1>3, <1>4, RunPlace DEF SamePlace

\* The global transitions, after the last of the state's.
LEMMA GlobalsPrompt ==
  ASSUME Announced, Restarts, NEW n, Able(n, FALSE),
         n.req = 1 \/ Len(Transitions[n.current]) > 1,
         NEW x \in Globals(n, FALSE)
  PROVE  x.current = x.next => x.req = 1
<1>1. PICK i \in DOMAIN Transitions[Null] :
        x \in ChangeState(n, IF Transitions[Null][i] = Null THEN n.current ELSE Transitions[Null][i],
                          TransProgram(Null, Transitions[Null][i]), FALSE)
  BY DEF Globals
<1> DEFINE t == Transitions[Null][i]
           s == IF t = Null THEN n.current ELSE t
           p == TransProgram(Null, t)
<1>2. p \in Pending /\ (p # None => p[1] = "trans")
  BY TransIs
<1>3. n.current \in States /\ s \in States
  BY Targets DEF Able, Somewhere
<1>4. n.req = 1 \/ s # n.current \/ p # None
  <2> SUFFICES ASSUME n.req # 1, s = n.current PROVE p # None
    OBVIOUS
  <2>1. t \in {n.current, Null} /\ Len(Transitions[n.current]) > 1
    OBVIOUS
  <2>2. <<"trans", Null, t>> \in Programs
    BY <1>1, <1>3, <2>1 DEF Restarts
  <2>3. p = <<"trans", Null, t>>
    BY <2>2 DEF TransProgram
  <2> QED
    BY <2>2, <2>3 DEF None
<1>5. x \in ChangeState(n, s, p, FALSE)
  BY <1>1
<1> HIDE DEF s, p, t
<1> QED
  BY <1>2, <1>3, <1>4, <1>5, ChangePrompt DEF Able

LEMMA OtherwisePrompt ==
  ASSUME Announced, Restarts, NEW n, Able(n, FALSE),
         n.req = 1 \/ Len(Transitions[n.current]) > 1,
         NEW x \in Otherwise(n, FALSE)
  PROVE  x.current = x.next => x.req = 1
<1>1. CASE x \in Globals(n, FALSE)
  BY <1>1, GlobalsPrompt
<1>2. CASE x \in ChangeState([n EXCEPT !.req = 1], n.current, None, FALSE)
  <2> DEFINE c == [n EXCEPT !.req = 1]
  <2>1. 1 \in Nat \ {0}
    OBVIOUS
  <2>2. Able(c, FALSE) /\ c.current = n.current
    BY <2>1, Counting
  <2>3. n \in Machines /\ n.current \in States
    BY DEF Able, Somewhere, Good
  <2>4. c.req = 1
    BY <2>3 DEF Machines
  <2>5. x \in ChangeState(c, n.current, None, FALSE)
    BY <1>2
  <2> HIDE DEF c
  <2> QED
    BY <2>2, <2>3, <2>4, <2>5, NoProgram, ChangePrompt DEF Able
<1> QED
  BY <1>1, <1>2 DEF Otherwise

\* requestNextState(), from the first transition on.
LEMMA NextPrompt ==
  ASSUME Announced, Restarts, NEW n, Able(n, FALSE), n.req = 1,
         NEW x \in RequestNextState(n, FALSE)
  PROVE  x.current = x.next => x.req = 1
<1> DEFINE edges == Transitions[n.current]
           last == [n EXCEPT !.req = Len(edges)]
           Taken(i) == ChangeState([n EXCEPT !.req = i], edges[i],
                                   TransProgram(n.current, edges[i]), FALSE)
<1>1. n.current \in States /\ n \in Machines
  BY DEF Able, Somewhere, Good
<1>2. /\ DOMAIN edges = 1 .. Len(edges) /\ Len(edges) \in Nat
      /\ \A i \in DOMAIN edges : edges[i] \in States
  BY <1>1, Targets
<1>3. \/ x = n \/ x \in Otherwise(n, FALSE)
      \/ /\ edges # <<>>
         /\ (\E i \in n.req .. Len(edges) : x \in Taken(i)) \/ x \in Otherwise(last, FALSE)
  BY DEF RequestNextState
<1>4. ASSUME NEW i \in 1 .. Len(edges), x \in Taken(i) PROVE x.current = x.next => x.req = 1
  <2> DEFINE c == [n EXCEPT !.req = i]
             p == TransProgram(n.current, edges[i])
  <2>1. i \in Nat \ {0} /\ i \in DOMAIN edges
    BY <1>2, <1>4
  <2>2. Able(c, FALSE) /\ c.current = n.current
    BY <2>1, Counting
  <2>3. c.req = i
    BY <1>1 DEF Machines
  <2>4. p \in Pending /\ (p # None => p[1] = "trans")
    BY TransIs
  <2>5. i = 1 \/ edges[i] # n.current \/ p # None
    <3> SUFFICES ASSUME i # 1, edges[i] = n.current PROVE p # None
      OBVIOUS
    <3>1. <<"trans", n.current, edges[i]>> \in Programs
      BY <1>1, <2>1 DEF Restarts
    <3> QED
      BY <3>1 DEF TransProgram, None
  <2>6. x \in ChangeState(c, edges[i], p, FALSE) /\ edges[i] \in States
    BY <1>2, <1>4, <2>1
  <2> HIDE DEF c, p, edges
  <2> QED
    BY <2>2, <2>3, <2>4, <2>5, <2>6, ChangePrompt DEF Able
<1>5. ASSUME edges # <<>>, x \in Otherwise(last, FALSE) PROVE x.current = x.next => x.req = 1
  <2>1. edges \in Seq(States)
    BY <1>1, MachineAssumption
  <2>2. Len(edges) # 0
    BY <1>5, <2>1
  <2>3. Len(edges) \in Nat \ {0} /\ Len(edges) \in DOMAIN edges
    BY <1>2, <2>2
  <2>4. Able(last, FALSE) /\ last.current = n.current
    BY <2>3, Counting
  <2>5. last.req = Len(edges)
    BY <1>1 DEF Machines
  <2>6. \A k \in Nat \ {0} : k = 1 \/ k > 1
    OBVIOUS
  <2> HIDE DEF last
  <2>7. last.req = 1 \/ Len(Transitions[last.current]) > 1
    BY <2>3, <2>4, <2>5, <2>6, Zenon
  <2> QED
    BY <1>5, <2>4, <2>7, OtherwisePrompt
<1> HIDE DEF edges, last, Taken
<1> QED
  BY <1>3, <1>4, <1>5, OtherwisePrompt

\* requestStateChange().
LEMMA RequestPrompt ==
  ASSUME Announced, NEW n, Good(n), n.next \in States, n.req = 1, NEW s \in States,
         NEW x \in RequestStateChange(n, s)
  PROVE  x.current = x.next => x.req = 1
<1>1. n \in Machines
  BY DEF Good
<1>2. CASE x = [n EXCEPT !.ok = FALSE]
  BY <1>1, <1>2 DEF Machines
<1>3. CASE n.current # Null /\ Interruptible(n)
  <2>1. Somewhere(n) /\ ~InTransition(n)
    BY <1>3 DEF Somewhere, Good, Machines, Interruptible, InTransition
  <2>2. \/ x = [n EXCEPT !.ok = FALSE]
        \/ x \in ChangeState(n, s, None, FALSE)
        \/ \E from \in {n.current, Null} : x \in ChangeState(n, s, TransProgram(from, s), FALSE)
    BY <1>3 DEF RequestStateChange
  <2>3. CASE x \in ChangeState(n, s, None, FALSE)
    BY <2>1, <2>3, NoProgram, ChangePrompt
  <2>4. ASSUME NEW from \in {n.current, Null}, x \in ChangeState(n, s, TransProgram(from, s), FALSE)
        PROVE  x.current = x.next => x.req = 1
    <3>1. TransProgram(from, s) \in Pending
          /\ (TransProgram(from, s) # None => TransProgram(from, s)[1] = "trans")
      BY TransIs
    <3> QED
      BY <2>1, <2>4, <3>1, ChangePrompt
  <2> QED
    BY <1>2, <2>2, <2>3, <2>4
<1> QED
  BY <1>2, <1>3 DEF RequestStateChange

\* requestFinalState() and requestInitialState().
LEMMA EndsPrompt ==
  ASSUME Announced, NEW n, Good(n), n.next \in States, n.req = 1,
         NEW x \in RequestFinalState(n) \cup RequestInitialState(n)
  PROVE  x.current = x.next => x.req = 1
<1>1. \/ x = n \/ x = [n EXCEPT !.ok = FALSE]
      \/ x \in RequestStateChange(n, FiniState) \/ x \in RequestStateChange(n, InitState)
  BY DEF RequestFinalState, RequestInitialState
<1>2. n \in Machines /\ FiniState \in States /\ InitState \in States
  BY MachineAssumption DEF Good
<1>3. CASE x = [n EXCEPT !.ok = FALSE]
  BY <1>2, <1>3 DEF Machines
<1> QED
  BY <1>1, <1>2, <1>3, RequestPrompt

\* Either request, from a machine in which nothing is left to do.
LEMMA EndsRest ==
  ASSUME Announced, NEW n, Live(n), n.req = 1, NEW d \in ExecutePending(n, FALSE),
         NEW f \in {d} \cup RequestFinalState(d) \cup RequestInitialState(d)
  PROVE  Live(f) /\ f \in Machines /\ (f.current = f.next => f.req = 1)
<1>1. Live(d) /\ d.req = 1
  BY LiveRests, RestsPrompt DEF Live
<1>2. f = d \/ Refused(d, f) \/ Moved(d, f)
  BY <1>1, FinalRequested, InitialRequested DEF Live
<1>3. Live(f)
  BY <1>1, <1>2, LiveStays
<1> QED
  BY <1>1, <1>3, EndsPrompt DEF Live, Good

\* gostop.
LEMMA StopPrompt ==
  ASSUME Announced, NEW n, Live(n), NEW x \in ExecuteStop(n)
  PROVE  Prompt(n, x)
<1> SUFFICES ASSUME n.req = 1 PROVE x.current = x.next => x.req = 1
  BY DEF Prompt
<1>0. PICK d \in ExecutePending(n, FALSE) : \E f \in RequestFinalState(d) :
        x = IF f.ok THEN [Status(f, IF InTransition(f) THEN "stopping" ELSE "stopped")
                            EXCEPT !.request = "nill"]
                    ELSE f
  BY DEF ExecuteStop
<1>1. PICK f \in RequestFinalState(d) :
        x = IF f.ok THEN [Status(f, IF InTransition(f) THEN "stopping" ELSE "stopped")
                            EXCEPT !.request = "nill"]
                    ELSE f
  BY <1>0
<1>2. f \in Machines /\ (f.current = f.next => f.req = 1)
  BY EndsRest
<1>3. SamePlace(f, x)
  <2> DEFINE st == IF InTransition(f) THEN "stopping" ELSE "stopped"
  <2>1. x = f \/ x = [Status(f, st) EXCEPT !.request = "nill"]
    BY <1>1
  <2> HIDE DEF st
  <2>2. CASE x = [Status(f, st) EXCEPT !.request = "nill"]
    BY <1>2, <2>2, StatusPlace
  <2> QED
    BY <2>1, <2>2 DEF SamePlace
<1> QED
  BY <1>2, <1>3 DEF SamePlace

\* goreset.
LEMMA ResetPrompt ==
  ASSUME Announced, NEW n, Live(n), NEW x \in ExecuteReset(n)
  PROVE  Prompt(n, x)
<1> SUFFICES ASSUME n.req = 1 PROVE x.current = x.next => x.req = 1
  BY DEF Prompt
<1>1. PICK d \in ExecutePending(n, FALSE) :
        \E r \in (IF d.ok THEN {Status(i, IF InTransition(i) THEN "resetting" ELSE "active") :
                                   i \in RequestInitialState(d)} ELSE {d}) :
          x = [r EXCEPT !.request = "nill"]
  BY DEF ExecuteReset
<1>2. CASE d.ok
  <2>1. PICK i \in RequestInitialState(d) :
          x = [Status(i, IF InTransition(i) THEN "resetting" ELSE "active") EXCEPT !.request = "nill"]
    BY <1>1, <1>2
  <2>2. i \in Machines /\ (i.current = i.next => i.req = 1)
    BY <1>1, EndsRest
  <2>3. SamePlace(i, x)
    BY <2>1, <2>2, StatusPlace
  <2> QED
    BY <2>2, <2>3 DEF SamePlace
<1>3. CASE ~d.ok
  <2>1. x = [d EXCEPT !.request = "nill"]
    BY <1>1, <1>3
  <2>2. d \in Machines /\ (d.current = d.next => d.req = 1)
    BY <1>1, EndsRest
  <2> QED
    BY <2>1, <2>2, StatusPlace DEF SamePlace
<1> QED
  BY <1>2, <1>3

\* A round.
LEMMA RoundPrompt ==
  ASSUME Announced, Restarts, NEW n, Live(n),
         NEW d \in Then(ExecutePending(n, FALSE), LAMBDA e : RequestNextState(e, FALSE))
  PROVE  Prompt(n, d)
<1> SUFFICES ASSUME n.req = 1 PROVE d.current = d.next => d.req = 1
  BY DEF Prompt
<1>1. PICK e \in ExecutePending(n, FALSE) :
        IF e.ok THEN d \in RequestNextState(e, FALSE) ELSE d = e
  BY DEF Then
<1>2. (e.ok => Able(e, FALSE)) /\ e.req = 1
  BY <1>1, LiveRests, RestsPrompt DEF Live
<1> QED
  BY <1>1, <1>2, NextPrompt

LEMMA DonePrompt ==
  ASSUME NEW n, NEW S, \A d \in S : d \in Machines /\ Prompt(n, d),
         NEW st, NEW x \in WhenDone(S, st)
  PROVE  Prompt(n, x)
<1>1. PICK d \in S : x = d \/ x = Status(d, st)
  BY DEF WhenDone
<1>2. SamePlace(d, Status(d, st))
  BY StatusPlace
<1> QED
  BY <1>1, <1>2, SamePrompt

\* execute() in a status.
LEMMA StatusPrompt ==
  ASSUME Announced, Restarts, NEW n, Kept(n), n.status \notin {"inactive", "paused"},
         NEW x \in ExecuteStatus(n)
  PROVE  Prompt(n, x)
<1> DEFINE pending == ExecutePending(n, FALSE)
           round == Then(pending, LAMBDA d : RequestNextState(d, FALSE))
<1>1. \A d \in pending : d \in Machines /\ Prompt(n, d)
  BY Resting, RestsPrompt DEF Kept, Rested, Good, Prompt
<1>2. n.status \in {"requesting", "running"} => \A d \in round : d \in Machines /\ Prompt(n, d)
  BY LiveNow, RoundFollows, RoundPrompt DEF Kept, Follows
<1>3. n.status \in Statuses
  BY DEF Kept, Good, Machines
<1>4. CASE n.status \in {"active", "running", "error"}
  <2>1. x = n \/ x \in pending \/ (n.status = "running" /\ x \in round)
    BY <1>4 DEF ExecuteStatus
  <2> HIDE DEF pending, round
  <2> QED
    BY <1>1, <1>2, <2>1 DEF Prompt
<1>5. CASE n.status \in {"requesting", "stopping", "deactivating", "resetting"}
  <2>1. \E st \in Statuses :
          \/ n.status = "requesting" /\ x \in WhenDone(round, st)
          \/ x \in WhenDone(pending, st)
    BY <1>5 DEF ExecuteStatus, Statuses
  <2> HIDE DEF pending, round
  <2> QED
    BY <1>1, <1>2, <2>1, DonePrompt
<1>6. CASE n.status \in {"activating", "stopped"}
  <2>1. PICK d \in pending : x = d \/ x = Status(d, "active")
    BY <1>6 DEF ExecuteStatus
  <2> HIDE DEF pending, round
  <2> QED
    BY <1>1, <2>1, StatusPlace, SamePrompt
<1> QED
  BY <1>3, <1>4, <1>5, <1>6 DEF Statuses

\* execute().
LEMMA ExecutePrompt ==
  ASSUME Announced, Restarts, IInv, Execute, m.status # "paused"
  PROVE  Prompt(m, m')
<1>1. PICK n \in (CASE m.status = "inactive" -> {[m EXCEPT !.request = "nill"]}
                    [] m.status # "inactive" /\ m.request = "pausing" ->
                          {[Status(m, "paused") EXCEPT !.request = "nill"]}
                    [] m.status # "inactive" /\ m.request = "gostop" -> ExecuteStop(m)
                    [] m.status # "inactive" /\ m.request = "goreset" -> ExecuteReset(m)
                    [] m.status # "inactive" /\ m.request = "nill" -> ExecuteStatus(m)) :
        m' = Settled(n)
  BY DEF Execute
<1>2. Kept(m) /\ m \in Machines
  BY DEF IInv, Kept, Good
<1>3. ASSUME m.status # "inactive", m.request # "nill" PROVE Live(m)
  BY <1>2, <1>3, LiveNow DEF Kept
<1>4. m.request \in Requests
  BY <1>2 DEF Machines
<1>5. Prompt(m, n) /\ n \in Machines
  <2>1. CASE m.status = "inactive"
    <3>1. n = [m EXCEPT !.request = "nill"]
      BY <1>1, <2>1
    <3>2. n \in Machines
      BY <1>2, <3>1 DEF Machines, Requests
    <3> QED
      BY <1>2, <3>1, <3>2, StatusPlace DEF Prompt, SamePlace
  <2>2. CASE m.status # "inactive" /\ m.request = "pausing"
    <3>1. n = [Status(m, "paused") EXCEPT !.request = "nill"]
      BY <1>1, <2>2
    <3>2. n \in Machines
      BY <1>2, <3>1 DEF Status, Machines, Requests, Statuses
    <3> QED
      BY <1>2, <3>1, <3>2, StatusPlace DEF Prompt, SamePlace
  <2>3. CASE m.status # "inactive" /\ m.request = "gostop"
    <3>1. n \in ExecuteStop(m)
      BY <1>1, <2>3
    <3> QED
      BY <1>3, <2>3, <3>1, StopPrompt, StopExecuted DEF Kept, Good
  <2>4. CASE m.status # "inactive" /\ m.request = "goreset"
    <3>1. n \in ExecuteReset(m)
      BY <1>1, <2>4
    <3> QED
      BY <1>3, <2>4, <3>1, ResetPrompt, ResetExecuted DEF Kept, Good
  <2>5. CASE m.status # "inactive" /\ m.request = "nill"
    <3>1. n \in ExecuteStatus(m)
      BY <1>1, <2>5
    <3> QED
      BY <1>2, <2>5, <3>1, StatusPrompt, StatusExecuted DEF Kept, Good
  <2> QED
    BY <1>4, <2>1, <2>2, <2>3, <2>4, <2>5 DEF Requests
<1> QED
  BY <1>1, <1>5, SettledPlace, SamePrompt

-----------------------------------------------------------------------------
\* start(), reactive(), pause(), step(), stop() and reset().
LEMMA CallPrompt ==
  ASSUME Patient, Announced, IInv, Automatic \/ Reactive \/ Pause \/ Step \/ Stop \/ Reset
  PROVE  Prompt(m, m')
<1>1. m \in Machines
  BY DEF IInv, Kept, Good
<1>2. CASE Automatic
  <2> DEFINE a == Status(m, "running")
             b == RunState(a, m.current)
  <2>1. a \in Machines /\ SamePlace(m, a)
    BY <1>1, StatusPlace DEF Status, Machines, Statuses
  <2>2. Program("run", m.current) \in Pending /\ "run" \in Slots
    BY ProgramIs DEF Slots
  <2>3. Holds(a, "run", Program("run", m.current), b)
    <3> HIDE DEF a
    <3> QED
      BY <2>1, <2>2, BeginIs DEF RunState
  <2>4. m' = Settled(b)
    BY <1>2 DEF Automatic
  <2> HIDE DEF a, b
  <2>5. b \in Machines /\ SamePlace(a, b)
    BY <2>3 DEF Holds, Alike, SamePlace
  <2> QED
    BY <2>1, <2>4, <2>5, SettledPlace DEF SamePlace, Prompt
<1>3. CASE Reactive \/ Pause \/ Step \/ Stop \/ Reset
  <2>1. SamePlace(m, m')
    BY <1>1, <1>3 DEF Reactive, Pause, Step, Stop, Reset, Status, Machines, SamePlace
  <2> QED
    BY <2>1 DEF SamePlace, Prompt
<1> QED
  BY <1>2, <1>3

\* Requests and events.
LEMMA ArrivalPrompt ==
  ASSUME Patient, Announced, IInv, RequestState \/ EventTransition
  PROVE  Prompt(m, m')
<1> SUFFICES ASSUME m.req = 1 PROVE m'.current = m'.next => m'.req = 1
  BY DEF Prompt
<1>1. Kept(m) /\ Good(m) /\ m \in Machines
  BY DEF IInv, Kept, Good
<1>2. CASE RequestState
  <2>0. PICK s \in States : m' \in {Settled(n) : n \in RequestStateChange(m, s)}
    BY <1>2 DEF RequestState
  <2>1. PICK n \in RequestStateChange(m, s) : m' = Settled(n)
    BY <2>0
  <2>2. m.next \in States
    BY <1>1, <1>2 DEF RequestState, Leaving, Machines
  <2>3. n.current = n.next => n.req = 1
    BY <1>1, <2>2, RequestPrompt
  <2>4. n \in Machines
    <3>1. Refused(m, n) \/ Moved(m, n)
      BY <1>1, <2>2, ChangeRequested
    <3> QED
      BY <1>1, <3>1, Returned DEF Refused, Moved, Somewhere, Good
  <2> QED
    BY <2>1, <2>3, <2>4, SettledPlace DEF SamePlace
<1>3. CASE EventTransition
  <2>1. Somewhere(m) /\ ~InTransition(m)
    BY <1>3, EventChanges
  <2>2. PICK to \in States, p \in Pending :
          /\ p # None => p[1] = "trans"
          /\ \E n \in ChangeState(m, to, p, FALSE) : m' = Settled(n)
    BY <1>3, EventChanges
  <2>3. PICK n \in ChangeState(m, to, p, FALSE) : m' = Settled(n)
    BY <2>2
  <2>4. n.current = n.next => n.req = 1
    BY <2>1, <2>2, ChangePrompt
  <2>5. n \in Machines
    BY <2>1, <2>2, Changed DEF Moved, Somewhere, Good
  <2> QED
    BY <2>3, <2>4, <2>5, SettledPlace DEF SamePlace
<1> QED
  BY <1>2, <1>3

\* PriorityKept: a machine whose next evaluation of transitions begins at the first of them,
\* the one of highest priority, keeps it so when a step leaves it in a state, unless it goes
\* through the steps of a paused machine; in machines where a transition of a state to itself
\* Restarts the evaluation.
THEOREM PriorityIsKept ==
  ASSUME Patient, Announced, Restarts
  PROVE  Spec => PriorityKept
<1>1. IInv /\ [Next]_m => [m.status # "paused" /\ m.req = 1 /\ m'.next = m'.current => m'.req = 1]_m
  <2> SUFFICES ASSUME IInv, Next, m.status # "paused", m.req = 1, m'.next = m'.current
               PROVE  m'.req = 1
    OBVIOUS
  <2>1. CASE Activate \/ Deactivate
    BY <2>1, ActivateKeeps, DeactivateKeeps
  <2>2. CASE ~(Activate \/ Deactivate)
    <3>1. Prompt(m, m')
      BY <2>2, ExecutePrompt, CallPrompt, ArrivalPrompt DEF Next
    <3> QED
      BY <3>1 DEF Prompt
  <2> QED
    BY <2>1, <2>2
<1> QED
  BY <1>1, MachineKept, PTL DEF Spec, PriorityKept
=============================================================================
