----------------------------- MODULE Connections -----------------------------
(***************************************************************************)
(* The data flow between ports: the chain of three elements that           *)
(* ConnFactory builds for a local connection (an endpoint at the output    *)
(* port, a storage, an endpoint at the input port), the ConnectionManager  *)
(* of each port, and write(), read(), connecting and disconnecting.        *)
(*                                                                         *)
(* The writer of an output port, the reader of an input port and clients,  *)
(* who connect and disconnect, are threads.  What a thread has still to do *)
(* is a sequence of instructions, each of which is one critical section or *)
(* one access to a shared variable; an instruction that calls another      *)
(* function puts the instructions of that function before its own rest.    *)
(*                                                                         *)
(* The storage of a buffer connection is atomic, as BufferLocked is and as *)
(* BufferLockFree promises; the flags of a data connection are not.        *)
(***************************************************************************)
EXTENDS Naturals, Sequences, SequencesExt, FiniteSets

CONSTANTS
    Outputs, Inputs,   \* ports
    Clients,
    Channels,          \* the connections there may be at a time
    From, To,          \* From[c], To[c]: their ports
    Kind,              \* Kind[c]: "data", "buffer" or "circular"
    Size,              \* of a buffer
    Initialised,       \* the channels whose policy asks for the last sample (init)
    Quiet,             \* the channels that are connected while nobody writes
    MaxSample,         \* MaxSample[p]: bound on the samples a port writes
    None

ASSUME ConnectionsAssumption ==
    /\ Outputs \cap Inputs = {} /\ Clients \cap (Outputs \cup Inputs) = {}
    /\ From \in [Channels -> Outputs] /\ To \in [Channels -> Inputs]
    /\ Kind \in [Channels -> {"data", "buffer", "circular"}]
    /\ Size \in Nat \ {0} /\ MaxSample \in [Outputs -> Nat]
    /\ Initialised \subseteq Channels /\ Quiet \subseteq Channels
    /\ None \notin Channels

VARIABLES
    chan,       \* the elements of each channel
    conns,      \* the list of connections of each port, in order
    current,    \* cur_channel of an input port
    todo,       \* the instructions of each thread
    samples,    \* the number of samples an output port has written
    kept,       \* its last sample, has_initial_sample and has_last_written_value
    signalled,  \* the input ports in the queue of event ports of their component
    got         \* the last sample that was read as new from a channel

vars == <<chan, conns, current, todo, samples, kept, signalled, got>>

Ports == Outputs \cup Inputs
Threads == Ports \cup Clients

\* The elements of a channel from the output to the input; disconnecting goes one
\* way or the other, from the endpoint it begins at to the one at the far end.
Elements == {"in", "data", "out"}
Ways == {"forward", "backward"}
Near(way) == IF way = "forward" THEN "in" ELSE "out"
Far(way) == IF way = "forward" THEN "out" ELSE "in"
Following(e, way) == IF e = "data" THEN Far(way) ELSE "data"

\* The elements that have their links, the endpoints that know their port, and
\* the storage; samples are numbers from 1 on.
Built(v) ==
    [links |-> Elements, ports |-> {"in", "out"},
     value |-> v, written |-> FALSE, read |-> FALSE, queue |-> <<>>]
Gone == [Built(0) EXCEPT !.links = {}, !.ports = {}]

Init ==
    /\ chan = [c \in Channels |-> Gone]
    /\ conns = [p \in Ports |-> <<>>]
    /\ current = [r \in Inputs |-> None]
    /\ todo = [t \in Threads |-> <<>>]
    /\ samples = [p \in Outputs |-> 0]
    /\ kept = [p \in Outputs |-> [sample |-> 0, initial |-> FALSE, last |-> FALSE]]
    /\ signalled = {}
    /\ got = [c \in Channels |-> 0]

Idle(t) == todo[t] = <<>>
At(t, op) == ~Idle(t) /\ Head(todo[t])[1] = op
Does(t, instruction) == ~Idle(t) /\ Head(todo[t]) = instruction
Do(t, instructions) == todo' = [todo EXCEPT ![t] = instructions]
Then(t, instructions) == Do(t, instructions \o Tail(todo[t]))

\* connection_lock of a port is held by its thread while it writes or reads.
Unlocked(port) == Idle(port) \/ At(port, "lock") \/ At(port, "read")

\* The id of an entry is that of the port at the other end.
Other(c, port) == IF port = From[c] THEN To[c] ELSE From[c]
Toward(port) == IF port \in Outputs THEN "forward" ELSE "backward"
End(c, e) == IF e = "in" THEN From[c] ELSE To[c]

\* Mutant: the current channel stays when it is removed and others are left.
Removed_KeepCurrent(port, i) ==
    LET rest == RemoveAt(conns[port], i)
    IN  /\ conns' = [conns EXCEPT ![port] = rest]
        /\ current' = IF port \in Outputs \/ rest # <<>> THEN current
                      ELSE [current EXCEPT ![port] = None]

\* An entry that is removed gives the current channel of an input port away.
Removed(port, i) ==
    LET rest == RemoveAt(conns[port], i)
    IN  /\ conns' = [conns EXCEPT ![port] = rest]
        /\ current' = IF port \in Outputs THEN current
                      ELSE [current EXCEPT ![port] = IF rest = <<>> THEN None
                                                     ELSE IF @ = conns[port][i] THEN rest[1]
                                                     ELSE @]

-----------------------------------------------------------------------------
(***************************************************************************)
(* Connecting                                                              *)
(***************************************************************************)

\* No element of a channel is referred to any more.
Unused(c) ==
    /\ chan[c].links = {}
    /\ \A p \in Ports : ~Contains(conns[p], c)
    /\ \A t \in Threads : \A i \in DOMAIN todo[t] : todo[t][i][2] # c

\* The pairs of ports a client's call is about.
Pair(c) == {From[c], To[c]}
Pairs(k) == {IF todo[k][i][1] = "remove" THEN {todo[k][i][2], todo[k][i][3]}
                                         ELSE Pair(todo[k][i][2]) : i \in DOMAIN todo[k]}
Connected(k) == {todo[k][i][2] : i \in {j \in DOMAIN todo[k] : todo[k][j][1] = "add"}}

\* A sample in a buffer, and in the storage of c.
Pushed(q, c, v) ==
    IF Len(q) < Size THEN Append(q, v)
    ELSE IF Kind[c] = "buffer" THEN q ELSE Append(Tail(q), v)
Stored(ch, c, v) ==
    [ch EXCEPT ![c] = IF Kind[c] = "data" THEN [@ EXCEPT !.value = v, !.written = TRUE, !.read = FALSE]
                      ELSE [@ EXCEPT !.queue = Pushed(ch[c].queue, c, v)]]

\* createConnection(): the chain is built from the input port to the output,
\* gets the last sample (connectionAdded()) if it is to be initialised, and is
\* added to the list of the output and, by channelReady(), to that of the input.
CreateConnection(k) ==
    \E c \in Channels :
        LET last == kept[From[c]]
            built == [chan EXCEPT ![c] = Built(last.sample)]
            write == last.initial /\ last.last /\ c \in Initialised
        IN  /\ Idle(k) /\ Unused(c)
            /\ \A l \in Clients : Pair(c) \notin Pairs(l)
            /\ c \in Quiet => Idle(From[c])
            /\ chan' = IF write THEN Stored(built, c, last.sample) ELSE built
            /\ signalled' = IF write THEN signalled \cup {To[c]} ELSE signalled
            /\ Do(k, <<<<"add", c, From[c]>>, <<"add", c, To[c]>>>>)
            /\ UNCHANGED <<conns, current, samples, kept, got>>

\* addConnection() of a port's ConnectionManager.
AddConnection(k) ==
    /\ At(k, "add")
    /\ \E c \in Channels, port \in Ports :
          /\ Does(k, <<"add", c, port>>) /\ Unlocked(port)
          /\ conns' = [conns EXCEPT ![port] = Append(@, c)]
          /\ current' = IF port \in Inputs /\ conns[port] = <<>>
                        THEN [current EXCEPT ![port] = c] ELSE current
          /\ Then(k, <<>>)
          /\ UNCHANGED <<chan, samples, kept, signalled, got>>

-----------------------------------------------------------------------------
(***************************************************************************)
(* Disconnecting                                                           *)
(***************************************************************************)

\* No connection between two ports is being made.
MayDisconnect(pairs) == \A l \in Clients : \A c \in Connected(l) : Pair(c) \notin pairs

\* disconnect(other) of either port.
Disconnect(k) ==
    \E c \in Channels :
        /\ Idle(k) /\ MayDisconnect({Pair(c)})
        /\ \/ Do(k, <<<<"remove", From[c], To[c]>>>>)
           \/ Do(k, <<<<"remove", To[c], From[c]>>>>)
        /\ UNCHANGED <<chan, conns, current, samples, kept, signalled, got>>

\* A channel is disconnected from this port on.
Drop(c, port) == <<"drop", c, Near(Toward(port)), Toward(port)>>

\* disconnect() of a port: its list is taken as a whole.
DisconnectAll(k) ==
    \E port \in Ports :
        /\ Idle(k) /\ Unlocked(port) /\ conns[port] # <<>>
        /\ MayDisconnect({Pair(c) : c \in ToSet(conns[port])})
        /\ conns' = [conns EXCEPT ![port] = <<>>]
        /\ current' = IF port \in Inputs THEN [current EXCEPT ![port] = None] ELSE current
        /\ Do(k, [i \in DOMAIN conns[port] |-> Drop(conns[port][i], port)])
        /\ UNCHANGED <<chan, samples, kept, signalled, got>>

\* removeConnection(): the first entry with the id of the other port goes, and
\* its channel is disconnected from this end.
RemoveConnection(k) ==
    /\ At(k, "remove")
    /\ \E port, other \in Ports :
          LET same == {i \in DOMAIN conns[port] : Other(conns[port][i], port) = other}
          IN  /\ Does(k, <<"remove", port, other>>) /\ Unlocked(port)
              /\ \/ same = {} /\ Then(k, <<>>) /\ UNCHANGED <<conns, current>>
                 \/ \E i \in same :
                       /\ \A j \in same : i <= j
                       /\ Removed(port, i) /\ Then(k, <<Drop(conns[port][i], port)>>)
              /\ UNCHANGED <<chan, samples, kept, signalled, got>>

\* disconnect() of an element: the next one in the direction first.
DropElement(k) ==
    /\ At(k, "drop")
    /\ \E c \in Channels, e \in Elements, way \in Ways :
          /\ Does(k, <<"drop", c, e, way>>)
          /\ Then(k, IF e \in chan[c].links /\ e # Far(way)
                     THEN <<<<"drop", c, Following(e, way), way>>, <<"clear", c, e, way>>>>
                     ELSE <<<<"clear", c, e, way>>>>)
          /\ UNCHANGED <<chan, conns, current, samples, kept, signalled, got>>

\* Links are cleared, and what nothing is linked to is destroyed.
Cleared(c, rest) ==
    /\ chan' = [chan EXCEPT ![c] = IF rest.links = {} THEN Gone ELSE rest]
    /\ got' = [got EXCEPT ![c] = IF rest.links = {} THEN 0 ELSE @]
    /\ UNCHANGED <<conns, current, samples, kept, signalled>>

\* Mutant: the endpoint at the far end does not tell its port.
ClearElement_Silent(k) ==
    /\ At(k, "clear")
    /\ \E c \in Channels, e \in Elements, way \in Ways :
          /\ Does(k, <<"clear", c, e, way>>)
          /\ Cleared(c, [chan[c] EXCEPT !.links = @ \ {e}])
          /\ Then(k, <<>>)

\* The links of an element are cleared; the endpoint at the far end has its entry removed.
ClearElement(k) ==
    /\ At(k, "clear")
    /\ \E c \in Channels, e \in Elements, way \in Ways :
          LET far == e = Far(way) /\ e \in chan[c].ports
          IN  /\ Does(k, <<"clear", c, e, way>>)
              /\ Cleared(c, [chan[c] EXCEPT !.links = @ \ {e}, !.ports = IF far THEN @ \ {e} ELSE @])
              /\ Then(k, IF far THEN <<<<"remove", End(c, Far(way)), End(c, Near(way))>>>> ELSE <<>>)

-----------------------------------------------------------------------------
(***************************************************************************)
(* Writing                                                                 *)
(***************************************************************************)

\* write(): the sample is kept, by default, and then sent to every channel.
Write(p) ==
    /\ Idle(p) /\ samples[p] < MaxSample[p]
    /\ \A k \in Clients : \A c \in Connected(k) \cap Quiet : From[c] # p
    /\ samples' = [samples EXCEPT ![p] = @ + 1]
    /\ kept' = [kept EXCEPT ![p] = [sample |-> samples'[p], initial |-> TRUE, last |-> TRUE]]
    /\ Do(p, <<<<"lock", p>>>>)
    /\ UNCHANGED <<chan, conns, current, signalled, got>>

LockForWrite(p) ==
    /\ Does(p, <<"lock", p>>)
    /\ Do(p, [i \in DOMAIN conns[p] |-> <<"put", conns[p][i]>>])
    /\ UNCHANGED <<chan, conns, current, samples, kept, signalled, got>>

\* A channel that has lost its links is removed from the list.
PutNowhere(p) ==
    \E c \in Channels :
        /\ Does(p, <<"put", c>>) /\ "in" \notin chan[c].links
        /\ \E i \in DOMAIN conns[p] : conns[p][i] = c /\ Removed(p, i)
        /\ Then(p, <<>>)
        /\ UNCHANGED <<chan, samples, kept, signalled, got>>

\* A data connection: the value and two flags, one after the other.
PutData(p) ==
    \E c \in Channels :
        /\ Does(p, <<"put", c>>) /\ "in" \in chan[c].links /\ Kind[c] = "data"
        /\ chan' = [chan EXCEPT ![c].value = samples[p]]
        /\ Then(p, <<<<"written", c>>, <<"unread", c>>, <<"signal", c>>>>)
        /\ UNCHANGED <<conns, current, samples, kept, signalled, got>>

SetFlag(p) ==
    \E c \in Channels :
        /\ \/ Does(p, <<"written", c>>) /\ chan' = [chan EXCEPT ![c].written = TRUE]
           \/ Does(p, <<"unread", c>>) /\ chan' = [chan EXCEPT ![c].read = FALSE]
        /\ Then(p, <<>>)
        /\ UNCHANGED <<conns, current, samples, kept, signalled, got>>

\* A buffer connection: nobody is told of a sample that a full buffer refuses.
PutBuffer(p) ==
    \E c \in Channels :
        /\ Does(p, <<"put", c>>) /\ "in" \in chan[c].links /\ Kind[c] # "data"
        /\ chan' = Stored(chan, c, samples[p])
        /\ Then(p, IF Kind[c] = "buffer" /\ Len(chan[c].queue) = Size THEN <<>> ELSE <<<<"signal", c>>>>)
        /\ UNCHANGED <<conns, current, samples, kept, signalled, got>>

\* Mutant: a component that is being executed is not triggered.
SignalPort_Idle(p) ==
    \E c \in Channels :
        /\ Does(p, <<"signal", c>>)
        /\ signalled' = IF "data" \in chan[c].links /\ "out" \in chan[c].ports /\ Idle(To[c])
                        THEN signalled \cup {To[c]} ELSE signalled
        /\ Then(p, <<>>)
        /\ UNCHANGED <<chan, conns, current, samples, kept, got>>

\* signal() reaches the input port, whose component will be executed.
SignalPort(p) ==
    \E c \in Channels :
        /\ Does(p, <<"signal", c>>)
        /\ signalled' = IF "data" \in chan[c].links /\ "out" \in chan[c].ports
                        THEN signalled \cup {To[c]} ELSE signalled
        /\ Then(p, <<>>)
        /\ UNCHANGED <<chan, conns, current, samples, kept, got>>

-----------------------------------------------------------------------------
(***************************************************************************)
(* Reading                                                                 *)
(***************************************************************************)

\* The current channel is tried first, then all of them.
Tried(r) ==
    LET tried == (IF current[r] = None THEN <<>> ELSE <<current[r]>>) \o conns[r]
    IN  [i \in DOMAIN tried |-> <<"take", tried[i]>>]

\* The component is executed, for the port or for another reason, and reads
\* until there is no new data.
BeginRead(r) ==
    /\ Idle(r)
    /\ signalled' = signalled \ {r}
    /\ Do(r, Tried(r))
    /\ UNCHANGED <<chan, conns, current, samples, kept, got>>

ReadAgain(r) ==
    /\ Does(r, <<"read", r>>)
    /\ Do(r, Tried(r))
    /\ UNCHANGED <<chan, conns, current, samples, kept, signalled, got>>

HasNew(c) ==
    /\ "out" \in chan[c].links
    /\ IF Kind[c] = "data" THEN chan[c].written /\ ~chan[c].read ELSE chan[c].queue # <<>>

TakeNothing(r) ==
    \E c \in Channels :
        /\ Does(r, <<"take", c>>) /\ ~HasNew(c)
        /\ Then(r, <<>>)
        /\ UNCHANGED <<chan, conns, current, samples, kept, signalled, got>>

\* New data from c, which is the current channel from now on; the next read.
NewData(r, c, v) ==
    /\ got' = [got EXCEPT ![c] = v]
    /\ current' = [current EXCEPT ![r] = c]
    /\ Do(r, <<<<"read", r>>>>)
    /\ UNCHANGED <<conns, samples, kept, signalled>>

\* A data connection is read and then marked as read.
TakeData(r) ==
    \E c \in Channels :
        /\ Does(r, <<"take", c>>) /\ HasNew(c) /\ Kind[c] = "data"
        /\ Do(r, <<<<"mark", c, chan[c].value>>>>)
        /\ UNCHANGED <<chan, conns, current, samples, kept, signalled, got>>

MarkRead(r) ==
    \E c \in Channels : \E v \in 0 .. MaxSample[From[c]] :
        /\ Does(r, <<"mark", c, v>>)
        /\ chan' = [chan EXCEPT ![c].read = TRUE]
        /\ NewData(r, c, v)

\* Mutant: the sample is left in the buffer.
TakeBuffer_Peek(r) ==
    \E c \in Channels :
        /\ Does(r, <<"take", c>>) /\ HasNew(c) /\ Kind[c] # "data"
        /\ NewData(r, c, Head(chan[c].queue))
        /\ UNCHANGED chan

TakeBuffer(r) ==
    \E c \in Channels :
        /\ Does(r, <<"take", c>>) /\ HasNew(c) /\ Kind[c] # "data"
        /\ chan' = [chan EXCEPT ![c].queue = Tail(@)]
        /\ NewData(r, c, Head(chan[c].queue))

\* clear() of an input port.
Clear(r) ==
    /\ Idle(r)
    /\ chan' = [c \in Channels |->
                    IF Contains(conns[r], c) /\ "out" \in chan[c].links
                    THEN [chan[c] EXCEPT !.written = FALSE, !.read = FALSE, !.queue = <<>>]
                    ELSE chan[c]]
    /\ UNCHANGED <<conns, current, todo, samples, kept, signalled, got>>

-----------------------------------------------------------------------------
Client(k) ==
    \/ CreateConnection(k) \/ AddConnection(k)
    \/ Disconnect(k) \/ DisconnectAll(k) \/ RemoveConnection(k)
    \/ DropElement(k) \/ ClearElement(k)

Writer(p) ==
    \/ Write(p) \/ LockForWrite(p) \/ PutNowhere(p) \/ PutData(p) \/ SetFlag(p)
    \/ PutBuffer(p) \/ SignalPort(p)

Reader(r) ==
    \/ BeginRead(r) \/ ReadAgain(r) \/ TakeNothing(r) \/ TakeData(r) \/ MarkRead(r)
    \/ TakeBuffer(r) \/ Clear(r)

Next ==
    \/ \E k \in Clients : Client(k)
    \/ \E p \in Outputs : Writer(p)
    \/ \E r \in Inputs : Reader(r)

Spec == Init /\ [][Next]_vars

-----------------------------------------------------------------------------
(***************************************************************************)
(* Environments                                                            *)
(***************************************************************************)

\* No two connections have the same ports: removeConnection() knows an entry by
\* the id of the other port alone.
OnePerPair == \A c, d \in Channels : Pair(c) = Pair(d) => c = d

\* A buffer that gets the last sample when it is connected is so while nobody writes.
Orderly == \A c \in Initialised : Kind[c] = "data" \/ c \in Quiet

-----------------------------------------------------------------------------
ClientCode ==
    ({"add"} \X Channels \X Ports) \cup ({"remove"} \X Ports \X Ports)
        \cup ({"drop", "clear"} \X Channels \X Elements \X Ways)
WriterCode == ({"lock"} \X Outputs) \cup ({"put", "written", "unread", "signal"} \X Channels)
ReaderCode == ({"read"} \X Inputs) \cup ({"take"} \X Channels) \cup ({"mark"} \X Channels \X Nat)

\* Type correctness.
TypeOK ==
    /\ chan \in [Channels -> [links : SUBSET Elements, ports : SUBSET {"in", "out"}, value : Nat,
                              written : BOOLEAN, read : BOOLEAN, queue : Seq(Nat)]]
    /\ conns \in [Ports -> Seq(Channels)]
    /\ current \in [Inputs -> Channels \cup {None}]
    /\ todo \in [Threads -> Seq(ClientCode \cup WriterCode \cup ReaderCode)]
    /\ \A k \in Clients : todo[k] \in Seq(ClientCode)
    /\ \A p \in Outputs : todo[p] \in Seq(WriterCode)
    /\ \A r \in Inputs : todo[r] \in Seq(ReaderCode)
    /\ samples \in [Outputs -> Nat]
    /\ kept \in [Outputs -> [sample : Nat, initial : BOOLEAN, last : BOOLEAN]]
    /\ signalled \subseteq Inputs
    /\ got \in [Channels -> Nat]

\* When nobody connects or disconnects, a channel is in the list of both its
\* ports with all its links, or in neither and taken apart, whoever began to
\* disconnect it, several at a time and while the writer gives it up too.
EndsAgree ==
    (\A k \in Clients : Idle(k)) =>
        \A c \in Channels :
            \/ /\ Contains(conns[From[c]], c) /\ Contains(conns[To[c]], c)
               /\ chan[c].links = Elements /\ chan[c].ports = {"in", "out"}
            \/ /\ ~Contains(conns[From[c]], c) /\ ~Contains(conns[To[c]], c)
               /\ chan[c].links = {}

\* The channel an input port reads first is one of its connections, as long as
\* it has any.
CurrentConnected ==
    \A r \in Inputs :
        IF conns[r] = <<>> THEN current[r] = None ELSE Contains(conns[r], current[r])

\* A sample in a buffer connection is not forgotten: when the writer is done the
\* reader is reading or will be executed for the port.
Noticed ==
    \A c \in Channels :
        /\ Kind[c] # "data" /\ c \in Quiet \ Initialised /\ Contains(conns[To[c]], c)
        /\ "out" \in chan[c].links /\ chan[c].queue # <<>>
        => To[c] \in signalled \/ ~Idle(To[c]) \/ ~Idle(From[c])

\* A buffer connection delivers a sample once and in the order of writing, a
\* data connection never an older one than before.
NewIsNewer ==
    \A c \in Channels :
        LET read == <<got[c]>> \o chan[c].queue
        IN  IF Kind[c] = "data" THEN chan[c].value >= got[c]
            ELSE \A i, j \in DOMAIN read : i < j => read[i] < read[j]
==============================================================================
