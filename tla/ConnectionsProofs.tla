------------------------- MODULE ConnectionsProofs -------------------------
(***************************************************************************)
(* Proofs about module Connections, for any number of ports, connections   *)
(* and clients.                                                            *)
(***************************************************************************)
EXTENDS Connections, SequenceTheorems, TLAPS

Has(t, instruction) == \E i \in DOMAIN todo[t] : todo[t][i] = instruction
Listed(c, port) == \E i \in DOMAIN conns[port] : conns[port][i] = c

\* The ports a disconnection begins at and goes to.
NearPort(c, way) == End(c, Near(way))
FarPort(c, way) == End(c, Far(way))
Previous(e, way) == IF e = "data" THEN Near(way) ELSE "data"
Rank(e, way) == IF e = Near(way) THEN 1 ELSE IF e = "data" THEN 2 ELSE 3

\* What client k has still to do.
Dropping(k, c, e, way) == Has(k, <<"drop", c, e, way>>)
Clearing(k, c, e, way) == Has(k, <<"clear", c, e, way>>)
Going(k, c, way) == \E e \in Elements : Dropping(k, c, e, way) \/ Clearing(k, c, e, way)
Removing(k, port, other) == Has(k, <<"remove", port, other>>)
Making(k, c) == Has(k, <<"add", c, To[c]>>)

\* The instructions of a reader; its connections stay while it reads them.
Readers ==
    \A r \in Inputs :
        /\ \A c \in Channels : Has(r, <<"take", c>>) => Listed(c, r)
        /\ \A c \in Channels, v \in Nat :
              Has(r, <<"mark", c, v>>) => Listed(c, r) /\ todo[r] = <<<<"mark", c, v>>>>
        /\ \A q \in Inputs : Has(r, <<"read", q>>) => todo[r] = <<<<"read", r>>>>

Shape == TypeOK /\ Readers /\ CurrentConnected

\* The ports' lists have no connection twice, and none of other ports.
Lists ==
    \A port \in Ports :
        /\ \A i, j \in DOMAIN conns[port] : conns[port][i] = conns[port][j] => i = j
        /\ \A c \in Channels : Listed(c, port) => port \in Pair(c)

\* The instructions of a client: a connection that is made, ...
Adding ==
    \A k \in Clients, c \in Channels, port \in Ports :
        Has(k, <<"add", c, port>>) =>
            \/ todo[k] = <<<<"add", c, From[c]>>, <<"add", c, To[c]>>>>
            \/ todo[k] = <<<<"add", c, To[c]>>>>

\* ... and connections that are broken.  What y may be after x: an entry is removed
\* at once, and what is dropped is cleared later, from the far end to the near one.
Fits(x, y) ==
    /\ y[1] # "remove"
    /\ \A c \in Channels, way \in Ways : \A e, f \in Elements :
          x \in {<<"drop", c, e, way>>, <<"clear", c, e, way>>}
          /\ y \in {<<"drop", c, f, way>>, <<"clear", c, f, way>>}
          => y = <<"clear", c, f, way>> /\ Rank(f, way) < Rank(e, way)
Stacked ==
    \A k \in Clients : \A i, j \in DOMAIN todo[k] : i < j => Fits(todo[k][i], todo[k][j])
Closed(c) ==
    \A k \in Clients, way \in Ways : \A e \in Elements \ {Near(way)} :
        Dropping(k, c, e, way) \/ Clearing(k, c, e, way) => Clearing(k, c, Previous(e, way), way)

\* A connection is disconnected from a port once, after it was taken from its list.
Once(c) ==
    \A way \in Ways, k \in Clients :
        Going(k, c, way) => /\ ~Listed(c, NearPort(c, way))
                            /\ \A l \in Clients : Going(l, c, way) => l = k

\* A connection that is made is whole, and nobody disconnects its ports.
Made(c) ==
    \A k \in Clients :
        Making(k, c) =>
            /\ chan[c].links = Elements /\ chan[c].ports = {"in", "out"}
            /\ ~Listed(c, To[c]) /\ (Listed(c, From[c]) <=> ~Has(k, <<"add", c, From[c]>>))
            /\ \A l \in Clients :
                  /\ Making(l, c) => l = k
                  /\ \A way \in Ways : ~Going(l, c, way)
                  /\ ~Removing(l, From[c], To[c]) /\ ~Removing(l, To[c], From[c])

Whole(c) ==
    /\ Listed(c, From[c]) /\ Listed(c, To[c])
    /\ chan[c].links = Elements /\ chan[c].ports = {"in", "out"}

\* As long as the port at the far end has its entry, the links before it are there and
\* somebody is on the way to remove the entry, if the connection is neither whole nor made.
Coming(k, c, way) ==
    \/ \E e \in Elements : Dropping(k, c, e, way)
    \/ Clearing(k, c, Far(way), way)
    \/ Removing(k, FarPort(c, way), NearPort(c, way)) /\ Clearing(k, c, "data", way)
FarEnd(c) ==
    \A way \in Ways :
        Listed(c, FarPort(c, way)) =>
            /\ Near(way) \in chan[c].links /\ "data" \in chan[c].links
            /\ Far(way) \notin chan[c].ports =>
                  /\ ~Listed(c, NearPort(c, way))
                  /\ \A k \in Clients : /\ \A e \in Elements : ~Dropping(k, c, e, way)
                                        /\ ~Clearing(k, c, Far(way), way)
            /\ Whole(c) \/ \E k \in Clients : Making(k, c) \/ Coming(k, c, way)

\* Client k will clear the links of e.
Covers(k, c, e, way) ==
    \/ Clearing(k, c, e, way)
    \/ \E x \in Elements :
          /\ Dropping(k, c, x, way) /\ Rank(x, way) <= Rank(e, way)
          /\ \A y \in Elements : Rank(x, way) <= Rank(y, way) /\ Rank(y, way) < Rank(e, way)
                                    => y \in chan[c].links
Apart(c) ==
    \/ Whole(c) \/ \E k \in Clients : Making(k, c)
    \/ \A e \in chan[c].links : \E k \in Clients, way \in Ways : Covers(k, c, e, way)

Bonded(c) == Closed(c) /\ Once(c) /\ Made(c) /\ FarEnd(c) /\ Apart(c)
Bonds == Lists /\ Adding /\ Stacked /\ \A c \in Channels : Bonded(c)
-----------------------------------------------------------------------------
(***************************************************************************)
(* Ports, elements and sequences.                                          *)
(***************************************************************************)

LEMMA Consts ==
    /\ \A c \in Channels : /\ From[c] \in Outputs /\ To[c] \in Inputs /\ From[c] # To[c]
                           /\ Pair(c) \subseteq Ports /\ c # None
    /\ \A p \in Outputs : p \in Ports /\ p \in Threads /\ p \notin Inputs /\ p \notin Clients
    /\ \A r \in Inputs : r \in Ports /\ r \in Threads /\ r \notin Outputs /\ r \notin Clients
    /\ \A k \in Clients : k \in Threads /\ k \notin Ports
    /\ \A port \in Ports : port \in Threads /\ (port \in Outputs \/ port \in Inputs)
  BY ConnectionsAssumption DEF Ports, Threads, Pair

LEMMA Ends ==
    ASSUME NEW c \in Channels, NEW way \in Ways
    PROVE  /\ Near(way) \in Elements /\ Far(way) \in Elements /\ Near(way) # Far(way)
           /\ Near(way) # "data" /\ Far(way) # "data" /\ Elements = {Near(way), "data", Far(way)}
           /\ NearPort(c, way) \in Ports /\ FarPort(c, way) \in Ports
           /\ Pair(c) = {NearPort(c, way), FarPort(c, way)}
           /\ way = "forward" => NearPort(c, way) = From[c] /\ FarPort(c, way) = To[c]
           /\ way = "backward" => NearPort(c, way) = To[c] /\ FarPort(c, way) = From[c]
  BY Consts DEF Ways, Near, Far, Elements, NearPort, FarPort, End, Pair

\* Sequence z is s with its first element replaced by the n elements of new.
Replaced(S, s, new, n, z) ==
    /\ z \in Seq(S)
    /\ 1 \in DOMAIN s /\ Head(s) = s[1] /\ s[1] \in S
    /\ DOMAIN s \subseteq Nat \ {0} /\ n \in Nat
    /\ \A i \in DOMAIN z :
          \/ i \in DOMAIN new /\ z[i] = new[i]
          \/ i > n /\ i - n + 1 \in DOMAIN s /\ i - n + 1 > 1 /\ z[i] = s[i - n + 1]
    /\ \A i \in DOMAIN new : i \in Nat /\ i <= n /\ i \in DOMAIN z /\ z[i] = new[i]
    /\ \A i \in DOMAIN s : i # 1 => i + n - 1 \in DOMAIN z /\ z[i + n - 1] = s[i]

LEMMA Replacing ==
    ASSUME NEW S, NEW s \in Seq(S), s # <<>>, NEW new \in Seq(S)
    PROVE  Replaced(S, s, new, Len(new), new \o Tail(s))
  <1> DEFINE t == Tail(s)
             z == new \o t
             n == Len(new)
             m == Len(s)
  <1>1. /\ t \in Seq(S) /\ m \in Nat /\ m > 0 /\ Head(s) = s[1] /\ Len(t) = m - 1
        /\ DOMAIN s = 1 .. m /\ s[1] \in S
        /\ \A i \in 1 .. m - 1 : t[i] = s[i + 1]
    BY HeadTailProperties, EmptySeq, LenProperties, ElementOfSeq
  <1>2. n \in Nat /\ DOMAIN new = 1 .. n
    BY LenProperties
  <1> HIDE DEF t
  <1>3. z \in Seq(S) /\ Len(z) = n + (m - 1)
        /\ \A i \in 1 .. n + (m - 1) : z[i] = IF i <= n THEN new[i] ELSE t[i - n]
    <2>1. z \in Seq(S) /\ Len(z) = n + Len(t)
          /\ \A i \in 1 .. n + Len(t) : z[i] = IF i <= n THEN new[i] ELSE t[i - n]
      BY <1>1, ConcatProperties
    <2> HIDE DEF z, n, m
    <2> QED
      BY <1>1, <2>1
  <1>4. DOMAIN z = 1 .. n + (m - 1)
    BY <1>3, LenProperties
  <1> HIDE DEF z, n, m
  <1>5. ASSUME NEW i \in DOMAIN z
        PROVE  \/ i \in DOMAIN new /\ z[i] = new[i]
               \/ i > n /\ i - n + 1 \in DOMAIN s /\ i - n + 1 > 1 /\ z[i] = s[i - n + 1]
    <2>1. CASE i <= n
      BY <1>1, <1>2, <1>3, <1>4, <2>1
    <2>2. CASE i > n
      <3>1. i - n \in 1 .. m - 1 /\ z[i] = t[i - n]
        BY <1>1, <1>2, <1>3, <1>4, <2>2
      <3>2. z[i] = s[i - n + 1]
        BY <1>1, <3>1
      <3>3. i - n + 1 \in 1 .. m /\ i - n + 1 > 1
        BY <1>1, <1>2, <1>4, <3>1
      <3> QED
        BY <1>1, <2>2, <3>2, <3>3
    <2> QED
      BY <1>1, <1>2, <1>4, <2>1, <2>2
  <1>6. ASSUME NEW i \in DOMAIN new
        PROVE  i \in Nat /\ i <= n /\ i \in DOMAIN z /\ z[i] = new[i]
    BY <1>1, <1>2, <1>3, <1>4
  <1>7. ASSUME NEW i \in DOMAIN s, i # 1
        PROVE  i + n - 1 \in DOMAIN z /\ z[i + n - 1] = s[i]
    <2>1. i + n - 1 \in 1 .. n + (m - 1) /\ i + n - 1 > n /\ (i + n - 1) - n = i - 1
          /\ i - 1 \in 1 .. m - 1 /\ (i - 1) + 1 = i
      BY <1>1, <1>2, <1>7
    <2>2. ~(i + n - 1 <= n)
      BY <1>1, <1>2, <2>1
    <2>4. z[i + n - 1] = t[i - 1]
      BY <1>3, <2>1, <2>2
    <2>3. t[i - 1] = s[i]
      BY <1>1, <2>1
    <2> QED
      BY <1>4, <2>1, <2>3, <2>4
  <1>8. 1 \in DOMAIN s /\ DOMAIN s \subseteq Nat \ {0}
    BY <1>1
  <1>9. Replaced(S, s, new, n, z)
    BY <1>1, <1>2, <1>3, <1>5, <1>6, <1>7, <1>8 DEF Replaced
  <1> QED
    BY <1>9 DEF z, n, t

\* Thread t executes its first instruction, which calls those of new.
LEMMA Moves ==
    ASSUME todo \in [Threads -> Seq(ClientCode \cup WriterCode \cup ReaderCode)],
           NEW S, NEW t \in Threads, todo[t] \in Seq(S), NEW new \in Seq(S), NEW h, Does(t, h), Then(t, new)
    PROVE  /\ todo[t][1] = h /\ 1 \in DOMAIN todo[t] /\ h \in S /\ Has(t, h)
           /\ todo'[t] \in Seq(S) /\ \A u \in Threads \ {t} : todo'[u] = todo[u]
           /\ DOMAIN todo[t] \subseteq Nat \ {0} /\ Len(new) \in Nat
           /\ \A i \in DOMAIN todo'[t] :
                 \/ i \in DOMAIN new /\ todo'[t][i] = new[i]
                 \/ /\ i > Len(new) /\ i - Len(new) + 1 \in DOMAIN todo[t] /\ i - Len(new) + 1 > 1
                    /\ todo'[t][i] = todo[t][i - Len(new) + 1]
           /\ \A i \in DOMAIN new : i \in Nat /\ i <= Len(new)
           /\ \A x : Has(t, x) => x = h \/ Has(t, x)'
           /\ \A i \in DOMAIN new : Has(t, new[i])'
           /\ \A x : Has(t, x)' => \/ \E i \in DOMAIN new : new[i] = x
                                   \/ \E i \in DOMAIN todo[t] : i > 1 /\ todo[t][i] = x
           /\ \A u \in Threads \ {t} : \A x : Has(u, x)' <=> Has(u, x)
  <1> DEFINE s == todo[t]
             z == new \o Tail(s)
             n == Len(new)
  <1>1. s # <<>> /\ Head(s) = h /\ todo' = [todo EXCEPT ![t] = z]
    BY DEF Does, Idle, Then, Do
  <1>2. todo'[t] = z /\ \A u \in Threads \ {t} : todo'[u] = todo[u]
    BY <1>1
  <1>3. /\ z \in Seq(S) /\ 1 \in DOMAIN s /\ s[1] = h /\ h \in S
        /\ DOMAIN s \subseteq Nat \ {0} /\ n \in Nat
        /\ \A i \in DOMAIN z : \/ i \in DOMAIN new /\ z[i] = new[i]
                               \/ /\ i > n /\ i - n + 1 \in DOMAIN s /\ i - n + 1 > 1
                                  /\ z[i] = s[i - n + 1]
        /\ \A i \in DOMAIN new : i \in Nat /\ i <= n /\ i \in DOMAIN z /\ z[i] = new[i]
        /\ \A i \in DOMAIN s : i # 1 => i + n - 1 \in DOMAIN z /\ z[i + n - 1] = s[i]
    <2> HIDE DEF s
    <2>1. s \in Seq(S) /\ s # <<>>
      BY <1>1 DEF s
    <2>2. Replaced(S, s, new, n, z)
      BY <2>1, Replacing
    <2> HIDE DEF z, n
    <2> QED
      BY <1>1, <2>2 DEF Replaced
  <1>4. todo[t] = s /\ n = Len(new)
    OBVIOUS
  <1> HIDE DEF s, z, n
  <1>6. \A x : Has(t, x) => x = h \/ Has(t, x)'
    BY <1>2, <1>3, <1>4 DEF Has
  <1>7. \A i \in DOMAIN new : Has(t, new[i])'
    BY <1>2, <1>3 DEF Has
  <1>8. ASSUME NEW x, Has(t, x)'
        PROVE  \/ \E i \in DOMAIN new : new[i] = x
               \/ \E i \in DOMAIN s : i > 1 /\ s[i] = x
    <2>1. PICK i \in DOMAIN z : z[i] = x
      BY <1>2, <1>8 DEF Has
    <2> QED
      BY <1>3, <2>1
  <1>9. \A u \in Threads \ {t} : \A x : Has(u, x)' <=> Has(u, x)
    BY <1>2 DEF Has
  <1>10. Has(t, h)
    BY <1>3, <1>4 DEF Has
  <1> QED
    BY <1>2, <1>3, <1>4, <1>6, <1>7, <1>8, <1>9, <1>10

\* An idle thread begins.
LEMMA Begins ==
    ASSUME todo \in [Threads -> Seq(ClientCode \cup WriterCode \cup ReaderCode)],
           NEW t \in Threads, NEW new, Idle(t), Do(t, new)
    PROVE  /\ todo'[t] = new /\ \A u \in Threads \ {t} : todo'[u] = todo[u]
           /\ \A x : ~Has(t, x)
           /\ \A x : Has(t, x)' <=> \E i \in DOMAIN new : new[i] = x
           /\ \A u \in Threads \ {t} : \A x : Has(u, x)' <=> Has(u, x)
  <1>1. todo'[t] = new /\ \A u \in Threads \ {t} : todo'[u] = todo[u]
    BY DEF Do
  <1>2. \A x : ~Has(t, x)
    BY DEF Idle, Has
  <1> QED
    BY <1>1, <1>2 DEF Has

\* A thread that has something to do begins with its first instruction.
LEMMA Begun ==
    ASSUME NEW t, NEW S, todo[t] \in Seq(S), ~Idle(t)
    PROVE  Head(todo[t]) \in S /\ Has(t, Head(todo[t])) /\ todo[t][1] = Head(todo[t]) /\ 1 \in DOMAIN todo[t]
  <1>1. /\ todo[t] # <<>> /\ Len(todo[t]) \in Nat \ {0} /\ DOMAIN todo[t] = 1 .. Len(todo[t])
        /\ Head(todo[t]) \in S /\ Head(todo[t]) = todo[t][1]
    BY EmptySeq, LenProperties, HeadTailProperties DEF Idle
  <1> QED
    BY <1>1 DEF Has

\* What a thread has to do after an instruction.
LEMMA Calls ==
    ASSUME todo \in [Threads -> Seq(ClientCode \cup WriterCode \cup ReaderCode)],
           NEW S, NEW t \in Threads, todo[t] \in Seq(S), NEW new \in Seq(S), NEW h, Does(t, h), Then(t, new)
    PROVE  \A x : Has(t, x)' => (\E i \in DOMAIN new : new[i] = x) \/ Has(t, x)
  <1>1. \A x : Has(t, x)' => \/ \E i \in DOMAIN new : new[i] = x
                             \/ \E i \in DOMAIN todo[t] : i > 1 /\ todo[t][i] = x
    BY Moves
  <1> QED
    BY <1>1 DEF Has

LEMMA CallsNone ==
    ASSUME todo \in [Threads -> Seq(ClientCode \cup WriterCode \cup ReaderCode)],
           NEW S, NEW t \in Threads, todo[t] \in Seq(S), NEW h, Does(t, h), Then(t, <<>>)
    PROVE  /\ \A x : Has(t, x)' => Has(t, x)
           /\ \A x : Has(t, x) => x = h \/ Has(t, x)'
           /\ \A u \in Threads \ {t} : todo'[u] = todo[u]
           /\ Has(t, h)
  <1> DEFINE new == <<>>
  <1>1. new \in Seq(S) /\ Then(t, new)
    OBVIOUS
  <1>2. DOMAIN new = {}
    OBVIOUS
  <1> HIDE DEF new
  <1>3. \A x : Has(t, x)' => (\E i \in DOMAIN new : new[i] = x) \/ Has(t, x)
    BY <1>1, Calls
  <1>4. \A x : Has(t, x) => x = h \/ Has(t, x)'
    BY <1>1, Moves
  <1>5. Has(t, h)
    BY Begun DEF Does
  <1>6. \A u \in Threads \ {t} : todo'[u] = todo[u]
    BY <1>1 DEF Then, Do
  <1> QED
    BY <1>2, <1>3, <1>4, <1>5, <1>6

\* An entry is removed from a list.
LEMMA Erasing ==
    ASSUME NEW S, NEW s \in Seq(S), NEW n \in DOMAIN s
    PROVE  /\ RemoveAt(s, n) \in Seq(S) /\ n \in Nat /\ n > 0 /\ s[n] \in S
           /\ \A i \in DOMAIN RemoveAt(s, n) :
                 /\ i \in Nat /\ i > 0
                 /\ i < n => i \in DOMAIN s /\ RemoveAt(s, n)[i] = s[i]
                 /\ i >= n => i + 1 \in DOMAIN s /\ RemoveAt(s, n)[i] = s[i + 1]
           /\ \A i \in DOMAIN s :
                 /\ i \in Nat /\ i > 0
                 /\ i < n => i \in DOMAIN RemoveAt(s, n) /\ RemoveAt(s, n)[i] = s[i]
                 /\ i > n => i - 1 \in DOMAIN RemoveAt(s, n) /\ RemoveAt(s, n)[i - 1] = s[i]
           /\ RemoveAt(s, n) # <<>> => 1 \in DOMAIN RemoveAt(s, n)
  <1> DEFINE l == Len(s)
             a == SubSeq(s, 1, n - 1)
             b == SubSeq(s, n + 1, l)
             z == a \o b
  <1>1. l \in Nat /\ DOMAIN s = 1 .. l /\ n \in 1 .. l /\ \A i \in 1 .. l : s[i] \in S
    BY LenProperties, ElementOfSeq
  <1> HIDE DEF l
  <1>2. a \in Seq(S) /\ Len(a) = n - 1 /\ \A i \in 1 .. n - 1 : a[i] = s[i]
    <2>1. 1 \in Int /\ n - 1 \in Int /\ (\A i \in 1 .. n - 1 : s[i] \in S)
      BY <1>1
    <2>2. a \in Seq(S) /\ Len(a) = (IF 1 <= n - 1 THEN (n - 1) - 1 + 1 ELSE 0)
          /\ \A i \in 1 .. (n - 1) - 1 + 1 : a[i] = s[1 + i - 1]
      BY <2>1, SubSeqProperties
    <2> HIDE DEF a
    <2>3. Len(a) = n - 1 /\ (n - 1) - 1 + 1 = n - 1 /\ \A i \in 1 .. n - 1 : 1 + i - 1 = i
      BY <1>1, <2>2
    <2> QED
      BY <2>2, <2>3
  <1>3. b \in Seq(S) /\ Len(b) = l - n /\ \A i \in 1 .. l - n : b[i] = s[n + i]
    <2>1. n + 1 \in Int /\ l \in Int /\ (\A i \in n + 1 .. l : s[i] \in S)
      BY <1>1
    <2>2. b \in Seq(S) /\ Len(b) = (IF n + 1 <= l THEN l - (n + 1) + 1 ELSE 0)
          /\ \A i \in 1 .. l - (n + 1) + 1 : b[i] = s[(n + 1) + i - 1]
      BY <2>1, SubSeqProperties
    <2> HIDE DEF b
    <2>3. Len(b) = l - n /\ l - (n + 1) + 1 = l - n /\ \A i \in 1 .. l - n : (n + 1) + i - 1 = n + i
      BY <1>1, <2>2
    <2> QED
      BY <2>2, <2>3
  <1> HIDE DEF a, b
  <1>4. z \in Seq(S) /\ Len(z) = (n - 1) + (l - n)
        /\ \A i \in 1 .. (n - 1) + (l - n) : z[i] = IF i <= n - 1 THEN a[i] ELSE b[i - (n - 1)]
    <2>1. z \in Seq(S) /\ Len(z) = Len(a) + Len(b)
          /\ \A i \in 1 .. Len(a) + Len(b) : z[i] = IF i <= Len(a) THEN a[i] ELSE b[i - Len(a)]
      BY <1>2, <1>3, ConcatProperties
    <2> HIDE DEF z
    <2> QED
      BY <1>2, <1>3, <2>1
  <1> HIDE DEF z
  <1>5. Len(z) = l - 1 /\ DOMAIN z = 1 .. l - 1 /\ (z # <<>> => Len(z) \in Nat \ {0})
    BY <1>1, <1>4, LenProperties, EmptySeq
  <1>6. \A i \in 1 .. n - 1 : z[i] = s[i]
    BY <1>1, <1>2, <1>4
  <1>7. ASSUME NEW i \in n .. l - 1
        PROVE  z[i] = s[i + 1]
    <2>1. z[i] = b[i - (n - 1)]
      BY <1>1, <1>4
    <2>2. i - (n - 1) \in 1 .. l - n /\ n + (i - (n - 1)) = i + 1
      BY <1>1
    <2> QED
      BY <1>3, <2>1, <2>2
  <1>8. ASSUME NEW i \in n + 1 .. l
        PROVE  i - 1 \in 1 .. l - 1 /\ z[i - 1] = s[i]
    <2>1. i - 1 \in n .. l - 1 /\ (i - 1) + 1 = i
      BY <1>1
    <2> QED
      BY <1>1, <1>7, <2>1
  <1>9. RemoveAt(s, n) = z
    BY DEF RemoveAt, z, a, b, l
  <1>10. ASSUME NEW i \in DOMAIN z
         PROVE  /\ i \in Nat /\ i > 0
                /\ i < n => i \in DOMAIN s /\ z[i] = s[i]
                /\ i >= n => i + 1 \in DOMAIN s /\ z[i] = s[i + 1]
    BY <1>1, <1>5, <1>6, <1>7
  <1>11. ASSUME NEW i \in DOMAIN s
         PROVE  /\ i \in Nat /\ i > 0
                /\ i < n => i \in DOMAIN z /\ z[i] = s[i]
                /\ i > n => i - 1 \in DOMAIN z /\ z[i - 1] = s[i]
    BY <1>1, <1>5, <1>6, <1>8
  <1>12. z # <<>> => 1 \in DOMAIN z
    BY <1>1, <1>5
  <1> QED
    BY <1>1, <1>4, <1>9, <1>10, <1>11, <1>12

-----------------------------------------------------------------------------
(***************************************************************************)
(* Type correctness.                                                       *)
(***************************************************************************)

Code(t) == IF t \in Clients THEN ClientCode ELSE IF t \in Outputs THEN WriterCode ELSE ReaderCode
TodoOK ==
    /\ todo \in [Threads -> Seq(ClientCode \cup WriterCode \cup ReaderCode)]
    /\ \A t \in Threads : todo[t] \in Seq(Code(t))
Cell == [links : SUBSET Elements, ports : SUBSET {"in", "out"}, value : Nat,
         written : BOOLEAN, read : BOOLEAN, queue : Seq(Nat)]

\* What is stored in a channel keeps its type.
LEMMA CellStored ==
    ASSUME NEW x \in Cell
    PROVE  /\ \A v \in Nat : [x EXCEPT !.value = v] \in Cell
           /\ [x EXCEPT !.read = TRUE] \in Cell
           /\ \A q \in Seq(Nat) :
                 /\ [x EXCEPT !.queue = q] \in Cell
                 /\ [x EXCEPT !.written = FALSE, !.read = FALSE, !.queue = q] \in Cell
  BY DEF Cell

LEMMA ChannelStored ==
    ASSUME NEW ch \in [Channels -> Cell], NEW c \in Channels, NEW x \in Cell
    PROVE  [ch EXCEPT ![c] = x] \in [Channels -> Cell]
  OBVIOUS

LEMMA Codes ==
    /\ \A k \in Clients : k \in Threads /\ Code(k) = ClientCode
    /\ \A p \in Outputs : p \in Threads /\ Code(p) = WriterCode
    /\ \A r \in Inputs : r \in Threads /\ Code(r) = ReaderCode
  BY Consts DEF Code

LEMMA TodoTyped ==
    /\ TypeOK => TodoOK
    /\ TodoOK => /\ todo \in [Threads -> Seq(ClientCode \cup WriterCode \cup ReaderCode)]
                 /\ \A k \in Clients : todo[k] \in Seq(ClientCode)
                 /\ \A p \in Outputs : todo[p] \in Seq(WriterCode)
                 /\ \A r \in Inputs : todo[r] \in Seq(ReaderCode)
  BY Codes DEF TypeOK, TodoOK, Threads, Ports

LEMMA TodoStep ==
    ASSUME TodoOK, NEW t \in Threads, NEW new \in Seq(Code(t)), todo' = [todo EXCEPT ![t] = new]
    PROVE  TodoOK'
  <1>1. Code(t) \subseteq ClientCode \cup WriterCode \cup ReaderCode
    BY DEF Code
  <1>2. new \in Seq(ClientCode \cup WriterCode \cup ReaderCode)
    BY <1>1, SeqMonotonic
  <1>3. todo' \in [Threads -> Seq(ClientCode \cup WriterCode \cup ReaderCode)]
    BY <1>2 DEF TodoOK
  <1>4. ASSUME NEW u \in Threads
        PROVE  todo'[u] \in Seq(Code(u))
    BY DEF TodoOK
  <1> QED
    BY <1>3, <1>4 DEF TodoOK

LEMMA ThenTyped ==
    ASSUME TodoOK, NEW t \in Threads, NEW new \in Seq(Code(t)), ~Idle(t), Then(t, new)
    PROVE  TodoOK'
  <1>1. todo[t] \in Seq(Code(t)) /\ todo[t] # <<>>
    BY DEF TodoOK, Idle
  <1>2. Tail(todo[t]) \in Seq(Code(t))
    BY <1>1, HeadTailProperties
  <1>3. new \o Tail(todo[t]) \in Seq(Code(t))
    BY <1>2, ConcatProperties
  <1> QED
    BY <1>3, TodoStep DEF Then, Do

\* The type of the instructions of a thread that does one of them.
LEMMA Coded ==
    ASSUME TodoOK, NEW t \in Threads, NEW h, Does(t, h)
    PROVE  h \in Code(t) /\ ~Idle(t)
  BY Begun DEF TodoOK, Does

LEMMA ListsTyped ==
    ASSUME TypeOK, NEW port \in Ports
    PROVE  /\ conns[port] \in Seq(Channels) /\ DOMAIN conns[port] \subseteq Nat \ {0}
           /\ \A i \in DOMAIN conns[port] : conns[port][i] \in Channels
           /\ DOMAIN conns[port] = 1 .. Len(conns[port]) /\ Len(conns[port]) \in Nat
           /\ conns[port] # <<>> <=> 1 \in DOMAIN conns[port]
           /\ \A c : Contains(conns[port], c) <=> Listed(c, port)
  <1>1. conns[port] \in Seq(Channels)
    BY DEF TypeOK
  <1>2. DOMAIN conns[port] = 1 .. Len(conns[port]) /\ Len(conns[port]) \in Nat
    BY <1>1, LenProperties
  <1>3. conns[port] # <<>> <=> Len(conns[port]) # 0
    BY <1>1, EmptySeq
  <1> QED
    BY <1>1, <1>2, <1>3, ElementOfSeq DEF Contains, Listed

\* Nothing but the list and the current channel of a port change when an entry is removed.
LEMMA Entry ==
    ASSUME TypeOK, NEW port \in Ports, NEW i \in DOMAIN conns[port], Removed(port, i)
    PROVE  /\ conns' = [conns EXCEPT ![port] = RemoveAt(conns[port], i)]
           /\ conns' \in [Ports -> Seq(Channels)] /\ current' \in [Inputs -> Channels \cup {None}]
           /\ \A q \in Ports \ {port} : conns'[q] = conns[q]
           /\ \A r \in Inputs \ {port} : current'[r] = current[r]
           /\ conns[port][i] \in Channels
  <1> DEFINE s == conns[port]
             rest == RemoveAt(s, i)
  <1>1. s \in Seq(Channels)
    BY DEF TypeOK
  <1>2. /\ rest \in Seq(Channels) /\ s[i] \in Channels
        /\ rest # <<>> => 1 \in DOMAIN rest
    BY <1>1, Erasing
  <1> HIDE DEF rest
  <1>3. rest # <<>> => rest[1] \in Channels
    BY <1>2
  <1>4. /\ conns' = [conns EXCEPT ![port] = rest]
        /\ current' = IF port \in Outputs THEN current
                      ELSE [current EXCEPT ![port] = IF rest = <<>> THEN None
                                                     ELSE IF @ = s[i] THEN rest[1]
                                                     ELSE @]
    BY DEF Removed, rest
  <1>5. conns' \in [Ports -> Seq(Channels)] /\ \A q \in Ports \ {port} : conns'[q] = conns[q]
    BY <1>2, <1>4 DEF TypeOK
  <1>6. current \in [Inputs -> Channels \cup {None}]
    BY DEF TypeOK
  <1>7. current' \in [Inputs -> Channels \cup {None}] /\ \A r \in Inputs \ {port} : current'[r] = current[r]
    BY <1>3, <1>4, <1>6
  <1> QED
    BY <1>2, <1>4, <1>5, <1>7 DEF rest

LEMMA StoredTyped ==
    ASSUME NEW c \in Channels, NEW v \in Nat, NEW ch \in [Channels -> Cell]
    PROVE  Stored(ch, c, v) \in [Channels -> Cell]
  <1>1. ch[c].queue \in Seq(Nat) /\ ch[c] \in Cell
    BY DEF Cell
  <1> DEFINE q == ch[c].queue
  <1> HIDE DEF q
  <1>2. q \in Seq(Nat)
    BY <1>1 DEF q
  <1>3. Append(q, v) \in Seq(Nat)
    BY <1>2, AppendProperties
  <1>4. Pushed(q, c, v) \in Seq(Nat)
    <2>1. CASE Len(q) < Size
      BY <1>3, <2>1 DEF Pushed
    <2>2. CASE ~(Len(q) < Size)
      <3>1. q # <<>>
        BY <2>2, EmptySeq, ConnectionsAssumption
      <3>2. Tail(q) \in Seq(Nat)
        BY <1>2, <3>1, HeadTailProperties
      <3>3. Append(Tail(q), v) \in Seq(Nat)
        BY <3>2, AppendProperties
      <3> QED
        BY <1>2, <2>2, <3>3 DEF Pushed
    <2> QED
      BY <2>1, <2>2
  <1> DEFINE a == [ch[c] EXCEPT !.value = v, !.written = TRUE, !.read = FALSE]
             b == [ch[c] EXCEPT !.queue = Pushed(q, c, v)]
  <1>5. a \in Cell /\ b \in Cell
    BY <1>1, <1>4 DEF Cell
  <1>6. CASE Kind[c] = "data"
    <2>1. Stored(ch, c, v) = [ch EXCEPT ![c] = a]
      BY <1>6 DEF Stored
    <2> QED
      BY <1>5, <2>1
  <1>7. CASE Kind[c] # "data"
    <2>1. Stored(ch, c, v) = [ch EXCEPT ![c] = b]
      BY <1>7 DEF Stored, q
    <2> QED
      BY <1>5, <2>1
  <1> QED
    BY <1>6, <1>7

LEMMA GoneTyped == Gone \in Cell
  <1>1. Built(0) \in Cell
    BY DEF Built, Cell, Elements
  <1> QED
    BY <1>1 DEF Gone, Cell

LEMMA TypeStep == TypeOK /\ [Next]_vars => TypeOK'
  <1> SUFFICES ASSUME TypeOK, [Next]_vars
               PROVE  TypeOK'
    OBVIOUS
  <1>0. /\ TodoOK /\ conns \in [Ports -> Seq(Channels)] /\ chan \in [Channels -> Cell]
        /\ current \in [Inputs -> Channels \cup {None}] /\ samples \in [Outputs -> Nat]
        /\ kept \in [Outputs -> [sample : Nat, initial : BOOLEAN, last : BOOLEAN]]
        /\ signalled \subseteq Inputs /\ got \in [Channels -> Nat]
    BY TodoTyped DEF TypeOK, Cell
  <1> DEFINE Typed == /\ TodoOK' /\ conns' \in [Ports -> Seq(Channels)] /\ chan' \in [Channels -> Cell]
                      /\ current' \in [Inputs -> Channels \cup {None}] /\ samples' \in [Outputs -> Nat]
                      /\ kept' \in [Outputs -> [sample : Nat, initial : BOOLEAN, last : BOOLEAN]]
                      /\ signalled' \subseteq Inputs /\ got' \in [Channels -> Nat]
  <1> SUFFICES Typed
    BY Codes DEF TypeOK, Cell, TodoOK
  <1>1. \A c \in Channels, v \in Nat : Stored(chan, c, v) \in [Channels -> Cell]
    BY <1>0, StoredTyped
  <1>2. \A c \in Channels : From[c] \in Outputs /\ To[c] \in Inputs /\ kept[From[c]].sample \in Nat
    BY <1>0, Consts
  <1>a. ASSUME NEW k \in Clients, Client(k)
        PROVE  Typed
    <2>1. k \in Threads /\ Code(k) = ClientCode /\ <<>> \in Seq(Code(k))
      BY Consts DEF Code
    <2>2. CASE CreateConnection(k)
      <3>1. PICK c \in Channels :
               LET last == kept[From[c]]
                   built == [chan EXCEPT ![c] = Built(last.sample)]
               IN  /\ chan' = built \/ chan' = Stored(built, c, last.sample)
                   /\ signalled' = signalled \cup {To[c]} \/ signalled' = signalled
                   /\ Do(k, <<<<"add", c, From[c]>>, <<"add", c, To[c]>>>>)
                   /\ UNCHANGED <<conns, current, samples, kept, got>>
        BY <2>2 DEF CreateConnection
      <3> DEFINE v == kept[From[c]].sample
                 built == [chan EXCEPT ![c] = Built(v)]
      <3>2. v \in Nat /\ Built(v) \in Cell
        BY <1>2 DEF Built, Cell, Elements
      <3> HIDE DEF v
      <3>3. built \in [Channels -> Cell]
        BY <1>0, <3>2
      <3>4. chan' = built \/ chan' = Stored(built, c, v)
        BY <3>1 DEF v
      <3> HIDE DEF built
      <3>5. chan' \in [Channels -> Cell]
        BY <3>2, <3>3, <3>4, StoredTyped
      <3>6. <<"add", c, From[c]>> \in ClientCode /\ <<"add", c, To[c]>> \in ClientCode
        BY Consts DEF ClientCode
      <3>7. <<<<"add", c, From[c]>>, <<"add", c, To[c]>>>> \in Seq(Code(k))
        BY <2>1, <3>6
      <3>8. TodoOK'
        BY <1>0, <2>1, <3>1, <3>7, TodoStep DEF Do
      <3> QED
        BY <1>0, <1>2, <3>1, <3>5, <3>8
    <2>3. CASE AddConnection(k)
      <3>1. PICK c \in Channels, port \in Ports :
               /\ Does(k, <<"add", c, port>>) /\ Then(k, <<>>)
               /\ conns' = [conns EXCEPT ![port] = Append(@, c)]
               /\ current' = IF port \in Inputs /\ conns[port] = <<>>
                             THEN [current EXCEPT ![port] = c] ELSE current
               /\ UNCHANGED <<chan, samples, kept, signalled, got>>
        BY <2>3 DEF AddConnection
      <3>2. Append(conns[port], c) \in Seq(Channels)
        BY <1>0, AppendProperties
      <3>3. TodoOK'
        BY <1>0, <2>1, <3>1, Coded, ThenTyped
      <3> QED
        BY <1>0, <3>1, <3>2, <3>3
    <2>4. CASE Disconnect(k)
      <3>1. PICK c \in Channels : 
               /\ Do(k, <<<<"remove", From[c], To[c]>>>>) \/ Do(k, <<<<"remove", To[c], From[c]>>>>)
               /\ UNCHANGED <<chan, conns, current, samples, kept, signalled, got>>
        BY <2>4 DEF Disconnect
      <3>2. <<"remove", From[c], To[c]>> \in Code(k) /\ <<"remove", To[c], From[c]>> \in Code(k)
        BY <2>1, Consts DEF ClientCode
      <3>3. <<<<"remove", From[c], To[c]>>>> \in Seq(Code(k)) /\ <<<<"remove", To[c], From[c]>>>> \in Seq(Code(k))
        BY <3>2
      <3>4. TodoOK'
        BY <1>0, <2>1, <3>1, <3>3, TodoStep DEF Do
      <3> QED
        BY <1>0, <3>1, <3>4
    <2>5. CASE DisconnectAll(k)
      <3>1. PICK port \in Ports :
               /\ conns' = [conns EXCEPT ![port] = <<>>]
               /\ current' = IF port \in Inputs THEN [current EXCEPT ![port] = None] ELSE current
               /\ Do(k, [i \in DOMAIN conns[port] |-> Drop(conns[port][i], port)])
               /\ UNCHANGED <<chan, samples, kept, signalled, got>>
        BY <2>5 DEF DisconnectAll
      <3>2. /\ DOMAIN conns[port] = 1 .. Len(conns[port]) /\ Len(conns[port]) \in Nat
            /\ \A i \in DOMAIN conns[port] : conns[port][i] \in Channels
        BY ListsTyped
      <3>3. \A c \in Channels : Drop(c, port) \in Code(k)
        BY <2>1 DEF Drop, ClientCode, Near, Toward, Elements, Ways
      <3>4. [i \in DOMAIN conns[port] |-> Drop(conns[port][i], port)] \in Seq(Code(k))
        BY <3>2, <3>3
      <3>5. TodoOK'
        BY <1>0, <2>1, <3>1, <3>4, TodoStep DEF Do
      <3> QED
        BY <1>0, <3>1, <3>5
    <2>6. CASE RemoveConnection(k)
      <3>1. PICK port \in Ports, other \in Ports :
               /\ Does(k, <<"remove", port, other>>)
               /\ \/ Then(k, <<>>) /\ UNCHANGED <<conns, current>>
                  \/ \E i \in DOMAIN conns[port] :
                        Removed(port, i) /\ Then(k, <<Drop(conns[port][i], port)>>)
               /\ UNCHANGED <<chan, samples, kept, signalled, got>>
        BY <2>6 DEF RemoveConnection
      <3>2. CASE Then(k, <<>>) /\ UNCHANGED <<conns, current>>
        <4>1. TodoOK'
          BY <1>0, <2>1, <3>1, <3>2, Coded, ThenTyped
        <4> QED
          BY <1>0, <3>1, <3>2, <4>1
      <3>3. CASE \E i \in DOMAIN conns[port] :
                    Removed(port, i) /\ Then(k, <<Drop(conns[port][i], port)>>)
        <4>1. PICK i \in DOMAIN conns[port] : Removed(port, i) /\ Then(k, <<Drop(conns[port][i], port)>>)
          BY <3>3
        <4>2. /\ conns' \in [Ports -> Seq(Channels)] /\ current' \in [Inputs -> Channels \cup {None}]
              /\ conns[port][i] \in Channels
          BY <4>1, Entry
        <4>3. Drop(conns[port][i], port) \in Code(k)
          BY <2>1, <4>2 DEF Drop, ClientCode, Near, Toward, Elements, Ways
        <4>4. <<Drop(conns[port][i], port)>> \in Seq(Code(k))
          BY <4>3
        <4>5. TodoOK'
          BY <1>0, <2>1, <3>1, <4>1, <4>4, Coded, ThenTyped
        <4> QED
          BY <1>0, <3>1, <4>2, <4>5
      <3> QED
        BY <3>1, <3>2, <3>3
    <2>7. CASE DropElement(k)
      <3>1. PICK c \in Channels, e \in Elements, way \in Ways :
               /\ Does(k, <<"drop", c, e, way>>)
               /\ \/ Then(k, <<<<"drop", c, Following(e, way), way>>, <<"clear", c, e, way>>>>)
                  \/ Then(k, <<<<"clear", c, e, way>>>>)
               /\ UNCHANGED <<chan, conns, current, samples, kept, signalled, got>>
        BY <2>7 DEF DropElement
      <3>2. <<"drop", c, Following(e, way), way>> \in Code(k) /\ <<"clear", c, e, way>> \in Code(k)
        BY <2>1 DEF ClientCode, Following, Far, Elements
      <3>3. /\ <<<<"drop", c, Following(e, way), way>>, <<"clear", c, e, way>>>> \in Seq(Code(k))
            /\ <<<<"clear", c, e, way>>>> \in Seq(Code(k))
        BY <3>2
      <3>4. TodoOK'
        BY <1>0, <2>1, <3>1, <3>3, Coded, ThenTyped
      <3> QED
        BY <1>0, <3>1, <3>4
    <2>8. CASE ClearElement(k)
      <3>1. PICK c \in Channels, e \in Elements, way \in Ways :
               LET far == e = Far(way) /\ e \in chan[c].ports
               IN  /\ Does(k, <<"clear", c, e, way>>)
                   /\ Cleared(c, [chan[c] EXCEPT !.links = @ \ {e}, !.ports = IF far THEN @ \ {e} ELSE @])
                   /\ \/ Then(k, <<<<"remove", End(c, Far(way)), End(c, Near(way))>>>>)
                      \/ Then(k, <<>>)
        BY <2>8 DEF ClearElement
      <3> DEFINE rest == [chan[c] EXCEPT !.links = @ \ {e},
                                         !.ports = IF e = Far(way) /\ e \in chan[c].ports THEN @ \ {e} ELSE @]
      <3>2. chan[c] \in Cell
        BY <1>0
      <3>3. rest \in Cell /\ Gone \in Cell
        <4>1. rest.links \in SUBSET Elements /\ rest.ports \in SUBSET {"in", "out"}
              /\ rest = [chan[c] EXCEPT !.links = rest.links, !.ports = rest.ports]
          BY <3>2 DEF Cell
        <4> HIDE DEF rest
        <4> QED
          BY <3>2, <4>1, GoneTyped DEF Cell
      <3>4. Cleared(c, rest)
        BY <3>1
      <3> HIDE DEF rest
      <3>5. chan' \in [Channels -> Cell] /\ got' \in [Channels -> Nat] /\ UNCHANGED <<conns, current, samples, kept, signalled>>
        BY <1>0, <3>3, <3>4 DEF Cleared
      <3>6. <<"remove", End(c, Far(way)), End(c, Near(way))>> \in Code(k)
        BY <2>1, Consts DEF ClientCode, End
      <3>7. <<<<"remove", End(c, Far(way)), End(c, Near(way))>>>> \in Seq(Code(k))
        BY <3>6
      <3>8. TodoOK'
        BY <1>0, <2>1, <3>1, <3>7, Coded, ThenTyped
      <3> QED
        BY <1>0, <3>5, <3>8
    <2> QED
      BY <1>a, <2>2, <2>3, <2>4, <2>5, <2>6, <2>7, <2>8 DEF Client
  <1>b. ASSUME NEW p \in Outputs, Writer(p)
        PROVE  Typed
    <2>1. p \in Threads /\ p \in Ports /\ Code(p) = WriterCode /\ <<>> \in Seq(Code(p))
      BY Consts DEF Code
    <2>2. \A c \in Channels : /\ <<"put", c>> \in Code(p) /\ <<"written", c>> \in Code(p)
                              /\ <<"unread", c>> \in Code(p) /\ <<"signal", c>> \in Code(p)
      BY <2>1 DEF WriterCode
    <2>3. CASE Write(p)
      <3>1. <<"lock", p>> \in Code(p)
        BY <2>1 DEF WriterCode
      <3>2. <<<<"lock", p>>>> \in Seq(Code(p))
        BY <3>1
      <3>3. TodoOK'
        BY <1>0, <2>1, <2>3, <3>2, TodoStep DEF Write, Do
      <3>4. samples' \in [Outputs -> Nat]
        BY <1>0, <2>3 DEF Write
      <3>5. kept' \in [Outputs -> [sample : Nat, initial : BOOLEAN, last : BOOLEAN]]
        BY <1>0, <2>3, <3>4 DEF Write
      <3> QED
        BY <1>0, <2>3, <3>3, <3>4, <3>5 DEF Write
    <2>4. CASE LockForWrite(p)
      <3>1. /\ DOMAIN conns[p] = 1 .. Len(conns[p]) /\ Len(conns[p]) \in Nat
            /\ \A i \in DOMAIN conns[p] : conns[p][i] \in Channels
        BY <2>1, ListsTyped
      <3>4. \A i \in DOMAIN conns[p] : <<"put", conns[p][i]>> \in Code(p)
        BY <2>2, <3>1
      <3> DEFINE put(i) == <<"put", conns[p][i]>>
      <3> HIDE DEF put
      <3>5. [i \in DOMAIN conns[p] |-> put(i)] \in Seq(Code(p))
        BY <3>1, <3>4 DEF put
      <3>2. [i \in DOMAIN conns[p] |-> <<"put", conns[p][i]>>] \in Seq(Code(p))
        BY <3>5 DEF put
      <3>3. TodoOK'
        BY <1>0, <2>1, <2>4, <3>2, TodoStep DEF LockForWrite, Do
      <3> QED
        BY <1>0, <2>4, <3>3 DEF LockForWrite
    <2>5. CASE PutNowhere(p)
      <3>1. PICK c \in Channels, i \in DOMAIN conns[p] :
               /\ Does(p, <<"put", c>>) /\ Removed(p, i) /\ Then(p, <<>>)
               /\ UNCHANGED <<chan, samples, kept, signalled, got>>
        BY <2>5 DEF PutNowhere
      <3>2. conns' \in [Ports -> Seq(Channels)] /\ current' \in [Inputs -> Channels \cup {None}]
        BY <2>1, <3>1, Entry
      <3>3. TodoOK'
        BY <1>0, <2>1, <3>1, Coded, ThenTyped
      <3> QED
        BY <1>0, <3>1, <3>2, <3>3
    <2>6. CASE PutData(p)
      <3>1. PICK c \in Channels :
               /\ Does(p, <<"put", c>>) /\ chan' = [chan EXCEPT ![c].value = samples[p]]
               /\ Then(p, <<<<"written", c>>, <<"unread", c>>, <<"signal", c>>>>)
               /\ UNCHANGED <<conns, current, samples, kept, signalled, got>>
        BY <2>6 DEF PutData
      <3>5. <<"written", c>> \in Code(p) /\ <<"unread", c>> \in Code(p) /\ <<"signal", c>> \in Code(p)
        BY <2>2
      <3>2. <<<<"written", c>>, <<"unread", c>>, <<"signal", c>>>> \in Seq(Code(p))
        BY <3>5
      <3>3. TodoOK'
        BY <1>0, <2>1, <3>1, <3>2, Coded, ThenTyped
      <3>4. chan' \in [Channels -> Cell]
        <4> DEFINE x == [chan[c] EXCEPT !.value = samples[p]]
        <4>1. chan' = [chan EXCEPT ![c] = x]
          BY <3>1
        <4>2. x \in Cell
          BY <1>0, CellStored
        <4> HIDE DEF x
        <4> QED
          BY <1>0, <4>1, <4>2, ChannelStored
      <3> QED
        BY <1>0, <3>1, <3>3, <3>4
    <2>7. CASE SetFlag(p)
      <3>1. PICK c \in Channels :
               /\ \/ Does(p, <<"written", c>>) /\ chan' = [chan EXCEPT ![c].written = TRUE]
                  \/ Does(p, <<"unread", c>>) /\ chan' = [chan EXCEPT ![c].read = FALSE]
               /\ Then(p, <<>>)
               /\ UNCHANGED <<conns, current, samples, kept, signalled, got>>
        BY <2>7 DEF SetFlag
      <3>2. TodoOK'
        BY <1>0, <2>1, <3>1, Coded, ThenTyped
      <3>3. chan' \in [Channels -> Cell]
        <4>1. chan[c] \in Cell
          BY <1>0
        <4>2. [chan[c] EXCEPT !.written = TRUE] \in Cell /\ [chan[c] EXCEPT !.read = FALSE] \in Cell
          BY <4>1 DEF Cell
        <4> QED
          BY <1>0, <3>1, <4>2
      <3> QED
        BY <1>0, <3>1, <3>2, <3>3
    <2>8. CASE PutBuffer(p)
      <3>1. PICK c \in Channels :
               /\ Does(p, <<"put", c>>) /\ chan' = Stored(chan, c, samples[p])
               /\ Then(p, <<>>) \/ Then(p, <<<<"signal", c>>>>)
               /\ UNCHANGED <<conns, current, samples, kept, signalled, got>>
        BY <2>8 DEF PutBuffer
      <3>4. <<"signal", c>> \in Code(p)
        BY <2>2
      <3>2. <<<<"signal", c>>>> \in Seq(Code(p))
        BY <3>4
      <3>3. TodoOK'
        BY <1>0, <2>1, <3>1, <3>2, Coded, ThenTyped
      <3> QED
        BY <1>0, <1>1, <3>1, <3>3
    <2>9. CASE SignalPort(p)
      <3>1. PICK c \in Channels :
               /\ Does(p, <<"signal", c>>) /\ Then(p, <<>>)
               /\ signalled' = signalled \cup {To[c]} \/ signalled' = signalled
               /\ UNCHANGED <<chan, conns, current, samples, kept, got>>
        BY <2>9 DEF SignalPort
      <3>2. TodoOK'
        BY <1>0, <2>1, <3>1, Coded, ThenTyped
      <3> QED
        BY <1>0, <1>2, <3>1, <3>2
    <2> QED
      BY <1>b, <2>3, <2>4, <2>5, <2>6, <2>7, <2>8, <2>9 DEF Writer
  <1>c. ASSUME NEW r \in Inputs, Reader(r)
        PROVE  Typed
    <2>1. r \in Threads /\ r \in Ports /\ Code(r) = ReaderCode /\ <<>> \in Seq(Code(r))
      BY Consts DEF Code
    <2>2. /\ \A c \in Channels : <<"take", c>> \in Code(r) /\ \A v \in Nat : <<"mark", c, v>> \in Code(r)
          /\ <<"read", r>> \in Code(r)
      BY <2>1 DEF ReaderCode
    <2>3. <<<<"read", r>>>> \in Seq(Code(r))
      BY <2>2
    <2>4. Tried(r) \in Seq(Code(r))
      <3> DEFINE tried == (IF current[r] = None THEN <<>> ELSE <<current[r]>>) \o conns[r]
      <3>1. conns[r] \in Seq(Channels) /\ current[r] \in Channels \cup {None}
        BY <1>0, <2>1
      <3>2. (IF current[r] = None THEN <<>> ELSE <<current[r]>>) \in Seq(Channels)
        BY <3>1
      <3>3. tried \in Seq(Channels)
        BY <3>1, <3>2, ConcatProperties
      <3> HIDE DEF tried
      <3>4. DOMAIN tried = 1 .. Len(tried) /\ Len(tried) \in Nat /\ \A i \in DOMAIN tried : tried[i] \in Channels
        BY <3>3, LenProperties, ElementOfSeq
      <3>5. [i \in DOMAIN tried |-> <<"take", tried[i]>>] \in Seq(Code(r))
        BY <2>2, <3>4
      <3> QED
        BY <3>5 DEF Tried, tried
    <2>5. ASSUME NEW c \in Channels, NEW v \in Nat, NewData(r, c, v), chan' \in [Channels -> Cell]
          PROVE  Typed
      <3>1. TodoOK'
        BY <1>0, <2>1, <2>3, <2>5, TodoStep DEF NewData, Do
      <3> QED
        BY <1>0, <2>5, <3>1 DEF NewData
    <2>6. CASE BeginRead(r) \/ ReadAgain(r)
      <3>1. TodoOK'
        BY <1>0, <2>1, <2>4, <2>6, TodoStep DEF BeginRead, ReadAgain, Do
      <3> QED
        BY <1>0, <2>6, <3>1 DEF BeginRead, ReadAgain
    <2>7. CASE TakeNothing(r)
      <3>1. PICK c \in Channels :
               /\ Does(r, <<"take", c>>) /\ Then(r, <<>>)
               /\ UNCHANGED <<chan, conns, current, samples, kept, signalled, got>>
        BY <2>7 DEF TakeNothing
      <3>2. TodoOK'
        BY <1>0, <2>1, <3>1, Coded, ThenTyped
      <3> QED
        BY <1>0, <3>1, <3>2
    <2>8. CASE TakeData(r)
      <3>1. PICK c \in Channels :
               /\ Do(r, <<<<"mark", c, chan[c].value>>>>)
               /\ UNCHANGED <<chan, conns, current, samples, kept, signalled, got>>
        BY <2>8 DEF TakeData
      <3>2. chan[c].value \in Nat
        BY <1>0 DEF Cell
      <3>5. <<"mark", c, chan[c].value>> \in Code(r)
        BY <2>2, <3>2
      <3>3. <<<<"mark", c, chan[c].value>>>> \in Seq(Code(r))
        BY <3>5
      <3>4. TodoOK'
        BY <1>0, <2>1, <3>1, <3>3, TodoStep DEF Do
      <3> QED
        BY <1>0, <3>1, <3>4
    <2>9. CASE MarkRead(r)
      <3>1. PICK c \in Channels :
               \E v \in 0 .. MaxSample[From[c]] :
                  Does(r, <<"mark", c, v>>) /\ chan' = [chan EXCEPT ![c].read = TRUE] /\ NewData(r, c, v)
        BY <2>9 DEF MarkRead
      <3>4. MaxSample[From[c]] \in Nat
        BY Consts, ConnectionsAssumption
      <3>2. PICK v \in Nat : chan' = [chan EXCEPT ![c].read = TRUE] /\ NewData(r, c, v)
        BY <3>1, <3>4
      <3>3. chan' \in [Channels -> Cell]
        <4> DEFINE x == [chan[c] EXCEPT !.read = TRUE]
        <4>1. chan' = [chan EXCEPT ![c] = x]
          BY <3>2
        <4>2. x \in Cell
          BY <1>0, CellStored
        <4> HIDE DEF x
        <4> QED
          BY <1>0, <4>1, <4>2, ChannelStored
      <3> QED
        BY <2>5, <3>2, <3>3
    <2>10. CASE TakeBuffer(r)
      <3>1. PICK c \in Channels :
               /\ HasNew(c) /\ Kind[c] # "data"
               /\ chan' = [chan EXCEPT ![c].queue = Tail(@)]
               /\ NewData(r, c, Head(chan[c].queue))
        BY <2>10 DEF TakeBuffer
      <3>2. chan[c].queue \in Seq(Nat) /\ chan[c].queue # <<>>
        BY <1>0, <3>1 DEF HasNew, Cell
      <3>3. Head(chan[c].queue) \in Nat /\ Tail(chan[c].queue) \in Seq(Nat)
        BY <3>2, HeadTailProperties
      <3>4. chan' \in [Channels -> Cell]
        <4> DEFINE x == [chan[c] EXCEPT !.queue = Tail(chan[c].queue)]
        <4>1. chan' = [chan EXCEPT ![c] = x]
          BY <3>1
        <4>2. x \in Cell
          BY <1>0, <3>3, CellStored
        <4> HIDE DEF x
        <4> QED
          BY <1>0, <4>1, <4>2, ChannelStored
      <3> QED
        BY <2>5, <3>1, <3>3, <3>4
    <2>11. CASE Clear(r)
      <3>1. <<>> \in Seq(Nat)
        OBVIOUS
      <3>2. chan' \in [Channels -> Cell]
        <4> DEFINE x(c) == IF Contains(conns[r], c) /\ "out" \in chan[c].links
                           THEN [chan[c] EXCEPT !.written = FALSE, !.read = FALSE, !.queue = <<>>]
                           ELSE chan[c]
        <4>1. chan' = [c \in Channels |-> x(c)]
          BY <2>11 DEF Clear
        <4>2. \A c \in Channels : x(c) \in Cell
          BY <1>0, <3>1, CellStored
        <4> HIDE DEF x
        <4> QED
          BY <4>1, <4>2
      <3>3. TodoOK'
        BY <1>0, <2>11 DEF Clear, TodoOK
      <3> QED
        BY <1>0, <2>11, <3>2, <3>3 DEF Clear
    <2> QED
      BY <1>c, <2>6, <2>7, <2>8, <2>9, <2>10, <2>11 DEF Reader
  <1>d. CASE UNCHANGED vars
    BY <1>0, <1>d DEF vars, TodoOK
  <1> QED
    BY <1>a, <1>b, <1>c, <1>d DEF Next

LEMMA TypeInit == Init => TypeOK
  <1> SUFFICES ASSUME Init
               PROVE  TypeOK
    OBVIOUS
  <1>1. chan \in [Channels -> Cell]
    BY GoneTyped DEF Init
  <1>2. \A S : <<>> \in Seq(S)
    OBVIOUS
  <1> QED
    BY <1>1, <1>2, Consts DEF Init, TypeOK, Cell

-----------------------------------------------------------------------------
(***************************************************************************)
(* The current channel.                                                    *)
(***************************************************************************)

LEMMA Containing ==
    ASSUME NEW cs \in [Ports -> Seq(Channels)], NEW port \in Ports, NEW c
    PROVE  Contains(cs[port], c) <=> \E i \in DOMAIN cs[port] : cs[port][i] = c
  <1>1. DOMAIN cs[port] = 1 .. Len(cs[port])
    BY LenProperties
  <1> QED
    BY <1>1 DEF Contains

Attached(r) == IF conns[r] = <<>> THEN current[r] = None ELSE Listed(current[r], r)

LEMMA CurrentDef ==
    /\ TypeOK => (CurrentConnected <=> \A r \in Inputs : Attached(r))
    /\ TypeOK' => (CurrentConnected' <=> \A r \in Inputs : Attached(r)')
  <1>1. ASSUME TypeOK, NEW r \in Inputs
        PROVE  Contains(conns[r], current[r]) <=> Listed(current[r], r)
    <2>1. conns \in [Ports -> Seq(Channels)] /\ r \in Ports
      BY <1>1, Consts DEF TypeOK
    <2> QED
      BY <2>1, Containing DEF Listed
  <1>2. ASSUME TypeOK', NEW r \in Inputs
        PROVE  Contains(conns'[r], current'[r]) <=> Listed(current[r], r)'
    <2>1. conns' \in [Ports -> Seq(Channels)] /\ r \in Ports
      BY <1>2, Consts DEF TypeOK
    <2> QED
      BY <2>1, Containing DEF Listed
  <1> QED
    BY <1>1, <1>2 DEF CurrentConnected, Attached

LEMMA NotReading ==
    ASSUME TypeOK, Readers, NEW r \in Inputs, Unlocked(r)
    PROVE  /\ \A c \in Channels : ~Has(r, <<"take", c>>)
           /\ \A c \in Channels, v \in Nat : ~Has(r, <<"mark", c, v>>)
  <1>1. CASE Idle(r)
    BY <1>1 DEF Idle, Has
  <1>2. CASE ~Idle(r)
    <2>1. todo[r] \in Seq(ReaderCode)
      BY DEF TypeOK
    <2>2. Head(todo[r]) \in ReaderCode /\ Has(r, Head(todo[r]))
      BY <1>2, <2>1, Begun
    <2>3. Head(todo[r])[1] = "lock" \/ Head(todo[r])[1] = "read"
      BY <1>2 DEF Unlocked, At
    <2>4. PICK q \in Inputs : Head(todo[r]) = <<"read", q>>
      BY <2>2, <2>3 DEF ReaderCode
    <2>5. todo[r] = <<<<"read", r>>>>
      BY <2>2, <2>4 DEF Readers
    <2> QED
      BY <2>5 DEF Has
  <1> QED
    BY <1>1, <1>2

\* The readers do nothing; a list that changes is not locked.
LEMMA ShapeFrame ==
    ASSUME TypeOK, Readers, CurrentConnected, TypeOK',
           \A r \in Inputs : todo'[r] = todo[r],
           \A r \in Inputs : \/ conns'[r] = conns[r] /\ current'[r] = current[r]
                             \/ Unlocked(r) /\ Attached(r)'
    PROVE  Readers' /\ CurrentConnected'
  <1>1. ASSUME NEW r \in Inputs
        PROVE  Attached(r)'
    <2>1. Attached(r)
      BY CurrentDef
    <2> QED
      BY <2>1 DEF Attached, Listed
  <1>2. ASSUME NEW r \in Inputs
        PROVE  /\ \A c \in Channels : Has(r, <<"take", c>>)' => Listed(c, r)'
               /\ \A c \in Channels, v \in Nat :
                     Has(r, <<"mark", c, v>>)' => Listed(c, r)' /\ todo'[r] = <<<<"mark", c, v>>>>
               /\ \A q \in Inputs : Has(r, <<"read", q>>)' => todo'[r] = <<<<"read", r>>>>
    <2>1. \A x : Has(r, x)' <=> Has(r, x)
      BY DEF Has
    <2>2. CASE Unlocked(r)
      BY <2>1, <2>2, NotReading DEF Readers
    <2>3. CASE conns'[r] = conns[r]
      <3>1. \A c : Listed(c, r)' <=> Listed(c, r)
        BY <2>3 DEF Listed
      <3> QED
        BY <2>1, <3>1 DEF Readers
    <2> QED
      BY <2>2, <2>3
  <1> QED
    BY <1>1, <1>2, CurrentDef DEF Readers

\* The current channel of a list an entry was removed from.
LEMMA StaysAttached ==
    ASSUME TypeOK, CurrentConnected, NEW r \in Inputs, NEW i \in DOMAIN conns[r], Removed(r, i)
    PROVE  Attached(r)'
  <1> DEFINE s == conns[r]
             rest == RemoveAt(s, i)
  <1>0. r \in Ports /\ r \notin Outputs
    BY Consts
  <1>1. /\ s \in Seq(Channels) /\ conns \in [Ports -> Seq(Channels)]
        /\ current \in [Inputs -> Channels \cup {None}]
    BY <1>0 DEF TypeOK
  <1> HIDE DEF s
  <1>2. /\ i \in Nat
        /\ \A j \in DOMAIN s : /\ j \in Nat /\ j > 0
                               /\ j < i => j \in DOMAIN rest /\ rest[j] = s[j]
                               /\ j > i => j - 1 \in DOMAIN rest /\ rest[j - 1] = s[j]
    <2>1. i \in DOMAIN s
      BY DEF s
    <2> QED
      BY <1>1, <2>1, Erasing
  <1> HIDE DEF rest
  <1>3. /\ conns'[r] = rest
        /\ current'[r] = IF rest = <<>> THEN None ELSE IF current[r] = s[i] THEN rest[1] ELSE current[r]
    BY <1>0, <1>1 DEF Removed, rest, s
  <1>4. s # <<>> /\ Listed(current[r], r)
    <2>1. s # <<>>
      BY DEF s
    <2> QED
      BY <2>1, CurrentDef DEF Attached, s
  <1>5. ASSUME current[r] # s[i]
        PROVE  \E j \in DOMAIN rest : rest[j] = current[r]
    <2>1. PICK j \in DOMAIN s : s[j] = current[r]
      BY <1>4 DEF Listed, s
    <2>2. j < i \/ j > i
      BY <1>2, <1>5, <2>1
    <2> QED
      BY <1>2, <2>1, <2>2
  <1>6. rest # <<>> => 1 \in DOMAIN rest
    BY <1>1, Erasing DEF rest, s
  <1> QED
    BY <1>3, <1>5, <1>6 DEF Attached, Listed

LEMMA ShapeStep == Shape /\ [Next]_vars => Shape'
  <1> SUFFICES ASSUME Shape, [Next]_vars
               PROVE  Readers' /\ CurrentConnected'
    BY TypeStep DEF Shape
  <1>0. TypeOK /\ Readers /\ CurrentConnected /\ TypeOK'
    BY TypeStep DEF Shape
  <1>1. todo \in [Threads -> Seq(ClientCode \cup WriterCode \cup ReaderCode)]
    BY <1>0 DEF TypeOK
  <1>2. ASSUME NEW t \in Threads, t \notin Inputs, NEW new, Do(t, new)
        PROVE  \A r \in Inputs : todo'[r] = todo[r]
    BY <1>1, <1>2 DEF Do, Threads, Ports
  <1>a. ASSUME NEW k \in Clients, Client(k)
        PROVE  Readers' /\ CurrentConnected'
    <2>0. k \in Threads /\ k \notin Inputs
      BY Consts
    <2>1. \A r \in Inputs : todo'[r] = todo[r]
      BY <1>a, <1>2, <2>0 DEF Client, CreateConnection, AddConnection, Disconnect, DisconnectAll,
                              RemoveConnection, DropElement, ClearElement, Then
    <2>2. CASE conns' = conns /\ current' = current
      BY <1>0, <2>1, <2>2, ShapeFrame
    <2>3. CASE AddConnection(k)
      <3>1. PICK c \in Channels, port \in Ports :
               /\ Unlocked(port) /\ conns' = [conns EXCEPT ![port] = Append(@, c)]
               /\ current' = IF port \in Inputs /\ conns[port] = <<>>
                             THEN [current EXCEPT ![port] = c] ELSE current
        BY <2>3 DEF AddConnection
      <3>2. ASSUME NEW r \in Inputs
            PROVE  \/ conns'[r] = conns[r] /\ current'[r] = current[r]
                   \/ Unlocked(r) /\ Attached(r)'
        <4>1. r \in Ports /\ conns \in [Ports -> Seq(Channels)] /\ current \in [Inputs -> Channels \cup {None}]
          BY <1>0, Consts DEF TypeOK
        <4>2. CASE r # port
          BY <3>1, <4>1, <4>2
        <4>3. CASE r = port
          <5> DEFINE z == Append(conns[r], c)
                     l == Len(conns[r])
          <5>1. /\ conns[r] \in Seq(Channels) /\ l \in Nat /\ DOMAIN conns[r] = 1 .. l
                /\ conns[r] = <<>> => l = 0
            BY <4>1, LenProperties, EmptySeq
          <5>2. z \in Seq(Channels) /\ Len(z) = l + 1 /\ (\A i \in 1 .. l : z[i] = conns[r][i])
                /\ z[l + 1] = c /\ z # <<>>
            BY <5>1, AppendProperties
          <5>3. DOMAIN z = 1 .. Len(z)
            BY <5>2, LenProperties
          <5>4. /\ conns'[r] = z
                /\ current'[r] = IF conns[r] = <<>> THEN c ELSE current[r]
            BY <3>1, <4>1, <4>3
          <5> HIDE DEF z, l
          <5>5. CASE conns[r] = <<>>
            BY <5>1, <5>2, <5>3, <5>4, <5>5, <3>1, <4>3 DEF Attached, Listed
          <5>6. CASE conns[r] # <<>>
            <6>1. PICK i \in DOMAIN conns[r] : conns[r][i] = current[r]
              BY <1>0, <5>6, CurrentDef DEF Attached, Listed
            <6>2. i \in DOMAIN z /\ z[i] = current[r]
              BY <5>1, <5>2, <5>3, <6>1
            <6> QED
              BY <5>2, <5>4, <5>6, <6>2, <3>1, <4>3 DEF Attached, Listed
          <5> QED
            BY <5>5, <5>6
        <4> QED
          BY <4>2, <4>3
      <3> QED
        BY <1>0, <2>1, <3>2, ShapeFrame
    <2>4. CASE DisconnectAll(k)
      <3>1. PICK port \in Ports :
               /\ Unlocked(port) /\ conns' = [conns EXCEPT ![port] = <<>>]
               /\ current' = IF port \in Inputs THEN [current EXCEPT ![port] = None] ELSE current
        BY <2>4 DEF DisconnectAll
      <3>2. ASSUME NEW r \in Inputs
            PROVE  \/ conns'[r] = conns[r] /\ current'[r] = current[r]
                   \/ Unlocked(r) /\ Attached(r)'
        BY <1>0, <3>1, Consts DEF TypeOK, Attached
      <3> QED
        BY <1>0, <2>1, <3>2, ShapeFrame
    <2>5. CASE RemoveConnection(k)
      <3>1. PICK port \in Ports, other \in Ports :
               /\ Unlocked(port)
               /\ \/ UNCHANGED <<conns, current>>
                  \/ \E i \in DOMAIN conns[port] : Removed(port, i)
        BY <2>5 DEF RemoveConnection
      <3>2. CASE \E i \in DOMAIN conns[port] : Removed(port, i)
        <4>1. PICK i \in DOMAIN conns[port] : Removed(port, i)
          BY <3>2
        <4>2. /\ \A q \in Ports \ {port} : conns'[q] = conns[q]
              /\ \A r \in Inputs \ {port} : current'[r] = current[r]
          BY <1>0, <4>1, Entry
        <4>3. ASSUME NEW r \in Inputs
              PROVE  \/ conns'[r] = conns[r] /\ current'[r] = current[r]
                     \/ Unlocked(r) /\ Attached(r)'
          <5>1. CASE r # port
            BY <4>2, <5>1, Consts
          <5>2. CASE r = port
            BY <1>0, <3>1, <4>1, <5>2, StaysAttached
          <5> QED
            BY <5>1, <5>2
        <4> QED
          BY <1>0, <2>1, <4>3, ShapeFrame
      <3> QED
        BY <2>2, <3>1, <3>2
    <2> QED
      BY <1>a, <2>2, <2>3, <2>4, <2>5 DEF Client, CreateConnection, Disconnect, DropElement, ClearElement, Cleared
  <1>b. ASSUME NEW p \in Outputs, Writer(p)
        PROVE  Readers' /\ CurrentConnected'
    <2>0. p \in Threads /\ p \notin Inputs /\ p \in Ports
      BY Consts
    <2>1. \A r \in Inputs : todo'[r] = todo[r]
      BY <1>b, <1>2, <2>0 DEF Writer, Write, LockForWrite, PutNowhere, PutData, SetFlag, PutBuffer, SignalPort, Then
    <2>2. CASE conns' = conns /\ current' = current
      BY <1>0, <2>1, <2>2, ShapeFrame
    <2>3. CASE PutNowhere(p)
      <3>1. PICK i \in DOMAIN conns[p] : Removed(p, i)
        BY <2>3 DEF PutNowhere
      <3>2. \A r \in Inputs : conns'[r] = conns[r] /\ current'[r] = current[r]
        BY <1>0, <2>0, <3>1, Entry, Consts
      <3> QED
        BY <1>0, <2>1, <3>2, ShapeFrame
    <2> QED
      BY <1>b, <2>2, <2>3 DEF Writer, Write, LockForWrite, PutData, SetFlag, PutBuffer, SignalPort
  <1>c. ASSUME NEW r \in Inputs, Reader(r)
        PROVE  Readers' /\ CurrentConnected'
    <2>0. r \in Threads /\ r \in Ports /\ todo[r] \in Seq(ReaderCode)
      BY <1>0, Consts DEF TypeOK
    <2>1. conns' = conns /\ \A c, q : Listed(c, q)' <=> Listed(c, q)
      BY <1>c DEF Reader, BeginRead, ReadAgain, TakeNothing, TakeData, MarkRead, TakeBuffer, Clear, NewData, Listed
    <2> DEFINE Reads(q) ==
                   /\ \A c \in Channels : Has(q, <<"take", c>>) => Listed(c, q)
                   /\ \A c \in Channels, v \in Nat :
                         Has(q, <<"mark", c, v>>) => Listed(c, q) /\ todo[q] = <<<<"mark", c, v>>>>
                   /\ \A x \in Inputs : Has(q, <<"read", x>>) => todo[q] = <<<<"read", q>>>>
    <2>2. \A q \in Inputs : Reads(q) /\ Attached(q)
      BY <1>0, CurrentDef DEF Readers
    <2>3. ASSUME todo'[r] = <<<<"read", r>>>>
          PROVE  Reads(r)'
      BY <2>3 DEF Has
    <2>4. ASSUME ASSUME NEW x, Has(r, x)'
                 PROVE  \E c \in Channels : x = <<"take", c>> /\ Listed(c, r)
          PROVE  Reads(r)'
      <3>1. \A x : Has(r, x)' => \E c \in Channels : x = <<"take", c>> /\ Listed(c, r)
        BY <2>4
      <3> QED
        BY <2>1, <3>1
    <2>5. Reads(r)' /\ Attached(r)' /\ \A q \in Inputs \ {r} : todo'[q] = todo[q] /\ current'[q] = current[q]
      <3>1. ASSUME NEW new, Do(r, new)
            PROVE  todo'[r] = new /\ \A q \in Inputs \ {r} : todo'[q] = todo[q]
        BY <1>1, <2>0, <3>1, Consts DEF Do
      <3>2. ASSUME NEW c \in Channels, NEW v, NewData(r, c, v), Listed(c, r)
            PROVE  Reads(r)' /\ Attached(r)' /\ \A q \in Inputs \ {r} : todo'[q] = todo[q] /\ current'[q] = current[q]
        <4>1. todo'[r] = <<<<"read", r>>>> /\ \A q \in Inputs \ {r} : todo'[q] = todo[q]
          BY <3>1, <3>2 DEF NewData
        <4>2. current \in [Inputs -> Channels \cup {None}] /\ current' = [current EXCEPT ![r] = c]
          BY <1>0, <3>2 DEF TypeOK, NewData
        <4>3. conns[r] # <<>>
          BY <3>2 DEF Listed
        <4>4. Attached(r)'
          BY <2>1, <3>2, <4>2, <4>3 DEF Attached
        <4> QED
          BY <2>3, <4>1, <4>2, <4>4
      <3>3. ASSUME current' = current
            PROVE  \A q \in Inputs : Attached(q)' /\ current'[q] = current[q]
        BY <2>1, <2>2, <3>3 DEF Attached
      <3>4. CASE BeginRead(r) \/ ReadAgain(r)
        <4> DEFINE tried == (IF current[r] = None THEN <<>> ELSE <<current[r]>>) \o conns[r]
                   first == IF current[r] = None THEN <<>> ELSE <<current[r]>>
        <4>1. conns[r] \in Seq(Channels) /\ current[r] \in Channels \cup {None}
          BY <1>0, <2>0 DEF TypeOK
        <4>2. /\ first \in Seq(Channels) /\ Len(first) \in Nat
              /\ \A i \in 1 .. Len(first) : first[i] = current[r] /\ current[r] # None
          BY <4>1
        <4>3. first \o conns[r] = tried
          OBVIOUS
        <4> HIDE DEF first, tried
        <4>4. /\ tried \in Seq(Channels)
              /\ \A i \in 1 .. Len(first) + Len(conns[r]) : tried[i] = IF i <= Len(first) THEN first[i] ELSE conns[r][i - Len(first)]
              /\ Len(tried) = Len(first) + Len(conns[r])
          BY <4>1, <4>2, <4>3, ConcatProperties
        <4>5. DOMAIN tried = 1 .. Len(first) + Len(conns[r]) /\ DOMAIN conns[r] = 1 .. Len(conns[r]) /\ Len(conns[r]) \in Nat
          BY <4>1, <4>4, LenProperties
        <4>6. current[r] # None => Listed(current[r], r)
          BY <2>2 DEF Attached
        <4>7. ASSUME NEW i \in DOMAIN tried
              PROVE  tried[i] \in Channels /\ Listed(tried[i], r)
          <5>1. tried[i] \in Channels
            BY <4>4
          <5>2. CASE i <= Len(first)
            BY <4>2, <4>4, <4>5, <4>6, <5>1, <5>2
          <5>3. CASE ~(i <= Len(first))
            <6>1. i - Len(first) \in 1 .. Len(conns[r])
              BY <4>2, <4>5, <5>3
            <6>2. tried[i] = conns[r][i - Len(first)]
              BY <4>4, <4>5, <5>3
            <6> QED
              BY <4>5, <5>1, <6>1, <6>2 DEF Listed
          <5> QED
            BY <5>2, <5>3
        <4>8. Do(r, [i \in DOMAIN tried |-> <<"take", tried[i]>>])
          BY <3>4 DEF BeginRead, ReadAgain, Tried, tried
        <4>9. todo'[r] = [i \in DOMAIN tried |-> <<"take", tried[i]>>] /\ \A q \in Inputs \ {r} : todo'[q] = todo[q]
          BY <3>1, <4>8
        <4>10. ASSUME NEW x, Has(r, x)'
               PROVE  \E c \in Channels : x = <<"take", c>> /\ Listed(c, r)
          BY <4>7, <4>9, <4>10 DEF Has
        <4>11. Reads(r)'
          BY <2>4, <4>10
        <4>12. current' = current
          BY <3>4 DEF BeginRead, ReadAgain
        <4> QED
          BY <3>3, <4>9, <4>11, <4>12
      <3>5. CASE TakeNothing(r)
        <4>1. PICK c \in Channels : Does(r, <<"take", c>>) /\ Then(r, <<>>) /\ current' = current
          BY <3>5 DEF TakeNothing
        <4>3. /\ \A x : Has(r, x)' => Has(r, x)
              /\ \A u \in Threads \ {r} : todo'[u] = todo[u]
              /\ Has(r, <<"take", c>>)
          BY <1>1, <2>0, <4>1, CallsNone
        <4>4. \A d \in Channels, v \in Nat : ~Has(r, <<"mark", d, v>>)
          BY <2>2, <4>3 DEF Has
        <4>5. \A q \in Inputs : ~Has(r, <<"read", q>>)
          BY <2>2, <4>3 DEF Has
        <4>6. Reads(r)'
          BY <2>1, <2>2, <4>3, <4>4, <4>5
        <4> QED
          BY <3>3, <4>1, <4>3, <4>6, Consts
      <3>6. CASE TakeData(r)
        <4>1. PICK c \in Channels : Does(r, <<"take", c>>) /\ Do(r, <<<<"mark", c, chan[c].value>>>>) /\ current' = current
          BY <3>6 DEF TakeData
        <4>2. Listed(c, r)
          BY <2>0, <2>2, <4>1, Begun DEF Does
        <4>3. todo'[r] = <<<<"mark", c, chan[c].value>>>> /\ \A q \in Inputs \ {r} : todo'[q] = todo[q]
          BY <3>1, <4>1
        <4>4. \A x : Has(r, x)' => x = <<"mark", c, chan[c].value>>
          BY <4>3 DEF Has
        <4>5. \A d \in Channels, v \in Nat : Has(r, <<"mark", d, v>>)' => d = c /\ v = chan[c].value
          BY <4>4
        <4>6. Reads(r)'
          BY <2>1, <4>2, <4>3, <4>4, <4>5
        <4> QED
          BY <3>3, <4>1, <4>3, <4>6
      <3>7. CASE MarkRead(r)
        <4>1. PICK c \in Channels : \E v \in 0 .. MaxSample[From[c]] : Does(r, <<"mark", c, v>>) /\ NewData(r, c, v)
          BY <3>7 DEF MarkRead
        <4>2. MaxSample[From[c]] \in Nat
          BY Consts, ConnectionsAssumption
        <4>3. PICK v \in Nat : Does(r, <<"mark", c, v>>) /\ NewData(r, c, v)
          BY <4>1, <4>2
        <4>4. Listed(c, r)
          BY <2>0, <2>2, <4>3, Begun DEF Does
        <4> QED
          BY <3>2, <4>3, <4>4
      <3>8. CASE TakeBuffer(r)
        <4>1. PICK c \in Channels : Does(r, <<"take", c>>) /\ NewData(r, c, Head(chan[c].queue))
          BY <3>8 DEF TakeBuffer
        <4>2. Listed(c, r)
          BY <2>0, <2>2, <4>1, Begun DEF Does
        <4> QED
          BY <3>2, <4>1, <4>2
      <3>9. CASE Clear(r)
        <4>1. todo' = todo /\ current' = current
          BY <3>9 DEF Clear
        <4> QED
          BY <2>1, <2>2, <3>3, <4>1 DEF Has
      <3> QED
        BY <1>c, <3>4, <3>5, <3>6, <3>7, <3>8, <3>9 DEF Reader
    <2>6. ASSUME NEW q \in Inputs \ {r}
          PROVE  Reads(q)' /\ Attached(q)'
      BY <2>1, <2>2, <2>5, <2>6 DEF Has, Attached
    <2> QED
      BY <1>0, <2>5, <2>6, CurrentDef DEF Readers
  <1>d. CASE UNCHANGED vars
    BY <1>0, <1>d DEF vars, Readers, CurrentConnected, Has, Listed
  <1> QED
    BY <1>a, <1>b, <1>c, <1>d DEF Next

LEMMA ShapeInit == Init => Shape
  BY TypeInit, Consts DEF Init, Shape, Readers, CurrentConnected, Has

\* The channels, lists and instructions always have their types.
THEOREM Types == Spec => []TypeOK
  <1>1. Shape => TypeOK
    BY DEF Shape
  <1> QED
    BY <1>1, ShapeInit, ShapeStep, PTL DEF Spec

\* The current channel of an input port is always one of its connections, if it has
\* any: whoever adds, removes and reads them.
THEOREM CurrentIsConnected == Spec => []CurrentConnected
  <1>1. Shape => CurrentConnected
    BY DEF Shape
  <1> QED
    BY <1>1, ShapeInit, ShapeStep, PTL DEF Spec

-----------------------------------------------------------------------------
(***************************************************************************)
(* Connecting and disconnecting.                                           *)
(***************************************************************************)

LEMMA FitsFacts ==
    ASSUME NEW c \in Channels, NEW way \in Ways, NEW e \in Elements, NEW f \in Elements
    PROVE  /\ \A x, p, o : ~Fits(x, <<"remove", p, o>>)
           /\ ~Fits(<<"clear", c, e, way>>, <<"drop", c, f, way>>)
           /\ ~Fits(<<"drop", c, e, way>>, <<"drop", c, f, way>>)
           /\ Fits(<<"clear", c, e, way>>, <<"clear", c, f, way>>) => Rank(f, way) < Rank(e, way)
           /\ Fits(<<"drop", c, e, way>>, <<"clear", c, f, way>>) => Rank(f, way) < Rank(e, way)
  BY DEF Fits

LEMMA Ranks ==
    ASSUME NEW way \in Ways
    PROVE  /\ Rank(Near(way), way) = 1 /\ Rank("data", way) = 2 /\ Rank(Far(way), way) = 3
           /\ Elements = {Near(way), "data", Far(way)} /\ Near(way) # Far(way)
           /\ Near(way) # "data" /\ Far(way) # "data"
           /\ Following(Near(way), way) = "data" /\ Following("data", way) = Far(way)
           /\ Previous(Far(way), way) = "data" /\ Previous("data", way) = Near(way)
           /\ \A e \in Elements : Rank(e, way) \in 1 .. 3
  BY DEF Rank, Near, Far, Ways, Elements, Following, Previous

\* Client k has executed h and has the instructions of N to do before the others.
Replaces(k, h, N) ==
    /\ Has(k, h)
    /\ \A x : Has(k, x) => x = h \/ Has(k, x)'
    /\ \A x \in N : Has(k, x)'
    /\ \A x : Has(k, x)' => x \in N \/ (Has(k, x) /\ Fits(h, x))
    /\ \A l \in Clients \ {k} : todo'[l] = todo[l] /\ \A x : Has(l, x)' <=> Has(l, x)

LEMMA Executes ==
    ASSUME TypeOK, Stacked, NEW k \in Clients, NEW h, NEW new \in Seq(ClientCode), Does(k, h), Then(k, new),
           \A i, j \in DOMAIN new : i < j => Fits(new[i], new[j]),
           \A i \in DOMAIN new : \A x : Has(k, x) /\ Fits(h, x) => Fits(new[i], x)
    PROVE  Stacked' /\ Replaces(k, h, {new[i] : i \in DOMAIN new})
  <1> DEFINE s == todo[k]
             z == todo'[k]
             n == Len(new)
  <1>0. k \in Threads /\ todo \in [Threads -> Seq(ClientCode \cup WriterCode \cup ReaderCode)] /\ s \in Seq(ClientCode)
    BY Consts DEF TypeOK
  <1>1. /\ s[1] = h /\ 1 \in DOMAIN s /\ Has(k, h) /\ n \in Nat
        /\ DOMAIN s \subseteq Nat \ {0}
        /\ \A u \in Threads \ {k} : todo'[u] = todo[u]
        /\ \A i \in DOMAIN z : \/ i \in DOMAIN new /\ z[i] = new[i]
                               \/ i > n /\ i - n + 1 \in DOMAIN s /\ i - n + 1 > 1 /\ z[i] = s[i - n + 1]
        /\ \A i \in DOMAIN new : i \in Nat /\ i <= n
        /\ \A x : Has(k, x) => x = h \/ Has(k, x)'
        /\ \A i \in DOMAIN new : Has(k, new[i])'
        /\ \A x : Has(k, x)' => \/ \E i \in DOMAIN new : new[i] = x
                                \/ \E i \in DOMAIN s : i > 1 /\ s[i] = x
        /\ \A u \in Threads \ {k} : \A x : Has(u, x)' <=> Has(u, x)
    BY <1>0, Moves
  <1>2. \A i \in DOMAIN s : Has(k, s[i])
    BY DEF Has
  <1>3. \A i, j \in DOMAIN s : i < j => Fits(s[i], s[j])
    BY DEF Stacked
  <1>4. DOMAIN z \subseteq Nat
    <2>1. todo'[k] \in Seq(ClientCode)
      BY <1>0, Moves
    <2> QED
      BY <2>1, LenProperties
  <1>5. todo'[k] = z /\ todo[k] = s
    OBVIOUS
  <1> HIDE DEF s, z, n
  <1>6. \A i \in DOMAIN s : i > 1 => Fits(h, s[i])
    BY <1>1, <1>3
  <1>7. ASSUME NEW i \in DOMAIN z, NEW j \in DOMAIN z, i < j
        PROVE  Fits(z[i], z[j])
    <2>1. CASE i \in DOMAIN new /\ z[i] = new[i] /\ j \in DOMAIN new /\ z[j] = new[j]
      BY <1>7, <2>1
    <2>2. CASE /\ i \in DOMAIN new /\ z[i] = new[i]
               /\ j - n + 1 \in DOMAIN s /\ j - n + 1 > 1 /\ z[j] = s[j - n + 1]
      BY <1>2, <1>6, <2>2
    <2>3. CASE /\ i > n /\ i - n + 1 \in DOMAIN s /\ z[i] = s[i - n + 1]
               /\ j > n /\ j - n + 1 \in DOMAIN s /\ z[j] = s[j - n + 1]
      <3>1. i - n + 1 < j - n + 1
        BY <1>1, <1>4, <1>7
      <3> QED
        BY <1>3, <2>3, <3>1
    <2>4. ~(i > n /\ j \in DOMAIN new)
      BY <1>1, <1>4, <1>7
    <2> QED
      BY <1>1, <2>1, <2>2, <2>3, <2>4
  <1>8. Stacked'
    <2>1. \A l \in Clients \ {k} : todo'[l] = todo[l]
      BY <1>1, Consts
    <2> QED
      BY <1>5, <1>7, <2>1 DEF Stacked
  <1>9. \A x : Has(k, x)' => (\E i \in DOMAIN new : new[i] = x) \/ (Has(k, x) /\ Fits(h, x))
    BY <1>1, <1>2, <1>6
  <1> QED
    BY <1>1, <1>8, <1>9, Consts DEF Replaces

LEMMA ExecutesNone ==
    ASSUME TypeOK, Stacked, NEW k \in Clients, NEW h, Does(k, h), Then(k, <<>>)
    PROVE  Stacked' /\ Replaces(k, h, {})
  <1>1. <<>> \in Seq(ClientCode) /\ DOMAIN <<>> = {}
    OBVIOUS
  <1>2. Stacked' /\ Replaces(k, h, {<<>>[i] : i \in DOMAIN <<>>})
    BY <1>1, Executes
  <1>3. {<<>>[i] : i \in DOMAIN <<>>} = {}
    BY <1>1
  <1> QED
    BY <1>2, <1>3

LEMMA ExecutesOne ==
    ASSUME TypeOK, Stacked, NEW k \in Clients, NEW h, NEW a \in ClientCode, Does(k, h), Then(k, <<a>>),
           \A x : Has(k, x) /\ Fits(h, x) => Fits(a, x)
    PROVE  Stacked' /\ Replaces(k, h, {a})
  <1> DEFINE new == <<a>>
  <1>1. new \in Seq(ClientCode) /\ DOMAIN new = {1} /\ new[1] = a /\ Then(k, new)
    OBVIOUS
  <1> HIDE DEF new
  <1>2. \A i, j \in DOMAIN new : i < j => Fits(new[i], new[j])
    BY <1>1
  <1>3. \A i \in DOMAIN new : \A x : Has(k, x) /\ Fits(h, x) => Fits(new[i], x)
    BY <1>1
  <1>4. Stacked' /\ Replaces(k, h, {new[i] : i \in DOMAIN new})
    BY <1>1, <1>2, <1>3, Executes
  <1>5. {new[i] : i \in DOMAIN new} = {a}
    BY <1>1
  <1> QED
    BY <1>4, <1>5

LEMMA ExecutesTwo ==
    ASSUME TypeOK, Stacked, NEW k \in Clients, NEW h, NEW a \in ClientCode, NEW b \in ClientCode,
           Does(k, h), Then(k, <<a, b>>), Fits(a, b),
           \A x : Has(k, x) /\ Fits(h, x) => Fits(a, x) /\ Fits(b, x)
    PROVE  Stacked' /\ Replaces(k, h, {a, b})
  <1> DEFINE new == <<a, b>>
  <1>1. new \in Seq(ClientCode) /\ DOMAIN new = {1, 2} /\ new[1] = a /\ new[2] = b /\ Then(k, new)
    OBVIOUS
  <1> HIDE DEF new
  <1>2. \A i, j \in DOMAIN new : i < j => Fits(new[i], new[j])
    BY <1>1
  <1>3. \A i \in DOMAIN new : \A x : Has(k, x) /\ Fits(h, x) => Fits(new[i], x)
    BY <1>1
  <1>4. Stacked' /\ Replaces(k, h, {new[i] : i \in DOMAIN new})
    BY <1>1, <1>2, <1>3, Executes
  <1>5. {new[i] : i \in DOMAIN new} = {a, b}
    BY <1>1
  <1> QED
    BY <1>4, <1>5

\* A client that is not connecting.
LEMMA AddingKept ==
    ASSUME TypeOK, Adding, NEW k \in Clients, NEW h, NEW N, Does(k, h), h[1] # "add", Replaces(k, h, N),
           \A x \in N : x[1] # "add"
    PROVE  /\ Adding'
           /\ \A c \in Channels, port \in Ports : ~Has(k, <<"add", c, port>>) /\ ~Has(k, <<"add", c, port>>)'
           /\ \A l \in Clients, c \in Channels, port \in Ports :
                 Has(l, <<"add", c, port>>)' <=> Has(l, <<"add", c, port>>)
           /\ \A l \in Clients, c \in Channels : Making(l, c)' <=> Making(l, c)
  <1>1. ASSUME NEW c \in Channels, NEW port \in Ports
        PROVE  ~Has(k, <<"add", c, port>>)
    <2>1. Has(k, <<"add", c, port>>) => todo[k][1][1] = "add" /\ Head(todo[k]) = todo[k][1]
      BY DEF Adding
    <2> QED
      BY <2>1 DEF Does
  <1>2. ASSUME NEW c \in Channels, NEW port \in Ports
        PROVE  ~Has(k, <<"add", c, port>>)'
    BY <1>1 DEF Replaces
  <1>3. ASSUME NEW l \in Clients, NEW c \in Channels, NEW port \in Ports
        PROVE  Has(l, <<"add", c, port>>)' <=> Has(l, <<"add", c, port>>)
    BY <1>1, <1>2 DEF Replaces
  <1>4. Adding'
    BY <1>2, <1>3 DEF Adding, Replaces
  <1>5. \A l \in Clients, c \in Channels : Making(l, c)' <=> Making(l, c)
    BY <1>3, Consts DEF Making
  <1> QED
    BY <1>1, <1>2, <1>3, <1>4, <1>5

\* An entry is removed from a list, added to one, or a list is taken.
LEMMA ListsRemoved ==
    ASSUME TypeOK, Lists, NEW port \in Ports, NEW n \in DOMAIN conns[port], Removed(port, n)
    PROVE  /\ Lists'
           /\ \A d, q : q \in Ports => (Listed(d, q)' <=> Listed(d, q) /\ ~(d = conns[port][n] /\ q = port))
  <1> DEFINE s == conns[port]
             rest == conns'[port]
             c == conns[port][n]
  <1>1. /\ conns' = [conns EXCEPT ![port] = RemoveAt(conns[port], n)]
        /\ \A q \in Ports \ {port} : conns'[q] = conns[q]
    BY Entry
  <1>2. s \in Seq(Channels) /\ rest = RemoveAt(s, n)
    BY <1>1 DEF TypeOK
  <1>3. /\ n \in Nat
        /\ \A i \in DOMAIN rest : /\ i \in Nat /\ i > 0
                                  /\ i < n => i \in DOMAIN s /\ rest[i] = s[i]
                                  /\ i >= n => i + 1 \in DOMAIN s /\ rest[i] = s[i + 1]
        /\ \A i \in DOMAIN s : /\ i \in Nat /\ i > 0
                               /\ i < n => i \in DOMAIN rest /\ rest[i] = s[i]
                               /\ i > n => i - 1 \in DOMAIN rest /\ rest[i - 1] = s[i]
    BY <1>2, Erasing
  <1>4. \A i, j \in DOMAIN s : s[i] = s[j] => i = j
    BY DEF Lists
  <1>5. s[n] = c /\ n \in DOMAIN s
    OBVIOUS
  <1>6. /\ \A d : Listed(d, port) <=> \E i \in DOMAIN s : s[i] = d
        /\ \A d : Listed(d, port)' <=> \E i \in DOMAIN rest : rest[i] = d
    BY DEF Listed
  <1>7. \A q \in Ports \ {port} : \A d : Listed(d, q)' <=> Listed(d, q)
    BY <1>1 DEF Listed
  <1>8. conns'[port] = rest
    OBVIOUS
  <1> HIDE DEF s, rest, c
  <1>9. ASSUME NEW d, \E i \in DOMAIN rest : rest[i] = d
        PROVE  (\E i \in DOMAIN s : s[i] = d) /\ d # c
    <2>1. PICK i \in DOMAIN rest : rest[i] = d
      BY <1>9
    <2>2. CASE i < n
      BY <1>3, <1>4, <1>5, <2>1, <2>2
    <2>3. CASE i >= n
      <3>1. i + 1 \in DOMAIN s /\ s[i + 1] = d /\ i + 1 # n
        BY <1>3, <2>1, <2>3
      <3> QED
        BY <1>4, <1>5, <3>1
    <2> QED
      BY <1>3, <2>1, <2>2, <2>3
  <1>10. ASSUME NEW d, \E i \in DOMAIN s : s[i] = d, d # c
         PROVE  \E i \in DOMAIN rest : rest[i] = d
    <2>1. PICK i \in DOMAIN s : s[i] = d
      BY <1>10
    <2>2. i < n \/ i > n
      BY <1>3, <1>5, <1>10, <2>1
    <2> QED
      BY <1>3, <2>1, <2>2
  <1>11. ASSUME NEW i \in DOMAIN rest, NEW j \in DOMAIN rest, rest[i] = rest[j]
         PROVE  i = j
    <2> DEFINE x == IF i < n THEN i ELSE i + 1
               y == IF j < n THEN j ELSE j + 1
    <2>1. x \in DOMAIN s /\ s[x] = rest[i] /\ y \in DOMAIN s /\ s[y] = rest[j]
      BY <1>3
    <2>2. x = y
      BY <1>4, <1>11, <2>1
    <2>3. i \in Nat /\ j \in Nat
      BY <1>3
    <2> QED
      BY <1>3, <2>2, <2>3
  <1>12. \A d, q : q \in Ports => (Listed(d, q)' <=> Listed(d, q) /\ ~(d = c /\ q = port))
    BY <1>6, <1>7, <1>9, <1>10
  <1>13. Lists'
    BY <1>1, <1>8, <1>11, <1>12 DEF Lists
  <1> QED
    BY <1>12, <1>13 DEF c

LEMMA ListsAdded ==
    ASSUME TypeOK, Lists, NEW port \in Ports, NEW c \in Channels, ~Listed(c, port), port \in Pair(c),
           conns' = [conns EXCEPT ![port] = Append(@, c)]
    PROVE  /\ Lists'
           /\ \A d, q : q \in Ports => (Listed(d, q)' <=> Listed(d, q) \/ (d = c /\ q = port))
  <1> DEFINE s == conns[port]
             z == conns'[port]
             n == Len(s)
  <1>1. conns'[port] = Append(s, c) /\ \A q \in Ports \ {port} : conns'[q] = conns[q]
    BY DEF TypeOK
  <1>2. s \in Seq(Channels) /\ DOMAIN s = 1 .. n /\ n \in Nat
    BY ListsTyped
  <1>3. Append(s, c) \in Seq(Channels) /\ Len(Append(s, c)) = n + 1
        /\ (\A i \in 1 .. n : Append(s, c)[i] = s[i]) /\ Append(s, c)[n + 1] = c
    BY <1>2, AppendProperties
  <1>4. DOMAIN Append(s, c) = 1 .. n + 1
    BY <1>3, LenProperties
  <1>5. \A i, j \in DOMAIN s : s[i] = s[j] => i = j
    BY DEF Lists
  <1>6. /\ \A d : Listed(d, port) <=> \E i \in DOMAIN s : s[i] = d
        /\ \A d : Listed(d, port)' <=> \E i \in DOMAIN z : z[i] = d
    BY DEF Listed
  <1>7. \A q \in Ports \ {port} : \A d : Listed(d, q)' <=> Listed(d, q)
    BY <1>1 DEF Listed
  <1>8. conns'[port] = z
    OBVIOUS
  <1> HIDE DEF s, z, n
  <1>9. DOMAIN z = 1 .. n + 1 /\ (\A i \in 1 .. n : z[i] = s[i]) /\ z[n + 1] = c
    BY <1>1, <1>3, <1>4, <1>8
  <1>10. \A d : (\E i \in DOMAIN z : z[i] = d) <=> (\E i \in DOMAIN s : s[i] = d) \/ d = c
    BY <1>2, <1>9
  <1>11. \A i \in DOMAIN s : s[i] # c
    BY <1>6
  <1>12. ASSUME NEW i \in DOMAIN z, NEW j \in DOMAIN z, z[i] = z[j]
         PROVE  i = j
    BY <1>2, <1>5, <1>9, <1>11, <1>12
  <1>13. \A d, q : q \in Ports => (Listed(d, q)' <=> Listed(d, q) \/ (d = c /\ q = port))
    BY <1>6, <1>7, <1>10
  <1>14. Lists'
    BY <1>1, <1>8, <1>12, <1>13 DEF Lists
  <1> QED
    BY <1>13, <1>14

LEMMA ListsTaken ==
    ASSUME TypeOK, Lists, NEW port \in Ports, conns' = [conns EXCEPT ![port] = <<>>]
    PROVE  /\ Lists'
           /\ \A d, q : q \in Ports => (Listed(d, q)' <=> Listed(d, q) /\ q # port)
  <1>1. conns'[port] = <<>> /\ \A q \in Ports \ {port} : conns'[q] = conns[q]
    BY DEF TypeOK
  <1>2. \A d, q : q \in Ports => (Listed(d, q)' <=> Listed(d, q) /\ q # port)
    BY <1>1 DEF Listed
  <1> QED
    BY <1>1, <1>2 DEF Lists
\* What a step that has nothing to do with connection c leaves as it is.
SameCalls(c) ==
    \A k \in Clients :
        /\ \A e \in Elements, way \in Ways : /\ Dropping(k, c, e, way)' <=> Dropping(k, c, e, way)
                                             /\ Clearing(k, c, e, way)' <=> Clearing(k, c, e, way)
        /\ Making(k, c)' <=> Making(k, c)
        /\ Has(k, <<"add", c, From[c]>>)' <=> Has(k, <<"add", c, From[c]>>)
        /\ Removing(k, From[c], To[c])' <=> Removing(k, From[c], To[c])
        /\ Removing(k, To[c], From[c])' <=> Removing(k, To[c], From[c])
SameLinks(c) == chan'[c].links = chan[c].links /\ chan'[c].ports = chan[c].ports

\* An entry of connection c may go when the output port has lost its link.
LEMMA Untouched ==
    ASSUME NEW c \in Channels, chan[c].links \subseteq Elements, Bonded(c), SameCalls(c), SameLinks(c),
           \A port \in Pair(c) : /\ Listed(c, port)' => Listed(c, port)
                                 /\ Listed(c, port) /\ "in" \in chan[c].links => Listed(c, port)'
    PROVE  Bonded(c)'
  <1>0. Closed(c) /\ Once(c) /\ Made(c) /\ FarEnd(c) /\ Apart(c)
    BY DEF Bonded
  <1>1. \A k \in Clients, e \in Elements, way \in Ways :
           /\ Dropping(k, c, e, way)' <=> Dropping(k, c, e, way)
           /\ Clearing(k, c, e, way)' <=> Clearing(k, c, e, way)
    BY DEF SameCalls
  <1>2. \A k \in Clients, way \in Ways : Going(k, c, way)' <=> Going(k, c, way)
    BY <1>1 DEF Going
  <1>3. \A way \in Ways : /\ NearPort(c, way) \in Pair(c) /\ FarPort(c, way) \in Pair(c)
                          /\ Far(way) \in Elements /\ Near(way) \in Elements /\ "data" \in Elements
    BY Ends DEF Elements
  <1>4. \A k \in Clients, way \in Ways : Coming(k, c, way)' <=> Coming(k, c, way)
    <2>1. \A k \in Clients, way \in Ways :
             Removing(k, FarPort(c, way), NearPort(c, way))' <=> Removing(k, FarPort(c, way), NearPort(c, way))
      BY Ends DEF SameCalls, Ways
    <2> QED
      BY <1>1, <1>3, <2>1 DEF Coming, FarPort, NearPort
  <1>5. Whole(c) => Whole(c)'
    BY DEF Whole, Elements, Pair, SameLinks
  <1>6. Closed(c)'
    BY <1>0, <1>1, <1>3 DEF Closed, Previous
  <1>7. Once(c)'
    BY <1>0, <1>2, <1>3 DEF Once, NearPort
  <1>8. Made(c)'
    BY <1>0, <1>2 DEF Made, Elements, SameCalls, SameLinks, Pair
  <1>9. FarEnd(c)'
    <2> SUFFICES ASSUME NEW way \in Ways, Listed(c, FarPort(c, way))'
                 PROVE  /\ Near(way) \in chan'[c].links /\ "data" \in chan'[c].links
                        /\ Far(way) \notin chan'[c].ports =>
                              /\ ~Listed(c, NearPort(c, way))'
                              /\ \A k \in Clients : /\ \A e \in Elements : ~Dropping(k, c, e, way)'
                                                    /\ ~Clearing(k, c, Far(way), way)'
                        /\ Whole(c)' \/ \E k \in Clients : Making(k, c)' \/ Coming(k, c, way)'
      BY DEF FarEnd
    <2>1. Listed(c, FarPort(c, way))
      BY <1>3 DEF FarPort
    <2>2. /\ Near(way) \in chan[c].links /\ "data" \in chan[c].links
          /\ Far(way) \notin chan[c].ports =>
                /\ ~Listed(c, NearPort(c, way))
                /\ \A k \in Clients : /\ \A e \in Elements : ~Dropping(k, c, e, way)
                                      /\ ~Clearing(k, c, Far(way), way)
          /\ Whole(c) \/ \E k \in Clients : Making(k, c) \/ Coming(k, c, way)
      BY <1>0, <2>1 DEF FarEnd
    <2>3. Listed(c, NearPort(c, way))' => Listed(c, NearPort(c, way))
      BY <1>3 DEF NearPort
    <2> QED
      BY <1>1, <1>3, <1>4, <1>5, <2>2, <2>3 DEF SameCalls, SameLinks
  <1>10. Apart(c)'
    <2>1. \A k \in Clients, e \in Elements, way \in Ways : Covers(k, c, e, way) => Covers(k, c, e, way)'
      BY <1>1 DEF Covers, SameLinks
    <2> QED
      BY <1>0, <1>5, <2>1 DEF Apart, SameLinks, SameCalls
  <1> QED
    BY <1>6, <1>7, <1>8, <1>9, <1>10 DEF Bonded

LEMMA BondsFrame ==
    ASSUME TypeOK, Bonds, Lists',
           \A k \in Clients : todo'[k] = todo[k],
           \A c \in Channels : SameLinks(c),
           \A c \in Channels, port \in Ports :
              /\ Listed(c, port)' => Listed(c, port)
              /\ Listed(c, port) /\ "in" \in chan[c].links => Listed(c, port)'
    PROVE  Bonds'
  <1>1. \A k \in Clients : \A x : Has(k, x)' <=> Has(k, x)
    BY DEF Has
  <1>2. ASSUME NEW c \in Channels
        PROVE  Bonded(c)'
    <2>1. SameCalls(c)
      BY <1>1 DEF SameCalls, Dropping, Clearing, Making, Removing
    <2>2. chan[c].links \subseteq Elements
      BY DEF TypeOK
    <2> QED
      BY <2>1, <2>2, Untouched, Consts DEF Bonds
  <1>3. Adding' /\ Stacked'
    BY <1>1 DEF Bonds, Adding, Stacked
  <1> QED
    BY <1>2, <1>3 DEF Bonds

LEMMA StoredLinks ==
    ASSUME NEW c \in Channels, NEW v, NEW ch \in [Channels -> Cell]
    PROVE  /\ Stored(ch, c, v)[c].links = ch[c].links /\ Stored(ch, c, v)[c].ports = ch[c].ports
           /\ \A d \in Channels \ {c} : Stored(ch, c, v)[d] = ch[d]
  <1>1. ch[c] \in Cell
    OBVIOUS
  <1>2. CASE Kind[c] = "data"
    BY <1>1, <1>2 DEF Stored, Cell
  <1>3. CASE Kind[c] # "data"
    <2> DEFINE q == Pushed(ch[c].queue, c, v)
    <2>1. Stored(ch, c, v) = [ch EXCEPT ![c] = [ch[c] EXCEPT !.queue = q]]
      BY <1>3 DEF Stored
    <2> HIDE DEF q
    <2> QED
      BY <1>1, <2>1 DEF Cell
  <1> QED
    BY <1>2, <1>3

\* An idle client begins a call.
Starts(k, N) ==
    /\ \A x : ~Has(k, x)
    /\ \A x : Has(k, x)' <=> x \in N
    /\ \A l \in Clients \ {k} : todo'[l] = todo[l] /\ \A x : Has(l, x)' <=> Has(l, x)

LEMMA Starting ==
    ASSUME TypeOK, NEW k \in Clients, NEW new, Idle(k), Do(k, new)
    PROVE  Starts(k, {new[i] : i \in DOMAIN new}) /\ todo'[k] = new
  <1>1. k \in Threads /\ todo \in [Threads -> Seq(ClientCode \cup WriterCode \cup ReaderCode)]
    BY Consts DEF TypeOK
  <1>2. /\ todo'[k] = new /\ \A u \in Threads \ {k} : todo'[u] = todo[u]
        /\ \A x : ~Has(k, x)
        /\ \A x : Has(k, x)' <=> \E i \in DOMAIN new : new[i] = x
        /\ \A u \in Threads \ {k} : \A x : Has(u, x)' <=> Has(u, x)
    BY <1>1, Begins
  <1> QED
    BY <1>2, Consts DEF Starts

LEMMA BondsCreate ==
    ASSUME TypeOK, Bonds, NEW k \in Clients, CreateConnection(k)
    PROVE  Bonds'
  <1>1. PICK c \in Channels :
           LET last == kept[From[c]]
               built == [chan EXCEPT ![c] = Built(last.sample)]
           IN  /\ Idle(k) /\ Unused(c)
               /\ \A l \in Clients : Pair(c) \notin Pairs(l)
               /\ chan' = built \/ chan' = Stored(built, c, last.sample)
               /\ Do(k, <<<<"add", c, From[c]>>, <<"add", c, To[c]>>>>)
               /\ UNCHANGED <<conns, current, samples, kept, got>>
    BY DEF CreateConnection
  <1> DEFINE a == <<"add", c, From[c]>>
             b == <<"add", c, To[c]>>
  <1>2. todo'[k] = <<a, b>> /\ Starts(k, {a, b})
    <2>1. Starts(k, {<<a, b>>[i] : i \in DOMAIN <<a, b>>}) /\ todo'[k] = <<a, b>>
      BY <1>1, Starting
    <2>2. {<<a, b>>[i] : i \in DOMAIN <<a, b>>} = {a, b}
      OBVIOUS
    <2> QED
      BY <2>1, <2>2
  <1>3. /\ chan'[c].links = Elements /\ chan'[c].ports = {"in", "out"}
        /\ \A d \in Channels \ {c} : chan'[d] = chan[d]
    <2> DEFINE v == kept[From[c]].sample
               built == [chan EXCEPT ![c] = Built(v)]
    <2>0. chan \in [Channels -> Cell] /\ v \in Nat
      BY Consts DEF TypeOK, Cell
    <2>1. Built(v) \in Cell /\ Built(v).links = Elements /\ Built(v).ports = {"in", "out"}
      BY <2>0 DEF Built, Cell, Elements
    <2>2. built \in [Channels -> Cell] /\ built[c] = Built(v) /\ \A d \in Channels \ {c} : built[d] = chan[d]
      BY <2>0, <2>1
    <2>3. chan' = built \/ chan' = Stored(built, c, v)
      BY <1>1
    <2> HIDE DEF built, v
    <2>4. CASE chan' = built
      BY <2>1, <2>2, <2>4
    <2>5. CASE chan' = Stored(built, c, v)
      BY <2>1, <2>2, <2>5, StoredLinks
    <2> QED
      BY <2>3, <2>4, <2>5
  <1>4. Lists' /\ \A d, q : Listed(d, q)' <=> Listed(d, q)
    BY <1>1 DEF Bonds, Lists, Listed
  <1>5. \A port \in Ports : ~Listed(c, port)
    BY <1>1, ListsTyped DEF Unused
  <1>6. ASSUME NEW l \in Clients
        PROVE  /\ \A e, way : ~Dropping(l, c, e, way) /\ ~Clearing(l, c, e, way)
               /\ \A port : ~Has(l, <<"add", c, port>>)
    <2>1. \A i \in DOMAIN todo[l] : todo[l][i][2] # c
      BY <1>1, Consts DEF Unused
    <2> QED
      BY <2>1 DEF Dropping, Clearing, Has
  <1>7. ASSUME NEW l \in Clients
        PROVE  ~Removing(l, From[c], To[c]) /\ ~Removing(l, To[c], From[c])
    <2>1. Pair(c) \notin Pairs(l)
      BY <1>1
    <2>2. \A i \in DOMAIN todo[l] : todo[l][i][1] = "remove" => {todo[l][i][2], todo[l][i][3]} \in Pairs(l)
      BY DEF Pairs
    <2>3. \A x, y : Removing(l, x, y) => {x, y} \in Pairs(l)
      BY <2>2 DEF Removing, Has
    <2> QED
      BY <2>1, <2>3 DEF Pair
  <1>8. \A l \in Clients : \A d, e, way : /\ Dropping(l, d, e, way)' <=> Dropping(l, d, e, way)
                                          /\ Clearing(l, d, e, way)' <=> Clearing(l, d, e, way)
                                          /\ Removing(l, d, e)' <=> Removing(l, d, e)
    BY <1>2 DEF Starts, Dropping, Clearing, Removing
  <1>9. ASSUME NEW l \in Clients, NEW d \in Channels, NEW port, d # c \/ l # k
        PROVE  Has(l, <<"add", d, port>>)' <=> Has(l, <<"add", d, port>>)
    BY <1>2, <1>9 DEF Starts
  <1>10. Adding'
    <2> SUFFICES ASSUME NEW l \in Clients, NEW d \in Channels, NEW port \in Ports, Has(l, <<"add", d, port>>)'
                 PROVE  \/ todo'[l] = <<<<"add", d, From[d]>>, <<"add", d, To[d]>>>>
                        \/ todo'[l] = <<<<"add", d, To[d]>>>>
      BY DEF Adding
    <2>1. CASE l = k
      BY <1>2, <2>1 DEF Starts
    <2>2. CASE l # k
      BY <1>2, <2>2 DEF Starts, Bonds, Adding
    <2> QED
      BY <2>1, <2>2
  <1>11. Stacked'
    <2>1. Fits(a, b)
      BY DEF Fits
    <2>2. \A i, j \in DOMAIN <<a, b>> : i < j => Fits(<<a, b>>[i], <<a, b>>[j])
      BY <2>1
    <2> HIDE DEF a, b
    <2> QED
      BY <1>2, <2>2 DEF Starts, Bonds, Stacked
  <1>12. ASSUME NEW d \in Channels \ {c}
         PROVE  Bonded(d)'
    <2>1. SameCalls(d)
      BY <1>8, <1>9 DEF SameCalls, Making
    <2>2. SameLinks(d)
      BY <1>3 DEF SameLinks
    <2>3. chan[d].links \subseteq Elements
      BY DEF TypeOK
    <2> QED
      BY <1>4, <2>1, <2>2, <2>3, Untouched DEF Bonds
  <1>13. Bonded(c)'
    <2>1. \A l \in Clients : \A e, way : ~Dropping(l, c, e, way)' /\ ~Clearing(l, c, e, way)'
      BY <1>6, <1>8
    <2>2. Making(k, c)' /\ \A l \in Clients : Making(l, c)' => l = k
      BY <1>2, <1>6, <1>9 DEF Making, Starts
    <2>3. Has(k, <<"add", c, From[c]>>)'
      BY <1>2 DEF Starts
    <2>4. \A l \in Clients : ~Removing(l, From[c], To[c])' /\ ~Removing(l, To[c], From[c])'
      BY <1>7, <1>8
    <2>5. ~Listed(c, From[c])' /\ ~Listed(c, To[c])' /\ \A way \in Ways : ~Listed(c, FarPort(c, way))'
      BY <1>4, <1>5, Consts, Ends DEF FarPort
    <2> QED
      BY <1>3, <2>1, <2>2, <2>3, <2>4, <2>5 DEF Bonded, Closed, Once, Made, FarEnd, Apart, Going
  <1> QED
    BY <1>4, <1>10, <1>11, <1>12, <1>13 DEF Bonds

LEMMA BondsAdd ==
    ASSUME TypeOK, Bonds, NEW k \in Clients, AddConnection(k)
    PROVE  Bonds'
  <1>1. PICK c \in Channels, port \in Ports :
           /\ Does(k, <<"add", c, port>>) /\ Then(k, <<>>)
           /\ conns' = [conns EXCEPT ![port] = Append(@, c)]
           /\ UNCHANGED chan
    BY DEF AddConnection
  <1> DEFINE a == <<"add", c, From[c]>>
             b == <<"add", c, To[c]>>
  <1>0. Lists /\ Adding /\ Stacked /\ (\A d \in Channels : Bonded(d)) /\ From[c] # To[c]
    BY Consts DEF Bonds
  <1>2. Stacked' /\ Replaces(k, <<"add", c, port>>, {})
    BY <1>0, <1>1, ExecutesNone
  <1>3. \/ todo[k] = <<a, b>> /\ port = From[c] /\ todo'[k] = <<b>>
        \/ todo[k] = <<b>> /\ port = To[c] /\ todo'[k] = <<>>
    <2>1. todo[k] = <<a, b>> \/ todo[k] = <<b>>
      BY <1>0, <1>2 DEF Replaces, Adding
    <2>2. Head(todo[k]) = <<"add", c, port>> /\ todo' = [todo EXCEPT ![k] = <<>> \o Tail(todo[k])]
      BY <1>1 DEF Does, Then, Do
    <2>3. k \in Threads /\ todo \in [Threads -> Seq(ClientCode \cup WriterCode \cup ReaderCode)] /\ todo[k] \in Seq(ClientCode)
      BY Consts DEF TypeOK
    <2>4. a \in ClientCode /\ b \in ClientCode
      BY Consts DEF ClientCode
    <2>5. CASE todo[k] = <<a, b>>
      <3>1. port = From[c]
        BY <2>2, <2>5
      <3>2. <<>> \o Tail(<<a, b>>) = <<b>>
        BY <2>4
      <3> QED
        BY <2>2, <2>3, <2>5, <3>1, <3>2
    <2>6. CASE todo[k] = <<b>>
      <3>1. port = To[c]
        BY <2>2, <2>6
      <3>2. <<>> \o Tail(<<b>>) = <<>>
        BY <2>4
      <3> QED
        BY <2>2, <2>3, <2>6, <3>1, <3>2
    <2> QED
      BY <2>1, <2>5, <2>6
  <1>4. \A x : Has(k, x) => x = a \/ x = b
    BY <1>3 DEF Has
  <1>5. \A x : Has(k, x)' <=> x = b /\ port = From[c]
    BY <1>3, <1>0 DEF Has
  <1>6. Making(k, c) /\ (Has(k, a) <=> port = From[c])
    BY <1>3, <1>0 DEF Making, Has
  <1>7. Made(c) /\ Closed(c) /\ Once(c) /\ FarEnd(c) /\ Apart(c)
    BY <1>0 DEF Bonded
  <1>8. /\ chan[c].links = Elements /\ chan[c].ports = {"in", "out"} /\ ~Listed(c, To[c])
        /\ Listed(c, From[c]) <=> ~Has(k, a)
        /\ \A l \in Clients :
              /\ Making(l, c) => l = k
              /\ \A way \in Ways : ~Going(l, c, way)
              /\ ~Removing(l, From[c], To[c]) /\ ~Removing(l, To[c], From[c])
    BY <1>6, <1>7 DEF Made
  <1>9. ~Listed(c, port) /\ port \in Pair(c)
    BY <1>3, <1>6, <1>8 DEF Pair
  <1>10. /\ Lists'
         /\ \A d, q : q \in Ports => (Listed(d, q)' <=> Listed(d, q) \/ (d = c /\ q = port))
    BY <1>0, <1>1, <1>9, ListsAdded
  <1>11. \A l \in Clients : \A d, e, way : /\ Dropping(l, d, e, way)' <=> Dropping(l, d, e, way)
                                           /\ Clearing(l, d, e, way)' <=> Clearing(l, d, e, way)
                                           /\ Removing(l, d, e)' <=> Removing(l, d, e)
    BY <1>2, <1>4, <1>5 DEF Replaces, Dropping, Clearing, Removing
  <1>12. ASSUME NEW l \in Clients, NEW d \in Channels, NEW q, d # c \/ l # k
         PROVE  Has(l, <<"add", d, q>>)' <=> Has(l, <<"add", d, q>>)
    BY <1>2, <1>4, <1>5, <1>12 DEF Replaces
  <1>13. Adding'
    BY <1>0, <1>2, <1>3, <1>5 DEF Adding, Replaces
  <1>14. ASSUME NEW d \in Channels \ {c}
         PROVE  Bonded(d)'
    <2>1. SameCalls(d)
      BY <1>11, <1>12 DEF SameCalls, Making
    <2>2. SameLinks(d) /\ chan[d].links \subseteq Elements
      BY <1>1 DEF SameLinks, TypeOK
    <2> QED
      BY <1>0, <1>10, <2>1, <2>2, Untouched, Consts
  <1>15. Bonded(c)'
    <2>1. \A l \in Clients, way \in Ways : /\ ~Going(l, c, way)'
                                           /\ \A e \in Elements : ~Dropping(l, c, e, way)' /\ ~Clearing(l, c, e, way)'
      BY <1>8, <1>11 DEF Going
    <2>2. chan' = chan
      BY <1>1
    <2>3. \A l \in Clients : l # k => ~Making(l, c)'
      BY <1>8, <1>12 DEF Making
    <2>4. CASE port = From[c]
      <3>1. Making(k, c)' /\ ~Has(k, a)'
        BY <1>5, <2>4, <1>0 DEF Making
      <3>2. Listed(c, From[c])' /\ ~Listed(c, To[c])'
        BY <1>8, <1>10, <2>4, Consts
      <3>3. Made(c)'
        BY <1>8, <1>11, <2>1, <2>2, <2>3, <3>1, <3>2 DEF Made
      <3>4. FarEnd(c)'
        BY <1>8, <2>1, <2>2, <3>1, Ends DEF FarEnd, Elements, Far, Near
      <3> QED
        BY <2>1, <3>1, <3>3, <3>4 DEF Bonded, Closed, Once, Apart
    <2>5. CASE port = To[c]
      <3>1. \A l \in Clients : ~Making(l, c)'
        BY <1>5, <2>3, <2>5, <1>0 DEF Making
      <3>2. Whole(c)'
        BY <1>0, <1>6, <1>8, <1>10, <2>2, <2>5, Consts DEF Whole
      <3>3. FarEnd(c)'
        BY <1>8, <2>1, <2>2, <3>2, Ends DEF FarEnd, Elements, Far, Near
      <3> QED
        BY <2>1, <3>1, <3>2, <3>3 DEF Bonded, Closed, Once, Apart, Made
    <2> QED
      BY <1>3, <2>4, <2>5
  <1> QED
    BY <1>2, <1>10, <1>13, <1>14, <1>15 DEF Bonds

LEMMA BondsDisconnect ==
    ASSUME TypeOK, Bonds, NEW k \in Clients, Disconnect(k)
    PROVE  Bonds'
  <1>1. PICK c \in Channels :
           /\ Idle(k) /\ MayDisconnect({Pair(c)})
           /\ \/ Do(k, <<<<"remove", From[c], To[c]>>>>)
              \/ Do(k, <<<<"remove", To[c], From[c]>>>>)
           /\ UNCHANGED <<chan, conns>>
    BY DEF Disconnect
  <1>2. PICK p, o : {p, o} = Pair(c) /\ Do(k, <<<<"remove", p, o>>>>)
    BY <1>1 DEF Pair
  <1> DEFINE a == <<"remove", p, o>>
  <1>3. todo'[k] = <<a>> /\ Starts(k, {a})
    <2>1. Starts(k, {<<a>>[i] : i \in DOMAIN <<a>>}) /\ todo'[k] = <<a>>
      BY <1>1, <1>2, Starting
    <2>2. {<<a>>[i] : i \in DOMAIN <<a>>} = {a}
      OBVIOUS
    <2> QED
      BY <2>1, <2>2
  <1>4. Lists' /\ \A d, q : Listed(d, q)' <=> Listed(d, q)
    BY <1>1 DEF Bonds, Lists, Listed
  <1>5. \A l \in Clients : \A d, e, way : /\ Dropping(l, d, e, way)' <=> Dropping(l, d, e, way)
                                          /\ Clearing(l, d, e, way)' <=> Clearing(l, d, e, way)
                                          /\ Has(l, <<"add", d, e>>)' <=> Has(l, <<"add", d, e>>)
                                          /\ Removing(l, d, e) => Removing(l, d, e)'
                                          /\ Removing(l, d, e)' => Removing(l, d, e) \/ {d, e} = Pair(c)
    BY <1>2, <1>3 DEF Starts, Dropping, Clearing, Removing
  <1>6. \A l \in Clients, d \in Channels : Making(l, d)' <=> Making(l, d)
    BY <1>5 DEF Making
  <1>7. \A l \in Clients, d \in Channels : Making(l, d) => Pair(d) # Pair(c)
    <2>1. \A l \in Clients : \A d \in Connected(l) : Pair(d) # Pair(c)
      BY <1>1 DEF MayDisconnect
    <2>2. \A l \in Clients, d \in Channels : Making(l, d) => d \in Connected(l)
      BY DEF Making, Has, Connected
    <2> QED
      BY <2>1, <2>2
  <1>8. Adding'
    BY <1>3 DEF Starts, Bonds, Adding
  <1>9. Stacked'
    <2>1. \A i, j \in DOMAIN <<a>> : ~(i < j)
      OBVIOUS
    <2> QED
      BY <1>3, <2>1 DEF Starts, Bonds, Stacked
  <1>10. ASSUME NEW d \in Channels
         PROVE  Bonded(d)'
    <2>0. Closed(d) /\ Once(d) /\ Made(d) /\ FarEnd(d) /\ Apart(d)
      BY DEF Bonds, Bonded
    <2>1. \A l \in Clients, way \in Ways : Going(l, d, way)' <=> Going(l, d, way)
      BY <1>5 DEF Going
    <2>2. Whole(d)' <=> Whole(d)
      BY <1>1, <1>4 DEF Whole
    <2>3. \A l \in Clients, way \in Ways : Coming(l, d, way) => Coming(l, d, way)'
      BY <1>5 DEF Coming, FarPort, NearPort
    <2>4. Closed(d)'
      BY <1>5, <2>0 DEF Closed
    <2>5. Once(d)'
      BY <1>4, <2>0, <2>1 DEF Once, NearPort
    <2>6. Made(d)'
      <3>1. ASSUME NEW l \in Clients, NEW m \in Clients, Making(m, d)
            PROVE  ~Removing(l, From[d], To[d])' /\ ~Removing(l, To[d], From[d])'
        <4>1. ~Removing(l, From[d], To[d]) /\ ~Removing(l, To[d], From[d])
          BY <2>0, <3>1 DEF Made
        <4>2. {From[d], To[d]} # Pair(c) /\ {To[d], From[d]} # Pair(c)
          BY <1>7, <3>1 DEF Pair
        <4> QED
          BY <1>5, <4>1, <4>2
      <3> QED
        BY <1>1, <1>4, <1>5, <1>6, <2>0, <2>1, <3>1 DEF Made
    <2>7. FarEnd(d)'
      BY <1>1, <1>4, <1>5, <1>6, <2>0, <2>2, <2>3 DEF FarEnd, FarPort, NearPort
    <2>8. Apart(d)'
      <3>1. \A l \in Clients, e \in Elements, way \in Ways : Covers(l, d, e, way) => Covers(l, d, e, way)'
        <4>1. chan' = chan
          BY <1>1
        <4> TAKE l \in Clients, e \in Elements, way \in Ways
        <4>2. \A x : Dropping(l, d, x, way) <=> Dropping(l, d, x, way)'
          BY <1>5
        <4>3. Clearing(l, d, e, way) <=> Clearing(l, d, e, way)'
          BY <1>5
        <4> QED
          BY <4>1, <4>2, <4>3 DEF Covers
      <3>2. chan[d].links \subseteq Elements
        BY DEF TypeOK
      <3> QED
        BY <1>1, <1>6, <2>0, <2>2, <3>1, <3>2 DEF Apart
    <2> QED
      BY <2>4, <2>5, <2>6, <2>7, <2>8 DEF Bonded
  <1> QED
    BY <1>4, <1>8, <1>9, <1>10 DEF Bonds

\* Connection c has been taken from the list of a port, and client k is about to
\* disconnect it from there on.
LEMMA Detached ==
    ASSUME NEW k \in Clients, NEW c \in Channels, NEW start \in Ways, Bonded(c),
           chan[c].links \subseteq Elements, SameLinks(c),
           Listed(c, NearPort(c, start)), ~Listed(c, NearPort(c, start))',
           Listed(c, FarPort(c, start))' <=> Listed(c, FarPort(c, start)),
           \A l \in Clients : ~Making(l, c) /\ ~Making(l, c)',
           \A l \in Clients, e \in Elements, way \in Ways :
              /\ Dropping(l, c, e, way)' <=> Dropping(l, c, e, way) \/ (l = k /\ e = Near(start) /\ way = start)
              /\ Clearing(l, c, e, way)' <=> Clearing(l, c, e, way)
    PROVE  Bonded(c)'
  <1>0. Closed(c) /\ Once(c) /\ FarEnd(c) /\ Apart(c)
    BY DEF Bonded
  <1>1. \A l \in Clients : ~Going(l, c, start)
    BY <1>0 DEF Once
  <1>2. \A l \in Clients, e \in Elements : ~Dropping(l, c, e, start) /\ ~Clearing(l, c, e, start)
    BY <1>1 DEF Going
  <1>3. \A l \in Clients, way \in Ways : way # start => (Going(l, c, way)' <=> Going(l, c, way))
    BY DEF Going
  <1>4. \A l \in Clients : Going(l, c, start)' => l = k
    BY <1>2 DEF Going
  <1>5. \A way \in Ways : way # start => /\ NearPort(c, way) = FarPort(c, start)
                                         /\ FarPort(c, way) = NearPort(c, start)
    BY Ends DEF Ways
  <1>6. Closed(c)'
    <2>1. \A way \in Ways, e \in Elements : Previous(e, way) \in Elements
      BY DEF Previous, Elements, Near
    <2> QED
      BY <1>0, <2>1 DEF Closed
  <1>7. Once(c)'
    <2>1. ASSUME NEW way \in Ways, NEW l \in Clients, Going(l, c, way)'
          PROVE  ~Listed(c, NearPort(c, way))' /\ \A m \in Clients : Going(m, c, way)' => m = l
      <3>1. CASE way = start
        BY <1>4, <2>1, <3>1
      <3>2. CASE way # start
        <4>1. ~Listed(c, NearPort(c, way)) /\ \A m \in Clients : Going(m, c, way) => m = l
          BY <1>0, <1>3, <2>1, <3>2 DEF Once
        <4>2. NearPort(c, way) = FarPort(c, start)
          BY <1>5, <3>2
        <4>3. Listed(c, NearPort(c, way))' <=> Listed(c, FarPort(c, start))'
          BY <4>2 DEF NearPort, FarPort, Listed
        <4> QED
          BY <1>3, <3>2, <4>1, <4>2, <4>3
      <3> QED
        BY <3>1, <3>2
    <2> QED
      BY <2>1 DEF Once
  <1>8. Made(c)'
    BY DEF Made
  <1>9. FarEnd(c)'
    <2> SUFFICES ASSUME NEW way \in Ways, Listed(c, FarPort(c, way))'
                 PROVE  /\ Near(way) \in chan'[c].links /\ "data" \in chan'[c].links
                        /\ Far(way) \in chan'[c].ports
                        /\ \E l \in Clients : Coming(l, c, way)'
      BY DEF FarEnd
    <2>1. way = start
      <3>1. CASE way # start
        <4>1. FarPort(c, way) = NearPort(c, start)
          BY <1>5, <3>1
        <4>2. Listed(c, FarPort(c, way))' <=> Listed(c, NearPort(c, start))'
          BY <4>1 DEF NearPort, FarPort, Listed
        <4> QED
          BY <4>2
      <3> QED
        BY <3>1
    <2>2. Near(way) \in chan[c].links /\ "data" \in chan[c].links /\ Far(way) \in chan[c].ports
      BY <1>0, <2>1 DEF FarEnd
    <2>3. Dropping(k, c, Near(way), way)' /\ Near(way) \in Elements
      BY <2>1, Ends
    <2> QED
      BY <2>2, <2>3 DEF Coming, SameLinks
  <1>10. Apart(c)'
    <2>1. chan'[c].links = chan[c].links
      BY DEF SameLinks
    <2>2. CASE Whole(c)
      <3>1. chan'[c].links = Elements
        BY <2>1, <2>2 DEF Whole
      <3>2. Dropping(k, c, Near(start), start)' /\ Near(start) \in Elements
        BY Ends
      <3>3. ASSUME NEW e \in Elements
            PROVE  Covers(k, c, e, start)'
        <4>1. Rank(Near(start), start) <= Rank(e, start)
          BY Ranks
        <4> QED
          BY <3>1, <3>2, <4>1 DEF Covers
      <3> QED
        BY <3>1, <3>3 DEF Apart
    <2>3. CASE ~Whole(c)
      <3>1. \A e \in chan[c].links : \E l \in Clients, way \in Ways : Covers(l, c, e, way)
        BY <1>0, <2>3 DEF Apart
      <3>2. \A l \in Clients, e \in Elements, way \in Ways : Covers(l, c, e, way) => Covers(l, c, e, way)'
        BY <2>1 DEF Covers
      <3> QED
        BY <2>1, <3>1, <3>2 DEF Apart
    <2> QED
      BY <2>2, <2>3
  <1> QED
    BY <1>6, <1>7, <1>8, <1>9, <1>10 DEF Bonded

LEMMA TowardPort ==
    ASSUME NEW c \in Channels, NEW port \in Pair(c)
    PROVE  /\ Toward(port) \in Ways /\ port \in Ports
           /\ NearPort(c, Toward(port)) = port /\ FarPort(c, Toward(port)) = Other(c, port)
           /\ Pair(c) = {port, Other(c, port)}
           /\ \A d \in Channels : port \in Pair(d) /\ Other(d, port) = Other(c, port) => Pair(d) = Pair(c)
  BY Consts, Ends DEF Pair, Toward, Ways, Other

LEMMA BondsDisconnectAll ==
    ASSUME TypeOK, Bonds, NEW k \in Clients, DisconnectAll(k)
    PROVE  Bonds'
  <1>1. PICK port \in Ports :
           /\ Idle(k) /\ MayDisconnect({Pair(c) : c \in ToSet(conns[port])})
           /\ conns' = [conns EXCEPT ![port] = <<>>]
           /\ Do(k, [i \in DOMAIN conns[port] |-> Drop(conns[port][i], port)])
           /\ UNCHANGED chan
    BY DEF DisconnectAll
  <1> DEFINE s == conns[port]
             new == [i \in DOMAIN s |-> Drop(s[i], port)]
             start == Toward(port)
  <1>0. Lists /\ Adding /\ Stacked /\ (\A d \in Channels : Bonded(d))
    BY DEF Bonds
  <1>2. Starts(k, {new[i] : i \in DOMAIN new}) /\ todo'[k] = new
    BY <1>1, Starting
  <1>3. /\ Lists'
        /\ \A d, q : q \in Ports => (Listed(d, q)' <=> Listed(d, q) /\ q # port)
    BY <1>0, <1>1, ListsTaken
  <1>4. /\ DOMAIN s \subseteq Nat \ {0} /\ \A i \in DOMAIN s : s[i] \in Channels /\ Listed(s[i], port)
        /\ \A i, j \in DOMAIN s : s[i] = s[j] => i = j
        /\ \A d : Listed(d, port) => \E i \in DOMAIN s : s[i] = d
    BY <1>0, ListsTyped DEF Lists, Listed
  <1>5. start \in Ways /\ Near(start) \in Elements
    BY DEF Toward, Ways, Near, Elements
  <1>6. DOMAIN new = DOMAIN s /\ \A i \in DOMAIN s : new[i] = <<"drop", s[i], Near(start), start>>
    BY DEF Drop
  <1>7. ToSet(s) = {s[i] : i \in DOMAIN s}
    BY DEF ToSet
  <1> HIDE DEF s, new, start
  <1>8. \A x : Has(k, x)' <=> \E d \in Channels : Listed(d, port) /\ x = <<"drop", d, Near(start), start>>
    BY <1>2, <1>4, <1>6 DEF Starts
  <1>9. \A x : ~Has(k, x)
    BY <1>2 DEF Starts
  <1>10. \A l \in Clients : l # k => \A x : Has(l, x)' <=> Has(l, x)
    BY <1>2 DEF Starts
  <1>11. \A l \in Clients, d \in Channels, e \in Elements, way \in Ways :
            /\ Dropping(l, d, e, way)' <=> \/ Dropping(l, d, e, way)
                                           \/ l = k /\ Listed(d, port) /\ e = Near(start) /\ way = start
            /\ Clearing(l, d, e, way)' <=> Clearing(l, d, e, way)
    BY <1>8, <1>9, <1>10 DEF Dropping, Clearing
  <1>12. \A l \in Clients : \A d, e : /\ Has(l, <<"add", d, e>>)' <=> Has(l, <<"add", d, e>>)
                                      /\ Removing(l, d, e)' <=> Removing(l, d, e)
    BY <1>8, <1>9, <1>10 DEF Removing
  <1>13. \A l \in Clients, d \in Channels : Making(l, d)' <=> Making(l, d)
    BY <1>12 DEF Making
  <1>14. Adding'
    BY <1>0, <1>2, <1>8, <1>12 DEF Adding, Starts
  <1>15. Stacked'
    <2>1. ASSUME NEW i \in DOMAIN new, NEW j \in DOMAIN new, i < j
          PROVE  Fits(new[i], new[j])
      <3>1. s[i] # s[j]
        BY <1>4, <1>6, <2>1
      <3> QED
        BY <1>6, <3>1 DEF Fits
    <2> QED
      BY <1>0, <1>2, <2>1 DEF Stacked, Starts
  <1>16. ASSUME NEW d \in Channels
         PROVE  Bonded(d)'
    <2>1. SameLinks(d) /\ chan[d].links \subseteq Elements
      BY <1>1 DEF SameLinks, TypeOK
    <2>2. CASE ~Listed(d, port)
      <3>1. SameCalls(d)
        BY <1>11, <1>12, <1>13, <2>2 DEF SameCalls
      <3> QED
        BY <1>0, <1>3, <2>1, <2>2, <3>1, Untouched, Consts
    <2>3. CASE Listed(d, port)
      <3>1. port \in Pair(d)
        BY <1>0, <2>3 DEF Lists
      <3>2. NearPort(d, start) = port /\ FarPort(d, start) = Other(d, port) /\ FarPort(d, start) \in Ports
            /\ FarPort(d, start) # port
        BY <1>5, <3>1, TowardPort, Ends, Consts DEF start, Other, Pair
      <3>3. \A l \in Clients : ~Making(l, d)
        <4>1. \A l \in Clients : Making(l, d) => d \in Connected(l)
          BY DEF Making, Has, Connected
        <4>2. d \in ToSet(s)
          BY <1>4, <1>7, <2>3
        <4>3. \A l \in Clients : \A c \in Connected(l) : Pair(c) \notin {Pair(x) : x \in ToSet(s)}
          BY <1>1 DEF MayDisconnect, s
        <4> QED
          BY <4>1, <4>2, <4>3
      <3>4. Listed(d, NearPort(d, start)) /\ ~Listed(d, NearPort(d, start))'
        BY <1>3, <2>3, <3>2 DEF NearPort
      <3>5. Listed(d, FarPort(d, start))' <=> Listed(d, FarPort(d, start))
        BY <1>3, <3>2 DEF FarPort
      <3>6. \A l \in Clients, e \in Elements, way \in Ways :
              /\ Dropping(l, d, e, way)' <=> Dropping(l, d, e, way) \/ (l = k /\ e = Near(start) /\ way = start)
              /\ Clearing(l, d, e, way)' <=> Clearing(l, d, e, way)
        BY <1>11, <2>3
      <3> QED
        BY <1>0, <1>5, <1>13, <2>1, <3>3, <3>4, <3>5, <3>6, Detached
    <2> QED
      BY <2>2, <2>3
  <1> QED
    BY <1>3, <1>14, <1>15, <1>16 DEF Bonds

LEMMA BondsRemove ==
    ASSUME TypeOK, Bonds, OnePerPair, NEW k \in Clients, RemoveConnection(k)
    PROVE  Bonds'
  <1>1. PICK port \in Ports, other \in Ports :
           LET same == {i \in DOMAIN conns[port] : Other(conns[port][i], port) = other}
           IN  /\ Does(k, <<"remove", port, other>>)
               /\ \/ same = {} /\ Then(k, <<>>) /\ UNCHANGED <<conns, current>>
                  \/ \E i \in same : Removed(port, i) /\ Then(k, <<Drop(conns[port][i], port)>>)
               /\ UNCHANGED chan
    BY DEF RemoveConnection
  <1> DEFINE h == <<"remove", port, other>>
  <1>0. Lists /\ Adding /\ Stacked /\ (\A d \in Channels : Bonded(d))
    BY DEF Bonds
  <1>h. h[1] # "add"
    OBVIOUS
  <1>a. CASE (\A i \in DOMAIN conns[port] : Other(conns[port][i], port) # other) /\ Then(k, <<>>) /\ UNCHANGED conns
    <2>1. Stacked' /\ Replaces(k, h, {})
      BY <1>0, <1>1, <1>a, ExecutesNone
    <2>2. /\ Adding'
          /\ \A l \in Clients, c \in Channels, q \in Ports :
                Has(l, <<"add", c, q>>)' <=> Has(l, <<"add", c, q>>)
          /\ \A l \in Clients, c \in Channels : Making(l, c)' <=> Making(l, c)
      BY <1>0, <1>1, <1>h, <2>1, AddingKept
    <2>3. Lists' /\ \A d, q : Listed(d, q)' <=> Listed(d, q)
      BY <1>a, <1>0 DEF Lists, Listed
    <2>4. \A l \in Clients : \A d, e, way :
             /\ Dropping(l, d, e, way)' <=> Dropping(l, d, e, way)
             /\ Clearing(l, d, e, way)' <=> Clearing(l, d, e, way)
             /\ Removing(l, d, e)' => Removing(l, d, e)
             /\ Removing(l, d, e) => Removing(l, d, e)' \/ (d = port /\ e = other)
      BY <2>1 DEF Replaces, Dropping, Clearing, Removing
    <2>5. ASSUME NEW d \in Channels
          PROVE  Bonded(d)'
      <3>0. Closed(d) /\ Once(d) /\ Made(d) /\ FarEnd(d) /\ Apart(d)
        BY <1>0 DEF Bonded
      <3>1. \A l \in Clients, way \in Ways : Going(l, d, way)' <=> Going(l, d, way)
        BY <2>4 DEF Going
      <3>2. Whole(d)' <=> Whole(d)
        BY <1>1, <2>3 DEF Whole
      <3>3. ASSUME NEW l \in Clients, NEW way \in Ways, Coming(l, d, way), Listed(d, FarPort(d, way))
            PROVE  Coming(l, d, way)'
        <4>1. CASE Removing(l, FarPort(d, way), NearPort(d, way)) /\ FarPort(d, way) = port /\ NearPort(d, way) = other
          <5>1. PICK i \in DOMAIN conns[port] : conns[port][i] = d
            BY <3>3, <4>1 DEF Listed
          <5>2. Other(d, port) = other
            BY <4>1, Ends, Consts DEF Other, Ways
          <5> QED
            BY <1>a, <5>1, <5>2
        <4> QED
          BY <2>4, <3>3, <4>1 DEF Coming, FarPort, NearPort
      <3>4. Closed(d)'
        BY <2>4, <3>0 DEF Closed
      <3>5. Once(d)'
        BY <2>3, <3>0, <3>1 DEF Once, NearPort
      <3>6. Made(d)'
        BY <1>1, <2>2, <2>3, <2>4, <3>0, <3>1, Consts DEF Made
      <3>7. FarEnd(d)'
        BY <1>1, <2>2, <2>3, <2>4, <3>0, <3>2, <3>3 DEF FarEnd, FarPort, NearPort
      <3>8. Apart(d)'
        <4>1. \A l \in Clients, e \in Elements, way \in Ways : Covers(l, d, e, way) => Covers(l, d, e, way)'
          BY <1>1, <2>4 DEF Covers
        <4>2. chan[d].links \subseteq Elements
          BY DEF TypeOK
        <4> QED
          BY <1>1, <2>2, <3>0, <3>2, <4>1, <4>2 DEF Apart
      <3> QED
        BY <3>4, <3>5, <3>6, <3>7, <3>8 DEF Bonded
    <2> QED
      BY <2>1, <2>2, <2>3, <2>5 DEF Bonds
  <1>b. CASE \E i \in DOMAIN conns[port] : /\ Other(conns[port][i], port) = other
                                           /\ Removed(port, i) /\ Then(k, <<Drop(conns[port][i], port)>>)
    <2>1. PICK n \in DOMAIN conns[port] : /\ Other(conns[port][n], port) = other
                                          /\ Removed(port, n) /\ Then(k, <<Drop(conns[port][n], port)>>)
      BY <1>b
    <2>c. PICK c \in Channels : c = conns[port][n]
      BY ListsTyped
    <2> DEFINE start == Toward(port)
               a == <<"drop", c, Near(start), start>>
    <2>2. c \in Channels /\ Listed(c, port) /\ port \in Pair(c) /\ Bonded(c)
      BY <1>0, <2>c DEF Lists, Listed
    <2>3. /\ start \in Ways /\ Near(start) \in Elements
          /\ NearPort(c, start) = port /\ FarPort(c, start) = other
          /\ Pair(c) = {port, other} /\ port # other
          /\ \A d \in Channels \ {c} : Pair(d) # {port, other}
      BY <2>1, <2>c, <2>2, TowardPort, Ends, Consts DEF OnePerPair, Other, Pair
    <2>4. Drop(c, port) = a
      BY DEF Drop
    <2>5. /\ Lists'
          /\ \A d, q : q \in Ports => (Listed(d, q)' <=> Listed(d, q) /\ ~(d = c /\ q = port))
      BY <1>0, <2>1, <2>c, ListsRemoved
    <2> HIDE DEF start
    <2>6. \A l \in Clients, e \in Elements : ~Dropping(l, c, e, start) /\ ~Clearing(l, c, e, start)
      BY <2>2, <2>3 DEF Bonded, Once, Going
    <2>7. Stacked' /\ Replaces(k, h, {a})
      <3>1. a \in ClientCode
        BY <2>2, <2>3 DEF ClientCode
      <3>2. \A x : Has(k, x) /\ Fits(h, x) => Fits(a, x)
        <4> SUFFICES ASSUME NEW x, Has(k, x), Fits(h, x)
                     PROVE  Fits(a, x)
          OBVIOUS
        <4>1. \A e \in Elements : x # <<"drop", c, e, start>> /\ x # <<"clear", c, e, start>>
          BY <2>6 DEF Dropping, Clearing
        <4> QED
          BY <4>1 DEF Fits
      <3>3. Then(k, <<a>>) /\ Does(k, h)
        BY <1>1, <2>1, <2>4, <2>c
      <3> HIDE DEF a, h
      <3> QED
        BY <1>0, <3>1, <3>2, <3>3, ExecutesOne
    <2>8. /\ Adding'
          /\ \A l \in Clients, d \in Channels, q \in Ports :
                Has(l, <<"add", d, q>>)' <=> Has(l, <<"add", d, q>>)
          /\ \A l \in Clients, d \in Channels : Making(l, d)' <=> Making(l, d)
      BY <1>0, <1>1, <1>h, <2>7, AddingKept
    <2>9. \A l \in Clients, d \in Channels, e \in Elements, way \in Ways :
             /\ Dropping(l, d, e, way)' <=> \/ Dropping(l, d, e, way)
                                            \/ l = k /\ d = c /\ e = Near(start) /\ way = start
             /\ Clearing(l, d, e, way)' <=> Clearing(l, d, e, way)
      BY <2>7 DEF Replaces, Dropping, Clearing
    <2>10. \A l \in Clients : \A q, o : /\ Removing(l, q, o)' => Removing(l, q, o)
                                        /\ Removing(l, q, o) => Removing(l, q, o)' \/ (q = port /\ o = other)
      BY <2>7 DEF Replaces, Removing
    <2>11. ASSUME NEW d \in Channels \ {c}
           PROVE  Bonded(d)'
      <3>1. {From[d], To[d]} # {port, other}
        BY <2>3 DEF Pair
      <3>2. SameCalls(d)
        BY <2>8, <2>9, <2>10, <3>1, Consts DEF SameCalls
      <3>3. SameLinks(d) /\ chan[d].links \subseteq Elements
        BY <1>1 DEF SameLinks, TypeOK
      <3> QED
        BY <1>0, <2>5, <3>2, <3>3, Untouched, Consts
    <2>12. Bonded(c)'
      <3>1. Removing(k, port, other)
        BY <2>7 DEF Replaces, Removing
      <3>2. \A l \in Clients : ~Making(l, c)
        BY <2>2, <2>3, <3>1 DEF Bonded, Made, Pair
      <3>3. SameLinks(c) /\ chan[c].links \subseteq Elements
        BY <1>1, <2>2 DEF SameLinks, TypeOK
      <3>4. Listed(c, NearPort(c, start)) /\ ~Listed(c, NearPort(c, start))'
        BY <2>2, <2>3, <2>5 DEF NearPort
      <3>5. Listed(c, FarPort(c, start))' <=> Listed(c, FarPort(c, start))
        BY <2>3, <2>5 DEF FarPort
      <3> QED
        BY <2>2, <2>3, <2>8, <2>9, <3>2, <3>3, <3>4, <3>5, Detached
    <2> QED
      BY <2>5, <2>7, <2>8, <2>11, <2>12 DEF Bonds
  <1> QED
    BY <1>1, <1>a, <1>b

LEMMA BondsDrop ==
    ASSUME TypeOK, Bonds, NEW k \in Clients, DropElement(k)
    PROVE  Bonds'
  <1>1. PICK c \in Channels, e \in Elements, way \in Ways :
           /\ Does(k, <<"drop", c, e, way>>)
           /\ Then(k, IF e \in chan[c].links /\ e # Far(way)
                      THEN <<<<"drop", c, Following(e, way), way>>, <<"clear", c, e, way>>>>
                      ELSE <<<<"clear", c, e, way>>>>)
           /\ UNCHANGED <<chan, conns>>
    BY DEF DropElement
  <1> DEFINE on == e \in chan[c].links /\ e # Far(way)
             f == Following(e, way)
             h == <<"drop", c, e, way>>
             a == <<"drop", c, f, way>>
             b == <<"clear", c, e, way>>
  <1>0. Lists /\ Adding /\ Stacked /\ (\A d \in Channels : Bonded(d)) /\ h[1] # "add"
    BY DEF Bonds
  <1>2. f \in Elements /\ (e # Far(way) => f # Near(way) /\ Previous(f, way) = e /\ Rank(f, way) = Rank(e, way) + 1)
    BY Ranks DEF Following
  <1> HIDE DEF f
  <1>3. Stacked' /\ \E N : /\ Replaces(k, h, N)
                           /\ N = IF on THEN {a, b} ELSE {b}
    <2>1. a \in ClientCode /\ b \in ClientCode
      BY <1>2 DEF ClientCode
    <2>2. \A x : Fits(h, x) => Fits(b, x)
      BY DEF Fits
    <2>3. CASE on
      <3>1. Then(k, <<a, b>>)
        BY <1>1, <2>3 DEF f
      <3>2. Rank(e, way) < Rank(f, way)
        BY <1>2, <2>3, Ranks
      <3>3. Fits(a, b)
        BY <3>2 DEF Fits
      <3>4. \A x : Fits(h, x) => Fits(a, x)
        <4> SUFFICES ASSUME NEW x, Fits(h, x), NEW d \in Channels, NEW w \in Ways, NEW p \in Elements, NEW q \in Elements,
                            a \in {<<"drop", d, p, w>>, <<"clear", d, p, w>>},
                            x \in {<<"drop", d, q, w>>, <<"clear", d, q, w>>}
                     PROVE  x = <<"clear", d, q, w>> /\ Rank(q, w) < Rank(p, w)
          BY DEF Fits
        <4>1. d = c /\ p = f /\ w = way
          OBVIOUS
        <4>2. x = <<"clear", c, q, way>> /\ Rank(q, way) < Rank(e, way)
          BY <4>1 DEF Fits
        <4> QED
          BY <3>2, <4>1, <4>2, <1>2, Ranks
      <3> HIDE DEF a, b, h
      <3>5. Stacked' /\ Replaces(k, h, {a, b})
        BY <1>0, <1>1, <2>1, <2>2, <3>1, <3>3, <3>4, ExecutesTwo DEF h
      <3> QED
        BY <2>3, <3>5
    <2>4. CASE ~on
      <3>1. Then(k, <<b>>)
        BY <1>1, <2>4
      <3> HIDE DEF a, b, h
      <3>2. Stacked' /\ Replaces(k, h, {b})
        BY <1>0, <1>1, <2>1, <2>2, <3>1, ExecutesOne DEF h
      <3> QED
        BY <2>4, <3>2
    <2> QED
      BY <2>3, <2>4
  <1>4. PICK N : Replaces(k, h, N) /\ N = IF on THEN {a, b} ELSE {b}
    BY <1>3
  <1>5. \A x \in N : x[1] # "add"
    BY <1>4
  <1>6. /\ Adding'
        /\ \A l \in Clients, d \in Channels, q \in Ports :
              Has(l, <<"add", d, q>>)' <=> Has(l, <<"add", d, q>>)
        /\ \A l \in Clients, d \in Channels : Making(l, d)' <=> Making(l, d)
    BY <1>0, <1>1, <1>4, <1>5, AddingKept
  <1>7. Lists' /\ \A d, q : Listed(d, q)' <=> Listed(d, q)
    BY <1>0, <1>1 DEF Lists, Listed
  <1>8. \A l \in Clients : \A q, o : Removing(l, q, o)' <=> Removing(l, q, o)
    BY <1>4 DEF Replaces, Removing
  <1>9. \A l \in Clients, d \in Channels, x \in Elements, w \in Ways :
           /\ Dropping(l, d, x, w)' => Dropping(l, d, x, w) \/ (l = k /\ d = c /\ x = f /\ w = way /\ on)
           /\ Dropping(l, d, x, w) => Dropping(l, d, x, w)' \/ (l = k /\ d = c /\ x = e /\ w = way)
           /\ Clearing(l, d, x, w)' <=> Clearing(l, d, x, w) \/ (l = k /\ d = c /\ x = e /\ w = way)
    BY <1>4 DEF Replaces, Dropping, Clearing
  <1>10. on => Dropping(k, c, f, way)'
    BY <1>4 DEF Replaces, Dropping
  <1>11. Dropping(k, c, e, way) /\ Clearing(k, c, e, way)'
    BY <1>4 DEF Replaces, Dropping, Clearing
  <1>12. ASSUME NEW d \in Channels \ {c}
         PROVE  Bonded(d)'
    <2>1. SameCalls(d)
      BY <1>6, <1>8, <1>9, Consts DEF SameCalls
    <2>2. SameLinks(d) /\ chan[d].links \subseteq Elements
      BY <1>1 DEF SameLinks, TypeOK
    <2> QED
      BY <1>0, <1>7, <2>1, <2>2, Untouched
  <1>13. Bonded(c)'
    <2>0. Closed(c) /\ Once(c) /\ Made(c) /\ FarEnd(c) /\ Apart(c) /\ chan[c].links \subseteq Elements
      BY <1>0 DEF Bonded, TypeOK
    <2>1. Going(k, c, way) /\ Going(k, c, way)'
      BY <1>11 DEF Going
    <2>2. \A l \in Clients, w \in Ways : Going(l, c, w)' <=> Going(l, c, w)
      BY <1>9, <2>1 DEF Going
    <2>3. ~Listed(c, NearPort(c, way)) /\ \A l \in Clients : Going(l, c, way) => l = k
      BY <2>0, <2>1 DEF Once
    <2>4. \A l \in Clients : ~Making(l, c)
      BY <2>0, <2>1 DEF Made
    <2>5. Closed(c)'
      <3> SUFFICES ASSUME NEW l \in Clients, NEW w \in Ways, NEW x \in Elements \ {Near(w)},
                          Dropping(l, c, x, w)' \/ Clearing(l, c, x, w)'
                   PROVE  Clearing(l, c, Previous(x, w), w)'
        BY DEF Closed
      <3>1. Previous(x, w) \in Elements
        BY Ends DEF Previous, Elements
      <3>2. CASE Dropping(l, c, x, w) \/ Clearing(l, c, x, w)
        BY <1>9, <2>0, <3>1, <3>2 DEF Closed
      <3>3. CASE l = k /\ w = way /\ x = f /\ on
        BY <1>2, <1>11, <3>3
      <3>4. CASE l = k /\ w = way /\ x = e
        BY <1>9, <1>11, <2>0, <3>1, <3>4 DEF Closed
      <3> QED
        BY <1>9, <3>2, <3>3, <3>4
    <2>6. Once(c)'
      BY <1>7, <2>0, <2>2 DEF Once, NearPort
    <2>7. Made(c)'
      BY <1>6, <2>4 DEF Made
    <2>8. FarEnd(c)'
      <3> SUFFICES ASSUME NEW w \in Ways, Listed(c, FarPort(c, w))'
                   PROVE  /\ Near(w) \in chan'[c].links /\ "data" \in chan'[c].links
                          /\ Far(w) \in chan'[c].ports /\ \E l \in Clients : Coming(l, c, w)'
        BY DEF FarEnd
      <3>1. Listed(c, FarPort(c, w))
        BY <1>7 DEF FarPort
      <3>2. w = way
        BY <2>3, <3>1, Ends DEF Ways
      <3>3. Near(w) \in chan[c].links /\ "data" \in chan[c].links /\ Far(w) \in chan[c].ports
        BY <1>11, <2>0, <3>1, <3>2 DEF FarEnd
      <3>4. on \/ e = Far(way)
        BY <3>2, <3>3, Ranks
      <3>5. Coming(k, c, w)'
        BY <1>2, <1>10, <1>11, <3>2, <3>4 DEF Coming
      <3> QED
        BY <1>1, <3>3, <3>5
    <2>9. Apart(c)'
      <3>1. ~Whole(c)
        BY <2>3, Ends DEF Whole, Ways
      <3>2. ASSUME NEW x \in chan[c].links
            PROVE  \E l \in Clients, w \in Ways : Covers(l, c, x, w)'
        <4>0. x \in Elements
          BY <2>0
        <4>1. PICK l \in Clients, w \in Ways : Covers(l, c, x, w)
          BY <2>0, <2>4, <3>1 DEF Apart
        <4>2. CASE Clearing(l, c, x, w)
          BY <1>9, <4>0, <4>2 DEF Covers
        <4>3. CASE ~Clearing(l, c, x, w)
          <5>1. PICK z \in Elements :
                   /\ Dropping(l, c, z, w) /\ Rank(z, w) <= Rank(x, w)
                   /\ \A y \in Elements : Rank(z, w) <= Rank(y, w) /\ Rank(y, w) < Rank(x, w)
                                             => y \in chan[c].links
            BY <4>1, <4>3 DEF Covers
          <5>2. CASE Dropping(l, c, z, w)'
            BY <1>1, <5>1, <5>2 DEF Covers
          <5>3. CASE ~Dropping(l, c, z, w)'
            <6>1. l = k /\ z = e /\ w = way
              BY <1>9, <5>1, <5>3
            <6>2. CASE x = e
              BY <1>11, <6>1, <6>2 DEF Covers
            <6>3. CASE x # e
              <7>1. Rank(e, way) < Rank(x, way)
                BY <4>0, <5>1, <6>1, <6>3, Ranks
              <7>2. e \in chan[c].links /\ e # Far(way)
                BY <4>0, <5>1, <6>1, <7>1, Ranks
              <7>3. Dropping(k, c, f, way)' /\ Rank(f, way) = Rank(e, way) + 1
                BY <1>2, <1>10, <7>2
              <7>4. Rank(f, way) <= Rank(x, way)
                BY <4>0, <7>1, <7>3, Ranks
              <7>5. \A y \in Elements : Rank(f, way) <= Rank(y, way) => Rank(e, way) <= Rank(y, way)
                BY <7>3, Ranks
              <7> QED
                BY <1>1, <1>2, <5>1, <6>1, <7>3, <7>4, <7>5 DEF Covers
            <6> QED
              BY <6>2, <6>3
          <5> QED
            BY <5>2, <5>3
        <4> QED
          BY <4>2, <4>3
      <3> QED
        BY <1>1, <3>2 DEF Apart
    <2> QED
      BY <2>5, <2>6, <2>7, <2>8, <2>9 DEF Bonded
  <1> QED
    BY <1>3, <1>6, <1>7, <1>12, <1>13 DEF Bonds

LEMMA BondsClear ==
    ASSUME TypeOK, Bonds, OnePerPair, NEW k \in Clients, ClearElement(k)
    PROVE  Bonds'
  <1>1. PICK c \in Channels, e \in Elements, way \in Ways :
           LET far == e = Far(way) /\ e \in chan[c].ports
           IN  /\ Does(k, <<"clear", c, e, way>>)
               /\ Cleared(c, [chan[c] EXCEPT !.links = @ \ {e}, !.ports = IF far THEN @ \ {e} ELSE @])
               /\ Then(k, IF far THEN <<<<"remove", End(c, Far(way)), End(c, Near(way))>>>> ELSE <<>>)
    BY DEF ClearElement
  <1> DEFINE far == e = Far(way) /\ e \in chan[c].ports
             h == <<"clear", c, e, way>>
             a == <<"remove", FarPort(c, way), NearPort(c, way)>>
  <1>0. /\ Lists /\ Adding /\ Stacked /\ (\A d \in Channels : Bonded(d)) /\ h[1] # "add"
        /\ chan[c].links \subseteq Elements
    BY DEF Bonds, TypeOK
  <1>2. Stacked' /\ \E N : Replaces(k, h, N) /\ N = IF far THEN {a} ELSE {}
    <2>1. CASE far
      <3>1. a \in ClientCode
        BY Ends DEF ClientCode
      <3>2. Then(k, <<a>>)
        BY <1>1, <2>1 DEF FarPort, NearPort
      <3>3. \A x : Fits(h, x) => Fits(a, x)
        BY DEF Fits
      <3> HIDE DEF a, h
      <3>4. Stacked' /\ Replaces(k, h, {a})
        BY <1>0, <1>1, <3>1, <3>2, <3>3, ExecutesOne DEF h
      <3> QED
        BY <2>1, <3>4
    <2>2. CASE ~far
      <3>1. Then(k, <<>>)
        BY <1>1, <2>2
      <3>2. Stacked' /\ Replaces(k, h, {})
        BY <1>0, <1>1, <3>1, ExecutesNone
      <3> QED
        BY <2>2, <3>2
    <2> QED
      BY <2>1, <2>2
  <1>3. PICK N : Replaces(k, h, N) /\ N = IF far THEN {a} ELSE {}
    BY <1>2
  <1>4. /\ conns' = conns
        /\ chan'[c].links = chan[c].links \ {e}
        /\ chan'[c].links # {} =>
              chan'[c].ports = IF far THEN chan[c].ports \ {e} ELSE chan[c].ports
        /\ \A d \in Channels \ {c} : chan'[d] = chan[d]
    <2> DEFINE rest == [chan[c] EXCEPT !.links = @ \ {e}, !.ports = IF far THEN @ \ {e} ELSE @]
    <2>1. chan \in [Channels -> Cell] /\ chan[c] \in Cell
      BY DEF TypeOK, Cell
    <2>2. rest.links = chan[c].links \ {e} /\ rest.ports = IF far THEN chan[c].ports \ {e} ELSE chan[c].ports
      BY <2>1 DEF Cell
    <2>3. Cleared(c, rest)
      BY <1>1
    <2> HIDE DEF rest
    <2>4. Gone.links = {}
      <3>1. Built(0) \in Cell
        BY DEF Built, Cell, Elements
      <3> QED
        BY <3>1 DEF Gone, Cell
    <2> HIDE DEF far
    <2> QED
      BY <2>1, <2>2, <2>3, <2>4 DEF Cleared
  <1>5. \A x \in N : x[1] # "add"
    BY <1>3
  <1>6. /\ Adding'
        /\ \A l \in Clients, d \in Channels, q \in Ports :
              Has(l, <<"add", d, q>>)' <=> Has(l, <<"add", d, q>>)
        /\ \A l \in Clients, d \in Channels : Making(l, d)' <=> Making(l, d)
    BY <1>0, <1>1, <1>3, <1>5, AddingKept
  <1>7. Lists' /\ \A d, q : Listed(d, q)' <=> Listed(d, q)
    BY <1>0, <1>4 DEF Lists, Listed
  <1>8. \A l \in Clients : \A q, o :
           /\ Removing(l, q, o)' => Removing(l, q, o) \/ (q = FarPort(c, way) /\ o = NearPort(c, way))
           /\ Removing(l, q, o) => Removing(l, q, o)'
    BY <1>3 DEF Replaces, Removing
  <1>9. \A l \in Clients, d \in Channels, x \in Elements, w \in Ways :
           /\ Dropping(l, d, x, w)' <=> Dropping(l, d, x, w)
           /\ Clearing(l, d, x, w)' => Clearing(l, d, x, w)
           /\ Clearing(l, d, x, w) => Clearing(l, d, x, w)' \/ (l = k /\ d = c /\ x = e /\ w = way)
    BY <1>3 DEF Replaces, Dropping, Clearing
  <1>10. \A x \in Elements : /\ ~Dropping(k, c, x, way) /\ ~Dropping(k, c, x, way)'
                             /\ Clearing(k, c, x, way)' => Rank(x, way) < Rank(e, way)
                             /\ Clearing(k, c, x, way) => x = e \/ Rank(x, way) < Rank(e, way)
    <2>1. \A x \in Elements : ~Fits(h, <<"drop", c, x, way>>) /\ (Fits(h, <<"clear", c, x, way>>) => Rank(x, way) < Rank(e, way))
      BY FitsFacts
    <2> QED
      BY <1>3, <1>9, <2>1 DEF Replaces, Dropping, Clearing
  <1>11. \A q, o : ~Removing(k, q, o)
    <2>1. \A q, o : ~Fits(h, <<"remove", q, o>>)
      BY DEF Fits
    <2>2. \A i \in DOMAIN todo[k] : i # 1 => Fits(h, todo[k][i])
      <3>1. todo[k] \in Seq(ClientCode) /\ ~Idle(k) /\ Head(todo[k]) = h
        BY <1>1 DEF TypeOK, Does
      <3>2. todo[k][1] = h /\ 1 \in DOMAIN todo[k]
        BY <3>1, Begun
      <3>3. DOMAIN todo[k] \subseteq Nat \ {0}
        BY <3>1, LenProperties
      <3> QED
        BY <1>0, <3>2, <3>3 DEF Stacked
    <2>3. todo[k][1] = h
      BY <1>1, Begun DEF TypeOK, Does
    <2> QED
      BY <2>1, <2>2, <2>3 DEF Removing, Has
  <1>12. Clearing(k, c, e, way) /\ ~Clearing(k, c, e, way)'
    <2>1. ~(Rank(e, way) < Rank(e, way))
      BY Ranks
    <2> QED
      BY <1>3, <1>10, <2>1 DEF Replaces, Clearing
  <1>13. far => Removing(k, FarPort(c, way), NearPort(c, way))'
    BY <1>3 DEF Replaces, Removing
  <1>14. ASSUME NEW d \in Channels \ {c}
         PROVE  Bonded(d)'
    <2>1. Pair(d) # {FarPort(c, way), NearPort(c, way)}
      BY Ends DEF OnePerPair
    <2>2. {From[d], To[d]} # {FarPort(c, way), NearPort(c, way)}
      BY <2>1 DEF Pair
    <2>3. SameCalls(d)
      BY <1>6, <1>8, <1>9, <2>2, Consts DEF SameCalls
    <2>4. SameLinks(d) /\ chan[d].links \subseteq Elements
      BY <1>4 DEF SameLinks, TypeOK
    <2> QED
      BY <1>0, <1>7, <2>3, <2>4, Untouched
  <1>15. Bonded(c)'
    <2>0. Closed(c) /\ Once(c) /\ Made(c) /\ FarEnd(c) /\ Apart(c)
      BY <1>0 DEF Bonded
    <2>1. Going(k, c, way) /\ \A l \in Clients, w \in Ways : Going(l, c, w)' => Going(l, c, w)
      BY <1>9, <1>12 DEF Going
    <2>2. ~Listed(c, NearPort(c, way)) /\ \A l \in Clients : Going(l, c, way) => l = k
      BY <2>0, <2>1 DEF Once
    <2>3. \A l \in Clients : ~Making(l, c)
      BY <2>0, <2>1 DEF Made
    <2>4. \A w \in Ways : w = way \/ (NearPort(c, w) = FarPort(c, way) /\ FarPort(c, w) = NearPort(c, way))
      BY Ends DEF Ways
    <2>5. ~Whole(c)
      BY <2>2, Ends DEF Whole, Ways
    <2>6. Closed(c)'
      <3> SUFFICES ASSUME NEW l \in Clients, NEW w \in Ways, NEW x \in Elements \ {Near(w)},
                          Dropping(l, c, x, w)' \/ Clearing(l, c, x, w)'
                   PROVE  Clearing(l, c, Previous(x, w), w)'
        BY DEF Closed
      <3>1. Previous(x, w) \in Elements /\ Rank(Previous(x, w), w) < Rank(x, w)
        BY Ranks
      <3>2. Clearing(l, c, Previous(x, w), w)
        BY <1>9, <2>0 DEF Closed
      <3>3. CASE l = k /\ w = way
        <4>1. Rank(x, way) < Rank(e, way)
          BY <1>10, <3>3
        <4>2. Previous(x, w) # e
          BY <3>1, <3>3, <4>1, Ranks
        <4> QED
          BY <1>9, <3>1, <3>2, <4>2
      <3>4. CASE ~(l = k /\ w = way)
        BY <1>9, <3>1, <3>2, <3>4
      <3> QED
        BY <3>3, <3>4
    <2>7. Once(c)'
      BY <1>7, <2>0, <2>1 DEF Once, NearPort
    <2>8. Made(c)'
      BY <1>6, <2>3 DEF Made
    <2>9. FarEnd(c)'
      <3> SUFFICES ASSUME NEW w \in Ways, Listed(c, FarPort(c, w))'
                   PROVE  /\ Near(w) \in chan'[c].links /\ "data" \in chan'[c].links
                          /\ ~Listed(c, NearPort(c, w))'
                          /\ \A l \in Clients : /\ \A x \in Elements : ~Dropping(l, c, x, w)'
                                                /\ ~Clearing(l, c, Far(w), w)'
                          /\ \E l \in Clients : Coming(l, c, w)'
        BY DEF FarEnd
      <3>1. Listed(c, FarPort(c, w))
        BY <1>7 DEF FarPort
      <3>2. w = way
        BY <2>2, <2>4, <3>1
      <3>3. PICK l \in Clients : Coming(l, c, way)
        BY <2>0, <2>3, <2>5, <3>1, <3>2 DEF FarEnd
      <3>4. l = k
        <4>1. Far(way) \in Elements /\ "data" \in Elements
          BY Ranks
        <4>2. Going(l, c, way)
          BY <3>3, <4>1 DEF Coming, Going
        <4> QED
          BY <2>2, <4>2
      <3>5. Clearing(k, c, Far(way), way) /\ Far(way) \in Elements
        BY <1>10, <1>11, <3>3, <3>4, Ranks DEF Coming
      <3>6. e = Far(way)
        BY <1>10, <3>5, Ranks
      <3>7. Near(way) \in chan[c].links /\ "data" \in chan[c].links /\ Far(way) \in chan[c].ports
        BY <2>0, <3>1, <3>2, <3>5 DEF FarEnd
      <3>8. Near(way) \in chan'[c].links /\ "data" \in chan'[c].links
        BY <1>4, <3>6, <3>7, Ranks
      <3>9. ~Listed(c, NearPort(c, w))'
        BY <1>7, <2>2, <3>2 DEF NearPort
      <3>10. ASSUME NEW m \in Clients
             PROVE  (\A x \in Elements : ~Dropping(m, c, x, way)') /\ ~Clearing(m, c, Far(way), way)'
        <4>1. CASE m = k
          BY <1>10, <1>12, <3>6, <4>1
        <4>2. CASE m # k
          <5>1. ~Going(m, c, way)
            BY <2>2, <4>2
          <5> QED
            BY <1>9, <3>5, <5>1 DEF Going
        <4> QED
          BY <4>1, <4>2
      <3>11. Coming(k, c, way)'
        <4>1. far
          BY <3>6, <3>7
        <4>2. Previous(Far(way), way) = "data" /\ Far(way) # Near(way) /\ "data" # Far(way) /\ "data" \in Elements
          BY Ranks
        <4>3. Clearing(k, c, "data", way)
          BY <2>0, <3>5, <4>2 DEF Closed
        <4>4. Clearing(k, c, "data", way)'
          BY <1>9, <3>6, <4>2, <4>3
        <4> QED
          BY <1>13, <4>1, <4>4 DEF Coming, FarPort, NearPort
      <3> QED
        BY <3>2, <3>8, <3>9, <3>10, <3>11
    <2>10. Apart(c)'
      <3>1. ASSUME NEW x \in chan'[c].links
            PROVE  \E l \in Clients, w \in Ways : Covers(l, c, x, w)'
        <4>0. x \in Elements /\ x \in chan[c].links /\ x # e
          BY <1>0, <1>4
        <4>1. PICK l \in Clients, w \in Ways : Covers(l, c, x, w)
          BY <2>0, <2>3, <2>5, <4>0 DEF Apart
        <4>2. CASE Clearing(l, c, x, w)
          BY <1>9, <4>0, <4>2 DEF Covers
        <4>3. CASE ~Clearing(l, c, x, w)
          <5>1. PICK z \in Elements :
                   /\ Dropping(l, c, z, w) /\ Rank(z, w) <= Rank(x, w)
                   /\ \A y \in Elements : Rank(z, w) <= Rank(y, w) /\ Rank(y, w) < Rank(x, w)
                                             => y \in chan[c].links
            BY <4>1, <4>3 DEF Covers
          <5>2. w # way
            BY <1>10, <2>2, <5>1 DEF Going
          <5>3. CASE ~(Rank(e, w) < Rank(x, w))
            BY <1>4, <1>9, <5>1, <5>3 DEF Covers
          <5>4. CASE Rank(e, w) < Rank(x, w)
            <6>1. Rank(x, way) < Rank(e, way)
              BY <4>0, <5>2, <5>4 DEF Rank, Near, Elements, Ways
            <6>2. Clearing(k, c, x, way)
              <7>1. e # Near(way) /\ Clearing(k, c, Previous(e, way), way) /\ Previous(e, way) \in Elements
                BY <1>12, <2>0, <4>0, <6>1, Ranks DEF Closed
              <7>2. CASE x = Previous(e, way)
                BY <7>1, <7>2
              <7>3. CASE x # Previous(e, way)
                <8>1. Previous(e, way) # Near(way) /\ Previous(Previous(e, way), way) = x
                  BY <4>0, <6>1, <7>1, <7>3, Ranks
                <8> QED
                  BY <2>0, <7>1, <8>1 DEF Closed
              <7> QED
                BY <7>2, <7>3
            <6> QED
              BY <1>9, <4>0, <6>2 DEF Covers
          <5> QED
            BY <5>3, <5>4
        <4> QED
          BY <4>2, <4>3
      <3> QED
        BY <3>1 DEF Apart
    <2> QED
      BY <2>6, <2>7, <2>8, <2>9, <2>10 DEF Bonded
  <1> QED
    BY <1>2, <1>6, <1>7, <1>14, <1>15 DEF Bonds

\* A writer and a reader change no links, and no list but for an entry that has lost its link.
LEMMA BondsWriter ==
    ASSUME TypeOK, Bonds, NEW p \in Outputs, Writer(p)
    PROVE  Bonds'
  <1>0. /\ Lists /\ chan \in [Channels -> Cell] /\ p \in Threads /\ p \in Ports /\ p \notin Clients
        /\ todo \in [Threads -> Seq(ClientCode \cup WriterCode \cup ReaderCode)]
        /\ samples[p] \in Nat
    BY Consts DEF Bonds, TypeOK, Cell
  <1>1. \E new : Do(p, new)
    BY DEF Writer, Write, LockForWrite, PutNowhere, PutData, SetFlag, PutBuffer, SignalPort, Then
  <1>2. \A k \in Clients : todo'[k] = todo[k]
    BY <1>0, <1>1, Consts DEF Do
  <1>3. \A c \in Channels : SameLinks(c)
    <2>1. CASE chan' = chan
      BY <2>1 DEF SameLinks
    <2>2. CASE PutBuffer(p)
      <3>1. PICK c \in Channels : chan' = Stored(chan, c, samples[p])
        BY <2>2 DEF PutBuffer
      <3>2. /\ Stored(chan, c, samples[p])[c].links = chan[c].links
            /\ Stored(chan, c, samples[p])[c].ports = chan[c].ports
            /\ \A d \in Channels \ {c} : Stored(chan, c, samples[p])[d] = chan[d]
        BY <1>0, StoredLinks
      <3> QED
        BY <3>1, <3>2 DEF SameLinks
    <2>3. CASE PutData(p)
      <3>1. PICK c \in Channels : chan' = [chan EXCEPT ![c].value = samples[p]]
        BY <2>3 DEF PutData
      <3> QED
        BY <1>0, <3>1 DEF SameLinks, Cell
    <2>4. CASE SetFlag(p)
      <3>1. PICK c \in Channels : \/ chan' = [chan EXCEPT ![c].written = TRUE]
                                  \/ chan' = [chan EXCEPT ![c].read = FALSE]
        BY <2>4 DEF SetFlag
      <3>2. CASE chan' = [chan EXCEPT ![c].written = TRUE]
        BY <1>0, <3>2 DEF SameLinks, Cell
      <3>3. CASE chan' = [chan EXCEPT ![c].read = FALSE]
        BY <1>0, <3>3 DEF SameLinks, Cell
      <3> QED
        BY <3>1, <3>2, <3>3
    <2> QED
      BY <2>1, <2>2, <2>3, <2>4 DEF Writer, Write, LockForWrite, PutNowhere, SignalPort
  <1>4. /\ Lists'
        /\ \A c \in Channels, port \in Ports :
              /\ Listed(c, port)' => Listed(c, port)
              /\ Listed(c, port) /\ "in" \in chan[c].links => Listed(c, port)'
    <2>1. CASE PutNowhere(p)
      <3>1. PICK c \in Channels : /\ "in" \notin chan[c].links
                                  /\ \E i \in DOMAIN conns[p] : conns[p][i] = c /\ Removed(p, i)
        BY <2>1 DEF PutNowhere
      <3>2. PICK i \in DOMAIN conns[p] : conns[p][i] = c /\ Removed(p, i)
        BY <3>1
      <3>3. Lists' /\ \A d, q : q \in Ports => (Listed(d, q)' <=> Listed(d, q) /\ ~(d = conns[p][i] /\ q = p))
        BY <1>0, <3>2, ListsRemoved
      <3> QED
        BY <3>1, <3>2, <3>3
    <2>2. CASE conns' = conns
      BY <1>0, <2>2 DEF Lists, Listed
    <2> QED
      BY <2>1, <2>2 DEF Writer, Write, LockForWrite, PutData, SetFlag, PutBuffer, SignalPort
  <1> QED
    BY <1>2, <1>3, <1>4, BondsFrame

LEMMA BondsReader ==
    ASSUME TypeOK, Bonds, NEW r \in Inputs, Reader(r)
    PROVE  Bonds'
  <1>0. /\ Lists /\ chan \in [Channels -> Cell] /\ r \in Threads /\ r \notin Clients
        /\ todo \in [Threads -> Seq(ClientCode \cup WriterCode \cup ReaderCode)]
    BY Consts DEF Bonds, TypeOK, Cell
  <1>1. (\E new : Do(r, new)) \/ todo' = todo
    BY DEF Reader, BeginRead, ReadAgain, TakeNothing, TakeData, MarkRead, TakeBuffer, Clear, NewData, Then
  <1>2. \A k \in Clients : todo'[k] = todo[k]
    BY <1>0, <1>1, Consts DEF Do
  <1>3. \A c \in Channels : SameLinks(c)
    <2>1. CASE chan' = chan
      BY <2>1 DEF SameLinks
    <2>2. CASE MarkRead(r)
      <3>1. PICK c \in Channels : chan' = [chan EXCEPT ![c].read = TRUE]
        BY <2>2 DEF MarkRead
      <3> QED
        BY <1>0, <3>1 DEF SameLinks, Cell
    <2>3. CASE TakeBuffer(r)
      <3>1. PICK c \in Channels : chan' = [chan EXCEPT ![c].queue = Tail(@)]
        BY <2>3 DEF TakeBuffer
      <3> QED
        BY <1>0, <3>1 DEF SameLinks, Cell
    <2>4. CASE Clear(r)
      BY <1>0, <2>4 DEF Clear, SameLinks, Cell
    <2> QED
      BY <2>1, <2>2, <2>3, <2>4 DEF Reader, BeginRead, ReadAgain, TakeNothing, TakeData
  <1>4. conns' = conns
    BY DEF Reader, BeginRead, ReadAgain, TakeNothing, TakeData, MarkRead, TakeBuffer, Clear, NewData
  <1>5. /\ Lists'
        /\ \A c \in Channels, port \in Ports : Listed(c, port)' <=> Listed(c, port)
    BY <1>0, <1>4 DEF Lists, Listed
  <1> QED
    BY <1>2, <1>3, <1>5, BondsFrame

LEMMA BondsStep == OnePerPair /\ Shape /\ Bonds /\ [Next]_vars => Bonds'
  <1> SUFFICES ASSUME OnePerPair, TypeOK, Bonds, [Next]_vars
               PROVE  Bonds'
    BY DEF Shape
  <1>1. CASE \E k \in Clients : Client(k)
    BY <1>1, BondsCreate, BondsAdd, BondsDisconnect, BondsDisconnectAll, BondsRemove, BondsDrop, BondsClear DEF Client
  <1>2. CASE \E p \in Outputs : Writer(p)
    BY <1>2, BondsWriter
  <1>3. CASE \E r \in Inputs : Reader(r)
    BY <1>3, BondsReader
  <1>4. CASE UNCHANGED vars
    <2>1. todo' = todo /\ conns' = conns /\ chan' = chan
      BY <1>4 DEF vars
    <2>2. Lists'
      BY <2>1 DEF Bonds, Lists, Listed
    <2> QED
      BY <2>1, <2>2, BondsFrame DEF SameLinks, Listed
  <1> QED
    BY <1>1, <1>2, <1>3, <1>4 DEF Next

LEMMA BondsInit == Init => Bonds
  <1> SUFFICES ASSUME Init
               PROVE  Bonds
    OBVIOUS
  <1>1. \A k \in Clients : \A x : ~Has(k, x)
    BY Consts DEF Init, Has
  <1>2. \A c, port : port \in Ports => ~Listed(c, port)
    BY DEF Init, Listed
  <1>3. Lists /\ Adding /\ Stacked
    BY <1>1, <1>2, Consts DEF Init, Lists, Adding, Stacked
  <1>4. ASSUME NEW c \in Channels
        PROVE  Bonded(c)
    <2>1. chan[c].links = {}
      BY DEF Init, Gone, Built
    <2>2. \A k \in Clients : /\ \A e \in Elements, way \in Ways : ~Dropping(k, c, e, way) /\ ~Clearing(k, c, e, way)
                             /\ ~Making(k, c)
      BY <1>1 DEF Dropping, Clearing, Making
    <2>3. Closed(c) /\ Once(c) /\ Made(c)
      BY <2>2 DEF Closed, Once, Made, Going
    <2>4. FarEnd(c)
      BY <1>2, Ends DEF FarEnd
    <2>5. Apart(c)
      BY <2>1 DEF Apart
    <2> QED
      BY <2>3, <2>4, <2>5 DEF Bonded
  <1> QED
    BY <1>3, <1>4 DEF Bonds

\* While no two connections have the same ports, and nobody connects or disconnects, a
\* connection is whole and in the lists of both its ports, or taken apart and in neither.
THEOREM EndsAlwaysAgree == ASSUME OnePerPair PROVE Spec => []EndsAgree
  <1>1. Bonds /\ TypeOK => EndsAgree
    <2> SUFFICES ASSUME Bonds, TypeOK, \A k \in Clients : Idle(k), NEW c \in Channels
                 PROVE  \/ /\ Contains(conns[From[c]], c) /\ Contains(conns[To[c]], c)
                           /\ chan[c].links = Elements /\ chan[c].ports = {"in", "out"}
                        \/ /\ ~Contains(conns[From[c]], c) /\ ~Contains(conns[To[c]], c)
                           /\ chan[c].links = {}
      BY DEF EndsAgree
    <2>1. From[c] \in Ports /\ To[c] \in Ports
      BY Consts
    <2>2. /\ Contains(conns[From[c]], c) <=> Listed(c, From[c])
          /\ Contains(conns[To[c]], c) <=> Listed(c, To[c])
      BY <2>1, ListsTyped
    <2>3. \A k \in Clients : \A x : ~Has(k, x)
      BY DEF Idle, Has
    <2>4. Whole(c) \/ chan[c].links = {}
      <3>1. Apart(c)
        BY DEF Bonds, Bonded
      <3> QED
        BY <2>3, <3>1 DEF Apart, Making, Covers, Clearing, Dropping
    <2>5. CASE Whole(c)
      BY <2>2, <2>5 DEF Whole
    <2>6. CASE chan[c].links = {}
      <3>1. FarEnd(c)
        BY DEF Bonds, Bonded
      <3>2. \A way \in Ways : ~Listed(c, FarPort(c, way))
        BY <2>6, <3>1 DEF FarEnd
      <3>3. ~Listed(c, From[c]) /\ ~Listed(c, To[c])
        BY <3>2, Ends DEF Ways
      <3> QED
        BY <2>2, <2>6, <3>3
    <2> QED
      BY <2>4, <2>5, <2>6
  <1>2. Shape => TypeOK
    BY DEF Shape
  <1>3. OnePerPair /\ Shape /\ Bonds /\ [Next]_vars => Bonds'
    BY BondsStep
  <1> QED
    BY <1>1, <1>2, <1>3, BondsInit, ShapeInit, ShapeStep, PTL DEF Spec

-----------------------------------------------------------------------------
(***************************************************************************)
(* Writing and reading.                                                    *)
(***************************************************************************)

\* The instructions of a writer; its connections stay while it writes to them, once to each.
Writes(p) ==
    /\ \A q \in Outputs : Has(p, <<"lock", q>>) => todo[p] = <<<<"lock", p>>>>
    /\ \A c \in Channels :
          /\ Has(p, <<"put", c>>) => Listed(c, p)
          /\ \A i, j \in DOMAIN todo[p] : todo[p][i] = <<"put", c>> /\ todo[p][j] = <<"put", c>> => i = j
          /\ Has(p, <<"written", c>>) \/ Has(p, <<"unread", c>>) \/ Has(p, <<"signal", c>>) => From[c] = p
Writers == \A p \in Outputs : Writes(p)

LEMMA NotWriting ==
    ASSUME TypeOK, NEW p \in Outputs, Writes(p), Unlocked(p)
    PROVE  \A c \in Channels : ~Has(p, <<"put", c>>)
  <1>1. CASE Idle(p)
    BY <1>1 DEF Idle, Has
  <1>2. CASE ~Idle(p)
    <2>1. todo[p] \in Seq(WriterCode)
      BY DEF TypeOK
    <2>2. Head(todo[p]) \in WriterCode /\ Has(p, Head(todo[p]))
      BY <1>2, <2>1, Begun
    <2>3. Head(todo[p])[1] = "lock" \/ Head(todo[p])[1] = "read"
      BY <1>2 DEF Unlocked, At
    <2>4. PICK q \in Outputs : Head(todo[p]) = <<"lock", q>>
      BY <2>2, <2>3 DEF WriterCode
    <2>5. todo[p] = <<<<"lock", p>>>>
      BY <2>2, <2>4 DEF Writes
    <2> QED
      BY <2>5 DEF Has
  <1> QED
    BY <1>1, <1>2

\* A writer executes an instruction of its list.
LEMMA WritesThen ==
    ASSUME TypeOK, NEW p \in Outputs, Writes(p), NEW h, h[1] # "lock", NEW new \in Seq(WriterCode), Does(p, h), Then(p, new),
           \A i \in DOMAIN new : \E c \in Channels : /\ From[c] = p
                                                     /\ new[i] \in {<<"written", c>>, <<"unread", c>>, <<"signal", c>>},
           \A c \in Channels : Listed(c, p) /\ h # <<"put", c>> => Listed(c, p)'
    PROVE  /\ Writes(p)'
           /\ \A q \in Outputs : ~Has(p, <<"lock", q>>)'
           /\ \A c \in Channels : Has(p, <<"put", c>>)' => Has(p, <<"put", c>>) /\ h # <<"put", c>>
           /\ \A u \in Threads \ {p} : todo'[u] = todo[u]
           /\ \A x : Has(p, x) => x = h \/ Has(p, x)'
           /\ \A i \in DOMAIN new : Has(p, new[i])'
  <1> DEFINE s == todo[p]
             z == todo'[p]
             n == Len(new)
  <1>0. p \in Threads /\ todo \in [Threads -> Seq(ClientCode \cup WriterCode \cup ReaderCode)] /\ s \in Seq(WriterCode)
    BY Consts DEF TypeOK
  <1>1. /\ s[1] = h /\ 1 \in DOMAIN s /\ Has(p, h) /\ n \in Nat
        /\ DOMAIN s \subseteq Nat \ {0} /\ z \in Seq(WriterCode)
        /\ \A u \in Threads \ {p} : todo'[u] = todo[u]
        /\ \A i \in DOMAIN z : \/ i \in DOMAIN new /\ z[i] = new[i]
                               \/ i > n /\ i - n + 1 \in DOMAIN s /\ i - n + 1 > 1 /\ z[i] = s[i - n + 1]
        /\ \A x : Has(p, x) => x = h \/ Has(p, x)'
        /\ \A i \in DOMAIN new : Has(p, new[i])'
        /\ \A x : Has(p, x)' => \/ \E i \in DOMAIN new : new[i] = x
                                \/ \E i \in DOMAIN s : i > 1 /\ s[i] = x
    BY <1>0, Moves
  <1>2. DOMAIN z \subseteq Nat
    BY <1>1, LenProperties
  <1>3. todo'[p] = z /\ todo[p] = s /\ \A i \in DOMAIN s : Has(p, s[i])
    BY DEF Has
  <1>4. \A c \in Channels : \A i, j \in DOMAIN s : s[i] = <<"put", c>> /\ s[j] = <<"put", c>> => i = j
    BY DEF Writes
  <1> HIDE DEF s, z, n
  <1>5. \A q \in Outputs : ~Has(p, <<"lock", q>>)
    <2>1. \A q \in Outputs : Has(p, <<"lock", q>>) => s[1] = <<"lock", p>>
      BY <1>3 DEF Writes
    <2>2. <<"lock", p>>[1] = "lock"
      OBVIOUS
    <2> QED
      BY <1>1, <2>1, <2>2
  <1>6. \A x : Has(p, x)' => x \in {new[i] : i \in DOMAIN new} \/ Has(p, x)
    BY <1>1, <1>3
  <1>7. \A q \in Outputs : ~Has(p, <<"lock", q>>)'
    <2>1. \A q \in Outputs : \A i \in DOMAIN new : new[i] # <<"lock", q>>
      OBVIOUS
    <2> QED
      BY <1>5, <1>6, <2>1
  <1>8. \A c \in Channels : Has(p, <<"put", c>>)' => Has(p, <<"put", c>>) /\ h # <<"put", c>>
    <2>1. ASSUME NEW c \in Channels, NEW i \in DOMAIN s, i > 1, s[i] = <<"put", c>>
          PROVE  h # <<"put", c>>
      BY <1>1, <1>4, <2>1
    <2>2. \A c \in Channels : \A i \in DOMAIN new : new[i] # <<"put", c>>
      OBVIOUS
    <2> QED
      BY <1>1, <1>6, <2>1, <2>2
  <1>9. ASSUME NEW c \in Channels, NEW i \in DOMAIN z, NEW j \in DOMAIN z, z[i] = <<"put", c>>, z[j] = <<"put", c>>
        PROVE  i = j
    <2>1. \A m \in DOMAIN new : new[m] # <<"put", c>>
      OBVIOUS
    <2>2. /\ i - n + 1 \in DOMAIN s /\ s[i - n + 1] = <<"put", c>>
          /\ j - n + 1 \in DOMAIN s /\ s[j - n + 1] = <<"put", c>>
      BY <1>1, <1>9, <2>1
    <2>3. i - n + 1 = j - n + 1
      BY <1>4, <2>2
    <2> QED
      BY <1>1, <1>2, <2>3
  <1>10. ASSUME NEW c \in Channels, Has(p, <<"written", c>>)' \/ Has(p, <<"unread", c>>)' \/ Has(p, <<"signal", c>>)'
         PROVE  From[c] = p
    <2>1. PICK x \in {<<"written", c>>, <<"unread", c>>, <<"signal", c>>} : Has(p, x)'
      BY <1>10
    <2>2. CASE Has(p, x)
      BY <2>1, <2>2 DEF Writes
    <2>3. CASE x \in {new[i] : i \in DOMAIN new}
      <3>1. PICK d \in Channels : From[d] = p /\ x \in {<<"written", d>>, <<"unread", d>>, <<"signal", d>>}
        BY <2>3
      <3>2. d = c
        BY <2>1, <3>1
      <3> QED
        BY <3>1, <3>2
    <2> QED
      BY <1>6, <2>1, <2>2, <2>3
  <1>11. \A c \in Channels : Has(p, <<"put", c>>)' => Listed(c, p)'
    BY <1>8 DEF Writes
  <1>12. Writes(p)'
    BY <1>3, <1>7, <1>9, <1>10, <1>11 DEF Writes
  <1> QED
    BY <1>1, <1>7, <1>8, <1>12

\* A writer does nothing; its list stays, or is not locked.
LEMMA WritesFrame ==
    ASSUME TypeOK, NEW p \in Outputs, Writes(p), todo'[p] = todo[p], conns'[p] = conns[p] \/ Unlocked(p)
    PROVE  Writes(p)'
  <1>1. \A x : Has(p, x)' <=> Has(p, x)
    BY DEF Has
  <1>2. \A c \in Channels : Has(p, <<"put", c>>) => Listed(c, p)'
    <2>1. CASE Unlocked(p)
      BY <2>1, NotWriting
    <2>2. CASE conns'[p] = conns[p]
      BY <2>2 DEF Writes, Listed
    <2> QED
      BY <2>1, <2>2
  <1> QED
    BY <1>1, <1>2 DEF Writes

\* What a client leaves as it is.
LEMMA ClientKeeps ==
    ASSUME TypeOK, NEW k \in Clients, Client(k)
    PROVE  /\ \A port \in Ports : todo'[port] = todo[port] /\ (conns'[port] = conns[port] \/ Unlocked(port))
           /\ samples' = samples /\ kept' = kept /\ signalled \subseteq signalled'
  <1>0. /\ todo \in [Threads -> Seq(ClientCode \cup WriterCode \cup ReaderCode)] /\ conns \in [Ports -> Seq(Channels)]
        /\ k \in Threads /\ k \notin Ports
    BY Consts DEF TypeOK
  <1>1. \E new : Do(k, new)
    BY DEF Client, CreateConnection, AddConnection, Disconnect, DisconnectAll, RemoveConnection, DropElement,
           ClearElement, Then
  <1>2. \A port \in Ports : todo'[port] = todo[port]
    BY <1>0, <1>1, Consts DEF Do
  <1>3. samples' = samples /\ kept' = kept
    BY DEF Client, CreateConnection, AddConnection, Disconnect, DisconnectAll, RemoveConnection, DropElement,
           ClearElement, Cleared
  <1>4. signalled \subseteq signalled'
    BY DEF Client, CreateConnection, AddConnection, Disconnect, DisconnectAll, RemoveConnection, DropElement,
           ClearElement, Cleared
  <1>5. \A port \in Ports : conns'[port] = conns[port] \/ Unlocked(port)
    <2>1. CASE conns' = conns
      BY <2>1
    <2>2. CASE AddConnection(k)
      <3>1. PICK c \in Channels, q \in Ports : Unlocked(q) /\ conns' = [conns EXCEPT ![q] = Append(@, c)]
        BY <2>2 DEF AddConnection
      <3> QED
        BY <1>0, <3>1
    <2>3. CASE DisconnectAll(k)
      <3>1. PICK q \in Ports : Unlocked(q) /\ conns' = [conns EXCEPT ![q] = <<>>]
        BY <2>3 DEF DisconnectAll
      <3> QED
        BY <1>0, <3>1
    <2>4. CASE RemoveConnection(k)
      <3>1. PICK q \in Ports, other \in Ports :
               Unlocked(q) /\ (conns' = conns \/ \E i \in DOMAIN conns[q] : Removed(q, i))
        BY <2>4 DEF RemoveConnection
      <3>2. CASE \E i \in DOMAIN conns[q] : Removed(q, i)
        BY <3>1, <3>2, Entry
      <3> QED
        BY <2>1, <3>1, <3>2
    <2> QED
      BY <2>1, <2>2, <2>3, <2>4 DEF Client, CreateConnection, Disconnect, DropElement, ClearElement, Cleared
  <1> QED
    BY <1>2, <1>3, <1>4, <1>5

\* A sample that waits in a buffer is in the hands of the writer or of the reader, who will
\* look at it; a quiet channel is empty, and its writer idle, until it is connected.
Waiting(c) ==
    /\ Kind[c] # "data" /\ c \in Quiet \ Initialised /\ Listed(c, To[c])
    /\ "out" \in chan[c].links /\ chan[c].queue # <<>>
Noted(c) ==
    \/ To[c] \in signalled \/ Has(From[c], <<"signal", c>>)
    \/ Has(To[c], <<"take", c>>) \/ At(To[c], "mark") \/ At(To[c], "read")
Attended(c) ==
    /\ "out" \in chan[c].links => "out" \in chan[c].ports
    /\ c \in Quiet /\ (\E k \in Clients : Making(k, c)) =>
          Idle(From[c]) /\ (c \notin Initialised => chan[c].queue = <<>>)
    /\ Waiting(c) => Noted(c)

\* What was read from a channel is not newer than what is in it, what is in a buffer is in
\* the order of writing, and a sample that is on the way to it is newer than both.
Rising(g, q, n) ==
    /\ \A i \in DOMAIN q : g < q[i] /\ q[i] <= n
    /\ \A i, j \in DOMAIN q : i < j => q[i] < q[j]
Below(g, q, n) == g < n /\ \A i \in DOMAIN q : q[i] < n
Sent(c) == Has(From[c], <<"put", c>>) \/ At(From[c], "lock")
Fresh(c) ==
    /\ kept[From[c]].sample = samples[From[c]] /\ (kept[From[c]].last => samples[From[c]] > 0)
    /\ chan[c].value <= samples[From[c]]
    /\ \A v \in Nat : Has(To[c], <<"mark", c, v>>) => Kind[c] = "data" /\ v <= chan[c].value
    /\ Kind[c] = "data" => got[c] <= chan[c].value
    /\ Kind[c] # "data" /\ (c \in Initialised => c \in Quiet) =>
          /\ chan[c].links = {} => got[c] = 0 /\ chan[c].queue = <<>>
          /\ got[c] <= samples[From[c]] /\ Rising(got[c], chan[c].queue, samples[From[c]])
          /\ Sent(c) => Below(got[c], chan[c].queue, samples[From[c]])

Flow == Writers /\ \A c \in Channels : Attended(c) /\ Fresh(c)

LEMMA Risings ==
    ASSUME NEW g \in Nat, NEW q \in Seq(Nat), NEW n \in Nat, Rising(g, q, n)
    PROVE  /\ g <= n => Rising(g, q, n + 1) /\ Below(g, q, n + 1)
           /\ q # <<>> => /\ Head(q) \in Nat /\ Head(q) <= n /\ Rising(Head(q), Tail(q), n)
                          /\ Below(g, q, n) => Below(Head(q), Tail(q), n)
           /\ Below(g, q, n) => Rising(g, Append(q, n), n)
  <1>1. DOMAIN q = 1 .. Len(q) /\ Len(q) \in Nat /\ \A i \in DOMAIN q : q[i] \in Nat
    BY LenProperties, ElementOfSeq
  <1>2. g <= n => Rising(g, q, n + 1) /\ Below(g, q, n + 1)
    BY <1>1 DEF Rising, Below
  <1>3. ASSUME q # <<>>
        PROVE  /\ Head(q) \in Nat /\ Head(q) <= n /\ Rising(Head(q), Tail(q), n)
               /\ Below(g, q, n) => Below(Head(q), Tail(q), n)
    <2> DEFINE t == Tail(q)
               m == Len(q)
    <2>1. /\ m \in Nat \ {0} /\ Head(q) = q[1] /\ t \in Seq(Nat) /\ Len(t) = m - 1
          /\ \A i \in 1 .. m - 1 : t[i] = q[i + 1]
      BY <1>3, HeadTailProperties, EmptySeq, LenProperties
    <2>2. DOMAIN t = 1 .. m - 1
      BY <2>1, LenProperties
    <2>3. DOMAIN q = 1 .. m
      BY <1>1
    <2> HIDE DEF t, m
    <2>4. \A i \in DOMAIN t : i + 1 \in DOMAIN q /\ t[i] = q[i + 1] /\ 1 < i + 1 /\ i \in Nat
      BY <2>1, <2>2, <2>3
    <2>5. 1 \in DOMAIN q
      BY <2>1, <2>3
    <2>6. \A i \in DOMAIN t : q[1] < t[i] /\ t[i] <= n
      BY <2>4, <2>5 DEF Rising
    <2>7. ASSUME NEW i \in DOMAIN t, NEW j \in DOMAIN t, i < j
          PROVE  t[i] < t[j]
      <3>1. i + 1 < j + 1
        BY <2>4, <2>7
      <3> QED
        BY <2>4, <3>1 DEF Rising
    <2>8. Below(g, q, n) => \A i \in DOMAIN t : t[i] < n
      BY <2>4 DEF Below
    <2> QED
      BY <1>1, <2>1, <2>5, <2>6, <2>7, <2>8 DEF Rising, Below, t
  <1>4. ASSUME Below(g, q, n)
        PROVE  Rising(g, Append(q, n), n)
    <2> DEFINE z == Append(q, n)
               m == Len(q)
    <2>1. z \in Seq(Nat) /\ Len(z) = m + 1 /\ (\A i \in 1 .. m : z[i] = q[i]) /\ z[m + 1] = n
      BY AppendProperties
    <2>2. DOMAIN z = 1 .. m + 1
      BY <2>1, LenProperties
    <2>3. DOMAIN q = 1 .. m /\ m \in Nat
      BY <1>1
    <2> HIDE DEF z, m
    <2>4. \A i \in DOMAIN z : (i \in DOMAIN q /\ z[i] = q[i]) \/ (i = m + 1 /\ z[i] = n)
      BY <2>1, <2>2, <2>3
    <2>5. \A i \in DOMAIN z : g < z[i] /\ z[i] <= n
      BY <1>4, <2>4 DEF Rising, Below
    <2>6. ASSUME NEW i \in DOMAIN z, NEW j \in DOMAIN z, i < j
          PROVE  z[i] < z[j]
      <3>1. i # m + 1
        BY <2>2, <2>3, <2>6
      <3>2. i \in DOMAIN q /\ z[i] = q[i]
        BY <2>4, <3>1
      <3> QED
        BY <1>4, <2>4, <2>6, <3>2 DEF Rising, Below
    <2> QED
      BY <2>5, <2>6 DEF Rising, z
  <1> QED
    BY <1>2, <1>3, <1>4

LEMMA RisingPushed ==
    ASSUME NEW g \in Nat, NEW q \in Seq(Nat), NEW n \in Nat, NEW c, Rising(g, q, n), Below(g, q, n)
    PROVE  Rising(g, Pushed(q, c, n), n)
  <1>1. CASE Len(q) < Size
    BY <1>1, Risings DEF Pushed
  <1>2. CASE ~(Len(q) < Size)
    <2>1. q # <<>>
      BY <1>2, EmptySeq, ConnectionsAssumption
    <2>2. /\ Head(q) \in Nat /\ Rising(Head(q), Tail(q), n) /\ Below(Head(q), Tail(q), n)
          /\ Tail(q) \in Seq(Nat) /\ g < Head(q)
      <3>1. Tail(q) \in Seq(Nat) /\ Head(q) = q[1] /\ 1 \in DOMAIN q
        BY <2>1, HeadTailProperties, EmptySeq, LenProperties
      <3> QED
        BY <2>1, <3>1, Risings DEF Rising
    <2>3. Rising(g, Tail(q), n) /\ Below(g, Tail(q), n)
      <3> DEFINE t == Tail(q)
                 h == Head(q)
      <3>1. h \in Nat /\ g < h /\ Rising(h, t, n) /\ Below(h, t, n) /\ \A i \in DOMAIN t : t[i] \in Nat
        BY <2>2, ElementOfSeq, LenProperties
      <3> HIDE DEF t, h
      <3>2. Rising(g, t, n) /\ Below(g, t, n)
        BY <3>1 DEF Rising, Below
      <3> QED
        BY <3>2 DEF t
    <2>4. Rising(g, Append(Tail(q), n), n)
      BY <2>2, <2>3, Risings
    <2> QED
      BY <1>2, <2>4 DEF Pushed
  <1> QED
    BY <1>1, <1>2

\* A step that neither stores nor reads a sample of channel c.
LEMMA FlowFrame ==
    ASSUME NEW c \in Channels, Attended(c), Fresh(c),
           chan'[c].value = chan[c].value, chan'[c].queue = chan[c].queue \/ chan'[c].queue = <<>>,
           chan'[c].links = {} => chan[c].links = {},
           "out" \in chan'[c].links => "out" \in chan[c].links /\ ("out" \in chan[c].ports => "out" \in chan'[c].ports),
           got'[c] = got[c], samples'[From[c]] = samples[From[c]], kept'[From[c]] = kept[From[c]],
           (\E k \in Clients : Making(k, c)') => \E k \in Clients : Making(k, c),
           Idle(From[c]) => Idle(From[c])' \/ c \notin Quiet \/ \A k \in Clients : ~Making(k, c),
           \A v \in Nat : Has(To[c], <<"mark", c, v>>)' => Has(To[c], <<"mark", c, v>>),
           Sent(c)' => Sent(c),
           Waiting(c)' => Waiting(c) /\ (Noted(c) => Noted(c)')
    PROVE  Attended(c)' /\ Fresh(c)'
  <1>1. Attended(c)'
    BY DEF Attended
  <1>2. \A g, q, n : /\ Rising(g, <<>>, n)
                     /\ Below(g, q, n) => Below(g, <<>>, n)
    BY DEF Rising, Below
  <1>3. Fresh(c)'
    BY <1>2 DEF Fresh
  <1> QED
    BY <1>1, <1>3

\* What another thread than a writer sees of it.
LEMMA Sending ==
    ASSUME NEW c \in Channels, todo'[From[c]] = todo[From[c]]
    PROVE  /\ Idle(From[c])' <=> Idle(From[c])
           /\ Sent(c)' <=> Sent(c)
           /\ Has(From[c], <<"signal", c>>)' <=> Has(From[c], <<"signal", c>>)
  BY DEF Idle, Sent, Has, At

LEMMA Receiving ==
    ASSUME NEW c \in Channels, todo'[To[c]] = todo[To[c]]
    PROVE  /\ \A x : Has(To[c], x)' <=> Has(To[c], x)
           /\ At(To[c], "mark")' <=> At(To[c], "mark")
           /\ At(To[c], "read")' <=> At(To[c], "read")
  BY DEF Idle, Has, At

LEMMA Putting ==
    ASSUME TypeOK, Lists, Writers, NEW p \in Outputs, NEW c \in Channels, Does(p, <<"put", c>>)
    PROVE  Listed(c, p) /\ From[c] = p
  <1>1. Has(p, <<"put", c>>)
    BY Begun DEF TypeOK, Does
  <1>2. Listed(c, p) /\ p \in Ports /\ p \in Pair(c)
    BY <1>1, Consts DEF Writers, Writes, Lists
  <1> QED
    BY <1>2, Consts DEF Pair

\* Instructions of writer p for channel c, after the first.
Telling(new, c, p) ==
    \A i \in DOMAIN new : From[c] = p /\ new[i] \in {<<"written", c>>, <<"unread", c>>, <<"signal", c>>}

\* A writer executes an instruction for a channel.
LEMMA WriterThen ==
    ASSUME TypeOK, Lists, Writers, NEW p \in Outputs, NEW c \in Channels, NEW h, NEW new \in Seq(WriterCode),
           h \in {<<"put", c>>, <<"written", c>>, <<"unread", c>>, <<"signal", c>>}, Does(p, h), Then(p, new),
           Telling(new, c, p),
           \A d \in Channels : Listed(d, p) /\ h # <<"put", d>> => Listed(d, p)',
           \A port \in Ports \ {p} : conns'[port] = conns[port]
    PROVE  /\ Writers'
           /\ \A i \in DOMAIN new : Has(p, new[i])'
           /\ \A t \in Threads \ {p} : todo'[t] = todo[t]
           /\ \A d \in Channels :
                 /\ Sent(d)' => Sent(d) /\ h # <<"put", d>>
                 /\ Idle(From[d]) => Idle(From[d])'
                 /\ Has(From[d], <<"signal", d>>) => Has(From[d], <<"signal", d>>)' \/ h = <<"signal", d>>
                 /\ \A k \in Clients : Making(k, d)' <=> Making(k, d)
                 /\ \A x : Has(To[d], x)' <=> Has(To[d], x)
                 /\ At(To[d], "mark")' <=> At(To[d], "mark")
                 /\ At(To[d], "read")' <=> At(To[d], "read")
  <1>0. h[1] # "lock" /\ Writes(p)
    BY DEF Writers
  <1>1. \A i \in DOMAIN new : \E d \in Channels : /\ From[d] = p
                                                  /\ new[i] \in {<<"written", d>>, <<"unread", d>>, <<"signal", d>>}
    BY DEF Telling
  <1>2. /\ Writes(p)'
        /\ \A q \in Outputs : ~Has(p, <<"lock", q>>)'
        /\ \A d \in Channels : Has(p, <<"put", d>>)' => Has(p, <<"put", d>>) /\ h # <<"put", d>>
        /\ \A u \in Threads \ {p} : todo'[u] = todo[u]
        /\ \A x : Has(p, x) => x = h \/ Has(p, x)'
        /\ \A i \in DOMAIN new : Has(p, new[i])'
    BY <1>0, <1>1, WritesThen
  <1>3. Writers'
    <2> SUFFICES ASSUME NEW q \in Outputs, q # p
                 PROVE  Writes(q)'
      BY <1>2 DEF Writers
    <2>1. q \in Ports /\ q \in Threads /\ Writes(q)
      BY Consts DEF Writers
    <2> QED
      BY <1>2, <2>1, WritesFrame
  <1>4. ~Idle(p)
    BY DEF Does
  <1>5. ~At(p, "lock")'
    <2> SUFFICES ASSUME At(p, "lock")'
                 PROVE  FALSE
      OBVIOUS
    <2>1. todo'[p] \in Seq(WriterCode) /\ todo'[p] # <<>>
      <3>1. p \in Threads /\ todo \in [Threads -> Seq(ClientCode \cup WriterCode \cup ReaderCode)] /\ todo[p] \in Seq(WriterCode)
        BY Consts DEF TypeOK
      <3>2. todo'[p] \in Seq(WriterCode)
        BY <3>1, Moves
      <3> QED
        BY <3>2 DEF At, Idle
    <2>2. Head(todo'[p]) \in WriterCode /\ Head(todo'[p]) = todo'[p][1] /\ 1 \in DOMAIN todo'[p]
      BY <2>1, HeadTailProperties, EmptySeq, LenProperties
    <2>3. Head(todo'[p])[1] = "lock"
      BY DEF At
    <2>4. PICK q \in Outputs : Head(todo'[p]) = <<"lock", q>>
      BY <2>2, <2>3 DEF WriterCode
    <2> QED
      BY <1>2, <2>2, <2>4 DEF Has
  <1>6. ASSUME NEW d \in Channels
        PROVE  /\ Sent(d)' => Sent(d) /\ h # <<"put", d>>
               /\ Idle(From[d]) => Idle(From[d])'
               /\ Has(From[d], <<"signal", d>>) => Has(From[d], <<"signal", d>>)' \/ h = <<"signal", d>>
    <2>1. CASE From[d] = p
      BY <1>2, <1>4, <1>5, <2>1 DEF Sent
    <2>2. CASE From[d] # p
      <3>1. From[d] \in Threads
        BY Consts
      <3>2. h # <<"put", d>>
        BY <2>2, Putting
      <3> QED
        BY <1>2, <2>2, <3>1, <3>2, Sending
    <2> QED
      BY <2>1, <2>2
  <1>7. ASSUME NEW d \in Channels
        PROVE  /\ \A k \in Clients : Making(k, d)' <=> Making(k, d)
               /\ \A x : Has(To[d], x)' <=> Has(To[d], x)
               /\ At(To[d], "mark")' <=> At(To[d], "mark")
               /\ At(To[d], "read")' <=> At(To[d], "read")
    <2>1. To[d] \in Threads /\ To[d] # p /\ \A k \in Clients : k \in Threads /\ k # p
      BY Consts
    <2>2. todo'[To[d]] = todo[To[d]]
      BY <1>2, <2>1
    <2>3. \A k \in Clients : Making(k, d)' <=> Making(k, d)
      BY <1>2, <2>1 DEF Making, Has
    <2> QED
      BY <2>2, <2>3, Receiving
  <1> QED
    BY <1>2, <1>3, <1>6, <1>7

\* Writing, action by action.
LEMMA FlowWrite ==
    ASSUME TypeOK, Flow, NEW p \in Outputs, Write(p)
    PROVE  Flow'
  <1>1. /\ Idle(p) /\ Do(p, <<<<"lock", p>>>>)
        /\ \A k \in Clients : \A c \in Connected(k) \cap Quiet : From[c] # p
        /\ samples' = [samples EXCEPT ![p] = @ + 1]
        /\ kept' = [kept EXCEPT ![p] = [sample |-> samples'[p], initial |-> TRUE, last |-> TRUE]]
        /\ UNCHANGED <<chan, conns, current, signalled, got>>
    BY DEF Write
  <1>0. /\ p \in Threads /\ todo \in [Threads -> Seq(ClientCode \cup WriterCode \cup ReaderCode)]
        /\ samples \in [Outputs -> Nat] /\ got \in [Channels -> Nat] /\ chan \in [Channels -> Cell]
        /\ kept \in [Outputs -> [sample : Nat, initial : BOOLEAN, last : BOOLEAN]]
    BY Consts DEF TypeOK, Cell
  <1>2. /\ todo'[p] = <<<<"lock", p>>>> /\ \A t \in Threads \ {p} : todo'[t] = todo[t]
        /\ \A x : ~Has(p, x)
    BY <1>0, <1>1, Begins
  <1>3. Writers'
    <2>1. Writes(p)'
      <3>1. \A x : Has(p, x)' => x = <<"lock", p>>
        BY <1>2 DEF Has
      <3>2. \A c \in Channels : ~Has(p, <<"put", c>>)' /\ ~Has(p, <<"written", c>>)' /\ ~Has(p, <<"unread", c>>)'
                                /\ ~Has(p, <<"signal", c>>)'
        BY <3>1
      <3>3. \A c \in Channels : \A i \in DOMAIN todo'[p] : todo'[p][i] # <<"put", c>>
        BY <1>2
      <3> QED
        BY <1>2, <3>2, <3>3 DEF Writes
    <2>2. ASSUME NEW q \in Outputs, q # p
          PROVE  Writes(q)'
      <3>1. q \in Threads /\ Writes(q) /\ conns'[q] = conns[q]
        BY <1>1, Consts DEF Flow, Writers
      <3> QED
        BY <1>2, <2>2, <3>1, WritesFrame
    <2> QED
      BY <2>1, <2>2 DEF Writers
  <1>4. ASSUME NEW c \in Channels
        PROVE  Attended(c)' /\ Fresh(c)'
    <2>0. /\ Attended(c) /\ Fresh(c) /\ From[c] \in Outputs /\ From[c] \in Threads
          /\ To[c] \in Threads /\ To[c] # p
      BY Consts DEF Flow
    <2>1. /\ todo'[To[c]] = todo[To[c]] /\ (\A k \in Clients : Making(k, c)' <=> Making(k, c))
          /\ (Listed(c, To[c])' <=> Listed(c, To[c]))
      BY <1>1, <1>2, <2>0, Consts DEF Making, Has, Listed
    <2>2. Waiting(c)' => Waiting(c)
      BY <1>1, <2>1 DEF Waiting
    <2>3. CASE From[c] # p
      <3>1. todo'[From[c]] = todo[From[c]] /\ samples'[From[c]] = samples[From[c]] /\ kept'[From[c]] = kept[From[c]]
        BY <1>0, <1>1, <1>2, <2>0, <2>3
      <3>2. Noted(c) => Noted(c)'
        BY <1>1, <2>1, <3>1, Sending, Receiving DEF Noted
      <3> QED
        BY <1>1, <2>0, <2>1, <2>2, <3>1, <3>2, FlowFrame, Sending, Receiving
    <2>4. CASE From[c] = p
      <3>1. c \notin Quiet \/ \A k \in Clients : ~Making(k, c)
        <4>1. \A k \in Clients : Making(k, c) => c \in Connected(k)
          <5> SUFFICES ASSUME NEW k \in Clients, Making(k, c)
                       PROVE  c \in Connected(k)
            OBVIOUS
          <5>1. PICK i \in DOMAIN todo[k] : todo[k][i] = <<"add", c, To[c]>>
            BY DEF Making, Has
          <5>2. todo[k][i][1] = "add" /\ todo[k][i][2] = c
            BY <5>1
          <5> QED
            BY <5>2 DEF Connected
        <4> QED
          BY <1>1, <2>4, <4>1
      <3>2. Noted(c) => Noted(c)'
        BY <1>1, <1>2, <2>1, <2>4, Receiving DEF Noted
      <3>3. Attended(c)'
        BY <1>1, <2>0, <2>1, <2>2, <3>1, <3>2 DEF Attended
      <3>4. /\ samples'[p] = samples[p] + 1 /\ samples[p] \in Nat /\ kept'[p].sample = samples[p] + 1
            /\ got[c] \in Nat /\ chan[c].queue \in Seq(Nat) /\ chan[c].value \in Nat
        BY <1>0, <1>1 DEF Cell
      <3>5. chan[c].value <= samples[p]
        BY <2>0, <2>4 DEF Fresh
      <3>6. Kind[c] # "data" /\ (c \in Initialised => c \in Quiet) =>
               /\ got[c] <= samples[p] + 1
               /\ Rising(got[c], chan[c].queue, samples[p] + 1)
               /\ Below(got[c], chan[c].queue, samples[p] + 1)
        <4>1. Kind[c] # "data" /\ (c \in Initialised => c \in Quiet) =>
                 got[c] <= samples[p] /\ Rising(got[c], chan[c].queue, samples[p])
          BY <2>0, <2>4 DEF Fresh
        <4> QED
          BY <3>4, <4>1, Risings
      <3>7. Fresh(c)'
        <4>1. /\ samples'[From[c]] = samples[p] + 1 /\ kept'[From[c]].sample = samples[p] + 1
              /\ got'[c] = got[c] /\ chan'[c] = chan[c]
          BY <1>1, <2>4, <3>4
        <4>2. \A v \in Nat : Has(To[c], <<"mark", c, v>>)' => Kind[c] = "data" /\ v <= chan[c].value
          BY <2>0, <2>1, Receiving DEF Fresh
        <4>3. /\ Kind[c] = "data" => got[c] <= chan[c].value
              /\ Kind[c] # "data" /\ (c \in Initialised => c \in Quiet) /\ chan[c].links = {} =>
                    got[c] = 0 /\ chan[c].queue = <<>>
          BY <2>0 DEF Fresh
        <4>4. chan[c].value <= samples[p] + 1 /\ samples[p] + 1 > 0
          BY <3>4, <3>5
        <4> QED
          BY <3>6, <4>1, <4>2, <4>3, <4>4 DEF Fresh
      <3> QED
        BY <3>3, <3>7
    <2> QED
      BY <2>3, <2>4
  <1> QED
    BY <1>3, <1>4 DEF Flow

LEMMA FlowLock ==
    ASSUME TypeOK, Lists, Flow, NEW p \in Outputs, LockForWrite(p)
    PROVE  Flow'
  <1> DEFINE new == [i \in DOMAIN conns[p] |-> <<"put", conns[p][i]>>]
  <1>1. Does(p, <<"lock", p>>) /\ Do(p, new) /\ UNCHANGED <<chan, conns, current, samples, kept, signalled, got>>
    BY DEF LockForWrite
  <1>0. /\ p \in Threads /\ p \in Ports /\ todo \in [Threads -> Seq(ClientCode \cup WriterCode \cup ReaderCode)]
        /\ todo[p] \in Seq(WriterCode) /\ Writes(p)
    BY Consts DEF TypeOK, Flow, Writers
  <1>2. todo[p] = <<<<"lock", p>>>>
    BY <1>0, <1>1, Begun DEF Does, Writes
  <1>3. ~Idle(p) /\ At(p, "lock") /\ \A x : Has(p, x) => x = <<"lock", p>>
    BY <1>1, <1>2 DEF Does, At, Has
  <1>4. todo'[p] = new /\ \A t \in Threads \ {p} : todo'[t] = todo[t]
    BY <1>0, <1>1 DEF Do
  <1>5. \A x : Has(p, x)' => \E i \in DOMAIN conns[p] : x = <<"put", conns[p][i]>>
    BY <1>4 DEF Has
  <1>6. Writers'
    <2>1. Writes(p)'
      <3>1. \A c \in Channels : Has(p, <<"put", c>>)' => Listed(c, p)'
        BY <1>1, <1>5 DEF Listed
      <3>2. ASSUME NEW c \in Channels, NEW i \in DOMAIN new, NEW j \in DOMAIN new,
                   new[i] = <<"put", c>>, new[j] = <<"put", c>>
            PROVE  i = j
        BY <1>0, <3>2 DEF Lists
      <3>3. /\ \A q \in Outputs : ~Has(p, <<"lock", q>>)'
            /\ \A c \in Channels : ~Has(p, <<"written", c>>)' /\ ~Has(p, <<"unread", c>>)' /\ ~Has(p, <<"signal", c>>)'
        BY <1>5
      <3> HIDE DEF new
      <3> QED
        BY <1>4, <3>1, <3>2, <3>3 DEF Writes
    <2>2. ASSUME NEW q \in Outputs, q # p
          PROVE  Writes(q)'
      <3>1. q \in Threads /\ Writes(q) /\ conns'[q] = conns[q]
        BY <1>1, Consts DEF Flow, Writers
      <3> QED
        BY <1>4, <2>2, <3>1, WritesFrame
    <2> QED
      BY <2>1, <2>2 DEF Writers
  <1>7. ASSUME NEW c \in Channels
        PROVE  Attended(c)' /\ Fresh(c)'
    <2>0. /\ Attended(c) /\ Fresh(c) /\ From[c] \in Threads /\ To[c] \in Threads /\ To[c] # p
      BY Consts DEF Flow
    <2>1. /\ todo'[To[c]] = todo[To[c]] /\ (\A k \in Clients : Making(k, c)' <=> Making(k, c))
          /\ (Listed(c, To[c])' <=> Listed(c, To[c]))
      BY <1>1, <1>4, <2>0, Consts DEF Making, Has, Listed
    <2>2. Waiting(c)' => Waiting(c)
      BY <1>1, <2>1 DEF Waiting
    <2>3. /\ Idle(From[c]) => Idle(From[c])'
          /\ Sent(c)' => Sent(c)
          /\ Has(From[c], <<"signal", c>>) => Has(From[c], <<"signal", c>>)'
      <3>1. CASE From[c] # p
        BY <1>4, <2>0, <3>1, Sending
      <3>2. CASE From[c] = p
        BY <1>3, <3>2 DEF Sent
      <3> QED
        BY <3>1, <3>2
    <2>4. Noted(c) => Noted(c)'
      BY <1>1, <2>1, <2>3, Receiving DEF Noted
    <2> QED
      BY <1>1, <2>0, <2>1, <2>2, <2>3, <2>4, FlowFrame, Receiving
  <1> QED
    BY <1>6, <1>7 DEF Flow

LEMMA FlowNowhere ==
    ASSUME TypeOK, Lists, Flow, NEW p \in Outputs, PutNowhere(p)
    PROVE  Flow'
  <1>1. PICK c \in Channels :
           /\ Does(p, <<"put", c>>) /\ \E i \in DOMAIN conns[p] : conns[p][i] = c /\ Removed(p, i)
           /\ Then(p, <<>>) /\ UNCHANGED <<chan, samples, kept, signalled, got>>
    BY DEF PutNowhere
  <1>2. PICK i \in DOMAIN conns[p] : conns[p][i] = c /\ Removed(p, i)
    BY <1>1
  <1>0. Writers /\ p \in Ports /\ <<>> \in Seq(WriterCode) /\ Telling(<<>>, c, p)
    BY Consts DEF Flow, Telling
  <1>3. /\ \A d, q : q \in Ports => (Listed(d, q)' <=> Listed(d, q) /\ ~(d = c /\ q = p))
        /\ \A q \in Ports \ {p} : conns'[q] = conns[q]
    BY <1>0, <1>2, ListsRemoved, Entry
  <1> DEFINE h == <<"put", c>>
  <1>4. /\ \A d \in Channels : Listed(d, p) /\ h # <<"put", d>> => Listed(d, p)'
        /\ Does(p, h) /\ h \in {<<"put", c>>, <<"written", c>>, <<"unread", c>>, <<"signal", c>>}
        /\ \A d : h # <<"signal", d>>
    BY <1>0, <1>1, <1>3
  <1> HIDE DEF h
  <1>5. /\ Writers'
        /\ \A d \in Channels :
              /\ Sent(d)' => Sent(d)
              /\ Idle(From[d]) => Idle(From[d])'
              /\ Has(From[d], <<"signal", d>>) => Has(From[d], <<"signal", d>>)' \/ h = <<"signal", d>>
              /\ \A k \in Clients : Making(k, d)' <=> Making(k, d)
              /\ \A x : Has(To[d], x)' <=> Has(To[d], x)
              /\ At(To[d], "mark")' <=> At(To[d], "mark")
              /\ At(To[d], "read")' <=> At(To[d], "read")
    BY <1>0, <1>1, <1>3, <1>4, WriterThen
  <1>6. ASSUME NEW d \in Channels
        PROVE  Attended(d)' /\ Fresh(d)'
    <2>1. Attended(d) /\ Fresh(d) /\ (Listed(d, To[d])' => Listed(d, To[d]))
      BY <1>3, Consts DEF Flow
    <2>2. Waiting(d)' => Waiting(d)
      BY <1>1, <2>1 DEF Waiting
    <2>3. Noted(d) => Noted(d)'
      BY <1>1, <1>4, <1>5 DEF Noted
    <2> QED
      BY <1>1, <1>5, <2>1, <2>2, <2>3, FlowFrame
  <1> QED
    BY <1>5, <1>6 DEF Flow

\* A storage after a sample, and the flags.
LEMMA StoredData ==
    ASSUME NEW c \in Channels, NEW v, NEW ch \in [Channels -> Cell]
    PROVE  /\ Kind[c] # "data" => /\ Stored(ch, c, v)[c].value = ch[c].value
                                  /\ Stored(ch, c, v)[c].queue = Pushed(ch[c].queue, c, v)
           /\ Kind[c] = "data" => Stored(ch, c, v)[c].value = v /\ Stored(ch, c, v)[c].queue = ch[c].queue
  <1>1. ch[c] \in Cell
    OBVIOUS
  <1>2. CASE Kind[c] = "data"
    BY <1>1, <1>2 DEF Stored, Cell
  <1>3. CASE Kind[c] # "data"
    BY <1>1, <1>3 DEF Stored, Cell
  <1> QED
    BY <1>2, <1>3

LEMMA FlowPutData ==
    ASSUME TypeOK, Lists, Flow, NEW p \in Outputs, PutData(p)
    PROVE  Flow'
  <1> DEFINE Next3(c) == <<<<"written", c>>, <<"unread", c>>, <<"signal", c>>>>
  <1>1. PICK c \in Channels :
           /\ Does(p, <<"put", c>>) /\ Kind[c] = "data"
           /\ chan' = [chan EXCEPT ![c].value = samples[p]]
           /\ Then(p, Next3(c)) /\ UNCHANGED <<conns, current, samples, kept, signalled, got>>
    BY DEF PutData
  <1>0. Writers /\ From[c] = p /\ chan \in [Channels -> Cell] /\ samples \in [Outputs -> Nat] /\ got \in [Channels -> Nat]
    BY <1>1, Putting DEF Flow, TypeOK, Cell
  <1>2. Next3(c) \in Seq(WriterCode) /\ DOMAIN Next3(c) = 1 .. 3
        /\ Next3(c)[1] = <<"written", c>> /\ Next3(c)[2] = <<"unread", c>> /\ Next3(c)[3] = <<"signal", c>>
    BY DEF WriterCode
  <1> DEFINE new == Next3(c)
  <1> HIDE DEF Next3
  <1>3. Telling(new, c, p)
    <2>1. DOMAIN new = {1, 2, 3}
      BY <1>2
    <2> QED
      BY <1>0, <1>2, <2>1 DEF Telling
  <1> HIDE DEF new
  <1>4. /\ Writers'
        /\ \A d \in Channels :
              /\ Sent(d)' => Sent(d)
              /\ Idle(From[d]) => Idle(From[d])'
              /\ Has(From[d], <<"signal", d>>) => Has(From[d], <<"signal", d>>)' \/ <<"put", c>> = <<"signal", d>>
              /\ \A k \in Clients : Making(k, d)' <=> Making(k, d)
              /\ \A x : Has(To[d], x)' <=> Has(To[d], x)
              /\ At(To[d], "mark")' <=> At(To[d], "mark")
              /\ At(To[d], "read")' <=> At(To[d], "read")
    <2>1. new \in Seq(WriterCode) /\ Then(p, new)
      BY <1>1, <1>2 DEF new
    <2> DEFINE h == <<"put", c>>
    <2>2. /\ \A d \in Channels : Listed(d, p) /\ h # <<"put", d>> => Listed(d, p)'
          /\ \A port \in Ports \ {p} : conns'[port] = conns[port]
      BY <1>1 DEF Listed
    <2>3. Does(p, h) /\ h \in {<<"put", c>>, <<"written", c>>, <<"unread", c>>, <<"signal", c>>}
      BY <1>1
    <2>4. h = <<"put", c>>
      OBVIOUS
    <2> HIDE DEF h
    <2>5. /\ Writers'
          /\ \A d \in Channels :
                /\ Sent(d)' => Sent(d)
                /\ Idle(From[d]) => Idle(From[d])'
                /\ Has(From[d], <<"signal", d>>) => Has(From[d], <<"signal", d>>)' \/ h = <<"signal", d>>
                /\ \A k \in Clients : Making(k, d)' <=> Making(k, d)
                /\ \A x : Has(To[d], x)' <=> Has(To[d], x)
                /\ At(To[d], "mark")' <=> At(To[d], "mark")
                /\ At(To[d], "read")' <=> At(To[d], "read")
      BY <1>0, <1>3, <2>1, <2>2, <2>3, WriterThen
    <2> QED
      BY <2>4, <2>5
  <1>5. ASSUME NEW d \in Channels
        PROVE  Attended(d)' /\ Fresh(d)'
    <2>1. Attended(d) /\ Fresh(d) /\ (Listed(d, To[d])' <=> Listed(d, To[d]))
      BY <1>1 DEF Flow, Listed
    <2>2. chan'[d].links = chan[d].links /\ chan'[d].ports = chan[d].ports /\ chan'[d].queue = chan[d].queue
          /\ (d # c => chan'[d].value = chan[d].value) /\ chan'[c].value = samples[p]
      BY <1>0, <1>1 DEF Cell
    <2>3. Waiting(d)' => Waiting(d)
      BY <2>1, <2>2 DEF Waiting
    <2>4. Noted(d) => Noted(d)'
      BY <1>1, <1>4 DEF Noted
    <2>5. CASE d # c
      BY <1>1, <1>4, <2>1, <2>2, <2>3, <2>4, <2>5, FlowFrame
    <2>6. CASE d = c
      <3>1. Attended(d)'
        BY <1>4, <2>1, <2>2, <2>3, <2>4 DEF Attended
      <3>2. /\ got[c] <= samples[p] /\ chan[c].value <= samples[p]
            /\ samples[p] \in Nat /\ chan[c].value \in Nat /\ got[c] \in Nat
        BY <1>0, <1>1, <2>1, <2>6 DEF Fresh, Cell
      <3>3. \A v \in Nat : Has(To[c], <<"mark", c, v>>)' => Kind[c] = "data" /\ v <= samples[p]
        <4>1. \A v \in Nat : Has(To[c], <<"mark", c, v>>)' => Kind[c] = "data" /\ v <= chan[c].value
          BY <1>4, <2>1, <2>6 DEF Fresh
        <4> QED
          BY <3>2, <4>1
      <3>4. Fresh(c)'
        BY <1>0, <1>1, <2>1, <2>2, <2>6, <3>2, <3>3 DEF Fresh
      <3> QED
        BY <2>6, <3>1, <3>4
    <2> QED
      BY <2>5, <2>6
  <1> QED
    BY <1>4, <1>5 DEF Flow

LEMMA FlowSetFlag ==
    ASSUME TypeOK, Lists, Flow, NEW p \in Outputs, SetFlag(p)
    PROVE  Flow'
  <1>a. PICK c \in Channels :
           /\ \/ Does(p, <<"written", c>>) /\ chan' = [chan EXCEPT ![c].written = TRUE]
              \/ Does(p, <<"unread", c>>) /\ chan' = [chan EXCEPT ![c].read = FALSE]
           /\ Then(p, <<>>) /\ UNCHANGED <<conns, current, samples, kept, signalled, got>>
    BY DEF SetFlag
  <1>1. PICK h \in {<<"written", c>>, <<"unread", c>>} :
           /\ Does(p, h)
           /\ chan' = [chan EXCEPT ![c].written = TRUE] \/ chan' = [chan EXCEPT ![c].read = FALSE]
           /\ Then(p, <<>>) /\ UNCHANGED <<conns, current, samples, kept, signalled, got>>
    BY <1>a
  <1>0. Writers /\ chan \in [Channels -> Cell] /\ <<>> \in Seq(WriterCode) /\ Telling(<<>>, c, p)
    BY DEF Flow, TypeOK, Cell, Telling
  <1>2. /\ Writers'
        /\ \A d \in Channels :
              /\ Sent(d)' => Sent(d)
              /\ Idle(From[d]) => Idle(From[d])'
              /\ Has(From[d], <<"signal", d>>) => Has(From[d], <<"signal", d>>)' \/ h = <<"signal", d>>
              /\ \A k \in Clients : Making(k, d)' <=> Making(k, d)
              /\ \A x : Has(To[d], x)' <=> Has(To[d], x)
              /\ At(To[d], "mark")' <=> At(To[d], "mark")
              /\ At(To[d], "read")' <=> At(To[d], "read")
    <2>1. /\ \A d \in Channels : Listed(d, p) /\ h # <<"put", d>> => Listed(d, p)'
          /\ \A port \in Ports \ {p} : conns'[port] = conns[port]
      BY <1>1 DEF Listed
    <2>2. h \in {<<"put", c>>, <<"written", c>>, <<"unread", c>>, <<"signal", c>>}
      BY <1>1
    <2> QED
      BY <1>0, <1>1, <2>1, <2>2, WriterThen
  <1>3. ASSUME NEW d \in Channels
        PROVE  Attended(d)' /\ Fresh(d)'
    <2>1. Attended(d) /\ Fresh(d) /\ (Listed(d, To[d])' <=> Listed(d, To[d]))
      BY <1>1 DEF Flow, Listed
    <2>2. chan'[d].links = chan[d].links /\ chan'[d].ports = chan[d].ports /\ chan'[d].queue = chan[d].queue
          /\ chan'[d].value = chan[d].value
      <3>1. CASE chan' = [chan EXCEPT ![c].written = TRUE]
        BY <1>0, <3>1 DEF Cell
      <3>2. CASE chan' = [chan EXCEPT ![c].read = FALSE]
        BY <1>0, <3>2 DEF Cell
      <3> QED
        BY <1>1, <3>1, <3>2
    <2>3. Waiting(d)' => Waiting(d)
      BY <2>1, <2>2 DEF Waiting
    <2>4. h # <<"signal", d>>
      BY <1>1
    <2>5. Noted(d) => Noted(d)'
      BY <1>1, <1>2, <2>4 DEF Noted
    <2> QED
      BY <1>1, <1>2, <2>1, <2>2, <2>3, <2>5, FlowFrame
  <1> QED
    BY <1>2, <1>3 DEF Flow

LEMMA FlowPutBuffer ==
    ASSUME TypeOK, Lists, Flow, NEW p \in Outputs, PutBuffer(p)
    PROVE  Flow'
  <1>1. PICK c \in Channels :
           /\ Does(p, <<"put", c>>) /\ "in" \in chan[c].links /\ Kind[c] # "data"
           /\ chan' = Stored(chan, c, samples[p])
           /\ Then(p, IF Kind[c] = "buffer" /\ Len(chan[c].queue) = Size THEN <<>> ELSE <<<<"signal", c>>>>)
           /\ UNCHANGED <<conns, current, samples, kept, signalled, got>>
    BY DEF PutBuffer
  <1>0. /\ Writers /\ From[c] = p /\ chan \in [Channels -> Cell] /\ samples[p] \in Nat /\ got[c] \in Nat
        /\ chan[c].queue \in Seq(Nat)
    BY <1>1, Putting DEF Flow, TypeOK, Cell
  <1> DEFINE full == Kind[c] = "buffer" /\ Len(chan[c].queue) = Size
  <1>2. \E new : /\ new = IF full THEN <<>> ELSE <<<<"signal", c>>>>
                 /\ Then(p, new)
    BY <1>1
  <1>3. PICK new : /\ new = IF full THEN <<>> ELSE <<<<"signal", c>>>>
                   /\ Then(p, new)
    BY <1>2
  <1>4. /\ new \in Seq(WriterCode)
        /\ Telling(new, c, p)
        /\ ~full => 1 \in DOMAIN new /\ new[1] = <<"signal", c>>
    <2>1. CASE full
      BY <1>3, <2>1 DEF Telling
    <2>2. CASE ~full
      <3>1. new = <<<<"signal", c>>>>
        BY <1>3, <2>2
      <3>2. new \in Seq(WriterCode) /\ DOMAIN new = {1} /\ new[1] = <<"signal", c>>
        BY <3>1 DEF WriterCode
      <3> QED
        BY <1>0, <3>2 DEF Telling
    <2> QED
      BY <2>1, <2>2
  <1>5. /\ Writers'
        /\ \A i \in DOMAIN new : Has(p, new[i])'
        /\ \A d \in Channels :
              /\ Sent(d)' => Sent(d) /\ <<"put", c>> # <<"put", d>>
              /\ Idle(From[d]) => Idle(From[d])'
              /\ Has(From[d], <<"signal", d>>) => Has(From[d], <<"signal", d>>)' \/ <<"put", c>> = <<"signal", d>>
              /\ \A k \in Clients : Making(k, d)' <=> Making(k, d)
              /\ \A x : Has(To[d], x)' <=> Has(To[d], x)
              /\ At(To[d], "mark")' <=> At(To[d], "mark")
              /\ At(To[d], "read")' <=> At(To[d], "read")
    <2>1. new \in Seq(WriterCode) /\ Telling(new, c, p) /\ Then(p, new)
      BY <1>3, <1>4
    <2> DEFINE h == <<"put", c>>
    <2>2. /\ \A d \in Channels : Listed(d, p) /\ h # <<"put", d>> => Listed(d, p)'
          /\ \A port \in Ports \ {p} : conns'[port] = conns[port]
      BY <1>1 DEF Listed
    <2>3. Does(p, h) /\ h \in {<<"put", c>>, <<"written", c>>, <<"unread", c>>, <<"signal", c>>}
      BY <1>1
    <2>4. h = <<"put", c>>
      OBVIOUS
    <2> HIDE DEF h
    <2>5. /\ Writers'
          /\ \A i \in DOMAIN new : Has(p, new[i])'
          /\ \A d \in Channels :
                /\ Sent(d)' => Sent(d) /\ h # <<"put", d>>
                /\ Idle(From[d]) => Idle(From[d])'
                /\ Has(From[d], <<"signal", d>>) => Has(From[d], <<"signal", d>>)' \/ h = <<"signal", d>>
                /\ \A k \in Clients : Making(k, d)' <=> Making(k, d)
                /\ \A x : Has(To[d], x)' <=> Has(To[d], x)
                /\ At(To[d], "mark")' <=> At(To[d], "mark")
                /\ At(To[d], "read")' <=> At(To[d], "read")
      BY ZenonT(60), <1>0, <2>1, <2>2, <2>3, WriterThen
    <2> QED
      BY <2>4, <2>5
  <1>6. /\ chan'[c].links = chan[c].links /\ chan'[c].ports = chan[c].ports /\ chan'[c].value = chan[c].value
        /\ chan'[c].queue = Pushed(chan[c].queue, c, samples[p])
        /\ \A d \in Channels \ {c} : chan'[d] = chan[d]
    BY <1>0, <1>1, StoredLinks, StoredData
  <1>7. ASSUME NEW d \in Channels
        PROVE  Attended(d)' /\ Fresh(d)'
    <2>1. Attended(d) /\ Fresh(d) /\ (Listed(d, To[d])' <=> Listed(d, To[d]))
      BY <1>1 DEF Flow, Listed
    <2>2. Noted(d) => Noted(d)'
      BY <1>1, <1>5 DEF Noted
    <2>3. CASE d # c
      <3>1. chan'[d] = chan[d]
        BY <1>6, <2>3
      <3>2. Waiting(d)' => Waiting(d)
        BY <2>1, <3>1 DEF Waiting
      <3> QED
        BY <1>1, <1>5, <2>1, <2>2, <3>1, <3>2, FlowFrame
    <2>4. CASE d = c
      <3>1. ~Idle(From[c])
        BY <1>0, <1>1 DEF Does
      <3>2. Waiting(c)' => Noted(c)'
        <4>1. CASE ~full
          <5>1. Has(From[c], <<"signal", c>>)'
            BY <1>0, <1>4, <1>5, <4>1
          <5> QED
            BY <5>1 DEF Noted
        <4>2. CASE full
          <5>1. chan'[c].queue = chan[c].queue
            BY <1>6, <4>2, ConnectionsAssumption DEF Pushed
          <5>2. Waiting(c)' => Waiting(c)
            BY <1>6, <2>1, <2>4, <5>1 DEF Waiting
          <5> QED
            BY <2>1, <2>2, <2>4, <5>2 DEF Attended
        <4> QED
          BY <4>1, <4>2
      <3>3. Attended(c)'
        BY <1>5, <1>6, <2>1, <2>4, <3>1, <3>2 DEF Attended
      <3>4. ~Sent(c)'
        BY <1>5
      <3>5. Sent(c)
        <4>1. Has(p, <<"put", c>>)
          <5>1. p \in Outputs /\ todo[p] \in Seq(WriterCode)
            BY DEF TypeOK
          <5>2. ~Idle(p) /\ Head(todo[p]) = <<"put", c>>
            BY <1>1 DEF Does
          <5> QED
            BY <5>1, <5>2, Begun
        <4> QED
          BY <1>0, <4>1 DEF Sent
      <3>6. Kind[c] # "data" /\ (c \in Initialised => c \in Quiet) => Rising(got[c], chan'[c].queue, samples[p])
        BY <1>0, <1>6, <2>1, <2>4, <3>5, RisingPushed DEF Fresh
      <3>7. chan'[c].links # {} /\ got'[c] = got[c] /\ samples' = samples /\ kept' = kept
        BY <1>1, <1>6
      <3>8. \A v \in Nat : ~Has(To[c], <<"mark", c, v>>)'
        BY <1>1, <1>5, <2>1, <2>4 DEF Fresh
      <3>9. Fresh(c)'
        BY <1>0, <1>1, <1>6, <2>1, <2>4, <3>4, <3>6, <3>7, <3>8 DEF Fresh
      <3> QED
        BY <2>4, <3>3, <3>9
    <2> QED
      BY <2>3, <2>4
  <1> QED
    BY <1>5, <1>7 DEF Flow

LEMMA FlowSignal ==
    ASSUME TypeOK, Bonds, Flow, NEW p \in Outputs, SignalPort(p)
    PROVE  Flow'
  <1>1. PICK c \in Channels :
           /\ Does(p, <<"signal", c>>)
           /\ signalled' = IF "data" \in chan[c].links /\ "out" \in chan[c].ports
                           THEN signalled \cup {To[c]} ELSE signalled
           /\ Then(p, <<>>) /\ UNCHANGED <<chan, conns, current, samples, kept, got>>
    BY DEF SignalPort
  <1>0. Writers /\ Lists /\ <<>> \in Seq(WriterCode) /\ Telling(<<>>, c, p)
    BY DEF Flow, Bonds, Telling
  <1> DEFINE h == <<"signal", c>>
  <1>2. Does(p, h) /\ h \in {<<"put", c>>, <<"written", c>>, <<"unread", c>>, <<"signal", c>>}
    BY <1>1
  <1>3. h = <<"signal", c>>
    OBVIOUS
  <1> HIDE DEF h
  <1>4. /\ Writers'
        /\ \A d \in Channels :
              /\ Sent(d)' => Sent(d)
              /\ Idle(From[d]) => Idle(From[d])'
              /\ Has(From[d], <<"signal", d>>) => Has(From[d], <<"signal", d>>)' \/ h = <<"signal", d>>
              /\ \A k \in Clients : Making(k, d)' <=> Making(k, d)
              /\ \A x : Has(To[d], x)' <=> Has(To[d], x)
              /\ At(To[d], "mark")' <=> At(To[d], "mark")
              /\ At(To[d], "read")' <=> At(To[d], "read")
    <2>1. /\ \A d \in Channels : Listed(d, p) /\ h # <<"put", d>> => Listed(d, p)'
          /\ \A port \in Ports \ {p} : conns'[port] = conns[port]
      BY <1>1 DEF Listed
    <2> QED
      BY <1>0, <1>1, <1>2, <2>1, WriterThen
  <1>5. ASSUME NEW d \in Channels
        PROVE  Attended(d)' /\ Fresh(d)'
    <2>1. Attended(d) /\ Fresh(d) /\ (Listed(d, To[d])' <=> Listed(d, To[d]))
      BY <1>1 DEF Flow, Listed
    <2>2. Waiting(d)' => Waiting(d)
      BY <1>1, <2>1 DEF Waiting
    <2>3. ASSUME Waiting(d), Noted(d)
          PROVE  Noted(d)'
      <3>1. CASE h # <<"signal", d>>
        BY <1>1, <1>4, <2>3, <3>1 DEF Noted
      <3>2. CASE h = <<"signal", d>>
        <4>1. d = c
          BY <1>3, <3>2
        <4>2. "out" \in chan[c].ports
          BY <2>1, <2>3, <4>1 DEF Attended, Waiting
        <4>3. "data" \in chan[c].links
          <5>1. FarEnd(c) /\ Listed(c, To[c]) /\ "forward" \in Ways
            BY <2>3, <4>1 DEF Bonds, Bonded, Waiting, Ways
          <5>2. FarPort(c, "forward") = To[c]
            BY <5>1, Ends
          <5> QED
            BY <5>1, <5>2 DEF FarEnd
        <4> QED
          BY <1>1, <4>1, <4>2, <4>3 DEF Noted
      <3> QED
        BY <3>1, <3>2
    <2> QED
      BY <1>1, <1>4, <2>1, <2>2, <2>3, FlowFrame
  <1> QED
    BY <1>4, <1>5 DEF Flow

LEMMA FlowWriter ==
    ASSUME TypeOK, Bonds, Flow, NEW p \in Outputs, Writer(p)
    PROVE  Flow'
  <1>1. Lists
    BY DEF Bonds
  <1> QED
    BY <1>1, FlowWrite, FlowLock, FlowNowhere, FlowPutData, FlowSetFlag, FlowPutBuffer, FlowSignal DEF Writer

\* Reading: what it leaves as it is.
LEMMA ReaderKeeps ==
    ASSUME TypeOK, Writers, NEW r \in Inputs, Reader(r)
    PROVE  /\ conns' = conns /\ samples' = samples /\ kept' = kept
           /\ \A t \in Threads \ {r} : todo'[t] = todo[t]
           /\ Writers'
           /\ \A c \in Channels :
                 /\ Listed(c, To[c])' <=> Listed(c, To[c])
                 /\ \A k \in Clients : Making(k, c)' <=> Making(k, c)
                 /\ Idle(From[c])' <=> Idle(From[c])
                 /\ Sent(c)' <=> Sent(c)
                 /\ Has(From[c], <<"signal", c>>)' <=> Has(From[c], <<"signal", c>>)
                 /\ To[c] # r => /\ Noted(c) => Noted(c)'
                                 /\ \A x : Has(To[c], x)' <=> Has(To[c], x)
  <1>0. /\ r \in Threads /\ todo \in [Threads -> Seq(ClientCode \cup WriterCode \cup ReaderCode)]
    BY Consts DEF TypeOK
  <1>1. (\E new : Do(r, new)) \/ todo' = todo
    BY DEF Reader, BeginRead, ReadAgain, TakeNothing, TakeData, MarkRead, TakeBuffer, Clear, NewData, Then
  <1>2. \A t \in Threads \ {r} : todo'[t] = todo[t]
    BY <1>0, <1>1 DEF Do
  <1>3. conns' = conns /\ samples' = samples /\ kept' = kept /\ signalled \ {r} \subseteq signalled'
    BY DEF Reader, BeginRead, ReadAgain, TakeNothing, TakeData, MarkRead, TakeBuffer, Clear, NewData
  <1>4. Writers'
    <2> SUFFICES ASSUME NEW p \in Outputs
                 PROVE  Writes(p)'
      BY DEF Writers
    <2>1. p \in Threads /\ p # r /\ Writes(p)
      BY Consts DEF Writers
    <2> QED
      BY <1>2, <1>3, <2>1, WritesFrame
  <1>5. ASSUME NEW c \in Channels
        PROVE  /\ Listed(c, To[c])' <=> Listed(c, To[c])
               /\ \A k \in Clients : Making(k, c)' <=> Making(k, c)
               /\ Idle(From[c])' <=> Idle(From[c])
               /\ Sent(c)' <=> Sent(c)
               /\ Has(From[c], <<"signal", c>>)' <=> Has(From[c], <<"signal", c>>)
               /\ To[c] # r => /\ Noted(c) => Noted(c)'
                               /\ \A x : Has(To[c], x)' <=> Has(To[c], x)
    <2>1. /\ From[c] \in Threads /\ From[c] # r /\ To[c] \in Threads
          /\ \A k \in Clients : k \in Threads /\ k # r
      BY Consts
    <2>2. Listed(c, To[c])' <=> Listed(c, To[c])
      BY <1>3 DEF Listed
    <2>3. \A k \in Clients : Making(k, c)' <=> Making(k, c)
      BY <1>2, <2>1 DEF Making, Has
    <2>4. /\ Idle(From[c])' <=> Idle(From[c])
          /\ Sent(c)' <=> Sent(c)
          /\ Has(From[c], <<"signal", c>>)' <=> Has(From[c], <<"signal", c>>)
      BY <1>2, <2>1, Sending
    <2>5. ASSUME To[c] # r
          PROVE  (Noted(c) => Noted(c)') /\ \A x : Has(To[c], x)' <=> Has(To[c], x)
      <3>1. /\ \A x : Has(To[c], x)' <=> Has(To[c], x)
            /\ At(To[c], "mark")' <=> At(To[c], "mark")
            /\ At(To[c], "read")' <=> At(To[c], "read")
        BY <1>2, <2>1, <2>5, Receiving
      <3> QED
        BY <1>3, <2>4, <2>5, <3>1 DEF Noted
    <2> QED
      BY <2>2, <2>3, <2>4, <2>5
  <1> QED
    BY <1>2, <1>3, <1>4, <1>5

\* All connections of the port are tried.
LEMMA Tries ==
    ASSUME TypeOK, NEW r \in Inputs, Do(r, Tried(r))
    PROVE  /\ \A c : Listed(c, r) => Has(r, <<"take", c>>)'
           /\ \A c, v : ~Has(r, <<"mark", c, v>>)'
  <1> DEFINE first == IF current[r] = None THEN <<>> ELSE <<current[r]>>
             tried == first \o conns[r]
  <1>1. todo'[r] = [i \in DOMAIN tried |-> <<"take", tried[i]>>]
    <2>1. r \in Threads /\ todo \in [Threads -> Seq(ClientCode \cup WriterCode \cup ReaderCode)]
      BY Consts DEF TypeOK
    <2> QED
      BY <2>1 DEF Do, Tried
  <1>2. first \in Seq(Channels) /\ conns[r] \in Seq(Channels) /\ r \in Ports
    BY Consts DEF TypeOK
  <1> HIDE DEF first
  <1>3. /\ tried \in Seq(Channels) /\ Len(tried) = Len(first) + Len(conns[r])
        /\ \A i \in 1 .. Len(first) + Len(conns[r]) :
              tried[i] = IF i <= Len(first) THEN first[i] ELSE conns[r][i - Len(first)]
    BY <1>2, ConcatProperties
  <1>4. DOMAIN tried = 1 .. Len(tried) /\ DOMAIN conns[r] = 1 .. Len(conns[r]) /\ Len(conns[r]) \in Nat /\ Len(first) \in Nat
    BY <1>2, <1>3, LenProperties
  <1> HIDE DEF tried
  <1>5. ASSUME NEW i \in DOMAIN conns[r]
        PROVE  \E j \in DOMAIN tried : tried[j] = conns[r][i]
    <2> DEFINE j == i + Len(first)
    <2>1. j \in 1 .. Len(first) + Len(conns[r]) /\ ~(j <= Len(first)) /\ j - Len(first) = i
      BY <1>4
    <2>2. tried[j] = conns[r][j - Len(first)] /\ j \in DOMAIN tried
      BY <1>3, <1>4, <2>1
    <2> QED
      BY <2>1, <2>2
  <1>6. ASSUME NEW c, Listed(c, r)
        PROVE  Has(r, <<"take", c>>)'
    <2>1. PICK i \in DOMAIN conns[r] : conns[r][i] = c
      BY <1>6 DEF Listed
    <2>2. PICK j \in DOMAIN tried : tried[j] = c
      BY <1>5, <2>1
    <2> QED
      BY <1>1, <2>2 DEF Has
  <1>7. \A c, v : ~Has(r, <<"mark", c, v>>)'
    <2>1. \A x : Has(r, x)' => x[1] = "take"
      BY <1>1 DEF Has
    <2>2. \A c, v : <<"mark", c, v>>[1] # "take"
      OBVIOUS
    <2> QED
      BY <2>1, <2>2
  <1> QED
    BY <1>6, <1>7

LEMMA FlowTry ==
    ASSUME TypeOK, Flow, NEW r \in Inputs, BeginRead(r) \/ ReadAgain(r)
    PROVE  Flow'
  <1>1. Do(r, Tried(r)) /\ UNCHANGED <<chan, got>>
    BY DEF BeginRead, ReadAgain
  <1>2. Writers /\ Reader(r)
    BY DEF Flow, Reader
  <1>3. /\ \A c : Listed(c, r) => Has(r, <<"take", c>>)'
        /\ \A c, v : ~Has(r, <<"mark", c, v>>)'
    BY <1>1, Tries
  <1>4. ASSUME NEW c \in Channels
        PROVE  Attended(c)' /\ Fresh(c)'
    <2>1. /\ Attended(c) /\ Fresh(c)
          /\ samples' = samples /\ kept' = kept
          /\ Listed(c, To[c])' <=> Listed(c, To[c])
          /\ \A k \in Clients : Making(k, c)' <=> Making(k, c)
          /\ Idle(From[c])' <=> Idle(From[c])
          /\ Sent(c)' <=> Sent(c)
          /\ To[c] # r => /\ Noted(c) => Noted(c)'
                          /\ \A x : Has(To[c], x)' <=> Has(To[c], x)
      BY <1>2, ReaderKeeps DEF Flow
    <2>2. Waiting(c)' => Waiting(c)
      BY <1>1, <2>1 DEF Waiting
    <2>3. ASSUME Waiting(c)', Noted(c)
          PROVE  Noted(c)'
      <3>1. CASE To[c] = r
        BY <1>3, <2>2, <2>3, <3>1 DEF Waiting, Noted
      <3> QED
        BY <2>1, <2>3, <3>1
    <2>4. \A v \in Nat : Has(To[c], <<"mark", c, v>>)' => Has(To[c], <<"mark", c, v>>)
      BY <1>3, <2>1
    <2> QED
      BY <1>1, <2>1, <2>2, <2>3, <2>4, FlowFrame
  <1> QED
    BY <1>2, <1>4, ReaderKeeps DEF Flow

LEMMA FlowTakeNothing ==
    ASSUME TypeOK, Flow, NEW r \in Inputs, TakeNothing(r)
    PROVE  Flow'
  <1>1. PICK c \in Channels : /\ Does(r, <<"take", c>>) /\ ~HasNew(c)
                              /\ Then(r, <<>>) /\ UNCHANGED <<chan, signalled, got>>
    BY DEF TakeNothing
  <1>2. Writers /\ Reader(r)
    BY DEF Flow, Reader, TakeNothing
  <1>3. /\ \A x : Has(r, x) => x = <<"take", c>> \/ Has(r, x)'
        /\ \A x : Has(r, x)' => Has(r, x)
        /\ ~At(r, "mark") /\ ~At(r, "read")
    <2>1. r \in Threads /\ todo \in [Threads -> Seq(ClientCode \cup WriterCode \cup ReaderCode)] /\ todo[r] \in Seq(ReaderCode)
      BY Consts DEF TypeOK
    <2>2. /\ \A x : Has(r, x) => x = <<"take", c>> \/ Has(r, x)'
          /\ \A x : Has(r, x)' => Has(r, x)
      BY <1>1, <2>1, CallsNone
    <2> QED
      BY <1>1, <2>2 DEF Does, At
  <1>4. ASSUME NEW d \in Channels
        PROVE  Attended(d)' /\ Fresh(d)'
    <2>1. /\ Attended(d) /\ Fresh(d)
          /\ samples' = samples /\ kept' = kept
          /\ Listed(d, To[d])' <=> Listed(d, To[d])
          /\ \A k \in Clients : Making(k, d)' <=> Making(k, d)
          /\ Idle(From[d])' <=> Idle(From[d])
          /\ Sent(d)' <=> Sent(d)
          /\ Has(From[d], <<"signal", d>>)' <=> Has(From[d], <<"signal", d>>)
          /\ To[d] # r => /\ Noted(d) => Noted(d)'
                          /\ \A x : Has(To[d], x)' <=> Has(To[d], x)
      BY <1>2, ReaderKeeps DEF Flow
    <2>2. Waiting(d)' => Waiting(d)
      BY <1>1, <2>1 DEF Waiting
    <2>3. ASSUME Waiting(d)', Noted(d)
          PROVE  Noted(d)'
      <3>1. <<"take", d>> # <<"take", c>>
        BY <1>1, <2>2, <2>3 DEF Waiting, HasNew
      <3>2. CASE To[d] = r
        BY <1>1, <1>3, <2>1, <2>3, <3>1, <3>2 DEF Noted
      <3> QED
        BY <2>1, <2>3, <3>2
    <2>4. \A v \in Nat : Has(To[d], <<"mark", d, v>>)' => Has(To[d], <<"mark", d, v>>)
      BY <1>3, <2>1
    <2> QED
      BY <1>1, <2>1, <2>2, <2>3, <2>4, FlowFrame
  <1> QED
    BY <1>2, <1>4, ReaderKeeps DEF Flow

LEMMA FlowTakeData ==
    ASSUME TypeOK, Flow, NEW r \in Inputs, TakeData(r)
    PROVE  Flow'
  <1>1. PICK c \in Channels : /\ Kind[c] = "data" /\ Do(r, <<<<"mark", c, chan[c].value>>>>)
                              /\ UNCHANGED <<chan, signalled, got>>
    BY DEF TakeData
  <1>2. Writers /\ Reader(r)
    BY DEF Flow, Reader, TakeData
  <1>3. todo'[r] = <<<<"mark", c, chan[c].value>>>>
    <2>1. r \in Threads /\ todo \in [Threads -> Seq(ClientCode \cup WriterCode \cup ReaderCode)]
      BY Consts DEF TypeOK
    <2> QED
      BY <1>1, <2>1 DEF Do
  <1>4. At(r, "mark")' /\ \A x : Has(r, x)' => x = <<"mark", c, chan[c].value>>
    BY <1>3 DEF At, Idle, Has
  <1>5. \A d, v : Has(r, <<"mark", d, v>>)' => d = c /\ v = chan[c].value
    BY <1>4
  <1>6. ASSUME NEW d \in Channels
        PROVE  Attended(d)' /\ Fresh(d)'
    <2>1. /\ Attended(d) /\ Fresh(d)
          /\ samples' = samples /\ kept' = kept
          /\ Listed(d, To[d])' <=> Listed(d, To[d])
          /\ \A k \in Clients : Making(k, d)' <=> Making(k, d)
          /\ Idle(From[d])' <=> Idle(From[d])
          /\ Sent(d)' <=> Sent(d)
          /\ To[d] # r => /\ Noted(d) => Noted(d)'
                          /\ \A x : Has(To[d], x)' <=> Has(To[d], x)
      BY <1>2, ReaderKeeps DEF Flow
    <2>2. Waiting(d)' => Waiting(d)
      BY <1>1, <2>1 DEF Waiting
    <2>3. Noted(d) => Noted(d)'
      BY <1>4, <2>1 DEF Noted
    <2>4. Attended(d)'
      BY <1>1, <2>1, <2>2, <2>3 DEF Attended
    <2>5. chan[d].value \in Nat
      BY DEF TypeOK
    <2>6. \A v \in Nat : Has(To[d], <<"mark", d, v>>)' => Kind[d] = "data" /\ v <= chan[d].value
      <3>1. CASE To[d] = r
        BY <1>1, <1>5, <2>5, <3>1
      <3>2. CASE To[d] # r
        BY <2>1, <3>2 DEF Fresh
      <3> QED
        BY <3>1, <3>2
    <2>7. Fresh(d)'
      BY <1>1, <2>1, <2>6 DEF Fresh
    <2> QED
      BY <2>4, <2>7
  <1> QED
    BY <1>2, <1>6, ReaderKeeps DEF Flow

\* A sample is read as new, and the next one is looked for.
LEMMA FlowNewData ==
    ASSUME TypeOK, Flow, NEW r \in Inputs, Reader(r), NEW c \in Channels, NEW v \in Nat, NewData(r, c, v),
           \A d \in Channels : /\ chan'[d].links = chan[d].links /\ chan'[d].ports = chan[d].ports
                               /\ chan'[d].value = chan[d].value
                               /\ chan'[d].queue = IF d = c /\ Kind[c] # "data" THEN Tail(chan[d].queue) ELSE chan[d].queue,
           Kind[c] = "data" => v <= chan[c].value,
           Kind[c] # "data" => chan[c].queue # <<>> /\ v = Head(chan[c].queue) /\ chan[c].links # {}
    PROVE  Flow'
  <1>1. /\ got' = [got EXCEPT ![c] = v] /\ Do(r, <<<<"read", r>>>>) /\ signalled' = signalled
    BY DEF NewData
  <1>2. Writers /\ got \in [Channels -> Nat] /\ chan \in [Channels -> Cell] /\ samples \in [Outputs -> Nat]
    BY DEF Flow, TypeOK, Cell
  <1>3. todo'[r] = <<<<"read", r>>>>
    <2>1. r \in Threads /\ todo \in [Threads -> Seq(ClientCode \cup WriterCode \cup ReaderCode)]
      BY Consts DEF TypeOK
    <2> QED
      BY <1>1, <2>1 DEF Do
  <1>4. At(r, "read")' /\ \A x : Has(r, x)' => x = <<"read", r>>
    BY <1>3 DEF At, Idle, Has
  <1>5. \A d, w : ~Has(r, <<"mark", d, w>>)'
    BY <1>4
  <1>6. ASSUME NEW d \in Channels
        PROVE  Attended(d)' /\ Fresh(d)'
    <2>1. /\ Attended(d) /\ Fresh(d)
          /\ samples' = samples /\ kept' = kept
          /\ Listed(d, To[d])' <=> Listed(d, To[d])
          /\ \A k \in Clients : Making(k, d)' <=> Making(k, d)
          /\ Idle(From[d])' <=> Idle(From[d])
          /\ Sent(d)' <=> Sent(d)
          /\ To[d] # r => /\ Noted(d) => Noted(d)'
                          /\ \A x : Has(To[d], x)' <=> Has(To[d], x)
      BY <1>2, ReaderKeeps DEF Flow
    <2>2. \A w \in Nat : Has(To[d], <<"mark", d, w>>)' => Has(To[d], <<"mark", d, w>>)
      BY <1>5, <2>1
    <2>3. Noted(d) => Noted(d)'
      BY <1>4, <2>1 DEF Noted
    <2>4. CASE d # c \/ Kind[c] = "data"
      <3>1. chan'[d].queue = chan[d].queue
        BY <2>4
      <3>2. Waiting(d)' => Waiting(d)
        BY <2>1, <3>1 DEF Waiting
      <3>3. CASE d # c
        <4>1. got'[d] = got[d]
          BY <1>1, <1>2, <3>3
        <4> QED
          BY <2>1, <2>2, <2>3, <3>1, <3>2, <4>1, FlowFrame
      <3>4. CASE d = c
        <4>1. Attended(d)'
          BY <2>1, <2>3, <3>1, <3>2 DEF Attended
        <4>2. got'[d] = v /\ v <= chan[d].value /\ Kind[d] = "data"
          BY <1>1, <1>2, <2>4, <3>4
        <4>3. chan[d].value <= samples[From[d]] /\ chan[d].value \in Nat /\ samples[From[d]] \in Nat
          BY <1>2, <2>1, Consts DEF Fresh, Cell
        <4>4. v <= samples[From[d]]
          BY <4>2, <4>3
        <4>5. Fresh(d)'
          BY <2>1, <2>2, <4>2, <4>4 DEF Fresh
        <4> QED
          BY <4>1, <4>5
      <3> QED
        BY <3>3, <3>4
    <2>5. CASE d = c /\ Kind[c] # "data"
      <3> DEFINE q == chan[c].queue
                 n == samples[From[c]]
      <3>1. /\ got'[c] = v /\ chan'[c].queue = Tail(q) /\ v = Head(q) /\ q # <<>>
            /\ chan'[c].links # {} /\ q \in Seq(Nat) /\ n \in Nat /\ got[c] \in Nat
        BY <1>1, <1>2, <2>5, Consts DEF Cell
      <3>2. Waiting(c)' => Waiting(c)
        BY <2>1, <2>5, <3>1 DEF Waiting
      <3>3. c \in Quiet /\ (\E k \in Clients : Making(k, c)) => c \in Initialised
        BY <2>1, <2>5, <3>1 DEF Attended
      <3>4. Attended(c)'
        BY <2>1, <2>3, <2>5, <3>2, <3>3 DEF Attended
      <3> HIDE DEF q, n
      <3>5. ASSUME Rising(got[c], q, n)
            PROVE  v <= n /\ Rising(v, Tail(q), n) /\ (Below(got[c], q, n) => Below(v, Tail(q), n))
        BY <3>1, <3>5, Risings
      <3>6. (c \in Initialised => c \in Quiet) =>
               /\ Rising(got[c], q, n)
               /\ Sent(c) => Below(got[c], q, n)
        BY <2>1, <2>5 DEF Fresh, q, n
      <3>7. (c \in Initialised => c \in Quiet) =>
               /\ v <= samples[From[c]] /\ Rising(got'[c], chan'[c].queue, samples[From[c]])
               /\ Sent(c) => Below(got'[c], chan'[c].queue, samples[From[c]])
        <4>1. (c \in Initialised => c \in Quiet) =>
                 /\ v <= n /\ Rising(v, Tail(q), n)
                 /\ Sent(c) => Below(v, Tail(q), n)
          BY <3>5, <3>6
        <4> QED
          BY <3>1, <4>1 DEF n
      <3>8. Fresh(c)'
        BY <2>1, <2>2, <2>5, <3>1, <3>7 DEF Fresh
      <3> QED
        BY <2>5, <3>4, <3>8
    <2> QED
      BY <2>4, <2>5
  <1> QED
    BY <1>2, <1>6, ReaderKeeps DEF Flow

LEMMA FlowReader ==
    ASSUME Shape, Lists, Flow, NEW r \in Inputs, Reader(r)
    PROVE  Flow'
  <1>0. TypeOK /\ Readers /\ chan \in [Channels -> Cell] /\ (\A c \in Channels : Fresh(c)) /\ todo[r] \in Seq(ReaderCode)
        /\ r \in Ports
    BY Consts DEF Shape, TypeOK, Cell, Flow
  <1>1. CASE MarkRead(r)
    <2>1. PICK c \in Channels : \E v \in 0 .. MaxSample[From[c]] :
             Does(r, <<"mark", c, v>>) /\ chan' = [chan EXCEPT ![c].read = TRUE] /\ NewData(r, c, v)
      BY <1>1 DEF MarkRead
    <2>2. MaxSample[From[c]] \in Nat
      BY Consts, ConnectionsAssumption
    <2>3. PICK v \in Nat :
             Does(r, <<"mark", c, v>>) /\ chan' = [chan EXCEPT ![c].read = TRUE] /\ NewData(r, c, v)
      BY <2>1, <2>2
    <2>4. Has(r, <<"mark", c, v>>) /\ Listed(c, r)
      BY <1>0, <2>3, Begun DEF Does, Readers
    <2>5. To[c] = r
      <3>1. r \in Pair(c)
        BY <1>0, <2>4 DEF Lists
      <3> QED
        BY <3>1, Consts DEF Pair
    <2>6. Kind[c] = "data" /\ v <= chan[c].value
      BY <1>0, <2>4, <2>5 DEF Fresh
    <2>7. \A d \in Channels : /\ chan'[d].links = chan[d].links /\ chan'[d].ports = chan[d].ports
                              /\ chan'[d].value = chan[d].value
                              /\ chan'[d].queue = chan[d].queue
      BY <1>0, <2>3 DEF Cell
    <2> QED
      BY <1>0, <2>3, <2>6, <2>7, FlowNewData
  <1>2. CASE TakeBuffer(r)
    <2>1. PICK c \in Channels :
             /\ HasNew(c) /\ Kind[c] # "data"
             /\ chan' = [chan EXCEPT ![c].queue = Tail(@)] /\ NewData(r, c, Head(chan[c].queue))
      BY <1>2 DEF TakeBuffer
    <2>2. chan[c].queue # <<>> /\ chan[c].links # {} /\ chan[c].queue \in Seq(Nat)
      BY <1>0, <2>1 DEF HasNew, Cell
    <2>3. Head(chan[c].queue) \in Nat
      BY <2>2, HeadTailProperties
    <2>4. \A d \in Channels : /\ chan'[d].links = chan[d].links /\ chan'[d].ports = chan[d].ports
                              /\ chan'[d].value = chan[d].value
                              /\ chan'[d].queue = IF d = c THEN Tail(chan[d].queue) ELSE chan[d].queue
      BY <1>0, <2>1 DEF Cell
    <2>5. PICK v \in Nat : v = Head(chan[c].queue) /\ NewData(r, c, v)
      BY <2>1, <2>3
    <2> QED
      BY <1>0, <2>1, <2>2, <2>4, <2>5, FlowNewData
  <1>3. CASE Clear(r)
    <2>1. /\ todo' = todo /\ conns' = conns /\ signalled' = signalled /\ got' = got
          /\ samples' = samples /\ kept' = kept
      BY <1>3 DEF Clear
    <2>2. \A c \in Channels : /\ chan'[c].links = chan[c].links /\ chan'[c].ports = chan[c].ports
                              /\ chan'[c].value = chan[c].value
                              /\ chan'[c].queue = chan[c].queue \/ chan'[c].queue = <<>>
      BY <1>0, <1>3 DEF Clear, Cell
    <2>3. ASSUME NEW c \in Channels
          PROVE  Attended(c)' /\ Fresh(c)'
      <3>1. Attended(c) /\ Fresh(c) /\ (Listed(c, To[c])' <=> Listed(c, To[c]))
            /\ (\A k \in Clients : Making(k, c)' <=> Making(k, c))
        BY <2>1 DEF Flow, Listed, Making, Has
      <3>2. Waiting(c)' => Waiting(c)
        BY <2>2, <3>1 DEF Waiting
      <3>3. Noted(c) => Noted(c)'
        BY <2>1, Sending, Receiving DEF Noted
      <3> QED
        BY <2>1, <2>2, <3>1, <3>2, <3>3, Sending, Receiving, FlowFrame
    <2> QED
      BY <1>0, <2>3, ReaderKeeps DEF Flow
  <1> QED
    BY <1>0, <1>1, <1>2, <1>3, FlowTry, FlowTakeNothing, FlowTakeData DEF Reader

\* Connecting and disconnecting: no other channel is made, ...
LEMMA MakingLess ==
    ASSUME TypeOK, NEW k \in Clients, NEW h, NEW new \in Seq(ClientCode), Does(k, h), Then(k, new),
           \A i \in DOMAIN new : new[i][1] # "add"
    PROVE  \A l \in Clients, c \in Channels : Making(l, c)' => Making(l, c)
  <1>0. k \in Threads /\ todo \in [Threads -> Seq(ClientCode \cup WriterCode \cup ReaderCode)] /\ todo[k] \in Seq(ClientCode)
    BY Consts DEF TypeOK
  <1>1. \A x : Has(k, x)' => (\E i \in DOMAIN new : new[i] = x) \/ Has(k, x)
    BY <1>0, Calls
  <1>2. \A u \in Threads \ {k} : \A x : Has(u, x)' <=> Has(u, x)
    BY <1>0, Moves
  <1>3. ASSUME NEW c \in Channels, Making(k, c)'
        PROVE  Making(k, c)
    <2> DEFINE x == <<"add", c, To[c]>>
    <2>1. Has(k, x)' /\ x[1] = "add"
      BY <1>3 DEF Making
    <2> HIDE DEF x
    <2>2. Has(k, x)
      BY <1>1, <2>1
    <2> QED
      BY <2>2 DEF Making, x
  <1> QED
    BY <1>2, <1>3, Consts DEF Making

LEMMA MakingNone ==
    ASSUME TypeOK, NEW k \in Clients, NEW new, Idle(k), Do(k, new), \A i \in DOMAIN new : new[i][1] # "add"
    PROVE  \A l \in Clients, c \in Channels : Making(l, c)' => Making(l, c)
  <1>0. k \in Threads /\ todo \in [Threads -> Seq(ClientCode \cup WriterCode \cup ReaderCode)]
    BY Consts DEF TypeOK
  <1>1. /\ \A x : Has(k, x)' <=> \E i \in DOMAIN new : new[i] = x
        /\ \A u \in Threads \ {k} : \A x : Has(u, x)' <=> Has(u, x)
    BY <1>0, Begins
  <1>2. ASSUME NEW c \in Channels
        PROVE  ~Making(k, c)'
    <2> DEFINE x == <<"add", c, To[c]>>
    <2>1. x[1] = "add"
      OBVIOUS
    <2> HIDE DEF x
    <2>2. ~Has(k, x)'
      BY <1>1, <2>1
    <2> QED
      BY <2>2 DEF Making, x
  <1> QED
    BY <1>1, <1>2, Consts DEF Making

\* ... and a channel that is not touched is as it was.
LEMMA FlowKept ==
    ASSUME TypeOK, Flow, NEW k \in Clients, Client(k)
    PROVE  /\ Writers'
           /\ \A c \in Channels :
                 /\ Idle(From[c])' <=> Idle(From[c])
                 /\ Sent(c)' <=> Sent(c)
                 /\ \A x : Has(To[c], x)' <=> Has(To[c], x)
                 /\ Noted(c) => Noted(c)'
                 /\ /\ chan'[c].value = chan[c].value /\ chan'[c].queue = chan[c].queue
                    /\ chan'[c].links = {} => chan[c].links = {}
                    /\ "out" \in chan'[c].links =>
                          "out" \in chan[c].links /\ ("out" \in chan[c].ports => "out" \in chan'[c].ports)
                    /\ got'[c] = got[c]
                    /\ \A l \in Clients : Making(l, c)' => Making(l, c)
                    /\ Waiting(c)' => Waiting(c)
                    => Attended(c)' /\ Fresh(c)'
  <1>1. /\ \A port \in Ports : todo'[port] = todo[port] /\ (conns'[port] = conns[port] \/ Unlocked(port))
        /\ samples' = samples /\ kept' = kept /\ signalled \subseteq signalled'
    BY ClientKeeps
  <1>2. Writers'
    BY <1>1, WritesFrame, Consts DEF Flow, Writers
  <1>3. ASSUME NEW c \in Channels
        PROVE  /\ Idle(From[c])' <=> Idle(From[c])
               /\ Sent(c)' <=> Sent(c)
               /\ \A x : Has(To[c], x)' <=> Has(To[c], x)
               /\ Noted(c) => Noted(c)'
    <2>1. todo'[From[c]] = todo[From[c]] /\ todo'[To[c]] = todo[To[c]]
      BY <1>1, Consts
    <2>2. Noted(c) => Noted(c)'
      BY <1>1, <2>1, Sending, Receiving DEF Noted
    <2> QED
      BY <2>1, <2>2, Sending, Receiving
  <1>4. ASSUME NEW c \in Channels,
               chan'[c].value = chan[c].value, chan'[c].queue = chan[c].queue,
               chan'[c].links = {} => chan[c].links = {},
               "out" \in chan'[c].links =>
                  "out" \in chan[c].links /\ ("out" \in chan[c].ports => "out" \in chan'[c].ports),
               got'[c] = got[c], \A l \in Clients : Making(l, c)' => Making(l, c),
               Waiting(c)' => Waiting(c)
        PROVE  Attended(c)' /\ Fresh(c)'
    BY <1>1, <1>3, <1>4, FlowFrame DEF Flow
  <1> QED
    BY <1>2, <1>3, <1>4

LEMMA FlowBreak ==
    ASSUME TypeOK, Flow, NEW k \in Clients, Client(k), chan' = chan, got' = got,
           \A l \in Clients, c \in Channels : Making(l, c)' => Making(l, c),
           \A c \in Channels : Listed(c, To[c])' => Listed(c, To[c])
    PROVE  Flow'
  <1>1. \A c \in Channels : Waiting(c)' => Waiting(c)
    BY DEF Waiting
  <1> QED
    BY <1>1, FlowKept DEF Flow

LEMMA DropCode ==
    ASSUME NEW c \in Channels, NEW port
    PROVE  Drop(c, port) \in ClientCode /\ Drop(c, port)[1] = "drop"
  BY DEF Drop, ClientCode, Toward, Near, Ways, Elements

LEMMA FlowDisconnect ==
    ASSUME TypeOK, Bonds, Flow, NEW k \in Clients,
           Disconnect(k) \/ DisconnectAll(k) \/ RemoveConnection(k) \/ DropElement(k)
    PROVE  Flow'
  <1>0. Client(k) /\ chan' = chan /\ got' = got /\ Lists
    BY DEF Client, Disconnect, DisconnectAll, RemoveConnection, DropElement, Bonds
  <1>1. CASE Disconnect(k)
    <2>1. PICK c \in Channels : /\ Idle(k) /\ conns' = conns
                                /\ \/ Do(k, <<<<"remove", From[c], To[c]>>>>)
                                   \/ Do(k, <<<<"remove", To[c], From[c]>>>>)
      BY <1>1 DEF Disconnect
    <2>2. PICK new : Do(k, new) /\ \A i \in DOMAIN new : new[i][1] # "add"
      BY <2>1
    <2>3. \A l \in Clients, d \in Channels : Making(l, d)' => Making(l, d)
      BY <2>1, <2>2, MakingNone
    <2> QED
      BY <1>0, <2>1, <2>3, FlowBreak DEF Listed
  <1>2. CASE DisconnectAll(k)
    <2>1. PICK port \in Ports : /\ Idle(k) /\ conns' = [conns EXCEPT ![port] = <<>>]
                                /\ Do(k, [i \in DOMAIN conns[port] |-> Drop(conns[port][i], port)])
      BY <1>2 DEF DisconnectAll
    <2>2. \A i \in DOMAIN conns[port] : Drop(conns[port][i], port)[1] = "drop"
      BY ListsTyped, DropCode
    <2>3. PICK new : Do(k, new) /\ \A i \in DOMAIN new : new[i][1] # "add"
      BY <2>1, <2>2
    <2>4. \A l \in Clients, d \in Channels : Making(l, d)' => Making(l, d)
      BY <2>1, <2>3, MakingNone
    <2>5. \A d, q : q \in Ports => (Listed(d, q)' <=> Listed(d, q) /\ q # port)
      BY <1>0, <2>1, ListsTaken
    <2> QED
      BY <1>0, <2>4, <2>5, FlowBreak, Consts
  <1>3. CASE RemoveConnection(k)
    <2>1. PICK port \in Ports, other \in Ports :
             /\ Does(k, <<"remove", port, other>>)
             /\ \/ Then(k, <<>>) /\ conns' = conns
                \/ \E i \in DOMAIN conns[port] : Removed(port, i) /\ Then(k, <<Drop(conns[port][i], port)>>)
      BY <1>3 DEF RemoveConnection
    <2>2. CASE Then(k, <<>>) /\ conns' = conns
      <3>1. PICK new \in Seq(ClientCode) : Then(k, new) /\ \A i \in DOMAIN new : new[i][1] # "add"
        <4>1. <<>> \in Seq(ClientCode) /\ \A i \in DOMAIN <<>> : <<>>[i][1] # "add"
          OBVIOUS
        <4> QED
          BY <2>2, <4>1
      <3>2. \A l \in Clients, d \in Channels : Making(l, d)' => Making(l, d)
        BY <2>1, <3>1, MakingLess
      <3> QED
        BY <1>0, <2>2, <3>2, FlowBreak DEF Listed
    <2>3. ASSUME NEW i \in DOMAIN conns[port], Removed(port, i), Then(k, <<Drop(conns[port][i], port)>>)
          PROVE  Flow'
      <3> DEFINE a == Drop(conns[port][i], port)
      <3>1. a \in ClientCode /\ a[1] # "add"
        BY ListsTyped, DropCode
      <3>2. Then(k, <<a>>)
        BY <2>3
      <3> HIDE DEF a
      <3>3. PICK new \in Seq(ClientCode) : Then(k, new) /\ \A j \in DOMAIN new : new[j][1] # "add"
        <4>1. <<a>> \in Seq(ClientCode) /\ \A j \in DOMAIN <<a>> : <<a>>[j][1] # "add"
          BY <3>1
        <4> QED
          BY <3>2, <4>1
      <3>4. \A l \in Clients, d \in Channels : Making(l, d)' => Making(l, d)
        BY <2>1, <3>3, MakingLess
      <3>5. \A d, q : q \in Ports => (Listed(d, q)' => Listed(d, q))
        BY <1>0, <2>3, ListsRemoved
      <3> QED
        BY <1>0, <3>4, <3>5, FlowBreak, Consts
    <2> QED
      BY <2>1, <2>2, <2>3
  <1>4. CASE DropElement(k)
    <2>1. PICK c \in Channels, e \in Elements, way \in Ways :
             /\ Does(k, <<"drop", c, e, way>>) /\ conns' = conns
             /\ Then(k, IF e \in chan[c].links /\ e # Far(way)
                        THEN <<<<"drop", c, Following(e, way), way>>, <<"clear", c, e, way>>>>
                        ELSE <<<<"clear", c, e, way>>>>)
      BY <1>4 DEF DropElement
    <2> DEFINE a == <<"drop", c, Following(e, way), way>>
               b == <<"clear", c, e, way>>
    <2>2. a \in ClientCode /\ b \in ClientCode /\ a[1] # "add" /\ b[1] # "add"
      <3>1. Following(e, way) \in Elements
        BY DEF Following, Far, Elements
      <3> QED
        BY <3>1 DEF ClientCode
    <2>3. Then(k, <<a, b>>) \/ Then(k, <<b>>)
      BY <2>1
    <2> HIDE DEF a, b
    <2>4. PICK new \in Seq(ClientCode) : Then(k, new) /\ \A i \in DOMAIN new : new[i][1] # "add"
      <3>1. <<a, b>> \in Seq(ClientCode) /\ \A i \in DOMAIN <<a, b>> : <<a, b>>[i][1] # "add"
        BY <2>2
      <3>2. <<b>> \in Seq(ClientCode) /\ \A i \in DOMAIN <<b>> : <<b>>[i][1] # "add"
        BY <2>2
      <3> QED
        BY <2>3, <3>1, <3>2
    <2>5. \A l \in Clients, d \in Channels : Making(l, d)' => Making(l, d)
      BY <2>1, <2>4, MakingLess
    <2> QED
      BY <1>0, <2>1, <2>5, FlowBreak DEF Listed
  <1> QED
    BY <1>1, <1>2, <1>3, <1>4

LEMMA FlowAdd ==
    ASSUME TypeOK, Flow, NEW k \in Clients, AddConnection(k)
    PROVE  Flow'
  <1>1. PICK c \in Channels, port \in Ports :
           /\ Does(k, <<"add", c, port>>) /\ Then(k, <<>>)
           /\ conns' = [conns EXCEPT ![port] = Append(@, c)] /\ chan' = chan /\ got' = got
    BY DEF AddConnection
  <1>2. \A l \in Clients, d \in Channels : Making(l, d)' => Making(l, d)
    <2>1. PICK new \in Seq(ClientCode) : Then(k, new) /\ \A i \in DOMAIN new : new[i][1] # "add"
      <3>1. <<>> \in Seq(ClientCode) /\ \A i \in DOMAIN <<>> : <<>>[i][1] # "add"
        OBVIOUS
      <3> QED
        BY <1>1, <3>1
    <2> QED
      BY <1>1, <2>1, MakingLess
  <1>3. \A d, q : q \in Ports => (Listed(d, q)' => Listed(d, q) \/ (d = c /\ q = port))
    <2> DEFINE s == conns[port]
    <2>1. s \in Seq(Channels) /\ Len(s) \in Nat /\ DOMAIN s = 1 .. Len(s)
      BY ListsTyped
    <2>2. conns'[port] = Append(s, c) /\ \A q \in Ports \ {port} : conns'[q] = conns[q]
      BY <1>1 DEF TypeOK
    <2>3. s = conns[port]
      OBVIOUS
    <2> HIDE DEF s
    <2>4. Append(s, c) \in Seq(Channels) /\ Len(Append(s, c)) = Len(s) + 1
          /\ (\A i \in 1 .. Len(s) : Append(s, c)[i] = s[i]) /\ Append(s, c)[Len(s) + 1] = c
      BY <2>1, AppendProperties
    <2>5. DOMAIN Append(s, c) = 1 .. Len(s) + 1
      BY <2>4, LenProperties
    <2>6. \A i \in DOMAIN Append(s, c) : (i \in DOMAIN s /\ Append(s, c)[i] = s[i]) \/ Append(s, c)[i] = c
      BY <2>1, <2>4, <2>5
    <2> QED
      BY <2>2, <2>3, <2>6 DEF Listed
  <1>4. Client(k)
    BY DEF Client
  <1>5. ASSUME NEW d \in Channels
        PROVE  Waiting(d)' => Waiting(d)
    <2> SUFFICES ASSUME Waiting(d)', ~Listed(d, To[d])
                 PROVE  FALSE
      BY <1>1 DEF Waiting
    <2>1. d = c /\ port = To[c]
      BY <1>3, Consts DEF Waiting
    <2>2. Has(k, <<"add", c, port>>)
      BY <1>1, Begun DEF Does, TypeOK
    <2>3. Making(k, c) /\ Attended(c)
      BY <2>1, <2>2 DEF Making, Flow
    <2> QED
      BY <1>1, <2>1, <2>3 DEF Attended, Waiting
  <1> QED
    BY <1>1, <1>2, <1>4, <1>5, FlowKept DEF Flow

LEMMA FlowClear ==
    ASSUME Shape, Bonds, Flow, NEW k \in Clients, ClearElement(k)
    PROVE  Flow'
  <1>1. PICK c \in Channels, e \in Elements, way \in Ways :
           LET far == e = Far(way) /\ e \in chan[c].ports
           IN  /\ Does(k, <<"clear", c, e, way>>)
               /\ Cleared(c, [chan[c] EXCEPT !.links = @ \ {e}, !.ports = IF far THEN @ \ {e} ELSE @])
               /\ Then(k, IF far THEN <<<<"remove", End(c, Far(way)), End(c, Near(way))>>>> ELSE <<>>)
    BY DEF ClearElement
  <1>0. /\ TypeOK /\ Readers /\ Client(k) /\ chan \in [Channels -> Cell] /\ got \in [Channels -> Nat]
        /\ samples \in [Outputs -> Nat]
    BY DEF Shape, TypeOK, Cell, Client
  <1>2. \A l \in Clients, d \in Channels : Making(l, d)' => Making(l, d)
    <2> DEFINE a == <<"remove", End(c, Far(way)), End(c, Near(way))>>
    <2>1. a \in ClientCode /\ a[1] # "add"
      BY Ends DEF ClientCode, FarPort, NearPort
    <2>2. Then(k, <<a>>) \/ Then(k, <<>>)
      BY <1>1
    <2> HIDE DEF a
    <2>3. PICK new \in Seq(ClientCode) : Then(k, new) /\ \A i \in DOMAIN new : new[i][1] # "add"
      <3>1. <<a>> \in Seq(ClientCode) /\ \A i \in DOMAIN <<a>> : <<a>>[i][1] # "add"
        BY <2>1
      <3>2. <<>> \in Seq(ClientCode) /\ \A i \in DOMAIN <<>> : <<>>[i][1] # "add"
        OBVIOUS
      <3> QED
        BY <2>2, <3>1, <3>2
    <2> QED
      BY <1>0, <1>1, <2>3, MakingLess
  <1>3. PICK rest \in Cell :
           /\ rest.links = chan[c].links \ {e} /\ rest.value = chan[c].value /\ rest.queue = chan[c].queue
           /\ rest.ports = chan[c].ports \/ rest.ports = chan[c].ports \ {e}
           /\ Cleared(c, rest)
    <2> DEFINE p == IF e = Far(way) /\ e \in chan[c].ports THEN chan[c].ports \ {e} ELSE chan[c].ports
               rest == [chan[c] EXCEPT !.links = @ \ {e}, !.ports = p]
    <2>1. chan[c] \in Cell /\ p \subseteq {"in", "out"} /\ (p = chan[c].ports \/ p = chan[c].ports \ {e})
      BY <1>0 DEF Cell
    <2>2. Cleared(c, rest)
      BY <1>1
    <2> HIDE DEF p
    <2>3. /\ rest \in Cell /\ rest.links = chan[c].links \ {e} /\ rest.value = chan[c].value
          /\ rest.queue = chan[c].queue /\ rest.ports = p
      BY <2>1 DEF Cell
    <2> HIDE DEF rest
    <2> QED
      BY <2>1, <2>2, <2>3
  <1>4. /\ conns' = conns
        /\ chan'[c] = IF rest.links = {} THEN Gone ELSE rest
        /\ got'[c] = IF rest.links = {} THEN 0 ELSE got[c]
        /\ \A d \in Channels \ {c} : chan'[d] = chan[d] /\ got'[d] = got[d]
    BY <1>0, <1>3 DEF Cleared
  <1>5. ASSUME NEW d \in Channels, d # c
        PROVE  Attended(d)' /\ Fresh(d)'
    <2>1. Waiting(d)' => Waiting(d)
      BY <1>4, <1>5 DEF Waiting, Listed
    <2> QED
      BY <1>0, <1>2, <1>4, <1>5, <2>1, FlowKept
  <1>6. Attended(c)' /\ Fresh(c)'
    <2>1. CASE rest.links # {}
      <3>1. /\ chan'[c].links = chan[c].links \ {e} /\ chan'[c].links # {} /\ chan'[c].value = chan[c].value
            /\ chan'[c].queue = chan[c].queue /\ got'[c] = got[c]
            /\ chan'[c].ports = chan[c].ports \/ chan'[c].ports = chan[c].ports \ {e}
        BY <1>3, <1>4, <2>1
      <3>2. Waiting(c)' => Waiting(c)
        BY <1>4, <3>1 DEF Waiting, Listed
      <3>3. "out" \in chan'[c].links =>
               "out" \in chan[c].links /\ ("out" \in chan[c].ports => "out" \in chan'[c].ports)
        BY <3>1
      <3> QED
        BY <1>0, <1>2, <3>1, <3>2, <3>3, FlowKept
    <2>2. CASE rest.links = {}
      <3>1. /\ chan'[c].links = {} /\ chan'[c].value = 0 /\ chan'[c].queue = <<>> /\ got'[c] = 0
        BY <1>4, <2>2 DEF Gone, Built
      <3>2. Attended(c) /\ Fresh(c) /\ samples' = samples /\ kept' = kept /\ samples[From[c]] \in Nat /\ got[c] \in Nat
        BY <1>0, Consts, ClientKeeps DEF Flow
      <3>3. /\ Idle(From[c])' <=> Idle(From[c])
            /\ Sent(c)' <=> Sent(c)
            /\ \A x : Has(To[c], x)' <=> Has(To[c], x)
        BY <1>0, FlowKept
      <3>4. Attended(c)'
        BY <1>2, <3>1, <3>2, <3>3 DEF Attended, Waiting
      <3>5. \A v \in Nat : ~Has(To[c], <<"mark", c, v>>)
        <4> SUFFICES ASSUME Listed(c, To[c])
                     PROVE  FALSE
          BY <1>0, Consts DEF Readers
        <4>1. FarEnd(c) /\ "forward" \in Ways
          BY DEF Bonds, Bonded, Ways
        <4>2. Listed(c, FarPort(c, "forward"))
          BY <4>1, Ends
        <4>3. "in" \in chan[c].links /\ "data" \in chan[c].links
          BY <4>1, <4>2 DEF FarEnd, Near
        <4> QED
          BY <1>3, <2>2, <4>3
      <3>6. /\ \A n : Rising(0, <<>>, n)
            /\ Below(got[c], chan[c].queue, samples[From[c]]) => Below(0, <<>>, samples[From[c]])
        BY <3>2 DEF Rising, Below
      <3>7. Fresh(c)'
        BY <3>1, <3>2, <3>3, <3>5, <3>6 DEF Fresh
      <3> QED
        BY <3>4, <3>7
    <2> QED
      BY <2>1, <2>2
  <1> QED
    BY <1>0, <1>5, <1>6, FlowKept DEF Flow

LEMMA FlowCreate ==
    ASSUME TypeOK, Flow, NEW k \in Clients, CreateConnection(k)
    PROVE  Flow'
  <1>1. PICK c \in Channels :
           LET last == kept[From[c]]
               built == [chan EXCEPT ![c] = Built(last.sample)]
               write == last.initial /\ last.last /\ c \in Initialised
           IN  /\ Idle(k) /\ Unused(c)
               /\ c \in Quiet => Idle(From[c])
               /\ chan' = IF write THEN Stored(built, c, last.sample) ELSE built
               /\ Do(k, <<<<"add", c, From[c]>>, <<"add", c, To[c]>>>>)
               /\ UNCHANGED <<conns, current, samples, kept, got>>
    BY DEF CreateConnection
  <1>0. /\ Client(k) /\ chan \in [Channels -> Cell] /\ got \in [Channels -> Nat] /\ samples[From[c]] \in Nat
        /\ Attended(c) /\ Fresh(c)
    BY Consts DEF TypeOK, Cell, Client, Flow
  <1>2. \A l \in Clients, d \in Channels \ {c} : Making(l, d)' => Making(l, d)
    <2> DEFINE new == <<<<"add", c, From[c]>>, <<"add", c, To[c]>>>>
    <2>1. k \in Threads /\ todo \in [Threads -> Seq(ClientCode \cup WriterCode \cup ReaderCode)] /\ Do(k, new)
      BY <1>1, Consts DEF TypeOK
    <2>2. DOMAIN new = {1, 2} /\ new[1] = <<"add", c, From[c]>> /\ new[2] = <<"add", c, To[c]>>
      OBVIOUS
    <2> HIDE DEF new
    <2>3. /\ \A x : Has(k, x)' <=> \E i \in DOMAIN new : new[i] = x
          /\ \A u \in Threads \ {k} : \A x : Has(u, x)' <=> Has(u, x)
      BY <1>1, <2>1, Begins
    <2>4. \A d \in Channels \ {c} : ~Has(k, <<"add", d, To[d]>>)'
      BY <2>2, <2>3
    <2> QED
      BY <2>3, <2>4, Consts DEF Making
  <1> DEFINE n == samples[From[c]]
             write == kept[From[c]].initial /\ kept[From[c]].last /\ c \in Initialised
  <1>3. /\ chan'[c].links = Elements /\ chan'[c].ports = {"in", "out"} /\ chan'[c].value = n
        /\ chan'[c].queue = IF write /\ Kind[c] # "data" THEN <<n>> ELSE <<>>
        /\ \A d \in Channels \ {c} : chan'[d] = chan[d]
    <2> DEFINE b == [chan EXCEPT ![c] = Built(n)]
    <2>1. kept[From[c]].sample = n
      BY <1>0 DEF Fresh
    <2>2. Built(n) \in Cell
      BY <1>0 DEF Built, Cell, Elements
    <2>3. b \in [Channels -> Cell] /\ b[c] = Built(n) /\ \A d \in Channels \ {c} : b[d] = chan[d]
      BY <1>0, <2>2
    <2>4. b[c].links = Elements /\ b[c].ports = {"in", "out"} /\ b[c].value = n /\ b[c].queue = <<>>
      BY <2>3 DEF Built
    <2>5. chan' = IF write THEN Stored(b, c, n) ELSE b
      BY <1>1, <2>1
    <2> HIDE DEF b
    <2>6. CASE ~write
      BY <2>3, <2>4, <2>5, <2>6
    <2>7. CASE write
      <3>1. Pushed(<<>>, c, n) = <<n>>
        BY ConnectionsAssumption DEF Pushed
      <3>2. /\ Stored(b, c, n)[c].links = b[c].links /\ Stored(b, c, n)[c].ports = b[c].ports
            /\ \A d \in Channels \ {c} : Stored(b, c, n)[d] = b[d]
        BY <2>3, StoredLinks
      <3>3. /\ Kind[c] # "data" => Stored(b, c, n)[c].value = b[c].value /\ Stored(b, c, n)[c].queue = Pushed(b[c].queue, c, n)
            /\ Kind[c] = "data" => Stored(b, c, n)[c].value = n /\ Stored(b, c, n)[c].queue = b[c].queue
        BY <2>3, StoredData
      <3> QED
        BY <2>3, <2>4, <2>5, <2>7, <3>1, <3>2, <3>3
    <2> QED
      BY <2>6, <2>7
  <1>4. ASSUME NEW d \in Channels, d # c
        PROVE  Attended(d)' /\ Fresh(d)'
    <2>1. Waiting(d)' => Waiting(d)
      BY <1>1, <1>3, <1>4 DEF Waiting, Listed
    <2> QED
      BY <1>0, <1>1, <1>2, <1>3, <1>4, <2>1, FlowKept
  <1>5. /\ Idle(From[c])' <=> Idle(From[c])
        /\ Sent(c)' <=> Sent(c)
        /\ \A x : Has(To[c], x)' <=> Has(To[c], x)
    BY <1>0, FlowKept
  <1>6. Attended(c)'
    BY <1>1, <1>3, <1>5 DEF Attended, Waiting
  <1>7. Fresh(c)'
    <2>1. \A v \in Nat : ~Has(To[c], <<"mark", c, v>>)
      <3>1. \A i \in DOMAIN todo[To[c]] : todo[To[c]][i][2] # c
        BY <1>1, Consts DEF Unused
      <3>2. \A v : <<"mark", c, v>>[2] = c
        OBVIOUS
      <3> QED
        BY <3>1, <3>2 DEF Has
    <2>2. samples' = samples /\ kept' = kept /\ got' = got /\ chan[c].links = {} /\ got[c] \in Nat
      BY <1>0, <1>1 DEF Unused
    <2>3. Kind[c] = "data" => got[c] <= n
      BY <1>0, <2>2 DEF Fresh, Cell
    <2>4. ASSUME Kind[c] # "data", c \in Initialised => c \in Quiet
          PROVE  /\ got[c] <= n /\ Rising(got[c], chan'[c].queue, n)
                 /\ Sent(c) => Below(got[c], chan'[c].queue, n)
      <3>1. got[c] = 0 /\ (Sent(c) => got[c] < n) /\ (write => n > 0)
        BY <1>0, <2>2, <2>4 DEF Fresh, Below
      <3>2. CASE write
        <4>1. ~Sent(c)
          BY <1>1, <2>4, <3>2 DEF Sent, Idle, At, Has
        <4>2. Rising(0, <<n>>, n)
          BY <1>0, <3>1, <3>2 DEF Rising
        <4> QED
          BY <1>0, <1>3, <2>4, <3>1, <3>2, <4>1, <4>2
      <3>3. CASE ~write
        BY <1>0, <1>3, <3>1, <3>3 DEF Rising, Below
      <3> QED
        BY <3>2, <3>3
    <2>5. chan'[c].links # {}
      BY <1>3 DEF Elements
    <2> QED
      BY <1>0, <1>3, <1>5, <2>1, <2>2, <2>3, <2>4, <2>5 DEF Fresh
  <1> QED
    BY <1>0, <1>4, <1>6, <1>7, FlowKept DEF Flow

LEMMA FlowStep == Shape /\ Bonds /\ Flow /\ [Next]_vars => Flow'
  <1> SUFFICES ASSUME Shape, Bonds, Flow, [Next]_vars
               PROVE  Flow'
    OBVIOUS
  <1>0. TypeOK /\ Lists
    BY DEF Shape, Bonds
  <1>1. CASE \E k \in Clients : Client(k)
    BY <1>0, <1>1, FlowCreate, FlowAdd, FlowDisconnect, FlowClear DEF Client
  <1>2. CASE \E p \in Outputs : Writer(p)
    BY <1>0, <1>2, FlowWriter
  <1>3. CASE \E r \in Inputs : Reader(r)
    BY <1>0, <1>3, FlowReader
  <1>4. CASE UNCHANGED vars
    <2>1. /\ todo' = todo /\ conns' = conns /\ chan' = chan /\ signalled' = signalled
          /\ got' = got /\ samples' = samples /\ kept' = kept
      BY <1>4 DEF vars
    <2>2. Writers'
      BY <1>0, <2>1, WritesFrame DEF Flow, Writers
    <2>3. ASSUME NEW c \in Channels
          PROVE  Attended(c)' /\ Fresh(c)'
      <3>1. Attended(c) /\ Fresh(c) /\ (\A k \in Clients : Making(k, c)' <=> Making(k, c))
            /\ (Waiting(c)' <=> Waiting(c))
        BY <2>1 DEF Flow, Making, Has, Waiting, Listed
      <3>2. Noted(c) => Noted(c)'
        BY <2>1, Sending, Receiving DEF Noted
      <3> QED
        BY <2>1, <3>1, <3>2, Sending, Receiving, FlowFrame
    <2> QED
      BY <2>2, <2>3 DEF Flow
  <1> QED
    BY <1>1, <1>2, <1>3, <1>4 DEF Next

LEMMA FlowInit == Init => Flow
  <1> SUFFICES ASSUME Init
               PROVE  Flow
    OBVIOUS
  <1>1. \A t \in Threads : todo[t] = <<>> /\ Idle(t) /\ \A x : ~Has(t, x)
    BY DEF Init, Idle, Has
  <1>2. Writers
    BY <1>1, Consts DEF Writers, Writes
  <1>3. ASSUME NEW c \in Channels
        PROVE  Attended(c) /\ Fresh(c)
    <2>1. /\ chan[c].links = {} /\ chan[c].queue = <<>> /\ chan[c].value = 0 /\ got[c] = 0
          /\ samples[From[c]] = 0 /\ kept[From[c]].sample = 0 /\ kept[From[c]].last = FALSE
      BY Consts DEF Init, Gone, Built
    <2>2. \A k \in Clients : ~Making(k, c)
      BY <1>1, Consts DEF Making
    <2>3. Attended(c)
      BY <2>1, <2>2 DEF Attended, Waiting
    <2>4. Rising(0, <<>>, 0)
      BY DEF Rising
    <2>5. ~Sent(c) /\ \A v \in Nat : ~Has(To[c], <<"mark", c, v>>)
      BY <1>1, Consts DEF Sent, At
    <2>6. Fresh(c)
      BY <2>1, <2>4, <2>5 DEF Fresh
    <2> QED
      BY <2>3, <2>6
  <1> QED
    BY <1>2, <1>3 DEF Flow

LEMMA Flows == ASSUME OnePerPair PROVE Spec => [](Shape /\ Bonds /\ Flow)
  <1>1. OnePerPair /\ Shape /\ Bonds /\ [Next]_vars => Bonds'
    BY BondsStep
  <1> QED
    BY <1>1, BondsInit, ShapeInit, ShapeStep, FlowInit, FlowStep, PTL DEF Spec

\* While no two connections have the same ports, a sample in a buffer connection that was
\* made while nobody wrote is not forgotten: the writer is not done, or the reader reads or
\* will be executed for the port.
THEOREM SamplesAreNoticed == ASSUME OnePerPair PROVE Spec => []Noticed
  <1>1. Shape /\ Flow => Noticed
    <2> SUFFICES ASSUME Shape, Flow, NEW c \in Channels,
                        Kind[c] # "data", c \in Quiet \ Initialised, Contains(conns[To[c]], c),
                        "out" \in chan[c].links, chan[c].queue # <<>>
                 PROVE  To[c] \in signalled \/ ~Idle(To[c]) \/ ~Idle(From[c])
      BY DEF Noticed
    <2>1. Listed(c, To[c])
      BY ListsTyped, Consts DEF Shape
    <2>2. Noted(c)
      BY <2>1 DEF Flow, Attended, Waiting
    <2> QED
      BY <2>2 DEF Noted, Has, At, Idle
  <1> QED
    BY <1>1, Flows, PTL

\* While no two connections have the same ports, and a buffer that gets the last sample when
\* it is connected is so while nobody writes, a buffer connection delivers every sample once
\* and in the order of writing, and a data connection never an older one than before.
THEOREM NewIsAlwaysNewer == ASSUME OnePerPair, Orderly PROVE Spec => []NewIsNewer
  <1>1. Shape /\ Flow => NewIsNewer
    <2> SUFFICES ASSUME Shape, Flow, NEW c \in Channels
                 PROVE  LET read == <<got[c]>> \o chan[c].queue
                        IN  IF Kind[c] = "data" THEN chan[c].value >= got[c]
                            ELSE \A i, j \in DOMAIN read : i < j => read[i] < read[j]
      BY DEF NewIsNewer
    <2> DEFINE g == got[c]
               q == chan[c].queue
               n == samples[From[c]]
               read == <<g>> \o q
    <2>1. g \in Nat /\ q \in Seq(Nat) /\ chan[c].value \in Nat /\ Fresh(c)
      BY DEF Shape, TypeOK, Flow
    <2>2. Kind[c] = "data" => chan[c].value >= g
      BY <2>1 DEF Fresh
    <2>3. Kind[c] # "data" => Rising(g, q, n)
      <3>1. c \in Initialised /\ Kind[c] # "data" => c \in Quiet
        BY DEF Orderly
      <3> QED
        BY <2>1, <3>1 DEF Fresh
    <2>4. got[c] = g /\ chan[c].queue = q
      OBVIOUS
    <2> HIDE DEF g, q, n
    <2>5. ASSUME Kind[c] # "data", NEW i \in DOMAIN read, NEW j \in DOMAIN read, i < j
          PROVE  read[i] < read[j]
      <3>1. <<g>> \in Seq(Nat) /\ Len(<<g>>) = 1 /\ <<g>>[1] = g
        BY <2>1
      <3>2. read \in Seq(Nat) /\ Len(read) = 1 + Len(q)
            /\ \A m \in 1 .. 1 + Len(q) : read[m] = IF m <= 1 THEN <<g>>[m] ELSE q[m - 1]
        BY <2>1, <3>1, ConcatProperties
      <3>3. DOMAIN read = 1 .. 1 + Len(q) /\ DOMAIN q = 1 .. Len(q) /\ Len(q) \in Nat
        BY <2>1, <3>2, LenProperties
      <3> HIDE DEF read
      <3>4. i \in 1 .. 1 + Len(q) /\ j \in 1 .. 1 + Len(q) /\ j > 1 /\ j - 1 \in DOMAIN q
        BY <2>5, <3>3
      <3>5. read[j] = q[j - 1]
        BY <3>2, <3>3, <3>4
      <3>6. CASE i = 1
        <4>1. read[i] = g
          BY <3>1, <3>2, <3>3, <3>6
        <4> QED
          BY <2>3, <2>5, <3>4, <3>5, <4>1 DEF Rising
      <3>7. CASE i # 1
        <4>1. i - 1 \in DOMAIN q /\ i - 1 < j - 1 /\ ~(i <= 1)
          BY <2>5, <3>3, <3>4, <3>7
        <4>2. read[i] = q[i - 1]
          BY <3>2, <3>4, <4>1
        <4> QED
          BY <2>3, <2>5, <3>4, <3>5, <4>1, <4>2 DEF Rising
      <3> QED
        BY <3>6, <3>7
    <2> QED
      BY <2>2, <2>4, <2>5
  <1> QED
    BY <1>1, Flows, PTL
=============================================================================
