-------------------------- MODULE SessionLifeProofs --------------------------
(* What is proved of SessionLife, for any number of clients and sessions.  *)
EXTENDS SessionLife, ListProofs

-----------------------------------------------------------------------------
(* The inductive invariant: the parts of TypeOK without the list, channels *)
(* and sessions that name each other, and a ring through the sessions.     *)

Typed ==
  /\ socket \in [Client -> {"absent", "open", "closing"}]
  /\ channel \in [Client -> Channel]
  /\ mem \in Memory
  /\ session \in [Node -> Client \cup {Unset}]
  /\ requests \in Seq(ChannelType)
  /\ out \in [Client -> Seq(ChannelType \cup {"reply"})]
  /\ fate \in {"running", "aborted", "undefined"}

ChannelNamesSession ==
  \A c \in Client :
    /\ channel[c].type = Unset <=> channel[c].session = Unset
    /\ channel[c].session # Unset => socket[c] # "absent" /\ session[channel[c].session] = c

SessionNamesChannel ==
  \A s \in Node : session[s] # Unset => channel[session[s]].session = s

Allocated == {s \in Node : session[s] # Unset}
Threads(q) == RingOf(mem.next, mem.prev, q) /\ Holds(q) = Allocated

SInv == Typed /\ ChannelNamesSession /\ SessionNamesChannel /\ \E q : Threads(q)

LEMMA InitS == Init => SInv
<1> SUFFICES ASSUME Init PROVE SInv
  OBVIOUS
<1>1. Typed
  BY SessionAssumption DEF Init, Typed, NewChannel, Channel, EmptyList, Memory, Address
<1>2. ChannelNamesSession /\ SessionNamesChannel
  BY DEF Init, ChannelNamesSession, SessionNamesChannel, NewChannel
<1>3. Threads(<<>>)
  <2>1. mem.next[Anchor] = Anchor /\ mem.prev[Anchor] = Anchor
    BY DEF Init, EmptyList
  <2>2. At(<<>>, 0) = Anchor /\ At(<<>>, 1) = Anchor /\ Len(<<>>) = 0 /\ <<>> \in Seq(Node)
    BY DEF At
  <2>3. RingOf(mem.next, mem.prev, <<>>)
    BY <2>1, <2>2 DEF RingOf
  <2>4. Holds(<<>>) = {} /\ Allocated = {}
    BY DEF Holds, Allocated, Init
  <2> QED
    BY <2>3, <2>4 DEF Threads
<1> QED
  BY <1>1, <1>2, <1>3, Zenon DEF SInv

\* What the list says of a session is what the session says of itself.
LEMMA SessionsIs ==
  ASSUME NEW q, Threads(q)
  PROVE  /\ Sessions = q /\ q \in Seq(Node)
         /\ \A i, j \in 1..Len(q) : q[i] = q[j] => i = j
         /\ \A s : s \in Node /\ session[s] # Unset <=> \E i \in 1..Len(q) : s = q[i]
<1>1. RingOf(mem.next, mem.prev, q) /\ Holds(q) = Allocated
  BY Zenon DEF Threads
<1>2. Sessions = q
  BY <1>1, RingLeads, MetIs, Zenon DEF Sessions
<1>3. q \in Seq(Node) /\ \A i, j \in 1..Len(q) : q[i] = q[j] => i = j
  BY <1>1, Zenon DEF RingOf
<1>4. \A s : s \in Holds(q) <=> \E i \in 1..Len(q) : s = q[i]
  BY Zenon DEF Holds
<1>5. \A s : s \in Allocated <=> s \in Node /\ session[s] # Unset
  BY Zenon DEF Allocated
<1> QED
  BY <1>1, <1>2, <1>3, <1>4, <1>5, Zenon

\* The sessions that emit_write copies a request of the type for, on a channel.
Copies(c, type) == {i \in DOMAIN Sessions : session[Sessions[i]] = c /\ channel[c].type = type}

LEMMA OneCopy ==
  ASSUME SInv, NEW c \in Client, NEW type \in ChannelType
  PROVE  Cardinality(Copies(c, type)) = IF channel[c].type = type THEN 1 ELSE 0
<1>1. PICK q : Threads(q)
  BY Zenon DEF SInv
<1>2. /\ Sessions = q /\ q \in Seq(Node)
      /\ \A i, j \in 1..Len(q) : q[i] = q[j] => i = j
      /\ \A s : s \in Node /\ session[s] # Unset <=> \E i \in 1..Len(q) : s = q[i]
  BY <1>1, SessionsIs, Zenon
<1>3. Copies(c, type) = {i \in 1..Len(q) : session[q[i]] = c /\ channel[c].type = type}
  <2>1. DOMAIN q = 1..Len(q)
    BY <1>2
  <2> QED
    BY <1>2, <2>1, Zenon DEF Copies
<1>4. Unset \notin Client /\ Unset \notin ChannelType
  BY SessionAssumption
<1>5. CASE channel[c].type = type
  <2>1. PICK s \in Node : s = channel[c].session /\ session[s] = c
    BY <1>4, <1>5 DEF SInv, Typed, ChannelNamesSession, Channel
  <2>2. PICK i \in 1..Len(q) : q[i] = s
    BY <1>2, <1>4, <2>1, Zenon
  <2>3. ASSUME NEW j \in 1..Len(q), session[q[j]] = c PROVE j = i
    <3>1. q[j] \in Node /\ session[q[j]] # Unset
      BY <1>2, <1>4, <2>3, Zenon
    <3>2. channel[session[q[j]]].session = q[j]
      BY <3>1, Zenon DEF SInv, SessionNamesChannel
    <3> QED
      BY <1>2, <2>1, <2>2, <2>3, <3>2, Zenon
  <2>4. \A j : j \in Copies(c, type) <=> j = i
    BY <1>3, <1>5, <2>1, <2>2, <2>3
  <2>5. Copies(c, type) = {i}
    BY <2>4, Zenon
  <2> QED
    BY <1>5, <2>5, FS_Singleton, Zenon
<1>6. CASE channel[c].type # type
  <2>1. Copies(c, type) = {}
    BY <1>3, <1>6
  <2> QED
    BY <1>6, <2>1, FS_EmptySet, Zenon
<1> QED
  BY <1>5, <1>6, Zenon

\* What one request adds to what a channel was sent.
LEMMA CopyIsAppend ==
  ASSUME SInv, NEW c \in Client, NEW type \in ChannelType, NEW o \in Seq(ChannelType \cup {"reply"})
  PROVE  o \o [i \in 1..Cardinality(Copies(c, type)) |-> type]
           = IF channel[c].type = type THEN Append(o, type) ELSE o
<1>1. CASE channel[c].type = type
  <2>1. [i \in 1..1 |-> type] = <<type>>
    OBVIOUS
  <2>2. o \o <<type>> = Append(o, type)
    OBVIOUS
  <2> QED
    BY <1>1, <2>1, <2>2, OneCopy, Zenon
<1>2. CASE channel[c].type # type
  <2>1. [i \in 1..0 |-> type] = <<>>
    OBVIOUS
  <2>2. o \o <<>> = o
    OBVIOUS
  <2> QED
    BY <1>2, <2>1, <2>2, OneCopy, Zenon
<1> QED
  BY <1>1, <1>2, Zenon

-----------------------------------------------------------------------------
(* Each step keeps the invariant. *)

LEMMA SameList ==
  ASSUME SInv, UNCHANGED <<mem, session>>, Typed', ChannelNamesSession', SessionNamesChannel'
  PROVE  SInv'
<1>1. PICK q : Threads(q)
  BY Zenon DEF SInv
<1>2. Threads(q)'
  BY <1>1 DEF Threads, Allocated
<1> QED
  BY <1>2 DEF SInv

LEMMA AcceptS ==
  ASSUME SInv, NEW c \in Client, Accept(c)
  PROVE  SInv'
<1>1. Typed'
  BY DEF SInv, Typed, Accept, NewChannel, Channel
<1>2. channel[c].session = Unset
  BY DEF SInv, ChannelNamesSession, Accept
<1>3. ChannelNamesSession'
  BY DEF SInv, Typed, ChannelNamesSession, Accept, NewChannel
<1>4. SessionNamesChannel'
  <2>1. Unset \notin Node
    BY SessionAssumption
  <2> QED
    BY <1>2, <2>1 DEF SInv, Typed, SessionNamesChannel, Accept, NewChannel
<1> QED
  BY <1>1, <1>3, <1>4, SameList DEF Accept

\* A new session goes to the end of the list.
LEMMA ConnectList ==
  ASSUME SInv, NEW c \in Client, NEW type \in ChannelType, Connect(c, type)
  PROVE  \E s \in Node, q \in Seq(Node) :
           /\ session[s] = Unset
           /\ session' = [session EXCEPT ![s] = c]
           /\ channel' = [channel EXCEPT ![c] = [type |-> type, session |-> s]]
           /\ mem' \in Memory
           /\ Threads(q) /\ Threads(Append(q, s))'
<1>1. PICK s \in Node :
        /\ session[s] = Unset
        /\ session' = [session EXCEPT ![s] = c]
        /\ mem' = Do(mem, ListAddTail(mem, s))
        /\ channel' = [channel EXCEPT ![c] = [type |-> type, session |-> s]]
  BY DEF Connect
<1>2. PICK q \in Seq(Node) : Threads(q)
  BY Zenon DEF SInv, Threads, RingOf
<1>3. Unset \notin Client
  BY SessionAssumption
<1>4. s \in Node \ Holds(q) /\ RingOf(mem.next, mem.prev, q) /\ mem \in Memory
  BY <1>1, <1>2 DEF Threads, Allocated, SInv, Typed
<1>5. mem' \in Memory /\ RingOf(mem'.next, mem'.prev, Append(q, s))
  BY <1>1, <1>4, Joined, Zenon
<1>6. Threads(Append(q, s))'
  <2>1. q \in Seq(Node) /\ Holds(q) = Allocated
    BY <1>2 DEF Threads, RingOf
  <2>2. Holds(Append(q, s)) = Allocated \cup {s}
    BY <2>1, AppendHolds, Zenon
  <2>3. Allocated' = Allocated \cup {s}
    BY <1>1, <1>3 DEF Allocated, SInv, Typed
  <2> QED
    BY <1>5, <2>2, <2>3 DEF Threads
<1> QED
  BY <1>1, <1>2, <1>5, <1>6, Zenon

LEMMA ConnectS ==
  ASSUME SInv, NEW c \in Client, NEW type \in ChannelType, Connect(c, type)
  PROVE  SInv'
<1>1. PICK s \in Node, q \in Seq(Node) :
        /\ session[s] = Unset
        /\ session' = [session EXCEPT ![s] = c]
        /\ channel' = [channel EXCEPT ![c] = [type |-> type, session |-> s]]
        /\ mem' \in Memory
        /\ Threads(Append(q, s))'
  BY ConnectList, Zenon
<1>2. Unset \notin Node /\ Unset \notin Client /\ Unset \notin ChannelType
  BY SessionAssumption
<1>3. channel[c].type = Unset /\ channel[c].session = Unset /\ socket[c] = "open"
  BY DEF SInv, ChannelNamesSession, Connect, Connected
<1>4. Typed'
  <2>1. <<"reply">> \in Seq(ChannelType \cup {"reply"})
    OBVIOUS
  <2>2. out' \in [Client -> Seq(ChannelType \cup {"reply"})]
    BY <2>1 DEF SInv, Typed, Connect
  <2>3. [type |-> type, session |-> s] \in Channel
    BY DEF Channel
  <2> QED
    BY <1>1, <2>2, <2>3 DEF SInv, Typed, Connect
<1>5. ChannelNamesSession'
  <2> SUFFICES ASSUME NEW d \in Client
               PROVE  /\ channel'[d].type = Unset <=> channel'[d].session = Unset
                      /\ channel'[d].session # Unset
                           => socket'[d] # "absent" /\ session'[channel'[d].session] = d
    BY DEF ChannelNamesSession
  <2>1. CASE d = c
    <3>1. channel'[d] = [type |-> type, session |-> s] /\ session'[s] = c
      BY <1>1, <2>1 DEF SInv, Typed
    <3> QED
      BY <1>2, <1>3, <2>1, <3>1 DEF Connect
  <2>2. CASE d # c
    <3>1. channel'[d] = channel[d] /\ socket' = socket
      BY <1>1, <2>2 DEF Connect
    <3>2. channel[d].session \in Node \cup {Unset}
      BY DEF SInv, Typed, Channel
    <3>3. ASSUME channel[d].session # Unset PROVE session'[channel[d].session] = d
      <4>1. session[channel[d].session] = d
        BY <3>3 DEF SInv, ChannelNamesSession
      <4>2. channel[d].session # s
        BY <1>1, <1>2, <4>1
      <4> QED
        BY <1>1, <3>2, <3>3, <4>1, <4>2 DEF SInv, Typed
    <3> QED
      BY <3>1, <3>3 DEF SInv, ChannelNamesSession
  <2> QED
    BY <2>1, <2>2
<1>6. SessionNamesChannel'
  <2> SUFFICES ASSUME NEW t \in Node, session'[t] # Unset
               PROVE  channel'[session'[t]].session = t
    BY DEF SessionNamesChannel
  <2>1. CASE t = s
    BY <1>1, <2>1 DEF SInv, Typed
  <2>2. CASE t # s
    <3>1. session'[t] = session[t]
      BY <1>1, <2>2
    <3>2. channel[session[t]].session = t
      BY <3>1 DEF SInv, SessionNamesChannel
    <3>3. session[t] # c
      BY <1>2, <1>3, <3>2
    <3> QED
      BY <1>1, <3>1, <3>2, <3>3 DEF SInv, Typed
  <2> QED
    BY <2>1, <2>2
<1> QED
  BY <1>1, <1>4, <1>5, <1>6 DEF SInv

\* The session of a channel that goes leaves the list.
LEMMA LeaveList ==
  ASSUME SInv, NEW c \in Client, AfterShutdown(c), channel[c].session # Unset
  PROVE  \E s \in Node, q \in Seq(Node) : \E i \in 1..Len(q) :
           /\ s = channel[c].session /\ session[s] = c /\ q[i] = s
           /\ session' = [session EXCEPT ![s] = Unset]
           /\ mem' \in Memory
           /\ Threads(q) /\ Threads(Without(q, i))'
<1>1. Unset \notin Node /\ Unset \notin Client
  BY SessionAssumption
<1>2. PICK s \in Node : s = channel[c].session /\ session[s] = c
  BY DEF SInv, Typed, ChannelNamesSession, Channel
<1>3. /\ mem' = Do(mem, ListDel(mem, s) \o <<Put("next", s, Junk), Put("prev", s, Junk)>>)
      /\ session' = [session EXCEPT ![s] = Unset]
  BY <1>2, Zenon DEF AfterShutdown
<1>4. PICK q \in Seq(Node) : Threads(q)
  BY Zenon DEF SInv, Threads, RingOf
<1>5. PICK i \in 1..Len(q) : q[i] = s
  BY <1>1, <1>2, <1>4, SessionsIs, Zenon
<1>6. RingOf(mem.next, mem.prev, q) /\ mem \in Memory /\ q \in Seq(Node)
      /\ \A j, k \in 1..Len(q) : q[j] = q[k] => j = k
  BY <1>4 DEF Threads, RingOf, SInv, Typed
<1>7. mem' \in Memory /\ RingOf(mem'.next, mem'.prev, Without(q, i))
  BY <1>3, <1>5, <1>6, Departed, Zenon
<1>8. Threads(Without(q, i))'
  <2>1. Holds(Without(q, i)) = Holds(q) \ {s}
    BY <1>5, <1>6, WithoutHolds, Zenon
  <2>2. Holds(q) = Allocated
    BY <1>4, Zenon DEF Threads
  <2>3. Allocated' = Allocated \ {s}
    BY <1>3 DEF Allocated, SInv, Typed
  <2> QED
    BY <1>7, <2>1, <2>2, <2>3 DEF Threads
<1> QED
  BY <1>2, <1>3, <1>4, <1>5, <1>7, <1>8, Zenon

LEMMA AfterShutdownS ==
  ASSUME SInv, NEW c \in Client, AfterShutdown(c)
  PROVE  SInv'
<1>1. Unset \notin Node /\ Unset \notin Client /\ Unset \notin ChannelType
  BY SessionAssumption
<1>2. /\ socket' \in [Client -> {"absent", "open", "closing"}]
      /\ channel' \in [Client -> Channel]
      /\ requests' \in Seq(ChannelType)
      /\ out' \in [Client -> Seq(ChannelType \cup {"reply"})]
      /\ fate' \in {"running", "aborted", "undefined"}
  <2>1. <<>> \in Seq(ChannelType \cup {"reply"}) /\ NewChannel \in Channel
    BY DEF NewChannel, Channel
  <2> QED
    BY <2>1 DEF SInv, Typed, AfterShutdown
<1>3. channel'[c].type = Unset /\ channel'[c].session = Unset
  BY DEF AfterShutdown, SInv, Typed, NewChannel
<1>4. \A d \in Client : d # c => channel'[d] = channel[d] /\ socket'[d] = socket[d]
  BY DEF AfterShutdown, SInv, Typed
<1>5. CASE channel[c].session = Unset
  <2>1. UNCHANGED <<mem, session>>
    BY <1>5 DEF AfterShutdown
  <2>2. Typed'
    BY <1>2, <2>1 DEF SInv, Typed
  <2>3. ChannelNamesSession'
    BY <1>3, <1>4, <2>1 DEF SInv, ChannelNamesSession
  <2>4. SessionNamesChannel'
    <3> SUFFICES ASSUME NEW t \in Node, session[t] # Unset
                 PROVE  channel'[session[t]].session = t
      BY <2>1 DEF SessionNamesChannel
    <3>1. channel[session[t]].session = t /\ session[t] \in Client
      BY DEF SInv, SessionNamesChannel, Typed
    <3>2. session[t] # c
      BY <1>1, <1>5, <3>1
    <3> QED
      BY <1>4, <3>1, <3>2
  <2> QED
    BY <2>1, <2>2, <2>3, <2>4, SameList
<1>6. CASE channel[c].session # Unset
  <2>1. PICK s \in Node, q \in Seq(Node) : \E i \in 1..Len(q) :
          /\ s = channel[c].session /\ session[s] = c
          /\ session' = [session EXCEPT ![s] = Unset]
          /\ mem' \in Memory
          /\ Threads(Without(q, i))'
    BY <1>6, LeaveList, Zenon
  <2>2. session' \in [Node -> Client \cup {Unset}]
    BY <2>1 DEF SInv, Typed
  <2>3. Typed'
    BY <1>2, <2>1, <2>2 DEF Typed
  <2>4. ChannelNamesSession'
    <3> SUFFICES ASSUME NEW d \in Client
                 PROVE  /\ channel'[d].type = Unset <=> channel'[d].session = Unset
                        /\ channel'[d].session # Unset
                             => socket'[d] # "absent" /\ session'[channel'[d].session] = d
      BY DEF ChannelNamesSession
    <3>1. CASE d = c
      BY <1>3, <3>1
    <3>2. CASE d # c
      <4>1. channel'[d] = channel[d] /\ socket'[d] = socket[d]
        BY <1>4, <3>2
      <4>2. ASSUME channel[d].session # Unset PROVE session'[channel[d].session] = d
        <5>1. session[channel[d].session] = d
          BY <4>2 DEF SInv, ChannelNamesSession
        <5>2. channel[d].session # s
          BY <2>1, <3>2, <5>1
        <5> QED
          BY <2>1, <5>1, <5>2
      <4> QED
        BY <4>1, <4>2 DEF SInv, ChannelNamesSession
    <3> QED
      BY <3>1, <3>2
  <2>5. SessionNamesChannel'
    <3> SUFFICES ASSUME NEW t \in Node, session'[t] # Unset
                 PROVE  channel'[session'[t]].session = t
      BY DEF SessionNamesChannel
    <3>1. t # s
      BY <2>1 DEF SInv, Typed
    <3>2. session'[t] = session[t] /\ session[t] \in Client
      BY <2>1, <3>1 DEF SInv, Typed
    <3>3. channel[session[t]].session = t
      BY <3>2 DEF SInv, SessionNamesChannel
    <3>4. session[t] # c
      BY <2>1, <3>1, <3>3
    <3> QED
      BY <1>4, <3>2, <3>3, <3>4
  <2> QED
    BY <2>1, <2>3, <2>4, <2>5 DEF SInv
<1> QED
  BY <1>5, <1>6

\* What emit_write adds, by the channel.
LEMMA EmitAdds ==
  ASSUME EmitNext
  PROVE  \E late \in SUBSET {c \in Client : socket[c] = "closing"} :
           out' = [c \in Client |->
                     IF c \in late THEN out[c]
                     ELSE out[c] \o [i \in 1..Cardinality(Copies(c, Head(requests))) |-> Head(requests)]]
BY Zenon DEF EmitNext, Copies

LEMMA EmitNextS ==
  ASSUME SInv, EmitNext
  PROVE  SInv'
<1>1. UNCHANGED <<socket, channel, mem, session, fate>>
  BY DEF EmitNext
<1>2. Head(requests) \in ChannelType /\ Tail(requests) \in Seq(ChannelType)
  BY DEF EmitNext, SInv, Typed
<1>3. PICK type \in ChannelType : type = Head(requests)
  BY <1>2
<1>4. PICK late \in SUBSET Client :
        out' = [c \in Client |->
                  IF c \in late THEN out[c]
                  ELSE out[c] \o [i \in 1..Cardinality(Copies(c, type)) |-> type]]
  <2>1. PICK late \in SUBSET {c \in Client : socket[c] = "closing"} :
          out' = [c \in Client |->
                    IF c \in late THEN out[c]
                    ELSE out[c] \o [i \in 1..Cardinality(Copies(c, type)) |-> type]]
    BY <1>3, EmitAdds, Zenon
  <2>2. late \in SUBSET Client
    OBVIOUS
  <2> QED
    BY <2>1, <2>2, Zenon
<1>5. \A c \in Client : out[c] \in Seq(ChannelType \cup {"reply"})
  BY DEF SInv, Typed
<1>6. \A c \in Client :
        out[c] \o [i \in 1..Cardinality(Copies(c, type)) |-> type] \in Seq(ChannelType \cup {"reply"})
  <2> TAKE c \in Client
  <2>1. Append(out[c], type) \in Seq(ChannelType \cup {"reply"})
    BY <1>5
  <2> QED
    BY <1>5, <2>1, CopyIsAppend
<1>7. out' \in [Client -> Seq(ChannelType \cup {"reply"})]
  BY <1>4, <1>5, <1>6
<1>8. Typed'
  BY <1>1, <1>2, <1>7 DEF SInv, Typed, EmitNext
<1>9. ChannelNamesSession' /\ SessionNamesChannel'
  BY <1>1 DEF SInv, ChannelNamesSession, SessionNamesChannel
<1> QED
  BY <1>1, <1>8, <1>9, SameList

LEMMA NextS ==
  ASSUME SInv, [Next]_vars
  PROVE  SInv'
<1>1. ASSUME UNCHANGED <<socket, channel, mem, session>>, Typed' PROVE SInv'
  <2>1. ChannelNamesSession' /\ SessionNamesChannel'
    BY <1>1 DEF SInv, ChannelNamesSession, SessionNamesChannel
  <2> QED
    BY <1>1, <2>1, SameList
<1>2. ASSUME NEW c \in Client, ReadEof(c) PROVE SInv'
  <2>1. Typed'
    BY <1>2 DEF SInv, Typed, ReadEof
  <2>2. ChannelNamesSession' /\ SessionNamesChannel'
    BY <1>2 DEF SInv, Typed, ChannelNamesSession, SessionNamesChannel, ReadEof
  <2> QED
    BY <1>2, <2>1, <2>2, SameList DEF ReadEof
<1>3. ASSUME NEW c \in Client, ReadError(c) PROVE SInv'
  <2>1. Typed'
    BY <1>3 DEF SInv, Typed, ReadError
  <2> QED
    BY <1>1, <1>3, <2>1 DEF ReadError
<1>4. ASSUME NEW type \in ChannelType, Queue(type) PROVE SInv'
  <2>1. Typed'
    BY <1>4 DEF SInv, Typed, Queue
  <2> QED
    BY <1>1, <1>4, <2>1 DEF Queue
<1>5. ASSUME UNCHANGED vars PROVE SInv'
  <2>1. Typed'
    BY <1>5 DEF SInv, Typed, vars
  <2> QED
    BY <1>1, <1>5, <2>1 DEF vars
<1> QED
  BY <1>2, <1>3, <1>4, <1>5, AcceptS, ConnectS, AfterShutdownS, EmitNextS
     DEF Next, ClientStep, Queueing, Stopped

\* The channels and their sessions always agree with the list, whichever
\* client leaves first.
THEOREM SessionInvariance == Spec => []SInv
<1> QED
  BY InitS, NextS, PTL DEF Spec

-----------------------------------------------------------------------------
(* The properties of SessionLife. *)

LEMMA ReachIs ==
  ASSUME SInv
  PROVE  Circular(mem, Allocated) /\ Reach(mem, mem.next[Anchor]) = Allocated
<1>1. PICK q : RingOf(mem.next, mem.prev, q) /\ Holds(q) = Allocated
  BY Zenon DEF SInv, Threads
<1>2. PICK m, S : m = mem /\ S = Allocated
  OBVIOUS
<1>3. RingOf(m.next, m.prev, q) /\ S = {q[i] : i \in 1..Len(q)}
  BY <1>1, <1>2, Zenon DEF Holds
<1>4. Circular(m, S) /\ Reach(m, m.next[Anchor]) = S
  BY <1>3, RingIsCircular
<1> QED
  BY <1>2, <1>4, Zenon

\* The list is a ring through the allocated sessions, in any order of leaving.
THEOREM ListIsRing == Spec => []TypeOK
<1>1. SInv => TypeOK
  <2> SUFFICES ASSUME SInv PROVE TypeOK
    OBVIOUS
  <2>1. Circular(mem, {s \in Node : session[s] # Unset})
    BY ReachIs, Zenon DEF Allocated
  <2> QED
    BY <2>1, Zenon DEF SInv, Typed, TypeOK
<1> QED
  BY <1>1, SessionInvariance, PTL

\* emit_write follows no session to a channel that was freed.
THEOREM WalkIsSafe == Spec => []NoDanglingChannel
<1>1. SInv => NoDanglingChannel
  <2> SUFFICES ASSUME SInv, NEW s \in Reach(mem, mem.next[Anchor])
               PROVE  /\ session[s] \in Client /\ socket[session[s]] # "absent"
                      /\ Connected(session[s]) /\ channel[session[s]].session = s
    BY Zenon DEF NoDanglingChannel
  <2>1. s \in Node /\ session[s] # Unset
    BY ReachIs DEF Allocated
  <2>2. session[s] \in Client /\ channel[session[s]].session = s
    BY <2>1 DEF SInv, Typed, SessionNamesChannel
  <2>3. s # Unset
    BY <2>1, SessionAssumption
  <2> QED
    BY <2>2, <2>3 DEF SInv, ChannelNamesSession, Connected
<1> QED
  BY <1>1, SessionInvariance, PTL

\* after_shutdown frees a wild session for a client that never connected only.
THEOREM WildFreeExplained == Spec => UndefinedNeedsSilentLeaver
<1>1. SInv /\ [Next]_vars
        => [fate = "running" /\ fate' = "undefined"
              => \E c \in Client : socket[c] = "closing" /\ ~Connected(c)]_vars
  <2> SUFFICES ASSUME SInv, Next, fate = "running", fate' = "undefined"
               PROVE  \E c \in Client : socket[c] = "closing" /\ ~Connected(c)
    BY DEF vars
  <2>1. PICK c \in Client : AfterShutdown(c) /\ channel[c].session = Unset
    BY DEF Next, ClientStep, Queueing, Stopped, vars, Accept, Connect, ReadEof, ReadError,
           AfterShutdown, Queue, EmitNext
  <2> QED
    BY <2>1 DEF SInv, ChannelNamesSession, Connected, AfterShutdown
<1> QED
  BY <1>1, SessionInvariance, PTL DEF Spec, UndefinedNeedsSilentLeaver

-----------------------------------------------------------------------------
(* SessionLife implements SessionRegistry. *)

MembersOf(q, sessions, channels) ==
  [i \in 1..Len(q) |-> [client |-> sessions[q[i]], type |-> channels[sessions[q[i]]].type]]

LEMMA MembersIs ==
  ASSUME NEW q, Threads(q)
  PROVE  Members = MembersOf(q, session, channel)
<1>1. Sessions = q /\ q \in Seq(Node)
  BY SessionsIs, Zenon
<1>2. DOMAIN q = 1..Len(q)
  BY <1>1
<1> QED
  BY <1>1, <1>2, Zenon DEF Members, MembersOf

LEMMA MembersAfter == (\A q : Threads(q) => Members = MembersOf(q, session, channel))'
<1>1. \A q : Threads(q) => Members = MembersOf(q, session, channel)
  BY MembersIs, Zenon
<1> QED
  BY <1>1, PTL

\* A channel is a member when it is connected, with its type.
LEMMA HearsIs ==
  ASSUME SInv, NEW c \in Client, NEW type \in ChannelType
  PROVE  Registry!Hears(c, type) <=> channel[c].type = type
<1>1. PICK q : Threads(q)
  BY Zenon DEF SInv
<1>2. PICK l \in Nat : /\ l = Len(q) /\ q \in Seq(Node)
                       /\ \A s : s \in Node /\ session[s] # Unset <=> \E i \in 1..l : s = q[i]
  <2>1. /\ q \in Seq(Node)
        /\ \A s : s \in Node /\ session[s] # Unset <=> \E i \in 1..Len(q) : s = q[i]
    BY <1>1, SessionsIs, Zenon
  <2>2. Len(q) \in Nat
    BY <2>1
  <2> QED
    BY <2>1, <2>2, Zenon
<1>3. Members = [i \in 1..l |-> [client |-> session[q[i]], type |-> channel[session[q[i]]].type]]
  BY <1>1, <1>2, MembersIs, Zenon DEF MembersOf
<1>4. Registry!Hears(c, type) <=>
        \E i \in 1..l : session[q[i]] = c /\ channel[session[q[i]]].type = type
  <2>1. Registry!Hears(c, type) <=> \E i \in DOMAIN Members : Members[i] = [client |-> c, type |-> type]
    BY Zenon DEF Registry!Hears
  <2> QED
    BY <1>3, <2>1
<1>5. ASSUME channel[c].type = type PROVE \E i \in 1..l : session[q[i]] = c
  <2>1. Unset \notin ChannelType /\ Unset \notin Client
    BY SessionAssumption
  <2>2. PICK s \in Node : session[s] = c
    BY <1>5, <2>1 DEF SInv, Typed, ChannelNamesSession, Channel
  <2>3. PICK i \in 1..l : s = q[i]
    BY <1>2, <2>1, <2>2, Zenon
  <2> QED
    BY <2>2, <2>3, Zenon
<1> QED
  BY <1>4, <1>5, Zenon

LEMMA RegistryInit == Init => Registry!Init
<1> SUFFICES ASSUME Init PROVE Registry!Init
  OBVIOUS
<1>1. PICK q : Threads(q)
  BY InitS, Zenon DEF SInv
<1>2. /\ Sessions = q /\ q \in Seq(Node)
      /\ \A s : s \in Node /\ session[s] # Unset <=> \E i \in 1..Len(q) : s = q[i]
  BY <1>1, SessionsIs, Zenon
<1>3. \A i \in 1..Len(q) : FALSE
  <2>1. \A s \in Node : session[s] = Unset
    BY DEF Init
  <2> QED
    BY <1>2, <2>1, Zenon
<1>4. q = <<>>
  BY <1>2, <1>3
<1>5. Members = <<>>
  BY <1>1, <1>4, MembersIs DEF MembersOf
<1>6. Leaving = {} /\ out = [c \in Client |-> <<>>]
  BY DEF Init, Leaving
<1> QED
  BY <1>5, <1>6, Zenon DEF Registry!Init

LEMMA SameMembers ==
  ASSUME SInv, UNCHANGED <<mem, session, channel>>
  PROVE  Members' = Members
BY DEF Members, Sessions

LEMMA JoinStep ==
  ASSUME SInv, NEW c \in Client, NEW type \in ChannelType, Connect(c, type)
  PROVE  Registry!Next
<1>1. PICK s \in Node, q \in Seq(Node) :
        /\ session[s] = Unset
        /\ session' = [session EXCEPT ![s] = c]
        /\ channel' = [channel EXCEPT ![c] = [type |-> type, session |-> s]]
        /\ Threads(q) /\ Threads(Append(q, s))'
  BY ConnectList, Zenon
<1>2. PICK m : m = [client |-> c, type |-> type]
  OBVIOUS
<1>3. channel[c].session = Unset /\ socket[c] = "open" /\ Unset \notin Node /\ Unset \notin Client
  BY SessionAssumption DEF SInv, ChannelNamesSession, Connect, Connected
<1>4. PICK l \in Nat : l = Len(q)
  BY <1>1
<1>5. \A i \in 1..l : q[i] \in Node /\ session[q[i]] # Unset
  BY <1>1, <1>4, SessionsIs, Zenon
<1>6. \A i \in 1..l : session[q[i]] # c /\ q[i] # s /\ session[q[i]] \in Client
  <2> TAKE i \in 1..l
  <2>1. channel[session[q[i]]].session = q[i]
    BY <1>5 DEF SInv, SessionNamesChannel
  <2> QED
    BY <1>1, <1>3, <1>5, <2>1 DEF SInv, Typed
<1>7. Members = [i \in 1..l |-> [client |-> session[q[i]], type |-> channel[session[q[i]]].type]]
  BY <1>1, <1>4, MembersIs, Zenon DEF MembersOf
<1>8. Members' = Append(Members, m)
  <2>1. PICK r, ses, chan : r = Append(q, s) /\ ses = session' /\ chan = channel'
    OBVIOUS
  <2>2. Len(r) = l + 1 /\ r[l + 1] = s /\ \A i \in 1..l : r[i] = q[i]
    BY <1>1, <1>4, <2>1
  <2>3. Members' = MembersOf(r, ses, chan)
    <3>1. Threads(r)'
      BY <1>1, <2>1
    <3> QED
      BY <2>1, <3>1, MembersAfter
  <2>4. ses[s] = c /\ chan[c].type = type
    BY <1>1, <2>1 DEF SInv, Typed
  <2>5. \A i \in 1..l : ses[q[i]] = session[q[i]] /\ chan[session[q[i]]] = channel[session[q[i]]]
    BY <1>1, <1>5, <1>6, <2>1 DEF SInv, Typed
  <2>6. MembersOf(r, ses, chan)
          = [i \in 1..(l + 1) |-> [client |-> ses[r[i]], type |-> chan[ses[r[i]]].type]]
    BY <2>2, Zenon DEF MembersOf
  <2>7. Append(Members, m)
          = [i \in 1..(l + 1) |-> IF i = l + 1 THEN m
                                  ELSE [client |-> session[q[i]], type |-> channel[session[q[i]]].type]]
    BY <1>7
  <2>8. ASSUME NEW i \in 1..(l + 1)
        PROVE  [client |-> ses[r[i]], type |-> chan[ses[r[i]]].type]
                 = IF i = l + 1 THEN m
                   ELSE [client |-> session[q[i]], type |-> channel[session[q[i]]].type]
    <3>1. CASE i = l + 1
      BY <1>2, <2>2, <2>4, <3>1
    <3>2. CASE i # l + 1
      <4>1. i \in 1..l
        BY <3>2
      <4> QED
        BY <2>2, <2>5, <3>2, <4>1
    <3> QED
      BY <3>1, <3>2
  <2> QED
    BY <2>3, <2>6, <2>7, <2>8, Zenon
<1>9. ~Registry!IsMember(c)
  <2>1. Registry!IsMember(c) <=> \E i \in DOMAIN Members : Members[i].client = c
    BY Zenon DEF Registry!IsMember
  <2> QED
    BY <1>6, <1>7, <2>1
<1>10. c \notin Leaving /\ Leaving' = Leaving /\ out' = [out EXCEPT ![c] = <<"reply">>]
  BY <1>3 DEF Leaving, Connect
<1>11. Registry!Join(m)
  <2>1. m.client = c
    BY <1>2
  <2> QED
    BY <1>8, <1>9, <1>10, <2>1, Zenon DEF Registry!Join
<1>12. m \in Registry!Member
  BY <1>2 DEF Registry!Member
<1> QED
  BY <1>11, <1>12, Zenon DEF Registry!Next

LEMMA LeaveStep ==
  ASSUME SInv, NEW c \in Client, AfterShutdown(c), channel[c].session # Unset
  PROVE  Registry!Next
<1>1. PICK s \in Node, q \in Seq(Node) : \E i \in 1..Len(q) :
        /\ s = channel[c].session /\ session[s] = c /\ q[i] = s
        /\ session' = [session EXCEPT ![s] = Unset]
        /\ Threads(q) /\ Threads(Without(q, i))'
  BY LeaveList, Zenon
<1>2. PICK l \in Nat : l = Len(q)
  BY <1>1
<1>3. PICK i \in 1..l :
        /\ l = Len(q) /\ q[i] = s /\ Threads(q) /\ Threads(Without(q, i))'
  BY <1>1, <1>2, Zenon
<1>4. \A k \in 1..l : q[k] \in Node /\ session[q[k]] # Unset
  <2>1. Threads(q) /\ l = Len(q)
    BY <1>3, Zenon
  <2> QED
    BY <2>1, SessionsIs, Zenon
<1>5. \A j, k \in 1..l : q[j] = q[k] => j = k
  <2>1. RingOf(mem.next, mem.prev, q) /\ l = Len(q)
    BY <1>3, Zenon DEF Threads
  <2> QED
    BY <2>1, Zenon DEF RingOf
<1>6. PICK v : v = [k \in 1..l |-> [client |-> session[q[k]], type |-> channel[session[q[k]]].type]]
  OBVIOUS
<1>7. Members = v
  BY <1>3, <1>6, MembersIs, Zenon DEF MembersOf
<1>8. PICK V : V = {[client |-> session[q[k]], type |-> channel[session[q[k]]].type] : k \in 1..l}
  OBVIOUS
<1>9. v \in Seq(V) /\ Len(v) = l
  BY <1>6, <1>8
<1>10. /\ Without(v, i) \in Seq(V) /\ Len(Without(v, i)) = l - 1
      /\ \A k \in 1..(l - 1) : Without(v, i)[k] = IF k < i THEN v[k] ELSE v[k + 1]
  BY <1>3, <1>9, WithoutAt, Zenon
<1>11. PICK r : r = Without(q, i)
  OBVIOUS
<1>12. /\ Len(r) = l - 1
       /\ \A k \in 1..(l - 1) : r[k] = IF k < i THEN q[k] ELSE q[k + 1]
  <2>1. i \in 1..Len(q) /\ l = Len(q)
    BY <1>3, Zenon
  <2> QED
    BY <1>11, <2>1, WithoutAt, Zenon
<1>13. PICK ses, chan : ses = session' /\ chan = channel'
  OBVIOUS
<1>14. \A j \in 1..l : j # i => ses[q[j]] = session[q[j]] /\ chan[session[q[j]]] = channel[session[q[j]]]
  <2> SUFFICES ASSUME NEW j \in 1..l, j # i
               PROVE  ses[q[j]] = session[q[j]] /\ chan[session[q[j]]] = channel[session[q[j]]]
    OBVIOUS
  <2>1. q[j] # s
    BY <1>3, <1>5
  <2>2. channel[session[q[j]]].session = q[j] /\ session[q[j]] \in Client
    BY <1>4 DEF SInv, SessionNamesChannel, Typed
  <2>3. session[q[j]] # c
    BY <1>1, <2>1, <2>2
  <2> QED
    BY <1>1, <1>4, <1>13, <2>1, <2>2, <2>3 DEF AfterShutdown, SInv, Typed
<1>15. Members' = [k \in 1..(l - 1) |-> [client |-> ses[r[k]], type |-> chan[ses[r[k]]].type]]
  <2>1. Threads(r)'
    BY <1>3, <1>11
  <2>2. Members' = MembersOf(r, ses, chan)
    BY <1>13, <2>1, MembersAfter
  <2> QED
    BY <1>12, <2>2, Zenon DEF MembersOf
<1>16. ASSUME NEW k \in 1..(l - 1)
       PROVE  [client |-> ses[r[k]], type |-> chan[ses[r[k]]].type] = Without(v, i)[k]
  <2>1. PICK j \in 1..l : j # i /\ r[k] = q[j] /\ Without(v, i)[k] = v[j]
    <3>1. CASE k < i
      <4>1. k \in 1..l /\ k # i /\ r[k] = q[k] /\ Without(v, i)[k] = v[k]
        BY <1>10, <1>12, <3>1
      <4> QED
        BY <4>1, Zenon
    <3>2. CASE ~(k < i)
      <4>1. k + 1 \in 1..l /\ k + 1 # i /\ r[k] = q[k + 1] /\ Without(v, i)[k] = v[k + 1]
        BY <1>10, <1>12, <3>2
      <4> QED
        BY <4>1, Zenon
    <3> QED
      BY <3>1, <3>2
  <2>2. v[j] = [client |-> session[q[j]], type |-> channel[session[q[j]]].type]
    BY <1>6
  <2> QED
    BY <1>14, <2>1, <2>2
<1>17. Members' = Without(v, i)
  <2>1. Without(v, i) = [k \in 1..(l - 1) |-> Without(v, i)[k]]
    BY <1>10
  <2> QED
    BY <1>15, <1>16, <2>1, Zenon
<1>18. i \in DOMAIN Members /\ Members[i].client = c
  BY <1>1, <1>3, <1>6, <1>7
<1>19. Members' = Registry!RemoveAt(Members, i)
  <2>1. Registry!RemoveAt(v, i) = Without(v, i)
    BY Zenon DEF Without, Registry!RemoveAt
  <2> QED
    BY <1>7, <1>17, <2>1, Zenon
<1>20. c \in Leaving /\ Leaving' = Leaving \ {c} /\ out' = [out EXCEPT ![c] = <<>>]
  BY DEF Leaving, AfterShutdown, SInv, Typed
<1>21. Registry!Leave(c)
  BY <1>18, <1>19, <1>20, Zenon DEF Registry!Leave
<1> QED
  BY <1>21, Zenon DEF Registry!Next

LEMMA BroadcastStep ==
  ASSUME SInv, EmitNext
  PROVE  Registry!Next
<1>1. Members' = Members /\ Leaving' = Leaving
  BY SameMembers DEF EmitNext, Leaving
<1>2. PICK type \in ChannelType : type = Head(requests)
  BY DEF EmitNext, SInv, Typed
<1>3. PICK late \in SUBSET Leaving :
        out' = [c \in Client |->
                  IF c \in late THEN out[c]
                  ELSE out[c] \o [i \in 1..Cardinality(Copies(c, type)) |-> type]]
  BY <1>2, EmitAdds, Zenon DEF Leaving
<1>4. PICK deaf : deaf = {c \in late : Registry!Hears(c, type)}
  OBVIOUS
<1>5. \A c \in Client :
        out[c] \o [i \in 1..Cardinality(Copies(c, type)) |-> type]
          = IF Registry!Hears(c, type) THEN Append(out[c], type) ELSE out[c]
  <2> TAKE c \in Client
  <2>1. out[c] \in Seq(ChannelType \cup {"reply"})
    BY DEF SInv, Typed
  <2> QED
    BY <2>1, CopyIsAppend, HearsIs, Zenon
<1>6. \A c : c \in deaf <=> c \in late /\ Registry!Hears(c, type)
  BY <1>4, Zenon
<1>7. deaf \in SUBSET {c \in Leaving : Registry!Hears(c, type)}
  BY <1>6, Zenon
<1>8. \A c \in Client :
        (IF c \in late THEN out[c] ELSE out[c] \o [i \in 1..Cardinality(Copies(c, type)) |-> type])
          = (IF Registry!Hears(c, type) /\ c \notin deaf THEN Append(out[c], type) ELSE out[c])
  BY <1>5, <1>6, Zenon
<1>9. out' = [c \in Client |->
                IF Registry!Hears(c, type) /\ c \notin deaf THEN Append(out[c], type) ELSE out[c]]
  BY <1>3, <1>8, Zenon
<1>10. Registry!Broadcast(type)
  BY <1>1, <1>7, <1>9, Zenon DEF Registry!Broadcast
<1> QED
  BY <1>10, Zenon DEF Registry!Next

LEMMA RegistryStep ==
  ASSUME SInv, [Next]_vars
  PROVE  Registry!Next \/ fate' = "undefined" \/ UNCHANGED Registry!vars
<1>1. ASSUME UNCHANGED <<socket, channel, mem, session, out>> PROVE UNCHANGED Registry!vars
  BY <1>1, SameMembers DEF Registry!vars, Leaving
<1>2. ASSUME NEW c \in Client, Accept(c) PROVE UNCHANGED Registry!vars
  <2>1. channel[c] = NewChannel
    <3>1. channel[c].session = Unset /\ channel[c].type = Unset /\ channel[c] \in Channel
      BY <1>2 DEF SInv, Typed, ChannelNamesSession, Accept
    <3> QED
      BY <3>1 DEF Channel, NewChannel
  <2>2. channel' = channel
    BY <1>2, <2>1 DEF Accept, SInv, Typed
  <2>3. Members' = Members
    BY <1>2, <2>2, SameMembers DEF Accept
  <2>4. Leaving' = Leaving
    BY <1>2 DEF Accept, Leaving, SInv, Typed
  <2> QED
    BY <1>2, <2>3, <2>4 DEF Accept, Registry!vars
<1>3. ASSUME NEW c \in Client, ReadEof(c) PROVE Registry!Next
  <2>1. Members' = Members /\ UNCHANGED out
    BY <1>3, SameMembers DEF ReadEof
  <2>2. Leaving' = Leaving \cup {c}
    BY <1>3 DEF ReadEof, Leaving, SInv, Typed
  <2>3. Registry!Close(c)
    BY <2>1, <2>2, Zenon DEF Registry!Close
  <2> QED
    BY <2>3, Zenon DEF Registry!Next
<1>4. ASSUME NEW c \in Client, AfterShutdown(c), channel[c].session = Unset PROVE fate' = "undefined"
  BY <1>4 DEF AfterShutdown
<1> QED
  BY <1>1, <1>2, <1>3, <1>4, JoinStep, LeaveStep, BroadcastStep
     DEF Next, ClientStep, Queueing, Stopped, vars, ReadError, Queue

\* The ring of sessions is the registry: who connected is on it, once and in
\* order, until its shutdown, and gets each broadcast of its type once.
THEOREM RegistryImplemented == Spec => ImplementsRegistry
<1>1. SInv /\ [Next]_vars => [Registry!Next \/ fate' = "undefined"]_(Registry!vars)
  BY RegistryStep
<1> QED
  BY <1>1, RegistryInit, SessionInvariance, PTL DEF Spec, ImplementsRegistry
=============================================================================
