---------------------------- MODULE SessionLife ----------------------------
(***************************************************************************)
(* The life of a channel and its session: accepted, connected, shut down,  *)
(* freed.                                                                  *)
(*                                                                         *)
(* A connection gets a cip_channel_t at once and a cip_session_t when its  *)
(* connect message is read; the session joins cip_context.sessions, which  *)
(* emit_write walks for every request.  All of it runs in callbacks of the *)
(* uv thread, one after the other, so each handler is one step; what other *)
(* threads do to the request list is WindowEvents'.  The links of the list *)
(* are those of list.h.                                                    *)
(*                                                                         *)
(* Left out: what recover_state writes after the reply, the copies that    *)
(* emit_write makes for sessions without a matching channel and never      *)
(* frees, and the session string, which nothing compares.                  *)
(***************************************************************************)
EXTENDS ListOps

CONSTANTS Client,        \* sockets
          ChannelType,   \* MASTER, EVENT, DISPLAY
          Unset,         \* a field that was never assigned
          MaxRequests,   \* bound: requests queued at a time
          MaxOut         \* bound: no request is queued while a channel was sent this much

ASSUME SessionAssumption ==
  /\ Unset \notin Node \cup Client \cup ChannelType
  /\ MaxRequests \in Nat /\ MaxOut \in Nat

VARIABLES
  socket,    \* per client: "absent", "open", "closing"
  channel,   \* per client: type once connected, and session
  mem,       \* the links of cip_context.sessions, Node being the sessions
  session,   \* per address: the channel the session holds, or Unset when free
  requests,  \* types of the requests that wait for emit_write
  out,       \* per client: what uv_write accepted for it
  fate       \* "running", "aborted" (an ASSERT), "undefined" (a wild pointer was used)

vars == <<socket, channel, mem, session, requests, out, fate>>

NewChannel == [type |-> Unset, session |-> Unset]
Channel == [type : ChannelType \cup {Unset}, session : Node \cup {Unset}]
Connected(c) == channel[c].type # Unset

EmptyList ==
  [next |-> [p \in Node \cup {Anchor} |-> IF p = Anchor THEN Anchor ELSE Junk],
   prev |-> [p \in Node \cup {Anchor} |-> IF p = Anchor THEN Anchor ELSE Junk]]

Init ==
  /\ socket = [c \in Client |-> "absent"]
  /\ channel = [c \in Client |-> NewChannel]
  /\ mem = EmptyList
  /\ session = [s \in Node |-> Unset]
  /\ requests = <<>>
  /\ out = [c \in Client |-> <<>>]
  /\ fate = "running"

Running == fate = "running"

-----------------------------------------------------------------------------
\* connection_cb: channel->session is left as malloc returned it.
Accept(c) ==
  /\ Running /\ socket[c] = "absent"
  /\ socket' = [socket EXCEPT ![c] = "open"]
  /\ channel' = [channel EXCEPT ![c] = NewChannel]
  /\ UNCHANGED <<mem, session, requests, out, fate>>

\* Mutant: the channel's session is not remembered.
ConnectForgets(c, type) ==
  /\ Running /\ socket[c] = "open" /\ ~Connected(c)
  /\ \E s \in {t \in Node : session[t] = Unset} :
       /\ session' = [session EXCEPT ![s] = c]
       /\ mem' = Do(mem, ListAddTail(mem, s))
       /\ channel' = [channel EXCEPT ![c].type = type]
  /\ out' = [out EXCEPT ![c] = <<"reply">>]
  /\ UNCHANGED <<socket, requests, fate>>

\* A connect message: a new session that holds this channel alone joins the
\* list, and the result is written back.  need_session is never set.
Connect(c, type) ==
  /\ Running /\ socket[c] = "open" /\ ~Connected(c)
  /\ \E s \in {t \in Node : session[t] = Unset} :
       /\ session' = [session EXCEPT ![s] = c]
       /\ mem' = Do(mem, ListAddTail(mem, s))
       /\ channel' = [channel EXCEPT ![c] = [type |-> type, session |-> s]]
  /\ out' = [out EXCEPT ![c] = <<"reply">>]
  /\ UNCHANGED <<socket, requests, fate>>

\* after_read at the end of the stream: uv_shutdown, and no more is read.
ReadEof(c) ==
  /\ Running /\ socket[c] = "open"
  /\ socket' = [socket EXCEPT ![c] = "closing"]
  /\ UNCHANGED <<channel, mem, session, requests, out, fate>>

\* after_read at any other error, a reset by the client for one.
ReadError(c) ==
  /\ Running /\ socket[c] = "open"
  /\ fate' = "aborted"
  /\ UNCHANGED <<socket, channel, mem, session, requests, out>>

\* Mutant: the session stays on the list.
ShutdownKeepsSession(c) ==
  /\ Running /\ socket[c] = "closing"
  /\ socket' = [socket EXCEPT ![c] = "absent"]
  /\ channel' = [channel EXCEPT ![c] = NewChannel]
  /\ out' = [out EXCEPT ![c] = <<>>]
  /\ UNCHANGED <<mem, session, requests, fate>>

\* after_shutdown: the ring, the channel and the session it names are freed.
\* The channel's fields are read after its free, by which glibc leaves this
\* one alone.  A channel that never connected has no session to name.
AfterShutdown(c) ==
  /\ Running /\ socket[c] = "closing"
  /\ socket' = [socket EXCEPT ![c] = "absent"]
  /\ channel' = [channel EXCEPT ![c] = NewChannel]
  /\ out' = [out EXCEPT ![c] = <<>>]
  /\ LET s == channel[c].session IN
       \/ /\ s # Unset
          /\ mem' = Do(mem, ListDel(mem, s) \o <<Put("next", s, Junk), Put("prev", s, Junk)>>)
          /\ session' = [session EXCEPT ![s] = Unset]
          /\ UNCHANGED fate
       \/ /\ s = Unset
          /\ fate' = "undefined"
          /\ UNCHANGED <<mem, session>>
  /\ UNCHANGED requests

-----------------------------------------------------------------------------
\* A handler of X events or frame_send queues a request of some type.
Queue(type) ==
  /\ Running
  /\ Len(requests) < MaxRequests
  /\ \A c \in Client : Len(out[c]) < MaxOut
  /\ requests' = Append(requests, type)
  /\ UNCHANGED <<socket, channel, mem, session, out, fate>>

\* Mutant: the channel's type is not compared.
EmitToAll ==
  /\ Running /\ requests # <<>>
  /\ LET heard == {session[s] : s \in Reach(mem, mem.next[Anchor])}
     IN  out' = [c \in Client |-> IF c \in heard THEN Append(out[c], Head(requests)) ELSE out[c]]
  /\ requests' = Tail(requests)
  /\ UNCHANGED <<socket, channel, mem, session, fate>>

\* The sessions a walk meets, in order.
Sessions == Met(mem, mem.next[Anchor])

\* emit_write, one request: a copy for each session with a channel of the
\* type.  Whether libuv still takes a write to a socket that is being shut
\* down depends on its version.
EmitNext ==
  /\ Running /\ requests # <<>>
  /\ LET type == Head(requests)
         copies(c) == {i \in DOMAIN Sessions : session[Sessions[i]] = c /\ channel[c].type = type}
     IN  \E late \in SUBSET {c \in Client : socket[c] = "closing"} :
           out' = [c \in Client |->
                     IF c \in late THEN out[c]
                     ELSE out[c] \o [i \in 1..Cardinality(copies(c)) |-> type]]
  /\ requests' = Tail(requests)
  /\ UNCHANGED <<socket, channel, mem, session, fate>>

-----------------------------------------------------------------------------
Stopped == ~Running /\ UNCHANGED vars

ClientStep == \E c \in Client :
  Accept(c) \/ (\E type \in ChannelType : Connect(c, type)) \/ ReadEof(c) \/ ReadError(c)
Queueing == \E type \in ChannelType \ {"MASTER"} : Queue(type)

Next == ClientStep \/ (\E c \in Client : AfterShutdown(c)) \/ Queueing \/ EmitNext \/ Stopped

Spec == Init /\ [][Next]_vars

-----------------------------------------------------------------------------
(* Properties *)

\* Types; and the list is a ring through exactly the allocated sessions,
\* whichever of them left first (after_shutdown's list_del, cip_server.c:74).
TypeOK ==
  /\ socket \in [Client -> {"absent", "open", "closing"}]
  /\ channel \in [Client -> Channel]
  /\ mem \in Memory
  /\ session \in [Node -> Client \cup {Unset}]
  /\ requests \in Seq(ChannelType)
  /\ out \in [Client -> Seq(ChannelType \cup {"reply"})]
  /\ fate \in {"running", "aborted", "undefined"}
  /\ fate # "undefined" => Circular(mem, {s \in Node : session[s] # Unset})

\* emit_write follows sess->event_channel->client of every session it meets:
\* each holds a channel that is not freed, is connected and names it back.
NoDanglingChannel ==
  fate # "undefined" =>
    \A s \in Reach(mem, mem.next[Anchor]) :
      LET c == session[s] IN
        c \in Client /\ socket[c] # "absent" /\ Connected(c) /\ channel[c].session = s

\* "free session" (cip_server.c:73) goes wrong for one client only: one that
\* is leaving and never sent a connect message the server knows.
UndefinedNeedsSilentLeaver ==
  [][fate = "running" /\ fate' = "undefined"
       => \E c \in Client : socket[c] = "closing" /\ ~Connected(c)]_vars

-----------------------------------------------------------------------------
\* The sessions, in list order, as members of the registry.
Members ==
  [i \in DOMAIN Sessions |->
     LET c == session[Sessions[i]] IN [client |-> c, type |-> channel[c].type]]
Leaving == {c \in Client : socket[c] = "closing"}

Registry == INSTANCE SessionRegistry WITH members <- Members, leaving <- Leaving

\* The list of sessions does what it is for: a channel is on it from its
\* connect message to its shutdown, and gets, after the reply, each
\* broadcast of its type once and no other.
ImplementsRegistry == Registry!Init /\ [][Registry!Next \/ fate' = "undefined"]_(Registry!vars)
=============================================================================
