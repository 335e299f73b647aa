----------------------------- MODULE RxChannel -----------------------------
(***************************************************************************)
(* How the bytes a client sends on one socket become events.               *)
(*                                                                         *)
(* alloc_buffer lends libuv the memory at the tail of the channel's ring,  *)
(* libuv reads into it, after_read copies what was read from there into    *)
(* the ring, and cip_channel_handle takes a connect message or as many     *)
(* whole events as the ring holds.  All of it runs on the uv thread.       *)
(*                                                                         *)
(* libuv knows the length it was lent and not where the buffer ends: a     *)
(* read that goes on behind the end writes over what malloc put there,     *)
(* which is undefined and ends the run (pc = "overrun").                   *)
(*                                                                         *)
(* A byte is its place in a message; the values of a message's fields are  *)
(* left out.  What handle_event does with an event is not modelled here.   *)
(***************************************************************************)
EXTENDS RingOps, SequencesExt

CONSTANTS Setups,     \* the instances looked at, see Setup
          Stray,      \* the type a byte stands for that begins no message
          MaxSend     \* bound: messages sent on the socket

\* cip_protocol.h, "bellow is event from client": sizes of the packed structs.
WireLen ==
  [MOUSE_MOVE |-> 9, MOUSE_DOWN |-> 6, MOUSE_UP |-> 6, KEY_DOWN |-> 6, KEY_UP |-> 6,
   WINDOW_MOVE |-> 9, WINDOW_RESIZE |-> 9, WINDOW_FRAME_LISTEN |-> 5,
   WINDOW_FRAME_UNLISTEN |-> 5, WINDOW_SHOW_READY |-> 5]

ChannelType == {"MASTER", "EVENT", "DISPLAY"}
ConnectLen == 4

\* The client events in use, ringbuf_new's argument (1024 in the program), a
\* bound on the messages sent, and the manners of client and TCP: "awaits"
\* and "eager" keep to whole messages, as many as the ring has room for, the
\* one once it is connected, the other at once; "any" keeps to nothing.
Setup == [kinds : SUBSET DOMAIN WireLen, capacity : Nat, sends : 0..MaxSend,
          manners : {"awaits", "eager", "any"}]

ASSUME RxAssumption ==
  /\ MaxSend \in Nat
  /\ Setups \subseteq Setup
  /\ Stray \in DOMAIN WireLen \cup {"none"}

\* The cases of get_size_by_type; any other type has size 0.
SizeByType(type) ==
  IF type \in {"MOUSE_MOVE", "MOUSE_DOWN", "MOUSE_UP", "KEY_DOWN", "KEY_UP",
               "WINDOW_MOVE", "WINDOW_RESIZE", "WINDOW_SHOW_READY"}
  THEN WireLen[type]
  ELSE 0

MessageLen(m) == IF m \in ChannelType THEN ConnectLen ELSE WireLen[m]
Bytes(m) == [i \in 1..MessageLen(m) |-> [of |-> m, at |-> i]]

\* What no message wrote: memory as malloc left it.
Junk == [of |-> "junk", at |-> 0]
AByte == (UNION {Range(Bytes(m)) : m \in DOMAIN WireLen \cup ChannelType}) \cup {Junk}

VARIABLES setup,     \* the instance
          sent,      \* the messages the client has sent
          wire,      \* bytes on their way
          rx,        \* channel->rx_ring
          connected, \* channel->connected and, once set, channel->type
          pc,        \* the callback under way
          handled    \* what cip_channel_handle has taken from the ring so far

vars == <<setup, sent, wire, rx, connected, pc, handled>>

Careful == setup.manners # "any"

Init ==
  /\ setup \in Setups
  /\ sent = <<>>
  /\ wire = <<>>
  /\ rx = [buf |-> [p \in 0..setup.capacity |-> Junk], size |-> setup.capacity + 1,
           head |-> 0, tail |-> 0]
  /\ connected = "no"
  /\ pc = "loop"
  /\ handled = <<>>

-----------------------------------------------------------------------------
(* The client *)

Put(m) ==
  /\ pc \notin {"closed", "abort", "overrun"}
  /\ Len(sent) < setup.sends
  /\ sent' = Append(sent, m)
  /\ wire' = wire \o Bytes(m)
  /\ UNCHANGED <<setup, rx, connected, pc, handled>>

Connect(t) == sent = <<>> /\ Put(t)

\* A careful client sends on an event channel only and never has more under
\* way than the ring holds; one kind awaits the reply to its connect message.
SendEvent(k) ==
  /\ sent # <<>>
  /\ Careful => sent[1] = "EVENT" /\ Len(wire) + WireLen[k] <= BytesFree(rx)
  /\ setup.manners = "awaits" => connected = "EVENT"
  /\ Put(k)

-----------------------------------------------------------------------------
(* libuv and after_read *)

\* The ring's buffer once libuv has stored s at the tail.
Landed(rb, s) ==
  [p \in DOMAIN rb.buf |->
     IF p \in rb.tail..(rb.tail + Len(s) - 1) THEN s[p - rb.tail + 1] ELSE rb.buf[p]]

\* memcpy(dst, src, n).  When the areas overlap its result is undefined: the
\* libraries in use either copy as memmove does or byte by byte, upwards.
Copied(mem, dst, src, n, upwards) ==
  [p \in DOMAIN mem |->
     IF p \notin dst..(dst + n - 1) THEN mem[p]
     ELSE IF upwards /\ dst > src THEN mem[src + ((p - dst) % (dst - src))]
     ELSE mem[src + (p - dst)]]

\* The two memcpys of ringbuf_memcpy_into(rx_ring, buf->base, nread), the
\* source being the ring itself; nread never exceeds the bytes free.
ToTheEnd(rb, s, upwards) ==
  Copied(Landed(rb, s), rb.head, rb.tail, Min2(RoomAt(rb, rb.head), Len(s)), upwards)
FromTheStart(rb, s, upwards) ==
  LET first == Min2(RoomAt(rb, rb.head), Len(s))
  IN  Copied(ToTheEnd(rb, s, upwards), 0, rb.tail + first, Len(s) - first, upwards)

\* Mutants: the head not wrapped; wrapped at the capacity, not at the size.
TakenInFlat(rb, s, upwards) ==
  [rb EXCEPT !.buf = FromTheStart(rb, s, upwards), !.head = rb.head + Len(s)]
TakenInEarly(rb, s, upwards) ==
  [rb EXCEPT !.buf = FromTheStart(rb, s, upwards), !.head = (rb.head + Len(s)) % (rb.size - 1)]

TakenIn(rb, s, upwards) ==
  [rb EXCEPT !.buf = FromTheStart(rb, s, upwards), !.head = (rb.head + Len(s)) % rb.size]

\* Whole messages only, when TCP is as kind as that.
Boundary(n) == n < Len(wire) => wire[n + 1].at = 1

\* How much one read(2) may return: alloc_buffer's length takes no account
\* of the end of the buffer.
Readable == {n \in 1..Min2(Len(wire), BytesFree(rx)) : Careful => Boundary(n)}

AfterRead ==
  /\ pc = "loop"
  /\ \E n \in Readable, upwards \in BOOLEAN :
       /\ n <= RoomAt(rx, rx.tail)
       /\ rx' = TakenIn(rx, SubSeq(wire, 1, n), upwards)
       /\ wire' = SubSeq(wire, n + 1, Len(wire))
  /\ pc' = "handle"
  /\ UNCHANGED <<setup, sent, connected, handled>>

\* read(2) writes behind the end of the buffer.
ReadOverruns ==
  /\ pc = "loop"
  /\ \E n \in Readable : n > RoomAt(rx, rx.tail)
  /\ pc' = "overrun"
  /\ UNCHANGED <<setup, sent, wire, rx, connected, handled>>

\* libuv asks for a buffer before it reads, and again at once after a read
\* that filled the last: one of length 0 makes it report UV_ENOBUFS, and
\* after_read accepts no error but UV_EOF.
AfterReadNoBuffer ==
  /\ pc = "loop"
  /\ BytesFree(rx) = 0
  /\ pc' = "abort"
  /\ UNCHANGED <<setup, sent, wire, rx, connected, handled>>

\* The client has closed its end, and sends no more; the channel is shut down and freed.
AfterReadEof ==
  /\ pc = "loop"
  /\ wire = <<>> /\ BytesFree(rx) > 0
  /\ pc' = "closed"
  /\ UNCHANGED <<setup, sent, wire, rx, connected, handled>>

-----------------------------------------------------------------------------
(* cip_channel_handle *)

\* ringbuf_memcpy_from(&x, rx_ring, n).
Held(n) == SubSeq(Contents(rx), 1, n)

\* Mutants: the tail moves past the byte behind what was copied; it moves twice.
TakeOutOneMore(n) ==
  /\ rx' = [rx EXCEPT !.tail = (rx.tail + n + 1) % rx.size]
  /\ handled' = IF n = 0 THEN handled ELSE Append(handled, Held(n))

TakeOutTwice(n) ==
  /\ rx' = [rx EXCEPT !.tail = (rx.tail + 2 * n) % rx.size]
  /\ handled' = IF n = 0 THEN handled ELSE Append(handled, Held(n))

TakeOut(n) ==
  /\ rx' = [rx EXCEPT !.tail = (rx.tail + n) % rx.size]
  /\ handled' = IF n = 0 THEN handled ELSE Append(handled, Held(n))

\* A message that arrived whole is what it was; another may read as any.
HandleConnect ==
  /\ pc = "handle" /\ connected = "no"
  /\ IF BytesUsed(rx) < ConnectLen
     THEN UNCHANGED <<rx, connected, handled>>
     ELSE /\ TakeOut(ConnectLen)
          /\ connected' \in {t \in ChannelType \cup {"no"} :
                               \A m \in ChannelType : Held(ConnectLen) = Bytes(m) => t = m}
  /\ pc' = "loop"
  /\ UNCHANGED <<setup, sent, wire>>

\* Only an event channel reads on.
HandleOther ==
  /\ pc = "handle" /\ connected \in {"MASTER", "DISPLAY"}
  /\ pc' = "loop"
  /\ UNCHANGED <<setup, sent, wire, rx, connected, handled>>

HandleEvents ==
  /\ pc = "handle" /\ connected = "EVENT"
  /\ pc' = "parse"
  /\ UNCHANGED <<setup, sent, wire, rx, connected, handled>>

\* ev_type, read through ringbuf_tail, and expect_size.
TypeAtTail == LET b == rx.buf[rx.tail] IN IF b.at = 1 THEN b.of ELSE Stray
ExpectSize == SizeByType(TypeAtTail)

\* Mutant: one event a read.
ParseOneEvent ==
  /\ pc = "parse"
  /\ BytesUsed(rx) >= ExpectSize
  /\ TakeOut(ExpectSize)
  /\ pc' = "loop"
  /\ UNCHANGED <<setup, sent, wire, connected>>

\* One turn of the loop, and the test that ends it.
ParseEvent ==
  /\ pc = "parse"
  /\ BytesUsed(rx) >= ExpectSize
  /\ TakeOut(ExpectSize)
  /\ pc' = IF BytesUsed(rx) = ExpectSize THEN "loop" ELSE "parse"
  /\ UNCHANGED <<setup, sent, wire, connected>>

ParseStops ==
  /\ pc = "parse"
  /\ BytesUsed(rx) < ExpectSize
  /\ pc' = "loop"
  /\ UNCHANGED <<setup, sent, wire, rx, connected, handled>>

-----------------------------------------------------------------------------
Client == (\E t \in ChannelType : Connect(t)) \/ (\E k \in setup.kinds : SendEvent(k))
Handle == HandleConnect \/ HandleOther \/ HandleEvents \/ ParseEvent \/ ParseStops
Next == Client \/ AfterRead \/ ReadOverruns \/ AfterReadNoBuffer \/ AfterReadEof \/ Handle

Spec == Init /\ [][Next]_vars

\* The loop of libuv serves a readable socket and its callbacks run on.
FairSpec == Spec /\ WF_vars(AfterRead \/ ReadOverruns) /\ WF_vars(Handle)

-----------------------------------------------------------------------------
(* Properties *)

\* Types, and the bounds the program relies on: at most MaxSend messages.
TypeOK ==
  /\ Len(sent) <= MaxSend
  /\ setup \in Setups
  /\ rx \in RingsOf(setup.capacity + 1, AByte)
  /\ connected \in ChannelType \cup {"no"}
  /\ pc \in {"loop", "handle", "parse", "abort", "closed", "overrun"}

\* No byte is lost, repeated or changed between the client's send and the
\* parser: what was taken, what is in the ring and what is on its way are
\* what was sent.  The head is where "data should be written when copying
\* data *into* the buffer" (ringbuf.h:22); alloc_buffer uses the tail.
StreamIntact ==
  FlattenSeq(handled) \o Contents(rx) \o wire = FlattenSeq([i \in 1..Len(sent) |-> Bytes(sent[i])])

\* A read within the buffer can spoil the stream only when it finds bytes
\* in the ring: parts of a message, events behind the connect message of
\* the same read (cip_channel.c:217), or what a channel that takes no events
\* piled up.  Into an empty ring a read goes unaltered, although
\* ringbuf_memcpy_into then copies the bytes onto themselves; one that goes
\* on behind the end of the buffer ends the run instead.
DamageNeedsLeftovers == [][StreamIntact /\ IsEmpty(rx) => StreamIntact']_vars

\* ringbuf_memcpy_into and ringbuf_memcpy_from account for every byte.
\* However the stream is cut up, and whatever becomes of the contents, the
\* counts stay right: a byte taken in is a byte of the ring until it is
\* taken out, wherever head and tail wrap.
BytesCounted ==
  Len(FlattenSeq(handled)) + BytesUsed(rx) + Len(wire)
    = Len(FlattenSeq([i \in 1..Len(sent) |-> Bytes(sent[i])]))

\* From a careful client the parser takes message by message what was sent,
\* and returns to the loop with nothing left that it could have taken; only
\* what came in one read with the connect message stays behind.
WholeMessages ==
  Careful /\ (setup.manners = "awaits" \/ StreamIntact) =>
    /\ \A i \in 1..Len(handled) : handled[i] = Bytes(sent[i])
    /\ pc = "loop" /\ connected = "EVENT"
         => IsEmpty(rx) \/ (setup.manners = "eager" /\ Len(handled) = 1)

\* A client that awaited the reply to its connect message has its events
\* handled up to the first of a type get_size_by_type does not know
\* (cip_common.c:83): such an event stops those behind it, none before it;
\* unless a read ran past the end of the buffer.
EventsHandled ==
  \A n \in 1..MaxSend :
    /\ setup.manners = "awaits" /\ connected = "EVENT" /\ Len(sent) >= n
    /\ \A i \in 2..n : SizeByType(sent[i]) # 0
    ~> Len(handled) >= n \/ pc = "overrun"

\* A client that never has more under way than the ring holds is never the
\* one for whom libuv gets no buffer (cip_server.c:39), in a ring with room
\* for any one event: what was taken from the ring is free again, wherever
\* it wraps, and the handler never leaves the ring full.
AbortNeedsFlood ==
  Careful /\ (\A k \in DOMAIN WireLen : WireLen[k] <= setup.capacity) => pc # "abort"

\* "don't write beyond the end of the buffer" (ringbuf.c:239): a channel can
\* run past it (cip_server.c:39-40), but only after more bytes than the
\* buffer has, in its whole life, however they were cut up and whatever
\* became of them in the ring.
OverrunNeedsLongStream ==
  pc = "overrun" =>
    Len(FlattenSeq([i \in 1..Len(sent) |-> Bytes(sent[i])])) > setup.capacity + 1

\* ASSERT(nread == UV_EOF), cip_server.c:85: no read ends but at the end of
\* the stream.
NoAbort == pc # "abort"

\* The loop over the events in the ring ends, for every "event from client"
\* of cip_protocol.h:115.
ParseEnds == pc = "parse" ~> pc # "parse"
=============================================================================
