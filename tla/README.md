# cip-server in TLA+

cip-server shows the windows of an X server to remote clients. It runs two
threads that share a list of windows and a list of write requests, almost
without locks, and speaks a small protocol over TCP through ring buffers. The
specifications here model that core, TLC checks them on small instances, and
TLAPS proves the main invariants for all values of the constants.

Source paths are relative to the repository.

## The system

| Component | Source | State | Operations |
|---|---|---|---|
| Window event path | `src/cip_server.c` (`xorg_thread`, `emit_write`), `src/cip_channel.c` (`recover_state`, what `handle_event` writes into a node) | `cip_context.windows` with each node's fields, `wr_list->requests` and its mutex, the pending `uv_async_send`, which event channels are attached | one handler per X event (CREATE, DESTROY, MAP, UNMAP, CONFIGURE), drain of the requests to all sessions, walk of the window list for a client that attaches |
| Channel input | `src/cip_server.c` (`alloc_buffer`, `after_read`), `src/cip_channel.c` (`cip_channel_handle`), `src/cip_common.c` (`get_size_by_type`) | per socket: `rx_ring`, `connected`, `type` | a read into the ring, the connect message, the loop that takes events |
| Ring buffer | `src/ringbuf.c` | `buf`, `size`, `head`, `tail` | `new`, `reset`, `memset`, `memcpy_into`, `read`, `memcpy_from`, `write`, `copy`, `findchr` |
| Client input on windows | `src/cip_channel.c` (`handle_event`), `src/cip_common.c` (`find_window`) | a node's geometry, the X server's | move, resize, show-ready; pointer and key events, which keep nothing |
| Window streams | `src/cip_window.c`, `xorg_thread`'s DAMAGE branch, `cip_channel_handle`'s keyframes | each node's picture and encoder, `even_width`, `streamlock`, `stream_ready`; the frames in `wr_list->requests` | `stream_init`, `stream_reset`, `frame_send` |
| Sessions and channel lifetime | `src/cip_session.c`, `connection_cb`, `after_read`, `after_shutdown`, `emit_write` | `cip_context.sessions`, each channel's type and session | one session per accepted connect message, freed with its channel |
| Linked list | `include/list.h` | `next` and `prev` of each node | `INIT_LIST_HEAD`, `list_add`, `list_add_tail`, `list_del`, `list_for_each_entry` |
| Colour conversion | `src/cip_window.c` (`ARGBToI420`) | none | rows of pixels to planes of samples |
| Helpers, startup | `src/cip_common.c`, `main` | none of their own | `get_size_by_type`, `find_window`; the initial state |

How they interact:

- The **xorg thread** blocks in `xcb_wait_for_event`. A handler changes the
  window list without a lock, appends a `write_req_t` under
  `wr_list->mutex`, and calls `uv_async_send`.
- The **uv thread** runs libuv's callbacks one after the other: `emit_write`
  (drains the requests under the mutex and writes a copy to every session),
  `after_read` (and through it `cip_channel_handle`, `handle_event` and
  `recover_state`), `connection_cb`, `after_shutdown`.
- `uv_async_send` coalesces: several sends before the loop looks are one call
  of `emit_write`.
- `recover_state` and `handle_event` read and write the nodes of the window
  list from the uv thread, again without a lock.
- A client is told of a window twice over: by the walk when it attaches, and by
  the requests queued since.

What is hard here: the races of the two threads on the window list; the order
of queueing a request and updating a node; late joiners, who see the list and
the queue at different times; lost wake-ups; a node freed under a walk;
TCP delivering parts of messages, or several at once; a ring at its limit; wrap
and overflow arithmetic. `PROJECT.json` lists each hazard at its line, with the
properties that are about it.

What makes each component correct:

- *Event path*: a client that stays attached knows exactly the windows there
  are and shows exactly the mapped ones, at their geometry, once nothing is on
  its way; no request is forgotten; no node is read before it is initialised or
  after it was freed.
- *Ring buffer*: each ring is a bounded queue of bytes that overwrites the
  oldest bytes when it overflows; no copy leaves the buffer; every call returns.
- *Channel input*: events are taken once, in order and unaltered; the parser
  ends; no input stops the server.
- *Streams*: a picture and encoder are used by one thread at a time, while they
  exist, and with the size they were made for; frames stay whole and none is
  forgotten; the uv thread never waits for a stream nobody makes.
- *Sessions*: the list holds exactly the connected channels, a channel and its
  session are freed together and not used afterwards, and a broadcast reaches
  each channel of its type once.
- *List*: a walk without a lock meets every node that stays, no node twice, and
  can lose only the node it stands on.
- *Conversion*: only pixels of the image are read, and samples are in the range the
  encoder takes.

## Modules

| Module | What it is |
|---|---|
| `WindowEvents` | the event path: X events, the xorg thread step by step, the request list, `emit_write`, `recover_state`, clients that come and go |
| `MCWindowEvents` | small instances of it |
| `WindowEventsProofs` | two inductive invariants, what follows from them, and that it implements `ClientPromise` |
| `ClientPromise` | the abstract specification: what a client is promised of a window |
| `WindowPromise` | `WindowEvents` under a refinement mapping to it |
| `WindowStream` | the video streams and the clients' requests for windows, on top of `WindowEvents` |
| `MCWindowStream` | an instance of it with symmetric positions |
| `StreamProofs` | its inductive invariants and eight theorems: locks, wake-ups, types, sizes, misuse, positions, whole frames |
| `ListOps` | `list.h`: each function as the stores it makes |
| `ListRace` | the window list under two threads, store by store |
| `ListWalk` | the abstract specification: what a walk may meet, without an order |
| `ListProofs` | lemmas about `ListOps`: the links after each function, and where a walk leads |
| `ListRaceProofs` | the inductive invariant of `ListRace`, two invariants and the refinement |
| `SessionLife` | channels and sessions from accept to free, on the links of `ListOps` |
| `SessionRegistry` | the abstract specification: members, each told the broadcasts of its type |
| `SessionLifeProofs` | its inductive invariant, three invariants and the refinement |
| `RingOps` | a ring as a value, and the pieces of `ringbuf.c`'s loops as operators |
| `RingBuf` | the calls of `ringbuf.c` on a set of rings, iteration by iteration |
| `ByteFifo` | the abstract specification: bounded byte queues with calls |
| `RingFifo` | `RingBuf` under a refinement mapping to it |
| `MCRingBuf` | a small instance |
| `RingBufProofs` | lemmas about `RingOps`, two inductive invariants of `RingBuf`, the refinement, `findchr` |
| `RxChannel` | one socket from bytes to events, on top of `RingOps` |
| `MCRxChannel` | instances of it |
| `RxChannelProofs` | lemmas about flattened sequences and about a read into the ring's own memory, two inductive invariants, all its safety properties |
| `Colour` | `ARGBToI420` as operators |
| `ColourProofs` | two theorems about it |

How they hang together: `WindowStream` extends `WindowEvents`, whose picture of
the list as a set with a walk is `ListWalk`, which `ListRace` implements with
the stores of `ListOps`. `SessionLife` uses the same `ListOps`. `RxChannel` and
`RingBuf` share `RingOps`. What `RxChannel` hands to `handle_event` is an input
of `WindowStream`.

Operators whose comment says *Mutant* are altered forms of the definition that
follows them; none is used by a specification. `PROJECT.json` says which
property each one breaks.

### WindowEvents

One `xpc` value per point between two shared accesses of `xorg_thread`:

| Action | Code |
|---|---|
| `XCreate`, `XDestroy`, `XMap`, `XUnmap`, `XConfigure` | the X server changes and `xcb_wait_for_event` returns the event |
| `CreateLink`, `CreateInit` | `list_add` of the node (178), then its fields (179-191) |
| `DestroyUnlink` | `list_del` and `free` (219-225) |
| `MapViewable` | `viewable = 1` (245-251) |
| `Enqueue` | `list_add_tail` under the mutex, for every event type |
| `ConfigureMove`, `ConfigureResize` | the update of the node after CONFIGURE was queued (322-335); the size is compared with the queued buffer, which may be freed memory by then, so the comparison may come out either way |
| `AsyncSend` | `uv_async_send`, back to `xcb_wait_for_event` |
| `EmitBegin`, `EmitNext`, `EmitEnd` | `emit_write`: lock, one request to every session, unlock |
| `ConnectEvent` | a connect message of type EVENT: the session joins, the walk starts |
| `RecoverCreate`, `RecoverShow`, `RecoverFault` | the walk of `recover_state`, node by node; a node that was freed or not yet initialised is undefined behaviour, recorded in `fault`, and nothing is said of the run after it |
| `HandleGeometry` | `handle_event` writes what a client asked for into a node (99-125), before the X server has granted it; `find_window` may meet a raw or a freed node, which ends the run |
| `ReadEof`, `AfterShutdown` | a client leaves |

So between two X events a node's geometry is not X's, and `recover_state` passes
on what it finds there. What the code does promise of geometry is about the
queue: the drain's last word on a window is X's (`LastWordIsX`).

`entry[w]` is the node of window `w`, `Unset` while it holds what malloc
returned. `view[c][w]` abstracts the bytes written to socket `c` to what its
last messages say of `w`. The order of nodes in the list is abstracted to the
set `todo` of nodes a walk still has ahead: `list_add` inserts at the front, so
a walk never meets a node that was linked after it began, and loses one that
is unlinked before it gets there. Windows in `Preexisting` existed before the
server started and are never in the list: `xorg_thread` does not enumerate them.

### ClientPromise, WindowPromise

`ClientPromise` says of each client and window: whenever nothing is on its way,
the client knows the window exactly if the server has it and shows it if it is
mapped; and nothing is said unasked of a window that rests. The mapping takes
`fact` from the window list and the X server, `told` from `view`, and `settled`
from `Quiet`: the client's own walk is over, the window is not in the xorg
thread's hand, and no request about it is queued. `Settling` adds that a window
left alone settles for good; `calm` excludes runs a data race ended.

### WindowStream

Every action of `WindowEvents` that calls into `cip_window.c` starts a *job* of
its thread (`job[t]`), and the thread goes on when the job is done. Actions that
do not are taken over unchanged (`Plain`).

| Action | Code |
|---|---|
| `CreateStream` | `stream_init` in CREATE_NOTIFY, without the lock, then `stream_ready = 1` (server 186-190) |
| `DestroyStream` | the node is freed with its lock; encoder and picture leak. A pointer the uv thread holds dangles |
| `ResizeStream` | `stream_reset` in CONFIGURE_NOTIFY, if the queued buffer's size differs, or seems to once it was freed |
| `Damage` | DAMAGE_NOTIFY of a mapped window: a frame |
| `XApply` | the X server carries out a client's configure request |
| `InputMove`, `InputResize`, `InputShowReady`, `Seek`, `StoreGeometry`, `TellX`, `Spin` | `handle_event`: find the node, write it, tell X what it says by then, reset the stream, or spin on `stream_ready` |
| `ConnectDisplay`, `GreetOne`, `GreetNext` | a new display channel: a keyframe of each viewable window |
| `EmitFrame` | `emit_write` takes a request of type DISPLAY |
| `Find`, `TakeLock`, `Encode`, `QueueNal`, `Ring`, `GiveLock` | `frame_send`: the search and the test of the size without the lock, then under it image, conversion and encoding with its two early exits, and for each NAL the append under the mutex and `uv_async_send` |
| `Clean`, `InitStream` | `stream_reset`: clean and close, then `stream_init` with its early return below 4 and its `fail2` |

`stream[w]` keeps what was made and for which extent. x264 misused (closing
what is not open, encoding a picture of another size) ends the run and is
recorded in `misuse`; a read of a raw or freed node ends it in `fault`. `spoilt`
is history: nodes that once had a size `stream_init` refuses. Width and height
are one extent. `wr_list->requests` is two queues here, `requests` for events
and `frames`: no property relates the two kinds.

### ListOps, ListRace, ListWalk

`ListOps` gives each function of `list.h` as a sequence of stores, in the order
of the source. `ListRace` makes them one at a time on the xorg thread
(`AddBegin`, `DelBegin`, `StoreNext`, `AddEnd`, `DelEnd`) while the uv thread
walks (`WalkBegin`, `WalkNext`, `WalkEnd`, `WalkFault`). Stores become visible in
program order, as x86 has it; the C standard promises nothing for such a race.
The mapping to `ListWalk` takes a node as linked once a walk from the head
reaches it.

### SessionLife, SessionRegistry

All of it runs in callbacks of the uv thread, so a handler is a step: `Accept`
(`connection_cb`), `Connect` (the connect branch of `cip_channel_handle` and
`cip_session_new`), `ReadEof` and `ReadError` (`after_read`), `AfterShutdown`, and
`EmitNext` (`emit_write`'s walk of the sessions for one request). A channel that
leaves before it connected has no session to name: `after_shutdown` then uses
what malloc left, and the run ends as `fate = "undefined"`.
`SessionRegistry` is what the list is for; the mapping reads the members off the
links, and `ImplementsRegistry` asks every step but that last one to be a step of
the registry.

### Colour

Operators for `RGBToY`, `RGBToU`, `RGBToV`, the two row functions and
`ARGBToI420`, the argument check that returns -1 and the upside down image of a
negative height included. An odd width or height is modelled as the code has it;
the theorems say what holds for the even, positive ones `frame_send` passes.

### RingOps, RingBuf, ByteFifo

A ring is the C structure with pointers as offsets. A call is entered (its
overflow test is made then), each memcpy of its loop is a step (`IntoLoop`,
`FromLoop`, `CopyLoop`), and its return fixes up the tail. `memset` and `read`
differ from `memcpy_into` in what they write and how much, so they share its
loop, and so do `write` and `memcpy_from`. Counts that `memcpy_from`, `write`
and `copy` refuse change nothing and are no step. The variable `before` of
`loop` records the contents at the call; it exists for the properties only.

`ByteFifo` is what `include/ringbuf.h` promises: `Into` keeps the last
`Capacity` bytes of the queue and the data, `From` drops the oldest bytes,
`Copy` does both. The refinement mapping of `RingFifo` takes a call's effect at
its return: until then the abstract queues are those before the call.

### RxChannel

`Landed` is `alloc_buffer` and libuv's read: the bytes lie from the *tail* of
the ring on. `TakenIn` is `ringbuf_memcpy_into` from there into the same ring.
libuv is lent as many bytes as are free, wherever the buffer ends: a read longer
than what lies between tail and end writes over other objects of the heap.
`ReadOverruns` takes such a read and the run ends (`pc = "overrun"`); nothing is
said of the program after it. It happens to careful clients too, when the
tail nears the end and the next message does not fit before it: `EventsHandled` has to except it, and `OverrunNeedsLongStream`
says how long is long enough. A ring without room makes `AfterReadNoBuffer` end the
run in the assertion of `after_read`, whether bytes are waiting or not, and before
an end of the stream could be seen (`AfterReadEof` needs room). Where the areas of a memcpy
overlap, the result is undefined; the model lets it be either that of memmove
or that of a byte by byte copy upwards. A byte is its message and its place in
it; a byte that begins no message stands for the type `Stray`. `HandleConnect`,
`HandleOther`, `HandleEvents`, `ParseEvent` and `ParseStops` are
`cip_channel_handle`; each turn of its loop is a step. Message sizes are those
of the packed structs of `include/cip_protocol.h`.

When an event has size 0, the program calls `handle_event` on a variable it did
not write; the model leaves that call's effect out, and the turn changes
nothing, so that the loop shows as a behaviour that stays in `parse`.

A run looks at several instances at once (`Setups`), each with its ring, its
messages and the *manners* of client and TCP. Who `awaits` sends whole messages on
an event channel, never more than the ring has room for, and waits for the reply
to its connect message; who is `eager` does not wait; `any` client and network do
as they like. `WholeMessages`, `EventsHandled` and `AbortNeedsFlood` are about the first two;
`BytesCounted`, `DamageNeedsLeftovers` and `OverrunNeedsLongStream` about all.
`EventsHandled` is about an awaiting client and reaches up to the first event
whose type `get_size_by_type` does not know, which the run's client may send: that
event stops what is behind it and nothing before it.

## Runs

| Run | Instance | Shows |
|---|---|---|
| `window_events` | 2 windows, one preexisting; 2 clients (symmetric); 1 position, 1 size; 3 requests; 710 thousand states | types, `NoLostWakeup`, `ClientMirrorsLife`, `MappedIsShown`, `ForgetsOnlyUnlinked`, and that it implements `ClientPromise` |
| `window_events_live` | 1 window, 1 client; 2 positions, 2 sizes, which X and the client write; 2 requests; 59 thousand states | `LastWordIsX`: the drain that empties the queue of a window's geometry leaves the client with X's; under fairness requests are drained, a window that stays mapped comes up, a window left alone settles |
| `window_stream` | 1 window of extents 3 (too small), 5 (odd), 6 and 8 (refused by the encoder), frames of up to 2 NALs; 2 requests; positions symmetric; 2.1 million states | one user at a time, streams fit their nodes, misuse of x264 only in named cases, whole frames, no frame forgotten, positions settle, no vain spin |
| `session_life` | 3 clients, 2 channel types; 30 thousand states | the list is a ring through exactly the sessions there are, no dangling channel, undefined only after a leaver that never connected, implements `SessionRegistry` |
| `list_race` | 4 nodes, allocated again and again; 11 thousand states | the list is circular between operations, walks end, implements `ListWalk` |
| `ring_buffer` | rings of capacity 2 and 1, two byte values, counts to 4; 134 thousand states | the asserts of `ringbuf.c`, reads in order, `findchr`, refinement of `ByteFifo`, every call returns |
| `rx_channel` | capacity 14 with 6 messages of 6 and 5 bytes, one type unknown to the parser, awaited; capacity 14 with 4, eager; capacity 8 with 3, any segmentation; 58 thousand states | whole messages come out unaltered, counts stay right, only bytes left in the ring can be spoilt, a careful client's read never fails for want of room, an overrun needs a stream longer than the buffer, an event is handled unless one of unknown type or an overrun precedes it |
| `hidden_is_hidden` | 1 window, 1 client | *violated*: a client that attaches after UNMAP is told to show the window |
| `geometry_settles` | 1 window, 2 sizes, 1 client | *violated*: a client that attaches while a CONFIGURE is handled keeps the old geometry, though no client asked for any (`UnaskedSpec`) |
| `rx_fragment` | capacity 12, any segmentation | *violated*: the second part of a message lands on the first |
| `rx_full` | capacity 8, any client | *violated*: a ring nothing is taken from fills up and after_read asserts |
| `rx_stuck` | a client that awaits and sends WINDOW_FRAME_LISTEN | *violated*: the loop over the events never ends |

Why the bounds are enough. In the event path a property relates one window to
one client, and the steps of two windows interact only through the one event in
hand, the queue and the walk. A second window lets the walk have a node ahead
while another changes, and the preexisting one goes through the handlers that find
no node; a second client lets one be walked for while another is drained to. Three
requests let the queue hold a death, the next birth and a SHOW of the same
window. Geometry is only copied by the actions that `window_events` is about, so
it has one value there; `window_events_live` has two positions and two sizes, whose
writers meet in one window's node. Symmetry is used on clients only, and only where no liveness is
checked. The theorems then hold for any numbers. A stream belongs to one window
and the two threads contend for one lock, so one window shows what can go wrong;
its extents are one of each kind the code tells apart, and both threads can be in
a frame of two NALs. Two requests let a window die and another be born with its id
while the uv thread still searches for the first. Positions are only compared and
copied, hence symmetric. For sessions, three addresses let the first, the last and
one in the middle leave; for the list, four nodes let a walk stand on one while
its neighbours on both sides change. For the rings, capacity 1 and 2 (buffers of two
and three bytes) put every copy at every offset, counts up to 4 exceed the
larger buffer, and two byte values tell positions apart; the theorems are for
any size. For the channel, a buffer of 15 bytes and messages of 4, 6 and 5 let reads
fill it exactly, which wraps head and tail, stop short of its end, or run past
it; the real capacity, 1024, only delays wrap, overrun and exhaustion. The `rx` runs say CHECK_DEADLOCK FALSE because a client's input is
bounded by `MaxSend` and its channel really closes.

### Fairness

- `WF(XorgStep)`: the xorg thread, once it holds an event, is scheduled and
  waits only for the request mutex. It owes nothing in `xcb_wait_for_event`.
- `WF(EmitStep \/ RecoverStep)`: a libuv callback that began runs on.
- `SF(EmitBegin)`: libuv polls the async handle in every iteration of its loop,
  so it cannot be passed over for ever by other callbacks that come first; weak fairness
  would not do, since those other callbacks disable it again and again.
- X events and clients are not fair.
- In `RingBuf`, a call that began goes on. In `RxChannel`, a readable socket is
  read and a callback runs on.
- In `ListRace`, a walk that began goes on (`WF(Walk)`), while the other thread
  may work for ever or stop in the middle of an operation.
- `SessionLife` and `WindowStream` state no fairness. The one wait of the latter that
  could be in vain, `Spin`, is covered by the safety property `SpinHasMaker`.

## Proofs

All for arbitrary sets of windows, clients, geometries and bytes, any queue
bound, ring size and count, under the named assumptions of the modules
(`ConstantsAssumption`: the preexisting windows are windows, the special values
are not; `RingAssumption`: capacities and the largest count are naturals).

**`WindowEventsProofs`** proves `TypeOK`, `NoLostWakeup`, `ClientMirrorsLife` and
`ForgetsOnlyUnlinked`. `ClientMirrorsLife` is not inductive: it speaks only of
moments when nothing is on its way. `IInv` adds what holds meanwhile: `PcOK`
and `WalkOK` (what each program counter and cursor implies), `ListMirrorsX`
(the list holds the windows created under the server's eyes, except the one in
hand), `QueueAgrees` (the last birth or death queued of a window says whether
it exists), `DetachedIsBlank`, and `ClientAgrees` (a client's knowledge is
settled by the last message queued, or by the walk ahead of it, or is right
already). Each action is a lemma.

The same module proves `MappedIsShown` from `IInv` and `MapOK`, `NodeFollowsX`
(the node of a mapped window is viewable, but for a MAP in hand), `ShowIsLast`
(the last SHOW or HIDE queued of a mapped window is a SHOW) and `ClientShows`; and
`LastWordIsX` from `LastGeom`: the last request queued of a linked window's geometry
carries what X gave it, unless news of it is in hand. `HandleFrame` confines what
`HandleGeometry` does to a node's position and size and to `fault`.

It proves as well that `WindowEvents` implements `ClientPromise`. From the
invariant behind `MappedIsShown` it derives that what a client nothing is on its
way to was told is true (`QuietTruth`), that a step which leaves nothing of a window
in hand leaves its state alone (`FactKept`), and that nobody is told of a window
unasked (`ViewKept`).

**`RingBufProofs`** proves `TypeOK` (no loop leaves its buffer),
`BytesAccountedFor` and `OverflowLeavesFull`. Its lemmas
say what one memcpy does to the counts of one ring (`StoreRing`, `DropRing`,
`FixTailRing`). `RInv` adds `RoomOK`: a write that does not overflow was given
room for all its data. Without it the write's account is not inductive.

`QInv` adds the bytes, and gives `ReadsInOrder` and the refinement of `ByteFifo`. While
a call runs, the ring it reads holds what is left of its contents at the call
(`SourceOK`). The ring it writes is harder: once a write overflows, head and tail say
nothing until the tail is fixed at the return. `Trail(rb, T)` says of the bytes alone
that the last ones of `T` lie behind the head, as many as the buffer has, whether or
not the tail guards them. `TargetOK` says this of the old contents followed by what was
written so far, and a memcpy of any length extends it (`TrailOfStore`). At the
return the bytes between tail and head are the trail's last ones: all of them if
nothing overflowed (`ContentsOfTrail`), as many as fit if something did
(`ContentsFixed`), which is what `Into` and `Copy` of `ByteFifo` leave.
`FindChrFinds` is about a recursion over the offset. `UpTo`, which has the shape of an
induction principle but speaks of sets of numbers, follows from the
library's `NatLessThanWellFounded`; with it, there is a function that satisfies the
recursion (`SearchExists`) and each one finds the first byte (`SearchFinds`).

**`StreamProofs`** proves all invariants of `WindowStream`, for any windows,
sizes and bounds (`StreamAssumption`: sizes and bounds are naturals, no
thread is called `None`). `LockFollowsUse` from `LInv`: jobs are records, a
stream is made for the first time without the lock and by nothing but
`stream_init`, and the lock's holder is the thread at a place that uses the
stream; the free of a node takes its lock and the uv thread's claim with it.
`NoLostFrame` from `FramesHeard`. `SpinHasMaker` from `MInv`: the list has windows
of the X server only, a node is raw until its fields are assigned, a stream that
is not ready is about to be made, and the uv thread found its window when the
node was no longer raw.

On `LInv` and `MInv` rest the other five invariants of `WindowStream`. `FInv` is `ShapeOK` (what a job is at each place), `HeldOK` and `GoneOK`
(what the uv thread's window can be while it has a claim on it, and after it was
freed), `MadeOK` and `SizeOK` (which extent a stream was made for, and which it is
being made for): from it come `StreamFitsNode` and `MisuseIsExplained`. `GeomOK` adds
where windows are and gives the types; `PosOK` says which of node, X server and
request knows the last position and gives `PositionSettles`. `WInv` is about the
queue: `NalSeqs` (every frame is queued NAL by NAL), `RestOK` and `EndsOK` (what of a
frame is still to be queued is exactly what its thread has in hand) and `OrderOK`;
from it comes `FramesAreWhole`. The attempt to prove the last two found the run of
`WindowStream` too small: with one request it hid a frame sent for a new window of an
old id before that window's stream is made, and frames of a new window that follow
a half queued frame of a freed one. Both are in `MisuseIsExplained` and
`FramesAreWhole` now, and the run has two requests. The exception the latter makes for
a freed window is beyond the run's bounds; the theorem covers it.

**`ColourProofs`** proves `ConversionCorrect` (for every image of even size each plane
has the samples its stride has room for, all in the encoder's range, and only pixels
of the image are read) and `GreyIsNeutral`.

**`ListProofs`** holds what both lists need. `Circular` says where a walk leads, which no
step can be judged by. `RingOf(next, prev, q)` says instead that `next` follows the
sequence `q` of nodes one way round, without repetition, and `prev` the other; `Leads` is
the half of it a walk sees. `AddTailLinks` and `DelLinks` work out what the stores of
`list_add_tail` and `list_del` leave in the links, in their order, also where nodes
coincide (an empty list, a last node); `RingGrows`, `RingFront` and `RingCut` say that
the sequence gets the node at its end or its front, or loses it where it is. `MetIs`
and `ReachFrom` lead back: a walk from the anchor meets that sequence, one from a
node of it what comes after. The walk is a recursion; what it meets is proved
with `UpTo`, like `findchr`'s (`AddressAssumption`: finitely many addresses of nodes,
apart from the anchor, the poison and free memory).

**`SessionLifeProofs`** proves all properties of `SessionLife`, for any
clients, channel types and addresses (`SessionAssumption`: the bounds are naturals,
`Unset` is no address). `SInv` says that the links are a ring through some sequence
whose nodes are the allocated sessions, and that sessions and channels name each
other. The members of `SessionRegistry` are then the sequence with each session's
channel: `Connect` is `Join`, `AfterShutdown` is `Leave`, and `EmitNext` is
`Broadcast` because no channel is in two sessions (`OneCopy`). The invariant
holds whether or not a client that never connected has left (`fate`).

**`ListRaceProofs`** proves all properties of `ListRace` but its liveness, for lists of any
length (`ListAssumption`: `None` and `Freed` differ and are no addresses).
`WellFormed` speaks only of moments between two operations. `RaceInv` says what
the links are at each store of one (`AddAt`, `DelAt`): those of some ring, with the
stores made so far. From that comes what a walk sees meanwhile: the old ring until
the last store of an addition or the second of a deletion, the new one from then
on, and out of a node cut off already a link to its successor, until the third store
poisons it (`AddedStands`, `DeletedStands`). So no link leads to a node that was
freed (`TypeOK`), and the links are a ring again at the end (`WellFormed`). For the
refinement, the four ways a walk can stand (`LooksOff`, `LooksLost`, `LooksOn`,
`LooksHalf`) are what `ListWalk` sees of it. The node of an addition is linked by the
last store. That of a deletion is unlinked by the second store; for a walk that
stands on it, by the third, or by the walk leaving it, whichever comes first.

**`RxChannelProofs`** proves all properties of `RxChannel` but its liveness, for rings of
every capacity, zero included, any number of messages and every manner of client
(`RxAssumption`: the bound is a natural, `Stray` is an event's type or none). The
properties speak of flattened sequences of sequences, and `FlattenSeq` is a recursion;
with `UpTo` it is proved what it is of no sequence, of one more at the end
(`FlattenOneMore`), and of a sequence cut anywhere (`FlattenSplits`). `CInv` is the types
and `BytesCounted`, which is inductive with them: `SendStep`, `ReadStep` and `TakeStep`
say what a message sent, a read and a message taken do to the stream.
`DamageNeedsLeftovers` comes from `EmptyTakesIn`: in an empty ring head and tail are
one, and a read that stays in the buffer ends before its end, so there is one memcpy
and it copies its source onto itself. `OverrunNeedsLongStream` follows from `OInv`: a
tail has moved over no more bytes than were taken (`TailBehind`), so a read past
the end brings the bytes sent to more than the buffer has.

`WholeMessages` is not inductive: it says nothing of bytes still on their way. `MInv` adds
that what was taken first has the length of a connect message and, if it was one, what
came after has the lengths of the events it begins as (`OpeningOK`); that the ring is not
empty while a callback looks at it (`CallbackOK`); that what is on the wire from a
careful client begins with a message (`MannersOK`); and what holds at the return to the
loop (`Awaited`, `Emptied`). Items taken from the front of an intact stream whose lengths
are right are then the messages sent, one after the other (`Matching`), so what the
ring holds begins with the next message. That message is whole, because otherwise the
wire would begin inside it (`Ahead`). Therefore `HandleConnect` never returns for want of
bytes, `ParseStops` never happens (`NoStop`), and an awaited connect message is all there
is (`ConnectAlone`).

`AbortNeedsFlood` is the other side of `rx_full`: a careful client's bytes under way fit the
free space (`RoomLeft`), its connect message because by `BytesCounted` the ring is empty
before anything was sent, whatever comes later because every byte taken is free
again. It asks of the ring no more than room for any one event.

Only model-checked: everything about liveness, which is outside the prover's reach, as is
ENABLED (`RequestsDrained`, `MappedComesUp`, `KeepsPromiseInTheEnd`, `WalkEnds`, `CallsReturn`, `EventsHandled`). Every safety property a passing run checks is
a theorem.

## Not modelled

- Event channels in `WindowStream`: what they hear is `WindowEvents`'. Pointer and
  key input, which is passed to the X server and changes nothing else.
  WINDOW_DESTROY from a client: its size is 0, so the parser never gets past it
  (`rx_stuck`).
- That a client's resize reaches the X server's size in the end: a resize the
  X server refuses stays in the node, and the code does not claim otherwise.
- The payload of frames, time stamps, key frame flags; width and height apart.
- `find_window` and `frame_send`'s search are one step, except that the node may
  be freed under them; store by store they are `ListRace`'s walk.
- A processor that reorders stores: `ListRace` is about x86.
- PROPERTY_NOTIFY (prints a property), `xorg_after`, the session string and
  `rand_string` (nothing compares it), `find_session`, `event_len` and
  `cip_check_version` (not called, or without effect), option parsing, logging.
- The functions of `list.h` without a caller: moves, splices, hash lists,
  reverse walks.
- What lies behind a ring's buffer in the heap, and what becomes of the program once
  a read has written over it: the run ends at the overrun.
- That the geometry a late joiner is told is X's. `recover_state` sends what the node
  holds, which may be a client's unanswered request, the state before a CONFIGURE
  in hand (`geometry_settles`), or an old size after CONFIGURE_NOTIFY compared with
  freed memory.
- Allocation failure, and memory leaked: copies for sessions without a matching
  channel, a request allocated twice, encoder and picture of a destroyed window.
- x264, xcb, libuv and TCP are modelled by how the code uses them.

## Plan

Done, in order of what the rest depends on: the rings and the event path with
their proofs, channel input, streams and client input, sessions, the list,
the promise to clients, the colour conversion. What could still be added:

1. Liveness of streams: a damaged window's frame is sent in the end, under
   fairness of both threads and of the mutexes.
2. Two windows in `WindowStream`, once the state space allows it, for the order of
   frames of different windows.
