---------------------------- MODULE WindowEvents ----------------------------
(***************************************************************************)
(* How a change of an X window reaches the clients of cip-server.          *)
(*                                                                         *)
(* Two threads share the list of windows and the list of write requests.   *)
(* The xorg thread (cip_server.c, xorg_thread) takes one X event at a      *)
(* time, updates the window list without a lock, appends a write request   *)
(* under the mutex of the request list and rings uv_async_send.  The uv    *)
(* thread runs libuv's callbacks one after the other: emit_write drains    *)
(* the request list to every session, and a client that opens an event     *)
(* channel is first told the windows there are (recover_state), by a walk  *)
(* of the same list, again without a lock.                                 *)
(*                                                                         *)
(* What the X server does and xcb_wait_for_event are one action: the       *)
(* x-variables are the state of the X server at the event the xorg thread  *)
(* took last.  The stream of bytes written to a socket is summarised by    *)
(* what its last messages say of each window (view).                       *)
(*                                                                         *)
(* Reading a list node after free, or before its fields are assigned, is   *)
(* undefined: the first such read is recorded in fault and ends the run.   *)
(* The order of the nodes is abstracted.  list_add inserts at the front,   *)
(* so a walk never meets a node that was linked after the walk began.      *)
(***************************************************************************)
EXTENDS Naturals, Sequences

CONSTANTS Window,       \* X window ids, children of the root
          Pos,          \* values of x, y, bare
          Size,         \* values of width, height
          Channel,      \* sockets of clients
          Preexisting,  \* windows older than the server: never in its list
          MaxRequests,  \* bound: no X event is taken while this many wait
          None,         \* "no window", "no channel", "no geometry"
          Freed         \* the cursor of a walk whose node was freed

ASSUME ConstantsAssumption ==
  /\ Preexisting \subseteq Window
  /\ MaxRequests \in Nat \ {0}
  /\ None \notin Window \union Channel \union Pos \union Size
  /\ Freed \notin Window \union {None}

VARIABLES
  xlive, xmapped, xgeom,       \* X server: windows that exist, are mapped, their geometry
  ev, xpc,                     \* xorg thread: the event in hand, the next step
  windows, entry,              \* cip_context.windows: linked nodes, their fields
  requests,                    \* wr_list->requests
  asyncPending,                \* uv_async_send not yet answered by emit_write
  uvpc, walker, cur, todo,     \* uv thread: callback running, walk of recover_state
  status, view,                \* per socket: its state, what was written to it
  fault                        \* the first undefined read

xvars == <<xlive, xmapped, xgeom>>
uvvars == <<uvpc, walker, cur, todo>>
vars == <<xlive, xmapped, xgeom, ev, xpc, windows, entry, requests,
          asyncPending, uvpc, walker, cur, todo, status, view, fault>>

-----------------------------------------------------------------------------
(* Data *)

NoGeom == [pos |-> None, size |-> None]
Geom == [pos : Pos, size : Size]

\* The fields of a cip_window_t that the event path uses.
Unset == [pos |-> None, size |-> None, viewable |-> FALSE]
Entry == [pos : Pos \union {None}, size : Size \union {None}, viewable : BOOLEAN]

EventType == {"CREATE", "DESTROY", "SHOW", "HIDE", "CONFIGURE"}
LifeType == {"CREATE", "DESTROY"}
Request == [type : EventType, wid : Window,
            geom : [pos : Pos \union {None}, size : Size \union {None}]]

\* What the bytes written to a socket so far say of one window.
Blank == [known |-> FALSE, shown |-> FALSE, geom |-> NoGeom]
View == [known : BOOLEAN, shown : BOOLEAN,
         geom : [pos : Pos \union {None}, size : Size \union {None}]]

\* A message about a window, appended to what was said of it before.
Apply(v, type, geom) ==
  CASE type = "CREATE"    -> [known |-> TRUE, shown |-> FALSE, geom |-> geom]
    [] type = "DESTROY"   -> Blank
    [] type = "SHOW"      -> [v EXCEPT !.shown = TRUE]
    [] type = "HIDE"      -> [v EXCEPT !.shown = FALSE]
    [] type = "CONFIGURE" -> [v EXCEPT !.geom = geom]

Geometry(w) == [pos |-> entry[w].pos, size |-> entry[w].size]

\* The node is linked but cip_window_t is still what malloc returned.
Raw(w) == entry[w] = Unset

NoEvent == [type |-> "none", wid |-> None]

-----------------------------------------------------------------------------
Init ==
  /\ xlive = Preexisting
  /\ xmapped \in SUBSET Preexisting
  /\ xgeom \in [Window -> Geom \union {NoGeom}]
  /\ \A w \in Window : xgeom[w] = NoGeom <=> w \notin Preexisting
  /\ ev = NoEvent
  /\ xpc = "wait"
  /\ windows = {}
  /\ entry = [w \in Window |-> Unset]
  /\ requests = <<>>
  /\ asyncPending = FALSE
  /\ uvpc = "loop"
  /\ walker = None
  /\ cur = None
  /\ todo = {}
  /\ status = [c \in Channel |-> "absent"]
  /\ view = [c \in Channel |-> [w \in Window |-> Blank]]
  /\ fault = "none"

-----------------------------------------------------------------------------
(* The xorg thread *)

\* The threads run until something undefined was read.
AtX(pc) == fault = "none" /\ xpc = pc
AtUv(pc) == fault = "none" /\ uvpc = pc

\* xcb_wait_for_event returns an event about window w.
Take(type, w, pc) ==
  /\ AtX("wait")
  /\ Len(requests) < MaxRequests
  /\ ev' = [type |-> type, wid |-> w]
  /\ xpc' = pc
  /\ UNCHANGED <<windows, entry, requests, asyncPending, uvvars, status, view, fault>>

XCreate(w) ==
  /\ w \notin xlive
  /\ xlive' = xlive \union {w}
  /\ \E g \in Geom : xgeom' = [xgeom EXCEPT ![w] = g]
  /\ UNCHANGED xmapped
  /\ Take("CREATE", w, "link")

\* The X server unmaps a window before it destroys it.
XDestroy(w) ==
  /\ w \in xlive \ xmapped
  /\ xlive' = xlive \ {w}
  /\ xgeom' = [xgeom EXCEPT ![w] = NoGeom]
  /\ UNCHANGED xmapped
  /\ Take("DESTROY", w, "unlink")

XMap(w) ==
  /\ w \in xlive \ xmapped
  /\ xmapped' = xmapped \union {w}
  /\ UNCHANGED <<xlive, xgeom>>
  /\ Take("SHOW", w, "viewable")

\* The handler of UNMAP_NOTIFY leaves the window list alone.
XUnmap(w) ==
  /\ w \in xmapped
  /\ xmapped' = xmapped \ {w}
  /\ UNCHANGED <<xlive, xgeom>>
  /\ Take("HIDE", w, "queue")

XConfigure(w) ==
  /\ w \in xlive
  /\ \E g \in Geom : xgeom' = [xgeom EXCEPT ![w] = g]
  /\ UNCHANGED <<xlive, xmapped>>
  /\ Take("CONFIGURE", w, "queue")

\* CREATE_NOTIFY: the node is linked first ...
CreateLink ==
  /\ AtX("link")
  /\ windows' = windows \union {ev.wid}
  /\ xpc' = "init"
  /\ UNCHANGED <<xvars, ev, entry, requests, asyncPending, uvvars, status, view, fault>>

\* ... and its fields assigned afterwards.
CreateInit ==
  /\ AtX("init")
  /\ entry' = [entry EXCEPT ![ev.wid] =
                 [pos |-> xgeom[ev.wid].pos, size |-> xgeom[ev.wid].size, viewable |-> FALSE]]
  /\ xpc' = "queue"
  /\ UNCHANGED <<xvars, ev, windows, requests, asyncPending, uvvars, status, view, fault>>

\* Mutants: the node is freed but not unlinked; a walk saved the next node.
DestroyLinked ==
  /\ AtX("unlink")
  /\ entry' = [entry EXCEPT ![ev.wid] = Unset]
  /\ cur' = IF cur = ev.wid THEN Freed ELSE cur
  /\ xpc' = "queue"
  /\ UNCHANGED <<xvars, ev, windows, requests, asyncPending, uvpc, walker, todo, status, view, fault>>
DestroySavedNext ==
  /\ AtX("unlink")
  /\ windows' = windows \ {ev.wid}
  /\ entry' = [entry EXCEPT ![ev.wid] = Unset]
  /\ cur' = IF cur = ev.wid THEN Freed ELSE cur
  /\ xpc' = "queue"
  /\ UNCHANGED <<xvars, ev, requests, asyncPending, uvpc, walker, todo, status, view, fault>>

\* DESTROY_NOTIFY: list_del and free.  A walk that stands on the node keeps
\* a dangling pointer, one that has not reached it never will.
DestroyUnlink ==
  /\ AtX("unlink")
  /\ windows' = windows \ {ev.wid}
  /\ entry' = [entry EXCEPT ![ev.wid] = Unset]
  /\ cur' = IF cur = ev.wid THEN Freed ELSE cur
  /\ todo' = todo \ {ev.wid}
  /\ xpc' = "queue"
  /\ UNCHANGED <<xvars, ev, requests, asyncPending, uvpc, walker, status, view, fault>>

\* Mutant: MAP_NOTIFY queues SHOW and does not set viewable.
MapUnseen ==
  /\ AtX("viewable")
  /\ xpc' = "queue"
  /\ UNCHANGED <<xvars, ev, windows, entry, requests, asyncPending, uvvars, status, view, fault>>

MapViewable ==
  /\ AtX("viewable")
  /\ entry' = IF ev.wid \in windows
              THEN [entry EXCEPT ![ev.wid].viewable = TRUE]
              ELSE entry
  /\ xpc' = "queue"
  /\ UNCHANGED <<xvars, ev, windows, requests, asyncPending, uvvars, status, view, fault>>

\* Mutant: list_add, the request goes to the front.
EnqueueFront ==
  /\ AtX("queue")
  /\ uvpc # "drain"
  /\ requests' = <<[type |-> ev.type, wid |-> ev.wid,
        geom |-> IF ev.type \in {"CREATE", "CONFIGURE"} THEN xgeom[ev.wid] ELSE NoGeom]>> \o requests
  /\ xpc' = IF ev.type = "CONFIGURE" /\ ev.wid \in windows THEN "move" ELSE "async"
  /\ UNCHANGED <<xvars, ev, windows, entry, asyncPending, uvvars, status, view, fault>>

\* list_add_tail under the mutex, which emit_write holds while it drains.
Enqueue ==
  /\ AtX("queue")
  /\ uvpc # "drain"
  /\ requests' = Append(requests,
       [type |-> ev.type, wid |-> ev.wid,
        geom |-> IF ev.type \in {"CREATE", "CONFIGURE"} THEN xgeom[ev.wid] ELSE NoGeom])
  /\ xpc' = IF ev.type = "CONFIGURE" /\ ev.wid \in windows THEN "move" ELSE "async"
  /\ UNCHANGED <<xvars, ev, windows, entry, asyncPending, uvvars, status, view, fault>>

\* CONFIGURE_NOTIFY updates the node after its request was queued ...
ConfigureMove ==
  /\ AtX("move")
  /\ entry' = [entry EXCEPT ![ev.wid].pos = xgeom[ev.wid].pos]
  /\ xpc' = "resize"
  /\ UNCHANGED <<xvars, ev, windows, requests, asyncPending, uvvars, status, view, fault>>

\* ... and decides whether the size changed by reading the queued buffer.
\* Once emit_write drained the queue that buffer is freed memory and the
\* comparison may come out either way.
ConfigureResize ==
  /\ AtX("resize")
  /\ \/ entry' = [entry EXCEPT ![ev.wid].size = xgeom[ev.wid].size]
     \/ requests = <<>> /\ UNCHANGED entry
  /\ xpc' = "async"
  /\ UNCHANGED <<xvars, ev, windows, requests, asyncPending, uvvars, status, view, fault>>

\* Mutant: UNMAP_NOTIFY does not inform the uv thread.
AsyncSendNoHide ==
  /\ AtX("async")
  /\ asyncPending' = (asyncPending \/ ev.type # "HIDE")
  /\ xpc' = "wait"
  /\ ev' = NoEvent
  /\ UNCHANGED <<xvars, windows, entry, requests, uvvars, status, view, fault>>

AsyncSend ==
  /\ AtX("async")
  /\ asyncPending' = TRUE
  /\ xpc' = "wait"
  /\ ev' = NoEvent
  /\ UNCHANGED <<xvars, windows, entry, requests, uvvars, status, view, fault>>

-----------------------------------------------------------------------------
(* The uv thread *)

\* The loop takes up the async handle and emit_write locks the queue.
\* Sends that came since the last time are answered together.
EmitBegin ==
  /\ AtUv("loop")
  /\ asyncPending
  /\ asyncPending' = FALSE
  /\ uvpc' = "drain"
  /\ UNCHANGED <<xvars, ev, xpc, windows, entry, requests, walker, cur, todo, status, view, fault>>

\* Mutant: the request is written to one session and freed.
EmitToOne ==
  /\ AtUv("drain")
  /\ requests # <<>>
  /\ LET r == Head(requests) IN
       \E c \in Channel :
         /\ \A d \in Channel : status[d] = "event" => status[c] = "event"
         /\ view' = IF status[c] = "event"
                    THEN [view EXCEPT ![c][r.wid] = Apply(@, r.type, r.geom)]
                    ELSE view
  /\ requests' = Tail(requests)
  /\ UNCHANGED <<xvars, ev, xpc, windows, entry, asyncPending, uvvars, status, fault>>

\* One request is copied to the event channel of every session and freed.
\* libuv refuses a write to a socket that is being shut down.
EmitNext ==
  /\ AtUv("drain")
  /\ requests # <<>>
  /\ LET r == Head(requests) IN
       view' = [c \in Channel |->
                  IF status[c] = "event"
                  THEN [view[c] EXCEPT ![r.wid] = Apply(@, r.type, r.geom)]
                  ELSE view[c]]
  /\ requests' = Tail(requests)
  /\ UNCHANGED <<xvars, ev, xpc, windows, entry, asyncPending, uvvars, status, fault>>

EmitEnd ==
  /\ AtUv("drain")
  /\ requests = <<>>
  /\ uvpc' = "loop"
  /\ UNCHANGED <<xvars, ev, xpc, windows, entry, requests, asyncPending, walker, cur, todo,
                 status, view, fault>>

\* The cursor of recover_state moves on to one of the nodes still ahead.
Advance(ahead) ==
  \/ /\ ahead = {}
     /\ uvpc' = "loop" /\ walker' = None /\ cur' = None /\ todo' = {}
  \/ \E w \in ahead :
       /\ uvpc' = "create" /\ cur' = w /\ todo' = ahead \ {w}
       /\ UNCHANGED walker

\* A connect message of type EVENT: the session joins the sessions, and
\* recover_state starts at the head of the list.
ConnectEvent(c) ==
  /\ AtUv("loop")
  /\ status[c] = "absent"
  /\ status' = [status EXCEPT ![c] = "event"]
  /\ \/ windows = {} /\ UNCHANGED uvvars
     \/ \E w \in windows :
          /\ uvpc' = "create" /\ walker' = c /\ cur' = w /\ todo' = windows \ {w}
  /\ UNCHANGED <<xvars, ev, xpc, windows, entry, requests, asyncPending, view, fault>>

\* The walk reads a node that was freed, or one not yet initialised.
RecoverFault ==
  /\ AtUv("create") \/ AtUv("show")
  /\ \/ cur = Freed /\ fault' = "freed"
     \/ cur # Freed /\ Raw(cur) /\ fault' = "raw"
  /\ UNCHANGED <<xvars, ev, xpc, windows, entry, requests, asyncPending, uvvars, status, view>>

RecoverCreate ==
  /\ AtUv("create")
  /\ cur # Freed
  /\ ~Raw(cur)
  /\ view' = [view EXCEPT ![walker][cur] = Apply(@, "CREATE", Geometry(cur))]
  /\ uvpc' = "show"
  /\ UNCHANGED <<xvars, ev, xpc, windows, entry, requests, asyncPending, walker, cur, todo,
                 status, fault>>

RecoverShow ==
  /\ AtUv("show")
  /\ cur # Freed
  /\ view' = IF entry[cur].viewable
             THEN [view EXCEPT ![walker][cur] = Apply(@, "SHOW", NoGeom)]
             ELSE view
  /\ Advance(todo)
  /\ UNCHANGED <<xvars, ev, xpc, windows, entry, requests, asyncPending, status, fault>>

\* The client closed its end: after_read calls uv_shutdown.
ReadEof(c) ==
  /\ AtUv("loop")
  /\ status[c] = "event"
  /\ status' = [status EXCEPT ![c] = "closing"]
  /\ view' = [view EXCEPT ![c] = [w \in Window |-> Blank]]
  /\ UNCHANGED <<xvars, ev, xpc, windows, entry, requests, asyncPending, uvvars, fault>>

\* after_shutdown frees the channel and takes its session off the list.
AfterShutdown(c) ==
  /\ AtUv("loop")
  /\ status[c] = "closing"
  /\ status' = [status EXCEPT ![c] = "absent"]
  /\ UNCHANGED <<xvars, ev, xpc, windows, entry, requests, asyncPending, uvvars, view, fault>>

\* WINDOW_MOVE and WINDOW_RESIZE of a client, in handle_event: what it asks
\* for is in the node before the X server has granted it.  find_window meets
\* the newest node first, and the node it found may be freed meanwhile.
HandleGeometry(c) ==
  /\ AtUv("loop")
  /\ status[c] = "event"
  /\ \/ /\ \A w \in windows : ~Raw(w)
        /\ \E w \in windows :
             \/ \E p \in Pos : entry' = [entry EXCEPT ![w].pos = p]
             \/ \E s \in Size : entry' = [entry EXCEPT ![w].size = s]
        /\ UNCHANGED fault
     \/ /\ \/ (\E w \in windows : Raw(w)) /\ fault' = "raw"
           \/ xpc = "queue" /\ ev.type = "DESTROY" /\ fault' = "freed"
        /\ UNCHANGED entry
  /\ UNCHANGED <<xvars, ev, xpc, windows, requests, asyncPending, uvvars, status, view>>

-----------------------------------------------------------------------------
XEvent == \E w \in Window : XCreate(w) \/ XDestroy(w) \/ XMap(w) \/ XUnmap(w) \/ XConfigure(w)

XorgStep == CreateLink \/ CreateInit \/ DestroyUnlink \/ MapViewable \/ Enqueue
            \/ ConfigureMove \/ ConfigureResize \/ AsyncSend

EmitStep == EmitNext \/ EmitEnd
RecoverStep == RecoverFault \/ RecoverCreate \/ RecoverShow
ClientStep == \E c \in Channel : ConnectEvent(c) \/ ReadEof(c) \/ AfterShutdown(c)
HandleStep == \E c \in Channel : HandleGeometry(c)

\* An undefined read ends what the model says about the run.
Faulted == fault # "none" /\ UNCHANGED vars

Next == XEvent \/ XorgStep \/ EmitBegin \/ EmitStep \/ RecoverStep \/ ClientStep
        \/ HandleStep \/ Faulted

\* Both threads run, and libuv's loop serves the async handle in every
\* iteration, however many sockets are ready; clients and the X server owe
\* nothing.
Fairness ==
  /\ WF_vars(XorgStep)
  /\ WF_vars(EmitStep \/ RecoverStep)
  /\ SF_vars(EmitBegin)

Spec == Init /\ [][Next]_vars
FairSpec == Spec /\ Fairness

-----------------------------------------------------------------------------
(* Properties *)

\* Types of the variables, and where a walk of recover_state can stand.
TypeOK ==
  /\ xlive \in SUBSET Window
  /\ xmapped \in SUBSET xlive
  /\ xgeom \in [Window -> Geom \union {NoGeom}]
  /\ xpc \in {"wait", "link", "init", "unlink", "viewable", "queue", "move", "resize", "async"}
  /\ ev \in [type : EventType, wid : Window] \union {NoEvent}
  /\ xpc = "wait" <=> ev = NoEvent
  /\ windows \in SUBSET Window
  /\ entry \in [Window -> Entry]
  /\ requests \in Seq(Request)
  /\ asyncPending \in BOOLEAN
  /\ uvpc \in {"loop", "drain", "create", "show"}
  /\ walker \in Channel \union {None}
  /\ cur \in Window \union {None, Freed}
  /\ todo \in SUBSET windows
  /\ status \in [Channel -> {"absent", "event", "closing"}]
  /\ view \in [Channel -> [Window -> View]]
  /\ fault \in {"none", "freed", "raw"}

\* The xorg thread has an event of w's birth or death that it has not
\* queued yet.
InHand(w) ==
  /\ xpc \in {"link", "init", "unlink", "queue"}
  /\ ev.wid = w
  /\ ev.type \in LifeType

Queued(w, types) == {i \in DOMAIN requests : requests[i].wid = w /\ requests[i].type \in types}

\* The walk that greets c still has to tell it of w.
Ahead(c, w) == walker = c /\ (w \in todo \/ (cur = w /\ uvpc = "create"))

\* Nothing about w's birth or death is on its way to c.
Settled(c, w) ==
  /\ status[c] = "event"
  /\ ~InHand(w)
  /\ Queued(w, LifeType) = {}
  /\ ~Ahead(c, w)

\* No wake-up is lost although uv_async_send coalesces: requests in the
\* queue of an idle uv thread have a send pending, or the xorg thread is on
\* its way to uv_async_send (cip_server.c:205-210, 354-385).
NoLostWakeup ==
  requests # <<>> /\ uvpc \in {"loop", "create", "show"}
    => asyncPending \/ xpc \in {"move", "resize", "async"}

\* An event channel, whenever it was opened and whatever the walk of
\* recover_state and the queue told it twice, knows exactly the windows of
\* the X server that were created under the server's eyes, as soon as
\* nothing about the window is on its way.
ClientMirrorsLife ==
  \A c \in Channel, w \in Window :
    Settled(c, w) =>
      /\ view[c][w].known => w \in xlive
      /\ w \in xlive => view[c][w].known \/ w \in Preexisting

\* A mapped window of the list is shown on every event channel once nothing
\* about the window is on its way: neither a late joiner nor a client that
\* was there before can miss the SHOW.
MappedIsShown ==
  \A c \in Channel, w \in Window :
    /\ status[c] = "event" /\ walker # c
    /\ ~(xpc # "wait" /\ ev.wid = w)
    /\ Queued(w, EventType) = {}
    /\ w \in xmapped \intersect windows
    => view[c][w].shown

\* An attached client is told that a window is gone only when its node is
\* off the list, or the window was created anew and the CREATE is behind.
ForgetsOnlyUnlinked ==
  [][\A c \in Channel, w \in Window :
       /\ view[c][w].known /\ ~view'[c][w].known
       /\ status'[c] = "event"
       => w \notin windows \/ InHand(w) \/ Queued(w, {"CREATE"}) # {}]_vars

GeomType == {"CREATE", "CONFIGURE"}

\* The xorg thread has news of w's geometry, or of its end, that it has not
\* queued or taken to the list yet.
Unsaid(w) ==
  /\ xpc \in {"link", "init", "unlink", "queue"}
  /\ ev.wid = w /\ ev.type \in GeomType \union {"DESTROY"}

\* The last word a drain has on a window is the geometry X gave it last:
\* whatever a client asked for meanwhile, wrote into the node (handle_event)
\* or was told from it (recover_state), and whatever was queued before
\* (emit_write, xorg_thread's CREATE_NOTIFY and CONFIGURE_NOTIFY).
LastWordIsX ==
  [][\A c \in Channel, w \in windows :
       /\ status[c] = "event" /\ ~Unsaid(w)
       /\ Queued(w, GeomType) # {} /\ Queued(w, GeomType)' = {}
       => view'[c][w].geom = xgeom[w]]_vars

\* A queued request does not wait for ever.
RequestsDrained == (requests # <<>>) ~> (requests = <<>> \/ fault # "none")

\* If from some time on a client stays attached and a window that was
\* created under the server's eyes stays mapped, the client comes to show it
\* and keeps showing it.
MappedComesUp ==
  \A c \in Channel, w \in Window :
    <>[](status[c] = "event" /\ w \in xmapped /\ w \in windows)
      => <>[](view[c][w].shown \/ fault # "none")

\* recover_state: "recover window state to event channel" (cip_channel.c:25),
\* "if viewable send show window event" (cip_channel.c:47).  A window that is
\* not mapped should not be shown by a client nothing is on its way to.
HiddenIsHidden ==
  \A c \in Channel, w \in Window :
    /\ status[c] = "event" /\ walker # c
    /\ ~(xpc # "wait" /\ ev.wid = w)
    /\ Queued(w, EventType) = {}
    /\ w \in windows \ xmapped
    => ~view[c][w].shown

\* "recover window state to event channel" (cip_channel.c:25): a client that
\* nothing is on its way to has the geometry of the window, when the node
\* holds what X said and no client's request.
GeometrySettles ==
  \A c \in Channel, w \in Window :
    /\ status[c] = "event" /\ walker # c
    /\ ~(xpc # "wait" /\ ev.wid = w)
    /\ Queued(w, EventType) = {}
    /\ w \in windows /\ Geometry(w) = xgeom[w]
    => view[c][w].geom = xgeom[w]
=============================================================================
