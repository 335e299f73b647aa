------------------------- MODULE WindowEventsProofs -------------------------
(* What is proved of WindowEvents, for every value of its constants: its   *)
(* invariants, that no client misses a SHOW, that X has the last word on   *)
(* geometry, and that it implements ClientPromise.                         *)
EXTENDS WindowPromise, SequenceTheorems, TLAPS

-----------------------------------------------------------------------------
(* The inductive invariant of the list and what the clients know, in parts. *)

\* The step of the xorg thread, the event in its hand and the list fit.
PcOK ==
  /\ xpc # "wait" => ev # NoEvent
  /\ xpc \in {"link", "init"} => ev.type = "CREATE"
  /\ xpc = "unlink" => ev.type = "DESTROY"
  /\ xpc = "viewable" => ev.type = "SHOW"
  /\ xpc \in {"move", "resize"} => ev.type = "CONFIGURE" /\ ev.wid \in windows
  /\ xpc = "init" => ev.wid \in windows
  /\ xpc = "queue" /\ ev.type = "CREATE" => ev.wid \in windows
  /\ xpc = "queue" /\ ev.type = "DESTROY" => ev.wid \notin windows
  /\ xpc # "wait" => (ev.type = "DESTROY" <=> ev.wid \notin xlive)

\* A walk stands on a node of the list, or on one that was freed.
WalkOK ==
  /\ uvpc \in {"loop", "drain"} => walker = None /\ cur = None /\ todo = {}
  /\ uvpc \in {"create", "show"} =>
       /\ walker \in Channel /\ status[walker] = "event"
       /\ cur \in windows \union {Freed}
       /\ cur \notin todo

\* The list holds the windows created since the server started.
ListMirrorsX ==
  \A w \in Window : ~InHand(w) =>
    /\ w \in windows => w \in xlive
    /\ w \in xlive => w \in windows \union Preexisting

\* The last queued birth or death of w is what the list says.
QueueAgrees ==
  \A w \in Window : ~InHand(w) =>
    /\ w \in windows =>
         \A i \in Queued(w, {"DESTROY"}) : \E j \in Queued(w, {"CREATE"}) : i < j
    /\ w \notin windows =>
         \A i \in Queued(w, {"CREATE"}) : \E j \in Queued(w, {"DESTROY"}) : i < j

\* A socket nobody is attached to was told nothing yet.
DetachedIsBlank ==
  \A c \in Channel, w \in Window : status[c] # "event" => ~view[c][w].known

\* A client nothing is on its way to knows what is on the list.
ClientAgrees ==
  \A c \in Channel, w \in Window :
    Settled(c, w) => (view[c][w].known <=> w \in windows)

IInv ==
  /\ TypeOK /\ PcOK /\ WalkOK /\ ListMirrorsX
  /\ NoLostWakeup /\ QueueAgrees /\ DetachedIsBlank /\ ClientAgrees

-----------------------------------------------------------------------------
(* Type correctness, with what the program counters say. *)

Shape == TypeOK /\ PcOK /\ WalkOK

\* Assigning one field of a node keeps it a node.
LEMMA EntryUpdate ==
  ASSUME NEW e \in Entry, NEW p \in Pos \union {None}, NEW s \in Size \union {None}
  PROVE  /\ [e EXCEPT !.pos = p] \in Entry
         /\ [e EXCEPT !.size = s] \in Entry
         /\ [e EXCEPT !.viewable = TRUE] \in Entry
<1>1. [e EXCEPT !.pos = p] \in Entry
  BY Zenon DEF Entry
<1>2. [e EXCEPT !.size = s] \in Entry
  BY Zenon DEF Entry
<1>3. [e EXCEPT !.viewable = TRUE] \in Entry
  BY Zenon DEF Entry
<1> QED
  BY <1>1, <1>2, <1>3

\* What a client asks for in handle_event changes its window's node at most,
\* and there neither its type nor whether it is viewable.
LEMMA HandleFrame ==
  ASSUME Shape, HandleStep
  PROVE  /\ UNCHANGED <<xlive, xmapped, xgeom, ev, xpc, windows, requests, asyncPending,
                        uvpc, walker, cur, todo, status, view>>
         /\ fault' \in {"none", "freed", "raw"}
         /\ entry' \in [Window -> Entry]
         /\ \A w \in Window : entry'[w].viewable = entry[w].viewable
<1>1. PICK c \in Channel : HandleGeometry(c)
  BY DEF HandleStep
<1>2. entry \in [Window -> Entry] /\ windows \in SUBSET Window /\ fault = "none"
  BY <1>1 DEF Shape, TypeOK, HandleGeometry, AtUv
<1>3. ASSUME NEW u \in windows, NEW p \in Pos, entry' = [entry EXCEPT ![u].pos = p]
      PROVE  /\ entry' \in [Window -> Entry]
             /\ \A w \in Window : entry'[w].viewable = entry[w].viewable
  <2>1. [entry[u] EXCEPT !.pos = p] \in Entry
    BY <1>2, EntryUpdate
  <2>2. [entry[u] EXCEPT !.pos = p].viewable = entry[u].viewable
    BY <1>2 DEF Entry
  <2> QED
    BY <1>2, <1>3, <2>1, <2>2
<1>4. ASSUME NEW u \in windows, NEW s \in Size, entry' = [entry EXCEPT ![u].size = s]
      PROVE  /\ entry' \in [Window -> Entry]
             /\ \A w \in Window : entry'[w].viewable = entry[w].viewable
  <2>1. [entry[u] EXCEPT !.size = s] \in Entry
    BY <1>2, EntryUpdate
  <2>2. [entry[u] EXCEPT !.size = s].viewable = entry[u].viewable
    BY <1>2 DEF Entry
  <2> QED
    BY <1>2, <1>4, <2>1, <2>2
<1>5. ASSUME UNCHANGED entry
      PROVE  /\ entry' \in [Window -> Entry]
             /\ \A w \in Window : entry'[w].viewable = entry[w].viewable
  BY <1>2, <1>5
<1>6. /\ entry' \in [Window -> Entry]
      /\ \A w \in Window : entry'[w].viewable = entry[w].viewable
  BY <1>1, <1>3, <1>4, <1>5 DEF HandleGeometry
<1> QED
  BY <1>1, <1>2, <1>6 DEF HandleGeometry, xvars, uvvars

LEMMA ShapeInit == Init => Shape
<1> SUFFICES ASSUME Init PROVE Shape
  OBVIOUS
<1> USE ConstantsAssumption DEF Init
<1>1. TypeOK
  <2>1. xgeom \in [Window -> Geom \union {NoGeom}]
    OBVIOUS
  <2>2. xmapped \in SUBSET xlive /\ xlive \in SUBSET Window
    OBVIOUS
  <2>3. entry \in [Window -> Entry]
    BY DEF Entry, Unset
  <2>4. requests \in Seq(Request)
    OBVIOUS
  <2>5. view \in [Channel -> [Window -> View]]
    BY DEF View, Blank, NoGeom
  <2>6. ev \in [type : EventType, wid : Window] \union {NoEvent} /\ (xpc = "wait" <=> ev = NoEvent)
    OBVIOUS
  <2>7. status \in [Channel -> {"absent", "event", "closing"}]
    OBVIOUS
  <2> QED
    BY <2>1, <2>2, <2>3, <2>4, <2>5, <2>6, <2>7 DEF TypeOK
<1>2. PcOK
  BY DEF PcOK, NoEvent
<1>3. WalkOK
  BY DEF WalkOK
<1> QED
  BY <1>1, <1>2, <1>3 DEF Shape

LEMMA ShapeStep == Shape /\ [Next]_vars => Shape'
<1> SUFFICES ASSUME Shape, [Next]_vars PROVE Shape'
  OBVIOUS
<1> USE ConstantsAssumption DEF Shape, TypeOK, PcOK, WalkOK, vars, xvars, uvvars, AtX, AtUv
<1>1. ASSUME NEW w \in Window, XCreate(w) PROVE Shape'
  <2>1. xgeom' \in [Window -> Geom \union {NoGeom}]
    BY <1>1 DEF XCreate
  <2>2. xlive' \in SUBSET Window /\ xmapped' \in SUBSET xlive' /\ w \in xlive'
    BY <1>1 DEF XCreate
  <2> QED
    BY <1>1, <2>1, <2>2 DEF XCreate, Take, EventType, NoEvent
<1>2. ASSUME NEW w \in Window, XDestroy(w) PROVE Shape'
  BY <1>2 DEF XDestroy, Take, EventType, NoEvent
<1>3. ASSUME NEW w \in Window, XMap(w) PROVE Shape'
  BY <1>3 DEF XMap, Take, EventType, NoEvent
<1>4. ASSUME NEW w \in Window, XUnmap(w) PROVE Shape'
  BY <1>4 DEF XUnmap, Take, EventType, NoEvent
<1>5. ASSUME NEW w \in Window, XConfigure(w) PROVE Shape'
  BY <1>5 DEF XConfigure, Take, EventType, NoEvent
<1>6. CASE CreateLink
  BY <1>6 DEF CreateLink, EventType, NoEvent
<1>7. CASE CreateInit
  BY <1>7 DEF CreateInit, EventType, NoEvent, Entry, Geom, NoGeom
<1>8. CASE DestroyUnlink
  BY <1>8 DEF DestroyUnlink, EventType, NoEvent, Entry, Unset
<1>9. CASE MapViewable
  <2>1. entry' \in [Window -> Entry]
    <3>1. ASSUME NEW w \in Window PROVE [entry[w] EXCEPT !.viewable = TRUE] \in Entry
      BY EntryUpdate
    <3> QED
      BY <1>9, <3>1 DEF MapViewable
  <2> QED
    BY <1>9, <2>1 DEF MapViewable, EventType, NoEvent
<1>10. CASE Enqueue
  BY <1>10 DEF Enqueue, EventType, NoEvent, Request, Geom, NoGeom
<1>11. CASE ConfigureMove
  <2>1. xgeom[ev.wid].pos \in Pos \union {None}
    BY <1>11 DEF ConfigureMove, Geom, NoGeom, NoEvent
  <2>2. entry' \in [Window -> Entry]
    <3>1. ev.wid \in Window
      BY <1>11 DEF ConfigureMove, NoEvent
    <3>2. [entry[ev.wid] EXCEPT !.pos = xgeom[ev.wid].pos] \in Entry
      BY <2>1, <3>1, EntryUpdate
    <3> QED
      BY <1>11, <3>1, <3>2 DEF ConfigureMove
  <2> QED
    BY <1>11, <2>2 DEF ConfigureMove, EventType, NoEvent
<1>12. CASE ConfigureResize
  <2>1. xgeom[ev.wid].size \in Size \union {None}
    BY <1>12 DEF ConfigureResize, Geom, NoGeom, NoEvent
  <2>2. entry' \in [Window -> Entry]
    <3>1. ev.wid \in Window
      BY <1>12 DEF ConfigureResize, NoEvent
    <3>2. [entry[ev.wid] EXCEPT !.size = xgeom[ev.wid].size] \in Entry
      BY <2>1, <3>1, EntryUpdate
    <3> QED
      BY <1>12, <3>1, <3>2 DEF ConfigureResize
  <2> QED
    BY <1>12, <2>2 DEF ConfigureResize, EventType, NoEvent
<1>13. CASE AsyncSend
  BY <1>13 DEF AsyncSend
<1>14. CASE EmitBegin
  BY <1>14 DEF EmitBegin
<1>15. CASE EmitNext
  <2> DEFINE r == Head(requests)
  <2>1. r \in Request /\ requests' \in Seq(Request)
    BY <1>15 DEF EmitNext
  <2>2. ASSUME NEW v \in View PROVE Apply(v, r.type, r.geom) \in View
    BY <2>1, <2>2 DEF Apply, View, Blank, NoGeom, Request, EventType
  <2>3. view' \in [Channel -> [Window -> View]]
    BY <1>15, <2>1, <2>2 DEF EmitNext, Request
  <2> QED
    BY <1>15, <2>1, <2>3 DEF EmitNext
<1>16. CASE EmitEnd
  BY <1>16 DEF EmitEnd
<1>17. ASSUME NEW c \in Channel, ConnectEvent(c) PROVE Shape'
  BY <1>17 DEF ConnectEvent
<1>18. CASE RecoverFault
  BY <1>18 DEF RecoverFault
<1>19. CASE RecoverCreate
  BY <1>19 DEF RecoverCreate, View, Apply, Geometry, Entry
<1>20. CASE RecoverShow
  <2>1. walker \in Channel /\ cur \in windows /\ cur \in Window
    BY <1>20 DEF RecoverShow
  <2>2. ASSUME NEW v \in View PROVE Apply(v, "SHOW", NoGeom) \in View
    BY <2>2 DEF Apply, View
  <2>3. view' \in [Channel -> [Window -> View]]
    BY <1>20, <2>1, <2>2 DEF RecoverShow
  <2>4. CASE todo = {}
    BY <1>20, <2>3, <2>4 DEF RecoverShow, Advance
  <2>5. ASSUME NEW n \in todo, uvpc' = "create", cur' = n, todo' = todo \ {n}, UNCHANGED walker
        PROVE Shape'
    BY <1>20, <2>1, <2>3, <2>5 DEF RecoverShow
  <2> QED
    BY <1>20, <2>4, <2>5 DEF RecoverShow, Advance
<1>21. ASSUME NEW c \in Channel, ReadEof(c) PROVE Shape'
  BY <1>21 DEF ReadEof, View, Blank, NoGeom
<1>22. ASSUME NEW c \in Channel, AfterShutdown(c) PROVE Shape'
  BY <1>22 DEF AfterShutdown
<1>23. CASE HandleStep
  BY <1>23, HandleFrame
<1>24. CASE Faulted \/ UNCHANGED vars
  BY <1>24 DEF Faulted
<1> QED
  BY <1>1, <1>2, <1>3, <1>4, <1>5, <1>6, <1>7, <1>8, <1>9, <1>10, <1>11, <1>12, <1>13,
     <1>14, <1>15, <1>16, <1>17, <1>18, <1>19, <1>20, <1>21, <1>22, <1>23, <1>24
     DEF Next, XEvent, XorgStep, EmitStep, RecoverStep, ClientStep

-----------------------------------------------------------------------------
(* The uv thread never writes what the xorg thread owns. *)

LEMMA UvFrame ==
  ASSUME EmitBegin \/ EmitStep \/ RecoverStep \/ ClientStep \/ Faulted \/ UNCHANGED vars
  PROVE  UNCHANGED <<xlive, xmapped, xgeom, ev, xpc, windows, entry>>
BY DEF EmitBegin, EmitStep, EmitNext, EmitEnd, RecoverStep, RecoverFault, RecoverCreate,
       RecoverShow, ClientStep, ConnectEvent, ReadEof, AfterShutdown, Faulted, vars, xvars

-----------------------------------------------------------------------------
(* Lost wake-ups. *)

LEMMA WakeupStep == Shape /\ NoLostWakeup /\ [Next]_vars => NoLostWakeup'
<1> SUFFICES ASSUME Shape, NoLostWakeup, [Next]_vars PROVE NoLostWakeup'
  OBVIOUS
<1> USE DEF NoLostWakeup, uvvars
<1>1. CASE XEvent
  <2>1. xpc = "wait" /\ UNCHANGED <<requests, asyncPending, uvpc>>
    BY <1>1 DEF XEvent, XCreate, XDestroy, XMap, XUnmap, XConfigure, Take, AtX
  <2> QED
    BY <2>1
<1>2. CASE XorgStep
  BY <1>2 DEF XorgStep, CreateLink, CreateInit, DestroyUnlink, MapViewable, Enqueue,
              ConfigureMove, ConfigureResize, AsyncSend, AtX
<1>3. CASE EmitBegin
  BY <1>3 DEF EmitBegin
<1>4. CASE EmitStep
  BY <1>4 DEF EmitStep, EmitNext, EmitEnd, AtUv
<1>5. CASE RecoverStep
  BY <1>5 DEF RecoverStep, RecoverFault, RecoverCreate, RecoverShow, Advance, AtUv
<1>6. CASE ClientStep
  BY <1>6 DEF ClientStep, ConnectEvent, ReadEof, AfterShutdown, AtUv
<1>7. CASE HandleStep
  BY <1>7, HandleFrame
<1>8. CASE Faulted \/ UNCHANGED vars
  BY <1>8 DEF Faulted, vars
<1> QED
  BY <1>1, <1>2, <1>3, <1>4, <1>5, <1>6, <1>7, <1>8 DEF Next

-----------------------------------------------------------------------------
(* The list of windows against the X server. *)

LEMMA ListStep == Shape /\ ListMirrorsX /\ [Next]_vars => ListMirrorsX'
<1> SUFFICES ASSUME Shape, ListMirrorsX, [Next]_vars,
                    NEW w \in Window, ~InHand(w)'
             PROVE  (w \in windows => w \in xlive)' /\ (w \in xlive => w \in windows \union Preexisting)'
  BY DEF ListMirrorsX
<1> USE DEF ListMirrorsX, InHand, LifeType, AtX, xvars
<1>1. CASE XEvent
  BY <1>1 DEF XEvent, XCreate, XDestroy, XMap, XUnmap, XConfigure, Take, Shape, PcOK
<1>2. CASE XorgStep
  BY <1>2 DEF XorgStep, CreateLink, CreateInit, DestroyUnlink, MapViewable, Enqueue,
              ConfigureMove, ConfigureResize, AsyncSend, Shape, PcOK
<1>3. CASE UNCHANGED <<xlive, ev, xpc, windows>>
  BY <1>3
<1> QED
  BY <1>1, <1>2, <1>3, UvFrame, HandleFrame DEF Next

-----------------------------------------------------------------------------
(* The queue. *)

\* Where the requests about a window are after one is appended.
LEMMA QueuedAppend ==
  ASSUME requests \in Seq(Request), NEW r \in Request, requests' = Append(requests, r),
         NEW w \in Window, NEW types
  PROVE  /\ Queued(w, types) \subseteq 1..Len(requests)
         /\ r.wid = w /\ r.type \in types
              => Queued(w, types)' = Queued(w, types) \union {Len(requests) + 1}
         /\ ~(r.wid = w /\ r.type \in types) => Queued(w, types)' = Queued(w, types)
<1>1. /\ DOMAIN requests = 1..Len(requests) /\ Len(requests) \in Nat
      /\ DOMAIN requests' = 1..(Len(requests) + 1)
      /\ requests'[Len(requests) + 1] = r
      /\ \A i \in 1..Len(requests) : requests'[i] = requests[i]
  OBVIOUS
<1> QED
  BY <1>1 DEF Queued

\* Where they are after the first request is taken off.
LEMMA QueuedTail ==
  ASSUME requests \in Seq(Request), requests # <<>>, requests' = Tail(requests),
         NEW w \in Window, NEW types
  PROVE  /\ Queued(w, types) \subseteq 1..Len(requests)
         /\ Queued(w, types)' = {i \in 1..(Len(requests) - 1) : i + 1 \in Queued(w, types)}
         /\ 1 \in Queued(w, types) <=> Head(requests).wid = w /\ Head(requests).type \in types
<1>1. /\ DOMAIN requests = 1..Len(requests) /\ Len(requests) \in Nat \ {0}
      /\ DOMAIN requests' = 1..(Len(requests) - 1)
      /\ Head(requests) = requests[1]
      /\ \A i \in 1..(Len(requests) - 1) : requests'[i] = requests[i + 1]
  OBVIOUS
<1> QED
  BY <1>1 DEF Queued

\* All that the proofs use of the queue when it did not change.
LEMMA QueuedSame ==
  ASSUME requests' = requests, NEW w, NEW types
  PROVE  Queued(w, types)' = Queued(w, types)
BY DEF Queued

\* What Enqueue appends, and the window it is about.
LEMMA EnqueueFacts ==
  ASSUME Shape, Enqueue
  PROVE  \E r \in Request :
           /\ requests' = Append(requests, r)
           /\ r.wid = ev.wid /\ r.type = ev.type
           /\ r.type = "CREATE" => ev.wid \in windows
           /\ r.type = "DESTROY" => ev.wid \notin windows
           /\ r.type \in GeomType => r.geom = xgeom[ev.wid]
           /\ UNCHANGED <<windows, ev, view, status, uvpc, walker, cur, todo>>
           /\ xpc' \in {"move", "async"}
<1> DEFINE r == [type |-> ev.type, wid |-> ev.wid,
                 geom |-> IF ev.type \in {"CREATE", "CONFIGURE"} THEN xgeom[ev.wid] ELSE NoGeom]
<1>1. ev \in [type : EventType, wid : Window] /\ xgeom[ev.wid] \in Geom \union {NoGeom}
  BY DEF Enqueue, Shape, TypeOK, PcOK, AtX
<1>2. r \in Request
  BY <1>1 DEF Request, Geom, NoGeom
<1>3. WITNESS r \in Request
<1> QED
  BY <1>2 DEF Enqueue, Shape, PcOK, AtX, uvvars, GeomType

LEMMA QueueStep == Shape /\ QueueAgrees /\ [Next]_vars => QueueAgrees'
<1> SUFFICES ASSUME Shape, QueueAgrees, [Next]_vars, NEW w \in Window, ~InHand(w)'
             PROVE  /\ w \in windows' =>
                         \A i \in Queued(w, {"DESTROY"})' : \E j \in Queued(w, {"CREATE"})' : i < j
                    /\ w \notin windows' =>
                         \A i \in Queued(w, {"CREATE"})' : \E j \in Queued(w, {"DESTROY"})' : i < j
  BY DEF QueueAgrees
<1> DEFINE Goal == /\ w \in windows' =>
                        \A i \in Queued(w, {"DESTROY"})' : \E j \in Queued(w, {"CREATE"})' : i < j
                   /\ w \notin windows' =>
                        \A i \in Queued(w, {"CREATE"})' : \E j \in Queued(w, {"DESTROY"})' : i < j
<1>0. requests \in Seq(Request)
  BY DEF Shape, TypeOK
<1>1. ASSUME requests' = requests, ~InHand(w), w \in windows <=> w \in windows'
      PROVE  Goal
  BY <1>1, QueuedSame DEF QueueAgrees
<1>2. CASE XEvent
  <2>1. requests' = requests /\ windows' = windows /\ xpc = "wait"
    BY <1>2 DEF XEvent, XCreate, XDestroy, XMap, XUnmap, XConfigure, Take, AtX
  <2> QED
    BY <1>1, <2>1 DEF InHand
<1>3. CASE CreateLink \/ CreateInit \/ DestroyUnlink \/ MapViewable
  <2>1. requests' = requests /\ ~InHand(w) /\ (w \in windows <=> w \in windows')
    BY <1>3 DEF CreateLink, CreateInit, DestroyUnlink, MapViewable, AtX, InHand, LifeType, Shape, PcOK
  <2> QED
    BY <1>1, <2>1
<1>4. CASE Enqueue
  <2> PICK r \in Request :
        /\ requests' = Append(requests, r)
        /\ r.wid = ev.wid /\ r.type = ev.type
        /\ r.type = "CREATE" => ev.wid \in windows
        /\ r.type = "DESTROY" => ev.wid \notin windows
        /\ windows' = windows
    BY <1>4, EnqueueFacts
  <2>1. CASE r.wid = w /\ r.type = "CREATE"
    <3>1. Queued(w, {"CREATE"})' = Queued(w, {"CREATE"}) \union {Len(requests) + 1}
      BY <1>0, <2>1, QueuedAppend
    <3>2. Queued(w, {"DESTROY"})' \subseteq 1..Len(requests)
      BY <1>0, <2>1, QueuedAppend
    <3>3. Len(requests) \in Nat /\ \A i \in 1..Len(requests) : i < Len(requests) + 1
      BY <1>0
    <3>4. w \in windows'
      BY <2>1
    <3> QED
      BY <3>1, <3>2, <3>3, <3>4
  <2>2. CASE r.wid = w /\ r.type = "DESTROY"
    <3>1. Queued(w, {"DESTROY"})' = Queued(w, {"DESTROY"}) \union {Len(requests) + 1}
      BY <1>0, <2>2, QueuedAppend
    <3>2. Queued(w, {"CREATE"})' \subseteq 1..Len(requests)
      BY <1>0, <2>2, QueuedAppend
    <3>3. Len(requests) \in Nat /\ \A i \in 1..Len(requests) : i < Len(requests) + 1
      BY <1>0
    <3>4. w \notin windows'
      BY <2>2
    <3> QED
      BY <3>1, <3>2, <3>3, <3>4
  <2>3. CASE ~(r.wid = w /\ r.type \in LifeType)
    <3>1. ~InHand(w)
      BY <2>3 DEF InHand
    <3>2. /\ Queued(w, {"CREATE"})' = Queued(w, {"CREATE"})
          /\ Queued(w, {"DESTROY"})' = Queued(w, {"DESTROY"})
      BY <1>0, <2>3, QueuedAppend DEF LifeType
    <3> QED
      BY <3>1, <3>2 DEF QueueAgrees
  <2> QED
    BY <2>1, <2>2, <2>3 DEF LifeType
<1>5. CASE ConfigureMove \/ ConfigureResize \/ AsyncSend
  <2>1. requests' = requests /\ ~InHand(w) /\ (w \in windows <=> w \in windows')
    BY <1>5 DEF ConfigureMove, ConfigureResize, AsyncSend, AtX, InHand
  <2> QED
    BY <1>1, <2>1
<1>6. CASE EmitNext
  <2>1. requests # <<>> /\ requests' = Tail(requests) /\ windows' = windows /\ ~InHand(w)
    BY <1>6 DEF EmitNext, InHand, xvars
  <2>2. ASSUME NEW t \in LifeType
        PROVE  /\ Queued(w, {t}) \subseteq 1..Len(requests)
               /\ Queued(w, {t})' = {i \in 1..(Len(requests) - 1) : i + 1 \in Queued(w, {t})}
    BY <1>0, <2>1, QueuedTail
  <2>3. /\ Queued(w, {"CREATE"}) \subseteq 1..Len(requests)
        /\ Queued(w, {"CREATE"})' = {i \in 1..(Len(requests) - 1) : i + 1 \in Queued(w, {"CREATE"})}
    BY <2>2 DEF LifeType
  <2>4. /\ Queued(w, {"DESTROY"}) \subseteq 1..Len(requests)
        /\ Queued(w, {"DESTROY"})' = {i \in 1..(Len(requests) - 1) : i + 1 \in Queued(w, {"DESTROY"})}
    BY <2>2 DEF LifeType
  <2>5. Len(requests) \in Nat
    BY <1>0
  <2>6. ASSUME NEW S, NEW T, S \subseteq 1..Len(requests), T \subseteq 1..Len(requests),
               \A i \in S : \E j \in T : i < j
        PROVE  \A i \in {k \in 1..(Len(requests) - 1) : k + 1 \in S} :
                 \E j \in {k \in 1..(Len(requests) - 1) : k + 1 \in T} : i < j
    <3> TAKE i \in {k \in 1..(Len(requests) - 1) : k + 1 \in S}
    <3> PICK j \in T : i + 1 < j
      BY <2>6
    <3>1. j \in 1..Len(requests) /\ i \in 1..(Len(requests) - 1)
      BY <2>6
    <3>2. j - 1 \in 1..(Len(requests) - 1) /\ (j - 1) + 1 = j /\ i < j - 1
      BY <2>5, <3>1
    <3> QED
      BY <3>2
  <2> QED
    BY <2>1, <2>3, <2>4, <2>6 DEF QueueAgrees
<1>7. CASE EmitBegin \/ EmitEnd \/ RecoverStep \/ ClientStep \/ Faulted \/ UNCHANGED vars
  <2>1. requests' = requests
    BY <1>7 DEF EmitBegin, EmitEnd, RecoverStep, RecoverFault, RecoverCreate, RecoverShow,
                ClientStep, ConnectEvent, ReadEof, AfterShutdown, Faulted, vars
  <2>2. UNCHANGED <<ev, xpc, windows>>
    BY <1>7, UvFrame DEF EmitStep
  <2> QED
    BY <1>1, <2>1, <2>2 DEF InHand
<1>8. CASE HandleStep
  BY <1>1, <1>8, HandleFrame DEF InHand
<1> QED
  BY <1>2, <1>3, <1>4, <1>5, <1>6, <1>7, <1>8 DEF Next, XorgStep, EmitStep

-----------------------------------------------------------------------------
(* What was written to the sockets. *)

\* Only a birth or a death changes whether a window is known.
LEMMA ApplyKnown ==
  ASSUME NEW v \in View, NEW t \in EventType, NEW g
  PROVE  /\ t = "CREATE" => Apply(v, t, g).known
         /\ t = "DESTROY" => ~Apply(v, t, g).known
         /\ t \notin LifeType => Apply(v, t, g).known = v.known
<1>1. CASE t = "CREATE"
  BY <1>1 DEF Apply, LifeType
<1>2. CASE t = "DESTROY"
  BY <1>2 DEF Apply, LifeType, Blank
<1>3. CASE t = "SHOW"
  BY <1>3 DEF Apply, LifeType, View
<1>4. CASE t = "HIDE"
  BY <1>4 DEF Apply, LifeType, View
<1>5. CASE t = "CONFIGURE"
  BY <1>5 DEF Apply, LifeType, View
<1> QED
  BY <1>1, <1>2, <1>3, <1>4, <1>5 DEF EventType

LEMMA DetachedStep == Shape /\ DetachedIsBlank /\ [Next]_vars => DetachedIsBlank'
<1> SUFFICES ASSUME Shape, DetachedIsBlank, [Next]_vars,
                    NEW c \in Channel, NEW w \in Window, status'[c] # "event"
             PROVE  ~view'[c][w].known
  BY DEF DetachedIsBlank
<1> USE DEF Shape, TypeOK, DetachedIsBlank
<1>1. CASE XEvent \/ XorgStep
  BY <1>1 DEF XEvent, XCreate, XDestroy, XMap, XUnmap, XConfigure, Take,
       XorgStep, CreateLink, CreateInit, DestroyUnlink, MapViewable, Enqueue,
       ConfigureMove, ConfigureResize, AsyncSend
<1>2. CASE EmitBegin \/ EmitEnd \/ RecoverFault \/ Faulted \/ UNCHANGED vars
  BY <1>2 DEF EmitBegin, EmitEnd, RecoverFault, Faulted, vars
<1>3. CASE EmitNext
  BY <1>3 DEF EmitNext
<1>4. CASE RecoverCreate
  BY <1>4 DEF RecoverCreate, WalkOK, AtUv
<1>5. CASE RecoverShow
  BY <1>5 DEF RecoverShow, WalkOK, AtUv
<1>6. ASSUME NEW d \in Channel, ConnectEvent(d) PROVE ~view'[c][w].known
  BY <1>6 DEF ConnectEvent
<1>7. ASSUME NEW d \in Channel, ReadEof(d) PROVE ~view'[c][w].known
  BY <1>7 DEF ReadEof, Blank
<1>8. ASSUME NEW d \in Channel, AfterShutdown(d) PROVE ~view'[c][w].known
  BY <1>8 DEF AfterShutdown
<1>9. CASE HandleStep
  BY <1>9, HandleFrame
<1> QED
  BY <1>1, <1>2, <1>3, <1>4, <1>5, <1>6, <1>7, <1>8, <1>9 DEF Next, EmitStep, RecoverStep, ClientStep

\* A step that changes neither w, nor the queue, nor what c was told, nor
\* takes the walk past w.
LEMMA AgreesSame ==
  ASSUME ClientAgrees, NEW c \in Channel, NEW w \in Window, Settled(c, w)',
         ~InHand(w), w \in windows <=> w \in windows',
         Queued(w, LifeType)' = Queued(w, LifeType),
         status'[c] = status[c], view'[c][w].known = view[c][w].known,
         Ahead(c, w) => Ahead(c, w)'
  PROVE  view'[c][w].known <=> w \in windows'
BY DEF ClientAgrees, Settled

LEMMA AgreesXorg ==
  ASSUME Shape, ClientAgrees, XEvent \/ XorgStep,
         NEW c \in Channel, NEW w \in Window, Settled(c, w)'
  PROVE  view'[c][w].known <=> w \in windows'
<1>0. requests \in Seq(Request)
  BY DEF Shape, TypeOK
<1>1. CASE XEvent
  <2>1. UNCHANGED <<requests, windows, status, view, uvpc, walker, cur, todo>> /\ xpc = "wait"
    BY <1>1 DEF XEvent, XCreate, XDestroy, XMap, XUnmap, XConfigure, Take, AtX, uvvars
  <2> QED
    BY <2>1, AgreesSame, QueuedSame DEF InHand, Ahead
<1>2. CASE CreateLink \/ CreateInit \/ MapViewable
  <2>1. /\ UNCHANGED <<requests, status, view, uvpc, walker, cur, todo>>
        /\ ~InHand(w) /\ (w \in windows <=> w \in windows')
    BY <1>2 DEF CreateLink, CreateInit, MapViewable, AtX, uvvars, InHand, LifeType, Shape, PcOK, Settled
  <2> QED
    BY <2>1, AgreesSame, QueuedSame DEF Ahead
<1>3. CASE DestroyUnlink
  <2>1. ev.wid # w /\ ~InHand(w)
    BY <1>3 DEF DestroyUnlink, AtX, InHand, LifeType, Shape, PcOK, Settled
  <2>2. UNCHANGED <<requests, status, view>> /\ (w \in windows <=> w \in windows')
    BY <1>3, <2>1 DEF DestroyUnlink
  <2>3. Ahead(c, w) => Ahead(c, w)'
    BY <1>3, <2>1 DEF DestroyUnlink, Ahead
  <2> QED
    BY <2>1, <2>2, <2>3, AgreesSame, QueuedSame
<1>4. CASE Enqueue
  <2> PICK r \in Request :
        /\ requests' = Append(requests, r)
        /\ r.wid = ev.wid /\ r.type = ev.type
        /\ UNCHANGED <<windows, view, status, uvpc, walker, cur, todo>>
    BY <1>4, EnqueueFacts
  <2>1. ~(r.wid = w /\ r.type \in LifeType)
    BY <1>0, QueuedAppend DEF Settled
  <2>2. Queued(w, LifeType)' = Queued(w, LifeType) /\ ~InHand(w)
    BY <1>0, <2>1, QueuedAppend DEF InHand
  <2> QED
    BY <2>2, AgreesSame DEF Ahead
<1>5. CASE ConfigureMove \/ ConfigureResize \/ AsyncSend
  <2>1. UNCHANGED <<requests, windows, status, view, uvpc, walker, cur, todo>> /\ ~InHand(w)
    BY <1>5 DEF ConfigureMove, ConfigureResize, AsyncSend, AtX, uvvars, InHand
  <2> QED
    BY <2>1, AgreesSame, QueuedSame DEF Ahead
<1> QED
  BY <1>1, <1>2, <1>3, <1>4, <1>5 DEF XorgStep

LEMMA AgreesEmit ==
  ASSUME Shape, QueueAgrees, ClientAgrees, EmitNext,
         NEW c \in Channel, NEW w \in Window, Settled(c, w)'
  PROVE  view'[c][w].known <=> w \in windows'
<1> DEFINE r == Head(requests)
<1>1. requests \in Seq(Request) /\ requests # <<>> /\ requests' = Tail(requests) /\ r \in Request
  BY DEF EmitNext, Shape, TypeOK
<1>2. UNCHANGED <<windows, status, ev, xpc>> /\ ~InHand(w) /\ ~Ahead(c, w) /\ status[c] = "event"
  BY ConstantsAssumption DEF EmitNext, InHand, Settled, Shape, WalkOK, AtUv, Ahead, xvars
<1>3. view[c] \in [Window -> View] /\ r.type \in EventType /\ r.wid \in Window
  BY <1>1 DEF Shape, TypeOK, Request
<1>4. view'[c][w] = IF r.wid = w THEN Apply(view[c][w], r.type, r.geom) ELSE view[c][w]
  BY <1>2, <1>3 DEF EmitNext
<1>5. \A t \in LifeType :
        /\ Queued(w, {t}) \subseteq 1..Len(requests)
        /\ Queued(w, {t})' = {i \in 1..(Len(requests) - 1) : i + 1 \in Queued(w, {t})}
        /\ Queued(w, {t})' = {}
        /\ 1 \in Queued(w, {t}) <=> r.wid = w /\ r.type = t
  <2> TAKE t \in LifeType
  <2>1. Queued(w, {t})' = {}
    BY DEF Settled, Queued, LifeType
  <2> QED
    BY <1>1, <2>1, QueuedTail
<1>6. \A t \in LifeType : Queued(w, {t}) \subseteq {1}
  <2> TAKE t \in LifeType
  <2> SUFFICES ASSUME NEW i \in Queued(w, {t}), i # 1 PROVE FALSE
    OBVIOUS
  <2>0. Len(requests) \in Nat
    BY <1>1
  <2>1. i \in 1..Len(requests)
    BY <1>5
  <2>2. i - 1 \in 1..(Len(requests) - 1) /\ (i - 1) + 1 = i
    BY <2>0, <2>1
  <2> QED
    BY <1>5, <2>2
<1>7. CASE r.wid = w /\ r.type = "CREATE"
  <2>1. 1 \in Queued(w, {"CREATE"})
    BY <1>5, <1>7 DEF LifeType
  <2>2. ~ \E j \in Queued(w, {"DESTROY"}) : 1 < j
    BY <1>6 DEF LifeType
  <2>3. w \in windows
    BY <1>2, <2>1, <2>2 DEF QueueAgrees
  <2> QED
    BY <1>2, <1>3, <1>4, <1>7, <2>3, ApplyKnown
<1>8. CASE r.wid = w /\ r.type = "DESTROY"
  <2>1. 1 \in Queued(w, {"DESTROY"})
    BY <1>5, <1>8 DEF LifeType
  <2>2. ~ \E j \in Queued(w, {"CREATE"}) : 1 < j
    BY <1>6 DEF LifeType
  <2>3. w \notin windows
    BY <1>2, <2>1, <2>2 DEF QueueAgrees
  <2> QED
    BY <1>2, <1>3, <1>4, <1>8, <2>3, ApplyKnown
<1>9. CASE ~(r.wid = w /\ r.type \in LifeType)
  <2>1. \A t \in LifeType : Queued(w, {t}) = {}
    BY <1>5, <1>6, <1>9
  <2>2. Queued(w, LifeType) = {}
    BY <2>1 DEF Queued, LifeType
  <2>3. view'[c][w].known = view[c][w].known
    BY <1>3, <1>4, <1>9, ApplyKnown
  <2> QED
    BY <1>2, <2>2, <2>3 DEF ClientAgrees, Settled
<1> QED
  BY <1>7, <1>8, <1>9 DEF LifeType

LEMMA AgreesUv ==
  ASSUME Shape, DetachedIsBlank, ClientAgrees,
         EmitBegin \/ EmitEnd \/ RecoverStep \/ ClientStep \/ Faulted \/ UNCHANGED vars,
         NEW c \in Channel, NEW w \in Window, Settled(c, w)'
  PROVE  view'[c][w].known <=> w \in windows'
<1>1. UNCHANGED <<ev, xpc, windows>> /\ ~InHand(w)
  BY UvFrame DEF EmitStep, InHand, Settled
<1>2. requests' = requests
  BY DEF EmitBegin, EmitEnd, RecoverStep, RecoverFault, RecoverCreate, RecoverShow,
         ClientStep, ConnectEvent, ReadEof, AfterShutdown, Faulted, vars
<1>3. Queued(w, LifeType)' = Queued(w, LifeType) /\ Queued(w, LifeType) = {}
  BY <1>2, QueuedSame DEF Settled
<1>4. /\ None \notin Channel /\ c # None
      /\ view \in [Channel -> [Window -> View]] /\ status \in [Channel -> {"absent", "event", "closing"}]
  BY ConstantsAssumption DEF Shape, TypeOK
<1> USE DEF AtUv
<1>5. CASE EmitBegin \/ EmitEnd \/ RecoverFault \/ Faulted \/ UNCHANGED vars
  <2>1. UNCHANGED <<status, view>> /\ (Ahead(c, w) => Ahead(c, w)')
    BY <1>4, <1>5 DEF EmitBegin, EmitEnd, RecoverFault, Faulted, vars, uvvars, Ahead, Shape, WalkOK
  <2> QED
    BY <1>1, <1>3, <2>1, AgreesSame
<1>6. CASE RecoverCreate
  <2>1. cur \in windows /\ cur \in Window /\ walker \in Channel /\ uvpc = "create"
    BY <1>6 DEF RecoverCreate, Shape, TypeOK, WalkOK
  <2>2. CASE c = walker /\ w = cur
    <3>1. view'[c][w] = Apply(view[c][w], "CREATE", Geometry(cur))
      BY <1>4, <1>6, <2>1, <2>2 DEF RecoverCreate
    <3> QED
      BY <1>1, <2>1, <2>2, <3>1 DEF Apply
  <2>3. CASE ~(c = walker /\ w = cur)
    <3>1. view'[c][w] = view[c][w] /\ status' = status
      BY <1>4, <1>6, <2>1, <2>3 DEF RecoverCreate
    <3>2. Ahead(c, w) => Ahead(c, w)'
      BY <1>6, <2>3 DEF RecoverCreate, Ahead
    <3> QED
      BY <1>1, <1>3, <3>1, <3>2, AgreesSame
  <2> QED
    BY <2>2, <2>3
<1>7. CASE RecoverShow
  <2>1. cur \in Window /\ walker \in Channel /\ uvpc = "show"
    BY <1>7 DEF RecoverShow, Shape, TypeOK, WalkOK
  <2>2. view'[c][w].known = view[c][w].known
    <3>1. Apply(view[walker][cur], "SHOW", NoGeom).known = view[walker][cur].known
      BY <1>4, <2>1, ApplyKnown DEF EventType, LifeType
    <3> QED
      BY <1>4, <1>7, <2>1, <3>1 DEF RecoverShow
  <2>3. Ahead(c, w) => Ahead(c, w)'
    BY <1>7, <2>1 DEF RecoverShow, Advance, Ahead
  <2>4. status' = status
    BY <1>7 DEF RecoverShow
  <2> QED
    BY <1>1, <1>3, <2>2, <2>3, <2>4, AgreesSame
<1>8. ASSUME NEW d \in Channel, ConnectEvent(d) PROVE view'[c][w].known <=> w \in windows'
  <2>1. view' = view /\ ~Ahead(c, w) /\ status[d] = "absent" /\ status' = [status EXCEPT ![d] = "event"]
    BY <1>4, <1>8 DEF ConnectEvent, Ahead, Shape, WalkOK
  <2>2. CASE c = d
    <3>1. ~view[c][w].known
      BY <2>1, <2>2 DEF DetachedIsBlank
    <3>2. w \notin windows
      BY <1>8, <2>2 DEF ConnectEvent, Settled, Ahead
    <3> QED
      BY <1>1, <2>1, <3>1, <3>2
  <2>3. CASE c # d
    BY <1>1, <1>3, <1>4, <2>1, <2>3, AgreesSame
  <2> QED
    BY <2>2, <2>3
<1>9. ASSUME NEW d \in Channel, ReadEof(d) \/ AfterShutdown(d) PROVE view'[c][w].known <=> w \in windows'
  <2>1. c # d
    BY <1>4, <1>9 DEF ReadEof, AfterShutdown, Settled
  <2>2. view'[c] = view[c] /\ status'[c] = status[c] /\ (Ahead(c, w) => Ahead(c, w)')
    BY <1>4, <1>9, <2>1 DEF ReadEof, AfterShutdown, Ahead, uvvars
  <2> QED
    BY <1>1, <1>3, <2>2, AgreesSame
<1> QED
  BY <1>5, <1>6, <1>7, <1>8, <1>9 DEF RecoverStep, ClientStep

-----------------------------------------------------------------------------
(* The inductive invariant, and what it implies. *)

LEMMA IInvInit == Init => IInv
<1> SUFFICES ASSUME Init PROVE IInv
  OBVIOUS
<1>1. Shape
  BY ShapeInit
<1>2. NoLostWakeup /\ ListMirrorsX
  BY DEF Init, NoLostWakeup, ListMirrorsX
<1>3. QueueAgrees
  BY DEF Init, QueueAgrees, Queued
<1>4. DetachedIsBlank
  BY DEF Init, DetachedIsBlank, Blank
<1>5. ClientAgrees
  BY DEF Init, ClientAgrees, Settled
<1> QED
  BY <1>1, <1>2, <1>3, <1>4, <1>5 DEF IInv, Shape

LEMMA AgreesStep == IInv /\ [Next]_vars => ClientAgrees'
<1> SUFFICES ASSUME IInv, [Next]_vars, NEW c \in Channel, NEW w \in Window, Settled(c, w)'
             PROVE  view'[c][w].known <=> w \in windows'
  BY DEF ClientAgrees
<1>1. Shape /\ QueueAgrees /\ DetachedIsBlank /\ ClientAgrees
  BY DEF IInv, Shape
<1>2. CASE XEvent \/ XorgStep
  BY <1>1, <1>2, AgreesXorg
<1>3. CASE EmitNext
  BY <1>1, <1>3, AgreesEmit
<1>4. CASE EmitBegin \/ EmitEnd \/ RecoverStep \/ ClientStep \/ Faulted \/ UNCHANGED vars
  BY <1>1, <1>4, AgreesUv
<1>5. CASE HandleStep
  <2>1. UNCHANGED <<ev, xpc, windows, requests, uvpc, walker, cur, todo, status, view>>
    BY <1>1, <1>5, HandleFrame
  <2>2. ~InHand(w) /\ (Ahead(c, w) => Ahead(c, w)')
    BY <2>1 DEF InHand, Settled, Ahead
  <2> QED
    BY <1>1, <2>1, <2>2, AgreesSame, QueuedSame
<1> QED
  BY <1>2, <1>3, <1>4, <1>5 DEF Next, EmitStep

LEMMA IInvStep == IInv /\ [Next]_vars => IInv'
<1> SUFFICES ASSUME IInv, [Next]_vars PROVE IInv'
  OBVIOUS
<1> QED
  BY ShapeStep, WakeupStep, ListStep, QueueStep, DetachedStep, AgreesStep DEF IInv, Shape

\* IInv is an invariant.
THEOREM Invariance == Spec => []IInv
<1>1. Init => IInv
  BY IInvInit
<1>2. IInv /\ [Next]_vars => IInv'
  BY IInvStep
<1> QED
  BY <1>1, <1>2, PTL DEF Spec

\* Type correctness: the threads of cip_server.c keep every variable in its
\* type, for any number of windows, clients and queued requests.
THEOREM TypeCorrect == Spec => []TypeOK
<1>1. IInv => TypeOK
  BY DEF IInv
<1> QED
  BY <1>1, Invariance, PTL

\* No wake-up of the uv thread is lost, whatever uv_async_send coalesces.
THEOREM WakeupCorrect == Spec => []NoLostWakeup
<1>1. IInv => NoLostWakeup
  BY DEF IInv
<1> QED
  BY <1>1, Invariance, PTL

\* An event channel, however late it was opened, knows the live windows once
\* nothing about them is on its way.
THEOREM LifeCorrect == Spec => []ClientMirrorsLife
<1>1. IInv => ClientMirrorsLife
  <2> SUFFICES ASSUME IInv, NEW c \in Channel, NEW w \in Window, Settled(c, w)
               PROVE  /\ view[c][w].known => w \in xlive
                      /\ w \in xlive => view[c][w].known \/ w \in Preexisting
    BY DEF ClientMirrorsLife
  <2>1. view[c][w].known <=> w \in windows
    BY DEF IInv, ClientAgrees
  <2>2. (w \in windows => w \in xlive) /\ (w \in xlive => w \in windows \union Preexisting)
    BY DEF IInv, ListMirrorsX, Settled
  <2> QED
    BY <2>1, <2>2
<1> QED
  BY <1>1, Invariance, PTL

\* The DESTROY that makes a client forget a window is taken off the queue
\* after the node was unlinked, or has the CREATE of its successor behind it.
THEOREM ForgetsCorrect == Spec => ForgetsOnlyUnlinked
<1>1. IInv /\ [Next]_vars =>
        [\A c \in Channel, w \in Window :
           /\ view[c][w].known /\ ~view'[c][w].known
           /\ status'[c] = "event"
           => w \notin windows \/ InHand(w) \/ Queued(w, {"CREATE"}) # {}]_vars
  <2> SUFFICES ASSUME IInv, [Next]_vars, NEW c \in Channel, NEW w \in Window,
                      view[c][w].known, ~view'[c][w].known, status'[c] = "event"
               PROVE  w \notin windows \/ InHand(w) \/ Queued(w, {"CREATE"}) # {}
    OBVIOUS
  <2> USE DEF IInv, TypeOK
  <2>1. CASE XEvent \/ XorgStep
    <3>1. view' = view
      BY <2>1 DEF XEvent, XCreate, XDestroy, XMap, XUnmap, XConfigure, Take,
           XorgStep, CreateLink, CreateInit, DestroyUnlink, MapViewable, Enqueue,
           ConfigureMove, ConfigureResize, AsyncSend
    <3> QED
      BY <3>1
  <2>2. CASE EmitBegin \/ EmitEnd \/ RecoverFault \/ Faulted \/ UNCHANGED vars
    <3>1. view' = view
      BY <2>2 DEF EmitBegin, EmitEnd, RecoverFault, Faulted, vars
    <3> QED
      BY <3>1
  <2>3. CASE EmitNext
    <3> DEFINE r == Head(requests)
    <3>1. requests \in Seq(Request) /\ requests # <<>> /\ requests' = Tail(requests) /\ r \in Request
      BY <2>3 DEF EmitNext
    <3>2. r.wid = w /\ r.type = "DESTROY"
      <4>1. r.type \in EventType
        BY <3>1 DEF Request
      <4>2. view'[c][w] = IF r.wid = w THEN Apply(view[c][w], r.type, r.geom) ELSE view[c][w]
        BY <2>3, <3>1 DEF EmitNext, Request
      <4> QED
        BY <4>1, <4>2, ApplyKnown DEF LifeType
    <3>3. 1 \in Queued(w, {"DESTROY"})
      BY <3>1, <3>2, QueuedTail
    <3> QED
      BY <3>3 DEF QueueAgrees
  <2>4. CASE RecoverCreate
    <3>1. Apply(view[walker][cur], "CREATE", Geometry(cur)).known
      BY DEF Apply
    <3> QED
      BY <2>4, <3>1 DEF RecoverCreate, WalkOK, AtUv
  <2>5. CASE RecoverShow
    <3>1. cur \in Window /\ walker \in Channel
      BY <2>5 DEF RecoverShow, WalkOK, AtUv
    <3>2. Apply(view[walker][cur], "SHOW", NoGeom).known = view[walker][cur].known
      BY <3>1, ApplyKnown DEF EventType, LifeType
    <3> QED
      BY <2>5, <3>1, <3>2 DEF RecoverShow
  <2>6. CASE ClientStep
    BY <2>6 DEF ClientStep, ConnectEvent, ReadEof, AfterShutdown
  <2>7. CASE HandleStep
    BY <2>7, HandleFrame DEF Shape
  <2> QED
    BY <2>1, <2>2, <2>3, <2>4, <2>5, <2>6, <2>7 DEF Next, EmitStep, RecoverStep
<1> QED
  BY <1>1, Invariance, PTL DEF Spec, ForgetsOnlyUnlinked

-----------------------------------------------------------------------------
(* MappedIsShown: the stronger invariant, in parts. *)

\* The event in hand and the map state of its window fit.
MapOK == ev.type \in {"CREATE", "DESTROY", "HIDE"} => ev.wid \notin xmapped

\* The xorg thread has yet to set viewable in w's node.
ViewableAhead(w) == ev.wid = w /\ xpc = "viewable"

\* A node is viewable if X mapped its window.
NodeFollowsX ==
  \A w \in windows : w \in xmapped /\ ~ViewableAhead(w) => entry[w].viewable

VisType == {"CREATE", "DESTROY", "SHOW", "HIDE"}
Unshow == {"CREATE", "DESTROY", "HIDE"}

\* An event that decides whether w is shown is not yet queued.
VisInHand(w) ==
  /\ ev.wid = w /\ ev.type \in VisType
  /\ xpc \in {"link", "init", "unlink", "viewable", "queue"}

\* The last queued request that decides whether a mapped window is shown is
\* its SHOW.
ShowIsLast ==
  \A w \in xmapped : ~VisInHand(w) =>
    \A i \in Queued(w, Unshow) : \E j \in Queued(w, {"SHOW"}) : i < j

\* The walk that greets c is not done with w.
ShowAhead(c, w) == walker = c /\ (w \in todo \/ cur = w)

ShowSettled(c, w) ==
  /\ status[c] = "event" /\ w \in xmapped \intersect windows
  /\ ~VisInHand(w) /\ Queued(w, VisType) = {} /\ ~ShowAhead(c, w)

ClientShows ==
  \A c \in Channel, w \in Window : ShowSettled(c, w) => view[c][w].shown

SInv == IInv /\ MapOK /\ NodeFollowsX /\ ShowIsLast /\ ClientShows

-----------------------------------------------------------------------------
(* The event in hand and the nodes. *)

LEMMA MapStep == Shape /\ MapOK /\ [Next]_vars => MapOK'
<1> SUFFICES ASSUME Shape, MapOK, [Next]_vars PROVE MapOK'
  OBVIOUS
<1>1. CASE XEvent
  BY <1>1 DEF MapOK, XEvent, XCreate, XDestroy, XMap, XUnmap, XConfigure, Take, Shape, TypeOK
<1>2. CASE XorgStep
  BY <1>2 DEF MapOK, XorgStep, CreateLink, CreateInit, DestroyUnlink, MapViewable, Enqueue,
              ConfigureMove, ConfigureResize, AsyncSend, xvars, NoEvent
<1> QED
  BY <1>1, <1>2, UvFrame, HandleFrame DEF MapOK, Next

\* What an X event leaves alone: everything but the x-variables of one window.
LEMMA XEventFacts ==
  ASSUME Shape, XEvent
  PROVE  \E w \in Window :
           /\ xpc = "wait" /\ ev' \in [type : EventType, wid : {w}]
           /\ UNCHANGED <<windows, entry, requests, asyncPending, uvpc, walker, cur, todo, status, view>>
           /\ \A u \in Window \ {w} : xgeom'[u] = xgeom[u] /\ (u \in xmapped' <=> u \in xmapped)
           /\ ev'.type = "CREATE" => xpc' = "link"
           /\ ev'.type = "DESTROY" => xpc' = "unlink"
           /\ ev'.type = "SHOW" => xpc' = "viewable"
           /\ ev'.type = "HIDE" => xpc' = "queue"
           /\ ev'.type = "CONFIGURE" => xpc' = "queue"
           /\ ev'.type \in {"SHOW", "HIDE"} => xgeom' = xgeom
           /\ ev'.type # "SHOW" /\ w \in xmapped' => w \in xmapped
BY DEF XEvent, XCreate, XDestroy, XMap, XUnmap, XConfigure, Take, AtX, uvvars, EventType,
       Shape, TypeOK

LEMMA NodeStep == Shape /\ MapOK /\ NodeFollowsX /\ [Next]_vars => NodeFollowsX'
<1> SUFFICES ASSUME Shape, MapOK, NodeFollowsX, [Next]_vars,
                    NEW w \in windows', w \in xmapped', ~ViewableAhead(w)'
             PROVE  entry'[w].viewable
  BY DEF NodeFollowsX
<1>0. /\ windows \in SUBSET Window /\ entry \in [Window -> Entry] /\ None \notin Window
      /\ xpc # "wait" => ev.wid \in Window
      /\ xpc = "wait" => ev.wid = None
  BY ConstantsAssumption DEF Shape, TypeOK, PcOK, NoEvent
<1> USE DEF NodeFollowsX, ViewableAhead
<1>1. CASE XEvent
  <2> PICK x \in Window :
        /\ xpc = "wait" /\ ev' \in [type : EventType, wid : {x}]
        /\ UNCHANGED <<windows, entry>>
        /\ \A u \in Window \ {x} : u \in xmapped' <=> u \in xmapped
        /\ ev'.type = "SHOW" => xpc' = "viewable"
        /\ ev'.type # "SHOW" /\ x \in xmapped' => x \in xmapped
    BY <1>1, XEventFacts
  <2>1. ev'.wid = x /\ w \in windows
    OBVIOUS
  <2>2. w \in xmapped
    BY <1>0, <2>1
  <2> QED
    BY <2>1, <2>2
<1>2. CASE CreateLink
  BY <1>0, <1>2 DEF CreateLink, AtX, xvars, MapOK, Shape, PcOK
<1>3. CASE CreateInit
  BY <1>0, <1>3 DEF CreateInit, AtX, xvars, MapOK, Shape, PcOK
<1>4. CASE DestroyUnlink
  BY <1>0, <1>4 DEF DestroyUnlink, AtX, xvars
<1>5. CASE MapViewable
  <2>1. w \in windows /\ UNCHANGED <<xmapped, ev>> /\ xpc = "viewable"
    BY <1>5 DEF MapViewable, AtX, xvars
  <2>2. ev.wid = w => entry'[w].viewable
    BY <1>0, <1>5, <2>1 DEF MapViewable, Entry
  <2>3. ev.wid # w => entry'[w] = entry[w]
    BY <1>0, <1>5, <2>1 DEF MapViewable
  <2> QED
    BY <2>1, <2>2, <2>3
<1>6. CASE Enqueue
  BY <1>0, <1>6 DEF Enqueue, AtX, xvars
<1>7. CASE ConfigureMove \/ ConfigureResize
  <2>1. w \in windows /\ UNCHANGED <<xmapped, ev>> /\ xpc # "viewable"
    BY <1>7 DEF ConfigureMove, ConfigureResize, AtX, xvars
  <2>2. entry'[w].viewable = entry[w].viewable
    BY <1>0, <1>7, <2>1 DEF ConfigureMove, ConfigureResize, Entry
  <2> QED
    BY <2>1, <2>2
<1>8. CASE AsyncSend
  BY <1>0, <1>8 DEF AsyncSend, AtX, xvars
<1>9. CASE HandleStep
  BY <1>0, <1>9, HandleFrame
<1> QED
  BY <1>1, <1>2, <1>3, <1>4, <1>5, <1>6, <1>7, <1>8, <1>9, UvFrame DEF Next, XorgStep

-----------------------------------------------------------------------------
(* The queue. *)

LEMMA ShowQueueStep == Shape /\ MapOK /\ ShowIsLast /\ [Next]_vars => ShowIsLast'
<1> SUFFICES ASSUME Shape, MapOK, ShowIsLast, [Next]_vars, NEW w \in xmapped', ~VisInHand(w)'
             PROVE  \A i \in Queued(w, Unshow)' : \E j \in Queued(w, {"SHOW"})' : i < j
  BY DEF ShowIsLast
<1> DEFINE Goal == \A i \in Queued(w, Unshow)' : \E j \in Queued(w, {"SHOW"})' : i < j
<1>0. requests \in Seq(Request) /\ Len(requests) \in Nat /\ xmapped' \in SUBSET Window /\ w \in Window
  BY ShapeStep DEF Shape, TypeOK
<1>1. ASSUME requests' = requests, w \in xmapped, ~VisInHand(w) PROVE Goal
  BY <1>0, <1>1, QueuedSame DEF ShowIsLast
<1>2. CASE XEvent
  <2>1. w \in xmapped /\ requests' = requests /\ xpc = "wait"
    BY <1>2 DEF XEvent, XCreate, XDestroy, XMap, XUnmap, XConfigure, Take, AtX, VisInHand, VisType
  <2> QED
    BY <1>1, <2>1 DEF VisInHand
<1>3. CASE CreateLink \/ CreateInit \/ DestroyUnlink \/ MapViewable
  <2>1. requests' = requests /\ w \in xmapped /\ ~VisInHand(w)
    BY <1>3 DEF CreateLink, CreateInit, DestroyUnlink, MapViewable, AtX, VisInHand, VisType, xvars
  <2> QED
    BY <1>1, <2>1
<1>4. CASE Enqueue
  <2> PICK r \in Request : requests' = Append(requests, r) /\ r.wid = ev.wid /\ r.type = ev.type
    BY <1>4, EnqueueFacts
  <2>1. w \in xmapped
    BY <1>4 DEF Enqueue, xvars
  <2>2. CASE r.wid = w /\ r.type = "SHOW"
    <3>1. Queued(w, {"SHOW"})' = Queued(w, {"SHOW"}) \union {Len(requests) + 1}
      BY <1>0, <2>2, QueuedAppend
    <3>2. Queued(w, Unshow)' \subseteq 1..Len(requests)
      BY <1>0, <2>2, QueuedAppend DEF Unshow
    <3>3. \A i \in 1..Len(requests) : i < Len(requests) + 1
      BY <1>0
    <3> QED
      BY <3>1, <3>2, <3>3
  <2>3. CASE ~(r.wid = w /\ r.type = "SHOW")
    <3>1. ~(r.wid = w /\ r.type \in Unshow)
      BY <2>1 DEF MapOK, Unshow
    <3>2. ~VisInHand(w)
      BY <2>3, <3>1 DEF VisInHand, VisType, Unshow
    <3>3. Queued(w, {"SHOW"})' = Queued(w, {"SHOW"}) /\ Queued(w, Unshow)' = Queued(w, Unshow)
      BY <1>0, <2>3, <3>1, QueuedAppend
    <3> QED
      BY <2>1, <3>2, <3>3 DEF ShowIsLast
  <2> QED
    BY <2>2, <2>3
<1>5. CASE ConfigureMove \/ ConfigureResize \/ AsyncSend
  <2>1. requests' = requests /\ w \in xmapped /\ ~VisInHand(w)
    BY <1>5 DEF ConfigureMove, ConfigureResize, AsyncSend, AtX, VisInHand, xvars
  <2> QED
    BY <1>1, <2>1
<1>6. CASE EmitNext
  <2>1. requests # <<>> /\ requests' = Tail(requests) /\ w \in xmapped /\ ~VisInHand(w)
    BY <1>6 DEF EmitNext, VisInHand, xvars
  <2> DEFINE Q(types) == Queued(w, types)
  <2>2. Q(Unshow)' = {i \in 1..(Len(requests) - 1) : i + 1 \in Q(Unshow)}
    BY <1>0, <2>1, QueuedTail
  <2>3. /\ Q({"SHOW"})' = {i \in 1..(Len(requests) - 1) : i + 1 \in Q({"SHOW"})}
        /\ Q({"SHOW"}) \subseteq 1..Len(requests)
    BY <1>0, <2>1, QueuedTail
  <2> SUFFICES ASSUME NEW i \in Q(Unshow)' PROVE \E j \in Q({"SHOW"})' : i < j
    OBVIOUS
  <2>4. i \in 1..(Len(requests) - 1) /\ i + 1 \in Q(Unshow)
    BY <2>2
  <2>5. PICK j \in Q({"SHOW"}) : i + 1 < j
    BY <2>1, <2>4 DEF ShowIsLast
  <2>6. j \in 1..Len(requests)
    BY <2>3
  <2>7. j - 1 \in 1..(Len(requests) - 1) /\ (j - 1) + 1 = j /\ i < j - 1
    BY <1>0, <2>4, <2>5, <2>6
  <2> QED
    BY <2>3, <2>7
<1>7. CASE EmitBegin \/ EmitEnd \/ RecoverStep \/ ClientStep \/ Faulted \/ UNCHANGED vars
  <2>1. requests' = requests
    BY <1>7 DEF EmitBegin, EmitEnd, RecoverStep, RecoverFault, RecoverCreate, RecoverShow,
                ClientStep, ConnectEvent, ReadEof, AfterShutdown, Faulted, vars
  <2>2. UNCHANGED <<ev, xpc, xmapped>>
    BY <1>7, UvFrame DEF EmitStep
  <2> QED
    BY <1>1, <2>1, <2>2 DEF VisInHand
<1>8. CASE HandleStep
  BY <1>1, <1>8, HandleFrame DEF VisInHand
<1> QED
  BY <1>2, <1>3, <1>4, <1>5, <1>6, <1>7, <1>8 DEF Next, XorgStep, EmitStep

-----------------------------------------------------------------------------
(* What was written to the sockets. *)

\* Only a request of VisType changes whether a window is shown.
LEMMA ApplyShown ==
  ASSUME NEW v \in View, NEW t \in EventType, NEW g
  PROVE  /\ t = "SHOW" => Apply(v, t, g).shown
         /\ t \notin VisType => Apply(v, t, g).shown = v.shown
<1>1. CASE t = "SHOW"
  BY <1>1 DEF Apply, VisType, View
<1>2. CASE t = "CONFIGURE"
  BY <1>2 DEF Apply, VisType, View
<1> QED
  BY <1>1, <1>2 DEF EventType, VisType

\* A step that leaves alone what the property is about.
LEMMA ShownSame ==
  ASSUME ClientShows, NEW c \in Channel, NEW w \in Window, ShowSettled(c, w)',
         ~VisInHand(w), w \in windows' => w \in windows, w \in xmapped' => w \in xmapped,
         Queued(w, VisType)' = Queued(w, VisType),
         status'[c] = status[c], view'[c][w].shown = view[c][w].shown,
         ShowAhead(c, w) => ShowAhead(c, w)'
  PROVE  view'[c][w].shown
BY DEF ClientShows, ShowSettled

LEMMA ShownXorg ==
  ASSUME Shape, ClientShows, XEvent \/ XorgStep,
         NEW c \in Channel, NEW w \in Window, ShowSettled(c, w)'
  PROVE  view'[c][w].shown
<1>0. requests \in Seq(Request)
  BY DEF Shape, TypeOK
<1>1. CASE XEvent
  <2>1. UNCHANGED <<requests, windows, status, view, uvpc, walker, cur, todo>> /\ xpc = "wait"
    BY <1>1 DEF XEvent, XCreate, XDestroy, XMap, XUnmap, XConfigure, Take, AtX, uvvars
  <2>2. w \in xmapped
    BY <1>1 DEF XEvent, XCreate, XDestroy, XMap, XUnmap, XConfigure, Take, VisInHand, VisType, ShowSettled
  <2> QED
    BY <2>1, <2>2, ShownSame, QueuedSame DEF VisInHand, ShowAhead
<1>2. CASE CreateLink \/ CreateInit \/ MapViewable
  <2>1. /\ UNCHANGED <<requests, status, view, uvpc, walker, cur, todo, xmapped>>
        /\ ~VisInHand(w) /\ (w \in windows' => w \in windows)
    BY <1>2 DEF CreateLink, CreateInit, MapViewable, AtX, uvvars, xvars, VisInHand, VisType,
                Shape, PcOK, ShowSettled
  <2> QED
    BY <2>1, ShownSame, QueuedSame DEF ShowAhead
<1>3. CASE DestroyUnlink
  <2>1. ev.wid # w /\ ~VisInHand(w)
    BY <1>3 DEF DestroyUnlink, VisInHand, ShowSettled
  <2>2. UNCHANGED <<requests, status, view, xmapped>> /\ (w \in windows' => w \in windows)
    BY <1>3, <2>1 DEF DestroyUnlink, xvars
  <2>3. ShowAhead(c, w) => ShowAhead(c, w)'
    BY <1>3, <2>1 DEF DestroyUnlink, ShowAhead
  <2> QED
    BY <2>1, <2>2, <2>3, ShownSame, QueuedSame
<1>4. CASE Enqueue
  <2> PICK r \in Request :
        /\ requests' = Append(requests, r)
        /\ r.wid = ev.wid /\ r.type = ev.type
        /\ UNCHANGED <<windows, view, status, uvpc, walker, cur, todo>>
    BY <1>4, EnqueueFacts
  <2>1. ~(r.wid = w /\ r.type \in VisType)
    BY <1>0, QueuedAppend DEF ShowSettled
  <2>2. Queued(w, VisType)' = Queued(w, VisType) /\ ~VisInHand(w)
    BY <1>0, <2>1, QueuedAppend DEF VisInHand
  <2>3. xmapped' = xmapped
    BY <1>4 DEF Enqueue, xvars
  <2> QED
    BY <2>2, <2>3, ShownSame DEF ShowAhead
<1>5. CASE ConfigureMove \/ ConfigureResize \/ AsyncSend
  <2>1. UNCHANGED <<requests, windows, status, view, uvpc, walker, cur, todo, xmapped>> /\ ~VisInHand(w)
    BY <1>5 DEF ConfigureMove, ConfigureResize, AsyncSend, AtX, uvvars, xvars, VisInHand
  <2> QED
    BY <2>1, ShownSame, QueuedSame DEF ShowAhead
<1> QED
  BY <1>1, <1>2, <1>3, <1>4, <1>5 DEF XorgStep

LEMMA ShownEmit ==
  ASSUME Shape, ShowIsLast, ClientShows, EmitNext,
         NEW c \in Channel, NEW w \in Window, ShowSettled(c, w)'
  PROVE  view'[c][w].shown
<1> DEFINE r == Head(requests)
<1>1. requests \in Seq(Request) /\ requests # <<>> /\ requests' = Tail(requests) /\ r \in Request
  BY DEF EmitNext, Shape, TypeOK
<1>2. /\ UNCHANGED <<windows, status, xmapped>> /\ ~VisInHand(w) /\ ~ShowAhead(c, w)
      /\ status[c] = "event" /\ w \in xmapped
  BY ConstantsAssumption DEF EmitNext, VisInHand, ShowSettled, Shape, WalkOK, AtUv, ShowAhead, xvars
<1>3. view[c] \in [Window -> View] /\ r.type \in EventType /\ r.wid \in Window
  BY <1>1 DEF Shape, TypeOK, Request
<1>4. view'[c][w] = IF r.wid = w THEN Apply(view[c][w], r.type, r.geom) ELSE view[c][w]
  BY <1>2, <1>3 DEF EmitNext
<1>5. /\ Queued(w, VisType) \subseteq 1..Len(requests)
      /\ Queued(w, VisType)' = {i \in 1..(Len(requests) - 1) : i + 1 \in Queued(w, VisType)}
      /\ 1 \in Queued(w, VisType) <=> r.wid = w /\ r.type \in VisType
  BY <1>1, QueuedTail
<1>6. Queued(w, VisType) \subseteq {1}
  <2> SUFFICES ASSUME NEW i \in Queued(w, VisType), i # 1 PROVE FALSE
    OBVIOUS
  <2>1. i \in 1..Len(requests) /\ Len(requests) \in Nat
    BY <1>1, <1>5
  <2>2. i - 1 \in 1..(Len(requests) - 1) /\ (i - 1) + 1 = i
    BY <2>1
  <2> QED
    BY <1>5, <2>2 DEF ShowSettled
<1>7. CASE r.wid = w /\ r.type \in VisType
  <2>1. r.type \notin Unshow
    <3> SUFFICES ASSUME r.type \in Unshow PROVE FALSE
      OBVIOUS
    <3>1. 1 \in Queued(w, Unshow)
      BY <1>1, <1>7, QueuedTail
    <3>2. PICK j \in Queued(w, {"SHOW"}) : 1 < j
      BY <1>2, <3>1 DEF ShowIsLast
    <3>3. j \in Queued(w, VisType) /\ j # 1
      BY <3>2 DEF Queued, VisType
    <3> QED
      BY <1>6, <3>3
  <2>2. r.type = "SHOW"
    BY <1>7, <2>1 DEF VisType, Unshow
  <2> QED
    BY <1>3, <1>4, <1>7, <2>2, ApplyShown
<1>8. CASE ~(r.wid = w /\ r.type \in VisType)
  <2>1. Queued(w, VisType) = {}
    BY <1>5, <1>6, <1>8
  <2>2. view'[c][w].shown = view[c][w].shown
    BY <1>3, <1>4, <1>8, ApplyShown
  <2> QED
    BY <1>2, <2>1, <2>2 DEF ClientShows, ShowSettled
<1> QED
  BY <1>7, <1>8

LEMMA ShownUv ==
  ASSUME Shape, NodeFollowsX, ClientShows,
         EmitBegin \/ EmitEnd \/ RecoverStep \/ ClientStep \/ Faulted \/ UNCHANGED vars,
         NEW c \in Channel, NEW w \in Window, ShowSettled(c, w)'
  PROVE  view'[c][w].shown
<1>1. UNCHANGED <<ev, xpc, windows, xmapped, entry>> /\ ~VisInHand(w) /\ w \in xmapped \intersect windows
  BY UvFrame DEF EmitStep, VisInHand, ShowSettled
<1>2. requests' = requests
  BY DEF EmitBegin, EmitEnd, RecoverStep, RecoverFault, RecoverCreate, RecoverShow,
         ClientStep, ConnectEvent, ReadEof, AfterShutdown, Faulted, vars
<1>3. Queued(w, VisType)' = Queued(w, VisType)
  BY <1>2, QueuedSame
<1>4. /\ None \notin Channel /\ c # None
      /\ view \in [Channel -> [Window -> View]] /\ status \in [Channel -> {"absent", "event", "closing"}]
  BY ConstantsAssumption DEF Shape, TypeOK
<1> USE DEF AtUv
<1>5. CASE EmitBegin \/ EmitEnd \/ RecoverFault \/ Faulted \/ UNCHANGED vars
  <2>1. UNCHANGED <<status, view>> /\ (ShowAhead(c, w) => ShowAhead(c, w)')
    BY <1>4, <1>5 DEF EmitBegin, EmitEnd, RecoverFault, Faulted, vars, uvvars, ShowAhead, Shape, WalkOK
  <2> QED
    BY <1>1, <1>3, <2>1, ShownSame
<1>6. CASE RecoverCreate
  <2>1. cur \in Window /\ walker \in Channel /\ UNCHANGED <<walker, cur, todo, status>>
    BY <1>6 DEF RecoverCreate, Shape, TypeOK, WalkOK
  <2>2. ~(c = walker /\ w = cur)
    BY <1>6, <2>1 DEF ShowSettled, ShowAhead
  <2>3. view'[c][w] = view[c][w]
    BY <1>4, <1>6, <2>1, <2>2 DEF RecoverCreate
  <2> QED
    BY <1>1, <1>3, <2>1, <2>3, ShownSame DEF ShowAhead
<1>7. CASE RecoverShow
  <2>1. cur \in Window /\ walker \in Channel /\ uvpc = "show" /\ status' = status
    BY <1>7 DEF RecoverShow, Shape, TypeOK, WalkOK
  <2>2. Apply(view[walker][cur], "SHOW", NoGeom).shown
    BY <1>4, <2>1, ApplyShown DEF EventType
  <2>3. CASE c = walker /\ w = cur
    <3>1. entry[w].viewable
      BY <1>1 DEF NodeFollowsX, ViewableAhead, VisInHand, VisType, Shape, PcOK
    <3> QED
      BY <1>4, <1>7, <2>1, <2>2, <2>3, <3>1 DEF RecoverShow
  <2>4. CASE ~(c = walker /\ w = cur)
    <3>1. view'[c][w] = view[c][w]
      BY <1>4, <1>7, <2>1, <2>4 DEF RecoverShow
    <3>2. ShowAhead(c, w) => ShowAhead(c, w)'
      BY <1>7, <2>1, <2>4 DEF RecoverShow, Advance, ShowAhead
    <3> QED
      BY <1>1, <1>3, <2>1, <3>1, <3>2, ShownSame
  <2> QED
    BY <2>3, <2>4
<1>8. ASSUME NEW d \in Channel, ConnectEvent(d) PROVE view'[c][w].shown
  <2>1. view' = view /\ ~ShowAhead(c, w) /\ status' = [status EXCEPT ![d] = "event"]
    BY <1>4, <1>8 DEF ConnectEvent, ShowAhead, Shape, WalkOK
  <2>2. c # d
    BY <1>1, <1>8 DEF ConnectEvent, ShowSettled, ShowAhead
  <2> QED
    BY <1>1, <1>3, <1>4, <2>1, <2>2, ShownSame
<1>9. ASSUME NEW d \in Channel, ReadEof(d) \/ AfterShutdown(d) PROVE view'[c][w].shown
  <2>1. c # d
    BY <1>4, <1>9 DEF ReadEof, AfterShutdown, ShowSettled
  <2>2. view'[c] = view[c] /\ status'[c] = status[c] /\ (ShowAhead(c, w) => ShowAhead(c, w)')
    BY <1>4, <1>9, <2>1 DEF ReadEof, AfterShutdown, ShowAhead, uvvars
  <2> QED
    BY <1>1, <1>3, <2>2, ShownSame
<1> QED
  BY <1>5, <1>6, <1>7, <1>8, <1>9 DEF RecoverStep, ClientStep

-----------------------------------------------------------------------------
(* The inductive invariant, and what it implies. *)

LEMMA SInvInit == Init => SInv
<1> SUFFICES ASSUME Init PROVE SInv
  OBVIOUS
<1>1. MapOK /\ NodeFollowsX
  BY DEF Init, MapOK, NodeFollowsX, NoEvent
<1>2. ShowIsLast
  BY DEF Init, ShowIsLast, Queued
<1>3. ClientShows
  BY DEF Init, ClientShows, ShowSettled
<1> QED
  BY <1>1, <1>2, <1>3, IInvInit DEF SInv

LEMMA SInvStep == SInv /\ [Next]_vars => SInv'
<1> SUFFICES ASSUME SInv, [Next]_vars PROVE SInv'
  OBVIOUS
<1>1. Shape
  BY DEF SInv, IInv, Shape
<1>2. ClientShows'
  <2> SUFFICES ASSUME NEW c \in Channel, NEW w \in Window, ShowSettled(c, w)'
               PROVE  view'[c][w].shown
    BY DEF ClientShows
  <2>1. CASE HandleStep
    <3>1. UNCHANGED <<ev, xpc, xmapped, windows, requests, uvpc, walker, cur, todo, status, view>>
      BY <1>1, <2>1, HandleFrame
    <3>2. ~VisInHand(w) /\ (ShowAhead(c, w) => ShowAhead(c, w)')
      BY <3>1 DEF VisInHand, ShowSettled, ShowAhead
    <3> QED
      BY <3>1, <3>2, ShownSame, QueuedSame DEF SInv
  <2> QED
    BY <1>1, <2>1, ShownXorg, ShownEmit, ShownUv DEF SInv, Next, EmitStep
<1> QED
  BY <1>1, <1>2, IInvStep, MapStep, NodeStep, ShowQueueStep DEF SInv

THEOREM ShowInvariance == Spec => []SInv
<1>1. Init => SInv
  BY SInvInit
<1>2. SInv /\ [Next]_vars => SInv'
  BY SInvStep
<1> QED
  BY <1>1, <1>2, PTL DEF Spec

\* No client misses the SHOW of a mapped window of the list, whether it was
\* there when the window was mapped or joined afterwards.
THEOREM ShowCorrect == Spec => []MappedIsShown
<1>1. SInv => MappedIsShown
  <2> SUFFICES ASSUME SInv, NEW c \in Channel, NEW w \in Window,
                      status[c] = "event", walker # c, ~(xpc # "wait" /\ ev.wid = w),
                      Queued(w, EventType) = {}, w \in xmapped \intersect windows
               PROVE  view[c][w].shown
    BY DEF MappedIsShown
  <2>1. Queued(w, VisType) = {}
    BY DEF Queued, VisType, EventType
  <2>2. ~VisInHand(w) /\ ~ShowAhead(c, w)
    BY DEF VisInHand, ShowAhead
  <2> QED
    BY <2>1, <2>2 DEF SInv, ClientShows, ShowSettled
<1> QED
  BY <1>1, ShowInvariance, PTL

-----------------------------------------------------------------------------
(* LastWordIsX. *)

\* What is queued last about a linked window's geometry is what X gave it.
LastGeom ==
  \A w \in windows : ~Unsaid(w) =>
    \A i \in Queued(w, GeomType) :
      (\A j \in Queued(w, GeomType) : j <= i) => requests[i].geom = xgeom[w]

LEMMA LastGeomSame ==
  ASSUME LastGeom, requests' = requests, NEW w \in windows, ~Unsaid(w),
         xgeom'[w] = xgeom[w], NEW i \in Queued(w, GeomType)',
         \A j \in Queued(w, GeomType)' : j <= i
  PROVE  requests'[i].geom = xgeom'[w]
BY QueuedSame DEF LastGeom

\* Three steps of the two threads change the queue, or none does.
LEMMA QueueChanges ==
  ASSUME Shape, [Next]_vars
  PROVE  requests' = requests \/ Enqueue \/ EmitNext
<1>1. CASE XEvent
  BY <1>1, XEventFacts
<1>2. CASE XorgStep
  BY <1>2 DEF XorgStep, CreateLink, CreateInit, DestroyUnlink, MapViewable,
              ConfigureMove, ConfigureResize, AsyncSend
<1>3. CASE EmitBegin \/ EmitStep \/ RecoverStep \/ ClientStep \/ Faulted \/ UNCHANGED vars
  BY <1>3 DEF EmitBegin, EmitStep, EmitEnd, RecoverStep, RecoverFault, RecoverCreate, RecoverShow,
              ClientStep, ConnectEvent, ReadEof, AfterShutdown, Faulted, vars
<1>4. CASE HandleStep
  BY <1>4, HandleFrame
<1> QED
  BY <1>1, <1>2, <1>3, <1>4 DEF Next

LEMMA LastGeomStep == Shape /\ LastGeom /\ [Next]_vars => LastGeom'
<1> SUFFICES ASSUME Shape, LastGeom, [Next]_vars, NEW w \in windows', ~Unsaid(w)',
                    NEW i \in Queued(w, GeomType)', \A j \in Queued(w, GeomType)' : j <= i
             PROVE  requests'[i].geom = xgeom'[w]
  BY DEF LastGeom
<1>0. /\ requests \in Seq(Request) /\ Len(requests) \in Nat
      /\ windows \in SUBSET Window /\ windows' \in SUBSET Window /\ w \in Window
  BY ShapeStep DEF Shape, TypeOK
<1>1. CASE XEvent
  <2> PICK x \in Window :
        /\ xpc = "wait" /\ ev' \in [type : EventType, wid : {x}]
        /\ UNCHANGED <<windows, requests>>
        /\ \A u \in Window \ {x} : xgeom'[u] = xgeom[u]
        /\ ev'.type = "CREATE" => xpc' = "link"
        /\ ev'.type = "DESTROY" => xpc' = "unlink"
        /\ ev'.type = "CONFIGURE" => xpc' = "queue"
        /\ ev'.type \in {"SHOW", "HIDE"} => xgeom' = xgeom
    BY <1>1, XEventFacts
  <2>1. ev'.wid = x /\ ev'.type \in EventType /\ w \in windows /\ ~Unsaid(w)
    BY DEF Unsaid
  <2>2. xgeom'[w] = xgeom[w]
    <3>1. CASE w = x
      BY <2>1, <3>1 DEF Unsaid, GeomType, EventType
    <3> QED
      BY <1>0, <3>1
  <2> QED
    BY <2>1, <2>2, LastGeomSame
<1>2. CASE CreateLink \/ CreateInit \/ DestroyUnlink \/ MapViewable
  <2>1. requests' = requests /\ xgeom' = xgeom /\ w \in windows /\ ~Unsaid(w)
    BY <1>2 DEF CreateLink, CreateInit, DestroyUnlink, MapViewable, AtX, xvars,
                Unsaid, GeomType, Shape, PcOK
  <2> QED
    BY <2>1, LastGeomSame
<1>3. CASE Enqueue
  <2> PICK r \in Request :
        /\ requests' = Append(requests, r)
        /\ r.wid = ev.wid /\ r.type = ev.type
        /\ r.type = "DESTROY" => ev.wid \notin windows
        /\ r.type \in GeomType => r.geom = xgeom[ev.wid]
        /\ windows' = windows
    BY <1>3, EnqueueFacts
  <2>1. xgeom' = xgeom
    BY <1>3 DEF Enqueue, xvars
  <2>2. /\ requests'[Len(requests) + 1] = r
        /\ \A k \in 1..Len(requests) : requests'[k] = requests[k]
    BY <1>0
  <2>3. CASE r.wid = w /\ r.type \in GeomType
    <3>1. Queued(w, GeomType)' = Queued(w, GeomType) \union {Len(requests) + 1}
      BY <1>0, <2>3, QueuedAppend
    <3>2. Queued(w, GeomType) \subseteq 1..Len(requests)
      BY <1>0, QueuedAppend
    <3>3. Len(requests) + 1 <= i /\ i \in 1..(Len(requests) + 1)
      BY <1>0, <3>1, <3>2
    <3>4. i = Len(requests) + 1
      BY <1>0, <3>3
    <3> QED
      BY <2>1, <2>2, <2>3, <3>4
  <2>4. CASE ~(r.wid = w /\ r.type \in GeomType)
    <3>1. Queued(w, GeomType)' = Queued(w, GeomType) /\ Queued(w, GeomType) \subseteq 1..Len(requests)
      BY <1>0, <2>4, QueuedAppend
    <3>2. w \in windows /\ ~Unsaid(w)
      BY <2>4 DEF Unsaid
    <3>3. requests[i].geom = xgeom[w]
      BY <3>1, <3>2 DEF LastGeom
    <3> QED
      BY <2>1, <2>2, <3>1, <3>3
  <2> QED
    BY <2>3, <2>4
<1>4. CASE ConfigureMove \/ ConfigureResize \/ AsyncSend
  <2>1. requests' = requests /\ xgeom' = xgeom /\ w \in windows /\ ~Unsaid(w)
    BY <1>4 DEF ConfigureMove, ConfigureResize, AsyncSend, AtX, xvars, Unsaid
  <2> QED
    BY <2>1, LastGeomSame
<1>5. CASE EmitNext
  <2>1. /\ requests # <<>> /\ requests' = Tail(requests)
        /\ UNCHANGED <<windows, ev, xpc, xgeom>>
    BY <1>5 DEF EmitNext, xvars
  <2>2. w \in windows /\ ~Unsaid(w)
    BY <2>1 DEF Unsaid
  <2> DEFINE Q == Queued(w, GeomType)
  <2>3. /\ Queued(w, GeomType)' = {k \in 1..(Len(requests) - 1) : k + 1 \in Q}
        /\ Q \subseteq 1..Len(requests)
    BY <1>0, <2>1, QueuedTail
  <2>4. i \in 1..(Len(requests) - 1) /\ i + 1 \in Q
    BY <2>3
  <2>5. ASSUME NEW j \in Q PROVE j <= i + 1
    <3>1. j \in 1..Len(requests)
      BY <2>3
    <3>2. CASE j = 1
      BY <2>4, <3>2
    <3>3. CASE j # 1
      <4>1. j - 1 \in 1..(Len(requests) - 1) /\ (j - 1) + 1 = j
        BY <1>0, <3>1, <3>3
      <4>2. j - 1 <= i
        BY <2>3, <4>1
      <4> QED
        BY <2>4, <3>1, <4>2
    <3> QED
      BY <3>2, <3>3
  <2>6. requests[i + 1].geom = xgeom[w]
    BY <2>2, <2>4, <2>5 DEF LastGeom
  <2>7. requests'[i] = requests[i + 1]
    BY <1>0, <2>1, <2>4
  <2> QED
    BY <2>1, <2>6, <2>7
<1>6. CASE EmitBegin \/ EmitEnd \/ RecoverStep \/ ClientStep \/ Faulted \/ UNCHANGED vars
  <2>1. requests' = requests
    BY <1>6 DEF EmitBegin, EmitEnd, RecoverStep, RecoverFault, RecoverCreate, RecoverShow,
                ClientStep, ConnectEvent, ReadEof, AfterShutdown, Faulted, vars
  <2>2. UNCHANGED <<windows, ev, xpc, xgeom>>
    BY <1>6, UvFrame DEF EmitStep
  <2> QED
    BY <2>1, <2>2, LastGeomSame DEF Unsaid
<1>7. CASE HandleStep
  <2>1. UNCHANGED <<requests, windows, ev, xpc, xgeom>>
    BY <1>7, HandleFrame
  <2> QED
    BY <2>1, LastGeomSame DEF Unsaid
<1> QED
  BY <1>1, <1>2, <1>3, <1>4, <1>5, <1>6, <1>7 DEF Next, XorgStep, EmitStep

\* The drain that takes the last word on a window's geometry off the queue
\* leaves every attached client with the geometry X gave it, whatever clients
\* wrote into the node meanwhile and however stale a walk's word was.
THEOREM LastWordCorrect == Spec => LastWordIsX
<1>1. Init => LastGeom
  BY DEF Init, LastGeom
<1>2. IInv /\ LastGeom /\ [Next]_vars => LastGeom'
  BY LastGeomStep DEF IInv, Shape
<1>3. IInv /\ LastGeom /\ [Next]_vars =>
        [\A c \in Channel, w \in windows :
           /\ status[c] = "event" /\ ~Unsaid(w)
           /\ Queued(w, GeomType) # {} /\ Queued(w, GeomType)' = {}
           => view'[c][w].geom = xgeom[w]]_vars
  <2> SUFFICES ASSUME IInv, LastGeom, [Next]_vars, NEW c \in Channel, NEW w \in windows,
                      status[c] = "event", ~Unsaid(w),
                      Queued(w, GeomType) # {}, Queued(w, GeomType)' = {}
               PROVE  view'[c][w].geom = xgeom[w]
    OBVIOUS
  <2>1. /\ Shape /\ requests \in Seq(Request) /\ Len(requests) \in Nat /\ w \in Window
        /\ view[c] \in [Window -> View] /\ view \in [Channel -> [Window -> View]]
    BY DEF IInv, Shape, TypeOK
  <2>2. EmitNext
    <3>1. requests' # requests
      BY QueuedSame
    <3>2. ~Enqueue
      <4> SUFFICES ASSUME Enqueue PROVE FALSE
        OBVIOUS
      <4> PICK r \in Request : requests' = Append(requests, r)
        BY <2>1, EnqueueFacts
      <4> QED
        BY <2>1, QueuedAppend
    <3> QED
      BY <2>1, <3>1, <3>2, QueueChanges
  <2> DEFINE r == Head(requests)
  <2>3. requests # <<>> /\ requests' = Tail(requests) /\ r \in Request /\ r = requests[1]
    BY <2>1, <2>2 DEF EmitNext
  <2>4. /\ Queued(w, GeomType) \subseteq 1..Len(requests)
        /\ Queued(w, GeomType)' = {k \in 1..(Len(requests) - 1) : k + 1 \in Queued(w, GeomType)}
        /\ 1 \in Queued(w, GeomType) <=> r.wid = w /\ r.type \in GeomType
    BY <2>1, <2>3, QueuedTail
  <2>5. Queued(w, GeomType) = {1}
    <3> SUFFICES ASSUME NEW k \in Queued(w, GeomType), k # 1 PROVE FALSE
      OBVIOUS
    <3>1. k \in 1..Len(requests)
      BY <2>4
    <3>2. k - 1 \in 1..(Len(requests) - 1) /\ (k - 1) + 1 = k
      BY <2>1, <3>1
    <3> QED
      BY <2>4, <3>2
  <2>6. r.wid = w /\ r.type \in GeomType /\ r.geom = xgeom[w]
    BY <2>3, <2>4, <2>5 DEF LastGeom
  <2>7. view'[c][w] = Apply(view[c][w], r.type, r.geom)
    BY <2>1, <2>2, <2>6 DEF EmitNext
  <2>8. Apply(view[c][w], r.type, r.geom).geom = r.geom
    <3>1. view[c][w] \in View
      BY <2>1
    <3>2. CASE r.type = "CREATE"
      BY <3>2 DEF Apply
    <3>3. CASE r.type = "CONFIGURE"
      BY <3>1, <3>3 DEF Apply, View
    <3> QED
      BY <2>6, <3>2, <3>3 DEF GeomType
  <2> QED
    BY <2>6, <2>7, <2>8
<1> QED
  BY <1>1, <1>2, <1>3, Invariance, PTL DEF Spec, LastWordIsX

-----------------------------------------------------------------------------
(* WindowEvents implements ClientPromise. *)

\* What a client that nothing is on its way to was told is true.
ToldTrue ==
  \A c \in Channel, w \in Window : Quiet(c, w) =>
    /\ view[c][w].known <=> FactOf(w) # "absent"
    /\ FactOf(w) = "mapped" => view[c][w].shown

LEMMA QuietTruth == SInv => ToldTrue
<1> SUFFICES ASSUME SInv, NEW c \in Channel, NEW w \in Window, Quiet(c, w)
             PROVE  /\ view[c][w].known <=> FactOf(w) # "absent"
                    /\ FactOf(w) = "mapped" => view[c][w].shown
  BY DEF ToldTrue
<1>1. status[c] = "event" /\ walker # c /\ ~InHandOf(w) /\ Queued(w, EventType) = {}
  BY DEF Quiet
<1>2. Queued(w, LifeType) = {} /\ Queued(w, VisType) = {}
  BY <1>1 DEF Queued, EventType, LifeType, VisType
<1>3. ~InHand(w) /\ ~VisInHand(w)
  BY <1>1 DEF InHandOf, InHand, VisInHand
<1>4. ~Ahead(c, w) /\ ~ShowAhead(c, w)
  BY <1>1 DEF Ahead, ShowAhead
<1>5. view[c][w].known <=> w \in windows
  BY <1>1, <1>2, <1>3, <1>4 DEF SInv, IInv, ClientAgrees, Settled
<1>6. w \in xmapped \intersect windows => view[c][w].shown
  BY <1>1, <1>2, <1>3, <1>4 DEF SInv, ClientShows, ShowSettled
<1> QED
  BY <1>5, <1>6 DEF FactOf

LEMMA QuietTruthAfter == SInv' => ToldTrue'
  BY QuietTruth, PTL

\* A step that leaves nothing about w in the xorg thread's hand leaves w as
\* it is in the list and in the X server.
LEMMA FactKept ==
  ASSUME Shape, [Next]_vars, NEW w \in Window, ~InHandOf(w)'
  PROVE  FactOf(w)' = FactOf(w)
<1>1. (w \in windows' <=> w \in windows) /\ (w \in xmapped' <=> w \in xmapped)
  <2>1. CASE XEvent
    BY <2>1 DEF XEvent, XCreate, XDestroy, XMap, XUnmap, XConfigure, Take, InHandOf
  <2>2. CASE XorgStep
    BY <2>2 DEF XorgStep, CreateLink, CreateInit, DestroyUnlink, MapViewable, Enqueue,
                ConfigureMove, ConfigureResize, AsyncSend, xvars, InHandOf
  <2>3. CASE EmitBegin \/ EmitStep
    BY <2>3 DEF EmitBegin, EmitStep, EmitNext, EmitEnd, xvars
  <2>4. CASE RecoverStep
    BY <2>4 DEF RecoverStep, RecoverFault, RecoverCreate, RecoverShow, xvars
  <2>5. CASE ClientStep
    BY <2>5 DEF ClientStep, ConnectEvent, ReadEof, AfterShutdown, xvars
  <2>6. CASE Faulted \/ UNCHANGED vars
    BY <2>6 DEF Faulted, vars
  <2>7. CASE HandleStep
    BY <2>7, HandleFrame
  <2> QED
    BY <2>1, <2>2, <2>3, <2>4, <2>5, <2>6, <2>7 DEF Next
<1> QED
  BY <1>1 DEF FactOf

\* Nobody is told of a window unasked.
LEMMA ViewKept ==
  ASSUME Shape, [Next]_vars, NEW c \in Channel, NEW w \in Window, Quiet(c, w), Quiet(c, w)'
  PROVE  view'[c][w] = view[c][w]
<1>1. /\ status[c] = "event" /\ status'[c] = "event" /\ walker # c
      /\ Queued(w, EventType) = {}
  BY DEF Quiet
<1>2. /\ view \in [Channel -> [Window -> View]]
      /\ status \in [Channel -> {"absent", "event", "closing"}]
      /\ requests \in Seq(Request)
  BY DEF Shape, TypeOK
<1>3. CASE XEvent
  BY <1>3 DEF XEvent, XCreate, XDestroy, XMap, XUnmap, XConfigure, Take
<1>4. CASE XorgStep
  BY <1>4 DEF XorgStep, CreateLink, CreateInit, DestroyUnlink, MapViewable, Enqueue,
              ConfigureMove, ConfigureResize, AsyncSend
<1>5. CASE EmitNext
  <2>1. requests # <<>>
    BY <1>5 DEF EmitNext
  <2>2. 1 \in DOMAIN requests /\ Head(requests) = requests[1] /\ requests[1] \in Request
    BY <1>2, <2>1
  <2>3. Head(requests).wid # w
    BY <1>1, <2>2 DEF Queued, Request
  <2> QED
    BY <1>1, <1>2, <1>5, <2>3 DEF EmitNext
<1>6. CASE EmitBegin \/ EmitEnd
  BY <1>6 DEF EmitBegin, EmitEnd
<1>7. CASE RecoverStep
  BY <1>1, <1>2, <1>7 DEF RecoverStep, RecoverFault, RecoverCreate, RecoverShow
<1>8. CASE ClientStep
  <2>1. ASSUME NEW d \in Channel, ReadEof(d)
        PROVE  view'[c][w] = view[c][w]
    <3>1. d # c
      BY <1>1, <1>2, <2>1 DEF ReadEof
    <3> QED
      BY <1>2, <2>1, <3>1 DEF ReadEof
  <2> QED
    BY <1>8, <2>1 DEF ClientStep, ConnectEvent, AfterShutdown
<1>9. CASE HandleStep
  BY <1>9, HandleFrame
<1>10. CASE Faulted \/ UNCHANGED vars
  BY <1>10 DEF Faulted, vars
<1> QED
  BY <1>3, <1>4, <1>5, <1>6, <1>7, <1>8, <1>9, <1>10 DEF Next, EmitStep

-----------------------------------------------------------------------------
LEMMA PromiseInit == Init => Promise!Init
<1> SUFFICES ASSUME Init PROVE Promise!Init
  OBVIOUS
<1>1. \A w \in Window : FactOf(w) = "absent"
  BY DEF Init, FactOf
<1>2. \A c \in Channel, w \in Window : ~view[c][w].known /\ ~view[c][w].shown /\ ~Quiet(c, w)
  BY DEF Init, Blank, Quiet
<1>3. \A c \in Channel, w \in Window :
        [known |-> view[c][w].known, shown |-> view[c][w].shown] = Promise!Nothing
  BY DEF Init, Blank, Promise!Nothing
<1>4. \A c \in Channel, w \in Window : Quiet(c, w) = FALSE
  BY <1>2 DEF Quiet
<1> QED
  BY <1>1, <1>3, <1>4 DEF Promise!Init

LEMMA PromiseStep == SInv /\ SInv' /\ [Next]_vars => Promise!Next
<1> SUFFICES ASSUME SInv, SInv', [Next]_vars, NEW c \in Channel, NEW w \in Window
             PROVE  Promise!Unsettled(c, w) \/ Promise!Settles(c, w) \/ Promise!Rests(c, w)
  BY DEF Promise!Next
<1>1. Shape
  BY DEF SInv, IInv, Shape
<1>2. CASE ~Quiet(c, w)'
  BY <1>2 DEF Promise!Unsettled
<1>3. CASE Quiet(c, w)'
  <2>1. FactOf(w)' = FactOf(w)
    BY <1>1, <1>3, FactKept DEF Quiet
  <2>2. /\ view'[c][w].known <=> FactOf(w)' # "absent"
        /\ FactOf(w)' = "mapped" => view'[c][w].shown
    BY <1>3, QuietTruthAfter DEF ToldTrue
  <2>3. CASE ~Quiet(c, w)
    BY <1>3, <2>1, <2>2, <2>3 DEF Promise!Settles, Promise!True
  <2>4. CASE Quiet(c, w)
    <3>1. view'[c][w] = view[c][w]
      BY <1>1, <1>3, <2>4, ViewKept
    <3> QED
      BY <1>3, <2>1, <2>4, <3>1 DEF Promise!Rests
  <2> QED
    BY <2>3, <2>4
<1> QED
  BY <1>2, <1>3

\* The event path keeps its promise: whenever nothing is on its way to an
\* event channel it was told exactly of the windows of the list and shown
\* each mapped one, and it is told nothing of a window that rests.
THEOREM PromiseKept == Spec => KeepsPromise
<1>1. Init => Promise!Init
  BY PromiseInit
<1>2. SInv /\ SInv' /\ [Next]_vars => [Promise!Next]_(Promise!vars)
  BY PromiseStep
<1> QED
  BY <1>1, <1>2, ShowInvariance, PTL DEF Spec, KeepsPromise, Promise!Spec
=============================================================================
