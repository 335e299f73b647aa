---------------------------- MODULE WindowStream ----------------------------
(***************************************************************************)
(* The video stream of each window, and what clients ask of windows, on    *)
(* top of WindowEvents.                                                    *)
(*                                                                         *)
(* A window's picture and encoder are made on the xorg thread when the     *)
(* window is created, remade by either thread when its size changes, and   *)
(* used by either thread to send a frame: after a DAMAGE event on the xorg *)
(* thread, for SHOW_READY and for a new display channel on the uv thread.  *)
(* streamlock keeps remaking and sending apart; finding the window, and    *)
(* its geometry, are left to chance.                                       *)
(*                                                                         *)
(* Every action of WindowEvents is kept and extended: a handler that calls *)
(* cip_window.c starts a job, and its thread goes on when the job is done. *)
(* A window has one extent for its width and height.  Pixels, time stamps  *)
(* and payloads are left out; so are event channels, which WindowEvents    *)
(* has.  A misuse of x264 (closing what is not open, encoding a picture of *)
(* another size) ends the run, like an undefined read.                     *)
(***************************************************************************)
EXTENDS WindowEvents

CONSTANTS TooLarge,   \* extents x264_encoder_open refuses
          MaxInput,   \* bound: configure requests of clients X has not seen
          MaxFrames,  \* bound: no frame is begun while this many NALs wait
          MaxNals     \* bound: NALs of a frame

Thread == {"xorg", "uv"}

ASSUME StreamAssumption ==
  /\ None \notin Thread
  /\ Size \subseteq Nat
  /\ TooLarge \subseteq Nat
  /\ MaxInput \in Nat /\ MaxFrames \in Nat
  /\ MaxNals \in Nat \ {0}

VARIABLES
  stream,   \* per node: even_width, pic, encoder, the extent these were made for, stream_ready
  lock,     \* per node: streamlock's holder
  job,      \* per thread: the call into cip_window.c or handle_event under way
  xinput,   \* xcb_configure_window requests on their way to the X server
  frames,   \* requests of type DISPLAY in wr_list->requests
  misuse,   \* the first misuse of x264
  spoilt    \* history: nodes stream_init once found too small or too large

svars == <<stream, lock, job, xinput, frames, misuse, spoilt>>
allvars == <<vars, svars>>

Extent == Size \cup {n - (n % 2) : n \in Size}

Wild == [even |-> None, pic |-> "wild", encoder |-> "wild", made |-> None, ready |-> FALSE]
Stream == [even : Extent \cup {None}, pic : {"wild", "made", "clean"},
           encoder : {"wild", "open", "closed", "null"}, made : Extent \cup {None}, ready : BOOLEAN]

NoJob == [does |-> "nothing", at |-> "done", win |-> None, arg |-> None, nals |-> <<>>]
Idle(t) == job[t] = NoJob
Running == fault = "none" /\ misuse = "none"

Even(n) == n - (n % 2)
TooSmall(n) == n < 4

StreamInit ==
  /\ Init
  /\ stream = [w \in Window |-> Wild]
  /\ lock = [w \in Window |-> None]
  /\ job = [t \in Thread |-> NoJob]
  /\ xinput = <<>>
  /\ frames = <<>>
  /\ misuse = "none"
  /\ spoilt = {}

\* Thread t goes on at another place of its job, or starts one.
Goto(t, at) == job' = [job EXCEPT ![t].at = at]
Start(t, does, at, win, arg) ==
  job' = [job EXCEPT ![t] = [does |-> does, at |-> at, win |-> win, arg |-> arg, nals |-> <<>>]]
Return(t) == job' = [job EXCEPT ![t] = NoJob]

-----------------------------------------------------------------------------
(* The xorg thread's handlers *)

\* A step of WindowEvents that has nothing to do with streams.
Plain(A) == Running /\ A /\ UNCHANGED svars

\* CREATE_NOTIFY goes on with stream_init, without the lock.
CreateStream ==
  /\ Running /\ CreateInit
  /\ Start("xorg", "make", "init", ev.wid, None)
  /\ UNCHANGED <<stream, lock, xinput, frames, misuse, spoilt>>

\* DESTROY_NOTIFY frees the node with its lock; encoder and picture leak.
\* The uv thread may hold a pointer to the node, from a search that is
\* under way or from one that ended.
DestroyStream ==
  /\ Running /\ DestroyUnlink
  /\ stream' = [stream EXCEPT ![ev.wid] = Wild]
  /\ lock' = [lock EXCEPT ![ev.wid] = None]
  /\ spoilt' = spoilt \ {ev.wid}
  /\ LET searching == job["uv"].at \in {"seek", "find"} /\ ev.wid \in windows IN
       \/ (searching \/ job["uv"].win = ev.wid) /\ job' = [job EXCEPT !["uv"].win = Freed]
       \/ (searching \/ job["uv"].win # ev.wid) /\ UNCHANGED job
  /\ UNCHANGED <<xinput, frames, misuse>>

\* Mutant: the stream keeps the size it had.
ResizeNoReset == Plain(ConfigureResize)

\* CONFIGURE_NOTIFY: stream_reset if the size differs from the one in the
\* queued buffer, or if that buffer is freed memory that looks as if it did.
ResizeStream ==
  /\ Running /\ ConfigureResize
  /\ LET same == entry[ev.wid].size = xgeom[ev.wid].size IN
       \/ /\ ~same \/ requests = <<>>
          /\ entry'[ev.wid].size = xgeom[ev.wid].size
          /\ Start("xorg", "reset", "take", ev.wid, None)
       \/ /\ same \/ requests = <<>>
          /\ entry' = entry
          /\ UNCHANGED job
  /\ UNCHANGED <<stream, lock, xinput, frames, misuse, spoilt>>

\* DAMAGE_NOTIFY of a mapped window.
Damage(w) ==
  /\ Running /\ AtX("wait") /\ Idle("xorg")
  /\ w \in xmapped
  /\ Len(frames) < MaxFrames
  /\ Start("xorg", "frame", "find", w, None)
  /\ UNCHANGED <<vars, stream, lock, xinput, frames, misuse, spoilt>>

\* The X server carries out a client's configure request.  A change makes a
\* CONFIGURE_NOTIFY; a request for a dead window is an error nobody reads.
XApply ==
  /\ Running /\ AtX("wait") /\ Idle("xorg")
  /\ xinput # <<>>
  /\ LET r == Head(xinput)
         to == IF r.field = "pos" THEN [xgeom[r.wid] EXCEPT !.pos = r.value]
                                  ELSE [xgeom[r.wid] EXCEPT !.size = r.value]
     IN  \/ /\ r.wid \in xlive /\ to # xgeom[r.wid]
            /\ xgeom' = [xgeom EXCEPT ![r.wid] = to]
            /\ UNCHANGED <<xlive, xmapped>>
            /\ Take("CONFIGURE", r.wid, "queue")
         \/ /\ r.wid \notin xlive \/ to = xgeom[r.wid]
            /\ UNCHANGED vars
  /\ xinput' = Tail(xinput)
  /\ UNCHANGED <<stream, lock, job, frames, misuse, spoilt>>

-----------------------------------------------------------------------------
(* The uv thread's handlers *)

AtLoop == Running /\ AtUv("loop") /\ Idle("uv")

\* handle_event: WINDOW_MOVE, WINDOW_RESIZE, WINDOW_SHOW_READY.
InputMove(w, p) ==
  /\ AtLoop /\ Len(xinput) < MaxInput
  /\ Start("uv", "move", "seek", w, p)
  /\ UNCHANGED <<vars, stream, lock, xinput, frames, misuse, spoilt>>
InputResize(w, n) ==
  /\ AtLoop /\ Len(xinput) < MaxInput
  /\ Start("uv", "resize", "seek", w, n)
  /\ UNCHANGED <<vars, stream, lock, xinput, frames, misuse, spoilt>>
InputShowReady(w) ==
  /\ AtLoop /\ Len(frames) < MaxFrames
  /\ Start("uv", "ready", "seek", w, None)
  /\ UNCHANGED <<vars, stream, lock, xinput, frames, misuse, spoilt>>

\* A walk of the uv thread from the front of the list meets a node whose
\* wid is not assigned yet.
MeetsRaw == \E v \in windows : Raw(v)

\* find_window
Seek ==
  /\ Running /\ job["uv"].at = "seek" /\ job["uv"].win # Freed
  /\ ~MeetsRaw
  /\ IF job["uv"].win \notin windows THEN Return("uv")
     ELSE Goto("uv", IF job["uv"].does = "ready" THEN "spin" ELSE "store")
  /\ UNCHANGED <<vars, stream, lock, xinput, frames, misuse, spoilt>>

\* The handler writes the node ...
StoreGeometry ==
  /\ Running /\ job["uv"].at = "store" /\ job["uv"].win # Freed
  /\ LET j == job["uv"] IN
       entry' = IF j.does = "move" THEN [entry EXCEPT ![j.win].pos = j.arg]
                                   ELSE [entry EXCEPT ![j.win].size = j.arg]
  /\ Goto("uv", "tell")
  /\ UNCHANGED <<xvars, ev, xpc, windows, requests, asyncPending, uvvars, status, view, fault>>
  /\ UNCHANGED <<stream, lock, xinput, frames, misuse, spoilt>>

\* Mutant: xcb_configure_window is left out.
TellNobody ==
  /\ Running /\ job["uv"].at = "tell" /\ job["uv"].win # Freed
  /\ IF job["uv"].does = "move" THEN Return("uv") ELSE Start("uv", "reset", "take", job["uv"].win, None)
  /\ UNCHANGED <<vars, stream, lock, xinput, frames, misuse, spoilt>>

\* ... and sends the X server what the node says by then.
TellX ==
  /\ Running /\ job["uv"].at = "tell" /\ job["uv"].win # Freed
  /\ LET w == job["uv"].win IN
       \/ /\ job["uv"].does = "move"
          /\ xinput' = Append(xinput, [wid |-> w, field |-> "pos", value |-> entry[w].pos])
          /\ Return("uv")
       \/ /\ job["uv"].does = "resize"
          /\ xinput' = Append(xinput, [wid |-> w, field |-> "size", value |-> entry[w].size])
          /\ Start("uv", "reset", "take", w, None)
  /\ UNCHANGED <<vars, stream, lock, frames, misuse, spoilt>>

\* while(!window->stream_ready){usleep(50);}
Spin ==
  /\ Running /\ job["uv"].at = "spin" /\ job["uv"].win # Freed
  /\ stream[job["uv"].win].ready
  /\ Start("uv", "frame", "find", job["uv"].win, None)
  /\ UNCHANGED <<vars, stream, lock, xinput, frames, misuse, spoilt>>

\* A display channel: recover_state sends a keyframe of each viewable window.
GreetFrom(ahead) ==
  \/ ahead = {} /\ uvpc' = "loop" /\ cur' = None /\ todo' = {}
  \/ \E w \in ahead : uvpc' = "greet" /\ cur' = w /\ todo' = ahead \ {w}

ConnectDisplay ==
  /\ AtLoop /\ Len(frames) < MaxFrames
  /\ windows # {}
  /\ GreetFrom(windows)
  /\ UNCHANGED <<xvars, ev, xpc, windows, entry, requests, asyncPending, walker, status, view, fault>>
  /\ UNCHANGED svars

GreetOne ==
  /\ Running /\ uvpc = "greet" /\ Idle("uv")
  /\ cur # Freed /\ ~Raw(cur)
  /\ IF entry[cur].viewable THEN Start("uv", "frame", "find", cur, None) ELSE UNCHANGED job
  /\ uvpc' = "greeted"
  /\ UNCHANGED <<xvars, ev, xpc, windows, entry, requests, asyncPending, walker, cur, todo,
                 status, view, fault>>
  /\ UNCHANGED <<stream, lock, xinput, frames, misuse, spoilt>>

GreetNext ==
  /\ Running /\ uvpc = "greeted" /\ Idle("uv")
  /\ cur # Freed
  /\ GreetFrom(todo)
  /\ UNCHANGED <<xvars, ev, xpc, windows, entry, requests, asyncPending, walker, status, view, fault>>
  /\ UNCHANGED svars

\* The uv thread meets a raw node, or uses one that was freed.
UvFault ==
  /\ Running
  /\ \/ /\ job["uv"].win = Freed \/ (uvpc \in {"greet", "greeted"} /\ Idle("uv") /\ cur = Freed)
        /\ fault' = "freed"
     \/ /\ \/ job["uv"].at \in {"seek", "find"} /\ MeetsRaw
           \/ uvpc = "greet" /\ cur # Freed /\ Raw(cur)
        /\ fault' = "raw"
  /\ UNCHANGED <<xvars, ev, xpc, windows, entry, requests, asyncPending, uvvars, status, view, svars>>

\* emit_write takes a request of type DISPLAY; no event channel hears it.
EmitFrame ==
  /\ Running /\ AtUv("drain")
  /\ frames # <<>>
  /\ frames' = Tail(frames)
  /\ UNCHANGED <<vars, stream, lock, job, xinput, misuse, spoilt>>

-----------------------------------------------------------------------------
(* cip_window.c, on either thread *)

At(t, place) == Running /\ job[t].at = place /\ job[t].win # Freed

\* The search of frame_send, and its test of the size, without the lock.
Find(t) ==
  /\ At(t, "find")
  /\ t = "uv" => ~MeetsRaw
  /\ LET w == job[t].win IN
       IF w \in windows /\ ~TooSmall(entry[w].size) THEN Goto(t, "take") ELSE Return(t)
  /\ UNCHANGED <<vars, stream, lock, xinput, frames, misuse, spoilt>>

\* Mutant: no lock.
TakeNoLock(t) ==
  /\ At(t, "take")
  /\ Goto(t, IF job[t].does = "frame" THEN "work" ELSE "clean")
  /\ UNCHANGED <<vars, stream, lock, xinput, frames, misuse, spoilt>>

TakeLock(t) ==
  /\ At(t, "take")
  /\ lock[job[t].win] = None
  /\ lock' = [lock EXCEPT ![job[t].win] = t]
  /\ Goto(t, IF job[t].does = "frame" THEN "work" ELSE "clean")
  /\ UNCHANGED <<vars, stream, xinput, frames, misuse, spoilt>>

\* What x264 asks of its caller.
Usable(w) ==
  /\ stream[w].pic = "made" /\ stream[w].encoder = "open"
  /\ stream[w].made = stream[w].even

Misuse(t) ==
  /\ misuse' = IF stream[job[t].win].ready THEN "spoilt" ELSE "early"
  /\ UNCHANGED <<vars, stream, lock, job, xinput, frames, spoilt>>

\* Mutant: the lock is kept when there is no image.
EncodeReturns(t) ==
  /\ At(t, "work")
  /\ \/ /\ Return(t)
        /\ UNCHANGED <<vars, stream, lock, xinput, frames, misuse, spoilt>>
     \/ /\ Usable(job[t].win)
        /\ \E n \in 1..MaxNals :
             job' = [job EXCEPT ![t].at = "nal",
                                ![t].nals = [k \in 1..n |-> [wid |-> job[t].win, nal |-> k, of |-> n]]]
        /\ UNCHANGED <<vars, stream, lock, xinput, frames, misuse, spoilt>>

\* get_image of the even extent, conversion, encoding.  The X server may
\* have no image, and the encoder may fail.
Encode(t) ==
  /\ At(t, "work")
  /\ \/ /\ Goto(t, "give")
        /\ UNCHANGED <<vars, stream, lock, xinput, frames, misuse, spoilt>>
     \/ /\ Usable(job[t].win)
        /\ \E n \in 1..MaxNals :
             job' = [job EXCEPT ![t].at = "nal",
                                ![t].nals = [k \in 1..n |-> [wid |-> job[t].win, nal |-> k, of |-> n]]]
        /\ UNCHANGED <<vars, stream, lock, xinput, frames, misuse, spoilt>>
     \/ ~Usable(job[t].win) /\ Misuse(t)

\* One NAL: list_add_tail under the mutex of the request list ...
QueueNal(t) ==
  /\ At(t, "nal")
  /\ uvpc # "drain"
  /\ frames' = Append(frames, Head(job[t].nals))
  /\ Goto(t, "ring")
  /\ UNCHANGED <<vars, stream, lock, xinput, misuse, spoilt>>

Rung(t) ==
  job' = [job EXCEPT ![t].at = IF Len(job[t].nals) = 1 THEN "give" ELSE "nal", ![t].nals = Tail(@)]

\* Mutant: no uv_async_send.
RingNobody(t) ==
  /\ At(t, "ring")
  /\ Rung(t)
  /\ UNCHANGED <<vars, stream, lock, xinput, frames, misuse, spoilt>>

\* ... and uv_async_send.
Ring(t) ==
  /\ At(t, "ring")
  /\ asyncPending' = TRUE
  /\ Rung(t)
  /\ UNCHANGED <<xvars, ev, xpc, windows, entry, requests, uvvars, status, view, fault>>
  /\ UNCHANGED <<stream, lock, xinput, frames, misuse, spoilt>>

\* stream_reset: x264_picture_clean, which may be repeated once there was a
\* picture, and x264_encoder_close, which may not.
Clean(t) ==
  /\ At(t, "clean")
  /\ LET w == job[t].win IN
       \/ /\ stream[w].pic # "wild" /\ stream[w].encoder = "open"
          /\ stream' = [stream EXCEPT ![w].pic = "clean", ![w].encoder = "closed", ![w].made = None]
          /\ Goto(t, "init")
          /\ UNCHANGED <<vars, lock, xinput, frames, misuse, spoilt>>
       \/ /\ stream[w].pic = "wild" \/ stream[w].encoder # "open"
          /\ Misuse(t)

\* Mutant: "fail2" forgets the picture.
InitialisedUnclean(w) ==
  LET e == Even(entry[w].size) IN
    IF TooSmall(e) THEN [stream[w] EXCEPT !.even = e]
    ELSE IF e \in TooLarge
      THEN [stream[w] EXCEPT !.even = e, !.pic = "made", !.encoder = "null", !.made = None]
      ELSE [stream[w] EXCEPT !.even = e, !.pic = "made", !.encoder = "open", !.made = e]

\* cip_window_stream_init: an early return below 4, and "fail2".
Initialised(w) ==
  LET e == Even(entry[w].size) IN
    IF TooSmall(e) THEN [stream[w] EXCEPT !.even = e]
    ELSE IF e \in TooLarge
      THEN [stream[w] EXCEPT !.even = e, !.pic = "clean", !.encoder = "null", !.made = None]
      ELSE [stream[w] EXCEPT !.even = e, !.pic = "made", !.encoder = "open", !.made = e]

\* Mutant: stream_ready is not set.
InitNotReady(t) ==
  /\ At(t, "init")
  /\ stream' = [stream EXCEPT ![job[t].win] = Initialised(job[t].win)]
  /\ IF job[t].does = "make" THEN Return(t) ELSE Goto(t, "give")
  /\ UNCHANGED <<vars, lock, xinput, frames, misuse, spoilt>>

\* The end of stream_reset, or of CREATE_NOTIFY, which sets stream_ready.
InitStream(t) ==
  /\ At(t, "init")
  /\ LET w == job[t].win
         e == Even(entry[w].size)
     IN  /\ spoilt' = IF TooSmall(e) \/ e \in TooLarge THEN spoilt \cup {w} ELSE spoilt
         /\ IF job[t].does = "make"
            THEN stream' = [stream EXCEPT ![w] = [Initialised(w) EXCEPT !.ready = TRUE]] /\ Return(t)
            ELSE stream' = [stream EXCEPT ![w] = Initialised(w)] /\ Goto(t, "give")
  /\ UNCHANGED <<vars, lock, xinput, frames, misuse>>

GiveLock(t) ==
  /\ At(t, "give")
  /\ lock' = [lock EXCEPT ![job[t].win] = None]
  /\ Return(t)
  /\ UNCHANGED <<vars, stream, xinput, frames, misuse, spoilt>>

-----------------------------------------------------------------------------
JobStep(t) ==
  \/ Find(t) \/ TakeLock(t) \/ Encode(t) \/ QueueNal(t) \/ Ring(t)
  \/ Clean(t) \/ InitStream(t) \/ GiveLock(t)

\* xorg_thread takes an event, or goes on with one once its call returned.
XTakes == Idle("xorg") /\ (Plain(XEvent) \/ XApply \/ (\E w \in Window : Damage(w)))
XGoesOn ==
  Idle("xorg") /\ (CreateStream \/ DestroyStream \/ ResizeStream
    \/ Plain(CreateLink \/ MapViewable \/ Enqueue \/ ConfigureMove \/ AsyncSend))

Input ==
  \/ \E w \in Window : InputShowReady(w)
  \/ \E w \in Window, p \in Pos : InputMove(w, p)
  \/ \E w \in Window, n \in Size : InputResize(w, n)
  \/ ConnectDisplay

\* emit_write goes on, or a handler of a client's message does.
UvGoesOn ==
  \/ Plain(EmitNext) \/ EmitFrame \/ (frames = <<>> /\ Plain(EmitEnd))
  \/ Seek \/ StoreGeometry \/ TellX \/ Spin \/ GreetOne \/ GreetNext \/ UvFault

Wake == Idle("uv") /\ Plain(EmitBegin)
Stopped == ~Running /\ UNCHANGED allvars

StreamNext ==
  XTakes \/ XGoesOn \/ Input \/ UvGoesOn \/ Wake \/ (\E t \in Thread : JobStep(t)) \/ Stopped

StreamSpec == StreamInit /\ [][StreamNext]_allvars

-----------------------------------------------------------------------------
(* Properties *)

Uses(t, w) == job[t].win = w /\ job[t].at \in {"work", "nal", "ring", "clean", "init", "give"}
Critical(t, w) == Uses(t, w) /\ job[t].does # "make"

\* Types of the variables added here; a picture and an encoder exist
\* together (cip_window.c:152-166).
StreamTypeOK ==
  /\ stream \in [Window -> Stream]
  /\ \A w \in Window : stream[w].encoder = "open" <=> stream[w].pic = "made"
  /\ lock \in [Window -> Thread \cup {None}]
  /\ \A t \in Thread :
       /\ job[t].win \in Window \cup {None, Freed}
       /\ job[t].at \in {"done", "seek", "store", "tell", "spin", "find", "take", "work", "nal",
                         "ring", "clean", "init", "give"}
  /\ uvpc \in {"loop", "drain", "greet", "greeted"}
  /\ misuse \in {"none", "early", "spoilt"}
  /\ spoilt \in SUBSET Window

\* A call of cip_window.c works on a stream alone: the lock is held by the
\* thread that does, and by nobody when none does, whichever way it left
\* (the unlocks of cip_window.c:176, 203, 224 and 256).
LockFollowsUse ==
  Running => \A w \in Window, t \in Thread : lock[w] = t <=> Critical(t, w)

\* Once no thread is about to remake it, a window's picture and encoder
\* exist and have the even part of the node's size, however resizes by
\* clients and by the X server crossed; except for a window that once had
\* a size stream_init refuses.
StreamFitsNode ==
  \A w \in windows :
    /\ Running /\ stream[w].ready /\ w \notin spoilt
    /\ \A t \in Thread : ~(job[t].win = w /\ job[t].does \in {"resize", "reset"})
    => Usable(w) /\ stream[w].even = Even(entry[w].size)

\* x264 is misused only on a window that was once too small or too large
\* (cip_window.c:129, 158), or by the uv thread on a window whose stream the
\* xorg thread is still making: a client resized it (cip_channel.c:123), or
\* frame_send, searching by id, met a new window with the id of the one
\* that was ready (cip_channel.c:138-139, cip_window.c:183-184).  No stream
\* is ever used while it is being remade.
MisuseIsExplained ==
  /\ misuse = "spoilt" => \E t \in Thread : job[t].at \in {"work", "clean"} /\ job[t].win \in spoilt
  /\ misuse = "early" => /\ job["uv"].at \in {"work", "clean"}
                         /\ job["xorg"].does = "make" /\ job["xorg"].win = job["uv"].win

\* A NAL g right after f among those of one window.
Follows(f, g) == IF f.nal = f.of THEN g.nal = 1 ELSE g = [f EXCEPT !.nal = @ + 1]

\* The NALs of one frame wait in the write list with no other NAL of their
\* window between them, whichever thread sent them; unless the window was
\* freed under the uv thread, which may have been in the middle of one.
FramesAreWhole ==
  job["uv"].win # Freed =>
    \A i, j \in DOMAIN frames :
      /\ i < j /\ frames[i].wid = frames[j].wid
      /\ \A k \in (i + 1)..(j - 1) : frames[k].wid # frames[i].wid
      => Follows(frames[i], frames[j])

\* No frame waits in the queue of an idle uv thread without a wake-up.
NoLostFrame ==
  Running /\ frames # <<>> /\ uvpc # "drain"
    => asyncPending \/ \E t \in Thread : job[t].at = "ring"

\* A move by a client and the moves of the X server cross on the node; when
\* nothing is on its way the node has the position the X server has.
PositionSettles ==
  \A w \in windows :
    /\ Running /\ xpc = "wait"
    /\ \A i \in 1..Len(xinput) : xinput[i].wid = w => xinput[i].field # "pos"
    /\ ~(job["uv"].win = w /\ job["uv"].does = "move" /\ job["uv"].at = "tell")
    => entry[w].pos = xgeom[w].pos

\* SHOW_READY never waits in vain (cip_channel.c:138): while it spins, the
\* xorg thread is about to make that very stream, and needs nothing of the
\* uv thread for it.
SpinHasMaker ==
  \A w \in Window :
    Running /\ job["uv"].at = "spin" /\ job["uv"].win = w /\ ~stream[w].ready
      => job["xorg"].does = "make" /\ job["xorg"].win = w
=============================================================================
