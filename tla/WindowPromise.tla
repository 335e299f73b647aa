--------------------------- MODULE WindowPromise ---------------------------
(* WindowEvents keeps ClientPromise: the refinement mapping. *)
EXTENDS WindowEvents

\* What the window list says of w, or will once the event in hand is done.
FactOf(w) ==
  IF w \notin windows THEN "absent" ELSE IF w \in xmapped THEN "mapped" ELSE "hidden"

InHandOf(w) == xpc # "wait" /\ ev.wid = w

\* Nothing at all about w is on its way to c.
Quiet(c, w) ==
  /\ status[c] = "event" /\ walker # c
  /\ ~InHandOf(w)
  /\ Queued(w, EventType) = {}

Promise == INSTANCE ClientPromise WITH
  Client  <- Channel,
  fact    <- [w \in Window |-> FactOf(w)],
  told    <- [c \in Channel |-> [w \in Window |->
                [known |-> view[c][w].known, shown |-> view[c][w].shown]]],
  settled <- [c \in Channel |-> [w \in Window |-> Quiet(c, w)]],
  calm    <- [c \in Channel |-> [w \in Window |->
                status[c] = "event" /\ ~InHandOf(w) /\ fault = "none"]]

\* Whenever nothing is on its way to an event channel it has been told
\* exactly of the windows of the list, and of each mapped one that it is
\* shown; and nothing reaches it unasked of a window that rests
\* (emit_write, recover_state and the handlers of xorg_thread together).
KeepsPromise == Promise!Spec

\* In the end nothing is on its way: a client that stays is told all there
\* is to say of a window that is left alone.
KeepsPromiseInTheEnd == Promise!Settling
=============================================================================
