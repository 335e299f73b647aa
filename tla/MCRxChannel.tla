---------------------------- MODULE MCRxChannel ----------------------------
(* Instances of RxChannel for TLC. *)
EXTENDS RxChannel

Instance(kinds, capacity, sends, manners) ==
  [kinds |-> kinds, capacity |-> capacity, sends |-> sends, manners |-> manners]

\* Messages of two sizes, and one the parser does not know, that fill the
\* buffer exactly, stop short of its end or run past it; the same from a
\* client that does not wait; anything, cut anywhere.
MCSetups ==
  { Instance({"MOUSE_DOWN", "WINDOW_SHOW_READY", "WINDOW_FRAME_LISTEN"}, 14, 6, "awaits"),
    Instance({"MOUSE_DOWN", "WINDOW_SHOW_READY"}, 14, 4, "eager"),
    Instance({"WINDOW_SHOW_READY"}, 8, 3, "any") }

\* TCP delivers any number of bytes at a time.
FragmentSetups == { Instance({"WINDOW_SHOW_READY"}, 12, 3, "any") }

\* Input on a channel that does not read it.
FullSetups == { Instance({"WINDOW_SHOW_READY"}, 8, 3, "any") }

\* A client event that get_size_by_type does not know.
StuckSetups == { Instance({"WINDOW_FRAME_LISTEN", "WINDOW_SHOW_READY"}, 15, 3, "awaits") }
=============================================================================
