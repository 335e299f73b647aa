--------------------------- MODULE ClientPromise ---------------------------
(***************************************************************************)
(* What the server promises each of its event channels of each window: a   *)
(* copy of what the server knows that is right whenever it has settled,    *)
(* and that settles once the window is left alone.                         *)
(***************************************************************************)
CONSTANTS Window, Client

VARIABLES fact,     \* per window: "absent", "hidden" or "mapped"
          told,     \* per client and window: what it was told, [known, shown]
          settled,  \* per client and window: nothing is on its way
          calm      \* per client and window: the client stays, the window is left alone

vars == <<fact, told, settled, calm>>

Nothing == [known |-> FALSE, shown |-> FALSE]

\* A client may think a window shown that is not: nothing is promised there.
True(t, f) ==
  /\ t.known <=> f # "absent"
  /\ f = "mapped" => t.shown

Init ==
  /\ fact = [w \in Window |-> "absent"]
  /\ told = [c \in Client |-> [w \in Window |-> Nothing]]
  /\ settled = [c \in Client |-> [w \in Window |-> FALSE]]

\* Something is on its way to the client, which may be told anything.
Unsettled(c, w) == ~settled'[c][w]

\* The last of it arrives, and what the client was told is true.
Settles(c, w) ==
  /\ ~settled[c][w] /\ settled'[c][w]
  /\ fact'[w] = fact[w]
  /\ True(told'[c][w], fact'[w])

\* Neither the window nor what was said of it changes.
Rests(c, w) ==
  /\ settled[c][w] /\ settled'[c][w]
  /\ fact'[w] = fact[w]
  /\ told'[c][w] = told[c][w]

Next == \A c \in Client, w \in Window : Unsettled(c, w) \/ Settles(c, w) \/ Rests(c, w)

Spec == Init /\ [][Next]_vars

\* Left alone for good, the client has the window right for good.
Settling == \A c \in Client, w \in Window : <>[]calm[c][w] => <>[]settled[c][w]

FairSpec == Spec /\ Settling
=============================================================================
