------------------------------ MODULE ListWalk ------------------------------
(***************************************************************************)
(* What a walk of the window list may meet while the other thread changes  *)
(* the list, without the order of the nodes: the picture WindowEvents and  *)
(* WindowStream draw of the list.  A node linked during the walk is not    *)
(* met, one unlinked ahead of it is not met either, and one unlinked under *)
(* it leaves it a dangling pointer.                                        *)
(***************************************************************************)
CONSTANTS Node, None, Freed

VARIABLES linked,  \* the nodes of the list
          at,      \* where the walk stands
          ahead    \* what it has still to meet

vars == <<linked, at, ahead>>

Init ==
  /\ linked = {}
  /\ at = None
  /\ ahead = {}

Link(n) ==
  /\ n \notin linked
  /\ linked' = linked \cup {n}
  /\ UNCHANGED <<at, ahead>>

Unlink(n) ==
  /\ n \in linked
  /\ linked' = linked \ {n}
  /\ at' = IF at = n THEN Freed ELSE at
  /\ ahead' = IF at = n THEN {} ELSE ahead \ {n}

Begin ==
  /\ at = None
  /\ at' \in linked
  /\ ahead' = linked \ {at'}
  /\ UNCHANGED linked

\* The walk moves on, or ends.
Move ==
  /\ at \in Node
  /\ \/ at' = None /\ ahead = {} /\ UNCHANGED ahead
     \/ at' \in ahead /\ ahead' = ahead \ {at'}

\* The node it leaves may be unlinked by then.
Step == Move /\ (UNCHANGED linked \/ (at \in linked /\ linked' = linked \ {at}))

Next == (\E n \in Node : Link(n) \/ Unlink(n)) \/ Begin \/ Step

Spec == Init /\ [][Next]_vars
=============================================================================
