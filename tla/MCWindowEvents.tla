--------------------------- MODULE MCWindowEvents ---------------------------
(* Small instances of WindowEvents for TLC. *)
EXTENDS WindowPromise, TLC

CONSTANTS w1, w2, c1, c2, p1, p2, s1, s2

\* The behaviours in which no client asks to move or resize a window.
UnaskedNext == XEvent \/ XorgStep \/ EmitBegin \/ EmitStep \/ RecoverStep \/ ClientStep
               \/ Faulted
UnaskedSpec == Init /\ [][UnaskedNext]_vars

ChannelSymmetry == Permutations(Channel)
=============================================================================
