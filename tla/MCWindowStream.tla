--------------------------- MODULE MCWindowStream ---------------------------
(* An instance of WindowStream for TLC.                                     *)
EXTENDS WindowStream, TLC

\* Two positions are told apart, and nothing else is asked of them.
PosSymmetry == Permutations(Pos)
=============================================================================
