------------------------------ MODULE MCRingBuf ------------------------------
(* A small instance of RingBuf and of what it implements. *)
EXTENDS RingFifo

CONSTANTS r1, r2, a, b

\* Rings of different sizes, so that a copy wraps in one and not the other.
MCCap == [r \in Ring |-> IF r = r1 THEN 2 ELSE 1]
=============================================================================
