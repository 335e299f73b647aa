------------------------------ MODULE ByteFifo ------------------------------
(***************************************************************************)
(* What the comments of ringbuf.h promise of ring buffers.  Each ring is a *)
(* queue of bytes of bounded capacity.  Writing more than fits overwrites  *)
(* old data "in FIFO fashion", reading takes the oldest bytes and does not *)
(* underflow.  A call is made, and takes effect as a whole when it returns.*)
(***************************************************************************)
EXTENDS Integers, Sequences

CONSTANTS Ring,      \* the rings of the program
          Capacity,  \* how many bytes each holds
          Byte,
          NoCall     \* no call is under way

VARIABLES fifo,      \* the bytes of each ring, oldest first
          call       \* the call under way

\* The last n elements of s, and s without its first n.
LastOf(s, n) == IF Len(s) <= n THEN s ELSE SubSeq(s, Len(s) - n + 1, Len(s))
But(s, n) == SubSeq(s, n + 1, Len(s))

IntoCall == [kind : {"into"}, dst : Ring, data : Seq(Byte)]
FromCall(r) == [kind : {"from"}, src : {r}, count : 0..Len(fifo[r])]
CopyCall(d, s) == [kind : {"copy"}, dst : {d}, src : {s}, count : 0..Len(fifo[s])]

Init ==
  /\ fifo = [r \in Ring |-> <<>>]
  /\ call = NoCall

Begin ==
  /\ call = NoCall
  /\ \/ call' \in IntoCall
     \/ \E r \in Ring : call' \in FromCall(r)
     \/ \E d, s \in Ring : d # s /\ call' \in CopyCall(d, s)
  /\ UNCHANGED fifo

Into ==
  /\ call.kind = "into"
  /\ fifo' = [fifo EXCEPT ![call.dst] = LastOf(@ \o call.data, Capacity[call.dst])]

From ==
  /\ call.kind = "from"
  /\ fifo' = [fifo EXCEPT ![call.src] = But(@, call.count)]

Copy ==
  /\ call.kind = "copy"
  /\ fifo' = [fifo EXCEPT
       ![call.dst] = LastOf(@ \o SubSeq(fifo[call.src], 1, call.count), Capacity[call.dst]),
       ![call.src] = But(@, call.count)]

Return ==
  /\ call # NoCall
  /\ call' = NoCall
  /\ Into \/ From \/ Copy

\* ringbuf_reset needs no loop.
Reset(r) ==
  /\ call = NoCall
  /\ fifo' = [fifo EXCEPT ![r] = <<>>]
  /\ UNCHANGED call

Next == Begin \/ Return \/ \E r \in Ring : Reset(r)

Spec == Init /\ [][Next]_<<fifo, call>>
=============================================================================
