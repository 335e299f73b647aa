------------------------------ MODULE RingFifo ------------------------------
(* RingBuf under a refinement mapping to the queues of ByteFifo.            *)
EXTENDS RingBuf

\* A call takes effect when it returns.
Fifo == INSTANCE ByteFifo WITH
          Capacity <- Cap,
          fifo <- IF call = NoCall THEN [r \in Ring |-> Contents(ring[r])] ELSE loop.before

\* The rings implement the queues ringbuf.h promises: after every call the
\* contents are the bytes an ideal queue of that capacity would hold,
\* overflows of any length included.
ImplementsFifo == Fifo!Spec
=============================================================================
