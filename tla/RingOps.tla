------------------------------ MODULE RingOps ------------------------------
(***************************************************************************)
(* The ring buffer of ringbuf.c as a value.  A ring is the C structure:    *)
(* buf has size bytes, one more than the ring holds, and head and tail are *)
(* offsets into it.  Bytes are written at head and read at tail; equal     *)
(* offsets mean the ring is empty.                                         *)
(***************************************************************************)
EXTENDS Integers, Sequences

Min2(a, b) == IF a <= b THEN a ELSE b

\* The rings of a given size over a set of bytes.
RingsOf(size, Byte) ==
  [buf : [0..(size - 1) -> Byte], size : {size}, head : 0..(size - 1), tail : 0..(size - 1)]

CapacityOf(rb) == rb.size - 1

\* Mutant: the byte that tells full from empty is counted as free.
BytesFreeAll(rb) ==
  IF rb.head >= rb.tail THEN rb.size - (rb.head - rb.tail) ELSE rb.tail - rb.head

BytesFree(rb) ==
  IF rb.head >= rb.tail
  THEN CapacityOf(rb) - (rb.head - rb.tail)
  ELSE rb.tail - rb.head - 1

BytesUsed(rb) == CapacityOf(rb) - BytesFree(rb)
IsFull(rb) == BytesFree(rb) = 0
IsEmpty(rb) == BytesFree(rb) = CapacityOf(rb)

Reset(rb) == [buf |-> rb.buf, size |-> rb.size, head |-> 0, tail |-> 0]

NextP(rb, p) == (p + 1) % rb.size

\* "wrap?": an offset that was moved forward and may stand past the end.
Wrap(rb, p) == IF p = rb.size THEN 0 ELSE p

\* One memcpy of the loops: the bytes s, which fit before the end of buf,
\* are stored at head.
Store(rb, s) ==
  [buf  |-> [p \in DOMAIN rb.buf |->
               IF p \in rb.head..(rb.head + Len(s) - 1) THEN s[p - rb.head + 1] ELSE rb.buf[p]],
   size |-> rb.size,
   head |-> Wrap(rb, rb.head + Len(s)),
   tail |-> rb.tail]

\* Mutant: the span starts at the beginning of buf.
SpanAtStart(rb, n) == [i \in 1..n |-> rb.buf[i - 1]]

\* n bytes from tail on that lie before the end of buf, and their removal.
Span(rb, n) == [i \in 1..n |-> rb.buf[rb.tail + i - 1]]

Drop(rb, n) == [rb EXCEPT !.tail = Wrap(rb, rb.tail + n)]

\* How many bytes fit between an offset and the end of buf.
RoomAt(rb, p) == rb.size - p

\* Mutant: the tail is put on the head, not behind it.
FixTailOnHead(rb, overflow) == IF overflow THEN [rb EXCEPT !.tail = rb.head] ELSE rb

\* After an overflow the oldest byte kept is the one after head.
FixTail(rb, overflow) ==
  IF overflow THEN [rb EXCEPT !.tail = NextP(rb, rb.head)] ELSE rb

\* The bytes in the ring, oldest first.
Contents(rb) == [i \in 1..BytesUsed(rb) |-> rb.buf[(rb.tail + i - 1) % rb.size]]

\* Mutant: found behind the end of buf, the offset is that in buf.
FindChrInBuf(rb, c, offset) ==
  LET used == BytesUsed(rb)
      hits == {i \in offset..(used - 1) : rb.buf[(rb.tail + i) % rb.size] = c}
      first == CHOOSE i \in hits : \A j \in hits : i <= j
  IN  IF offset >= used \/ hits = {} THEN used
      ELSE IF rb.tail + first < rb.size THEN first ELSE (rb.tail + first) % rb.size

\* ringbuf_findchr: memchr over the span that starts at an offset from tail,
\* then the same again behind that span.
FindChr(rb, c, offset) ==
  LET used == BytesUsed(rb)
      start(o) == (rb.tail + o) % rb.size
      span(o) == Min2(RoomAt(rb, start(o)), used - o)
      hits(o) == {i \in 0..(span(o) - 1) : rb.buf[start(o) + i] = c}
      find[o \in 0..used] ==
        IF o >= used THEN used
        ELSE IF hits(o) # {}
             THEN o + CHOOSE i \in hits(o) : \A j \in hits(o) : i <= j
             ELSE find[o + span(o)]
  IN  IF offset >= used THEN used ELSE find[offset]
=============================================================================
