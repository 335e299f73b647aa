------------------------------- MODULE RingBuf -------------------------------
(***************************************************************************)
(* The operations of ringbuf.c on a set of rings, loop iteration by loop   *)
(* iteration: a call is made, each memcpy of its loop is a step, and the   *)
(* return fixes up the tail if the ring overflowed.  One call runs at a    *)
(* time: the rings of cip-server belong to the uv thread.                  *)
(***************************************************************************)
EXTENDS RingOps

CONSTANTS Ring,      \* the rings of the program
          Cap,       \* ringbuf_new's argument for each
          Byte,
          MaxCount,  \* bound: the largest count a caller passes
          NoCall     \* no call is under way

ASSUME RingAssumption ==
  /\ Cap \in [Ring -> Nat]
  /\ MaxCount \in Nat

VARIABLES ring,      \* the ringbuf_t of each ring
          call,      \* the call under way, as its caller made it
          loop       \* the locals of its loop

vars == <<ring, call, loop>>

\* done: nread, nwritten, ncopied; used: bytes_used at the call; out: what
\* was written to the caller's memory.  before is no local: it records the
\* contents at the call.
NoLoop == [done |-> 0, overflow |-> FALSE, used |-> 0, out |-> <<>>, before |-> <<>>]

\* ringbuf_new leaves what malloc returned in the buffer.
Init ==
  /\ ring \in [Ring -> UNION {RingsOf(Cap[r] + 1, Byte) : r \in Ring}]
  /\ \A r \in Ring : ring[r] \in RingsOf(Cap[r] + 1, Byte)
  /\ \A r \in Ring : ring[r].head = 0 /\ ring[r].tail = 0
  /\ call = NoCall
  /\ loop = NoLoop

-----------------------------------------------------------------------------
(* Calls *)

Enter(c, overflow, used) ==
  /\ call = NoCall
  /\ call' = c
  /\ loop' = [NoLoop EXCEPT !.overflow = overflow, !.used = used,
                            !.before = [r \in Ring |-> Contents(ring[r])]]
  /\ UNCHANGED ring

EnterInto(r, s) ==
  Enter([kind |-> "into", dst |-> r, data |-> s], Len(s) > BytesFree(ring[r]), BytesUsed(ring[r]))

EnterFrom(r, n) ==
  Enter([kind |-> "from", src |-> r, count |-> n], FALSE, BytesUsed(ring[r]))

MemcpyInto(r) == \E n \in 0..MaxCount : \E s \in [1..n -> Byte] : EnterInto(r, s)

\* len may be larger than the buffer: the loop then writes every byte once.
Memset(r) ==
  \E c \in Byte, len \in 0..MaxCount :
    EnterInto(r, [i \in 1..Min2(len, ring[r].size) |-> c])

\* read(2) returns at most what fits before the end of the buffer; the rest
\* is what the other writers do.
Read(r) ==
  \E n \in 1..Min2(MaxCount, RoomAt(ring[r], ring[r].head)) :
    \E s \in [1..n -> Byte] : EnterInto(r, s)

\* A count beyond the bytes used is refused and nothing changes.
MemcpyFrom(r) ==
  \E n \in 0..MaxCount : n <= BytesUsed(ring[r]) /\ EnterFrom(r, n)

\* write(2) takes at most what lies before the end of the buffer.
Write(r) ==
  \E count \in 1..BytesUsed(ring[r]) :
    \E n \in 1..Min2(count, RoomAt(ring[r], ring[r].tail)) : EnterFrom(r, n)

Copy(d, s) ==
  \E n \in 0..MaxCount :
    /\ n <= BytesUsed(ring[s])
    /\ Enter([kind |-> "copy", dst |-> d, src |-> s, count |-> n],
             n > BytesFree(ring[d]), BytesUsed(ring[s]))

ResetRing(r) ==
  /\ call = NoCall
  /\ ring' = [ring EXCEPT ![r] = Reset(@)]
  /\ UNCHANGED <<call, loop>>

-----------------------------------------------------------------------------
(* Loops *)

\* Mutant: the loop copies past the end of buf.
IntoLoopWhole ==
  /\ call # NoCall /\ call.kind = "into"
  /\ loop.done # Len(call.data)
  /\ ring' = [ring EXCEPT ![call.dst] =
                Store(@, SubSeq(call.data, loop.done + 1, Len(call.data)))]
  /\ loop' = [loop EXCEPT !.done = Len(call.data)]
  /\ UNCHANGED call

IntoLoop ==
  /\ call # NoCall /\ call.kind = "into"
  /\ loop.done # Len(call.data)
  /\ LET rb == ring[call.dst]
         n == Min2(RoomAt(rb, rb.head), Len(call.data) - loop.done)
     IN  /\ ring' = [ring EXCEPT ![call.dst] =
                       Store(rb, SubSeq(call.data, loop.done + 1, loop.done + n))]
         /\ loop' = [loop EXCEPT !.done = @ + n]
  /\ UNCHANGED call

\* Mutant: nread is never advanced.
FromLoopNoAdvance ==
  /\ call # NoCall /\ call.kind = "from"
  /\ loop.done # call.count
  /\ LET rb == ring[call.src]
         n == Min2(RoomAt(rb, rb.tail), call.count - loop.done)
     IN  ring' = [ring EXCEPT ![call.src] = Drop(rb, n)]
  /\ UNCHANGED <<call, loop>>

FromLoop ==
  /\ call # NoCall /\ call.kind = "from"
  /\ loop.done # call.count
  /\ LET rb == ring[call.src]
         n == Min2(RoomAt(rb, rb.tail), call.count - loop.done)
     IN  /\ ring' = [ring EXCEPT ![call.src] = Drop(rb, n)]
         /\ loop' = [loop EXCEPT !.done = @ + n, !.out = @ \o Span(rb, n)]
  /\ UNCHANGED call

CopyLoop ==
  /\ call # NoCall /\ call.kind = "copy"
  /\ loop.done # call.count
  /\ LET src == ring[call.src]
         dst == ring[call.dst]
         nsrc == Min2(RoomAt(src, src.tail), call.count - loop.done)
         n == Min2(RoomAt(dst, dst.head), nsrc)
     IN  /\ ring' = [ring EXCEPT ![call.src] = Drop(src, n),
                                 ![call.dst] = Store(dst, Span(src, n))]
         /\ loop' = [loop EXCEPT !.done = @ + n]
  /\ UNCHANGED call

\* The loop is over; an overflow of the destination is made good.
Leave == call' = NoCall /\ loop' = NoLoop

IntoReturn ==
  /\ call # NoCall /\ call.kind = "into"
  /\ loop.done = Len(call.data)
  /\ ring' = [ring EXCEPT ![call.dst] = FixTail(@, loop.overflow)]
  /\ Leave

FromReturn ==
  /\ call # NoCall /\ call.kind = "from"
  /\ loop.done = call.count
  /\ UNCHANGED ring
  /\ Leave

CopyReturn ==
  /\ call # NoCall /\ call.kind = "copy"
  /\ loop.done = call.count
  /\ ring' = [ring EXCEPT ![call.dst] = FixTail(@, loop.overflow)]
  /\ Leave

-----------------------------------------------------------------------------
Call ==
  \/ \E r \in Ring : \/ MemcpyInto(r) \/ Memset(r) \/ Read(r)
                     \/ MemcpyFrom(r) \/ Write(r) \/ ResetRing(r)
  \/ \E d, s \in Ring : d # s /\ Copy(d, s)

Iterate == IntoLoop \/ FromLoop \/ CopyLoop
Return == IntoReturn \/ FromReturn \/ CopyReturn

Next == Call \/ Iterate \/ Return

Spec == Init /\ [][Next]_vars
FairSpec == Spec /\ WF_vars(Iterate \/ Return)

-----------------------------------------------------------------------------
(* Properties *)

LoopType ==
  [done : Nat, overflow : BOOLEAN, used : Nat, out : Seq(Byte),
   before : [Ring -> Seq(Byte)] \cup {<<>>}]

\* The calls there are, with what their entry checks.
CallOK ==
  \/ call = NoCall /\ loop = NoLoop
  \/ /\ call \in [kind : {"into"}, dst : Ring, data : Seq(Byte)]
     /\ loop.done \in 0..Len(call.data)
  \/ /\ call \in [kind : {"from"}, src : Ring, count : Nat]
     /\ loop.done \in 0..call.count /\ call.count <= loop.used
  \/ /\ call \in [kind : {"copy"}, dst : Ring, src : Ring, count : Nat]
     /\ call.dst # call.src
     /\ loop.done \in 0..call.count /\ call.count <= loop.used

\* Types.  It includes the asserts that an offset is before the end of the
\* buffer whenever a loop copies: "don't copy beyond the end of the buffer".
TypeOK ==
  /\ \A r \in Ring : ring[r] \in RingsOf(Cap[r] + 1, Byte)
  /\ DOMAIN ring = Ring
  /\ loop \in LoopType
  /\ CallOK

\* assert(count + bytes_used == old bytes_used), ringbuf.c:283 and 340: what a
\* reader took is exactly what the ring lost, iteration by iteration and
\* across the end of the buffer.
ReadsAccountedFor ==
  call # NoCall /\ call.kind \in {"from", "copy"} =>
    loop.done + BytesUsed(ring[call.src]) = loop.used

\* A writer that does not overflow adds exactly what it has copied; the
\* indices never collide, so a ring filled to the brim is not taken for an
\* empty one.
WritesAccountedFor ==
  call # NoCall /\ call.kind = "into" /\ ~loop.overflow =>
    BytesUsed(ring[call.dst]) = loop.used + loop.done

\* In every iteration the counts of a ring account for what the call has done.
BytesAccountedFor == ReadsAccountedFor /\ WritesAccountedFor

\* assert(ringbuf_is_full(dst)), ringbuf.c:198, 227, 253, 344: a call that
\* overflows leaves the ring full, one that does not leaves its tail alone.
OverflowLeavesFull ==
  [][call # NoCall /\ call.kind \in {"into", "copy"} /\ call' = NoCall =>
       IF loop.overflow
       THEN IsFull(ring'[call.dst])
       ELSE ring'[call.dst].tail = ring[call.dst].tail]_vars

\* memcpy_from hands out the oldest bytes, in order.
ReadsInOrder ==
  call # NoCall /\ call.kind = "from" =>
    loop.out = SubSeq(loop.before[call.src], 1, loop.done)

\* ringbuf_findchr finds the first c at or after an offset, or says how many
\* bytes there are, wherever the contents wrap.
FindChrFinds ==
  call = NoCall =>
    \A r \in Ring, c \in Byte, offset \in 0..MaxCount :
      LET s == Contents(ring[r])
          hits == {i \in offset..(Len(s) - 1) : s[i + 1] = c}
      IN  IF hits = {}
          THEN FindChr(ring[r], c, offset) = Len(s)
          ELSE /\ FindChr(ring[r], c, offset) \in hits
               /\ \A i \in hits : FindChr(ring[r], c, offset) <= i

\* Every call returns.
CallsReturn == call # NoCall ~> call = NoCall
=============================================================================
