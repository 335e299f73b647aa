---------------------------- MODULE RingBufProofs ----------------------------
(* What is proved of RingBuf, for rings of every size and any counts, up   *)
(* to the implementation of ByteFifo and to what findchr finds.            *)
EXTENDS RingFifo, SequenceTheorems, WellFoundedInduction, TLAPS

-----------------------------------------------------------------------------
(* The operations on one ring. *)

\* The counts of a ring fit its size, and an offset has room behind it.
LEMMA Counts ==
  ASSUME NEW size \in Nat \ {0}, NEW rb \in RingsOf(size, Byte)
  PROVE  /\ CapacityOf(rb) = size - 1
         /\ BytesFree(rb) \in 0..(size - 1)
         /\ BytesUsed(rb) \in 0..(size - 1)
         /\ RoomAt(rb, rb.head) \in 1..size
         /\ RoomAt(rb, rb.tail) \in 1..size
BY DEF RingsOf, CapacityOf, BytesFree, BytesUsed, RoomAt

\* One memcpy into a ring moves the head by what it copied, wraps at the end,
\* and accounts for every byte unless it overflows.
LEMMA StoreRing ==
  ASSUME NEW size \in Nat \ {0}, NEW rb \in RingsOf(size, Byte),
         NEW s \in Seq(Byte), Len(s) <= RoomAt(rb, rb.head)
  PROVE  /\ Store(rb, s) \in RingsOf(size, Byte)
         /\ Store(rb, s).tail = rb.tail
         /\ Len(s) <= BytesFree(rb) => BytesUsed(Store(rb, s)) = BytesUsed(rb) + Len(s)
<1>1. Len(s) \in Nat /\ rb.head \in 0..(size - 1) /\ rb.tail \in 0..(size - 1) /\ rb.size = size
  BY DEF RingsOf
<1>2. Wrap(rb, rb.head + Len(s)) \in 0..(size - 1)
  BY <1>1 DEF Wrap, RoomAt
<1> DEFINE b == [p \in DOMAIN rb.buf |->
                   IF p \in rb.head..(rb.head + Len(s) - 1) THEN s[p - rb.head + 1] ELSE rb.buf[p]]
<1>3. b \in [0..(size - 1) -> Byte]
  <2>1. rb.buf \in [0..(size - 1) -> Byte]
    BY DEF RingsOf
  <2>2. ASSUME NEW p \in 0..(size - 1), p \in rb.head..(rb.head + Len(s) - 1)
        PROVE  s[p - rb.head + 1] \in Byte
    BY <1>1, <2>2
  <2> QED
    BY <2>1, <2>2
<1>4. Store(rb, s) = [buf |-> b, size |-> size, head |-> Wrap(rb, rb.head + Len(s)), tail |-> rb.tail]
  BY <1>1 DEF Store
<1>5. Len(s) <= BytesFree(rb) => BytesUsed(Store(rb, s)) = BytesUsed(rb) + Len(s)
  <2> HIDE DEF b
  <2> QED
    BY <1>1, <1>4 DEF BytesUsed, BytesFree, CapacityOf, Wrap, RoomAt
<1> QED
  BY <1>1, <1>2, <1>3, <1>4, <1>5 DEF RingsOf

\* One memcpy out of a ring moves the tail by what it copied.
LEMMA DropRing ==
  ASSUME NEW size \in Nat \ {0}, NEW rb \in RingsOf(size, Byte),
         NEW n \in Nat, n <= RoomAt(rb, rb.tail), n <= BytesUsed(rb)
  PROVE  /\ Drop(rb, n) \in RingsOf(size, Byte)
         /\ BytesUsed(Drop(rb, n)) = BytesUsed(rb) - n
         /\ Span(rb, n) \in Seq(Byte) /\ Len(Span(rb, n)) = n
<1>1. rb.head \in 0..(size - 1) /\ rb.tail \in 0..(size - 1) /\ rb.size = size
      /\ rb.buf \in [0..(size - 1) -> Byte]
  BY DEF RingsOf
<1>2. Drop(rb, n) = [buf |-> rb.buf, size |-> size, head |-> rb.head, tail |-> Wrap(rb, rb.tail + n)]
  BY <1>1 DEF Drop, RingsOf
<1>3. Wrap(rb, rb.tail + n) \in 0..(size - 1)
  BY <1>1 DEF Wrap, RoomAt
<1>4. BytesUsed(Drop(rb, n)) = BytesUsed(rb) - n
  <2> DEFINE new == Drop(rb, n)
  <2>1. /\ new.head = rb.head /\ new.size = size
        /\ new.tail = IF rb.tail + n = size THEN 0 ELSE rb.tail + n
    BY <1>1, <1>2 DEF Wrap
  <2> HIDE DEF new
  <2>2. BytesUsed(rb) = IF rb.head >= rb.tail THEN rb.head - rb.tail ELSE size - (rb.tail - rb.head)
    BY <1>1 DEF BytesUsed, BytesFree, CapacityOf
  <2>3. BytesUsed(new) = IF new.head >= new.tail THEN new.head - new.tail ELSE size - (new.tail - new.head)
    BY <1>1, <2>1 DEF BytesUsed, BytesFree, CapacityOf
  <2>4. n <= size - rb.tail /\ n <= BytesUsed(rb)
    BY <1>1 DEF RoomAt
  <2>5. BytesUsed(new) = BytesUsed(rb) - n
    BY <1>1, <2>1, <2>2, <2>3, <2>4
  <2> QED
    BY <2>5 DEF new
<1>5. Span(rb, n) \in Seq(Byte) /\ Len(Span(rb, n)) = n
  <2>1. \A i \in 1..n : rb.buf[rb.tail + i - 1] \in Byte
    BY <1>1 DEF RoomAt
  <2> QED
    BY <2>1 DEF Span
<1> QED
  BY <1>1, <1>2, <1>3, <1>4, <1>5 DEF RingsOf

\* The tail behind the head is the state "full".
LEMMA FixTailRing ==
  ASSUME NEW size \in Nat \ {0}, NEW rb \in RingsOf(size, Byte), NEW overflow \in BOOLEAN
  PROVE  /\ FixTail(rb, overflow) \in RingsOf(size, Byte)
         /\ overflow => IsFull(FixTail(rb, overflow))
         /\ ~overflow => FixTail(rb, overflow) = rb
<1>1. rb.head \in 0..(size - 1) /\ rb.size = size
  BY DEF RingsOf
<1>2. NextP(rb, rb.head) = IF rb.head + 1 = size THEN 0 ELSE rb.head + 1
  BY <1>1 DEF NextP
<1>3. CASE overflow
  <2>1. FixTail(rb, overflow) = [buf |-> rb.buf, size |-> size, head |-> rb.head, tail |-> NextP(rb, rb.head)]
    BY <1>1, <1>3 DEF FixTail, RingsOf
  <2>2. FixTail(rb, overflow) \in RingsOf(size, Byte)
    BY <1>1, <1>2, <2>1 DEF RingsOf
  <2> DEFINE fixed == FixTail(rb, overflow)
  <2>3. fixed.head = rb.head /\ fixed.size = size
        /\ fixed.tail = IF rb.head + 1 = size THEN 0 ELSE rb.head + 1
    BY <1>2, <2>1
  <2> HIDE DEF fixed
  <2>4. BytesFree(fixed) = 0
    BY <1>1, <2>3 DEF BytesFree, CapacityOf
  <2> QED
    BY <1>3, <2>2, <2>4 DEF IsFull, fixed
<1>4. CASE ~overflow
  BY <1>4 DEF FixTail
<1> QED
  BY <1>3, <1>4

\* What a ring holds is a sequence of bytes.
LEMMA ContentsSeq ==
  ASSUME NEW size \in Nat \ {0}, NEW rb \in RingsOf(size, Byte)
  PROVE  Contents(rb) \in Seq(Byte)
<1>1. BytesUsed(rb) \in Nat
  BY Counts
<1>2. \A i \in 1..BytesUsed(rb) : (rb.tail + i - 1) % rb.size \in 0..(size - 1)
  BY <1>1 DEF RingsOf
<1>3. rb.buf \in [0..(size - 1) -> Byte]
  BY DEF RingsOf
<1>4. \A i \in 1..BytesUsed(rb) : rb.buf[(rb.tail + i - 1) % rb.size] \in Byte
  BY <1>2, <1>3
<1> QED
  BY <1>1, <1>4 DEF Contents

\* A reset ring is a ring.
LEMMA EmptiedRing ==
  ASSUME NEW size \in Nat \ {0}, NEW rb \in RingsOf(size, Byte)
  PROVE  Reset(rb) \in RingsOf(size, Byte)
BY DEF Reset, RingsOf

-----------------------------------------------------------------------------
(* The calls. *)

\* A write that does not overflow was given the room it needs.
RoomOK ==
  call # NoCall /\ call.kind = "into" /\ ~loop.overflow =>
    loop.used + Len(call.data) <= Cap[call.dst]

RInv == TypeOK /\ RoomOK /\ ReadsAccountedFor /\ WritesAccountedFor

\* The rings the constants allow.
LEMMA Sizes == ASSUME NEW r \in Ring PROVE Cap[r] + 1 \in Nat \ {0} /\ (Cap[r] + 1) - 1 = Cap[r]
BY RingAssumption

LEMMA InitRInv == Init => RInv
<1> SUFFICES ASSUME Init PROVE RInv
  OBVIOUS
<1>1. NoLoop \in LoopType
      /\ NoLoop.done = 0
  BY DEF NoLoop, LoopType
<1>2. TypeOK
  BY <1>1 DEF Init, TypeOK, CallOK
<1> QED
  BY <1>2 DEF Init, RInv, RoomOK, ReadsAccountedFor, WritesAccountedFor

\* A call that is entered, and what its entry checked.
IntoEntered(c, overflow, used) ==
  /\ c \in [kind : {"into"}, dst : Ring, data : Seq(Byte)]
  /\ used = BytesUsed(ring[c.dst])
  /\ overflow = (Len(c.data) > BytesFree(ring[c.dst]))
FromEntered(c, used) ==
  /\ c \in [kind : {"from"}, src : Ring, count : Nat]
  /\ c.count <= used /\ used = BytesUsed(ring[c.src])
CopyEntered(c, overflow, used) ==
  /\ c \in [kind : {"copy"}, dst : Ring, src : Ring, count : Nat]
  /\ c.dst # c.src /\ c.count <= used /\ used = BytesUsed(ring[c.src])
  /\ overflow = (c.count > BytesFree(ring[c.dst]))
Entered(c, overflow, used) ==
  /\ overflow \in BOOLEAN /\ used \in Nat
  /\ Enter(c, overflow, used)
  /\ IntoEntered(c, overflow, used) \/ FromEntered(c, used) \/ CopyEntered(c, overflow, used)

\* What the entry of every call establishes; c is the call made.
LEMMA EnterRInv ==
  ASSUME RInv, NEW c, NEW overflow, NEW used, Entered(c, overflow, used)
  PROVE  RInv'
<1>0. overflow \in BOOLEAN /\ used \in Nat /\ Enter(c, overflow, used)
  BY DEF Entered
<1>1. call' = c /\ ring' = ring
  BY <1>0 DEF Enter
<1>2. loop' = [done |-> 0, overflow |-> overflow, used |-> used, out |-> <<>>,
               before |-> [r \in Ring |-> Contents(ring[r])]]
  BY <1>0 DEF Enter, NoLoop
<1>3. loop'.done = 0 /\ loop'.overflow = overflow /\ loop'.used = used
  BY <1>2
<1>4. \A r \in Ring : ring[r] \in RingsOf(Cap[r] + 1, Byte)
  BY DEF RInv, TypeOK
<1>5. loop' \in LoopType
  <2>1. [r \in Ring |-> Contents(ring[r])] \in [Ring -> Seq(Byte)]
    BY <1>4, Sizes, ContentsSeq
  <2>2. <<>> \in Seq(Byte)
    OBVIOUS
  <2> QED
    BY <1>0, <1>2, <2>1, <2>2 DEF LoopType
<1>6. CASE IntoEntered(c, overflow, used)
  <2>0. /\ c \in [kind : {"into"}, dst : Ring, data : Seq(Byte)]
        /\ used = BytesUsed(ring[c.dst])
        /\ overflow = (Len(c.data) > BytesFree(ring[c.dst]))
    BY <1>6 DEF IntoEntered
  <2>1. Len(c.data) \in Nat /\ c.kind = "into" /\ c.dst \in Ring
    BY <2>0
  <2>2. BytesUsed(ring[c.dst]) = Cap[c.dst] - BytesFree(ring[c.dst]) /\ Cap[c.dst] \in Nat
        /\ BytesFree(ring[c.dst]) \in 0..Cap[c.dst]
    BY <2>1, <1>4, Counts, Sizes, RingAssumption DEF BytesUsed
  <2>3. TypeOK'
    BY <1>1, <1>3, <2>0, <1>5, <2>1 DEF RInv, TypeOK, CallOK
  <2>4. RoomOK'
    <3>1. ~overflow => ~(Len(c.data) > BytesFree(ring[c.dst]))
      BY <2>0, Zenon
    <3>2. ~overflow => used + Len(c.data) <= Cap[c.dst]
      BY <2>0, <2>1, <2>2, <3>1
    <3> QED
      BY <1>1, <1>3, <3>2, Zenon DEF RoomOK
  <2>5. ReadsAccountedFor' /\ WritesAccountedFor'
    BY <1>0, <1>1, <1>3, <2>0, <2>1 DEF ReadsAccountedFor, WritesAccountedFor
  <2> QED
    BY <2>3, <2>4, <2>5 DEF RInv
<1>7. CASE FromEntered(c, used) \/ CopyEntered(c, overflow, used)
  <2>0. \/ /\ c \in [kind : {"from"}, src : Ring, count : Nat]
           /\ c.count <= used /\ used = BytesUsed(ring[c.src])
        \/ /\ c \in [kind : {"copy"}, dst : Ring, src : Ring, count : Nat]
           /\ c.dst # c.src /\ c.count <= used /\ used = BytesUsed(ring[c.src])
    BY <1>7 DEF FromEntered, CopyEntered
  <2>1. c.kind # "into" /\ c.count \in Nat /\ used = BytesUsed(ring[c.src])
    BY <2>0
  <2>2. TypeOK'
    BY <1>1, <1>3, <2>0, <1>5, <2>1 DEF RInv, TypeOK, CallOK
  <2>3. RoomOK' /\ WritesAccountedFor'
    BY <1>1, <2>1 DEF RoomOK, WritesAccountedFor
  <2>4. ReadsAccountedFor'
    BY <1>0, <1>1, <1>3, <2>1 DEF ReadsAccountedFor
  <2> QED
    BY <2>2, <2>3, <2>4 DEF RInv
<1> QED
  BY <1>6, <1>7 DEF Entered

\* Every call is made within what its entry checks.
LEMMA CallEnters ==
  ASSUME RInv, Call
  PROVE  (\E r \in Ring : ResetRing(r)) \/ \E c, overflow, used : Entered(c, overflow, used)
<1> DEFINE Enters == \E c, overflow, used : Entered(c, overflow, used)
<1>1. \A r \in Ring : /\ ring[r] \in RingsOf(Cap[r] + 1, Byte)
                       /\ BytesUsed(ring[r]) \in Nat /\ BytesFree(ring[r]) \in Nat
  BY Counts, Sizes DEF RInv, TypeOK
<1>2. ASSUME NEW r \in Ring, NEW s \in Seq(Byte), EnterInto(r, s) PROVE Enters
  <2> DEFINE c == [kind |-> "into", dst |-> r, data |-> s]
  <2>1. c \in [kind : {"into"}, dst : Ring, data : Seq(Byte)] /\ c.dst = r /\ c.data = s
    OBVIOUS
  <2> DEFINE o == Len(s) > BytesFree(ring[r])
  <2>2. Enter(c, o, BytesUsed(ring[r])) /\ o \in BOOLEAN /\ o = (Len(c.data) > BytesFree(ring[c.dst]))
    BY <1>2, <2>1 DEF EnterInto
  <2> HIDE DEF c, o
  <2>3. IntoEntered(c, o, BytesUsed(ring[r]))
    BY <2>1, <2>2, Zenon DEF IntoEntered
  <2> QED
    BY <1>1, <2>2, <2>3, Zenon DEF Entered
<1>3. ASSUME NEW r \in Ring, NEW n \in Nat, n <= BytesUsed(ring[r]), EnterFrom(r, n) PROVE Enters
  <2> DEFINE c == [kind |-> "from", src |-> r, count |-> n]
  <2>1. c \in [kind : {"from"}, src : Ring, count : Nat] /\ c.src = r /\ c.count = n
    OBVIOUS
  <2>2. Enter(c, FALSE, BytesUsed(ring[r]))
    BY <1>3 DEF EnterFrom
  <2> HIDE DEF c
  <2>3. FromEntered(c, BytesUsed(ring[r]))
    BY <1>3, <2>1, Zenon DEF FromEntered
  <2> QED
    BY <1>1, <2>2, <2>3, Zenon DEF Entered
<1>4. ASSUME NEW r \in Ring, MemcpyInto(r) PROVE Enters
  <2>1. PICK n \in 0..MaxCount : \E s \in [1..n -> Byte] : EnterInto(r, s)
    BY <1>4 DEF MemcpyInto
  <2>2. PICK s \in [1..n -> Byte] : EnterInto(r, s)
    BY <2>1
  <2>3. s \in Seq(Byte)
    BY RingAssumption
  <2> QED
    BY <1>2, <2>2, <2>3
<1>5. ASSUME NEW r \in Ring, Memset(r) PROVE Enters
  <2>1. PICK c \in Byte, len \in 0..MaxCount :
          EnterInto(r, [i \in 1..Min2(len, ring[r].size) |-> c])
    BY <1>5 DEF Memset
  <2>2. Min2(len, ring[r].size) \in Nat
    BY <1>1, RingAssumption DEF Min2, RingsOf
  <2>3. [i \in 1..Min2(len, ring[r].size) |-> c] \in Seq(Byte)
    BY <2>2
  <2> QED
    BY <1>2, <2>1, <2>3
<1>6. ASSUME NEW r \in Ring, Read(r) PROVE Enters
  <2>1. PICK n \in 1..Min2(MaxCount, RoomAt(ring[r], ring[r].head)) :
          \E s \in [1..n -> Byte] : EnterInto(r, s)
    BY <1>6 DEF Read
  <2>2. PICK s \in [1..n -> Byte] : EnterInto(r, s)
    BY <2>1
  <2>3. s \in Seq(Byte)
    BY <2>2
  <2> QED
    BY <1>2, <2>2, <2>3
<1>7. ASSUME NEW r \in Ring, MemcpyFrom(r) PROVE Enters
  BY <1>3, <1>7, RingAssumption DEF MemcpyFrom
<1>8. ASSUME NEW r \in Ring, Write(r) PROVE Enters
  <2>1. PICK count \in 1..BytesUsed(ring[r]) :
          \E n \in 1..Min2(count, RoomAt(ring[r], ring[r].tail)) : EnterFrom(r, n)
    BY <1>8 DEF Write
  <2>2. PICK n \in 1..Min2(count, RoomAt(ring[r], ring[r].tail)) : EnterFrom(r, n)
    BY <2>1
  <2>3. RoomAt(ring[r], ring[r].tail) \in Nat
    BY <1>1, Counts, Sizes
  <2>4. n \in Nat /\ n <= BytesUsed(ring[r])
    BY <1>1, <2>3 DEF Min2
  <2> QED
    BY <1>3, <2>2, <2>4
<1>9. ASSUME NEW d \in Ring, NEW s \in Ring, d # s, Copy(d, s) PROVE Enters
  <2>1. PICK n \in 0..MaxCount :
          /\ n <= BytesUsed(ring[s])
          /\ Enter([kind |-> "copy", dst |-> d, src |-> s, count |-> n],
                   n > BytesFree(ring[d]), BytesUsed(ring[s]))
    BY <1>9 DEF Copy
  <2> DEFINE c == [kind |-> "copy", dst |-> d, src |-> s, count |-> n]
  <2>2. /\ c \in [kind : {"copy"}, dst : Ring, src : Ring, count : Nat]
        /\ c.dst = d /\ c.src = s /\ c.count = n
    BY RingAssumption
  <2> DEFINE o == n > BytesFree(ring[d])
  <2>3. Enter(c, o, BytesUsed(ring[s])) /\ o \in BOOLEAN /\ o = (c.count > BytesFree(ring[c.dst]))
    BY <2>1, <2>2
  <2> HIDE DEF c, o
  <2>4. CopyEntered(c, o, BytesUsed(ring[s]))
    BY <1>9, <2>1, <2>2, <2>3, Zenon DEF CopyEntered
  <2> QED
    BY <1>1, <2>3, <2>4, Zenon DEF Entered
<1> QED
  BY <1>4, <1>5, <1>6, <1>7, <1>8, <1>9, <1>9 DEF Call

LEMMA CallRInv == ASSUME RInv, Call PROVE RInv'
<1>1. ASSUME NEW r \in Ring, ResetRing(r) PROVE RInv'
  <2>1. /\ call = NoCall /\ call' = call /\ loop' = loop
        /\ ring' = [ring EXCEPT ![r] = Reset(@)]
    BY <1>1 DEF ResetRing
  <2>2. Reset(ring[r]) \in RingsOf(Cap[r] + 1, Byte)
    BY Sizes, EmptiedRing DEF RInv, TypeOK
  <2>3. TypeOK'
    BY <2>1, <2>2 DEF RInv, TypeOK, CallOK
  <2> QED
    BY <2>1, <2>3 DEF RInv, RoomOK, ReadsAccountedFor, WritesAccountedFor
<1> QED
  BY <1>1, CallEnters, EnterRInv

\* An iteration changes only how far its loop is, and what was read.
LEMMA LoopAdvances ==
  ASSUME loop \in LoopType, NEW n \in Nat, NEW s \in Seq(Byte),
         \/ loop' = [loop EXCEPT !.done = @ + n]
         \/ loop' = [loop EXCEPT !.done = @ + n, !.out = @ \o s]
  PROVE  /\ loop' \in LoopType
         /\ loop'.done = loop.done + n
         /\ loop'.overflow = loop.overflow /\ loop'.used = loop.used
<1>1. /\ loop.done + n \in Nat /\ loop.out \o s \in Seq(Byte)
      /\ loop.done \in Nat /\ loop.out \in Seq(Byte)
  BY DEF LoopType
<1>2. CASE loop' = [loop EXCEPT !.done = @ + n]
  BY <1>1, <1>2, Zenon DEF LoopType
<1>3. CASE loop' = [loop EXCEPT !.done = @ + n, !.out = @ \o s]
  BY <1>1, <1>3, Zenon DEF LoopType
<1> QED
  BY <1>2, <1>3

\* Every iteration stays within the ring and keeps the counts.
LEMMA IterateRInv == ASSUME RInv, Iterate PROVE RInv'
<1>1. /\ \A r \in Ring : ring[r] \in RingsOf(Cap[r] + 1, Byte)
      /\ DOMAIN ring = Ring
      /\ loop \in LoopType
      /\ loop.overflow \in BOOLEAN /\ loop.used \in Nat /\ loop.done \in Nat
      /\ CallOK
  BY DEF RInv, TypeOK, LoopType
<1>2. CASE IntoLoop
  <2> DEFINE r == call.dst
             rb == ring[r]
             n == Min2(RoomAt(rb, rb.head), Len(call.data) - loop.done)
             s == SubSeq(call.data, loop.done + 1, loop.done + n)
  <2>1. /\ call # NoCall /\ call.kind = "into" /\ loop.done # Len(call.data)
        /\ ring' = [ring EXCEPT ![r] = Store(rb, s)]
        /\ loop' = [loop EXCEPT !.done = @ + n]
        /\ call' = call
    BY <1>2 DEF IntoLoop
  <2>2. /\ call \in [kind : {"into"}, dst : Ring, data : Seq(Byte)]
        /\ loop.done \in 0..Len(call.data)
    BY <1>1, <2>1 DEF CallOK
  <2>3. r \in Ring /\ rb \in RingsOf(Cap[r] + 1, Byte) /\ Cap[r] + 1 \in Nat \ {0}
    BY <1>1, <2>2, Sizes
  <2>4. /\ RoomAt(rb, rb.head) \in 1..(Cap[r] + 1)
        /\ BytesUsed(rb) \in Nat /\ BytesFree(rb) \in Nat /\ Cap[r] \in Nat
        /\ BytesUsed(rb) = Cap[r] - BytesFree(rb)
    BY <2>3, Counts, Sizes, RingAssumption DEF BytesUsed
  <2>5. n \in 0..(Len(call.data) - loop.done) /\ n <= RoomAt(rb, rb.head) /\ n \in Nat
    BY <2>2, <2>4 DEF Min2
  <2>6. s \in Seq(Byte) /\ Len(s) = n
    BY <2>2, <2>5
  <2> HIDE DEF n, s, rb
  <2>7. /\ Store(rb, s) \in RingsOf(Cap[r] + 1, Byte)
        /\ n <= BytesFree(rb) => BytesUsed(Store(rb, s)) = BytesUsed(rb) + n
    BY <2>3, <2>5, <2>6, StoreRing
  <2>8. /\ loop' \in LoopType /\ loop'.done = loop.done + n
        /\ loop'.overflow = loop.overflow /\ loop'.used = loop.used
    BY <1>1, <2>1, <2>5, <2>6, LoopAdvances, Zenon
  <2>9. TypeOK'
    <3>1. loop.done + n \in 0..Len(call.data)
      BY <2>2, <2>5
    <3>2. CallOK'
      BY <2>1, <2>2, <2>8, <3>1 DEF CallOK
    <3>3. (\A q \in Ring : ring[q] \in RingsOf(Cap[q] + 1, Byte))' /\ DOMAIN ring' = Ring
      BY <1>1, <2>1, <2>3, <2>7
    <3> QED
      BY <2>8, <3>2, <3>3 DEF TypeOK
  <2>10. ring'[r] = Store(rb, s)
    BY <1>1, <2>1, <2>3
  <2>11. RoomOK' /\ ReadsAccountedFor'
    BY <2>1, <2>8 DEF RInv, RoomOK, ReadsAccountedFor
  <2>12. WritesAccountedFor'
    <3>1. ASSUME ~loop.overflow PROVE BytesUsed(ring'[r]) = loop.used + (loop.done + n)
      <4>1. BytesUsed(rb) = loop.used + loop.done /\ loop.used + Len(call.data) <= Cap[r]
        BY <2>1, <3>1 DEF RInv, RoomOK, WritesAccountedFor, rb
      <4>2. n <= BytesFree(rb)
        BY <1>1, <2>2, <2>4, <2>5, <4>1, SMTT(30)
      <4> QED
        BY <1>1, <2>5, <2>7, <2>10, <4>1, <4>2
    <3> QED
      BY <2>1, <2>8, <3>1, Zenon DEF WritesAccountedFor
  <2> QED
    BY <2>9, <2>11, <2>12 DEF RInv
<1>3. CASE FromLoop
  <2> DEFINE r == call.src
             rb == ring[r]
             n == Min2(RoomAt(rb, rb.tail), call.count - loop.done)
  <2>1. /\ call # NoCall /\ call.kind = "from" /\ loop.done # call.count
        /\ ring' = [ring EXCEPT ![r] = Drop(rb, n)]
        /\ loop' = [loop EXCEPT !.done = @ + n, !.out = @ \o Span(rb, n)]
        /\ call' = call
    BY <1>3 DEF FromLoop
  <2>2. /\ call \in [kind : {"from"}, src : Ring, count : Nat]
        /\ loop.done \in 0..call.count /\ call.count <= loop.used
    BY <1>1, <2>1 DEF CallOK
  <2>3. r \in Ring /\ rb \in RingsOf(Cap[r] + 1, Byte) /\ Cap[r] + 1 \in Nat \ {0}
    BY <1>1, <2>2, Sizes
  <2>4. loop.done + BytesUsed(rb) = loop.used /\ BytesUsed(rb) \in Nat
    <3>1. loop.done + BytesUsed(rb) = loop.used
      BY <2>1 DEF RInv, ReadsAccountedFor
    <3> QED
      BY <2>3, <3>1, Counts
  <2>5. n \in Nat /\ n <= call.count - loop.done /\ n <= RoomAt(rb, rb.tail) /\ n <= BytesUsed(rb)
    <3>1. RoomAt(rb, rb.tail) \in Nat
      BY <2>3, Counts
    <3> QED
      BY <1>1, <2>2, <2>4, <3>1 DEF Min2
  <2> HIDE DEF n, rb
  <2>6. /\ Drop(rb, n) \in RingsOf(Cap[r] + 1, Byte)
        /\ BytesUsed(Drop(rb, n)) = BytesUsed(rb) - n
        /\ Span(rb, n) \in Seq(Byte)
    BY <2>3, <2>5, DropRing
  <2>7. /\ loop' \in LoopType /\ loop'.done = loop.done + n
        /\ loop'.overflow = loop.overflow /\ loop'.used = loop.used
    BY <1>1, <2>1, <2>5, <2>6, LoopAdvances, Zenon
  <2>8. TypeOK'
    <3>1. loop.done + n \in 0..call.count
      BY <2>2, <2>5
    <3>2. CallOK'
      BY <2>1, <2>2, <2>7, <3>1 DEF CallOK
    <3>3. (\A q \in Ring : ring[q] \in RingsOf(Cap[q] + 1, Byte))' /\ DOMAIN ring' = Ring
      BY <1>1, <2>1, <2>3, <2>6
    <3> QED
      BY <2>7, <3>2, <3>3 DEF TypeOK
  <2>9. ring'[r] = Drop(rb, n)
    BY <1>1, <2>1, <2>3
  <2>10. (loop.done + n) + BytesUsed(ring'[r]) = loop.used
    BY <1>1, <2>4, <2>5, <2>6, <2>9
  <2>11. ReadsAccountedFor'
    BY <2>1, <2>7, <2>10 DEF ReadsAccountedFor
  <2>12. RoomOK' /\ WritesAccountedFor'
    BY <2>1 DEF RoomOK, WritesAccountedFor
  <2> QED
    BY <2>8, <2>11, <2>12 DEF RInv
<1>4. CASE CopyLoop
  <2> DEFINE r == call.src
             d == call.dst
             src == ring[r]
             dst == ring[d]
             nsrc == Min2(RoomAt(src, src.tail), call.count - loop.done)
             n == Min2(RoomAt(dst, dst.head), nsrc)
  <2>1. /\ call # NoCall /\ call.kind = "copy" /\ loop.done # call.count
        /\ ring' = [ring EXCEPT ![r] = Drop(src, n), ![d] = Store(dst, Span(src, n))]
        /\ loop' = [loop EXCEPT !.done = @ + n]
        /\ call' = call
    BY <1>4 DEF CopyLoop
  <2>2. /\ call \in [kind : {"copy"}, dst : Ring, src : Ring, count : Nat] /\ d # r
        /\ loop.done \in 0..call.count /\ call.count <= loop.used
    BY <1>1, <2>1 DEF CallOK
  <2>3. /\ r \in Ring /\ src \in RingsOf(Cap[r] + 1, Byte) /\ Cap[r] + 1 \in Nat \ {0}
        /\ d \in Ring /\ dst \in RingsOf(Cap[d] + 1, Byte) /\ Cap[d] + 1 \in Nat \ {0}
    BY <1>1, <2>2, Sizes
  <2>4. loop.done + BytesUsed(src) = loop.used /\ BytesUsed(src) \in Nat
    <3>1. loop.done + BytesUsed(src) = loop.used
      BY <2>1 DEF RInv, ReadsAccountedFor
    <3> QED
      BY <2>3, <3>1, Counts
  <2>5. /\ n \in Nat /\ n <= call.count - loop.done /\ n <= BytesUsed(src)
        /\ n <= RoomAt(src, src.tail) /\ n <= RoomAt(dst, dst.head)
    <3>1. RoomAt(src, src.tail) \in Nat /\ RoomAt(dst, dst.head) \in Nat
      BY <2>3, Counts
    <3> QED
      BY <1>1, <2>2, <2>4, <3>1 DEF Min2
  <2> HIDE DEF n, nsrc, src, dst
  <2>6. /\ Drop(src, n) \in RingsOf(Cap[r] + 1, Byte)
        /\ BytesUsed(Drop(src, n)) = BytesUsed(src) - n
        /\ Span(src, n) \in Seq(Byte) /\ Len(Span(src, n)) = n
    BY <2>3, <2>5, DropRing
  <2>7. Store(dst, Span(src, n)) \in RingsOf(Cap[d] + 1, Byte)
    BY <2>3, <2>5, <2>6, StoreRing
  <2>8. /\ loop' \in LoopType /\ loop'.done = loop.done + n
        /\ loop'.overflow = loop.overflow /\ loop'.used = loop.used
    BY <1>1, <2>1, <2>5, <2>6, LoopAdvances, Zenon
  <2>9. /\ ring'[r] = Drop(src, n) /\ ring'[d] = Store(dst, Span(src, n))
        /\ \A q \in Ring : q # r /\ q # d => ring'[q] = ring[q]
        /\ DOMAIN ring' = Ring
    BY <1>1, <2>1, <2>2, <2>3
  <2>10. TypeOK'
    <3>1. loop.done + n \in 0..call.count
      BY <2>2, <2>5
    <3>2. CallOK'
      BY <2>1, <2>2, <2>8, <3>1 DEF CallOK
    <3>3. (\A q \in Ring : ring[q] \in RingsOf(Cap[q] + 1, Byte))'
      BY <1>1, <2>6, <2>7, <2>9
    <3> QED
      BY <2>8, <2>9, <3>2, <3>3 DEF TypeOK
  <2>11. (loop.done + n) + BytesUsed(ring'[r]) = loop.used
    BY <1>1, <2>4, <2>5, <2>6, <2>9
  <2>12. ReadsAccountedFor'
    BY <2>1, <2>8, <2>11 DEF ReadsAccountedFor
  <2>13. RoomOK' /\ WritesAccountedFor'
    BY <2>1 DEF RoomOK, WritesAccountedFor
  <2> QED
    BY <2>10, <2>12, <2>13 DEF RInv
<1> QED
  BY <1>2, <1>3, <1>4 DEF Iterate

\* A return ends the call; the ring it wrote, overflowed or not, is a ring.
LEMMA ReturnRInv == ASSUME RInv, Return PROVE RInv'
<1>1. /\ call # NoCall /\ call' = NoCall /\ loop' = NoLoop
  BY DEF Return, IntoReturn, FromReturn, CopyReturn, Leave
<1>2. loop' \in LoopType
  <2>1. <<>> \in Seq(Byte)
    OBVIOUS
  <2> QED
    BY <1>1, <2>1 DEF NoLoop, LoopType
<1>3. CASE UNCHANGED ring
  BY <1>1, <1>2, <1>3 DEF RInv, TypeOK, CallOK, RoomOK, ReadsAccountedFor, WritesAccountedFor
<1>4. CASE IntoReturn \/ CopyReturn
  <2>1. /\ ring' = [ring EXCEPT ![call.dst] = FixTail(@, loop.overflow)]
        /\ call.kind \in {"into", "copy"}
    BY <1>4 DEF IntoReturn, CopyReturn
  <2>2. call.dst \in Ring
    BY <1>1, <2>1 DEF RInv, TypeOK, CallOK
  <2>3. FixTail(ring[call.dst], loop.overflow) \in RingsOf(Cap[call.dst] + 1, Byte)
    BY <2>2, Sizes, FixTailRing DEF RInv, TypeOK, LoopType
  <2>4. TypeOK'
    BY <1>1, <1>2, <2>1, <2>2, <2>3 DEF RInv, TypeOK, CallOK
  <2> QED
    BY <1>1, <2>4 DEF RInv, RoomOK, ReadsAccountedFor, WritesAccountedFor
<1> QED
  BY <1>3, <1>4 DEF Return, FromReturn

LEMMA NextRInv == ASSUME RInv, [Next]_vars PROVE RInv'
<1>1. CASE UNCHANGED vars
  BY <1>1 DEF vars, RInv, TypeOK, CallOK, RoomOK, ReadsAccountedFor, WritesAccountedFor
<1> QED
  BY <1>1, CallRInv, IterateRInv, ReturnRInv DEF Next

-----------------------------------------------------------------------------
(* Theorems. *)

\* The offsets, the types and the counts of the loops, in every iteration.
THEOREM RingInvariance == Spec => []RInv
<1> QED
  BY InitRInv, NextRInv, PTL DEF Spec

\* The loops of ringbuf.c never leave the buffer, whatever its size.
THEOREM RingTypeCorrect == Spec => []TypeOK
<1>1. RInv => TypeOK
  BY DEF RInv
<1> QED
  BY <1>1, RingInvariance, PTL

\* The asserts of memcpy_from, write and copy hold in every iteration, and a
\* write within the free space adds exactly what it copies.
THEOREM AccountsCorrect == Spec => []BytesAccountedFor
<1>1. RInv => BytesAccountedFor
  BY DEF RInv, BytesAccountedFor
<1> QED
  BY <1>1, RingInvariance, PTL

\* The asserts that an overflowing writer leaves the ring full hold.
THEOREM OverflowCorrect == Spec => OverflowLeavesFull
<1>1. ASSUME RInv, [Next]_vars
      PROVE  [call # NoCall /\ call.kind \in {"into", "copy"} /\ call' = NoCall =>
                IF loop.overflow
                THEN IsFull(ring'[call.dst])
                ELSE ring'[call.dst].tail = ring[call.dst].tail]_vars
  <2> SUFFICES ASSUME call # NoCall, call.kind \in {"into", "copy"}, call' = NoCall
               PROVE  IF loop.overflow
                      THEN IsFull(ring'[call.dst])
                      ELSE ring'[call.dst].tail = ring[call.dst].tail
    OBVIOUS
  <2>1. IntoReturn \/ CopyReturn
    BY <1>1 DEF Next, vars, Call, MemcpyInto, Memset, Read, MemcpyFrom, Write, ResetRing, Copy,
                EnterInto, EnterFrom, Enter, Iterate, IntoLoop, FromLoop, CopyLoop,
                Return, FromReturn
  <2>2. ring' = [ring EXCEPT ![call.dst] = FixTail(@, loop.overflow)]
    BY <2>1 DEF IntoReturn, CopyReturn
  <2>3. call.dst \in Ring
    BY <1>1 DEF RInv, TypeOK, CallOK
  <2>4. ring'[call.dst] = FixTail(ring[call.dst], loop.overflow)
    BY <1>1, <2>2, <2>3 DEF RInv, TypeOK
  <2>5. ring[call.dst] \in RingsOf(Cap[call.dst] + 1, Byte) /\ loop.overflow \in BOOLEAN
    BY <1>1, <2>3 DEF RInv, TypeOK, LoopType
  <2>6. /\ loop.overflow => IsFull(ring'[call.dst])
        /\ ~loop.overflow => ring'[call.dst] = ring[call.dst]
    <3>1. Cap[call.dst] + 1 \in Nat \ {0}
      BY <2>3, Sizes
    <3> QED
      BY <2>4, <2>5, <3>1, FixTailRing
  <2> QED
    BY <2>5, <2>6, Zenon
<1> QED
  BY <1>1, RingInvariance, PTL DEF Spec, OverflowLeavesFull

-----------------------------------------------------------------------------
(* What a ring holds. *)

\* The only remainders the code takes.
LEMMA SmallMod ==
  ASSUME NEW n \in Nat \ {0}, NEW a \in Nat, a < 2 * n
  PROVE  a % n = IF a < n THEN a ELSE a - n
OBVIOUS

\* The offset of the i-th byte after the tail, and of the k-th before the head.
After(rb, i) == IF rb.tail + i - 1 < rb.size THEN rb.tail + i - 1 ELSE rb.tail + i - 1 - rb.size
Behind(rb, k) == IF k <= rb.head THEN rb.head - k ELSE rb.head + rb.size - k

LEMMA ContentsAt ==
  ASSUME NEW size \in Nat \ {0}, NEW rb \in RingsOf(size, Byte)
  PROVE  /\ Contents(rb) \in Seq(Byte)
         /\ Len(Contents(rb)) = BytesUsed(rb)
         /\ \A i \in 1..BytesUsed(rb) : Contents(rb)[i] = rb.buf[After(rb, i)]
<1>1. BytesUsed(rb) \in 0..(size - 1)
  BY Counts
<1>2. rb.tail \in 0..(size - 1) /\ rb.size = size
  BY DEF RingsOf
<1>3. \A i \in 1..BytesUsed(rb) : (rb.tail + i - 1) % rb.size = After(rb, i)
  <2> TAKE i \in 1..BytesUsed(rb)
  <2>1. PICK a : a = rb.tail + i - 1
    OBVIOUS
  <2>2. a \in Nat /\ a < 2 * size
    BY <1>1, <1>2, <2>1
  <2>3. a % size = IF a < size THEN a ELSE a - size
    BY <2>2, SmallMod, Zenon
  <2>4. After(rb, i) = IF a < size THEN a ELSE a - size
    BY <1>2, <2>1 DEF After
  <2> QED
    BY <1>2, <2>1, <2>3, <2>4, Zenon
<1>4. Contents(rb) \in Seq(Byte)
  BY ContentsSeq
<1>5. Contents(rb) = [i \in 1..BytesUsed(rb) |-> rb.buf[After(rb, i)]]
  BY <1>3 DEF Contents
<1> QED
  BY <1>1, <1>4, <1>5

\* Bytes counted from the tail and from the head.
LEMMA AfterIsBehind ==
  ASSUME NEW size \in Nat \ {0}, NEW rb \in RingsOf(size, Byte), NEW i \in 1..BytesUsed(rb)
  PROVE  /\ BytesUsed(rb) - i + 1 \in 1..BytesUsed(rb)
         /\ After(rb, i) = Behind(rb, BytesUsed(rb) - i + 1)
<1>1. rb.head \in 0..(size - 1) /\ rb.tail \in 0..(size - 1) /\ rb.size = size
  BY DEF RingsOf
<1>2. BytesUsed(rb) = IF rb.head >= rb.tail THEN rb.head - rb.tail ELSE rb.head - rb.tail + size
  BY <1>1 DEF BytesUsed, BytesFree, CapacityOf
<1>3. PICK u : u = BytesUsed(rb)
  OBVIOUS
<1>4. u \in 0..(size - 1) /\ u = (IF rb.head >= rb.tail THEN rb.head - rb.tail ELSE rb.head - rb.tail + size)
      /\ i \in 1..u
  BY <1>1, <1>2, <1>3
<1>5. After(rb, i) = Behind(rb, u - i + 1) /\ u - i + 1 \in 1..u
  BY <1>1, <1>4 DEF After, Behind
<1> QED
  BY <1>3, <1>5

\* The bytes written last lie behind the head, T's as far back as the buffer
\* has room, whether or not the tail still guards them.
Trail(rb, T) ==
  \A k \in 1..Len(T) : k <= rb.size => rb.buf[Behind(rb, k)] = T[Len(T) - k + 1]

LEMMA TrailOfContents ==
  ASSUME NEW size \in Nat \ {0}, NEW rb \in RingsOf(size, Byte)
  PROVE  Trail(rb, Contents(rb))
<1>1. /\ rb.head \in 0..(size - 1) /\ rb.tail \in 0..(size - 1) /\ rb.size = size
      /\ BytesUsed(rb) \in 0..(size - 1)
  BY Counts DEF RingsOf
<1> SUFFICES ASSUME NEW k \in 1..BytesUsed(rb)
             PROVE  rb.buf[Behind(rb, k)] = Contents(rb)[BytesUsed(rb) - k + 1]
  BY ContentsAt DEF Trail
<1>2. BytesUsed(rb) - k + 1 \in 1..BytesUsed(rb) /\ BytesUsed(rb) - (BytesUsed(rb) - k + 1) + 1 = k
  BY <1>1
<1>3. After(rb, BytesUsed(rb) - k + 1) = Behind(rb, k)
  BY <1>2, AfterIsBehind
<1> QED
  BY <1>2, <1>3, ContentsAt

\* Moving the head on by l takes the byte k back from it to k - l back.
LEMMA Rewound ==
  ASSUME NEW size \in Nat, NEW hd \in Nat, NEW l \in Nat, NEW k \in Nat,
         hd < size, hd + l <= size, k > l, k <= size,
         NEW n, n = IF hd + l = size THEN 0 ELSE hd + l
  PROVE  /\ (IF k <= n THEN n - k ELSE n + size - k)
                = (IF k - l <= hd THEN hd - (k - l) ELSE hd + size - (k - l))
         /\ (IF k - l <= hd THEN hd - (k - l) ELSE hd + size - (k - l)) \in 0..(size - 1)
         /\ (IF k - l <= hd THEN hd - (k - l) ELSE hd + size - (k - l)) \notin hd..(hd + l - 1)
OBVIOUS

LEMMA TrailOfStore ==
  ASSUME NEW size \in Nat \ {0}, NEW rb \in RingsOf(size, Byte), NEW T \in Seq(Byte),
         NEW s \in Seq(Byte), Len(s) <= RoomAt(rb, rb.head), Trail(rb, T)
  PROVE  Trail(Store(rb, s), T \o s)
<1>1. /\ rb.head \in 0..(size - 1) /\ rb.size = size /\ DOMAIN rb.buf = 0..(size - 1)
      /\ Len(s) \in Nat /\ Len(T) \in Nat /\ rb.head + Len(s) <= size
  BY DEF RingsOf, RoomAt
<1> DEFINE new == Store(rb, s)
           h == rb.head + Len(s)
<1>2. /\ new.size = size /\ new.head = IF h = size THEN 0 ELSE h
      /\ \A p \in 0..(size - 1) :
           new.buf[p] = IF p \in rb.head..(h - 1) THEN s[p - rb.head + 1] ELSE rb.buf[p]
  BY <1>1 DEF Store, Wrap
<1> HIDE DEF new
<1> SUFFICES ASSUME NEW k \in 1..Len(T \o s), k <= size
             PROVE  new.buf[Behind(new, k)] = (T \o s)[Len(T \o s) - k + 1]
  BY <1>2 DEF Trail, new
<1>3. Len(T \o s) = Len(T) + Len(s)
  OBVIOUS
<1>4. CASE k <= Len(s)
  <2>1. Behind(new, k) = h - k /\ h - k \in rb.head..(h - 1) /\ h - k \in 0..(size - 1)
    BY <1>1, <1>2, <1>4, SMTT(30) DEF Behind
  <2>2. new.buf[h - k] = s[h - k - rb.head + 1]
    BY <1>2, <2>1
  <2>3. (T \o s)[Len(T) + Len(s) - k + 1] = s[Len(s) - k + 1]
    BY <1>1, <1>3, <1>4
  <2>4. h - k - rb.head + 1 = Len(s) - k + 1
    BY <1>1
  <2> QED
    BY <1>3, <2>1, <2>2, <2>3, <2>4
<1>5. CASE ~(k <= Len(s))
  <2> DEFINE j == k - Len(s)
  <2>1. j \in 1..Len(T) /\ j <= rb.size
    BY <1>1, <1>3, <1>5
  <2>2. Behind(new, k) = Behind(rb, j) /\ Behind(rb, j) \in 0..(size - 1)
        /\ Behind(rb, j) \notin rb.head..(h - 1)
    <3>1. PICK hd : hd = rb.head
      OBVIOUS
    <3>2. PICK l : l = Len(s)
      OBVIOUS
    <3>3. PICK n : n = IF hd + l = size THEN 0 ELSE hd + l
      OBVIOUS
    <3>4. /\ size \in Nat /\ hd \in Nat /\ l \in Nat /\ k \in Nat
          /\ hd < size /\ hd + l <= size /\ k > l /\ k <= size
      BY <1>1, <1>3, <1>5, <3>1, <3>2
    <3>5. /\ (IF k <= n THEN n - k ELSE n + size - k)
                 = (IF k - l <= hd THEN hd - (k - l) ELSE hd + size - (k - l))
          /\ (IF k - l <= hd THEN hd - (k - l) ELSE hd + size - (k - l)) \in 0..(size - 1)
          /\ (IF k - l <= hd THEN hd - (k - l) ELSE hd + size - (k - l)) \notin hd..(hd + l - 1)
      BY <3>3, <3>4, Rewound
    <3>6. Behind(new, k) = IF k <= n THEN n - k ELSE n + size - k
      <4>1. new.head = n /\ new.size = size
        BY <1>2, <3>1, <3>2, <3>3
      <4> QED
        BY <4>1 DEF Behind
    <3>7. Behind(rb, j) = IF k - l <= hd THEN hd - (k - l) ELSE hd + size - (k - l)
      BY <1>1, <3>1, <3>2 DEF Behind
    <3>8. Behind(new, k) = Behind(rb, j)
      BY <3>5, <3>6, <3>7
    <3>9. Behind(rb, j) \in 0..(size - 1) /\ Behind(rb, j) \notin hd..(hd + l - 1)
      BY <3>5, <3>7
    <3>10. rb.head = hd /\ h = hd + l
      BY <3>1, <3>2, Zenon DEF h
    <3> HIDE DEF j, h
    <3>11. Behind(rb, j) \notin rb.head..(h - 1)
      BY <3>4, <3>9, <3>10
    <3> QED
      BY <3>8, <3>9, <3>11, Zenon
  <2>3. new.buf[Behind(rb, j)] = rb.buf[Behind(rb, j)]
    BY <1>2, <2>2
  <2>4. rb.buf[Behind(rb, j)] = T[Len(T) - j + 1]
    BY <2>1 DEF Trail
  <2>5. (T \o s)[Len(T) + Len(s) - k + 1] = T[Len(T) + Len(s) - k + 1]
        /\ Len(T) + Len(s) - k + 1 = Len(T) - j + 1
    BY <1>1, <1>3, <1>5
  <2> QED
    BY <1>3, <2>2, <2>3, <2>4, <2>5
<1> QED
  BY <1>4, <1>5

LEMMA ContentsOfTrail ==
  ASSUME NEW size \in Nat \ {0}, NEW rb \in RingsOf(size, Byte), NEW T \in Seq(Byte),
         Trail(rb, T), Len(T) = BytesUsed(rb)
  PROVE  Contents(rb) = T
<1>1. /\ rb.head \in 0..(size - 1) /\ rb.tail \in 0..(size - 1) /\ rb.size = size
      /\ BytesUsed(rb) \in 0..(size - 1)
  BY Counts DEF RingsOf
<1>2. ASSUME NEW i \in 1..Len(T) PROVE Contents(rb)[i] = T[i]
  <2> DEFINE k == BytesUsed(rb) - i + 1
  <2>1. k \in 1..Len(T) /\ k <= rb.size /\ Len(T) - k + 1 = i
    BY <1>1
  <2>2. After(rb, i) = Behind(rb, k)
    <3>1. i \in 1..BytesUsed(rb)
      OBVIOUS
    <3> QED
      BY <3>1, AfterIsBehind
  <2>3. rb.buf[Behind(rb, k)] = T[Len(T) - k + 1]
    BY <2>1 DEF Trail
  <2> QED
    BY <2>1, <2>2, <2>3, ContentsAt, SMTT(30)
<1>3. Contents(rb) \in Seq(Byte) /\ Len(Contents(rb)) = Len(T)
  BY ContentsAt
<1> QED
  BY <1>2, <1>3

\* A ring whose tail was fixed holds the last bytes there is room for.
LEMMA ContentsFixed ==
  ASSUME NEW size \in Nat \ {0}, NEW rb \in RingsOf(size, Byte), NEW T \in Seq(Byte),
         Trail(rb, T), Len(T) >= size
  PROVE  Contents(FixTail(rb, TRUE)) = Fifo!LastOf(T, size - 1)
<1> DEFINE fixed == FixTail(rb, TRUE)
           U == Fifo!LastOf(T, size - 1)
<1>1. rb.head \in 0..(size - 1) /\ rb.size = size /\ rb.head + 1 \in Nat /\ rb.head + 1 < 2 * size
  BY DEF RingsOf
<1>2. NextP(rb, rb.head) = IF rb.head + 1 < size THEN rb.head + 1 ELSE rb.head + 1 - size
  <2>1. PICK a : a = rb.head + 1
    OBVIOUS
  <2>2. a % size = IF a < size THEN a ELSE a - size
    BY <1>1, <2>1, SmallMod, Zenon
  <2> QED
    BY <1>1, <2>1, <2>2 DEF NextP
<1>3. fixed \in RingsOf(size, Byte)
  BY FixTailRing
<1>4. fixed = [buf |-> rb.buf, size |-> size, head |-> rb.head, tail |-> NextP(rb, rb.head)]
  BY DEF FixTail, RingsOf
<1> HIDE DEF fixed
<1>5. fixed.head = rb.head /\ fixed.size = size /\ fixed.tail = NextP(rb, rb.head) /\ fixed.buf = rb.buf
  BY <1>4
<1>6. BytesUsed(fixed) = size - 1
  BY <1>1, <1>2, <1>5 DEF BytesUsed, BytesFree, CapacityOf
<1>7. U \in Seq(Byte) /\ Len(U) = size - 1 /\ \A i \in 1..(size - 1) : U[i] = T[Len(T) - (size - 1) + i]
  BY DEF Fifo!LastOf
<1> HIDE DEF U
<1>8. Trail(fixed, U)
  <2> SUFFICES ASSUME NEW k \in 1..(size - 1)
               PROVE  rb.buf[Behind(fixed, k)] = U[(size - 1) - k + 1]
    BY <1>5, <1>7 DEF Trail
  <2>1. Behind(fixed, k) = Behind(rb, k)
    BY <1>1, <1>5 DEF Behind
  <2>2. k \in 1..Len(T) /\ k <= rb.size
    BY <1>1
  <2>3. rb.buf[Behind(rb, k)] = T[Len(T) - k + 1]
    BY <2>2 DEF Trail
  <2>4. (size - 1) - k + 1 \in 1..(size - 1) /\ Len(T) - (size - 1) + ((size - 1) - k + 1) = Len(T) - k + 1
    OBVIOUS
  <2> QED
    BY <1>7, <2>1, <2>3, <2>4
<1> QED
  BY <1>3, <1>6, <1>7, <1>8, ContentsOfTrail DEF fixed, U

\* One memcpy out of a ring takes its oldest bytes.
LEMMA ContentsDropped ==
  ASSUME NEW size \in Nat \ {0}, NEW rb \in RingsOf(size, Byte),
         NEW n \in Nat, n <= RoomAt(rb, rb.tail), n <= BytesUsed(rb)
  PROVE  /\ Contents(Drop(rb, n)) = SubSeq(Contents(rb), n + 1, Len(Contents(rb)))
         /\ Span(rb, n) = SubSeq(Contents(rb), 1, n)
<1> DEFINE u == BytesUsed(rb)
           new == Drop(rb, n)
<1>1. /\ rb.tail \in 0..(size - 1) /\ rb.size = size /\ u \in 0..(size - 1) /\ rb.tail + n <= size
  BY Counts DEF RingsOf, RoomAt
<1>2. new \in RingsOf(size, Byte) /\ BytesUsed(new) = u - n /\ Span(rb, n) \in Seq(Byte) /\ Len(Span(rb, n)) = n
  BY DropRing
<1>3. Contents(rb) \in Seq(Byte) /\ Len(Contents(rb)) = u
      /\ \A i \in 1..u : Contents(rb)[i] = rb.buf[After(rb, i)]
  BY ContentsAt
<1>4. Contents(new) \in Seq(Byte) /\ Len(Contents(new)) = u - n
      /\ \A i \in 1..(u - n) : Contents(new)[i] = new.buf[After(new, i)]
  BY <1>2, ContentsAt
<1>5. new.buf = rb.buf /\ new.size = size /\ new.tail = IF rb.tail + n = size THEN 0 ELSE rb.tail + n
  BY <1>1 DEF Drop, RingsOf, Wrap
<1> HIDE DEF new, u
<1>6. ASSUME NEW i \in 1..(u - n)
      PROVE  Contents(new)[i] = Contents(rb)[n + i]
  <2>1. After(new, i) = After(rb, n + i) /\ n + i \in 1..u
    BY <1>1, <1>5 DEF After
  <2> QED
    BY <1>3, <1>4, <1>5, <2>1
<1>7. Contents(new) = SubSeq(Contents(rb), n + 1, u)
  <2>1. SubSeq(Contents(rb), n + 1, u) \in Seq(Byte) /\ Len(SubSeq(Contents(rb), n + 1, u)) = u - n
        /\ \A i \in 1..(u - n) : SubSeq(Contents(rb), n + 1, u)[i] = Contents(rb)[n + i]
    BY <1>1, <1>3 DEF u
  <2> QED
    BY <1>4, <1>6, <2>1
<1>8. ASSUME NEW i \in 1..n PROVE Span(rb, n)[i] = Contents(rb)[i]
  <2>1. Span(rb, n)[i] = rb.buf[rb.tail + i - 1] /\ i \in 1..u /\ After(rb, i) = rb.tail + i - 1
    BY <1>1 DEF Span, After, u
  <2> QED
    BY <1>3, <2>1
<1>9. Span(rb, n) = SubSeq(Contents(rb), 1, n)
  <2>1. SubSeq(Contents(rb), 1, n) \in Seq(Byte) /\ Len(SubSeq(Contents(rb), 1, n)) = n
        /\ \A i \in 1..n : SubSeq(Contents(rb), 1, n)[i] = Contents(rb)[i]
    BY <1>1, <1>3 DEF u
  <2> QED
    BY <1>2, <1>8, <2>1
<1> QED
  BY <1>3, <1>7, <1>9 DEF new

-----------------------------------------------------------------------------
(* What the rings hold during a call. *)

Reads == call.kind \in {"from", "copy"}
Writes == call.kind \in {"into", "copy"}

\* The first n bytes given to a call that writes, and how many there are.
Given(n) ==
  SubSeq(IF call.kind = "into" THEN call.data ELSE loop.before[call.src], 1, n)
Wanted == IF call.kind = "into" THEN Len(call.data) ELSE call.count
Written == loop.before[call.dst] \o Given(loop.done)

BeforeOK ==
  call # NoCall =>
    /\ loop.before \in [Ring -> Seq(Byte)]
    /\ \A r \in Ring : Len(loop.before[r]) <= Cap[r]

OthersKept ==
  call # NoCall =>
    \A r \in Ring : ~(Writes /\ r = call.dst) /\ ~(Reads /\ r = call.src)
                      => Contents(ring[r]) = loop.before[r]

SourceOK ==
  call # NoCall /\ Reads =>
    LET was == loop.before[call.src] IN
      /\ call.count <= Len(was)
      /\ Contents(ring[call.src]) = SubSeq(was, loop.done + 1, Len(was))

TargetOK ==
  call # NoCall /\ Writes =>
    /\ Trail(ring[call.dst], Written)
    /\ loop.overflow = (Len(loop.before[call.dst]) + Wanted > Cap[call.dst])
    /\ ~loop.overflow => BytesUsed(ring[call.dst]) = Len(Written)

QInv == RInv /\ BeforeOK /\ OthersKept /\ SourceOK /\ TargetOK /\ ReadsInOrder

\* Prefixes and suffixes.
LEMMA ConcatAssociates ==
  ASSUME NEW s \in Seq(Byte), NEW t \in Seq(Byte), NEW u \in Seq(Byte)
  PROVE  (s \o t) \o u = s \o (t \o u)
BY ConcatAssociative

LEMMA PrefixGrows ==
  ASSUME NEW d \in Seq(Byte), NEW m \in Nat, NEW n \in Nat, m + n <= Len(d)
  PROVE  /\ SubSeq(d, 1, m) \in Seq(Byte) /\ Len(SubSeq(d, 1, m)) = m
         /\ SubSeq(d, m + 1, m + n) \in Seq(Byte) /\ Len(SubSeq(d, m + 1, m + n)) = n
         /\ SubSeq(d, 1, m) \o SubSeq(d, m + 1, m + n) = SubSeq(d, 1, m + n)
<1>1. SubSeq(d, 1, m) \in Seq(Byte) /\ Len(SubSeq(d, 1, m)) = m
      /\ \A i \in 1..m : SubSeq(d, 1, m)[i] = d[i]
  OBVIOUS
<1>2. SubSeq(d, m + 1, m + n) \in Seq(Byte) /\ Len(SubSeq(d, m + 1, m + n)) = n
      /\ \A i \in 1..n : SubSeq(d, m + 1, m + n)[i] = d[m + i]
  OBVIOUS
<1>3. SubSeq(d, 1, m + n) \in Seq(Byte) /\ Len(SubSeq(d, 1, m + n)) = m + n
      /\ \A i \in 1..(m + n) : SubSeq(d, 1, m + n)[i] = d[i]
  OBVIOUS
<1>4. PICK p \in Seq(Byte), q \in Seq(Byte) : p = SubSeq(d, 1, m) /\ q = SubSeq(d, m + 1, m + n)
  BY <1>1, <1>2
<1>5. Len(p \o q) = m + n /\ \A i \in 1..(m + n) : (p \o q)[i] = d[i]
  BY <1>1, <1>2, <1>4
<1>6. p \o q \in Seq(Byte)
  OBVIOUS
<1>7. p \o q = SubSeq(d, 1, m + n)
  BY <1>3, <1>5, <1>6
<1> QED
  BY <1>1, <1>2, <1>4, <1>7

LEMMA Slice ==
  ASSUME NEW d \in Seq(Byte), NEW a \in Nat, NEW b \in Nat, a <= b, b <= Len(d)
  PROVE  /\ SubSeq(d, a + 1, b) \in Seq(Byte) /\ Len(SubSeq(d, a + 1, b)) = b - a
         /\ \A i \in 1..(b - a) : SubSeq(d, a + 1, b)[i] = d[a + i]
OBVIOUS

LEMMA SliceOfSuffix ==
  ASSUME NEW d \in Seq(Byte), NEW m \in Nat, NEW n \in Nat, m + n <= Len(d),
         NEW r \in Seq(Byte)
  PROVE  Len(r) = Len(d) - m /\ (\A i \in 1..(Len(d) - m) : r[i] = d[m + i])
         => /\ SubSeq(r, n + 1, Len(r)) = SubSeq(d, m + n + 1, Len(d))
            /\ SubSeq(r, 1, n) = SubSeq(d, m + 1, m + n)
<1>0. PICK ld \in Nat : ld = Len(d) /\ m + n <= ld
  OBVIOUS
<1>1. PICK k \in Nat : k = ld - m - n
  <2>1. ld - m - n \in Nat
    BY <1>0
  <2> QED
    BY <2>1, Zenon
<1>9. HAVE Len(r) = Len(d) - m /\ \A i \in 1..(Len(d) - m) : r[i] = d[m + i]
<1>4. ld - (m + n) = k /\ ld - m = n + k /\ m + n \in Nat /\ m + n <= ld
  BY <1>0, <1>1
<1>5. Len(d) - (m + n) = k /\ m + n <= Len(d)
  BY <1>0, <1>4, Zenon
<1>6. PICK lr \in Nat : lr = Len(r) /\ lr = n + k
  BY <1>0, <1>4, <1>9
<1>7. lr - n = k /\ n <= lr
  BY <1>6
<1>8. Len(r) - n = k /\ n <= Len(r)
  BY <1>6, <1>7, Zenon
<1>2. SubSeq(r, n + 1, Len(r)) = SubSeq(d, m + n + 1, Len(d))
  <2>1. SubSeq(r, n + 1, Len(r)) \in Seq(Byte) /\ Len(SubSeq(r, n + 1, Len(r))) = k
        /\ \A i \in 1..k : SubSeq(r, n + 1, Len(r))[i] = r[n + i]
    <3>1. SubSeq(r, n + 1, lr) \in Seq(Byte) /\ Len(SubSeq(r, n + 1, lr)) = lr - n
          /\ \A i \in 1..(lr - n) : SubSeq(r, n + 1, lr)[i] = r[n + i]
      <4>1. lr <= Len(r)
        BY <1>6
      <4> QED
        BY <1>7, <4>1, Slice
    <3> QED
      BY <1>6, <1>7, <3>1, Zenon
  <2>2. SubSeq(d, (m + n) + 1, Len(d)) \in Seq(Byte)
        /\ Len(SubSeq(d, (m + n) + 1, Len(d))) = k
        /\ \A i \in 1..k : SubSeq(d, (m + n) + 1, Len(d))[i] = d[(m + n) + i]
    BY <1>4, <1>5, Slice
  <2>3. \A i \in 1..k : r[n + i] = d[(m + n) + i]
    <3>1. \A i \in 1..k : n + i \in 1..(Len(d) - m) /\ m + (n + i) = (m + n) + i
      BY <1>0, <1>4
    <3> QED
      BY <1>9, <3>1, Zenon
  <2>4. \A i \in 1..k : SubSeq(r, n + 1, Len(r))[i] = SubSeq(d, (m + n) + 1, Len(d))[i]
    BY <2>1, <2>2, <2>3, Zenon
  <2> QED
    BY <2>1, <2>2, <2>4, SeqEqual, Zenon
<1>3. SubSeq(r, 1, n) = SubSeq(d, m + 1, m + n)
  <2>1. SubSeq(r, 1, n) \in Seq(Byte) /\ Len(SubSeq(r, 1, n)) = n
        /\ \A i \in 1..n : SubSeq(r, 1, n)[i] = r[i]
    BY <1>8
  <2>2. SubSeq(d, m + 1, m + n) \in Seq(Byte) /\ Len(SubSeq(d, m + 1, m + n)) = n
        /\ \A i \in 1..n : SubSeq(d, m + 1, m + n)[i] = d[m + i]
    BY <1>5
  <2>3. \A i \in 1..n : r[i] = d[m + i]
    <3>1. \A i \in 1..n : i \in 1..(Len(d) - m)
      BY <1>0, <1>4
    <3> QED
      BY <1>9, <3>1, Zenon
  <2>4. \A i \in 1..n : SubSeq(r, 1, n)[i] = SubSeq(d, m + 1, m + n)[i]
    BY <2>1, <2>2, <2>3, Zenon
  <2> QED
    BY <2>1, <2>2, <2>4, SeqEqual, Zenon
<1> QED
  BY <1>2, <1>3

LEMMA SuffixShrinks ==
  ASSUME NEW d \in Seq(Byte), NEW m \in Nat, NEW n \in Nat, m + n <= Len(d)
  PROVE  \A r : r = SubSeq(d, m + 1, Len(d)) =>
           /\ r \in Seq(Byte) /\ Len(r) = Len(d) - m
           /\ SubSeq(r, n + 1, Len(r)) = SubSeq(d, m + n + 1, Len(d))
           /\ SubSeq(r, 1, n) = SubSeq(d, m + 1, m + n)
<1>1. m <= Len(d) /\ Len(d) \in Nat
  OBVIOUS
<1>2. PICK r \in Seq(Byte) : r = SubSeq(d, m + 1, Len(d))
  <2>1. SubSeq(d, m + 1, Len(d)) \in Seq(Byte)
    BY <1>1, Slice
  <2> QED
    BY <2>1, Zenon
<1>3. Len(r) = Len(d) - m /\ \A i \in 1..(Len(d) - m) : r[i] = d[m + i]
  BY <1>1, <1>2, Slice
<1>4. /\ SubSeq(r, n + 1, Len(r)) = SubSeq(d, m + n + 1, Len(d))
      /\ SubSeq(r, 1, n) = SubSeq(d, m + 1, m + n)
  BY <1>3, SliceOfSuffix, Zenon
<1> QED
  BY <1>2, <1>3, <1>4, Zenon

\* Rings by name, and their counts.
LEMMA RingFacts ==
  ASSUME RInv, NEW r \in Ring
  PROVE  /\ Cap[r] \in Nat /\ Cap[r] + 1 \in Nat \ {0} /\ ring[r] \in RingsOf(Cap[r] + 1, Byte)
         /\ BytesUsed(ring[r]) \in 0..Cap[r] /\ BytesFree(ring[r]) = Cap[r] - BytesUsed(ring[r])
         /\ RoomAt(ring[r], ring[r].head) \in Nat /\ RoomAt(ring[r], ring[r].tail) \in Nat
         /\ Contents(ring[r]) \in Seq(Byte) /\ Len(Contents(ring[r])) = BytesUsed(ring[r])
<1>1. Cap[r] \in Nat /\ Cap[r] + 1 \in Nat \ {0} /\ ring[r] \in RingsOf(Cap[r] + 1, Byte)
  BY RingAssumption DEF RInv, TypeOK
<1>2. /\ CapacityOf(ring[r]) = Cap[r] /\ BytesFree(ring[r]) \in 0..Cap[r]
      /\ RoomAt(ring[r], ring[r].head) \in Nat /\ RoomAt(ring[r], ring[r].tail) \in Nat
  BY <1>1, Counts
<1>3. Contents(ring[r]) \in Seq(Byte) /\ Len(Contents(ring[r])) = BytesUsed(ring[r])
  BY <1>1, ContentsAt
<1> QED
  BY <1>1, <1>2, <1>3 DEF BytesUsed

LEMMA EnterQInv ==
  ASSUME RInv, NEW c, NEW overflow, NEW used, Entered(c, overflow, used)
  PROVE  QInv'
<1>1. /\ call' = c /\ ring' = ring
      /\ loop' = [done |-> 0, overflow |-> overflow, used |-> used, out |-> <<>>,
                  before |-> [r \in Ring |-> Contents(ring[r])]]
  BY DEF Entered, Enter, NoLoop
<1>2. /\ loop'.done = 0 /\ loop'.overflow = overflow /\ loop'.out = <<>>
      /\ \A r \in Ring : loop'.before[r] = Contents(ring[r])
  BY <1>1
<1>3. \/ c.kind = "into" /\ c.dst \in Ring /\ c.data \in Seq(Byte)
         /\ overflow = (Len(c.data) > BytesFree(ring[c.dst]))
      \/ c.kind = "from" /\ c.src \in Ring /\ c.count \in Nat /\ c.count <= BytesUsed(ring[c.src])
      \/ c.kind = "copy" /\ c.dst \in Ring /\ c.src \in Ring /\ c.count \in Nat
         /\ c.count <= BytesUsed(ring[c.src]) /\ overflow = (c.count > BytesFree(ring[c.dst]))
  BY DEF Entered, IntoEntered, FromEntered, CopyEntered
<1>4. RInv'
  BY EnterRInv
<1>5. BeforeOK' /\ OthersKept'
  BY <1>1, <1>2, RingFacts DEF BeforeOK, OthersKept
<1>6. SourceOK' /\ ReadsInOrder'
  <2> SUFFICES ASSUME c.kind \in {"from", "copy"}
               PROVE  LET was == loop'.before[c.src] IN
                      /\ c.count <= Len(was)
                      /\ Contents(ring[c.src]) = SubSeq(was, loop'.done + 1, Len(was))
                      /\ loop'.out = SubSeq(was, 1, loop'.done)
    BY <1>1 DEF SourceOK, ReadsInOrder, Reads
  <2>1. c.src \in Ring /\ c.count <= BytesUsed(ring[c.src])
    BY <1>3
  <2>2. PICK was \in Seq(Byte) : was = Contents(ring[c.src]) /\ Len(was) = BytesUsed(ring[c.src])
    BY <2>1, RingFacts
  <2>3. SubSeq(was, 0 + 1, Len(was)) = was /\ SubSeq(was, 1, 0) = <<>>
    OBVIOUS
  <2> QED
    BY <1>2, <2>1, <2>2, <2>3
<1>7. TargetOK'
  <2> SUFFICES ASSUME c.kind \in {"into", "copy"}
               PROVE  /\ Trail(ring[c.dst], Written')
                      /\ overflow = (Len(loop'.before[c.dst]) + Wanted' > Cap[c.dst])
                      /\ BytesUsed(ring[c.dst]) = Len(Written')
    BY <1>1, <1>2 DEF TargetOK, Writes
  <2>1. c.dst \in Ring
    BY <1>3
  <2>2. PICK was \in Seq(Byte) : was = Contents(ring[c.dst]) /\ Len(was) = BytesUsed(ring[c.dst])
    BY <2>1, RingFacts
  <2>3. Written' = was
    <3>1. Written' = was \o SubSeq(IF c.kind = "into" THEN c.data ELSE loop'.before[c.src], 1, 0)
      BY <1>1, <1>2, <2>1, <2>2 DEF Written, Given
    <3>2. (IF c.kind = "into" THEN c.data ELSE loop'.before[c.src]) \in Seq(Byte)
      BY <1>2, <1>3, RingFacts
    <3> QED
      BY <3>1, <3>2
  <2>4. Trail(ring[c.dst], was)
    BY <2>1, <2>2, RingFacts, TrailOfContents
  <2>5. overflow = (Wanted' > BytesFree(ring[c.dst])) /\ Wanted' \in Nat
    BY <1>1, <1>3 DEF Wanted
  <2>6. Wanted' > BytesFree(ring[c.dst]) <=> Len(was) + Wanted' > Cap[c.dst]
    BY <2>1, <2>2, <2>5, RingFacts, SMTT(30)
  <2> QED
    BY <1>2, <2>1, <2>2, <2>3, <2>4, <2>5, <2>6
<1> QED
  BY <1>4, <1>5, <1>6, <1>7 DEF QInv

\* An iteration leaves the record of the contents at the call alone.
LEMMA LoopKeeps ==
  ASSUME loop \in LoopType, NEW n \in Nat, NEW s \in Seq(Byte),
         \/ loop' = [loop EXCEPT !.done = @ + n] /\ s = <<>>
         \/ loop' = [loop EXCEPT !.done = @ + n, !.out = @ \o s]
  PROVE  /\ loop'.done = loop.done + n
         /\ loop'.before = loop.before /\ loop'.overflow = loop.overflow
         /\ loop'.out = loop.out \o s
         /\ loop.done \in Nat /\ loop.out \in Seq(Byte)
<1>1. PICK o \in Seq(Byte), d \in Nat : o = loop.out /\ d = loop.done
  BY DEF LoopType
<1>2. CASE loop' = [loop EXCEPT !.done = @ + n] /\ s = <<>>
  <2>1. /\ loop'.done = loop.done + n /\ loop'.before = loop.before
        /\ loop'.overflow = loop.overflow /\ loop'.out = loop.out
    BY <1>2, Zenon DEF LoopType
  <2> QED
    BY <1>1, <1>2, <2>1
<1>3. CASE loop' = [loop EXCEPT !.done = @ + n, !.out = @ \o s]
  <2>1. /\ loop'.done = loop.done + n /\ loop'.before = loop.before
        /\ loop'.overflow = loop.overflow /\ loop'.out = loop.out \o s
    BY <1>3, Zenon DEF LoopType
  <2> QED
    BY <1>1, <2>1
<1> QED
  BY <1>2, <1>3

\* A memcpy out of a ring takes the next bytes of what was there, one into
\* a ring adds the next bytes of what is given.
LEMMA DropNext ==
  ASSUME NEW size \in Nat \ {0}, NEW rb \in RingsOf(size, Byte), NEW was \in Seq(Byte),
         NEW m \in Nat, NEW n \in Nat, m + n <= Len(was), n <= RoomAt(rb, rb.tail),
         Contents(rb) = SubSeq(was, m + 1, Len(was))
  PROVE  /\ Contents(Drop(rb, n)) = SubSeq(was, m + n + 1, Len(was))
         /\ Span(rb, n) = SubSeq(was, m + 1, m + n)
<1>1. PICK r : r = SubSeq(was, m + 1, Len(was))
  OBVIOUS
<1>2. /\ Len(r) = Len(was) - m
      /\ SubSeq(r, n + 1, Len(r)) = SubSeq(was, m + n + 1, Len(was))
      /\ SubSeq(r, 1, n) = SubSeq(was, m + 1, m + n)
  BY <1>1, SuffixShrinks
<1>3. n <= Len(r)
  BY <1>2
<1>4. n <= BytesUsed(rb) /\ Contents(rb) = r
  BY <1>1, <1>3, ContentsAt
<1>5. Contents(Drop(rb, n)) = SubSeq(r, n + 1, Len(r)) /\ Span(rb, n) = SubSeq(r, 1, n)
  BY <1>4, ContentsDropped
<1> QED
  BY <1>2, <1>5, Zenon

LEMMA StoreNext ==
  ASSUME NEW size \in Nat \ {0}, NEW rb \in RingsOf(size, Byte), NEW was \in Seq(Byte),
         NEW d \in Seq(Byte), NEW m \in Nat, NEW n \in Nat, m + n <= Len(d),
         n <= RoomAt(rb, rb.head), Trail(rb, was \o SubSeq(d, 1, m))
  PROVE  Trail(Store(rb, SubSeq(d, m + 1, m + n)), was \o SubSeq(d, 1, m + n))
<1>1. PICK p \in Seq(Byte), s \in Seq(Byte) :
        /\ p = SubSeq(d, 1, m) /\ Len(p) = m
        /\ s = SubSeq(d, m + 1, m + n) /\ Len(s) = n
        /\ p \o s = SubSeq(d, 1, m + n)
  <2>1. /\ SubSeq(d, 1, m) \in Seq(Byte) /\ Len(SubSeq(d, 1, m)) = m
        /\ SubSeq(d, m + 1, m + n) \in Seq(Byte) /\ Len(SubSeq(d, m + 1, m + n)) = n
        /\ SubSeq(d, 1, m) \o SubSeq(d, m + 1, m + n) = SubSeq(d, 1, m + n)
    BY PrefixGrows
  <2> QED
    BY <2>1, Zenon
<1>2. PICK T \in Seq(Byte) : T = was \o p /\ Len(T) = Len(was) + m
  <2>1. was \o p \in Seq(Byte) /\ Len(was \o p) = Len(was) + m
    BY <1>1
  <2> QED
    BY <2>1
<1>3. T \o s = was \o SubSeq(d, 1, m + n)
  <2>1. (was \o p) \o s = was \o (p \o s)
    BY ConcatAssociates, ZenonT(30)
  <2> QED
    BY <1>1, <1>2, <2>1, Zenon
<1>4. Trail(Store(rb, s), T \o s)
  <2>1. Trail(rb, T) /\ Len(s) <= RoomAt(rb, rb.head)
    BY <1>1, <1>2, Zenon
  <2> QED
    BY <2>1, TrailOfStore
<1> QED
  BY <1>1, <1>3, <1>4, Zenon

LEMMA WrittenLength ==
  ASSUME NEW was \in Seq(Byte), NEW d \in Seq(Byte), NEW m \in Nat, m <= Len(d)
  PROVE  Len(was \o SubSeq(d, 1, m)) = Len(was) + m
<1>1. SubSeq(d, 1, m) \in Seq(Byte) /\ Len(SubSeq(d, 1, m)) = m
  OBVIOUS
<1>2. PICK p \in Seq(Byte) : p = SubSeq(d, 1, m) /\ Len(p) = m
  BY <1>1
<1> QED
  BY <1>2

LEMMA StoreCounts ==
  ASSUME NEW size \in Nat \ {0}, NEW rb \in RingsOf(size, Byte),
         NEW d \in Seq(Byte), NEW m \in Nat, NEW n \in Nat, m + n <= Len(d),
         n <= RoomAt(rb, rb.head), BytesUsed(rb) + n <= size - 1
  PROVE  BytesUsed(Store(rb, SubSeq(d, m + 1, m + n))) = BytesUsed(rb) + n
<1>1. SubSeq(d, m + 1, m + n) \in Seq(Byte) /\ Len(SubSeq(d, m + 1, m + n)) = n
  BY PrefixGrows
<1>2. PICK s \in Seq(Byte) : s = SubSeq(d, m + 1, m + n) /\ Len(s) = n
  BY <1>1
<1>3. BytesFree(rb) = size - 1 - BytesUsed(rb) /\ BytesUsed(rb) \in Nat
  BY Counts DEF BytesUsed
<1>4. Len(s) <= BytesFree(rb) /\ Len(s) <= RoomAt(rb, rb.head)
  BY <1>2, <1>3
<1>5. BytesUsed(Store(rb, s)) = BytesUsed(rb) + Len(s)
  BY <1>4, StoreRing
<1> QED
  BY <1>2, <1>5

LEMMA StoreWithin ==
  ASSUME NEW size \in Nat \ {0}, NEW rb \in RingsOf(size, Byte), NEW was \in Seq(Byte),
         NEW d \in Seq(Byte), NEW m \in Nat, NEW n \in Nat, NEW w \in Nat
  PROVE  /\ w <= Len(d) /\ m + n <= w /\ n <= RoomAt(rb, rb.head)
         /\ Trail(rb, was \o SubSeq(d, 1, m))
         /\ Len(was) + w > size - 1 \/ BytesUsed(rb) = Len(was \o SubSeq(d, 1, m))
         => /\ Trail(Store(rb, SubSeq(d, m + 1, m + n)), was \o SubSeq(d, 1, m + n))
            /\ \/ Len(was) + w > size - 1
               \/ BytesUsed(Store(rb, SubSeq(d, m + 1, m + n))) = Len(was \o SubSeq(d, 1, m + n))
<1>1. SUFFICES
        ASSUME w <= Len(d), m + n <= w, n <= RoomAt(rb, rb.head),
               Trail(rb, was \o SubSeq(d, 1, m)),
               Len(was) + w > size - 1 \/ BytesUsed(rb) = Len(was \o SubSeq(d, 1, m))
        PROVE  /\ Trail(Store(rb, SubSeq(d, m + 1, m + n)), was \o SubSeq(d, 1, m + n))
               /\ \/ Len(was) + w > size - 1
                  \/ BytesUsed(Store(rb, SubSeq(d, m + 1, m + n)))
                       = Len(was \o SubSeq(d, 1, m + n))
  OBVIOUS
<1>2. m + n <= Len(d) /\ m <= Len(d) /\ m + n \in Nat /\ Len(was) \in Nat
      /\ n <= RoomAt(rb, rb.head)
  BY <1>1
<1>3. Trail(rb, was \o SubSeq(d, 1, m))
  BY <1>1
<1>4. Trail(Store(rb, SubSeq(d, m + 1, m + n)), was \o SubSeq(d, 1, m + n))
  BY <1>2, <1>3, StoreNext
<1>5. ASSUME ~(Len(was) + w > size - 1)
      PROVE  BytesUsed(Store(rb, SubSeq(d, m + 1, m + n))) = Len(was \o SubSeq(d, 1, m + n))
  <2>1. Len(was \o SubSeq(d, 1, m)) = Len(was) + m
        /\ Len(was \o SubSeq(d, 1, m + n)) = Len(was) + (m + n)
    BY <1>2, WrittenLength
  <2>2. PICK l \in Nat : l = Len(was)
    BY <1>2
  <2>3. m + n <= w
    BY <1>1
  <2>4. l + m + n <= size - 1
    BY <1>5, <2>2, <2>3
  <2>5. BytesUsed(rb) = l + m
    BY <1>1, <1>5, <2>1, <2>2, Zenon
  <2>6. BytesUsed(Store(rb, SubSeq(d, m + 1, m + n))) = BytesUsed(rb) + n
    <3>1. m + n <= Len(d) /\ n <= RoomAt(rb, rb.head)
      BY <1>2
    <3>2. BytesUsed(rb) + n <= size - 1
      BY <2>4, <2>5
    <3> QED
      BY <3>1, <3>2, StoreCounts
  <2>7. (l + m) + n = l + (m + n)
    OBVIOUS
  <2> QED
    BY <2>1, <2>2, <2>5, <2>6, <2>7, Zenon
<1> QED
  BY <1>4, <1>5, Zenon

\* The same of the rings of the call under way.
LEMMA SourceStep ==
  ASSUME QInv, call # NoCall, Reads, NEW n \in Nat,
         n <= RoomAt(ring[call.src], ring[call.src].tail), n <= call.count - loop.done,
         call' = call, loop'.done = loop.done + n, loop'.before = loop.before,
         ring'[call.src] = Drop(ring[call.src], n)
  PROVE  /\ SourceOK'
         /\ Span(ring[call.src], n)
              = SubSeq(loop.before[call.src], loop.done + 1, loop.done + n)
<1>1. call.src \in Ring /\ call.count \in Nat /\ loop.done \in 0..call.count
  BY DEF QInv, RInv, TypeOK, CallOK, Reads
<1>2. PICK was \in Seq(Byte) : was = loop.before[call.src]
  BY <1>1 DEF QInv, BeforeOK
<1>3. PICK size \in Nat \ {0} : \E rb \in RingsOf(size, Byte) : rb = ring[call.src]
  <2>1. Cap[call.src] + 1 \in Nat \ {0} /\ ring[call.src] \in RingsOf(Cap[call.src] + 1, Byte)
    BY <1>1, RingFacts DEF QInv
  <2> QED
    BY <2>1, Zenon
<1>4. PICK rb \in RingsOf(size, Byte) : rb = ring[call.src]
  BY <1>3
<1>5. PICK m \in Nat : m = loop.done
  BY <1>1
<1>6. /\ call.count <= Len(was) /\ Contents(rb) = SubSeq(was, m + 1, Len(was))
      /\ n <= RoomAt(rb, rb.tail)
  BY <1>2, <1>4, <1>5 DEF QInv, SourceOK
<1>7. m + n <= Len(was)
  BY <1>1, <1>5, <1>6
<1>8. /\ Contents(Drop(rb, n)) = SubSeq(was, m + n + 1, Len(was))
      /\ Span(rb, n) = SubSeq(was, m + 1, m + n)
  BY <1>6, <1>7, DropNext, ZenonT(30)
<1>9. SourceOK'
  BY <1>2, <1>4, <1>5, <1>6, <1>8, Zenon DEF SourceOK, Reads
<1> QED
  BY <1>2, <1>4, <1>5, <1>8, <1>9, Zenon

LEMMA TargetStep ==
  ASSUME NEW n \in Nat, NEW m \in Nat, NEW w \in Nat, NEW d \in Seq(Byte)
  PROVE  /\ QInv /\ call # NoCall /\ Writes /\ m = loop.done /\ w = Wanted
         /\ Given(m) = SubSeq(d, 1, m) /\ Given(m + n) = SubSeq(d, 1, m + n)
         /\ w <= Len(d) /\ m + n <= w /\ n <= RoomAt(ring[call.dst], ring[call.dst].head)
         /\ call' = call /\ loop'.done = m + n /\ loop'.before = loop.before
         /\ loop'.overflow = loop.overflow
         /\ ring'[call.dst] = Store(ring[call.dst], SubSeq(d, m + 1, m + n))
         => TargetOK'
<1>1. HAVE /\ QInv /\ call # NoCall /\ Writes /\ m = loop.done /\ w = Wanted
           /\ Given(m) = SubSeq(d, 1, m) /\ Given(m + n) = SubSeq(d, 1, m + n)
           /\ w <= Len(d) /\ m + n <= w /\ n <= RoomAt(ring[call.dst], ring[call.dst].head)
           /\ call' = call /\ loop'.done = m + n /\ loop'.before = loop.before
           /\ loop'.overflow = loop.overflow
           /\ ring'[call.dst] = Store(ring[call.dst], SubSeq(d, m + 1, m + n))
<1>2. call.dst \in Ring
  BY <1>1 DEF QInv, RInv, TypeOK, CallOK, Writes
<1>3. PICK was \in Seq(Byte) : was = loop.before[call.dst]
  BY <1>1, <1>2 DEF QInv, BeforeOK
<1>4. PICK size \in Nat \ {0} :
        size - 1 = Cap[call.dst] /\ \E rb \in RingsOf(size, Byte) : rb = ring[call.dst]
  <2>1. Cap[call.dst] + 1 \in Nat \ {0} /\ ring[call.dst] \in RingsOf(Cap[call.dst] + 1, Byte)
    BY <1>1, <1>2, RingFacts DEF QInv
  <2>2. (Cap[call.dst] + 1) - 1 = Cap[call.dst]
    BY <1>2, Sizes
  <2> QED
    BY <2>1, <2>2, Zenon
<1>5. PICK rb \in RingsOf(size, Byte) : rb = ring[call.dst]
  BY <1>4
<1>6. Written = was \o SubSeq(d, 1, m) /\ Written' = was \o SubSeq(d, 1, m + n) /\ Wanted' = w
  <2>1. Written = was \o Given(m) /\ Wanted' = w
    BY <1>1, <1>3, Zenon DEF Written, Wanted
  <2>2. Written' = was \o Given(m + n)
    BY <1>1, <1>3, Zenon DEF Written, Given
  <2> QED
    BY <1>1, <2>1, <2>2, Zenon
<1>7. /\ Trail(rb, was \o SubSeq(d, 1, m))
      /\ loop.overflow = (Len(was) + w > Cap[call.dst])
      /\ ~loop.overflow => BytesUsed(rb) = Len(was \o SubSeq(d, 1, m))
  BY <1>1, <1>3, <1>5, <1>6, Zenon DEF QInv, TargetOK
<1>8. Trail(rb, was \o SubSeq(d, 1, m))
      /\ (Len(was) + w > size - 1 \/ BytesUsed(rb) = Len(was \o SubSeq(d, 1, m)))
  BY <1>4, <1>7, Zenon
<1>9. n <= RoomAt(rb, rb.head) /\ w <= Len(d) /\ m + n <= w
  BY <1>1, <1>5, Zenon
<1>10. /\ Trail(Store(rb, SubSeq(d, m + 1, m + n)), was \o SubSeq(d, 1, m + n))
       /\ \/ Len(was) + w > size - 1
          \/ BytesUsed(Store(rb, SubSeq(d, m + 1, m + n))) = Len(was \o SubSeq(d, 1, m + n))
  BY <1>8, <1>9, StoreWithin
<1>11. ~loop.overflow =>
         BytesUsed(Store(rb, SubSeq(d, m + 1, m + n))) = Len(was \o SubSeq(d, 1, m + n))
  BY <1>4, <1>7, <1>10, Zenon
<1>12. Written' = was \o SubSeq(d, 1, m + n) /\ Wanted' = w
  BY <1>6
<1> QED
  BY <1>1, <1>3, <1>4, <1>5, <1>7, <1>10, <1>11, <1>12, Zenon DEF TargetOK, Writes

LEMMA IterateQInv == ASSUME QInv, Iterate PROVE QInv'
<1>1. RInv' /\ CallOK /\ loop \in LoopType
  BY IterateRInv DEF QInv, RInv, TypeOK
<1>2. CASE IntoLoop
  <2> DEFINE rb == ring[call.dst]
             n == Min2(RoomAt(rb, rb.head), Len(call.data) - loop.done)
             s == SubSeq(call.data, loop.done + 1, loop.done + n)
  <2>1. /\ call # NoCall /\ call.kind = "into" /\ loop.done # Len(call.data)
        /\ ring' = [ring EXCEPT ![call.dst] = Store(rb, s)]
        /\ loop' = [loop EXCEPT !.done = @ + n]
        /\ call' = call
    BY <1>2 DEF IntoLoop
  <2>2. call.dst \in Ring /\ call.data \in Seq(Byte) /\ loop.done \in 0..Len(call.data)
    BY <1>1, <2>1 DEF CallOK
  <2>3. n \in Nat /\ n <= Len(call.data) - loop.done /\ n <= RoomAt(rb, rb.head) /\ s \in Seq(Byte)
    <3>1. RoomAt(rb, rb.head) \in Nat
      BY <2>2, RingFacts DEF QInv
    <3>2. n \in Nat /\ n <= Len(call.data) - loop.done /\ n <= RoomAt(rb, rb.head)
      BY <2>2, <3>1 DEF Min2
    <3> HIDE DEF n
    <3> QED
      BY <2>2, <3>2
  <2> HIDE DEF n
  <2>4. /\ loop'.done = loop.done + n /\ loop'.before = loop.before
        /\ loop'.overflow = loop.overflow
    <3>1. <<>> \in Seq(Byte)
      OBVIOUS
    <3> QED
      BY <1>1, <2>1, <2>3, <3>1, LoopKeeps
  <2>5. ring'[call.dst] = Store(rb, s) /\ \A r \in Ring : r # call.dst => ring'[r] = ring[r]
    BY <2>1, <2>2 DEF QInv, RInv, TypeOK
  <2> HIDE DEF s, rb
  <2>6. TargetOK'
    <3>1. Writes /\ Wanted = Len(call.data)
      BY <2>1 DEF Writes, Wanted
    <3>2. PICK m \in Nat, w \in Nat, d \in Seq(Byte) :
            m = loop.done /\ w = Len(call.data) /\ d = call.data
      BY <2>2
    <3>3. s = SubSeq(d, m + 1, m + n) /\ rb = ring[call.dst] /\ w <= Len(d) /\ m + n <= w
      BY <2>3, <3>2 DEF s, rb
    <3>4. Given(m) = SubSeq(d, 1, m) /\ Given(m + n) = SubSeq(d, 1, m + n)
      BY <2>1, <3>2, Zenon DEF Given
    <3> QED
      BY <2>1, <2>3, <2>4, <2>5, <3>1, <3>2, <3>3, <3>4, TargetStep, Zenon
  <2>7. BeforeOK' /\ OthersKept'
    BY <2>1, <2>4, <2>5 DEF QInv, BeforeOK, OthersKept, Writes, Reads
  <2>8. SourceOK' /\ ReadsInOrder'
    BY <2>1 DEF SourceOK, ReadsInOrder, Reads
  <2> QED
    BY <1>1, <2>6, <2>7, <2>8 DEF QInv
<1>3. CASE FromLoop
  <2> DEFINE rb == ring[call.src]
             n == Min2(RoomAt(rb, rb.tail), call.count - loop.done)
             s == Span(rb, n)
  <2>1. /\ call # NoCall /\ call.kind = "from" /\ loop.done # call.count
        /\ ring' = [ring EXCEPT ![call.src] = Drop(rb, n)]
        /\ loop' = [loop EXCEPT !.done = @ + n, !.out = @ \o s]
        /\ call' = call
    BY <1>3 DEF FromLoop
  <2>2. call.src \in Ring /\ call.count \in Nat /\ loop.done \in 0..call.count
    BY <1>1, <2>1 DEF CallOK
  <2>3. n \in Nat /\ n <= call.count - loop.done /\ n <= RoomAt(rb, rb.tail)
    <3>1. RoomAt(rb, rb.tail) \in Nat
      BY <2>2, RingFacts DEF QInv
    <3> QED
      BY <2>2, <3>1 DEF Min2
  <2> HIDE DEF n
  <2>4. ring'[call.src] = Drop(rb, n) /\ \A r \in Ring : r # call.src => ring'[r] = ring[r]
    BY <2>1, <2>2 DEF QInv, RInv, TypeOK
  <2>5. PICK was \in Seq(Byte) : was = loop.before[call.src]
    BY <2>1, <2>2 DEF QInv, BeforeOK
  <2>6. call.count <= Len(was) /\ loop.out = SubSeq(was, 1, loop.done) /\ Reads
    BY <2>1, <2>5 DEF QInv, SourceOK, ReadsInOrder, Reads
  <2>7. loop.done \in Nat /\ loop.done + n <= Len(was)
    BY <2>2, <2>3, <2>6
  <2>8. /\ loop'.before = loop.before
        /\ loop'.done = loop.done + n
    BY <1>1, <2>1, Zenon DEF LoopType
  <2>9. SourceOK' /\ s = SubSeq(was, loop.done + 1, loop.done + n)
    BY <2>1, <2>3, <2>4, <2>5, <2>6, <2>8, SourceStep
  <2>10. s \in Seq(Byte) /\ SubSeq(was, 1, loop.done) \o s = SubSeq(was, 1, loop.done + n)
    <3>1. PICK m \in Nat : m = loop.done
      BY <2>7
    <3>2. SubSeq(was, m + 1, m + n) \in Seq(Byte)
          /\ SubSeq(was, 1, m) \o SubSeq(was, m + 1, m + n) = SubSeq(was, 1, m + n)
      BY <2>3, <2>7, <3>1, PrefixGrows
    <3> QED
      BY <2>9, <3>1, <3>2, Zenon
  <2> HIDE DEF s, rb
  <2>11. loop'.out = loop.out \o s
    BY <1>1, <2>1, <2>3, <2>10, LoopKeeps
  <2>12. ReadsInOrder'
    BY <2>1, <2>5, <2>6, <2>8, <2>10, <2>11 DEF ReadsInOrder
  <2>13. BeforeOK' /\ OthersKept'
    BY <2>1, <2>8, <2>4 DEF QInv, BeforeOK, OthersKept, Writes, Reads
  <2>14. TargetOK'
    BY <2>1 DEF TargetOK, Writes
  <2> QED
    BY <1>1, <2>9, <2>12, <2>13, <2>14 DEF QInv
<1>4. CASE CopyLoop
  <2> DEFINE src == ring[call.src]
             dst == ring[call.dst]
             nsrc == Min2(RoomAt(src, src.tail), call.count - loop.done)
             n == Min2(RoomAt(dst, dst.head), nsrc)
             s == Span(src, n)
  <2>1. /\ call # NoCall /\ call.kind = "copy" /\ loop.done # call.count
        /\ ring' = [ring EXCEPT ![call.src] = Drop(src, n), ![call.dst] = Store(dst, s)]
        /\ loop' = [loop EXCEPT !.done = @ + n]
        /\ call' = call
    BY <1>4 DEF CopyLoop
  <2>2. /\ call.src \in Ring /\ call.dst \in Ring /\ call.dst # call.src
        /\ call.count \in Nat /\ loop.done \in 0..call.count
    BY <1>1, <2>1 DEF CallOK
  <2>3. /\ n \in Nat /\ n <= call.count - loop.done
        /\ n <= RoomAt(src, src.tail) /\ n <= RoomAt(dst, dst.head)
    <3>1. RoomAt(src, src.tail) \in Nat /\ RoomAt(dst, dst.head) \in Nat
      BY <2>2, RingFacts DEF QInv
    <3> QED
      BY <2>2, <3>1 DEF Min2
  <2> HIDE DEF n, nsrc
  <2>4. /\ ring'[call.src] = Drop(src, n) /\ ring'[call.dst] = Store(dst, s)
        /\ \A r \in Ring : r # call.src /\ r # call.dst => ring'[r] = ring[r]
    BY <2>1, <2>2 DEF QInv, RInv, TypeOK
  <2>5. PICK was \in Seq(Byte) : was = loop.before[call.src]
    BY <2>1, <2>2 DEF QInv, BeforeOK
  <2>6. call.count <= Len(was) /\ Reads /\ Writes /\ Wanted = call.count
    BY <2>1, <2>5 DEF QInv, SourceOK, Reads, Writes, Wanted
  <2>7. loop.done \in Nat /\ loop.done + n <= Len(was)
    BY <2>2, <2>3, <2>6
  <2>8. /\ loop'.before = loop.before /\ loop'.done = loop.done + n
        /\ loop'.overflow = loop.overflow
    BY <1>1, <2>1, Zenon DEF LoopType
  <2>9. SourceOK' /\ s = SubSeq(was, loop.done + 1, loop.done + n)
    BY <2>1, <2>3, <2>4, <2>5, <2>6, <2>8, SourceStep
  <2>10. s \in Seq(Byte)
    <3>1. PICK m \in Nat : m = loop.done
      BY <2>7
    <3>2. SubSeq(was, m + 1, m + n) \in Seq(Byte)
      BY <2>3, <2>7, <3>1, PrefixGrows
    <3> QED
      BY <2>9, <3>1, <3>2, Zenon
  <2> HIDE DEF s
  <2>11. TargetOK'
    <3>1. PICK m \in Nat, w \in Nat : m = loop.done /\ w = call.count
      BY <2>2
    <3>2. Given(m) = SubSeq(was, 1, m) /\ Given(m + n) = SubSeq(was, 1, m + n)
      BY <2>1, <2>5, Zenon DEF Given
    <3>3. w <= Len(was) /\ m + n <= w
      BY <2>3, <2>6, <3>1
    <3> QED
      BY <2>1, <2>3, <2>4, <2>6, <2>8, <2>9, <3>1, <3>2, <3>3, TargetStep, Zenon
  <2>12. BeforeOK' /\ OthersKept' /\ ReadsInOrder'
    BY <2>1, <2>4, <2>8 DEF QInv, BeforeOK, OthersKept, Writes, Reads, ReadsInOrder
  <2> QED
    BY <1>1, <2>9, <2>11, <2>12 DEF QInv
<1> QED
  BY <1>2, <1>3, <1>4 DEF Iterate

LEMMA NextQInv == ASSUME QInv, [Next]_vars PROVE QInv'
<1>1. RInv' /\ RInv
  BY NextRInv DEF QInv
<1>2. CASE call' = NoCall
  BY <1>1, <1>2 DEF QInv, BeforeOK, OthersKept, SourceOK, TargetOK, ReadsInOrder
<1>3. CASE UNCHANGED vars
  BY <1>1, <1>3 DEF QInv, BeforeOK, OthersKept, SourceOK, TargetOK, ReadsInOrder, Reads, Writes,
                    Written, Given, Wanted, vars
<1>4. CASE Call
  BY <1>1, <1>2, <1>4, CallEnters, EnterQInv DEF ResetRing
<1>5. CASE Return
  BY <1>2, <1>5 DEF Return, IntoReturn, FromReturn, CopyReturn, Leave
<1> QED
  BY <1>3, <1>4, <1>5, IterateQInv DEF Next

\* What a call has read and written of its rings so far, in every iteration.
THEOREM FifoInvariance == Spec => []QInv
<1>1. Init => QInv
  BY InitRInv DEF Init, QInv, BeforeOK, OthersKept, SourceOK, TargetOK, ReadsInOrder
<1> QED
  BY <1>1, NextQInv, PTL DEF Spec

\* memcpy_from and write hand out the oldest bytes, in order.
THEOREM ReadOrderCorrect == Spec => []ReadsInOrder
<1>1. QInv => ReadsInOrder
  BY DEF QInv
<1> QED
  BY <1>1, FifoInvariance, PTL

-----------------------------------------------------------------------------
(* The refinement. *)

LEMMA FifoInit == Init => Fifo!Init
<1> SUFFICES ASSUME Init, NEW r \in Ring PROVE Contents(ring[r]) = <<>>
  BY DEF Init, Fifo!Init
<1>1. RInv
  BY InitRInv
<1>2. BytesUsed(ring[r]) = 0
  <2>1. PICK rb \in RingsOf(Cap[r] + 1, Byte) : rb = ring[r]
    BY <1>1, RingFacts
  <2>2. rb.head = 0 /\ rb.tail = 0 /\ rb.size = Cap[r] + 1 /\ Cap[r] \in Nat
    BY <1>1, <2>1, RingFacts DEF Init, RingsOf
  <2>3. BytesUsed(rb) = 0
    BY <2>2 DEF BytesUsed, BytesFree, CapacityOf
  <2> QED
    BY <2>1, <2>3
<1> QED
  BY <1>1, <1>2, RingFacts

\* What a call that is entered looks like to the queues.
LEMMA FifoBegin ==
  ASSUME RInv, NEW c, NEW overflow, NEW used, Entered(c, overflow, used)
  PROVE  [Fifo!Next]_<<IF call = NoCall THEN [r \in Ring |-> Contents(ring[r])] ELSE loop.before, call>>
<1> DEFINE held == [r \in Ring |-> Contents(ring[r])]
<1>1. /\ call = NoCall /\ call' = c /\ ring' = ring /\ loop'.before = held
  BY DEF Entered, Enter, NoLoop
<1>2. (IF call = NoCall THEN held ELSE loop.before)' = held
  BY <1>1
<1>3. /\ \A r \in Ring : held[r] \in Seq(Byte) /\ Len(held[r]) = BytesUsed(ring[r])
  BY RingFacts
<1>4. \/ c \in Fifo!IntoCall
      \/ \E r \in Ring : c \in [kind : {"from"}, src : {r}, count : 0..Len(held[r])]
      \/ \E d, s \in Ring : d # s /\ c \in [kind : {"copy"}, dst : {d}, src : {s}, count : 0..Len(held[s])]
  <2>1. CASE IntoEntered(c, overflow, used)
    BY <2>1 DEF IntoEntered, Fifo!IntoCall
  <2>2. CASE FromEntered(c, used)
    <3>1. c \in [kind : {"from"}, src : {c.src}, count : 0..Len(held[c.src])] /\ c.src \in Ring
      BY <1>3, <2>2, RingFacts DEF FromEntered
    <3> QED
      BY <3>1
  <2>3. CASE CopyEntered(c, overflow, used)
    <3>1. c \in [kind : {"copy"}, dst : {c.dst}, src : {c.src}, count : 0..Len(held[c.src])]
          /\ c.src \in Ring /\ c.dst \in Ring /\ c.dst # c.src
      BY <1>3, <2>3, RingFacts DEF CopyEntered
    <3> QED
      BY <3>1
  <2> QED
    BY <2>1, <2>2, <2>3 DEF Entered
<1>5. Fifo!Begin
  BY <1>1, <1>2, <1>4 DEF Fifo!Begin, Fifo!FromCall, Fifo!CopyCall
<1> QED
  BY <1>5 DEF Fifo!Next


\* A ring that was written holds the last bytes of what it held and was given.
LEMMA TargetReturns ==
  ASSUME QInv, call # NoCall, Writes, loop.done = Wanted,
         ring'[call.dst] = FixTail(ring[call.dst], loop.overflow)
  PROVE  Contents(ring'[call.dst]) = Fifo!LastOf(Written, Cap[call.dst])
<1>1. call.dst \in Ring /\ Wanted \in Nat /\ loop.overflow \in BOOLEAN
  BY DEF QInv, RInv, TypeOK, CallOK, LoopType, Writes, Wanted
<1>2. PICK size \in Nat \ {0} :
        size - 1 = Cap[call.dst] /\ \E rb \in RingsOf(size, Byte) : rb = ring[call.dst]
  <2>1. Cap[call.dst] + 1 \in Nat \ {0} /\ ring[call.dst] \in RingsOf(Cap[call.dst] + 1, Byte)
    BY <1>1, RingFacts DEF QInv
  <2>2. (Cap[call.dst] + 1) - 1 = Cap[call.dst]
    BY <1>1, Sizes
  <2> QED
    BY <2>1, <2>2, Zenon
<1>3. PICK rb \in RingsOf(size, Byte) : rb = ring[call.dst]
  BY <1>2
<1>4. PICK was \in Seq(Byte) : was = loop.before[call.dst]
  BY <1>1 DEF QInv, BeforeOK
<1>5. PICK g \in Seq(Byte) : g = Given(loop.done) /\ Len(g) = Wanted
  <2>1. PICK d \in Seq(Byte) :
          /\ d = IF call.kind = "into" THEN call.data ELSE loop.before[call.src]
          /\ Wanted <= Len(d)
    <3>1. CASE call.kind = "into"
      BY <3>1 DEF QInv, RInv, TypeOK, CallOK, Wanted
    <3>2. CASE call.kind # "into"
      <4>1. call.kind = "copy" /\ Reads /\ call.src \in Ring /\ Wanted = call.count
        BY <3>2 DEF QInv, RInv, TypeOK, CallOK, Wanted, Writes, Reads
      <4>2. loop.before[call.src] \in Seq(Byte) /\ call.count <= Len(loop.before[call.src])
        BY <4>1 DEF QInv, BeforeOK, SourceOK
      <4> QED
        BY <3>2, <4>1, <4>2, Zenon
    <3> QED
      BY <3>1, <3>2
  <2>2. PICK w \in Nat : w = Wanted
    BY <1>1
  <2>3. SubSeq(d, 1, w) \in Seq(Byte) /\ Len(SubSeq(d, 1, w)) = w
    BY <2>1, <2>2
  <2> QED
    BY <2>1, <2>2, <2>3, Zenon DEF Given
<1>6. PICK T \in Seq(Byte) : T = Written /\ Len(T) = Len(was) + Wanted
  <2>1. was \o g \in Seq(Byte) /\ Len(was \o g) = Len(was) + Len(g)
    OBVIOUS
  <2> QED
    BY <1>4, <1>5, <2>1, Zenon DEF Written
<1>7. /\ Trail(rb, T)
      /\ loop.overflow = (Len(T) > Cap[call.dst])
      /\ ~loop.overflow => BytesUsed(rb) = Len(T)
  BY <1>3, <1>4, <1>6, Zenon DEF QInv, TargetOK
<1>8. CASE loop.overflow
  <2>1. Len(T) > size - 1
    BY <1>2, <1>7, <1>8, Zenon
  <2>2. Len(T) >= size
    BY <2>1
  <2>3. Contents(FixTail(rb, TRUE)) = Fifo!LastOf(T, size - 1)
    BY <1>7, <2>2, ContentsFixed
  <2> QED
    BY <1>2, <1>3, <1>6, <1>8, <2>3, Zenon DEF FixTail
<1>9. CASE ~loop.overflow
  <2>1. ~(Len(T) > size - 1) /\ Len(T) = BytesUsed(rb) /\ FixTail(rb, loop.overflow) = rb
    BY <1>2, <1>7, <1>9, Zenon DEF FixTail
  <2>2. Fifo!LastOf(T, size - 1) = T
    BY <2>1 DEF Fifo!LastOf
  <2>3. Contents(rb) = T
    BY <1>7, <2>1, ContentsOfTrail
  <2> QED
    BY <1>2, <1>3, <1>6, <2>1, <2>2, <2>3, Zenon
<1> QED
  BY <1>8, <1>9

\* A call that returns has done to the contents what it does to a queue.
LEMMA FifoReturns == ASSUME QInv, Return PROVE Fifo!Return
<1> DEFINE held == [r \in Ring |-> Contents(ring[r])]
           was == loop.before
           now == [r \in Ring |-> Contents(ring'[r])]
<1>1. call # NoCall /\ call' = NoCall
  BY DEF Return, IntoReturn, FromReturn, CopyReturn, Leave
<1>2. /\ (IF call = NoCall THEN held ELSE loop.before) = was
      /\ (IF call = NoCall THEN held ELSE loop.before)' = now
  BY <1>1
<1>3. was \in [Ring -> Seq(Byte)] /\ DOMAIN ring = Ring
  BY <1>1 DEF QInv, BeforeOK, RInv, TypeOK
<1>4. CASE IntoReturn
  <2>1. /\ call.kind = "into" /\ loop.done = Len(call.data)
        /\ ring' = [ring EXCEPT ![call.dst] = FixTail(@, loop.overflow)]
    BY <1>4 DEF IntoReturn
  <2>2. call.dst \in Ring /\ call.data \in Seq(Byte)
    BY <1>1, <2>1 DEF QInv, RInv, TypeOK, CallOK
  <2>3. ring'[call.dst] = FixTail(ring[call.dst], loop.overflow)
        /\ \A r \in Ring : r # call.dst => ring'[r] = ring[r]
    BY <1>3, <2>1, <2>2
  <2>4. Contents(ring'[call.dst]) = Fifo!LastOf(Written, Cap[call.dst])
    BY <1>1, <2>1, <2>3, TargetReturns DEF Writes, Wanted
  <2>5. Written = was[call.dst] \o call.data
    <3>1. SubSeq(call.data, 1, Len(call.data)) = call.data
      BY <2>2
    <3> QED
      BY <2>1, <3>1, Zenon DEF Written, Given
  <2>6. \A r \in Ring : r # call.dst => now[r] = was[r]
    BY <1>1, <2>1, <2>3 DEF QInv, OthersKept, Reads, Writes
  <2>7. now = [was EXCEPT ![call.dst] = Fifo!LastOf(was[call.dst] \o call.data, Cap[call.dst])]
    <3> DEFINE last == Fifo!LastOf(was[call.dst] \o call.data, Cap[call.dst])
    <3>1. now[call.dst] = last
      BY <2>2, <2>4, <2>5
    <3> HIDE DEF last
    <3>2. DOMAIN now = Ring /\ now = [r \in Ring |-> now[r]]
      OBVIOUS
    <3> HIDE DEF now, was
    <3>3. now = [was EXCEPT ![call.dst] = last]
      BY <1>3, <2>2, <2>6, <3>1, <3>2
    <3> QED
      BY <3>3 DEF last
  <2> HIDE DEF now, was
  <2>8. Fifo!Into
    BY <1>2, <2>1, <2>7 DEF Fifo!Into
  <2> QED
    BY <1>1, <2>8 DEF Fifo!Return
<1>5. CASE FromReturn
  <2>1. call.kind = "from" /\ loop.done = call.count /\ ring' = ring
    BY <1>5 DEF FromReturn
  <2>2. call.src \in Ring /\ Reads
    BY <1>1, <2>1 DEF QInv, RInv, TypeOK, CallOK, Reads
  <2>3. now[call.src] = Fifo!But(was[call.src], call.count)
    BY <1>1, <2>1, <2>2 DEF QInv, SourceOK, Fifo!But
  <2>4. \A r \in Ring : r # call.src => now[r] = was[r]
    BY <1>1, <2>1 DEF QInv, OthersKept, Reads, Writes
  <2>5. now = [was EXCEPT ![call.src] = Fifo!But(was[call.src], call.count)]
    <3>1. DOMAIN now = Ring /\ now = [r \in Ring |-> now[r]]
      OBVIOUS
    <3> HIDE DEF now, was
    <3> QED
      BY <1>3, <2>2, <2>3, <2>4, <3>1
  <2> HIDE DEF now, was
  <2>6. Fifo!From
    BY <1>2, <2>1, <2>5 DEF Fifo!From
  <2> QED
    BY <1>1, <2>6 DEF Fifo!Return
<1>6. CASE CopyReturn
  <2>1. /\ call.kind = "copy" /\ loop.done = call.count
        /\ ring' = [ring EXCEPT ![call.dst] = FixTail(@, loop.overflow)]
    BY <1>6 DEF CopyReturn
  <2>2. call.dst \in Ring /\ call.src \in Ring /\ call.dst # call.src /\ Reads
    BY <1>1, <2>1 DEF QInv, RInv, TypeOK, CallOK, Reads
  <2>3. ring'[call.dst] = FixTail(ring[call.dst], loop.overflow)
        /\ \A r \in Ring : r # call.dst => ring'[r] = ring[r]
    BY <1>3, <2>1, <2>2
  <2>4. Contents(ring'[call.dst]) = Fifo!LastOf(Written, Cap[call.dst])
    BY <1>1, <2>1, <2>3, TargetReturns DEF Writes, Wanted
  <2>5. Written = was[call.dst] \o SubSeq(was[call.src], 1, call.count)
    BY <2>1, Zenon DEF Written, Given
  <2>6. now[call.src] = Fifo!But(was[call.src], call.count)
    BY <1>1, <2>1, <2>2, <2>3 DEF QInv, SourceOK, Fifo!But
  <2>7. \A r \in Ring : r # call.dst /\ r # call.src => now[r] = was[r]
    BY <1>1, <2>1, <2>3 DEF QInv, OthersKept, Reads, Writes
  <2>8. now[call.dst] = Fifo!LastOf(was[call.dst] \o SubSeq(was[call.src], 1, call.count), Cap[call.dst])
    BY <2>2, <2>4, <2>5
  <2>9. now = [was EXCEPT
         ![call.dst] = Fifo!LastOf(was[call.dst] \o SubSeq(was[call.src], 1, call.count), Cap[call.dst]),
         ![call.src] = Fifo!But(was[call.src], call.count)]
    <3> DEFINE last == Fifo!LastOf(was[call.dst] \o SubSeq(was[call.src], 1, call.count), Cap[call.dst])
               but == Fifo!But(was[call.src], call.count)
    <3>1. DOMAIN now = Ring /\ now = [r \in Ring |-> now[r]] /\ now[call.dst] = last /\ now[call.src] = but
      BY <2>6, <2>8
    <3> HIDE DEF now, was, last, but
    <3>2. now = [was EXCEPT ![call.dst] = last, ![call.src] = but]
      BY <1>3, <2>2, <2>7, <3>1
    <3> QED
      BY <3>2 DEF last, but
  <2> HIDE DEF now, was
  <2>10. Fifo!Copy
    BY <1>2, <2>1, <2>2, <2>9 DEF Fifo!Copy
  <2> QED
    BY <1>1, <2>10 DEF Fifo!Return
<1> QED
  BY <1>4, <1>5, <1>6 DEF Return

LEMMA FifoStep ==
  ASSUME QInv, [Next]_vars
  PROVE  [Fifo!Next]_<<IF call = NoCall THEN [r \in Ring |-> Contents(ring[r])] ELSE loop.before, call>>
<1>1. CASE \E r \in Ring : ResetRing(r)
  <2>1. PICK r \in Ring : ResetRing(r)
    BY <1>1
  <2>2. call = NoCall /\ call' = call /\ ring' = [ring EXCEPT ![r] = Reset(@)]
    BY <2>1 DEF ResetRing
  <2>3. /\ ring'[r] = Reset(ring[r]) /\ \A q \in Ring : q # r => ring'[q] = ring[q]
        /\ ring[r] \in RingsOf(Cap[r] + 1, Byte) /\ Cap[r] + 1 \in Nat \ {0} /\ Cap[r] \in Nat
    BY <2>2, RingFacts DEF QInv, RInv, TypeOK
  <2>4. Contents(ring'[r]) = <<>>
    <3>1. PICK rb : rb = Reset(ring[r])
      OBVIOUS
    <3>2. rb.head = 0 /\ rb.tail = 0 /\ rb.size = Cap[r] + 1
      BY <2>3, <3>1 DEF Reset, RingsOf
    <3>3. BytesUsed(rb) = 0
      BY <2>3, <3>2 DEF BytesUsed, BytesFree, CapacityOf
    <3>4. rb \in RingsOf(Cap[r] + 1, Byte)
      BY <2>3, <3>1, EmptiedRing
    <3>5. Contents(rb) \in Seq(Byte) /\ Len(Contents(rb)) = 0
      BY <2>3, <3>3, <3>4, ContentsAt
    <3> QED
      BY <2>3, <3>1, <3>5
  <2>5. [q \in Ring |-> Contents(ring'[q])] = [[q \in Ring |-> Contents(ring[q])] EXCEPT ![r] = <<>>]
    BY <2>3, <2>4
  <2>6. Fifo!Reset(r)
    BY <2>2, <2>5 DEF Fifo!Reset
  <2> QED
    BY <2>6 DEF Fifo!Next
<1>2. CASE \E c, overflow, used : Entered(c, overflow, used)
  BY <1>2, FifoBegin DEF QInv
<1>3. CASE Iterate
  <2>1. call # NoCall /\ call' = call /\ loop \in LoopType
        /\ \E n, s : loop' = [loop EXCEPT !.done = @ + n] \/ loop' = [loop EXCEPT !.done = @ + n, !.out = @ \o s]
    BY <1>3 DEF Iterate, IntoLoop, FromLoop, CopyLoop, QInv, RInv, TypeOK
  <2>2. loop'.before = loop.before
    BY <2>1, Zenon DEF LoopType
  <2> QED
    BY <2>1, <2>2
<1>4. CASE Return
  BY <1>4, FifoReturns DEF Fifo!Next
<1>5. CASE UNCHANGED vars
  BY <1>5 DEF vars
<1> QED
  BY <1>1, <1>2, <1>3, <1>4, <1>5, CallEnters DEF Next, QInv

\* The rings are the queues ringbuf.h promises, whatever their sizes, and
\* however a call's bytes fall on the end of the buffer.
THEOREM FifoImplemented == Spec => ImplementsFifo
<1>1. Init => Fifo!Init
  BY FifoInit
<1>2. QInv /\ [Next]_vars =>
        [Fifo!Next]_<<IF call = NoCall THEN [r \in Ring |-> Contents(ring[r])] ELSE loop.before, call>>
  BY FifoStep
<1> QED
  BY <1>1, <1>2, FifoInvariance, PTL DEF Spec, ImplementsFifo, Fifo!Spec

-----------------------------------------------------------------------------
(* findchr. *)

\* A set of numbers that is not empty has a least one.
LEMMA Least ==
  ASSUME NEW T \in SUBSET Nat, T # {}
  PROVE  \E x \in T : \A y \in T : x <= y
<1>1. PICK x \in T : \A y \in T : ~(<<y, x>> \in OpToRel(<, Nat))
  BY NatLessThanWellFounded, WFMin, Zenon
<1>2. \A y \in T : ~(y < x)
  BY <1>1 DEF OpToRel
<1> QED
  BY <1>2

\* Induction over the numbers, as a fact about sets of them.
LEMMA UpTo ==
  ASSUME NEW S \in SUBSET Nat, 0 \in S, \A n \in S : n + 1 \in S
  PROVE  S = Nat
<1> SUFFICES ASSUME S # Nat PROVE FALSE
  OBVIOUS
<1>1. PICK x \in Nat \ S : \A y \in Nat \ S : x <= y
  <2>1. Nat \ S \in SUBSET Nat /\ Nat \ S # {}
    OBVIOUS
  <2> QED
    BY <2>1, Least, Zenon
<1>2. x - 1 \in Nat /\ ~(x <= x - 1) /\ (x - 1) + 1 = x
  BY <1>1
<1> QED
  BY <1>1, <1>2

\* What findchr looks for: p is the first c of s at or after o, or the length.
IsFirst(s, c, o, p) ==
  /\ p \in o..Len(s)
  /\ p < Len(s) => s[p + 1] = c
  /\ \A i \in o..(p - 1) : s[i + 1] # c

\* One round of findchr's search, and any function that satisfies the recursion.
SpanFrom(rb, o) == Min2(RoomAt(rb, (rb.tail + o) % rb.size), BytesUsed(rb) - o)
HitsFrom(rb, c, o) ==
  {i \in 0..(SpanFrom(rb, o) - 1) : rb.buf[((rb.tail + o) % rb.size) + i] = c}
Round(rb, c, f, o) ==
  IF o >= BytesUsed(rb) THEN BytesUsed(rb)
  ELSE IF HitsFrom(rb, c, o) # {}
       THEN o + CHOOSE i \in HitsFrom(rb, c, o) : \A j \in HitsFrom(rb, c, o) : i <= j
       ELSE f[o + SpanFrom(rb, o)]
Search(rb, c, f) == [o \in 0..BytesUsed(rb) |-> Round(rb, c, f, o)]

LEMMA FindSearches ==
  ASSUME NEW rb, NEW c, NEW offset, ~(offset >= BytesUsed(rb)), NEW g, g = Search(rb, c, g)
  PROVE  \E f : f = Search(rb, c, f) /\ FindChr(rb, c, offset) = f[offset]
<1> DEFINE f == CHOOSE f : f = Search(rb, c, f)
<1>1. f = Search(rb, c, f)
  BY Zenon
<1>2. FindChr(rb, c, offset) = f[offset]
  BY Zenon DEF FindChr, Search, Round, HitsFrom, SpanFrom
<1> QED
  BY <1>1, <1>2, Zenon

LEMMA FirstUnique ==
  ASSUME NEW s \in Seq(Byte), NEW c, NEW o \in Nat, NEW p, NEW q,
         IsFirst(s, c, o, p), IsFirst(s, c, o, q)
  PROVE  p = q
BY DEF IsFirst

LEMMA FirstExists ==
  ASSUME NEW s \in Seq(Byte), NEW c, NEW o \in 0..Len(s)
  PROVE  \E p : IsFirst(s, c, o, p)
<1> DEFINE H == {i \in o..(Len(s) - 1) : s[i + 1] = c}
<1>1. CASE H = {}
  <2>1. Len(s) \in o..Len(s) /\ ~(Len(s) < Len(s))
    OBVIOUS
  <2>2. \A i \in o..(Len(s) - 1) : s[i + 1] # c
    BY <1>1, Zenon
  <2>3. IsFirst(s, c, o, Len(s))
    BY <2>1, <2>2, Zenon DEF IsFirst
  <2> QED
    BY <2>3
<1>2. CASE H # {}
  <2>1. H \in SUBSET Nat
    OBVIOUS
  <2>2. PICK p \in H : \A i \in H : p <= i
    BY <1>2, <2>1, Least, Zenon
  <2>3. IsFirst(s, c, o, p)
    BY <2>2 DEF IsFirst
  <2> QED
    BY <2>3
<1> QED
  BY <1>1, <1>2

\* A span is not empty, ends within the contents and holds them.
LEMMA SpanHolds ==
  ASSUME NEW size \in Nat \ {0}, NEW rb \in RingsOf(size, Byte), NEW o \in Nat, o < BytesUsed(rb)
  PROVE  /\ SpanFrom(rb, o) \in 1..(BytesUsed(rb) - o)
         /\ \A i \in 0..(SpanFrom(rb, o) - 1) :
              Contents(rb)[o + i + 1] = rb.buf[((rb.tail + o) % rb.size) + i]
<1>1. PICK used \in Nat : used = BytesUsed(rb) /\ used < size
  BY Counts
<1>2. PICK t \in Nat : t = rb.tail /\ t < size /\ rb.size = size
  BY DEF RingsOf
<1>3. PICK a \in Nat : a = t + o /\ a < 2 * size
  BY <1>1, <1>2
<1>4. PICK st \in Nat : st = a % size /\ st = (IF a < size THEN a ELSE a - size) /\ st < size
  <2>1. PICK x \in Nat : x = (IF a < size THEN a ELSE a - size) /\ x < size
    BY <1>3
  <2>2. a % size = IF a < size THEN a ELSE a - size
    BY <1>3, SmallMod
  <2> QED
    BY <2>1, <2>2, Zenon
<1>5. (rb.tail + o) % rb.size = st
  BY <1>2, <1>3, <1>4, Zenon
<1>6. SpanFrom(rb, o) = Min2(size - st, used - o)
  BY <1>1, <1>2, <1>5, Zenon DEF SpanFrom, RoomAt
<1>7. PICK sp : sp = SpanFrom(rb, o) /\ sp = Min2(size - st, used - o)
  BY <1>6, Zenon
<1>8. sp \in 1..(used - o) /\ sp <= size - st
  BY <1>1, <1>4, <1>7 DEF Min2
<1>9. ASSUME NEW i \in 0..(sp - 1)
      PROVE  Contents(rb)[o + i + 1] = rb.buf[st + i]
  <2>1. o + i + 1 \in 1..used /\ o + i \in Nat
    BY <1>8
  <2>2. Contents(rb)[o + i + 1] = rb.buf[(rb.tail + (o + i + 1) - 1) % rb.size]
    BY <1>1, <2>1, Zenon DEF Contents
  <2>3. PICK b \in Nat : b = a + i /\ b < 2 * size /\ t + (o + i + 1) - 1 = b
    BY <1>1, <1>2, <1>3, <1>8
  <2>4. b % size = IF b < size THEN b ELSE b - size
    BY <2>3, SmallMod
  <2>5. b % size = st + i
    BY <1>3, <1>4, <1>8, <2>3, <2>4
  <2> QED
    BY <1>2, <2>2, <2>3, <2>5, Zenon
<1> QED
  BY <1>1, <1>5, <1>7, <1>8, <1>9, Zenon

\* One round is right when the searches behind it are.
LEMMA RoundFinds ==
  ASSUME NEW size \in Nat \ {0}, NEW rb \in RingsOf(size, Byte), NEW c, NEW f,
         NEW o \in 0..BytesUsed(rb),
         \A q \in (o + 1)..BytesUsed(rb) : IsFirst(Contents(rb), c, q, f[q])
  PROVE  IsFirst(Contents(rb), c, o, Round(rb, c, f, o))
<1>1. PICK s \in Seq(Byte), used \in Nat : s = Contents(rb) /\ used = BytesUsed(rb) /\ Len(s) = used
  BY Counts, ContentsAt
<1>2. o \in Nat /\ o <= used
  BY <1>1
<1>3. CASE o = used
  <2>1. Round(rb, c, f, o) = used
    BY <1>1, <1>2, <1>3 DEF Round
  <2>2. IsFirst(s, c, o, used)
    BY <1>1, <1>3 DEF IsFirst
  <2> QED
    BY <1>1, <2>1, <2>2, Zenon
<1>4. CASE o # used
  <2>1. o < used /\ ~(o >= used)
    BY <1>2, <1>4
  <2>2. PICK sp \in Nat : sp = SpanFrom(rb, o) /\ sp \in 1..(used - o)
    BY <1>1, <2>1, SpanHolds
  <2>3. \A i \in 0..(sp - 1) : s[o + i + 1] = rb.buf[((rb.tail + o) % rb.size) + i]
    BY <1>1, <1>2, <2>1, <2>2, SpanHolds, Zenon
  <2>4. PICK H : H = HitsFrom(rb, c, o)
    OBVIOUS
  <2>5. H = {i \in 0..(sp - 1) : s[o + i + 1] = c}
    BY <2>2, <2>3, <2>4, Zenon DEF HitsFrom
  <2>6. CASE H # {}
    <3>1. H \in SUBSET Nat
      BY <2>5
    <3>2. \E i \in H : \A j \in H : i <= j
      BY <2>6, <3>1, Least, Zenon
    <3>3. PICK i : i = (CHOOSE k \in H : \A j \in H : k <= j)
      OBVIOUS
    <3>4. i \in H /\ \A j \in H : i <= j
      BY <3>2, <3>3, Zenon
    <3>5. Round(rb, c, f, o) = o + i
      BY <1>1, <2>1, <2>4, <2>6, <3>3, Zenon DEF Round
    <3>6. IsFirst(s, c, o, o + i)
      <4>1. i \in 0..(sp - 1) /\ s[(o + i) + 1] = c
        BY <2>5, <3>4
      <4>2. o + i \in o..Len(s)
        BY <1>1, <1>2, <2>2, <4>1
      <4>3. ASSUME NEW k \in o..((o + i) - 1)
            PROVE  s[k + 1] # c
        <5>1. k - o \in 0..(sp - 1) /\ ~(i <= k - o) /\ o + (k - o) + 1 = k + 1
          BY <1>2, <2>2, <4>1
        <5>2. k - o \notin H
          BY <3>4, <5>1
        <5> QED
          BY <2>5, <5>1, <5>2, Zenon
      <4> QED
        BY <4>1, <4>2, <4>3, Zenon DEF IsFirst
    <3> QED
      BY <1>1, <3>5, <3>6, Zenon
  <2>7. CASE H = {}
    <3>1. Round(rb, c, f, o) = f[o + sp]
      BY <1>1, <2>1, <2>2, <2>4, <2>7, Zenon DEF Round
    <3>2. o + sp \in (o + 1)..used
      BY <1>2, <2>2
    <3>3. PICK p : p = f[o + sp] /\ IsFirst(s, c, o + sp, p)
      BY <1>1, <3>2, Zenon
    <3>4. p \in (o + sp)..used /\ (p < used => s[p + 1] = c)
          /\ \A k \in (o + sp)..(p - 1) : s[k + 1] # c
      BY <1>1, <3>3, Zenon DEF IsFirst
    <3>5. p \in o..used
      BY <1>2, <2>2, <3>4
    <3>6. ASSUME NEW k \in o..(p - 1)
          PROVE  s[k + 1] # c
      <4>1. CASE k >= o + sp
        <5>1. k \in (o + sp)..(p - 1)
          BY <1>2, <2>2, <3>5, <4>1
        <5> QED
          BY <3>4, <5>1, Zenon
      <4>2. CASE ~(k >= o + sp)
        <5>1. k - o \in 0..(sp - 1) /\ o + (k - o) + 1 = k + 1
          BY <1>2, <2>2, <3>5, <4>2
        <5> QED
          BY <2>5, <2>7, <5>1, Zenon
      <4> QED
        BY <4>1, <4>2, Zenon
    <3> QED
      BY <1>1, <3>1, <3>3, <3>4, <3>5, <3>6, Zenon DEF IsFirst
  <2> QED
    BY <2>6, <2>7, Zenon
<1> QED
  BY <1>3, <1>4, Zenon

\* There is a function that satisfies the recursion, and all of them find.
LEMMA SearchExists ==
  ASSUME NEW size \in Nat \ {0}, NEW rb \in RingsOf(size, Byte), NEW c
  PROVE  \E g : g = Search(rb, c, g)
<1>1. PICK s \in Seq(Byte), used \in Nat : s = Contents(rb) /\ used = BytesUsed(rb) /\ Len(s) = used
  BY Counts, ContentsAt
<1>2. PICK g : g = [o \in 0..used |-> CHOOSE p : IsFirst(s, c, o, p)]
  OBVIOUS
<1>3. \A o \in 0..used : IsFirst(s, c, o, g[o])
  <2>1. \A o \in 0..used : \E p : IsFirst(s, c, o, p)
    BY <1>1, FirstExists
  <2> QED
    BY <1>2, <2>1, Zenon
<1>4. ASSUME NEW o \in 0..used
      PROVE  g[o] = Round(rb, c, g, o)
  <2>1. \A q \in (o + 1)..used : q \in 0..used
    BY <1>1
  <2>2. \A q \in (o + 1)..used : IsFirst(s, c, q, g[q])
    BY <1>3, <2>1, Zenon
  <2>3. IsFirst(s, c, o, Round(rb, c, g, o))
    BY <1>1, <2>2, RoundFinds, Zenon
  <2>4. o \in Nat
    OBVIOUS
  <2> QED
    BY <1>3, <2>3, <2>4, FirstUnique, Zenon
<1>5. g = [o \in 0..used |-> Round(rb, c, g, o)]
  BY <1>2, <1>4, Zenon
<1> QED
  BY <1>1, <1>5, Zenon DEF Search

LEMMA SearchFinds ==
  ASSUME NEW size \in Nat \ {0}, NEW rb \in RingsOf(size, Byte), NEW c, NEW f, f = Search(rb, c, f),
         NEW offset \in 0..BytesUsed(rb)
  PROVE  IsFirst(Contents(rb), c, offset, f[offset])
<1>1. PICK s \in Seq(Byte), used \in Nat : s = Contents(rb) /\ used = BytesUsed(rb) /\ Len(s) = used
  BY Counts, ContentsAt
<1> DEFINE Right(o) == IsFirst(s, c, o, f[o])
           S == {k \in Nat : \A o \in 0..used : used - o <= k => Right(o)}
<1>2. \A o \in 0..used : (\A q \in (o + 1)..used : Right(q)) => Right(o)
  <2> TAKE o \in 0..used
  <2>1. HAVE \A q \in (o + 1)..used : Right(q)
  <2>2. f[o] = Round(rb, c, f, o)
    BY <1>1, Zenon DEF Search
  <2>3. IsFirst(s, c, o, Round(rb, c, f, o))
    BY <1>1, <2>1, RoundFinds, Zenon
  <2> QED
    BY <2>2, <2>3, Zenon
<1> HIDE DEF Right
<1>3. 0 \in S
  <2>1. ASSUME NEW o \in 0..used, used - o <= 0
        PROVE  \A q \in (o + 1)..used : Right(q)
    BY <2>1
  <2> QED
    BY <1>2, <2>1
<1>4. ASSUME NEW k \in S PROVE k + 1 \in S
  <2>1. ASSUME NEW o \in 0..used, used - o <= k + 1
        PROVE  Right(o)
    <3>1. \A q \in (o + 1)..used : q \in 0..used /\ used - q <= k
      BY <2>1
    <3>2. \A q \in (o + 1)..used : Right(q)
      BY <3>1
    <3> QED
      BY <1>2, <3>2
  <2> QED
    BY <2>1
<1>5. S = Nat
  <2> HIDE DEF S
  <2>1. S \in SUBSET Nat
    BY DEF S
  <2> QED
    BY <1>3, <1>4, <2>1, UpTo
<1>6. used - offset \in S /\ offset \in 0..used /\ used - offset <= used - offset
  <2> HIDE DEF S
  <2> QED
    BY <1>1, <1>5
<1>7. Right(offset)
  BY <1>6
<1> QED
  BY <1>1, <1>7 DEF Right

\* findchr on one ring, whatever its size, its offset and what it holds.
LEMMA FindChrFirst ==
  ASSUME NEW size \in Nat \ {0}, NEW rb \in RingsOf(size, Byte), NEW c, NEW offset \in Nat
  PROVE  IF offset >= BytesUsed(rb) THEN FindChr(rb, c, offset) = BytesUsed(rb)
                                    ELSE IsFirst(Contents(rb), c, offset, FindChr(rb, c, offset))
<1>1. CASE offset >= BytesUsed(rb)
  BY <1>1, Zenon DEF FindChr
<1>2. CASE ~(offset >= BytesUsed(rb))
  <2>1. PICK g : g = Search(rb, c, g)
    BY SearchExists
  <2>2. PICK f : f = Search(rb, c, f) /\ FindChr(rb, c, offset) = f[offset]
    BY <1>2, <2>1, FindSearches, Zenon
  <2>3. offset \in 0..BytesUsed(rb)
    BY <1>2, Counts
  <2>4. IsFirst(Contents(rb), c, offset, f[offset])
    BY <2>2, <2>3, SearchFinds, Zenon
  <2> QED
    BY <1>2, <2>2, <2>4, Zenon
<1> QED
  BY <1>1, <1>2, Zenon

\* findchr finds the first such byte, wherever the contents wrap, or says how
\* many bytes there are.
THEOREM FindChrCorrect == Spec => []FindChrFinds
<1>1. RInv => FindChrFinds
  <2> SUFFICES ASSUME RInv, NEW r \in Ring, NEW c \in Byte, NEW offset \in 0..MaxCount,
                      NEW hits, hits = {i \in offset..(Len(Contents(ring[r])) - 1) :
                                          Contents(ring[r])[i + 1] = c}
               PROVE  IF hits = {}
                      THEN FindChr(ring[r], c, offset) = Len(Contents(ring[r]))
                      ELSE /\ FindChr(ring[r], c, offset) \in hits
                           /\ \A i \in hits : FindChr(ring[r], c, offset) <= i
    BY ZenonT(30) DEF FindChrFinds
  <2>1. PICK size \in Nat \ {0} : \E rb \in RingsOf(size, Byte) : rb = ring[r]
    BY RingFacts, Zenon
  <2>2. PICK rb \in RingsOf(size, Byte) : rb = ring[r]
    BY <2>1
  <2>3. PICK s \in Seq(Byte), used \in Nat : s = Contents(rb) /\ used = BytesUsed(rb) /\ Len(s) = used
    BY Counts, ContentsAt
  <2>4. offset \in Nat
    BY RingAssumption
  <2>5. PICK p : p = FindChr(rb, c, offset)
    OBVIOUS
  <2>6. hits = {i \in offset..(used - 1) : s[i + 1] = c}
    BY <2>2, <2>3, Zenon
  <2>7. CASE offset >= used
    <3>1. p = used
      BY <2>3, <2>4, <2>5, <2>7, FindChrFirst, Zenon
    <3>2. hits = {}
      BY <2>4, <2>6, <2>7
    <3> QED
      BY <2>2, <2>3, <2>5, <3>1, <3>2, Zenon
  <2>8. CASE ~(offset >= used)
    <3>1. IsFirst(s, c, offset, p)
      BY <2>3, <2>4, <2>5, <2>8, FindChrFirst, Zenon
    <3>2. p \in offset..used /\ (p < used => s[p + 1] = c) /\ \A i \in offset..(p - 1) : s[i + 1] # c
      BY <2>3, <3>1, Zenon DEF IsFirst
    <3>3. IF hits = {} THEN p = used ELSE p \in hits /\ \A i \in hits : p <= i
      <4>1. CASE p = used
        <5>1. \A i \in offset..(used - 1) : s[i + 1] # c
          BY <3>2, <4>1, Zenon
        <5>2. hits = {}
          BY <2>6, <5>1, Zenon
        <5> QED
          BY <4>1, <5>2, Zenon
      <4>2. CASE p # used
        <5>1. p < used /\ p \in offset..(used - 1)
          BY <2>4, <3>2, <4>2
        <5>2. p \in hits
          BY <2>6, <3>2, <5>1, Zenon
        <5>3. ASSUME NEW i \in hits PROVE p <= i
          <6>1. i \in offset..(used - 1) /\ s[i + 1] = c
            BY <2>6
          <6>2. i \notin offset..(p - 1)
            BY <3>2, <6>1, Zenon
          <6> QED
            BY <2>4, <5>1, <6>1, <6>2
        <5> QED
          BY <5>2, <5>3, Zenon
      <4> QED
        BY <4>1, <4>2, Zenon
    <3> QED
      BY <2>2, <2>3, <2>5, <3>3, Zenon
  <2> QED
    BY <2>7, <2>8, Zenon
<1> QED
  BY <1>1, RingInvariance, PTL
=============================================================================
