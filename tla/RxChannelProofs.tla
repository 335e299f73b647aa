--------------------------- MODULE RxChannelProofs ---------------------------
(* What is proved of RxChannel, for rings of every size, any number of     *)
(* messages and every manner of client.                                    *)
EXTENDS RxChannel, SequenceTheorems, WellFoundedInduction, TLAPS

-----------------------------------------------------------------------------
(* FlattenSeq, one sequence at a time. *)

\* Induction over the numbers, as a fact about sets of them.
LEMMA UpTo ==
  ASSUME NEW S \in SUBSET Nat, 0 \in S, \A n \in S : n + 1 \in S
  PROVE  S = Nat
<1> SUFFICES ASSUME S # Nat PROVE FALSE
  OBVIOUS
<1>1. Nat \ S \in SUBSET Nat /\ Nat \ S # {}
  OBVIOUS
<1>2. PICK x \in Nat \ S : \A y \in Nat \ S : ~(<<y, x>> \in OpToRel(<, Nat))
  BY <1>1, NatLessThanWellFounded, WFMin, Zenon
<1>3. \A y \in Nat \ S : ~(y < x)
  BY <1>2 DEF OpToRel
<1>4. x \in Nat /\ x # 0
  OBVIOUS
<1>5. x - 1 \in Nat /\ x - 1 < x /\ (x - 1) + 1 = x
  BY <1>4
<1> QED
  BY <1>2, <1>3, <1>5

\* The function FlattenSeq takes the last value of, and any that satisfies
\* its recursion over the first n sequences.
Joined(ss, n, f) == [i \in 1..n |-> IF i = 1 THEN ss[i] ELSE f[i - 1] \o ss[i]]
Joins(f, ss, n) == f = Joined(ss, n, f)
Alike(s, t, n) == \A i \in 1..n : s[i] = t[i]

LEMMA JoinedExists ==
  ASSUME NEW ss, NEW n \in Nat
  PROVE  \E f : f = Joined(ss, n, f)
<1> DEFINE Ns == {k \in Nat : \E f : f = Joined(ss, k, f)}
<1>1. 0 \in Ns
  <2>1. [i \in 1..0 |-> 0] = Joined(ss, 0, [i \in 1..0 |-> 0])
    BY DEF Joined
  <2> QED
    BY <2>1, Zenon
<1>2. ASSUME NEW k \in Ns PROVE k + 1 \in Ns
  <2>1. k \in Nat
    OBVIOUS
  <2>2. PICK f : f = Joined(ss, k, f)
    OBVIOUS
  <2> DEFINE g == [i \in 1..(k + 1) |->
                     IF i = 1 THEN ss[i]
                     ELSE IF i = k + 1 THEN f[k] \o ss[i] ELSE f[i]]
  <2>3. \A i \in 1..k : f[i] = IF i = 1 THEN ss[i] ELSE f[i - 1] \o ss[i]
    BY <2>2, Zenon DEF Joined
  <2>4. \A i \in 1..k : g[i] = f[i]
    <3>1. \A i \in 1..k : i \in 1..(k + 1) /\ i # k + 1
      BY <2>1
    <3>2. \A i \in 1..k : i = 1 => f[i] = ss[i]
      BY <2>3, Zenon
    <3> QED
      BY <3>1, <3>2
  <2>5. \A i \in 1..(k + 1) : i # 1 => g[i - 1] = f[i - 1] /\ i - 1 \in 1..k
    <3>1. \A i \in 1..(k + 1) : i # 1 => i - 1 \in 1..k
      BY <2>1
    <3> HIDE DEF g
    <3> QED
      BY <2>4, <3>1
  <2>6. \A i \in 1..(k + 1) : g[i] = IF i = 1 THEN ss[i] ELSE g[i - 1] \o ss[i]
    <3> TAKE i \in 1..(k + 1)
    <3>1. CASE i = 1
      BY <3>1
    <3>2. CASE i # 1 /\ i = k + 1
      <4>1. i - 1 = k
        BY <2>1, <3>2
      <4> QED
        BY <2>5, <3>2, <4>1, Zenon
    <3>3. CASE i # 1 /\ i # k + 1
      <4>1. i \in 1..k
        BY <2>1, <3>3
      <4> QED
        BY <2>3, <2>4, <2>5, <3>3, <4>1, Zenon
    <3> QED
      BY <3>1, <3>2, <3>3
  <2>7. g = Joined(ss, k + 1, g)
    <3>1. g = [i \in 1..(k + 1) |-> g[i]]
      OBVIOUS
    <3> HIDE DEF g
    <3> QED
      BY <2>6, <3>1, Zenon DEF Joined
  <2> QED
    BY <2>1, <2>7
<1>3. Ns = Nat
  <2> HIDE DEF Ns
  <2>1. Ns \in SUBSET Nat
    BY DEF Ns
  <2> QED
    BY <1>1, <1>2, <2>1, UpTo, Zenon
<1> QED
  BY <1>3, Zenon

\* Two of them agree on the sequences they have in common.
LEMMA JoinedAgree ==
  ASSUME NEW ss, NEW tt, NEW m \in Nat, NEW n \in Nat, NEW f, NEW g,
         Joins(f, ss, m), Joins(g, tt, n), m <= n, Alike(ss, tt, m)
  PROVE  Alike(f, g, m)
<1> DEFINE Ns == {k \in Nat : k \in 1..m => f[k] = g[k]}
<1>1. 0 \in Ns
  OBVIOUS
<1>2. \A i \in 1..m : /\ f[i] = IF i = 1 THEN ss[i] ELSE f[i - 1] \o ss[i]
                      /\ g[i] = IF i = 1 THEN ss[i] ELSE g[i - 1] \o ss[i]
  <2>1. \A i \in 1..m : f[i] = IF i = 1 THEN ss[i] ELSE f[i - 1] \o ss[i]
    BY Zenon DEF Joins, Joined
  <2>2. \A i \in 1..n : g[i] = IF i = 1 THEN tt[i] ELSE g[i - 1] \o tt[i]
    BY Zenon DEF Joins, Joined
  <2>3. \A i \in 1..m : i \in 1..n
    OBVIOUS
  <2> QED
    BY <2>1, <2>2, <2>3, Zenon DEF Alike
<1>3. ASSUME NEW k \in Ns PROVE k + 1 \in Ns
  <2>1. k \in Nat
    OBVIOUS
  <2> SUFFICES ASSUME k + 1 \in 1..m PROVE f[k + 1] = g[k + 1]
    BY <2>1
  <2>2. CASE k = 0
    <3>1. f[1] = ss[1] /\ g[1] = ss[1]
      BY <1>2, <2>2
    <3> QED
      BY <2>2, <3>1
  <2>3. CASE k # 0
    <3>1. k \in 1..m /\ k + 1 # 1 /\ (k + 1) - 1 = k
      BY <2>1, <2>3
    <3>2. f[k] = g[k]
      BY <3>1
    <3>3. f[k + 1] = f[k] \o ss[k + 1] /\ g[k + 1] = g[k] \o ss[k + 1]
      BY <1>2, <3>1, Zenon
    <3> QED
      BY <3>2, <3>3, Zenon
  <2> QED
    BY <2>2, <2>3
<1>4. Ns = Nat
  <2> HIDE DEF Ns
  <2>1. Ns \in SUBSET Nat
    BY DEF Ns
  <2> QED
    BY <1>1, <1>3, <2>1, UpTo, Zenon
<1> QED
  BY <1>4 DEF Alike

\* FlattenSeq of some sequences is the last value of such a function.
LEMMA FlattenJoins ==
  ASSUME NEW ss, Len(ss) \in Nat, Len(ss) # 0
  PROVE  \E f : Joins(f, ss, Len(ss)) /\ FlattenSeq(ss) = f[Len(ss)]
<1> DEFINE f == CHOOSE f : Joins(f, ss, Len(ss))
<1>1. Joins(f, ss, Len(ss))
  BY JoinedExists, Zenon DEF Joins
<1>2. FlattenSeq(ss) = f[Len(ss)]
  BY Zenon DEF FlattenSeq, Joins, Joined
<1> QED
  BY <1>1, <1>2, Zenon

LEMMA FlattenNone == FlattenSeq(<<>>) = <<>>
BY DEF FlattenSeq

LEMMA FlattenOneMore ==
  ASSUME NEW S, NEW ss \in Seq(Seq(S)), NEW s \in Seq(S)
  PROVE  FlattenSeq(Append(ss, s)) = FlattenSeq(ss) \o s
<1>1. PICK n \in Nat : n = Len(ss)
  OBVIOUS
<1>2. PICK tt : tt = Append(ss, s)
  OBVIOUS
<1>3. Len(tt) = n + 1 /\ tt[n + 1] = s /\ \A i \in 1..n : ss[i] = tt[i]
  BY <1>1, <1>2
<1>4. n + 1 \in Nat /\ n + 1 # 0 /\ n <= n + 1 /\ n + 1 \in 1..(n + 1) /\ (n + 1) - 1 = n
  BY <1>1
<1>5. PICK g : Joins(g, tt, n + 1) /\ FlattenSeq(tt) = g[n + 1]
  BY <1>3, <1>4, FlattenJoins, Zenon
<1>6. g[n + 1] = IF n + 1 = 1 THEN s ELSE g[n] \o s
  BY <1>3, <1>4, <1>5, Zenon DEF Joins, Joined
<1>7. CASE n = 0
  <2>1. ss = <<>>
    BY <1>1, <1>7, EmptySeq
  <2>2. FlattenSeq(ss) \o s = s
    BY <2>1, FlattenNone
  <2>3. g[n + 1] = s
    BY <1>6, <1>7
  <2> QED
    BY <1>2, <1>5, <2>2, <2>3, Zenon
<1>8. CASE n # 0
  <2>1. PICK f : Joins(f, ss, n) /\ FlattenSeq(ss) = f[n]
    BY <1>1, <1>8, FlattenJoins, Zenon
  <2>2. \A i \in 1..n : f[i] = g[i]
    <3>1. Joins(f, ss, n) /\ Joins(g, tt, n + 1)
      BY <1>5, <2>1
    <3>2. n + 1 \in Nat /\ n <= n + 1 /\ \A i \in 1..n : ss[i] = tt[i]
      BY <1>3, <1>4
    <3>3. Alike(ss, tt, n)
      BY <3>2 DEF Alike
    <3>4. Alike(f, g, n)
      BY <3>1, <3>2, <3>3, JoinedAgree, Zenon
    <3> QED
      BY <3>4 DEF Alike
  <2>3. f[n] = g[n] /\ n + 1 # 1
    <3>1. n \in 1..n /\ n + 1 # 1
      BY <1>8
    <3> QED
      BY <2>2, <3>1, Zenon
  <2> QED
    BY <1>2, <1>5, <1>6, <2>1, <2>3, Zenon
<1> QED
  BY <1>7, <1>8

\* The first k of some sequences, and one more of them.
LEMMA FirstOnes ==
  ASSUME NEW X, NEW ss \in Seq(X), NEW k \in 0..(Len(ss) - 1)
  PROVE  /\ SubSeq(ss, 1, k) \in Seq(X) /\ ss[k + 1] \in X
         /\ Len(SubSeq(ss, 1, k)) = k
         /\ SubSeq(ss, 1, k + 1) = Append(SubSeq(ss, 1, k), ss[k + 1])
<1>1. k \in Nat /\ k + 1 \in 1..Len(ss) /\ Len(ss) \in Nat
  OBVIOUS
<1>2. SubSeq(ss, 1, k) \in Seq(X) /\ Len(SubSeq(ss, 1, k)) = k
      /\ \A i \in 1..k : SubSeq(ss, 1, k)[i] = ss[i]
  BY <1>1
<1>3. ss[k + 1] \in X
  BY <1>1
<1>4. SubSeq(ss, 1, k + 1) \in Seq(X) /\ Len(SubSeq(ss, 1, k + 1)) = k + 1
      /\ \A i \in 1..(k + 1) : SubSeq(ss, 1, k + 1)[i] = ss[i]
  BY <1>1
<1>5. PICK u \in Seq(X) : u = SubSeq(ss, 1, k)
  BY <1>2
<1>6. Append(u, ss[k + 1]) \in Seq(X) /\ Len(Append(u, ss[k + 1])) = k + 1
      /\ \A i \in 1..(k + 1) : Append(u, ss[k + 1])[i] = ss[i]
  <2>1. PICK e \in X : e = ss[k + 1]
    BY <1>3
  <2>2. Append(u, e) \in Seq(X) /\ Len(Append(u, e)) = k + 1
        /\ \A i \in 1..(k + 1) : Append(u, e)[i] = IF i = k + 1 THEN e ELSE u[i]
    BY <1>2, <1>5
  <2>3. \A i \in 1..(k + 1) : i # k + 1 => i \in 1..k
    BY <1>1
  <2> QED
    BY <1>2, <1>5, <2>1, <2>2, <2>3, Zenon
<1>7. SubSeq(ss, 1, k + 1) = Append(u, ss[k + 1])
  BY <1>4, <1>6, SeqEqual
<1> QED
  BY <1>2, <1>3, <1>5, <1>7

LEMMA FlattenFirst ==
  ASSUME NEW S, NEW ss \in Seq(Seq(S)), NEW k \in 0..(Len(ss) - 1)
  PROVE  FlattenSeq(SubSeq(ss, 1, k + 1)) = FlattenSeq(SubSeq(ss, 1, k)) \o ss[k + 1]
<1>1. SubSeq(ss, 1, k) \in Seq(Seq(S)) /\ ss[k + 1] \in Seq(S)
      /\ SubSeq(ss, 1, k + 1) = Append(SubSeq(ss, 1, k), ss[k + 1])
  BY FirstOnes
<1> QED
  BY <1>1, FlattenOneMore

LEMMA FlattenSome ==
  ASSUME NEW S, NEW ss \in Seq(Seq(S))
  PROVE  \A k \in 0..Len(ss) : FlattenSeq(SubSeq(ss, 1, k)) \in Seq(S)
<1> DEFINE Ns == {k \in Nat : k <= Len(ss) => FlattenSeq(SubSeq(ss, 1, k)) \in Seq(S)}
<1>1. 0 \in Ns
  <2>1. SubSeq(ss, 1, 0) = <<>>
    BY SubSeqEmpty
  <2>2. <<>> \in Seq(S)
    OBVIOUS
  <2> QED
    BY <2>1, <2>2, FlattenNone
<1>2. ASSUME NEW k \in Ns PROVE k + 1 \in Ns
  <2>1. k \in Nat /\ k + 1 \in Nat
    OBVIOUS
  <2> SUFFICES ASSUME k + 1 <= Len(ss) PROVE FlattenSeq(SubSeq(ss, 1, k + 1)) \in Seq(S)
    BY <2>1
  <2>2. k \in 0..(Len(ss) - 1) /\ k <= Len(ss)
    BY <2>1
  <2>3. FlattenSeq(SubSeq(ss, 1, k)) \in Seq(S)
    BY <2>2
  <2>4. ss[k + 1] \in Seq(S)
    BY <2>2, FirstOnes
  <2>5. FlattenSeq(SubSeq(ss, 1, k + 1)) = FlattenSeq(SubSeq(ss, 1, k)) \o ss[k + 1]
    BY <2>2, FlattenFirst
  <2>6. PICK a \in Seq(S), b \in Seq(S) : a = FlattenSeq(SubSeq(ss, 1, k)) /\ b = ss[k + 1]
    BY <2>3, <2>4, Zenon
  <2>7. a \o b \in Seq(S)
    BY ConcatProperties, Zenon
  <2> QED
    BY <2>5, <2>6, <2>7, Zenon
<1>3. Ns = Nat
  <2> HIDE DEF Ns
  <2>1. Ns \in SUBSET Nat
    BY DEF Ns
  <2> QED
    BY <1>1, <1>2, <2>1, UpTo, Zenon
<1> QED
  BY <1>3

LEMMA FlattenType ==
  ASSUME NEW S, NEW ss \in Seq(Seq(S))
  PROVE  FlattenSeq(ss) \in Seq(S)
<1>1. Len(ss) \in 0..Len(ss)
  OBVIOUS
<1>2. SubSeq(ss, 1, Len(ss)) = ss
  BY SubSeqFull
<1>3. FlattenSeq(SubSeq(ss, 1, Len(ss))) \in Seq(S)
  BY <1>1, FlattenSome
<1> QED
  BY <1>2, <1>3

LEMMA Associates ==
  ASSUME NEW S, NEW s \in Seq(S), NEW t \in Seq(S), NEW u \in Seq(S)
  PROVE  (s \o t) \o u = s \o (t \o u) /\ s \o t \in Seq(S)
<1>1. (s \o t) \o u = s \o (t \o u)
  BY ConcatAssociative
<1>2. s \o t \in Seq(S)
  BY ConcatProperties, Zenon
<1> QED
  BY <1>1, <1>2

\* The first k sequences, the one after them and what follows make up the whole.
LEMMA FlattenSplits ==
  ASSUME NEW S, NEW ss \in Seq(Seq(S)), NEW k \in 0..(Len(ss) - 1)
  PROVE  \E rest \in Seq(S) :
           FlattenSeq(ss) = (FlattenSeq(SubSeq(ss, 1, k)) \o ss[k + 1]) \o rest
<1> DEFINE Start == FlattenSeq(SubSeq(ss, 1, k)) \o ss[k + 1]
           Splits(n) == \E rest \in Seq(S) : FlattenSeq(SubSeq(ss, 1, n)) = Start \o rest
           Ns == {n \in Nat : k + 1 + n <= Len(ss) => Splits(k + 1 + n)}
<1>1. k \in Nat /\ Len(ss) \in Nat /\ k + 1 <= Len(ss) /\ k \in 0..Len(ss)
  OBVIOUS
<1>2. Start \in Seq(S)
  BY <1>1, FlattenSome, FirstOnes, ConcatProperties
<1>3. 0 \in Ns
  <2>1. FlattenSeq(SubSeq(ss, 1, k + 1)) = Start
    BY FlattenFirst
  <2>2. Start \o <<>> = Start /\ <<>> \in Seq(S)
    BY <1>2
  <2> HIDE DEF Start
  <2>3. Splits(k + 1)
    BY <2>1, <2>2, Zenon
  <2>4. k + 1 + 0 = k + 1
    BY <1>1
  <2> HIDE DEF Splits
  <2> QED
    BY <2>3, <2>4
<1>4. ASSUME NEW n \in Ns PROVE n + 1 \in Ns
  <2>1. PICK j \in Nat : j = k + 1 + n
    BY <1>1
  <2>2. k + 1 + (n + 1) = j + 1 /\ n + 1 \in Nat
    BY <1>1, <2>1
  <2> SUFFICES ASSUME j + 1 <= Len(ss) PROVE Splits(j + 1)
    BY <2>2
  <2>3. j \in 0..(Len(ss) - 1) /\ j <= Len(ss)
    OBVIOUS
  <2>4. PICK rest \in Seq(S) : FlattenSeq(SubSeq(ss, 1, j)) = Start \o rest
    BY <2>1, <2>3
  <2>5. PICK s \in Seq(S) : s = ss[j + 1]
    BY <2>3, FirstOnes
  <2>6. FlattenSeq(SubSeq(ss, 1, j + 1)) = (Start \o rest) \o s
    BY <2>3, <2>4, <2>5, FlattenFirst
  <2> HIDE DEF Start
  <2>7. (Start \o rest) \o s = Start \o (rest \o s) /\ rest \o s \in Seq(S)
    <3>1. PICK b \in Seq(S) : b = Start
      BY <1>2, Zenon
    <3>2. (b \o rest) \o s = b \o (rest \o s) /\ b \o rest \in Seq(S)
      BY Associates
    <3>3. rest \o s \in Seq(S)
      BY ConcatProperties
    <3> QED
      BY <3>1, <3>2, <3>3, Zenon
  <2> QED
    BY <2>6, <2>7
<1>5. Ns = Nat
  <2> HIDE DEF Ns
  <2>1. Ns \in SUBSET Nat
    BY DEF Ns
  <2> QED
    BY <1>3, <1>4, <2>1, UpTo, Zenon
<1>6. Splits(Len(ss))
  <2>1. PICK n \in Nat : k + 1 + n = Len(ss)
    <3>1. Len(ss) - k - 1 \in Nat /\ k + 1 + (Len(ss) - k - 1) = Len(ss)
      BY <1>1
    <3> QED
      BY <3>1
  <2>2. n \in Ns
    BY <1>5
  <2> HIDE DEF Splits
  <2>3. k + 1 + n <= Len(ss)
    BY <1>1, <2>1
  <2>4. Splits(k + 1 + n)
    BY <2>2, <2>3, Zenon
  <2> QED
    BY <2>1, <2>4, Zenon
<1> QED
  BY <1>6, SubSeqFull

-----------------------------------------------------------------------------
(* Messages, and the bytes that were sent. *)

Message == DOMAIN WireLen \cup ChannelType
BytesOf(q) == [i \in 1..Len(q) |-> Bytes(q[i])]
SentBytes(q) == FlattenSeq(BytesOf(q))

\* No message is empty; the event parser's sizes are those of the structs, but
\* for the types it does not know.
LEMMA Lengths ==
  ASSUME NEW m \in Message
  PROVE  /\ MessageLen(m) \in 1..9
         /\ m \in ChannelType => MessageLen(m) = ConnectLen
         /\ m \notin ChannelType => SizeByType(m) \in {0, MessageLen(m)}
<1>1. CASE m \in ChannelType
  BY <1>1 DEF MessageLen, ConnectLen
<1>2. CASE m \notin ChannelType
  <2>1. m \in DOMAIN WireLen /\ MessageLen(m) = WireLen[m]
    BY <1>2 DEF Message, MessageLen
  <2>2. WireLen[m] \in 1..9
    BY <2>1 DEF WireLen
  <2>3. SizeByType(m) \in {0, WireLen[m]}
    BY DEF SizeByType
  <2> QED
    BY <1>2, <2>1, <2>2, <2>3
<1> QED
  BY <1>1, <1>2

LEMMA MessageBytes ==
  ASSUME NEW m \in Message
  PROVE  /\ Bytes(m) \in Seq(AByte) /\ Len(Bytes(m)) = MessageLen(m)
         /\ \A i \in 1..MessageLen(m) : Bytes(m)[i] = [of |-> m, at |-> i]
<1>1. MessageLen(m) \in Nat
  BY Lengths
<1>2. DOMAIN Bytes(m) = 1..MessageLen(m)
      /\ \A i \in 1..MessageLen(m) : Bytes(m)[i] = [of |-> m, at |-> i]
  BY DEF Bytes
<1>3. \A i \in 1..MessageLen(m) : Bytes(m)[i] \in AByte
  <2> TAKE i \in 1..MessageLen(m)
  <2>1. Bytes(m)[i] \in Range(Bytes(m))
    BY <1>2, Zenon DEF Range
  <2> QED
    BY <2>1, Zenon DEF AByte, Message
<1>4. \A i \in 1..MessageLen(m) : [of |-> m, at |-> i] \in AByte
  BY <1>2, <1>3, Zenon
<1>5. Bytes(m) \in Seq(AByte) /\ Len(Bytes(m)) = MessageLen(m)
  <2> HIDE DEF AByte
  <2> QED
    BY <1>1, <1>4 DEF Bytes
<1> QED
  BY <1>2, <1>5

LEMMA JunkByte == Junk \in AByte
BY Zenon DEF AByte

\* The bytes of one message more.
LEMMA BytesOfMessages ==
  ASSUME NEW q \in Seq(Message)
  PROVE  /\ BytesOf(q) \in Seq(Seq(AByte)) /\ Len(BytesOf(q)) = Len(q)
         /\ \A i \in 1..Len(q) : BytesOf(q)[i] = Bytes(q[i])
<1>1. \A i \in 1..Len(q) : q[i] \in Message
  OBVIOUS
<1>2. \A i \in 1..Len(q) : Bytes(q[i]) \in Seq(AByte)
  BY <1>1, MessageBytes
<1> QED
  BY <1>2 DEF BytesOf

LEMMA SentType ==
  ASSUME NEW q \in Seq(Message)
  PROVE  SentBytes(q) \in Seq(AByte) /\ Len(SentBytes(q)) \in Nat
<1>1. SentBytes(q) \in Seq(AByte)
  BY BytesOfMessages, FlattenType DEF SentBytes
<1> QED
  BY <1>1, LenProperties

\* Sequences of bytes, joined.
Regroups(s, t, u) == (s \o t) \o u = s \o (t \o u)

LEMMA AssocBytes ==
  ASSUME NEW s \in Seq(AByte), NEW t \in Seq(AByte), NEW u \in Seq(AByte)
  PROVE  Regroups(s, t, u)
BY Associates DEF Regroups

LEMMA JoinBytes ==
  ASSUME NEW s \in Seq(AByte), NEW t \in Seq(AByte)
  PROVE  s \o t \in Seq(AByte)
BY ConcatProperties

LEMMA CancelBytes == \A s, t, u \in Seq(AByte) : s \o t = s \o u => t = u
BY ConcatSimplifications, Zenon

LEMMA SentNone == SentBytes(<<>>) = <<>>
<1>1. BytesOf(<<>>) = <<>>
  BY DEF BytesOf
<1> QED
  BY <1>1, FlattenNone DEF SentBytes

LEMMA SentOneMore ==
  ASSUME NEW q \in Seq(Message), NEW m \in Message
  PROVE  SentBytes(Append(q, m)) = SentBytes(q) \o Bytes(m)
<1>1. PICK r \in Seq(Message) : r = Append(q, m)
  BY AppendProperties, Zenon
<1>2. Len(r) = Len(q) + 1 /\ r[Len(q) + 1] = m /\ \A i \in 1..Len(q) : r[i] = q[i]
  BY <1>1, AppendProperties
<1>3. PICK u \in Seq(Seq(AByte)) : u = BytesOf(q) /\ Len(u) = Len(q)
                                   /\ \A i \in 1..Len(q) : u[i] = Bytes(q[i])
  BY BytesOfMessages, Zenon
<1>4. PICK e \in Seq(AByte) : e = Bytes(m)
  BY MessageBytes, Zenon
<1>5. BytesOf(r) \in Seq(Seq(AByte)) /\ Len(BytesOf(r)) = Len(q) + 1
      /\ \A i \in 1..(Len(q) + 1) : BytesOf(r)[i] = Bytes(r[i])
  BY <1>2, BytesOfMessages, Zenon
<1>6. Append(u, e) \in Seq(Seq(AByte)) /\ Len(Append(u, e)) = Len(q) + 1
      /\ \A i \in 1..(Len(q) + 1) : Append(u, e)[i] = IF i = Len(q) + 1 THEN e ELSE u[i]
  BY <1>3
<1>7. \A i \in 1..(Len(q) + 1) : i # Len(q) + 1 => i \in 1..Len(q)
  OBVIOUS
<1>8. \A i \in 1..(Len(q) + 1) : Append(u, e)[i] = Bytes(r[i])
  BY <1>2, <1>3, <1>4, <1>6, <1>7, Zenon
<1>9. BytesOf(r) = Append(u, e)
  <2>1. PICK v \in Seq(Seq(AByte)) : v = Append(u, e)
    BY <1>6, Zenon
  <2>2. PICK w \in Seq(Seq(AByte)) : w = BytesOf(r)
    BY <1>5, Zenon
  <2>3. Len(w) = Len(v) /\ \A i \in 1..Len(w) : w[i] = v[i]
    BY <1>5, <1>6, <1>8, <2>1, <2>2, Zenon
  <2> QED
    BY <2>1, <2>2, <2>3, SeqEqual, Zenon
<1> QED
  BY <1>1, <1>3, <1>4, <1>9, FlattenOneMore, Zenon DEF SentBytes

LEMMA OneMessage ==
  ASSUME NEW q \in Seq(Message), Len(q) = 1
  PROVE  Len(SentBytes(q)) = MessageLen(q[1])
<1>1. PICK m \in Message : m = q[1]
  OBVIOUS
<1>2. q = Append(<<>>, m)
  BY <1>1
<1>3. <<>> \in Seq(Message)
  OBVIOUS
<1>4. SentBytes(q) = <<>> \o Bytes(m)
  BY <1>2, <1>3, SentOneMore, SentNone, Zenon
<1>5. Bytes(m) \in Seq(AByte) /\ Len(Bytes(m)) = MessageLen(m)
  BY MessageBytes
<1> QED
  BY <1>1, <1>4, <1>5, ConcatEmptySeq

\* Where the bytes of a message are among those sent.
LEMMA SentSplits ==
  ASSUME NEW q \in Seq(Message), NEW k \in 0..(Len(q) - 1)
  PROVE  \E rest \in Seq(AByte) :
           SentBytes(q) = (FlattenSeq(SubSeq(BytesOf(q), 1, k)) \o Bytes(q[k + 1])) \o rest
<1>1. BytesOf(q) \in Seq(Seq(AByte)) /\ k \in 0..(Len(BytesOf(q)) - 1)
  BY BytesOfMessages
<1>2. k + 1 \in 1..Len(q)
  OBVIOUS
<1>3. BytesOf(q)[k + 1] = Bytes(q[k + 1])
  BY <1>2, BytesOfMessages
<1>4. PICK rest \in Seq(AByte) :
        FlattenSeq(BytesOf(q)) = (FlattenSeq(SubSeq(BytesOf(q), 1, k)) \o BytesOf(q)[k + 1]) \o rest
  BY <1>1, FlattenSplits, Zenon
<1> QED
  BY <1>3, <1>4, Zenon DEF SentBytes

-----------------------------------------------------------------------------
(* The ring that a channel reads into. *)

\* The only remainders taken, but for the upwards copy of an overlapping area.
LEMMA SmallMod ==
  ASSUME NEW n \in Nat \ {0}, NEW a \in Nat, a < 2 * n
  PROVE  a % n = IF a < n THEN a ELSE a - n
OBVIOUS

\* The counts of a ring fit its size.
LEMMA Counts ==
  ASSUME NEW B, NEW size \in Nat \ {0}, NEW rb \in RingsOf(size, B)
  PROVE  /\ rb.head \in 0..(size - 1) /\ rb.tail \in 0..(size - 1) /\ rb.size = size
         /\ rb.buf \in [0..(size - 1) -> B]
         /\ BytesUsed(rb) \in 0..(size - 1) /\ BytesFree(rb) \in 0..(size - 1)
         /\ BytesUsed(rb) + BytesFree(rb) = size - 1
         /\ BytesUsed(rb) = IF rb.head >= rb.tail THEN rb.head - rb.tail
                            ELSE rb.head - rb.tail + size
         /\ IsEmpty(rb) <=> rb.head = rb.tail
         /\ IsEmpty(rb) <=> BytesUsed(rb) = 0
<1>1. rb.head \in 0..(size - 1) /\ rb.tail \in 0..(size - 1) /\ rb.size = size
      /\ rb.buf \in [0..(size - 1) -> B]
  BY DEF RingsOf
<1>2. PICK h, t : h = rb.head /\ t = rb.tail
  OBVIOUS
<1>3. /\ BytesFree(rb) = IF h >= t THEN size - 1 - (h - t) ELSE t - h - 1
      /\ CapacityOf(rb) = size - 1
  BY <1>1, <1>2 DEF BytesFree, CapacityOf
<1>4. BytesUsed(rb) = size - 1 - BytesFree(rb) /\ (IsEmpty(rb) <=> BytesFree(rb) = size - 1)
  BY <1>3, Zenon DEF BytesUsed, IsEmpty
<1>5. PICK u, f : u = BytesUsed(rb) /\ f = BytesFree(rb)
  OBVIOUS
<1>6. /\ f = IF h >= t THEN size - 1 - (h - t) ELSE t - h - 1
      /\ u = size - 1 - f /\ h \in 0..(size - 1) /\ t \in 0..(size - 1)
  BY <1>1, <1>2, <1>3, <1>4, <1>5, Zenon
<1>7. /\ u \in 0..(size - 1) /\ f \in 0..(size - 1) /\ u + f = size - 1
      /\ u = IF h >= t THEN h - t ELSE h - t + size
      /\ f = size - 1 <=> h = t
      /\ f = size - 1 <=> u = 0
  BY <1>6
<1> QED
  BY <1>1, <1>2, <1>4, <1>5, <1>7, Zenon

\* The offset of the i-th byte after the tail.
After(rb, i) == IF rb.tail + i - 1 < rb.size THEN rb.tail + i - 1 ELSE rb.tail + i - 1 - rb.size

LEMMA ContentsAt ==
  ASSUME NEW B, NEW size \in Nat \ {0}, NEW rb \in RingsOf(size, B)
  PROVE  /\ Contents(rb) \in Seq(B)
         /\ Len(Contents(rb)) = BytesUsed(rb)
         /\ \A i \in 1..BytesUsed(rb) : Contents(rb)[i] = rb.buf[After(rb, i)]
<1>1. BytesUsed(rb) \in 0..(size - 1) /\ rb.tail \in 0..(size - 1) /\ rb.size = size
      /\ rb.buf \in [0..(size - 1) -> B]
  BY Counts
<1>2. \A i \in 1..BytesUsed(rb) : (rb.tail + i - 1) % rb.size = After(rb, i)
  <2> TAKE i \in 1..BytesUsed(rb)
  <2>1. PICK a : a = rb.tail + i - 1
    OBVIOUS
  <2>2. a \in Nat /\ a < 2 * size
    BY <1>1, <2>1
  <2>3. a % size = IF a < size THEN a ELSE a - size
    BY <2>2, SmallMod, Zenon
  <2>4. After(rb, i) = IF a < size THEN a ELSE a - size
    BY <1>1, <2>1 DEF After
  <2> QED
    BY <1>1, <2>1, <2>3, <2>4, Zenon
<1>3. \A i \in 1..BytesUsed(rb) : rb.buf[After(rb, i)] \in B
  <2>1. \A i \in 1..BytesUsed(rb) : After(rb, i) \in 0..(size - 1)
    BY <1>1 DEF After
  <2> QED
    BY <1>1, <2>1
<1>4. Contents(rb) = [i \in 1..BytesUsed(rb) |-> rb.buf[After(rb, i)]]
  BY <1>2 DEF Contents
<1> QED
  BY <1>1, <1>3, <1>4

\* ringbuf_memcpy_from: the bytes taken come first, and the others stay.
Moved(rb, n) == [rb EXCEPT !.tail = (rb.tail + n) % rb.size]

LEMMA MovedRing ==
  ASSUME NEW B, NEW size \in Nat \ {0}, NEW rb \in RingsOf(size, B), NEW n \in 0..BytesUsed(rb)
  PROVE  /\ Moved(rb, n) \in RingsOf(size, B)
         /\ Moved(rb, n).head = rb.head /\ Moved(rb, n).buf = rb.buf /\ Moved(rb, n).size = size
         /\ Moved(rb, n).tail = IF rb.tail + n < size THEN rb.tail + n ELSE rb.tail + n - size
<1>1. rb.head \in 0..(size - 1) /\ rb.tail \in 0..(size - 1) /\ rb.size = size
      /\ rb.buf \in [0..(size - 1) -> B] /\ BytesUsed(rb) \in 0..(size - 1)
  BY Counts
<1>2. PICK a : a = rb.tail + n
  OBVIOUS
<1>3. a \in Nat /\ a < 2 * size
  BY <1>1, <1>2
<1>4. a % size = IF a < size THEN a ELSE a - size
  BY <1>3, SmallMod, Zenon
<1>5. PICK t : t = a % size
  OBVIOUS
<1>6. t \in 0..(size - 1)
  BY <1>3, <1>4, <1>5
<1>7. Moved(rb, n) = [rb EXCEPT !.tail = t]
  BY <1>1, <1>2, <1>5, Zenon DEF Moved
<1>8. [rb EXCEPT !.tail = t] = [buf |-> rb.buf, size |-> size, head |-> rb.head, tail |-> t]
  BY <1>1 DEF RingsOf
<1>9. [buf |-> rb.buf, size |-> size, head |-> rb.head, tail |-> t] \in RingsOf(size, B)
  BY <1>1, <1>6 DEF RingsOf
<1>10. PICK new : new = Moved(rb, n)
  OBVIOUS
<1>11. new = [buf |-> rb.buf, size |-> size, head |-> rb.head, tail |-> t]
  BY <1>7, <1>8, <1>10, Zenon
<1>12. new.tail = t /\ new.head = rb.head /\ new.buf = rb.buf /\ new.size = size
       /\ new \in RingsOf(size, B)
  BY <1>9, <1>11
<1>13. t = IF rb.tail + n < size THEN rb.tail + n ELSE rb.tail + n - size
  BY <1>1, <1>2, <1>4, <1>5
<1> QED
  BY <1>10, <1>12, <1>13, Zenon

LEMMA MovedContents ==
  ASSUME NEW B, NEW size \in Nat \ {0}, NEW rb \in RingsOf(size, B), NEW n \in 0..BytesUsed(rb)
  PROVE  /\ BytesUsed(Moved(rb, n)) = BytesUsed(rb) - n
         /\ SubSeq(Contents(rb), 1, n) \in Seq(B) /\ Len(SubSeq(Contents(rb), 1, n)) = n
         /\ Contents(rb) = SubSeq(Contents(rb), 1, n) \o Contents(Moved(rb, n))
<1>1. rb.head \in 0..(size - 1) /\ rb.tail \in 0..(size - 1) /\ rb.size = size
      /\ BytesUsed(rb) \in 0..(size - 1)
      /\ BytesUsed(rb) = IF rb.head >= rb.tail THEN rb.head - rb.tail ELSE rb.head - rb.tail + size
  BY Counts
<1>2. PICK new : new = Moved(rb, n)
  OBVIOUS
<1>3. /\ new \in RingsOf(size, B)
      /\ new.head = rb.head /\ new.buf = rb.buf /\ new.size = size
      /\ new.tail = IF rb.tail + n < size THEN rb.tail + n ELSE rb.tail + n - size
  BY <1>2, MovedRing
<1>4. BytesUsed(new) = IF new.head >= new.tail THEN new.head - new.tail ELSE new.head - new.tail + size
  BY <1>3, Counts
<1>5. PICK u : u = BytesUsed(rb)
  OBVIOUS
<1>6. BytesUsed(new) = u - n /\ n \in 0..u /\ u \in 0..(size - 1)
  BY <1>1, <1>3, <1>4, <1>5
<1>7. PICK c \in Seq(B) : c = Contents(rb) /\ Len(c) = u /\ \A i \in 1..u : c[i] = rb.buf[After(rb, i)]
  BY <1>5, ContentsAt, Zenon
<1>8. PICK d \in Seq(B) : d = Contents(new) /\ Len(d) = u - n
                          /\ \A i \in 1..(u - n) : d[i] = rb.buf[After(new, i)]
  <2>1. /\ Contents(new) \in Seq(B) /\ Len(Contents(new)) = BytesUsed(new)
        /\ \A i \in 1..BytesUsed(new) : Contents(new)[i] = new.buf[After(new, i)]
    BY <1>3, ContentsAt, Zenon
  <2> QED
    BY <1>3, <1>6, <2>1, Zenon
<1>9. \A i \in 1..(u - n) : After(new, i) = After(rb, n + i) /\ n + i \in 1..u
  <2>1. PICK h, t, tt : h = rb.head /\ t = rb.tail /\ tt = new.tail
    OBVIOUS
  <2>2. /\ h \in 0..(size - 1) /\ t \in 0..(size - 1) /\ n \in 0..u /\ u \in 0..(size - 1)
        /\ tt = IF t + n < size THEN t + n ELSE t + n - size
    BY <1>1, <1>3, <1>6, <2>1
  <2>3. \A i \in 1..(u - n) :
          /\ n + i \in 1..u
          /\ (IF tt + i - 1 < size THEN tt + i - 1 ELSE tt + i - 1 - size)
             = (IF t + (n + i) - 1 < size THEN t + (n + i) - 1 ELSE t + (n + i) - 1 - size)
    BY <2>2
  <2> QED
    BY <1>1, <1>3, <2>1, <2>3, Zenon DEF After
<1>10. \A i \in 1..(u - n) : d[i] = c[n + i]
  <2> TAKE i \in 1..(u - n)
  <2>1. d[i] = rb.buf[After(new, i)]
    BY <1>8, Zenon
  <2>2. After(new, i) = After(rb, n + i) /\ n + i \in 1..u
    BY <1>9, Zenon
  <2>3. c[n + i] = rb.buf[After(rb, n + i)]
    BY <1>7, <2>2, Zenon
  <2> QED
    BY <2>1, <2>2, <2>3, Zenon
<1>11. SubSeq(c, 1, n) \in Seq(B) /\ Len(SubSeq(c, 1, n)) = n /\ \A i \in 1..n : SubSeq(c, 1, n)[i] = c[i]
  BY <1>6, <1>7
<1>12. PICK e \in Seq(B) : e = SubSeq(c, 1, n)
  BY <1>11, Zenon
<1>13. e \o d \in Seq(B) /\ Len(e \o d) = u
       /\ \A i \in 1..u : (e \o d)[i] = IF i <= n THEN e[i] ELSE d[i - n]
  <2>1. /\ e \o d \in Seq(B) /\ Len(e \o d) = Len(e) + Len(d)
        /\ \A i \in 1..(Len(e) + Len(d)) :
             (e \o d)[i] = IF i <= Len(e) THEN e[i] ELSE d[i - Len(e)]
    OBVIOUS
  <2>2. Len(e) = n /\ Len(d) = u - n
    BY <1>8, <1>11, <1>12, Zenon
  <2>3. n + (u - n) = u
    BY <1>6
  <2> QED
    BY <2>1, <2>2, <2>3, Zenon
<1>14. \A i \in 1..u : (e \o d)[i] = c[i]
  <2>1. \A i \in 1..u : i <= n => i \in 1..n
    BY <1>6
  <2>2. \A i \in 1..u : ~(i <= n) => i - n \in 1..(u - n) /\ n + (i - n) = i
    BY <1>6
  <2> QED
    BY <1>10, <1>11, <1>12, <1>13, <2>1, <2>2
<1>15. c = e \o d
  <2>1. PICK f \in Seq(B) : f = e \o d
    BY <1>13, Zenon
  <2>2. Len(c) = Len(f) /\ \A i \in 1..Len(c) : c[i] = f[i]
    BY <1>7, <1>13, <1>14, <2>1, Zenon
  <2> QED
    BY <2>1, <2>2, SeqEqual, Zenon
<1> QED
  BY <1>2, <1>5, <1>6, <1>7, <1>8, <1>11, <1>12, <1>15, Zenon

\* ringbuf_memcpy_into from the ring's own memory: the head moves behind what
\* was read, and the buffer holds bytes.
LEMMA CopiedType ==
  ASSUME NEW B, NEW N \in Nat, NEW mem \in [0..N -> B], NEW dst \in Nat, NEW src \in Nat,
         NEW n \in Nat, NEW upwards \in BOOLEAN, src + n <= N + 1
  PROVE  Copied(mem, dst, src, n, upwards) \in [0..N -> B]
<1>1. ASSUME NEW p \in 0..N, p \in dst..(dst + n - 1)
      PROVE  mem[src + (p - dst)] \in B
  <2>1. src + (p - dst) \in 0..N
    BY <1>1
  <2> QED
    BY <2>1
<1>2. ASSUME NEW p \in 0..N, p \in dst..(dst + n - 1), dst > src
      PROVE  mem[src + ((p - dst) % (dst - src))] \in B
  <2>1. PICK a \in Nat, d \in Nat \ {0} : a = p - dst /\ d = dst - src
    <3>1. p - dst \in Nat /\ dst - src \in Nat \ {0}
      BY <1>2
    <3> QED
      BY <3>1
  <2>2. a % d \in 0..a
    BY <2>1
  <2>3. src + (a % d) \in 0..N
    BY <1>2, <2>1, <2>2
  <2> QED
    BY <2>1, <2>3
<1>3. \A p \in 0..N :
        (IF p \notin dst..(dst + n - 1) THEN mem[p]
         ELSE IF upwards /\ dst > src THEN mem[src + ((p - dst) % (dst - src))]
         ELSE mem[src + (p - dst)]) \in B
  <2>1. \A p \in 0..N : mem[p] \in B
    OBVIOUS
  <2> QED
    BY <1>1, <1>2, <2>1, Zenon
<1>4. DOMAIN mem = 0..N
  OBVIOUS
<1> QED
  BY <1>3, <1>4, Zenon DEF Copied

LEMMA LandedType ==
  ASSUME NEW B, NEW size \in Nat \ {0}, NEW rb \in RingsOf(size, B), NEW s \in Seq(B)
  PROVE  Landed(rb, s) \in [0..(size - 1) -> B]
<1>1. rb.tail \in 0..(size - 1) /\ rb.size = size /\ rb.buf \in [0..(size - 1) -> B]
  BY Counts
<1>2. \A p \in 0..(size - 1) :
        (IF p \in rb.tail..(rb.tail + Len(s) - 1) THEN s[p - rb.tail + 1] ELSE rb.buf[p]) \in B
  <2> TAKE p \in 0..(size - 1)
  <2>1. p \in rb.tail..(rb.tail + Len(s) - 1) => s[p - rb.tail + 1] \in B
    <3> SUFFICES ASSUME p \in rb.tail..(rb.tail + Len(s) - 1) PROVE s[p - rb.tail + 1] \in B
      OBVIOUS
    <3>1. p - rb.tail + 1 \in 1..Len(s)
      BY <1>1
    <3> QED
      BY <3>1
  <2>2. rb.buf[p] \in B
    BY <1>1
  <2> QED
    BY <2>1, <2>2
<1> QED
  BY <1>1, <1>2 DEF Landed

LEMMA MemoryType ==
  ASSUME NEW B, NEW size \in Nat \ {0}, NEW rb \in RingsOf(size, B), NEW s \in Seq(B),
         NEW upwards \in BOOLEAN, Len(s) <= RoomAt(rb, rb.tail)
  PROVE  FromTheStart(rb, s, upwards) \in [0..(size - 1) -> B]
<1>1. rb.tail \in 0..(size - 1) /\ rb.head \in 0..(size - 1) /\ rb.size = size
  BY Counts
<1>2. PICK n \in Nat : n = Len(s)
  OBVIOUS
<1>3. PICK first \in Nat : first = Min2(RoomAt(rb, rb.head), Len(s)) /\ first <= n
  <2>1. Min2(RoomAt(rb, rb.head), Len(s)) \in Nat /\ Min2(RoomAt(rb, rb.head), Len(s)) <= n
    BY <1>1, <1>2 DEF Min2, RoomAt
  <2> QED
    BY <2>1
<1>4. PICK N \in Nat : N = size - 1
  OBVIOUS
<1>5. Landed(rb, s) \in [0..N -> B]
  BY <1>4, LandedType
<1>6. rb.tail + first <= N + 1 /\ rb.tail \in Nat /\ rb.head \in Nat
      /\ (rb.tail + first) + (Len(s) - first) <= N + 1
      /\ rb.tail + first \in Nat /\ Len(s) - first \in Nat
  <2>1. PICK t \in 0..(size - 1) : t = rb.tail /\ n <= size - t
    BY <1>1, <1>2 DEF RoomAt
  <2>2. /\ t + first <= N + 1 /\ t \in Nat /\ t + first \in Nat
        /\ (t + first) + (n - first) <= N + 1 /\ n - first \in Nat
    BY <1>3, <1>4, <2>1
  <2>3. rb.head \in Nat
    BY <1>1
  <2> QED
    BY <1>2, <2>1, <2>2, <2>3, Zenon
<1>7. ToTheEnd(rb, s, upwards) \in [0..N -> B]
  BY <1>3, <1>5, <1>6, CopiedType, Zenon DEF ToTheEnd
<1>8. Copied(ToTheEnd(rb, s, upwards), 0, rb.tail + first, Len(s) - first, upwards) \in [0..N -> B]
  <2>1. 0 \in Nat
    OBVIOUS
  <2> QED
    BY <1>6, <1>7, <2>1, CopiedType, Zenon
<1> QED
  BY <1>3, <1>4, <1>8, Zenon DEF FromTheStart

LEMMA TakenInRing ==
  ASSUME NEW B, NEW size \in Nat \ {0}, NEW rb \in RingsOf(size, B), NEW s \in Seq(B),
         NEW upwards \in BOOLEAN, Len(s) <= BytesFree(rb), Len(s) <= RoomAt(rb, rb.tail)
  PROVE  /\ TakenIn(rb, s, upwards) \in RingsOf(size, B)
         /\ BytesUsed(TakenIn(rb, s, upwards)) = BytesUsed(rb) + Len(s)
         /\ TakenIn(rb, s, upwards).tail = rb.tail
         /\ TakenIn(rb, s, upwards).buf = FromTheStart(rb, s, upwards)
<1>1. rb.tail \in 0..(size - 1) /\ rb.head \in 0..(size - 1) /\ rb.size = size
      /\ BytesFree(rb) \in 0..(size - 1) /\ BytesUsed(rb) + BytesFree(rb) = size - 1
      /\ BytesUsed(rb) \in 0..(size - 1)
      /\ rb.buf \in [0..(size - 1) -> B]
      /\ BytesUsed(rb) = IF rb.head >= rb.tail THEN rb.head - rb.tail
                         ELSE rb.head - rb.tail + size
  BY Counts
<1>2. PICK n \in Nat : n = Len(s) /\ n <= BytesFree(rb)
  OBVIOUS
<1>3. PICK b \in [0..(size - 1) -> B] : b = FromTheStart(rb, s, upwards)
  BY MemoryType, Zenon
<1>6. PICK h : h = (rb.head + n) % size
  OBVIOUS
<1>7. h = (IF rb.head + n < size THEN rb.head + n ELSE rb.head + n - size) /\ h \in 0..(size - 1)
  <2>1. PICK t \in 0..(size - 1), f \in 0..(size - 1) :
          t = rb.head /\ f = BytesFree(rb) /\ n <= f
    BY <1>1, <1>2, Zenon
  <2>2. PICK a \in Nat : a = t + n /\ a < 2 * size
    BY <2>1
  <2>3. a % size = IF a < size THEN a ELSE a - size
    BY <2>2, SmallMod, Zenon
  <2>4. h = IF a < size THEN a ELSE a - size
    BY <1>6, <2>1, <2>2, <2>3, Zenon
  <2>5. h \in 0..(size - 1)
    BY <2>2, <2>4
  <2> QED
    <3>1. h = IF t + n < size THEN t + n ELSE t + n - size
      BY <2>2, <2>4
    <3> QED
      BY <2>1, <2>5, <3>1, Zenon
<1>8. TakenIn(rb, s, upwards) = [rb EXCEPT !.buf = b, !.head = h]
  BY <1>1, <1>2, <1>3, <1>6, Zenon DEF TakenIn
<1>9. [rb EXCEPT !.buf = b, !.head = h] = [buf |-> b, size |-> size, head |-> h, tail |-> rb.tail]
  <2>1. PICK b0, h0, t0 : rb = [buf |-> b0, size |-> size, head |-> h0, tail |-> t0]
    BY Zenon DEF RingsOf
  <2>2. rb.tail = t0
    BY <2>1
  <2>3. [[buf |-> b0, size |-> size, head |-> h0, tail |-> t0] EXCEPT !.buf = b, !.head = h]
          = [buf |-> b, size |-> size, head |-> h, tail |-> t0]
    OBVIOUS
  <2> QED
    BY <2>1, <2>2, <2>3, Zenon
<1>10. PICK new : new = TakenIn(rb, s, upwards)
  OBVIOUS
<1>11. new = [buf |-> b, size |-> size, head |-> h, tail |-> rb.tail]
  BY <1>8, <1>9, <1>10, Zenon
<1>12. /\ new.buf = b /\ new.head = h /\ new.tail = rb.tail
       /\ new \in RingsOf(size, B)
  BY <1>1, <1>3, <1>7, <1>11 DEF RingsOf
<1>13. BytesUsed(new) = IF new.head >= new.tail THEN new.head - new.tail
                        ELSE new.head - new.tail + size
  <2>1. new \in RingsOf(size, B)
    BY <1>12
  <2> QED
    BY <2>1, Counts
<1>14. BytesUsed(new) = BytesUsed(rb) + n
  <2>1. PICK h0, t, u, f : h0 = rb.head /\ t = rb.tail /\ u = BytesUsed(rb) /\ f = BytesFree(rb)
    OBVIOUS
  <2>2. BytesUsed(new) = IF h >= t THEN h - t ELSE h - t + size
    BY <1>12, <1>13, <2>1, Zenon
  <2>3. /\ h0 \in 0..(size - 1) /\ t \in 0..(size - 1) /\ u + f = size - 1 /\ n <= f
        /\ f \in 0..(size - 1)
        /\ u = (IF h0 >= t THEN h0 - t ELSE h0 - t + size)
        /\ h = (IF h0 + n < size THEN h0 + n ELSE h0 + n - size)
    BY <1>1, <1>2, <1>7, <2>1, Zenon
  <2>4. (IF h >= t THEN h - t ELSE h - t + size) = u + n
    BY <2>3
  <2> QED
    BY <2>1, <2>2, <2>4
<1> QED
  BY <1>2, <1>3, <1>10, <1>12, <1>14, Zenon

\* In an empty ring head and tail are one offset: the first memcpy copies all
\* that was read onto itself, and there is nothing left for the second.
LEMMA EmptyCopies ==
  ASSUME NEW B, NEW size \in Nat \ {0}, NEW rb \in RingsOf(size, B), NEW s \in Seq(B),
         NEW upwards \in BOOLEAN, IsEmpty(rb), Len(s) <= RoomAt(rb, rb.tail)
  PROVE  FromTheStart(rb, s, upwards) = Landed(rb, s)
<1>1. rb.tail \in 0..(size - 1) /\ rb.size = size /\ rb.head = rb.tail
  BY Counts
<1>2. PICK n \in Nat : n = Len(s)
  OBVIOUS
<1>3. Min2(RoomAt(rb, rb.head), Len(s)) = n
  BY <1>1, <1>2 DEF Min2, RoomAt
<1>4. PICK L \in [0..(size - 1) -> B] : L = Landed(rb, s)
  BY LandedType, Zenon
<1>5. PICK t \in 0..(size - 1) : t = rb.tail
  BY <1>1
<1>6. ToTheEnd(rb, s, upwards) = Copied(L, t, t, n, upwards)
  BY <1>1, <1>3, <1>4, <1>5, Zenon DEF ToTheEnd
<1>7. Copied(L, t, t, n, upwards) = L
  <2>1. Copied(L, t, t, n, upwards)
          = [p \in 0..(size - 1) |-> IF p \notin t..(t + n - 1) THEN L[p] ELSE L[t + (p - t)]]
    BY DEF Copied
  <2>2. \A p \in 0..(size - 1) : t + (p - t) = p
    OBVIOUS
  <2> QED
    BY <2>1, <2>2
<1>8. FromTheStart(rb, s, upwards) = Copied(L, 0, t + n, 0, upwards)
  <2>1. Len(s) - n = 0
    BY <1>2
  <2> QED
    BY <1>3, <1>5, <1>6, <1>7, <2>1, Zenon DEF FromTheStart
<1>9. Copied(L, 0, t + n, 0, upwards) = L
  <2>1. \A p : p \notin 0..(0 + 0 - 1)
    OBVIOUS
  <2>2. Copied(L, 0, t + n, 0, upwards) = [p \in 0..(size - 1) |-> L[p]]
    BY <2>1 DEF Copied
  <2> QED
    BY <2>2
<1> QED
  BY <1>4, <1>8, <1>9, Zenon

LEMMA EmptyTakesIn ==
  ASSUME NEW B, NEW size \in Nat \ {0}, NEW rb \in RingsOf(size, B), NEW s \in Seq(B),
         NEW upwards \in BOOLEAN, Len(s) <= BytesFree(rb), Len(s) <= RoomAt(rb, rb.tail),
         IsEmpty(rb)
  PROVE  Contents(TakenIn(rb, s, upwards)) = s
<1>1. rb.tail \in 0..(size - 1) /\ rb.size = size
      /\ BytesUsed(rb) = 0 /\ BytesFree(rb) \in 0..(size - 1)
  BY Counts
<1>2. PICK n \in Nat : n = Len(s) /\ n < size
  BY <1>1
<1>3. PICK new : new = TakenIn(rb, s, upwards)
  OBVIOUS
<1>4. PICK L : L = Landed(rb, s)
  OBVIOUS
<1>5. /\ new \in RingsOf(size, B) /\ BytesUsed(new) = BytesUsed(rb) + n
      /\ new.tail = rb.tail
      /\ new.buf = L
  <2>1. /\ TakenIn(rb, s, upwards) \in RingsOf(size, B)
        /\ BytesUsed(TakenIn(rb, s, upwards)) = BytesUsed(rb) + Len(s)
        /\ TakenIn(rb, s, upwards).tail = rb.tail
        /\ TakenIn(rb, s, upwards).buf = FromTheStart(rb, s, upwards)
    BY TakenInRing
  <2>2. FromTheStart(rb, s, upwards) = Landed(rb, s)
    BY EmptyCopies
  <2> QED
    BY <1>2, <1>3, <1>4, <2>1, <2>2, Zenon
<1>6. BytesUsed(new) = n /\ new.size = size
  BY <1>1, <1>5, Counts
<1>7. PICK t \in 0..(size - 1) : t = rb.tail /\ t + n <= size
  BY <1>1, <1>2 DEF RoomAt
<1>11. \A i \in 1..n : L[t + i - 1] = s[i]
  <2>1. \A i \in 1..n : /\ t + i - 1 \in 0..(size - 1)
                        /\ t + i - 1 \in t..(t + n - 1)
                        /\ (t + i - 1) - t + 1 = i
    BY <1>2, <1>7
  <2>2. \A p \in 0..(size - 1) : p \in t..(t + n - 1) => L[p] = s[p - t + 1]
    <3>1. DOMAIN rb.buf = 0..(size - 1)
      BY Counts
    <3> QED
      BY <1>2, <1>4, <1>7, <3>1 DEF Landed
  <2> QED
    BY <2>1, <2>2
<1>12. \A i \in 1..n : new.buf[After(new, i)] = s[i]
  <2> TAKE i \in 1..n
  <2>1. After(new, i) = IF t + i - 1 < size THEN t + i - 1 ELSE t + i - 1 - size
    BY <1>5, <1>6, <1>7, Zenon DEF After
  <2>2. t + i - 1 < size
    BY <1>2, <1>7
  <2> QED
    BY <1>5, <1>11, <2>1, <2>2, Zenon
<1>13. PICK c \in Seq(B) : c = Contents(new) /\ Len(c) = n
                           /\ \A i \in 1..n : c[i] = new.buf[After(new, i)]
  <2>1. /\ Contents(new) \in Seq(B) /\ Len(Contents(new)) = BytesUsed(new)
        /\ \A i \in 1..BytesUsed(new) : Contents(new)[i] = new.buf[After(new, i)]
    BY <1>5, ContentsAt, Zenon
  <2> QED
    BY <1>6, <2>1, Zenon
<1>14. Len(c) = Len(s) /\ \A i \in 1..Len(c) : c[i] = s[i]
  BY <1>2, <1>12, <1>13, Zenon
<1> QED
  BY <1>3, <1>13, <1>14, SeqEqual, Zenon

-----------------------------------------------------------------------------
(* What every step keeps. *)

\* The types of the other variables, and the bound on the messages sent.
ShapeOK ==
  /\ sent \in Seq(Message) /\ Len(sent) <= setup.sends
  /\ wire \in Seq(AByte)
  /\ handled \in Seq(Seq(AByte))

CInv == TypeOK /\ ShapeOK /\ BytesCounted

Stream == FlattenSeq(handled) \o Contents(rx) \o wire

LEMMA IntactDef == StreamIntact <=> Stream = SentBytes(sent)
BY Zenon DEF StreamIntact, Stream, SentBytes, BytesOf

LEMMA CountedDef ==
  BytesCounted <=> Len(FlattenSeq(handled)) + BytesUsed(rx) + Len(wire) = Len(SentBytes(sent))
BY Zenon DEF BytesCounted, SentBytes, BytesOf

\* What the invariant says of the parts.
LEMMA Parts ==
  ASSUME CInv
  PROVE  /\ setup \in Setup /\ setup.capacity + 1 \in Nat \ {0} /\ setup.sends \in 0..MaxSend
         /\ rx \in RingsOf(setup.capacity + 1, AByte)
         /\ BytesUsed(rx) \in Nat /\ BytesFree(rx) \in Nat
         /\ Contents(rx) \in Seq(AByte) /\ Len(Contents(rx)) = BytesUsed(rx)
         /\ FlattenSeq(handled) \in Seq(AByte) /\ wire \in Seq(AByte)
<1>1. setup \in Setup /\ rx \in RingsOf(setup.capacity + 1, AByte)
  BY RxAssumption DEF CInv, TypeOK
<1>2. setup.capacity + 1 \in Nat \ {0} /\ setup.sends \in 0..MaxSend
  BY <1>1 DEF Setup
<1>3. BytesUsed(rx) \in Nat /\ BytesFree(rx) \in Nat
  BY <1>1, <1>2, Counts
<1>4. Contents(rx) \in Seq(AByte) /\ Len(Contents(rx)) = BytesUsed(rx)
  BY <1>1, <1>2, ContentsAt
<1>5. FlattenSeq(handled) \in Seq(AByte)
  BY FlattenType DEF CInv, ShapeOK
<1> QED
  BY <1>1, <1>2, <1>3, <1>4, <1>5 DEF CInv, ShapeOK

\* The steps by what they do to the stream: one message more is sent, bytes
\* are read, bytes are taken from the ring, or nothing moves.
Sends == \E m \in Message : Put(m)
Takes == /\ \E n \in 0..BytesUsed(rx) : TakeOut(n)
         /\ UNCHANGED <<setup, sent, wire>>
Rests == UNCHANGED <<setup, sent, wire, rx, handled>>

LEMMA Sizes == \A type : SizeByType(type) \in 0..9
BY DEF SizeByType, WireLen

LEMMA StepKinds ==
  ASSUME CInv, [Next]_vars
  PROVE  /\ Sends \/ AfterRead \/ Takes \/ Rests
         /\ connected' \in ChannelType \cup {"no"}
         /\ pc' \in {"loop", "handle", "parse", "abort", "closed", "overrun"}
<1>0. /\ connected \in ChannelType \cup {"no"}
      /\ pc \in {"loop", "handle", "parse", "abort", "closed", "overrun"}
  BY DEF CInv, TypeOK
<1>1. CASE Client
  <2>1. PICK m \in Message : Put(m)
    <3>1. setup.kinds \subseteq DOMAIN WireLen
      BY Parts DEF Setup
    <3> QED
      BY <1>1, <3>1 DEF Client, Connect, SendEvent, Message
  <2> QED
    BY <1>0, <2>1 DEF Sends, Put
<1>2. CASE AfterRead
  BY <1>0, <1>2 DEF AfterRead
<1>3. CASE \/ ReadOverruns \/ AfterReadNoBuffer \/ AfterReadEof
           \/ HandleOther \/ HandleEvents \/ ParseStops
  BY <1>0, <1>3 DEF ReadOverruns, AfterReadNoBuffer, AfterReadEof, HandleOther, HandleEvents,
                    ParseStops, Rests
<1>4. CASE HandleConnect
  <2>1. pc' = "loop" /\ UNCHANGED <<setup, sent, wire>>
    BY <1>4 DEF HandleConnect
  <2>2. CASE BytesUsed(rx) < ConnectLen
    BY <1>0, <1>4, <2>1, <2>2 DEF HandleConnect, Rests
  <2>3. CASE ~(BytesUsed(rx) < ConnectLen)
    <3>1. TakeOut(ConnectLen) /\ connected' \in ChannelType \cup {"no"}
      BY <1>4, <2>3 DEF HandleConnect
    <3>2. ConnectLen \in 0..BytesUsed(rx)
      BY <2>3, Parts DEF ConnectLen
    <3> QED
      BY <2>1, <3>1, <3>2 DEF Takes
  <2> QED
    BY <2>2, <2>3
<1>5. CASE ParseEvent
  <2>1. TakeOut(ExpectSize) /\ UNCHANGED <<setup, sent, wire, connected>>
        /\ pc' \in {"loop", "parse"} /\ BytesUsed(rx) >= ExpectSize
    BY <1>5 DEF ParseEvent
  <2>2. ExpectSize \in 0..BytesUsed(rx)
    <3>1. ExpectSize \in 0..9 /\ BytesUsed(rx) \in Nat
      BY Parts, Sizes DEF ExpectSize
    <3> QED
      BY <2>1, <3>1
  <2> QED
    BY <1>0, <2>1, <2>2 DEF Takes
<1>6. CASE UNCHANGED vars
  BY <1>0, <1>6 DEF vars, Rests
<1> QED
  BY <1>1, <1>2, <1>3, <1>4, <1>5, <1>6 DEF Next, Handle

LEMMA SetupKept == ASSUME [Next]_vars PROVE setup' = setup
BY DEF Next, Client, Connect, SendEvent, Put, AfterRead, ReadOverruns, AfterReadNoBuffer,
       AfterReadEof, Handle, HandleConnect, HandleOther, HandleEvents, ParseEvent, ParseStops, vars

\* A message sent is a message more on the way.
LEMMA SendStep ==
  ASSUME CInv, NEW m \in Message, Put(m)
  PROVE  /\ ShapeOK'
         /\ wire' = wire \o Bytes(m) /\ SentBytes(sent') = SentBytes(sent) \o Bytes(m)
         /\ UNCHANGED <<setup, rx, handled>>
<1>1. /\ Len(sent) < setup.sends /\ sent' = Append(sent, m) /\ wire' = wire \o Bytes(m)
      /\ UNCHANGED <<setup, rx, handled>>
  BY DEF Put
<1>2. /\ sent \in Seq(Message) /\ wire \in Seq(AByte) /\ handled \in Seq(Seq(AByte))
      /\ setup.sends \in Nat
  BY Parts DEF CInv, ShapeOK
<1>3. sent' \in Seq(Message) /\ Len(sent') <= setup.sends
  <2>1. Append(sent, m) \in Seq(Message) /\ Len(Append(sent, m)) = Len(sent) + 1
    BY <1>2, AppendProperties
  <2> QED
    BY <1>1, <1>2, <2>1
<1>4. wire' \in Seq(AByte)
  BY <1>1, <1>2, MessageBytes, ConcatProperties
<1>5. SentBytes(sent') = SentBytes(sent) \o Bytes(m)
  BY <1>1, <1>2, SentOneMore
<1> QED
  BY <1>1, <1>2, <1>3, <1>4, <1>5 DEF ShapeOK

\* What a read within the buffer does.
LEMMA ReadsOn ==
  ASSUME AfterRead
  PROVE  /\ \E n \in 1..Min2(Len(wire), BytesFree(rx)), upwards \in BOOLEAN :
              /\ Careful => Boundary(n)
              /\ n <= RoomAt(rx, rx.tail)
              /\ rx' = TakenIn(rx, SubSeq(wire, 1, n), upwards)
              /\ wire' = SubSeq(wire, n + 1, Len(wire))
         /\ pc = "loop" /\ pc' = "handle"
         /\ UNCHANGED <<setup, sent, connected, handled>>
BY DEF AfterRead, Readable

\* A read moves the first bytes of the wire into the ring.
LEMMA ReadStep ==
  ASSUME CInv, NEW n \in 1..Min2(Len(wire), BytesFree(rx)), NEW upwards \in BOOLEAN,
         n <= RoomAt(rx, rx.tail),
         rx' = TakenIn(rx, SubSeq(wire, 1, n), upwards), wire' = SubSeq(wire, n + 1, Len(wire)),
         UNCHANGED <<setup, sent, handled>>
  PROVE  /\ ShapeOK' /\ rx' \in RingsOf(setup.capacity + 1, AByte)
         /\ BytesUsed(rx') = BytesUsed(rx) + n /\ Len(wire') = Len(wire) - n
         /\ SubSeq(wire, 1, n) \in Seq(AByte) /\ wire = SubSeq(wire, 1, n) \o wire'
         /\ IsEmpty(rx) => Contents(rx') = SubSeq(wire, 1, n)
<1>1. wire \in Seq(AByte) /\ setup.capacity + 1 \in Nat \ {0}
      /\ rx \in RingsOf(setup.capacity + 1, AByte) /\ BytesFree(rx) \in Nat
  BY Parts
<1>2. n \in Nat /\ n >= 1 /\ n <= Len(wire) /\ n <= BytesFree(rx)
  BY <1>1 DEF Min2
<1>3. PICK s \in Seq(AByte) : s = SubSeq(wire, 1, n) /\ Len(s) = n /\ \A i \in 1..n : s[i] = wire[i]
  <2>1. SubSeq(wire, 1, n) \in Seq(AByte) /\ Len(SubSeq(wire, 1, n)) = n
        /\ \A i \in 1..n : SubSeq(wire, 1, n)[i] = wire[i]
    BY <1>1, <1>2
  <2> QED
    BY <2>1, Zenon
<1>4. PICK l \in Nat : l = Len(wire)
  BY <1>1
<1>5. PICK t \in Seq(AByte) : /\ t = SubSeq(wire, n + 1, Len(wire)) /\ Len(t) = l - n
                              /\ \A i \in 1..(l - n) : t[i] = wire[n + i]
  <2>1. SubSeq(wire, n + 1, Len(wire)) \in Seq(AByte) /\ Len(SubSeq(wire, n + 1, Len(wire))) = l - n
        /\ \A i \in 1..(l - n) : SubSeq(wire, n + 1, Len(wire))[i] = wire[n + i]
    BY <1>1, <1>2, <1>4
  <2> QED
    BY <2>1, Zenon
<1>6. wire = s \o t
  <2>1. s \o t \in Seq(AByte) /\ Len(s \o t) = l
        /\ \A i \in 1..l : (s \o t)[i] = IF i <= n THEN s[i] ELSE t[i - n]
    BY <1>2, <1>3, <1>4, <1>5
  <2>2. \A i \in 1..l : (s \o t)[i] = wire[i]
    <3>1. \A i \in 1..l : i <= n => i \in 1..n
      BY <1>2
    <3>2. \A i \in 1..l : ~(i <= n) => i - n \in 1..(l - n) /\ n + (i - n) = i
      BY <1>2
    <3> QED
      BY <1>3, <1>5, <2>1, <3>1, <3>2
  <2>3. PICK st \in Seq(AByte) : st = s \o t
    BY <2>1, Zenon
  <2>4. Len(wire) = Len(st) /\ \A i \in 1..Len(wire) : wire[i] = st[i]
    BY <1>4, <2>1, <2>2, <2>3, Zenon
  <2> QED
    BY <1>1, <2>3, <2>4, SeqEqual, Zenon
<1>7. Len(s) <= BytesFree(rx) /\ Len(s) <= RoomAt(rx, rx.tail)
  BY <1>2, <1>3
<1>8. /\ TakenIn(rx, s, upwards) \in RingsOf(setup.capacity + 1, AByte)
      /\ BytesUsed(TakenIn(rx, s, upwards)) = BytesUsed(rx) + Len(s)
  <2>1. PICK size \in Nat \ {0} : size = setup.capacity + 1
    BY <1>1
  <2>2. rx \in RingsOf(size, AByte)
    BY <1>1, <2>1
  <2>3. /\ TakenIn(rx, s, upwards) \in RingsOf(size, AByte)
        /\ BytesUsed(TakenIn(rx, s, upwards)) = BytesUsed(rx) + Len(s)
    <3>1. \A B : \A r \in RingsOf(size, B), d \in Seq(B) :
            Len(d) <= BytesFree(r) /\ Len(d) <= RoomAt(r, r.tail) =>
              /\ TakenIn(r, d, upwards) \in RingsOf(size, B)
              /\ BytesUsed(TakenIn(r, d, upwards)) = BytesUsed(r) + Len(d)
      BY TakenInRing
    <3> QED
      BY <1>7, <2>2, <3>1, Zenon
  <2> QED
    BY <2>1, <2>3
<1>9. IsEmpty(rx) => Contents(TakenIn(rx, s, upwards)) = s
  BY <1>1, <1>7, EmptyTakesIn, Zenon
<1>10. rx' = TakenIn(rx, s, upwards) /\ wire' = t
  BY <1>3, <1>5
<1>11. ShapeOK'
  BY <1>5, <1>10 DEF ShapeOK, CInv
<1> QED
  BY <1>3, <1>4, <1>5, <1>6, <1>8, <1>9, <1>10, <1>11, Zenon

\* What is taken from the ring was first in it, and is handled last.
LEMMA TakeStep ==
  ASSUME CInv, NEW n \in 0..BytesUsed(rx), TakeOut(n), UNCHANGED <<setup, sent, wire>>
  PROVE  /\ ShapeOK' /\ rx' \in RingsOf(setup.capacity + 1, AByte)
         /\ BytesUsed(rx') = BytesUsed(rx) - n
         /\ Held(n) \in Seq(AByte) /\ Len(Held(n)) = n
         /\ Contents(rx) = Held(n) \o Contents(rx')
         /\ FlattenSeq(handled') = FlattenSeq(handled) \o Held(n)
<1>1. setup.capacity + 1 \in Nat \ {0} /\ rx \in RingsOf(setup.capacity + 1, AByte)
      /\ handled \in Seq(Seq(AByte)) /\ FlattenSeq(handled) \in Seq(AByte)
  BY Parts DEF CInv, ShapeOK
<1>2. rx' = Moved(rx, n) /\ handled' = IF n = 0 THEN handled ELSE Append(handled, Held(n))
  BY Zenon DEF TakeOut, Moved
<1>3. Moved(rx, n) \in RingsOf(setup.capacity + 1, AByte)
  BY <1>1, MovedRing, Zenon
<1>4. /\ BytesUsed(Moved(rx, n)) = BytesUsed(rx) - n
      /\ Held(n) \in Seq(AByte) /\ Len(Held(n)) = n
      /\ Contents(rx) = Held(n) \o Contents(Moved(rx, n))
  BY <1>1, MovedContents, Zenon DEF Held
<1>5. handled' \in Seq(Seq(AByte)) /\ FlattenSeq(handled') = FlattenSeq(handled) \o Held(n)
  <2>1. PICK h \in Seq(AByte) : h = Held(n) /\ Len(h) = n
    BY <1>4, Zenon
  <2>2. CASE n = 0
    <3>1. h = <<>> /\ handled' = handled
      BY <1>2, <2>1, <2>2, EmptySeq
    <3> QED
      BY <1>1, <2>1, <3>1, ConcatEmptySeq
  <2>3. CASE n # 0
    <3>1. handled' = Append(handled, h)
      BY <1>2, <2>1, <2>3, Zenon
    <3>2. Append(handled, h) \in Seq(Seq(AByte))
      BY <1>1, AppendProperties, Zenon
    <3>3. FlattenSeq(Append(handled, h)) = FlattenSeq(handled) \o h
      BY <1>1, FlattenOneMore, Zenon
    <3> QED
      BY <2>1, <3>1, <3>2, <3>3, Zenon
  <2> QED
    BY <2>2, <2>3
<1>6. ShapeOK'
  BY <1>5 DEF ShapeOK, CInv
<1> QED
  BY <1>2, <1>3, <1>4, <1>5, <1>6, Zenon

LEMMA InitCInv == Init => CInv
<1> SUFFICES ASSUME Init PROVE CInv
  OBVIOUS
<1>1. /\ setup \in Setups /\ setup \in Setup
      /\ sent = <<>> /\ wire = <<>> /\ handled = <<>> /\ connected = "no" /\ pc = "loop"
      /\ rx = [buf |-> [p \in 0..setup.capacity |-> Junk], size |-> setup.capacity + 1,
               head |-> 0, tail |-> 0]
  BY RxAssumption DEF Init
<1>2. PICK size \in Nat \ {0} : size = setup.capacity + 1 /\ size - 1 = setup.capacity
  BY <1>1 DEF Setup
<1>3. rx \in RingsOf(size, AByte)
  <2>1. [p \in 0..setup.capacity |-> Junk] \in [0..(size - 1) -> AByte]
    BY <1>2, JunkByte
  <2> QED
    BY <1>1, <1>2, <2>1 DEF RingsOf
<1>4. setup.sends \in 0..MaxSend /\ MaxSend \in Nat
  BY <1>1, RxAssumption DEF Setup
<1>5. TypeOK
  BY <1>1, <1>2, <1>3, <1>4 DEF TypeOK
<1>6. ShapeOK
  BY <1>1, <1>4 DEF ShapeOK
<1>7. BytesCounted
  <2>1. rx.head = rx.tail
    BY <1>1
  <2>2. BytesUsed(rx) = 0
    BY <1>3, <2>1, Counts
  <2> QED
    BY <1>1, <2>2, SentNone, FlattenNone, CountedDef
<1> QED
  BY <1>5, <1>6, <1>7 DEF CInv

LEMMA NextCInv == ASSUME CInv, [Next]_vars PROVE CInv'
<1>1. /\ setup \in Setups /\ setup.sends \in 0..MaxSend /\ MaxSend \in Nat
      /\ rx \in RingsOf(setup.capacity + 1, AByte)
      /\ BytesUsed(rx) \in Nat /\ BytesFree(rx) \in Nat
      /\ FlattenSeq(handled) \in Seq(AByte) /\ wire \in Seq(AByte) /\ sent \in Seq(Message)
      /\ Len(FlattenSeq(handled)) + BytesUsed(rx) + Len(wire) = Len(SentBytes(sent))
  BY Parts, CountedDef, RxAssumption DEF CInv, TypeOK, ShapeOK
<1>2. SentBytes(sent) \in Seq(AByte)
  BY <1>1, SentType
<1> DEFINE Counted(f, r, w, q) == Len(f) + BytesUsed(r) + Len(w) = Len(SentBytes(q))
<1>3. ASSUME ShapeOK', setup' = setup, rx' \in RingsOf(setup.capacity + 1, AByte),
             Counted(FlattenSeq(handled'), rx', wire', sent')
      PROVE  CInv'
  <2>1. /\ connected' \in ChannelType \cup {"no"}
        /\ pc' \in {"loop", "handle", "parse", "abort", "closed", "overrun"}
    BY StepKinds
  <2>2. Len(sent') <= MaxSend
    <3>1. PICK l \in Nat : l = Len(sent') /\ l <= setup.sends
      BY <1>3 DEF ShapeOK
    <3>2. \A k \in 0..MaxSend : l <= k => l <= MaxSend
      BY <1>1
    <3> QED
      BY <1>1, <3>1, <3>2, Zenon
  <2>3. TypeOK'
    BY <1>1, <1>3, <2>1, <2>2 DEF TypeOK
  <2>4. BytesCounted'
    BY <1>3, Zenon DEF BytesCounted, SentBytes, BytesOf
  <2> QED
    BY <1>3, <2>3, <2>4 DEF CInv
<1>4. CASE Sends
  <2>1. PICK m \in Message : Put(m)
    BY <1>4 DEF Sends
  <2>2. /\ ShapeOK' /\ wire' = wire \o Bytes(m) /\ SentBytes(sent') = SentBytes(sent) \o Bytes(m)
        /\ UNCHANGED <<setup, rx, handled>>
    BY <2>1, SendStep
  <2>3. PICK e \in Seq(AByte) : e = Bytes(m)
    BY MessageBytes, Zenon
  <2>4. Len(wire \o e) = Len(wire) + Len(e) /\ Len(SentBytes(sent) \o e) = Len(SentBytes(sent)) + Len(e)
    BY <1>1, <1>2, ConcatProperties
  <2>5. Counted(FlattenSeq(handled), rx, wire \o e, sent')
    <3>1. Len(SentBytes(sent')) = Len(SentBytes(sent)) + Len(e)
      BY <2>2, <2>3, <2>4, Zenon
    <3>2. PICK a \in Nat, b \in Nat, c \in Nat, d \in Nat :
            /\ a = Len(FlattenSeq(handled)) /\ b = BytesUsed(rx)
            /\ c = Len(wire) /\ d = Len(e)
      BY <1>1
    <3>3. Len(SentBytes(sent)) = a + b + c
      BY <1>1, <3>2, Zenon
    <3>4. a + b + (c + d) = (a + b + c) + d
      OBVIOUS
    <3> QED
      BY <2>4, <3>1, <3>2, <3>3, <3>4, Zenon
  <2> QED
    BY <1>1, <1>3, <2>2, <2>3, <2>5
<1>5. CASE AfterRead
  <2>1. PICK n \in 1..Min2(Len(wire), BytesFree(rx)), upwards \in BOOLEAN :
          /\ n <= RoomAt(rx, rx.tail)
          /\ rx' = TakenIn(rx, SubSeq(wire, 1, n), upwards)
          /\ wire' = SubSeq(wire, n + 1, Len(wire))
    BY <1>5, ReadsOn
  <2>2. UNCHANGED <<setup, sent, handled>>
    BY <1>5, ReadsOn
  <2>3. /\ ShapeOK' /\ rx' \in RingsOf(setup.capacity + 1, AByte)
        /\ BytesUsed(rx') = BytesUsed(rx) + n /\ Len(wire') = Len(wire) - n
    BY <2>1, <2>2, ReadStep
  <2>4. PICK a \in Nat, b \in Nat, c \in Nat, k \in Nat :
          a = Len(FlattenSeq(handled)) /\ b = BytesUsed(rx) /\ c = Len(wire) /\ k = n
    BY <1>1
  <2>5. Counted(FlattenSeq(handled'), rx', wire', sent')
    <3>1. a + (b + k) + (c - k) = a + b + c
      OBVIOUS
    <3>2. Len(SentBytes(sent)) = a + b + c /\ BytesUsed(rx') = b + k /\ Len(wire') = c - k
      BY <1>1, <2>3, <2>4, Zenon
    <3> QED
      BY <2>2, <2>4, <3>1, <3>2, Zenon
  <2> QED
    BY <1>3, <2>2, <2>3, <2>5
<1>6. CASE Takes
  <2>1. PICK n \in 0..BytesUsed(rx) : TakeOut(n)
    BY <1>6 DEF Takes
  <2>2. UNCHANGED <<setup, sent, wire>>
    BY <1>6 DEF Takes
  <2>3. /\ ShapeOK' /\ rx' \in RingsOf(setup.capacity + 1, AByte)
        /\ BytesUsed(rx') = BytesUsed(rx) - n
        /\ Held(n) \in Seq(AByte) /\ Len(Held(n)) = n
        /\ FlattenSeq(handled') = FlattenSeq(handled) \o Held(n)
    BY <2>1, <2>2, TakeStep
  <2>4. PICK h \in Seq(AByte) : h = Held(n)
    BY <2>3, Zenon
  <2>5. Len(FlattenSeq(handled) \o h) = Len(FlattenSeq(handled)) + n
    <3>1. Len(FlattenSeq(handled) \o h) = Len(FlattenSeq(handled)) + Len(h)
      BY <1>1, ConcatProperties, Zenon
    <3> QED
      BY <2>3, <2>4, <3>1, Zenon
  <2>6. Counted(FlattenSeq(handled'), rx', wire', sent')
    <3>1. PICK a \in Nat, b \in Nat, c \in Nat, k \in Nat :
            a = Len(FlattenSeq(handled)) /\ b = BytesUsed(rx) /\ c = Len(wire) /\ k = n
      BY <1>1
    <3>2. (a + k) + (b - k) + c = a + b + c
      OBVIOUS
    <3>3. /\ Len(SentBytes(sent)) = a + b + c /\ BytesUsed(rx') = b - k
          /\ Len(FlattenSeq(handled')) = a + k
      BY <1>1, <2>3, <2>4, <2>5, <3>1, Zenon
    <3> QED
      BY <2>2, <3>1, <3>2, <3>3, Zenon
  <2> QED
    BY <1>3, <2>2, <2>3, <2>6
<1>7. CASE Rests
  <2>1. ShapeOK' /\ Counted(FlattenSeq(handled'), rx', wire', sent')
    BY <1>1, <1>7 DEF Rests, CInv, ShapeOK
  <2> QED
    BY <1>1, <1>3, <1>7, <2>1 DEF Rests
<1> QED
  BY <1>4, <1>5, <1>6, <1>7, StepKinds

\* The invariant the others rest on.
THEOREM CountInvariance == Spec => []CInv
<1>1. Init => CInv
  BY InitCInv
<1>2. CInv /\ [Next]_vars => CInv'
  BY NextCInv
<1> QED
  BY <1>1, <1>2, PTL DEF Spec

\* The ring keeps its shape whatever libuv stores at its tail and however the
\* memcpys in after_read overlap: both offsets stay in the buffer.
THEOREM RxTypeCorrect == Spec => []TypeOK
<1>1. CInv => TypeOK
  BY DEF CInv
<1> QED
  BY <1>1, CountInvariance, PTL

\* However the stream is cut up, and whatever becomes of the contents, the
\* ring's counts account for every byte from the client's send to the parser.
THEOREM BytesCountedCorrect == Spec => []BytesCounted
<1>1. CInv => BytesCounted
  BY DEF CInv
<1> QED
  BY <1>1, CountInvariance, PTL

-----------------------------------------------------------------------------
(* Which steps keep the stream intact. *)

\* A step other than a read into a ring that holds bytes neither spoils the
\* stream nor mends it.
LEMMA IntactKept ==
  ASSUME CInv, [Next]_vars, IsEmpty(rx) \/ ~AfterRead
  PROVE  StreamIntact <=> StreamIntact'
<1>1. /\ rx \in RingsOf(setup.capacity + 1, AByte) /\ setup.capacity + 1 \in Nat \ {0}
      /\ sent \in Seq(Message)
  BY Parts DEF CInv, ShapeOK
<1>2. PICK f \in Seq(AByte), c \in Seq(AByte), w \in Seq(AByte), q \in Seq(AByte) :
        f = FlattenSeq(handled) /\ c = Contents(rx) /\ w = wire /\ q = SentBytes(sent)
  <2>1. SentBytes(sent) \in Seq(AByte)
    BY <1>1, SentType
  <2> QED
    BY <2>1, Parts, Zenon
<1>3. StreamIntact <=> (f \o c) \o w = q
  BY <1>2, IntactDef, Zenon DEF Stream
<1>4. StreamIntact' <=> (FlattenSeq(handled') \o Contents(rx')) \o wire' = SentBytes(sent')
  BY Zenon DEF StreamIntact, SentBytes, BytesOf
<1>5. CASE Sends
  <2>1. PICK m \in Message : Put(m)
    BY <1>5 DEF Sends
  <2>2. PICK e \in Seq(AByte) : e = Bytes(m)
    BY MessageBytes, Zenon
  <2>3. /\ wire' = w \o e /\ SentBytes(sent') = q \o e
        /\ FlattenSeq(handled') = f /\ Contents(rx') = c
    BY <1>2, <2>1, <2>2, SendStep
  <2>4. f \o c \in Seq(AByte)
    BY ConcatProperties
  <2>5. (f \o c) \o (w \o e) = ((f \o c) \o w) \o e /\ (f \o c) \o w \in Seq(AByte)
    <3>1. PICK g \in Seq(AByte) : g = f \o c
      BY <2>4, Zenon
    <3>2. Regroups(g, w, e)
      BY AssocBytes, Zenon
    <3>3. g \o w \in Seq(AByte)
      BY JoinBytes, Zenon
    <3> QED
      BY <3>1, <3>2, <3>3, Zenon DEF Regroups
  <2>6. ((f \o c) \o w) \o e = q \o e <=> (f \o c) \o w = q
    BY <2>5, ConcatSimplifications
  <2> QED
    BY <1>3, <1>4, <2>3, <2>5, <2>6, Zenon
<1>6. CASE AfterRead /\ IsEmpty(rx)
  <2>1. PICK s \in Seq(AByte), t \in Seq(AByte) :
          /\ wire = s \o t /\ Contents(rx') = s /\ wire' = t
          /\ UNCHANGED <<setup, sent, handled>>
    <3>1. PICK n \in 1..Min2(Len(wire), BytesFree(rx)), upwards \in BOOLEAN :
            /\ n <= RoomAt(rx, rx.tail)
            /\ rx' = TakenIn(rx, SubSeq(wire, 1, n), upwards)
            /\ wire' = SubSeq(wire, n + 1, Len(wire))
      BY <1>6, ReadsOn
    <3>2. UNCHANGED <<setup, sent, handled>>
      BY <1>6, ReadsOn
    <3>3. /\ ShapeOK'
          /\ SubSeq(wire, 1, n) \in Seq(AByte) /\ wire = SubSeq(wire, 1, n) \o wire'
          /\ Contents(rx') = SubSeq(wire, 1, n)
      BY <1>6, <3>1, <3>2, ReadStep
    <3> QED
      BY <3>2, <3>3, Zenon DEF ShapeOK
  <2>2. c = <<>>
    <3>1. Len(c) = 0
      BY <1>1, <1>2, <1>6, ContentsAt, Counts
    <3> QED
      BY <3>1, EmptySeq
  <2>3. (f \o c) \o w = (f \o s) \o t
    <3>1. f \o c = f /\ w = s \o t
      BY <1>2, <2>1, <2>2, ConcatEmptySeq
    <3>2. Regroups(f, s, t)
      BY AssocBytes, Zenon
    <3> QED
      BY <3>1, <3>2, Zenon DEF Regroups
  <2>4. FlattenSeq(handled') = f /\ Contents(rx') = s /\ wire' = t /\ SentBytes(sent') = q
    BY <1>2, <2>1
  <2> QED
    BY <1>3, <1>4, <2>3, <2>4, Zenon
<1>7. CASE Takes
  <2>1. PICK h \in Seq(AByte), d \in Seq(AByte) :
          /\ c = h \o d /\ d = Contents(rx') /\ FlattenSeq(handled') = f \o h
          /\ UNCHANGED <<setup, sent, wire>>
    <3>1. PICK n \in 0..BytesUsed(rx) : TakeOut(n)
      BY <1>7 DEF Takes
    <3>2. UNCHANGED <<setup, sent, wire>>
      BY <1>7 DEF Takes
    <3>3. /\ rx' \in RingsOf(setup.capacity + 1, AByte)
          /\ Held(n) \in Seq(AByte)
          /\ Contents(rx) = Held(n) \o Contents(rx')
          /\ FlattenSeq(handled') = FlattenSeq(handled) \o Held(n)
      BY <3>1, <3>2, TakeStep
    <3>4. Contents(rx') \in Seq(AByte)
      BY <1>1, <3>3, ContentsAt
    <3> QED
      BY <1>2, <3>2, <3>3, <3>4, Zenon
  <2>2. Regroups(f, h, d)
    BY AssocBytes, Zenon
  <2>3. FlattenSeq(handled') = f \o h /\ Contents(rx') = d /\ wire' = w /\ SentBytes(sent') = q
    BY <1>2, <2>1
  <2> QED
    BY <1>3, <1>4, <2>1, <2>2, <2>3, Zenon DEF Regroups
<1>8. CASE Rests
  <2>1. FlattenSeq(handled') = f /\ Contents(rx') = c /\ wire' = w /\ SentBytes(sent') = q
    BY <1>2, <1>8 DEF Rests
  <2> QED
    BY <1>3, <1>4, <2>1, Zenon
<1> QED
  BY <1>5, <1>6, <1>7, <1>8, StepKinds

\* A read that stays within the buffer spoils the stream only when it finds
\* bytes in the ring: into an empty one it goes unaltered, although after_read
\* then copies the bytes onto themselves, wherever head and tail are.
THEOREM DamageCorrect == Spec => DamageNeedsLeftovers
<1>1. CInv /\ [Next]_vars => [StreamIntact /\ IsEmpty(rx) => StreamIntact']_vars
  BY IntactKept
<1> QED
  BY <1>1, CountInvariance, PTL DEF Spec, DamageNeedsLeftovers

-----------------------------------------------------------------------------
(* Whole messages. *)

\* An item that begins as a message does has that message's length.
Led(h) == h # <<>> /\ (h[1].at = 1 => Len(h) = SizeByType(h[1].of))

\* Two beginnings of one sequence that are equally long.
LEMMA SameStart ==
  ASSUME NEW S, NEW s \in Seq(S), NEW t \in Seq(S), NEW x \in Seq(S), NEW y \in Seq(S),
         s \o x = t \o y, Len(s) = Len(t)
  PROVE  s = t
<1>1. \A i \in 1..Len(s) : (s \o x)[i] = s[i] /\ (t \o y)[i] = t[i]
  OBVIOUS
<1>2. \A i \in 1..Len(s) : s[i] = t[i]
  BY <1>1, Zenon
<1> QED
  BY <1>2, SeqEqual

LEMMA SameFirst ==
  ASSUME NEW S, NEW s \in Seq(S), NEW t \in Seq(S), NEW x \in Seq(S), NEW y \in Seq(S),
         s \o x = t \o y, NEW i \in Nat, 1 <= i, i <= Len(s), i <= Len(t)
  PROVE  s[i] = t[i]
<1>1. (s \o x)[i] = s[i] /\ (t \o y)[i] = t[i]
  OBVIOUS
<1> QED
  BY <1>1, Zenon

\* The bytes sent, cut before a message.
Before(q, k) == FlattenSeq(SubSeq(BytesOf(q), 1, k))

LEMMA BeforeType ==
  ASSUME NEW q \in Seq(Message), NEW k \in 0..Len(q)
  PROVE  Before(q, k) \in Seq(AByte)
<1>1. BytesOf(q) \in Seq(Seq(AByte)) /\ k \in 0..Len(BytesOf(q))
  BY BytesOfMessages
<1> QED
  BY <1>1, FlattenSome DEF Before

LEMMA BeforeAll ==
  ASSUME NEW q \in Seq(Message)
  PROVE  Before(q, Len(q)) = SentBytes(q)
<1>1. BytesOf(q) \in Seq(Seq(AByte)) /\ Len(q) = Len(BytesOf(q))
  BY BytesOfMessages
<1>2. SubSeq(BytesOf(q), 1, Len(BytesOf(q))) = BytesOf(q)
  BY <1>1, SubSeqFull
<1> QED
  BY <1>1, <1>2, Zenon DEF Before, SentBytes

LEMMA SentFrom ==
  ASSUME NEW q \in Seq(Message), NEW k \in 0..(Len(q) - 1)
  PROVE  \E rest \in Seq(AByte) : SentBytes(q) = Before(q, k) \o (Bytes(q[k + 1]) \o rest)
<1>1. PICK rest \in Seq(AByte) : SentBytes(q) = (Before(q, k) \o Bytes(q[k + 1])) \o rest
  BY SentSplits DEF Before
<1>2. PICK g \in Seq(AByte) : g = Before(q, k)
  <2>1. k \in 0..Len(q)
    OBVIOUS
  <2> QED
    BY <2>1, BeforeType, Zenon
<1>3. PICK e \in Seq(AByte) : e = Bytes(q[k + 1])
  <2>1. q[k + 1] \in Message
    OBVIOUS
  <2> QED
    BY <2>1, MessageBytes, Zenon
<1>4. Regroups(g, e, rest)
  BY AssocBytes, Zenon
<1> QED
  BY <1>1, <1>2, <1>3, <1>4, Zenon DEF Regroups

\* Items that were taken from the front of an intact stream, and whose lengths
\* are those of the messages they begin as, are the messages sent.
Openings(hs) ==
  /\ hs # <<>> => Len(hs[1]) = ConnectLen
  /\ \A m \in ChannelType : hs # <<>> /\ hs[1] = Bytes(m) => \A i \in 2..Len(hs) : Led(hs[i])

FrontIs(hs, q, k) == k <= Len(q) /\ \A j \in 1..k : hs[j] = Bytes(q[j])

LEMMA FrontFlat ==
  ASSUME NEW hs \in Seq(Seq(AByte)), NEW q \in Seq(Message), NEW k \in 0..Len(hs),
         FrontIs(hs, q, k)
  PROVE  FlattenSeq(SubSeq(hs, 1, k)) = Before(q, k)
<1>1. k <= Len(q) /\ \A j \in 1..k : hs[j] = Bytes(q[j])
  BY DEF FrontIs
<1>2. PICK b \in Seq(Seq(AByte)) : b = BytesOf(q) /\ Len(b) = Len(q)
                                   /\ \A i \in 1..Len(q) : b[i] = Bytes(q[i])
  BY BytesOfMessages, Zenon
<1>3. SubSeq(hs, 1, k) \in Seq(Seq(AByte)) /\ Len(SubSeq(hs, 1, k)) = k
      /\ \A i \in 1..k : SubSeq(hs, 1, k)[i] = hs[i]
  OBVIOUS
<1>4. SubSeq(b, 1, k) \in Seq(Seq(AByte)) /\ Len(SubSeq(b, 1, k)) = k
      /\ \A i \in 1..k : SubSeq(b, 1, k)[i] = b[i]
  BY <1>1, <1>2
<1>5. \A i \in 1..k : hs[i] = b[i]
  <2>1. \A i \in 1..k : i \in 1..Len(q)
    BY <1>1
  <2> QED
    BY <1>1, <1>2, <2>1, Zenon
<1>6. PICK u \in Seq(Seq(AByte)), v \in Seq(Seq(AByte)) : u = SubSeq(hs, 1, k) /\ v = SubSeq(b, 1, k)
  BY <1>3, <1>4, Zenon
<1>7. Len(u) = Len(v) /\ \A i \in 1..Len(u) : u[i] = v[i]
  BY <1>3, <1>4, <1>5, <1>6, Zenon
<1>8. u = v
  BY <1>7, SeqEqual, Zenon
<1> QED
  BY <1>2, <1>6, <1>8, Zenon DEF Before

\* A sequence of messages as every client sends them.
Opens(q) == /\ q # <<>> => q[1] \in ChannelType
            /\ \A i \in 2..Len(q) : q[i] \notin ChannelType

\* What follows the first k items is what follows the first k messages.
LEMMA Onwards ==
  ASSUME NEW hs \in Seq(Seq(AByte)), NEW q \in Seq(Message), NEW k \in 0..(Len(hs) - 1),
         FrontIs(hs, q, k), NEW behind \in Seq(AByte),
         FlattenSeq(hs) \o behind = SentBytes(q), hs[k + 1] # <<>>
  PROVE  /\ k < Len(q)
         /\ \E x, y \in Seq(AByte) : hs[k + 1] \o x = Bytes(q[k + 1]) \o y
<1>1. k \in Nat /\ k + 1 \in 1..Len(hs) /\ k \in 0..Len(hs) /\ k <= Len(q) /\ k \in 0..Len(q)
  BY DEF FrontIs
<1>2. PICK h \in Seq(AByte) : h = hs[k + 1]
  BY <1>1
<1>3. PICK g \in Seq(AByte) : g = Before(q, k) /\ g = FlattenSeq(SubSeq(hs, 1, k))
  BY <1>1, BeforeType, FrontFlat, Zenon
<1>4. PICK r \in Seq(AByte) : FlattenSeq(hs) = (g \o h) \o r
  <2>1. \E rest \in Seq(AByte) :
          FlattenSeq(hs) = (FlattenSeq(SubSeq(hs, 1, k)) \o hs[k + 1]) \o rest
    BY FlattenSplits, Zenon
  <2> QED
    BY <1>2, <1>3, <2>1, Zenon
<1>5. PICK x \in Seq(AByte) : x = r \o behind
  BY JoinBytes, Zenon
<1>6. SentBytes(q) = g \o (h \o x) /\ h \o x \in Seq(AByte)
  <2>1. PICK gh \in Seq(AByte) : gh = g \o h
    BY JoinBytes, Zenon
  <2>2. Regroups(gh, r, behind)
    BY AssocBytes, Zenon
  <2>3. Regroups(g, h, x)
    BY AssocBytes, Zenon
  <2>4. h \o x \in Seq(AByte)
    BY JoinBytes, Zenon
  <2> QED
    BY <1>4, <1>5, <2>1, <2>2, <2>3, <2>4, Zenon DEF Regroups
<1>7. k < Len(q)
  <2> SUFFICES ASSUME k = Len(q) PROVE FALSE
    BY <1>1
  <2>1. g \o (h \o x) = g
    BY <1>3, <1>6, BeforeAll, Zenon
  <2>2. h \o x = <<>>
    BY <1>6, <2>1, ConcatSimplifications
  <2>3. h = <<>>
    BY <2>2, ConcatSimplifications
  <2> QED
    BY <1>2, <2>3
<1>8. PICK y \in Seq(AByte) : SentBytes(q) = g \o (Bytes(q[k + 1]) \o y)
  <2>1. k \in 0..(Len(q) - 1)
    BY <1>1, <1>7
  <2> QED
    BY <1>3, <2>1, SentFrom, Zenon
<1>9. PICK e \in Seq(AByte) : e = Bytes(q[k + 1])
  <2>1. k + 1 \in 1..Len(q)
    BY <1>1, <1>7
  <2>2. q[k + 1] \in Message
    BY <2>1, ElementOfSeq, Zenon
  <2> QED
    BY <2>2, MessageBytes, Zenon
<1>10. h \o x = e \o y
  <2>1. e \o y \in Seq(AByte)
    BY ConcatProperties
  <2>2. g \o (h \o x) = g \o (e \o y)
    BY <1>6, <1>8, <1>9, Zenon
  <2>3. PICK hx \in Seq(AByte), ey \in Seq(AByte) : hx = h \o x /\ ey = e \o y
    BY <1>6, <2>1, Zenon
  <2> QED
    BY <2>2, <2>3, CancelBytes, Zenon
<1> QED
  BY <1>2, <1>7, <1>9, <1>10, Zenon

LEMMA MatchNext ==
  ASSUME NEW hs \in Seq(Seq(AByte)), NEW q \in Seq(Message), NEW k \in 0..(Len(hs) - 1),
         FrontIs(hs, q, k), NEW behind \in Seq(AByte),
         FlattenSeq(hs) \o behind = SentBytes(q), Openings(hs), Opens(q)
  PROVE  FrontIs(hs, q, k + 1)
<1>1. /\ k \in Nat /\ k + 1 \in 1..Len(hs) /\ k <= Len(q) /\ hs # <<>>
      /\ \A j \in 1..k : hs[j] = Bytes(q[j])
  BY DEF FrontIs
<1>2. PICK h \in Seq(AByte) : h = hs[k + 1]
  BY <1>1
<1>3. k # 0 => Led(h)
  <2> SUFFICES ASSUME k # 0 PROVE Led(h)
    OBVIOUS
  <2>1. 1 \in 1..k /\ q # <<>> /\ k + 1 \in 2..Len(hs)
    BY <1>1
  <2>2. q[1] \in ChannelType /\ hs[1] = Bytes(q[1])
    BY <1>1, <2>1 DEF Opens
  <2> QED
    BY <1>1, <1>2, <2>1, <2>2, Zenon DEF Openings
<1>4. k = 0 => Len(h) = ConnectLen
  BY <1>1, <1>2 DEF Openings
<1>5. h # <<>> /\ Len(h) \in Nat \ {0}
  <2>1. k # 0 => h # <<>>
    BY <1>3 DEF Led
  <2>2. k = 0 => h # <<>>
    <3>1. Len(<<>>) = 0 /\ ConnectLen # 0
      BY DEF ConnectLen
    <3> QED
      BY <1>4, <3>1
  <2>3. h # <<>>
    BY <2>1, <2>2
  <2> QED
    BY <2>3, EmptySeq
<1>6. k < Len(q) /\ \E x, y \in Seq(AByte) : hs[k + 1] \o x = Bytes(q[k + 1]) \o y
  BY <1>2, <1>5, Onwards
<1>7. PICK m \in Message : m = q[k + 1]
  <2>1. k + 1 \in 1..Len(q)
    BY <1>1, <1>6
  <2> QED
    BY <2>1, ElementOfSeq, Zenon
<1>8. PICK e \in Seq(AByte) : /\ e = Bytes(m) /\ Len(e) = MessageLen(m)
                              /\ \A i \in 1..MessageLen(m) : e[i] = [of |-> m, at |-> i]
  BY MessageBytes, Zenon
<1>9. PICK x \in Seq(AByte), y \in Seq(AByte) : h \o x = e \o y
  BY <1>2, <1>6, <1>7, <1>8, Zenon
<1>10. Len(h) = Len(e)
  <2>1. CASE k = 0
    <3>1. m \in ChannelType
      BY <1>6, <1>7, <2>1 DEF Opens
    <3> QED
      BY <1>4, <1>8, <2>1, <3>1, Lengths
  <2>2. CASE k # 0
    <3>1. k + 1 \in 2..Len(q)
      BY <1>1, <1>6, <2>2
    <3>2. m \notin ChannelType
      BY <1>7, <3>1 DEF Opens
    <3>3. Len(h) \in Nat /\ 1 <= Len(h) /\ 1 <= Len(e) /\ 1 \in 1..MessageLen(m)
      <4>1. MessageLen(m) \in 1..9
        BY Lengths
      <4>2. PICK a \in 1..9 : a = MessageLen(m)
        BY <4>1, Zenon
      <4>3. PICK b \in Nat \ {0} : b = Len(h)
        BY <1>5, Zenon
      <4>4. 1 <= a /\ 1 \in 1..a /\ b \in Nat /\ 1 <= b
        OBVIOUS
      <4> QED
        BY <1>8, <4>2, <4>3, <4>4, Zenon
    <3>4. h[1] = e[1]
      BY <1>9, <3>3, SameFirst
    <3>5. h[1].at = 1 /\ h[1].of = m
      <4>1. h[1] = [of |-> m, at |-> 1]
        BY <1>8, <3>3, <3>4, Zenon
      <4> QED
        BY <4>1
    <3>6. Len(h) = SizeByType(m)
      BY <1>3, <2>2, <3>5 DEF Led
    <3> QED
      BY <1>8, <3>2, <3>3, <3>6, Lengths
  <2> QED
    BY <2>1, <2>2
<1>11. h = e
  BY <1>9, <1>10, SameStart
<1>12. \A j \in 1..(k + 1) : hs[j] = Bytes(q[j])
  <2>1. \A j \in 1..(k + 1) : j \in 1..k \/ j = k + 1
    BY <1>1
  <2> QED
    BY <1>1, <1>2, <1>7, <1>8, <1>11, <2>1, Zenon
<1> QED
  BY <1>1, <1>6, <1>12 DEF FrontIs

LEMMA Matching ==
  ASSUME NEW hs \in Seq(Seq(AByte)), NEW q \in Seq(Message), NEW behind \in Seq(AByte),
         FlattenSeq(hs) \o behind = SentBytes(q), Openings(hs), Opens(q)
  PROVE  FrontIs(hs, q, Len(hs))
<1> DEFINE Ns == {k \in Nat : k <= Len(hs) => FrontIs(hs, q, k)}
<1>1. 0 \in Ns
  BY DEF FrontIs
<1>2. ASSUME NEW k \in Ns PROVE k + 1 \in Ns
  <2>1. k \in Nat /\ k + 1 \in Nat
    OBVIOUS
  <2> SUFFICES ASSUME k + 1 <= Len(hs) PROVE FrontIs(hs, q, k + 1)
    BY <2>1
  <2>2. k \in 0..(Len(hs) - 1) /\ k <= Len(hs)
    BY <2>1
  <2>3. FrontIs(hs, q, k)
    BY <2>2
  <2> QED
    BY <2>2, <2>3, MatchNext
<1>3. Ns = Nat
  <2> HIDE DEF Ns
  <2>1. Ns \in SUBSET Nat
    BY DEF Ns
  <2> QED
    BY <1>1, <1>2, <2>1, UpTo, Zenon
<1>4. Len(hs) \in Nat /\ Len(hs) <= Len(hs)
  OBVIOUS
<1>5. Len(hs) \in Ns
  BY <1>3, <1>4, Zenon
<1> QED
  BY <1>4, <1>5, Zenon

\* The items taken on a channel that is connected as c says: a connect message
\* first and, if it was one, items behind it that have the lengths of events.
Taken(hs, c) ==
  /\ c # "no" => hs # <<>>
  /\ hs # <<>> => Len(hs[1]) = ConnectLen
  /\ \A m \in ChannelType : hs # <<>> /\ hs[1] = Bytes(m) =>
       c = m /\ \A i \in 2..Len(hs) : Led(hs[i])

\* What is sent and taken first is a connect message, and events follow.
OpeningOK == Opens(sent) /\ Taken(handled, connected)

\* The ring holds something while the callback looks at it.
CallbackOK ==
  /\ pc = "parse" => connected = "EVENT"
  /\ pc \in {"handle", "parse"} => BytesUsed(rx) > 0

\* What is on its way from a careful client begins with a message.
MannersOK ==
  Careful => /\ wire # <<>> => wire[1].at = 1
             /\ setup.manners = "awaits" /\ Len(sent) > 1 => connected = "EVENT"

Awaited == setup.manners = "awaits" => StreamIntact /\ (pc = "loop" => IsEmpty(rx))

Emptied ==
  Careful /\ StreamIntact /\ pc = "loop" /\ connected = "EVENT" =>
    IsEmpty(rx) \/ (setup.manners = "eager" /\ Len(handled) = 1)

\* While the stream is intact the items handled are the messages sent.
LEMMA Matched ==
  ASSUME CInv, OpeningOK, StreamIntact
  PROVE  /\ FrontIs(handled, sent, Len(handled))
         /\ SentBytes(sent) = FlattenSeq(handled) \o (Contents(rx) \o wire)
<1>1. handled \in Seq(Seq(AByte)) /\ sent \in Seq(Message)
  BY DEF CInv, ShapeOK
<1>2. PICK f \in Seq(AByte), c \in Seq(AByte), w \in Seq(AByte) :
        f = FlattenSeq(handled) /\ c = Contents(rx) /\ w = wire
  BY Parts, Zenon
<1>3. (f \o c) \o w = SentBytes(sent)
  BY <1>2, IntactDef, Zenon DEF Stream
<1>4. Regroups(f, c, w)
  BY AssocBytes, Zenon
<1>5. PICK b \in Seq(AByte) : b = c \o w
  BY ConcatProperties
<1>6. FlattenSeq(handled) \o b = SentBytes(sent)
  BY <1>2, <1>3, <1>4, <1>5, Zenon DEF Regroups
<1>7. Opens(sent)
  BY DEF OpeningOK
<1>8. Openings(handled)
  BY Zenon DEF OpeningOK, Taken, Openings
<1>9. FrontIs(handled, sent, Len(handled))
  BY <1>1, <1>6, <1>7, <1>8, Matching
<1> QED
  BY <1>2, <1>5, <1>6, <1>9, Zenon

\* What a careful client's ring holds begins with the next message, whole.
LEMMA Ahead ==
  ASSUME CInv, OpeningOK, StreamIntact, wire # <<>> => wire[1].at = 1, BytesUsed(rx) # 0
  PROVE  \E m \in Message :
           /\ Len(handled) < Len(sent) /\ m = sent[Len(handled) + 1]
           /\ MessageLen(m) <= BytesUsed(rx)
           /\ \A i \in 1..MessageLen(m) : Contents(rx)[i] = [of |-> m, at |-> i]
<1>1. handled \in Seq(Seq(AByte)) /\ sent \in Seq(Message)
  BY DEF CInv, ShapeOK
<1>2. PICK f \in Seq(AByte), c \in Seq(AByte), w \in Seq(AByte) :
        f = FlattenSeq(handled) /\ c = Contents(rx) /\ w = wire
  BY Parts, Zenon
<1>3. PICK k \in Nat : k = Len(handled)
  BY <1>1
<1>4. FrontIs(handled, sent, k) /\ SentBytes(sent) = f \o (c \o w)
  BY <1>2, <1>3, Matched, Zenon
<1>5. k \in 0..Len(handled) /\ k \in 0..Len(sent) /\ k <= Len(sent)
  BY <1>1, <1>3, <1>4 DEF FrontIs
<1>6. f = Before(sent, k)
  <2>1. FlattenSeq(SubSeq(handled, 1, k)) = Before(sent, k)
    BY <1>1, <1>4, <1>5, FrontFlat
  <2>2. SubSeq(handled, 1, k) = handled
    BY <1>1, <1>3, SubSeqFull
  <2> QED
    BY <1>2, <2>1, <2>2, Zenon
<1>7. PICK u \in Nat \ {0} : u = BytesUsed(rx) /\ u = Len(c)
  <2>1. BytesUsed(rx) \in Nat /\ Len(c) = BytesUsed(rx)
    BY <1>2, Parts
  <2> QED
    BY <2>1
<1>8. c # <<>>
  BY <1>7, EmptySeq
<1>9. k < Len(sent)
  <2> SUFFICES ASSUME k = Len(sent) PROVE FALSE
    BY <1>5
  <2>1. f \o (c \o w) = f
    BY <1>1, <1>4, <1>6, BeforeAll, Zenon
  <2>2. c \o w \in Seq(AByte)
    BY ConcatProperties
  <2>3. c \o w = <<>>
    BY <2>1, <2>2, ConcatSimplifications
  <2> QED
    BY <1>8, <2>3, ConcatSimplifications
<1>10. PICK m \in Message : m = sent[k + 1]
  BY <1>1, <1>9
<1>11. PICK e \in Seq(AByte) : /\ e = Bytes(m) /\ Len(e) = MessageLen(m)
                               /\ \A i \in 1..MessageLen(m) : e[i] = [of |-> m, at |-> i]
  BY MessageBytes, Zenon
<1>12. PICK y \in Seq(AByte) : c \o w = e \o y
  <2>1. k \in 0..(Len(sent) - 1)
    BY <1>5, <1>9
  <2>2. PICK y \in Seq(AByte) : SentBytes(sent) = f \o (e \o y)
    BY <1>1, <1>6, <1>10, <1>11, <2>1, SentFrom, Zenon
  <2>3. c \o w \in Seq(AByte) /\ e \o y \in Seq(AByte)
    BY ConcatProperties
  <2>4. f \o (c \o w) = f \o (e \o y)
    BY <1>4, <2>2, Zenon
  <2>5. c \o w = e \o y
    BY <2>3, <2>4, CancelBytes, Zenon
  <2> QED
    BY <2>5
<1>13. PICK l \in 1..9 : l = MessageLen(m)
  BY Lengths, Zenon
<1>14. l <= u
  <2> SUFFICES ASSUME u < l PROVE FALSE
    OBVIOUS
  <2>1. u + 1 \in 1..l /\ u + 1 # 1
    BY <1>13
  <2>2. Len(c) + Len(w) = Len(e) + Len(y)
    <3>1. Len(c \o w) = Len(c) + Len(w) /\ Len(e \o y) = Len(e) + Len(y)
      BY ConcatProperties
    <3> QED
      BY <1>12, <3>1, Zenon
  <2>3. 1 \in 1..Len(w)
    <3>1. Len(w) \in Nat /\ Len(y) \in Nat
      OBVIOUS
    <3> QED
      BY <1>7, <1>11, <1>13, <2>2, <3>1
  <2>4. w # <<>> /\ (c \o w)[u + 1] = w[1]
    BY <1>7, <2>3
  <2>5. (e \o y)[u + 1] = e[u + 1]
    BY <1>11, <1>13, <2>1
  <2>6. w[1] = [of |-> m, at |-> u + 1]
    BY <1>11, <1>12, <1>13, <2>1, <2>4, <2>5, Zenon
  <2>7. w[1].at = u + 1
    BY <2>6
  <2>8. w[1].at = 1
    BY <1>2, <2>4
  <2> QED
    BY <2>1, <2>7, <2>8
<1>15. \A i \in 1..l : c[i] = [of |-> m, at |-> i]
  <2> TAKE i \in 1..l
  <2>1. i \in Nat /\ 1 <= i /\ i <= Len(c) /\ i <= Len(e)
    BY <1>7, <1>11, <1>13, <1>14
  <2>2. c[i] = e[i]
    BY <1>12, <2>1, SameFirst
  <2> QED
    BY <1>11, <1>13, <2>2, Zenon
<1> QED
  BY <1>2, <1>3, <1>7, <1>9, <1>10, <1>13, <1>14, <1>15, Zenon

MInv == CInv /\ OpeningOK /\ CallbackOK /\ MannersOK /\ Awaited /\ Emptied

\* The first byte held is the one at the tail.
LEMMA AtTail ==
  ASSUME CInv, BytesUsed(rx) # 0
  PROVE  Contents(rx)[1] = rx.buf[rx.tail]
<1>1. PICK size \in Nat \ {0} : size = setup.capacity + 1 /\ rx \in RingsOf(size, AByte)
  BY Parts
<1>2. rx.tail \in 0..(size - 1) /\ rx.size = size /\ BytesUsed(rx) \in Nat
  BY <1>1, Counts
<1>3. After(rx, 1) = rx.tail
  BY <1>2 DEF After
<1>4. 1 \in 1..BytesUsed(rx)
  BY <1>2
<1>5. \A i \in 1..BytesUsed(rx) : Contents(rx)[i] = rx.buf[After(rx, i)]
  BY <1>1, ContentsAt
<1> QED
  BY <1>3, <1>4, <1>5, Zenon

LEMMA TakenConnect ==
  ASSUME NEW hs \in Seq(Seq(AByte)), NEW h \in Seq(AByte), NEW t, Taken(hs, "no"),
         Len(h) = ConnectLen, \A m \in ChannelType : h = Bytes(m) => t = m
  PROVE  Taken(Append(hs, h), t)
<1>1. PICK n \in Nat : n = Len(hs)
  OBVIOUS
<1>2. PICK gs : gs = Append(hs, h)
  OBVIOUS
<1>3. gs # <<>> /\ Len(gs) = n + 1 /\ gs[n + 1] = h /\ \A i \in 1..n : gs[i] = hs[i]
  BY <1>1, <1>2, AppendProperties
<1>4. CASE hs = <<>>
  <2>1. n = 0 /\ n + 1 = 1
    BY <1>1, <1>4
  <2>2. gs[1] = h /\ Len(gs) = 1
    BY <1>3, <2>1
  <2>3. \A i \in 2..Len(gs) : Led(gs[i])
    <3>1. 2..Len(gs) = {}
      BY <2>2
    <3> QED
      BY <3>1
  <2> QED
    BY <1>2, <1>3, <2>2, <2>3, Zenon DEF Taken
<1>5. CASE hs # <<>>
  <2>1. 1 \in 1..n
    BY <1>1, <1>5
  <2>2. gs[1] = hs[1]
    BY <1>3, <2>1
  <2>3. \A m \in ChannelType : hs[1] # Bytes(m)
    BY <1>5 DEF Taken, ChannelType
  <2>4. Len(hs[1]) = ConnectLen
    BY <1>5 DEF Taken
  <2> QED
    BY <1>2, <1>3, <2>2, <2>3, <2>4, Zenon DEF Taken
<1> QED
  BY <1>4, <1>5

LEMMA TakenEvent ==
  ASSUME NEW hs \in Seq(Seq(AByte)), NEW h \in Seq(AByte), NEW c, Taken(hs, c), c # "no", Led(h)
  PROVE  Taken(Append(hs, h), c)
<1>1. PICK n \in Nat : n = Len(hs)
  OBVIOUS
<1>2. PICK gs : gs = Append(hs, h)
  OBVIOUS
<1>3. gs # <<>> /\ Len(gs) = n + 1 /\ gs[n + 1] = h /\ \A i \in 1..n : gs[i] = hs[i]
  BY <1>1, <1>2, AppendProperties
<1>4. hs # <<>> /\ Len(hs[1]) = ConnectLen
  BY DEF Taken
<1>5. 1 \in 1..n /\ \A i \in 2..(n + 1) : i \in 2..n \/ i = n + 1
  BY <1>1, <1>4
<1>6. gs[1] = hs[1] /\ \A i \in 2..n : gs[i] = hs[i]
  BY <1>3, <1>5
<1>7. ASSUME NEW m \in ChannelType, gs[1] = Bytes(m)
      PROVE  c = m /\ \A i \in 2..Len(gs) : Led(gs[i])
  <2>1. c = m /\ \A i \in 2..n : Led(hs[i])
    BY <1>1, <1>4, <1>6, <1>7, Zenon DEF Taken
  <2>2. \A i \in 2..(n + 1) : Led(gs[i])
    BY <1>3, <1>5, <1>6, <2>1, Zenon
  <2> QED
    BY <1>3, <2>1, <2>2, Zenon
<1> QED
  BY <1>2, <1>3, <1>4, <1>6, <1>7, Zenon DEF Taken

LEMMA OpensOneMore ==
  ASSUME NEW q \in Seq(Message), NEW m \in Message, Opens(q),
         IF q = <<>> THEN m \in ChannelType ELSE m \notin ChannelType
  PROVE  Opens(Append(q, m))
<1>1. PICK n \in Nat : n = Len(q)
  OBVIOUS
<1>2. PICK r : r = Append(q, m)
  OBVIOUS
<1>3. Len(r) = n + 1 /\ r[n + 1] = m /\ \A i \in 1..n : r[i] = q[i]
  BY <1>1, <1>2, AppendProperties
<1>4. CASE q = <<>>
  <2>1. n = 0
    BY <1>1, <1>4
  <2>2. r[1] = m /\ 2..Len(r) = {} /\ m \in ChannelType
    BY <1>3, <1>4, <2>1
  <2> QED
    BY <1>2, <2>2 DEF Opens
<1>5. CASE q # <<>>
  <2>1. 1 \in 1..n /\ \A i \in 2..(n + 1) : (i \in 2..n /\ i \in 1..n) \/ i = n + 1
    BY <1>1, <1>5
  <2>2. r[1] \in ChannelType /\ m \notin ChannelType
    BY <1>3, <1>5, <2>1 DEF Opens
  <2>3. \A i \in 2..(n + 1) : r[i] \notin ChannelType
    BY <1>1, <1>3, <2>1, <2>2, Zenon DEF Opens
  <2> QED
    BY <1>2, <1>3, <2>2, <2>3, Zenon DEF Opens
<1> QED
  BY <1>4, <1>5

LEMMA InitMInv == Init => MInv
<1> SUFFICES ASSUME Init PROVE MInv
  OBVIOUS
<1>1. CInv
  BY InitCInv
<1>2. sent = <<>> /\ wire = <<>> /\ handled = <<>> /\ connected = "no" /\ pc = "loop"
  BY DEF Init
<1>3. OpeningOK
  BY <1>2 DEF OpeningOK, Opens, Taken
<1>4. CallbackOK /\ Emptied
  BY <1>2 DEF CallbackOK, Emptied
<1>5. MannersOK
  BY <1>2 DEF MannersOK
<1>6. IsEmpty(rx)
  <2>1. rx.head = rx.tail
    BY DEF Init
  <2>2. PICK size \in Nat \ {0} : rx \in RingsOf(size, AByte)
    BY <1>1, Parts, Zenon
  <2> QED
    BY <2>1, <2>2, Counts
<1>7. StreamIntact
  <2>1. Contents(rx) = <<>>
    <3>1. BytesUsed(rx) = 0
      <4>1. PICK size \in Nat \ {0} : rx \in RingsOf(size, AByte)
        BY <1>1, Parts, Zenon
      <4> QED
        BY <1>6, <4>1, Counts
    <3> QED
      BY <1>1, <3>1, Parts, EmptySeq
  <2>2. SentBytes(sent) = <<>> /\ FlattenSeq(handled) = <<>>
    BY <1>2, SentNone, FlattenNone
  <2>3. Stream = <<>>
    BY <1>2, <2>1, <2>2 DEF Stream
  <2> QED
    BY <2>2, <2>3, IntactDef
<1> QED
  BY <1>1, <1>3, <1>4, <1>5, <1>6, <1>7 DEF MInv, Awaited

\* What ParseEvent takes has the length of the event it begins as.
LEMMA LedAtTail ==
  ASSUME CInv, BytesUsed(rx) # 0, ExpectSize # 0, ExpectSize <= BytesUsed(rx)
  PROVE  Held(ExpectSize) \in Seq(AByte) /\ Led(Held(ExpectSize))
<1>1. PICK u \in Nat, n \in Nat, c \in Seq(AByte) :
        u = BytesUsed(rx) /\ n = ExpectSize /\ c = Contents(rx) /\ Len(c) = u
  <2>1. ExpectSize \in Nat
    BY Sizes DEF ExpectSize
  <2> QED
    BY <2>1, Parts
<1>2. 1 <= n /\ n <= u
  BY <1>1
<1>3. PICK h \in Seq(AByte) : h = Held(ExpectSize) /\ Len(h) = n /\ h[1] = c[1]
  <2>1. SubSeq(c, 1, n) \in Seq(AByte) /\ Len(SubSeq(c, 1, n)) = n /\ SubSeq(c, 1, n)[1] = c[1]
    BY <1>1, <1>2
  <2>2. Held(ExpectSize) = SubSeq(c, 1, n)
    BY <1>1, Zenon DEF Held
  <2> QED
    BY <2>1, <2>2, Zenon
<1>4. PICK b : b = rx.buf[rx.tail] /\ h[1] = b
  BY <1>1, <1>3, AtTail, Zenon
<1>5. h # <<>>
  BY <1>2, <1>3
<1>6. b.at = 1 => n = SizeByType(b.of)
  BY <1>1, <1>4, Zenon DEF ExpectSize, TypeAtTail
<1> QED
  BY <1>3, <1>4, <1>5, <1>6, Zenon DEF Led

LEMMA ClientOpening ==
  ASSUME CInv, Opens(sent), Client
  PROVE  Opens(sent') /\ UNCHANGED <<setup, rx, connected, pc, handled>>
<1>1. sent \in Seq(Message) /\ setup.kinds \subseteq DOMAIN WireLen
  BY Parts DEF CInv, ShapeOK, Setup
<1>2. ASSUME NEW t \in ChannelType, Connect(t)
      PROVE  Opens(sent') /\ UNCHANGED <<setup, rx, connected, pc, handled>>
  <2>1. sent = <<>> /\ sent' = Append(sent, t) /\ UNCHANGED <<setup, rx, connected, pc, handled>>
    BY <1>2 DEF Connect, Put
  <2>2. t \in Message
    BY DEF Message
  <2> QED
    BY <1>1, <2>1, <2>2, OpensOneMore
<1>3. ASSUME NEW k \in setup.kinds, SendEvent(k)
      PROVE  Opens(sent') /\ UNCHANGED <<setup, rx, connected, pc, handled>>
  <2>1. sent # <<>> /\ sent' = Append(sent, k) /\ UNCHANGED <<setup, rx, connected, pc, handled>>
    BY <1>3 DEF SendEvent, Put
  <2>2. k \in Message /\ k \notin ChannelType
    BY <1>1 DEF Message, ChannelType, WireLen
  <2> QED
    BY <1>1, <2>1, <2>2, OpensOneMore
<1> QED
  BY <1>2, <1>3 DEF Client

LEMMA OpeningKept ==
  ASSUME CInv, OpeningOK, CallbackOK, [Next]_vars
  PROVE  OpeningOK'
<1>1. Opens(sent) /\ Taken(handled, connected) /\ handled \in Seq(Seq(AByte))
  BY DEF OpeningOK, CInv, ShapeOK
<1>2. CASE Client
  BY <1>1, <1>2, ClientOpening DEF OpeningOK
<1>3. CASE \/ AfterRead \/ ReadOverruns \/ AfterReadNoBuffer \/ AfterReadEof \/ HandleOther
           \/ HandleEvents \/ ParseStops \/ UNCHANGED vars
  <2>1. UNCHANGED <<sent, connected, handled>>
    BY <1>3 DEF AfterRead, ReadOverruns, AfterReadNoBuffer, AfterReadEof, HandleOther, HandleEvents,
                ParseStops, vars
  <2> QED
    BY <1>1, <2>1 DEF OpeningOK
<1>4. CASE HandleConnect
  <2>1. sent' = sent /\ connected = "no"
    BY <1>4 DEF HandleConnect
  <2>2. CASE BytesUsed(rx) < ConnectLen
    BY <1>1, <1>4, <2>1, <2>2 DEF HandleConnect, OpeningOK
  <2>3. CASE ~(BytesUsed(rx) < ConnectLen)
    <3>1. TakeOut(ConnectLen) /\ UNCHANGED <<setup, sent, wire>>
          /\ \A m \in ChannelType : Held(ConnectLen) = Bytes(m) => connected' = m
      BY <1>4, <2>3 DEF HandleConnect
    <3>2. ConnectLen \in 0..BytesUsed(rx) /\ ConnectLen # 0
      BY <2>3, Parts DEF ConnectLen
    <3>3. Held(ConnectLen) \in Seq(AByte) /\ Len(Held(ConnectLen)) = ConnectLen
      BY <3>1, <3>2, TakeStep
    <3>4. handled' = Append(handled, Held(ConnectLen))
      BY <3>1, <3>2 DEF TakeOut
    <3>5. PICK h \in Seq(AByte) : h = Held(ConnectLen)
      BY <3>3
    <3>6. Taken(Append(handled, h), connected')
      BY <1>1, <2>1, <3>1, <3>3, <3>5, TakenConnect
    <3> QED
      BY <1>1, <2>1, <3>4, <3>5, <3>6 DEF OpeningOK
  <2> QED
    BY <2>2, <2>3
<1>5. CASE ParseEvent
  <2>1. /\ UNCHANGED <<sent, connected>> /\ pc = "parse" /\ TakeOut(ExpectSize)
        /\ BytesUsed(rx) >= ExpectSize
    BY <1>5 DEF ParseEvent
  <2>2. connected = "EVENT" /\ BytesUsed(rx) # 0
    BY <2>1, Parts DEF CallbackOK
  <2>3. CASE ExpectSize = 0
    BY <1>1, <2>1, <2>3 DEF TakeOut, OpeningOK
  <2>4. CASE ExpectSize # 0
    <3>1. handled' = Append(handled, Held(ExpectSize))
      BY <2>1, <2>4 DEF TakeOut
    <3>2. PICK h \in Seq(AByte) : h = Held(ExpectSize) /\ Led(h)
      <4>1. ExpectSize <= BytesUsed(rx)
        BY <2>1, Sizes, Parts DEF ExpectSize
      <4> QED
        BY <2>2, <2>4, <4>1, LedAtTail
    <3>3. Taken(Append(handled, h), connected)
      BY <1>1, <2>2, <3>2, TakenEvent
    <3> QED
      BY <1>1, <2>1, <3>1, <3>2, <3>3, Zenon DEF OpeningOK
  <2> QED
    BY <2>3, <2>4
<1> QED
  BY <1>2, <1>3, <1>4, <1>5 DEF Next, Handle

LEMMA CallbackKept ==
  ASSUME CInv, CallbackOK, [Next]_vars
  PROVE  CallbackOK'
<1>1. BytesUsed(rx) \in Nat
  BY Parts
<1>2. CASE Client \/ UNCHANGED vars
  <2>1. UNCHANGED <<rx, connected, pc>>
    BY <1>2 DEF Client, Connect, SendEvent, Put, vars
  <2> QED
    BY <2>1 DEF CallbackOK
<1>3. CASE AfterRead
  <2>1. PICK n \in 1..Min2(Len(wire), BytesFree(rx)), upwards \in BOOLEAN :
          /\ n <= RoomAt(rx, rx.tail)
          /\ rx' = TakenIn(rx, SubSeq(wire, 1, n), upwards)
          /\ wire' = SubSeq(wire, n + 1, Len(wire))
    BY <1>3, ReadsOn
  <2>2. UNCHANGED <<setup, sent, handled>> /\ pc' = "handle"
    BY <1>3, ReadsOn
  <2>3. BytesUsed(rx') = BytesUsed(rx) + n
    BY <2>1, <2>2, ReadStep
  <2>4. n \in Nat /\ n > 0
    OBVIOUS
  <2>5. BytesUsed(rx') > 0
    BY <1>1, <2>3, <2>4
  <2> QED
    BY <2>2, <2>5 DEF CallbackOK
<1>4. CASE \/ ReadOverruns \/ AfterReadNoBuffer \/ AfterReadEof
           \/ HandleConnect \/ HandleOther \/ ParseStops
  <2>1. pc' \in {"overrun", "abort", "closed", "loop"}
    BY <1>4 DEF ReadOverruns, AfterReadNoBuffer, AfterReadEof, HandleConnect, HandleOther, ParseStops
  <2> QED
    BY <2>1 DEF CallbackOK
<1>5. CASE HandleEvents
  <2>1. pc = "handle" /\ connected' = "EVENT" /\ rx' = rx
    BY <1>5 DEF HandleEvents
  <2> QED
    BY <2>1 DEF CallbackOK
<1>6. CASE ParseEvent
  <2>1. /\ TakeOut(ExpectSize) /\ UNCHANGED <<setup, sent, wire, connected>>
        /\ BytesUsed(rx) >= ExpectSize /\ pc = "parse"
        /\ pc' = IF BytesUsed(rx) = ExpectSize THEN "loop" ELSE "parse"
    BY <1>6 DEF ParseEvent
  <2>2. ExpectSize \in 0..BytesUsed(rx)
    BY <1>1, <2>1, Sizes DEF ExpectSize
  <2>3. BytesUsed(rx') = BytesUsed(rx) - ExpectSize
    BY <2>1, <2>2, TakeStep
  <2>4. pc' = "parse" => BytesUsed(rx') > 0
    BY <1>1, <2>1, <2>2, <2>3
  <2> QED
    BY <2>1, <2>4 DEF CallbackOK
<1> QED
  BY <1>2, <1>3, <1>4, <1>5, <1>6 DEF Next, Handle

LEMMA MannersKept ==
  ASSUME CInv, MannersOK, [Next]_vars
  PROVE  MannersOK'
<1>1. wire \in Seq(AByte) /\ sent \in Seq(Message)
  BY DEF CInv, ShapeOK
<1>2. CASE Client
  <2>1. PICK m \in Message : Put(m)
    <3>1. setup.kinds \subseteq DOMAIN WireLen
      BY Parts DEF Setup
    <3> QED
      BY <1>2, <3>1 DEF Client, Connect, SendEvent, Message
  <2>2. PICK e \in Seq(AByte) : /\ e = Bytes(m) /\ Len(e) = MessageLen(m)
                                /\ \A i \in 1..MessageLen(m) : e[i] = [of |-> m, at |-> i]
    BY MessageBytes, Zenon
  <2>3. wire' = wire \o e /\ setup' = setup /\ connected' = connected
    BY <2>1, <2>2 DEF Put
  <2>4. 1 \in 1..MessageLen(m) /\ MessageLen(m) \in 1..9
    BY Lengths
  <2>5. e[1].at = 1
    <3>1. e[1] = [of |-> m, at |-> 1]
      BY <2>2, <2>4
    <3> QED
      BY <3>1
  <2>6. (wire \o e)[1] = IF wire = <<>> THEN e[1] ELSE wire[1]
    BY <1>1, <2>2, <2>4
  <2>7. setup.manners = "awaits" /\ Len(sent') > 1 => connected = "EVENT"
    <3>1. ASSUME NEW t \in ChannelType, Connect(t) PROVE ~(Len(sent') > 1)
      <4>1. sent = <<>> /\ sent' = Append(sent, t)
        BY <3>1 DEF Connect, Put
      <4> QED
        BY <4>1
    <3>2. ASSUME NEW k \in setup.kinds, SendEvent(k)
          PROVE  setup.manners = "awaits" => connected = "EVENT"
      BY <3>2 DEF SendEvent
    <3> QED
      BY <1>2, <3>1, <3>2 DEF Client
  <2>8. Careful => (wire \o e)[1].at = 1
    BY <2>5, <2>6 DEF MannersOK
  <2> QED
    BY <2>3, <2>7, <2>8, Zenon DEF MannersOK, Careful
<1>3. CASE AfterRead
  <2>1. PICK n \in 1..Min2(Len(wire), BytesFree(rx)) :
          /\ Careful => Boundary(n)
          /\ wire' = SubSeq(wire, n + 1, Len(wire))
    BY <1>3, ReadsOn
  <2>2. UNCHANGED <<setup, sent, connected>>
    BY <1>3, ReadsOn
  <2>3. PICK w \in Seq(AByte), l \in Nat, k \in Nat : w = wire /\ l = Len(w) /\ k = n /\ k <= l
    <3>1. n \in Nat /\ n <= Len(wire)
      BY <1>1, Parts DEF Min2
    <3> QED
      BY <1>1, <3>1
  <2>4. SubSeq(w, k + 1, l) # <<>> => k < l /\ SubSeq(w, k + 1, l)[1] = w[k + 1]
    BY <2>3
  <2>5. Careful /\ wire' # <<>> => wire'[1].at = 1
    BY <2>1, <2>3, <2>4, Zenon DEF Boundary
  <2> QED
    BY <2>2, <2>5 DEF MannersOK, Careful
<1>4. CASE \/ ReadOverruns \/ AfterReadNoBuffer \/ AfterReadEof \/ HandleOther \/ HandleEvents
           \/ ParseEvent \/ ParseStops \/ UNCHANGED vars
  <2>1. UNCHANGED <<setup, sent, wire, connected>>
    BY <1>4 DEF ReadOverruns, AfterReadNoBuffer, AfterReadEof, HandleOther, HandleEvents, ParseEvent,
                ParseStops, vars
  <2> QED
    BY <2>1 DEF MannersOK, Careful
<1>5. CASE HandleConnect
  <2>1. UNCHANGED <<setup, sent, wire>> /\ connected = "no"
    BY <1>5 DEF HandleConnect
  <2> QED
    BY <2>1 DEF MannersOK, Careful
<1> QED
  BY <1>2, <1>3, <1>4, <1>5 DEF Next, Handle

\* The stream of a client that awaits its reply stays intact.
LEMMA AwaitsIntact ==
  ASSUME MInv, [Next]_vars, setup.manners = "awaits"
  PROVE  StreamIntact'
<1>1. CInv /\ StreamIntact /\ (pc = "loop" => IsEmpty(rx))
  BY DEF MInv, Awaited
<1>2. AfterRead => pc = "loop"
  BY DEF AfterRead
<1> QED
  BY <1>1, <1>2, IntactKept

\* What a callback that returns to the loop leaves behind.
Settled ==
  pc = "loop" /\ Careful /\ StreamIntact =>
    /\ setup.manners = "awaits" => IsEmpty(rx)
    /\ connected = "EVENT" => IsEmpty(rx) \/ (setup.manners = "eager" /\ Len(handled) = 1)

LEMMA SettledDef ==
  Awaited /\ Emptied <=> (setup.manners = "awaits" => StreamIntact) /\ Settled
BY Zenon DEF Awaited, Emptied, Settled, Careful

\* The first message is a connect message, and the reply to it comes first.
LEMMA OneSent ==
  ASSUME MInv, setup.manners = "awaits", connected # "EVENT"
  PROVE  Len(sent) \in {0, 1}
<1>1. sent \in Seq(Message) /\ ~(Len(sent) > 1)
  BY DEF MInv, CInv, ShapeOK, MannersOK, Careful
<1>2. PICK n \in Nat : n = Len(sent)
  BY <1>1
<1>3. ~(n > 1) => n \in {0, 1}
  OBVIOUS
<1> QED
  BY <1>1, <1>2, <1>3, Zenon

LEMMA AheadOf ==
  ASSUME MInv, Careful, StreamIntact, BytesUsed(rx) > 0
  PROVE  \E m \in Message :
           /\ Len(handled) < Len(sent) /\ m = sent[Len(handled) + 1]
           /\ MessageLen(m) <= BytesUsed(rx)
           /\ \A i \in 1..MessageLen(m) : Contents(rx)[i] = [of |-> m, at |-> i]
<1>1. BytesUsed(rx) # 0 /\ (wire # <<>> => wire[1].at = 1)
  BY Parts DEF MInv, MannersOK
<1> QED
  BY <1>1, Ahead DEF MInv

\* A connect message that is awaited is all there is.
LEMMA ConnectAlone ==
  ASSUME MInv, setup.manners = "awaits", StreamIntact, connected # "EVENT", BytesUsed(rx) > 0
  PROVE  Len(handled) = 0 /\ BytesUsed(rx) = ConnectLen
<1>1. CInv /\ Careful /\ sent \in Seq(Message) /\ handled \in Seq(Seq(AByte)) /\ Opens(sent)
  BY DEF MInv, CInv, ShapeOK, Careful, OpeningOK
<1>2. PICK m \in Message : /\ Len(handled) < Len(sent) /\ m = sent[Len(handled) + 1]
                           /\ MessageLen(m) <= BytesUsed(rx)
  BY <1>1, AheadOf
<1>3. Len(sent) = 1 /\ Len(handled) = 0
  BY <1>1, <1>2, OneSent
<1>4. handled = <<>> /\ sent # <<>> /\ m = sent[1]
  BY <1>1, <1>2, <1>3
<1>5. m \in ChannelType
  BY <1>1, <1>4, Zenon DEF Opens
<1>6. MessageLen(m) = ConnectLen
  BY <1>5, Lengths
<1>7. Len(SentBytes(sent)) = ConnectLen
  BY <1>1, <1>2, <1>3, <1>6, OneMessage
<1>8. Len(FlattenSeq(handled)) = 0
  BY <1>4, FlattenNone
<1>9. BytesUsed(rx) \in Nat /\ Len(wire) \in Nat
      /\ Len(FlattenSeq(handled)) + BytesUsed(rx) + Len(wire) = Len(SentBytes(sent))
  BY <1>1, Parts, CountedDef DEF CInv
<1> QED
  BY <1>2, <1>3, <1>6, <1>7, <1>8, <1>9 DEF ConnectLen

LEMMA ConnectSettles ==
  ASSUME MInv, [Next]_vars, HandleConnect, Careful, StreamIntact
  PROVE  /\ setup.manners = "awaits" => IsEmpty(rx')
         /\ connected' = "EVENT" => IsEmpty(rx') \/ (setup.manners = "eager" /\ Len(handled') = 1)
<1>1. /\ CInv /\ pc = "handle" /\ connected = "no" /\ UNCHANGED <<setup, sent, wire>>
      /\ BytesUsed(rx) \in Nat /\ BytesUsed(rx) > 0
      /\ Opens(sent) /\ Taken(handled, connected)
  BY Parts DEF MInv, HandleConnect, CallbackOK, OpeningOK
<1>2. setup.manners \in {"awaits", "eager"}
  BY <1>1, Parts DEF Setup, Careful
<1>3. CASE BytesUsed(rx) < ConnectLen
  <2>1. connected' = "no"
    BY <1>1, <1>3 DEF HandleConnect
  <2>2. setup.manners # "awaits"
    BY <1>1, <1>3, ConnectAlone DEF ConnectLen
  <2> QED
    BY <2>1, <2>2
<1>4. CASE ~(BytesUsed(rx) < ConnectLen)
  <2>1. TakeOut(ConnectLen) /\ ConnectLen \in 0..BytesUsed(rx) /\ ConnectLen # 0
    BY <1>1, <1>4 DEF HandleConnect, ConnectLen
  <2>2. /\ rx' \in RingsOf(setup.capacity + 1, AByte)
        /\ BytesUsed(rx') = BytesUsed(rx) - ConnectLen
    BY <1>1, <2>1, TakeStep
  <2>3. CASE setup.manners = "awaits"
    <3>1. BytesUsed(rx) = ConnectLen
      BY <1>1, <2>3, ConnectAlone
    <3>2. BytesUsed(rx') = 0
      BY <2>2, <3>1 DEF ConnectLen
    <3>3. IsEmpty(rx')
      BY <1>1, <2>2, <3>2, Parts, Counts
    <3> QED
      BY <3>3
  <2>4. CASE setup.manners = "eager"
    <3>1. handled = <<>>
      <4> SUFFICES ASSUME handled # <<>> PROVE FALSE
        OBVIOUS
      <4>1. FrontIs(handled, sent, Len(handled))
        BY <1>1, Matched DEF MInv
      <4>2. Len(handled) \in Nat /\ Len(handled) >= 1 /\ Len(handled) <= Len(sent)
        BY <4>1 DEF FrontIs, MInv, CInv, ShapeOK
      <4>3. 1 \in 1..Len(handled) /\ sent # <<>>
        BY <4>2 DEF MInv, CInv, ShapeOK
      <4>4. handled[1] = Bytes(sent[1])
        BY <4>1, <4>3, Zenon DEF FrontIs
      <4>5. sent[1] \in ChannelType
        BY <1>1, <4>3, Zenon DEF Opens
      <4>6. connected = sent[1]
        BY <1>1, <4>4, <4>5, Zenon DEF Taken
      <4> QED
        BY <1>1, <4>5, <4>6 DEF ChannelType
    <3>2. handled' = Append(<<>>, Held(ConnectLen))
      BY <2>1, <3>1 DEF TakeOut
    <3>3. Len(handled') = 1
      BY <3>2
    <3> QED
      BY <2>4, <3>3
  <2> QED
    BY <1>2, <2>3, <2>4
<1> QED
  BY <1>3, <1>4

\* The parser does not stop before an event of a careful client.
LEMMA NoStop ==
  ASSUME MInv, Careful, StreamIntact
  PROVE  ~ParseStops
<1> SUFFICES ASSUME ParseStops PROVE FALSE
  OBVIOUS
<1>1. /\ CInv /\ pc = "parse" /\ BytesUsed(rx) < ExpectSize
      /\ BytesUsed(rx) \in Nat /\ BytesUsed(rx) > 0 /\ connected = "EVENT"
      /\ Opens(sent) /\ Taken(handled, connected)
      /\ handled \in Seq(Seq(AByte)) /\ sent \in Seq(Message)
  BY Parts DEF MInv, ParseStops, CallbackOK, OpeningOK, CInv, ShapeOK
<1>2. PICK m \in Message :
        /\ Len(handled) < Len(sent) /\ m = sent[Len(handled) + 1]
        /\ MessageLen(m) <= BytesUsed(rx)
        /\ \A i \in 1..MessageLen(m) : Contents(rx)[i] = [of |-> m, at |-> i]
  BY <1>1, AheadOf
<1>3. handled # <<>>
  BY <1>1 DEF Taken
<1>4. m \notin ChannelType
  <2>1. Len(handled) + 1 \in 2..Len(sent)
    BY <1>1, <1>2, <1>3
  <2> QED
    BY <1>1, <1>2, <2>1, Zenon DEF Opens
<1>5. MessageLen(m) \in 1..9 /\ SizeByType(m) \in {0, MessageLen(m)}
  BY <1>4, Lengths
<1>6. Contents(rx)[1] = [of |-> m, at |-> 1]
  <2>1. 1 \in 1..MessageLen(m)
    BY <1>5
  <2> QED
    BY <1>2, <2>1, Zenon
<1>7. rx.buf[rx.tail] = [of |-> m, at |-> 1]
  BY <1>1, <1>6, AtTail
<1>8. TypeAtTail = m
  BY <1>7 DEF TypeAtTail
<1>9. ExpectSize \in {0, MessageLen(m)}
  BY <1>5, <1>8, Zenon DEF ExpectSize
<1>10. \A l \in Nat, u \in Nat : \A n \in {0, l} : l <= u => ~(u < n)
  OBVIOUS
<1>11. MessageLen(m) \in Nat
  BY <1>5
<1> QED
  BY <1>1, <1>2, <1>9, <1>10, <1>11, Zenon

LEMMA SettledKept ==
  ASSUME MInv, [Next]_vars
  PROVE  Settled'
<1> SUFFICES ASSUME pc' = "loop", Careful', StreamIntact'
             PROVE  /\ setup'.manners = "awaits" => IsEmpty(rx')
                    /\ connected' = "EVENT" =>
                         IsEmpty(rx') \/ (setup'.manners = "eager" /\ Len(handled') = 1)
  BY DEF Settled
<1>1. CInv /\ BytesUsed(rx) \in Nat /\ CallbackOK /\ MannersOK /\ Awaited /\ Emptied
      /\ handled \in Seq(Seq(AByte)) /\ Taken(handled, connected)
  BY Parts DEF MInv, CInv, ShapeOK, OpeningOK
<1>2. Settled
  BY <1>1, SettledDef
<1>3. ~AfterRead
  BY DEF AfterRead
<1>4. StreamIntact
  BY <1>1, <1>3, IntactKept
<1>5. setup' = setup
  BY SetupKept
<1>6. Careful
  BY <1>5 DEF Careful
<1>7. CASE Client \/ UNCHANGED vars
  <2>1. UNCHANGED <<rx, connected, pc, handled>>
    BY <1>7 DEF Client, Connect, SendEvent, Put, vars
  <2> QED
    BY <1>2, <1>4, <1>5, <1>6, <2>1 DEF Settled
<1>8. CASE ReadOverruns \/ AfterReadNoBuffer \/ AfterReadEof \/ HandleEvents
  BY <1>8 DEF ReadOverruns, AfterReadNoBuffer, AfterReadEof, HandleEvents
<1>9. CASE HandleConnect
  BY <1>4, <1>5, <1>6, <1>9, ConnectSettles
<1>10. CASE HandleOther
  <2>1. pc = "handle" /\ connected \in {"MASTER", "DISPLAY"} /\ UNCHANGED <<rx, connected, handled>>
    BY <1>10 DEF HandleOther
  <2>2. handled # <<>> /\ connected # "EVENT" /\ BytesUsed(rx) > 0
    BY <1>1, <2>1 DEF Taken, CallbackOK
  <2>3. setup.manners # "awaits"
    <3>1. Len(handled) # 0
      BY <1>1, <2>2, EmptySeq
    <3> QED
      BY <1>4, <2>2, <3>1, ConnectAlone
  <2> QED
    BY <1>5, <2>1, <2>2, <2>3
<1>11. CASE ParseEvent
  <2>1. /\ TakeOut(ExpectSize) /\ UNCHANGED <<setup, sent, wire>> /\ BytesUsed(rx) = ExpectSize
    BY <1>11 DEF ParseEvent
  <2>2. ExpectSize \in 0..BytesUsed(rx)
    BY <1>1, <2>1
  <2>3. rx' \in RingsOf(setup.capacity + 1, AByte) /\ BytesUsed(rx') = BytesUsed(rx) - ExpectSize
    BY <1>1, <2>1, <2>2, TakeStep
  <2>4. BytesUsed(rx') = 0
    BY <1>1, <2>1, <2>3
  <2>5. IsEmpty(rx')
    BY <1>1, <2>3, <2>4, Parts, Counts
  <2> QED
    BY <2>5
<1>12. CASE ParseStops
  BY <1>4, <1>6, <1>12, NoStop
<1> QED
  BY <1>3, <1>7, <1>8, <1>9, <1>10, <1>11, <1>12 DEF Next, Handle

LEMMA NextMInv ==
  ASSUME MInv, [Next]_vars
  PROVE  MInv'
<1>1. CInv /\ OpeningOK /\ CallbackOK /\ MannersOK
  BY DEF MInv
<1>2. CInv' /\ OpeningOK' /\ CallbackOK' /\ MannersOK'
  BY <1>1, NextCInv, OpeningKept, CallbackKept, MannersKept
<1>3. setup' = setup
  BY SetupKept
<1>4. setup'.manners = "awaits" => StreamIntact'
  BY <1>3, AwaitsIntact
<1>5. Settled'
  BY SettledKept
<1>6. Awaited' /\ Emptied'
  BY <1>4, <1>5, Zenon DEF Awaited, Emptied, Settled, Careful
<1> QED
  BY <1>2, <1>6 DEF MInv

\* The strengthening: what is taken first is a connect message of its length,
\* and what follows has the lengths of events.
THEOREM MessageInvariance == Spec => []MInv
<1>1. Init => MInv
  BY InitMInv
<1>2. MInv /\ [Next]_vars => MInv'
  BY NextMInv
<1> QED
  BY <1>1, <1>2, PTL DEF Spec

\* From a careful client cip_channel_handle takes message by message what was
\* sent, and leaves nothing that it could have taken.
THEOREM WholeMessagesCorrect == Spec => []WholeMessages
<1>1. MInv => WholeMessages
  <2> SUFFICES ASSUME MInv, Careful, setup.manners = "awaits" \/ StreamIntact
               PROVE  /\ \A i \in 1..Len(handled) : handled[i] = Bytes(sent[i])
                      /\ pc = "loop" /\ connected = "EVENT"
                           => IsEmpty(rx) \/ (setup.manners = "eager" /\ Len(handled) = 1)
    BY Zenon DEF WholeMessages
  <2>1. StreamIntact /\ CInv /\ OpeningOK /\ Emptied
    BY DEF MInv, Awaited
  <2>2. FrontIs(handled, sent, Len(handled))
    BY <2>1, Matched
  <2> QED
    BY <2>1, <2>2, Zenon DEF FrontIs, Emptied
<1> QED
  BY <1>1, MessageInvariance, PTL

-----------------------------------------------------------------------------
(* No careful client leaves the ring full. *)

\* The connect message is the first thing taken, as it was sent.
First ==
  Careful =>
    /\ handled = <<>> => StreamIntact /\ (pc = "loop" => IsEmpty(rx))
    /\ handled # <<>> => sent # <<>> /\ handled[1] = Bytes(sent[1])

LEMMA AppendFirst ==
  ASSUME NEW S, NEW q \in Seq(S), NEW m \in S, q # <<>>
  PROVE  Append(q, m) # <<>> /\ Append(q, m)[1] = q[1]
<1>1. PICK n \in Nat : n = Len(q)
  OBVIOUS
<1>2. 1 \in 1..n
  BY <1>1
<1> QED
  BY <1>1, <1>2, AppendProperties

\* Input goes to an event channel only.
Channelled == Careful /\ Len(sent) > 1 => sent[1] = "EVENT"

\* The longest event fits, and the loop is not left without room.
Roomy == \A k \in DOMAIN WireLen : WireLen[k] <= setup.capacity
RoomLeft == Careful /\ Roomy => pc # "abort" /\ (pc = "loop" => BytesFree(rx) > 0)

AInv == CInv /\ OpeningOK /\ CallbackOK /\ MannersOK /\ First /\ Channelled /\ RoomLeft

LEMMA Room ==
  ASSUME NEW B, NEW capacity \in Nat, NEW rb \in RingsOf(capacity + 1, B)
  PROVE  /\ BytesUsed(rb) \in Nat /\ BytesFree(rb) \in Nat
         /\ BytesUsed(rb) + BytesFree(rb) = capacity
<1>1. PICK size \in Nat \ {0} : size = capacity + 1 /\ size - 1 = capacity
  OBVIOUS
<1> QED
  BY <1>1, Counts

LEMMA RoomyBound == Roomy => 9 <= setup.capacity
BY DEF Roomy, WireLen

LEMMA InitAInv == Init => AInv
<1> SUFFICES ASSUME Init PROVE AInv
  OBVIOUS
<1>1. MInv /\ handled = <<>> /\ sent = <<>> /\ pc = "loop"
  BY InitMInv DEF Init
<1>2. PICK c \in Nat : c = setup.capacity /\ rx \in RingsOf(c + 1, AByte)
  BY <1>1, Parts DEF MInv, Setup
<1>3. IsEmpty(rx) /\ BytesUsed(rx) = 0
  <2>1. rx.head = rx.tail
    BY DEF Init
  <2>2. PICK size \in Nat \ {0} : rx \in RingsOf(size, AByte)
    BY <1>1, Parts DEF MInv
  <2> QED
    BY <2>1, <2>2, Counts
<1>4. BytesFree(rx) = c
  BY <1>2, <1>3, Room
<1>5. StreamIntact
  <2>1. CInv /\ SentBytes(sent) = <<>> /\ FlattenSeq(handled) = <<>> /\ wire = <<>>
    BY <1>1, SentNone, FlattenNone DEF MInv, Init
  <2>2. Contents(rx) = <<>>
    BY <1>3, <2>1, Parts, EmptySeq
  <2>3. Stream = <<>>
    BY <2>1, <2>2 DEF Stream
  <2> QED
    BY <2>1, <2>3, IntactDef
<1>6. First /\ Channelled
  BY <1>1, <1>3, <1>5 DEF First, Channelled
<1>7. RoomLeft
  BY <1>1, <1>2, <1>4, RoomyBound DEF RoomLeft
<1> QED
  BY <1>1, <1>6, <1>7 DEF AInv, MInv

LEMMA ChannelledKept ==
  ASSUME CInv, Channelled, [Next]_vars
  PROVE  Channelled'
<1>1. setup' = setup /\ sent \in Seq(Message)
  BY SetupKept DEF CInv, ShapeOK
<1>2. CASE UNCHANGED sent
  BY <1>1, <1>2 DEF Channelled, Careful
<1>3. ASSUME NEW t \in ChannelType, Connect(t)
      PROVE  Channelled'
  <2>1. sent = <<>> /\ sent' = Append(sent, t)
    BY <1>3 DEF Connect, Put
  <2>2. ~(Len(sent') > 1)
    BY <2>1
  <2> QED
    BY <2>2 DEF Channelled
<1>4. ASSUME NEW k \in setup.kinds, SendEvent(k)
      PROVE  Channelled'
  <2>1. sent # <<>> /\ sent' = Append(sent, k) /\ (Careful => sent[1] = "EVENT")
    BY <1>4 DEF SendEvent, Put
  <2>2. sent'[1] = sent[1]
    <3>1. 1 \in 1..Len(sent)
      BY <1>1, <2>1
    <3> QED
      BY <1>1, <2>1, <3>1
  <2> QED
    BY <1>1, <2>1, <2>2 DEF Channelled, Careful
<1> QED
  BY <1>2, <1>3, <1>4
     DEF Next, Client, AfterRead, ReadOverruns, AfterReadNoBuffer, AfterReadEof, Handle,
         HandleConnect, HandleOther, HandleEvents, ParseEvent, ParseStops, vars

\* Whatever was taken, its first item was sent first: then the channel has
\* the type the client asked for.
LEMMA FirstType ==
  ASSUME CInv, OpeningOK, First, Careful
  PROVE  /\ connected = "no" <=> handled = <<>>
         /\ connected # "no" => sent # <<>> /\ connected = sent[1]
<1>1. Opens(sent) /\ Taken(handled, connected)
  BY DEF OpeningOK
<1>2. connected # "no" => handled # <<>>
  BY <1>1 DEF Taken
<1>3. ASSUME handled # <<>>
      PROVE  sent # <<>> /\ connected = sent[1] /\ connected # "no"
  <2>1. sent # <<>> /\ handled[1] = Bytes(sent[1])
    BY <1>3 DEF First
  <2>2. sent[1] \in ChannelType
    BY <1>1, <2>1, Zenon DEF Opens
  <2>3. connected = sent[1]
    BY <1>1, <1>3, <2>1, <2>2, Zenon DEF Taken
  <2> QED
    BY <2>1, <2>2, <2>3 DEF ChannelType
<1> QED
  BY <1>2, <1>3

\* A connect message that is the first thing in the ring is taken whole.
LEMMA FirstConnect ==
  ASSUME CInv, OpeningOK, MannersOK, First, Careful, handled = <<>>, BytesUsed(rx) > 0
  PROVE  /\ sent # <<>> /\ ConnectLen <= BytesUsed(rx)
         /\ Held(ConnectLen) = Bytes(sent[1])
<1>1. StreamIntact /\ (wire # <<>> => wire[1].at = 1) /\ BytesUsed(rx) # 0 /\ sent \in Seq(Message)
  BY Parts DEF First, MannersOK, CInv, ShapeOK
<1>2. PICK m \in Message :
        /\ Len(handled) < Len(sent) /\ m = sent[Len(handled) + 1]
        /\ MessageLen(m) <= BytesUsed(rx)
        /\ \A i \in 1..MessageLen(m) : Contents(rx)[i] = [of |-> m, at |-> i]
  BY <1>1, Ahead
<1>3. sent # <<>> /\ m = sent[1]
  <2>1. Len(handled) = 0
    OBVIOUS
  <2> QED
    BY <1>1, <1>2, <2>1
<1>4. m \in ChannelType
  BY <1>3 DEF OpeningOK, Opens
<1>5. MessageLen(m) = ConnectLen /\ ConnectLen = 4
  BY <1>4, Lengths DEF ConnectLen
<1>6. Held(ConnectLen) = Bytes(m)
  <2>1. PICK c \in Seq(AByte) : c = Contents(rx) /\ Len(c) = BytesUsed(rx)
    BY Parts
  <2>2. 4 <= Len(c)
    BY <1>2, <1>5, <2>1
  <2>3. SubSeq(c, 1, 4) = [i \in 1..4 |-> c[i]]
    BY <2>2
  <2>4. \A i \in 1..4 : c[i] = [of |-> m, at |-> i]
    BY <1>2, <1>5, <2>1, Zenon
  <2>5. [i \in 1..4 |-> c[i]] = [i \in 1..4 |-> [of |-> m, at |-> i]]
    BY <2>4
  <2> QED
    BY <1>5, <2>1, <2>3, <2>5, Zenon DEF Held, Bytes
<1> QED
  BY <1>2, <1>3, <1>5, <1>6, Zenon

LEMMA FirstKept ==
  ASSUME CInv, OpeningOK, CallbackOK, MannersOK, First, [Next]_vars
  PROVE  First'
<1>1. setup' = setup /\ sent \in Seq(Message) /\ handled \in Seq(Seq(AByte))
  BY SetupKept DEF CInv, ShapeOK
<1> SUFFICES ASSUME Careful PROVE First'
  BY <1>1 DEF First, Careful
<1>2. Taken(handled, connected) /\ BytesUsed(rx) \in Nat
  BY Parts DEF OpeningOK
<1>3. CASE Client
  <2>1. UNCHANGED <<rx, pc, handled>>
    BY <1>3, ClientOpening DEF OpeningOK
  <2>2. handled # <<>> => sent' # <<>> /\ handled'[1] = Bytes(sent'[1])
    <3> SUFFICES ASSUME handled # <<>> PROVE sent' # <<>> /\ handled'[1] = Bytes(sent'[1])
      OBVIOUS
    <3>1. sent # <<>> /\ handled[1] = Bytes(sent[1])
      BY DEF First
    <3>2. PICK m \in Message : sent' = Append(sent, m)
      <4>1. setup.kinds \subseteq DOMAIN WireLen
        BY Parts DEF Setup
      <4> QED
        BY <1>3, <4>1 DEF Client, Connect, SendEvent, Put, Message
    <3>3. sent' # <<>> /\ sent'[1] = sent[1]
      BY <1>1, <3>1, <3>2, AppendFirst
    <3> QED
      BY <2>1, <3>1, <3>3
  <2>3. handled = <<>> => StreamIntact'
    <3>1. ~AfterRead
      BY <1>3, <2>1 DEF AfterRead
    <3> QED
      BY <3>1, IntactKept DEF First
  <2> QED
    BY <2>1, <2>2, <2>3 DEF First
<1>4. CASE \/ AfterRead \/ ReadOverruns \/ AfterReadNoBuffer \/ AfterReadEof
           \/ HandleEvents \/ UNCHANGED vars
  <2>1. UNCHANGED <<sent, handled>> /\ (pc' = "loop" => pc = "loop" /\ rx' = rx)
    BY <1>4 DEF AfterRead, ReadOverruns, AfterReadNoBuffer, AfterReadEof, HandleEvents, vars
  <2>2. AfterRead => pc = "loop"
    BY DEF AfterRead
  <2>3. handled = <<>> => StreamIntact'
    BY <2>2, IntactKept DEF First
  <2> QED
    BY <2>1, <2>3 DEF First
<1>5. CASE HandleConnect
  <2>1. handled = <<>> /\ BytesUsed(rx) > 0 /\ sent' = sent
    BY <1>5, FirstType DEF HandleConnect, CallbackOK
  <2>2. sent # <<>> /\ ConnectLen <= BytesUsed(rx) /\ Held(ConnectLen) = Bytes(sent[1])
    BY <2>1, FirstConnect
  <2>3. TakeOut(ConnectLen)
    BY <1>2, <1>5, <2>2 DEF HandleConnect, ConnectLen
  <2>4. handled' = Append(<<>>, Held(ConnectLen))
    BY <2>1, <2>3 DEF TakeOut, ConnectLen
  <2>5. handled' # <<>> /\ handled'[1] = Held(ConnectLen)
    BY <2>4
  <2> QED
    BY <2>1, <2>2, <2>5 DEF First
<1>6. CASE HandleOther \/ ParseStops
  <2>1. connected # "no" /\ UNCHANGED <<sent, handled>>
    BY <1>6 DEF HandleOther, ParseStops, CallbackOK
  <2>2. handled # <<>>
    BY <1>2, <2>1 DEF Taken
  <2> QED
    BY <2>1, <2>2 DEF First
<1>7. CASE ParseEvent
  <2>1. connected # "no" /\ sent' = sent /\ TakeOut(ExpectSize)
    BY <1>7 DEF ParseEvent, CallbackOK
  <2>2. handled # <<>>
    BY <1>2, <2>1 DEF Taken
  <2>3. handled' # <<>> /\ handled'[1] = handled[1]
    <3>1. CASE ExpectSize = 0
      BY <2>1, <2>2, <3>1 DEF TakeOut
    <3>2. CASE ExpectSize # 0
      <4>1. handled' = Append(handled, Held(ExpectSize))
        BY <2>1, <3>2 DEF TakeOut
      <4>2. Held(ExpectSize) \in Seq(AByte)
        <5>1. /\ ExpectSize \in 0..BytesUsed(rx) /\ UNCHANGED <<setup, sent, wire>>
              /\ TakeOut(ExpectSize)
          BY <1>2, <1>7, Sizes DEF ParseEvent, ExpectSize
        <5> QED
          BY <5>1, TakeStep
      <4> QED
        BY <1>1, <2>2, <4>1, <4>2, AppendFirst
    <3> QED
      BY <3>1, <3>2
  <2> QED
    BY <2>1, <2>2, <2>3 DEF First
<1> QED
  BY <1>3, <1>4, <1>5, <1>6, <1>7 DEF Next, Handle

\* A careful client of another channel sends its connect message only.
LEMMA ConnectOnly ==
  ASSUME CInv, OpeningOK, Channelled, Careful, sent # <<>>, sent[1] # "EVENT"
  PROVE  BytesUsed(rx) <= ConnectLen
<1>1. sent \in Seq(Message) /\ sent[1] \in ChannelType /\ ~(Len(sent) > 1)
  BY DEF CInv, ShapeOK, OpeningOK, Opens, Channelled
<1>2. sent[1] \in Message /\ MessageLen(sent[1]) = ConnectLen
  BY <1>1, Lengths DEF Message
<1>3. Len(sent) = 1
  <2>1. PICK n \in Nat : n = Len(sent)
    BY <1>1
  <2>2. n # 0
    BY <1>1, <2>1, EmptySeq
  <2>3. ~(n > 1) /\ n # 0 => n = 1
    OBVIOUS
  <2> QED
    BY <1>1, <2>1, <2>2, <2>3, Zenon
<1>4. Len(SentBytes(sent)) = ConnectLen
  BY <1>1, <1>2, <1>3, OneMessage
<1>5. PICK a \in Nat, b \in Nat, c \in Nat :
        a = Len(FlattenSeq(handled)) /\ b = BytesUsed(rx) /\ c = Len(wire)
  BY Parts
<1>6. a + b + c = 4
  BY <1>4, <1>5, CountedDef, Zenon DEF CInv, ConnectLen
<1>7. b <= 4
  BY <1>6
<1> QED
  BY <1>5, <1>7 DEF ConnectLen

LEMMA RoomKept ==
  ASSUME AInv, [Next]_vars
  PROVE  RoomLeft'
<1>1. /\ CInv /\ OpeningOK /\ CallbackOK /\ MannersOK /\ First /\ Channelled
      /\ setup.capacity \in Nat /\ rx \in RingsOf(setup.capacity + 1, AByte)
  BY Parts DEF AInv, Setup
<1>2. setup' = setup
  BY SetupKept
<1> SUFFICES ASSUME Careful, Roomy
             PROVE  pc' # "abort" /\ (pc' = "loop" => BytesFree(rx') > 0)
  BY <1>2 DEF RoomLeft, Careful, Roomy
<1>3. pc # "abort" /\ (pc = "loop" => BytesFree(rx) > 0)
  BY DEF AInv, RoomLeft
<1>4. PICK c \in Nat, f \in Nat, u \in Nat :
        c = setup.capacity /\ f = BytesFree(rx) /\ u = BytesUsed(rx) /\ u + f = c /\ 9 <= c
  BY <1>1, Room, RoomyBound
<1>5. CASE Client \/ UNCHANGED vars
  <2>1. UNCHANGED <<rx, pc>>
    BY <1>5 DEF Client, Connect, SendEvent, Put, vars
  <2> QED
    BY <1>3, <2>1
<1>6. CASE AfterRead \/ ReadOverruns \/ AfterReadEof \/ HandleEvents
  BY <1>6 DEF AfterRead, ReadOverruns, AfterReadEof, HandleEvents
<1>7. CASE AfterReadNoBuffer
  <2>1. pc = "loop" /\ BytesFree(rx) = 0
    BY <1>7 DEF AfterReadNoBuffer
  <2> QED
    BY <1>3, <2>1
<1>8. ASSUME NEW n \in 0..BytesUsed(rx), TakeOut(n), UNCHANGED <<setup, sent, wire>>, u - n < 9
      PROVE  BytesFree(rx') > 0
  <2>1. rx' \in RingsOf(setup.capacity + 1, AByte) /\ BytesUsed(rx') = BytesUsed(rx) - n
    BY <1>1, <1>8, TakeStep
  <2>2. BytesFree(rx') \in Nat /\ BytesUsed(rx') + BytesFree(rx') = setup.capacity
    BY <1>1, <2>1, Room
  <2>3. PICK k \in Nat, g \in Nat : k = n /\ g = BytesFree(rx')
    BY <2>2
  <2>4. (u - k) + g = c /\ u - k < 9
    BY <1>4, <1>8, <2>1, <2>2, <2>3, Zenon
  <2>5. g > 0
    BY <1>4, <2>4
  <2> QED
    BY <2>3, <2>5
<1>9. ASSUME u < 9, UNCHANGED rx
      PROVE  BytesFree(rx') > 0
  BY <1>4, <1>9
<1>10. CASE HandleConnect
  <2>1. handled = <<>> /\ BytesUsed(rx) > 0 /\ pc' = "loop" /\ UNCHANGED <<setup, sent, wire>>
    BY <1>1, <1>10, FirstType DEF HandleConnect, CallbackOK
  <2>2. ConnectLen <= BytesUsed(rx)
    BY <1>1, <2>1, FirstConnect
  <2>3. TakeOut(ConnectLen) /\ ConnectLen \in 0..BytesUsed(rx)
    BY <1>4, <1>10, <2>2 DEF HandleConnect, ConnectLen
  <2>4. rx' \in RingsOf(setup.capacity + 1, AByte) /\ BytesUsed(rx') = BytesUsed(rx) - ConnectLen
    BY <1>1, <2>1, <2>3, TakeStep
  <2>5. BytesFree(rx') \in Nat /\ BytesUsed(rx') + BytesFree(rx') = setup.capacity
    BY <1>1, <2>4, Room
  <2>6. BytesFree(rx') > 0
    BY <1>4, <2>4, <2>5 DEF ConnectLen
  <2> QED
    BY <2>1, <2>6
<1>11. CASE HandleOther
  <2>1. connected \in {"MASTER", "DISPLAY"} /\ rx' = rx /\ pc' = "loop"
    BY <1>11 DEF HandleOther
  <2>2. sent # <<>> /\ sent[1] # "EVENT"
    BY <1>1, <2>1, FirstType
  <2>3. BytesUsed(rx) <= ConnectLen
    BY <1>1, <2>2, ConnectOnly
  <2>4. u < 9
    BY <1>4, <2>3 DEF ConnectLen
  <2> QED
    BY <1>9, <2>1, <2>4
<1>12. CASE ParseEvent
  <2>1. /\ TakeOut(ExpectSize) /\ UNCHANGED <<setup, sent, wire>>
        /\ pc' = IF BytesUsed(rx) = ExpectSize THEN "loop" ELSE "parse"
        /\ BytesUsed(rx) >= ExpectSize
    BY <1>12 DEF ParseEvent
  <2>2. CASE BytesUsed(rx) = ExpectSize
    <3>1. ExpectSize \in 0..BytesUsed(rx) /\ u - ExpectSize < 9
      BY <1>4, <2>2
    <3> QED
      BY <1>8, <2>1, <2>2, <3>1
  <2>3. CASE BytesUsed(rx) # ExpectSize
    BY <2>1, <2>3
  <2> QED
    BY <2>2, <2>3
<1>13. CASE ParseStops
  <2>1. rx' = rx /\ pc' = "loop" /\ BytesUsed(rx) < ExpectSize
    BY <1>13 DEF ParseStops
  <2>2. ExpectSize \in 0..9
    BY Sizes DEF ExpectSize
  <2>3. u < 9
    BY <1>4, <2>1, <2>2
  <2> QED
    BY <1>9, <2>1, <2>3
<1> QED
  BY <1>5, <1>6, <1>7, <1>10, <1>11, <1>12, <1>13 DEF Next, Handle

\* A client that never has more under way than the ring holds always finds
\* room for its next read, so that the assert in after_read is not its doing:
\* the connect message is taken whole, another channel than an event channel
\* gets nothing more, and the parser leaves less than the longest event.
THEOREM AbortCorrect == Spec => []AbortNeedsFlood
<1>1. Init => AInv
  BY InitAInv
<1>2. AInv /\ [Next]_vars => AInv'
  BY NextCInv, OpeningKept, CallbackKept, MannersKept, FirstKept, ChannelledKept, RoomKept DEF AInv
<1>3. AInv => AbortNeedsFlood
  BY DEF AInv, RoomLeft, Roomy, AbortNeedsFlood
<1> QED
  BY <1>1, <1>2, <1>3, PTL DEF Spec

-----------------------------------------------------------------------------
(* A channel that runs past the end of its buffer. *)

\* The tail has moved over no more than what was taken.
TailBehind == rx.tail <= Len(FlattenSeq(handled))

LongStream == pc = "overrun" => Len(SentBytes(sent)) > setup.capacity + 1

OInv == TailBehind /\ LongStream

LEMMA InitOInv == Init => OInv
<1> SUFFICES ASSUME Init PROVE OInv
  OBVIOUS
<1>1. rx.tail = 0 /\ handled = <<>> /\ pc = "loop"
  BY DEF Init
<1>2. Len(FlattenSeq(handled)) = 0
  BY <1>1, FlattenNone
<1> QED
  BY <1>1, <1>2 DEF OInv, TailBehind, LongStream

LEMMA TailKept ==
  ASSUME CInv, TailBehind, [Next]_vars
  PROVE  TailBehind'
<1>1. CASE Sends \/ Rests
  <2>1. UNCHANGED <<rx, handled>>
    BY <1>1 DEF Sends, Put, Rests
  <2> QED
    BY <2>1 DEF TailBehind
<1>2. CASE AfterRead
  <2>1. PICK n \in 1..Min2(Len(wire), BytesFree(rx)), upwards \in BOOLEAN :
          rx' = TakenIn(rx, SubSeq(wire, 1, n), upwards)
    BY <1>2, ReadsOn
  <2>2. rx'.tail = rx.tail
    <3>1. PICK size \in Nat \ {0} : rx \in RingsOf(size, AByte)
      BY Parts
    <3>2. PICK s : s = SubSeq(wire, 1, n)
      OBVIOUS
    <3>3. TakenIn(rx, s, upwards).tail = rx.tail
      BY <3>1 DEF TakenIn, RingsOf
    <3> QED
      BY <2>1, <3>2, <3>3, Zenon
  <2> QED
    BY <1>2, <2>2, ReadsOn DEF TailBehind
<1>3. CASE Takes
  <2>1. PICK n \in 0..BytesUsed(rx) : TakeOut(n)
    BY <1>3 DEF Takes
  <2>2. UNCHANGED <<setup, sent, wire>>
    BY <1>3 DEF Takes
  <2>3. /\ Held(n) \in Seq(AByte) /\ Len(Held(n)) = n
        /\ FlattenSeq(handled') = FlattenSeq(handled) \o Held(n)
    BY <2>1, <2>2, TakeStep
  <2>4. PICK f \in Seq(AByte), h \in Seq(AByte) : f = FlattenSeq(handled) /\ h = Held(n)
    BY <2>3, Parts, Zenon
  <2>5. Len(f \o h) = Len(f) + n
    <3>1. Len(f \o h) = Len(f) + Len(h)
      BY ConcatProperties
    <3> QED
      BY <2>3, <2>4, <3>1, Zenon
  <2>6. PICK size \in Nat \ {0} : rx \in RingsOf(size, AByte)
    BY Parts
  <2>7. rx.tail \in 0..(size - 1) /\ rx.size = size /\ BytesUsed(rx) \in 0..(size - 1)
    BY <2>6, Counts
  <2>8. PICK t \in 0..(size - 1), k \in 0..(size - 1), l \in Nat :
          t = rx.tail /\ k = n /\ l = Len(f) /\ t <= l
    <3>1. Len(f) \in Nat /\ n \in 0..(size - 1)
      BY <2>7
    <3> QED
      BY <2>4, <2>7, <3>1 DEF TailBehind
  <2>9. (t + k) % size <= l + k
    <3>1. PICK a \in Nat : a = t + k /\ a < 2 * size
      BY <2>8
    <3>2. a % size = IF a < size THEN a ELSE a - size
      BY <3>1, SmallMod, Zenon
    <3>3. (IF a < size THEN a ELSE a - size) <= l + k
      <4>1. \A i, j, m, b \in Nat : i <= m /\ b = i + j => b <= m + j /\ b - size <= m + j
        OBVIOUS
      <4>2. t \in Nat /\ k \in Nat
        OBVIOUS
      <4>3. a <= l + k /\ a - size <= l + k
        BY <2>8, <3>1, <4>1, <4>2, Zenon
      <4> QED
        BY <4>3
    <3> QED
      BY <3>1, <3>2, <3>3, Zenon
  <2>10. rx'.tail = (t + k) % size
    <3>1. rx' = [rx EXCEPT !.tail = (rx.tail + n) % rx.size]
      BY <2>1 DEF TakeOut
    <3>2. rx'.tail = (rx.tail + n) % rx.size
      BY <2>6, <3>1 DEF RingsOf
    <3> QED
      BY <2>7, <2>8, <3>2, Zenon
  <2> QED
    BY <2>3, <2>4, <2>5, <2>8, <2>9, <2>10, Zenon DEF TailBehind
<1> QED
  BY <1>1, <1>2, <1>3, StepKinds

LEMMA LongKept ==
  ASSUME CInv, OInv, [Next]_vars
  PROVE  LongStream'
<1>1. setup' = setup
  BY SetupKept
<1>2. CASE ReadOverruns
  <2>1. PICK n \in 1..Min2(Len(wire), BytesFree(rx)) : n > RoomAt(rx, rx.tail)
    BY <1>2 DEF ReadOverruns, Readable
  <2>2. PICK a \in Nat, b \in Nat, w \in Nat, c \in Nat, k \in Nat, t \in Nat :
          /\ a = Len(FlattenSeq(handled)) /\ b = BytesUsed(rx) /\ w = Len(wire)
          /\ c = setup.capacity /\ k = n /\ t = rx.tail /\ rx.size = c + 1
          /\ k <= w
    <3>1. setup.capacity \in Nat /\ rx \in RingsOf(setup.capacity + 1, AByte)
      BY Parts DEF Setup
    <3>2. PICK size \in Nat \ {0} : size = setup.capacity + 1
      BY <3>1
    <3>3. rx.tail \in 0..(size - 1) /\ rx.size = size
      BY <3>1, <3>2, Counts
    <3>4. Len(FlattenSeq(handled)) \in Nat /\ BytesUsed(rx) \in Nat /\ Len(wire) \in Nat
          /\ BytesFree(rx) \in Nat
      BY Parts
    <3>5. n \in Nat /\ n <= Len(wire)
      BY <3>4 DEF Min2
    <3>6. rx.tail \in Nat /\ rx.size = setup.capacity + 1
      BY <3>2, <3>3
    <3> QED
      BY <3>1, <3>4, <3>5, <3>6
  <2>3. k > (c + 1) - t /\ t <= a
    BY <2>1, <2>2, Zenon DEF RoomAt, OInv, TailBehind
  <2>4. Len(SentBytes(sent)) = a + b + w
    BY <2>2, CountedDef, Zenon DEF CInv
  <2>5. a + b + w > c + 1
    <3>1. \A i, j, l, m, p, q \in Nat :
            p <= l /\ p > (m + 1) - q /\ q <= i => i + j + l > m + 1
      OBVIOUS
    <3> QED
      BY <2>2, <2>3, <3>1, Zenon
  <2>6. sent' = sent
    BY <1>2 DEF ReadOverruns
  <2> QED
    BY <1>1, <2>2, <2>4, <2>5, <2>6, Zenon DEF LongStream
<1>3. CASE pc = "overrun"
  <2>1. UNCHANGED <<sent, pc>>
    BY <1>3 DEF Next, Client, Connect, SendEvent, Put, AfterRead, ReadOverruns, AfterReadNoBuffer,
                AfterReadEof, Handle, HandleConnect, HandleOther, HandleEvents, ParseEvent,
                ParseStops, vars
  <2> QED
    BY <1>1, <2>1 DEF OInv, LongStream
<1>4. CASE pc # "overrun" /\ ~ReadOverruns
  <2>1. pc' # "overrun"
    BY <1>4 DEF Next, Client, Connect, SendEvent, Put, AfterRead, AfterReadNoBuffer,
                AfterReadEof, Handle, HandleConnect, HandleOther, HandleEvents, ParseEvent,
                ParseStops, vars
  <2> QED
    BY <2>1 DEF LongStream
<1> QED
  BY <1>2, <1>3, <1>4

\* The first read to go past the end of the buffer comes after more bytes than
\* the buffer has: the tail starts at its beginning and moves only over what
\* is taken, and a shorter stream ends before the buffer does.
THEOREM OverrunCorrect == Spec => []OverrunNeedsLongStream
<1>1. Init => OInv
  BY InitOInv
<1>2. CInv /\ OInv /\ [Next]_vars => OInv'
  BY TailKept, LongKept DEF OInv
<1>3. OInv => OverrunNeedsLongStream
  BY Zenon DEF OInv, LongStream, OverrunNeedsLongStream, SentBytes, BytesOf
<1> QED
  BY <1>1, <1>2, <1>3, CountInvariance, PTL DEF Spec

=============================================================================
