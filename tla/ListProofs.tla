----------------------------- MODULE ListProofs -----------------------------
(* Lemmas about ListOps: what its stores leave in the links, and where a   *)
(* walk leads.  SessionLifeProofs and ListRaceProofs rest on them.         *)
EXTENDS ListOps, FiniteSetTheorems, SequenceTheorems, WellFoundedInduction, TLAPS

-----------------------------------------------------------------------------
(* The stores of list.h. *)

Link(f, x, y) == [f EXCEPT ![x] = y]

LEMMA PutNext ==
  ASSUME NEW n, NEW p, NEW of, NEW to
  PROVE  Store([next |-> n, prev |-> p], Put("next", of, to)) = [next |-> Link(n, of, to), prev |-> p]
BY DEF Store, Put, Link

LEMMA PutPrev ==
  ASSUME NEW n, NEW p, NEW of, NEW to
  PROVE  Store([next |-> n, prev |-> p], Put("prev", of, to)) = [next |-> n, prev |-> Link(p, of, to)]
BY DEF Store, Put, Link

\* The recursion of Do, and the memories after each store.
Done(m, stores, f) ==
  [k \in 0..Len(stores) |-> IF k = 0 THEN m ELSE Store(f[k - 1], stores[k])]

LEMMA DoDone ==
  ASSUME NEW m, NEW stores, NEW g, g = Done(m, stores, g)
  PROVE  \E f : f = Done(m, stores, f) /\ Do(m, stores) = f[Len(stores)]
<1> DEFINE f == CHOOSE f : f = Done(m, stores, f)
<1>1. f = Done(m, stores, f)
  BY Zenon
<1>2. Do(m, stores) = f[Len(stores)]
  BY Zenon DEF Do, Done
<1> QED
  BY <1>1, <1>2, Zenon

LEMMA DoTwo ==
  ASSUME NEW m, NEW s1, NEW s2
  PROVE  Do(m, <<s1, s2>>) = Store(Store(m, s1), s2)
<1> DEFINE m1 == Store(m, s1)
           m2 == Store(m1, s2)
           g  == [k \in 0..2 |-> IF k = 0 THEN m ELSE IF k = 1 THEN m1 ELSE m2]
<1>1. g = [k \in 0..2 |-> IF k = 0 THEN m ELSE Store(g[k - 1], <<s1, s2>>[k])]
  OBVIOUS
<1>2. g = Done(m, <<s1, s2>>, g)
  BY <1>1 DEF Done
<1> HIDE DEF g, m2
<1>3. PICK f : f = Done(m, <<s1, s2>>, f) /\ Do(m, <<s1, s2>>) = f[2]
  <2>1. Len(<<s1, s2>>) = 2
    OBVIOUS
  <2> QED
    BY <1>2, <2>1, DoDone, Zenon
<1>4. f = [k \in 0..2 |-> IF k = 0 THEN m ELSE Store(f[k - 1], <<s1, s2>>[k])]
  BY <1>3 DEF Done
<1>5. f[0] = m /\ f[1] = m1
  BY <1>4
<1>6. f[2] = Store(f[1], s2)
  BY <1>4
<1> QED
  BY <1>3, <1>5, <1>6 DEF m2

LEMMA DoFour ==
  ASSUME NEW m, NEW s1, NEW s2, NEW s3, NEW s4
  PROVE  Do(m, <<s1, s2, s3, s4>>) = Store(Store(Store(Store(m, s1), s2), s3), s4)
<1> DEFINE m1 == Store(m, s1)
           m2 == Store(m1, s2)
           m3 == Store(m2, s3)
           m4 == Store(m3, s4)
           g  == [k \in 0..4 |-> IF k = 0 THEN m ELSE IF k = 1 THEN m1 ELSE IF k = 2 THEN m2
                                 ELSE IF k = 3 THEN m3 ELSE m4]
<1>1. g = [k \in 0..4 |-> IF k = 0 THEN m ELSE Store(g[k - 1], <<s1, s2, s3, s4>>[k])]
  OBVIOUS
<1>2. g = Done(m, <<s1, s2, s3, s4>>, g)
  BY <1>1 DEF Done
<1> HIDE DEF g, m4
<1>3. PICK f : f = Done(m, <<s1, s2, s3, s4>>, f) /\ Do(m, <<s1, s2, s3, s4>>) = f[4]
  <2>1. Len(<<s1, s2, s3, s4>>) = 4
    OBVIOUS
  <2> QED
    BY <1>2, <2>1, DoDone, Zenon
<1>4. f = [k \in 0..4 |-> IF k = 0 THEN m ELSE Store(f[k - 1], <<s1, s2, s3, s4>>[k])]
  BY <1>3 DEF Done
<1>5. f[0] = m /\ f[1] = m1 /\ f[2] = m2 /\ f[3] = m3
  BY <1>4
<1>6. f[4] = Store(f[3], s4)
  BY <1>4
<1> QED
  BY <1>3, <1>5, <1>6 DEF m4

LEMMA DoSix ==
  ASSUME NEW m, NEW s1, NEW s2, NEW s3, NEW s4, NEW s5, NEW s6
  PROVE  Do(m, <<s1, s2, s3, s4, s5, s6>>)
           = Store(Store(Store(Store(Store(Store(m, s1), s2), s3), s4), s5), s6)
<1> DEFINE m1 == Store(m, s1)
           m2 == Store(m1, s2)
           m3 == Store(m2, s3)
           m4 == Store(m3, s4)
           m5 == Store(m4, s5)
           m6 == Store(m5, s6)
           g  == [k \in 0..6 |-> IF k = 0 THEN m ELSE IF k = 1 THEN m1 ELSE IF k = 2 THEN m2
                                 ELSE IF k = 3 THEN m3 ELSE IF k = 4 THEN m4
                                 ELSE IF k = 5 THEN m5 ELSE m6]
<1>1. g = [k \in 0..6 |-> IF k = 0 THEN m ELSE Store(g[k - 1], <<s1, s2, s3, s4, s5, s6>>[k])]
  OBVIOUS
<1>2. g = Done(m, <<s1, s2, s3, s4, s5, s6>>, g)
  BY <1>1 DEF Done
<1> HIDE DEF g, m6
<1>3. PICK f : f = Done(m, <<s1, s2, s3, s4, s5, s6>>, f)
               /\ Do(m, <<s1, s2, s3, s4, s5, s6>>) = f[6]
  <2>1. Len(<<s1, s2, s3, s4, s5, s6>>) = 6
    OBVIOUS
  <2> QED
    BY <1>2, <2>1, DoDone, Zenon
<1>4. f = [k \in 0..6 |-> IF k = 0 THEN m ELSE Store(f[k - 1], <<s1, s2, s3, s4, s5, s6>>[k])]
  BY <1>3 DEF Done
<1>5. f[0] = m /\ f[1] = m1 /\ f[2] = m2 /\ f[3] = m3
  BY <1>4
<1>6. f[4] = m4 /\ f[5] = m5
  BY <1>4, <1>5
<1>7. f[6] = Store(f[5], s6)
  BY <1>4
<1> QED
  BY <1>3, <1>6, <1>7 DEF m6

LEMMA TwoAndTwo ==
  ASSUME NEW a, NEW b, NEW c, NEW d
  PROVE  <<a, b>> \o <<c, d>> = <<a, b, c, d>>
<1> DEFINE X == {a, b, c, d}
           l == <<a, b>> \o <<c, d>>
           r == <<a, b, c, d>>
<1>1. l \in Seq(X) /\ r \in Seq(X) /\ Len(l) = 4 /\ Len(r) = 4
  OBVIOUS
<1>2. l[1] = a /\ l[2] = b /\ l[3] = c /\ l[4] = d
  OBVIOUS
<1>3. r[1] = a /\ r[2] = b /\ r[3] = c /\ r[4] = d
  OBVIOUS
<1>4. \A i \in 1..4 : l[i] = r[i]
  <2>1. \A i \in 1..4 : i = 1 \/ i = 2 \/ i = 3 \/ i = 4
    OBVIOUS
  <2> HIDE DEF l, r
  <2> QED
    BY <1>2, <1>3, <2>1, Zenon
<1> HIDE DEF l, r, X
<1>5. l = r
  BY <1>1, <1>4, SeqEqual, Zenon
<1> QED
  BY <1>5 DEF l, r

LEMMA FourAndTwo ==
  ASSUME NEW a, NEW b, NEW c, NEW d, NEW e, NEW f
  PROVE  <<a, b, c, d>> \o <<e, f>> = <<a, b, c, d, e, f>>
<1> DEFINE X == {a, b, c, d, e, f}
           l == <<a, b, c, d>> \o <<e, f>>
           r == <<a, b, c, d, e, f>>
<1>1. l \in Seq(X) /\ r \in Seq(X) /\ Len(l) = 6 /\ Len(r) = 6
  OBVIOUS
<1>2. l[1] = a /\ l[2] = b /\ l[3] = c /\ l[4] = d /\ l[5] = e /\ l[6] = f
  OBVIOUS
<1>3. r[1] = a /\ r[2] = b /\ r[3] = c /\ r[4] = d /\ r[5] = e /\ r[6] = f
  OBVIOUS
<1>4. \A i \in 1..6 : l[i] = r[i]
  <2>1. \A i \in 1..6 : i = 1 \/ i = 2 \/ i = 3 \/ i = 4 \/ i = 5 \/ i = 6
    OBVIOUS
  <2> HIDE DEF l, r
  <2> QED
    BY <1>2, <1>3, <2>1, Zenon
<1> HIDE DEF l, r, X
<1>5. l = r
  BY <1>1, <1>4, SeqEqual, Zenon
<1> QED
  BY <1>5 DEF l, r

\* What list_add_tail, and list_del with the free, do to the links.
LEMMA AddTailLinks ==
  ASSUME NEW m \in Memory, NEW s
  PROVE  \A last : last = m.prev[Anchor] =>
           Do(m, ListAddTail(m, s)) = [next |-> Link(Link(m.next, s, Anchor), last, s),
                                       prev |-> Link(Link(m.prev, Anchor, s), s, last)]
<1> TAKE last
<1>1. m = [next |-> m.next, prev |-> m.prev]
  BY DEF Memory
<1>2. PICK n, p : n = m.next /\ p = m.prev
  OBVIOUS
<1>3. Do([next |-> n, prev |-> p], ListAddIn(s, last, Anchor))
        = [next |-> Link(Link(n, s, Anchor), last, s), prev |-> Link(Link(p, Anchor, s), s, last)]
  <2>1. PICK p1, n2, p3, n4 :
          /\ Link(p, Anchor, s) = p1 /\ Link(n, s, Anchor) = n2
          /\ Link(p1, s, last) = p3 /\ Link(n2, last, s) = n4
    OBVIOUS
  <2>2. Store([next |-> n, prev |-> p], Put("prev", Anchor, s)) = [next |-> n, prev |-> p1]
    BY <2>1, PutPrev
  <2>3. Store([next |-> n, prev |-> p1], Put("next", s, Anchor)) = [next |-> n2, prev |-> p1]
    BY <2>1, PutNext
  <2>4. Store([next |-> n2, prev |-> p1], Put("prev", s, last)) = [next |-> n2, prev |-> p3]
    BY <2>1, PutPrev
  <2>5. Store([next |-> n2, prev |-> p3], Put("next", last, s)) = [next |-> n4, prev |-> p3]
    BY <2>1, PutNext
  <2>6. Do([next |-> n, prev |-> p], ListAddIn(s, last, Anchor)) = [next |-> n4, prev |-> p3]
    BY <2>2, <2>3, <2>4, <2>5, DoFour DEF ListAddIn
  <2> QED
    BY <2>1, <2>6
<1>4. ASSUME last = m.prev[Anchor] PROVE ListAddTail(m, s) = ListAddIn(s, last, Anchor)
  BY <1>4, Zenon DEF ListAddTail
<1> QED
  BY <1>1, <1>2, <1>3, <1>4

LEMMA DelLinks ==
  ASSUME NEW m \in Memory, NEW s
  PROVE  \A before, after : before = m.prev[s] /\ after = m.next[s] =>
           Do(m, ListDel(m, s) \o <<Put("next", s, Junk), Put("prev", s, Junk)>>)
             = [next |-> Link(Link(Link(m.next, before, after), s, Poison), s, Junk),
                prev |-> Link(Link(Link(m.prev, after, before), s, Poison), s, Junk)]
<1> TAKE before, after
<1>1. m = [next |-> m.next, prev |-> m.prev]
  BY DEF Memory
<1>2. PICK n, p : n = m.next /\ p = m.prev
  OBVIOUS
<1>3. Do([next |-> n, prev |-> p],
         <<Put("prev", after, before), Put("next", before, after), Put("next", s, Poison),
           Put("prev", s, Poison), Put("next", s, Junk), Put("prev", s, Junk)>>)
        = [next |-> Link(Link(Link(n, before, after), s, Poison), s, Junk),
           prev |-> Link(Link(Link(p, after, before), s, Poison), s, Junk)]
  <2>1. PICK p1, n2, n3, p4, n5, p6 :
          /\ Link(p, after, before) = p1 /\ Link(n, before, after) = n2
          /\ Link(n2, s, Poison) = n3 /\ Link(p1, s, Poison) = p4
          /\ Link(n3, s, Junk) = n5 /\ Link(p4, s, Junk) = p6
    OBVIOUS
  <2>2. Store([next |-> n, prev |-> p], Put("prev", after, before)) = [next |-> n, prev |-> p1]
    BY <2>1, PutPrev
  <2>3. Store([next |-> n, prev |-> p1], Put("next", before, after)) = [next |-> n2, prev |-> p1]
    BY <2>1, PutNext
  <2>4. Store([next |-> n2, prev |-> p1], Put("next", s, Poison)) = [next |-> n3, prev |-> p1]
    BY <2>1, PutNext
  <2>5. Store([next |-> n3, prev |-> p1], Put("prev", s, Poison)) = [next |-> n3, prev |-> p4]
    BY <2>1, PutPrev
  <2>6. Store([next |-> n3, prev |-> p4], Put("next", s, Junk)) = [next |-> n5, prev |-> p4]
    BY <2>1, PutNext
  <2>7. Store([next |-> n5, prev |-> p4], Put("prev", s, Junk)) = [next |-> n5, prev |-> p6]
    BY <2>1, PutPrev
  <2> QED
    BY <2>1, <2>2, <2>3, <2>4, <2>5, <2>6, <2>7, DoSix
<1>4. ListDelIn(before, after) \o <<Put("next", s, Poison), Put("prev", s, Poison)>>
        = <<Put("prev", after, before), Put("next", before, after),
            Put("next", s, Poison), Put("prev", s, Poison)>>
  BY TwoAndTwo DEF ListDelIn
<1>5. <<Put("prev", after, before), Put("next", before, after),
        Put("next", s, Poison), Put("prev", s, Poison)>>
        \o <<Put("next", s, Junk), Put("prev", s, Junk)>>
        = <<Put("prev", after, before), Put("next", before, after), Put("next", s, Poison),
            Put("prev", s, Poison), Put("next", s, Junk), Put("prev", s, Junk)>>
  BY FourAndTwo
<1>6. ASSUME before = m.prev[s], after = m.next[s]
      PROVE  ListDel(m, s) \o <<Put("next", s, Junk), Put("prev", s, Junk)>>
               = <<Put("prev", after, before), Put("next", before, after), Put("next", s, Poison),
                   Put("prev", s, Poison), Put("next", s, Junk), Put("prev", s, Junk)>>
  <2>1. ListDel(m, s) = ListDelIn(before, after) \o <<Put("next", s, Poison), Put("prev", s, Poison)>>
    BY <1>6, Zenon DEF ListDel
  <2> QED
    BY <1>4, <1>5, <2>1
<1> QED
  BY <1>1, <1>2, <1>3, <1>6

-----------------------------------------------------------------------------
(* The list as a ring through a sequence of nodes. *)

\* The k-th address on the way round.
At(q, k) == IF k \in 1..Len(q) THEN q[k] ELSE Anchor

RingOf(n, p, q) ==
  /\ q \in Seq(Node)
  /\ \A i, j \in 1..Len(q) : q[i] = q[j] => i = j
  /\ \A k \in 0..Len(q) : n[At(q, k)] = At(q, k + 1) /\ p[At(q, k + 1)] = At(q, k)

\* The half of it that a walk sees.
Leads(n, q) ==
  /\ q \in Seq(Node)
  /\ \A i, j \in 1..Len(q) : q[i] = q[j] => i = j
  /\ \A k \in 0..Len(q) : n[At(q, k)] = At(q, k + 1)

LEMMA RingLeads ==
  ASSUME NEW n, NEW p, NEW q, RingOf(n, p, q)
  PROVE  Leads(n, q)
BY Zenon DEF RingOf, Leads

Without(q, i) == SubSeq(q, 1, i - 1) \o SubSeq(q, i + 1, Len(q))

LEMMA AnchorApart == Anchor \notin Node /\ Poison \notin Node /\ Junk \notin Node
BY AddressAssumption

LEMMA WithoutAt ==
  ASSUME NEW S, NEW q \in Seq(S), NEW i \in 1..Len(q)
  PROVE  /\ Without(q, i) \in Seq(S) /\ Len(Without(q, i)) = Len(q) - 1
         /\ \A k \in 1..(Len(q) - 1) : Without(q, i)[k] = IF k < i THEN q[k] ELSE q[k + 1]
<1>1. PICK l \in Nat : l = Len(q) /\ i \in 1..l
  OBVIOUS
<1>2. /\ SubSeq(q, 1, i - 1) \in Seq(S) /\ Len(SubSeq(q, 1, i - 1)) = i - 1
      /\ \A k \in 1..(i - 1) : SubSeq(q, 1, i - 1)[k] = q[k]
  OBVIOUS
<1>3. /\ SubSeq(q, i + 1, l) \in Seq(S) /\ Len(SubSeq(q, i + 1, l)) = l - i
      /\ \A k \in 1..(l - i) : SubSeq(q, i + 1, l)[k] = q[i + k]
  BY <1>1
<1>4. PICK a \in Seq(S), b \in Seq(S) : a = SubSeq(q, 1, i - 1) /\ b = SubSeq(q, i + 1, l)
  BY <1>2, <1>3
<1>5. Without(q, i) = a \o b
  BY <1>1, <1>4, Zenon DEF Without
<1>6. /\ Len(a) = i - 1 /\ Len(b) = l - i
      /\ \A k \in 1..(i - 1) : a[k] = q[k]
      /\ \A k \in 1..(l - i) : b[k] = q[i + k]
  BY <1>2, <1>3, <1>4, Zenon
<1>7. a \o b \in Seq(S) /\ Len(a \o b) = l - 1
  BY <1>1, <1>6
<1>8. ASSUME NEW k \in 1..(l - 1)
      PROVE  (a \o b)[k] = IF k < i THEN q[k] ELSE q[k + 1]
  <2>1. CASE k < i
    <3>1. k \in 1..(i - 1) /\ (a \o b)[k] = a[k]
      BY <1>1, <1>6, <2>1
    <3> QED
      BY <1>6, <2>1, <3>1
  <2>2. CASE ~(k < i)
    <3>1. (a \o b)[k] = b[k - (i - 1)]
      BY <1>1, <1>6, <2>2
    <3>2. k - (i - 1) \in 1..(l - i) /\ i + (k - (i - 1)) = k + 1
      BY <1>1, <2>2
    <3> QED
      BY <1>6, <2>2, <3>1, <3>2
  <2> QED
    BY <2>1, <2>2
<1> QED
  BY <1>1, <1>5, <1>7, <1>8, Zenon

\* The nodes of the ring.
Holds(q) == {q[i] : i \in 1..Len(q)}

LEMMA AppendHolds ==
  ASSUME NEW q \in Seq(Node), NEW s \in Node
  PROVE  Append(q, s) \in Seq(Node) /\ Holds(Append(q, s)) = Holds(q) \cup {s}
<1>1. PICK l \in Nat : l = Len(q)
  OBVIOUS
<1>2. PICK r : r = Append(q, s)
  OBVIOUS
<1>3. r \in Seq(Node) /\ Len(r) = l + 1 /\ r[l + 1] = s /\ \A i \in 1..l : r[i] = q[i]
  BY <1>1, <1>2
<1>4. \A i \in 1..(l + 1) : i \in 1..l \/ i = l + 1
  BY <1>1
<1>5. l + 1 \in 1..(l + 1) /\ \A i \in 1..l : i \in 1..(l + 1)
  BY <1>1
<1>6. \A x : (\E i \in 1..(l + 1) : x = r[i]) <=> (\E i \in 1..l : x = q[i]) \/ x = s
  BY <1>3, <1>4, <1>5, Zenon
<1>7. Holds(r) = {r[i] : i \in 1..(l + 1)} /\ Holds(q) = {q[i] : i \in 1..l}
  BY <1>1, <1>3, Zenon DEF Holds
<1>8. Holds(r) = Holds(q) \cup {s}
  BY <1>6, <1>7
<1> QED
  BY <1>2, <1>3, <1>8, Zenon

LEMMA WithoutHolds ==
  ASSUME NEW q \in Seq(Node), \A i, j \in 1..Len(q) : q[i] = q[j] => i = j, NEW i \in 1..Len(q)
  PROVE  Holds(Without(q, i)) = Holds(q) \ {q[i]}
<1>1. PICK l \in Nat : l = Len(q) /\ i \in 1..l
  OBVIOUS
<1>2. PICK r : r = Without(q, i)
  OBVIOUS
<1>3. Len(r) = l - 1 /\ \A k \in 1..(l - 1) : r[k] = IF k < i THEN q[k] ELSE q[k + 1]
  BY <1>1, <1>2, WithoutAt, Zenon
<1>4. ASSUME NEW k \in 1..(l - 1) PROVE \E j \in 1..l : j # i /\ r[k] = q[j]
  <2>1. CASE k < i
    <3>1. k \in 1..l /\ k # i /\ r[k] = q[k]
      BY <1>1, <1>3, <2>1
    <3> QED
      BY <3>1, Zenon
  <2>2. CASE ~(k < i)
    <3>1. k + 1 \in 1..l /\ k + 1 # i /\ r[k] = q[k + 1]
      BY <1>1, <1>3, <2>2
    <3> QED
      BY <3>1, Zenon
  <2> QED
    BY <2>1, <2>2
<1>5. ASSUME NEW j \in 1..l, j # i PROVE \E k \in 1..(l - 1) : r[k] = q[j]
  <2>1. CASE j < i
    <3>1. j \in 1..(l - 1) /\ r[j] = q[j]
      BY <1>1, <1>3, <2>1
    <3> QED
      BY <3>1, Zenon
  <2>2. CASE ~(j < i)
    <3>1. j - 1 \in 1..(l - 1) /\ ~(j - 1 < i) /\ (j - 1) + 1 = j
      BY <1>1, <1>5, <2>2
    <3>2. r[j - 1] = q[j]
      BY <1>3, <3>1
    <3> QED
      BY <3>1, <3>2, Zenon
  <2> QED
    BY <2>1, <2>2
<1>6. \A j \in 1..l : q[j] = q[i] => j = i
  BY <1>1
<1>7. Holds(r) = {r[k] : k \in 1..(l - 1)} /\ Holds(q) = {q[j] : j \in 1..l}
  BY <1>1, <1>3, Zenon DEF Holds
<1>8. \A x : (\E k \in 1..(l - 1) : x = r[k]) <=> (\E j \in 1..l : x = q[j]) /\ x # q[i]
  BY <1>4, <1>5, <1>6, ZenonT(30)
<1>9. \A x : x \in Holds(r) <=> x \in Holds(q) /\ x # q[i]
  <2>1. \A x : x \in Holds(r) <=> \E k \in 1..(l - 1) : x = r[k]
    BY <1>7, Zenon
  <2>2. \A x : x \in Holds(q) <=> \E j \in 1..l : x = q[j]
    BY <1>7, Zenon
  <2> QED
    BY <1>8, <2>1, <2>2, Zenon
<1>10. Holds(r) = Holds(q) \ {q[i]}
  BY <1>9, Zenon
<1> QED
  BY <1>2, <1>10, Zenon

LEMMA LinkType ==
  ASSUME NEW f \in [Node \cup {Anchor} -> Address], NEW x, NEW y \in Address
  PROVE  Link(f, x, y) \in [Node \cup {Anchor} -> Address]
BY DEF Link

\* Places on the way round are places, and only the anchor comes twice.
LEMMA PlacesLed ==
  ASSUME NEW n, NEW q, Leads(n, q)
  PROVE  /\ \A k \in Nat : At(q, k) \in Node \cup {Anchor}
         /\ \A k \in 1..Len(q) : At(q, k) = q[k] /\ q[k] \in Node
         /\ At(q, 0) = Anchor /\ At(q, Len(q) + 1) = Anchor
         /\ \A i, j \in 0..Len(q) : At(q, i) = At(q, j) => i = j
         /\ \A i, j \in 1..(Len(q) + 1) : At(q, i) = At(q, j) => i = j
<1>1. q \in Seq(Node) /\ \A i, j \in 1..Len(q) : q[i] = q[j] => i = j
  BY DEF Leads
<1>2. PICK l \in Nat : l = Len(q)
  BY <1>1
<1>3. \A k \in 1..l : At(q, k) = q[k] /\ q[k] \in Node /\ q[k] # Anchor
  BY <1>1, <1>2, AnchorApart DEF At
<1>4. At(q, 0) = Anchor /\ At(q, l + 1) = Anchor
  BY <1>2 DEF At
<1>5. \A k \in Nat : k \in 1..l \/ At(q, k) = Anchor
  BY <1>2 DEF At
<1>6. \A i \in 0..l : i = 0 \/ i \in 1..l
  BY <1>2
<1>7. \A i \in 1..(l + 1) : i = l + 1 \/ i \in 1..l
  BY <1>2
<1>8. \A k \in Nat : At(q, k) \in Node \cup {Anchor}
  BY <1>3, <1>5, Zenon
<1>9. ASSUME NEW i \in 1..l, NEW j \in 1..l, At(q, i) = At(q, j) PROVE i = j
  BY <1>1, <1>2, <1>3, <1>9, Zenon
<1>10. \A i, j \in 0..l : At(q, i) = At(q, j) => i = j
  BY <1>3, <1>4, <1>6, <1>9, Zenon
<1>11. \A i, j \in 1..(l + 1) : At(q, i) = At(q, j) => i = j
  BY <1>3, <1>4, <1>7, <1>9, Zenon
<1> QED
  BY <1>2, <1>3, <1>4, <1>8, <1>10, <1>11, Zenon

LEMMA Places ==
  ASSUME NEW n, NEW p, NEW q, RingOf(n, p, q)
  PROVE  /\ \A k \in Nat : At(q, k) \in Node \cup {Anchor}
         /\ \A k \in 1..Len(q) : At(q, k) = q[k] /\ q[k] \in Node
         /\ At(q, 0) = Anchor /\ At(q, Len(q) + 1) = Anchor
         /\ \A i, j \in 0..Len(q) : At(q, i) = At(q, j) => i = j
         /\ \A i, j \in 1..(Len(q) + 1) : At(q, i) = At(q, j) => i = j
<1>1. Leads(n, q)
  BY RingLeads, Zenon
<1> QED
  BY <1>1, PlacesLed, Zenon

LEMMA RingGrows ==
  ASSUME NEW n \in [Node \cup {Anchor} -> Address], NEW p \in [Node \cup {Anchor} -> Address],
         NEW q, RingOf(n, p, q), NEW s \in Node, \A i \in 1..Len(q) : q[i] # s
  PROVE  \A last : last = p[Anchor] =>
           RingOf(Link(Link(n, s, Anchor), last, s), Link(Link(p, Anchor, s), s, last), Append(q, s))
<1> TAKE last
<1>1. HAVE last = p[Anchor]
<1>2. q \in Seq(Node) /\ \A i, j \in 1..Len(q) : q[i] = q[j] => i = j
  BY DEF RingOf
<1>3. PICK l \in Nat : l = Len(q)
  BY <1>2
<1>4. \A k \in 0..l : n[At(q, k)] = At(q, k + 1) /\ p[At(q, k + 1)] = At(q, k)
  BY <1>3, Zenon DEF RingOf
<1>5. last = At(q, l)
  <2>1. l \in 0..l
    OBVIOUS
  <2> QED
    <3>1. p[At(q, l + 1)] = At(q, l)
      BY <1>4, <2>1, Zenon
    <3>2. At(q, l + 1) = Anchor
      BY <1>3 DEF At
    <3> QED
      BY <1>1, <3>1, <3>2, Zenon
<1>6. PICK r : r = Append(q, s)
  OBVIOUS
<1>7. r \in Seq(Node) /\ Len(r) = l + 1 /\ r[l + 1] = s /\ \A k \in 1..l : r[k] = q[k]
  BY <1>2, <1>3, <1>6
<1>8. /\ \A k \in 0..l : At(r, k) = At(q, k)
      /\ At(r, l + 1) = s /\ At(r, (l + 1) + 1) = Anchor
  BY <1>3, <1>7 DEF At
<1>9. s # Anchor /\ last \in Node \cup {Anchor} /\ s # last /\ s \in Address /\ last \in Address /\ Anchor \in Address
  <2>1. last = Anchor \/ (l \in 1..l /\ last = q[l])
    BY <1>3, <1>5 DEF At
  <2>2. s # last
    BY <1>3, <2>1, AnchorApart, Zenon
  <2>3. last \in Node \cup {Anchor}
    BY <1>3, <1>5, Places, Zenon
  <2> QED
    BY <2>2, <2>3, AnchorApart DEF Address
<1>10. PICK n1, p1 : n1 = Link(n, s, Anchor) /\ p1 = Link(p, Anchor, s)
  OBVIOUS
<1>11. n1 \in [Node \cup {Anchor} -> Address] /\ p1 \in [Node \cup {Anchor} -> Address]
  BY <1>9, <1>10, LinkType, Zenon
<1>12. /\ \A z \in Node \cup {Anchor} : n1[z] = IF z = s THEN Anchor ELSE n[z]
       /\ \A z \in Node \cup {Anchor} : p1[z] = IF z = Anchor THEN s ELSE p[z]
  <2>1. \A z \in Node \cup {Anchor} : Link(n, s, Anchor)[z] = IF z = s THEN Anchor ELSE n[z]
    BY DEF Link
  <2>2. \A z \in Node \cup {Anchor} : Link(p, Anchor, s)[z] = IF z = Anchor THEN s ELSE p[z]
    BY DEF Link
  <2> QED
    BY <1>10, <2>1, <2>2
<1>13. PICK n2, p2 : n2 = Link(n1, last, s) /\ p2 = Link(p1, s, last)
  OBVIOUS
<1>14. /\ \A z \in Node \cup {Anchor} : n2[z] = IF z = last THEN s ELSE n1[z]
       /\ \A z \in Node \cup {Anchor} : p2[z] = IF z = s THEN last ELSE p1[z]
  <2>1. \A z \in Node \cup {Anchor} : Link(n1, last, s)[z] = IF z = last THEN s ELSE n1[z]
    BY <1>11 DEF Link
  <2>2. \A z \in Node \cup {Anchor} : Link(p1, s, last)[z] = IF z = s THEN last ELSE p1[z]
    BY <1>11 DEF Link
  <2> QED
    BY <1>13, <2>1, <2>2
<1>15. ASSUME NEW k \in 0..(l + 1)
       PROVE  n2[At(r, k)] = At(r, k + 1) /\ p2[At(r, k + 1)] = At(r, k)
  <2>1. CASE k = l + 1
    <3>1. n2[s] = Anchor /\ p2[Anchor] = s
      BY <1>9, <1>12, <1>14
    <3> QED
      BY <1>8, <2>1, <3>1, Zenon
  <2>2. CASE k = l
    <3>1. n2[last] = s /\ p2[s] = last
      BY <1>9, <1>14
    <3>2. k \in 0..l
      BY <2>2
    <3> QED
      BY <1>5, <1>8, <2>2, <3>1, <3>2, Zenon
  <2>3. CASE k # l + 1 /\ k # l
    <3>1. k \in 0..l /\ l \in 0..l /\ k + 1 \in 0..l /\ k + 1 \in 1..l /\ k \in Nat
      BY <2>3
    <3>2. PICK x \in Node \cup {Anchor}, y \in Node : x = At(q, k) /\ y = At(q, k + 1) /\ y = q[k + 1]
      BY <1>3, <3>1, Places, Zenon
    <3>3. x # last
      BY <1>3, <1>5, <2>3, <3>1, <3>2, Places, Zenon
    <3>4. x # s
      <4>1. x = Anchor \/ (k \in 1..l /\ x = q[k])
        BY <1>3, <3>1, <3>2 DEF At
      <4> QED
        BY <1>3, <1>9, <4>1, Zenon
    <3>5. y # s /\ y # Anchor
      BY <1>3, <3>1, <3>2, AnchorApart, Zenon
    <3>6. n2[x] = n[x] /\ p2[y] = p[y]
      BY <1>12, <1>14, <3>3, <3>4, <3>5
    <3> QED
      BY <1>4, <1>8, <3>1, <3>2, <3>6, Zenon
  <2> QED
    BY <2>1, <2>2, <2>3, Zenon
<1>16. ASSUME NEW i \in 1..(l + 1), NEW j \in 1..(l + 1), r[i] = r[j]
       PROVE  i = j
  <2>1. (i = l + 1 \/ i \in 1..l) /\ (j = l + 1 \/ j \in 1..l)
    OBVIOUS
  <2> QED
    BY <1>2, <1>3, <1>7, <1>16, <2>1, Zenon
<1>17. RingOf(n2, p2, r)
  BY <1>7, <1>15, <1>16, Zenon DEF RingOf
<1> QED
  BY <1>6, <1>10, <1>13, <1>17, Zenon

\* A node leaves the ring.
LEMMA RingCut ==
  ASSUME NEW n \in [Node \cup {Anchor} -> Address], NEW p \in [Node \cup {Anchor} -> Address],
         NEW q, RingOf(n, p, q), NEW i \in 1..Len(q)
  PROVE  \A s, before, after : s = q[i] /\ before = p[s] /\ after = n[s] =>
           RingOf(Link(n, before, after), Link(p, after, before), Without(q, i))
<1> TAKE s, before, after
<1>1. HAVE s = q[i] /\ before = p[s] /\ after = n[s]
<1>2. q \in Seq(Node) /\ \A j, k \in 1..Len(q) : q[j] = q[k] => j = k
  BY DEF RingOf
<1>3. PICK l \in Nat : l = Len(q) /\ i \in 1..l
  BY <1>2
<1>4. \A k \in 0..l : n[At(q, k)] = At(q, k + 1) /\ p[At(q, k + 1)] = At(q, k)
  BY <1>3, Zenon DEF RingOf
<1>5. s \in Node /\ s # Anchor /\ At(q, i) = s
  BY <1>1, <1>3, Places, AnchorApart, Zenon
<1>6. before = At(q, i - 1) /\ after = At(q, i + 1)
  <2>1. i \in 0..l /\ i - 1 \in 0..l /\ (i - 1) + 1 = i
    BY <1>3
  <2>2. n[At(q, i)] = At(q, i + 1) /\ p[At(q, (i - 1) + 1)] = At(q, i - 1)
    BY <1>4, <2>1, Zenon
  <2> QED
    BY <1>1, <1>5, <2>1, <2>2, Zenon
<1>7. PICK r : r = Without(q, i)
  OBVIOUS
<1>8. r \in Seq(Node) /\ Len(r) = l - 1 /\ \A k \in 1..(l - 1) : r[k] = IF k < i THEN q[k] ELSE q[k + 1]
  BY <1>2, <1>3, <1>7, WithoutAt, Zenon
<1>9. \A k \in 0..l : At(r, k) = IF k < i THEN At(q, k) ELSE At(q, k + 1)
  <2> TAKE k \in 0..l
  <2>1. CASE k \in 1..(l - 1) /\ k < i
    <3>1. k \in 1..Len(r) /\ k \in 1..Len(q)
      BY <1>3, <1>8, <2>1
    <3> QED
      BY <1>8, <2>1, <3>1, Zenon DEF At
  <2>2. CASE k \in 1..(l - 1) /\ ~(k < i)
    <3>1. k \in 1..Len(r) /\ k + 1 \in 1..Len(q)
      BY <1>3, <1>8, <2>2
    <3>2. r[k] = q[k + 1]
      BY <1>8, <2>2
    <3>3. At(r, k) = r[k] /\ At(q, k + 1) = q[k + 1]
      BY <3>1, Zenon DEF At
    <3> QED
      BY <2>2, <3>2, <3>3, Zenon
  <2>3. CASE k = 0
    <3>1. k \notin 1..Len(r) /\ k < i /\ k \notin 1..Len(q)
      BY <1>3, <2>3
    <3> QED
      BY <3>1, Zenon DEF At
  <2>4. CASE k = l
    <3>1. k \notin 1..Len(r) /\ ~(k < i) /\ k + 1 \notin 1..Len(q)
      BY <1>3, <1>8, <2>4
    <3> QED
      BY <3>1, Zenon DEF At
  <2>5. k = 0 \/ k = l \/ k \in 1..(l - 1)
    OBVIOUS
  <2> QED
    BY <2>1, <2>2, <2>3, <2>4, <2>5, Zenon
<1>10. before \in Node \cup {Anchor} /\ after \in Node \cup {Anchor} /\ s # before /\ s # after
  <2>1. i - 1 \in Nat /\ i + 1 \in Nat /\ i - 1 \in 0..l /\ i \in 0..l /\ i # i - 1
        /\ i \in 1..(l + 1) /\ i + 1 \in 1..(l + 1) /\ i # i + 1
    BY <1>3
  <2> QED
    BY <1>3, <1>5, <1>6, <2>1, Places, ZenonT(30)
<1>11. PICK n3, p3 : n3 = Link(n, before, after) /\ p3 = Link(p, after, before)
  OBVIOUS
<1>12. \A z \in Node \cup {Anchor} : /\ n3[z] = IF z = before THEN after ELSE n[z]
                                     /\ p3[z] = IF z = after THEN before ELSE p[z]
  <2>1. \A z \in Node \cup {Anchor} : /\ Link(n, before, after)[z] = IF z = before THEN after ELSE n[z]
                                      /\ Link(p, after, before)[z] = IF z = after THEN before ELSE p[z]
    BY DEF Link
  <2> QED
    BY <1>11, <2>1, Zenon
<1>13. ASSUME NEW k \in 0..(l - 1)
       PROVE  n3[At(r, k)] = At(r, k + 1) /\ p3[At(r, k + 1)] = At(r, k)
  <2>1. CASE k < i - 1
    <3>1. /\ k \in 0..l /\ k + 1 \in 0..l /\ k < i /\ k + 1 < i /\ k \in Nat /\ k + 1 \in Nat
          /\ i - 1 \in 0..l /\ k # i - 1 /\ i \in 0..l /\ k # i /\ k + 1 # i
          /\ k + 1 \in 1..(l + 1) /\ i + 1 \in 1..(l + 1) /\ k + 1 # i + 1
      BY <1>3, <2>1
    <3>2. PICK x \in Node \cup {Anchor}, y \in Node \cup {Anchor} : x = At(q, k) /\ y = At(q, k + 1)
      BY <3>1, Places, Zenon
    <3>3. x # before /\ x # s /\ y # s /\ y # after
      BY <1>3, <1>5, <1>6, <3>1, <3>2, Places, Zenon
    <3>4. n3[x] = n[x] /\ p3[y] = p[y]
      BY <1>12, <3>3
    <3>5. At(r, k) = x /\ At(r, k + 1) = y
      BY <1>9, <3>1, <3>2
    <3> QED
      BY <1>4, <3>1, <3>2, <3>4, <3>5, Zenon
  <2>2. CASE k = i - 1
    <3>1. k \in 0..l /\ k + 1 \in 0..l /\ k < i /\ ~(k + 1 < i) /\ (k + 1) + 1 = i + 1
      BY <1>3, <2>2
    <3>2. At(r, k) = before /\ At(r, k + 1) = after
      <4>1. At(r, k) = At(q, k) /\ At(r, k + 1) = At(q, (k + 1) + 1)
        BY <1>9, <3>1
      <4> QED
        BY <1>6, <2>2, <3>1, <4>1, Zenon
    <3>3. n3[before] = after /\ p3[after] = before
      BY <1>10, <1>12
    <3> QED
      BY <3>2, <3>3, Zenon
  <2>3. CASE k > i - 1
    <3>1. /\ k \in 0..l /\ k + 1 \in 0..l /\ ~(k < i) /\ ~(k + 1 < i) /\ (k + 1) + 1 \in Nat /\ k + 1 \in Nat
          /\ i - 1 \in 0..l /\ k + 1 # i - 1 /\ i \in 0..l /\ k + 1 # i
          /\ (k + 1) + 1 \in 1..(l + 1) /\ i + 1 \in 1..(l + 1) /\ (k + 1) + 1 # i + 1
          /\ i \in 1..(l + 1) /\ (k + 1) + 1 # i
      BY <1>3, <2>3
    <3>2. PICK x \in Node \cup {Anchor}, y \in Node \cup {Anchor} : x = At(q, k + 1) /\ y = At(q, (k + 1) + 1)
      BY <3>1, Places, Zenon
    <3>3. x # before /\ x # s /\ y # s /\ y # after
      BY <1>3, <1>5, <1>6, <3>1, <3>2, Places, ZenonT(30)
    <3>4. n3[x] = n[x] /\ p3[y] = p[y]
      BY <1>12, <3>3
    <3>5. At(r, k) = x /\ At(r, k + 1) = y
      BY <1>9, <3>1, <3>2
    <3> QED
      BY <1>4, <3>1, <3>2, <3>4, <3>5, Zenon
  <2>4. k < i - 1 \/ k = i - 1 \/ k > i - 1
    OBVIOUS
  <2> QED
    BY <2>1, <2>2, <2>3, <2>4, Zenon
<1>14. ASSUME NEW j \in 1..(l - 1), NEW k \in 1..(l - 1), r[j] = r[k]
       PROVE  j = k
  <2>1. PICK a \in 1..l, b \in 1..l :
          r[j] = q[a] /\ r[k] = q[b] /\ a = (IF j < i THEN j ELSE j + 1) /\ b = (IF k < i THEN k ELSE k + 1)
    <3>1. (IF j < i THEN j ELSE j + 1) \in 1..l /\ (IF k < i THEN k ELSE k + 1) \in 1..l
      OBVIOUS
    <3>2. r[j] = q[IF j < i THEN j ELSE j + 1] /\ r[k] = q[IF k < i THEN k ELSE k + 1]
      BY <1>8
    <3> QED
      BY <3>1, <3>2, Zenon
  <2>2. a = b
    BY <1>2, <1>3, <1>14, <2>1, Zenon
  <2> QED
    BY <2>1, <2>2
<1>15. RingOf(n3, p3, r)
  BY <1>8, <1>13, <1>14, Zenon DEF RingOf
<1> QED
  BY <1>7, <1>11, <1>15, Zenon

\* The links of a node that is not in the ring are nothing to it.
LEMMA LeadsApart ==
  ASSUME NEW n \in [Node \cup {Anchor} -> Address], NEW q, Leads(n, q),
         NEW s \in Node \ Holds(q), NEW x
  PROVE  Leads(Link(n, s, x), q)
<1>1. PICK l \in Nat : l = Len(q) /\ q \in Seq(Node)
  BY DEF Leads
<1>2. \A k \in 0..l : At(q, k) \in Node \cup {Anchor} /\ At(q, k) # s
  <2> TAKE k \in 0..l
  <2>1. At(q, k) = Anchor \/ (k \in 1..l /\ At(q, k) = q[k])
    BY <1>1 DEF At
  <2>2. \A i \in 1..l : q[i] \in Node /\ q[i] # s
    BY <1>1 DEF Holds
  <2> QED
    BY <2>1, <2>2, AnchorApart, Zenon
<1>3. \A z \in Node \cup {Anchor} : z # s => Link(n, s, x)[z] = n[z]
  BY DEF Link
<1>4. \A k \in 0..l : n[At(q, k)] = At(q, k + 1)
  BY <1>1, Zenon DEF Leads
<1>5. \A k \in 0..l : Link(n, s, x)[At(q, k)] = At(q, k + 1)
  BY <1>2, <1>3, <1>4, Zenon
<1> QED
  BY <1>1, <1>5, Zenon DEF Leads

LEMMA RingApart ==
  ASSUME NEW n \in [Node \cup {Anchor} -> Address], NEW p \in [Node \cup {Anchor} -> Address],
         NEW q, RingOf(n, p, q), NEW s \in Node \ Holds(q), NEW x, NEW y
  PROVE  RingOf(Link(n, s, x), Link(p, s, y), q)
<1>1. PICK l \in Nat : l = Len(q) /\ q \in Seq(Node)
  BY DEF RingOf
<1>2. \A k \in 1..(l + 1) : At(q, k) \in Node \cup {Anchor} /\ At(q, k) # s
  <2> TAKE k \in 1..(l + 1)
  <2>1. At(q, k) = Anchor \/ (k \in 1..l /\ At(q, k) = q[k])
    BY <1>1 DEF At
  <2>2. \A i \in 1..l : q[i] \in Node /\ q[i] # s
    BY <1>1 DEF Holds
  <2> QED
    BY <2>1, <2>2, AnchorApart, Zenon
<1>3. \A z \in Node \cup {Anchor} : z # s => Link(p, s, y)[z] = p[z]
  BY DEF Link
<1>4. \A k \in 0..l : p[At(q, k + 1)] = At(q, k) /\ k + 1 \in 1..(l + 1)
  <2>1. \A k \in 0..l : k + 1 \in 1..(l + 1)
    OBVIOUS
  <2> QED
    BY <1>1, <2>1, Zenon DEF RingOf
<1>5. \A k \in 0..l : Link(p, s, y)[At(q, k + 1)] = At(q, k)
  BY <1>2, <1>3, <1>4, Zenon
<1>6. Leads(Link(n, s, x), q)
  <2>1. Leads(n, q)
    BY RingLeads, Zenon
  <2> QED
    BY <2>1, LeadsApart, Zenon
<1> QED
  BY <1>1, <1>5, <1>6, Zenon DEF RingOf, Leads

LEMMA RingShrinks ==
  ASSUME NEW n \in [Node \cup {Anchor} -> Address], NEW p \in [Node \cup {Anchor} -> Address],
         NEW q, RingOf(n, p, q), NEW i \in 1..Len(q)
  PROVE  \A s, before, after : s = q[i] /\ before = p[s] /\ after = n[s] =>
           RingOf(Link(Link(Link(n, before, after), s, Poison), s, Junk),
                  Link(Link(Link(p, after, before), s, Poison), s, Junk), Without(q, i))
<1> TAKE s, before, after
<1>1. HAVE s = q[i] /\ before = p[s] /\ after = n[s]
<1>2. q \in Seq(Node) /\ \A j, k \in 1..Len(q) : q[j] = q[k] => j = k
  BY DEF RingOf
<1>3. s \in Node /\ before \in Address /\ after \in Address /\ Poison \in Address
  <2>1. s \in Node
    BY <1>1, <1>2
  <2> QED
    BY <1>1, <2>1 DEF Address
<1>4. PICK r : r = Without(q, i)
  OBVIOUS
<1>5. s \notin Holds(r)
  BY <1>1, <1>2, <1>4, WithoutHolds
<1>6. PICK n1, p1 : n1 = Link(n, before, after) /\ p1 = Link(p, after, before)
  OBVIOUS
<1>7. RingOf(n1, p1, r)
  BY <1>1, <1>4, <1>6, RingCut, Zenon
<1>8. n1 \in [Node \cup {Anchor} -> Address] /\ p1 \in [Node \cup {Anchor} -> Address]
  BY <1>3, <1>6, LinkType, Zenon
<1>9. PICK n2, p2 : n2 = Link(n1, s, Poison) /\ p2 = Link(p1, s, Poison)
  OBVIOUS
<1>10. s \in Node \ Holds(r)
  BY <1>3, <1>5
<1>11. RingOf(n2, p2, r)
  BY <1>7, <1>8, <1>9, <1>10, RingApart, Zenon
<1>12. n2 \in [Node \cup {Anchor} -> Address] /\ p2 \in [Node \cup {Anchor} -> Address]
  BY <1>3, <1>8, <1>9, LinkType, Zenon
<1>13. RingOf(Link(n2, s, Junk), Link(p2, s, Junk), r)
  BY <1>10, <1>11, <1>12, RingApart, Zenon
<1> QED
  BY <1>4, <1>6, <1>9, <1>13, Zenon

\* A node joins the ring at the front.
Front(s, q) == <<s>> \o q

LEMMA FrontAt ==
  ASSUME NEW q \in Seq(Node), NEW s \in Node
  PROVE  /\ Front(s, q) \in Seq(Node) /\ Len(Front(s, q)) = Len(q) + 1
         /\ Front(s, q)[1] = s
         /\ \A k \in 1..Len(q) : Front(s, q)[k + 1] = q[k]
BY DEF Front

LEMMA FrontHolds ==
  ASSUME NEW q \in Seq(Node), NEW s \in Node
  PROVE  Holds(Front(s, q)) = Holds(q) \cup {s}
<1>1. PICK l \in Nat : l = Len(q)
  OBVIOUS
<1>2. PICK r : r = Front(s, q)
  OBVIOUS
<1>3. r \in Seq(Node) /\ Len(r) = l + 1 /\ r[1] = s /\ \A k \in 1..l : r[k + 1] = q[k]
  BY <1>1, <1>2, FrontAt, Zenon
<1>4. \A i \in 1..(l + 1) : i = 1 \/ (i - 1 \in 1..l /\ (i - 1) + 1 = i)
  BY <1>1
<1>5. 1 \in 1..(l + 1) /\ \A k \in 1..l : k + 1 \in 1..(l + 1)
  BY <1>1
<1>6. \A i \in 1..(l + 1) : i = 1 \/ (i - 1 \in 1..l /\ r[i] = q[i - 1])
  BY <1>3, <1>4
<1>7. \A x : (\E i \in 1..(l + 1) : x = r[i]) <=> (\E i \in 1..l : x = q[i]) \/ x = s
  BY <1>3, <1>5, <1>6, ZenonT(30)
<1>8. Holds(r) = {r[i] : i \in 1..(l + 1)} /\ Holds(q) = {q[i] : i \in 1..l}
  BY <1>1, <1>3, Zenon DEF Holds
<1>9. Holds(r) = Holds(q) \cup {s}
  BY <1>7, <1>8
<1> QED
  BY <1>2, <1>9, Zenon

LEMMA RingFront ==
  ASSUME NEW n \in [Node \cup {Anchor} -> Address], NEW p \in [Node \cup {Anchor} -> Address],
         NEW q, RingOf(n, p, q), NEW s \in Node \ Holds(q)
  PROVE  \A first : first = n[Anchor] =>
           RingOf(Link(Link(n, s, first), Anchor, s), Link(Link(p, first, s), s, Anchor), Front(s, q))
<1> TAKE first
<1>1. HAVE first = n[Anchor]
<1>2. q \in Seq(Node) /\ \A i, j \in 1..Len(q) : q[i] = q[j] => i = j
  BY DEF RingOf
<1>3. PICK l \in Nat : l = Len(q)
  BY <1>2
<1>4. \A k \in 0..l : n[At(q, k)] = At(q, k + 1) /\ p[At(q, k + 1)] = At(q, k)
  BY <1>3, Zenon DEF RingOf
<1>5. At(q, 0) = Anchor /\ At(q, l + 1) = Anchor
  BY <1>3, Places, Zenon
<1>6. first = At(q, 1) /\ first \in Node \cup {Anchor} /\ first \in Address
  <2>1. 0 \in 0..l /\ 0 + 1 = 1 /\ 1 \in Nat
    OBVIOUS
  <2>2. n[At(q, 0)] = At(q, 1)
    BY <1>4, <2>1
  <2>3. At(q, 1) \in Node \cup {Anchor}
    BY <2>1, Places, Zenon
  <2> QED
    BY <1>1, <1>5, <2>2, <2>3 DEF Address
<1>7. s \in Node /\ s # Anchor /\ s \in Address /\ Anchor \in Address /\ \A i \in 1..l : q[i] # s
  BY <1>3, AnchorApart DEF Address, Holds
<1>8. PICK r : r = Front(s, q)
  OBVIOUS
<1>9. r \in Seq(Node) /\ Len(r) = l + 1 /\ r[1] = s /\ \A k \in 1..l : r[k + 1] = q[k]
  BY <1>2, <1>3, <1>7, <1>8, FrontAt, ZenonT(30)
<1>10. At(r, 0) = Anchor /\ At(r, 1) = s
  BY <1>9 DEF At
<1>11. \A k \in 1..(l + 1) : At(r, k + 1) = At(q, k)
  <2> TAKE k \in 1..(l + 1)
  <2>1. CASE k = l + 1
    BY <1>5, <1>9, <2>1 DEF At
  <2>2. CASE k # l + 1
    <3>1. k \in 1..l /\ k + 1 \in 1..(l + 1)
      BY <2>2
    <3> QED
      BY <1>3, <1>9, <3>1 DEF At
  <2> QED
    BY <2>1, <2>2
<1>12. \A k \in 0..(l + 1) : At(q, k) \in Node \cup {Anchor} /\ At(q, k) # s
  <2> TAKE k \in 0..(l + 1)
  <2>1. At(q, k) = Anchor \/ (k \in 1..l /\ At(q, k) = q[k])
    BY <1>3 DEF At
  <2>2. \A i \in 1..l : q[i] \in Node
    BY <1>2, <1>3
  <2> QED
    BY <1>7, <2>1, <2>2, Zenon
<1>13. first # s
  <2>1. 1 \in 0..(l + 1)
    OBVIOUS
  <2> QED
    BY <1>6, <1>12, <2>1, Zenon
<1>14. PICK n1, p1 : n1 = Link(n, s, first) /\ p1 = Link(p, first, s)
  OBVIOUS
<1>15. n1 \in [Node \cup {Anchor} -> Address] /\ p1 \in [Node \cup {Anchor} -> Address]
  BY <1>6, <1>7, <1>14, LinkType, Zenon
<1>16. PICK n2, p2 : n2 = Link(n1, Anchor, s) /\ p2 = Link(p1, s, Anchor)
  OBVIOUS
<1>17. \A z \in Node \cup {Anchor} :
         /\ n2[z] = IF z = Anchor THEN s ELSE IF z = s THEN first ELSE n[z]
         /\ p2[z] = IF z = s THEN Anchor ELSE IF z = first THEN s ELSE p[z]
  <2>1. \A z \in Node \cup {Anchor} : /\ Link(n, s, first)[z] = IF z = s THEN first ELSE n[z]
                                      /\ Link(p, first, s)[z] = IF z = first THEN s ELSE p[z]
    BY DEF Link
  <2>2. \A z \in Node \cup {Anchor} : /\ Link(n1, Anchor, s)[z] = IF z = Anchor THEN s ELSE n1[z]
                                      /\ Link(p1, s, Anchor)[z] = IF z = s THEN Anchor ELSE p1[z]
    BY <1>15 DEF Link
  <2> QED
    BY <1>14, <1>16, <2>1, <2>2
<1>18. ASSUME NEW k \in 0..(l + 1)
       PROVE  n2[At(r, k)] = At(r, k + 1) /\ p2[At(r, k + 1)] = At(r, k)
  <2>1. CASE k = 0
    <3>1. n2[Anchor] = s /\ p2[s] = Anchor
      BY <1>7, <1>17
    <3> QED
      BY <1>10, <2>1, <3>1
  <2>2. CASE k = 1
    <3>1. n2[s] = first /\ p2[first] = s
      BY <1>6, <1>7, <1>13, <1>17
    <3>2. At(r, k + 1) = first
      <4>1. 1 \in 1..(l + 1)
        OBVIOUS
      <4> QED
        BY <1>6, <1>11, <2>2, <4>1, Zenon
    <3> QED
      BY <1>10, <2>2, <3>1, <3>2
  <2>3. CASE k # 0 /\ k # 1
    <3>1. /\ k \in 1..(l + 1) /\ k - 1 \in 0..l /\ (k - 1) + 1 = k /\ k - 1 \in 1..(l + 1)
          /\ k \in 0..(l + 1) /\ k - 1 \in 0..(l + 1) /\ k - 1 \in 1..l
          /\ 1 \in 1..(l + 1)
      BY <2>3
    <3>2. PICK x \in Node \cup {Anchor}, y \in Node \cup {Anchor} : x = At(q, k - 1) /\ y = At(q, k)
      BY <1>12, <3>1, Zenon
    <3>3. At(r, k) = x /\ At(r, k + 1) = y
      <4>1. At(r, (k - 1) + 1) = At(q, k - 1) /\ At(r, k + 1) = At(q, k)
        BY <1>11, <3>1, Zenon
      <4> QED
        BY <3>1, <3>2, <4>1
    <3>4. n[x] = y /\ p[y] = x
      <4>1. n[At(q, k - 1)] = At(q, (k - 1) + 1) /\ p[At(q, (k - 1) + 1)] = At(q, k - 1)
        BY <1>4, <3>1, Zenon
      <4> QED
        BY <3>1, <3>2, <4>1
    <3>5. x # s /\ y # s
      BY <1>12, <3>1, <3>2, Zenon
    <3>6. x # Anchor
      <4>1. x = q[k - 1] /\ q[k - 1] \in Node
        BY <1>2, <1>3, <3>1, <3>2 DEF At
      <4> QED
        BY <4>1, AnchorApart
    <3>7. y # first
      <4>1. \A i, j \in 1..(l + 1) : At(q, i) = At(q, j) => i = j
        <5>1. \A i, j \in 1..(Len(q) + 1) : At(q, i) = At(q, j) => i = j
          BY Places
        <5> QED
          BY <1>3, <5>1, Zenon
      <4>2. At(q, k) # At(q, 1)
        BY <2>3, <3>1, <4>1
      <4> QED
        BY <1>6, <3>2, <4>2
    <3> QED
      BY <1>17, <3>3, <3>4, <3>5, <3>6, <3>7
  <2> QED
    BY <2>1, <2>2, <2>3, Zenon
<1>19. ASSUME NEW i \in 1..(l + 1), NEW j \in 1..(l + 1), r[i] = r[j]
       PROVE  i = j
  <2>1. \A k \in 1..(l + 1) : k = 1 \/ (k - 1 \in 1..l /\ r[k] = q[k - 1])
    <3> TAKE k \in 1..(l + 1)
    <3>1. k = 1 \/ (k - 1 \in 1..l /\ (k - 1) + 1 = k)
      OBVIOUS
    <3> QED
      BY <1>9, <3>1
  <2>2. CASE i = 1
    <3>1. j = 1
      BY <1>7, <1>9, <1>19, <2>1, <2>2, Zenon
    <3> QED
      BY <2>2, <3>1
  <2>3. CASE i # 1
    <3>1. i - 1 \in 1..l /\ r[i] = q[i - 1]
      BY <2>1, <2>3
    <3>2. j - 1 \in 1..l /\ r[j] = q[j - 1]
      BY <1>7, <1>9, <1>19, <2>1, <3>1, Zenon
    <3>3. i - 1 = j - 1
      BY <1>2, <1>3, <1>19, <3>1, <3>2, Zenon
    <3> QED
      BY <3>3
  <2> QED
    BY <2>2, <2>3
<1>20. RingOf(n2, p2, r)
  BY <1>9, <1>18, <1>19, Zenon DEF RingOf
<1> QED
  BY <1>8, <1>14, <1>16, <1>20, Zenon

-----------------------------------------------------------------------------
(* The walk of list_for_each_entry. *)

\* A set of numbers that is not empty has a least one.
LEMMA Least ==
  ASSUME NEW T \in SUBSET Nat, T # {}
  PROVE  \E x \in T : \A y \in T : x <= y
<1>1. PICK x \in T : \A y \in T : ~(<<y, x>> \in OpToRel(<, Nat))
  BY NatLessThanWellFounded, WFMin, Zenon
<1>2. \A y \in T : ~(y < x)
  BY <1>1 DEF OpToRel
<1> QED
  BY <1>2

\* Induction over the numbers, as a fact about sets of them.
LEMMA UpTo ==
  ASSUME NEW S \in SUBSET Nat, 0 \in S, \A n \in S : n + 1 \in S
  PROVE  S = Nat
<1> SUFFICES ASSUME S # Nat PROVE FALSE
  OBVIOUS
<1>1. PICK x \in Nat \ S : \A y \in Nat \ S : x <= y
  <2>1. Nat \ S \in SUBSET Nat /\ Nat \ S # {}
    OBVIOUS
  <2> QED
    BY <2>1, Least, Zenon
<1>2. x - 1 \in Nat /\ ~(x <= x - 1) /\ (x - 1) + 1 = x
  BY <1>1
<1> QED
  BY <1>1, <1>2

\* The recursion of Met, and the sequence it makes of a function that
\* satisfies it.
Course(m, p, f) ==
  [k \in 0..Cardinality(Node) |->
     IF k = 0 THEN p ELSE IF f[k - 1] \in Node THEN m.next[f[k - 1]] ELSE f[k - 1]]
Steps(f) == {k \in 0..Cardinality(Node) : f[k] \in Node}

LEMMA MetWalk ==
  ASSUME NEW m, NEW p, \E g : g = Course(m, p, g)
  PROVE  \E f : /\ f = Course(m, p, f)
                /\ Met(m, p) = [k \in 1..Cardinality(Steps(f)) |-> f[k - 1]]
<1> DEFINE f == CHOOSE f : f = Course(m, p, f)
<1>1. f = Course(m, p, f)
  BY Zenon
<1>2. Met(m, p) = [k \in 1..Cardinality(Steps(f)) |-> f[k - 1]]
  BY Zenon DEF Met, Course, Steps
<1> QED
  BY <1>1, <1>2, Zenon

\* A ring is no longer than there are nodes.
LEMMA RingFits ==
  ASSUME NEW n, NEW q, Leads(n, q)
  PROVE  /\ Cardinality(Node) \in Nat /\ Len(q) <= Cardinality(Node)
         /\ Cardinality({q[i] : i \in 1..Len(q)}) = Len(q)
<1>1. q \in Seq(Node) /\ \A j, k \in 1..Len(q) : q[j] = q[k] => j = k
  BY DEF Leads
<1>2. PICK l \in Nat : l = Len(q)
  BY <1>1
<1>3. IsFiniteSet(Node)
  BY AddressAssumption
<1>4. IsFiniteSet(1..l) /\ Cardinality(1..l) = l
  BY FS_Interval
<1>5. PICK f : f = [i \in 1..l |-> q[i]]
  OBVIOUS
<1> DEFINE R == {q[i] : i \in 1..l}
<1>6. f \in Injection(1..l, Node)
  BY <1>1, <1>2, <1>5 DEF Injection, IsInjective
<1>7. f \in Bijection(1..l, R)
  BY <1>1, <1>2, <1>5 DEF Injection, Surjection, Bijection, IsInjective
<1>8. Cardinality(1..l) <= Cardinality(Node)
  BY <1>3, <1>6, FS_Injection, Zenon
<1>9. Cardinality(R) = Cardinality(1..l)
  <2>1. ExistsBijection(1..l, R)
    BY <1>7 DEF ExistsBijection
  <2> QED
    BY <1>4, <2>1, FS_Bijection, Zenon
<1>10. Cardinality(Node) \in Nat
  BY <1>3, FS_CardinalityType
<1> QED
  BY <1>2, <1>4, <1>8, <1>9, <1>10

\* A walk meets the nodes from the one it starts at, in order.
LEMMA MetFrom ==
  ASSUME NEW m, NEW q, Leads(m.next, q), NEW j \in 1..(Len(q) + 1)
  PROVE  Met(m, At(q, j)) = [k \in 1..(Len(q) - j + 1) |-> q[k + j - 1]]
<1>1. q \in Seq(Node)
  BY DEF Leads
<1>2. PICK l \in Nat, N \in Nat : l = Len(q) /\ N = Cardinality(Node) /\ l <= N
  <2>1. Cardinality(Node) \in Nat /\ Len(q) <= Cardinality(Node)
    BY RingFits, Zenon
  <2>2. Len(q) \in Nat
    BY <1>1
  <2> QED
    BY <2>1, <2>2, Zenon
<1>3. \A k \in 0..l : m.next[At(q, k)] = At(q, k + 1)
  BY <1>2, Zenon DEF Leads
<1>4. \A k \in 1..l : At(q, k) = q[k] /\ q[k] \in Node
  BY <1>2, PlacesLed, Zenon
<1>5. At(q, l + 1) = Anchor /\ Anchor \notin Node
  BY <1>2, PlacesLed, AnchorApart, Zenon
<1>6. PICK w \in Nat : j \in 1..(l + 1) /\ w = l - j + 1 /\ w + j = l + 1 /\ w <= N
  <2>1. j \in 1..(l + 1)
    BY <1>2, Zenon
  <2>2. l - j + 1 \in Nat /\ (l - j + 1) + j = l + 1 /\ l - j + 1 <= N
    BY <1>2, <2>1
  <2> QED
    BY <2>1, <2>2, Zenon
<1>7. PICK g : g = [k \in 0..N |-> IF k < w THEN q[k + j] ELSE Anchor]
  OBVIOUS
<1>8. ASSUME NEW k \in 0..N, k # 0
      PROVE  g[k] = IF g[k - 1] \in Node THEN m.next[g[k - 1]] ELSE g[k - 1]
  <2>1. k - 1 \in 0..N /\ (k - 1) + j = k + j - 1 /\ (k + j - 1) + 1 = k + j
    BY <1>6, <1>8
  <2>2. CASE k - 1 < w
    <3>1. k + j - 1 \in 1..l /\ k + j - 1 \in 0..l
      BY <1>6, <1>8, <2>2
    <3>2. g[k - 1] = q[k + j - 1] /\ q[k + j - 1] \in Node
      BY <1>4, <1>7, <2>1, <2>2, <3>1
    <3>3. m.next[q[k + j - 1]] = At(q, k + j)
      <4>1. m.next[At(q, k + j - 1)] = At(q, (k + j - 1) + 1) /\ At(q, k + j - 1) = q[k + j - 1]
        BY <1>3, <1>4, <3>1, Zenon
      <4> QED
        BY <2>1, <4>1
    <3>4. g[k] = At(q, k + j)
      <4>1. CASE k < w
        <5>1. k + j \in 1..l
          BY <1>6, <3>1, <4>1
        <5> QED
          BY <1>4, <1>7, <4>1, <5>1
      <4>2. CASE ~(k < w)
        <5>1. k + j = l + 1
          BY <1>6, <2>2, <4>2
        <5> QED
          BY <1>5, <1>7, <4>2, <5>1
      <4> QED
        BY <4>1, <4>2
    <3> QED
      BY <3>2, <3>3, <3>4
  <2>3. CASE ~(k - 1 < w)
    <3>1. ~(k < w)
      BY <1>6, <2>3
    <3>2. g[k - 1] = Anchor /\ g[k] = Anchor
      BY <1>7, <2>1, <2>3, <3>1
    <3> QED
      BY <1>5, <3>2, Zenon
  <2> QED
    BY <2>2, <2>3
<1>9. g[0] = At(q, j)
  <2>1. CASE 0 < w
    <3>1. j \in 1..l /\ g[0] = q[j]
      BY <1>6, <1>7, <2>1
    <3> QED
      BY <1>4, <3>1, Zenon
  <2>2. CASE ~(0 < w)
    <3>1. j = l + 1 /\ g[0] = Anchor
      BY <1>6, <1>7, <2>2
    <3> QED
      BY <1>5, <3>1
  <2> QED
    BY <2>1, <2>2
<1>10. PICK p : p = At(q, j)
  OBVIOUS
<1>11. g = [k \in 0..N |-> IF k = 0 THEN p ELSE IF g[k - 1] \in Node THEN m.next[g[k - 1]] ELSE g[k - 1]]
  <2>1. \A k \in 0..N :
          g[k] = IF k = 0 THEN p ELSE IF g[k - 1] \in Node THEN m.next[g[k - 1]] ELSE g[k - 1]
    BY <1>8, <1>9, <1>10, Zenon
  <2> QED
    BY <1>7, <2>1, Zenon
<1>12. PICK f : f = Course(m, p, f) /\ Met(m, p) = [k \in 1..Cardinality(Steps(f)) |-> f[k - 1]]
  <2>1. g = Course(m, p, g)
    BY <1>2, <1>11, Zenon DEF Course
  <2>2. \E h : h = Course(m, p, h)
    BY <2>1
  <2> QED
    BY <2>2, MetWalk
<1>13. f = [k \in 0..N |-> IF k = 0 THEN p ELSE IF f[k - 1] \in Node THEN m.next[f[k - 1]] ELSE f[k - 1]]
  BY <1>2, <1>12, Zenon DEF Course
<1>14. \A k \in 0..N : f[k] = g[k]
  <2> DEFINE S == {k \in Nat : k \in 0..N => f[k] = g[k]}
  <2>1. 0 \in S
    <3>1. f[0] = p
      BY <1>13
    <3> QED
      BY <1>9, <1>10, <3>1
  <2>2. ASSUME NEW k \in S PROVE k + 1 \in S
    <3>1. ASSUME k + 1 \in 0..N PROVE f[k + 1] = g[k + 1]
      <4>1. k \in 0..N /\ k + 1 # 0 /\ (k + 1) - 1 = k /\ f[k] = g[k]
        BY <3>1
      <4>2. f[k + 1] = IF f[k] \in Node THEN m.next[f[k]] ELSE f[k]
        BY <1>13, <3>1, <4>1
      <4>3. g[k + 1] = IF g[k] \in Node THEN m.next[g[k]] ELSE g[k]
        BY <1>8, <3>1, <4>1
      <4> QED
        BY <4>1, <4>2, <4>3
    <3>2. k + 1 \in Nat
      OBVIOUS
    <3> QED
      BY <3>1, <3>2
  <2>3. S \in SUBSET Nat
    OBVIOUS
  <2> HIDE DEF S
  <2>4. S = Nat
    BY <2>1, <2>2, <2>3, UpTo
  <2> QED
    BY <2>4 DEF S
<1>15. Steps(f) = 0..(w - 1)
  <2>1. \A k \in 0..N : f[k] \in Node <=> k < w
    <3> TAKE k \in 0..N
    <3>1. CASE k < w
      <4>1. k + j \in 1..l /\ g[k] = q[k + j]
        BY <1>6, <1>7, <3>1
      <4> QED
        BY <1>4, <1>14, <3>1, <4>1
    <3>2. CASE ~(k < w)
      <4>1. g[k] = Anchor
        BY <1>7, <3>2
      <4> QED
        BY <1>5, <1>14, <3>2, <4>1
    <3> QED
      BY <3>1, <3>2
  <2>2. Steps(f) = {k \in 0..N : f[k] \in Node}
    BY <1>2, Zenon DEF Steps
  <2> QED
    BY <1>6, <2>1, <2>2
<1>16. Cardinality(Steps(f)) = w
  <2>1. Cardinality(0..(w - 1)) = IF 0 > w - 1 THEN 0 ELSE w - 1 - 0 + 1
    BY FS_Interval
  <2> QED
    BY <1>15, <2>1
<1>17. Met(m, p) = [k \in 1..w |-> f[k - 1]]
  BY <1>12, <1>16, Zenon
<1>18. \A k \in 1..w : f[k - 1] = q[k + j - 1]
  <2> TAKE k \in 1..w
  <2>1. k - 1 \in 0..N /\ k - 1 < w /\ (k - 1) + j = k + j - 1
    BY <1>6
  <2>2. f[k - 1] = g[k - 1]
    BY <1>14, <2>1
  <2>3. g[k - 1] = q[(k - 1) + j]
    BY <1>7, <2>1
  <2> QED
    BY <2>1, <2>2, <2>3
<1>19. [k \in 1..w |-> f[k - 1]] = [k \in 1..w |-> q[k + j - 1]]
  BY <1>18, Zenon
<1>20. Len(q) - j + 1 = w
  BY <1>2, <1>6
<1> QED
  BY <1>10, <1>17, <1>19, <1>20, Zenon

LEMMA MetIs ==
  ASSUME NEW m, NEW q, Leads(m.next, q)
  PROVE  Met(m, m.next[Anchor]) = q
<1>1. PICK l \in Nat : l = Len(q) /\ q \in Seq(Node)
  BY DEF Leads
<1>2. m.next[Anchor] = At(q, 1)
  <2>1. 0 \in 0..l /\ 0 + 1 = 1
    OBVIOUS
  <2>2. m.next[At(q, 0)] = At(q, 0 + 1)
    BY <1>1, <2>1, Zenon DEF Leads
  <2> QED
    BY <2>1, <2>2, PlacesLed
<1>3. Met(m, At(q, 1)) = [k \in 1..(Len(q) - 1 + 1) |-> q[k + 1 - 1]]
  <2>1. 1 \in 1..(Len(q) + 1)
    BY <1>1
  <2> QED
    BY <2>1, MetFrom
<1>4. [k \in 1..(Len(q) - 1 + 1) |-> q[k + 1 - 1]] = q
  <2>1. Len(q) - 1 + 1 = l
    BY <1>1
  <2>2. \A k \in 1..l : q[k + 1 - 1] = q[k]
    OBVIOUS
  <2>3. q = [k \in 1..l |-> q[k]]
    BY <1>1
  <2> QED
    BY <2>1, <2>2, <2>3, Zenon
<1> QED
  BY <1>2, <1>3, <1>4, Zenon

\* Neither a node of the ring nor the anchor leads out of it.
LEMMA LeadsOn ==
  ASSUME NEW n, NEW q, Leads(n, q), NEW z \in Holds(q) \cup {Anchor}
  PROVE  n[z] \in Holds(q) \cup {Anchor}
<1>1. PICK l \in Nat : l = Len(q) /\ q \in Seq(Node)
  BY DEF Leads
<1>2. \A k \in 0..l : n[At(q, k)] = At(q, k + 1)
  BY <1>1, Zenon DEF Leads
<1>3. PICK k \in 0..l : z = At(q, k)
  <2>1. CASE z = Anchor
    <3>1. 0 \in 0..l /\ At(q, 0) = Anchor
      BY PlacesLed
    <3> QED
      BY <2>1, <3>1, Zenon
  <2>2. CASE z \in Holds(q)
    <3>1. PICK i \in 1..l : z = q[i]
      BY <1>1, <2>2 DEF Holds
    <3>2. i \in 0..l /\ At(q, i) = q[i]
      BY <1>1 DEF At
    <3> QED
      BY <3>1, <3>2, Zenon
  <2> QED
    BY <2>1, <2>2
<1>4. At(q, k + 1) \in Holds(q) \cup {Anchor}
  BY <1>1 DEF At, Holds
<1> QED
  BY <1>2, <1>3, <1>4, Zenon

\* What a walk reaches.
Rest(q, j) == {q[i] : i \in j..Len(q)}

LEMMA ReachFrom ==
  ASSUME NEW m, NEW q, Leads(m.next, q), NEW j \in 1..(Len(q) + 1)
  PROVE  Reach(m, At(q, j)) = Rest(q, j)
<1>1. PICK l \in Nat : l = Len(q) /\ j \in 1..(l + 1)
  BY DEF Leads
<1>2. PICK f : f = [k \in 1..(l - j + 1) |-> q[k + j - 1]]
  OBVIOUS
<1>3. Met(m, At(q, j)) = f
  <2>1. Met(m, At(q, j)) = [k \in 1..(Len(q) - j + 1) |-> q[k + j - 1]]
    BY MetFrom
  <2> QED
    BY <1>1, <1>2, <2>1, Zenon
<1>4. Reach(m, At(q, j)) = {f[k] : k \in DOMAIN f}
  BY <1>3, Zenon DEF Reach, Range
<1>5. DOMAIN f = 1..(l - j + 1) /\ \A k \in 1..(l - j + 1) : f[k] = q[k + j - 1]
  BY <1>2
<1>6. \A k \in 1..(l - j + 1) : k + j - 1 \in j..l
  BY <1>1
<1>7. \A i \in j..l : i - j + 1 \in 1..(l - j + 1) /\ (i - j + 1) + j - 1 = i
  BY <1>1
<1>8. \A x : x \in Rest(q, j) <=> \E i \in j..l : x = q[i]
  BY <1>1, Zenon DEF Rest
<1>9. \A x : x \in Reach(m, At(q, j)) <=> \E k \in 1..(l - j + 1) : x = q[k + j - 1]
  BY <1>4, <1>5, Zenon
<1>10. \A i \in j..l : \E k \in 1..(l - j + 1) : q[i] = q[k + j - 1]
  <2> TAKE i \in j..l
  <2>1. q[i] = q[(i - j + 1) + j - 1]
    BY <1>7
  <2> QED
    BY <1>7, <2>1, Zenon
<1> QED
  BY <1>6, <1>8, <1>9, <1>10, Zenon

\* What Circular says follows for the nodes of the ring.
LEMMA RingIsCircular ==
  ASSUME NEW m, NEW q, RingOf(m.next, m.prev, q), NEW S, S = {q[i] : i \in 1..Len(q)}
  PROVE  Circular(m, S) /\ Reach(m, m.next[Anchor]) = S
<1>1. q \in Seq(Node) /\ Met(m, m.next[Anchor]) = q
  <2>1. Leads(m.next, q)
    BY RingLeads, Zenon
  <2> QED
    BY <2>1, MetIs, Zenon DEF Leads
<1>2. PICK l \in Nat : l = Len(q)
  BY <1>1
<1>3. Reach(m, m.next[Anchor]) = S
  <2>1. Reach(m, m.next[Anchor]) = {q[i] : i \in DOMAIN q}
    BY <1>1, Zenon DEF Reach, Range
  <2>2. DOMAIN q = 1..Len(q)
    BY <1>1
  <2> QED
    BY <2>1, <2>2
<1>4. Len(q) = Cardinality(S)
  <2>1. Leads(m.next, q)
    BY RingLeads, Zenon
  <2> QED
    BY <2>1, RingFits
<1>5. \A k \in 0..l : m.next[At(q, k)] = At(q, k + 1) /\ m.prev[At(q, k + 1)] = At(q, k)
  BY <1>2, Zenon DEF RingOf
<1>6. \A k \in 0..(l + 1) : At(q, k) \in S \cup {Anchor}
  <2> TAKE k \in 0..(l + 1)
  <2> QED
    BY <1>2 DEF At
<1>7. ASSUME NEW z \in S \cup {Anchor}
      PROVE  /\ m.next[z] \in S \cup {Anchor} /\ m.prev[m.next[z]] = z
             /\ m.prev[z] \in S \cup {Anchor} /\ m.next[m.prev[z]] = z
  <2>1. PICK k \in 0..l : z = At(q, k)
    <3>1. CASE z = Anchor
      <4>1. 0 \in 0..l /\ At(q, 0) = Anchor
        BY Places
      <4> QED
        BY <3>1, <4>1, Zenon
    <3>2. CASE z \in S
      <4>1. PICK i \in 1..l : z = q[i]
        BY <1>2, <3>2
      <4>2. i \in 0..l /\ At(q, i) = q[i]
        BY <1>2 DEF At
      <4> QED
        BY <4>1, <4>2, Zenon
    <3> QED
      BY <3>1, <3>2
  <2>2. PICK j \in 0..l : z = At(q, j + 1)
    <3>1. CASE k = 0
      <4>1. l \in 0..l /\ At(q, l + 1) = Anchor /\ At(q, 0) = Anchor
        BY <1>2, Places
      <4> QED
        BY <2>1, <3>1, <4>1, Zenon
    <3>2. CASE k # 0
      <4>1. k - 1 \in 0..l /\ (k - 1) + 1 = k
        BY <3>2
      <4> QED
        BY <2>1, <4>1
    <3> QED
      BY <3>1, <3>2
  <2>3. k + 1 \in 0..(l + 1) /\ j \in 0..(l + 1)
    OBVIOUS
  <2> QED
    BY <1>5, <1>6, <2>1, <2>2, <2>3, Zenon
<1> QED
  BY <1>1, <1>3, <1>4, <1>7, Zenon DEF Circular

-----------------------------------------------------------------------------
(* Joining and leaving the list. *)

LEMMA Joined ==
  ASSUME NEW m \in Memory, NEW q, RingOf(m.next, m.prev, q), NEW s \in Node \ Holds(q)
  PROVE  \A a : a = Do(m, ListAddTail(m, s)) =>
           a \in Memory /\ RingOf(a.next, a.prev, Append(q, s))
<1> TAKE a
<1>1. HAVE a = Do(m, ListAddTail(m, s))
<1>2. PICK n, p : n = m.next /\ p = m.prev
  OBVIOUS
<1>3. n \in [Node \cup {Anchor} -> Address] /\ p \in [Node \cup {Anchor} -> Address]
  BY <1>2 DEF Memory
<1>4. PICK last : last = p[Anchor]
  OBVIOUS
<1>5. last \in Address /\ s \in Address /\ Anchor \in Address
  BY <1>3, <1>4 DEF Address
<1>6. PICK n1, p1 : n1 = Link(n, s, Anchor) /\ p1 = Link(p, Anchor, s)
  OBVIOUS
<1>7. PICK n2, p2 : n2 = Link(n1, last, s) /\ p2 = Link(p1, s, last)
  OBVIOUS
<1>8. n2 \in [Node \cup {Anchor} -> Address] /\ p2 \in [Node \cup {Anchor} -> Address]
  BY <1>3, <1>5, <1>6, <1>7, LinkType, Zenon
<1>9. a = [next |-> n2, prev |-> p2]
  BY <1>1, <1>2, <1>4, <1>6, <1>7, AddTailLinks, Zenon
<1>10. \A i \in 1..Len(q) : q[i] # s
  BY DEF Holds
<1>11. RingOf(n, p, q)
  BY <1>2, Zenon
<1>12. RingOf(n2, p2, Append(q, s))
  BY <1>3, <1>4, <1>6, <1>7, <1>10, <1>11, RingGrows, Zenon
<1>13. a.next = n2 /\ a.prev = p2
  BY <1>9
<1>14. a \in Memory
  BY <1>8, <1>9 DEF Memory
<1> QED
  BY <1>12, <1>13, <1>14, Zenon

LEMMA Departed ==
  ASSUME NEW m \in Memory, NEW q, RingOf(m.next, m.prev, q), NEW i \in 1..Len(q)
  PROVE  \A s, a : /\ s = q[i]
                   /\ a = Do(m, ListDel(m, s) \o <<Put("next", s, Junk), Put("prev", s, Junk)>>)
                   => a \in Memory /\ RingOf(a.next, a.prev, Without(q, i))
<1> TAKE s, a
<1>1. HAVE /\ s = q[i]
           /\ a = Do(m, ListDel(m, s) \o <<Put("next", s, Junk), Put("prev", s, Junk)>>)
<1>2. PICK n, p : n = m.next /\ p = m.prev
  OBVIOUS
<1>3. n \in [Node \cup {Anchor} -> Address] /\ p \in [Node \cup {Anchor} -> Address]
  BY <1>2 DEF Memory
<1>4. PICK before, after : before = p[s] /\ after = n[s]
  OBVIOUS
<1>5. q \in Seq(Node)
  BY DEF RingOf
<1>6. s \in Node
  BY <1>1, <1>5
<1>7. before \in Address /\ after \in Address /\ Poison \in Address /\ Junk \in Address
  BY <1>3, <1>4, <1>6 DEF Address
<1>8. PICK n1, p1 : n1 = Link(n, before, after) /\ p1 = Link(p, after, before)
  OBVIOUS
<1>9. PICK n2, p2 : n2 = Link(n1, s, Poison) /\ p2 = Link(p1, s, Poison)
  OBVIOUS
<1>10. PICK n3, p3 : n3 = Link(n2, s, Junk) /\ p3 = Link(p2, s, Junk)
  OBVIOUS
<1>11. n2 \in [Node \cup {Anchor} -> Address] /\ p2 \in [Node \cup {Anchor} -> Address]
  BY <1>3, <1>7, <1>8, <1>9, LinkType, Zenon
<1>12. n3 \in [Node \cup {Anchor} -> Address] /\ p3 \in [Node \cup {Anchor} -> Address]
  BY <1>7, <1>10, <1>11, LinkType, Zenon
<1>13. a = [next |-> n3, prev |-> p3]
  <2>1. before = m.prev[s] /\ after = m.next[s]
    BY <1>2, <1>4, Zenon
  <2>2. Do(m, ListDel(m, s) \o <<Put("next", s, Junk), Put("prev", s, Junk)>>)
          = [next |-> Link(Link(Link(m.next, before, after), s, Poison), s, Junk),
             prev |-> Link(Link(Link(m.prev, after, before), s, Poison), s, Junk)]
    BY <2>1, DelLinks, Zenon
  <2> QED
    BY <1>1, <1>2, <1>8, <1>9, <1>10, <2>2, Zenon
<1>14. RingOf(n, p, q)
  BY <1>2, Zenon
<1>15. RingOf(n3, p3, Without(q, i))
  BY <1>1, <1>3, <1>4, <1>8, <1>9, <1>10, <1>14, RingShrinks, Zenon
<1>16. a.next = n3 /\ a.prev = p3
  BY <1>13
<1>17. a \in Memory
  BY <1>12, <1>13 DEF Memory
<1> QED
  BY <1>15, <1>16, <1>17, Zenon

=============================================================================
