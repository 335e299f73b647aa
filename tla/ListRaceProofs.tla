--------------------------- MODULE ListRaceProofs ---------------------------
(* What is proved of ListRace, for lists of any length.                    *)
EXTENDS ListRace, ListProofs

-----------------------------------------------------------------------------
(* How far an operation has come: the links it began with, and what the    *)
(* stores it has made since left of them.                                  *)

Links == [Node \cup {Anchor} -> Address]

AddAt(s, first, n, p, m, todo) ==
  \/ /\ todo = <<Put("prev", first, s), Put("next", s, first), Put("prev", s, Anchor), Put("next", Anchor, s)>>
     /\ m = [next |-> n, prev |-> p]
  \/ /\ todo = <<Put("next", s, first), Put("prev", s, Anchor), Put("next", Anchor, s)>>
     /\ m = [next |-> n, prev |-> Link(p, first, s)]
  \/ /\ todo = <<Put("prev", s, Anchor), Put("next", Anchor, s)>>
     /\ m = [next |-> Link(n, s, first), prev |-> Link(p, first, s)]
  \/ /\ todo = <<Put("next", Anchor, s)>>
     /\ m = [next |-> Link(n, s, first), prev |-> Link(Link(p, first, s), s, Anchor)]
  \/ /\ todo = <<>>
     /\ m = [next |-> Link(Link(n, s, first), Anchor, s), prev |-> Link(Link(p, first, s), s, Anchor)]

DelAt(s, before, after, n, p, m, todo) ==
  \/ /\ todo = <<Put("prev", after, before), Put("next", before, after), Put("next", s, Poison), Put("prev", s, Poison)>>
     /\ m = [next |-> n, prev |-> p]
  \/ /\ todo = <<Put("next", before, after), Put("next", s, Poison), Put("prev", s, Poison)>>
     /\ m = [next |-> n, prev |-> Link(p, after, before)]
  \/ /\ todo = <<Put("next", s, Poison), Put("prev", s, Poison)>>
     /\ m = [next |-> Link(n, before, after), prev |-> Link(p, after, before)]
  \/ /\ todo = <<Put("prev", s, Poison)>>
     /\ m = [next |-> Link(Link(n, before, after), s, Poison), prev |-> Link(p, after, before)]
  \/ /\ todo = <<>>
     /\ m = [next |-> Link(Link(n, before, after), s, Poison), prev |-> Link(Link(p, after, before), s, Poison)]

LEMMA HeadTail ==
  ASSUME NEW a, NEW b, NEW c, NEW d
  PROVE  /\ Head(<<a, b, c, d>>) = a /\ Tail(<<a, b, c, d>>) = <<b, c, d>>
         /\ Head(<<b, c, d>>) = b /\ Tail(<<b, c, d>>) = <<c, d>>
         /\ Head(<<c, d>>) = c /\ Tail(<<c, d>>) = <<d>>
         /\ Head(<<d>>) = d /\ Tail(<<d>>) = <<>>
OBVIOUS

\* A store moves an operation on by one stage.
LEMMA AddNext ==
  ASSUME NEW s, NEW first, NEW n, NEW p, NEW m, NEW todo
  PROVE  AddAt(s, first, n, p, m, todo) /\ todo # <<>>
           => AddAt(s, first, n, p, Store(m, Head(todo)), Tail(todo))
<1> SUFFICES ASSUME AddAt(s, first, n, p, m, todo), todo # <<>>
             PROVE  AddAt(s, first, n, p, Store(m, Head(todo)), Tail(todo))
  OBVIOUS
<1> DEFINE a == Put("prev", first, s)
           b == Put("next", s, first)
           c == Put("prev", s, Anchor)
           d == Put("next", Anchor, s)
<1>1. CASE todo = <<a, b, c, d>> /\ m = [next |-> n, prev |-> p]
  <2>1. Head(todo) = a /\ Tail(todo) = <<b, c, d>>
    BY <1>1, HeadTail
  <2>2. Store(m, a) = [next |-> n, prev |-> Link(p, first, s)]
    BY <1>1, PutPrev
  <2> QED
    BY <2>1, <2>2, Zenon DEF AddAt
<1>2. CASE todo = <<b, c, d>> /\ m = [next |-> n, prev |-> Link(p, first, s)]
  <2>1. Head(todo) = b /\ Tail(todo) = <<c, d>>
    BY <1>2, HeadTail
  <2>2. Store(m, b) = [next |-> Link(n, s, first), prev |-> Link(p, first, s)]
    BY <1>2, PutNext
  <2> QED
    BY <2>1, <2>2, Zenon DEF AddAt
<1>3. CASE todo = <<c, d>> /\ m = [next |-> Link(n, s, first), prev |-> Link(p, first, s)]
  <2>1. Head(todo) = c /\ Tail(todo) = <<d>>
    BY <1>3, HeadTail
  <2>2. Store(m, c) = [next |-> Link(n, s, first), prev |-> Link(Link(p, first, s), s, Anchor)]
    BY <1>3, PutPrev
  <2> QED
    BY <2>1, <2>2, Zenon DEF AddAt
<1>4. CASE todo = <<d>> /\ m = [next |-> Link(n, s, first), prev |-> Link(Link(p, first, s), s, Anchor)]
  <2>1. Head(todo) = d /\ Tail(todo) = <<>>
    BY <1>4, HeadTail
  <2>2. Store(m, d) = [next |-> Link(Link(n, s, first), Anchor, s), prev |-> Link(Link(p, first, s), s, Anchor)]
    BY <1>4, PutNext
  <2> QED
    BY <2>1, <2>2, Zenon DEF AddAt
<1> QED
  BY <1>1, <1>2, <1>3, <1>4, Zenon DEF AddAt

LEMMA DelNext ==
  ASSUME NEW s, NEW before, NEW after, NEW n, NEW p, NEW m, NEW todo
  PROVE  DelAt(s, before, after, n, p, m, todo) /\ todo # <<>>
           => DelAt(s, before, after, n, p, Store(m, Head(todo)), Tail(todo))
<1> SUFFICES ASSUME DelAt(s, before, after, n, p, m, todo), todo # <<>>
             PROVE  DelAt(s, before, after, n, p, Store(m, Head(todo)), Tail(todo))
  OBVIOUS
<1> DEFINE a == Put("prev", after, before)
           b == Put("next", before, after)
           c == Put("next", s, Poison)
           d == Put("prev", s, Poison)
<1>1. CASE todo = <<a, b, c, d>> /\ m = [next |-> n, prev |-> p]
  <2>1. Head(todo) = a /\ Tail(todo) = <<b, c, d>>
    BY <1>1, HeadTail
  <2>2. Store(m, a) = [next |-> n, prev |-> Link(p, after, before)]
    BY <1>1, PutPrev
  <2> QED
    BY <2>1, <2>2, Zenon DEF DelAt
<1>2. CASE todo = <<b, c, d>> /\ m = [next |-> n, prev |-> Link(p, after, before)]
  <2>1. Head(todo) = b /\ Tail(todo) = <<c, d>>
    BY <1>2, HeadTail
  <2>2. Store(m, b) = [next |-> Link(n, before, after), prev |-> Link(p, after, before)]
    BY <1>2, PutNext
  <2> QED
    BY <2>1, <2>2, Zenon DEF DelAt
<1>3. CASE todo = <<c, d>> /\ m = [next |-> Link(n, before, after), prev |-> Link(p, after, before)]
  <2>1. Head(todo) = c /\ Tail(todo) = <<d>>
    BY <1>3, HeadTail
  <2>2. Store(m, c) = [next |-> Link(Link(n, before, after), s, Poison), prev |-> Link(p, after, before)]
    BY <1>3, PutNext
  <2> QED
    BY <2>1, <2>2, Zenon DEF DelAt
<1>4. CASE todo = <<d>> /\ m = [next |-> Link(Link(n, before, after), s, Poison), prev |-> Link(p, after, before)]
  <2>1. Head(todo) = d /\ Tail(todo) = <<>>
    BY <1>4, HeadTail
  <2>2. Store(m, d) = [next |-> Link(Link(n, before, after), s, Poison), prev |-> Link(Link(p, after, before), s, Poison)]
    BY <1>4, PutPrev
  <2> QED
    BY <2>1, <2>2, Zenon DEF DelAt
<1> QED
  BY <1>1, <1>2, <1>3, <1>4, Zenon DEF DelAt

\* The stores of an operation are through pointers into the list.
Targets(todo) == \A k \in 1..Len(todo) : todo[k].of \in Node \cup {Anchor} /\ todo[k].to \in Address

Targeted(a) == a.of \in Node \cup {Anchor} /\ a.to \in Address

LEMMA TargetedPut ==
  ASSUME NEW f, NEW x \in Node \cup {Anchor}, NEW y \in Address
  PROVE  Targeted(Put(f, x, y))
BY DEF Targeted, Put

LEMMA TargetsFour ==
  ASSUME NEW a, NEW b, NEW c, NEW d, Targeted(a), Targeted(b), Targeted(c), Targeted(d)
  PROVE  /\ Targets(<<a, b, c, d>>) /\ Targets(<<b, c, d>>) /\ Targets(<<c, d>>)
         /\ Targets(<<d>>) /\ Targets(<<>>)
BY DEF Targets, Targeted

LEMMA MemoryOf ==
  ASSUME NEW n \in Links, NEW p \in Links
  PROVE  /\ [next |-> n, prev |-> p] \in Memory
         /\ [next |-> n, prev |-> p].next = n /\ [next |-> n, prev |-> p].prev = p
BY DEF Links, Memory

LEMMA LinkLinks ==
  ASSUME NEW f \in Links, NEW x, NEW y \in Address
  PROVE  Link(f, x, y) \in Links
BY LinkType, Zenon DEF Links

LEMMA LinkApart ==
  ASSUME NEW f \in Links, NEW x \in Node \cup {Anchor}, NEW y
  PROVE  /\ Link(f, x, y)[x] = y
         /\ \A z \in Node \cup {Anchor} : z # x => Link(f, x, y)[z] = f[z]
BY DEF Link, Links

\* What an addition shows of the list: the nodes it had, until its last
\* store, and then the new one in front of them.
LEMMA AddStands ==
  ASSUME NEW n \in Links, NEW p \in Links, NEW q, RingOf(n, p, q), NEW s \in Node \ Holds(q),
         NEW m, NEW todo
  PROVE  \A first : first = n[Anchor] /\ AddAt(s, first, n, p, m, todo) =>
           /\ m \in Memory
           /\ Targets(todo)
           /\ todo # <<>> => Leads(m.next, q)
           /\ todo = <<>> => RingOf(m.next, m.prev, Front(s, q))
<1> TAKE first
<1>1. HAVE first = n[Anchor] /\ AddAt(s, first, n, p, m, todo)
<1>2. first \in Node \cup {Anchor} /\ first \in Address
  <2>1. 0 \in 0..Len(q) /\ 0 + 1 = 1 /\ 1 \in Nat
    BY DEF RingOf
  <2>2. n[At(q, 0)] = At(q, 1)
    BY <2>1, Zenon DEF RingOf
  <2>3. At(q, 1) \in Node \cup {Anchor} /\ At(q, 0) = Anchor
    BY <2>1, Places, Zenon
  <2> QED
    BY <1>1, <2>2, <2>3 DEF Address
<1>3. /\ s \in Node \cup {Anchor} /\ s \in Address
      /\ Anchor \in Node \cup {Anchor} /\ Anchor \in Address
  BY DEF Address
<1>4. Targets(todo)
  <2>1. PICK a, b, c, d : /\ a = Put("prev", first, s) /\ b = Put("next", s, first)
                          /\ c = Put("prev", s, Anchor) /\ d = Put("next", Anchor, s)
    BY Zenon
  <2>2. Targeted(a) /\ Targeted(b) /\ Targeted(c) /\ Targeted(d)
    BY <1>2, <1>3, <2>1, TargetedPut, Zenon
  <2>3. /\ Targets(<<a, b, c, d>>) /\ Targets(<<b, c, d>>) /\ Targets(<<c, d>>)
        /\ Targets(<<d>>) /\ Targets(<<>>)
    BY <2>2, TargetsFour, Zenon
  <2> QED
    BY <1>1, <2>1, <2>3, Zenon DEF AddAt
<1>5. PICK p1, p2, n1, n2 : /\ p1 = Link(p, first, s) /\ p2 = Link(p1, s, Anchor)
                           /\ n1 = Link(n, s, first) /\ n2 = Link(n1, Anchor, s)
  BY Zenon
<1>6. p1 \in Links /\ p2 \in Links /\ n1 \in Links /\ n2 \in Links
  <2>1. p1 \in Links /\ n1 \in Links
    BY <1>2, <1>3, <1>5, LinkLinks, Zenon
  <2> QED
    BY <2>1, <1>3, <1>5, LinkLinks, Zenon
<1>7. Leads(n, q) /\ Leads(n1, q)
  <2>1. Leads(n, q)
    BY RingLeads, Zenon
  <2> QED
    BY <2>1, <1>5, LeadsApart, Zenon DEF Links
<1>8. RingOf(n2, p2, Front(s, q))
  BY <1>1, <1>5, RingFront, Zenon DEF Links
<1>9. \/ todo # <<>> /\ m \in {[next |-> n, prev |-> p], [next |-> n, prev |-> p1],
                             [next |-> n1, prev |-> p1], [next |-> n1, prev |-> p2]}
      \/ todo = <<>> /\ m = [next |-> n2, prev |-> p2]
  <2>1. \A a, b, c, d : <<a, b, c, d>> # <<>> /\ <<b, c, d>> # <<>> /\ <<c, d>> # <<>> /\ <<d>> # <<>>
    OBVIOUS
  <2> QED
    BY <1>1, <1>5, <2>1, Zenon DEF AddAt
<1>10. CASE todo # <<>>
  <2>1. /\ m \in Memory
        /\ m.next = n \/ m.next = n1
    BY <1>6, <1>9, <1>10, MemoryOf
  <2> QED
    BY <1>4, <1>7, <1>10, <2>1, Zenon
<1>11. CASE todo = <<>>
  <2>1. m \in Memory /\ m.next = n2 /\ m.prev = p2
    BY <1>6, <1>9, <1>11, MemoryOf
  <2> QED
    BY <1>4, <1>8, <1>11, <2>1, Zenon
<1> QED
  BY <1>10, <1>11, Zenon

\* What a deletion shows of the list: the nodes it had, until its second
\* store, then all but one, which leads on to the next till it is poisoned.
LEMMA DelStands ==
  ASSUME NEW n \in Links, NEW p \in Links, NEW q, RingOf(n, p, q), NEW i \in 1..Len(q),
         NEW m, NEW todo
  PROVE  \A s, before, after :
           s = q[i] /\ before = p[s] /\ after = n[s] /\ DelAt(s, before, after, n, p, m, todo) =>
             /\ m \in Memory
             /\ Targets(todo)
             /\ Len(todo) \in 0..4
             /\ Len(todo) >= 3 => Leads(m.next, q)
             /\ Len(todo) <= 2 => Leads(m.next, Without(q, i))
             /\ Len(todo) = 2 => m.next[s] = At(q, i + 1)
             /\ Len(todo) <= 1 => m.next[s] = Poison
             /\ todo = <<>> => RingOf(m.next, m.prev, Without(q, i))
<1> TAKE s, before, after
<1>1. HAVE s = q[i] /\ before = p[s] /\ after = n[s] /\ DelAt(s, before, after, n, p, m, todo)
<1>2. q \in Seq(Node) /\ (\A j, k \in 1..Len(q) : q[j] = q[k] => j = k)
  BY DEF RingOf
<1>3. /\ s \in Node /\ s = At(q, i)
      /\ before = At(q, i - 1) /\ after = At(q, i + 1)
      /\ before \in Node \cup {Anchor} /\ after \in Node \cup {Anchor}
      /\ before # s
  <2>1. /\ i \in 0..Len(q) /\ i - 1 \in 0..Len(q) /\ (i - 1) + 1 = i /\ i - 1 # i
        /\ i - 1 \in Nat /\ i + 1 \in Nat
    BY <1>2
  <2>2. s \in Node /\ s = At(q, i)
    BY <1>1, Places, Zenon
  <2>3. n[s] = At(q, i + 1)
    BY <2>1, <2>2, Zenon DEF RingOf
  <2>4. p[At(q, (i - 1) + 1)] = At(q, i - 1)
    BY <2>1, Zenon DEF RingOf
  <2>5. p[s] = At(q, i - 1)
    BY <2>1, <2>2, <2>4
  <2>6. At(q, i - 1) \in Node \cup {Anchor} /\ At(q, i + 1) \in Node \cup {Anchor}
    BY <2>1, Places, Zenon
  <2>7. At(q, i - 1) # At(q, i)
    BY <2>1, Places, Zenon
  <2> QED
    BY <1>1, <2>2, <2>3, <2>5, <2>6, <2>7, Zenon
<1>4. /\ s \in Node \cup {Anchor} /\ s \in Address /\ Poison \in Address
      /\ before \in Address /\ after \in Address
  BY <1>3 DEF Address
<1>5. Targets(todo)
  <2>1. PICK a, b, c, d : /\ a = Put("prev", after, before) /\ b = Put("next", before, after)
                          /\ c = Put("next", s, Poison) /\ d = Put("prev", s, Poison)
    BY Zenon
  <2>2. Targeted(a) /\ Targeted(b) /\ Targeted(c) /\ Targeted(d)
    BY <1>3, <1>4, <2>1, TargetedPut, Zenon
  <2>3. /\ Targets(<<a, b, c, d>>) /\ Targets(<<b, c, d>>) /\ Targets(<<c, d>>)
        /\ Targets(<<d>>) /\ Targets(<<>>)
    BY <2>2, TargetsFour, Zenon
  <2> QED
    BY <1>1, <2>1, <2>3, Zenon DEF DelAt
<1>6. PICK p1, p2, n1, n2 : /\ p1 = Link(p, after, before) /\ p2 = Link(p1, s, Poison)
                           /\ n1 = Link(n, before, after) /\ n2 = Link(n1, s, Poison)
  BY Zenon
<1>7. p1 \in Links /\ p2 \in Links /\ n1 \in Links /\ n2 \in Links
  <2>1. p1 \in Links /\ n1 \in Links
    BY <1>4, <1>6, LinkLinks, Zenon
  <2> QED
    BY <2>1, <1>4, <1>6, LinkLinks, Zenon
<1>8. n1[s] = after /\ n2[s] = Poison
  <2>1. Link(n, before, after)[s] = n[s]
    <3>1. \A z \in Node \cup {Anchor} : z # before => Link(n, before, after)[z] = n[z]
      <4>1. before \in Node \cup {Anchor}
        BY <1>3
      <4>2. Link(n, before, after) = [n EXCEPT ![before] = after] /\ DOMAIN n = Node \cup {Anchor}
        BY DEF Link, Links
      <4> QED
        BY <4>1, <4>2
    <3> QED
      BY <1>3, <1>4, <3>1, Zenon
  <2>2. Link(n1, s, Poison)[s] = Poison
    BY <1>4, <1>7, LinkApart
  <2> QED
    BY <1>1, <1>6, <2>1, <2>2, Zenon
<1>9. Leads(n, q)
  BY RingLeads, Zenon
<1>10. RingOf(n1, p1, Without(q, i))
  BY <1>1, <1>6, RingCut, Zenon DEF Links
<1>11. RingOf(n2, p2, Without(q, i))
  <2>1. Holds(Without(q, i)) = Holds(q) \ {q[i]}
    BY <1>2, WithoutHolds, Zenon
  <2>2. s \in Node \ Holds(Without(q, i))
    BY <1>1, <1>3, <2>1, Zenon
  <2> QED
    BY <1>6, <1>7, <1>10, <2>2, RingApart, Zenon DEF Links
<1>12. Leads(n1, Without(q, i)) /\ Leads(n2, Without(q, i))
  BY <1>10, <1>11, RingLeads, Zenon
<1>13. \/ Len(todo) \in {3, 4} /\ todo # <<>> /\ m \in {[next |-> n, prev |-> p], [next |-> n, prev |-> p1]}
       \/ Len(todo) = 2 /\ todo # <<>> /\ m = [next |-> n1, prev |-> p1]
       \/ Len(todo) = 1 /\ todo # <<>> /\ m = [next |-> n2, prev |-> p1]
       \/ Len(todo) = 0 /\ m = [next |-> n2, prev |-> p2]
  <2>1. \A a, b, c, d : /\ <<a, b, c, d>> # <<>> /\ <<b, c, d>> # <<>> /\ <<c, d>> # <<>> /\ <<d>> # <<>>
                        /\ Len(<<a, b, c, d>>) = 4 /\ Len(<<b, c, d>>) = 3 /\ Len(<<c, d>>) = 2
                        /\ Len(<<d>>) = 1 /\ Len(<<>>) = 0
    OBVIOUS
  <2>2. PICK a, b, c, d : /\ a = Put("prev", after, before) /\ b = Put("next", before, after)
                          /\ c = Put("next", s, Poison) /\ d = Put("prev", s, Poison)
    BY Zenon
  <2>3. \/ todo = <<a, b, c, d>> /\ m = [next |-> n, prev |-> p]
        \/ todo = <<b, c, d>> /\ m = [next |-> n, prev |-> p1]
        \/ todo = <<c, d>> /\ m = [next |-> n1, prev |-> p1]
        \/ todo = <<d>> /\ m = [next |-> n2, prev |-> p1]
        \/ todo = <<>> /\ m = [next |-> n2, prev |-> p2]
    BY <1>1, <1>6, <2>2, Zenon DEF DelAt
  <2> QED
    BY <2>1, <2>3, Zenon
<1>14. CASE Len(todo) \in {3, 4} /\ todo # <<>> /\ m \in {[next |-> n, prev |-> p], [next |-> n, prev |-> p1]}
  <2>1. m \in Memory /\ m.next = n
    BY <1>7, <1>14, MemoryOf
  <2>2. Len(todo) \in 0..4 /\ ~(Len(todo) <= 2) /\ Len(todo) # 2 /\ ~(Len(todo) <= 1)
    BY <1>14
  <2> QED
    BY <1>5, <1>9, <1>14, <2>1, <2>2, Zenon
<1>15. CASE Len(todo) = 2 /\ todo # <<>> /\ m = [next |-> n1, prev |-> p1]
  <2>1. m \in Memory /\ m.next = n1
    BY <1>7, <1>15, MemoryOf
  <2>2. Len(todo) \in 0..4 /\ ~(Len(todo) >= 3) /\ ~(Len(todo) <= 1)
    BY <1>15
  <2> QED
    BY <1>3, <1>5, <1>8, <1>12, <1>15, <2>1, <2>2, Zenon
<1>16. CASE Len(todo) = 1 /\ todo # <<>> /\ m = [next |-> n2, prev |-> p1]
  <2>1. m \in Memory /\ m.next = n2
    BY <1>7, <1>16, MemoryOf
  <2>2. Len(todo) \in 0..4 /\ ~(Len(todo) >= 3) /\ Len(todo) # 2
    BY <1>16
  <2> QED
    BY <1>5, <1>8, <1>12, <1>16, <2>1, <2>2, Zenon
<1>17. CASE Len(todo) = 0 /\ m = [next |-> n2, prev |-> p2]
  <2>1. m \in Memory /\ m.next = n2 /\ m.prev = p2
    BY <1>7, <1>17, MemoryOf
  <2>2. Len(todo) \in 0..4 /\ ~(Len(todo) >= 3) /\ Len(todo) # 2
    BY <1>17
  <2> QED
    BY <1>5, <1>8, <1>11, <1>12, <1>17, <2>1, <2>2, Zenon
<1> QED
  BY <1>13, <1>14, <1>15, <1>16, <1>17, Zenon

-----------------------------------------------------------------------------
(* The operations, from whatever ring they began with.                     *)

Added(s, q, m, todo) ==
  \E n, p \in Links : RingOf(n, p, q) /\ AddAt(s, n[Anchor], n, p, m, todo)

Deleted(i, q, m, todo) ==
  /\ i \in 1..Len(q)
  /\ \E n, p \in Links : RingOf(n, p, q) /\ DelAt(q[i], p[q[i]], n[q[i]], n, p, m, todo)

\* The list a walk sees.
AddSeen(s, q, todo) == IF todo = <<>> THEN Front(s, q) ELSE q
DelSeen(i, q, todo) == IF Len(todo) <= 2 THEN Without(q, i) ELSE q

LEMMA RingTyped ==
  ASSUME NEW n, NEW p, NEW q, RingOf(n, p, q)
  PROVE  q \in Seq(Node) /\ (\A j, k \in 1..Len(q) : q[j] = q[k] => j = k) /\ Len(q) \in Nat
BY DEF RingOf

LEMMA MemoryLinks ==
  ASSUME NEW m \in Memory
  PROVE  m.next \in Links /\ m.prev \in Links /\ m = [next |-> m.next, prev |-> m.prev]
BY DEF Memory, Links

LEMMA AddedNext ==
  ASSUME NEW s, NEW q, NEW m, NEW todo, Added(s, q, m, todo), todo # <<>>
  PROVE  Added(s, q, Store(m, Head(todo)), Tail(todo))
<1>1. PICK n \in Links, p \in Links : RingOf(n, p, q) /\ AddAt(s, n[Anchor], n, p, m, todo)
  BY Zenon DEF Added
<1>2. AddAt(s, n[Anchor], n, p, Store(m, Head(todo)), Tail(todo))
  BY <1>1, AddNext, Zenon
<1> QED
  BY <1>1, <1>2, Zenon DEF Added

LEMMA DeletedNext ==
  ASSUME NEW i, NEW q, NEW m, NEW todo, Deleted(i, q, m, todo), todo # <<>>
  PROVE  Deleted(i, q, Store(m, Head(todo)), Tail(todo))
<1>1. PICK n \in Links, p \in Links : RingOf(n, p, q) /\ DelAt(q[i], p[q[i]], n[q[i]], n, p, m, todo)
  BY Zenon DEF Deleted
<1>2. DelAt(q[i], p[q[i]], n[q[i]], n, p, Store(m, Head(todo)), Tail(todo))
  BY <1>1, DelNext, Zenon
<1>3. i \in 1..Len(q)
  BY Zenon DEF Deleted
<1> QED
  BY <1>1, <1>2, <1>3, Zenon DEF Deleted

LEMMA AddedStands ==
  ASSUME NEW s, NEW q, NEW m, NEW todo, Added(s, q, m, todo), s \in Node \ Holds(q)
  PROVE  /\ m \in Memory
         /\ Targets(todo)
         /\ q \in Seq(Node) /\ \A j, k \in 1..Len(q) : q[j] = q[k] => j = k
         /\ Leads(m.next, AddSeen(s, q, todo))
         /\ todo = <<>> => RingOf(m.next, m.prev, Front(s, q))
<1>1. PICK n \in Links, p \in Links : RingOf(n, p, q) /\ AddAt(s, n[Anchor], n, p, m, todo)
  BY Zenon DEF Added
<1>2. /\ m \in Memory
      /\ Targets(todo)
      /\ todo # <<>> => Leads(m.next, q)
      /\ todo = <<>> => RingOf(m.next, m.prev, Front(s, q))
  <2>1. \A first : first = n[Anchor] /\ AddAt(s, first, n, p, m, todo) =>
           /\ m \in Memory
           /\ Targets(todo)
           /\ todo # <<>> => Leads(m.next, q)
           /\ todo = <<>> => RingOf(m.next, m.prev, Front(s, q))
    BY <1>1, AddStands, Zenon
  <2> QED
    BY <1>1, <2>1, Zenon
<1>3. Leads(m.next, AddSeen(s, q, todo))
  BY <1>2, RingLeads, Zenon DEF AddSeen
<1> QED
  BY <1>1, <1>2, <1>3, RingTyped, Zenon

LEMMA DeletedStands ==
  ASSUME NEW i, NEW q, NEW m, NEW todo, Deleted(i, q, m, todo)
  PROVE  /\ m \in Memory
         /\ Targets(todo)
         /\ q \in Seq(Node) /\ (\A j, k \in 1..Len(q) : q[j] = q[k] => j = k) /\ i \in 1..Len(q)
         /\ Len(todo) \in 0..4
         /\ Leads(m.next, DelSeen(i, q, todo))
         /\ Len(todo) = 2 => m.next[q[i]] = At(q, i + 1)
         /\ Len(todo) <= 1 => m.next[q[i]] = Poison
         /\ todo = <<>> => RingOf(m.next, m.prev, Without(q, i))
<1>1. PICK n \in Links, p \in Links : RingOf(n, p, q) /\ DelAt(q[i], p[q[i]], n[q[i]], n, p, m, todo)
  BY Zenon DEF Deleted
<1>2. i \in 1..Len(q)
  BY Zenon DEF Deleted
<1>3. /\ m \in Memory
      /\ Targets(todo)
      /\ Len(todo) \in 0..4
      /\ Len(todo) >= 3 => Leads(m.next, q)
      /\ Len(todo) <= 2 => Leads(m.next, Without(q, i))
      /\ Len(todo) = 2 => m.next[q[i]] = At(q, i + 1)
      /\ Len(todo) <= 1 => m.next[q[i]] = Poison
      /\ todo = <<>> => RingOf(m.next, m.prev, Without(q, i))
  <2>1. \A s, before, after :
           s = q[i] /\ before = p[s] /\ after = n[s] /\ DelAt(s, before, after, n, p, m, todo) =>
             /\ m \in Memory
             /\ Targets(todo)
             /\ Len(todo) \in 0..4
             /\ Len(todo) >= 3 => Leads(m.next, q)
             /\ Len(todo) <= 2 => Leads(m.next, Without(q, i))
             /\ Len(todo) = 2 => m.next[s] = At(q, i + 1)
             /\ Len(todo) <= 1 => m.next[s] = Poison
             /\ todo = <<>> => RingOf(m.next, m.prev, Without(q, i))
    BY <1>1, <1>2, DelStands, Zenon
  <2> QED
    BY <1>1, <2>1, Zenon
<1>4. Leads(m.next, DelSeen(i, q, todo))
  <2>1. Len(todo) <= 2 \/ Len(todo) >= 3
    BY <1>3
  <2> QED
    BY <1>3, <2>1, Zenon DEF DelSeen
<1>5. q \in Seq(Node) /\ (\A j, k \in 1..Len(q) : q[j] = q[k] => j = k)
  BY <1>1, RingTyped, Zenon
<1> QED
  BY <1>2, <1>3, <1>4, <1>5, Zenon

LEMMA AddedStart ==
  ASSUME NEW m \in Memory, NEW q, RingOf(m.next, m.prev, q), NEW s \in Node \ Holds(q)
  PROVE  Added(s, q, Do(m, InitListHead(s)), ListAdd(m, s))
<1>1. PICK n \in Links, p \in Links : n = m.next /\ p = m.prev /\ m = [next |-> n, prev |-> p]
  BY MemoryLinks, Zenon
<1>2. PICK n1, p1 : n1 = Link(n, s, s) /\ p1 = Link(p, s, s)
  BY Zenon
<1>3. n1 \in Links /\ p1 \in Links
  <2>1. s \in Address
    BY DEF Address
  <2> QED
    BY <1>2, <2>1, LinkLinks, Zenon
<1>4. Do(m, InitListHead(s)) = [next |-> n1, prev |-> p1]
  <2>1. Store(m, Put("next", s, s)) = [next |-> n1, prev |-> p]
    BY <1>1, <1>2, PutNext
  <2>2. Store([next |-> n1, prev |-> p], Put("prev", s, s)) = [next |-> n1, prev |-> p1]
    BY <1>2, PutPrev
  <2>3. Do(m, InitListHead(s)) = Store(Store(m, Put("next", s, s)), Put("prev", s, s))
    <3>1. \A x, y : Do(m, <<x, y>>) = Store(Store(m, x), y)
      BY DoTwo, Zenon
    <3> QED
      BY <3>1, Zenon DEF InitListHead
  <2> QED
    BY <2>1, <2>2, <2>3, Zenon
<1>5. RingOf(n1, p1, q)
  BY <1>1, <1>2, RingApart, Zenon DEF Links
<1>6. n1[Anchor] = n[Anchor]
  BY <1>2, AnchorApart DEF Link, Links
<1>7. ListAdd(m, s) = <<Put("prev", n[Anchor], s), Put("next", s, n[Anchor]), Put("prev", s, Anchor), Put("next", Anchor, s)>>
  BY <1>1, Zenon DEF ListAdd, ListAddIn
<1>8. AddAt(s, n1[Anchor], n1, p1, Do(m, InitListHead(s)), ListAdd(m, s))
  BY <1>4, <1>6, <1>7, Zenon DEF AddAt
<1> QED
  BY <1>3, <1>5, <1>8, Zenon DEF Added

LEMMA DeletedStart ==
  ASSUME NEW m \in Memory, NEW q, RingOf(m.next, m.prev, q), NEW i \in 1..Len(q)
  PROVE  Deleted(i, q, m, ListDel(m, q[i])) /\ Len(ListDel(m, q[i])) = 4
<1>1. PICK n \in Links, p \in Links : n = m.next /\ p = m.prev /\ m = [next |-> n, prev |-> p]
  BY MemoryLinks, Zenon
<1>2. PICK s, before, after : s = q[i] /\ before = p[s] /\ after = n[s]
  BY Zenon
<1>3. ListDel(m, s) = <<Put("prev", after, before), Put("next", before, after)>> \o <<Put("next", s, Poison), Put("prev", s, Poison)>>
  BY <1>1, <1>2, Zenon DEF ListDel, ListDelIn
<1>4. ListDel(m, s) = <<Put("prev", after, before), Put("next", before, after), Put("next", s, Poison), Put("prev", s, Poison)>>
  BY <1>3, TwoAndTwo, Zenon
<1>5. DelAt(q[i], p[q[i]], n[q[i]], n, p, m, ListDel(m, q[i]))
  BY <1>1, <1>2, <1>4, Zenon DEF DelAt
<1>6. Len(ListDel(m, q[i])) = 4
  BY <1>2, <1>4
<1> QED
  BY <1>1, <1>5, <1>6, Zenon DEF Deleted

\* What is left when the node is freed.
LEMMA DeletedEnd ==
  ASSUME NEW i, NEW q, NEW m, Deleted(i, q, m, <<>>)
  PROVE  \A s, a : s = q[i] /\ a = Do(m, <<Put("next", s, Junk), Put("prev", s, Junk)>>) =>
           /\ a \in Memory
           /\ RingOf(a.next, a.prev, Without(q, i))
           /\ \A z \in Node \cup {Anchor} : z # s => a.next[z] = m.next[z]
<1> TAKE s, a
<1>1. HAVE s = q[i] /\ a = Do(m, <<Put("next", s, Junk), Put("prev", s, Junk)>>)
<1>2. /\ m \in Memory
      /\ q \in Seq(Node) /\ (\A j, k \in 1..Len(q) : q[j] = q[k] => j = k) /\ i \in 1..Len(q)
  BY DeletedStands, Zenon
<1>3. RingOf(m.next, m.prev, Without(q, i))
  <2>1. \A todo : Deleted(i, q, m, todo) /\ todo = <<>> => RingOf(m.next, m.prev, Without(q, i))
    BY DeletedStands, Zenon
  <2> QED
    BY <2>1, Zenon
<1>4. PICK n \in Links, p \in Links : n = m.next /\ p = m.prev /\ m = [next |-> n, prev |-> p]
  BY <1>2, MemoryLinks, Zenon
<1>5. s \in Node /\ s \in Node \cup {Anchor} /\ Junk \in Address
  BY <1>1, <1>2 DEF Address
<1>6. PICK n1, p1 : n1 = Link(n, s, Junk) /\ p1 = Link(p, s, Junk)
  BY Zenon
<1>7. n1 \in Links /\ p1 \in Links
  BY <1>5, <1>6, LinkLinks, Zenon
<1>8. a = [next |-> n1, prev |-> p1]
  <2>1. Store(m, Put("next", s, Junk)) = [next |-> n1, prev |-> p]
    BY <1>4, <1>6, PutNext
  <2>2. Store([next |-> n1, prev |-> p], Put("prev", s, Junk)) = [next |-> n1, prev |-> p1]
    BY <1>6, PutPrev
  <2>3. a = Store(Store(m, Put("next", s, Junk)), Put("prev", s, Junk))
    <3>1. \A x, y : Do(m, <<x, y>>) = Store(Store(m, x), y)
      BY DoTwo, Zenon
    <3> QED
      BY <1>1, <3>1, Zenon
  <2> QED
    BY <2>1, <2>2, <2>3, Zenon
<1>9. RingOf(n1, p1, Without(q, i))
  <2>1. Holds(Without(q, i)) = Holds(q) \ {q[i]}
    BY <1>2, WithoutHolds, Zenon
  <2>2. s \in Node \ Holds(Without(q, i))
    BY <1>1, <1>5, <2>1, Zenon
  <2>3. RingOf(n, p, Without(q, i))
    BY <1>3, <1>4, Zenon
  <2> QED
    BY <1>6, <2>2, <2>3, RingApart, Zenon DEF Links
<1>10. a \in Memory /\ a.next = n1 /\ a.prev = p1
  BY <1>7, <1>8, MemoryOf
<1>11. \A z \in Node \cup {Anchor} : z # s => n1[z] = n[z]
  BY <1>5, <1>6 DEF Link, Links
<1> QED
  BY <1>4, <1>9, <1>10, <1>11, Zenon

-----------------------------------------------------------------------------
(* The inductive invariant: nothing is under way, an addition in front of  *)
(* q, or the deletion of the i-th node of q; and where a walk may stand.   *)

Off == {None, Anchor, Freed, Poison}

Idle(q) ==
  /\ op = NoOp /\ stores = <<>> /\ live = Holds(q)
  /\ mem \in Memory /\ RingOf(mem.next, mem.prev, q)

Adding(s, q) ==
  /\ s \in Node \ Holds(q)
  /\ op = [does |-> "add", node |-> s] /\ live = Holds(q) \cup {s}
  /\ Added(s, q, mem, stores)

Deleting(i, q) ==
  /\ op = [does |-> "del", node |-> q[i]] /\ live = Holds(q)
  /\ Deleted(i, q, mem, stores)

IdleOn(q) == Idle(q) /\ cursor \in Holds(q) \cup Off
AddingOn(s, q) == Adding(s, q) /\ cursor \in Holds(AddSeen(s, q, stores)) \cup Off
DeletingOn(i, q) == Deleting(i, q) /\ cursor \in Holds(q) \cup Off

RaceInv ==
  /\ fault \in BOOLEAN
  /\ \/ \E q : IdleOn(q)
     \/ \E s, q : AddingOn(s, q)
     \/ \E i, q : DeletingOn(i, q)

LEMMA Apart ==
  /\ None # Freed /\ None \notin Node /\ Freed \notin Node /\ Anchor \notin Node /\ Poison \notin Node
  /\ None \notin {Anchor, Poison, Junk} /\ Freed \notin {Anchor, Poison, Junk}
  /\ Anchor # Poison /\ Anchor # Junk /\ Poison # Junk /\ Junk \notin Node
BY ListAssumption, AddressAssumption DEF Address

LEMMA OpsApart ==
  ASSUME NEW s, NEW t
  PROVE  /\ [does |-> "add", node |-> s] # NoOp /\ [does |-> "del", node |-> s] # NoOp
         /\ [does |-> "add", node |-> s] # [does |-> "del", node |-> t]
         /\ [does |-> "add", node |-> s].does = "add" /\ [does |-> "del", node |-> s].does = "del"
         /\ [does |-> "del", node |-> s].node = s
         /\ NoOp.does \notin {"add", "del"} /\ "add" # "del"
BY DEF NoOp

\* The writer.
LEMMA BeginAdd ==
  ASSUME NEW q, Idle(q), NEW s \in Node, AddBegin(s)
  PROVE  Adding(s, q)'
<1>1. s \in Node \ Holds(q) /\ mem \in Memory /\ RingOf(mem.next, mem.prev, q)
  BY DEF Idle, AddBegin
<1>2. Added(s, q, mem', stores')
  <2>1. Added(s, q, Do(mem, InitListHead(s)), ListAdd(mem, s))
    BY <1>1, AddedStart, Zenon
  <2> QED
    BY <2>1, Zenon DEF AddBegin
<1>3. op' = [does |-> "add", node |-> s] /\ live' = Holds(q) \cup {s}
  BY Zenon DEF Idle, AddBegin
<1> QED
  BY <1>1, <1>2, <1>3, Zenon DEF Adding

LEMMA BeginDel ==
  ASSUME NEW q, Idle(q), NEW s \in Node, DelBegin(s)
  PROVE  \E i \in 1..Len(q) : s = q[i] /\ Deleting(i, q)' /\ Len(stores') = 4
<1>1. mem \in Memory /\ RingOf(mem.next, mem.prev, q) /\ s \in Holds(q)
  BY DEF Idle, DelBegin
<1>2. PICK i \in 1..Len(q) : s = q[i]
  BY <1>1, Zenon DEF Holds
<1>3. Deleted(i, q, mem, ListDel(mem, q[i])) /\ Len(ListDel(mem, q[i])) = 4
  BY <1>1, DeletedStart, Zenon
<1>4. mem' = mem /\ stores' = ListDel(mem, q[i])
  BY <1>2, Zenon DEF DelBegin
<1>5. Deleted(i, q, mem', stores') /\ Len(stores') = 4
  BY <1>3, <1>4, Zenon
<1>6. op' = [does |-> "del", node |-> q[i]] /\ live' = Holds(q)
  BY <1>2, Zenon DEF Idle, DelBegin
<1> QED
  BY <1>2, <1>5, <1>6, Zenon DEF Deleting

LEMMA StoreAdd ==
  ASSUME NEW s, NEW q, Adding(s, q), StoreNext
  PROVE  Adding(s, q)'
<1>1. Added(s, q, Store(mem, Head(stores)), Tail(stores))
  BY AddedNext, Zenon DEF Adding, StoreNext
<1>2. Added(s, q, mem', stores')
  BY <1>1, Zenon DEF StoreNext
<1> QED
  BY <1>2, Zenon DEF Adding, StoreNext

LEMMA StoreDel ==
  ASSUME NEW i, NEW q, Deleting(i, q), StoreNext
  PROVE  Deleting(i, q)'
<1>1. Deleted(i, q, Store(mem, Head(stores)), Tail(stores))
  BY DeletedNext, Zenon DEF Deleting, StoreNext
<1>2. Deleted(i, q, mem', stores')
  BY <1>1, Zenon DEF StoreNext
<1> QED
  BY <1>2, Zenon DEF Deleting, StoreNext

LEMMA EndAdd ==
  ASSUME NEW s, NEW q, Adding(s, q), AddEnd
  PROVE  Idle(Front(s, q))'
<1>1. stores = <<>> /\ op' = NoOp /\ mem' = mem /\ live' = live /\ stores' = stores
  BY DEF AddEnd
<1>2. mem \in Memory /\ RingOf(mem.next, mem.prev, Front(s, q)) /\ q \in Seq(Node)
  BY <1>1, AddedStands, Zenon DEF Adding
<1>3. Holds(Front(s, q)) = Holds(q) \cup {s}
  BY <1>2, FrontHolds, Zenon DEF Adding
<1> QED
  BY <1>1, <1>2, <1>3, Zenon DEF Idle, Adding

LEMMA EndDel ==
  ASSUME NEW i, NEW q, Deleting(i, q), DelEnd
  PROVE  /\ Idle(Without(q, i))'
         /\ \A z \in Node \cup {Anchor} : z # q[i] => mem'.next[z] = mem.next[z]
         /\ cursor' = IF cursor = q[i] THEN Freed ELSE cursor
<1>1. stores = <<>> /\ op' = NoOp /\ stores' = stores /\ op.node = q[i]
  BY OpsApart, Zenon DEF DelEnd, Deleting
<1>2. Deleted(i, q, mem, <<>>)
  BY <1>1, Zenon DEF Deleting
<1>3. mem' = Do(mem, <<Put("next", q[i], Junk), Put("prev", q[i], Junk)>>)
  BY <1>1, Zenon DEF DelEnd
<1>4. /\ mem' \in Memory
      /\ RingOf(mem'.next, mem'.prev, Without(q, i))
      /\ \A z \in Node \cup {Anchor} : z # q[i] => mem'.next[z] = mem.next[z]
  <2>1. \A s, a : s = q[i] /\ a = Do(mem, <<Put("next", s, Junk), Put("prev", s, Junk)>>) =>
           /\ a \in Memory
           /\ RingOf(a.next, a.prev, Without(q, i))
           /\ \A z \in Node \cup {Anchor} : z # s => a.next[z] = mem.next[z]
    BY <1>2, DeletedEnd
  <2> QED
    BY <1>3, <2>1, Zenon
<1>5. live' = Holds(Without(q, i))
  <2>1. Holds(Without(q, i)) = Holds(q) \ {q[i]}
    <3>1. q \in Seq(Node) /\ (\A j, k \in 1..Len(q) : q[j] = q[k] => j = k) /\ i \in 1..Len(q)
      BY <1>2, DeletedStands, Zenon
    <3> QED
      BY <3>1, WithoutHolds, Zenon
  <2> QED
    BY <1>1, <2>1, Zenon DEF DelEnd, Deleting
<1>6. cursor' = IF cursor = q[i] THEN Freed ELSE cursor
  BY <1>1, Zenon DEF DelEnd
<1> QED
  BY <1>1, <1>4, <1>5, <1>6, Zenon DEF Idle

\* The reader: where the links lead a walk.
LEMMA IdleLeads ==
  ASSUME NEW q, Idle(q)
  PROVE  Holds(q) \subseteq Node /\ \A z \in Holds(q) \cup {Anchor} : mem.next[z] \in Holds(q) \cup {Anchor, Poison}
<1>1. Leads(mem.next, q)
  BY RingLeads, Zenon DEF Idle
<1>2. \A z \in Holds(q) \cup {Anchor} : mem.next[z] \in Holds(q) \cup {Anchor}
  BY <1>1, LeadsOn, Zenon
<1>3. Holds(q) \subseteq Node
  BY <1>1 DEF Leads, Holds
<1> QED
  BY <1>2, <1>3, Zenon

LEMMA AddingLeads ==
  ASSUME NEW s, NEW q, Adding(s, q)
  PROVE  \A r : r = AddSeen(s, q, stores) =>
           /\ Holds(q) \subseteq Holds(r) /\ Holds(r) \subseteq Holds(q) \cup {s} /\ Holds(r) \subseteq Node
           /\ \A z \in Holds(r) \cup {Anchor} : mem.next[z] \in Holds(r) \cup {Anchor, Poison}
<1> TAKE r
<1>1. HAVE r = AddSeen(s, q, stores)
<1>2. Leads(mem.next, r) /\ q \in Seq(Node)
  BY <1>1, AddedStands, Zenon DEF Adding
<1>3. \A z \in Holds(r) \cup {Anchor} : mem.next[z] \in Holds(r) \cup {Anchor}
  BY <1>2, LeadsOn, Zenon
<1>4. Holds(r) \subseteq Node
  BY <1>2 DEF Leads, Holds
<1>5. r = q \/ Holds(r) = Holds(q) \cup {s}
  BY <1>1, <1>2, FrontHolds, Zenon DEF AddSeen, Adding
<1> QED
  BY <1>3, <1>4, <1>5, Zenon

LEMMA DeletingLeads ==
  ASSUME NEW i, NEW q, Deleting(i, q)
  PROVE  Holds(q) \subseteq Node /\ \A z \in Holds(q) \cup {Anchor} : mem.next[z] \in Holds(q) \cup {Anchor, Poison}
<1>1. /\ q \in Seq(Node) /\ (\A j, k \in 1..Len(q) : q[j] = q[k] => j = k) /\ i \in 1..Len(q)
      /\ Len(stores) \in 0..4
      /\ Leads(mem.next, DelSeen(i, q, stores))
      /\ Len(stores) = 2 => mem.next[q[i]] = At(q, i + 1)
      /\ Len(stores) <= 1 => mem.next[q[i]] = Poison
  BY DeletedStands, ZenonT(30) DEF Deleting
<1>2. PICK r : r = DelSeen(i, q, stores)
  OBVIOUS
<1>3. Holds(q) \subseteq Node
  BY <1>1 DEF Holds
<1>4. \A z \in Holds(r) \cup {Anchor} : mem.next[z] \in Holds(r) \cup {Anchor}
  BY <1>1, <1>2, LeadsOn, Zenon
<1>5. CASE r = q
  BY <1>3, <1>4, <1>5, Zenon
<1>6. CASE r = Without(q, i) /\ Len(stores) <= 2
  <2>1. Holds(r) = Holds(q) \ {q[i]}
    BY <1>1, <1>6, WithoutHolds, Zenon
  <2>2. Len(stores) = 2 \/ Len(stores) <= 1
    <3>1. Len(stores) \in 0..4 /\ Len(stores) <= 2
      BY <1>1, <1>6, Zenon
    <3>2. \A l \in 0..4 : l <= 2 => l = 2 \/ l <= 1
      OBVIOUS
    <3> QED
      BY <3>1, <3>2, Zenon
  <2>3. At(q, i + 1) \in Holds(q) \cup {Anchor}
    BY <1>1 DEF At, Holds
  <2>4. mem.next[q[i]] \in Holds(q) \cup {Anchor, Poison}
    BY <1>1, <2>2, <2>3, Zenon
  <2> QED
    BY <1>3, <1>4, <2>1, <2>4, Zenon
<1> QED
  BY <1>2, <1>5, <1>6, Zenon DEF DelSeen

LEMMA WalkStays ==
  ASSUME NEW A \in SUBSET Node, cursor \in A \cup Off,
         \A z \in A \cup {Anchor} : mem.next[z] \in A \cup {Anchor, Poison},
         WalkBegin \/ Walk \/ Faulted
  PROVE  cursor' \in A \cup Off
<1>1. CASE WalkBegin
  BY <1>1 DEF WalkBegin, Off
<1>2. CASE WalkNext
  <2>1. cursor \in A
    BY <1>2, Apart DEF WalkNext, Off
  <2> QED
    BY <1>2, <2>1 DEF WalkNext, Off
<1>3. CASE WalkEnd
  BY <1>3 DEF WalkEnd, Off
<1>4. CASE WalkFault
  BY <1>4 DEF WalkFault
<1>5. CASE Faulted
  BY <1>5 DEF Faulted, vars
<1> QED
  BY <1>1, <1>2, <1>3, <1>4, <1>5, Zenon DEF Walk

LEMMA WalkOnly ==
  ASSUME WalkBegin \/ Walk \/ Faulted \/ UNCHANGED vars
  PROVE  mem' = mem /\ live' = live /\ op' = op /\ stores' = stores
BY Zenon DEF WalkBegin, Walk, WalkNext, WalkEnd, WalkFault, Faulted, vars, writer

LEMMA RaceInit == Init => RaceInv
<1> SUFFICES ASSUME Init
             PROVE  RaceInv
  OBVIOUS
<1>1. PICK q : q = <<>>
  OBVIOUS
<1>2. mem \in Memory
  BY DEF Init, Memory, Unlinked, Address
<1>3. RingOf(mem.next, mem.prev, q)
  BY <1>1 DEF Init, Unlinked, RingOf, At
<1>4. Holds(q) = {}
  BY <1>1 DEF Holds
<1>5. IdleOn(q)
  BY <1>2, <1>3, <1>4 DEF Init, IdleOn, Idle, Off
<1> QED
  BY <1>5, Zenon DEF RaceInv, Init

LEMMA IdleStep ==
  ASSUME NEW q, IdleOn(q), Next
  PROVE  \/ IdleOn(q)'
         \/ \E s : AddingOn(s, q)'
         \/ \E i : DeletingOn(i, q)'
<1>1. Idle(q) /\ cursor \in Holds(q) \cup Off
  BY Zenon DEF IdleOn
<1>2. ASSUME NEW s \in Node, AddBegin(s)
      PROVE  AddingOn(s, q)'
  <2>1. Adding(s, q)'
    BY <1>1, <1>2, BeginAdd, Zenon
  <2>2. cursor' = cursor /\ q \in Seq(Node)
    BY <1>1, <1>2, RingTyped, Zenon DEF AddBegin, Idle
  <2>3. Holds(q) \subseteq Holds(AddSeen(s, q, stores'))
    BY <1>2, <2>2, FrontHolds, Zenon DEF AddSeen
  <2> QED
    BY <1>1, <2>1, <2>2, <2>3, Zenon DEF AddingOn, Off
<1>3. ASSUME NEW s \in Node, DelBegin(s)
      PROVE  \E i : DeletingOn(i, q)'
  <2>1. PICK i \in 1..Len(q) : Deleting(i, q)'
    BY <1>1, <1>3, BeginDel, Zenon
  <2>2. cursor' = cursor
    BY <1>3, Zenon DEF DelBegin
  <2> QED
    BY <1>1, <2>1, <2>2, Zenon DEF DeletingOn, Off
<1>4. ~Write
  BY <1>1, OpsApart, Zenon DEF Write, StoreNext, AddEnd, DelEnd, Idle
<1>5. CASE WalkBegin \/ Walk \/ Faulted
  <2>1. cursor' \in Holds(q) \cup Off
    BY <1>1, <1>5, IdleLeads, WalkStays, Zenon
  <2>2. Idle(q)'
    BY <1>1, <1>5, WalkOnly, Zenon DEF Idle
  <2> QED
    BY <2>1, <2>2, Zenon DEF IdleOn, Off
<1> QED
  BY <1>2, <1>3, <1>4, <1>5, Zenon DEF Next

LEMMA AddingStep ==
  ASSUME NEW s, NEW q, AddingOn(s, q), Next
  PROVE  AddingOn(s, q)' \/ IdleOn(Front(s, q))'
<1>1. Adding(s, q) /\ cursor \in Holds(AddSeen(s, q, stores)) \cup Off
  BY Zenon DEF AddingOn
<1>2. \A t \in Node : ~AddBegin(t) /\ ~DelBegin(t)
  BY <1>1, OpsApart, Zenon DEF AddBegin, DelBegin, Adding
<1>3. ~DelEnd
  BY <1>1, OpsApart, Zenon DEF DelEnd, Adding
<1>4. CASE StoreNext
  <2>1. Adding(s, q)'
    BY <1>1, <1>4, StoreAdd, Zenon
  <2>2. q \in Seq(Node) /\ s \in Node
    BY <1>1, AddedStands, Zenon DEF Adding
  <2>3. cursor \in Holds(q) \cup Off /\ cursor' = cursor
    BY <1>1, <1>4, Zenon DEF StoreNext, AddSeen
  <2>4. Holds(q) \subseteq Holds(AddSeen(s, q, stores'))
    BY <2>2, FrontHolds, Zenon DEF AddSeen
  <2> QED
    BY <2>1, <2>3, <2>4, Zenon DEF AddingOn, Off
<1>5. CASE AddEnd
  <2>1. Idle(Front(s, q))'
    BY <1>1, <1>5, EndAdd, Zenon
  <2>2. cursor' = cursor /\ cursor \in Holds(Front(s, q)) \cup Off
    BY <1>1, <1>5, Zenon DEF AddEnd, AddSeen
  <2> QED
    BY <2>1, <2>2, Zenon DEF IdleOn, Off
<1>6. CASE WalkBegin \/ Walk \/ Faulted
  <2>1. PICK r : r = AddSeen(s, q, stores)
    OBVIOUS
  <2>2. /\ Holds(r) \subseteq Node
        /\ \A z \in Holds(r) \cup {Anchor} : mem.next[z] \in Holds(r) \cup {Anchor, Poison}
    BY <1>1, <2>1, AddingLeads, Zenon
  <2>3. cursor \in Holds(r) \cup Off
    BY <1>1, <2>1, Zenon
  <2>4. cursor' \in Holds(r) \cup Off
    BY <1>6, <2>2, <2>3, WalkStays, Zenon
  <2>5. Adding(s, q)' /\ stores' = stores
    BY <1>1, <1>6, WalkOnly, Zenon DEF Adding
  <2> QED
    BY <2>1, <2>4, <2>5, Zenon DEF AddingOn, Off
<1> QED
  BY <1>2, <1>3, <1>4, <1>5, <1>6, Zenon DEF Next, Write

LEMMA DeletingStep ==
  ASSUME NEW i, NEW q, DeletingOn(i, q), Next
  PROVE  DeletingOn(i, q)' \/ IdleOn(Without(q, i))'
<1>1. Deleting(i, q) /\ cursor \in Holds(q) \cup Off
  BY Zenon DEF DeletingOn
<1>2. \A t \in Node : ~AddBegin(t) /\ ~DelBegin(t)
  BY <1>1, OpsApart, Zenon DEF AddBegin, DelBegin, Deleting
<1>3. ~AddEnd
  BY <1>1, OpsApart, Zenon DEF AddEnd, Deleting
<1>4. CASE StoreNext
  <2>1. Deleting(i, q)'
    BY <1>1, <1>4, StoreDel, Zenon
  <2>2. cursor' = cursor
    BY <1>4, Zenon DEF StoreNext
  <2> QED
    BY <1>1, <2>1, <2>2, Zenon DEF DeletingOn, Off
<1>5. CASE DelEnd
  <2>1. Idle(Without(q, i))' /\ cursor' = IF cursor = q[i] THEN Freed ELSE cursor
    BY <1>1, <1>5, EndDel, Zenon
  <2>2. q \in Seq(Node) /\ (\A j, k \in 1..Len(q) : q[j] = q[k] => j = k) /\ i \in 1..Len(q)
    BY <1>1, DeletedStands, Zenon DEF Deleting
  <2>3. Holds(Without(q, i)) = Holds(q) \ {q[i]}
    BY <2>2, WithoutHolds, Zenon
  <2>4. cursor' \in Holds(Without(q, i)) \cup Off
    BY <1>1, <2>1, <2>3 DEF Off
  <2> QED
    BY <2>1, <2>4, Zenon DEF IdleOn, Off
<1>6. CASE WalkBegin \/ Walk \/ Faulted
  <2>1. cursor' \in Holds(q) \cup Off
    BY <1>1, <1>6, DeletingLeads, WalkStays, Zenon
  <2>2. Deleting(i, q)'
    BY <1>1, <1>6, WalkOnly, Zenon DEF Deleting
  <2> QED
    BY <2>1, <2>2, Zenon DEF DeletingOn, Off
<1> QED
  BY <1>2, <1>3, <1>4, <1>5, <1>6, Zenon DEF Next, Write

LEMMA RaceStep == RaceInv /\ [Next]_vars => RaceInv'
<1> SUFFICES ASSUME RaceInv, [Next]_vars
             PROVE  RaceInv'
  OBVIOUS
<1>1. fault' \in BOOLEAN
  BY DEF RaceInv, Next, AddBegin, DelBegin, Write, StoreNext, AddEnd, DelEnd,
         WalkBegin, Walk, WalkNext, WalkEnd, WalkFault, Faulted, vars
<1>2. CASE Next
  <2>1. CASE \E q : IdleOn(q)
    BY <1>1, <1>2, <2>1, IdleStep, Zenon DEF RaceInv
  <2>2. CASE \E s, q : AddingOn(s, q)
    BY <1>1, <1>2, <2>2, AddingStep, Zenon DEF RaceInv
  <2>3. CASE \E i, q : DeletingOn(i, q)
    BY <1>1, <1>2, <2>3, DeletingStep, Zenon DEF RaceInv
  <2> QED
    BY <2>1, <2>2, <2>3, Zenon DEF RaceInv
<1>3. CASE UNCHANGED vars
  BY <1>3, Zenon DEF vars, RaceInv, IdleOn, AddingOn, DeletingOn, Idle, Adding, Deleting, Off
<1> QED
  BY <1>2, <1>3, Zenon

LEMMA RaceTyped == RaceInv => TypeOK
<1> SUFFICES ASSUME RaceInv
             PROVE  TypeOK
  OBVIOUS
<1>1. fault \in BOOLEAN
  BY Zenon DEF RaceInv
<1>2. ASSUME NEW q, IdleOn(q)
      PROVE  TypeOK
  <2>1. Holds(q) \subseteq Node
    BY <1>2, IdleLeads, Zenon DEF IdleOn
  <2>2. mem \in Memory /\ live \in SUBSET Node /\ op \in Op /\ cursor \in live \cup {None, Anchor, Freed, Poison}
    BY <1>2, <2>1, Zenon DEF IdleOn, Idle, Op, Off
  <2>3. \A i \in 1..Len(stores) : stores[i].of \in Node \cup {Anchor} /\ stores[i].to \in Address
    BY <1>2 DEF IdleOn, Idle
  <2> QED
    BY <1>1, <2>2, <2>3, Zenon DEF TypeOK
<1>3. ASSUME NEW s, NEW q, AddingOn(s, q)
      PROVE  TypeOK
  <2>1. /\ Holds(AddSeen(s, q, stores)) \subseteq Holds(q) \cup {s} /\ Holds(AddSeen(s, q, stores)) \subseteq Node
        /\ Holds(q) \subseteq Holds(AddSeen(s, q, stores))
    BY <1>3, AddingLeads, Zenon DEF AddingOn
  <2>2. mem \in Memory /\ Targets(stores)
    BY <1>3, AddedStands, Zenon DEF AddingOn, Adding
  <2>3. live \in SUBSET Node /\ op \in Op /\ cursor \in live \cup {None, Anchor, Freed, Poison}
    BY <1>3, <2>1 DEF AddingOn, Adding, Op, Off
  <2> QED
    BY <1>1, <2>2, <2>3, Zenon DEF TypeOK, Targets
<1>4. ASSUME NEW i, NEW q, DeletingOn(i, q)
      PROVE  TypeOK
  <2>1. Holds(q) \subseteq Node
    BY <1>4, DeletingLeads, Zenon DEF DeletingOn
  <2>2. mem \in Memory /\ Targets(stores) /\ q \in Seq(Node) /\ i \in 1..Len(q)
    BY <1>4, DeletedStands, Zenon DEF DeletingOn, Deleting
  <2>3. q[i] \in Node
    BY <2>2
  <2>4. live \in SUBSET Node /\ op \in Op /\ cursor \in live \cup {None, Anchor, Freed, Poison}
    BY <1>4, <2>1, <2>3 DEF DeletingOn, Deleting, Op, Off
  <2> QED
    BY <1>1, <2>2, <2>4, Zenon DEF TypeOK, Targets
<1> QED
  BY <1>2, <1>3, <1>4, Zenon DEF RaceInv

LEMMA RaceRings == RaceInv => WellFormed
<1> SUFFICES ASSUME RaceInv, op = NoOp
             PROVE  Circular(mem, live)
  BY Zenon DEF WellFormed
<1>1. PICK q : IdleOn(q)
  BY OpsApart, Zenon DEF RaceInv, AddingOn, Adding, DeletingOn, Deleting
<1> QED
  BY <1>1, RingIsCircular, Zenon DEF IdleOn, Idle, Holds

\* At every step of the writer and of the reader, for any number of windows,
\* the links are a ring with at most one operation's stores under way in it.
THEOREM RaceInvariance == Spec => []RaceInv
<1> QED
  BY RaceInit, RaceStep, PTL DEF Spec

\* The stores of list.h lead a walk of the uv thread to no node that was
\* freed before it got there: it can lose the one it stands on, no other.
THEOREM WalkStaysAllocated == Spec => []TypeOK
<1> QED
  BY RaceInvariance, RaceTyped, PTL

\* Between two operations of the xorg thread the list is a ring through the
\* nodes there are, whatever was added and deleted before.
THEOREM RingRestored == Spec => []WellFormed
<1> QED
  BY RaceInvariance, RaceRings, PTL

-----------------------------------------------------------------------------
(* What ListWalk sees of a memory and a walk in it: the list, where the    *)
(* walk stands and what it has ahead.                                      *)

LostIn(m, c) == c \in {Freed, Poison} \/ (c \in Node /\ m.next[c] = Poison)

Looks(m, c, l, a, h) ==
  /\ l = Reach(m, m.next[Anchor]) \cup (IF LostIn(m, c) THEN {} ELSE {c} \cap Node)
  /\ a = IF c = Anchor THEN None ELSE IF LostIn(m, c) THEN Freed ELSE c
  /\ h = IF c \in Node /\ ~LostIn(m, c) THEN Reach(m, m.next[c]) ELSE {}

Changes(l, a, h, l2, a2, h2) ==
  \/ l2 = l /\ a2 = a /\ h2 = h
  \/ \E n \in Node : n \notin l /\ l2 = l \cup {n} /\ a2 = a /\ h2 = h
  \/ \E n \in Node : /\ n \in l /\ l2 = l \ {n}
                     /\ a2 = (IF a = n THEN Freed ELSE a)
                     /\ h2 = (IF a = n THEN {} ELSE h \ {n})
  \/ a = None /\ a2 \in l /\ h2 = l \ {a2} /\ l2 = l
  \/ /\ a \in Node
     /\ (a2 = None /\ h = {} /\ h2 = h) \/ (a2 \in h /\ h2 = h \ {a2})
     /\ l2 = l \/ (a \in l /\ l2 = l \ {a})

LEMMA ChangesAllowed ==
  ASSUME NEW l, NEW a, NEW h, NEW l2, NEW a2, NEW h2,
         Looks(mem, cursor, l, a, h), Looks(mem', cursor', l2, a2, h2), Changes(l, a, h, l2, a2, h2)
  PROVE  [Abstract!Next]_Abstract!vars
<1>1. l = Linked /\ a = Stand /\ h = Ahead
  BY Zenon DEF Looks, LostIn, Linked, Stand, Ahead, Stranded
<1>2. l2 = Linked' /\ a2 = Stand' /\ h2 = Ahead'
  BY Zenon DEF Looks, LostIn, Linked, Stand, Ahead, Stranded
<1>3. CASE l2 = l /\ a2 = a /\ h2 = h
  BY <1>1, <1>2, <1>3, Zenon DEF Abstract!vars
<1>4. CASE \E n \in Node : n \notin l /\ l2 = l \cup {n} /\ a2 = a /\ h2 = h
  BY <1>1, <1>2, <1>4, Zenon DEF Abstract!Next, Abstract!Link
<1>5. CASE \E n \in Node : /\ n \in l /\ l2 = l \ {n}
                           /\ a2 = (IF a = n THEN Freed ELSE a)
                           /\ h2 = (IF a = n THEN {} ELSE h \ {n})
  BY <1>1, <1>2, <1>5, Zenon DEF Abstract!Next, Abstract!Unlink
<1>6. CASE a = None /\ a2 \in l /\ h2 = l \ {a2} /\ l2 = l
  BY <1>1, <1>2, <1>6, Zenon DEF Abstract!Next, Abstract!Begin
<1>7. CASE /\ a \in Node
           /\ (a2 = None /\ h = {} /\ h2 = h) \/ (a2 \in h /\ h2 = h \ {a2})
           /\ l2 = l \/ (a \in l /\ l2 = l \ {a})
  <2>1. Abstract!Step
    BY <1>1, <1>2, <1>7, Zenon DEF Abstract!Step, Abstract!Move
  <2> QED
    BY <2>1, Zenon DEF Abstract!Next
<1> QED
  BY <1>3, <1>4, <1>5, <1>6, <1>7, Zenon DEF Changes

LEMMA RestOf ==
  ASSUME NEW q \in Seq(Node), \A j, k \in 1..Len(q) : q[j] = q[k] => j = k
  PROVE  /\ Rest(q, 1) = Holds(q) /\ Rest(q, Len(q) + 1) = {}
         /\ \A j \in 1..Len(q) : Rest(q, j + 1) = Rest(q, j) \ {q[j]} /\ q[j] \in Rest(q, j)
<1>1. PICK l \in Nat : l = Len(q)
  OBVIOUS
<1>2. Rest(q, 1) = Holds(q)
  BY Zenon DEF Holds, Rest
<1>3. Rest(q, Len(q) + 1) = {}
  <2>1. (Len(q) + 1)..Len(q) = {}
    OBVIOUS
  <2> QED
    BY <2>1 DEF Rest
<1>4. ASSUME NEW j \in 1..l
      PROVE  Rest(q, j + 1) = Rest(q, j) \ {q[j]} /\ q[j] \in Rest(q, j)
  <2>1. /\ \A i \in (j + 1)..l : i \in j..l /\ i # j /\ i \in 1..l
        /\ \A i \in j..l : i = j \/ i \in (j + 1)..l
        /\ j \in j..l
    BY <1>1
  <2>2. \A i \in (j + 1)..l : q[i] # q[j]
    BY <1>1, <2>1, Zenon
  <2>3. \A x : x \in Rest(q, j + 1) <=> \E i \in (j + 1)..l : x = q[i]
    BY <1>1 DEF Rest
  <2>4. \A x : x \in Rest(q, j) <=> \E i \in j..l : x = q[i]
    BY <1>1 DEF Rest
  <2>5. q[j] \in Rest(q, j)
    BY <2>1, <2>4, Zenon
  <2>6. \A x : x \in Rest(q, j + 1) => x \in Rest(q, j) /\ x # q[j]
    BY <2>1, <2>2, <2>3, <2>4, Zenon
  <2>7. \A x : x \in Rest(q, j) /\ x # q[j] => x \in Rest(q, j + 1)
    BY <2>1, <2>3, <2>4, Zenon
  <2> QED
    BY <2>5, <2>6, <2>7
<1> QED
  BY <1>1, <1>2, <1>3, <1>4, Zenon

LEMMA RestFront ==
  ASSUME NEW q \in Seq(Node), NEW s \in Node, NEW j \in 1..(Len(q) + 1)
  PROVE  Rest(Front(s, q), j + 1) = Rest(q, j)
<1>1. PICK l \in Nat : l = Len(q) /\ j \in 1..(l + 1)
  OBVIOUS
<1>2. PICK r : r = Front(s, q)
  OBVIOUS
<1>3. r \in Seq(Node) /\ Len(r) = l + 1 /\ r[1] = s /\ \A k \in 1..l : r[k + 1] = q[k]
  BY <1>1, <1>2, FrontAt, Zenon
<1>4. \A i \in (j + 1)..(l + 1) : i - 1 \in j..l /\ i - 1 \in 1..l /\ (i - 1) + 1 = i
  BY <1>1
<1>5. \A i \in j..l : i \in 1..l /\ i + 1 \in (j + 1)..(l + 1)
  BY <1>1
<1>6. \A i \in (j + 1)..(l + 1) : r[i] = q[i - 1] /\ i - 1 \in j..l
  BY <1>3, <1>4
<1>7. \A x : x \in Rest(r, j + 1) <=> \E i \in (j + 1)..(l + 1) : x = r[i]
  BY <1>3 DEF Rest
<1>8. \A x : x \in Rest(q, j) <=> \E i \in j..l : x = q[i]
  BY <1>1 DEF Rest
<1>9. \A i \in j..l : r[i + 1] = q[i]
  BY <1>3, <1>5, Zenon
<1>10. Rest(r, j + 1) = Rest(q, j)
  BY <1>5, <1>6, <1>7, <1>8, <1>9
<1> QED
  BY <1>2, <1>10, Zenon

LEMMA RestWithout ==
  ASSUME NEW q \in Seq(Node), \A j, k \in 1..Len(q) : q[j] = q[k] => j = k, NEW i \in 1..Len(q)
  PROVE  /\ \A j \in 1..i : Rest(Without(q, i), j) = Rest(q, j) \ {q[i]}
         /\ \A j \in (i + 1)..(Len(q) + 1) :
              Rest(Without(q, i), j - 1) = Rest(q, j) /\ q[i] \notin Rest(q, j)
<1>1. PICK l \in Nat : l = Len(q) /\ i \in 1..l
  OBVIOUS
<1>2. PICK r : r = Without(q, i)
  OBVIOUS
<1>3. r \in Seq(Node) /\ Len(r) = l - 1 /\ \A k \in 1..(l - 1) : r[k] = IF k < i THEN q[k] ELSE q[k + 1]
  BY <1>1, <1>2, WithoutAt, Zenon
<1>6. ASSUME NEW j \in 1..i
      PROVE  Rest(r, j) = Rest(q, j) \ {q[i]}
  <2>1. \A k \in j..(l - 1) : /\ k \in 1..(l - 1) /\ k \in j..l /\ k + 1 \in j..l /\ k \in 1..l /\ k + 1 \in 1..l
                              /\ k < i => k # i
                              /\ ~(k < i) => k + 1 # i
    BY <1>1
  <2>2. \A k \in j..l : \/ k = i
                        \/ k < i /\ k \in j..(l - 1) /\ k \in 1..(l - 1)
                        \/ k - 1 \in j..(l - 1) /\ k - 1 \in 1..(l - 1) /\ ~(k - 1 < i) /\ (k - 1) + 1 = k
    BY <1>1
  <2>3. \A k \in j..(l - 1) : \E t \in j..l : r[k] = q[t] /\ t # i /\ t \in 1..l
    <3> TAKE k \in j..(l - 1)
    <3>1. r[k] = IF k < i THEN q[k] ELSE q[k + 1]
      BY <1>3, <2>1
    <3>2. CASE k < i
      BY <2>1, <3>1, <3>2
    <3>3. CASE ~(k < i)
      BY <2>1, <3>1, <3>3
    <3> QED
      BY <3>2, <3>3, Zenon
  <2>4. \A k \in j..l : k # i => \E t \in j..(l - 1) : q[k] = r[t]
    <3> TAKE k \in j..l
    <3>1. HAVE k # i
    <3>2. CASE k < i /\ k \in j..(l - 1) /\ k \in 1..(l - 1)
      BY <1>3, <3>2, Zenon
    <3>3. CASE k - 1 \in j..(l - 1) /\ k - 1 \in 1..(l - 1) /\ ~(k - 1 < i) /\ (k - 1) + 1 = k
      <4>1. r[k - 1] = q[(k - 1) + 1]
        BY <1>3, <3>3, Zenon
      <4>2. r[k - 1] = q[k]
        BY <3>3, <4>1
      <4> QED
        BY <3>3, <4>2, Zenon
    <3> QED
      BY <2>2, <3>1, <3>2, <3>3, Zenon
  <2>5. \A t \in 1..l : t # i => q[t] # q[i]
    BY <1>1, Zenon
  <2>6. \A x : x \in Rest(r, j) <=> \E k \in j..(l - 1) : x = r[k]
    BY <1>3 DEF Rest
  <2>7. \A x : x \in Rest(q, j) <=> \E k \in j..l : x = q[k]
    BY <1>1 DEF Rest
  <2>8. \A x : x \in Rest(r, j) => x \in Rest(q, j) /\ x # q[i]
    BY <2>3, <2>5, <2>6, <2>7
  <2>9. \A x : x \in Rest(q, j) /\ x # q[i] => x \in Rest(r, j)
    BY <2>4, <2>6, <2>7
  <2> QED
    BY <2>8, <2>9
<1>7. ASSUME NEW j \in (i + 1)..(l + 1)
      PROVE  Rest(r, j - 1) = Rest(q, j) /\ q[i] \notin Rest(q, j)
  <2>1. \A k \in (j - 1)..(l - 1) : k \in 1..(l - 1) /\ ~(k < i) /\ k + 1 \in j..l
    BY <1>1
  <2>2. \A k \in j..l : /\ k - 1 \in (j - 1)..(l - 1) /\ k - 1 \in 1..(l - 1) /\ ~(k - 1 < i) /\ (k - 1) + 1 = k
                        /\ k \in 1..l /\ k # i
    BY <1>1
  <2>3. \A k \in (j - 1)..(l - 1) : r[k] = q[k + 1] /\ k + 1 \in j..l
    BY <1>3, <2>1, Zenon
  <2>4. \A k \in j..l : r[k - 1] = q[k] /\ k - 1 \in (j - 1)..(l - 1)
    <3> TAKE k \in j..l
    <3>1. r[k - 1] = q[(k - 1) + 1]
      BY <1>3, <2>2, Zenon
    <3> QED
      BY <2>2, <3>1
  <2>5. \A x : x \in Rest(r, j - 1) <=> \E k \in (j - 1)..(l - 1) : x = r[k]
    BY <1>3 DEF Rest
  <2>6. \A x : x \in Rest(q, j) <=> \E k \in j..l : x = q[k]
    BY <1>1 DEF Rest
  <2>7. q[i] \notin Rest(q, j)
    BY <1>1, <2>2, <2>6
  <2>8. Rest(r, j - 1) = Rest(q, j)
    <3>1. \A x : x \in Rest(r, j - 1) => x \in Rest(q, j)
      BY <2>3, <2>5, <2>6
    <3>2. \A x : x \in Rest(q, j) => x \in Rest(r, j - 1)
      BY <2>4, <2>5, <2>6
    <3> QED
      BY <3>1, <3>2
  <2> QED
    BY <2>7, <2>8, Zenon
<1> QED
  BY <1>1, <1>2, <1>6, <1>7, Zenon

\* The four ways a walk can stand.
LEMMA LooksOff ==
  ASSUME NEW m, NEW r, Leads(m.next, r), NEW c \in {None, Anchor}
  PROVE  Looks(m, c, Holds(r), None, {})
<1>1. Reach(m, m.next[Anchor]) = Holds(r)
  <2>1. Reach(m, m.next[Anchor]) = Range(r)
    BY MetIs, Zenon DEF Reach
  <2> QED
    BY <2>1 DEF Leads, Range, Holds
<1>2. c \notin Node /\ ~LostIn(m, c) /\ (c # Anchor => c = None)
  BY Apart DEF LostIn
<1> QED
  BY <1>1, <1>2 DEF Looks

LEMMA LooksLost ==
  ASSUME NEW m, NEW r, Leads(m.next, r), NEW c, LostIn(m, c)
  PROVE  Looks(m, c, Holds(r), Freed, {})
<1>1. Reach(m, m.next[Anchor]) = Holds(r)
  <2>1. Reach(m, m.next[Anchor]) = Range(r)
    BY MetIs, Zenon DEF Reach
  <2> QED
    BY <2>1 DEF Leads, Range, Holds
<1>2. c # Anchor
  BY Apart DEF LostIn
<1> QED
  BY <1>1, <1>2 DEF Looks

LEMMA LooksHalf ==
  ASSUME NEW m, NEW r, Leads(m.next, r), NEW c \in Node, NEW k \in 1..(Len(r) + 1), m.next[c] = At(r, k)
  PROVE  Looks(m, c, Holds(r) \cup {c}, c, Rest(r, k))
<1>1. Reach(m, m.next[Anchor]) = Holds(r)
  <2>1. Reach(m, m.next[Anchor]) = Range(r)
    BY MetIs, Zenon DEF Reach
  <2> QED
    BY <2>1 DEF Leads, Range, Holds
<1>2. Reach(m, m.next[c]) = Rest(r, k)
  BY ReachFrom, Zenon
<1>3. At(r, k) \in Node \cup {Anchor}
  <2>1. k \in Nat
    BY DEF Leads
  <2> QED
    BY <2>1, PlacesLed, Zenon
<1>4. c # Anchor /\ ~LostIn(m, c)
  BY <1>3, Apart DEF LostIn
<1> QED
  BY <1>1, <1>2, <1>4, Zenon DEF Looks

LEMMA LooksOn ==
  ASSUME NEW m, NEW r, Leads(m.next, r), NEW j \in 1..Len(r)
  PROVE  \A c : c = r[j] => Looks(m, c, Holds(r), c, Rest(r, j + 1)) /\ c \in Node /\ m.next[c] = At(r, j + 1)
<1> TAKE c
<1>1. HAVE c = r[j]
<1>2. /\ r \in Seq(Node) /\ j \in 0..Len(r) /\ j + 1 \in 1..(Len(r) + 1)
      /\ c \in Node /\ c \in Holds(r) /\ At(r, j) = c
  BY <1>1 DEF Leads, Holds, At
<1>3. m.next[c] = At(r, j + 1)
  BY <1>2, Zenon DEF Leads
<1>4. Looks(m, c, Holds(r) \cup {c}, c, Rest(r, j + 1))
  BY <1>2, <1>3, LooksHalf, Zenon
<1>5. Holds(r) \cup {c} = Holds(r)
  BY <1>2
<1> QED
  BY <1>2, <1>3, <1>4, <1>5, Zenon

LooksTo(m, c, m2, c2) ==
  \E l, a, h, l2, a2, h2 :
    Looks(m, c, l, a, h) /\ Looks(m2, c2, l2, a2, h2) /\ Changes(l, a, h, l2, a2, h2)

LEMMA LooksToAllowed ==
  ASSUME LooksTo(mem, cursor, mem', cursor')
  PROVE  [Abstract!Next]_Abstract!vars
<1>1. PICK l, a, h, l2, a2, h2 :
        Looks(mem, cursor, l, a, h) /\ Looks(mem', cursor', l2, a2, h2) /\ Changes(l, a, h, l2, a2, h2)
  BY Zenon DEF LooksTo
<1> QED
  BY <1>1, ChangesAllowed, Zenon

LEMMA LooksStill ==
  ASSUME NEW m, NEW c, NEW m2, NEW c2, NEW l, NEW a, NEW h, Looks(m, c, l, a, h), Looks(m2, c2, l, a, h)
  PROVE  LooksTo(m, c, m2, c2)
<1>1. Changes(l, a, h, l, a, h)
  BY Zenon DEF Changes
<1> QED
  BY <1>1, Zenon DEF LooksTo

LEMMA NothingSeen ==
  ASSUME NEW m, NEW c
  PROVE  LooksTo(m, c, m, c)
<1>1. PICK l, a, h : Looks(m, c, l, a, h)
  BY Zenon DEF Looks
<1> QED
  BY <1>1, LooksStill, Zenon

LEMMA LostStill ==
  ASSUME NEW m, NEW m2, NEW r, Leads(m.next, r), Leads(m2.next, r), NEW c, NEW c2, LostIn(m, c), LostIn(m2, c2)
  PROVE  LooksTo(m, c, m2, c2)
<1>1. Looks(m, c, Holds(r), Freed, {}) /\ Looks(m2, c2, Holds(r), Freed, {})
  BY LooksLost, Zenon
<1> QED
  BY <1>1, LooksStill, Zenon

\* Stores that change nothing of the list.
LEMMA ListStill ==
  ASSUME NEW m, NEW m2, NEW r, Leads(m.next, r), Leads(m2.next, r), NEW c \in Holds(r) \cup Off
  PROVE  LooksTo(m, c, m2, c)
<1>1. CASE c \in {None, Anchor}
  <2>1. Looks(m, c, Holds(r), None, {}) /\ Looks(m2, c, Holds(r), None, {})
    BY <1>1, LooksOff, Zenon
  <2> QED
    BY <2>1, LooksStill, Zenon
<1>2. CASE c \in {Freed, Poison}
  BY <1>2, LostStill, Zenon DEF LostIn
<1>3. CASE c \in Holds(r)
  <2>1. PICK j \in 1..Len(r) : c = r[j]
    BY <1>3, Zenon DEF Holds
  <2>2. Looks(m, c, Holds(r), c, Rest(r, j + 1)) /\ Looks(m2, c, Holds(r), c, Rest(r, j + 1))
    BY <2>1, LooksOn, Zenon
  <2> QED
    BY <2>2, LooksStill, Zenon
<1> QED
  BY <1>1, <1>2, <1>3 DEF Off

\* The last store of an addition links its node.
LEMMA ListGrows ==
  ASSUME NEW m, NEW m2, NEW q, NEW s \in Node \ Holds(q), Leads(m.next, q), Leads(m2.next, Front(s, q)),
         NEW c \in Holds(q) \cup Off
  PROVE  LooksTo(m, c, m2, c)
<1>1. PICK r : r = Front(s, q)
  OBVIOUS
<1>2. q \in Seq(Node)
  BY DEF Leads
<1>3. Holds(r) = Holds(q) \cup {s}
  BY <1>1, <1>2, FrontHolds, Zenon
<1>4. Leads(m2.next, r)
  BY <1>1, Zenon
<1>5. \A a, h : Changes(Holds(q), a, h, Holds(q) \cup {s}, a, h)
  BY Zenon DEF Changes
<1>6. ASSUME NEW a, NEW h, Looks(m, c, Holds(q), a, h), Looks(m2, c, Holds(r), a, h)
      PROVE  LooksTo(m, c, m2, c)
  <2>1. Changes(Holds(q), a, h, Holds(r), a, h)
    BY <1>3, <1>5, Zenon
  <2> QED
    BY <1>6, <2>1, Zenon DEF LooksTo
<1>7. CASE c \in {None, Anchor}
  BY <1>4, <1>6, <1>7, LooksOff, Zenon
<1>8. CASE c \in {Freed, Poison}
  BY <1>4, <1>6, <1>8, LooksLost, Zenon DEF LostIn
<1>9. CASE c \in Holds(q)
  <2>1. PICK j \in 1..Len(q) : c = q[j]
    BY <1>9, Zenon DEF Holds
  <2>2. /\ j + 1 \in 1..Len(r) /\ c = r[j + 1]
        /\ j + 1 \in 1..(Len(q) + 1)
    <3>1. Len(r) = Len(q) + 1 /\ r[j + 1] = q[j]
      BY <1>1, <1>2, FrontAt, Zenon
    <3> QED
      BY <1>2, <2>1, <3>1
  <2>3. Looks(m, c, Holds(q), c, Rest(q, j + 1))
    BY <2>1, LooksOn, Zenon
  <2>4. Looks(m2, c, Holds(r), c, Rest(r, (j + 1) + 1))
    BY <1>4, <2>2, LooksOn, Zenon
  <2>5. Rest(r, (j + 1) + 1) = Rest(q, j + 1)
    BY <1>1, <1>2, <2>2, RestFront, Zenon
  <2> QED
    BY <1>6, <2>3, <2>4, <2>5, Zenon
<1> QED
  BY <1>7, <1>8, <1>9 DEF Off

\* The second store of a deletion unlinks its node, for all walks but one
\* that stands on it.
LEMMA ListShrinks ==
  ASSUME NEW m, NEW m2, NEW q, NEW i \in 1..Len(q), Leads(m.next, q), Leads(m2.next, Without(q, i)),
         NEW c \in Holds(q) \cup Off, m2.next[q[i]] = At(q, i + 1)
  PROVE  LooksTo(m, c, m2, c)
<1>1. PICK r : r = Without(q, i)
  OBVIOUS
<1>2. /\ q \in Seq(Node) /\ (\A j, k \in 1..Len(q) : q[j] = q[k] => j = k)
      /\ q[i] \in Node /\ q[i] \in Holds(q)
  <2>1. q \in Seq(Node) /\ (\A j, k \in 1..Len(q) : q[j] = q[k] => j = k)
    BY Zenon DEF Leads
  <2>2. q[i] \in Node
    BY <2>1
  <2> QED
    BY <2>1, <2>2, Zenon DEF Holds
<1>3. Holds(r) = Holds(q) \ {q[i]}
  BY <1>1, <1>2, WithoutHolds, Zenon
<1>4. Leads(m2.next, r)
  BY <1>1, Zenon
<1>5. ASSUME NEW a, NEW h, NEW h2, a # q[i], h2 = h \ {q[i]},
             Looks(m, c, Holds(q), a, h), Looks(m2, c, Holds(r), a, h2)
      PROVE  LooksTo(m, c, m2, c)
  <2>1. Changes(Holds(q), a, h, Holds(q) \ {q[i]}, a, h2)
    BY <1>2, <1>5, Zenon DEF Changes
  <2> QED
    BY <1>3, <1>5, <2>1, Zenon DEF LooksTo
<1>6. CASE c \in {None, Anchor}
  <2>1. Looks(m, c, Holds(q), None, {}) /\ Looks(m2, c, Holds(r), None, {})
    BY <1>4, <1>6, LooksOff, Zenon
  <2>2. None # q[i] /\ {} = {} \ {q[i]}
    BY <1>2, Apart
  <2> QED
    BY <1>5, <2>1, <2>2, Zenon
<1>7. CASE c \in {Freed, Poison}
  <2>1. Looks(m, c, Holds(q), Freed, {}) /\ Looks(m2, c, Holds(r), Freed, {})
    BY <1>4, <1>7, LooksLost, Zenon DEF LostIn
  <2>2. Freed # q[i] /\ {} = {} \ {q[i]}
    BY <1>2, Apart
  <2> QED
    BY <1>5, <2>1, <2>2, Zenon
<1>8. CASE c \in Holds(q)
  <2>1. PICK j \in 1..Len(q) : c = q[j]
    BY <1>8, Zenon DEF Holds
  <2>2. Looks(m, c, Holds(q), c, Rest(q, j + 1)) /\ c \in Node
    BY <2>1, LooksOn, Zenon
  <2>3. Len(r) = Len(q) - 1 /\ \A k \in 1..(Len(q) - 1) : r[k] = IF k < i THEN q[k] ELSE q[k + 1]
    BY <1>1, <1>2, WithoutAt, Zenon
  <2>4. CASE j < i
    <3>1. j \in 1..(Len(q) - 1) /\ j + 1 \in 1..i
      BY <1>2, <2>4
    <3>2. j \in 1..Len(r) /\ c = r[j]
      BY <2>1, <2>3, <2>4, <3>1, Zenon
    <3>3. Looks(m2, c, Holds(r), c, Rest(r, j + 1))
      BY <1>4, <3>2, LooksOn, Zenon
    <3>4. Rest(r, j + 1) = Rest(q, j + 1) \ {q[i]}
      BY <1>1, <1>2, <3>1, RestWithout, ZenonT(30)
    <3>5. c # q[i]
      <4>1. j # i
        BY <2>4
      <4> QED
        BY <1>2, <2>1, <4>1, Zenon
    <3> QED
      BY <1>5, <2>2, <3>3, <3>4, <3>5, Zenon
  <2>5. CASE i < j
    <3>1. /\ j - 1 \in 1..(Len(q) - 1) /\ ~(j - 1 < i) /\ (j - 1) + 1 = j
          /\ j + 1 \in (i + 1)..(Len(q) + 1) /\ (j + 1) - 1 = j
      BY <1>2, <2>5
    <3>2. r[j - 1] = q[(j - 1) + 1]
      BY <2>3, <3>1, Zenon
    <3>3. j - 1 \in 1..Len(r) /\ c = r[j - 1]
      BY <2>1, <2>3, <3>1, <3>2
    <3>4. Looks(m2, c, Holds(r), c, Rest(r, (j - 1) + 1))
      BY <1>4, <3>3, LooksOn, Zenon
    <3>5. Rest(r, (j + 1) - 1) = Rest(q, j + 1) /\ q[i] \notin Rest(q, j + 1)
      BY <1>1, <1>2, <3>1, RestWithout, ZenonT(30)
    <3>6. Rest(r, (j - 1) + 1) = Rest(q, j + 1) \ {q[i]}
      BY <3>1, <3>5
    <3>7. c # q[i]
      <4>1. j # i
        BY <2>5
      <4> QED
        BY <1>2, <2>1, <4>1, Zenon
    <3> QED
      BY <1>5, <2>2, <3>4, <3>6, <3>7, Zenon
  <2>6. CASE j = i
    <3>1. c = q[i] /\ c \notin Holds(r) /\ m2.next[c] = At(q, i + 1)
      BY <1>3, <2>1, <2>6, Zenon
    <3>2. At(q, i + 1) = At(r, i) /\ i \in 1..(Len(r) + 1)
      <4>1. i \in 1..(Len(q) - 1) => r[i] = q[i + 1]
        <5>1. ~(i < i)
          BY <1>2
        <5> QED
          BY <2>3, <5>1, Zenon
      <4> QED
        BY <1>2, <2>3, <4>1 DEF At
    <3>3. Looks(m2, c, Holds(r) \cup {c}, c, Rest(r, i))
      BY <1>4, <2>2, <3>1, <3>2, LooksHalf, Zenon
    <3>4. Rest(r, i) = Rest(q, i + 1)
      <4>1. i + 1 \in (i + 1)..(Len(q) + 1) /\ (i + 1) - 1 = i
        BY <1>2
      <4>2. Rest(r, (i + 1) - 1) = Rest(q, i + 1)
        <5>1. \A j0 \in (i + 1)..(Len(q) + 1) : Rest(Without(q, i), j0 - 1) = Rest(q, j0)
          BY <1>2, RestWithout
        <5> QED
          BY <1>1, <4>1, <5>1
      <4> QED
        BY <4>1, <4>2
    <3>5. Holds(r) \cup {c} = Holds(q)
      BY <1>2, <1>3, <3>1
    <3>6. Looks(m, c, Holds(q), c, Rest(q, i + 1))
      BY <2>2, <2>6, Zenon
    <3> QED
      BY <3>3, <3>4, <3>5, <3>6, LooksStill, Zenon
  <2>7. j < i \/ i < j \/ j = i
    BY <1>2
  <2> QED
    BY <2>4, <2>5, <2>6, <2>7, Zenon
<1> QED
  BY <1>6, <1>7, <1>8 DEF Off

\* For that one it is the third, which poisons the node.
LEMMA WalkStranded ==
  ASSUME NEW m, NEW m2, NEW r, Leads(m.next, r), Leads(m2.next, r), NEW c \in Node \ Holds(r),
         NEW k \in 1..(Len(r) + 1), m.next[c] = At(r, k), m2.next[c] = Poison
  PROVE  LooksTo(m, c, m2, c)
<1>1. Looks(m, c, Holds(r) \cup {c}, c, Rest(r, k))
  BY LooksHalf, Zenon
<1>2. Looks(m2, c, Holds(r), Freed, {})
  BY LooksLost, Zenon DEF LostIn
<1>3. Changes(Holds(r) \cup {c}, c, Rest(r, k), Holds(r), Freed, {})
  <2>1. c \in Holds(r) \cup {c} /\ (Holds(r) \cup {c}) \ {c} = Holds(r)
    OBVIOUS
  <2> QED
    BY <2>1, Zenon DEF Changes
<1> QED
  BY <1>1, <1>2, <1>3, Zenon DEF LooksTo

LEMMA WalkBegins ==
  ASSUME NEW m, NEW r, Leads(m.next, r)
  PROVE  LooksTo(m, None, m, m.next[Anchor])
<1>1. r \in Seq(Node) /\ (\A j, k \in 1..Len(r) : r[j] = r[k] => j = k)
  BY Zenon DEF Leads
<1>2. m.next[Anchor] = At(r, 1)
  <2>1. 0 \in 0..Len(r) /\ 0 + 1 = 1
    BY <1>1
  <2>2. m.next[At(r, 0)] = At(r, 0 + 1) /\ At(r, 0) = Anchor
    BY <2>1, PlacesLed, Zenon DEF Leads
  <2> QED
    BY <2>1, <2>2
<1>3. Looks(m, None, Holds(r), None, {})
  BY LooksOff, Zenon
<1>4. CASE Len(r) = 0
  <2>1. At(r, 1) = Anchor
    BY <1>4 DEF At
  <2>2. Looks(m, At(r, 1), Holds(r), None, {})
    BY <2>1, LooksOff, Zenon
  <2> QED
    BY <1>2, <1>3, <2>2, LooksStill, Zenon
<1>5. CASE Len(r) # 0
  <2>1. 1 \in 1..Len(r) /\ At(r, 1) = r[1] /\ 1 + 1 = 2
    BY <1>1, <1>5 DEF At
  <2>2. Looks(m, r[1], Holds(r), r[1], Rest(r, 1 + 1))
    BY <2>1, LooksOn, Zenon
  <2>3. Rest(r, 1 + 1) = Holds(r) \ {r[1]} /\ r[1] \in Holds(r)
    <3>1. \A j \in 1..Len(r) : Rest(r, j + 1) = Rest(r, j) \ {r[j]} /\ r[j] \in Rest(r, j)
      BY <1>1, RestOf
    <3>2. Rest(r, 1) = Holds(r)
      BY <1>1, RestOf
    <3> QED
      BY <2>1, <3>1, <3>2, Zenon
  <2>4. Changes(Holds(r), None, {}, Holds(r), r[1], Rest(r, 1 + 1))
    BY <2>3, Zenon DEF Changes
  <2> QED
    BY <1>2, <1>3, <2>1, <2>2, <2>4, Zenon DEF LooksTo
<1> QED
  BY <1>4, <1>5, Zenon

\* The node a walk leaves may be out of the list by then.
LEMMA WalkMoves ==
  ASSUME NEW m, NEW r, Leads(m.next, r), NEW c \in Node, NEW k \in 1..(Len(r) + 1), m.next[c] = At(r, k)
  PROVE  LooksTo(m, c, m, m.next[c])
<1>1. r \in Seq(Node) /\ (\A i, j \in 1..Len(r) : r[i] = r[j] => i = j)
  BY Zenon DEF Leads
<1>2. Looks(m, c, Holds(r) \cup {c}, c, Rest(r, k))
  BY LooksHalf, Zenon
<1>3. Holds(r) = Holds(r) \cup {c} \/ (c \in Holds(r) \cup {c} /\ Holds(r) = (Holds(r) \cup {c}) \ {c})
  OBVIOUS
<1>4. CASE k = Len(r) + 1
  <2>1. At(r, k) = Anchor
    BY <1>1, <1>4 DEF At
  <2>2. Rest(r, k) = {}
    BY <1>1, <1>4, RestOf, Zenon
  <2>3. Looks(m, Anchor, Holds(r), None, {})
    BY LooksOff, Zenon
  <2>4. Changes(Holds(r) \cup {c}, c, Rest(r, k), Holds(r), None, {})
    BY <1>3, <2>2, Zenon DEF Changes
  <2> QED
    BY <1>2, <2>1, <2>3, <2>4, Zenon DEF LooksTo
<1>5. CASE k # Len(r) + 1
  <2>1. k \in 1..Len(r) /\ At(r, k) = r[k]
    BY <1>1, <1>5 DEF At
  <2>2. Looks(m, r[k], Holds(r), r[k], Rest(r, k + 1))
    BY <2>1, LooksOn, Zenon
  <2>3. Rest(r, k + 1) = Rest(r, k) \ {r[k]} /\ r[k] \in Rest(r, k)
    BY <1>1, <2>1, RestOf, Zenon
  <2>4. Changes(Holds(r) \cup {c}, c, Rest(r, k), Holds(r), r[k], Rest(r, k + 1))
    BY <1>3, <2>3, Zenon DEF Changes
  <2> QED
    BY <1>2, <2>1, <2>2, <2>4, Zenon DEF LooksTo
<1> QED
  BY <1>4, <1>5, Zenon

\* Where the links of the node a walk stands on lead.
Footing(r) ==
  cursor \in Node =>
    mem.next[cursor] = Poison \/ \E k \in 1..(Len(r) + 1) : mem.next[cursor] = At(r, k)

LEMMA WalkLooks ==
  ASSUME NEW r, Leads(mem.next, r), Footing(r), WalkBegin \/ Walk \/ Faulted
  PROVE  LooksTo(mem, cursor, mem', cursor')
<1>1. mem' = mem
  BY WalkOnly, Zenon
<1>2. CASE WalkBegin
  <2>1. cursor = None /\ cursor' = mem.next[Anchor]
    BY <1>2, Zenon DEF WalkBegin
  <2> QED
    BY <1>1, <2>1, WalkBegins, Zenon
<1>3. CASE WalkNext
  <2>1. cursor \in Node /\ cursor' = mem.next[cursor]
    BY <1>3, Zenon DEF WalkNext
  <2>2. CASE mem.next[cursor] = Poison
    <3>1. LostIn(mem, cursor) /\ LostIn(mem, cursor')
      BY <2>1, <2>2, Zenon DEF LostIn
    <3> QED
      BY <1>1, <3>1, LostStill, Zenon
  <2>3. CASE \E k \in 1..(Len(r) + 1) : mem.next[cursor] = At(r, k)
    BY <1>1, <2>1, <2>3, WalkMoves, Zenon
  <2> QED
    BY <2>1, <2>2, <2>3, Zenon DEF Footing
<1>4. CASE WalkEnd
  <2>1. cursor \in {None, Anchor} /\ cursor' \in {None, Anchor}
    BY <1>4, Zenon DEF WalkEnd
  <2>2. Looks(mem, cursor, Holds(r), None, {}) /\ Looks(mem, cursor', Holds(r), None, {})
    BY <2>1, LooksOff, Zenon
  <2> QED
    BY <1>1, <2>2, LooksStill, Zenon
<1>5. CASE WalkFault \/ Faulted
  <2>1. cursor' = cursor
    BY <1>5, Zenon DEF WalkFault, Faulted, vars
  <2> QED
    BY <1>1, <2>1, NothingSeen, Zenon
<1> QED
  BY <1>2, <1>3, <1>4, <1>5, Zenon DEF Walk

LEMMA OnFooting ==
  ASSUME NEW r, Leads(mem.next, r), cursor \in Holds(r) \cup Off
  PROVE  Footing(r)
<1> SUFFICES ASSUME cursor \in Node
             PROVE  \E k \in 1..(Len(r) + 1) : mem.next[cursor] = At(r, k)
  BY Zenon DEF Footing
<1>1. PICK j \in 1..Len(r) : cursor = r[j]
  BY Apart DEF Off, Holds
<1>2. mem.next[cursor] = At(r, j + 1)
  <2>1. \A c : c = r[j] => mem.next[c] = At(r, j + 1)
    BY LooksOn
  <2> QED
    BY <1>1, <2>1, Zenon
<1>3. j + 1 \in 1..(Len(r) + 1)
  BY DEF Leads
<1> QED
  BY <1>2, <1>3, Zenon

LEMMA TailLen ==
  ASSUME NEW i, NEW q, NEW m, NEW todo, Deleted(i, q, m, todo), todo # <<>>
  PROVE  Len(Tail(todo)) = Len(todo) - 1 /\ Len(todo) \in 1..4
<1>1. PICK n, p : DelAt(q[i], p[q[i]], n[q[i]], n, p, m, todo)
  BY Zenon DEF Deleted
<1>2. \E a, b, c, d : todo \in {<<a, b, c, d>>, <<b, c, d>>, <<c, d>>, <<d>>}
  <2>1. \A s, before, after : DelAt(s, before, after, n, p, m, todo) =>
          todo = <<>> \/ \E a, b, c, d : todo \in {<<a, b, c, d>>, <<b, c, d>>, <<c, d>>, <<d>>}
    BY Zenon DEF DelAt
  <2> QED
    BY <1>1, <2>1, Zenon
<1> QED
  BY <1>2

-----------------------------------------------------------------------------
(* The refinement, in each state of the writer. *)

LEMMA IdleLooks ==
  ASSUME NEW q, IdleOn(q), Next
  PROVE  LooksTo(mem, cursor, mem', cursor')
<1>1. Idle(q) /\ cursor \in Holds(q) \cup Off
  BY Zenon DEF IdleOn
<1>2. Leads(mem.next, q)
  BY <1>1, RingLeads, Zenon DEF Idle
<1>3. ASSUME NEW s \in Node, AddBegin(s)
      PROVE  LooksTo(mem, cursor, mem', cursor')
  <2>1. Adding(s, q)'
    BY <1>1, <1>3, BeginAdd, Zenon
  <2>2. cursor' = cursor /\ stores' # <<>> /\ s \in Node \ Holds(q)
    BY <1>1, <1>3 DEF AddBegin, ListAdd, ListAddIn, Idle
  <2>3. Leads(mem'.next, q)
    <3>1. Added(s, q, mem', stores')
      BY <2>1, Zenon DEF Adding
    <3>2. Leads(mem'.next, AddSeen(s, q, stores'))
      BY <2>2, <3>1, AddedStands, Zenon
    <3> QED
      BY <2>2, <3>2, Zenon DEF AddSeen
  <2> QED
    BY <1>1, <1>2, <2>2, <2>3, ListStill, Zenon
<1>4. ASSUME NEW s \in Node, DelBegin(s)
      PROVE  LooksTo(mem, cursor, mem', cursor')
  BY <1>4, NothingSeen, Zenon DEF DelBegin
<1>5. ~Write
  BY <1>1, OpsApart, Zenon DEF Write, StoreNext, AddEnd, DelEnd, Idle
<1>6. CASE WalkBegin \/ Walk \/ Faulted
  BY <1>1, <1>2, <1>6, OnFooting, WalkLooks, Zenon
<1> QED
  BY <1>3, <1>4, <1>5, <1>6, Zenon DEF Next

LEMMA AddingLooks ==
  ASSUME NEW s, NEW q, AddingOn(s, q), Next
  PROVE  LooksTo(mem, cursor, mem', cursor')
<1>1. Adding(s, q) /\ cursor \in Holds(AddSeen(s, q, stores)) \cup Off
  BY Zenon DEF AddingOn
<1>2. \A t \in Node : ~AddBegin(t) /\ ~DelBegin(t)
  BY <1>1, OpsApart, Zenon DEF AddBegin, DelBegin, Adding
<1>3. ~DelEnd
  BY <1>1, OpsApart, Zenon DEF DelEnd, Adding
<1>4. Leads(mem.next, AddSeen(s, q, stores)) /\ s \in Node \ Holds(q)
  BY <1>1, AddedStands, Zenon DEF Adding
<1>5. CASE StoreNext
  <2>1. Added(s, q, mem', stores')
    BY <1>1, <1>5, StoreAdd, Zenon DEF Adding
  <2>2. Leads(mem'.next, AddSeen(s, q, stores'))
    BY <1>4, <2>1, AddedStands, Zenon
  <2>3. cursor' = cursor /\ cursor \in Holds(q) \cup Off /\ Leads(mem.next, q)
    BY <1>1, <1>4, <1>5, Zenon DEF StoreNext, AddSeen
  <2>4. CASE stores' = <<>>
    BY <1>4, <2>2, <2>3, <2>4, ListGrows, Zenon DEF AddSeen
  <2>5. CASE stores' # <<>>
    BY <2>2, <2>3, <2>5, ListStill, Zenon DEF AddSeen
  <2> QED
    BY <2>4, <2>5, Zenon
<1>6. CASE AddEnd
  BY <1>6, NothingSeen, Zenon DEF AddEnd
<1>7. CASE WalkBegin \/ Walk \/ Faulted
  BY <1>1, <1>4, <1>7, OnFooting, WalkLooks, Zenon
<1> QED
  BY <1>2, <1>3, <1>5, <1>6, <1>7, Zenon DEF Next, Write

LEMMA DeletingLooks ==
  ASSUME NEW i, NEW q, DeletingOn(i, q), Next
  PROVE  LooksTo(mem, cursor, mem', cursor')
<1>1. Deleting(i, q) /\ cursor \in Holds(q) \cup Off
  BY Zenon DEF DeletingOn
<1>2. \A t \in Node : ~AddBegin(t) /\ ~DelBegin(t)
  BY <1>1, OpsApart, Zenon DEF AddBegin, DelBegin, Deleting
<1>3. ~AddEnd
  BY <1>1, OpsApart, Zenon DEF AddEnd, Deleting
<1>4. /\ q \in Seq(Node) /\ (\A j, k \in 1..Len(q) : q[j] = q[k] => j = k) /\ i \in 1..Len(q)
      /\ Len(stores) \in 0..4
      /\ Leads(mem.next, DelSeen(i, q, stores))
      /\ Len(stores) = 2 => mem.next[q[i]] = At(q, i + 1)
      /\ Len(stores) <= 1 => mem.next[q[i]] = Poison
  BY <1>1, DeletedStands, ZenonT(30) DEF Deleting
<1>5. PICK r : r = Without(q, i)
  OBVIOUS
<1>6. /\ Holds(r) = Holds(q) \ {q[i]} /\ q[i] \in Node \ Holds(r)
      /\ i \in 1..(Len(r) + 1) /\ At(q, i + 1) = At(r, i)
  <2>1. Holds(r) = Holds(q) \ {q[i]}
    BY <1>4, <1>5, WithoutHolds, Zenon
  <2>2. q[i] \in Node
    BY <1>4
  <2>3. Len(r) = Len(q) - 1 /\ \A k \in 1..(Len(q) - 1) : r[k] = IF k < i THEN q[k] ELSE q[k + 1]
    BY <1>4, <1>5, WithoutAt, Zenon
  <2>4. i \in 1..(Len(q) - 1) => r[i] = q[i + 1]
    <3>1. ~(i < i)
      BY <1>4
    <3> QED
      BY <2>3, <3>1, Zenon
  <2>5. i \in 1..(Len(r) + 1) /\ At(q, i + 1) = At(r, i)
    BY <1>4, <2>3, <2>4 DEF At
  <2> QED
    BY <2>1, <2>2, <2>5, Zenon
<1>7. /\ Len(stores) <= 2 => Leads(mem.next, r)
      /\ ~(Len(stores) <= 2) => Leads(mem.next, q)
      /\ Len(stores) <= 2 => Len(stores) = 2 \/ Len(stores) <= 1
  <2>1. \A l \in 0..4 : l <= 2 => l = 2 \/ l <= 1
    OBVIOUS
  <2> QED
    BY <1>4, <1>5, <2>1, Zenon DEF DelSeen
<1>8. CASE StoreNext
  <2>1. Deleting(i, q)' /\ cursor' = cursor
    BY <1>1, <1>8, StoreDel, Zenon DEF StoreNext
  <2>2. /\ Leads(mem'.next, DelSeen(i, q, stores'))
        /\ Len(stores') = 2 => mem'.next[q[i]] = At(q, i + 1)
        /\ Len(stores') <= 1 => mem'.next[q[i]] = Poison
    <3>1. Deleted(i, q, mem', stores')
      BY <2>1, Zenon DEF Deleting
    <3> QED
      BY <3>1, DeletedStands, ZenonT(30)
  <2>3. Len(stores') = Len(stores) - 1 /\ Len(stores) \in 1..4
    <3>1. Deleted(i, q, mem, stores) /\ stores # <<>> /\ stores' = Tail(stores)
      BY <1>1, <1>8, Zenon DEF Deleting, StoreNext
    <3> QED
      BY <3>1, TailLen, Zenon
  <2>4. CASE Len(stores) = 4
    <3>1. ~(Len(stores) <= 2) /\ ~(Len(stores') <= 2)
      BY <2>3, <2>4
    <3>2. Leads(mem.next, q) /\ Leads(mem'.next, q)
      BY <1>7, <2>2, <3>1, Zenon DEF DelSeen
    <3> QED
      BY <1>1, <2>1, <3>2, ListStill, Zenon
  <2>5. CASE Len(stores) = 3
    <3>1. ~(Len(stores) <= 2) /\ Len(stores') = 2 /\ Len(stores') <= 2
      BY <2>3, <2>5
    <3>2. Leads(mem.next, q) /\ Leads(mem'.next, Without(q, i)) /\ mem'.next[q[i]] = At(q, i + 1)
      BY <1>7, <2>2, <3>1, Zenon DEF DelSeen
    <3> QED
      BY <1>1, <1>4, <2>1, <3>2, ListShrinks, Zenon
  <2>6. CASE Len(stores) = 2
    <3>1. Len(stores) <= 2 /\ Len(stores') <= 1 /\ Len(stores') <= 2
      BY <2>3, <2>6
    <3>2. Leads(mem.next, r) /\ Leads(mem'.next, r) /\ mem'.next[q[i]] = Poison /\ mem.next[q[i]] = At(r, i)
      BY <1>4, <1>5, <1>6, <1>7, <2>2, <2>6, <3>1, Zenon DEF DelSeen
    <3>3. CASE cursor = q[i]
      BY <1>6, <2>1, <3>2, <3>3, WalkStranded, Zenon
    <3>4. CASE cursor # q[i]
      <4>1. cursor \in Holds(r) \cup Off
        BY <1>1, <1>6, <3>4, Zenon
      <4> QED
        BY <2>1, <3>2, <4>1, ListStill, Zenon
    <3> QED
      BY <3>3, <3>4, Zenon
  <2>7. CASE Len(stores) = 1
    <3>1. Len(stores) <= 2 /\ Len(stores) <= 1 /\ Len(stores') <= 1 /\ Len(stores') <= 2
      BY <2>3, <2>7
    <3>2. Leads(mem.next, r) /\ Leads(mem'.next, r) /\ mem'.next[q[i]] = Poison /\ mem.next[q[i]] = Poison
      BY <1>4, <1>5, <1>7, <2>2, <3>1, Zenon DEF DelSeen
    <3>3. CASE cursor = q[i]
      <4>1. LostIn(mem, cursor) /\ LostIn(mem', cursor)
        BY <1>6, <3>2, <3>3, Zenon DEF LostIn
      <4> QED
        BY <2>1, <3>2, <4>1, LostStill, Zenon
    <3>4. CASE cursor # q[i]
      <4>1. cursor \in Holds(r) \cup Off
        BY <1>1, <1>6, <3>4, Zenon
      <4> QED
        BY <2>1, <3>2, <4>1, ListStill, Zenon
    <3> QED
      BY <3>3, <3>4, Zenon
  <2>8. Len(stores) = 4 \/ Len(stores) = 3 \/ Len(stores) = 2 \/ Len(stores) = 1
    BY <2>3
  <2> QED
    BY <2>4, <2>5, <2>6, <2>7, <2>8, Zenon
<1>9. CASE DelEnd
  <2>1. /\ Idle(Without(q, i))'
        /\ cursor' = IF cursor = q[i] THEN Freed ELSE cursor
    BY <1>1, <1>9, EndDel, Zenon
  <2>2. Leads(mem'.next, r)
    BY <1>5, <2>1, RingLeads, Zenon DEF Idle
  <2>3. Leads(mem.next, r) /\ mem.next[q[i]] = Poison
    <3>1. stores = <<>>
      BY <1>9, Zenon DEF DelEnd
    <3>2. Len(stores) <= 1 /\ Len(stores) <= 2
      BY <3>1
    <3> QED
      BY <1>4, <1>7, <3>2, Zenon
  <2>4. CASE cursor = q[i]
    <3>1. LostIn(mem, cursor) /\ LostIn(mem', cursor')
      BY <1>6, <2>1, <2>3, <2>4, Zenon DEF LostIn
    <3> QED
      BY <2>2, <2>3, <3>1, LostStill, Zenon
  <2>5. CASE cursor # q[i]
    <3>1. cursor' = cursor /\ cursor \in Holds(r) \cup Off
      BY <1>1, <1>6, <2>1, <2>5, Zenon
    <3> QED
      BY <2>2, <2>3, <3>1, ListStill, Zenon
  <2> QED
    BY <2>4, <2>5, Zenon
<1>10. CASE WalkBegin \/ Walk \/ Faulted
  <2>1. CASE Len(stores) <= 2
    <3>1. Footing(r)
      <4>1. CASE cursor = q[i]
        BY <1>4, <1>6, <1>7, <2>1, <4>1, Zenon DEF Footing
      <4>2. CASE cursor # q[i]
        <5>1. cursor \in Holds(r) \cup Off
          BY <1>1, <1>6, <4>2, Zenon
        <5> QED
          BY <1>7, <2>1, <5>1, OnFooting, Zenon
      <4> QED
        BY <4>1, <4>2, Zenon
    <3> QED
      BY <1>7, <1>10, <2>1, <3>1, WalkLooks, Zenon
  <2>2. CASE ~(Len(stores) <= 2)
    BY <1>1, <1>7, <1>10, <2>2, OnFooting, WalkLooks, Zenon
  <2> QED
    BY <2>1, <2>2, Zenon
<1> QED
  BY <1>2, <1>3, <1>8, <1>9, <1>10, Zenon DEF Next, Write

LEMMA LooksInit == Init => Abstract!Init
<1> SUFFICES ASSUME Init
             PROVE  Abstract!Init
  OBVIOUS
<1>1. PICK q : q = <<>>
  OBVIOUS
<1>2. mem.next = Unlinked /\ cursor = None
  BY DEF Init
<1>3. Leads(mem.next, q)
  BY <1>1, <1>2 DEF Unlinked, Leads, At
<1>4. Looks(mem, cursor, Holds(q), None, {})
  BY <1>2, <1>3, LooksOff, Zenon
<1>5. Holds(q) = {}
  BY <1>1 DEF Holds
<1>6. Linked = {} /\ Stand = None /\ Ahead = {}
  BY <1>4, <1>5, Zenon DEF Looks, LostIn, Linked, Stand, Ahead, Stranded
<1> QED
  BY <1>6, Zenon DEF Abstract!Init

LEMMA LooksStep == RaceInv /\ [Next]_vars => [Abstract!Next]_Abstract!vars
<1> SUFFICES ASSUME RaceInv, [Next]_vars
             PROVE  [Abstract!Next]_Abstract!vars
  OBVIOUS
<1>1. CASE Next
  <2>1. LooksTo(mem, cursor, mem', cursor')
    BY <1>1, IdleLooks, AddingLooks, DeletingLooks, Zenon DEF RaceInv
  <2> QED
    BY <2>1, LooksToAllowed, Zenon
<1>2. CASE UNCHANGED vars
  <2>1. mem' = mem /\ cursor' = cursor
    BY <1>2, Zenon DEF vars
  <2>2. LooksTo(mem, cursor, mem', cursor')
    BY <2>1, NothingSeen, Zenon
  <2> QED
    BY <2>2, LooksToAllowed, Zenon
<1> QED
  BY <1>1, <1>2, Zenon

\* Seen as a set, the list of list.h changes under a walk as ListWalk says,
\* whatever way the stores of list_add and list_del interleave with it: the
\* picture WindowEvents and WindowStream draw of the list is what it does.
THEOREM WalkImplemented == Spec => ImplementsListWalk
<1> QED
  BY RaceInvariance, LooksInit, LooksStep, PTL DEF Spec, ImplementsListWalk, Abstract!Spec

=============================================================================
