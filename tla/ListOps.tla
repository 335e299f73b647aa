------------------------------ MODULE ListOps ------------------------------
(***************************************************************************)
(* The list of list.h: two fields a node, and each function of the header  *)
(* as the stores it makes, in the order it makes them.  ListRace makes     *)
(* them one at a time, SessionLife all at once.                            *)
(***************************************************************************)
EXTENDS Naturals, Sequences, FiniteSets, Functions

CONSTANTS Node,      \* addresses of list_head_t in nodes
          Anchor,    \* the address of the list's own list_head_t
          Poison,    \* LIST_POISON1 and LIST_POISON2
          Junk       \* what malloc left, or free

ASSUME AddressAssumption ==
  /\ IsFiniteSet(Node)
  /\ Node \cap {Anchor, Poison, Junk} = {}
  /\ Anchor # Poison /\ Anchor # Junk /\ Poison # Junk

Address == Node \cup {Anchor, Poison, Junk}
Memory == [next : [Node \cup {Anchor} -> Address], prev : [Node \cup {Anchor} -> Address]]

\* One store through a pointer, and several in a row.
Put(field, of, to) == [field |-> field, of |-> of, to |-> to]
Store(mem, s) == [mem EXCEPT ![s.field][s.of] = s.to]
Do(mem, stores) ==
  LET done[k \in 0..Len(stores)] == IF k = 0 THEN mem ELSE Store(done[k - 1], stores[k])
  IN  done[Len(stores)]

InitListHead(p) == <<Put("next", p, p), Put("prev", p, p)>>

\* Mutants: the new node is published first; next->prev is left out.
ListAddInPublished(new, prev, next) ==
  <<Put("prev", next, new), Put("next", prev, new), Put("next", new, next), Put("prev", new, prev)>>
ListAddInOneWay(new, prev, next) ==
  <<Put("next", new, next), Put("prev", new, prev), Put("next", prev, new)>>

\* __list_add
ListAddIn(new, prev, next) ==
  <<Put("prev", next, new), Put("next", new, next), Put("prev", new, prev), Put("next", prev, new)>>

\* list_add at the front, list_add_tail at the back.
ListAdd(mem, new) == ListAddIn(new, Anchor, mem.next[Anchor])
ListAddTail(mem, new) == ListAddIn(new, mem.prev[Anchor], Anchor)

\* Mutants: prev->next, next->prev left out.
ListDelInBackward(prev, next) == <<Put("prev", next, prev)>>
ListDelInForward(prev, next) == <<Put("next", prev, next)>>

\* __list_del
ListDelIn(prev, next) == <<Put("prev", next, prev), Put("next", prev, next)>>

ListDel(mem, entry) ==
  ListDelIn(mem.prev[entry], mem.next[entry])
    \o <<Put("next", entry, Poison), Put("prev", entry, Poison)>>

\* list_for_each_entry: the nodes met from p on.
Met(mem, p) ==
  LET n == Cardinality(Node)
      pos[k \in 0..n] ==
        IF k = 0 THEN p ELSE IF pos[k - 1] \in Node THEN mem.next[pos[k - 1]] ELSE pos[k - 1]
      met == {k \in 0..n : pos[k] \in Node}
  IN  [k \in 1..Cardinality(met) |-> pos[k - 1]]
Reach(mem, p) == Range(Met(mem, p))

\* Forward and backward links agree, and the walk from the anchor leads
\* through the nodes of S, once each, back to it.
Circular(mem, S) ==
  /\ Len(Met(mem, mem.next[Anchor])) = Cardinality(S)
  /\ Reach(mem, mem.next[Anchor]) = S
  /\ \A p \in S \cup {Anchor} :
       /\ mem.next[p] \in S \cup {Anchor} /\ mem.prev[mem.next[p]] = p
       /\ mem.prev[p] \in S \cup {Anchor} /\ mem.next[mem.prev[p]] = p
=============================================================================
