------------------------------ MODULE ListRace ------------------------------
(***************************************************************************)
(* The window list under its two threads, store by store.                  *)
(*                                                                         *)
(* The xorg thread adds nodes at the front and deletes them (CREATE and    *)
(* DESTROY_NOTIFY); the uv thread walks the list (recover_state,           *)
(* find_window, frame_send).  No lock keeps them apart.  The stores of a   *)
(* thread become visible in program order, as on the x86 machines the      *)
(* program is built for.                                                   *)
(***************************************************************************)
EXTENDS ListOps

CONSTANTS None,   \* no walk, no operation
          Freed   \* a pointer to a node that was freed while it was held

ASSUME ListAssumption ==
  /\ None # Freed
  /\ Address \cap {None, Freed} = {}

VARIABLES mem,     \* the links
          live,    \* nodes that are allocated
          op,      \* what the xorg thread does to which node
          stores,  \* the stores it has still to make
          cursor,  \* pos of the walk
          fault    \* the walk followed a dangling or poisoned pointer

writer == <<mem, live, op, stores>>
vars == <<mem, live, op, stores, cursor, fault>>

NoOp == [does |-> "nothing", node |-> None]
Op == [does : {"add", "del"}, node : Node] \cup {NoOp}

Unlinked == [p \in Node \cup {Anchor} |-> IF p = Anchor THEN Anchor ELSE Junk]

Init ==
  /\ mem = [next |-> Unlinked, prev |-> Unlinked]
  /\ live = {}
  /\ op = NoOp
  /\ stores = <<>>
  /\ cursor = None
  /\ fault = FALSE

-----------------------------------------------------------------------------
(* The xorg thread *)

\* malloc and INIT_LIST_HEAD, which no other thread sees; list_add begins.
AddBegin(n) ==
  /\ ~fault /\ op = NoOp
  /\ n \notin live
  /\ live' = live \cup {n}
  /\ op' = [does |-> "add", node |-> n]
  /\ mem' = Do(mem, InitListHead(n))
  /\ stores' = ListAdd(mem, n)
  /\ UNCHANGED <<cursor, fault>>

DelBegin(n) ==
  /\ ~fault /\ op = NoOp
  /\ n \in live
  /\ op' = [does |-> "del", node |-> n]
  /\ stores' = ListDel(mem, n)
  /\ UNCHANGED <<mem, live, cursor, fault>>

StoreNext ==
  /\ ~fault /\ stores # <<>>
  /\ mem' = Store(mem, Head(stores))
  /\ stores' = Tail(stores)
  /\ UNCHANGED <<live, op, cursor, fault>>

AddEnd ==
  /\ ~fault /\ stores = <<>> /\ op.does = "add"
  /\ op' = NoOp
  /\ UNCHANGED <<mem, live, stores, cursor, fault>>

\* free(cip_window)
DelEnd ==
  /\ ~fault /\ stores = <<>> /\ op.does = "del"
  /\ op' = NoOp
  /\ live' = live \ {op.node}
  /\ mem' = Do(mem, <<Put("next", op.node, Junk), Put("prev", op.node, Junk)>>)
  /\ cursor' = IF cursor = op.node THEN Freed ELSE cursor
  /\ UNCHANGED <<stores, fault>>

-----------------------------------------------------------------------------
(* The uv thread *)

WalkBegin ==
  /\ ~fault /\ cursor = None
  /\ cursor' = mem.next[Anchor]
  /\ UNCHANGED <<writer, fault>>

\* The body of the walk, which reads the node, and its next.
WalkNext ==
  /\ ~fault /\ cursor \in Node
  /\ cursor' = mem.next[cursor]
  /\ UNCHANGED <<writer, fault>>

WalkEnd ==
  /\ ~fault /\ cursor = Anchor
  /\ cursor' = None
  /\ UNCHANGED <<writer, fault>>

WalkFault ==
  /\ ~fault /\ cursor \in {Freed, Poison, Junk}
  /\ fault' = TRUE
  /\ UNCHANGED <<writer, cursor>>

-----------------------------------------------------------------------------
Write == StoreNext \/ AddEnd \/ DelEnd
Walk == WalkNext \/ WalkEnd \/ WalkFault
Faulted == fault /\ UNCHANGED vars

Next == (\E n \in Node : AddBegin(n) \/ DelBegin(n)) \/ Write \/ WalkBegin \/ Walk \/ Faulted

\* A walk that began goes on; the X server may keep the other thread busy.
Spec == Init /\ [][Next]_vars
FairSpec == Spec /\ WF_vars(Walk)

-----------------------------------------------------------------------------
(* Properties *)

\* Types; and a walk is never led to a node that was freed before it got
\* there: what it can lose is the node it stands on (cip_server.c:221-222).
TypeOK ==
  /\ mem \in Memory
  /\ live \in SUBSET Node
  /\ op \in Op
  /\ \A i \in 1..Len(stores) : stores[i].of \in Node \cup {Anchor} /\ stores[i].to \in Address
  /\ cursor \in live \cup {None, Anchor, Freed, Poison}
  /\ fault \in BOOLEAN

\* Between two operations the links of list.h are a ring through the nodes
\* there are, in both directions.
WellFormed == op = NoOp => Circular(mem, live)

\* However fast the X server makes windows, a walk ends, or follows a
\* pointer out of a node that was deleted under it.
WalkEnds == cursor # None ~> cursor = None \/ fault

-----------------------------------------------------------------------------
(* The list as WindowEvents draws it *)

\* The walk stands on a node whose links lead nowhere any more.
Stranded ==
  \/ cursor \in {Freed, Poison}
  \/ cursor \in Node /\ mem.next[cursor] = Poison

Linked == Reach(mem, mem.next[Anchor]) \cup (IF Stranded THEN {} ELSE {cursor} \cap Node)
Stand  == IF cursor = Anchor THEN None ELSE IF Stranded THEN Freed ELSE cursor
Ahead  == IF cursor \in Node /\ ~Stranded THEN Reach(mem, mem.next[cursor]) ELSE {}

Abstract == INSTANCE ListWalk WITH linked <- Linked, at <- Stand, ahead <- Ahead

\* The stores of list_add and list_del, in whatever way a walk interleaves
\* with them, do what ListWalk says of the list as a set: the walk meets no
\* node twice, and every node that stays in the list, whatever is added and
\* deleted around it.
ImplementsListWalk == Abstract!Spec
=============================================================================
