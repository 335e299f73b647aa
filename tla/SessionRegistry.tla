-------------------------- MODULE SessionRegistry --------------------------
(***************************************************************************)
(* What the list of sessions is for: the channels that connected, in the   *)
(* order they did, each of which is sent the broadcasts of its type.       *)
(***************************************************************************)
EXTENDS Sequences, SequencesExt

CONSTANTS Client, ChannelType

VARIABLES members,   \* the connected channels, each with its type
          leaving,   \* the clients that closed their end
          out        \* per client: what was written to it since it came

vars == <<members, leaving, out>>

Member == [client : Client, type : ChannelType]
IsMember(c) == \E i \in DOMAIN members : members[i].client = c

Init ==
  /\ members = <<>>
  /\ leaving = {}
  /\ out = [c \in Client |-> <<>>]

\* The reply is the first thing a channel hears.
Join(m) ==
  /\ ~IsMember(m.client) /\ m.client \notin leaving
  /\ members' = Append(members, m)
  /\ out' = [out EXCEPT ![m.client] = <<"reply">>]
  /\ UNCHANGED leaving

Close(c) ==
  /\ leaving' = leaving \cup {c}
  /\ UNCHANGED <<members, out>>

Leave(c) ==
  /\ c \in leaving
  /\ \E i \in DOMAIN members : members[i].client = c /\ members' = RemoveAt(members, i)
  /\ leaving' = leaving \ {c}
  /\ out' = [out EXCEPT ![c] = <<>>]

\* Every member of that type hears of it once; one that is leaving need not.
Hears(c, type) == \E i \in DOMAIN members : members[i] = [client |-> c, type |-> type]
Broadcast(type) ==
  /\ \E deaf \in SUBSET {c \in leaving : Hears(c, type)} :
       out' = [c \in Client |->
                 IF Hears(c, type) /\ c \notin deaf THEN Append(out[c], type) ELSE out[c]]
  /\ UNCHANGED <<members, leaving>>

Next ==
  \/ \E m \in Member : Join(m)
  \/ \E c \in Client : Close(c) \/ Leave(c)
  \/ \E type \in ChannelType : Broadcast(type)

Spec == Init /\ [][Next]_vars
=============================================================================
