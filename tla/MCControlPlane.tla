--------------------------- MODULE MCControlPlane ---------------------------
(* Small instances of ControlPlane for TLC. *)
EXTENDS ControlPlane, TLC

CONSTANT cap   \* the one capability

Capable == [trust |-> "trusted", caps |-> {cap}]
Untrusted == [trust |-> "untrusted", caps |-> {cap}]

CapableOnly == {Capable}
AnyTrust == {Capable, Untrusted}

NeedsCap == [t \in Task |-> cap]
NeedsNothing == [t \in Task |-> None]

SomeRank ==
  CHOOSE r \in [Task -> 1..Cardinality(Task)] : \A t, u \in Task : t # u => r[t] # r[u]

QueuedItem == {[status |-> "queued", assigned |-> None, lease |-> None]}
(* planned work, and work created with its owner as the CLI and the tests do *)
OwnedItem == {[status |-> "planned", assigned |-> None, lease |-> None]} \cup
             {[status |-> "assigned", assigned |-> c, lease |-> None] : c \in Client}

Symmetry == Permutations(Client)
=============================================================================
