----------------------------- MODULE LeaseTable -----------------------------
(***************************************************************************)
(* What the task leases promise: each task has at most one holder, a task  *)
(* is only granted while nobody holds it, and ownership never passes from  *)
(* one client to another without the task having been freed in between.    *)
(* Several tasks may be freed at once (a stale scan, an unregistration).   *)
(***************************************************************************)

CONSTANTS Client, Task, None

VARIABLE holder   \* [Task -> Client \cup {None}]

Init == holder = [t \in Task |-> None]

Grant(t, c) ==
  /\ holder[t] = None
  /\ holder' = [holder EXCEPT ![t] = c]

Free(S) == holder' = [t \in Task |-> IF t \in S THEN None ELSE holder[t]]

Next ==
  \/ \E t \in Task, c \in Client : Grant(t, c)
  \/ \E S \in SUBSET Task : Free(S)

Spec == Init /\ [][Next]_holder
=============================================================================
