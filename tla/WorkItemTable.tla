--------------------------- MODULE WorkItemTable ---------------------------
(***************************************************************************)
(* The vocabulary of work items: the statuses, the table of transitions    *)
(* the service allows, the payload a transition writes and the event       *)
(* status it reports.  Shared by the sequential and the threaded models of *)
(* the control plane.                                                      *)
(***************************************************************************)

CONSTANTS
  Client,   \* client ids (client_manifests.client_id)
  Task,     \* task ids: a work item and a task lease share the id space
  None      \* Python's None and SQL's NULL

WorkItemStatus ==
  {"planned", "queued", "assigned", "running", "blocked", "waiting_for_human",
   "verifying", "approved", "completed", "failed", "cancelled", "requeued"}

(* ALLOWED_WORK_ITEM_TRANSITIONS, one successor set per source status. *)
AllowedTransitions ==
  [planned   |-> {"queued", "cancelled"},
   queued    |-> {"assigned", "blocked", "waiting_for_human", "cancelled"},
   assigned  |-> {"running", "blocked", "waiting_for_human", "requeued", "cancelled"},
   running   |-> {"blocked", "waiting_for_human", "verifying", "completed",
                  "failed", "cancelled", "requeued"},
   blocked   |-> {"queued", "requeued", "waiting_for_human", "cancelled"},
   waiting_for_human |->
                 {"queued", "assigned", "running", "requeued", "cancelled"},
   verifying |-> {"approved", "failed", "blocked", "waiting_for_human", "requeued"},
   approved  |-> {"completed"},
   failed    |-> {"requeued", "cancelled"},
   requeued  |-> {"queued", "assigned", "cancelled"},
   completed |-> {},
   cancelled |-> {}]

(* The fields of a WorkItem the control flow reads; titles, priorities,     *)
(* timestamps, evidence digests and blocked reasons are carried along by   *)
(* the code and decide nothing here.                                       *)
WorkItem == [status   : WorkItemStatus,
             assigned : Client \cup {None},
             lease    : Task \cup {None}]

(* Mutant: any change of status is allowed. *)
TransitionAllowed_AnyChange(source, target) == source # target

TransitionAllowed(source, target) == target \in AllowedTransitions[source]

(* update_work_item: a None argument keeps the field of the loaded item. *)
Keep(new, old) == IF new = None THEN old ELSE new

UpdateWorkItem(p, target, client, leaseId) ==
  [status   |-> target,
   assigned |-> Keep(client, p.assigned),
   lease    |-> Keep(leaseId, p.lease)]

(* Mutant: a requeue removes the key of the lease instead of setting it to None. *)
TransitionedItem_PopsLease(p, target, client, leaseId) ==
  IF target = "requeued"
  THEN [status |-> target, assigned |-> None]
  ELSE UpdateWorkItem(p, target, client, leaseId)

(* What WorkItemService.transition stores: a requeue also clears ownership. *)
TransitionedItem(p, target, client, leaseId) ==
  IF target = "requeued"
  THEN [status |-> target, assigned |-> None, lease |-> None]
  ELSE UpdateWorkItem(p, target, client, leaseId)

(* RunTaskState.from_work_item, on the same fields. *)
FromWorkItem(p) == [status |-> p.status, assigned |-> p.assigned, lease |-> p.lease]

(* _event_status *)
EventStatus(s) ==
  CASE s \in {"completed", "approved"} -> "passed"
    [] s \in {"failed", "cancelled"}   -> "failed"
    [] s = "blocked"                   -> "blocked"
    [] s = "waiting_for_human"         -> "needs_human"
    [] OTHER                           -> "active"

EventKind == {"work_item", "policy_denied", "recovery_action", "task_lease"}
EventStatuses == {"active", "passed", "failed", "blocked", "needs_human", "stale"}
Event == [kind : EventKind, status : EventStatuses]

(* A missing row or value is told apart from every other. *)
ASSUME NoneAssumption ==
  /\ None \notin Client
  /\ None \notin Task
  /\ None \notin WorkItem
  /\ None \notin Event

Terminal == {s \in WorkItemStatus : AllowedTransitions[s] = {}}
=============================================================================
