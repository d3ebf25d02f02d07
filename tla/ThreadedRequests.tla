-------------------------- MODULE ThreadedRequests --------------------------
(***************************************************************************)
(* Lease and work-item requests on the threads of ThreadingHTTPServer.     *)
(* No lock is held across a request: every store method is a transaction   *)
(* of its own, and a step of this module is one such transaction.  A       *)
(* request therefore works with what it loaded earlier, and the process    *)
(* may die between two of its writes.                                      *)
(***************************************************************************)
EXTENDS Integers, Sequences, WorkItemTable

CONSTANTS
  Thread,        \* request threads
  Target,        \* the statuses transition requests ask for
  MaxEvents,     \* bound: requests start only while the ledger is shorter
  MaxCrashes,    \* bound on process deaths
  PostedSeq      \* sequence numbers clients put on the events they post

VARIABLES
  registered,  \* the clients in client_manifests
  lease,       \* task_leases, by task
  item,        \* work_items.payload_json, by work item
  taskState,   \* run_task_states, by work item
  ledger,      \* control_plane_events in order of insertion
  pc,          \* [Thread -> what the thread does next]
  local,       \* [Thread -> the request and what it has loaded]
  crashes      \* process deaths so far

store == <<registered, lease, item, taskState>>
vars == <<registered, lease, item, taskState, ledger, pc, local, crashes>>

LeaseRow == [client : Client, status : {"active", "released", "expired"}]
NoRow == [client |-> None, status |-> "none"]

(* A request in flight: the task or, for the registry, the client, the row   *)
(* or payload it is about to write, the sequence number of its event, and    *)
(* whether no other request on the task has overlapped with it so far.       *)
Request == [kind   : {"acquire", "renew", "release", "expire", "transition", "denied",
                      "registry"},
            task   : Task \cup {None},
            client : Client \cup {None},
            row    : LeaseRow \cup {NoRow},
            saved  : WorkItem \cup {None},
            seq    : Nat,
            solo   : BOOLEAN]
ASSUME ThreadAssumption ==
  /\ None \notin Request
  /\ Target \subseteq WorkItemStatus
  /\ MaxEvents \in Nat
  /\ MaxCrashes \in Nat
  /\ PostedSeq \subseteq Nat

LedgerEvent == [seq : Nat, task : Task \cup {None}, posted : BOOLEAN]
Step == {"idle", "delete", "save_lease", "update", "upsert", "upsert_again", "count", "append"}

TypeOK ==
  /\ registered \subseteq Client
  /\ lease \in [Task -> LeaseRow \cup {NoRow}]
  /\ item \in [Task -> WorkItem]
  /\ taskState \in [Task -> WorkItem]
  /\ ledger \in Seq(LedgerEvent)
  /\ pc \in [Thread -> Step]
  /\ local \in [Thread -> Request \cup {None}]
  /\ crashes \in Nat

(* The work items exist, queued, and all clients are registered. *)
QueuedItem == [status |-> "queued", assigned |-> None, lease |-> None]

Init ==
  /\ registered = Client
  /\ lease = [t \in Task |-> NoRow]
  /\ item = [t \in Task |-> QueuedItem]
  /\ taskState = [t \in Task |-> FromWorkItem(QueuedItem)]
  /\ ledger = <<>>
  /\ pc = [th \in Thread |-> "idle"]
  /\ local = [th \in Thread |-> None]
  /\ crashes = 0

-----------------------------------------------------------------------------
(* Requests *)

InFlight(t) == {th \in Thread : pc[th] # "idle" /\ local[th].task = t}

(* The request of th has loaded what it needs and goes on at step.  It ends  *)
(* the solitude of the other requests on the task.                           *)
Begin(th, kind, t, row, saved, step) ==
  /\ pc[th] = "idle"
  /\ Len(ledger) < MaxEvents
  /\ pc' = [pc EXCEPT ![th] = step]
  /\ local' = [u \in Thread |->
       IF u = th
       THEN [kind |-> kind, task |-> t, client |-> None, row |-> row, saved |-> saved,
             seq |-> 0, solo |-> InFlight(t) = {}]
       ELSE IF u \in InFlight(t) THEN [local[u] EXCEPT !.solo = FALSE] ELSE local[u]]
  /\ UNCHANGED <<store, ledger, crashes>>

Goto(th, step) == pc' = [pc EXCEPT ![th] = step]

(* The reply, or the exception that ends the request. *)
Finish(th) ==
  /\ pc' = [pc EXCEPT ![th] = "idle"]
  /\ local' = [local EXCEPT ![th] = None]

Active(t) == lease[t].status = "active"

(* acquire: load_client_manifest and load_task_lease, then the decision. *)
LoadForAcquire(th, t, c) ==
  /\ c \in registered
  /\ IF Active(t)
     THEN Begin(th, "denied", t, NoRow, None, "count")
     ELSE Begin(th, "acquire", t, [client |-> c, status |-> "active"], None, "save_lease")

(* Mutant: the holder is compared, the status of the lease is not. *)
LoadForRenew_AnyStatus(th, t, c) ==
  /\ lease[t] # NoRow /\ lease[t].client = c
  /\ Begin(th, "renew", t, [client |-> c, status |-> "active"], None, "save_lease")

(* renew, release: load_task_lease and _require_holder. *)
LoadForRenew(th, t, c) ==
  /\ Active(t) /\ lease[t].client = c
  /\ Begin(th, "renew", t, [client |-> c, status |-> "active"], None, "save_lease")

LoadForRelease(th, t, c) ==
  /\ Active(t) /\ lease[t].client = c
  /\ Begin(th, "release", t, [client |-> c, status |-> "released"], None, "save_lease")

(* expire: whatever the status of the row, for any caller. *)
LoadForExpire(th, t) ==
  /\ lease[t] # NoRow
  /\ Begin(th, "expire", t, [client |-> lease[t].client, status |-> "expired"], None,
           "save_lease")

(* Mutant: foreign keys are not enforced (no PRAGMA foreign_keys). *)
SaveTaskLease_NoForeignKey(th) ==
  /\ pc[th] = "save_lease"
  /\ lease' = [lease EXCEPT ![local[th].task] = local[th].row]
  /\ Goto(th, "count")
  /\ UNCHANGED <<registered, item, taskState, ledger, local, crashes>>

(* save_task_lease: an upsert on task_id, whatever the row holds by now.  An *)
(* unregistered client ends the request with an exception.                   *)
SaveTaskLease(th) ==
  /\ pc[th] = "save_lease"
  /\ \/ /\ local[th].row.client \in registered
        /\ lease' = [lease EXCEPT ![local[th].task] = local[th].row]
        /\ Goto(th, "count")
        /\ UNCHANGED local
     \/ /\ local[th].row.client \notin registered
        /\ Finish(th)
        /\ UNCHANGED lease
  /\ UNCHANGED <<registered, item, taskState, ledger, crashes>>

(* WorkItemService.transition: load_work_item and the decision. *)
LoadForTransition(th, t, target, client) ==
  IF TransitionAllowed(item[t].status, target)
  THEN Begin(th, "transition", t, NoRow, TransitionedItem(item[t], target, client, None),
             "update")
  ELSE Begin(th, "denied", t, NoRow, None, "count")

(* Mutant: every work item gets the update (no WHERE work_item_id). *)
UpdateRow_AllRows(th) ==
  /\ pc[th] = "update"
  /\ item' = [t \in Task |-> local[th].saved]
  /\ Goto(th, "upsert")
  /\ UNCHANGED <<registered, lease, taskState, ledger, local, crashes>>

(* The UPDATE of work_items: it replaces the row, whatever it holds by now;  *)
(* a dangling assigned_client_id raises IntegrityError.                      *)
UpdateRow(th) ==
  LET p == local[th].saved
  IN /\ pc[th] = "update"
     /\ \/ /\ p.assigned # None => p.assigned \in registered
           /\ item' = [item EXCEPT ![local[th].task] = p]
           /\ Goto(th, "upsert")
           /\ UNCHANGED local
        \/ /\ p.assigned # None /\ p.assigned \notin registered
           /\ Finish(th)
           /\ UNCHANGED item
     /\ UNCHANGED <<registered, lease, taskState, ledger, crashes>>

(* Mutant: an existing projection row is left alone (ON CONFLICT DO NOTHING). *)
UpsertRunTaskState_InsertOnly(th) ==
  /\ pc[th] \in {"upsert", "upsert_again"}
  /\ Goto(th, IF pc[th] = "upsert" THEN "upsert_again" ELSE "count")
  /\ UNCHANGED <<registered, lease, item, taskState, ledger, local, crashes>>

(* upsert_run_task_state, called by the store and again by the service. *)
UpsertRunTaskState(th) ==
  /\ pc[th] \in {"upsert", "upsert_again"}
  /\ taskState' = [taskState EXCEPT ![local[th].task] = FromWorkItem(local[th].saved)]
  /\ Goto(th, IF pc[th] = "upsert" THEN "upsert_again" ELSE "count")
  /\ UNCHANGED <<registered, lease, item, ledger, local, crashes>>

(* Mutant: the new event is numbered after the one inserted last. *)
CountEvents_AfterLast(th) ==
  /\ pc[th] = "count"
  /\ local' = [local EXCEPT ![th].seq =
                IF ledger = <<>> THEN 1 ELSE ledger[Len(ledger)].seq + 1]
  /\ Goto(th, "append")
  /\ UNCHANGED <<store, ledger, crashes>>

(* sequence=len(list_control_plane_events()) + 1 *)
CountEvents(th) ==
  /\ pc[th] = "count"
  /\ local' = [local EXCEPT ![th].seq = Len(ledger) + 1]
  /\ Goto(th, "append")
  /\ UNCHANGED <<store, ledger, crashes>>

AppendEvent(th) ==
  /\ pc[th] = "append"
  /\ ledger' = Append(ledger, [seq |-> local[th].seq, task |-> local[th].task,
                               posted |-> FALSE])
  /\ Finish(th)
  /\ UNCHANGED <<store, crashes>>

-----------------------------------------------------------------------------
(* The registry, posted events and the process *)

(* A registry request is about no task, and no property relies on it alone. *)
BeginRegistry(th, c, step) ==
  /\ pc[th] = "idle"
  /\ Len(ledger) < MaxEvents
  /\ Goto(th, step)
  /\ local' = [local EXCEPT ![th] =
       [kind |-> "registry", task |-> None, client |-> c, row |-> NoRow, saved |-> None,
        seq |-> 0, solo |-> FALSE]]
  /\ UNCHANGED <<item, taskState, ledger, crashes>>

(* register_client_manifest: a plain INSERT, then the registry event. *)
Register(th, c) ==
  /\ c \notin registered
  /\ registered' = registered \cup {c}
  /\ BeginRegistry(th, c, "count")
  /\ UNCHANGED lease

(* unregister_client_manifest: load_client_manifest ... *)
LoadForUnregister(th, c) ==
  /\ c \in registered
  /\ BeginRegistry(th, c, "delete")
  /\ UNCHANGED <<registered, lease>>

(* ... and DELETE, which finds the client or not; its leases cascade. *)
Unregister(th) ==
  /\ pc[th] = "delete"
  /\ registered' = registered \ {local[th].client}
  /\ lease' = [t \in Task |->
       IF lease[t].client = local[th].client THEN NoRow ELSE lease[t]]
  /\ Goto(th, "count")
  /\ UNCHANGED <<item, taskState, ledger, local, crashes>>

(* ControlPlaneEventService.ingest: the sequence number is the client's. *)
Ingest(t, seq) ==
  /\ Len(ledger) < MaxEvents
  /\ ledger' = Append(ledger, [seq |-> seq, task |-> t, posted |-> TRUE])
  /\ UNCHANGED <<store, pc, local, crashes>>

(* The process dies: requests are lost, what is committed stays. *)
Crash ==
  /\ crashes < MaxCrashes
  /\ crashes' = crashes + 1
  /\ pc' = [th \in Thread |-> "idle"]
  /\ local' = [th \in Thread |-> None]
  /\ UNCHANGED <<store, ledger>>

(* serve_forever with nothing in flight. *)
WaitForRequest ==
  /\ \A th \in Thread : pc[th] = "idle"
  /\ UNCHANGED vars

LeaseCall(th, t) ==
  \/ \E c \in Client :
       LoadForAcquire(th, t, c) \/ LoadForRenew(th, t, c) \/ LoadForRelease(th, t, c)
  \/ LoadForExpire(th, t)

WorkItemCall(th, t) ==
  \E target \in Target :
    IF target = "assigned"
    THEN \E c \in Client : LoadForTransition(th, t, target, c)
    ELSE LoadForTransition(th, t, target, None)

ThreadStep(th) ==
  \/ SaveTaskLease(th)
  \/ UpdateRow(th)
  \/ UpsertRunTaskState(th)
  \/ CountEvents(th)
  \/ AppendEvent(th)

Next ==
  \/ \E th \in Thread, t \in Task : LeaseCall(th, t) \/ WorkItemCall(th, t)
  \/ \E th \in Thread : ThreadStep(th)
  \/ \E th \in Thread, c \in Client : Register(th, c) \/ LoadForUnregister(th, c)
  \/ \E th \in Thread : Unregister(th)
  \/ \E t \in Task, seq \in PostedSeq : Ingest(t, seq)
  \/ Crash
  \/ WaitForRequest

Spec == Init /\ [][Next]_vars

-----------------------------------------------------------------------------
(* What holds whatever the interleaving *)

(* A lease row belongs to a registered client even when its client is        *)
(* unregistered between the load and the upsert of a request: the foreign    *)
(* key turns that request into an exception (save_task_lease, _connect).     *)
LeasesAnchored == \A t \in Task : lease[t] # NoRow => lease[t].client \in registered

(* A request is solo while no other lease or work-item request on its task   *)
(* has been in flight together with it.  Requests on other tasks,            *)
(* registrations, posted events and crashes may interleave freely.           *)
Solo(th) == pc[th] # "idle" /\ local[th].solo

(* A solo transition leaves the stored item and its run/task projection      *)
(* equal by the time it numbers its event, also when a race or a crash had   *)
(* left them apart before (update_work_item, upsert_run_task_state).         *)
SoloTransitionSyncs ==
  \A th \in Thread :
    (Solo(th) /\ local[th].kind = "transition" /\ pc[th] \in {"count", "append"}) =>
      /\ item[local[th].task] = local[th].saved
      /\ taskState[local[th].task] = FromWorkItem(item[local[th].task])

(* Replay order, "ORDER BY sequence", agrees with the order of solo requests *)
(* on a task: the event of a solo request sorts after every event the        *)
(* services appended for that task before (_append_event: len + 1).          *)
SoloEventReplaysLast ==
  \A th \in Thread : (Solo(th) /\ pc[th] = "append") =>
    \A i \in DOMAIN ledger :
      (~ledger[i].posted /\ ledger[i].task = local[th].task) => ledger[i].seq < local[th].seq

(* The row a solo transition overwrites is still one it may leave, and no    *)
(* other item changes with it (the decision of transition() is not stale).   *)
SoloTransitionsLegal ==
  [][\A th \in Thread : (UpdateRow(th) /\ Solo(th)) =>
       \A t \in Task : item'[t] # item[t] =>
         t = local[th].task /\ TransitionAllowed(item[t].status, item'[t].status)]_vars

(* A solo lease request writes under the condition it was admitted with:     *)
(* acquire does not overwrite an active lease, renew and release find the    *)
(* lease still active and their client's, unless unregistering that client   *)
(* has removed it (_require_holder before save_task_lease).                  *)
SoloLeaseStepsLegal ==
  [][\A th \in Thread : (SaveTaskLease(th) /\ Solo(th)) =>
       LET t == local[th].task
           kind == local[th].kind
       IN /\ kind = "acquire" => ~Active(t)
          /\ kind \in {"renew", "release"} =>
               lease[t] = NoRow \/ (Active(t) /\ lease[t].client = local[th].row.client)]_vars

-----------------------------------------------------------------------------
(* What the documentation says of every interleaving *)

(* "Duplicate active acquisition returns a policy-shaped denial instead of   *)
(* stealing ownership": an active lease does not change its client.          *)
LeaseNeverStolen ==
  [][\A t \in Task : (Active(t) /\ Active(t)') => lease'[t].client = lease[t].client]_vars

(* "Invalid transitions fail closed, keep the stored work item unchanged":   *)
(* a stored item changes only along the transition table.                    *)
TransitionsFailClosed ==
  [][\A t \in Task : item'[t] # item[t] =>
       TransitionAllowed(item[t].status, item'[t].status)]_vars
=============================================================================
