---------------------------- MODULE ControlPlane ----------------------------
(***************************************************************************)
(* The local control plane, one request at a time: the client registry     *)
(* with its heartbeats, the task leases, the work items with their         *)
(* run/task projection, the scheduler and the stale-client scan, over the  *)
(* tables of the SQLite store.  Each action is a whole request: the checks *)
(* of the service, every row it writes, what the foreign keys do to other  *)
(* rows, and the newest ledger event it leaves for the task.               *)
(*                                                                         *)
(* A request that ends in an exception (a missing row, a foreign key that  *)
(* does not hold) changes nothing and is not a step.                       *)
(***************************************************************************)
EXTENDS Integers, FiniteSets, WorkItemTable

CONSTANTS
  Manifest,        \* manifests a client may register: trust and capabilities
  Requested,       \* [Task -> capability or None]: requested_capability
  Rank,            \* [Task -> Nat]: order of (priority, created_at, work_item_id)
  NewItem,         \* the work items a create request may carry
  MaxAge,          \* heartbeat ages saturate here
  Threshold,       \* values of stale_after_seconds a scan may use
  BeatStatus,      \* statuses a heartbeat may report
  BeatAge          \* ages a heartbeat has on arrival (observed_at is the client's)

RuntimeStatus == {"active", "stale", "disconnected"}
LeaseStatus == {"active", "released", "expired"}   \* "blocked" is never assigned

VARIABLES
  manifest,    \* client_manifests, by client
  heartbeat,   \* client_heartbeats, by client
  lease,       \* task_leases, by task
  item,        \* work_items.payload_json, by work item
  column,      \* work_items.assigned_client_id and .lease_id, by work item
  taskState,   \* run_task_states, by work item
  newest       \* control_plane_events: the latest work_item, policy_denied,
               \* recovery_action or task_lease event of the services, by task
               \* (heartbeat and registry events and those clients post
               \* are left out)

registryVars == <<manifest, heartbeat>>
itemVars == <<item, column, taskState>>
vars == <<manifest, heartbeat, lease, item, column, taskState, newest>>

(* ClientStatusSnapshot as stored; last_heartbeat_at is kept as its age. *)
HeartbeatRow == [status : RuntimeStatus, age : 0..MaxAge, lost : SUBSET Task]
(* TaskLease; no decision of the server reads expires_at. *)
LeaseRow == [client : Client, status : LeaseStatus]
Columns == [assigned : Client \cup {None}, lease : Task \cup {None}]
NoColumns == [assigned |-> None, lease |-> None]

ASSUME ControlPlaneAssumption ==
  /\ None \notin Manifest
  /\ None \notin HeartbeatRow
  /\ None \notin LeaseRow
  /\ Rank \in [Task -> Nat]
  /\ \A t, u \in Task : Rank[t] = Rank[u] => t = u   \* the id breaks every tie
  /\ NewItem \subseteq WorkItem
  /\ MaxAge \in Nat
  /\ Threshold \subseteq Nat
  /\ BeatStatus \subseteq RuntimeStatus
  /\ BeatAge \subseteq 0..MaxAge

TypeOK ==
  /\ manifest \in [Client -> Manifest \cup {None}]
  /\ heartbeat \in [Client -> HeartbeatRow \cup {None}]
  /\ lease \in [Task -> LeaseRow \cup {None}]
  /\ item \in [Task -> WorkItem \cup {None}]
  /\ column \in [Task -> Columns]
  /\ taskState \in [Task -> WorkItem \cup {None}]
  /\ newest \in [Task -> Event \cup {None}]

Init ==
  /\ manifest = [c \in Client |-> None]
  /\ heartbeat = [c \in Client |-> None]
  /\ lease = [t \in Task |-> None]
  /\ item = [t \in Task |-> None]
  /\ column = [t \in Task |-> NoColumns]
  /\ taskState = [t \in Task |-> None]
  /\ newest = [t \in Task |-> None]

Registered(c) == manifest[c] # None
ActiveLease(t) == lease[t] # None /\ lease[t].status = "active"

AppendEvent(t, kind, status) ==
  newest' = [newest EXCEPT ![t] = [kind |-> kind, status |-> status]]

-----------------------------------------------------------------------------
(* Client registry *)

Register(c, m) ==
  /\ ~Registered(c)
  /\ manifest' = [manifest EXCEPT ![c] = m]
  /\ UNCHANGED <<heartbeat, lease, itemVars, newest>>

(* Mutant: the columns of the work items are not set to NULL. *)
Unregister_KeepsColumns(c) ==
  /\ Registered(c)
  /\ manifest' = [manifest EXCEPT ![c] = None]
  /\ heartbeat' = [heartbeat EXCEPT ![c] = None]
  /\ lease' = [t \in Task |->
       IF lease[t] # None /\ lease[t].client = c THEN None ELSE lease[t]]
  /\ UNCHANGED <<itemVars, newest>>

(* DELETE FROM client_manifests: the heartbeat and the leases of the client *)
(* cascade away; work_items columns that named them become NULL, while      *)
(* payload_json keeps the old ids.                                          *)
Unregister(c) ==
  LET gone == {t \in Task : lease[t] # None /\ lease[t].client = c}
  IN /\ Registered(c)
     /\ manifest' = [manifest EXCEPT ![c] = None]
     /\ heartbeat' = [heartbeat EXCEPT ![c] = None]
     /\ lease' = [t \in Task |-> IF t \in gone THEN None ELSE lease[t]]
     /\ column' = [t \in Task |->
          [assigned |-> IF column[t].assigned = c THEN None ELSE column[t].assigned,
           lease    |-> IF column[t].lease \in gone THEN None ELSE column[t].lease]]
     /\ UNCHANGED <<item, taskState, newest>>

(* Mutant: the first heartbeat inserts no lost_task_leases_json. *)
Heartbeat_NoLostList(c, status, age) ==
  /\ Registered(c)
  /\ heartbeat' = [heartbeat EXCEPT ![c] = [status |-> status, age |-> age]]
  /\ UNCHANGED <<manifest, lease, itemVars, newest>>

(* The upsert of a heartbeat leaves lost_task_leases_json of an existing row. *)
Heartbeat(c, status, age) ==
  /\ Registered(c)
  /\ heartbeat' = [heartbeat EXCEPT ![c] =
       [status |-> status, age |-> age,
        lost |-> IF heartbeat[c] = None THEN {} ELSE heartbeat[c].lost]]
  /\ UNCHANGED <<manifest, lease, itemVars, newest>>

(* Environment: time passes for every heartbeat row. *)
Tick ==
  /\ heartbeat' = [c \in Client |->
       IF heartbeat[c] # None /\ heartbeat[c].age < MaxAge
       THEN [heartbeat[c] EXCEPT !.age = @ + 1]
       ELSE heartbeat[c]]
  /\ UNCHANGED <<manifest, lease, itemVars, newest>>

-----------------------------------------------------------------------------
(* Task leases *)

SaveTaskLease(t, c, status) ==
  /\ Registered(c)
  /\ lease' = [lease EXCEPT ![t] = [client |-> c, status |-> status]]

(* Mutant: an existing active lease is not looked at. *)
Acquire_Steals(t, c) ==
  /\ SaveTaskLease(t, c, "active")
  /\ AppendEvent(t, "task_lease", "active")
  /\ UNCHANGED <<registryVars, itemVars>>

Acquire(t, c) ==
  /\ Registered(c)
  /\ \/ /\ ActiveLease(t)
        /\ AppendEvent(t, "task_lease", "blocked")
        /\ UNCHANGED lease
     \/ /\ ~ActiveLease(t)
        /\ SaveTaskLease(t, c, "active")
        /\ AppendEvent(t, "task_lease", "active")
  /\ UNCHANGED <<registryVars, itemVars>>

(* _require_holder *)
HeldBy(t, c) == ActiveLease(t) /\ lease[t].client = c

Renew(t, c) ==
  /\ HeldBy(t, c)
  /\ SaveTaskLease(t, c, "active")
  /\ AppendEvent(t, "task_lease", "active")
  /\ UNCHANGED <<registryVars, itemVars>>

Release(t, c) ==
  /\ HeldBy(t, c)
  /\ SaveTaskLease(t, c, "released")
  /\ AppendEvent(t, "task_lease", "passed")
  /\ UNCHANGED <<registryVars, itemVars>>

(* The expire route looks neither at the status nor at expires_at. *)
Expire(t) ==
  /\ lease[t] # None
  /\ SaveTaskLease(t, lease[t].client, "expired")
  /\ AppendEvent(t, "task_lease", "stale")
  /\ UNCHANGED <<registryVars, itemVars>>

-----------------------------------------------------------------------------
(* Work items *)

(* Mutant: assigned_client_id is not a foreign key. *)
ForeignKeysHold_LeaseOnly(p) == p.lease # None => lease[p.lease] # None

ForeignKeysHold(p) ==
  /\ p.assigned # None => Registered(p.assigned)
  /\ p.lease # None => lease[p.lease] # None

(* Mutant: the run/task projection is only written for a new item. *)
StoreWorkItem_SkipsProjection(t, p) ==
  /\ ForeignKeysHold(p)
  /\ item' = [item EXCEPT ![t] = p]
  /\ column' = [column EXCEPT ![t] = [assigned |-> p.assigned, lease |-> p.lease]]
  /\ taskState' = IF item[t] = None THEN [taskState EXCEPT ![t] = FromWorkItem(p)]
                                    ELSE taskState

(* save_work_item and update_work_item: the row, its foreign-key columns and *)
(* the run/task projection, all from the same payload.                       *)
StoreWorkItem(t, p) ==
  /\ ForeignKeysHold(p)
  /\ item' = [item EXCEPT ![t] = p]
  /\ column' = [column EXCEPT ![t] = [assigned |-> p.assigned, lease |-> p.lease]]
  /\ taskState' = [taskState EXCEPT ![t] = FromWorkItem(p)]

Create(t, p) ==
  /\ item[t] = None
  /\ StoreWorkItem(t, p)
  /\ AppendEvent(t, "work_item", EventStatus(p.status))
  /\ UNCHANGED <<registryVars, lease>>

(* A refused request leaves only its policy_denied event. *)
Deny(t) ==
  /\ AppendEvent(t, "policy_denied", "blocked")
  /\ UNCHANGED <<registryVars, lease, itemVars>>

(* Mutant: the event reports the status the item was loaded with. *)
Transition_OldStatusEvent(t, target, client, leaseId) ==
  /\ item[t] # None
  /\ TransitionAllowed(item[t].status, target)
  /\ StoreWorkItem(t, TransitionedItem(item[t], target, client, leaseId))
  /\ AppendEvent(t, "work_item", EventStatus(item[t].status))
  /\ UNCHANGED <<registryVars, lease>>

Transition(t, target, client, leaseId) ==
  /\ item[t] # None
  /\ \/ /\ ~TransitionAllowed(item[t].status, target)
        /\ Deny(t)
     \/ /\ TransitionAllowed(item[t].status, target)
        /\ StoreWorkItem(t, TransitionedItem(item[t], target, client, leaseId))
        /\ AppendEvent(t, "work_item", EventStatus(target))
        /\ UNCHANGED <<registryVars, lease>>

Assign(t, c, leaseId) == Transition(t, "assigned", c, leaseId)
Queue(t)        == Transition(t, "queued", None, None)
Start(t)        == Transition(t, "running", None, None)
Block(t)        == Transition(t, "blocked", None, None)
WaitForHuman(t) == Transition(t, "waiting_for_human", None, None)
Verify(t)       == Transition(t, "verifying", None, None)
Approve(t)      == Transition(t, "approved", None, None)
Complete(t)     == Transition(t, "completed", None, None)
Fail(t)         == Transition(t, "failed", None, None)
Cancel(t)       == Transition(t, "cancelled", None, None)
Requeue(t)      == Transition(t, "requeued", None, None)

-----------------------------------------------------------------------------
(* Scheduler.  Eligibility reads the stored status of the heartbeat row hb,  *)
(* the ordering counts active leases in ls; the remaining tie is broken by   *)
(* display name and id, here by any choice.                                  *)

Schedulable == {"queued", "requeued"}

Supports(c, t) == Requested[t] = None \/ Requested[t] \in manifest[c].caps

Eligible(t, hb) ==
  {c \in Client : /\ Registered(c)
                  /\ hb[c] # None
                  /\ hb[c].status = "active"
                  /\ manifest[c].trust = "trusted"
                  /\ Supports(c, t)}

LeaseCount(c, ls) ==
  Cardinality({t \in Task : ls[t] # None /\ ls[t].client = c /\ ls[t].status = "active"})

Preferred(t, hb, ls) ==
  {c \in Eligible(t, hb) : \A d \in Eligible(t, hb) : LeaseCount(c, ls) <= LeaseCount(d, ls)}

ScheduleWorkItem(t) ==
  /\ item[t] # None
  /\ \/ /\ item[t].status \notin Schedulable \/ Eligible(t, heartbeat) = {}
        /\ Deny(t)
     \/ /\ item[t].status \in Schedulable
        /\ \E c \in Preferred(t, heartbeat, lease) : Assign(t, c, None)

(* Mutant: the list is read from its end. *)
ScheduleNext_LastFirst ==
  LET candidates == {t \in Task : item[t] # None /\ item[t].status \in Schedulable}
  IN \E t \in candidates :
       /\ \A u \in candidates : Rank[t] >= Rank[u]
       /\ ScheduleWorkItem(t)

(* schedule_next: only the first schedulable item, in list_work_items order; *)
(* all items are of one run, so its run_id filter keeps every one of them.   *)
ScheduleNext ==
  LET candidates == {t \in Task : item[t] # None /\ item[t].status \in Schedulable}
  IN \E t \in candidates :
       /\ \A u \in candidates : Rank[t] <= Rank[u]
       /\ ScheduleWorkItem(t)

-----------------------------------------------------------------------------
(* Stale-client scan *)

Recoverable == {"assigned", "running", "blocked", "waiting_for_human", "verifying"}

Stale(threshold) ==
  {c \in Client : /\ Registered(c)
                  /\ heartbeat[c] # None
                  /\ heartbeat[c].status # "disconnected"
                  /\ heartbeat[c].age > threshold}

(* Mutant: work under verification is not recovered. *)
Abandoned_NotVerifying(S) ==
  {t \in Task : /\ item[t] # None
                /\ column[t].assigned \in S
                /\ item[t].status \in Recoverable \ {"verifying"}}

(* list_work_items(assigned_client_id=c) filters by the column and returns   *)
(* the payload.                                                              *)
Abandoned(S) ==
  {t \in Task : item[t] # None /\ column[t].assigned \in S /\ item[t].status \in Recoverable}

(* expire_task_leases_for_client, over the whole scan *)
ExpiredLeases(S) ==
  [t \in Task |-> IF ActiveLease(t) /\ lease[t].client \in S
                  THEN [lease[t] EXCEPT !.status = "expired"]
                  ELSE lease[t]]

(* mark_client_stale: the lost leases are the ones this scan expired. *)
MarkedStale(S) ==
  [c \in Client |-> IF c \in S
                    THEN [heartbeat[c] EXCEPT !.status = "stale",
                            !.lost = {t \in Task : HeldBy(t, c)}]
                    ELSE heartbeat[c]]

(* Mutant: the scheduler sees the heartbeats as they were before the marking. *)
Reassignments_BeforeMarking(S, auto) ==
  {pick \in [Abandoned(S) -> Client \cup {None}] : \A t \in Abandoned(S) :
     LET best == Preferred(t, heartbeat, lease)
     IN IF auto /\ best # {} THEN pick[t] \in best ELSE pick[t] = None}

(* The client an abandoned item goes to, None if it stays requeued: with     *)
(* auto_reassign the scheduler runs on the state after all clients of the    *)
(* scan have been marked.                                                    *)
Reassignments(S, auto) ==
  {pick \in [Abandoned(S) -> Client \cup {None}] : \A t \in Abandoned(S) :
     LET best == Preferred(t, MarkedStale(S), ExpiredLeases(S))
     IN IF auto /\ best # {} THEN pick[t] \in best ELSE pick[t] = None}

Recovered(p, c) ==
  LET requeued == TransitionedItem(p, "requeued", None, None)
  IN IF c = None THEN requeued ELSE TransitionedItem(requeued, "assigned", c, None)

(* requeue and recovery_action events, then assignment or denial by the scheduler *)
RecoveryEvent(c, auto) ==
  CASE c # None          -> [kind |-> "work_item", status |-> "active"]
    [] c = None /\ auto  -> [kind |-> "policy_denied", status |-> "blocked"]
    [] OTHER             -> [kind |-> "recovery_action", status |-> "active"]

(* requeue and, with auto_reassign, schedule_work_item of the abandoned items *)
RecoverItems(S, auto, pick) ==
  LET new == [t \in Task |-> IF t \in Abandoned(S) THEN Recovered(item[t], pick[t])
                             ELSE item[t]]
  IN /\ item' = new
     /\ column' = [t \in Task |->
          IF t \in Abandoned(S) THEN [assigned |-> new[t].assigned, lease |-> new[t].lease]
          ELSE column[t]]
     /\ taskState' = [t \in Task |->
          IF t \in Abandoned(S) THEN FromWorkItem(new[t]) ELSE taskState[t]]
     /\ newest' = [t \in Task |->
          IF t \in Abandoned(S) THEN RecoveryEvent(pick[t], auto) ELSE newest[t]]

(* Marks the clients in S, expires their leases and recovers their work. *)
RecoverFrom(S, auto) ==
  /\ heartbeat' = MarkedStale(S)
  /\ lease' = ExpiredLeases(S)
  /\ \E pick \in Reassignments(S, auto) : RecoverItems(S, auto, pick)
  /\ UNCHANGED manifest

(* Mutant: clients already marked stale are not scanned again. *)
StaleScan_SkipsMarked(threshold, auto) ==
  LET S == {c \in Stale(threshold) : heartbeat[c].status # "stale"}
  IN S # {} /\ RecoverFrom(S, auto)

StaleScan(threshold, auto) ==
  /\ Stale(threshold) # {}
  /\ RecoverFrom(Stale(threshold), auto)

-----------------------------------------------------------------------------

(* What a connector asks of its own work through the SDK: accept_work,       *)
(* reject_work, block_work, complete_work, fail_work.                        *)
ConnectorRequest(t) == Start(t) \/ Requeue(t) \/ Block(t) \/ Complete(t) \/ Fail(t)

(* The server's routes offer the same and the rest.                          *)
WorkItemRequest(t) ==
  \/ \E p \in NewItem : Create(t, p)
  \/ \E c \in Client, leaseId \in Task \cup {None} : Assign(t, c, leaseId)
  \/ Queue(t) \/ WaitForHuman(t) \/ Verify(t) \/ Approve(t) \/ Cancel(t)
  \/ ConnectorRequest(t)
  \/ ScheduleWorkItem(t)

LeaseRequest(t) ==
  \/ \E c \in Client : Acquire(t, c) \/ Renew(t, c) \/ Release(t, c)
  \/ Expire(t)

ClientRequest(c) ==
  \/ \E m \in Manifest : Register(c, m)
  \/ Unregister(c)
  \/ \E status \in BeatStatus, age \in BeatAge : Heartbeat(c, status, age)

Scan == \E threshold \in Threshold, auto \in BOOLEAN : StaleScan(threshold, auto)

Next ==
  \/ \E c \in Client : ClientRequest(c)
  \/ \E t \in Task : LeaseRequest(t) \/ WorkItemRequest(t)
  \/ ScheduleNext
  \/ Scan
  \/ Tick

Spec == Init /\ [][Next]_vars

-----------------------------------------------------------------------------
(* Safety *)

(* Every row the store holds is anchored: heartbeats and leases belong to    *)
(* registered clients, and a foreign-key column of a work item either is     *)
(* NULL or names a live row and the same id as the payload.                  *)
(* (store.py: ON DELETE CASCADE / SET NULL against payload_json)             *)
StoreIntegrity ==
  /\ \A c \in Client : heartbeat[c] # None => Registered(c)
  /\ \A t \in Task :
       /\ lease[t] # None => Registered(lease[t].client)
       /\ column[t].assigned # None =>
            /\ Registered(column[t].assigned)
            /\ item[t] # None
            /\ item[t].assigned = column[t].assigned
       /\ column[t].lease # None =>
            /\ lease[column[t].lease] # None
            /\ item[t] # None
            /\ item[t].lease = column[t].lease

(* run_task_states holds, for each work item, exactly what from_work_item    *)
(* makes of the stored payload, after every request and whatever the foreign *)
(* keys did to the columns.                                                  *)
ProjectionInSync ==
  \A t \in Task : taskState[t] = IF item[t] = None THEN None ELSE FromWorkItem(item[t])

(* Replaying the ledger agrees with the store: if the last event of a task   *)
(* is a work_item event its status is that of the stored item, and if it is  *)
(* a recovery_action the item is back in the queue without an owner.         *)
LedgerAgrees ==
  \A t \in Task : newest[t] # None =>
    /\ newest[t].kind = "work_item" =>
         item[t] # None /\ newest[t].status = EventStatus(item[t].status)
    /\ newest[t].kind = "recovery_action" =>
         item[t] = [status |-> "requeued", assigned |-> None, lease |-> None]

-----------------------------------------------------------------------------
(* What a step may never do *)

(* A stale scan leaves nothing behind: no item in progress and no active     *)
(* lease is charged to a client the scan found stale, not even one that      *)
(* auto_reassign handed out again (all clients are marked before the         *)
(* scheduler runs).                                                          *)
ScanStrandsNothing ==
  [][\A threshold \in Threshold, auto \in BOOLEAN :
       StaleScan(threshold, auto) =>
         \A c \in Stale(threshold), t \in Task :
           /\ ~(column'[t].assigned = c /\ item'[t].status \in Recoverable)
           /\ ~(lease'[t] # None /\ lease'[t].client = c /\ lease'[t].status = "active")]_vars

(* An item the scan assigns again goes to a trusted client whose heartbeat   *)
(* is within the threshold of that very scan.                                *)
ScanReassignsToLiveClients ==
  [][\A threshold \in Threshold, auto \in BOOLEAN :
       StaleScan(threshold, auto) =>
         \A t \in Task : (item'[t] # item[t] /\ item'[t].status = "assigned") =>
           LET c == item'[t].assigned
           IN /\ manifest[c].trust = "trusted"
              /\ heartbeat[c].age <= threshold]_vars

(* Completed and cancelled work is final: no transition, schedule, scan or   *)
(* unregistration changes the stored item or its projection any more.        *)
TerminalIsFinal ==
  [][\A t \in Task : (item[t] # None /\ item[t].status \in Terminal) =>
       item'[t] = item[t] /\ taskState'[t] = taskState[t]]_vars

Orphaned(t) ==
  item[t] # None /\ item[t].assigned # None /\ ~Registered(item[t].assigned)

(* Work whose owner has unregistered is frozen by the foreign key on the id  *)
(* its payload still carries: it moves only by being requeued or given to    *)
(* another client, so approved work, which allows neither, cannot complete.  *)
OrphanedWorkFrozen ==
  [][\A t \in Task : Orphaned(t) =>
       \/ item'[t] = item[t]
       \/ item'[t].status = "requeued"
       \/ item'[t].status = "assigned" /\ item'[t].assigned # item[t].assigned]_vars

(* The leases implement the abstract lease table: one holder per task, and   *)
(* never a hand-over without the lease having been given up in between.      *)
(* (acquire, renew, release, expire, mark_client_stale, unregister)          *)
holder == [t \in Task |-> IF ActiveLease(t) THEN lease[t].client ELSE None]
Leases == INSTANCE LeaseTable
            WITH holder <- holder, Client <- Client, Task <- Task, None <- None
LeaseRefinement == Leases!Spec

-----------------------------------------------------------------------------
(* Liveness *)

Silent(c) == \A threshold \in Threshold : c \in Stale(threshold)

(* Work in progress on a client that stays silent is eventually taken away   *)
(* from it, as long as scans keep coming.                                    *)
AbandonedWorkRecovered ==
  \A c \in Client, t \in Task :
    (t \in Abandoned({c}) /\ Silent(c)) ~> ~(t \in Abandoned({c}) /\ Silent(c))

(* The item at the head of the queue is waiting for a client, one is         *)
(* eligible, and the lease its payload names (if any) still exists.          *)
HeadIsSchedulable(t) ==
  /\ item[t] # None /\ item[t].status \in Schedulable
  /\ \A u \in Task : (item[u] # None /\ item[u].status \in Schedulable) => Rank[t] <= Rank[u]
  /\ Eligible(t, heartbeat) # {}
  /\ item[t].lease # None => lease[item[t].lease] # None

(* The head of the queue does not wait for ever while it can be scheduled.   *)
(* A dangling lease id is excepted: the update then violates the foreign key *)
(* on every attempt.                                                         *)
HeadOfQueueScheduled ==
  \A t \in Task : HeadIsSchedulable(t) ~> ~HeadIsSchedulable(t)

-----------------------------------------------------------------------------
(* What the documentation says and the scan does not do *)

(* "Stale scans mark clients stale when the last heartbeat is older than the *)
(* configured threshold ... requeue assigned or in-progress work items".     *)
ScanCoversEverySilentClient ==
  [][\A threshold \in Threshold, auto \in BOOLEAN :
       StaleScan(threshold, auto) =>
         \A c \in Client : (heartbeat[c] # None /\ heartbeat[c].age > threshold) =>
           \A t \in Task : ~(column'[t].assigned = c /\ item'[t].status \in Recoverable)]_vars

(* "... clear abandoned work ownership": after a scan no item in progress    *)
(* names, as its assigned client, a client the scan found stale.             *)
ScanClearsOwnership ==
  [][\A threshold \in Threshold, auto \in BOOLEAN :
       StaleScan(threshold, auto) =>
         \A c \in Stale(threshold), t \in Task :
           item'[t] # None => ~(item'[t].assigned = c /\ item'[t].status \in Recoverable)]_vars
=============================================================================
