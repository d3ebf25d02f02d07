------------------------- MODULE ControlPlaneProofs -------------------------
(***************************************************************************)
(* Theorems about ControlPlane, for any sets of clients and tasks, any     *)
(* manifests, ranks, thresholds and heartbeat ages.  Three conjuncts of    *)
(* the inductive invariant are proved one after the other: the types, the  *)
(* anchoring of rows, and the agreement of the projection and the ledger   *)
(* with the stored items.  Every proof goes through the actions by the     *)
(* list of StepCases.                                                      *)
(***************************************************************************)
EXTENDS ControlPlane, TLAPS

-----------------------------------------------------------------------------
(* The data: what the helpers of WorkItemTable return *)

(* A transition of a work item yields a work item with the target's status   *)
(* (WorkItemService.transition, update_work_item).                           *)
LEMMA TransitionedItemType ==
  ASSUME NEW p \in WorkItem, NEW target \in WorkItemStatus,
         NEW client \in Client \cup {None}, NEW leaseId \in Task \cup {None}
  PROVE  /\ TransitionedItem(p, target, client, leaseId) \in WorkItem
         /\ TransitionedItem(p, target, client, leaseId).status = target
BY DEF TransitionedItem, UpdateWorkItem, Keep, WorkItem

(* A requeue clears the owner and the lease (transition, requeue branch). *)
LEMMA RequeuedItem ==
  ASSUME NEW p, NEW client, NEW leaseId
  PROVE  TransitionedItem(p, "requeued", client, leaseId)
           = [status |-> "requeued", assigned |-> None, lease |-> None]
BY DEF TransitionedItem

(* Giving a requeued item to a client sets just the owner. *)
LEMMA ReassignedItem ==
  ASSUME NEW p, NEW c \in Client
  PROVE  Recovered(p, c) = [status |-> "assigned", assigned |-> c, lease |-> None]
BY NoneAssumption DEF Recovered, TransitionedItem, UpdateWorkItem, Keep

(* What a scan makes of an abandoned item is a work item, in the status the  *)
(* choice of a client says (_recover_stale_work_items, auto_reassign).       *)
LEMMA RecoveredItem ==
  ASSUME NEW p, NEW c \in Client \cup {None}
  PROVE  /\ Recovered(p, c) \in WorkItem
         /\ Recovered(p, c).assigned = c
         /\ Recovered(p, c).lease = None
         /\ Recovered(p, c).status = IF c = None THEN "requeued" ELSE "assigned"
<1>1. CASE c = None
  BY <1>1, RequeuedItem DEF Recovered, WorkItem, WorkItemStatus
<1>2. CASE c # None
  <2>1. c \in Client
    BY <1>2
  <2> QED
    BY <1>2, <2>1, ReassignedItem DEF WorkItem, WorkItemStatus
<1> QED
  BY <1>1, <1>2

(* Every status of a work item has an event status (_event_status). *)
LEMMA EventStatusType == \A s : EventStatus(s) \in EventStatuses
BY DEF EventStatus, EventStatuses

(* RunTaskState.from_work_item carries every modelled field of the payload. *)
LEMMA FromWorkItemIdentity == \A p \in WorkItem : FromWorkItem(p) = p
BY DEF FromWorkItem, WorkItem

-----------------------------------------------------------------------------
(* The steps *)

(* Only an assignment names a client. *)
ItemStep(t) ==
  \/ \E p \in NewItem : Create(t, p)
  \/ \E target \in WorkItemStatus, client \in Client \cup {None},
        leaseId \in Task \cup {None} :
       /\ target # "assigned" => client = None
       /\ Transition(t, target, client, leaseId)
  \/ Deny(t)

(* A request of the scheduler for one item assigns it or is denied. *)
LEMMA ScheduleIsItemStep ==
  ASSUME NEW t \in Task, ScheduleWorkItem(t)
  PROVE  ItemStep(t)
<1>1. CASE Deny(t)
  BY <1>1 DEF ItemStep
<1>2. CASE \E c \in Preferred(t, heartbeat, lease) : Assign(t, c, None)
  <2>1. PICK c \in Preferred(t, heartbeat, lease) : Assign(t, c, None)
    BY <1>2
  <2>2. c \in Client /\ "assigned" \in WorkItemStatus
    BY DEF Preferred, Eligible, WorkItemStatus
  <2> QED
    BY <2>1, <2>2 DEF ItemStep, Assign
<1> QED
  BY <1>1, <1>2 DEF ScheduleWorkItem

(* Every route that changes a work item creates, transitions or denies. *)
LEMMA RequestIsItemStep ==
  ASSUME NEW t \in Task, WorkItemRequest(t)
  PROVE  ItemStep(t)
<1>1. CASE \E p \in NewItem : Create(t, p)
  BY <1>1 DEF ItemStep
<1>2. CASE \E c \in Client, leaseId \in Task \cup {None} : Assign(t, c, leaseId)
  BY <1>2 DEF ItemStep, Assign, WorkItemStatus
<1>3. CASE \E target \in WorkItemStatus : Transition(t, target, None, None)
  BY <1>3 DEF ItemStep
<1>4. CASE ScheduleWorkItem(t)
  BY <1>4, ScheduleIsItemStep
<1>5. (Queue(t) \/ Start(t) \/ Block(t) \/ WaitForHuman(t) \/ Verify(t) \/ Approve(t)
        \/ Complete(t) \/ Fail(t) \/ Cancel(t) \/ Requeue(t))
      => \E target \in WorkItemStatus : Transition(t, target, None, None)
  BY DEF Queue, Start, Block, WaitForHuman, Verify, Approve, Complete, Fail, Cancel,
         Requeue, WorkItemStatus
<1> QED
  BY <1>1, <1>2, <1>3, <1>4, <1>5 DEF WorkItemRequest, ConnectorRequest

(* The cases of a step, as the proofs below go through them. *)
LEMMA StepCases ==
  ASSUME [Next]_vars
  PROVE  \/ \E c \in Client, m \in Manifest : Register(c, m)
         \/ \E c \in Client : Unregister(c)
         \/ \E c \in Client, status \in BeatStatus, age \in BeatAge : Heartbeat(c, status, age)
         \/ Tick
         \/ \E t \in Task, c \in Client : Acquire(t, c) \/ Renew(t, c) \/ Release(t, c)
         \/ \E t \in Task : Expire(t)
         \/ \E t \in Task : ItemStep(t)
         \/ \E threshold \in Threshold, auto \in BOOLEAN : RecoverFrom(Stale(threshold), auto)
         \/ UNCHANGED vars
<1>1. CASE \E c \in Client : ClientRequest(c)
  BY <1>1 DEF ClientRequest
<1>2. CASE \E t \in Task : LeaseRequest(t)
  BY <1>2 DEF LeaseRequest
<1>3. CASE \E t \in Task : WorkItemRequest(t)
  BY <1>3, RequestIsItemStep
<1>4. CASE ScheduleNext
  BY <1>4, ScheduleIsItemStep DEF ScheduleNext
<1>5. CASE Scan
  BY <1>5 DEF Scan, StaleScan
<1> QED
  BY <1>1, <1>2, <1>3, <1>4, <1>5 DEF Next

-----------------------------------------------------------------------------
(* Types *)

(* The clients the scheduler may choose are registered. *)
LEMMA PickType ==
  ASSUME NEW S, NEW auto, NEW pick \in Reassignments(S, auto)
  PROVE  /\ pick \in [Abandoned(S) -> Client \cup {None}]
         /\ \A t \in Abandoned(S) : pick[t] # None => Registered(pick[t])
BY DEF Reassignments, Preferred, Eligible

(* A create or transition step of one item, or its denial, keeps the      *)
(* types.                                                                 *)
LEMMA ItemStepTypeOK ==
  ASSUME TypeOK, NEW t \in Task, ItemStep(t)
  PROVE  TypeOK'
<1>1. ASSUME NEW p \in WorkItem, StoreWorkItem(t, p)
      PROVE  /\ item' \in [Task -> WorkItem \cup {None}]
             /\ column' \in [Task -> Columns]
             /\ taskState' \in [Task -> WorkItem \cup {None}]
  <2>1. [assigned |-> p.assigned, lease |-> p.lease] \in Columns
    BY DEF WorkItem, Columns
  <2>2. FromWorkItem(p) \in WorkItem
    BY FromWorkItemIdentity
  <2> QED
    BY <1>1, <2>1, <2>2 DEF TypeOK, StoreWorkItem
<1>2. ASSUME NEW kind \in EventKind, NEW status \in EventStatuses, AppendEvent(t, kind, status)
      PROVE  newest' \in [Task -> Event \cup {None}]
  <2>1. [kind |-> kind, status |-> status] \in Event
    BY DEF Event
  <2> QED
    BY <1>2, <2>1 DEF TypeOK, AppendEvent
<1>3. {"work_item", "policy_denied"} \subseteq EventKind /\ "blocked" \in EventStatuses
  BY DEF EventKind, EventStatuses
<1>4. CASE \E p \in NewItem : Create(t, p)
  <2>1. PICK p \in NewItem : Create(t, p)
    BY <1>4
  <2>2. p \in WorkItem
    BY ControlPlaneAssumption
  <2> QED
    BY <1>1, <1>2, <1>3, <2>1, <2>2, EventStatusType DEF Create, TypeOK, registryVars
<1>5. CASE Deny(t)
  BY <1>2, <1>3, <1>5 DEF Deny, TypeOK, registryVars, itemVars
<1>6. CASE \E target \in WorkItemStatus, client \in Client \cup {None},
              leaseId \in Task \cup {None} : Transition(t, target, client, leaseId)
  <2>1. PICK target \in WorkItemStatus, client \in Client \cup {None},
             leaseId \in Task \cup {None} : Transition(t, target, client, leaseId)
    BY <1>6
  <2>2. item[t] \in WorkItem
    BY <2>1 DEF Transition, TypeOK
  <2>3. TransitionedItem(item[t], target, client, leaseId) \in WorkItem
    BY <2>2, TransitionedItemType
  <2>4. CASE Deny(t)
    BY <1>5, <2>4
  <2>5. CASE ~Deny(t)
    BY <1>1, <1>2, <1>3, <2>1, <2>3, <2>5, EventStatusType DEF Transition, TypeOK, registryVars
  <2> QED
    BY <2>4, <2>5
<1> QED
  BY <1>4, <1>5, <1>6 DEF ItemStep

(* A stale scan that recovers the work of the clients in S keeps the      *)
(* types.                                                                 *)
LEMMA RecoverTypeOK ==
  ASSUME TypeOK, NEW threshold \in Threshold, NEW auto \in BOOLEAN,
         RecoverFrom(Stale(threshold), auto)
  PROVE  TypeOK'
<1> DEFINE S == Stale(threshold)
<1>1. heartbeat' \in [Client -> HeartbeatRow \cup {None}]
  <2>1. ASSUME NEW c \in S
        PROVE  [heartbeat[c] EXCEPT !.status = "stale", !.lost = {t \in Task : HeldBy(t, c)}]
                 \in HeartbeatRow
    <3>1. c \in Client /\ heartbeat[c] \in HeartbeatRow
      BY DEF Stale, TypeOK
    <3> QED
      BY <3>1 DEF HeartbeatRow, RuntimeStatus
  <2> HIDE DEF S
  <2>2. heartbeat' = MarkedStale(S)
    BY DEF RecoverFrom, S
  <2> QED
    BY <2>1, <2>2 DEF MarkedStale, TypeOK
<1>2. lease' \in [Task -> LeaseRow \cup {None}]
  <2>1. ASSUME NEW t \in Task, ActiveLease(t)
        PROVE  [lease[t] EXCEPT !.status = "expired"] \in LeaseRow
    <3>1. lease[t] \in LeaseRow
      BY <2>1 DEF ActiveLease, TypeOK
    <3> QED
      BY <3>1 DEF LeaseRow, LeaseStatus
  <2> QED
    BY <2>1 DEF RecoverFrom, ExpiredLeases, TypeOK
<1>3. PICK pick \in Reassignments(S, auto) : RecoverItems(S, auto, pick)
  BY DEF RecoverFrom
<1>4. ASSUME NEW t \in Abandoned(S)
      PROVE  /\ Recovered(item[t], pick[t]) \in WorkItem
             /\ RecoveryEvent(pick[t], auto) \in Event
  <2>1. pick[t] \in Client \cup {None}
    BY PickType
  <2>2. RecoveryEvent(pick[t], auto) \in Event
    BY DEF RecoveryEvent, Event, EventKind, EventStatuses
  <2> QED
    BY <2>1, <2>2, RecoveredItem
<1>5. item' \in [Task -> WorkItem \cup {None}] /\ taskState' \in [Task -> WorkItem \cup {None}]
  BY <1>3, <1>4, FromWorkItemIdentity DEF RecoverItems, TypeOK
<1>6. column' \in [Task -> Columns]
  <2>1. \A p \in WorkItem : [assigned |-> p.assigned, lease |-> p.lease] \in Columns
    BY DEF WorkItem, Columns
  <2> QED
    BY <1>3, <1>4, <2>1 DEF RecoverItems, TypeOK
<1>7. newest' \in [Task -> Event \cup {None}]
  BY <1>3, <1>4 DEF RecoverItems, TypeOK
<1>8. manifest' = manifest
  BY DEF RecoverFrom
<1> QED
  BY <1>1, <1>2, <1>5, <1>6, <1>7, <1>8 DEF TypeOK

(* A step that saves one lease row or only logs keeps the types.          *)
LEMMA LeaseStepTypeOK ==
  ASSUME TypeOK, NEW t \in Task, NEW c \in Client, NEW status \in LeaseStatus,
         NEW reported \in EventStatuses,
         lease' = lease \/ SaveTaskLease(t, c, status),
         AppendEvent(t, "task_lease", reported),
         UNCHANGED <<registryVars, itemVars>>
  PROVE  TypeOK'
<1>1. lease' \in [Task -> LeaseRow \cup {None}]
  BY DEF SaveTaskLease, LeaseRow, TypeOK
<1>2. newest' \in [Task -> Event \cup {None}]
  BY DEF AppendEvent, Event, EventKind, TypeOK
<1> QED
  BY <1>1, <1>2 DEF TypeOK, registryVars, itemVars

(* The rows of the store keep their types in every step of a request. *)
LEMMA TypeOKStep == TypeOK /\ [Next]_vars => TypeOK'
<1> SUFFICES ASSUME TypeOK, [Next]_vars
             PROVE  TypeOK'
  OBVIOUS
<1>1. CASE \E c \in Client, m \in Manifest : Register(c, m)
  BY <1>1 DEF Register, TypeOK, itemVars
<1>2. CASE \E c \in Client : Unregister(c)
  <2>1. PICK c \in Client : Unregister(c)
    BY <1>2
  <2>2. manifest' \in [Client -> Manifest \cup {None}]
        /\ heartbeat' \in [Client -> HeartbeatRow \cup {None}]
        /\ lease' \in [Task -> LeaseRow \cup {None}]
    BY <2>1 DEF Unregister, TypeOK
  <2>3. column' \in [Task -> Columns]
    BY <2>1 DEF Unregister, TypeOK, Columns
  <2> QED
    BY <2>1, <2>2, <2>3 DEF Unregister, TypeOK
<1>3. CASE \E c \in Client, status \in BeatStatus, age \in BeatAge : Heartbeat(c, status, age)
  <2>1. PICK c \in Client, status \in BeatStatus, age \in BeatAge : Heartbeat(c, status, age)
    BY <1>3
  <2>2. [status |-> status, age |-> age,
         lost |-> IF heartbeat[c] = None THEN {} ELSE heartbeat[c].lost] \in HeartbeatRow
    BY ControlPlaneAssumption DEF TypeOK, HeartbeatRow
  <2> QED
    BY <2>1, <2>2 DEF Heartbeat, TypeOK, itemVars
<1>4. CASE Tick
  <2>1. ASSUME NEW c \in Client, heartbeat[c] # None, heartbeat[c].age < MaxAge
        PROVE  [heartbeat[c] EXCEPT !.age = @ + 1] \in HeartbeatRow
    <3>1. heartbeat[c] \in HeartbeatRow
      BY <2>1 DEF TypeOK
    <3> QED
      BY <2>1, <3>1, ControlPlaneAssumption DEF HeartbeatRow
  <2> QED
    BY <1>4, <2>1 DEF Tick, TypeOK, itemVars
<1>5. CASE \E t \in Task, c \in Client : Acquire(t, c) \/ Renew(t, c) \/ Release(t, c)
  <2>1. {"active", "blocked", "passed"} \subseteq EventStatuses
        /\ {"active", "released"} \subseteq LeaseStatus
    BY DEF EventStatuses, LeaseStatus
  <2>2. PICK t \in Task, c \in Client : Acquire(t, c) \/ Renew(t, c) \/ Release(t, c)
    BY <1>5
  <2>3. \E status \in LeaseStatus, reported \in EventStatuses :
          /\ lease' = lease \/ SaveTaskLease(t, c, status)
          /\ AppendEvent(t, "task_lease", reported)
          /\ UNCHANGED <<registryVars, itemVars>>
    BY <2>1, <2>2 DEF Acquire, Renew, Release
  <2> QED
    BY <2>3, LeaseStepTypeOK
<1>6. CASE \E t \in Task : Expire(t)
  <2>1. PICK t \in Task : Expire(t)
    BY <1>6
  <2>2. lease[t].client \in Client /\ "expired" \in LeaseStatus /\ "stale" \in EventStatuses
    BY <2>1 DEF Expire, TypeOK, LeaseRow, LeaseStatus, EventStatuses
  <2> QED
    BY <2>1, <2>2, LeaseStepTypeOK DEF Expire
<1>7. CASE \E t \in Task : ItemStep(t)
  BY <1>7, ItemStepTypeOK
<1>8. CASE \E threshold \in Threshold, auto \in BOOLEAN : RecoverFrom(Stale(threshold), auto)
  BY <1>8, RecoverTypeOK
<1>9. CASE UNCHANGED vars
  BY <1>9 DEF vars, TypeOK
<1> QED
  BY <1>1, <1>2, <1>3, <1>4, <1>5, <1>6, <1>7, <1>8, <1>9, StepCases

(* Every reachable state of the store is well typed: no request, foreign-key *)
(* action or scan leaves a row that the services could not load again.       *)
THEOREM TypeCorrect == Spec => []TypeOK
<1>1. Init => TypeOK
  BY DEF Init, TypeOK, NoColumns, Columns
<1> QED
  BY <1>1, TypeOKStep, PTL DEF Spec

-----------------------------------------------------------------------------
(* Anchoring of rows *)

(* Storing a payload whose foreign keys hold keeps the rows anchored. *)
LEMMA StoreKeepsIntegrity ==
  ASSUME TypeOK, StoreIntegrity, NEW t \in Task, NEW p \in WorkItem, StoreWorkItem(t, p),
         UNCHANGED <<registryVars, lease>>
  PROVE  StoreIntegrity'
<1>1. p # None
  BY NoneAssumption
<1> QED
  BY <1>1 DEF TypeOK, StoreIntegrity, StoreWorkItem, ForeignKeysHold, Registered, registryVars

(* Storing one item keeps the foreign-key columns anchored (StoreWorkItem *)
(* checks the keys and copies the payload).                               *)
LEMMA ItemStepIntegrity ==
  ASSUME TypeOK, StoreIntegrity, NEW t \in Task, ItemStep(t)
  PROVE  StoreIntegrity'
<1>1. CASE \E p \in NewItem : Create(t, p)
  <2>1. PICK p \in NewItem : Create(t, p)
    BY <1>1
  <2>2. p \in WorkItem
    BY ControlPlaneAssumption
  <2> QED
    BY <2>1, <2>2, StoreKeepsIntegrity DEF Create
<1>2. CASE Deny(t)
  BY <1>2 DEF Deny, StoreIntegrity, Registered, registryVars, itemVars
<1>3. CASE \E target \in WorkItemStatus, client \in Client \cup {None},
              leaseId \in Task \cup {None} : Transition(t, target, client, leaseId)
  <2>1. PICK target \in WorkItemStatus, client \in Client \cup {None},
             leaseId \in Task \cup {None} : Transition(t, target, client, leaseId)
    BY <1>3
  <2>2. TransitionedItem(item[t], target, client, leaseId) \in WorkItem
    BY <2>1, TransitionedItemType DEF Transition, TypeOK
  <2> QED
    BY <1>2, <2>1, <2>2, StoreKeepsIntegrity DEF Transition
<1> QED
  BY <1>1, <1>2, <1>3 DEF ItemStep

(* A stale scan keeps the store anchored: a requeue clears both columns,  *)
(* a reassignment names a registered client.                              *)
LEMMA RecoverIntegrity ==
  ASSUME TypeOK, StoreIntegrity, NEW threshold \in Threshold, NEW auto \in BOOLEAN,
         RecoverFrom(Stale(threshold), auto)
  PROVE  StoreIntegrity'
<1> DEFINE S == Stale(threshold)
<1>1. PICK pick \in Reassignments(S, auto) : RecoverItems(S, auto, pick)
  BY DEF RecoverFrom
<1>2. manifest' = manifest
  BY DEF RecoverFrom
<1>3. \A c \in Client : heartbeat'[c] # None => Registered(c)'
  BY <1>2 DEF RecoverFrom, MarkedStale, Stale, StoreIntegrity, Registered
<1>4. ASSUME NEW t \in Task, lease[t] # None
      PROVE  lease'[t] # None /\ lease'[t].client = lease[t].client
  <2>1. lease[t] \in LeaseRow
    BY <1>4 DEF TypeOK
  <2>2. [lease[t] EXCEPT !.status = "expired"] \in LeaseRow
    BY <2>1 DEF LeaseRow, LeaseStatus
  <2> QED
    BY <1>4, <2>1, <2>2, ControlPlaneAssumption DEF RecoverFrom, ExpiredLeases, LeaseRow
<1>5. ASSUME NEW t \in Task, lease'[t] # None
      PROVE  lease[t] # None
  BY <1>5 DEF RecoverFrom, ExpiredLeases, ActiveLease
<1>6. ASSUME NEW t \in Task, t \in Abandoned(S)
      PROVE  /\ item'[t] # None
             /\ column'[t].assigned = item'[t].assigned
             /\ column'[t].assigned # None => Registered(column'[t].assigned)
             /\ column'[t].lease = None
  <2>1. pick[t] \in Client \cup {None} /\ (pick[t] # None => Registered(pick[t]))
    BY <1>6, PickType
  <2>2. item'[t] = Recovered(item[t], pick[t])
        /\ column'[t] = [assigned |-> item'[t].assigned, lease |-> item'[t].lease]
    BY <1>1, <1>6 DEF RecoverItems
  <2> QED
    BY <2>1, <2>2, RecoveredItem, NoneAssumption
<1>7. ASSUME NEW t \in Task, t \notin Abandoned(S)
      PROVE  item'[t] = item[t] /\ column'[t] = column[t]
  BY <1>1, <1>7 DEF RecoverItems
<1>8. ASSUME NEW t \in Task
      PROVE  column[t].lease \in Task \cup {None}
  BY DEF TypeOK, Columns
<1> HIDE DEF S
<1> QED
  BY <1>2, <1>3, <1>4, <1>5, <1>6, <1>7, <1>8 DEF StoreIntegrity, Registered

(* save_task_lease keeps the store anchored: it requires the client to be *)
(* registered.                                                            *)
LEMMA SaveKeepsIntegrity ==
  ASSUME TypeOK, StoreIntegrity, NEW t \in Task, NEW c \in Client, NEW status \in LeaseStatus,
         lease' = lease \/ SaveTaskLease(t, c, status), UNCHANGED <<registryVars, itemVars>>
  PROVE  StoreIntegrity'
<1>1. [client |-> c, status |-> status] # None
  BY ControlPlaneAssumption DEF LeaseRow
<1>2. CASE lease' = lease
  BY <1>2 DEF StoreIntegrity, Registered, registryVars, itemVars
<1>3. CASE SaveTaskLease(t, c, status)
  BY <1>1, <1>3 DEF SaveTaskLease, StoreIntegrity, Registered, registryVars, itemVars, TypeOK
<1> QED
  BY <1>2, <1>3

(* Every request keeps StoreIntegrity, one case per action.               *)
LEMMA StoreIntegrityStep == TypeOK /\ StoreIntegrity /\ [Next]_vars => StoreIntegrity'
<1> SUFFICES ASSUME TypeOK, StoreIntegrity, [Next]_vars
             PROVE  StoreIntegrity'
  OBVIOUS
<1>1. CASE \E c \in Client, m \in Manifest : Register(c, m)
  BY <1>1, ControlPlaneAssumption DEF Register, StoreIntegrity, Registered, itemVars, TypeOK
<1>2. CASE \E c \in Client : Unregister(c)
  <2>1. PICK c \in Client : Unregister(c)
    BY <1>2
  <2>2. \A d \in Client : heartbeat'[d] # None => Registered(d)'
    BY <2>1 DEF Unregister, StoreIntegrity, Registered, TypeOK
  <2>3. \A t \in Task : lease'[t] # None => manifest'[lease'[t].client] # None
    BY <2>1 DEF Unregister, StoreIntegrity, Registered, TypeOK
  <2>4. ASSUME NEW t \in Task, column'[t].assigned # None
        PROVE  manifest'[column'[t].assigned] # None /\ item[t] # None
               /\ item[t].assigned = column'[t].assigned
    BY <2>1, <2>4 DEF Unregister, StoreIntegrity, Registered, TypeOK
  <2>5. ASSUME NEW t \in Task, column'[t].lease # None
        PROVE  lease'[column'[t].lease] # None /\ item[t] # None
               /\ item[t].lease = column'[t].lease
    <3>1. column[t].lease \in Task \cup {None}
      BY DEF TypeOK, Columns
    <3> QED
      BY <2>1, <2>5, <3>1 DEF Unregister, StoreIntegrity
  <2>6. item' = item
    BY <2>1 DEF Unregister
  <2> QED
    BY <2>2, <2>3, <2>4, <2>5, <2>6 DEF StoreIntegrity, Registered
<1>3. CASE \E c \in Client, status \in BeatStatus, age \in BeatAge : Heartbeat(c, status, age)
  BY <1>3 DEF Heartbeat, StoreIntegrity, Registered, itemVars, TypeOK
<1>4. CASE Tick
  BY <1>4 DEF Tick, StoreIntegrity, Registered, itemVars
<1>5. CASE \E t \in Task, c \in Client : Acquire(t, c) \/ Renew(t, c) \/ Release(t, c)
  <2>1. "active" \in LeaseStatus /\ "released" \in LeaseStatus
    BY DEF LeaseStatus
  <2> QED
    BY <1>5, <2>1, SaveKeepsIntegrity DEF Acquire, Renew, Release
<1>6. CASE \E t \in Task : Expire(t)
  <2>1. PICK t \in Task : Expire(t)
    BY <1>6
  <2>2. lease[t].client \in Client /\ "expired" \in LeaseStatus
    BY <2>1 DEF Expire, TypeOK, LeaseRow, LeaseStatus
  <2> QED
    BY <2>1, <2>2, SaveKeepsIntegrity DEF Expire
<1>7. CASE \E t \in Task : ItemStep(t)
  BY <1>7, ItemStepIntegrity
<1>8. CASE \E threshold \in Threshold, auto \in BOOLEAN : RecoverFrom(Stale(threshold), auto)
  BY <1>8, RecoverIntegrity
<1>9. CASE UNCHANGED vars
  BY <1>9 DEF vars, StoreIntegrity, Registered
<1> QED
  BY <1>1, <1>2, <1>3, <1>4, <1>5, <1>6, <1>7, <1>8, <1>9, StepCases

(* No row of the store dangles, whatever clients register, unregister and    *)
(* fall silent: the cascades reach every row that names the client, and no   *)
(* service writes an id that is not there.                                   *)
THEOREM StoreAnchored == Spec => []StoreIntegrity
<1>1. Init => StoreIntegrity
  BY DEF Init, StoreIntegrity, NoColumns
<1> QED
  BY <1>1, StoreIntegrityStep, TypeCorrect, PTL DEF Spec

-----------------------------------------------------------------------------
(* The projection and the ledger against the stored items *)

(* The requests that leave items, projection and ledger alone: those of the  *)
(* registry, and time.                                                       *)
LEMMA RegistryStep ==
  ASSUME \/ \E c \in Client, m \in Manifest : Register(c, m)
         \/ \E c \in Client : Unregister(c)
         \/ \E c \in Client, status \in BeatStatus, age \in BeatAge : Heartbeat(c, status, age)
         \/ Tick
  PROVE  UNCHANGED <<item, taskState, newest>>
BY DEF Register, Unregister, Heartbeat, Tick, itemVars

(* Lease requests leave the items alone and write a task_lease event. *)
LEMMA LeaseStep ==
  ASSUME NEW t \in Task,
         (\E c \in Client : Acquire(t, c) \/ Renew(t, c) \/ Release(t, c)) \/ Expire(t)
  PROVE  /\ UNCHANGED itemVars
         /\ \E status \in EventStatuses : AppendEvent(t, "task_lease", status)
BY DEF Acquire, Renew, Release, Expire, EventStatuses

(* What StoreWorkItem does to the item and to its projection. *)
LEMMA StoredItem ==
  ASSUME TypeOK, NEW t \in Task, NEW p \in WorkItem, StoreWorkItem(t, p)
  PROVE  /\ item'[t] = p /\ p # None
         /\ taskState'[t] = FromWorkItem(p)
         /\ \A u \in Task \ {t} : item'[u] = item[u] /\ taskState'[u] = taskState[u]
BY NoneAssumption DEF StoreWorkItem, TypeOK

(* Every request keeps the run/task projection in sync.                   *)
LEMMA ProjectionStep == TypeOK /\ ProjectionInSync /\ [Next]_vars => ProjectionInSync'
<1> SUFFICES ASSUME TypeOK, ProjectionInSync, [Next]_vars
             PROVE  ProjectionInSync'
  OBVIOUS
<1>1. CASE UNCHANGED <<item, taskState, newest>>
  BY <1>1 DEF ProjectionInSync
<1>2. CASE UNCHANGED itemVars
  BY <1>2 DEF ProjectionInSync, itemVars
<1>3. CASE \E t \in Task : ItemStep(t)
  <2>1. PICK t \in Task : ItemStep(t)
    BY <1>3
  <2>2. ASSUME NEW p \in WorkItem, StoreWorkItem(t, p)
        PROVE  ProjectionInSync'
    BY <2>2, StoredItem DEF ProjectionInSync
  <2>3. CASE \E p \in NewItem : Create(t, p)
    BY <2>2, <2>3, ControlPlaneAssumption DEF Create
  <2>4. CASE Deny(t)
    BY <1>2, <2>4 DEF Deny, itemVars
  <2>5. ASSUME NEW target \in WorkItemStatus, NEW client \in Client \cup {None},
               NEW leaseId \in Task \cup {None}, Transition(t, target, client, leaseId)
        PROVE  ProjectionInSync'
    <3>1. TransitionedItem(item[t], target, client, leaseId) \in WorkItem
      BY <2>5, TransitionedItemType DEF Transition, TypeOK
    <3> QED
      BY <2>2, <2>4, <2>5, <3>1 DEF Transition
  <2> QED
    BY <2>1, <2>3, <2>4, <2>5 DEF ItemStep
<1>4. ASSUME NEW threshold \in Threshold, NEW auto \in BOOLEAN,
             RecoverFrom(Stale(threshold), auto)
      PROVE  ProjectionInSync'
  <2>1. PICK pick \in Reassignments(Stale(threshold), auto) :
          RecoverItems(Stale(threshold), auto, pick)
    BY <1>4 DEF RecoverFrom
  <2>2. \A t \in Abandoned(Stale(threshold)) : Recovered(item[t], pick[t]) # None
    BY PickType, RecoveredItem, NoneAssumption
  <2> QED
    BY <2>1, <2>2 DEF RecoverItems, ProjectionInSync
<1>5. CASE UNCHANGED vars
  BY <1>1, <1>5 DEF vars
<1> QED
  BY <1>1, <1>2, <1>3, <1>4, <1>5, StepCases, RegistryStep, LeaseStep

(* run_task_states never drifts from work_items while requests come one at a *)
(* time, not even when foreign keys null the columns of a work item.         *)
THEOREM ProjectionSynced == Spec => []ProjectionInSync
<1>1. Init => ProjectionInSync
  BY DEF Init, ProjectionInSync
<1> QED
  BY <1>1, ProjectionStep, TypeCorrect, PTL DEF Spec

(* Every request keeps the newest event in agreement with the stored      *)
(* item.                                                                  *)
LEMMA LedgerStep == TypeOK /\ LedgerAgrees /\ [Next]_vars => LedgerAgrees'
<1> SUFFICES ASSUME TypeOK, LedgerAgrees, [Next]_vars
             PROVE  LedgerAgrees'
  OBVIOUS
<1>1. CASE UNCHANGED <<item, taskState, newest>>
  BY <1>1 DEF LedgerAgrees
<1>2. ASSUME NEW t \in Task, NEW kind \in {"task_lease", "policy_denied"}, NEW status,
             AppendEvent(t, kind, status), UNCHANGED itemVars
      PROVE  LedgerAgrees'
  BY <1>2 DEF LedgerAgrees, AppendEvent, itemVars, TypeOK
<1>3. ASSUME NEW t \in Task, NEW p \in WorkItem, StoreWorkItem(t, p),
             AppendEvent(t, "work_item", EventStatus(p.status))
      PROVE  LedgerAgrees'
  BY <1>3, StoredItem DEF LedgerAgrees, AppendEvent, TypeOK
<1>4. CASE \E t \in Task : ItemStep(t)
  <2>1. PICK t \in Task : ItemStep(t)
    BY <1>4
  <2>2. CASE \E p \in NewItem : Create(t, p)
    BY <1>3, <2>2, ControlPlaneAssumption DEF Create
  <2>3. CASE Deny(t)
    BY <1>2, <2>3 DEF Deny
  <2>4. ASSUME NEW target \in WorkItemStatus, NEW client \in Client \cup {None},
               NEW leaseId \in Task \cup {None}, Transition(t, target, client, leaseId)
        PROVE  LedgerAgrees'
    <3>1. /\ TransitionedItem(item[t], target, client, leaseId) \in WorkItem
          /\ TransitionedItem(item[t], target, client, leaseId).status = target
      BY <2>4, TransitionedItemType DEF Transition, TypeOK
    <3> QED
      BY <1>3, <2>3, <2>4, <3>1 DEF Transition
  <2> QED
    BY <2>1, <2>2, <2>3, <2>4 DEF ItemStep
<1>5. ASSUME NEW threshold \in Threshold, NEW auto \in BOOLEAN,
             RecoverFrom(Stale(threshold), auto)
      PROVE  LedgerAgrees'
  <2> DEFINE S == Stale(threshold)
  <2>1. PICK pick \in Reassignments(S, auto) : RecoverItems(S, auto, pick)
    BY <1>5 DEF RecoverFrom
  <2>2. ASSUME NEW t \in Abandoned(S)
        PROVE  LET e == RecoveryEvent(pick[t], auto)
                   p == Recovered(item[t], pick[t])
               IN /\ p # None
                  /\ e.kind = "work_item" => e.status = EventStatus(p.status)
                  /\ e.kind = "recovery_action" =>
                       p = [status |-> "requeued", assigned |-> None, lease |-> None]
    <3>1. pick[t] \in Client \cup {None}
      BY PickType
    <3>2. CASE pick[t] = None
      BY <3>2, RequeuedItem, RecoveredItem, NoneAssumption DEF RecoveryEvent, Recovered
    <3>3. CASE pick[t] # None
      <4>1. Recovered(item[t], pick[t]) \in WorkItem
            /\ Recovered(item[t], pick[t]).status = "assigned"
        BY <3>1, <3>3, RecoveredItem
      <4>2. EventStatus("assigned") = "active"
        BY DEF EventStatus
      <4>3. RecoveryEvent(pick[t], auto) = [kind |-> "work_item", status |-> "active"]
        BY <3>3 DEF RecoveryEvent
      <4> QED
        BY <4>1, <4>2, <4>3, NoneAssumption
    <3> QED
      BY <3>2, <3>3
  <2> HIDE DEF S
  <2> QED
    BY <2>1, <2>2 DEF RecoverItems, LedgerAgrees
<1>6. CASE UNCHANGED vars
  BY <1>1, <1>6 DEF vars
<1>7. ASSUME NEW t \in Task,
             (\E c \in Client : Acquire(t, c) \/ Renew(t, c) \/ Release(t, c)) \/ Expire(t)
      PROVE  LedgerAgrees'
  BY <1>2, <1>7, LeaseStep
<1> QED
  BY <1>1, <1>4, <1>5, <1>6, <1>7, StepCases, RegistryStep

(* Replaying the ledger gives the stored status of an item: whichever of     *)
(* create, transition, scheduler and scan wrote the last event of a task.    *)
THEOREM LedgerFaithful == Spec => []LedgerAgrees
<1>1. Init => LedgerAgrees
  BY DEF Init, LedgerAgrees
<1> QED
  BY <1>1, LedgerStep, TypeCorrect, PTL DEF Spec
=============================================================================
