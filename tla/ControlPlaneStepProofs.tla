----------------------- MODULE ControlPlaneStepProofs -----------------------
(***************************************************************************)
(* What a step of ControlPlane may never do, proved from the invariants of *)
(* ControlPlaneProofs: the stale scan leaves nothing on the clients it     *)
(* found stale, finished work stays finished, the work of an unregistered  *)
(* client is frozen, and the leases implement the abstract lease table.    *)
(***************************************************************************)
EXTENDS ControlPlaneProofs

-----------------------------------------------------------------------------
(* The stale scan *)

(* With auto_reassign the scheduler never picks a client of the scan: its    *)
(* status is read after the marking.                                         *)
LEMMA PickIsLive ==
  ASSUME TypeOK, NEW threshold \in Threshold, NEW auto \in BOOLEAN,
         NEW pick \in Reassignments(Stale(threshold), auto),
         NEW t \in Abandoned(Stale(threshold)), pick[t] # None
  PROVE  /\ pick[t] \in Client
         /\ pick[t] \notin Stale(threshold)
         /\ manifest[pick[t]].trust = "trusted"
         /\ heartbeat[pick[t]].age <= threshold
<1> DEFINE S == Stale(threshold)
<1>1. pick[t] \in Eligible(t, MarkedStale(S))
  BY DEF Reassignments, Preferred
<1>2. pick[t] \in Client /\ Registered(pick[t]) /\ manifest[pick[t]].trust = "trusted"
      /\ MarkedStale(S)[pick[t]] # None /\ MarkedStale(S)[pick[t]].status = "active"
  BY <1>1 DEF Eligible
<1>3. pick[t] \notin S
  <2>1. SUFFICES ASSUME pick[t] \in S
                 PROVE  MarkedStale(S)[pick[t]].status = "stale"
    BY <1>2
  <2>2. heartbeat[pick[t]] \in HeartbeatRow
    BY <1>2, <2>1 DEF Stale, TypeOK
  <2> HIDE DEF S
  <2> QED
    BY <1>2, <2>1, <2>2 DEF MarkedStale, HeartbeatRow
<1>4. heartbeat[pick[t]] # None /\ heartbeat[pick[t]].status = "active"
  BY <1>2, <1>3 DEF MarkedStale
<1>5. heartbeat[pick[t]].age \in Nat /\ threshold \in Nat
  BY <1>2, <1>4, ControlPlaneAssumption DEF TypeOK, HeartbeatRow
<1>6. ~(heartbeat[pick[t]].age > threshold)
  BY <1>2, <1>3, <1>4 DEF Stale
<1> QED
  BY <1>2, <1>3, <1>5, <1>6

(* After a stale scan no item in progress and no active lease is charged to  *)
(* a client the scan found stale (mark_stale_clients_with_recovery).         *)
LEMMA ScanLeaves ==
  ASSUME TypeOK, StoreIntegrity, NEW threshold \in Threshold, NEW auto \in BOOLEAN,
         StaleScan(threshold, auto), NEW c \in Stale(threshold), NEW t \in Task
  PROVE  /\ ~(column'[t].assigned = c /\ item'[t].status \in Recoverable)
         /\ ~(lease'[t] # None /\ lease'[t].client = c /\ lease'[t].status = "active")
<1> DEFINE S == Stale(threshold)
<1>1. PICK pick \in Reassignments(S, auto) : RecoverItems(S, auto, pick)
  BY DEF StaleScan, RecoverFrom
<1>2. c \in Client /\ c # None
  BY NoneAssumption DEF Stale
<1>3. ~(column'[t].assigned = c /\ item'[t].status \in Recoverable)
  <2>1. CASE t \in Abandoned(S)
    <3>1. pick[t] \in Client \cup {None}
      BY <2>1, PickType
    <3>2. column'[t].assigned = pick[t]
      BY <1>1, <2>1, <3>1, RecoveredItem DEF RecoverItems
    <3> QED
      BY <1>2, <2>1, <3>2, PickIsLive
  <2>2. CASE t \notin Abandoned(S)
    <3>1. column'[t] = column[t] /\ item'[t] = item[t]
      BY <1>1, <2>2 DEF RecoverItems
    <3>2. column[t].assigned = c => item[t] # None
      BY <1>2 DEF StoreIntegrity
    <3> QED
      BY <2>2, <3>1, <3>2 DEF Abandoned
  <2> QED
    BY <2>1, <2>2
<1>4. ~(lease'[t] # None /\ lease'[t].client = c /\ lease'[t].status = "active")
  <2>1. CASE ActiveLease(t) /\ lease[t].client \in S
    <3>1. lease[t] \in LeaseRow
      BY <2>1 DEF TypeOK, ActiveLease
    <3>2. lease'[t].status = "expired"
      BY <2>1, <3>1 DEF StaleScan, RecoverFrom, ExpiredLeases, LeaseRow
    <3> QED
      BY <3>2
  <2>2. CASE ~(ActiveLease(t) /\ lease[t].client \in S)
    BY <2>2 DEF StaleScan, RecoverFrom, ExpiredLeases, ActiveLease
  <2> QED
    BY <2>1, <2>2
<1> QED
  BY <1>3, <1>4

(* A stale scan leaves no item in progress and no active lease charged to a  *)
(* client it found stale (mark_stale_clients_with_recovery).                 *)
THEOREM ScanLeavesNothing == Spec => ScanStrandsNothing
<1>1. ASSUME TypeOK, StoreIntegrity, NEW threshold \in Threshold, NEW auto \in BOOLEAN,
             StaleScan(threshold, auto), NEW c \in Stale(threshold), NEW t \in Task
      PROVE  /\ ~(column'[t].assigned = c /\ item'[t].status \in Recoverable)
             /\ ~(lease'[t] # None /\ lease'[t].client = c /\ lease'[t].status = "active")
  BY <1>1, ScanLeaves
<1> DEFINE A == \A threshold \in Threshold, auto \in BOOLEAN :
                  StaleScan(threshold, auto) =>
                    \A c \in Stale(threshold), t \in Task :
                      /\ ~(column'[t].assigned = c /\ item'[t].status \in Recoverable)
                      /\ ~(lease'[t] # None /\ lease'[t].client = c /\ lease'[t].status = "active")
<1>2. TypeOK /\ StoreIntegrity => A
  BY <1>1
<1>3. [](TypeOK /\ StoreIntegrity) => [][A]_vars
  BY <1>2, PTL
<1> QED
  BY <1>3, TypeCorrect, StoreAnchored, PTL DEF ScanStrandsNothing

(* Work is handed on only to trusted clients that the scan itself would not  *)
(* call stale.                                                               *)
THEOREM ScanReassignsLive == Spec => ScanReassignsToLiveClients
<1>1. ASSUME TypeOK, NEW threshold \in Threshold, NEW auto \in BOOLEAN,
             StaleScan(threshold, auto), NEW t \in Task,
             item'[t] # item[t], item'[t].status = "assigned"
      PROVE  LET c == item'[t].assigned
             IN /\ manifest[c].trust = "trusted"
                /\ heartbeat[c].age <= threshold
  <2> DEFINE S == Stale(threshold)
  <2>1. PICK pick \in Reassignments(S, auto) : RecoverItems(S, auto, pick)
    BY <1>1 DEF StaleScan, RecoverFrom
  <2>2. t \in Abandoned(S) /\ item'[t] = Recovered(item[t], pick[t])
    BY <1>1, <2>1 DEF RecoverItems
  <2>3. pick[t] \in Client \cup {None}
    BY <2>2, PickType
  <2>4. item'[t].assigned = pick[t] /\ pick[t] # None
    BY <1>1, <2>2, <2>3, RecoveredItem
  <2> QED
    BY <1>1, <2>2, <2>4, PickIsLive
<1> DEFINE A == \A threshold \in Threshold, auto \in BOOLEAN :
                  StaleScan(threshold, auto) =>
                    \A t \in Task : (item'[t] # item[t] /\ item'[t].status = "assigned") =>
                      LET c == item'[t].assigned
                      IN /\ manifest[c].trust = "trusted"
                         /\ heartbeat[c].age <= threshold
<1>2. TypeOK => A
  BY <1>1
<1>3. []TypeOK => [][A]_vars
  BY <1>2, PTL
<1> QED
  BY <1>3, TypeCorrect, PTL DEF ScanReassignsToLiveClients

-----------------------------------------------------------------------------
(* Work items *)

(* How a step changes a stored item: along the transition table, with the    *)
(* foreign keys of what it stores, or by the recovery of an item in progress.*)
LEMMA ItemChange ==
  ASSUME TypeOK, [Next]_vars, NEW t \in Task, item[t] # None
  PROVE  \/ item'[t] = item[t] /\ taskState'[t] = taskState[t]
         \/ \E target \in WorkItemStatus, client \in Client \cup {None},
               leaseId \in Task \cup {None} :
              /\ target # "assigned" => client = None
              /\ TransitionAllowed(item[t].status, target)
              /\ item'[t] = TransitionedItem(item[t], target, client, leaseId)
              /\ ForeignKeysHold(item'[t])
         \/ /\ item[t].status \in Recoverable
            /\ \E S \in SUBSET Client, c \in Client \cup {None} :
                 /\ column[t].assigned \in S
                 /\ item'[t] = Recovered(item[t], c)
<1> DEFINE Same == item'[t] = item[t] /\ taskState'[t] = taskState[t]
<1>1. CASE UNCHANGED <<item, taskState, newest>>
  BY <1>1
<1>2. CASE UNCHANGED itemVars
  BY <1>2 DEF itemVars
<1>3. ASSUME NEW u \in Task, ItemStep(u), ~Same
      PROVE  \E target \in WorkItemStatus, client \in Client \cup {None},
                leaseId \in Task \cup {None} :
               /\ target # "assigned" => client = None
               /\ TransitionAllowed(item[t].status, target)
               /\ item'[t] = TransitionedItem(item[t], target, client, leaseId)
               /\ ForeignKeysHold(item'[t])
  <2>1. ~Deny(u)
    BY <1>3 DEF Deny, itemVars
  <2>2. ASSUME NEW p \in WorkItem, StoreWorkItem(u, p)
        PROVE  u = t /\ item'[t] = p
    BY <1>3, <2>2, StoredItem
  <2>3. ~(\E p \in NewItem : Create(u, p))
    BY <1>3, <2>2, ControlPlaneAssumption DEF Create
  <2>4. PICK target \in WorkItemStatus, client \in Client \cup {None},
             leaseId \in Task \cup {None} :
          (target # "assigned" => client = None) /\ Transition(u, target, client, leaseId)
    BY <1>3, <2>1, <2>3 DEF ItemStep
  <2>5. TransitionedItem(item[u], target, client, leaseId) \in WorkItem
    BY <2>4, TransitionedItemType DEF Transition, TypeOK
  <2>6. /\ TransitionAllowed(item[u].status, target)
        /\ StoreWorkItem(u, TransitionedItem(item[u], target, client, leaseId))
    BY <2>1, <2>4 DEF Transition
  <2>7. u = t /\ item'[t] = TransitionedItem(item[u], target, client, leaseId)
    BY <2>2, <2>5, <2>6
  <2>8. ForeignKeysHold(TransitionedItem(item[u], target, client, leaseId))
    BY <2>6 DEF StoreWorkItem
  <2>9. ForeignKeysHold(item'[t])
    BY <2>7, <2>8
  <2> QED
    BY <2>4, <2>6, <2>7, <2>9
<1>4. ASSUME NEW threshold \in Threshold, NEW auto \in BOOLEAN,
             RecoverFrom(Stale(threshold), auto), ~Same
      PROVE  /\ item[t].status \in Recoverable
             /\ \E S \in SUBSET Client, c \in Client \cup {None} :
                  /\ column[t].assigned \in S
                  /\ item'[t] = Recovered(item[t], c)
  <2>1. PICK pick \in Reassignments(Stale(threshold), auto) :
          RecoverItems(Stale(threshold), auto, pick)
    BY <1>4 DEF RecoverFrom
  <2>2. t \in Abandoned(Stale(threshold)) /\ item'[t] = Recovered(item[t], pick[t])
    BY <1>4, <2>1 DEF RecoverItems
  <2>3. pick[t] \in Client \cup {None}
    BY <2>2, PickType
  <2>4. Stale(threshold) \in SUBSET Client
    BY DEF Stale
  <2> QED
    BY <2>2, <2>3, <2>4 DEF Abandoned
<1>5. CASE UNCHANGED vars
  BY <1>5 DEF vars
<1> QED
  BY <1>1, <1>2, <1>3, <1>4, <1>5, StepCases, RegistryStep, LeaseStep

(* Completed and cancelled work is final, for the item and its projection,   *)
(* whatever transitions, schedules, scans and unregistrations follow.        *)
THEOREM TerminalStays == Spec => TerminalIsFinal
<1>1. Terminal \cap Recoverable = {}
  BY DEF Terminal, Recoverable, AllowedTransitions
<1> DEFINE A == \A t \in Task : (item[t] # None /\ item[t].status \in Terminal) =>
                  item'[t] = item[t] /\ taskState'[t] = taskState[t]
<1>2. TypeOK /\ [Next]_vars => A
  BY <1>1, ItemChange DEF Terminal, TransitionAllowed
<1>3. []TypeOK /\ [][Next]_vars => [][A]_vars
  BY <1>2, PTL
<1> QED
  BY <1>3, TypeCorrect, PTL DEF Spec, TerminalIsFinal

(* Work of an unregistered client stays as it is until it is requeued or     *)
(* given to another client: nothing else gets past the foreign key.          *)
THEOREM OrphansFrozen == Spec => OrphanedWorkFrozen
<1>1. ASSUME TypeOK, StoreIntegrity, [Next]_vars, NEW t \in Task, Orphaned(t)
      PROVE  \/ item'[t] = item[t]
             \/ item'[t].status = "requeued"
             \/ item'[t].status = "assigned" /\ item'[t].assigned # item[t].assigned
  <2>1. item[t] \in WorkItem /\ item[t] # None /\ item[t].assigned # None
        /\ ~Registered(item[t].assigned)
    BY <1>1 DEF Orphaned, TypeOK
  <2>2. ASSUME NEW target \in WorkItemStatus, NEW client \in Client \cup {None},
               NEW leaseId \in Task \cup {None},
               target # "assigned" => client = None,
               item'[t] = TransitionedItem(item[t], target, client, leaseId),
               ForeignKeysHold(item'[t])
        PROVE  \/ item'[t].status = "requeued"
               \/ item'[t].status = "assigned" /\ item'[t].assigned # item[t].assigned
    <3>1. item'[t].status = target
      BY <2>1, <2>2, TransitionedItemType
    <3>2. item'[t].assigned # item[t].assigned
      BY <2>1, <2>2 DEF ForeignKeysHold
    <3>3. target \notin {"requeued", "assigned"} => item'[t].assigned = item[t].assigned
      BY <2>2 DEF TransitionedItem, UpdateWorkItem, Keep
    <3> QED
      BY <3>1, <3>2, <3>3
  <2>3. column[t].assigned = None
    BY <1>1, <2>1 DEF StoreIntegrity
  <2>4. \A S \in SUBSET Client : column[t].assigned \notin S
    BY <2>3, NoneAssumption
  <2> QED
    BY <1>1, <2>1, <2>2, <2>4, ItemChange
<1> DEFINE A == \A t \in Task : Orphaned(t) =>
                  \/ item'[t] = item[t]
                  \/ item'[t].status = "requeued"
                  \/ item'[t].status = "assigned" /\ item'[t].assigned # item[t].assigned
<1>2. TypeOK /\ StoreIntegrity /\ [Next]_vars => A
  BY <1>1
<1>3. [](TypeOK /\ StoreIntegrity) /\ [][Next]_vars => [][A]_vars
  BY <1>2, PTL
<1> QED
  BY <1>3, TypeCorrect, StoreAnchored, PTL DEF Spec, OrphanedWorkFrozen

-----------------------------------------------------------------------------
(* Leases *)

(* A step that frees the tasks of S and grants none is a step of LeaseTable. *)
LEMMA FreeStep ==
  ASSUME NEW S \in SUBSET Task,
         \A t \in Task : holder'[t] = IF t \in S THEN None ELSE holder[t]
  PROVE  Leases!Next
<1>1. holder' = [t \in Task |-> IF t \in S THEN None ELSE holder[t]]
  BY DEF holder
<1> QED
  BY <1>1 DEF Leases!Next, Leases!Free

(* A request that leaves the lease rows alone leaves the abstract holders *)
(* alone.                                                                 *)
LEMMA SameLeases ==
  ASSUME lease' = lease
  PROVE  holder' = holder
BY DEF holder, ActiveLease

(* A saved lease: the holder of t becomes c or nobody, other tasks keep theirs. *)
LEMMA SavedLease ==
  ASSUME TypeOK, NEW t \in Task, NEW c \in Client, NEW status \in LeaseStatus,
         SaveTaskLease(t, c, status)
  PROVE  /\ holder'[t] = IF status = "active" THEN c ELSE None
         /\ \A u \in Task \ {t} : holder'[u] = holder[u]
<1>1. lease'[t] = [client |-> c, status |-> status]
      /\ \A u \in Task \ {t} : lease'[u] = lease[u]
  BY DEF SaveTaskLease, TypeOK
<1>2. lease'[t] # None
  BY <1>1, ControlPlaneAssumption DEF LeaseRow
<1> QED
  BY <1>1, <1>2 DEF holder, ActiveLease

(* Every request is a step of the abstract lease table or a stutter.      *)
LEMMA LeaseTableStep == TypeOK /\ [Next]_vars => [Leases!Next]_holder
<1> SUFFICES ASSUME TypeOK, [Next]_vars
             PROVE  Leases!Next \/ holder' = holder
  OBVIOUS
<1> USE DEF LeaseStatus
<1>1. CASE \E c \in Client, m \in Manifest : Register(c, m)
  BY <1>1, SameLeases DEF Register
<1>2. CASE \E c \in Client : Unregister(c)
  <2>1. PICK c \in Client : Unregister(c)
    BY <1>2
  <2> DEFINE S == {t \in Task : lease[t] # None /\ lease[t].client = c}
  <2>2. \A t \in Task : lease'[t] = IF t \in S THEN None ELSE lease[t]
    BY <2>1 DEF Unregister
  <2>3. \A t \in Task : holder'[t] = IF t \in S THEN None ELSE holder[t]
    BY <2>2 DEF holder, ActiveLease
  <2> QED
    BY <2>3, FreeStep
<1>3. CASE \E c \in Client, status \in BeatStatus, age \in BeatAge : Heartbeat(c, status, age)
  BY <1>3, SameLeases DEF Heartbeat
<1>4. CASE Tick
  BY <1>4, SameLeases DEF Tick
<1>5. CASE \E t \in Task, c \in Client : Acquire(t, c)
  <2>1. PICK t \in Task, c \in Client : Acquire(t, c)
    BY <1>5
  <2>2. CASE ActiveLease(t)
    BY <2>1, <2>2, SameLeases DEF Acquire
  <2>3. CASE ~ActiveLease(t)
    <3>1. SaveTaskLease(t, c, "active") /\ holder[t] = None
      BY <2>1, <2>3 DEF Acquire, holder
    <3>2. holder'[t] = c /\ \A u \in Task \ {t} : holder'[u] = holder[u]
      BY <3>1, SavedLease
    <3>3. holder' = [holder EXCEPT ![t] = c]
      BY <3>2 DEF holder
    <3> QED
      BY <3>1, <3>3 DEF Leases!Next, Leases!Grant
  <2> QED
    BY <2>2, <2>3
<1>6. CASE \E t \in Task, c \in Client : Renew(t, c)
  <2>1. PICK t \in Task, c \in Client : Renew(t, c)
    BY <1>6
  <2>2. SaveTaskLease(t, c, "active") /\ holder[t] = c
    BY <2>1 DEF Renew, HeldBy, holder
  <2>3. holder'[t] = holder[t] /\ \A u \in Task \ {t} : holder'[u] = holder[u]
    BY <2>2, SavedLease
  <2>4. holder' = holder
    BY <2>3 DEF holder
  <2> QED
    BY <2>4
<1>7. ASSUME NEW t \in Task, NEW c \in Client, NEW status \in {"released", "expired"},
             SaveTaskLease(t, c, status)
      PROVE  Leases!Next
  <2>1. \A u \in Task : holder'[u] = IF u \in {t} THEN None ELSE holder[u]
    BY <1>7, SavedLease
  <2> QED
    BY <2>1, FreeStep
<1>8. CASE \E t \in Task, c \in Client : Release(t, c)
  BY <1>7, <1>8 DEF Release
<1>9. CASE \E t \in Task : Expire(t)
  <2>1. PICK t \in Task : Expire(t)
    BY <1>9
  <2>2. lease[t].client \in Client
    BY <2>1 DEF Expire, TypeOK, LeaseRow
  <2> QED
    BY <1>7, <2>1, <2>2 DEF Expire
<1>10. CASE \E t \in Task : ItemStep(t)
  BY <1>10, SameLeases DEF ItemStep, Create, Deny, Transition
<1>11. CASE \E threshold \in Threshold, auto \in BOOLEAN : RecoverFrom(Stale(threshold), auto)
  <2>1. PICK threshold \in Threshold, auto \in BOOLEAN : RecoverFrom(Stale(threshold), auto)
    BY <1>11
  <2> DEFINE S == {t \in Task : ActiveLease(t) /\ lease[t].client \in Stale(threshold)}
  <2>2. ASSUME NEW t \in S
        PROVE  lease'[t].status = "expired"
    <3>1. lease[t] \in LeaseRow
      BY DEF TypeOK, ActiveLease
    <3> QED
      BY <2>1, <3>1 DEF RecoverFrom, ExpiredLeases, LeaseRow
  <2>3. \A t \in Task \ S : lease'[t] = lease[t]
    BY <2>1 DEF RecoverFrom, ExpiredLeases
  <2>4. \A t \in Task : holder'[t] = IF t \in S THEN None ELSE holder[t]
    BY <2>2, <2>3 DEF holder, ActiveLease
  <2> QED
    BY <2>4, FreeStep
<1>12. CASE UNCHANGED vars
  BY <1>12, SameLeases DEF vars
<1> QED
  BY <1>1, <1>2, <1>3, <1>4, <1>5, <1>6, <1>8, <1>9, <1>10, <1>11, <1>12, StepCases

(* The task_leases table implements LeaseTable: one holder per task, and a   *)
(* task goes from one client to another only after it has been given up, by  *)
(* release, expiry, the stale scan or unregistration.                        *)
THEOREM LeasesImplementTable == Spec => LeaseRefinement
<1>1. Init => Leases!Init
  BY DEF Init, Leases!Init, holder, ActiveLease
<1> QED
  BY <1>1, LeaseTableStep, TypeCorrect, PTL DEF Spec, LeaseRefinement, Leases!Spec

-----------------------------------------------------------------------------
(* Liveness.  What is left to TLC is that the request is possible at all     *)
(* while there is something for it to do: that it then ends the wait, that   *)
(* nothing else can prolong it, and the temporal argument are proved.        *)

ScansKeepComing == WF_vars(Scan)
PollsKeepComing == WF_vars(ScheduleNext)

AbandonedOn(c, t) == t \in Abandoned({c}) /\ Silent(c)

ScanStaysPossible(c, t) == [](AbandonedOn(c, t) => ENABLED <<Scan>>_vars)
ScheduleStaysPossible(t) == [](HeadIsSchedulable(t) => ENABLED <<ScheduleNext>>_vars)

(* Any scan takes the work of a silent client away from it, whatever         *)
(* threshold the operator asked for.                                         *)
LEMMA ScanEndsAbandonment ==
  ASSUME TypeOK, StoreIntegrity, NEW c \in Client, NEW t \in Task, AbandonedOn(c, t), Scan
  PROVE  ~AbandonedOn(c, t)'
<1>1. PICK threshold \in Threshold, auto \in BOOLEAN : StaleScan(threshold, auto)
  BY DEF Scan
<1>2. c \in Stale(threshold)
  BY DEF AbandonedOn, Silent
<1>3. ~(column'[t].assigned = c /\ item'[t].status \in Recoverable)
  BY <1>1, <1>2, ScanLeaves
<1> QED
  BY <1>3 DEF AbandonedOn, Abandoned

(* schedule_next takes the item at the head of the queue, and no other: the  *)
(* order of the list is total.                                               *)
LEMMA ScheduleTakesHead ==
  ASSUME TypeOK, NEW t \in Task, HeadIsSchedulable(t), ScheduleNext
  PROVE  ~HeadIsSchedulable(t)'
<1> DEFINE candidates == {u \in Task : item[u] # None /\ item[u].status \in Schedulable}
<1>1. PICK u \in candidates : (\A v \in candidates : Rank[u] <= Rank[v]) /\ ScheduleWorkItem(u)
  BY DEF ScheduleNext
<1>2. t \in candidates /\ \A v \in candidates : Rank[t] <= Rank[v]
  BY DEF HeadIsSchedulable
<1>3. u = t
  BY <1>1, <1>2, ControlPlaneAssumption
<1>4. PICK c \in Preferred(t, heartbeat, lease) : Assign(t, c, None)
  BY <1>1, <1>3 DEF ScheduleWorkItem, HeadIsSchedulable
<1>5. c \in Client /\ "assigned" \in WorkItemStatus /\ item[t] \in WorkItem
  BY <1>2, <1>4 DEF Preferred, Eligible, WorkItemStatus, TypeOK
<1>6. TransitionAllowed(item[t].status, "assigned")
  BY <1>2 DEF TransitionAllowed, AllowedTransitions, Schedulable
<1>7. StoreWorkItem(t, TransitionedItem(item[t], "assigned", c, None))
  BY <1>4, <1>6 DEF Assign, Transition
<1>8. TransitionedItem(item[t], "assigned", c, None) \in WorkItem
      /\ TransitionedItem(item[t], "assigned", c, None).status = "assigned"
  BY <1>5, TransitionedItemType
<1>9. item'[t].status = "assigned"
  BY <1>7, <1>8, StoredItem
<1> QED
  BY <1>9 DEF HeadIsSchedulable, Schedulable

(* Work in progress on a client that stays silent is taken away from it, if  *)
(* scans keep coming (mark_stale_clients_with_recovery).                     *)
THEOREM ScansRecoverAbandoned ==
  /\ Spec
  /\ ScansKeepComing
  /\ \A c \in Client, t \in Task : ScanStaysPossible(c, t)
  => AbandonedWorkRecovered
<1>1. ASSUME NEW c \in Client, NEW t \in Task
      PROVE  /\ Spec
             /\ ScansKeepComing
             /\ ScanStaysPossible(c, t)
             => (AbandonedOn(c, t) ~> ~AbandonedOn(c, t))
  <2>1. TypeOK /\ StoreIntegrity /\ AbandonedOn(c, t) /\ <<Scan>>_vars => ~AbandonedOn(c, t)'
    BY ScanEndsAbandonment
  <2> QED
    BY <2>1, TypeCorrect, StoreAnchored, PTL
       DEF Spec, ScansKeepComing, ScanStaysPossible
<1> QED
  BY <1>1 DEF AbandonedWorkRecovered, AbandonedOn

(* The head of the queue does not wait for ever while it can be scheduled,   *)
(* if connectors keep polling (receive_next_work, schedule_next).            *)
THEOREM PollsServeHead ==
  /\ Spec
  /\ PollsKeepComing
  /\ \A t \in Task : ScheduleStaysPossible(t)
  => HeadOfQueueScheduled
<1>1. ASSUME NEW t \in Task
      PROVE  /\ Spec
             /\ PollsKeepComing
             /\ ScheduleStaysPossible(t)
             => (HeadIsSchedulable(t) ~> ~HeadIsSchedulable(t))
  <2>1. TypeOK /\ HeadIsSchedulable(t) /\ <<ScheduleNext>>_vars => ~HeadIsSchedulable(t)'
    BY ScheduleTakesHead
  <2> QED
    BY <2>1, TypeCorrect, PTL DEF Spec, PollsKeepComing, ScheduleStaysPossible
<1> QED
  BY <1>1 DEF HeadOfQueueScheduled

-----------------------------------------------------------------------------
(* What the documentation says of the scan is not true of every behaviour    *)
(* (runs DisconnectedClient and RejoinedClient).  It is true as long as no   *)
(* heartbeat reports disconnected and no client unregisters.                 *)

NoneDisconnected ==
  \A c \in Client : heartbeat[c] # None => heartbeat[c].status # "disconnected"

(* Only a heartbeat ever sets the status disconnected: a scan sets stale.    *)
LEMMA NoneDisconnectedStep ==
  ASSUME "disconnected" \notin BeatStatus
  PROVE  TypeOK /\ NoneDisconnected /\ [Next]_vars => NoneDisconnected'
<1> SUFFICES ASSUME TypeOK, NoneDisconnected, [Next]_vars
             PROVE  NoneDisconnected'
  OBVIOUS
<1>1. CASE UNCHANGED heartbeat
  BY <1>1 DEF NoneDisconnected
<1>2. CASE \E c \in Client : Unregister(c)
  BY <1>2 DEF Unregister, NoneDisconnected, TypeOK
<1>3. CASE \E c \in Client, status \in BeatStatus, age \in BeatAge : Heartbeat(c, status, age)
  BY <1>3 DEF Heartbeat, NoneDisconnected, TypeOK
<1>4. CASE Tick
  <2>1. ASSUME NEW c \in Client, heartbeat'[c] # None, heartbeat'[c] # heartbeat[c]
        PROVE  heartbeat[c] \in HeartbeatRow /\ heartbeat'[c].status = heartbeat[c].status
    BY <1>4, <2>1 DEF Tick, TypeOK, HeartbeatRow
  <2> QED
    BY <2>1, ControlPlaneAssumption DEF NoneDisconnected
<1>5. ASSUME NEW threshold \in Threshold, NEW auto \in BOOLEAN,
             RecoverFrom(Stale(threshold), auto)
      PROVE  NoneDisconnected'
  <2>1. SUFFICES ASSUME NEW c \in Client, heartbeat'[c] # None
                 PROVE  heartbeat'[c].status # "disconnected"
    BY DEF NoneDisconnected
  <2>2. CASE c \in Stale(threshold)
    <3>1. heartbeat[c] \in HeartbeatRow
      BY <2>2 DEF Stale, TypeOK
    <3>2. heartbeat'[c].status = "stale"
      BY <1>5, <2>2, <3>1 DEF RecoverFrom, MarkedStale, HeartbeatRow
    <3> QED
      BY <3>2
  <2>3. CASE c \notin Stale(threshold)
    BY <1>5, <2>1, <2>3 DEF RecoverFrom, MarkedStale, NoneDisconnected
  <2> QED
    BY <2>2, <2>3
<1>6. CASE \E c \in Client, m \in Manifest : Register(c, m)
  BY <1>1, <1>6 DEF Register
<1>7. CASE \E t \in Task, c \in Client : Acquire(t, c) \/ Renew(t, c) \/ Release(t, c)
  BY <1>1, <1>7 DEF Acquire, Renew, Release, registryVars
<1>8. CASE \E t \in Task : Expire(t)
  BY <1>1, <1>8 DEF Expire, registryVars
<1>9. CASE \E t \in Task : ItemStep(t)
  BY <1>1, <1>9 DEF ItemStep, Create, Deny, Transition, registryVars
<1>10. CASE UNCHANGED vars
  BY <1>1, <1>10 DEF vars
<1> QED
  BY <1>2, <1>3, <1>4, <1>5, <1>6, <1>7, <1>8, <1>9, <1>10, StepCases

(* "Stale scans ... requeue assigned or in-progress work items" of every     *)
(* client that is silent for longer than the threshold, if no heartbeat      *)
(* reports disconnected.                                                     *)
THEOREM ScanCoversUnlessDisconnected ==
  ASSUME "disconnected" \notin BeatStatus
  PROVE  Spec => ScanCoversEverySilentClient
<1>1. Spec => []NoneDisconnected
  <2>1. Init => NoneDisconnected
    BY DEF Init, NoneDisconnected
  <2> QED
    BY <2>1, NoneDisconnectedStep, TypeCorrect, PTL DEF Spec
<1>2. ASSUME TypeOK, StoreIntegrity, NoneDisconnected,
             NEW threshold \in Threshold, NEW auto \in BOOLEAN, StaleScan(threshold, auto),
             NEW c \in Client, heartbeat[c] # None, heartbeat[c].age > threshold, NEW t \in Task
      PROVE  ~(column'[t].assigned = c /\ item'[t].status \in Recoverable)
  <2>1. c \in Stale(threshold)
    BY <1>2 DEF Stale, StoreIntegrity, NoneDisconnected
  <2> QED
    BY <1>2, <2>1, ScanLeaves
<1> DEFINE A == \A threshold \in Threshold, auto \in BOOLEAN :
                  StaleScan(threshold, auto) =>
                    \A c \in Client : (heartbeat[c] # None /\ heartbeat[c].age > threshold) =>
                      \A t \in Task : ~(column'[t].assigned = c /\ item'[t].status \in Recoverable)
<1>3. TypeOK /\ StoreIntegrity /\ NoneDisconnected => A
  BY <1>2
<1>4. [](TypeOK /\ StoreIntegrity /\ NoneDisconnected) => [][A]_vars
  BY <1>3, PTL
<1> QED
  BY <1>1, <1>4, TypeCorrect, StoreAnchored, PTL DEF ScanCoversEverySilentClient

(* The column and the payload of every item name the same owner.             *)
OwnerColumnsFull == \A t \in Task : item[t] # None => column[t].assigned = item[t].assigned

StayingNext == Next /\ ~(\E c \in Client : Unregister(c))

(* Only an unregistration takes an owner out of a column and leaves it in    *)
(* the payload: all else writes both from one payload.                       *)
LEMMA OwnerColumnsStep ==
  TypeOK /\ OwnerColumnsFull /\ [StayingNext]_vars => OwnerColumnsFull'
<1> SUFFICES ASSUME TypeOK, OwnerColumnsFull, [StayingNext]_vars
             PROVE  OwnerColumnsFull'
  OBVIOUS
<1>1. CASE UNCHANGED <<item, column>>
  BY <1>1 DEF OwnerColumnsFull
<1>2. ASSUME NEW t \in Task, NEW p, StoreWorkItem(t, p)
      PROVE  OwnerColumnsFull'
  BY <1>2 DEF StoreWorkItem, OwnerColumnsFull, TypeOK
<1>3. CASE \E t \in Task : ItemStep(t)
  BY <1>1, <1>2, <1>3 DEF ItemStep, Create, Deny, Transition, itemVars
<1>4. ASSUME NEW S, NEW auto, RecoverFrom(S, auto)
      PROVE  OwnerColumnsFull'
  <2>1. PICK pick \in Reassignments(S, auto) : RecoverItems(S, auto, pick)
    BY <1>4 DEF RecoverFrom
  <2> QED
    BY <2>1 DEF RecoverItems, OwnerColumnsFull
<1>5. CASE \E c \in Client, m \in Manifest : Register(c, m)
  BY <1>1, <1>5 DEF Register, itemVars
<1>6. CASE \E c \in Client, status \in BeatStatus, age \in BeatAge : Heartbeat(c, status, age)
  BY <1>1, <1>6 DEF Heartbeat, itemVars
<1>7. CASE Tick
  BY <1>1, <1>7 DEF Tick, itemVars
<1>8. CASE \E t \in Task, c \in Client : Acquire(t, c) \/ Renew(t, c) \/ Release(t, c)
  BY <1>1, <1>8 DEF Acquire, Renew, Release, itemVars
<1>9. CASE \E t \in Task : Expire(t)
  BY <1>1, <1>9 DEF Expire, itemVars
<1>10. CASE UNCHANGED vars
  BY <1>1, <1>10 DEF vars
<1> QED
  BY <1>3, <1>4, <1>5, <1>6, <1>7, <1>8, <1>9, <1>10, StepCases DEF StayingNext, vars

(* "... clear abandoned work ownership" is true of clients that stay: as     *)
(* long as none unregisters, no item in progress names, after a scan, a      *)
(* client the scan found stale.                                              *)
THEOREM ScanClearsOwnershipOfStaying == Init /\ [][StayingNext]_vars => ScanClearsOwnership
<1>1. Init /\ [][StayingNext]_vars => Spec
  <2>1. [StayingNext]_vars => [Next]_vars
    BY DEF StayingNext
  <2> QED
    BY <2>1, PTL DEF Spec
<1>2. Init /\ [][StayingNext]_vars => []OwnerColumnsFull
  <2>1. Init => OwnerColumnsFull
    BY DEF Init, OwnerColumnsFull
  <2> QED
    BY <1>1, <2>1, OwnerColumnsStep, TypeCorrect, PTL
<1>3. ASSUME TypeOK, StoreIntegrity, OwnerColumnsFull',
             NEW threshold \in Threshold, NEW auto \in BOOLEAN, StaleScan(threshold, auto),
             NEW c \in Stale(threshold), NEW t \in Task, item'[t] # None
      PROVE  ~(item'[t].assigned = c /\ item'[t].status \in Recoverable)
  <2>1. column'[t].assigned = item'[t].assigned
    BY <1>3 DEF OwnerColumnsFull
  <2> QED
    BY <1>3, <2>1, ScanLeaves
<1> DEFINE A == \A threshold \in Threshold, auto \in BOOLEAN :
                  StaleScan(threshold, auto) =>
                    \A c \in Stale(threshold), t \in Task :
                      item'[t] # None =>
                        ~(item'[t].assigned = c /\ item'[t].status \in Recoverable)
<1>4. TypeOK /\ StoreIntegrity /\ OwnerColumnsFull' => A
  BY <1>3
<1>5. [](TypeOK /\ StoreIntegrity /\ OwnerColumnsFull) => [][A]_vars
  BY <1>4, PTL
<1> QED
  BY <1>1, <1>2, <1>5, TypeCorrect, StoreAnchored, PTL DEF ScanClearsOwnership
=============================================================================
