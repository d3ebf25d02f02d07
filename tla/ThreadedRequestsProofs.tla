----------------------- MODULE ThreadedRequestsProofs -----------------------
(***************************************************************************)
(* Theorems about ThreadedRequests, for any number of threads, clients,    *)
(* tasks, events and crashes: a request that has its task to itself is as  *)
(* good as atomic.  The inductive invariant says what each request in      *)
(* flight carries (Shaped), that overlapping requests know of each other   *)
(* (Alone), that what a solo request has read or written is still there    *)
(* (Fresh) and that event numbers do not run ahead of the ledger           *)
(* (Numbered).  If no requests on a task overlap at all, the store keeps   *)
(* what the documentation promises and implements the table of leases.     *)
(***************************************************************************)
EXTENDS ThreadedRequests, TLAPS

LeaseKind == {"acquire", "renew", "release", "expire"}

Shaped ==
  \A th \in Thread : pc[th] # "idle" =>
    /\ local[th] \in Request
    /\ pc[th] = "save_lease" => local[th].kind \in LeaseKind /\ local[th].row \in LeaseRow
    /\ pc[th] \in {"update", "upsert", "upsert_again"} => local[th].kind = "transition"
    /\ local[th].kind = "transition" => local[th].saved \in WorkItem
    /\ pc[th] = "delete" => local[th].kind = "registry"
    /\ IF local[th].kind = "registry" THEN ~local[th].solo ELSE local[th].task \in Task

Alone ==
  \A th, u \in Thread :
    (th # u /\ pc[th] # "idle" /\ pc[u] # "idle" /\ local[th].task = local[u].task) =>
      ~local[th].solo

(* The lease row a solo request is about to replace is the one it judged. *)
FreshLease(th) ==
  LET t == local[th].task
  IN pc[th] = "save_lease" =>
       /\ local[th].kind = "acquire" => ~Active(t)
       /\ local[th].kind \in {"renew", "release"} =>
            lease[t] = NoRow \/ (Active(t) /\ lease[t].client = local[th].row.client)

(* So are the item and the projection a solo transition writes. *)
FreshItem(th) ==
  LET t == local[th].task
  IN local[th].kind = "transition" =>
       /\ pc[th] = "update" => TransitionAllowed(item[t].status, local[th].saved.status)
       /\ pc[th] \in {"upsert", "upsert_again", "count", "append"} => item[t] = local[th].saved
       /\ pc[th] \in {"upsert_again", "count", "append"} =>
            taskState[t] = FromWorkItem(local[th].saved)

Fresh == \A th \in Thread : Solo(th) => FreshLease(th) /\ FreshItem(th)

Numbered ==
  /\ \A i \in DOMAIN ledger : ~ledger[i].posted => ledger[i].seq <= i
  /\ \A th \in Thread : pc[th] = "append" => local[th].seq <= Len(ledger) + 1

-----------------------------------------------------------------------------
(* The loads *)

(* A request enters with what its load admitted. *)
Admitted(kind, t, row, saved, step) ==
  \/ kind = "denied" /\ row = NoRow /\ saved = None /\ step = "count"
  \/ kind = "acquire" /\ row \in LeaseRow /\ saved = None /\ step = "save_lease" /\ ~Active(t)
  \/ /\ kind \in {"renew", "release"} /\ row \in LeaseRow /\ saved = None /\ step = "save_lease"
     /\ Active(t) /\ lease[t].client = row.client
  \/ /\ kind = "expire" /\ row \in LeaseRow /\ saved = None /\ step = "save_lease"
     /\ row.status = "expired"
  \/ /\ kind = "transition" /\ row = NoRow /\ saved \in WorkItem /\ step = "update"
     /\ TransitionAllowed(item[t].status, saved.status)

Load(th, t) ==
  \E kind, row, saved, step :
    Admitted(kind, t, row, saved, step) /\ Begin(th, kind, t, row, saved, step)

(* Every request starts with a load that admits it. *)
LEMMA CallsLoad ==
  ASSUME TypeOK, NEW th \in Thread, NEW t \in Task, LeaseCall(th, t) \/ WorkItemCall(th, t)
  PROVE  Load(th, t)
<1>1. ASSUME NEW c \in Client, LoadForAcquire(th, t, c)
      PROVE  Load(th, t)
  <2>1. [client |-> c, status |-> "active"] \in LeaseRow
    BY DEF LeaseRow
  <2> QED
    BY <1>1, <2>1 DEF LoadForAcquire, Load, Admitted
<1>2. ASSUME NEW c \in Client, LoadForRenew(th, t, c) \/ LoadForRelease(th, t, c)
      PROVE  Load(th, t)
  <2>1. ASSUME NEW s \in {"active", "released"}
        PROVE  [client |-> c, status |-> s] \in LeaseRow
    BY DEF LeaseRow
  <2>2. CASE LoadForRenew(th, t, c)
    BY <2>1, <2>2 DEF LoadForRenew, Load, Admitted
  <2>3. CASE LoadForRelease(th, t, c)
    BY <2>1, <2>3 DEF LoadForRelease, Load, Admitted
  <2> QED
    BY <1>2, <2>2, <2>3
<1>3. CASE LoadForExpire(th, t)
  <2>1. [client |-> lease[t].client, status |-> "expired"] \in LeaseRow
    BY <1>3 DEF LoadForExpire, TypeOK, LeaseRow
  <2> QED
    BY <1>3, <2>1 DEF LoadForExpire, Load, Admitted
<1>4. ASSUME NEW target \in WorkItemStatus, NEW client \in Client \cup {None},
             LoadForTransition(th, t, target, client)
      PROVE  Load(th, t)
  <2>1. /\ TransitionedItem(item[t], target, client, None) \in WorkItem
        /\ TransitionedItem(item[t], target, client, None).status = target
    BY DEF TypeOK, TransitionedItem, UpdateWorkItem, Keep, WorkItem
  <2>2. CASE TransitionAllowed(item[t].status, target)
    BY <1>4, <2>1, <2>2 DEF LoadForTransition, Load, Admitted
  <2>3. CASE ~TransitionAllowed(item[t].status, target)
    BY <1>4, <2>3 DEF LoadForTransition, Load, Admitted
  <2> QED
    BY <2>2, <2>3
<1>5. WorkItemCall(th, t) => \E target \in WorkItemStatus, client \in Client \cup {None} :
                               LoadForTransition(th, t, target, client)
  BY ThreadAssumption DEF WorkItemCall
<1> QED
  BY <1>1, <1>2, <1>3, <1>4, <1>5 DEF LeaseCall

(* A step of the specification is one of the named transactions, or a     *)
(* stutter.                                                               *)
LEMMA StepCases ==
  ASSUME TypeOK, [Next]_vars
  PROVE  \/ \E th \in Thread, t \in Task : Load(th, t)
         \/ \E th \in Thread : SaveTaskLease(th)
         \/ \E th \in Thread : UpdateRow(th)
         \/ \E th \in Thread : UpsertRunTaskState(th)
         \/ \E th \in Thread : CountEvents(th)
         \/ \E th \in Thread : AppendEvent(th)
         \/ \E th \in Thread, c \in Client : Register(th, c)
         \/ \E th \in Thread, c \in Client : LoadForUnregister(th, c)
         \/ \E th \in Thread : Unregister(th)
         \/ \E t \in Task, seq \in PostedSeq : Ingest(t, seq)
         \/ Crash
         \/ UNCHANGED vars
BY CallsLoad DEF Next, ThreadStep, WaitForRequest

(* A load leaves the store alone and its own request in flight. *)
Entered(th, t, kind, row, saved, step) ==
  /\ pc[th] = "idle" /\ pc'[th] = step /\ step \in Step \ {"idle", "append"}
  /\ local'[th] = [kind |-> kind, task |-> t, client |-> None, row |-> row, saved |-> saved,
                   seq |-> 0, solo |-> InFlight(t) = {}]
  /\ local'[th] \in Request
  /\ \A u \in Thread \ {th} : pc'[u] = pc[u]
  /\ \A u \in Thread \ {th} :
       local'[u] = IF u \in InFlight(t) THEN [local[u] EXCEPT !.solo = FALSE] ELSE local[u]
  /\ UNCHANGED <<registered, lease, item, taskState, ledger, crashes>>

(* What the first transaction of any request does to the thread-local     *)
(* state.                                                                 *)
LEMMA LoadEffect ==
  ASSUME TypeOK, NEW th \in Thread, NEW t \in Task, Load(th, t)
  PROVE  \E kind, row, saved, step :
           /\ Admitted(kind, t, row, saved, step)
           /\ Entered(th, t, kind, row, saved, step)
           /\ pc' \in [Thread -> Step]
           /\ local' = [u \in Thread |-> local'[u]]
<1> PICK kind, row, saved, step :
      Admitted(kind, t, row, saved, step) /\ Begin(th, kind, t, row, saved, step)
  BY DEF Load
<1>1. pc[th] = "idle" /\ pc'[th] = step /\ \A u \in Thread \ {th} : pc'[u] = pc[u]
  BY DEF Begin, TypeOK
<1>2. step \in Step \ {"idle", "append"}
  BY DEF Admitted, Step
<1>3. local'[th] = [kind |-> kind, task |-> t, client |-> None, row |-> row, saved |-> saved,
                    seq |-> 0, solo |-> InFlight(t) = {}]
      /\ \A u \in Thread \ {th} :
           local'[u] = IF u \in InFlight(t) THEN [local[u] EXCEPT !.solo = FALSE] ELSE local[u]
  BY DEF Begin
<1>4. local'[th] \in Request
  <2>1. kind \in {"acquire", "renew", "release", "expire", "transition", "denied"}
        /\ row \in LeaseRow \cup {NoRow} /\ saved \in WorkItem \cup {None}
    BY DEF Admitted
  <2> QED
    BY <1>3, <2>1 DEF Request
<1>5. UNCHANGED <<registered, lease, item, taskState, ledger, crashes>>
  BY DEF Begin, store
<1>6. pc' \in [Thread -> Step] /\ local' = [u \in Thread |-> local'[u]]
  BY <1>2 DEF Begin, TypeOK
<1> QED
  BY <1>1, <1>2, <1>3, <1>4, <1>5, <1>6 DEF Entered

-----------------------------------------------------------------------------
(* Types, and what a request in flight carries *)

(* Finishing a request leaves the other threads alone. *)
LEMMA FinishEffect ==
  ASSUME TypeOK, NEW th \in Thread, Finish(th)
  PROVE  /\ pc' \in [Thread -> Step] /\ local' \in [Thread -> Request \cup {None}]
         /\ pc'[th] = "idle"
         /\ \A u \in Thread \ {th} : pc'[u] = pc[u] /\ local'[u] = local[u]
BY DEF Finish, TypeOK, Step

(* Moving one thread on changes no other thread's program counter.        *)
LEMMA GotoEffect ==
  ASSUME TypeOK, NEW th \in Thread, NEW step \in Step, Goto(th, step)
  PROVE  /\ pc' \in [Thread -> Step]
         /\ pc'[th] = step
         /\ \A u \in Thread \ {th} : pc'[u] = pc[u]
BY DEF Goto, TypeOK

(* What starting a registry request does to the thread-local state.       *)
LEMMA RegistryEffect ==
  ASSUME TypeOK, NEW th \in Thread, NEW c \in Client, NEW step \in {"count", "delete"},
         BeginRegistry(th, c, step)
  PROVE  /\ pc' \in [Thread -> Step] /\ local' \in [Thread -> Request \cup {None}]
         /\ pc[th] = "idle" /\ pc'[th] = step
         /\ local'[th] \in Request /\ local'[th].kind = "registry" /\ ~local'[th].solo
         /\ local'[th].task = None
         /\ \A u \in Thread \ {th} : pc'[u] = pc[u] /\ local'[u] = local[u]
         /\ UNCHANGED <<item, taskState, ledger, crashes>>
<1> DEFINE r == [kind |-> "registry", task |-> None, client |-> c, row |-> NoRow,
                 saved |-> None, seq |-> 0, solo |-> FALSE]
<1>1. r \in Request
  BY DEF Request
<1>2. local' = [local EXCEPT ![th] = r] /\ Goto(th, step) /\ step \in Step
      /\ pc[th] = "idle" /\ UNCHANGED <<item, taskState, ledger, crashes>>
  BY DEF BeginRegistry, Step
<1> HIDE DEF r
<1>3. local' \in [Thread -> Request \cup {None}] /\ local'[th] = r
      /\ \A u \in Thread \ {th} : local'[u] = local[u]
  BY <1>1, <1>2 DEF TypeOK
<1>4. r.kind = "registry" /\ ~r.solo /\ r.task = None
  BY DEF r
<1> QED
  BY <1>1, <1>2, <1>3, <1>4, GotoEffect

(* Every transaction keeps the types and the shape of the requests in     *)
(* flight.                                                                *)
LEMMA TypeStep == TypeOK /\ Shaped /\ [Next]_vars => TypeOK' /\ Shaped'
<1> SUFFICES ASSUME TypeOK, Shaped, [Next]_vars
             PROVE  TypeOK' /\ Shaped'
  OBVIOUS
<1>0. {"idle", "delete", "save_lease", "update", "upsert", "upsert_again", "count", "append"} = Step
  BY DEF Step
<1>1. CASE \E th \in Thread, t \in Task : Load(th, t)
  <2>1. PICK th \in Thread, t \in Task : Load(th, t)
    BY <1>1
  <2>2. PICK kind, row, saved, step :
          /\ Admitted(kind, t, row, saved, step)
          /\ Entered(th, t, kind, row, saved, step)
          /\ pc' \in [Thread -> Step]
          /\ local' = [u \in Thread |-> local'[u]]
    BY <2>1, LoadEffect
  <2>3. ASSUME NEW u \in Thread \ {th}, u \in InFlight(t)
        PROVE  /\ local'[u] \in Request
               /\ local'[u].kind = local[u].kind /\ local'[u].row = local[u].row
               /\ local'[u].saved = local[u].saved
               /\ local'[u].task = local[u].task /\ ~local'[u].solo
    <3>1. local[u] \in Request
      BY <2>3 DEF Shaped, InFlight
    <3>2. local'[u] = [local[u] EXCEPT !.solo = FALSE]
      BY <2>2, <2>3 DEF Entered
    <3> QED
      BY <3>1, <3>2 DEF Request
  <2>4. local' \in [Thread -> Request \cup {None}]
    <3>1. \A u \in Thread : local'[u] \in Request \cup {None}
      BY <2>2, <2>3 DEF Entered, TypeOK
    <3> QED
      BY <2>2, <3>1
  <2>5. TypeOK'
    BY <2>2, <2>4 DEF Entered, TypeOK
  <2>6. ASSUME NEW u \in Thread, pc'[u] # "idle"
        PROVE  /\ local'[u] \in Request
               /\ pc'[u] = "save_lease" => local'[u].kind \in LeaseKind /\ local'[u].row \in LeaseRow
               /\ pc'[u] \in {"update", "upsert", "upsert_again"} => local'[u].kind = "transition"
               /\ local'[u].kind = "transition" => local'[u].saved \in WorkItem
               /\ pc'[u] = "delete" => local'[u].kind = "registry"
               /\ IF local'[u].kind = "registry" THEN ~local'[u].solo ELSE local'[u].task \in Task
    <3>1. CASE u = th
      <4>1. local'[u] \in Request /\ pc'[u] = step /\ local'[u].kind = kind
            /\ local'[u].row = row /\ local'[u].saved = saved /\ local'[u].task = t
        BY <2>2, <3>1 DEF Entered
      <4> QED
        BY <2>2, <4>1 DEF Admitted, LeaseKind
    <3>2. CASE u # th /\ u \in InFlight(t)
      <4>1. pc'[u] = pc[u]
        BY <2>2, <3>2 DEF Entered
      <4> QED
        BY <2>3, <2>6, <3>2, <4>1 DEF Shaped
    <3>3. CASE u # th /\ u \notin InFlight(t)
      <4>1. pc'[u] = pc[u] /\ local'[u] = local[u]
        BY <2>2, <3>3 DEF Entered
      <4> QED
        BY <2>6, <4>1 DEF Shaped
    <3> QED
      BY <3>1, <3>2, <3>3
  <2> QED
    BY <2>5, <2>6 DEF Shaped
<1>2. CASE \E th \in Thread : SaveTaskLease(th)
  <2>1. PICK th \in Thread : SaveTaskLease(th)
    BY <1>2
  <2>2. local[th] \in Request /\ local[th].row \in LeaseRow /\ local[th].task \in Task
        /\ local[th].kind \in LeaseKind
    BY <2>1 DEF Shaped, SaveTaskLease, Request, LeaseKind
  <2>3. CASE Finish(th)
    BY <2>1, <2>3, FinishEffect DEF SaveTaskLease, TypeOK, Shaped
  <2>4. CASE ~Finish(th)
    BY <1>0, <2>1, <2>2, <2>4, GotoEffect DEF SaveTaskLease, TypeOK, Shaped, LeaseKind
  <2> QED
    BY <2>3, <2>4
<1>3. CASE \E th \in Thread : UpdateRow(th)
  <2>1. PICK th \in Thread : UpdateRow(th)
    BY <1>3
  <2>2. local[th] \in Request /\ local[th].saved \in WorkItem /\ local[th].task \in Task
        /\ local[th].kind = "transition"
    BY <2>1 DEF Shaped, UpdateRow, Request, LeaseKind
  <2>3. CASE Finish(th)
    BY <2>1, <2>3, FinishEffect DEF UpdateRow, TypeOK, Shaped
  <2>4. CASE ~Finish(th)
    BY <1>0, <2>1, <2>2, <2>4, GotoEffect DEF UpdateRow, TypeOK, Shaped
  <2> QED
    BY <2>3, <2>4
<1>4. CASE \E th \in Thread : UpsertRunTaskState(th)
  <2>1. PICK th \in Thread : UpsertRunTaskState(th)
    BY <1>4
  <2>2. local[th] \in Request /\ local[th].saved \in WorkItem /\ local[th].task \in Task
        /\ local[th].kind = "transition"
    BY <2>1 DEF Shaped, UpsertRunTaskState, Request, LeaseKind
  <2>3. FromWorkItem(local[th].saved) \in WorkItem
    BY <2>2 DEF FromWorkItem, WorkItem
  <2>4. \E step \in {"upsert_again", "count"} : Goto(th, step)
    BY <2>1 DEF UpsertRunTaskState
  <2> QED
    BY <1>0, <2>1, <2>2, <2>3, <2>4, GotoEffect DEF UpsertRunTaskState, TypeOK, Shaped
<1>5. CASE \E th \in Thread : CountEvents(th)
  <2>1. PICK th \in Thread : CountEvents(th)
    BY <1>5
  <2>2. local[th] \in Request /\ Len(ledger) + 1 \in Nat
    BY <2>1 DEF Shaped, CountEvents, TypeOK
  <2>3. /\ local'[th] \in Request /\ local'[th].kind = local[th].kind
        /\ local'[th].saved = local[th].saved
        /\ local'[th].task = local[th].task /\ local'[th].solo = local[th].solo
        /\ \A u \in Thread \ {th} : local'[u] = local[u]
    BY <2>1, <2>2 DEF CountEvents, TypeOK, Request
  <2>4. local' \in [Thread -> Request \cup {None}]
    BY <2>1, <2>3 DEF CountEvents, TypeOK
  <2>5. pc[th] = "count" /\ pc'[th] = "append" /\ pc' \in [Thread -> Step]
        /\ \A u \in Thread \ {th} : pc'[u] = pc[u]
    BY <1>0, <2>1, GotoEffect DEF CountEvents
  <2>6. UNCHANGED <<registered, lease, item, taskState, ledger, crashes>>
    BY <2>1 DEF CountEvents, store
  <2>7. TypeOK'
    BY <2>4, <2>5, <2>6 DEF TypeOK
  <2>8. Shaped'
    BY <2>3, <2>5 DEF Shaped
  <2> QED
    BY <2>7, <2>8
<1>6. CASE \E th \in Thread : AppendEvent(th)
  <2>1. PICK th \in Thread : AppendEvent(th)
    BY <1>6
  <2>2. [seq |-> local[th].seq, task |-> local[th].task, posted |-> FALSE] \in LedgerEvent
    BY <2>1 DEF Shaped, AppendEvent, Request, LedgerEvent
  <2>3. ledger' \in Seq(LedgerEvent)
    BY <2>1, <2>2 DEF AppendEvent, TypeOK
  <2> QED
    BY <2>1, <2>3, FinishEffect DEF AppendEvent, TypeOK, Shaped, store
<1>7. ASSUME NEW th \in Thread, NEW c \in Client, Register(th, c) \/ LoadForUnregister(th, c)
      PROVE  TypeOK' /\ Shaped'
  <2>1. PICK step \in {"count", "delete"} : BeginRegistry(th, c, step)
    BY <1>7 DEF Register, LoadForUnregister
  <2>2. registered' \subseteq Client /\ lease' = lease
    BY <1>7 DEF Register, LoadForUnregister, TypeOK
  <2>3. TypeOK'
    BY <2>1, <2>2, RegistryEffect DEF TypeOK
  <2>4. Shaped'
    BY <2>1, RegistryEffect DEF Shaped
  <2> QED
    BY <2>3, <2>4
<1>8. CASE \E th \in Thread : Unregister(th)
  <2>1. PICK th \in Thread : Unregister(th)
    BY <1>8
  <2>2. pc' \in [Thread -> Step] /\ pc[th] = "delete" /\ pc'[th] = "count"
        /\ \A u \in Thread \ {th} : pc'[u] = pc[u]
    BY <1>0, <2>1, GotoEffect DEF Unregister
  <2> QED
    BY <2>1, <2>2 DEF Unregister, TypeOK, Shaped
<1>9. CASE \E t \in Task, seq \in PostedSeq : Ingest(t, seq)
  <2>1. PICK t \in Task, seq \in PostedSeq : Ingest(t, seq)
    BY <1>9
  <2>2. [seq |-> seq, task |-> t, posted |-> TRUE] \in LedgerEvent
    BY ThreadAssumption DEF LedgerEvent
  <2>3. ledger' \in Seq(LedgerEvent)
    BY <2>1, <2>2 DEF Ingest, TypeOK
  <2> QED
    BY <2>1, <2>3 DEF Ingest, TypeOK, Shaped, store
<1>10. CASE Crash
  BY <1>10 DEF Crash, TypeOK, Shaped, Step, store
<1>11. CASE UNCHANGED vars
  BY <1>11 DEF vars, TypeOK, Shaped
<1> QED
  BY <1>1, <1>2, <1>3, <1>4, <1>5, <1>6, <1>7, <1>8, <1>9, <1>10, <1>11, StepCases

(* Rows, ledger and requests in flight are well typed in every interleaving. *)
THEOREM TypeCorrect == Spec => [](TypeOK /\ Shaped)
<1>1. Init => TypeOK /\ Shaped
  <2>1. QueuedItem \in WorkItem /\ FromWorkItem(QueuedItem) \in WorkItem
    BY DEF QueuedItem, FromWorkItem, WorkItem, WorkItemStatus
  <2> QED
    BY <2>1 DEF Init, TypeOK, Shaped, Step
<1> QED
  BY <1>1, TypeStep, PTL DEF Spec

-----------------------------------------------------------------------------
(* Leases *)

(* No interleaving of lease requests with unregistrations leaves a lease     *)
(* without its client: the foreign key is checked by the write itself.       *)
THEOREM LeasesStayAnchored == Spec => []LeasesAnchored
<1>1. Init => LeasesAnchored
  BY DEF Init, LeasesAnchored
<1>2. TypeOK /\ Shaped /\ LeasesAnchored /\ [Next]_vars => LeasesAnchored'
  <2> SUFFICES ASSUME TypeOK, Shaped, LeasesAnchored, [Next]_vars
               PROVE  LeasesAnchored'
    OBVIOUS
  <2>1. CASE UNCHANGED <<registered, lease>>
    BY <2>1 DEF LeasesAnchored
  <2>2. ASSUME NEW th \in Thread, SaveTaskLease(th)
        PROVE  LeasesAnchored'
    BY <2>2 DEF SaveTaskLease, LeasesAnchored, TypeOK
  <2>3. CASE \E th \in Thread, c \in Client : Register(th, c) \/ LoadForUnregister(th, c)
    BY <2>3 DEF Register, LoadForUnregister, LeasesAnchored
  <2>4. CASE \E th \in Thread : Unregister(th)
    BY <2>4 DEF Unregister, LeasesAnchored, TypeOK
  <2>5. CASE \E th \in Thread, t \in Task : Load(th, t)
    BY <2>1, <2>5, LoadEffect DEF Entered
  <2>6. CASE \/ \E th \in Thread : UpdateRow(th) \/ UpsertRunTaskState(th)
             \/ \E th \in Thread : CountEvents(th) \/ AppendEvent(th)
             \/ \E t \in Task, seq \in PostedSeq : Ingest(t, seq)
             \/ Crash
             \/ UNCHANGED vars
    BY <2>1, <2>6 DEF UpdateRow, UpsertRunTaskState, CountEvents, AppendEvent, Ingest, Crash,
                      vars, store
  <2> QED
    BY <2>2, <2>3, <2>4, <2>5, <2>6, StepCases
<1> QED
  BY <1>1, <1>2, TypeCorrect, PTL DEF Spec

-----------------------------------------------------------------------------
(* Solo requests *)

(* What a thread does once it has loaded changes only its own request. *)
LEMMA OwnStep ==
  ASSUME TypeOK, Shaped, NEW th \in Thread, ThreadStep(th)
  PROVE  /\ pc[th] # "idle"
         /\ \A u \in Thread \ {th} : pc'[u] = pc[u] /\ local'[u] = local[u]
         /\ pc'[th] # "idle" =>
              /\ local'[th].task = local[th].task /\ local'[th].solo = local[th].solo
              /\ local'[th].kind = local[th].kind /\ local'[th].saved = local[th].saved
              /\ local'[th].row = local[th].row
<1>1. CASE CountEvents(th)
  <2>1. local[th] \in Request
    BY <1>1 DEF CountEvents, Shaped
  <2>2. local'[th] = [local[th] EXCEPT !.seq = Len(ledger) + 1]
        /\ \A u \in Thread \ {th} : local'[u] = local[u]
    BY <1>1 DEF CountEvents, TypeOK
  <2>3. pc[th] # "idle" /\ \A u \in Thread \ {th} : pc'[u] = pc[u]
    BY <1>1 DEF CountEvents, Goto, TypeOK
  <2> QED
    BY <2>1, <2>2, <2>3 DEF Request
<1>2. CASE SaveTaskLease(th)
  BY <1>2, FinishEffect DEF SaveTaskLease, Goto, TypeOK
<1>3. CASE UpdateRow(th)
  BY <1>3, FinishEffect DEF UpdateRow, Goto, TypeOK
<1>4. CASE UpsertRunTaskState(th)
  BY <1>4 DEF UpsertRunTaskState, Goto, TypeOK
<1>5. CASE AppendEvent(th)
  BY <1>5, FinishEffect DEF AppendEvent
<1> QED
  BY <1>1, <1>2, <1>3, <1>4, <1>5 DEF ThreadStep

(* Of requests in flight on one task together none is marked solo.        *)
LEMMA AloneStep == TypeOK /\ Shaped /\ Alone /\ [Next]_vars => Alone'
<1> SUFFICES ASSUME TypeOK, Shaped, Alone, [Next]_vars
             PROVE  Alone'
  OBVIOUS
<1>1. CASE \E th \in Thread, t \in Task : Load(th, t)
  <2>1. PICK th \in Thread, t \in Task : Load(th, t)
    BY <1>1
  <2>2. PICK kind, row, saved, step : Entered(th, t, kind, row, saved, step)
    BY <2>1, LoadEffect
  <2>3. ASSUME NEW u \in Thread \ {th}, pc'[u] # "idle"
        PROVE  /\ pc[u] # "idle" /\ local'[u].task = local[u].task
               /\ local[u].task = t => u \in InFlight(t) /\ local'[u].solo = FALSE
               /\ ~local[u].solo => ~local'[u].solo
    <3>1. pc[u] # "idle" /\ local[u] \in Request
      BY <2>2, <2>3 DEF Entered, Shaped
    <3>2. local'[u] = IF u \in InFlight(t) THEN [local[u] EXCEPT !.solo = FALSE] ELSE local[u]
      BY <2>2 DEF Entered
    <3> QED
      BY <3>1, <3>2 DEF Request, InFlight
  <2>4. local'[th].task = t /\ local'[th].solo = (InFlight(t) = {})
    BY <2>2 DEF Entered
  <2> QED
    BY <2>3, <2>4 DEF Alone
<1>2. ASSUME NEW th \in Thread, ThreadStep(th)
      PROVE  Alone'
  BY <1>2, OwnStep DEF Alone
<1>3. CASE UNCHANGED <<pc, local>>
  BY <1>3 DEF Alone
<1>4. CASE Crash
  BY <1>4 DEF Crash, Alone
<1>5. ASSUME NEW th \in Thread, NEW c \in Client, Register(th, c) \/ LoadForUnregister(th, c)
      PROVE  Alone'
  <2>1. PICK step \in {"count", "delete"} : BeginRegistry(th, c, step)
    BY <1>5 DEF Register, LoadForUnregister
  <2>2. ASSUME NEW u \in Thread \ {th}, pc'[u] # "idle", local'[u].solo
        PROVE  local'[u].task \in Task
    BY <2>1, <2>2, RegistryEffect DEF Shaped
  <2> QED
    BY <2>1, <2>2, RegistryEffect, NoneAssumption DEF Alone
<1>6. CASE \E th \in Thread : Unregister(th)
  BY <1>6 DEF Unregister, Goto, Alone, TypeOK
<1>7. CASE \/ \E t \in Task, seq \in PostedSeq : Ingest(t, seq)
           \/ UNCHANGED vars
  BY <1>3, <1>7 DEF Ingest, vars
<1> QED
  BY <1>1, <1>2, <1>4, <1>5, <1>6, <1>7, StepCases DEF ThreadStep

(* What a solo request has loaded stays current up to its write.          *)
LEMMA FreshStep == TypeOK /\ Shaped /\ Alone /\ Fresh /\ [Next]_vars => Fresh'
<1> SUFFICES ASSUME TypeOK, Shaped, Alone, Fresh, [Next]_vars
             PROVE  Fresh'
  OBVIOUS
<1>1. CASE \E th \in Thread, t \in Task : Load(th, t)
  <2>1. PICK th \in Thread, t \in Task : Load(th, t)
    BY <1>1
  <2>2. PICK kind, row, saved, step :
          Admitted(kind, t, row, saved, step) /\ Entered(th, t, kind, row, saved, step)
    BY <2>1, LoadEffect
  <2>3. UNCHANGED <<lease, item, taskState>>
    BY <2>2 DEF Entered
  <2>4. FreshLease(th)' /\ FreshItem(th)'
    <3>1. pc'[th] = step /\ local'[th].kind = kind /\ local'[th].task = t
          /\ local'[th].row = row /\ local'[th].saved = saved
      BY <2>2 DEF Entered
    <3>2. FreshLease(th)'
      BY <2>2, <2>3, <3>1 DEF Admitted, FreshLease, Active
    <3>3. FreshItem(th)'
      BY <2>2, <2>3, <3>1 DEF Admitted, FreshItem
    <3> QED
      BY <3>2, <3>3
  <2>5. ASSUME NEW u \in Thread \ {th}, Solo(u)'
        PROVE  FreshLease(u)' /\ FreshItem(u)'
    <3>1. pc'[u] = pc[u] /\ pc[u] # "idle" /\ local[u] \in Request
      BY <2>2, <2>5 DEF Entered, Solo, Shaped
    <3>2. local'[u] = local[u]
      BY <2>2, <2>5, <3>1 DEF Entered, Solo, Request
    <3> QED
      BY <2>3, <2>5, <3>1, <3>2 DEF Fresh, Solo, FreshLease, FreshItem, Active
  <2> QED
    BY <2>4, <2>5 DEF Fresh
<1>2. ASSUME NEW th \in Thread, ThreadStep(th)
      PROVE  Fresh'
  <2>0. /\ local[th] \in Request /\ pc[th] # "idle"
        /\ local[th].kind # "registry" => local[th].task \in Task
    BY <1>2, OwnStep DEF Shaped, Request
  <2>1. \A t \in Task \ {local[th].task} :
          lease'[t] = lease[t] /\ item'[t] = item[t] /\ taskState'[t] = taskState[t]
    BY <1>2, <2>0 DEF ThreadStep, SaveTaskLease, UpdateRow, UpsertRunTaskState, CountEvents,
                      AppendEvent, TypeOK, store
  <2>2. ASSUME NEW u \in Thread \ {th}, Solo(u)'
        PROVE  FreshLease(u)' /\ FreshItem(u)'
    <3>1. pc'[u] = pc[u] /\ local'[u] = local[u] /\ Solo(u)
      BY <1>2, <2>2, OwnStep DEF Solo
    <3>2. local[u].task \in Task \ {local[th].task}
      BY <2>0, <3>1 DEF Alone, Solo, Shaped, Request
    <3>3. FreshLease(u) /\ FreshItem(u)
      BY <3>1 DEF Fresh
    <3> QED
      BY <2>1, <3>1, <3>2, <3>3 DEF FreshLease, FreshItem, Active
  <2>3. ASSUME Solo(th)'
        PROVE  FreshLease(th)' /\ FreshItem(th)'
    <3>1. /\ Solo(th) /\ pc'[th] # "idle"
          /\ local'[th].task = local[th].task
          /\ local'[th].kind = local[th].kind /\ local'[th].saved = local[th].saved
      BY <1>2, <2>3, OwnStep DEF Solo
    <3>2. pc'[th] # "save_lease" /\ pc'[th] # "update"
      BY <1>2, <3>1 DEF ThreadStep, SaveTaskLease, UpdateRow, UpsertRunTaskState, CountEvents,
                  AppendEvent, Goto, Finish, TypeOK
    <3>3. FreshItem(th)
      BY <3>1 DEF Fresh
    <3>4. CASE SaveTaskLease(th)
      <4>1. local[th].kind # "transition"
        BY <2>0, <3>4 DEF SaveTaskLease, Shaped, LeaseKind
      <4> QED
        BY <3>1, <3>2, <4>1 DEF FreshLease, FreshItem
    <3>5. CASE UpdateRow(th)
      <4>1. local[th].task \in Task
        BY <2>0, <3>5 DEF UpdateRow, Shaped
      <4>2. pc'[th] = "upsert" /\ item'[local[th].task] = local[th].saved
        BY <3>1, <3>5, <4>1, FinishEffect DEF UpdateRow, Goto, TypeOK
      <4> QED
        BY <3>1, <4>2 DEF FreshLease, FreshItem
    <3>6. CASE UpsertRunTaskState(th)
      <4>1. /\ pc[th] \in {"upsert", "upsert_again"} /\ local[th].kind = "transition"
            /\ item' = item
            /\ taskState'[local[th].task] = FromWorkItem(local[th].saved)
        BY <2>0, <3>6 DEF UpsertRunTaskState, TypeOK, Shaped
      <4> QED
        BY <3>1, <3>2, <3>3, <4>1 DEF FreshLease, FreshItem
    <3>7. CASE CountEvents(th)
      <4>1. pc[th] = "count" /\ UNCHANGED <<item, taskState>>
        BY <3>7 DEF CountEvents, store
      <4> QED
        BY <3>1, <3>2, <3>3, <4>1 DEF FreshLease, FreshItem
    <3>8. CASE AppendEvent(th)
      BY <3>1, <3>8, FinishEffect DEF AppendEvent
    <3> QED
      BY <1>2, <3>4, <3>5, <3>6, <3>7, <3>8 DEF ThreadStep
  <2> QED
    BY <2>2, <2>3 DEF Fresh
<1>3. CASE UNCHANGED <<pc, local, lease, item, taskState>>
  BY <1>3 DEF Fresh, Solo, FreshLease, FreshItem, Active
<1>4. CASE \E th \in Thread : Unregister(th)
  <2>1. PICK th \in Thread : Unregister(th)
    BY <1>4
  <2>2. /\ UNCHANGED <<local, item, taskState>>
        /\ \A u \in Thread : pc'[u] = pc[u] \/ (pc[u] = "delete" /\ pc'[u] = "count")
        /\ \A t \in Task : lease'[t] = NoRow \/ lease'[t] = lease[t]
    <3>1. pc[th] = "delete" /\ Goto(th, "count") /\ UNCHANGED <<local, item, taskState>>
      BY <2>1 DEF Unregister
    <3>2. \A u \in Thread : pc'[u] = pc[u] \/ (pc[u] = "delete" /\ pc'[u] = "count")
      <4>1. "count" \in Step
        BY DEF Step
      <4> QED
        BY <3>1, <4>1, GotoEffect
    <3>3. \A t \in Task : lease'[t] = NoRow \/ lease'[t] = lease[t]
      BY <2>1 DEF Unregister
    <3> QED
      BY <3>1, <3>2, <3>3
  <2>3. ASSUME NEW u \in Thread, Solo(u), pc'[u] = pc[u]
        PROVE  FreshLease(u)' /\ FreshItem(u)'
    <3>1. local[u].task \in Task /\ FreshLease(u) /\ FreshItem(u)
      BY <2>3 DEF Shaped, Solo, Fresh
    <3>2. NoRow.status # "active"
      BY DEF NoRow
    <3> QED
      BY <2>2, <2>3, <3>1, <3>2 DEF FreshLease, FreshItem, Active
  <2>4. ASSUME NEW u \in Thread, pc[u] = "delete"
        PROVE  ~local[u].solo
    BY <2>4 DEF Shaped
  <2> QED
    BY <2>2, <2>3, <2>4 DEF Fresh, Solo
<1>5. CASE Crash
  BY <1>5 DEF Crash, Fresh, Solo
<1>6. ASSUME NEW th \in Thread, NEW c \in Client, Register(th, c) \/ LoadForUnregister(th, c)
      PROVE  Fresh'
  <2>1. PICK step \in {"count", "delete"} : BeginRegistry(th, c, step)
    BY <1>6 DEF Register, LoadForUnregister
  <2>2. UNCHANGED <<lease, item, taskState>> /\ ~Solo(th)'
        /\ \A u \in Thread \ {th} : pc'[u] = pc[u] /\ local'[u] = local[u]
    BY <1>6, <2>1, RegistryEffect DEF Register, LoadForUnregister, Solo
  <2> QED
    BY <2>2 DEF Fresh, Solo, FreshLease, FreshItem, Active
<1>7. CASE (\E t \in Task, seq \in PostedSeq : Ingest(t, seq)) \/ UNCHANGED vars
  BY <1>3, <1>7 DEF Ingest, vars, store
<1> QED
  BY <1>1, <1>2, <1>4, <1>5, <1>6, <1>7, StepCases DEF ThreadStep

(* Overlapping requests know of each other, and what a solo request has read *)
(* or written is still in the store at its next step.                        *)
THEOREM SoloFresh == Spec => [](Alone /\ Fresh)
<1>1. Init => Alone /\ Fresh
  BY DEF Init, Alone, Fresh, Solo
<1> QED
  BY <1>1, AloneStep, FreshStep, TypeCorrect, PTL DEF Spec

(* A transition that has its task to itself brings run_task_states back to   *)
(* the stored item, whatever races and crashes left behind before it.        *)
THEOREM SoloSyncs == Spec => []SoloTransitionSyncs
<1>1. Fresh => SoloTransitionSyncs
  BY DEF Fresh, FreshItem, SoloTransitionSyncs
<1> QED
  BY <1>1, SoloFresh, PTL

(* The decision of a solo transition still holds when its row is written. *)
THEOREM SoloLegal == Spec => SoloTransitionsLegal
<1> DEFINE A == \A th \in Thread : (UpdateRow(th) /\ Solo(th)) =>
                  \A t \in Task : item'[t] # item[t] =>
                    t = local[th].task /\ TransitionAllowed(item[t].status, item'[t].status)
<1>1. TypeOK /\ Shaped /\ Fresh => A
  <2> SUFFICES ASSUME TypeOK, Shaped, Fresh,
                      NEW th \in Thread, UpdateRow(th), Solo(th),
                      NEW t \in Task, item'[t] # item[t]
               PROVE  t = local[th].task /\ TransitionAllowed(item[t].status, item'[t].status)
    OBVIOUS
  <2>1. item' = [item EXCEPT ![local[th].task] = local[th].saved] /\ pc[th] = "update"
    BY DEF UpdateRow
  <2>2. t = local[th].task /\ item'[t] = local[th].saved
    BY <2>1 DEF TypeOK
  <2>3. local[th].kind = "transition"
    BY <2>1 DEF Shaped
  <2> QED
    BY <2>1, <2>2, <2>3 DEF Fresh, FreshItem
<1>2. [](TypeOK /\ Shaped) /\ [](Alone /\ Fresh) => [][A]_vars
  BY <1>1, PTL
<1> QED
  BY <1>2, TypeCorrect, SoloFresh, PTL DEF SoloTransitionsLegal

(* So does the check of a solo acquire, renew or release of a lease. *)
THEOREM SoloLeaseLegal == Spec => SoloLeaseStepsLegal
<1> DEFINE A == \A th \in Thread : (SaveTaskLease(th) /\ Solo(th)) =>
                  LET t == local[th].task
                      kind == local[th].kind
                  IN /\ kind = "acquire" => ~Active(t)
                     /\ kind \in {"renew", "release"} =>
                          lease[t] = NoRow \/ (Active(t) /\ lease[t].client = local[th].row.client)
<1>1. Fresh => A
  BY DEF Fresh, FreshLease, SaveTaskLease
<1>2. [](Alone /\ Fresh) => [][A]_vars
  BY <1>1, PTL
<1> QED
  BY <1>2, SoloFresh, PTL DEF SoloLeaseStepsLegal

-----------------------------------------------------------------------------
(* Event numbers *)

(* Appending an event e. *)
LEMMA AppendedLedger ==
  ASSUME NEW L \in Seq(LedgerEvent), NEW e \in LedgerEvent
  PROVE  /\ Len(Append(L, e)) = Len(L) + 1 /\ Len(L) \in Nat
         /\ \A i \in DOMAIN Append(L, e) :
              \/ i \in DOMAIN L /\ Append(L, e)[i] = L[i]
              \/ i = Len(L) + 1 /\ Append(L, e)[i] = e
OBVIOUS

(* Every event the services append is numbered below the ledger's length  *)
(* plus one.                                                              *)
LEMMA NumberedStep ==
  TypeOK /\ Shaped /\ Alone /\ Numbered /\ SoloEventReplaysLast /\ [Next]_vars
    => Numbered' /\ SoloEventReplaysLast'
<1> SUFFICES ASSUME TypeOK, Shaped, Alone, Numbered, SoloEventReplaysLast, [Next]_vars
             PROVE  Numbered' /\ SoloEventReplaysLast'
  OBVIOUS
<1>1. CASE \E th \in Thread, t \in Task : Load(th, t)
  <2>1. PICK th \in Thread, t \in Task : Load(th, t)
    BY <1>1
  <2>2. PICK kind, row, saved, step : Entered(th, t, kind, row, saved, step)
    BY <2>1, LoadEffect
  <2>3. ledger' = ledger /\ pc'[th] # "append"
    BY <2>2 DEF Entered
  <2>4. ASSUME NEW u \in Thread \ {th}, pc'[u] # "idle"
        PROVE  /\ pc'[u] = pc[u] /\ local'[u].seq = local[u].seq
               /\ local'[u].task = local[u].task /\ (local'[u].solo => local[u].solo)
    <3>1. pc'[u] = pc[u] /\ local[u] \in Request
      BY <2>2, <2>4 DEF Entered, Shaped
    <3>2. local'[u] = IF u \in InFlight(t) THEN [local[u] EXCEPT !.solo = FALSE] ELSE local[u]
      BY <2>2 DEF Entered
    <3> QED
      BY <3>1, <3>2 DEF Request
  <2>5. Numbered'
    BY <2>3, <2>4 DEF Numbered
  <2>6. SoloEventReplaysLast'
    BY <2>3, <2>4 DEF SoloEventReplaysLast, Solo
  <2> QED
    BY <2>5, <2>6
<1>2. ASSUME NEW th \in Thread, CountEvents(th)
      PROVE  Numbered' /\ SoloEventReplaysLast'
  <2>1. ledger' = ledger /\ Len(ledger) \in Nat
        /\ \A u \in Thread \ {th} : pc'[u] = pc[u] /\ local'[u] = local[u]
    <3>1. ledger' = ledger /\ Len(ledger) \in Nat
      BY <1>2 DEF CountEvents, TypeOK
    <3>2. ThreadStep(th)
      BY <1>2 DEF ThreadStep
    <3> QED
      BY <3>1, <3>2, OwnStep
  <2>2. local[th] \in Request /\ local'[th] = [local[th] EXCEPT !.seq = Len(ledger) + 1]
    BY <1>2 DEF CountEvents, Shaped, TypeOK
  <2>3. local'[th].seq = Len(ledger) + 1 /\ local'[th].task = local[th].task
    BY <2>2 DEF Request
  <2>4. ASSUME NEW i \in DOMAIN ledger, ~ledger[i].posted
        PROVE  ledger[i].seq < local'[th].seq
    <3>1. i \in 1..Len(ledger) /\ ledger[i] \in LedgerEvent
      BY DEF TypeOK
    <3>2. ledger[i].seq \in Nat /\ ledger[i].seq <= i
      BY <2>4, <3>1 DEF LedgerEvent, Numbered
    <3> QED
      BY <2>1, <2>3, <3>1, <3>2
  <2>5. Numbered'
    BY <2>1, <2>3 DEF Numbered
  <2>6. SoloEventReplaysLast'
    BY <2>1, <2>4 DEF SoloEventReplaysLast, Solo
  <2> QED
    BY <2>5, <2>6
<1>3. ASSUME NEW th \in Thread, AppendEvent(th)
      PROVE  Numbered' /\ SoloEventReplaysLast'
  <2> DEFINE e == [seq |-> local[th].seq, task |-> local[th].task, posted |-> FALSE]
  <2>1. /\ local[th] \in Request /\ pc[th] = "append" /\ pc'[th] = "idle"
        /\ \A u \in Thread \ {th} : pc'[u] = pc[u] /\ local'[u] = local[u]
    BY <1>3, FinishEffect DEF AppendEvent, Shaped
  <2>2. ledger' = Append(ledger, e) /\ e \in LedgerEvent /\ ledger \in Seq(LedgerEvent)
    BY <1>3, <2>1 DEF AppendEvent, Request, LedgerEvent, TypeOK
  <2>3. /\ Len(ledger') = Len(ledger) + 1 /\ Len(ledger) \in Nat
        /\ \A i \in DOMAIN ledger' :
             \/ i \in DOMAIN ledger /\ ledger'[i] = ledger[i]
             \/ i = Len(ledger) + 1 /\ ledger'[i] = e
    BY <2>2, AppendedLedger
  <2>4. e.seq <= Len(ledger) + 1 /\ e.task = local[th].task
    BY <2>1 DEF Numbered
  <2>5. Numbered'
    <3>1. \A i \in DOMAIN ledger' : ~ledger'[i].posted => ledger'[i].seq <= i
      BY <2>3, <2>4 DEF Numbered
    <3>2. ASSUME NEW u \in Thread, pc'[u] = "append"
          PROVE  local'[u].seq <= Len(ledger') + 1
      <4>1. pc[u] = "append" /\ local'[u] = local[u] /\ local[u] \in Request
        BY <2>1, <3>2 DEF Shaped
      <4>2. local[u].seq \in Nat /\ local[u].seq <= Len(ledger) + 1
        BY <4>1 DEF Request, Numbered
      <4> QED
        BY <2>3, <4>1, <4>2
    <3> QED
      BY <3>1, <3>2 DEF Numbered
  <2>6. ASSUME NEW u \in Thread, Solo(u)', pc'[u] = "append", NEW i \in DOMAIN ledger',
               ~ledger'[i].posted, ledger'[i].task = local'[u].task
        PROVE  ledger'[i].seq < local'[u].seq
    <3>1. u # th /\ pc[u] = "append" /\ local'[u] = local[u] /\ Solo(u)
      BY <2>1, <2>6 DEF Solo
    <3>2. local[u].task # local[th].task
      BY <2>1, <3>1 DEF Alone, Solo
    <3>3. i \in DOMAIN ledger /\ ledger'[i] = ledger[i]
      BY <2>3, <2>4, <2>6, <3>1, <3>2
    <3> QED
      BY <2>6, <3>1, <3>3 DEF SoloEventReplaysLast
  <2> QED
    BY <2>5, <2>6 DEF SoloEventReplaysLast
<1>4. ASSUME NEW t \in Task, NEW seq \in PostedSeq, Ingest(t, seq)
      PROVE  Numbered' /\ SoloEventReplaysLast'
  <2> DEFINE e == [seq |-> seq, task |-> t, posted |-> TRUE]
  <2>1. UNCHANGED <<pc, local>>
    BY <1>4 DEF Ingest
  <2>2. ledger' = Append(ledger, e) /\ e \in LedgerEvent /\ ledger \in Seq(LedgerEvent)
    BY <1>4, ThreadAssumption DEF Ingest, LedgerEvent, TypeOK
  <2>3. /\ Len(ledger') = Len(ledger) + 1 /\ Len(ledger) \in Nat
        /\ \A i \in DOMAIN ledger' :
             \/ i \in DOMAIN ledger /\ ledger'[i] = ledger[i]
             \/ i = Len(ledger) + 1 /\ ledger'[i] = e
    BY <2>2, AppendedLedger
  <2>4. e.posted
    OBVIOUS
  <2>5. ASSUME NEW u \in Thread, pc[u] = "append"
        PROVE  local[u].seq <= Len(ledger') + 1
    <3>1. local[u].seq \in Nat /\ local[u].seq <= Len(ledger) + 1
      BY <2>5 DEF Numbered, Shaped, Request
    <3> QED
      BY <2>3, <3>1
  <2>6. Numbered'
    BY <2>1, <2>3, <2>4, <2>5 DEF Numbered
  <2>7. SoloEventReplaysLast'
    BY <2>1, <2>3, <2>4 DEF SoloEventReplaysLast, Solo
  <2> QED
    BY <2>6, <2>7
<1>5. ASSUME NEW th \in Thread, SaveTaskLease(th) \/ UpdateRow(th) \/ UpsertRunTaskState(th)
      PROVE  Numbered' /\ SoloEventReplaysLast'
  <2>1. ledger' = ledger /\ pc'[th] # "append"
        /\ \A u \in Thread \ {th} : pc'[u] = pc[u] /\ local'[u] = local[u]
    BY <1>5, OwnStep DEF SaveTaskLease, UpdateRow, UpsertRunTaskState, Goto, Finish, TypeOK,
                         ThreadStep
  <2> QED
    BY <2>1 DEF Numbered, SoloEventReplaysLast, Solo
<1>6. CASE UNCHANGED <<ledger, pc, local>>
  BY <1>6 DEF Numbered, SoloEventReplaysLast, Solo
<1>7. CASE Crash
  BY <1>7 DEF Crash, Numbered, SoloEventReplaysLast, Solo
<1>8. ASSUME NEW th \in Thread, NEW c \in Client, Register(th, c) \/ LoadForUnregister(th, c)
      PROVE  Numbered' /\ SoloEventReplaysLast'
  <2>1. PICK step \in {"count", "delete"} : BeginRegistry(th, c, step)
    BY <1>8 DEF Register, LoadForUnregister
  <2>2. ledger' = ledger /\ pc'[th] # "append"
        /\ \A u \in Thread \ {th} : pc'[u] = pc[u] /\ local'[u] = local[u]
    BY <2>1, RegistryEffect
  <2> QED
    BY <2>2 DEF Numbered, SoloEventReplaysLast, Solo
<1>9. ASSUME NEW th \in Thread, Unregister(th)
      PROVE  Numbered' /\ SoloEventReplaysLast'
  <2>1. UNCHANGED <<ledger, local>> /\ pc'[th] # "append"
        /\ \A u \in Thread \ {th} : pc'[u] = pc[u]
    BY <1>9 DEF Unregister, Goto, TypeOK
  <2> QED
    BY <2>1 DEF Numbered, SoloEventReplaysLast, Solo
<1>10. CASE UNCHANGED vars
  BY <1>6, <1>10 DEF vars
<1> QED
  BY <1>1, <1>2, <1>3, <1>4, <1>5, <1>7, <1>8, <1>9, <1>10, StepCases

(* Ordering the ledger by sequence puts the event of a solo request after    *)
(* all earlier service events of its task, although numbers are taken in one *)
(* transaction and used in another, and clients post numbers of their own.   *)
THEOREM SoloReplayOrder == Spec => []SoloEventReplaysLast
<1>1. Init => Numbered /\ SoloEventReplaysLast
  BY DEF Init, Numbered, SoloEventReplaysLast, Solo
<1> QED
  BY <1>1, NumberedStep, SoloFresh, TypeCorrect, PTL DEF Spec

-----------------------------------------------------------------------------
(* What the documentation says of every interleaving *)

(* At most one request on each task is in flight: a server with one thread,  *)
(* or one that holds a lock per task from the load to the last write.        *)
NeverOverlapping == \A t \in Task : \A th, u \in InFlight(t) : th = u

(* Then every lease or work-item request is solo; an expiry writes what it   *)
(* says.                                                                     *)
AllSolo ==
  \A th \in Thread : pc[th] # "idle" =>
    /\ local[th].kind # "registry" => local[th].solo
    /\ local[th].kind = "expire" => local[th].row.status = "expired"

(* A request that enters while no other is in flight on its task is solo,    *)
(* and takes the solitude of none.                                           *)
LEMMA AllSoloStep ==
  TypeOK /\ Shaped /\ AllSolo /\ NeverOverlapping' /\ [Next]_vars => AllSolo'
<1> SUFFICES ASSUME TypeOK, Shaped, AllSolo, NeverOverlapping', [Next]_vars
             PROVE  AllSolo'
  OBVIOUS
<1>1. CASE \E th \in Thread, t \in Task : Load(th, t)
  <2>1. PICK th \in Thread, t \in Task : Load(th, t)
    BY <1>1
  <2>2. PICK kind, row, saved, step :
          Admitted(kind, t, row, saved, step) /\ Entered(th, t, kind, row, saved, step)
    BY <2>1, LoadEffect
  <2>3. th \in InFlight(t)'
    BY <2>2 DEF Entered, InFlight
  <2>4. InFlight(t) = {}
    <3>1. ASSUME NEW u \in InFlight(t)
          PROVE  FALSE
      <4>1. u \in Thread \ {th} /\ pc[u] # "idle" /\ local[u].task = t /\ local[u] \in Request
        BY <2>2, <3>1 DEF InFlight, Entered, Shaped
      <4>2. pc'[u] = pc[u] /\ local'[u] = [local[u] EXCEPT !.solo = FALSE]
        BY <2>2, <3>1, <4>1 DEF Entered
      <4>3. local'[u].task = t
        BY <4>1, <4>2 DEF Request
      <4>4. u \in InFlight(t)'
        BY <4>1, <4>2, <4>3 DEF InFlight
      <4> QED
        BY <2>3, <4>1, <4>4 DEF NeverOverlapping
    <3> QED
      BY <3>1
  <2>5. /\ local'[th].solo /\ local'[th].kind = kind /\ local'[th].row = row
        /\ \A u \in Thread \ {th} : pc'[u] = pc[u] /\ local'[u] = local[u]
    <3>1. local'[th].solo /\ local'[th].kind = kind /\ local'[th].row = row
      <4>1. (InFlight(t) = {}) = TRUE
        BY <2>4
      <4>2. local'[th] = [kind |-> kind, task |-> t, client |-> None, row |-> row,
                          saved |-> saved, seq |-> 0, solo |-> TRUE]
        BY <2>2, <4>1 DEF Entered
      <4> QED
        BY <4>2
    <3>2. ASSUME NEW u \in Thread \ {th}
          PROVE  pc'[u] = pc[u] /\ local'[u] = local[u]
      BY <2>2, <2>4, <3>2 DEF Entered
    <3> QED
      BY <3>1, <3>2
  <2>6. kind = "expire" => row.status = "expired"
    BY <2>2 DEF Admitted
  <2> QED
    BY <2>5, <2>6 DEF AllSolo
<1>2. ASSUME NEW th \in Thread, ThreadStep(th)
      PROVE  AllSolo'
  BY <1>2, OwnStep DEF AllSolo
<1>3. CASE UNCHANGED <<pc, local>>
  BY <1>3 DEF AllSolo
<1>4. ASSUME NEW th \in Thread, NEW c \in Client, Register(th, c) \/ LoadForUnregister(th, c)
      PROVE  AllSolo'
  <2>1. PICK step \in {"count", "delete"} : BeginRegistry(th, c, step)
    BY <1>4 DEF Register, LoadForUnregister
  <2>2. local'[th].kind = "registry"
        /\ \A u \in Thread \ {th} : pc'[u] = pc[u] /\ local'[u] = local[u]
    BY <2>1, RegistryEffect
  <2> QED
    BY <2>2 DEF AllSolo
<1>5. ASSUME NEW th \in Thread, Unregister(th)
      PROVE  AllSolo'
  <2>1. local' = local /\ pc[th] = "delete" /\ \A u \in Thread \ {th} : pc'[u] = pc[u]
    BY <1>5 DEF Unregister, Goto, TypeOK
  <2> QED
    BY <2>1 DEF AllSolo
<1>6. CASE Crash
  BY <1>6 DEF Crash, AllSolo
<1>7. CASE (\E t \in Task, seq \in PostedSeq : Ingest(t, seq)) \/ UNCHANGED vars
  BY <1>3, <1>7 DEF Ingest, vars
<1> QED
  BY <1>1, <1>2, <1>4, <1>5, <1>6, <1>7, StepCases DEF ThreadStep

(* Requests that never overlap on a task are solo throughout.                *)
LEMMA NoOverlapSolo == Spec /\ []NeverOverlapping => []AllSolo
<1>1. Init => AllSolo
  BY DEF Init, AllSolo
<1> QED
  BY <1>1, AllSoloStep, TypeCorrect, PTL DEF Spec

(* "Duplicate active acquisition returns a policy-shaped denial instead of   *)
(* stealing ownership" is true of every behaviour in which no two requests   *)
(* on one task overlap, whatever registrations, requests on other tasks and  *)
(* crashes come between the load and the upsert of a lease.                  *)
THEOREM NoOverlapNoTheft == Spec /\ []NeverOverlapping => LeaseNeverStolen
<1>1. ASSUME TypeOK, Shaped, Fresh, AllSolo, NEW t \in Task, Active(t), Active(t)', [Next]_vars
      PROVE  lease'[t].client = lease[t].client
  <2>1. CASE lease'[t] = lease[t]
    BY <2>1
  <2>2. ASSUME NEW th \in Thread, SaveTaskLease(th), lease'[t] # lease[t]
        PROVE  lease'[t].client = lease[t].client
    <3>1. /\ pc[th] = "save_lease"
          /\ lease' = [lease EXCEPT ![local[th].task] = local[th].row]
      BY <2>2 DEF SaveTaskLease
    <3>2. t = local[th].task /\ lease'[t] = local[th].row
      BY <1>1, <2>2, <3>1 DEF TypeOK
    <3>3. local[th].kind \in LeaseKind /\ Solo(th)
      BY <1>1, <3>1 DEF Shaped, AllSolo, LeaseKind, Solo
    <3>4. FreshLease(th)
      BY <1>1, <3>3 DEF Fresh
    <3>5. local[th].kind # "acquire" /\ local[th].kind # "expire"
      BY <1>1, <3>1, <3>2, <3>4 DEF FreshLease, AllSolo, Active
    <3>6. lease[t] # NoRow
      BY <1>1 DEF Active, NoRow
    <3> QED
      BY <3>1, <3>2, <3>3, <3>4, <3>5, <3>6 DEF FreshLease, LeaseKind
  <2>3. ASSUME NEW th \in Thread, Unregister(th)
        PROVE  lease'[t] = lease[t]
    <3>1. lease'[t] \in {NoRow, lease[t]}
      BY <2>3 DEF Unregister
    <3> QED
      BY <1>1, <3>1 DEF Active, NoRow
  <2>4. CASE \E th \in Thread, u \in Task : Load(th, u)
    BY <1>1, <2>1, <2>4, LoadEffect DEF Entered
  <2>5. CASE \/ \E th \in Thread : UpdateRow(th) \/ UpsertRunTaskState(th)
             \/ \E th \in Thread : CountEvents(th) \/ AppendEvent(th)
             \/ \E th \in Thread, c \in Client : Register(th, c) \/ LoadForUnregister(th, c)
             \/ \E u \in Task, seq \in PostedSeq : Ingest(u, seq)
             \/ Crash
             \/ UNCHANGED vars
    BY <2>1, <2>5 DEF UpdateRow, UpsertRunTaskState, CountEvents, AppendEvent, Register,
                      LoadForUnregister, Ingest, Crash, vars, store
  <2> QED
    BY <1>1, <2>1, <2>2, <2>3, <2>4, <2>5, StepCases
<1> DEFINE A == \A t \in Task : (Active(t) /\ Active(t)') => lease'[t].client = lease[t].client
<1>2. TypeOK /\ Shaped /\ Fresh /\ AllSolo /\ [Next]_vars => A
  BY <1>1
<1>3. [](TypeOK /\ Shaped) /\ [](Alone /\ Fresh) /\ []AllSolo /\ [][Next]_vars => [][A]_vars
  BY <1>2, PTL
<1> QED
  BY <1>3, TypeCorrect, SoloFresh, NoOverlapSolo, PTL DEF Spec, LeaseNeverStolen

(* "Invalid transitions fail closed, keep the stored work item unchanged" is *)
(* true of the same behaviours: the row a transition replaces is the one its *)
(* decision was taken on.                                                    *)
THEOREM NoOverlapFailsClosed == Spec /\ []NeverOverlapping => TransitionsFailClosed
<1>1. ASSUME TypeOK, Shaped, Fresh, AllSolo, NEW t \in Task, item'[t] # item[t], [Next]_vars
      PROVE  TransitionAllowed(item[t].status, item'[t].status)
  <2>1. ASSUME NEW th \in Thread, UpdateRow(th)
        PROVE  TransitionAllowed(item[t].status, item'[t].status)
    <3>1. pc[th] = "update" /\ item' = [item EXCEPT ![local[th].task] = local[th].saved]
      BY <1>1, <2>1 DEF UpdateRow
    <3>2. t = local[th].task /\ item'[t] = local[th].saved
      BY <1>1, <3>1 DEF TypeOK
    <3>3. local[th].kind = "transition" /\ Solo(th)
      BY <1>1, <3>1 DEF Shaped, AllSolo, Solo
    <3> QED
      BY <1>1, <3>1, <3>2, <3>3 DEF Fresh, FreshItem
  <2>2. CASE item' = item
    BY <1>1, <2>2
  <2>3. CASE \E th \in Thread, u \in Task : Load(th, u)
    BY <1>1, <2>2, <2>3, LoadEffect DEF Entered
  <2>4. CASE \/ \E th \in Thread : SaveTaskLease(th) \/ UpsertRunTaskState(th)
             \/ \E th \in Thread : CountEvents(th) \/ AppendEvent(th)
             \/ \E th \in Thread, c \in Client : Register(th, c) \/ LoadForUnregister(th, c)
             \/ \E th \in Thread : Unregister(th)
             \/ \E u \in Task, seq \in PostedSeq : Ingest(u, seq)
             \/ Crash
             \/ UNCHANGED vars
    BY <2>2, <2>4 DEF SaveTaskLease, UpsertRunTaskState, CountEvents, AppendEvent, Register,
                      LoadForUnregister, BeginRegistry, Unregister, Ingest, Crash, vars, store
  <2> QED
    BY <1>1, <2>1, <2>3, <2>4, StepCases
<1> DEFINE A == \A t \in Task : item'[t] # item[t] =>
                  TransitionAllowed(item[t].status, item'[t].status)
<1>2. TypeOK /\ Shaped /\ Fresh /\ AllSolo /\ [Next]_vars => A
  BY <1>1
<1>3. [](TypeOK /\ Shaped) /\ [](Alone /\ Fresh) /\ []AllSolo /\ [][Next]_vars => [][A]_vars
  BY <1>2, PTL
<1> QED
  BY <1>3, TypeCorrect, SoloFresh, NoOverlapSolo, PTL DEF Spec, TransitionsFailClosed

-----------------------------------------------------------------------------
(* The abstract lease table *)

(* Who holds a task, as the task_leases rows say. *)
holder == [t \in Task |-> IF Active(t) THEN lease[t].client ELSE None]

Leases == INSTANCE LeaseTable

(* A step that frees the tasks of S and grants none is a step of LeaseTable. *)
LEMMA FreeStep ==
  ASSUME NEW S \in SUBSET Task,
         \A t \in Task : holder'[t] = IF t \in S THEN None ELSE holder[t]
  PROVE  Leases!Next
<1>1. holder' = [t \in Task |-> IF t \in S THEN None ELSE holder[t]]
  BY DEF holder
<1> QED
  BY <1>1 DEF Leases!Next, Leases!Free

(* The upsert of a solo lease request grants a free task, frees it, or       *)
(* leaves it with its holder: the row it judged is still the stored one.     *)
LEMMA UpsertStep ==
  ASSUME TypeOK, Shaped, Fresh, AllSolo, NEW th \in Thread, SaveTaskLease(th)
  PROVE  Leases!Next \/ holder' = holder
<1> DEFINE t == local[th].task
           row == local[th].row
<1>1. CASE lease' = lease
  BY <1>1 DEF holder, Active
<1>2. CASE lease' = [lease EXCEPT ![t] = row]
  <2>1. pc[th] = "save_lease"
    BY DEF SaveTaskLease
  <2>2. t \in Task /\ row \in LeaseRow /\ local[th].kind \in LeaseKind /\ Solo(th)
    BY <2>1 DEF Shaped, AllSolo, LeaseKind, Solo
  <2>3. lease'[t] = row /\ \A u \in Task \ {t} : lease'[u] = lease[u]
    BY <1>2, <2>2 DEF TypeOK
  <2>4. /\ holder'[t] = IF row.status = "active" THEN row.client ELSE None
        /\ \A u \in Task \ {t} : holder'[u] = holder[u]
    BY <2>2, <2>3 DEF holder, Active
  <2>5. CASE row.status # "active"
    <3>1. \A u \in Task : holder'[u] = IF u \in {t} THEN None ELSE holder[u]
      BY <2>4, <2>5
    <3> QED
      BY <2>2, <3>1, FreeStep
  <2>6. CASE row.status = "active" /\ ~Active(t)
    <3>1. holder[t] = None /\ row.client \in Client
      BY <2>2, <2>6 DEF holder, LeaseRow
    <3>2. holder' = [holder EXCEPT ![t] = row.client]
      BY <2>4, <2>6 DEF holder
    <3> QED
      BY <2>2, <3>1, <3>2 DEF Leases!Next, Leases!Grant
  <2>7. CASE row.status = "active" /\ Active(t)
    <3>1. local[th].kind \in {"renew", "release"} /\ lease[t] # NoRow
      BY <2>1, <2>2, <2>7 DEF Fresh, FreshLease, AllSolo, LeaseKind, Active, NoRow
    <3>2. lease[t].client = row.client
      BY <2>1, <2>2, <3>1 DEF Fresh, FreshLease
    <3>3. holder[t] = row.client
      BY <2>2, <2>7, <3>2 DEF holder
    <3>4. holder' = holder
      BY <2>4, <2>7, <3>3 DEF holder
    <3> QED
      BY <3>4
  <2> QED
    BY <2>5, <2>6, <2>7
<1> QED
  BY <1>1, <1>2 DEF SaveTaskLease

(* Every transaction is a step of the abstract lease table or a stutter. *)
LEMMA LeaseTableStep ==
  TypeOK /\ Shaped /\ Fresh /\ AllSolo /\ [Next]_vars => [Leases!Next]_holder
<1> SUFFICES ASSUME TypeOK, Shaped, Fresh, AllSolo, [Next]_vars
             PROVE  Leases!Next \/ holder' = holder
  OBVIOUS
<1>1. CASE lease' = lease
  BY <1>1 DEF holder, Active
<1>2. ASSUME NEW th \in Thread, Unregister(th)
      PROVE  Leases!Next
  <2> DEFINE S == {t \in Task : lease[t].client = local[th].client}
  <2>1. \A t \in Task : lease'[t] = IF t \in S THEN NoRow ELSE lease[t]
    BY <1>2 DEF Unregister
  <2>2. \A t \in Task : holder'[t] = IF t \in S THEN None ELSE holder[t]
    BY <2>1 DEF holder, Active, NoRow
  <2> QED
    BY <2>2, FreeStep
<1>3. CASE \E th \in Thread, t \in Task : Load(th, t)
  BY <1>1, <1>3, LoadEffect DEF Entered
<1>4. CASE \/ \E th \in Thread : UpdateRow(th) \/ UpsertRunTaskState(th)
           \/ \E th \in Thread : CountEvents(th) \/ AppendEvent(th)
           \/ \E th \in Thread, c \in Client : Register(th, c) \/ LoadForUnregister(th, c)
           \/ \E t \in Task, seq \in PostedSeq : Ingest(t, seq)
           \/ Crash
           \/ UNCHANGED vars
  BY <1>1, <1>4 DEF UpdateRow, UpsertRunTaskState, CountEvents, AppendEvent, Register,
                    LoadForUnregister, Ingest, Crash, vars, store
<1> QED
  BY <1>2, <1>3, <1>4, UpsertStep, StepCases

(* Requests that do not overlap on a task implement LeaseTable although each *)
(* is several transactions and the process may die between them: what the    *)
(* atomic requests of ControlPlane promise of the table, these keep.         *)
THEOREM NoOverlapImplementsTable == Spec /\ []NeverOverlapping => Leases!Spec
<1>1. Init => Leases!Init
  BY DEF Init, Leases!Init, holder, Active, NoRow
<1> QED
  BY <1>1, LeaseTableStep, TypeCorrect, SoloFresh, NoOverlapSolo, PTL DEF Spec, Leases!Spec
=============================================================================
