------------------------------ MODULE MCQueue ------------------------------
(* The queue of ControlPlane with two work items: the requests that move    *)
(* items between the queue and a client.  Work is queued and blocked but    *)
(* not carried out; only the item ranked first may name a lease, its own.   *)
EXTENDS MCControlPlane

Leasable == {t \in Task : Rank[t] = 1}

QueueRequest(t) ==
  \/ \E p \in NewItem : Create(t, p)
  \/ \E c \in Client, leaseId \in ({t} \cap Leasable) \cup {None} : Assign(t, c, leaseId)
  \/ Queue(t) \/ Block(t)

QueueNext ==
  \/ \E c \in Client : ClientRequest(c)
  \/ \E t \in Task : QueueRequest(t)
  \/ \E t \in Leasable, c \in Client : Acquire(t, c)
  \/ ScheduleNext
  \/ Scan
  \/ Tick

(* The stale scan is a request of an operator (HTTP route or CLI) and       *)
(* schedule_next one of a connector that polls for work through the SDK; the *)
(* server starts neither by itself.  Fairness says that both keep coming.    *)
QueueSpec == Init /\ [][QueueNext]_vars /\ WF_vars(Scan) /\ WF_vars(ScheduleNext)
=============================================================================
