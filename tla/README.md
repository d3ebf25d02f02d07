# A TLA+ verification of the VAD local control plane

The repository implements a local control plane for agentic development: editor
and agent clients register with it, send heartbeats, lease tasks and carry out
work items; an operator schedules, scans for stale clients and replays an event
ledger. Its state is one SQLite database, its entry points are HTTP routes
served by `ThreadingHTTPServer`, a CLI, an MCP adapter and an in-process SDK.
Around it sit a diff workflow that patches a working tree, a plugin installer
that writes into a user's config files, a verification loop with release gates
and approvals, a fake deployment provider, and a file of retrospective memory.

Paths below are relative to `src/vad/`.

## Inventory

| Component | State | Operations | What is hard | What makes it correct |
|---|---|---|---|---|
| Client registry (`server/api/clients.py`) | `client_manifests`, `client_heartbeats` | register, unregister, heartbeat | deletion cascades into three tables; heartbeats carry the client's own time | rows stay anchored; columns and payloads agree where the columns are set |
| Stale scan (same file) | the above, leases, work items | mark stale, expire leases, requeue, auto-reassign | one pass over four tables; order of marking and reassigning | nothing stays with a stale client; reassigned work goes to a live one |
| Task leases (`server/api/leases.py`) | `task_leases` | acquire, renew, release, expire | check and write are separate transactions | one holder per task, no hand-over without a release |
| Work items (`server/api/work_items.py`) | `work_items`, `run_task_states` | create, 11 transitions | the payload and the foreign-key columns hold the same ids twice; the projection is a separate write | the transition table; final statuses; projection = item |
| Scheduler (same file) | none | schedule_next, schedule_work_item | head of line; trusts the stored status | the head is eventually handed out |
| Event ledger (`server/api/events.py`) | `control_plane_events` | append, ingest, list in order of sequence | sequence = count + 1, not atomic; clients number their own events | the last event of a task agrees with the store; replay order is request order |
| HTTP server (`server/app.py`) | threads | routes | no lock spans a request; the process may die between two writes | what requests that do not overlap may rely on |
| Connector SDK (`control_plane/sdk.py`) | none | one service call per method | | that of the services |
| Dashboard projection (`control_plane/projection.py`) | none | replay by sequence number | sequence numbers that repeat or cross; an explicit stale status sticks | the board shows how calls ended |
| Diff proposals, patches, journal (`server/api/diff_proposals.py`, `repo/`) | `diff_proposals`, `diff_apply_records`, files | create, apply, roll back; `repo patch`, `repo run`, MCP patch tools | files, record and status are separate writes; retries; two jobs on a file; a crash half-way | the workspace moves by whole patches; a status has its record |
| Plugin installer (`control_plane/plugins.py`) | `plugin_inventory`, config files, their backups | apply, uninstall, roll back | several files and one row; the user edits the same files; edits and crashes between two of them | the user's content survives; the inventory tells the truth |
| Verification loop and proof planning (`loop/`, `verify/`, `release/`, `proof/`) | EIP and plan files, the run, gates of the release manager | map proofs, run, release | files edited between mapping and run; gates that accumulate over runs | what passed was verified against its own EIP; a release honours every gate |
| Approvals and evidence (`server/api/approvals.py`, `evidence/`) | `run_evidence`, `approval_events` | save, load, approve | evidence replaced or changed between load and approval | an approval names what was saved, and comes from another than the builder |
| Deployment (`deploy/`) | targets, deployments, record files | apply, roll back, failure demo | order of rollbacks; a provider per command | rollbacks unwind |
| MCP gateway and adapters (`control_plane/mcp_gateway.py`, `adapters/mcp.py`) | ledger, calls in flight | record, authorize, handle | events numbered by a count; arguments that raise; processes that die | the events of a call replay in order; an ended call shows its finish |
| Memory store (`memory/`) | one JSON file | load, save | whole-file rewrite, concurrent stores; without `VAD_RETRO_MEMORY_FILE`, the default, nothing is kept | an entry written to the file stays |
| Swarm (`swarm/`) | task graph, completed set, retrying leases | ready tasks, heartbeat, evaluate | retries counted per look | dependencies first, each task once |
| Lifecycle and lock (`control_plane/lifecycle.py`) | lock file, state | transitions, stale-lock recovery | read, judge, unlink | a live process keeps its lock |

Interactions: every service is a stateless object over `ServerStore`; they meet
only in the tables. The scan calls the work-item service (requeue) and the
scheduler (auto-reassign); the scheduler calls the work-item service (assign).
Deleting a client cascades into heartbeats and leases (`ON DELETE CASCADE`) and
sets `work_items.assigned_client_id` and `.lease_id` to NULL, while the JSON
payload of the item, which every load reads, keeps both ids. The verification
loop meets the approvals in the `run_evidence` table, which the failed-deployment
demo and the demo store write as well; the MCP gateway, the services and posted
events meet in the ledger, which the dashboard replays; diff proposals and the
repo commands meet in the working tree, the plugin installer and its user in the
config files.

`PROJECT.json` lists the components with what is and is not modelled, and the
hazards with the line where each bites.

## The models

| Module | What it is |
|---|---|
| `WorkItemTable` | The vocabulary shared by both models: statuses, the transition table, what a transition writes, the projection, event statuses. |
| `LeaseTable` | Abstract specification of the leases: a task has at most one holder, and is granted only while nobody holds it. |
| `ControlPlane` | Every request, one at a time: registry, heartbeats, leases, work items, scheduler, stale scan, over the tables. |
| `ThreadedRequests` | Lease and work-item requests on several threads; one step is one store transaction. |
| `ControlPlaneProofs`, `ControlPlaneStepProofs` | Theorems about `ControlPlane`. |
| `ThreadedRequestsProofs` | Theorems about `ThreadedRequests`. |
| `PatchedWorkspace` | Abstract specification of patching: the workspace moves by whole patches; a file may be lost to that promise. |
| `Patches` | Proposals and repo commands over hunks, files, journal, records and git, file by file. |
| `PatchesProofs` | Theorems about `Patches`, the refinement of `PatchedWorkspace` among them. |
| `HunkProofs` | What the hunks of a diff do, proved for files and lists of hunks of any length. |
| `Plugins`, `PluginsProofs` | The installer over config files, backups and inventory, with user edits and crashes; theorems. |
| `VerificationLoop` | Runs over edited files, the release manager, the evidence table, the approvals. |
| `Deployment` | Deployments through a kept provider, through the commands and in the failure demo. |
| `Delivery`, `DeliveryProofs` | The composition of the two, with the demo stores that write both; theorems. |
| `Gateway`, `GatewayProofs` | MCP tool calls of several processes, the ledger they share, the memory file; theorems. |
| `MCControlPlane`, `MCQueue`, `MCThreads`, `MCPatches`, `MCPlugins`, `MCDelivery`, `MCGateway` | Constants, symmetry and, for `MCQueue`, a smaller next-state relation for TLC. |

### ControlPlane

`manifest`, `heartbeat`, `lease`, `item`, `column`, `taskState` are the tables,
by client or task; `None` is a missing row. A work item appears three times, as
in the store: `item` is `payload_json`, `column` the two foreign-key columns,
`taskState` its `run_task_states` row. `newest` is the latest service event of a
task in the ledger, its kind and status. Task ids and lease ids are one set,
because `task_leases` is keyed by task id.

An action is a whole request. A request that ends in an exception (a missing
row, a foreign key that does not hold) leaves the store as it was and is not a
step; a request that is denied is a step that only appends its event. Times are
kept as what decisions read: the age of the last heartbeat, saturating at
`MaxAge`, against `stale_after_seconds`. `expires_at` of a lease is left out: no
decision of the server reads it. A heartbeat may arrive with an age above zero,
since `observed_at` is the client's. `Rank` stands for the order of (priority,
created_at, work_item_id). All items belong to one run, so the `run_id` filter of
`schedule_next` is not seen. `ConnectorRequest` groups what the SDK offers a
connector for its own work; the routes of the server offer that and the rest.

| Actions | Code |
|---|---|
| `Register`, `Unregister`, `Heartbeat` | `ClientRegistryService` and the store methods below it |
| `Acquire`, `Renew`, `Release`, `Expire` | `TaskLeaseService` |
| `Create`, `Assign`, `Queue` ... `Requeue` | `WorkItemService`; all transitions go through `Transition` |
| `ScheduleWorkItem`, `ScheduleNext` | `WorkItemSchedulerService`; the last tie-break, by name, is any choice |
| `StaleScan` | `mark_stale_clients_with_recovery`, with `mark_client_stale`, `_recover_stale_work_items` and auto-reassign |
| `Tick` | the clock (environment) |

A scan handles its stale clients one after the other; because an item has one
owner and a lease one client, the order does not matter, and the model states
the result of the whole loop (`RecoverFrom`).

### ThreadedRequests

`pc` and `local` hold, per thread, the next transaction of its request and what
the request has loaded. A lease request is load, save, count, append; a
transition is load, update, upsert (by the store), upsert again (by the
service), count, append; a denial is load, count, append. A registration is
insert, count, append and an unregistration load, delete, count, append: the
delete may find the client already gone. `Ingest` is a single transaction that
comes at any time, `Crash` loses all requests and keeps what is committed, and
`WaitForRequest` is the idle server, so that a deadlock is a request that cannot
go on. `load_client_manifest` and
`load_task_lease` of an acquire are one step: the manifest is checked again when
the lease is saved, by the code and by the foreign key.

`local[th].solo` is history: it says that no other lease or work-item request on
the same task has been in flight together with this one. It guards nothing; the
properties use it to say what requests that do not overlap may rely on. In this
module lease and work-item payloads name no lease (`lease_id` is not given);
`ControlPlane` covers the lease column.

### Patches

A file is a sequence of lines or absent; a patch is what the parser returns, a
path with hunks per file. `ApplyHunks` is the code's loop over hunks and lines,
as recursive functions; `Meaning` says beside it what a unified diff asks for,
without a cursor: the old side of each hunk is cut out of the original where the
hunk starts, and its new side put there. `pc` and `job` hold what each worker, a request thread
or a command, does next; a job carries the planned contents and the journal of snapshots.
Planning resolves and patches one file per step in memory, `Capture` reads the
files again, `Write` and `Restore` write one each: other workers come in between
any two. `Verdict` says how each caller decides once the files are written: a
proposal by comparing the changed files with the declared ones, the commands by
scope, dependency manifests and the proof commands, whose result is any. `Die`
is a crash or a failed write, which may leave the file empty (`write_bytes`
truncates first); `RollbackFails` is the `OSError` that the journal catches.
`head` is the last commit, for the clean-worktree check.

`base` and `tainted` are history. `base` is what the patches taken so far should
have left; `tainted` marks the files about which the code promises nothing: hit
by a crash after the first write, by two jobs at a time, by a rollback that
failed, or by `repo run` leaving through an exception. Nothing reads them but
the properties. The refinement maps a tainted file to `Unknown` and any other to
its `base`.

| Actions | Code |
|---|---|
| `Create`, `BeginApply`, `SaveRecord`, `SetStatus` | `DiffProposalService` |
| `BeginRepoPatch`, `BeginRepoRun`, `BeginMcpPatch` | `repo_patch_command`, `repo_run_command`, `_repo_patch_like` up to the patch |
| `Plan`, `Capture`, `Write` | `apply_unified_diff` |
| `Accept`, `RollBack`, `Abandon` | what each caller does with the result |
| `Restore`, `RollbackFails` | `PatchJournal.rollback` |
| `Die`, `CommitWorktree` | environment |

### Plugins

`target` and `backup` are the config files and their `.vad-backup`; `inventory`
is the row that the caller saves after the operation has returned. A content is
the user's, a version's config, or `Torn`; a hash stands for the content it was
computed from. `Copy` and `Write` alternate over the paths of an apply; an
uninstall or rollback first compares the hash of a path (`Check`) and then, in a
step of its own, removes it (`Unlink`) or copies the backup back (`Restore`), as
the code reads the file in one call and changes it in another. It ends at a
drifted path, or at one that is gone when it is unlinked (`CleanFails`), with
what it has changed. `UserEdit` comes at any time, `Crash` between any two steps
or inside a write. `lastUser`, `before`, `raced` and `doubt` are history; `raced`
has the files that the user changed between a backup or a check and the change it
precedes (`Looked`).

### VerificationLoop, Deployment and Delivery

`eip` and `plan` are the two files; a digest stands for the content, and two
EIPs may share a version. `run` is the run under way, with the EIP and plan it
loaded at its start, and `log` the evidence of those that ended. Each step of
`VADOrchestrator.run` is an action (`Assess`, `CheckPolicy`, `Verify`, `Decide`,
`Release`), with every early end: blocked effort, exhausted budget, a builder
who verifies, a refused or costly provider, an exception in the policy tool.
`manager` and `gates` are the release manager in use, new for a run (`own`) or
shared with earlier ones. Effort inputs, failing commands and reported metrics
are any of small sets.

`rows` is `run_evidence`: the payload and the digest recorded with it, which
`Tamper` can tear apart. An approval is two transactions: `LoadForApproval`
verifies the digest, `RecordApproval` decides and stores; evidence can be saved
again in between. In `src/vad` only the fixtures and demos save evidence;
`SaveRun`, the store's call with the evidence of a run, stands for the callers
outside, as in the tests.

In `Deployment`, `provider` is the provider of a caller that keeps it; the
commands `deploy apply` and `deploy rollback` build a new one each and have only
`records`, the files, between them. `base` and `unordered` are history: what the
provider started from, and the targets where a rollback took back another
deployment than the last live one.

`Delivery` runs both side by side and adds the two demo stores, which write
evidence, approvals and deployments in one go.

### Gateway

`call` is, per process, the tool call it handles and what it has still to record
(`todo`). A number is drawn in a transaction of its own (`Number`) before the
event is inserted (`AppendEvent`), as in `_next_event_sequence`. `Authorize` is
the registry's role and risk check, `AuthorizeRaises` arguments that do not
validate once the start is recorded, `HandlerRaises` the handlers that index a
missing argument outside their `try`; both leave the call as it is (`BreakOff`),
like `Die`. `LoadMemory`, `Truncate` and `Fill` are the memory file as it is
loaded, emptied and written by a process in `Filed`. A process outside it runs
without `VAD_RETRO_MEMORY_FILE`, the default: its saves succeed and keep nothing
(`PersistNothing`). `Submit` is an event a client posts, stored with the task, the
status and the number the client gives, `active` included, or as a blocked denial
under the same task and number. `stored` (entries whose save has written the
file), `overlapped` and `broken` are history.

## The runs

| Run | Bounds | Result |
|---|---|---|
| `Recovery` | 2 clients, 1 task, trusted and untrusted manifests, threshold 0, ages 0..1 | 301,100 states; nine properties hold |
| `Queue` | 1 client, 2 items, statuses active and disconnected | two liveness properties hold |
| `Threads` | 2 threads, 2 tasks, 1 client, 3 target statuses, 2 ledger events, 1 crash, a posted event | 2.4 million states; six properties hold |
| `DisconnectedClient` | 2 clients, 1 task | violated, see below |
| `RejoinedClient` | 1 client, 1 task | violated |
| `LeaseRace` | 2 clients, 2 threads, 1 task | violated |
| `TransitionRace` | 1 client, 2 threads, 1 task | violated |
| `Patches` | 2 workers, 2 jobs, 4 patches over 3 files, 1 fault | 309,008 states; five properties hold |
| `Plugins` | 3 versions, 2 files, 2 user contents, 4 operations, 2 edits | 2.6 million states; four properties hold |
| `PluginDrift` | 3 versions, 2 files, 2 user contents, 2 operations, 1 edit | violated |
| `Delivery` | 3 EIPs, 2 obligations, 2 gates, 2 agents, 2 runs, 1 target, 2 deployments; 4 units of work | 2.4 million states; five properties hold |
| `Gateway` | 3 processes, 2 of them with a memory file, 2 calls out of 10 requests, 1 of 3 posted events | 6.6 million states; four properties hold |

Why the bounds are enough for the cases of interest. `Recovery` needs two
clients for a hand-over, a reassignment and a client that leaves while the other
stays; one task lets a lease row and an item refer to each other, and no
property relates two tasks. One age step with threshold 0 separates fresh from
stale, and a late heartbeat (age 1 on arrival) is in it. `Queue` needs two items for a head of
the queue; its next-state relation keeps the requests that move items between
queue and client. `Threads` needs two threads for every race of two requests,
two tasks for requests that interleave without overlapping, and two ledger
entries so that an event is numbered with another already there. `MaxEvents`
bounds when requests start, not what they append, so the ledger reaches the
bound and what was in flight.

`Patches` needs two workers for a job in the middle of another and two jobs for
a retry; its patches are one over two files, one over a line of the same file,
one whose files differ from the declared ones, and one that leaves the workspace
after a first good file; one fault is enough to cut any step. `Plugins` needs
two files for a half-done operation, two versions with different paths, a
version that the planner refuses, and four operations for
install, upgrade, rollback and one more after a crash; two edits give one before
and one during an operation, be it between backup and write or between check and
change. `Delivery` needs two runs for gates that
accumulate, two EIPs of one version with different gates and obligations, two
hand-written plans (one that forgets an obligation, one that the guard refuses),
and two deployments on one target; `MaxWork` bounds runs, saves, edits,
approvals and deployment commands together, because no property needs more than
four of them: a plan mapped for one EIP, the EIP edited, a run, and one more run
or a save with an approval. `Gateway` needs two calls at once for crossing
numbers and for two writers of the file, a third process without a file beside
them, and one posted event: an active heartbeat or a result on the task of the
calls, at numbers the calls use too, or a message without a task. The hunks of `HunksMeanWhatTheySay`,
in pairs, are 40: they keep, remove, add, replace, insert at the start, or carry a
line with an unknown mark, at each of three lines. For every passing run the proofs
remove the bounds, for the liveness run up to the two hypotheses named there.

What the passing runs check:

- `StoreIntegrity`: heartbeats, leases and columns refer to live rows, and a set
  column agrees with the payload, whatever the cascades did.
- `ProjectionInSync`: `run_task_states` is the projection of the stored payload.
- `LedgerAgrees`: the last service event of a task agrees with the stored item.
- `ScanStrandsNothing`: a scan leaves no item in progress and no active lease
  with a client it found stale, auto-reassign included.
- `ScanReassignsToLiveClients`: reassigned work goes to a trusted client with a
  heartbeat inside that scan's threshold.
- `TerminalIsFinal`: completed and cancelled items and their projection stay.
- `OrphanedWorkFrozen`: an item whose payload names an unregistered owner moves
  only by requeue or by reassignment. In particular an approved item of an
  unregistered owner can never complete: the foreign key refuses the update and
  the table allows no other way out.
- `LeaseRefinement`: the leases implement `LeaseTable`, with the holder of a
  task read off the active lease.
- `AbandonedWorkRecovered`, `HeadOfQueueScheduled`: liveness, under the fairness
  below. The second excepts a head whose lease id dangles: an item that was
  blocked and queued again keeps its lease id; once the lease is deleted with
  its client, every attempt to schedule the item fails the foreign key, and the
  items behind it wait.
- `LeasesAnchored`: no interleaving stores a lease of an unregistered client.
- `SoloTransitionSyncs`, `SoloTransitionsLegal`, `SoloLeaseStepsLegal`,
  `SoloEventReplaysLast`: a request that overlaps with no other on its task
  repairs and keeps the projection, overwrites only what it may, and has its
  event sorted after the earlier service events of the task. The last one depends on numbering by
  count: numbering after the last inserted event would be broken by events that
  clients post with a number of their own.
- `CommittedIntact`, `WholePatches`: as long as no fault and no second job hits
  a file, refused patches, rollbacks and retries leave no trace in it, and the
  workspace moves by whole patches, never by one that leaves the workspace.
- `StatusHasRecord`: a proposal that is marked applied or denied has a record
  that says so, and a record of an applied one has both approvals and the
  declared files.
- `HunksMeanWhatTheySay`: on every content a file of the run holds, the code's
  cursor arithmetic over two hunks equals what the unified format says, for
  every pair of small hunks of the instance. Hunks that only insert (old length
  0) are among them where they start the file (`@@ -0,0 ...`); behind a later
  line the code is one line early (listed under hazards), and the run, like the
  theorem, leaves those out (`Anchored`).
- `UserContentSurvives`: the user's last content is in the file or its backup.
  The exceptions are stated in it, and are what the code really loses: an edit
  between the backup and the write of an apply, an edit between the hash check of
  an uninstall or rollback and the removal or restoration it admits
  (`plugins.py:599-602`, `647-653`), and a backup overwritten by a second apply
  with the plugin's own config or with what a crash has left.
- `RollbackRestores`: a rollback puts back what the last apply found; where that
  was nothing, an old backup of an earlier installation may come back.
- `InventoryTruthful`: a row that says the plugin is gone is right.
- `PassedRunsVerified`: evidence that says passed comes from a plan made from
  the very EIP it judged, from a verifier who is not the builder, and from a
  result for every obligation, however the files were edited.
- `ReleasesHonourEveryGate`: no released run has a low metric at a gate that its
  manager has seen, its own and those of earlier runs. (A metric that is not
  reported passes; the code says so.)
- `ApprovalsBindEvidence`: a granted approval names evidence that was saved for
  its run, from another builder, whatever happened to the row in between.
- `RollbacksUnwind`: rollbacks in reverse order bring each target back, step by
  step, to what it served at first.
- `ReplayKeepsCallOrder`, `BoardSettles`: the events of one call never replay out
  of order although numbers repeat and cross between calls; and where the event
  shown of a task is one of a call that has ended, it is the call's finish,
  whatever other calls record and clients post under that task. A call that broke
  off (its process died, or its arguments made the policy or the handler raise)
  has no finish and may stand as active; what a client posts is shown as posted.
- `LearningsSurvive`: an entry written to the file stays in it, as long as the
  file can be read, unless two saves overlapped. Without a file nothing is kept by
  design, and such processes disturb no others.

What the violated runs show, each against a line of `docs/control-plane.md`
(quoted in `PROJECT.json` under findings):

- `DisconnectedClient`: a client whose last heartbeat reported `disconnected` is
  skipped by every scan and keeps its work.
- `RejoinedClient`: a client unregisters and registers again; its running item
  names it in the payload, but the column the scan filters by is NULL, so a scan
  that marks the client stale leaves the item with it.
- `LeaseRace`: two acquires both load, both are granted; the second takes over
  the active lease.
- `TransitionRace`: an assign admitted on a queued item is written over a
  cancelled one.
- `PluginDrift`: the second config file of a plugin has drifted; the uninstall
  ends with an error after it has removed the first one.

Three more differences met while modelling have no run of their own:
`docs/repo-automation.md:28` says that `repo patch` checks the EIP's scope
boundaries, but `repo_patch_command` never reads them (the model gives that
command no scope check); a `deploy apply` from the command line always
records an absent prior artifact, because it builds an empty provider; and
`docs/mcp-gateway-security-audit.md:101-102` lists "`tool_call_finished` after
success or failure", but a call whose arguments do not validate, or whose handler
indexes a missing one, leaves `handle_tool_call` through an exception with only
its start recorded (`AuthorizeRaises`, `HandlerRaises`; `BoardSettles` excepts
such calls).

### Fairness

Only `Queue` assumes any: weak fairness of `Scan` and of `ScheduleNext`. The
server starts neither by itself. The stale scan is the route
`POST /clients/stale-scan` or `vad clients mark-stale`; `schedule_next` is
`receive_next_work` of the SDK, which a connector polls. The assumption is that
both keep being called, which is how the two are meant to be used; nothing is
assumed about clients, heartbeats or time.

## The proofs

All theorems hold for every set of clients, tasks, threads and manifests, every
threshold, and every bound. The assumptions are `NoneAssumption` (a missing
value is no value), `ControlPlaneAssumption` (types of the parameters, heartbeat
ages within 0..`MaxAge`, and no two tasks of one rank: the queue is sorted by a
key that ends in the unique work item id), `ThreadAssumption` (types of the
parameters), `PatchAssumption` (below), `PluginAssumption` and those of `Delivery`
and `Gateway`, which type the parameters and keep marks such as `Absent` apart
from data. Every property of every passing run is the subject of a theorem.

`ControlPlaneProofs`. `TypeOK` is inductive by itself. `StoreIntegrity`,
`ProjectionInSync` and `LedgerAgrees` are each inductive with `TypeOK`. The
proofs split `Next` once (`StepCases`) into lease saves, item steps (create,
transition or denial of one item), recovery and registry steps, and treat each
kind in a lemma of its own: storing an item checks both foreign keys and writes
column and payload from one value; recovery clears or replaces both; an
unregistration removes a client from exactly the rows that name it.

`ControlPlaneStepProofs`. The action properties follow from `TypeOK`, the step
cases and, for `ScanReassignsToLiveClients`, the order inside the scan: an
eligible client is active in the heartbeats after marking, hence not among the
marked. `LeasesImplementTable` maps every step to `Grant`, `Free` or a stutter.

The two liveness theorems, `ScansRecoverAbandoned` and `PollsServeHead`, rest on
one step each: any scan, whatever its threshold, ends the wait of abandoned work
of a silent client (`ScanEndsAbandonment`), and `ScheduleNext`, the rank being
injective, can only take the very head it should serve (`ScheduleTakesHead`).
With weak fairness the rest is temporal logic. What the prover cannot do is look
into `ENABLED`; so that a scan is possible while work is abandoned
(`ScanStaysPossible`), and that `schedule_next` is possible while its head is
schedulable (`ScheduleStaysPossible`), stand in the theorems as hypotheses. On
the instance of `Queue` both hold in every reachable state, and the run checks
the conclusions without them.

`ScanCoversUnlessDisconnected` and `ScanClearsOwnershipOfStaying` delimit the two
sentences of the documentation that `DisconnectedClient` and `RejoinedClient`
refute. The first holds if no heartbeat ever reports `disconnected`
(`NoneDisconnected` is inductive: a scan only ever sets `stale`). The second
holds as long as no client unregisters: then the columns and the payloads name
the same owner (`OwnerColumnsFull`), which only the foreign keys of a deletion
can undo.

`ThreadedRequestsProofs`. The invariant is `TypeOK`, `Shaped` (what a request in
flight carries at each step), `Alone` (of requests in flight together on one
task none is solo), `Fresh` (what a solo request has loaded still holds at its
write, and what it has written is still there) and `Numbered` (the k-th event,
unless posted, is numbered at most k, and a number drawn is at most the length
plus one). `Fresh` needs `Alone`: a write on the task by another thread would be
by a request in flight, and then neither is solo. `Numbered` bounds all earlier
service events by the count the request then adds one to.

`LeaseRace` and `TransitionRace` refute two sentences of the documentation.
`NoOverlapNoTheft` and `NoOverlapFailsClosed` prove them under `NeverOverlapping`,
no two requests on one task in flight together: a server with one thread, or one
that holds a lock per task from the load to the last write. Then every request is
solo (`AllSolo`), and the row it judged is the row it replaces. Under the same
hypothesis `NoOverlapImplementsTable` shows that these lease requests, several
transactions each, with registrations, deletions and crashes in between,
implement the `LeaseTable` that the atomic requests of `ControlPlane` implement.
As far as the lease table goes, overlap on a task is thus all that separates the
threaded server from the sequential one.

`PatchesProofs`. `TypeOK` goes with `Progressing` (how far the plan and the
journal of a job are at each phase). `CommittedIntact` needs the workspace
invariant: a file that two jobs in flight touch is tainted, and an untainted
file in the hands of one job is, phase by phase, still at `base`, planned or
captured from it, written, or restored (`Holds`). From it the refinement
follows: accepting a patch is `Take`, a new taint is `Lose`, all else stutters.
`StatusHasRecord` rests on what each job in flight has behind it (`Backed`):
the approvals that let it start, and the record before its status. The
assumption `PatchAssumption` asks that contents are sequences of lines and the
result of a patch is a content again; `PatchedAreLines` shows that the set of
all sequences of lines satisfies it, whatever the patches.

`HunkProofs`. `HunksAsMeant` says that the loop of `_apply_hunks` and
`_apply_hunk`, with its cursor, its output and its early ends, computes `Meaning`
for a file of any length and any list of hunks, refusals included, and
`PatchesHunksMeanWhatTheySay` is its instance that the run checks. The library's
induction takes an operator as a parameter, which the provers cannot instantiate;
`UpTo` therefore takes the set of indices where a claim holds, and rests on the
least counterexample (`WFMin`). The induction along the body of a hunk has as its
claim that the loop has consumed exactly the old side of the lines so far, equal
to the original from the hunk's start, and produced the new side (`HunkStands`),
or has met the first difference (`HunkRefused`, `HunkMeans`); along the list of
hunks it carries the cursor over (`HunksAdvance`), and the untouched lines
between two hunks are copied once (`OutputIsNew`). The hypothesis on hunks,
`Anchored`, is the boundary of the claim in the code: at least one old line, or a
start at 0. For `@@ -n,0 ...` with n above 0 a unified diff means behind line n,
and the code inserts before it.

`PluginsProofs`. `UserContentSurvives` is inductive with the progress of the
operation (`Running`), with the fact that only configs are hashed, with the
latest user content of a file that holds no config, and with what has been looked
at and not yet changed: the fresh backup between `Copy` and `Write`, and between
`Check` and the change a file without the user's content (`Checked`), each unless
the user has written it since. `RollbackRestores` and
`InventoryTruthful` need what an undisturbed inventory says of `before`, backup
and file (`Kept`, `Gone`), path by path as an operation advances.
`PluginDrift` refutes that drift blocks a cleanup before anything is changed. Two
theorems say what is left of that promise: `PluginsSingleFileBlocks`, that it
holds of a plugin with one config file, and `PluginsCleanupsSpareUser`, that no
uninstall or rollback, completed, failed or cut short, changes a file with the
user's own content, except the file it has just compared, when the user writes it
before the change. The second needs that only hashes of the plugin's configs are
ever recorded, hence that the user's content always counts as drift.

`DeliveryProofs`. The invariant has three parts that the composition keeps side
by side. `LoopInv` says what a run has behind it at each status (`Judged`), what
evidence that passed stands on (`Sound`), and that the manager in use has the
gates of all runs it judged (`GatesKept`): a release is judged after its gates
are added, hence by all. `StoreInv` says that rows and loaded requests hold
evidence that was saved, tampered rows included, since only the digest of a row
is bound to it. `DeployInv` says that each live deployment remembers the one it
replaced (`Chained`): taking back the last one lands on the one before.

`GatewayProofs`. `ReplayKeepsCallOrder` rests on the ledger being append-only
and on numbers that are counts: a call draws a number after its earlier event is
in, so it is larger, whatever others insert. `BoardSettles` uses that a call
that ended without breaking off has its finish behind its start and its denial
(`Followed`), so neither of these is the last on its task, whoever else posts
there. `LearningsSurvive` needs that a writer without a mark has read everything
stored without one; a process without a file is no writer (`Writing`).

Left to TLC: that a scan and a `schedule_next` are possible when the liveness
properties need them (`ENABLED` is outside what the prover handles), the two
liveness properties without that hypothesis, and the five refuted statements,
whose counterexamples are runs. Everything else that a passing run checks is
proved for all values of the constants.

## Not modelled

Parsing, validation of identifiers, replies and their texts; blocked reasons,
priorities beyond the order, and governance fields of work items, which the code
carries along; `check_approval_transition`, which changes nothing; events other
than those of the services about a task (heartbeat and registry events) in
`newest`.

Of the parts modelled in part: the interleavings of a stale scan with other
requests (its five tables and per-row transactions are beyond the state space of
`ThreadedRequests`); the client lane and counters of the dashboard; the merging
of events into the displayed status of a plugin, its manifests and the artifact
verifier; the effort score itself, of which only the
number and the two blockers matter; the demo store's hard-coded run other than
its evidence and approvals; scope checks and redaction of memory entries, which
look at one entry; signatures and attestations; the a2a adapter and the agent
card; stream and operator-intent rows.

Not modelled at all: the swarm and the control-plane lock (planned, below); the
model router (choices and sums over its arguments, no state beyond a budget);
package builders, feedback, UI, telemetry, question and effort texts, and
contract validation, which are sequential functions from text to text that the
repository tests directly; signing, which is a library's.

## Plan

Done: the control plane (`WorkItemTable`, `LeaseTable`, `ControlPlane`,
`ThreadedRequests`), `Patches` over `PatchedWorkspace`, `Plugins`,
`VerificationLoop` and `Deployment` in `Delivery`, and `Gateway`, each with its
run and its proofs. Next, in this order:

1. A threaded stale scan on a reduced instance of `ThreadedRequests`:
   heartbeats, assignments and renewals between the steps of a scan.
2. `Lifecycle`: two processes over the lock file, with stale-lock recovery.
3. `Swarm`: task graph, coordinator rounds and retrying leases; no task before
   its dependencies, and a bound on retries that does not depend on polling.
4. The client lane of the dashboard projection, on the ledger of `Gateway`.
5. The router's budget over several calls, if it gets a store of its own.

Theorems to add: type correctness and the main invariant of each new module;
that the deployments of a provider implement a stack per target as long as
rollbacks come in reverse order.
