-------------------------- MODULE VerificationLoop --------------------------
(***************************************************************************)
(* One run of the verification loop (vad/loop/orchestrator.py) after       *)
(* another over an EIP file and a proof-plan file that people edit between *)
(* the runs, the release manager that runs may share, the run_evidence     *)
(* table and the release approvals recorded against it.                    *)
(***************************************************************************)
EXTENDS Integers, Sequences, SequencesExt, FiniteSets

CONSTANTS
  Eip,             \* contents the EIP file may have
  Obligation,
  Obligations(_),  \* proof_obligations of an EIP
  ManualGates(_),  \* those of kind manual_gate
  Uncovered,       \* EIPs with criteria or invariants but no obligation
  VersionOf(_),    \* version of an EIP; two EIPs may share it
  NoBudget,        \* EIPs whose max_tokens or max_cost is 0
  Released,        \* EIPs whose release_requirements.required is set
  Observed,        \* EIPs whose telemetry_requirements.required is set
  Metric,
  Reports,         \* release metrics that runs are given: subset of [Metric -> Health]
  Gates(_),        \* release_requirements.gates
  Command, Allowed,   \* commands, and those the execution guard lets through
  Pytest,             \* what COMMANDS_BY_KIND gives
  EditedPlan,         \* proof plans written by hand
  Effort,             \* effort inputs of the orchestrator
  Agent,
  Level3, Failure,    \* the run ids of the demo fixtures
  DemoBuilder, DemoApprover,   \* the agents named in them
  None,
  MaxRuns, MaxEdits, MaxSaves, MaxApprovals

(* A digest stands for the content it is computed from.                      *)
Plan == [version : {VersionOf(e) : e \in Eip}, digest : Eip,
         commands : UNION {[S -> Command] : S \in SUBSET Obligation},
         manual : SUBSET Obligation]
Health == {"healthy", "low", "unreported"}
Unreported == [m \in Metric |-> "unreported"]

ASSUME LoopAssumption ==
  /\ \A e \in Eip : /\ Obligations(e) \subseteq Obligation
                    /\ ManualGates(e) \subseteq Obligations(e)
                    /\ Gates(e) \subseteq Metric
  /\ {Uncovered, NoBudget, Released, Observed} \subseteq SUBSET Eip
  /\ Allowed \subseteq Command /\ Pytest \in Allowed
  /\ EditedPlan \subseteq Plan /\ Reports \subseteq [Metric -> Health]
  /\ \A i \in Effort : i.mees \in 0..100 /\ {i.spread, i.dependency} \subseteq BOOLEAN
  /\ MaxRuns \in Nat /\ MaxEdits \in Nat /\ MaxSaves \in Nat /\ MaxApprovals \in Nat
  /\ {Level3, Failure} \cap Nat = {} /\ Level3 # Failure
  /\ {DemoBuilder, DemoApprover} \subseteq Agent /\ DemoBuilder # DemoApprover
  /\ None \notin Plan

LoopStatus == {"initialized", "assessed", "planned", "policy_checked", "building",
               "verifying", "releasing", "feedback",
               "passed", "failed", "blocked", "needs_human"}
Final == {"passed", "failed", "blocked", "needs_human"}

(* ALLOWED_TRANSITIONS of loop/state.py                                      *)
AllowedTransitions(s) ==
  CASE s = "initialized" -> {"assessed", "planned", "blocked"}
    [] s = "assessed" -> {"planned", "needs_human", "blocked"}
    [] s = "planned" -> {"policy_checked", "blocked"}
    [] s = "policy_checked" -> {"building", "verifying", "needs_human", "blocked"}
    [] s = "building" -> {"verifying", "failed", "blocked"}
    [] s = "verifying" -> {"releasing", "feedback", "passed", "failed", "blocked"}
    [] s = "releasing" -> {"feedback", "passed", "failed", "blocked"}
    [] s = "feedback" -> {"passed", "failed", "blocked"}
    [] OTHER -> {}

RunId == 1..MaxRuns \cup {Level3, Failure}
Result == {"pass", "fail", "unmapped", "not_run"}
Evidence == [run : RunId, builder : Agent, verifier : Agent, mees : 0..100,
             eip : Eip \cup {None}, plan : Eip \cup {None},
             results : [Obligation -> Result], matched : BOOLEAN,
             history : Seq(LoopStatus), decision : Final,
             metrics : [Metric -> Health], manager : Nat]
Request == [run : RunId, actor : Agent, guardian : BOOLEAN, action : BOOLEAN]
Approval == [request : Request, allow : BOOLEAN, digest : Evidence, seeded : BOOLEAN]

VARIABLES
  eip, plan,   \* the two files
  flag,        \* the feature flag named like the EIP
  gates,       \* gates of the release manager
  manager,     \* the run whose orchestrator made the release manager in use
  started,     \* how many runs have started
  run,         \* the run under way, or None
  log,         \* evidence of the runs that have ended
  rows,        \* run_evidence: [RunId -> row or None]
  asked,       \* approval requests that have loaded their run
  approvals,   \* approval_events
  edits,
  saved        \* history: <<run id, evidence>> ever saved

loopVars == <<eip, plan, flag, gates, manager, started, run, log>>
storeVars == <<rows, asked, approvals, saved>>
vars == <<loopVars, storeVars, edits>>

TypeOK ==
  /\ eip \in Eip /\ plan \in Plan \cup {None}
  /\ flag \in BOOLEAN /\ gates \subseteq Metric /\ {manager, started} \subseteq 0..MaxRuns
  /\ run = None \/ (/\ run.id \in 1..MaxRuns
                    /\ run.status = Last(run.history) /\ run.status \in LoopStatus
                    /\ run.eip \in Eip /\ run.plan \in Plan)
  /\ Len(log) <= MaxRuns /\ \A k \in DOMAIN log : log[k] \in Evidence
  /\ \A i \in RunId : rows[i] = None \/ {rows[i].payload, rows[i].digest} \subseteq Evidence
  /\ asked \subseteq [request : Request, loaded : Evidence]
  /\ approvals \subseteq Approval
  /\ edits \in 0..MaxEdits

Init ==
  /\ eip \in Eip /\ plan = None
  /\ flag = FALSE /\ gates = {} /\ manager = 0 /\ started = 0
  /\ run = None /\ log = <<>>
  /\ rows = [i \in RunId |-> None]
  /\ asked = {} /\ approvals = {} /\ edits = 0 /\ saved = {}

-----------------------------------------------------------------------------
(* The files and the flag *)

EditEip(e) ==
  /\ edits < MaxEdits /\ e # eip
  /\ edits' = edits + 1 /\ eip' = e
  /\ UNCHANGED <<plan, flag, gates, manager, started, run, log, storeVars>>

(* map_proofs, written by `vad proof map` unless the file is there and       *)
(* --force is not given                                                      *)
MapProofs(e) ==
  [version |-> VersionOf(e), digest |-> e,
   commands |-> [o \in Obligations(e) \ ManualGates(e) |-> Pytest],
   manual |-> ManualGates(e)]

ProofMap(force) ==
  /\ eip \notin Uncovered
  /\ plan = None \/ force
  /\ plan' = MapProofs(eip)
  /\ UNCHANGED <<eip, flag, gates, manager, started, run, log, storeVars, edits>>

EditPlan(p) ==
  /\ edits < MaxEdits /\ p # plan
  /\ edits' = edits + 1 /\ plan' = p
  /\ UNCHANGED <<eip, flag, gates, manager, started, run, log, storeVars>>

SetFlag(b) ==
  /\ edits < MaxEdits /\ b # flag
  /\ edits' = edits + 1 /\ flag' = b
  /\ UNCHANGED <<eip, plan, gates, manager, started, run, log, storeVars>>

-----------------------------------------------------------------------------
(* VADOrchestrator.run *)

(* The run works on the EIP and the plan as they were when it started.  With *)
(* no release manager given, the orchestrator makes its own.                 *)
Start(b, v, own) ==
  /\ run = None /\ started < MaxRuns /\ plan # None
  /\ started' = started + 1
  /\ run' = [id |-> started', eip |-> eip, plan |-> plan, builder |-> b, verifier |-> v,
             mees |-> 100, metrics |-> Unreported,
             status |-> "initialized", history |-> <<"initialized">>,
             results |-> [o \in Obligation |-> "not_run"], matched |-> FALSE]
  /\ own \/ manager > 0
  /\ manager' = IF own THEN started' ELSE manager
  /\ gates' = IF own THEN {} ELSE gates
  /\ UNCHANGED <<eip, plan, flag, log, storeVars, edits>>

CanMove(r, s) == s \in AllowedTransitions(r.status)
(* Mutant: a transition does not extend the history.                         *)
Moved_NoHistory(r, s) == [r EXCEPT !.status = s]

Moved(r, s) == [r EXCEPT !.status = s, !.history = Append(@, s)]

(* RunEvidence and its validator: a score under 50 only with a human decision *)
Valid(r, decision) == r.mees < 50 => decision \in {"needs_human", "blocked"}
EvidenceOf(r, decision) ==
  [run |-> r.id, builder |-> r.builder, verifier |-> r.verifier, mees |-> r.mees,
   eip |-> r.eip, plan |-> r.plan.digest, results |-> r.results, matched |-> r.matched,
   history |-> Append(r.history, decision), decision |-> decision,
   metrics |-> r.metrics, manager |-> manager]

Finish(r, decision) ==
  /\ CanMove(r, decision) /\ Valid(r, decision)
  /\ log' = Append(log, EvidenceOf(r, decision))
  /\ run' = None

(* spread: more than 10 files without a justification; dependency: a new     *)
(* dependency without approval                                               *)
EffortBlocked(effort) == effort.mees < 50 \/ effort.spread \/ effort.dependency
Exhausted(r) == r.eip \in NoBudget

Assess(effort) ==
  /\ run # None /\ run.status = "initialized"
  /\ LET r == [run EXCEPT !.mees = effort.mees]
     IN IF EffortBlocked(effort) \/ Exhausted(r)
          THEN Finish(r, "blocked")
          ELSE CanMove(r, "planned") /\ run' = Moved(r, "planned") /\ UNCHANGED log
  /\ UNCHANGED <<eip, plan, flag, gates, manager, started, storeVars, edits>>

(* evaluate_decision with action "build": builder and approver differ.       *)
PolicyAllows(r) == r.builder # r.verifier

CheckPolicy(provider) ==
  /\ run # None /\ run.status = "planned"
  /\ IF ~PolicyAllows(run)
       THEN CanMove(run, "policy_checked") /\ Finish(Moved(run, "policy_checked"), "needs_human")
       ELSE IF provider \in {"denied", "costly"}
              THEN Finish(run, "blocked")
              ELSE /\ CanMove(run, "policy_checked")
                   /\ run' = Moved(run, "policy_checked")
                   /\ UNCHANGED log
  /\ UNCHANGED <<eip, plan, flag, gates, manager, started, storeVars, edits>>

(* The policy tool is missing or fails: the exception ends the run, and no   *)
(* evidence is made.                                                         *)
PolicyFails ==
  /\ run # None /\ run.status = "planned"
  /\ run' = None
  /\ UNCHANGED <<eip, plan, flag, gates, manager, started, log, storeVars, edits>>

(* Mutant: the digest of the EIP is not compared.                            *)
PlanMatches_VersionOnly(r) == r.plan.version = VersionOf(r.eip)

PlanMatches(r) == r.plan.version = VersionOf(r.eip) /\ r.plan.digest = r.eip
Covers(p, o) == o \in DOMAIN p.commands \cup p.manual

(* VerifierRunner.run: an obligation with a command is run, and the guard's  *)
(* refusal or a failing exit is a failure; one without and not a manual gate *)
(* of the plan is unmapped.                                                  *)
ResultOf(r, o, failing) ==
  IF o \notin Obligations(r.eip) THEN "not_run"
  ELSE IF o \in DOMAIN r.plan.commands
         THEN IF r.plan.commands[o] \in Allowed /\ o \notin failing THEN "pass" ELSE "fail"
         ELSE IF Covers(r.plan, o) THEN "not_run" ELSE "unmapped"

Verify(failing) ==
  /\ run # None /\ run.status = "policy_checked"
  /\ CanMove(run, "verifying")
  /\ run' = [Moved(run, "verifying") EXCEPT
               !.results = [o \in Obligation |-> ResultOf(run, o, failing)],
               !.matched = PlanMatches(run)]
  /\ UNCHANGED <<eip, plan, flag, gates, manager, started, log, storeVars, edits>>

ReportPassed(r) == r.matched /\ \A o \in Obligation : r.results[o] \in {"pass", "not_run"}

Decide ==
  /\ run # None /\ run.status = "verifying"
  /\ IF ReportPassed(run) /\ run.eip \in Released
       THEN CanMove(run, "releasing") /\ run' = Moved(run, "releasing") /\ UNCHANGED log
       ELSE Finish(run, IF ReportPassed(run) THEN "passed" ELSE "failed")
  /\ UNCHANGED <<eip, plan, flag, gates, manager, started, storeVars, edits>>

(* ReleaseManager.evaluate_release: a gate whose metric is not reported is   *)
(* passed over.                                                              *)
ReleaseAllowed(r, gs) ==
  /\ r.eip \in Observed
  /\ flag
  /\ \A g \in gs : r.metrics[g] # "low"

(* Mutant: a release is judged before its gates are added, by the others.    *)
Release_JudgesFirst(metrics) ==
  /\ run # None /\ run.status = "releasing"
  /\ gates' = gates \cup Gates(run.eip)
  /\ LET r == [run EXCEPT !.metrics = metrics]
     IN Finish(r, IF ReleaseAllowed(r, gates) THEN "passed" ELSE "failed")
  /\ UNCHANGED <<eip, plan, flag, manager, started, storeVars, edits>>

(* _evaluate_release adds the gates of this EIP to those the manager has.    *)
Release(metrics) ==
  /\ run # None /\ run.status = "releasing"
  /\ gates' = gates \cup Gates(run.eip)
  /\ LET r == [run EXCEPT !.metrics = metrics]
     IN Finish(r, IF ReleaseAllowed(r, gates') THEN "passed" ELSE "failed")
  /\ UNCHANGED <<eip, plan, flag, manager, started, storeVars, edits>>

-----------------------------------------------------------------------------
(* The evidence table and the approvals *)

Row(e) == [digest |-> e, payload |-> e]

(* evidence: [run ids -> Evidence]                                           *)
SaveRunEvidence(evidence) ==
  /\ rows' = [i \in RunId |-> IF i \in DOMAIN evidence THEN Row(evidence[i]) ELSE rows[i]]
  /\ saved' = saved \cup {<<i, evidence[i]>> : i \in DOMAIN evidence}
  /\ Cardinality({s \in saved' : s[1] \in 1..MaxRuns}) <= MaxSaves

SaveRun(k) ==
  /\ SaveRunEvidence([i \in {log[k].run} |-> log[k]])
  /\ UNCHANGED <<loopVars, asked, approvals, edits>>

(* A fixture seeds its run again at every start of the server, under the     *)
(* same id, from the files of its example; the approvals of the example, one *)
(* granted and one of the builder denied, go in with the first evidence only *)
(* and past the approval service.                                            *)
Seeded(id) ==
  [run |-> id, builder |-> DemoBuilder, verifier |-> DemoApprover, mees |-> 100,
   eip |-> None, plan |-> None, results |-> [o \in Obligation |-> "not_run"],
   matched |-> TRUE, history |-> <<>>, decision |-> "passed",
   metrics |-> Unreported, manager |-> 0]

SeededApproval(actor, allow) ==
  [request |-> [run |-> Level3, actor |-> actor, guardian |-> allow, action |-> TRUE],
   allow |-> allow, digest |-> Seeded(Level3), seeded |-> TRUE]

SeedApprovals ==
  approvals' = approvals \cup {SeededApproval(DemoApprover, TRUE),
                               SeededApproval(DemoBuilder, FALSE)}

(* The payload of a stored row is changed behind the store's back.           *)
Tamper(id, b) ==
  /\ edits < MaxEdits /\ edits' = edits + 1
  /\ rows[id] # None /\ rows[id].payload.builder # b
  /\ rows' = [rows EXCEPT ![id].payload.builder = b]
  /\ UNCHANGED <<loopVars, asked, approvals, saved>>

(* Mutant: the digest of the row is not verified.                            *)
Loadable_Unverified(id) == rows[id] # None

(* load_run_evidence: no row, or a payload that does not have the recorded   *)
(* digest, raises.                                                           *)
Loadable(id) == rows[id] # None /\ rows[id].payload = rows[id].digest

Requested == Cardinality(asked) + Cardinality({a \in approvals : ~a.seeded})

LoadForApproval(req) ==
  /\ Requested < MaxApprovals
  /\ Loadable(req.run)
  /\ asked' = asked \cup {[request |-> req, loaded |-> rows[req.run].payload]}
  /\ UNCHANGED <<loopVars, rows, approvals, saved, edits>>

ApprovalDecision(req, builder) == req.guardian /\ req.actor # builder /\ req.action

RecordApproval(a) ==
  /\ a \in asked
  /\ approvals' = approvals \cup
       {[request |-> a.request, digest |-> a.loaded, seeded |-> FALSE,
         allow |-> ApprovalDecision(a.request, a.loaded.builder)]}
  /\ asked' = asked \ {a}
  /\ UNCHANGED <<loopVars, rows, saved, edits>>

-----------------------------------------------------------------------------
Step == PolicyFails \/ Decide
          \/ (\E i \in Effort : Assess(i)) \/ (\E ms \in Reports : Release(ms))
          \/ (\E p \in {"none", "allowed", "denied", "costly"} : CheckPolicy(p))
          \/ (\E F \in SUBSET Obligation : Verify(F))

Next ==
  \/ \E e \in Eip : EditEip(e)
  \/ \E p \in EditedPlan : EditPlan(p)
  \/ \E b \in BOOLEAN : ProofMap(b) \/ SetFlag(b)
  \/ \E b, v \in Agent, own \in BOOLEAN : Start(b, v, own)
  \/ Step
  \/ \E k \in DOMAIN log : SaveRun(k)
  \/ \E b \in Agent, id \in RunId : Tamper(id, b)
  \/ \E req \in Request : LoadForApproval(req)
  \/ \E a \in asked : RecordApproval(a)

Spec == Init /\ [][Next]_vars
=============================================================================
