----------------------------- MODULE Deployment -----------------------------
(***************************************************************************)
(* Deployments through the fake provider (vad/deploy): the validators of a *)
(* deployment plan, the policy in front of apply and rollback, the         *)
(* provider's targets and records, and the commands of `vad deploy`, which *)
(* build a provider per command and keep only the record file between them.*)
(***************************************************************************)
EXTENDS Integers, Sequences

CONSTANTS
  Target, Artifact, Absent,
  DeploymentPlan,    \* plan files
  DemoPlan, DemoArtifact,   \* of the failed-deployment demo
  MaxDeployments,    \* bound on deployments of one provider
  MaxCommands        \* bound on operations

PlanType == [target : Target, artifact : Artifact, production : BOOLEAN,
             approval : BOOLEAN, telemetry : BOOLEAN, rollback : BOOLEAN]

ASSUME DeploymentAssumption ==
  /\ Absent \notin Artifact
  /\ DeploymentPlan \subseteq PlanType
  /\ DemoPlan \in DeploymentPlan /\ DemoArtifact \in Artifact
  /\ MaxDeployments \in Nat /\ MaxCommands \in Nat

Targets == [Target -> Artifact \cup {Absent}]
Record == [plan : DeploymentPlan, prior : Artifact \cup {Absent},
           status : {"applied", "rolled_back"}]
Provider == [targets : Targets, deployments : Seq(Record)]

VARIABLES
  provider,    \* FakeDeploymentProvider
  records,     \* record files that `deploy apply` wrote
  commands,
  base,        \* history: the targets the provider was built with
  unordered    \* history: targets with a rollback of another than the last live deployment

deployVars == <<provider, records, commands, base, unordered>>

DeploymentTypeOK ==
  /\ provider \in Provider
  /\ records \subseteq Record
  /\ commands \in 0..MaxCommands
  /\ base \in Targets /\ unordered \subseteq Target

NoTargets == [t \in Target |-> Absent]
NewProvider(ts) == [targets |-> ts, deployments |-> <<>>]

DeploymentInit ==
  /\ base \in Targets /\ provider = NewProvider(base)
  /\ records = {} /\ commands = 0 /\ unordered = {}

-----------------------------------------------------------------------------
(* DeploymentTarget refuses a production target without telemetry or         *)
(* rollback when the plan is loaded.                                         *)
ValidPlan(p) == p.production => p.telemetry /\ p.rollback

ApplyAllowed(p, ref) ==
  p.production => (p.approval \/ ref) /\ p.telemetry /\ p.rollback

RollbackAllowed(ref) == ref

Applied(prov, p) ==
  [targets |-> [prov.targets EXCEPT ![p.target] = p.artifact],
   deployments |-> Append(prov.deployments,
     [plan |-> p, prior |-> prov.targets[p.target], status |-> "applied"])]

(* Mutant: a target that served nothing before keeps its artifact.           *)
RolledBack_KeepsFirst(prov, d) ==
  LET r == prov.deployments[d]
  IN IF r.plan.rollback
       THEN [targets |-> IF r.prior = Absent THEN prov.targets
                         ELSE [prov.targets EXCEPT ![r.plan.target] = r.prior],
             deployments |-> [prov.deployments EXCEPT ![d].status = "rolled_back"]]
       ELSE prov

(* rollback puts back what preceded the deployment, whatever has been        *)
(* deployed since and even if it has been rolled back before.                *)
RolledBack(prov, d) ==
  LET r == prov.deployments[d]
  IN IF r.plan.rollback
       THEN [targets |-> [prov.targets EXCEPT ![r.plan.target] = r.prior],
             deployments |-> [prov.deployments EXCEPT ![d].status = "rolled_back"]]
       ELSE prov

Live(ds, t) == {d \in DOMAIN ds : ds[d].plan.target = t /\ ds[d].status = "applied"}
LastLive(ds, t, d) == d \in Live(ds, t) /\ \A e \in Live(ds, t) : e <= d

Count == commands < MaxCommands /\ commands' = commands + 1

(* A caller that keeps its provider                                          *)
Apply(p, ref) ==
  /\ Count /\ Len(provider.deployments) < MaxDeployments
  /\ ValidPlan(p) /\ ApplyAllowed(p, ref)
  /\ provider' = Applied(provider, p)
  /\ UNCHANGED <<records, base, unordered>>

Rollback(d, ref) ==
  /\ Count /\ RollbackAllowed(ref)
  /\ provider' = RolledBack(provider, d)
  /\ unordered' = LET r == provider.deployments[d]
                  IN IF r.plan.rollback /\ ~LastLive(provider.deployments, r.plan.target, d)
                       THEN unordered \cup {r.plan.target} ELSE unordered
  /\ UNCHANGED <<records, base>>

(* deploy apply: an empty provider, one deployment, and its record on disk   *)
CliApply(p, ref) ==
  /\ Count /\ ValidPlan(p) /\ ApplyAllowed(p, ref)
  /\ provider' = Applied(NewProvider(NoTargets), p)
  /\ records' = records \cup {provider'.deployments[1]}
  /\ base' = NoTargets /\ unordered' = {}

(* deploy rollback: a provider rebuilt from the record alone                 *)
FromRecord(r) == [targets |-> [NoTargets EXCEPT ![r.plan.target] = r.plan.artifact],
                  deployments |-> <<r>>]

CliRollback(r, ref) ==
  /\ Count /\ RollbackAllowed(ref)
  /\ provider' = RolledBack(FromRecord(r), 1)
  /\ base' = [NoTargets EXCEPT ![r.plan.target] = r.prior] /\ unordered' = {}
  /\ UNCHANGED records

(* run_failed_deployment_demo: telemetry below its threshold undoes the      *)
(* deployment on a provider that already serves an artifact.                 *)
FailureDemo ==
  /\ Count /\ ValidPlan(DemoPlan)
  /\ base' = [NoTargets EXCEPT ![DemoPlan.target] = DemoArtifact] /\ unordered' = {}
  /\ provider' = RolledBack(Applied(NewProvider(base'), DemoPlan), 1)
  /\ UNCHANGED records

DeploymentNext ==
  \/ \E p \in DeploymentPlan, ref \in BOOLEAN : Apply(p, ref) \/ CliApply(p, ref)
  \/ \E ref \in BOOLEAN : \/ \E d \in DOMAIN provider.deployments : Rollback(d, ref)
                          \/ \E r \in records : CliRollback(r, ref)

-----------------------------------------------------------------------------
(* Properties *)

(* As long as rollbacks come in the reverse order of the deployments, a      *)
(* target serves the artifact of its last deployment that has not been       *)
(* rolled back, and what it served before any of them once all have been.    *)
(* (FakeDeploymentProvider.apply, rollback)                                  *)
RollbacksUnwind ==
  \A t \in Target \ unordered :
    LET ds == provider.deployments
    IN /\ \A d \in Live(ds, t) : LastLive(ds, t, d) => provider.targets[t] = ds[d].plan.artifact
       /\ Live(ds, t) = {} => provider.targets[t] = base[t]
=============================================================================
