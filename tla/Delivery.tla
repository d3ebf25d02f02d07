------------------------------ MODULE Delivery ------------------------------
(***************************************************************************)
(* The verification loop, its evidence and approvals, and the deployments, *)
(* composed: the failed-deployment demo writes the evidence table that the *)
(* approvals read.                                                         *)
(***************************************************************************)
EXTENDS VerificationLoop, Deployment

CONSTANT MaxWork   \* bound on runs, their saves, edits, approvals and deployment commands together

ASSUME DeliveryAssumption == MaxWork \in Nat

Work == started + edits + Requested + commands + Cardinality({s \in saved : s[1] \in 1..MaxRuns})

TypeOKDelivery == TypeOK /\ DeploymentTypeOK

InitDelivery == Init /\ DeploymentInit

(* The evidence of the demo is blocked and has a failed verification.        *)
FailureEvidence ==
  [Seeded(Failure) EXCEPT !.mees = 72, !.matched = FALSE, !.decision = "blocked"]

FailedDeployment ==
  /\ FailureDemo
  /\ SaveRunEvidence([i \in {Failure} |-> FailureEvidence])
  /\ UNCHANGED <<loopVars, asked, approvals, edits>>

(* seed_level3_demo_store: the successful run with its approvals, then the   *)
(* two demos; the signed one deploys on a provider of its own, which the     *)
(* failed one follows.                                                       *)
SeedLevel3 ==
  /\ SaveRunEvidence([i \in {Level3, Failure} |->
                        IF i = Level3 THEN Seeded(Level3) ELSE FailureEvidence])
  /\ SeedApprovals
  /\ FailureDemo
  /\ UNCHANGED <<loopVars, asked, edits>>

NextDelivery ==
  /\ \/ Next /\ UNCHANGED deployVars
     \/ DeploymentNext /\ UNCHANGED vars
     \/ FailedDeployment \/ SeedLevel3
  /\ Work' <= MaxWork

SpecDelivery == InitDelivery /\ [][NextDelivery]_<<vars, deployVars>>

-----------------------------------------------------------------------------
(* Properties *)

(* A run that passed had a plan made from the very EIP it judged, went       *)
(* through the policy check by someone other than its builder, and each      *)
(* obligation of that EIP has run and passed or is a manual gate of the      *)
(* plan, however the two files were edited between mapping and run.          *)
(* (VerifierRunner.run, VADOrchestrator.run)                                 *)
PassedRunsVerified ==
  \A k \in DOMAIN log : log[k].decision = "passed" =>
    /\ log[k].plan = log[k].eip
    /\ log[k].builder # log[k].verifier /\ log[k].mees >= 50
    /\ {"policy_checked", "verifying"} \subseteq Range(log[k].history)
    /\ log[k].eip \in Released <=> "releasing" \in Range(log[k].history)
    /\ \A o \in Obligations(log[k].eip) : log[k].results[o] \in {"pass", "not_run"}

(* A run released by a manager is healthy by every gate of every EIP that    *)
(* manager has judged, its own and those of earlier runs alike, passed or    *)
(* failed.  (_evaluate_release, ReleaseManager.evaluate_release)             *)
ReleasesHonourEveryGate ==
  \A k \in DOMAIN log : \A j \in 1..k :
    /\ log[k].decision = "passed" /\ "releasing" \in Range(log[k].history)
    /\ log[j].manager = log[k].manager /\ "releasing" \in Range(log[j].history)
    => \A g \in Gates(log[j].eip) : log[k].metrics[g] # "low"

(* An approval that was granted names evidence that was really saved for its *)
(* run, and was given by somebody other than that evidence's builder, even   *)
(* if the row was replaced or changed while the request was under way.       *)
(* (ApprovalService.record_approval, load_run_evidence)                      *)
ApprovalsBindEvidence ==
  \A a \in approvals : a.allow =>
    /\ <<a.request.run, a.digest>> \in saved
    /\ a.digest.builder # a.request.actor /\ a.request.guardian
=============================================================================
