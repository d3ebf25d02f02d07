SPECIFICATION SpecDelivery
CONSTANTS
  e1 = e1
  e2 = e2
  e3 = e3
  o1 = o1
  o2 = o2
  latency = latency
  errors = errors
  t1 = t1
  a1 = a1
  a2 = a2
  ls = ls
  Eip = {e1, e2, e3}
  Obligation = {o1, o2}
  Obligations <- MCObligations
  ManualGates <- MCManualGates
  Uncovered = {e3}
  VersionOf <- MCVersionOf
  NoBudget = {e3}
  Released = {e1, e2}
  Observed = {e1, e2}
  Metric = {latency, errors}
  Reports <- MCReports
  Gates <- MCGates
  Command = {pytest, ls}
  Allowed = {pytest}
  Pytest = pytest
  EditedPlan <- MCEditedPlan
  Effort <- MCEffort
  Agent = {alice, bob}
  Level3 = Level3
  Failure = Failure
  DemoBuilder = alice
  DemoApprover = bob
  None = None
  MaxRuns = 2
  MaxEdits = 2
  MaxSaves = 2
  MaxApprovals = 1
  Target = {t1}
  Artifact = {a1, a2}
  Absent = Absent
  DeploymentPlan <- MCDeploymentPlan
  DemoPlan <- MCDemoPlan
  DemoArtifact = a1
  MaxDeployments = 2
  MaxCommands = 4
  MaxWork = 4
CHECK_DEADLOCK FALSE
INVARIANT TypeOKDelivery
INVARIANT PassedRunsVerified
INVARIANT ReleasesHonourEveryGate
INVARIANT ApprovalsBindEvidence
INVARIANT RollbacksUnwind
