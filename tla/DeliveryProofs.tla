--------------------------- MODULE DeliveryProofs ---------------------------
(***************************************************************************)
(* Verification runs, approvals and deployments for every set of EIPs,     *)
(* plans, metrics, agents and targets and every number of runs: the types, *)
(* what stands behind a run that passed, a release, an approval and a      *)
(* rollback.                                                               *)
(***************************************************************************)
EXTENDS Delivery, TLAPS

(* The run under way                                                         *)
RunType ==
  [id : 1..MaxRuns, eip : Eip, plan : Plan, builder : Agent, verifier : Agent,
   mees : 0..100, metrics : [Metric -> Health], status : LoopStatus,
   history : Seq(LoopStatus), results : [Obligation -> Result], matched : BOOLEAN]
Consistent(r) == r \in RunType /\ Len(r.history) > 0 /\ Last(r.history) = r.status

(* What a run has behind it at each status it can have                       *)
Judged(r) ==
  /\ r.status \in {"initialized", "planned", "policy_checked", "verifying", "releasing"}
  /\ r.mees >= 50
  /\ "releasing" \in Range(r.history) <=> r.status = "releasing"
  /\ r.status \in {"policy_checked", "verifying", "releasing"} =>
       "policy_checked" \in Range(r.history) /\ r.builder # r.verifier
  /\ r.status \in {"verifying", "releasing"} =>
       "verifying" \in Range(r.history) /\ (r.matched => PlanMatches(r))
  /\ r.status = "releasing" => ReportPassed(r) /\ r.eip \in Released

(* What evidence that says passed stands on                                  *)
Sound(e) ==
  e.decision = "passed" =>
    /\ e.plan = e.eip
    /\ e.builder # e.verifier /\ e.mees >= 50
    /\ {"policy_checked", "verifying"} \subseteq Range(e.history)
    /\ e.eip \in Released <=> "releasing" \in Range(e.history)
    /\ \A o \in Obligations(e.eip) : e.results[o] \in {"pass", "not_run"}

(* The manager in use has the gates of every run that it judged.             *)
GatesKept ==
  \A k \in 1..Len(log) : log[k].manager = manager /\ "releasing" \in Range(log[k].history) =>
    Gates(log[k].eip) \subseteq gates

FilesTyped == eip \in Eip /\ plan \in Plan \cup {None} /\ flag \in BOOLEAN
ManagerTyped == gates \subseteq Metric /\ started \in 0..MaxRuns /\ manager \in 0..started
LogTyped ==
  /\ log \in Seq(Evidence) /\ Len(log) <= started /\ (run # None => Len(log) < started)
  /\ \A k \in 1..Len(log) : Sound(log[k]) /\ log[k].manager <= started
LoopInv ==
  /\ FilesTyped /\ ManagerTyped /\ LogTyped
  /\ run # None => Consistent(run) /\ Judged(run)
  /\ GatesKept /\ ReleasesHonourEveryGate

(* The rows hold what was saved for their run, changed behind the store's    *)
(* back or not; a request has loaded what was saved.                         *)
RowType == [digest : Evidence, payload : Evidence]
StoreInv ==
  /\ rows \in [RunId -> RowType \cup {None}]
  /\ asked \subseteq [request : Request, loaded : Evidence]
  /\ approvals \subseteq Approval /\ edits \in 0..MaxEdits
  /\ \A i \in RunId : rows[i] # None => <<i, rows[i].digest>> \in saved
  /\ \A a \in asked : <<a.request.run, a.loaded>> \in saved
  /\ ApprovalsBindEvidence

-----------------------------------------------------------------------------
(* Runs *)

(* A history with one more status                                            *)
LEMMA RangeOfAppend ==
  ASSUME NEW h \in Seq(LoopStatus), NEW s \in LoopStatus
  PROVE  /\ Append(h, s) \in Seq(LoopStatus) /\ Len(Append(h, s)) > 0
         /\ Last(Append(h, s)) = s /\ Range(Append(h, s)) = Range(h) \cup {s}
<1> DEFINE a == Append(h, s)
<1>1. a \in Seq(LoopStatus) /\ Len(a) = Len(h) + 1 /\ Len(h) \in Nat /\ a[Len(h) + 1] = s
      /\ \A n \in 1..Len(h) : a[n] = h[n]
  OBVIOUS
<1> HIDE DEF a
<1>2. DOMAIN a = 1..Len(h) + 1 /\ DOMAIN h = 1..Len(h)
  BY <1>1
<1>3. Range(a) = Range(h) \cup {s}
  <2>1. ASSUME NEW x \in Range(a) PROVE x \in Range(h) \cup {s}
    <3>1. PICK n \in 1..Len(h) + 1 : x = a[n]
      BY <1>2 DEF Range
    <3> QED
      BY <1>1, <1>2, <3>1 DEF Range
  <2>2. ASSUME NEW x \in Range(h) \cup {s} PROVE x \in Range(a)
    BY <1>1, <1>2 DEF Range
  <2> QED
    BY <2>1, <2>2
<1>4. Last(a) = s
  BY <1>1 DEF Last
<1> QED
  BY <1>1, <1>3, <1>4 DEF a

(* A run that moves on keeps everything but its status.                      *)
LEMMA MovedTyped ==
  ASSUME NEW r \in RunType, NEW s \in LoopStatus
  PROVE  /\ Consistent(Moved(r, s)) /\ Moved(r, s).status = s
         /\ Range(Moved(r, s).history) = Range(r.history) \cup {s}
         /\ Moved(r, s).mees = r.mees /\ Moved(r, s).builder = r.builder
         /\ Moved(r, s).verifier = r.verifier /\ Moved(r, s).matched = r.matched
         /\ Moved(r, s).eip = r.eip /\ Moved(r, s).plan = r.plan
         /\ Moved(r, s).results = r.results /\ Moved(r, s).metrics = r.metrics
<1> DEFINE h == Append(r.history, s)
           m == [r EXCEPT !.status = s, !.history = h]
<1>1. Moved(r, s) = m
  BY DEF Moved
<1>2. r.history \in Seq(LoopStatus)
  BY DEF RunType
<1>3. h \in Seq(LoopStatus) /\ Len(h) > 0 /\ Last(h) = s /\ Range(h) = Range(r.history) \cup {s}
  BY <1>2, RangeOfAppend
<1> HIDE DEF h
<1>4. /\ m \in RunType /\ m.status = s /\ m.history = h /\ m.mees = r.mees /\ m.builder = r.builder
      /\ m.verifier = r.verifier /\ m.matched = r.matched /\ m.eip = r.eip /\ m.plan = r.plan
      /\ m.results = r.results /\ m.metrics = r.metrics
  BY <1>3 DEF RunType
<1> QED
  BY <1>1, <1>3, <1>4 DEF Consistent

(* A run that goes on                                                        *)
LEMMA RunMoves ==
  ASSUME LoopInv, NEW r, run # None, run' = r, Consistent(r), Judged(r),
         UNCHANGED <<eip, plan, flag, gates, manager, started, log>>
  PROVE  LoopInv'
<1>1. Consistent(run') /\ Judged(run')
  OBVIOUS
<1>2. (Consistent(run) /\ Judged(run))'
  BY <1>1 DEF Consistent, Judged, PlanMatches, ReportPassed
<1>3. FilesTyped' /\ ManagerTyped' /\ GatesKept' /\ ReleasesHonourEveryGate'
  BY DEF LoopInv, FilesTyped, ManagerTyped, GatesKept, ReleasesHonourEveryGate
<1>4. LogTyped'
  BY DEF LoopInv, LogTyped, Sound
<1> QED
  BY <1>2, <1>3, <1>4 DEF LoopInv

(* The evidence of a run has the run's history and its decision.             *)
LEMMA EvidenceTyped ==
  ASSUME NEW r \in RunType, NEW d \in Final, manager \in Nat
  PROVE  /\ EvidenceOf(r, d) \in Evidence
         /\ Range(EvidenceOf(r, d).history) = Range(r.history) \cup {d}
<1> DEFINE h == Append(r.history, d)
<1>1. r.history \in Seq(LoopStatus) /\ d \in LoopStatus
  BY DEF RunType, Final, LoopStatus
<1>2. h \in Seq(LoopStatus) /\ Range(h) = Range(r.history) \cup {d}
  BY <1>1, RangeOfAppend
<1> HIDE DEF h
<1>3. EvidenceOf(r, d) =
        [run |-> r.id, builder |-> r.builder, verifier |-> r.verifier, mees |-> r.mees,
         eip |-> r.eip, plan |-> r.plan.digest, results |-> r.results, matched |-> r.matched,
         history |-> h, decision |-> d, metrics |-> r.metrics, manager |-> manager]
  BY DEF EvidenceOf, h
<1>4. r.id \in RunId /\ r.plan.digest \in Eip
  BY DEF RunType, RunId, Plan
<1>5. EvidenceOf(r, d) \in Evidence
  BY <1>2, <1>3, <1>4 DEF RunType, Evidence
<1>6. EvidenceOf(r, d).history = h
  BY <1>3
<1> QED
  BY <1>2, <1>5, <1>6

(* A run that ends with its evidence                                         *)
LEMMA RunEnds ==
  ASSUME LoopInv, run # None, NEW r, Consistent(r), NEW d \in Final, Finish(r, d),
         gates \subseteq gates', gates' \subseteq Metric,
         UNCHANGED <<eip, plan, flag, manager, started>>,
         d = "passed" =>
           /\ PlanMatches(r) /\ r.builder # r.verifier /\ r.mees >= 50 /\ ReportPassed(r)
           /\ {"policy_checked", "verifying"} \subseteq Range(r.history)
           /\ r.eip \in Released <=> "releasing" \in Range(r.history),
         "releasing" \in Range(r.history) =>
           /\ Gates(r.eip) \subseteq gates'
           /\ d = "passed" => \A g \in gates' : r.metrics[g] # "low"
  PROVE  LoopInv'
<1> DEFINE e == EvidenceOf(r, d)
           n == Len(log) + 1
<1>1. log' = Append(log, e) /\ run' = None
  BY DEF Finish
<1>2. /\ r \in RunType /\ log \in Seq(Evidence) /\ started \in Nat /\ manager \in Nat /\ manager <= started
      /\ Len(log) < started /\ Len(log) \in Nat
  BY LoopAssumption DEF Consistent, LoopInv, LogTyped, ManagerTyped
<1>3. e \in Evidence /\ Range(e.history) = Range(r.history) \cup {d} /\ d # "releasing"
      /\ {d} \cap {"policy_checked", "verifying"} = {}
  BY <1>2, EvidenceTyped DEF Final
<1>4. /\ e.decision = d /\ e.plan = r.plan.digest /\ e.eip = r.eip /\ e.builder = r.builder
      /\ e.verifier = r.verifier /\ e.mees = r.mees /\ e.results = r.results
      /\ e.metrics = r.metrics /\ e.manager = manager
  BY DEF EvidenceOf
<1> HIDE DEF e
<1>5. /\ log' \in Seq(Evidence) /\ Len(log') = n /\ log'[n] = e
      /\ \A k \in 1..Len(log) : log'[k] = log[k]
      /\ \A k \in 1..n : k = n \/ k \in 1..Len(log)
      /\ DOMAIN log' = 1..n /\ DOMAIN log = 1..Len(log)
  BY <1>1, <1>2, <1>3
<1>6. Sound(e)
  <2> SUFFICES ASSUME d = "passed" PROVE Sound(e)
    BY <1>4 DEF Sound
  <2>1. e.plan = e.eip
    BY <1>4 DEF PlanMatches
  <2>2. e.eip \in Eip /\ \A o \in Obligations(e.eip) : e.results[o] \in {"pass", "not_run"}
    BY <1>2, <1>4, LoopAssumption DEF ReportPassed, RunType
  <2> QED
    BY <1>3, <1>4, <2>1, <2>2 DEF Sound
<1> HIDE DEF n
<1>7. LogTyped'
  <2>1. \A k \in 1..n : Sound(log'[k]) /\ log'[k].manager <= started
    BY <1>2, <1>4, <1>5, <1>6 DEF LoopInv, LogTyped
  <2>2. n <= started
    BY <1>2 DEF n
  <2> QED
    BY <1>1, <1>5, <2>1, <2>2 DEF LogTyped, Sound
<1>8. GatesKept'
  BY <1>3, <1>4, <1>5 DEF LoopInv, GatesKept
<1>9. ReleasesHonourEveryGate'
  <2> SUFFICES ASSUME NEW k \in 1..n, NEW j \in 1..k,
                      log'[k].decision = "passed", "releasing" \in Range(log'[k].history),
                      log'[j].manager = log'[k].manager, "releasing" \in Range(log'[j].history),
                      NEW g \in Gates(log'[j].eip)
               PROVE  log'[k].metrics[g] # "low"
    BY <1>5 DEF ReleasesHonourEveryGate
  <2>1. CASE k \in 1..Len(log)
    <3>1. j \in 1..Len(log) /\ log'[k] = log[k] /\ log'[j] = log[j]
      BY <1>2, <1>5, <2>1
    <3> QED
      BY <1>5, <2>1, <3>1 DEF LoopInv, ReleasesHonourEveryGate
  <2>2. CASE k = n
    <3>1. d = "passed" /\ "releasing" \in Range(r.history)
      BY <1>3, <1>4, <1>5, <2>2
    <3>2. Gates(log'[j].eip) \subseteq gates'
      <4>1. CASE j = n
        BY <1>4, <1>5, <3>1, <4>1
      <4>2. CASE j # n
        <5>1. j \in 1..Len(log)
          BY <1>2, <2>2, <4>2 DEF n
        <5> QED
          BY <1>4, <1>5, <2>2, <5>1 DEF LoopInv, GatesKept
      <4> QED
        BY <4>1, <4>2
    <3> QED
      BY <1>4, <1>5, <2>2, <3>1, <3>2
  <2> QED
    BY <1>5, <2>1, <2>2
<1>10. FilesTyped' /\ ManagerTyped'
  BY DEF LoopInv, FilesTyped, ManagerTyped
<1> QED
  BY <1>1, <1>7, <1>8, <1>9, <1>10 DEF LoopInv

(* Each piece of evidence names a manager.                                   *)
LEMMA LogManagers == LoopInv => \A k \in 1..Len(log) : log[k] \in Evidence /\ log[k].manager \in Nat
<1> SUFFICES ASSUME LoopInv, NEW k \in 1..Len(log) PROVE log[k] \in Evidence /\ log[k].manager \in Nat
  OBVIOUS
<1>1. log \in Seq(Evidence)
  BY DEF LoopInv, LogTyped
<1>2. log[k] \in Evidence
  BY <1>1
<1> QED
  BY <1>2 DEF Evidence

(* The run that starts has a manager of its own or the one in use.           *)
LEMMA StartLoop ==
  ASSUME LoopInv, NEW b \in Agent, NEW v \in Agent, NEW own \in BOOLEAN, Start(b, v, own)
  PROVE  LoopInv'
<1> DEFINE h == <<"initialized">>
           rs == [o \in Obligation |-> "not_run"]
           r == [id |-> started + 1, eip |-> eip, plan |-> plan, builder |-> b, verifier |-> v,
                 mees |-> 100, metrics |-> Unreported, status |-> "initialized", history |-> h,
                 results |-> rs, matched |-> FALSE]
<1>1. /\ run = None /\ started < MaxRuns /\ plan # None /\ started' = started + 1 /\ run' = r
      /\ manager' = (IF own THEN started + 1 ELSE manager) /\ gates' = (IF own THEN {} ELSE gates)
      /\ UNCHANGED <<eip, plan, flag, log>>
  BY DEF Start
<1>2. started \in Nat /\ manager \in 0..started /\ MaxRuns \in Nat /\ Len(log) \in Nat /\ Len(log) <= started
  BY LoopAssumption DEF LoopInv, ManagerTyped, LogTyped
<1>3. h \in Seq(LoopStatus) /\ Len(h) = 1 /\ Last(h) = "initialized" /\ Range(h) = {"initialized"}
  <2>1. h \in Seq(LoopStatus) /\ Len(h) = 1 /\ h[1] = "initialized" /\ DOMAIN h = 1..1
    BY DEF LoopStatus
  <2> HIDE DEF h
  <2> QED
    BY <2>1 DEF Last, Range
<1>4. rs \in [Obligation -> Result] /\ Unreported \in [Metric -> Health] /\ 100 \in 0..100
  BY DEF Result, Unreported, Health
<1>5. started + 1 \in 1..MaxRuns /\ eip \in Eip /\ plan \in Plan /\ "initialized" \in LoopStatus
  BY <1>1, <1>2 DEF LoopInv, FilesTyped, LoopStatus
<1> HIDE DEF h, rs
<1>6. r \in RunType /\ r.status = "initialized" /\ r.history = h /\ r.mees = 100
  BY <1>4, <1>5, <1>3 DEF RunType
<1> HIDE DEF r
<1>7. Consistent(r) /\ Judged(r)
  <2>1. Len(r.history) > 0 /\ Last(r.history) = r.status /\ Range(r.history) = {"initialized"}
        /\ r.mees >= 50
    <3>1. r.history = h /\ r.status = "initialized" /\ r.mees = 100
      BY <1>6
    <3>2. Len(r.history) > 0 /\ r.mees >= 50
      BY <1>3, <3>1
    <3>3. Last(r.history) = r.status /\ Range(r.history) = {"initialized"}
      BY <1>3, <3>1, Zenon
    <3> QED
      BY <3>2, <3>3
  <2>2. Consistent(r)
    BY <1>6, <2>1 DEF Consistent
  <2>3. Judged(r)
    BY <1>6, <2>1 DEF Judged
  <2> QED
    BY <2>2, <2>3
<1>8. (Consistent(run) /\ Judged(run))'
  BY <1>1, <1>7 DEF Consistent, Judged, PlanMatches, ReportPassed
<1>9. FilesTyped' /\ ManagerTyped'
  BY <1>1, <1>2 DEF LoopInv, FilesTyped, ManagerTyped
<1>10. LogTyped'
  <2>1. \A k \in 1..Len(log) : log[k].manager \in Nat
    BY LogManagers
  <2>2. \A k \in 1..Len(log) : log[k].manager <= started + 1
    BY <1>2, <2>1 DEF LoopInv, LogTyped
  <2> QED
    BY <1>1, <1>2, <2>2 DEF LoopInv, LogTyped, Sound
<1>11. GatesKept'
  <2>1. CASE own
    <3>1. \A k \in 1..Len(log) : log[k].manager # started + 1
      <4>1. \A k \in 1..Len(log) : log[k].manager \in Nat /\ log[k].manager <= started
        BY LogManagers DEF LoopInv, LogTyped
      <4> QED
        BY <1>2, <4>1
    <3> QED
      BY <1>1, <2>1, <3>1 DEF GatesKept
  <2>2. CASE ~own
    BY <1>1, <2>2 DEF LoopInv, GatesKept
  <2> QED
    BY <2>1, <2>2
<1>12. ReleasesHonourEveryGate'
  BY <1>1 DEF LoopInv, ReleasesHonourEveryGate
<1> QED
  BY <1>8, <1>9, <1>10, <1>11, <1>12 DEF LoopInv

(* The steps of a run                                                        *)
LEMMA AssessLoop == ASSUME LoopInv, NEW effort \in Effort, Assess(effort) PROVE LoopInv'
<1> DEFINE r == [run EXCEPT !.mees = effort.mees]
<1>1. /\ run # None /\ run.status = "initialized" /\ run \in RunType /\ Consistent(run) /\ Judged(run)
      /\ UNCHANGED <<eip, plan, flag, gates, manager, started>>
  BY DEF Assess, LoopInv, Consistent
<1>2. effort.mees \in 0..100
  BY LoopAssumption
<1>3. /\ r \in RunType /\ r.mees = effort.mees /\ r.status = run.status /\ r.history = run.history
      /\ r.builder = run.builder /\ r.verifier = run.verifier /\ r.eip = run.eip /\ r.plan = run.plan
  BY <1>1, <1>2 DEF RunType
<1>4. \/ Finish(r, "blocked")
      \/ ~EffortBlocked(effort) /\ run' = Moved(r, "planned") /\ log' = log
  BY DEF Assess
<1> HIDE DEF r
<1>5. Consistent(r) /\ "releasing" \notin Range(r.history)
  BY <1>1, <1>3 DEF Consistent, Judged
<1>6. CASE Finish(r, "blocked")
  BY <1>1, <1>5, <1>6, RunEnds DEF Final, LoopInv, ManagerTyped
<1>7. CASE ~EffortBlocked(effort) /\ run' = Moved(r, "planned") /\ log' = log
  <2> DEFINE m == Moved(r, "planned")
  <2>1. /\ Consistent(m) /\ m.status = "planned" /\ m.mees = r.mees
        /\ Range(m.history) = Range(r.history) \cup {"planned"}
    BY <1>3, MovedTyped DEF LoopStatus
  <2>2. m.mees >= 50
    BY <1>2, <1>3, <1>7, <2>1 DEF EffortBlocked
  <2> HIDE DEF m
  <2>3. Judged(m)
    BY <1>5, <2>1, <2>2 DEF Judged
  <2> QED
    BY <1>1, <1>7, <2>1, <2>3, RunMoves DEF m
<1> QED
  BY <1>4, <1>6, <1>7

(* The policy lets a run on, or blocks it for good.                          *)
LEMMA PolicyLoop == ASSUME LoopInv, NEW p, CheckPolicy(p) PROVE LoopInv'
<1> DEFINE m == Moved(run, "policy_checked")
<1>1. /\ run # None /\ run.status = "planned" /\ run \in RunType /\ Consistent(run) /\ Judged(run)
      /\ UNCHANGED <<eip, plan, flag, gates, manager, started>>
  BY DEF CheckPolicy, LoopInv, Consistent
<1>2. "releasing" \notin Range(run.history)
  BY <1>1 DEF Judged
<1>3. /\ Consistent(m) /\ m.status = "policy_checked" /\ m.mees = run.mees
      /\ Range(m.history) = Range(run.history) \cup {"policy_checked"}
      /\ m.builder = run.builder /\ m.verifier = run.verifier
  BY <1>1, MovedTyped DEF LoopStatus
<1>4. \/ Finish(m, "needs_human")
      \/ Finish(run, "blocked")
      \/ PolicyAllows(run) /\ run' = m /\ log' = log
  BY DEF CheckPolicy
<1> HIDE DEF m
<1>5. CASE Finish(m, "needs_human")
  BY <1>1, <1>2, <1>3, <1>5, RunEnds DEF Final, LoopInv, ManagerTyped
<1>6. CASE Finish(run, "blocked")
  BY <1>1, <1>2, <1>6, RunEnds DEF Final, LoopInv, ManagerTyped
<1>7. CASE PolicyAllows(run) /\ run' = m /\ log' = log
  <2>1. Judged(m)
    BY <1>1, <1>2, <1>3, <1>7 DEF Judged, PolicyAllows
  <2> QED
    BY <1>1, <1>3, <1>7, <2>1, RunMoves
<1> QED
  BY <1>4, <1>5, <1>6, <1>7

(* A run learns whether its plan matches the EIP it has loaded.              *)
LEMMA VerifyLoop == ASSUME LoopInv, NEW F \in SUBSET Obligation, Verify(F) PROVE LoopInv'
<1> DEFINE m == Moved(run, "verifying")
           rs == [o \in Obligation |-> ResultOf(run, o, F)]
           match == PlanMatches(run)
           r == [m EXCEPT !.results = rs, !.matched = match]
<1>1. /\ run # None /\ run.status = "policy_checked" /\ run \in RunType /\ Judged(run) /\ run' = r
      /\ UNCHANGED <<eip, plan, flag, gates, manager, started, log>>
  BY DEF Verify, LoopInv, Consistent
<1>2. /\ Consistent(m) /\ m.status = "verifying" /\ m.mees = run.mees
      /\ Range(m.history) = Range(run.history) \cup {"verifying"}
      /\ m.builder = run.builder /\ m.verifier = run.verifier
      /\ m.eip = run.eip /\ m.plan = run.plan
  BY <1>1, MovedTyped DEF LoopStatus
<1>3. rs \in [Obligation -> Result] /\ match \in BOOLEAN
  BY DEF ResultOf, Result, PlanMatches
<1>m. match => PlanMatches(run)
  OBVIOUS
<1> HIDE DEF rs, m, match
<1>4. /\ r \in RunType /\ r.status = m.status /\ r.history = m.history /\ r.mees = m.mees
      /\ r.builder = m.builder /\ r.verifier = m.verifier /\ r.eip = m.eip /\ r.plan = m.plan
      /\ r.matched = match
  BY <1>2, <1>3 DEF Consistent, RunType
<1> HIDE DEF r
<1>5. r.matched => PlanMatches(r)
  BY <1>2, <1>4, <1>m DEF PlanMatches
<1>6. Consistent(r) /\ Judged(r)
  BY <1>1, <1>2, <1>4, <1>5 DEF Consistent, Judged
<1> QED
  BY <1>1, <1>6, RunMoves

(* The report decides between a release, a pass and a failure.               *)
LEMMA DecideLoop == ASSUME LoopInv, Decide PROVE LoopInv'
<1> DEFINE m == Moved(run, "releasing")
           d == IF ReportPassed(run) THEN "passed" ELSE "failed"
<1>1. /\ run # None /\ run.status = "verifying" /\ run \in RunType /\ Consistent(run) /\ Judged(run)
      /\ UNCHANGED <<eip, plan, flag, gates, manager, started>>
  BY DEF Decide, LoopInv, Consistent
<1>2. "releasing" \notin Range(run.history) /\ {"policy_checked", "verifying"} \subseteq Range(run.history)
      /\ run.builder # run.verifier /\ run.mees >= 50 /\ (run.matched => PlanMatches(run))
  BY <1>1 DEF Judged
<1>3. CASE ReportPassed(run) /\ run.eip \in Released
  <2>1. run' = m /\ log' = log
    BY <1>3 DEF Decide
  <2>2. /\ Consistent(m) /\ m.status = "releasing" /\ m.mees = run.mees
        /\ Range(m.history) = Range(run.history) \cup {"releasing"}
        /\ m.builder = run.builder /\ m.verifier = run.verifier /\ m.results = run.results
        /\ m.eip = run.eip /\ m.plan = run.plan /\ m.matched = run.matched
    BY <1>1, MovedTyped DEF LoopStatus
  <2> HIDE DEF m
  <2>3. Judged(m)
    BY <1>2, <1>3, <2>2 DEF Judged, ReportPassed, PlanMatches
  <2> QED
    BY <1>1, <2>1, <2>2, <2>3, RunMoves
<1>4. CASE ~(ReportPassed(run) /\ run.eip \in Released)
  <2>1. Finish(run, d) /\ d \in Final
    BY <1>4 DEF Decide, Final
  <2>2. d = "passed" => ReportPassed(run) /\ PlanMatches(run) /\ run.eip \notin Released
    BY <1>2, <1>4 DEF ReportPassed
  <2> HIDE DEF d
  <2> QED
    BY <1>1, <1>2, <2>1, <2>2, RunEnds DEF LoopInv, ManagerTyped
<1> QED
  BY <1>3, <1>4

(* The manager takes the gates of the run before it judges it.               *)
LEMMA ReleaseLoop == ASSUME LoopInv, NEW ms \in Reports, Release(ms) PROVE LoopInv'
<1> DEFINE r == [run EXCEPT !.metrics = ms]
           d == IF ReleaseAllowed(r, gates') THEN "passed" ELSE "failed"
<1>1. /\ run # None /\ run.status = "releasing" /\ run \in RunType /\ Consistent(run) /\ Judged(run)
      /\ gates' = gates \cup Gates(run.eip) /\ Finish(r, d) /\ d \in Final
      /\ UNCHANGED <<eip, plan, flag, manager, started>>
  BY DEF Release, LoopInv, Consistent, Final
<1>2. ms \in [Metric -> Health]
  BY LoopAssumption
<1>3. /\ r \in RunType /\ r.mees = run.mees /\ r.status = run.status /\ r.history = run.history
      /\ r.builder = run.builder /\ r.verifier = run.verifier /\ r.eip = run.eip /\ r.plan = run.plan
      /\ r.results = run.results /\ r.matched = run.matched
  BY <1>1, <1>2 DEF RunType
<1>4. d = "passed" => \A g \in gates' : r.metrics[g] # "low"
  BY DEF ReleaseAllowed
<1> HIDE DEF r, d
<1>5. Consistent(r) /\ run.eip \in Eip
  BY <1>1, <1>3 DEF Consistent, RunType
<1>6. gates \subseteq gates' /\ gates' \subseteq Metric /\ Gates(r.eip) \subseteq gates'
  BY <1>1, <1>3, <1>5, LoopAssumption DEF LoopInv, ManagerTyped
<1>7. ReportPassed(run) /\ run.matched
  BY <1>1 DEF Judged, ReportPassed
<1>8. /\ PlanMatches(r) /\ r.builder # r.verifier /\ r.mees >= 50 /\ ReportPassed(r)
      /\ {"policy_checked", "verifying"} \subseteq Range(r.history)
      /\ r.eip \in Released /\ "releasing" \in Range(r.history)
  BY <1>1, <1>3, <1>7 DEF Judged, ReportPassed, PlanMatches
<1> QED
  BY <1>1, <1>4, <1>5, <1>6, <1>8, RunEnds

(* A step that only writes files, or drops the run                           *)
LEMMA FilesLoop ==
  ASSUME LoopInv, FilesTyped', run' \in {run, None}, UNCHANGED <<gates, manager, started, log>>
  PROVE  LoopInv'
<1>1. ManagerTyped' /\ GatesKept' /\ ReleasesHonourEveryGate'
  BY DEF LoopInv, ManagerTyped, GatesKept, ReleasesHonourEveryGate
<1>2. LogTyped'
  BY DEF LoopInv, LogTyped, Sound
<1>3. run' # None => (Consistent(run) /\ Judged(run))'
  BY DEF LoopInv, Consistent, Judged, PlanMatches, ReportPassed
<1> QED
  BY <1>1, <1>2, <1>3 DEF LoopInv

(* What `vad proof map` writes is a plan.                                    *)
LEMMA MapProofsTyped == ASSUME NEW e \in Eip PROVE MapProofs(e) \in Plan
<1> DEFINE S == Obligations(e) \ ManualGates(e)
           c == [o \in S |-> Pytest]
<1>1. S \in SUBSET Obligation /\ c \in [S -> Command] /\ ManualGates(e) \in SUBSET Obligation
  BY LoopAssumption
<1>2. c \in UNION {[T -> Command] : T \in SUBSET Obligation}
  BY <1>1
<1> HIDE DEF c
<1>3. [version |-> VersionOf(e), digest |-> e, commands |-> c, manual |-> ManualGates(e)] \in Plan
  BY <1>1, <1>2 DEF Plan
<1> QED
  BY <1>3 DEF MapProofs, c

(* A step of the loop, or one that leaves it alone                           *)
LEMMA NextLoop == ASSUME LoopInv, Next \/ UNCHANGED loopVars PROVE LoopInv'
<1>1. CASE UNCHANGED loopVars
  BY <1>1, FilesLoop DEF loopVars, LoopInv, FilesTyped
<1>2. ASSUME NEW e \in Eip, EditEip(e) PROVE LoopInv'
  BY <1>2, FilesLoop DEF EditEip, LoopInv, FilesTyped
<1>3. ASSUME NEW p \in EditedPlan, EditPlan(p) PROVE LoopInv'
  BY <1>3, FilesLoop, LoopAssumption DEF EditPlan, LoopInv, FilesTyped
<1>4. ASSUME NEW b \in BOOLEAN, ProofMap(b) \/ SetFlag(b) PROVE LoopInv'
  BY <1>4, FilesLoop, MapProofsTyped DEF ProofMap, SetFlag, LoopInv, FilesTyped
<1>5. CASE PolicyFails
  BY <1>5, FilesLoop DEF PolicyFails, LoopInv, FilesTyped
<1>6. ASSUME Step PROVE LoopInv'
  BY <1>5, <1>6, AssessLoop, PolicyLoop, VerifyLoop, DecideLoop, ReleaseLoop DEF Step
<1>7. ASSUME NEW k, SaveRun(k) PROVE LoopInv'
  BY <1>1, <1>7 DEF SaveRun
<1>8. ASSUME NEW b, NEW id, Tamper(id, b) PROVE LoopInv'
  BY <1>1, <1>8 DEF Tamper
<1>9. ASSUME NEW req, LoadForApproval(req) PROVE LoopInv'
  BY <1>1, <1>9 DEF LoadForApproval
<1>10. ASSUME NEW a, RecordApproval(a) PROVE LoopInv'
  BY <1>1, <1>10 DEF RecordApproval
<1> QED
  BY <1>1, <1>2, <1>3, <1>4, <1>6, <1>7, <1>8, <1>9, <1>10, StartLoop DEF Next

-----------------------------------------------------------------------------
(* Evidence and approvals *)

(* The evidence and the approvals of the demos are well formed.              *)
LEMMA SeededTyped ==
  /\ \A id \in RunId : Seeded(id) \in Evidence
  /\ FailureEvidence \in Evidence
  /\ {Level3, Failure} \subseteq RunId
  /\ {SeededApproval(DemoApprover, TRUE), SeededApproval(DemoBuilder, FALSE)} \subseteq Approval
<1>1. [o \in Obligation |-> "not_run"] \in [Obligation -> Result] /\ Unreported \in [Metric -> Health]
      /\ <<>> \in Seq(LoopStatus) /\ {"passed", "blocked"} \subseteq Final /\ {72, 100} \subseteq 0..100
      /\ 0 \in Nat
  BY DEF Result, Unreported, Health, Final
<1>2. {Level3, Failure} \subseteq RunId /\ {DemoBuilder, DemoApprover} \subseteq Agent
  BY LoopAssumption DEF RunId
<1>3. ASSUME NEW id \in RunId PROVE Seeded(id) \in Evidence
  BY <1>1, <1>2 DEF Seeded, Evidence
<1>4. FailureEvidence \in Evidence
  <2>1. Seeded(Failure) \in Evidence
    BY <1>2, <1>3
  <2> QED
    BY <1>1, <2>1 DEF FailureEvidence, Evidence
<1>5. ASSUME NEW a \in Agent, NEW b \in BOOLEAN PROVE SeededApproval(a, b) \in Approval
  <2>1. Seeded(Level3) \in Evidence
    BY <1>2, <1>3
  <2>2. [run |-> Level3, actor |-> a, guardian |-> b, action |-> TRUE] \in Request
    BY <1>2 DEF Request
  <2> QED
    BY <2>1, <2>2 DEF SeededApproval, Approval
<1> QED
  BY <1>2, <1>3, <1>4, <1>5

(* Saving evidence                                                           *)
LEMMA RowsSaved ==
  ASSUME StoreInv, NEW ev, DOMAIN ev \subseteq RunId, \A i \in DOMAIN ev : ev[i] \in Evidence,
         SaveRunEvidence(ev)
  PROVE  /\ rows' \in [RunId -> RowType \cup {None}]
         /\ \A i \in RunId : rows'[i] # None => <<i, rows'[i].digest>> \in saved'
         /\ saved \subseteq saved' /\ \A i \in DOMAIN ev : <<i, ev[i]>> \in saved'
<1>1. saved' = saved \cup {<<i, ev[i]>> : i \in DOMAIN ev}
  BY DEF SaveRunEvidence
<1>2. \A i \in RunId : rows'[i] = IF i \in DOMAIN ev THEN Row(ev[i]) ELSE rows[i]
  BY DEF SaveRunEvidence
<1>3. \A e \in Evidence : Row(e) \in RowType /\ Row(e).digest = e
  BY DEF Row, RowType
<1>4. rows' \in [RunId -> RowType \cup {None}]
  BY <1>3 DEF SaveRunEvidence, StoreInv
<1>5. ASSUME NEW i \in RunId, rows'[i] # None PROVE <<i, rows'[i].digest>> \in saved'
  <2>1. CASE i \in DOMAIN ev
    BY <1>1, <1>2, <1>3, <2>1
  <2>2. CASE i \notin DOMAIN ev
    BY <1>1, <1>2, <1>5, <2>2 DEF StoreInv
  <2> QED
    BY <2>1, <2>2
<1> QED
  BY <1>1, <1>4, <1>5

(* Evidence saved while requests and approvals stay as they are              *)
LEMMA SaveStore ==
  ASSUME StoreInv, NEW ev, DOMAIN ev \subseteq RunId, \A i \in DOMAIN ev : ev[i] \in Evidence,
         SaveRunEvidence(ev), UNCHANGED <<asked, approvals, edits>>
  PROVE  StoreInv'
BY RowsSaved DEF StoreInv, ApprovalsBindEvidence

(* The demo store: the two pieces of evidence come with the approvals.       *)
LEMMA SeedStore ==
  ASSUME StoreInv, SeedLevel3
  PROVE  StoreInv'
<1> DEFINE ev == [i \in {Level3, Failure} |-> IF i = Level3 THEN Seeded(Level3) ELSE FailureEvidence]
<1>1. /\ SaveRunEvidence(ev) /\ UNCHANGED <<asked, edits>>
      /\ approvals' = approvals \cup {SeededApproval(DemoApprover, TRUE),
                                      SeededApproval(DemoBuilder, FALSE)}
  BY DEF SeedLevel3, SeedApprovals
<1>2. DOMAIN ev \subseteq RunId /\ (\A i \in DOMAIN ev : ev[i] \in Evidence)
      /\ Level3 \in DOMAIN ev /\ ev[Level3] = Seeded(Level3)
  BY SeededTyped
<1> HIDE DEF ev
<1>3. /\ rows' \in [RunId -> RowType \cup {None}]
      /\ \A i \in RunId : rows'[i] # None => <<i, rows'[i].digest>> \in saved'
      /\ saved \subseteq saved' /\ <<Level3, Seeded(Level3)>> \in saved'
  BY <1>1, <1>2, RowsSaved
<1>4. LET a == SeededApproval(DemoApprover, TRUE)
      IN /\ a.request.run = Level3 /\ a.digest = Seeded(Level3) /\ a.request.guardian
         /\ a.digest.builder # a.request.actor
  BY LoopAssumption DEF SeededApproval, Seeded
<1>5. SeededApproval(DemoBuilder, FALSE).allow = FALSE
  BY DEF SeededApproval
<1>6. ApprovalsBindEvidence'
  <2> SUFFICES ASSUME NEW a \in approvals', a.allow
               PROVE  /\ <<a.request.run, a.digest>> \in saved'
                      /\ a.digest.builder # a.request.actor /\ a.request.guardian
    BY DEF ApprovalsBindEvidence
  <2>1. CASE a \in approvals
    BY <1>3, <2>1 DEF StoreInv, ApprovalsBindEvidence
  <2>2. CASE a = SeededApproval(DemoApprover, TRUE)
    BY <1>3, <1>4, <2>2
  <2>3. CASE a = SeededApproval(DemoBuilder, FALSE)
    BY <1>5, <2>3
  <2> QED
    BY <1>1, <2>1, <2>2, <2>3
<1>7. approvals' \subseteq Approval
  BY <1>1, SeededTyped DEF StoreInv
<1> QED
  BY <1>1, <1>3, <1>6, <1>7 DEF StoreInv

(* A step of the loop, of the files or of the approvals keeps the store.     *)
LEMMA NextStore ==
  ASSUME LoopInv, StoreInv, Next \/ UNCHANGED <<storeVars, edits>>
  PROVE  StoreInv'
<1>0. CASE UNCHANGED storeVars /\ edits' \in 0..MaxEdits
  BY <1>0 DEF storeVars, StoreInv, ApprovalsBindEvidence
<1>1. ASSUME NEW k \in DOMAIN log, SaveRun(k) PROVE StoreInv'
  <2> DEFINE ev == [i \in {log[k].run} |-> log[k]]
  <2>1. log[k] \in Evidence
    BY DEF LoopInv, LogTyped
  <2>2. log[k].run \in RunId
    BY <2>1 DEF Evidence
  <2>3. SaveRunEvidence(ev) /\ UNCHANGED <<asked, approvals, edits>>
    BY <1>1 DEF SaveRun
  <2>4. DOMAIN ev \subseteq RunId /\ \A i \in DOMAIN ev : ev[i] \in Evidence
    BY <2>1, <2>2
  <2> HIDE DEF ev
  <2> QED
    BY <2>3, <2>4, SaveStore
<1>2. ASSUME NEW b \in Agent, NEW id \in RunId, Tamper(id, b) PROVE StoreInv'
  <2> DEFINE pl == [rows[id].payload EXCEPT !.builder = b]
             row == [rows[id] EXCEPT !.payload = pl]
  <2>1. /\ rows[id] # None /\ UNCHANGED <<asked, approvals, saved>> /\ edits' \in 0..MaxEdits
        /\ rows' = [rows EXCEPT ![id].payload.builder = b]
    BY <1>2, LoopAssumption DEF Tamper, StoreInv
  <2>2. rows[id] \in RowType /\ rows[id].payload \in Evidence
    BY <2>1 DEF StoreInv, RowType
  <2>3. rows' = [rows EXCEPT ![id] = row]
    BY <2>1
  <2>4. pl \in Evidence
    BY <2>2 DEF Evidence
  <2> HIDE DEF pl
  <2>5. row \in RowType /\ row.digest = rows[id].digest
    BY <2>2, <2>4 DEF RowType
  <2> HIDE DEF row
  <2>6. /\ rows' \in [RunId -> RowType \cup {None}]
        /\ \A i \in RunId : rows'[i] # None => <<i, rows'[i].digest>> \in saved
    BY <2>1, <2>3, <2>5 DEF StoreInv
  <2> QED
    BY <2>1, <2>6 DEF StoreInv, ApprovalsBindEvidence
<1>3. ASSUME NEW req \in Request, LoadForApproval(req) PROVE StoreInv'
  <2> DEFINE a == [request |-> req, loaded |-> rows[req.run].payload]
  <2>1. /\ asked' = asked \cup {a} /\ UNCHANGED <<rows, approvals, saved, edits>>
        /\ rows[req.run] # None /\ rows[req.run].payload = rows[req.run].digest /\ req.run \in RunId
    BY <1>3 DEF LoadForApproval, Loadable, Request
  <2>2. rows[req.run] \in RowType /\ <<req.run, rows[req.run].digest>> \in saved
    BY <2>1 DEF StoreInv
  <2>3. a \in [request : Request, loaded : Evidence] /\ <<a.request.run, a.loaded>> \in saved
    BY <2>1, <2>2 DEF RowType
  <2> HIDE DEF a
  <2> QED
    BY <2>1, <2>3 DEF StoreInv, ApprovalsBindEvidence
<1>4. ASSUME NEW a \in asked, RecordApproval(a) PROVE StoreInv'
  <2> DEFINE allow == ApprovalDecision(a.request, a.loaded.builder)
             p == [request |-> a.request, digest |-> a.loaded, seeded |-> FALSE, allow |-> allow]
  <2>1. /\ approvals' = approvals \cup {p} /\ asked' = asked \ {a}
        /\ UNCHANGED <<rows, saved, edits>>
    BY <1>4 DEF RecordApproval
  <2>2. a.request \in Request /\ a.loaded \in Evidence /\ <<a.request.run, a.loaded>> \in saved
    BY DEF StoreInv
  <2>3. allow \in BOOLEAN /\ (allow => a.request.guardian /\ a.loaded.builder # a.request.actor)
    BY <2>2 DEF ApprovalDecision, Request
  <2> HIDE DEF allow
  <2>4. /\ p \in Approval /\ p.request = a.request /\ p.digest = a.loaded /\ (p.allow <=> allow)
    BY <2>2, <2>3 DEF Approval
  <2> HIDE DEF p
  <2>5. ApprovalsBindEvidence'
    BY <2>1, <2>2, <2>3, <2>4 DEF StoreInv, ApprovalsBindEvidence
  <2> QED
    BY <2>1, <2>4, <2>5 DEF StoreInv
<1>5. edits \in 0..MaxEdits /\ (edits < MaxEdits => edits + 1 \in 0..MaxEdits)
  BY LoopAssumption DEF StoreInv
<1>6. ASSUME NEW e, EditEip(e) PROVE StoreInv'
  BY <1>0, <1>5, <1>6 DEF EditEip
<1>7. ASSUME NEW p, EditPlan(p) PROVE StoreInv'
  BY <1>0, <1>5, <1>7 DEF EditPlan
<1>8. ASSUME NEW b, ProofMap(b) \/ SetFlag(b) PROVE StoreInv'
  BY <1>0, <1>5, <1>8 DEF ProofMap, SetFlag
<1>9. ASSUME NEW b, NEW v, NEW own, Start(b, v, own) PROVE StoreInv'
  BY <1>0, <1>5, <1>9 DEF Start
<1>10. CASE Step
  <2>1. UNCHANGED <<storeVars, edits>>
    BY <1>10 DEF Step, PolicyFails, Decide, Assess, Release, CheckPolicy, Verify
  <2> QED
    BY <1>0, <1>5, <2>1
<1> QED
  BY <1>0, <1>1, <1>2, <1>3, <1>4, <1>5, <1>6, <1>7, <1>8, <1>9, <1>10 DEF Next
-----------------------------------------------------------------------------
(* Deployments *)

(* Artifact a is the one of the last deployment in S, or b when S is empty.  *)
Serves(ds, S, b, a) ==
  \/ S = {} /\ a = b
  \/ \E e \in S : (\A x \in S : x <= e) /\ a = ds[e].plan.artifact

(* The target serves its last live deployment, and each live deployment      *)
(* remembers the one that it replaced.                                       *)
Before(ds, t, d) == {e \in Live(ds, t) : e < d}
Chained(prov, b, t) ==
  LET ds == prov.deployments
  IN /\ Serves(ds, Live(ds, t), b[t], prov.targets[t])
     /\ \A d \in Live(ds, t) : Serves(ds, Before(ds, t, d), b[t], ds[d].prior)

UnwindInv(prov, b, u) == prov \in Provider /\ \A t \in Target \ u : Chained(prov, b, t)

(* What a set of deployments serves depends on their records alone.          *)
LEMMA ServesSame ==
  ASSUME NEW ds, NEW es, NEW S, NEW a, NEW b, Serves(ds, S, b, a),
         \A e \in S : es[e].plan.artifact = ds[e].plan.artifact
  PROVE  Serves(es, S, b, a)
BY DEF Serves

(* A provider without deployments                                            *)
LEMMA FreshUnwinds ==
  ASSUME NEW ts \in Targets, NEW u
  PROVE  UnwindInv(NewProvider(ts), ts, u)
<1> DEFINE prov == NewProvider(ts)
<1>1. prov.targets = ts /\ prov.deployments = <<>> /\ prov \in Provider
  BY DEF NewProvider, Provider
<1>2. ASSUME NEW t \in Target PROVE Chained(prov, ts, t)
  <2>1. Live(prov.deployments, t) = {}
    BY <1>1 DEF Live
  <2> QED
    BY <1>1, <2>1 DEF Chained, Serves
<1> QED
  BY <1>1, <1>2 DEF UnwindInv

(* The new deployment is the last live one of its target.                    *)
LEMMA AppliedUnwinds ==
  ASSUME NEW prov, NEW b, NEW u, UnwindInv(prov, b, u), NEW p \in DeploymentPlan
  PROVE  /\ UnwindInv(Applied(prov, p), b, u)
         /\ Len(Applied(prov, p).deployments) = Len(prov.deployments) + 1
<1> DEFINE ds == prov.deployments
           n == Len(ds) + 1
           r == [plan |-> p, prior |-> prov.targets[p.target], status |-> "applied"]
           es == Append(ds, r)
           ts == [prov.targets EXCEPT ![p.target] = p.artifact]
           next == [targets |-> ts, deployments |-> es]
<1>1. Applied(prov, p) = next
  BY DEF Applied
<1>2. ds \in Seq(Record) /\ prov.targets \in Targets /\ p.target \in Target /\ p.artifact \in Artifact
  BY DeploymentAssumption DEF UnwindInv, Provider, PlanType
<1>3. r \in Record /\ r.plan = p /\ r.prior = prov.targets[p.target] /\ r.status = "applied"
  BY <1>2 DEF Record, Targets
<1> HIDE DEF r
<1>4. /\ es \in Seq(Record) /\ Len(es) = n /\ es[n] = r /\ DOMAIN es = 1..n /\ DOMAIN ds = 1..Len(ds)
      /\ Len(ds) \in Nat /\ n \notin 1..Len(ds) /\ n \in 1..n
      /\ \A e \in 1..Len(ds) : es[e] = ds[e] /\ e \in 1..n /\ e < n /\ ~(n < e)
      /\ \A e \in 1..n : e = n \/ e \in 1..Len(ds)
  BY <1>2, <1>3
<1> HIDE DEF es
<1>5. ts \in Targets /\ ts[p.target] = p.artifact /\ \A t \in Target \ {p.target} : ts[t] = prov.targets[t]
  BY <1>2 DEF Targets
<1> HIDE DEF ts
<1>6. next.targets = ts /\ next.deployments = es /\ next \in Provider
  BY <1>4, <1>5 DEF Provider
<1> HIDE DEF next, ds, n
<1>7. ASSUME NEW t \in Target, Chained(prov, b, t) PROVE Chained(next, b, t)
  <2>1. Live(ds, t) \subseteq 1..Len(ds)
    BY <1>4 DEF Live
  <2>2. Live(es, t) = Live(ds, t) \cup (IF t = p.target THEN {n} ELSE {})
    <3>1. ASSUME NEW e PROVE e \in Live(es, t) <=> e \in Live(ds, t) \/ (t = p.target /\ e = n)
      <4>1. CASE e \in 1..Len(ds)
        BY <1>4, <4>1 DEF Live
      <4>2. CASE e = n
        <5>1. es[e].plan.target = p.target /\ es[e].status = "applied"
          BY <1>3, <1>4, <4>2
        <5>2. e \in DOMAIN es /\ e \notin Live(ds, t)
          BY <1>4, <2>1, <4>2
        <5> QED
          BY <4>2, <5>1, <5>2 DEF Live
      <4>3. CASE e \notin 1..n
        BY <1>4, <4>3, <2>1 DEF Live
      <4> QED
        BY <1>4, <4>1, <4>2, <4>3
    <3> QED
      BY <3>1
  <2>3. \A e \in Live(ds, t) : es[e] = ds[e]
    BY <1>4, <2>1
  <2>4. /\ Serves(ds, Live(ds, t), b[t], prov.targets[t])
        /\ \A d \in Live(ds, t) : Serves(ds, Before(ds, t, d), b[t], ds[d].prior)
    BY <1>7 DEF Chained, ds
  <2>5. Serves(es, Live(ds, t), b[t], prov.targets[t])
    BY <2>3, <2>4, ServesSame
  <2>6. ASSUME NEW d \in Live(ds, t) PROVE Serves(es, Before(es, t, d), b[t], es[d].prior)
    <3>1. Before(es, t, d) = Before(ds, t, d)
      BY <1>4, <2>1, <2>2 DEF Before
    <3>2. \A e \in Before(ds, t, d) : es[e].plan.artifact = ds[e].plan.artifact
      BY <2>3 DEF Before
    <3> QED
      BY <2>3, <2>4, <3>1, <3>2, ServesSame
  <2>7. CASE t = p.target
    <3>1. \A e \in Live(es, t) : e <= n
      BY <1>4, <2>1, <2>2
    <3>2. Serves(es, Live(es, t), b[t], ts[t])
      BY <1>3, <1>4, <1>5, <2>2, <2>7, <3>1 DEF Serves
    <3>3. Before(es, t, n) = Live(ds, t)
      BY <1>4, <2>1, <2>2 DEF Before
    <3>4. Serves(es, Before(es, t, n), b[t], es[n].prior)
      BY <1>3, <1>4, <2>5, <2>7, <3>3
    <3> QED
      BY <1>6, <2>2, <2>6, <3>2, <3>4 DEF Chained
  <2>8. CASE t # p.target
    <3>1. Live(es, t) = Live(ds, t) /\ ts[t] = prov.targets[t]
      BY <1>5, <2>2, <2>8
    <3> QED
      BY <1>6, <2>5, <2>6, <3>1 DEF Chained
  <2> QED
    BY <2>7, <2>8
<1> QED
  BY <1>1, <1>4, <1>6, <1>7 DEF UnwindInv, n, ds

(* The last live deployment is undone, or the target counts as unordered.    *)
LEMMA RolledBackUnwinds ==
  ASSUME NEW prov, NEW b, NEW u, UnwindInv(prov, b, u), NEW d \in DOMAIN prov.deployments, NEW v,
         u \subseteq v,
         LET r == prov.deployments[d]
         IN r.plan.rollback /\ ~LastLive(prov.deployments, r.plan.target, d) => r.plan.target \in v
  PROVE  UnwindInv(RolledBack(prov, d), b, v)
<1> DEFINE ds == prov.deployments
           r == ds[d]
           q == [r EXCEPT !.status = "rolled_back"]
           es == [ds EXCEPT ![d] = q]
           ts == [prov.targets EXCEPT ![r.plan.target] = r.prior]
           next == [targets |-> ts, deployments |-> es]
<1>1. CASE ~r.plan.rollback
  BY <1>1 DEF RolledBack, UnwindInv
<1>2. CASE r.plan.rollback
  <2>1. RolledBack(prov, d) = next
    BY <1>2 DEF RolledBack
  <2>2. ds \in Seq(Record) /\ prov.targets \in Targets /\ DOMAIN ds = 1..Len(ds) /\ Len(ds) \in Nat
    BY DEF UnwindInv, Provider
  <2>3. r \in Record
    BY <2>2
  <2>4. r.plan.target \in Target /\ r.prior \in Artifact \cup {Absent}
    BY <2>3, DeploymentAssumption DEF Record, PlanType
  <2>5. q \in Record /\ q.status = "rolled_back" /\ q.plan = r.plan /\ q.prior = r.prior
    BY <2>3 DEF Record
  <2> HIDE DEF q
  <2>6. /\ es \in Seq(Record) /\ DOMAIN es = DOMAIN ds /\ es[d] = q
        /\ \A e \in DOMAIN ds \ {d} : es[e] = ds[e]
    BY <2>2, <2>5
  <2>7. ts \in Targets /\ ts[r.plan.target] = r.prior
        /\ \A t \in Target \ {r.plan.target} : ts[t] = prov.targets[t]
    BY <2>2, <2>4 DEF Targets
  <2>t. r.plan.rollback /\ ~LastLive(ds, r.plan.target, d) => r.plan.target \in v
    OBVIOUS
  <2> HIDE DEF es, ts
  <2>8. next.targets = ts /\ next.deployments = es /\ next \in Provider
    BY <2>6, <2>7 DEF Provider
  <2>9. UnwindInv(prov, b, u) /\ ds = prov.deployments /\ d \in DOMAIN ds
    OBVIOUS
  <2> HIDE DEF next, r, ds
  <2>10. ASSUME NEW t \in Target \ v PROVE Chained(next, b, t)
    <3>1. /\ Serves(ds, Live(ds, t), b[t], prov.targets[t])
          /\ \A x \in Live(ds, t) : Serves(ds, Before(ds, t, x), b[t], ds[x].prior)
      BY <2>9 DEF UnwindInv, Chained
    <3>2. Live(es, t) = Live(ds, t) \ {d} /\ Live(ds, t) \subseteq DOMAIN ds
      <4>1. ASSUME NEW e \in DOMAIN ds PROVE e \in Live(es, t) <=> e \in Live(ds, t) /\ e # d
        BY <2>5, <2>6 DEF Live
      <4> QED
        BY <2>6, <4>1 DEF Live
    <3>3. \A e \in Live(ds, t) : es[e].plan = ds[e].plan /\ es[e].prior = ds[e].prior
      BY <2>5, <2>6, <3>2 DEF r
    <3>4. \A S \in SUBSET Live(ds, t), a \in Artifact \cup {Absent} :
            Serves(ds, S, b[t], a) => Serves(es, S, b[t], a)
      BY <3>3 DEF Serves
    <3>5. \A x \in Live(ds, t) : Before(ds, t, x) \subseteq Live(ds, t) /\ ds[x].prior \in Artifact \cup {Absent}
      <4>1. \A x \in DOMAIN ds : ds[x] \in Record
        BY <2>2
      <4>2. \A x \in DOMAIN ds : ds[x].prior \in Artifact \cup {Absent}
        BY <4>1 DEF Record
      <4> QED
        BY <3>2, <4>2 DEF Before
    <3>6. \A x \in Live(ds, t) : Serves(es, Before(ds, t, x), b[t], ds[x].prior)
      BY <3>1, <3>4, <3>5
    <3>7. CASE r.plan.target = t
      <4>1. LastLive(ds, t, d)
        BY <1>2, <2>t, <3>7 DEF r
      <4>2. d \in Live(ds, t) /\ \A e \in Live(ds, t) : e <= d
        BY <4>1 DEF LastLive
      <4>i. d \in Int /\ \A e \in Live(ds, t) : e \in Int
        BY <2>2, <3>2, <4>2
      <4>3. Live(es, t) = Before(ds, t, d)
        BY <3>2, <4>2, <4>i DEF Before
      <4>4. Serves(es, Live(es, t), b[t], ts[t])
        BY <2>7, <3>6, <3>7, <4>2, <4>3 DEF r
      <4>5. ASSUME NEW x \in Live(es, t) PROVE Before(es, t, x) = Before(ds, t, x)
        BY <3>2, <4>2, <4>i DEF Before
      <4>6. ASSUME NEW x \in Live(es, t) PROVE Serves(es, Before(es, t, x), b[t], es[x].prior)
        BY <3>2, <3>3, <3>6, <4>5
      <4> QED
        BY <2>8, <4>4, <4>6 DEF Chained
    <3>8. CASE r.plan.target # t
      <4>1. d \notin Live(ds, t)
        BY <3>8 DEF Live, r
      <4>2. Live(es, t) = Live(ds, t) /\ ts[t] = prov.targets[t]
        BY <2>7, <3>2, <3>8, <4>1
      <4>3. \A x : Before(es, t, x) = Before(ds, t, x)
        BY <4>2 DEF Before
      <4>4. Serves(es, Live(es, t), b[t], ts[t])
        <5>1. prov.targets[t] \in Artifact \cup {Absent}
          BY <2>2 DEF Targets
        <5> QED
          BY <3>1, <3>4, <4>2, <5>1
      <4> QED
        BY <2>8, <3>3, <3>6, <4>2, <4>3, <4>4 DEF Chained
    <3> QED
      BY <3>7, <3>8
  <2> QED
    BY <2>1, <2>8, <2>10 DEF UnwindInv
<1> QED
  BY <1>1, <1>2
(* The one deployment of a provider is the last live one.                    *)
LEMMA OneDeployment ==
  ASSUME NEW ts \in Targets, NEW p \in DeploymentPlan
  PROVE  LET ds == Applied(NewProvider(ts), p).deployments
         IN /\ DOMAIN ds = {1} /\ LastLive(ds, p.target, 1)
            /\ ds = <<[plan |-> p, prior |-> ts[p.target], status |-> "applied"]>>
            /\ ds[1] \in Record /\ ds[1].status = "applied" /\ ds[1].plan = p
<1> DEFINE r == [plan |-> p, prior |-> ts[p.target], status |-> "applied"]
           ds == <<r>>
<1>1. Applied(NewProvider(ts), p).deployments = ds
  BY DEF Applied, NewProvider
<1>2. r \in Record /\ r.status = "applied" /\ r.plan = p
  <2>1. p.target \in Target
    BY DeploymentAssumption DEF PlanType
  <2> QED
    BY <2>1 DEF Record, Targets
<1> HIDE DEF r
<1>3. DOMAIN ds = {1} /\ ds[1] = r
  OBVIOUS
<1>4. ds = <<[plan |-> p, prior |-> ts[p.target], status |-> "applied"]>>
  BY DEF r
<1> HIDE DEF ds
<1>5. LastLive(ds, p.target, 1)
  <2>1. Live(ds, p.target) = {1}
    BY <1>2, <1>3 DEF Live
  <2> QED
    BY <2>1 DEF LastLive
<1> QED
  BY <1>1, <1>2, <1>3, <1>4, <1>5

(* What a record restores is what its one deployment on an empty provider    *)
(* replaced.                                                                 *)
LEMMA FromRecordApplied ==
  ASSUME NEW r \in Record, r.status = "applied"
  PROVE  LET b == [NoTargets EXCEPT ![r.plan.target] = r.prior]
         IN b \in Targets /\ r.plan \in DeploymentPlan /\ FromRecord(r) = Applied(NewProvider(b), r.plan)
<1> DEFINE b == [NoTargets EXCEPT ![r.plan.target] = r.prior]
<1>1. r.plan \in DeploymentPlan /\ r.prior \in Artifact \cup {Absent} /\ r.plan.target \in Target
      /\ r = [plan |-> r.plan, prior |-> r.prior, status |-> "applied"]
  BY DeploymentAssumption DEF Record, PlanType
<1>2. b \in Targets /\ b[r.plan.target] = r.prior
      /\ [b EXCEPT ![r.plan.target] = r.plan.artifact] = [NoTargets EXCEPT ![r.plan.target] = r.plan.artifact]
  BY <1>1 DEF NoTargets, Targets
<1> HIDE DEF b
<1>3. NewProvider(b).targets = b /\ NewProvider(b).deployments = <<>>
  BY DEF NewProvider
<1>4. Applied(NewProvider(b), r.plan).deployments = <<r>>
  <2>1. Applied(NewProvider(b), r.plan).deployments
          = <<[plan |-> r.plan, prior |-> r.prior, status |-> "applied"]>>
    BY <1>1, <1>2, OneDeployment
  <2> QED
    BY <1>1, <2>1
<1>5. Applied(NewProvider(b), r.plan) = FromRecord(r)
  BY <1>2, <1>3, <1>4 DEF Applied, FromRecord
<1> QED
  BY <1>1, <1>2, <1>5 DEF b

(* Every record file is of a deployment that had been applied.               *)
DeployInv ==
  /\ DeploymentTypeOK
  /\ \A r \in records : r.status = "applied"
  /\ UnwindInv(provider, base, unordered)

(* A deployment command keeps what the targets serve.                        *)
LEMMA NextDeploy ==
  ASSUME DeployInv, DeploymentNext \/ FailureDemo \/ UNCHANGED deployVars
  PROVE  DeployInv'
<1>c. Count => commands' \in 0..MaxCommands
  BY DeploymentAssumption DEF Count, DeployInv, DeploymentTypeOK
<1>n. NoTargets \in Targets
  BY DEF NoTargets, Targets
<1>1. CASE UNCHANGED deployVars
  BY <1>1 DEF deployVars, DeployInv, DeploymentTypeOK, UnwindInv, Chained
<1>2. ASSUME NEW p \in DeploymentPlan, NEW ref \in BOOLEAN, Apply(p, ref) PROVE DeployInv'
  <2>1. UnwindInv(Applied(provider, p), base, unordered)
    BY AppliedUnwinds DEF DeployInv
  <2>2. UnwindInv(provider, base, unordered)'
    BY <1>2, <2>1 DEF Apply, UnwindInv, Chained
  <2> QED
    BY <1>2, <1>c, <2>1, <2>2 DEF Apply, DeployInv, DeploymentTypeOK, UnwindInv
<1>3. ASSUME NEW p \in DeploymentPlan, NEW ref \in BOOLEAN, CliApply(p, ref) PROVE DeployInv'
  <2>1. provider' = Applied(NewProvider(NoTargets), p) /\ base' = NoTargets /\ unordered' = {}
        /\ records' = records \cup {provider'.deployments[1]}
    BY <1>3 DEF CliApply
  <2>2. UnwindInv(Applied(NewProvider(NoTargets), p), NoTargets, {})
    BY <1>n, FreshUnwinds, AppliedUnwinds
  <2>3. UnwindInv(provider, base, unordered)'
    BY <2>1, <2>2 DEF UnwindInv, Chained
  <2>4. provider'.deployments[1] \in Record /\ provider'.deployments[1].status = "applied"
    BY <1>n, <2>1, OneDeployment
  <2> QED
    BY <1>3, <1>c, <1>n, <2>1, <2>3, <2>4 DEF CliApply, DeployInv, DeploymentTypeOK, UnwindInv
<1>4. ASSUME NEW d \in DOMAIN provider.deployments, NEW ref \in BOOLEAN, Rollback(d, ref) PROVE DeployInv'
  <2> DEFINE r == provider.deployments[d]
  <2>1. /\ provider' = RolledBack(provider, d) /\ UNCHANGED <<records, base>>
        /\ unordered' = IF r.plan.rollback /\ ~LastLive(provider.deployments, r.plan.target, d)
                          THEN unordered \cup {r.plan.target} ELSE unordered
    BY <1>4 DEF Rollback
  <2>2. UnwindInv(RolledBack(provider, d), base, unordered')
    BY <2>1, RolledBackUnwinds DEF DeployInv
  <2>3. UnwindInv(provider, base, unordered)'
    BY <2>1, <2>2 DEF UnwindInv, Chained
  <2>4. r.plan.target \in Target
    <3>1. provider.deployments \in Seq(Record)
      BY DEF DeployInv, UnwindInv, Provider
    <3>2. r \in Record
      BY <3>1
    <3> QED
      BY <3>2, DeploymentAssumption DEF Record, PlanType
  <2> HIDE DEF r
  <2> QED
    BY <1>4, <1>c, <2>1, <2>2, <2>3, <2>4 DEF Rollback, DeployInv, DeploymentTypeOK, UnwindInv
<1>5. ASSUME NEW b \in Targets, NEW p \in DeploymentPlan, UNCHANGED records,
             provider' = RolledBack(Applied(NewProvider(b), p), 1), base' = b, unordered' = {}, Count
      PROVE  DeployInv'
  <2>1. UnwindInv(Applied(NewProvider(b), p), b, {})
    BY FreshUnwinds, AppliedUnwinds
  <2>2. LET ds == Applied(NewProvider(b), p).deployments
        IN 1 \in DOMAIN ds /\ LastLive(ds, p.target, 1) /\ ds[1].plan = p
    BY OneDeployment
  <2>3. UnwindInv(RolledBack(Applied(NewProvider(b), p), 1), b, {})
    BY <2>1, <2>2, RolledBackUnwinds
  <2>4. UnwindInv(provider, base, unordered)'
    BY <1>5, <2>3 DEF UnwindInv, Chained
  <2> QED
    BY <1>5, <1>c, <2>3, <2>4 DEF DeployInv, DeploymentTypeOK, UnwindInv
<1>6. ASSUME NEW r \in records, NEW ref \in BOOLEAN, CliRollback(r, ref) PROVE DeployInv'
  <2>1. r \in Record /\ r.status = "applied"
    BY DEF DeployInv, DeploymentTypeOK
  <2> QED
    BY <1>5, <1>6, <2>1, FromRecordApplied DEF CliRollback
<1>7. CASE FailureDemo
  <2> DEFINE b == [NoTargets EXCEPT ![DemoPlan.target] = DemoArtifact]
  <2>1. b \in Targets /\ DemoPlan \in DeploymentPlan
    BY <1>n, DeploymentAssumption DEF Targets
  <2>2. base' = b /\ provider' = RolledBack(Applied(NewProvider(b), DemoPlan), 1) /\ unordered' = {}
        /\ UNCHANGED records /\ Count
    BY <1>7 DEF FailureDemo
  <2> HIDE DEF b
  <2> QED
    BY <1>5, <2>1, <2>2
<1> QED
  BY <1>1, <1>2, <1>3, <1>4, <1>6, <1>7 DEF DeploymentNext
-----------------------------------------------------------------------------
(* The composition *)

DeliveryInv == LoopInv /\ StoreInv /\ DeployInv

(* Nothing has run, been saved or been deployed.                             *)
LEMMA InitDeliveryHolds == InitDelivery => DeliveryInv
<1> SUFFICES ASSUME InitDelivery PROVE DeliveryInv
  OBVIOUS
<1>1. LoopInv
  <2>1. /\ log = <<>> /\ started = 0 /\ manager = 0 /\ gates = {} /\ run = None
        /\ plan = None /\ flag = FALSE /\ eip \in Eip /\ MaxRuns \in Nat
    BY LoopAssumption DEF InitDelivery, Init
  <2>2. log \in Seq(Evidence) /\ Len(log) = 0 /\ DOMAIN log = {}
    BY <2>1
  <2>3. FilesTyped /\ ManagerTyped
    <3>1. started \in 0..MaxRuns /\ manager \in 0..started
      BY <2>1
    <3> QED
      BY <2>1, <3>1 DEF FilesTyped, ManagerTyped
  <2>4. \A k \in 1..Len(log) : FALSE
    BY <2>2
  <2>5. LogTyped
    BY <2>1, <2>2, <2>4 DEF LogTyped
  <2>6. GatesKept /\ ReleasesHonourEveryGate
    BY <2>2, <2>4 DEF GatesKept, ReleasesHonourEveryGate
  <2> QED
    BY <2>1, <2>3, <2>5, <2>6 DEF LoopInv
<1>2. StoreInv
  BY LoopAssumption DEF InitDelivery, Init, StoreInv, ApprovalsBindEvidence
<1>3. DeployInv
  <2>1. UnwindInv(NewProvider(base), base, unordered)
    BY FreshUnwinds DEF InitDelivery, DeploymentInit
  <2>2. UnwindInv(provider, base, unordered)
    BY <2>1 DEF InitDelivery, DeploymentInit
  <2> QED
    BY <2>2, DeploymentAssumption
    DEF InitDelivery, DeploymentInit, DeployInv, DeploymentTypeOK, UnwindInv
<1> QED
  BY <1>1, <1>2, <1>3 DEF DeliveryInv

(* The three parts are kept by every step of the composition.                *)
LEMMA StepDeliveryHolds ==
  ASSUME DeliveryInv, [NextDelivery]_<<vars, deployVars>>
  PROVE  DeliveryInv'
<1>1. CASE Next /\ UNCHANGED deployVars
  BY <1>1, NextLoop, NextStore, NextDeploy DEF DeliveryInv
<1>2. CASE UNCHANGED vars /\ (DeploymentNext \/ UNCHANGED deployVars)
  BY <1>2, NextLoop, NextStore, NextDeploy DEF DeliveryInv, vars
<1>3. CASE FailedDeployment
  <2> DEFINE ev == [i \in {Failure} |-> FailureEvidence]
  <2>1. /\ FailureDemo /\ SaveRunEvidence(ev) /\ UNCHANGED loopVars
        /\ UNCHANGED <<asked, approvals, edits>>
    BY <1>3 DEF FailedDeployment
  <2>2. DOMAIN ev \subseteq RunId /\ \A i \in DOMAIN ev : ev[i] \in Evidence
    BY SeededTyped
  <2> HIDE DEF ev
  <2> QED
    BY <2>1, <2>2, NextLoop, SaveStore, NextDeploy DEF DeliveryInv
<1>4. CASE SeedLevel3
  <2>1. FailureDemo /\ UNCHANGED loopVars
    BY <1>4 DEF SeedLevel3
  <2> QED
    BY <1>4, <2>1, NextLoop, SeedStore, NextDeploy DEF DeliveryInv
<1> QED
  BY <1>1, <1>2, <1>3, <1>4 DEF NextDelivery

(* The inductive invariant                                                   *)
LEMMA DeliveryHolds == SpecDelivery => []DeliveryInv
<1>1. DeliveryInv /\ [NextDelivery]_<<vars, deployVars>> => DeliveryInv'
  BY StepDeliveryHolds
<1> QED
  BY InitDeliveryHolds, <1>1, PTL DEF SpecDelivery

(* The files, the runs, the evidence, the approvals and the deployments stay *)
(* well formed. (VADOrchestrator, LocalControlPlaneStore,                    *)
(* FakeDeploymentProvider)                                                   *)
THEOREM DeliveryTypeCorrect == SpecDelivery => []TypeOKDelivery
<1>1. DeliveryInv => TypeOKDelivery
  <2> SUFFICES ASSUME DeliveryInv PROVE TypeOKDelivery
    OBVIOUS
  <2>1. eip \in Eip /\ plan \in Plan \cup {None} /\ flag \in BOOLEAN /\ gates \subseteq Metric
        /\ {manager, started} \subseteq 0..MaxRuns
    BY LoopAssumption DEF DeliveryInv, LoopInv, FilesTyped, ManagerTyped
  <2>2. run # None => /\ run.id \in 1..MaxRuns
                      /\ run.status = Last(run.history) /\ run.status \in LoopStatus
                      /\ run.eip \in Eip /\ run.plan \in Plan
    BY DEF DeliveryInv, LoopInv, Consistent, RunType
  <2>3. Len(log) <= MaxRuns /\ \A k \in DOMAIN log : log[k] \in Evidence
    <3>1. log \in Seq(Evidence) /\ Len(log) <= started /\ started \in 0..MaxRuns /\ Len(log) \in Nat
      BY DEF DeliveryInv, LoopInv, LogTyped, ManagerTyped
    <3> QED
      BY <3>1, LoopAssumption
  <2>4. \A i \in RunId : rows[i] = None \/ {rows[i].payload, rows[i].digest} \subseteq Evidence
    BY DEF DeliveryInv, StoreInv, RowType
  <2>5. /\ asked \subseteq [request : Request, loaded : Evidence]
        /\ approvals \subseteq Approval /\ edits \in 0..MaxEdits
    BY DEF DeliveryInv, StoreInv
  <2>6. TypeOK
    BY <2>1, <2>2, <2>3, <2>4, <2>5 DEF TypeOK
  <2> QED
    BY <2>6 DEF DeliveryInv, DeployInv, TypeOKDelivery
<1> QED
  BY <1>1, DeliveryHolds, PTL

(* Whatever is edited between mapping and run, evidence that says passed     *)
(* comes from a plan made from the EIP it judged and went through every      *)
(* check. (VADOrchestrator.run)                                              *)
THEOREM DeliveryRunsVerified == SpecDelivery => []PassedRunsVerified
<1>1. DeliveryInv => PassedRunsVerified
  <2> SUFFICES ASSUME DeliveryInv PROVE PassedRunsVerified
    OBVIOUS
  <2>1. log \in Seq(Evidence) /\ \A k \in 1..Len(log) : Sound(log[k])
    BY DEF DeliveryInv, LoopInv, LogTyped
  <2>2. DOMAIN log = 1..Len(log)
    BY <2>1
  <2> QED
    BY <2>1, <2>2 DEF Sound, PassedRunsVerified
<1> QED
  BY <1>1, DeliveryHolds, PTL

(* A release is healthy by every gate that its manager has seen.             *)
(* (_evaluate_release)                                                       *)
THEOREM DeliveryHonoursGates == SpecDelivery => []ReleasesHonourEveryGate
<1>1. DeliveryInv => ReleasesHonourEveryGate
  BY DEF DeliveryInv, LoopInv
<1> QED
  BY <1>1, DeliveryHolds, PTL

(* An approval that was granted names evidence saved for its run and given   *)
(* by another agent. (ApprovalService.record_approval)                       *)
THEOREM DeliveryBindsApprovals == SpecDelivery => []ApprovalsBindEvidence
<1>1. DeliveryInv => ApprovalsBindEvidence
  BY DEF DeliveryInv, StoreInv
<1> QED
  BY <1>1, DeliveryHolds, PTL

(* Rollbacks in reverse order bring back what was served before.             *)
(* (FakeDeploymentProvider.rollback)                                         *)
THEOREM DeliveryUnwinds == SpecDelivery => []RollbacksUnwind
<1>1. DeliveryInv => RollbacksUnwind
  <2> SUFFICES ASSUME DeliveryInv, NEW t \in Target \ unordered
               PROVE  /\ \A d \in Live(provider.deployments, t) : LastLive(provider.deployments, t, d) =>
                           provider.targets[t] = provider.deployments[d].plan.artifact
                      /\ Live(provider.deployments, t) = {} => provider.targets[t] = base[t]
    BY DEF RollbacksUnwind
  <2> DEFINE ds == provider.deployments
  <2>1. Serves(ds, Live(ds, t), base[t], provider.targets[t]) /\ ds \in Seq(Record)
    BY DEF DeliveryInv, DeployInv, UnwindInv, Chained, Provider
  <2>2. \A d \in Live(ds, t) : d \in Int
    BY <2>1 DEF Live
  <2> HIDE DEF ds
  <2>3. \A d, e \in Live(ds, t) : LastLive(ds, t, d) /\ LastLive(ds, t, e) => d = e
    BY <2>2 DEF LastLive
  <2>4. \A d \in Live(ds, t) : LastLive(ds, t, d) => provider.targets[t] = ds[d].plan.artifact
    BY <2>1, <2>3 DEF Serves, LastLive
  <2> QED
    BY <2>1, <2>4 DEF Serves, ds
<1> QED
  BY <1>1, DeliveryHolds, PTL

=============================================================================
