--------------------------- MODULE PatchesProofs ---------------------------
(***************************************************************************)
(* What applications of patches keep for every number of workers, files,   *)
(* patches, jobs and faults: the types, the records behind the statuses,   *)
(* the workspace that refused patches leave alone, and the refinement of   *)
(* PatchedWorkspace.                                                       *)
(***************************************************************************)
EXTENDS Patches, TLAPS

(* What the phase of an application says about its plan and journal: every   *)
(* planned path is inside the workspace, and nothing is written before all   *)
(* of it is planned and captured.                                            *)
Planned(j) == Len(j.plan) = Width(j.patch) /\ Width(j.patch) > 0
Captured(j) == Planned(j) /\ Len(j.journal) = Width(j.patch)
Progress(phase, j) ==
  /\ Len(j.plan) <= Width(j.patch)
  /\ \A k \in 1..Len(j.plan) : Path(j.patch, k) \in File
  /\ phase \in {"plan", "capture"} => j.next = 1
  /\ phase = "plan" => j.journal = <<>> /\ (Width(j.patch) > 0 => Len(j.plan) < Width(j.patch))
  /\ phase = "capture" => Planned(j) /\ Len(j.journal) < Width(j.patch)
  /\ phase = "decide" => Captured(j)
  /\ phase \in {"write", "rollback"} => Captured(j) /\ j.next \in 1..Width(j.patch)
Progressing == \A w \in Worker : InFlight(w) => Progress(pc[w], job[w])

(* Two applications under way at a time taint the files they share.          *)
Touching(w, f) == InFlight(w) /\ f \in Touches(job[w].patch)
SharedTainted ==
  \A v, w \in Worker : \A f \in File : v # w /\ Touching(v, f) /\ Touching(w, f) => f \in tainted

(* The last of the first n file patches that name a file                     *)
LastFor(p, f, k, n) ==
  /\ k \in 1..n /\ Path(p, k) = f
  /\ \A i \in 1..n : i > k => Path(p, i) # f

(* What an application has done to a file that is not tainted: the plan and  *)
(* the journal were made from the content to be kept, and the file holds it  *)
(* until the first write and after its first restoration.                    *)
Holds(phase, j, f) ==
  /\ \A k \in 1..Len(j.plan) : Path(j.patch, k) = f => j.plan[k] = Fit(j.patch, k, base[f])
  /\ \A k \in 1..Len(j.journal) : Path(j.patch, k) = f => j.journal[k] = base[f]
  /\ phase \in {"plan", "capture"} => file[f] = base[f]
  /\ phase = "write" =>
       \/ (\A k \in 1..j.next - 1 : Path(j.patch, k) # f) /\ file[f] = base[f]
       \/ \E k \in 1..j.next - 1 : LastFor(j.patch, f, k, j.next - 1) /\ file[f] = j.plan[k]
  /\ phase = "decide" =>
       \E k \in 1..Width(j.patch) : LastFor(j.patch, f, k, Width(j.patch)) /\ file[f] = j.plan[k]
  /\ phase = "rollback" => \A k \in 1..j.next - 1 : Path(j.patch, k) = f => file[f] = base[f]
Tracked ==
  \A w \in Worker : \A f \in File :
    Touching(w, f) /\ f \notin tainted => Holds(pc[w], job[w], f)

WorkspaceInv == Progressing /\ SharedTainted /\ Tracked /\ CommittedIntact

(* The approvals of a proposal, and the record before its status             *)
Backed(phase, j, R) ==
  /\ phase \in {"plan", "capture", "write", "decide", "rollback"} =>
       ~j.applied /\ (j.kind = "proposal" => j.verifier /\ j.guardian)
  /\ phase \in {"record", "status"} /\ j.applied =>
       j.verifier /\ j.guardian /\ SameFiles(j.patch)
  /\ phase = "status" => \E r \in R : r.patch = j.patch /\ r.applied = j.applied
Approved == \A w \in Worker : Backed(pc[w], job[w], records)
RecordInv == Approved /\ StatusHasRecord

-----------------------------------------------------------------------------
(* Types *)

(* What the operators on patches return                                      *)
LEMMA PatchTyped ==
  ASSUME NEW p \in Patch
  PROVE  /\ Width(p) \in Nat
         /\ \A k \in 1..Width(p) : /\ Path(p, k) \in File \cup {Outside}
                                  /\ \A c \in Content \cup {Absent} : Fit(p, k, c) \in Content \cup {NoFit}
<1>1. \A k \in 1..Width(p) : Fit(p, k, Absent) = NoFit
  BY DEF Fit
<1> QED
  BY <1>1, PatchAssumption

(* What Advance does to the worker, and that it leaves the others alone.     *)
LEMMA AdvanceTyped ==
  ASSUME TypeOK, NEW w \in Worker, NEW phase \in Phase, NEW j,
         phase # "idle" => j \in Job, Advance(w, phase, j)
  PROVE  /\ pc' \in [Worker -> Phase] /\ job' \in [Worker -> Job \cup {None}]
         /\ \A v \in Worker : pc'[v] # "idle" => job'[v] \in Job
         /\ pc'[w] = phase /\ (phase # "idle" => job'[w] = j)
         /\ \A v \in Worker \ {w} : pc'[v] = pc[v] /\ job'[v] = job[v]
BY DEF TypeOK, Advance

(* A job that goes on to a phase it is ready for                             *)
LEMMA AdvanceProgress ==
  ASSUME TypeOK, Progressing, NEW w \in Worker, NEW phase \in Phase, NEW j,
         phase # "idle" => j \in Job, Advance(w, phase, j),
         phase \in {"plan", "capture", "write", "decide", "rollback"} => Progress(phase, j)
  PROVE  Progressing'
<1>1. /\ pc'[w] = phase /\ (phase # "idle" => job'[w] = j)
      /\ \A v \in Worker \ {w} : pc'[v] = pc[v] /\ job'[v] = job[v]
  BY AdvanceTyped
<1> SUFFICES ASSUME NEW v \in Worker, InFlight(v)' PROVE Progress(pc'[v], job'[v])
  BY DEF Progressing, Progress, Planned, Captured
<1>2. CASE v = w
  BY <1>1, <1>2 DEF InFlight
<1>3. CASE v # w
  <2>1. pc'[v] = pc[v] /\ job'[v] = job[v] /\ InFlight(v)
    BY <1>1, <1>3 DEF InFlight
  <2> QED
    BY <2>1 DEF Progressing
<1> QED
  BY <1>2, <1>3

(* The job of a worker that has just started                                 *)
NewJob(kind, p, verifier, guardian, deps, scope) ==
  [kind |-> kind, patch |-> p, verifier |-> verifier, guardian |-> guardian,
   deps |-> deps, scope |-> scope, plan |-> <<>>, journal |-> <<>>,
   next |-> 1, applied |-> FALSE]

(* The job that starts has planned and written nothing.                      *)
LEMMA StartTyped ==
  ASSUME TypeOK, Progressing, NEW w \in Worker, NEW kind \in Kind, NEW p \in Patch,
         NEW a \in BOOLEAN, NEW b \in BOOLEAN, NEW d \in BOOLEAN, NEW s \in SUBSET File,
         NEW phase \in {"plan", "record"}, Start(w, kind, p, a, b, d, s, phase)
  PROVE  /\ TypeOK' /\ Progressing'
         /\ pc'[w] = phase /\ job'[w] = NewJob(kind, p, a, b, d, s)
         /\ \A v \in Worker \ {w} : pc'[v] = pc[v] /\ job'[v] = job[v]
<1> DEFINE j == NewJob(kind, p, a, b, d, s)
<1>1. j \in Job
  <2>1. <<>> \in Seq(Content) /\ <<>> \in Seq(Content \cup {Absent})
    OBVIOUS
  <2> QED
    BY <2>1 DEF NewJob, Job
<1>2. Progress("plan", j)
  <2>1. j.plan = <<>> /\ j.journal = <<>> /\ j.patch = p /\ j.next = 1
    BY DEF NewJob
  <2>2. Width(p) \in Nat /\ Len(j.plan) = 0
    BY <2>1, PatchTyped
  <2> HIDE DEF j
  <2> QED
    BY <2>1, <2>2 DEF Progress
<1>3. Advance(w, phase, j)
  BY DEF Start, Advance, NewJob
<1>4. phase \in Phase /\ phase # "idle"
  BY DEF Phase
<1>5. tainted' \subseteq File /\ UNCHANGED <<file, head, status, records, faults, base>>
  BY DEF Start, TypeOK, Touches
<1>6. jobs' \in 0..MaxJobs
  BY PatchAssumption DEF Start, TypeOK
<1> HIDE DEF j
<1>7. Progressing'
  BY <1>1, <1>2, <1>3, <1>4, AdvanceProgress
<1>8. /\ pc' \in [Worker -> Phase] /\ job' \in [Worker -> Job \cup {None}]
      /\ \A v \in Worker : pc'[v] # "idle" => job'[v] \in Job
      /\ pc'[w] = phase /\ job'[w] = j
      /\ \A v \in Worker \ {w} : pc'[v] = pc[v] /\ job'[v] = job[v]
  BY <1>1, <1>3, <1>4, AdvanceTyped
<1>9. TypeOK'
  BY <1>5, <1>6, <1>8 DEF TypeOK
<1> QED
  BY <1>7, <1>8, <1>9 DEF j

(* The jobs that the steps make of a job keep the types and the progress.    *)
LEMMA PlannedJob ==
  ASSUME TypeOK, Progressing, NEW w \in Worker, pc[w] = "plan",
         Len(job[w].plan) + 1 <= Width(job[w].patch),
         Plannable(job[w].patch, Len(job[w].plan) + 1)
  PROVE  LET j == job[w]
             k == Len(j.plan) + 1
             f == Path(j.patch, k)
             i == [j EXCEPT !.plan = Append(@, Fit(j.patch, k, file[f]))]
         IN /\ f \in File /\ i \in Job
            /\ i.patch = j.patch /\ i.kind = j.kind /\ i.verifier = j.verifier /\ i.guardian = j.guardian
            /\ i.applied = j.applied /\ i.next = j.next /\ i.journal = j.journal
            /\ i.plan = Append(j.plan, Fit(j.patch, k, file[f])) /\ Len(i.plan) = k
            /\ \A n \in 1..Len(j.plan) : i.plan[n] = j.plan[n]
            /\ i.plan[k] = Fit(j.patch, k, file[f])
            /\ Progress(IF k = Width(j.patch) THEN "capture" ELSE "plan", i)
<1> DEFINE j == job[w]
           k == Len(j.plan) + 1
           f == Path(j.patch, k)
           c == Fit(j.patch, k, file[f])
           i == [j EXCEPT !.plan = Append(@, c)]
<1>1. j \in Job /\ j.plan \in Seq(Content) /\ j.patch \in Patch /\ Len(j.plan) \in Nat
  BY DEF TypeOK, Job
<1>2. k \in 1..Width(j.patch) /\ Width(j.patch) \in Nat
  BY <1>1, PatchTyped
<1>3. f \in File
  BY <1>1, <1>2, PatchTyped DEF Plannable
<1>4. c \in Content
  BY <1>1, <1>2, <1>3, PatchTyped DEF Plannable, TypeOK
<1>5. Progress("plan", j)
  BY DEF Progressing, InFlight
<1> HIDE DEF c
<1>6. /\ Append(j.plan, c) \in Seq(Content) /\ Len(Append(j.plan, c)) = k
      /\ \A n \in 1..Len(j.plan) : Append(j.plan, c)[n] = j.plan[n]
      /\ Append(j.plan, c)[k] = c
  BY <1>1, <1>4
<1>7. /\ i \in Job /\ i.patch = j.patch /\ i.kind = j.kind
      /\ i.verifier = j.verifier /\ i.guardian = j.guardian
      /\ i.applied = j.applied /\ i.next = j.next /\ i.journal = j.journal
      /\ i.plan = Append(j.plan, c)
  BY <1>1, <1>6 DEF Job
<1> HIDE DEF i, k
<1>8. \A n \in 1..k : Path(j.patch, n) \in File
  BY <1>1, <1>3, <1>5 DEF Progress, k
<1>9. i.journal = <<>> /\ i.next = 1 /\ Len(i.plan) = k /\ Len(i.journal) = 0
  BY <1>5, <1>6, <1>7 DEF Progress
<1>10. CASE k = Width(j.patch)
  BY <1>2, <1>3, <1>6, <1>7, <1>8, <1>9, <1>10 DEF Progress, Planned, c, i, k
<1>11. CASE k # Width(j.patch)
  BY <1>2, <1>3, <1>6, <1>7, <1>8, <1>9, <1>11 DEF Progress, c, i, k
<1> QED
  BY <1>10, <1>11

(* The journal has one entry more.                                           *)
LEMMA CapturedJob ==
  ASSUME TypeOK, Progressing, NEW w \in Worker, pc[w] = "capture"
  PROVE  LET j == job[w]
             k == Len(j.journal) + 1
             f == Path(j.patch, k)
             i == [j EXCEPT !.journal = Append(@, file[f])]
         IN /\ k \in 1..Width(j.patch) /\ f \in File /\ i \in Job
            /\ i.patch = j.patch /\ i.kind = j.kind /\ i.verifier = j.verifier /\ i.guardian = j.guardian
            /\ i.applied = j.applied /\ i.next = 1 /\ j.next = 1 /\ i.plan = j.plan
            /\ i.journal = Append(j.journal, file[f]) /\ Len(i.journal) = k
            /\ \A n \in 1..Len(j.journal) : i.journal[n] = j.journal[n]
            /\ i.journal[k] = file[f]
            /\ Progress(IF k = Width(j.patch) THEN "write" ELSE "capture", i)
<1> DEFINE j == job[w]
           k == Len(j.journal) + 1
           f == Path(j.patch, k)
           c == file[f]
           i == [j EXCEPT !.journal = Append(@, c)]
<1>1. j \in Job /\ j.journal \in Seq(Content \cup {Absent}) /\ j.patch \in Patch /\ Len(j.journal) \in Nat
  BY DEF TypeOK, Job
<1>2. Progress("capture", j)
  BY DEF Progressing, InFlight
<1>3. k \in 1..Width(j.patch) /\ Width(j.patch) \in Nat /\ Len(j.plan) = Width(j.patch)
  BY <1>1, <1>2, PatchTyped DEF Progress, Planned
<1>4. f \in File /\ c \in Content \cup {Absent}
  BY <1>2, <1>3 DEF Progress, TypeOK
<1> HIDE DEF c
<1>5. /\ Append(j.journal, c) \in Seq(Content \cup {Absent}) /\ Len(Append(j.journal, c)) = k
      /\ \A n \in 1..Len(j.journal) : Append(j.journal, c)[n] = j.journal[n]
      /\ Append(j.journal, c)[k] = c
  BY <1>1, <1>4
<1>6. /\ i \in Job /\ i.patch = j.patch /\ i.kind = j.kind
      /\ i.verifier = j.verifier /\ i.guardian = j.guardian
      /\ i.applied = j.applied /\ i.next = j.next /\ i.plan = j.plan
      /\ i.journal = Append(j.journal, c)
  BY <1>1, <1>5 DEF Job
<1>7. i.next = 1
  BY <1>2, <1>6 DEF Progress
<1> HIDE DEF i
<1>8. CASE k = Width(j.patch)
  BY <1>2, <1>3, <1>4, <1>5, <1>6, <1>7, <1>8 DEF Progress, Planned, Captured, c, i
<1>9. CASE k # Width(j.patch)
  BY <1>2, <1>3, <1>4, <1>5, <1>6, <1>7, <1>9 DEF Progress, Planned, c, i
<1> QED
  BY <1>8, <1>9

(* A job whose next file is written or restored                              *)
LEMMA NextJob ==
  ASSUME TypeOK, Progressing, NEW w \in Worker, pc[w] \in {"write", "rollback"}
  PROVE  LET j == job[w]
             f == Path(j.patch, j.next)
             i == [j EXCEPT !.next = @ + 1]
         IN /\ j.next \in 1..Width(j.patch) /\ f \in File /\ i \in Job
            /\ j.plan[j.next] \in Content /\ j.journal[j.next] \in Content \cup {Absent}
            /\ i.patch = j.patch /\ i.kind = j.kind /\ i.verifier = j.verifier /\ i.guardian = j.guardian
            /\ i.applied = j.applied /\ i.plan = j.plan /\ i.journal = j.journal /\ i.next = j.next + 1
            /\ j.next = Width(j.patch) => Progress("decide", i)
            /\ j.next # Width(j.patch) => Progress(pc[w], i)
<1> DEFINE j == job[w]
           f == Path(j.patch, j.next)
           i == [j EXCEPT !.next = @ + 1]
<1>1. j \in Job /\ j.patch \in Patch /\ j.next \in Nat /\ j.plan \in Seq(Content)
      /\ j.journal \in Seq(Content \cup {Absent})
  BY DEF TypeOK, Job
<1>2. Progress(pc[w], j)
  BY DEF Progressing, InFlight
<1>3. j.next \in 1..Width(j.patch) /\ Width(j.patch) \in Nat /\ Captured(j)
  BY <1>1, <1>2, PatchTyped DEF Progress
<1>4. f \in File /\ j.plan[j.next] \in Content /\ j.journal[j.next] \in Content \cup {Absent}
  BY <1>1, <1>2, <1>3 DEF Progress, Captured, Planned
<1>5. /\ i \in Job /\ i.patch = j.patch /\ i.kind = j.kind
      /\ i.verifier = j.verifier /\ i.guardian = j.guardian
      /\ i.applied = j.applied /\ i.plan = j.plan /\ i.journal = j.journal /\ i.next = j.next + 1
  BY <1>1 DEF Job
<1> HIDE DEF i
<1>6. j.next = Width(j.patch) => Progress("decide", i)
  BY <1>2, <1>3, <1>5 DEF Progress, Captured, Planned
<1>7. j.next # Width(j.patch) => Progress(pc[w], i)
  BY <1>2, <1>3, <1>5 DEF Progress, Captured, Planned
<1> QED
  BY <1>3, <1>4, <1>5, <1>6, <1>7 DEF i

(* A job whose outcome is decided                                            *)
LEMMA DecidedJob ==
  ASSUME TypeOK, Progressing, NEW w \in Worker, pc[w] = "decide"
  PROVE  LET j == job[w]
             i == [j EXCEPT !.applied = TRUE]
             r == [j EXCEPT !.next = 1]
         IN /\ {i, r} \subseteq Job /\ Captured(j) /\ Progress("decide", j)
            /\ i.patch = j.patch /\ i.kind = j.kind /\ i.verifier = j.verifier /\ i.guardian = j.guardian
            /\ i.applied = TRUE
            /\ r.patch = j.patch /\ r.kind = j.kind /\ r.verifier = j.verifier /\ r.guardian = j.guardian
            /\ r.applied = j.applied /\ r.plan = j.plan /\ r.journal = j.journal /\ r.next = 1
            /\ Progress("rollback", r)
<1> DEFINE j == job[w]
           i == [j EXCEPT !.applied = TRUE]
           r == [j EXCEPT !.next = 1]
<1>1. j \in Job /\ j.patch \in Patch
  BY DEF TypeOK, Job
<1>2. Progress("decide", j) /\ Captured(j) /\ Width(j.patch) \in Nat
  BY <1>1, PatchTyped DEF Progressing, InFlight, Progress
<1>3. /\ i \in Job /\ i.patch = j.patch /\ i.kind = j.kind
      /\ i.verifier = j.verifier /\ i.guardian = j.guardian /\ i.applied = TRUE
  BY <1>1 DEF Job
<1>4. /\ r \in Job /\ r.patch = j.patch /\ r.kind = j.kind
      /\ r.verifier = j.verifier /\ r.guardian = j.guardian /\ r.applied = j.applied
      /\ r.plan = j.plan /\ r.journal = j.journal /\ r.next = 1
  BY <1>1 DEF Job
<1> HIDE DEF i, r
<1>5. Progress("rollback", r)
  BY <1>2, <1>4 DEF Progress, Captured, Planned
<1> QED
  BY <1>2, <1>3, <1>4, <1>5 DEF i, r

(* A job that is refused is recorded or dropped.                             *)
LEMMA RefusedPhase ==
  ASSUME NEW j
  PROVE  Refused(j) \in {"record", "idle"} /\ Refused(j) \in Phase
BY DEF Refused, Phase

(* Every worker is idle.                                                     *)
LEMMA InitTyped == Init => TypeOK /\ Progressing
<1> SUFFICES ASSUME Init PROVE TypeOK /\ Progressing
  OBVIOUS
<1>1. 0 \in 0..MaxJobs /\ 0 \in 0..MaxFaults
  BY PatchAssumption
<1>2. TypeOK
  BY <1>1, PatchAssumption DEF Init, TypeOK, Phase
<1>3. Progressing
  BY DEF Init, Progressing, InFlight
<1> QED
  BY <1>2, <1>3

(* A step of a worker that writes a typed file keeps the types.              *)
LEMMA WorkerTyped ==
  ASSUME TypeOK, Progressing, NEW w \in Worker, NEW phase \in Phase, NEW j,
         phase # "idle" => j \in Job, Advance(w, phase, j),
         phase \in {"plan", "capture", "write", "decide", "rollback"} => Progress(phase, j),
         file' \in [File -> Content \cup {Absent}], base' \in [File -> Content \cup {Absent}],
         status' \in [Patch -> {"none", "proposed", "applied", "denied"}],
         records' \subseteq Record, faults' \in 0..MaxFaults, tainted' \subseteq File,
         UNCHANGED <<head, jobs>>
  PROVE  TypeOK' /\ Progressing'
<1>1. Progressing'
  BY AdvanceProgress
<1>2. /\ pc' \in [Worker -> Phase] /\ job' \in [Worker -> Job \cup {None}]
      /\ \A v \in Worker : pc'[v] # "idle" => job'[v] \in Job
  BY AdvanceTyped
<1> QED
  BY <1>1, <1>2 DEF TypeOK

(* Every step keeps the types and the progress of the jobs.                  *)
LEMMA StepTyped == TypeOK /\ Progressing /\ [Next]_vars => TypeOK' /\ Progressing'
<1> SUFFICES ASSUME TypeOK, Progressing, [Next]_vars PROVE TypeOK' /\ Progressing'
  OBVIOUS
<1>p. \A p \in Patch : Touches(p) \subseteq File
  BY DEF Touches
<1>j. \A w \in Worker : pc[w] # "idle" => job[w] \in Job /\ job[w].patch \in Patch
  BY DEF TypeOK, Job
<1>1. ASSUME NEW p \in Proposed, Create(p)
      PROVE  TypeOK' /\ Progressing'
  <2>1. TypeOK'
    BY <1>1, PatchAssumption DEF Create, TypeOK
  <2>2. Progressing'
    BY <1>1 DEF Create, Progressing, InFlight, Progress, Planned, Captured
  <2> QED
    BY <2>1, <2>2
<1>2. ASSUME NEW w \in Worker, NEW p \in Proposed, NEW a \in BOOLEAN, NEW b \in BOOLEAN,
             BeginApply(w, p, a, b)
      PROVE  TypeOK' /\ Progressing'
  <2> DEFINE phase == IF ApprovalBlocked(a, b) THEN "record" ELSE "plan"
  <2>1. p \in Patch /\ "proposal" \in Kind /\ FALSE \in BOOLEAN /\ File \in SUBSET File
        /\ phase \in {"plan", "record"}
    BY PatchAssumption DEF Kind
  <2>2. Start(w, "proposal", p, a, b, FALSE, File, phase)
    BY <1>2 DEF BeginApply
  <2> HIDE DEF phase
  <2> QED
    BY <2>1, <2>2, StartTyped
<1>3. ASSUME NEW w \in Worker, NEW p \in Commanded, NEW a \in BOOLEAN, NEW d \in BOOLEAN,
             BeginRepoPatch(w, p, a, d) \/ BeginMcpPatch(w, p, a, d)
      PROVE  TypeOK' /\ Progressing'
  <2>1. p \in Patch /\ {"cli_patch", "mcp_patch"} \subseteq Kind /\ FALSE \in BOOLEAN
        /\ File \in SUBSET File /\ "plan" \in {"plan", "record"}
    BY PatchAssumption DEF Kind
  <2>2. \/ Start(w, "cli_patch", p, FALSE, FALSE, d, File, "plan")
        \/ Start(w, "mcp_patch", p, FALSE, FALSE, d, File, "plan")
    BY <1>3 DEF BeginRepoPatch, BeginMcpPatch
  <2> QED
    BY <2>1, <2>2, StartTyped
<1>4. ASSUME NEW w \in Worker, NEW p \in Commanded, NEW a \in BOOLEAN, NEW d \in BOOLEAN,
             NEW s \in Scope, BeginRepoRun(w, p, a, d, s)
      PROVE  TypeOK' /\ Progressing'
  <2>1. p \in Patch /\ "repo_run" \in Kind /\ FALSE \in BOOLEAN
        /\ s \in SUBSET File /\ "plan" \in {"plan", "record"}
    BY PatchAssumption DEF Kind
  <2>2. Start(w, "repo_run", p, FALSE, FALSE, d, s, "plan")
    BY <1>4 DEF BeginRepoRun
  <2> QED
    BY <2>1, <2>2, StartTyped
<1>5. ASSUME NEW w \in Worker, Plan(w)
      PROVE  TypeOK' /\ Progressing'
  <2> DEFINE j == job[w]
             k == Len(j.plan) + 1
             i == [j EXCEPT !.plan = Append(@, Fit(j.patch, k, file[Path(j.patch, k)]))]
             next == IF k = Width(j.patch) THEN "capture" ELSE "plan"
  <2>1. pc[w] = "plan" /\ j \in Job /\ next \in Phase /\ next \in {"capture", "plan"}
        /\ UNCHANGED <<file, head, status, records, jobs, faults, base, tainted>>
    BY <1>5, <1>j DEF Plan, Phase
  <2>2. CASE Advance(w, Refused(j), j)
    BY <2>1, <2>2, RefusedPhase, WorkerTyped DEF TypeOK
  <2>3. CASE k <= Width(j.patch) /\ Plannable(j.patch, k) /\ Advance(w, next, i)
    <3>1. i \in Job /\ Progress(next, i)
      BY <2>1, <2>3, PlannedJob
    <3> HIDE DEF i, next
    <3> QED
      BY <2>1, <2>3, <3>1, WorkerTyped DEF TypeOK
  <2> QED
    BY <1>5, <2>2, <2>3 DEF Plan
<1>6. ASSUME NEW w \in Worker, Capture(w)
      PROVE  TypeOK' /\ Progressing'
  <2> DEFINE j == job[w]
             k == Len(j.journal) + 1
             i == [j EXCEPT !.journal = Append(@, file[Path(j.patch, k)])]
             next == IF k = Width(j.patch) THEN "write" ELSE "capture"
  <2>1. pc[w] = "capture" /\ next \in Phase /\ Advance(w, next, i)
        /\ UNCHANGED <<file, head, status, records, jobs, faults, base, tainted>>
    BY <1>6 DEF Capture, Phase
  <2>2. i \in Job /\ Progress(next, i)
    BY <2>1, CapturedJob
  <2> HIDE DEF i, next
  <2> QED
    BY <2>1, <2>2, WorkerTyped DEF TypeOK
<1>7. ASSUME NEW w \in Worker, Write(w)
      PROVE  TypeOK' /\ Progressing'
  <2> DEFINE j == job[w]
             i == [j EXCEPT !.next = @ + 1]
             next == IF j.next = Width(j.patch) THEN "decide" ELSE "write"
  <2>1. pc[w] = "write" /\ next \in Phase /\ Advance(w, next, i)
        /\ file' = [file EXCEPT ![Path(j.patch, j.next)] = j.plan[j.next]]
        /\ UNCHANGED <<head, status, records, jobs, faults, base, tainted>>
    BY <1>7 DEF Write, Phase
  <2>2. i \in Job /\ Progress(next, i) /\ j.plan[j.next] \in Content
    BY <2>1, NextJob
  <2>3. file' \in [File -> Content \cup {Absent}]
    BY <2>1, <2>2 DEF TypeOK
  <2> HIDE DEF i, next
  <2> QED
    BY <2>1, <2>2, <2>3, WorkerTyped DEF TypeOK
<1>8. ASSUME NEW w \in Worker, Accept(w)
      PROVE  TypeOK' /\ Progressing'
  <2> DEFINE j == job[w]
             i == [j EXCEPT !.applied = TRUE]
  <2>1. pc[w] = "decide" /\ Advance(w, Refused(j), i)
        /\ base' = [f \in File |-> IF f \in Touches(j.patch) THEN file[f] ELSE base[f]]
        /\ UNCHANGED <<file, head, status, records, jobs, faults, tainted>>
    BY <1>8 DEF Accept
  <2>2. i \in Job
    BY <2>1, DecidedJob
  <2>3. base' \in [File -> Content \cup {Absent}]
    BY <2>1 DEF TypeOK
  <2> HIDE DEF i
  <2> QED
    BY <2>1, <2>2, <2>3, RefusedPhase, WorkerTyped DEF TypeOK
<1>9. ASSUME NEW w \in Worker, RollBack(w)
      PROVE  TypeOK' /\ Progressing'
  <2> DEFINE r == [job[w] EXCEPT !.next = 1]
  <2>1. pc[w] = "decide" /\ Advance(w, "rollback", r) /\ "rollback" \in Phase
        /\ UNCHANGED <<file, head, status, records, jobs, faults, base, tainted>>
    BY <1>9 DEF RollBack, Phase
  <2>2. r \in Job /\ Progress("rollback", r)
    BY <2>1, DecidedJob
  <2> HIDE DEF r
  <2> QED
    BY <2>1, <2>2, WorkerTyped DEF TypeOK
<1>10. ASSUME NEW w \in Worker, Abandon(w)
       PROVE  TypeOK' /\ Progressing'
  <2>1. pc[w] = "decide" /\ Advance(w, "idle", job[w]) /\ "idle" \in Phase
        /\ tainted' = tainted \cup Touches(job[w].patch)
        /\ UNCHANGED <<file, head, status, records, jobs, faults, base>>
    BY <1>10 DEF Abandon, Phase, Patching
  <2>2. tainted' \subseteq File
    BY <2>1, <1>p, <1>j DEF TypeOK
  <2> QED
    BY <2>1, <2>2, WorkerTyped DEF TypeOK
<1>11. ASSUME NEW w \in Worker, Restore(w)
       PROVE  TypeOK' /\ Progressing'
  <2> DEFINE j == job[w]
             i == [j EXCEPT !.next = @ + 1]
             next == IF j.next = Width(j.patch) THEN Refused(j) ELSE "rollback"
  <2>1. pc[w] = "rollback" /\ next \in Phase /\ Advance(w, next, i)
        /\ file' = [file EXCEPT ![Path(j.patch, j.next)] = j.journal[j.next]]
        /\ UNCHANGED <<head, status, records, jobs, faults, base, tainted>>
    BY <1>11, RefusedPhase DEF Restore, Phase
  <2>2. i \in Job /\ j.journal[j.next] \in Content \cup {Absent}
        /\ (j.next # Width(j.patch) => Progress("rollback", i))
    BY <2>1, NextJob
  <2>3. file' \in [File -> Content \cup {Absent}]
    BY <2>1, <2>2 DEF TypeOK
  <2>4. next \in {"plan", "capture", "write", "decide", "rollback"} => Progress(next, i)
    BY <2>2, RefusedPhase
  <2> HIDE DEF i, next
  <2> QED
    BY <2>1, <2>2, <2>3, <2>4, WorkerTyped DEF TypeOK
<1>12. ASSUME NEW w \in Worker, SaveRecord(w)
       PROVE  TypeOK' /\ Progressing'
  <2>1. pc[w] = "record" /\ Advance(w, "status", job[w]) /\ "status" \in Phase /\ job[w] \in Job
        /\ UNCHANGED <<file, head, status, jobs, faults, base, tainted>>
    BY <1>12, <1>j DEF SaveRecord, Phase
  <2>2. records' \subseteq Record
    BY <1>12, <2>1 DEF SaveRecord, Record, Job, TypeOK
  <2> QED
    BY <2>1, <2>2, WorkerTyped DEF TypeOK
<1>13. ASSUME NEW w \in Worker, SetStatus(w)
       PROVE  TypeOK' /\ Progressing'
  <2>1. pc[w] = "status" /\ Advance(w, "idle", None) /\ "idle" \in Phase /\ job[w] \in Job
        /\ UNCHANGED <<file, head, records, jobs, faults, base, tainted>>
    BY <1>13, <1>j DEF SetStatus, Phase
  <2>2. status' \in [Patch -> {"none", "proposed", "applied", "denied"}]
    BY <1>13 DEF SetStatus, TypeOK
  <2> QED
    BY <2>1, <2>2, WorkerTyped DEF TypeOK
<1>14. ASSUME NEW w \in Worker, Die(w)
       PROVE  TypeOK' /\ Progressing'
  <2>1. pc[w] # "idle" /\ Advance(w, "idle", None) /\ "idle" \in Phase
        /\ UNCHANGED <<head, status, records, jobs, base>>
    BY <1>14 DEF Die, Phase
  <2>2. faults' \in 0..MaxFaults
    BY <1>14, PatchAssumption DEF Die, TypeOK
  <2>3. tainted' \subseteq File
    BY <1>14, <1>p, <1>j, <2>1 DEF Die, TypeOK, Patching
  <2>4. file' \in [File -> Content \cup {Absent}]
    BY <1>14, PatchAssumption DEF Die, TypeOK
  <2> QED
    BY <2>1, <2>2, <2>3, <2>4, WorkerTyped DEF TypeOK
<1>15. ASSUME NEW w \in Worker, RollbackFails(w)
       PROVE  TypeOK' /\ Progressing'
  <2>1. pc[w] = "rollback" /\ Advance(w, Refused(job[w]), job[w]) /\ job[w] \in Job
        /\ UNCHANGED <<file, head, status, records, jobs, base>>
    BY <1>15, <1>j DEF RollbackFails
  <2>2. faults' \in 0..MaxFaults
    BY <1>15, PatchAssumption DEF RollbackFails, TypeOK
  <2>3. tainted' \subseteq File
    BY <1>15, <1>p, <1>j, <2>1 DEF RollbackFails, TypeOK, Patching
  <2> QED
    BY <2>1, <2>2, <2>3, RefusedPhase, WorkerTyped DEF TypeOK
<1>16. CASE CommitWorktree
  BY <1>16 DEF CommitWorktree, TypeOK, Progressing, InFlight, Progress, Planned, Captured
<1>17. CASE UNCHANGED vars
  BY <1>17 DEF vars, TypeOK, Progressing, InFlight, Progress, Planned, Captured
<1> QED
  BY <1>1, <1>2, <1>3, <1>4, <1>5, <1>6, <1>7, <1>8, <1>9, <1>10, <1>11, <1>12, <1>13, <1>14,
     <1>15, <1>16, <1>17 DEF Next, Step

(* Every reachable state of the applications is typed.                       *)
THEOREM PatchesTypeCorrect == Spec => []TypeOK
<1>1. Spec => [](TypeOK /\ Progressing)
  BY InitTyped, StepTyped, PTL DEF Spec
<1> QED
  BY <1>1, PTL

-----------------------------------------------------------------------------
(* The workspace *)

(* A step of an application under way: the files it touches are as its new   *)
(* phase says, or as they should be when it ended; the others are as before. *)
LEMMA InFlightStep ==
  ASSUME WorkspaceInv, NEW w \in Worker, InFlight(w),
         \A v \in Worker \ {w} : pc'[v] = pc[v] /\ job'[v] = job[v],
         tainted \subseteq tainted',
         InFlight(w)' => job'[w].patch = job[w].patch,
         \A f \in File \ Touches(job[w].patch) : file'[f] = file[f] /\ base'[f] = base[f],
         \A f \in Touches(job[w].patch) \ tainted' :
           /\ InFlight(w)' => Holds(pc[w], job[w], f)'
           /\ ~InFlight(w)' => file'[f] = base'[f]
  PROVE  SharedTainted' /\ Tracked' /\ CommittedIntact'
<1>1. \A v \in Worker : \A f \in File : Touching(v, f)' => Touching(v, f)
  <2> SUFFICES ASSUME NEW v \in Worker, NEW f \in File, Touching(v, f)' PROVE Touching(v, f)
    OBVIOUS
  <2>1. CASE v = w
    BY <2>1 DEF Touching, Touches
  <2>2. CASE v # w
    BY <2>2 DEF Touching, InFlight, Touches
  <2> QED
    BY <2>1, <2>2
<1>2. SharedTainted'
  BY <1>1 DEF WorkspaceInv, SharedTainted
<1>3. Tracked'
  <2> SUFFICES ASSUME NEW v \in Worker, NEW f \in File, Touching(v, f)', f \notin tainted'
               PROVE  Holds(pc[v], job[v], f)'
    BY DEF Tracked
  <2>1. Touching(v, f) /\ f \notin tainted
    BY <1>1
  <2>2. CASE v = w
    BY <2>1, <2>2 DEF Touching
  <2>3. CASE v # w
    <3>1. f \in File \ Touches(job[w].patch)
      BY <2>1, <2>3 DEF WorkspaceInv, SharedTainted, Touching
    <3>2. file'[f] = file[f] /\ base'[f] = base[f] /\ pc'[v] = pc[v] /\ job'[v] = job[v]
      BY <2>3, <3>1
    <3>3. Holds(pc[v], job[v], f)
      BY <2>1 DEF WorkspaceInv, Tracked
    <3> QED
      BY <3>2, <3>3 DEF Holds, LastFor
  <2> QED
    BY <2>2, <2>3
<1>4. CommittedIntact'
  <2> SUFFICES ASSUME NEW f \in File, f \notin tainted', ~Busy(f)'
               PROVE  file'[f] = base'[f]
    BY DEF CommittedIntact
  <2>1. \A v \in Worker : ~Touching(v, f)'
    BY DEF Busy, Touching
  <2>2. CASE f \in Touches(job[w].patch)
    BY <2>1, <2>2 DEF Touching
  <2>3. CASE f \notin Touches(job[w].patch)
    <3>1. \A v \in Worker : ~Touching(v, f)
      <4> TAKE v \in Worker
      <4>1. CASE v = w
        BY <2>3, <4>1 DEF Touching
      <4>2. CASE v # w
        BY <2>1, <4>2 DEF Touching, InFlight, Touches
      <4> QED
        BY <4>1, <4>2
    <3>2. file[f] = base[f]
      BY <3>1 DEF WorkspaceInv, CommittedIntact, Busy, Touching
    <3> QED
      BY <2>3, <3>2
  <2> QED
    BY <2>2, <2>3
<1> QED
  BY <1>2, <1>3, <1>4

(* A step that no file and no application under way takes part in            *)
LEMMA QuietStep ==
  ASSUME WorkspaceInv, UNCHANGED <<file, base>>, tainted' = tainted,
         \A v \in Worker : /\ InFlight(v)' <=> InFlight(v)
                           /\ InFlight(v) => pc'[v] = pc[v] /\ job'[v] = job[v]
  PROVE  SharedTainted' /\ Tracked' /\ CommittedIntact'
<1>1. \A v \in Worker : \A f \in File : Touching(v, f)' <=> Touching(v, f)
  BY DEF Touching, Touches
<1>2. SharedTainted'
  BY <1>1 DEF WorkspaceInv, SharedTainted
<1>3. Tracked'
  <2> SUFFICES ASSUME NEW v \in Worker, NEW f \in File, Touching(v, f)', f \notin tainted'
               PROVE  Holds(pc[v], job[v], f)'
    BY DEF Tracked
  <2>1. Touching(v, f) /\ Holds(pc[v], job[v], f) /\ pc'[v] = pc[v] /\ job'[v] = job[v]
    BY <1>1 DEF WorkspaceInv, Tracked, Touching
  <2> QED
    BY <2>1 DEF Holds, LastFor
<1>4. CommittedIntact'
  BY <1>1 DEF WorkspaceInv, CommittedIntact, Busy, Touching
<1> QED
  BY <1>2, <1>3, <1>4

(* An application that starts to plan taints the files that others are at.   *)
LEMMA StartHolds ==
  ASSUME TypeOK, WorkspaceInv, NEW w \in Worker, NEW kind \in Kind, NEW p \in Patch,
         NEW a \in BOOLEAN, NEW b \in BOOLEAN, NEW d \in BOOLEAN, NEW s \in SUBSET File,
         NEW phase \in {"plan", "record"}, Start(w, kind, p, a, b, d, s, phase)
  PROVE  SharedTainted' /\ Tracked' /\ CommittedIntact'
<1>1. /\ pc'[w] = phase /\ job'[w] = NewJob(kind, p, a, b, d, s)
      /\ \A v \in Worker \ {w} : pc'[v] = pc[v] /\ job'[v] = job[v]
  BY StartTyped DEF WorkspaceInv
<1>2. pc[w] = "idle" /\ UNCHANGED <<file, base>>
  BY DEF Start
<1>3. CASE phase = "record"
  <2>1. tainted' = tainted
    BY <1>3 DEF Start
  <2>2. \A v \in Worker : /\ InFlight(v)' <=> InFlight(v)
                          /\ InFlight(v) => pc'[v] = pc[v] /\ job'[v] = job[v]
    <3> TAKE v \in Worker
    <3>1. CASE v = w
      BY <1>1, <1>2, <1>3, <3>1 DEF InFlight
    <3>2. CASE v # w
      BY <1>1, <3>2 DEF InFlight
    <3> QED
      BY <3>1, <3>2
  <2> QED
    BY <1>2, <2>1, <2>2, QuietStep
<1>4. CASE phase = "plan"
  <2>1. tainted' = tainted \cup {f \in Touches(p) : Busy(f)}
    BY <1>4 DEF Start
  <2>2. /\ job'[w].patch = p /\ job'[w].plan = <<>> /\ job'[w].journal = <<>> /\ pc'[w] = "plan"
    BY <1>1, <1>4 DEF NewJob
  <2>3. \A v \in Worker \ {w} : \A f \in File : Touching(v, f)' <=> Touching(v, f)
    BY <1>1 DEF Touching, InFlight, Touches
  <2>4. \A f \in File : Touching(w, f)' <=> f \in Touches(p)
    BY <2>2 DEF Touching, InFlight, Touches
  <2>5. \A v \in Worker : \A f \in File : v # w /\ Touching(v, f) /\ f \in Touches(p) => f \in tainted'
    BY <2>1 DEF Busy, Touching
  <2>6. SharedTainted'
    BY <2>1, <2>3, <2>4, <2>5 DEF WorkspaceInv, SharedTainted
  <2>7. \A f \in Touches(p) \ tainted' : file[f] = base[f]
    BY <2>1 DEF WorkspaceInv, CommittedIntact, Touches
  <2>8. Tracked'
    <3> SUFFICES ASSUME NEW v \in Worker, NEW f \in File, Touching(v, f)', f \notin tainted'
                 PROVE  Holds(pc[v], job[v], f)'
      BY DEF Tracked
    <3>1. CASE v = w
      <4>1. file[f] = base[f]
        BY <2>4, <2>7, <3>1
      <4>2. Len(job'[w].plan) = 0 /\ Len(job'[w].journal) = 0
        BY <2>2
      <4> QED
        BY <1>2, <2>2, <3>1, <4>1, <4>2 DEF Holds
    <3>2. CASE v # w
      <4>1. Holds(pc[v], job[v], f) /\ pc'[v] = pc[v] /\ job'[v] = job[v]
        BY <1>1, <2>1, <2>3, <3>2 DEF WorkspaceInv, Tracked
      <4> QED
        BY <1>2, <4>1 DEF Holds, LastFor
    <3> QED
      BY <3>1, <3>2
  <2>9. CommittedIntact'
    <3> SUFFICES ASSUME NEW f \in File, f \notin tainted', ~Busy(f)'
                 PROVE  file[f] = base[f]
      BY <1>2 DEF CommittedIntact
    <3>1. \A v \in Worker : ~Touching(v, f)'
      BY DEF Busy, Touching
    <3>2. ~InFlight(w)
      BY <1>2 DEF InFlight
    <3>3. ~Busy(f)
      BY <2>3, <3>1, <3>2 DEF Busy, Touching
    <3> QED
      BY <2>1, <3>3 DEF WorkspaceInv, CommittedIntact
  <2> QED
    BY <2>6, <2>8, <2>9
<1> QED
  BY <1>3, <1>4

(* No file has been touched.                                                 *)
LEMMA InitWorkspace == Init => WorkspaceInv
BY InitTyped DEF Init, WorkspaceInv, SharedTainted, Touching, InFlight, Tracked, CommittedIntact

(* Planning and capturing leave the files alone.                             *)
LEMMA PlanHolds ==
  ASSUME TypeOK, WorkspaceInv, NEW w \in Worker, Plan(w)
  PROVE  SharedTainted' /\ Tracked' /\ CommittedIntact'
<1> DEFINE j == job[w]
           k == Len(j.plan) + 1
           c == Fit(j.patch, k, file[Path(j.patch, k)])
           i == [j EXCEPT !.plan = Append(@, c)]
           next == IF k = Width(j.patch) THEN "capture" ELSE "plan"
<1>1. /\ pc[w] = "plan" /\ InFlight(w) /\ j \in Job /\ Progressing /\ Len(j.plan) \in Nat
      /\ UNCHANGED <<file, base, tainted>>
  BY DEF Plan, InFlight, TypeOK, WorkspaceInv, Job
<1>2. \A f \in Touches(j.patch) \ tainted : Holds("plan", j, f) /\ file[f] = base[f]
  BY <1>1 DEF WorkspaceInv, Tracked, Touching, Touches, Holds
<1>3. CASE Advance(w, Refused(j), j)
  <2>1. pc'[w] \in {"record", "idle"} /\ \A v \in Worker \ {w} : pc'[v] = pc[v] /\ job'[v] = job[v]
    BY <1>1, <1>3, RefusedPhase, AdvanceTyped
  <2>2. ~InFlight(w)'
    BY <2>1 DEF InFlight
  <2> QED
    BY <1>1, <1>2, <2>1, <2>2, InFlightStep
<1>4. CASE k <= Width(j.patch) /\ Plannable(j.patch, k) /\ Advance(w, next, i)
  <2>1. /\ i \in Job /\ i.patch = j.patch /\ i.journal = j.journal
        /\ i.plan = Append(j.plan, c) /\ Len(i.plan) = k
        /\ \A n \in 1..Len(j.plan) : i.plan[n] = j.plan[n]
        /\ i.plan[k] = c
    BY <1>1, <1>4, PlannedJob
  <2> HIDE DEF i
  <2>2. next \in Phase /\ next # "idle" /\ next \in {"capture", "plan"}
    BY DEF Phase
  <2>3. /\ pc'[w] = next /\ job'[w] = i
        /\ \A v \in Worker \ {w} : pc'[v] = pc[v] /\ job'[v] = job[v]
    BY <1>1, <1>4, <2>1, <2>2, AdvanceTyped
  <2>4. ASSUME NEW f \in Touches(j.patch) \ tainted
        PROVE  Holds(next, i, f)
    <3>1. Holds("plan", j, f) /\ file[f] = base[f]
      BY <1>2
    <3>2. ASSUME NEW n \in 1..Len(i.plan), Path(i.patch, n) = f
          PROVE  i.plan[n] = Fit(i.patch, n, base[f])
      <4>1. CASE n = k
        BY <2>1, <3>1, <3>2, <4>1
      <4>2. CASE n # k
        BY <1>1, <2>1, <3>1, <3>2, <4>2 DEF Holds
      <4> QED
        BY <4>1, <4>2
    <3>3. \A n \in 1..Len(i.journal) : Path(i.patch, n) = f => i.journal[n] = base[f]
      BY <2>1, <3>1 DEF Holds
    <3> QED
      BY <2>2, <3>1, <3>2, <3>3 DEF Holds
  <2>5. \A f \in Touches(j.patch) \ tainted' : Holds(pc[w], job[w], f)'
    BY <1>1, <2>3, <2>4 DEF Holds, LastFor
  <2>6. InFlight(w)' /\ job'[w].patch = j.patch
    BY <2>1, <2>2, <2>3 DEF InFlight
  <2> QED
    BY <1>1, <2>3, <2>5, <2>6, InFlightStep
<1> QED
  BY <1>1, <1>3, <1>4 DEF Plan

(* The journal records a file that the job has not written yet.              *)
LEMMA CaptureHolds ==
  ASSUME TypeOK, WorkspaceInv, NEW w \in Worker, Capture(w)
  PROVE  SharedTainted' /\ Tracked' /\ CommittedIntact'
<1> DEFINE j == job[w]
           k == Len(j.journal) + 1
           i == [j EXCEPT !.journal = Append(@, file[Path(j.patch, k)])]
           next == IF k = Width(j.patch) THEN "write" ELSE "capture"
<1>1. /\ pc[w] = "capture" /\ InFlight(w) /\ j \in Job /\ Progressing /\ Len(j.journal) \in Nat
      /\ UNCHANGED <<file, base, tainted>> /\ Advance(w, next, i)
  BY DEF Capture, InFlight, TypeOK, WorkspaceInv, Job
<1>2. \A f \in Touches(j.patch) \ tainted : Holds("capture", j, f) /\ file[f] = base[f]
  BY <1>1 DEF WorkspaceInv, Tracked, Touching, Touches, Holds
<1>3. /\ i \in Job /\ i.patch = j.patch /\ i.plan = j.plan /\ i.next = 1 /\ Len(i.journal) = k
      /\ \A n \in 1..Len(j.journal) : i.journal[n] = j.journal[n]
      /\ i.journal[k] = file[Path(j.patch, k)]
  BY <1>1, CapturedJob
<1> HIDE DEF i
<1>4. next \in Phase /\ next # "idle" /\ next \in {"write", "capture"}
  BY DEF Phase
<1>5. /\ pc'[w] = next /\ job'[w] = i
      /\ \A v \in Worker \ {w} : pc'[v] = pc[v] /\ job'[v] = job[v]
  BY <1>1, <1>3, <1>4, AdvanceTyped
<1>6. ASSUME NEW f \in Touches(j.patch) \ tainted
      PROVE  Holds(next, i, f)
  <2>1. Holds("capture", j, f) /\ file[f] = base[f]
    BY <1>2
  <2>2. ASSUME NEW n \in 1..Len(i.journal), Path(i.patch, n) = f
        PROVE  i.journal[n] = base[f]
    <3>1. CASE n = k
      BY <1>3, <2>1, <2>2, <3>1
    <3>2. CASE n # k
      BY <1>1, <1>3, <2>1, <2>2, <3>2 DEF Holds
    <3> QED
      BY <3>1, <3>2
  <2>3. \A n \in 1..Len(i.plan) : Path(i.patch, n) = f => i.plan[n] = Fit(i.patch, n, base[f])
    BY <1>3, <2>1 DEF Holds
  <2>4. 1..i.next - 1 = {}
    BY <1>3
  <2> QED
    BY <1>4, <2>1, <2>2, <2>3, <2>4 DEF Holds
<1>7. \A f \in Touches(j.patch) \ tainted' : Holds(pc[w], job[w], f)'
  BY <1>1, <1>5, <1>6 DEF Holds, LastFor
<1>8. InFlight(w)' /\ job'[w].patch = j.patch
  BY <1>3, <1>4, <1>5 DEF InFlight
<1> QED
  BY <1>1, <1>5, <1>7, <1>8, InFlightStep

(* A write puts what was planned for the file; the last file patch that      *)
(* names it is the one that counts.                                          *)
LEMMA WriteHolds ==
  ASSUME TypeOK, WorkspaceInv, NEW w \in Worker, Write(w)
  PROVE  SharedTainted' /\ Tracked' /\ CommittedIntact'
<1> DEFINE j == job[w]
           g == Path(j.patch, j.next)
           i == [j EXCEPT !.next = @ + 1]
           next == IF j.next = Width(j.patch) THEN "decide" ELSE "write"
<1>1. /\ pc[w] = "write" /\ InFlight(w) /\ Progressing /\ j.patch \in Patch
      /\ UNCHANGED <<base, tainted>> /\ Advance(w, next, i)
      /\ file' = [file EXCEPT ![g] = j.plan[j.next]]
  BY DEF Write, InFlight, TypeOK, WorkspaceInv, Job
<1>2. /\ j.next \in 1..Width(j.patch) /\ g \in File /\ i \in Job
      /\ i.patch = j.patch /\ i.plan = j.plan /\ i.journal = j.journal /\ i.next = j.next + 1
      /\ Width(j.patch) \in Nat
  BY <1>1, NextJob, PatchTyped
<1> HIDE DEF i
<1>3. next \in Phase /\ next # "idle" /\ next \in {"write", "decide"}
  BY DEF Phase
<1>4. /\ pc'[w] = next /\ job'[w] = i
      /\ \A v \in Worker \ {w} : pc'[v] = pc[v] /\ job'[v] = job[v]
  BY <1>1, <1>2, <1>3, AdvanceTyped
<1>5. file'[g] = j.plan[j.next] /\ \A f \in File \ {g} : file'[f] = file[f]
  BY <1>1, <1>2 DEF TypeOK
<1>6. g \in Touches(j.patch)
  BY <1>2 DEF Touches
<1>7. ASSUME NEW f \in Touches(j.patch) \ tainted
      PROVE  Holds(pc[w], job[w], f)'
  <2>1. Holds("write", j, f) /\ f \in File
    BY <1>1 DEF WorkspaceInv, Tracked, Touching, Touches
  <2>2. /\ \A k \in 1..Len(i.plan) : Path(i.patch, k) = f => i.plan[k] = Fit(i.patch, k, base[f])
        /\ \A k \in 1..Len(i.journal) : Path(i.patch, k) = f => i.journal[k] = base[f]
    BY <1>2, <2>1 DEF Holds
  <2>3. \/ (\A k \in 1..j.next : Path(j.patch, k) # f) /\ file'[f] = base[f]
        \/ \E k \in 1..j.next : LastFor(j.patch, f, k, j.next) /\ file'[f] = j.plan[k]
    <3>1. CASE f = g
      <4>1. LastFor(j.patch, f, j.next, j.next)
        BY <1>2, <3>1 DEF LastFor
      <4> QED
        BY <1>2, <1>5, <3>1, <4>1
    <3>2. CASE f # g /\ (\A k \in 1..j.next - 1 : Path(j.patch, k) # f) /\ file[f] = base[f]
      BY <1>2, <1>5, <2>1, <3>2
    <3>3. CASE f # g /\ \E k \in 1..j.next - 1 : LastFor(j.patch, f, k, j.next - 1) /\ file[f] = j.plan[k]
      <4>1. PICK k \in 1..j.next - 1 : LastFor(j.patch, f, k, j.next - 1) /\ file[f] = j.plan[k]
        BY <3>3
      <4>2. k \in 1..j.next /\ LastFor(j.patch, f, k, j.next)
        BY <1>2, <3>3, <4>1 DEF LastFor
      <4> QED
        BY <1>5, <2>1, <3>3, <4>1, <4>2
    <3> QED
      BY <2>1, <3>1, <3>2, <3>3 DEF Holds
  <2>4. CASE next = "write"
    <3>1. i.next - 1 = j.next
      BY <1>2
    <3> QED
      BY <1>1, <1>2, <1>4, <2>2, <2>3, <2>4, <3>1 DEF Holds, LastFor
  <2>5. CASE next = "decide"
    <3>1. \E k \in 1..Width(j.patch) : Path(j.patch, k) = f
      BY DEF Touches
    <3>2. j.next = Width(j.patch)
      BY <2>5
    <3>3. \E k \in 1..Width(j.patch) : LastFor(j.patch, f, k, Width(j.patch)) /\ file'[f] = j.plan[k]
      BY <2>3, <3>1, <3>2
    <3> QED
      BY <1>1, <1>2, <1>4, <2>2, <2>5, <3>3 DEF Holds, LastFor
  <2> QED
    BY <1>3, <2>4, <2>5
<1>8. InFlight(w)' /\ job'[w].patch = j.patch
  BY <1>2, <1>3, <1>4 DEF InFlight
<1>9. \A f \in File \ Touches(j.patch) : file'[f] = file[f] /\ base'[f] = base[f]
  BY <1>1, <1>5, <1>6
<1> QED
  BY <1>1, <1>4, <1>7, <1>8, <1>9, InFlightStep

(* Accepting, starting a rollback, or leaving the files as they are          *)
LEMMA DecideHolds ==
  ASSUME TypeOK, WorkspaceInv, NEW w \in Worker, Accept(w) \/ RollBack(w) \/ Abandon(w)
  PROVE  SharedTainted' /\ Tracked' /\ CommittedIntact'
<1> DEFINE j == job[w]
<1>1. pc[w] = "decide" /\ InFlight(w) /\ Progressing /\ j \in Job
  BY DEF Accept, RollBack, Abandon, InFlight, TypeOK, WorkspaceInv
<1>2. CASE Accept(w)
  <2> DEFINE i == [j EXCEPT !.applied = TRUE]
  <2>1. /\ Advance(w, Refused(j), i) /\ UNCHANGED <<file, tainted>> /\ i \in Job
        /\ base' = [f \in File |-> IF f \in Touches(j.patch) THEN file[f] ELSE base[f]]
    BY <1>1, <1>2, DecidedJob DEF Accept
  <2> HIDE DEF i
  <2>2. pc'[w] \in {"record", "idle"} /\ \A v \in Worker \ {w} : pc'[v] = pc[v] /\ job'[v] = job[v]
    BY <1>1, <2>1, RefusedPhase, AdvanceTyped
  <2>3. ~InFlight(w)'
    BY <2>2 DEF InFlight
  <2>4. /\ \A f \in File \ Touches(j.patch) : file'[f] = file[f] /\ base'[f] = base[f]
        /\ \A f \in Touches(j.patch) : file'[f] = base'[f]
    BY <2>1 DEF Touches
  <2> QED
    BY <1>1, <2>1, <2>2, <2>3, <2>4, InFlightStep
<1>3. CASE RollBack(w)
  <2> DEFINE r == [j EXCEPT !.next = 1]
  <2>1. Advance(w, "rollback", r) /\ UNCHANGED <<file, base, tainted>> /\ "rollback" \in Phase
    BY <1>3 DEF RollBack, Phase
  <2>2. r \in Job /\ r.patch = j.patch /\ r.plan = j.plan /\ r.journal = j.journal /\ r.next = 1
    BY <1>1, DecidedJob
  <2> HIDE DEF r
  <2>3. /\ pc'[w] = "rollback" /\ job'[w] = r
        /\ \A v \in Worker \ {w} : pc'[v] = pc[v] /\ job'[v] = job[v]
    BY <2>1, <2>2, AdvanceTyped
  <2>4. ASSUME NEW f \in Touches(j.patch) \ tainted
        PROVE  Holds(pc[w], job[w], f)'
    <3>1. Holds("decide", j, f)
      BY <1>1 DEF WorkspaceInv, Tracked, Touching, Touches
    <3>2. Holds("rollback", r, f)
      BY <2>2, <3>1 DEF Holds
    <3> QED
      BY <2>1, <2>3, <3>2 DEF Holds
  <2>5. InFlight(w)' /\ job'[w].patch = j.patch
    BY <2>2, <2>3 DEF InFlight
  <2> QED
    BY <1>1, <2>1, <2>3, <2>4, <2>5, InFlightStep
<1>4. CASE Abandon(w)
  <2>1. /\ Advance(w, "idle", j) /\ UNCHANGED <<file, base>> /\ "idle" \in Phase
        /\ tainted' = tainted \cup Touches(j.patch)
    BY <1>4 DEF Abandon, Phase, Patching
  <2>2. pc'[w] = "idle" /\ \A v \in Worker \ {w} : pc'[v] = pc[v] /\ job'[v] = job[v]
    BY <2>1, AdvanceTyped
  <2>3. ~InFlight(w)'
    BY <2>2 DEF InFlight
  <2> QED
    BY <1>1, <2>1, <2>2, <2>3, InFlightStep
<1> QED
  BY <1>2, <1>3, <1>4

(* A restoration puts what was captured, from the first file to the last.    *)
LEMMA RestoreHolds ==
  ASSUME TypeOK, WorkspaceInv, NEW w \in Worker, Restore(w)
  PROVE  SharedTainted' /\ Tracked' /\ CommittedIntact'
<1> DEFINE j == job[w]
           g == Path(j.patch, j.next)
           i == [j EXCEPT !.next = @ + 1]
           next == IF j.next = Width(j.patch) THEN Refused(j) ELSE "rollback"
<1>1. /\ pc[w] = "rollback" /\ InFlight(w) /\ Progressing /\ j.patch \in Patch
      /\ UNCHANGED <<base, tainted>> /\ Advance(w, next, i)
      /\ file' = [file EXCEPT ![g] = j.journal[j.next]]
  BY DEF Restore, InFlight, TypeOK, WorkspaceInv, Job
<1>2. /\ j.next \in 1..Width(j.patch) /\ g \in File /\ i \in Job
      /\ i.patch = j.patch /\ i.plan = j.plan /\ i.journal = j.journal /\ i.next = j.next + 1
      /\ Width(j.patch) \in Nat
  BY <1>1, NextJob, PatchTyped
<1>c. Len(j.journal) = Width(j.patch)
  BY <1>1 DEF Progressing, Progress, Captured
<1> HIDE DEF i
<1>3. /\ next \in Phase
      /\ j.next = Width(j.patch) => next \in {"record", "idle"}
      /\ j.next # Width(j.patch) => next = "rollback"
  BY RefusedPhase DEF Phase
<1> HIDE DEF next
<1>4. /\ pc'[w] = next /\ (next # "idle" => job'[w] = i)
      /\ \A v \in Worker \ {w} : pc'[v] = pc[v] /\ job'[v] = job[v]
  BY <1>1, <1>2, <1>3, AdvanceTyped
<1>5. file'[g] = j.journal[j.next] /\ \A f \in File \ {g} : file'[f] = file[f]
  BY <1>1, <1>2 DEF TypeOK
<1>6. g \in Touches(j.patch)
  BY <1>2 DEF Touches
<1>7. ASSUME NEW f \in Touches(j.patch) \ tainted
      PROVE  /\ Holds("rollback", j, f)
             /\ \A k \in 1..j.next : Path(j.patch, k) = f => file'[f] = base[f]
  <2>1. Holds("rollback", j, f) /\ f \in File
    BY <1>1 DEF WorkspaceInv, Tracked, Touching, Touches
  <2>2. ASSUME NEW k \in 1..j.next, Path(j.patch, k) = f
        PROVE  file'[f] = base[f]
    <3>1. CASE f = g
      BY <1>2, <1>c, <1>5, <2>1, <3>1 DEF Holds
    <3>2. CASE f # g
      <4>1. k \in 1..j.next - 1
        BY <1>2, <2>2, <3>2
      <4> QED
        BY <1>5, <2>1, <2>2, <3>2, <4>1 DEF Holds
    <3> QED
      BY <3>1, <3>2
  <2> QED
    BY <2>1, <2>2
<1>8. \A f \in File \ Touches(j.patch) : file'[f] = file[f] /\ base'[f] = base[f]
  BY <1>1, <1>5, <1>6
<1>9. CASE j.next = Width(j.patch)
  <2>1. ~InFlight(w)'
    BY <1>3, <1>4, <1>9 DEF InFlight
  <2>2. \A f \in Touches(j.patch) \ tainted' : file'[f] = base'[f]
    BY <1>1, <1>7, <1>9 DEF Touches
  <2> QED
    BY <1>1, <1>4, <1>8, <2>1, <2>2, InFlightStep
<1>10. CASE j.next # Width(j.patch)
  <2>1. pc'[w] = "rollback" /\ job'[w] = i /\ InFlight(w)' /\ job'[w].patch = j.patch
    BY <1>2, <1>3, <1>4, <1>10 DEF InFlight
  <2>2. ASSUME NEW f \in Touches(j.patch) \ tainted
        PROVE  Holds(pc[w], job[w], f)'
    <3>1. /\ \A k \in 1..Len(i.plan) : Path(i.patch, k) = f => i.plan[k] = Fit(i.patch, k, base[f])
          /\ \A k \in 1..Len(i.journal) : Path(i.patch, k) = f => i.journal[k] = base[f]
      BY <1>2, <1>7 DEF Holds
    <3>2. i.next - 1 = j.next
      BY <1>2
    <3>3. \A k \in 1..i.next - 1 : Path(i.patch, k) = f => file'[f] = base[f]
      BY <1>2, <1>7, <3>2
    <3> QED
      BY <1>1, <2>1, <3>1, <3>3 DEF Holds
  <2> QED
    BY <1>1, <1>4, <1>8, <2>1, <2>2, InFlightStep
<1> QED
  BY <1>9, <1>10

(* A fault taints the files of an application that had begun to write; one   *)
(* that had not leaves them as they were.                                    *)
LEMMA FaultHolds ==
  ASSUME TypeOK, WorkspaceInv, NEW w \in Worker, Die(w) \/ RollbackFails(w)
  PROVE  SharedTainted' /\ Tracked' /\ CommittedIntact'
<1> DEFINE j == job[w]
           g == Path(j.patch, j.next)
<1>1. Progressing /\ "idle" \in Phase /\ UNCHANGED base
  BY DEF WorkspaceInv, Phase, Die, RollbackFails
<1>2. CASE Die(w)
  <2>1. /\ pc'[w] = "idle"
        /\ \A v \in Worker \ {w} : pc'[v] = pc[v] /\ job'[v] = job[v]
    BY <1>1, <1>2, AdvanceTyped DEF Die
  <2>2. ~InFlight(w)'
    BY <2>1 DEF InFlight
  <2>3. CASE ~InFlight(w)
    <3>1. UNCHANGED <<file, base>> /\ tainted' = tainted
      BY <1>1, <1>2, <2>3 DEF Die, InFlight
    <3>2. \A v \in Worker : /\ InFlight(v)' <=> InFlight(v)
                            /\ InFlight(v) => pc'[v] = pc[v] /\ job'[v] = job[v]
      <4> TAKE v \in Worker
      <4>1. CASE v = w
        BY <2>2, <2>3, <4>1
      <4>2. CASE v # w
        BY <2>1, <4>2 DEF InFlight
      <4> QED
        BY <4>1, <4>2
    <3> QED
      BY <3>1, <3>2, QuietStep
  <2>4. CASE pc[w] \in {"plan", "capture"}
    <3>1. InFlight(w) /\ UNCHANGED <<file, tainted>>
      BY <1>2, <2>4 DEF Die, InFlight
    <3>2. \A f \in Touches(j.patch) \ tainted' : file'[f] = base'[f]
      BY <1>1, <2>4, <3>1 DEF WorkspaceInv, Tracked, Touching, Touches, Holds
    <3> QED
      BY <1>1, <2>1, <2>2, <3>1, <3>2, InFlightStep
  <2>5. CASE pc[w] \in {"write", "decide", "rollback"}
    <3>1. InFlight(w) /\ tainted' = tainted \cup Touches(j.patch)
      BY <1>2, <2>5 DEF Die, InFlight, Patching
    <3>2. \A f \in File \ Touches(j.patch) : file'[f] = file[f]
      <4>1. CASE UNCHANGED file
        BY <4>1
      <4>2. CASE pc[w] \in {"write", "rollback"} /\ file' = [file EXCEPT ![g] = <<>>]
        <5>1. g \in Touches(j.patch)
          BY <1>1, <4>2, NextJob DEF Touches
        <5> QED
          BY <4>2, <5>1 DEF TypeOK
      <4> QED
        BY <1>2, <4>1, <4>2 DEF Die, Patching
    <3> QED
      BY <1>1, <2>1, <2>2, <3>1, <3>2, InFlightStep
  <2> QED
    BY <2>3, <2>4, <2>5 DEF InFlight
<1>3. CASE RollbackFails(w)
  <2>1. /\ pc[w] = "rollback" /\ InFlight(w) /\ j \in Job /\ UNCHANGED file
        /\ Advance(w, Refused(j), j) /\ tainted' = tainted \cup Touches(j.patch)
    BY <1>3 DEF RollbackFails, InFlight, TypeOK, Patching
  <2>2. pc'[w] \in {"record", "idle"} /\ \A v \in Worker \ {w} : pc'[v] = pc[v] /\ job'[v] = job[v]
    BY <2>1, RefusedPhase, AdvanceTyped
  <2>3. ~InFlight(w)'
    BY <2>2 DEF InFlight
  <2> QED
    BY <1>1, <2>1, <2>2, <2>3, InFlightStep
<1> QED
  BY <1>2, <1>3

(* Every step keeps the files that only one job works on.                    *)
LEMMA StepWorkspace == TypeOK /\ WorkspaceInv /\ [Next]_vars => WorkspaceInv'
<1> SUFFICES ASSUME TypeOK, WorkspaceInv, [Next]_vars
             PROVE  SharedTainted' /\ Tracked' /\ CommittedIntact'
  BY StepTyped DEF WorkspaceInv
<1>1. ASSUME NEW p \in Proposed, Create(p)
      PROVE  SharedTainted' /\ Tracked' /\ CommittedIntact'
  BY <1>1, QuietStep DEF Create, InFlight
<1>2. ASSUME NEW w \in Worker, NEW p \in Proposed, NEW a \in BOOLEAN, NEW b \in BOOLEAN,
             BeginApply(w, p, a, b)
      PROVE  SharedTainted' /\ Tracked' /\ CommittedIntact'
  <2> DEFINE phase == IF ApprovalBlocked(a, b) THEN "record" ELSE "plan"
  <2>1. p \in Patch /\ "proposal" \in Kind /\ FALSE \in BOOLEAN /\ File \in SUBSET File
        /\ phase \in {"plan", "record"}
    BY PatchAssumption DEF Kind
  <2>2. Start(w, "proposal", p, a, b, FALSE, File, phase)
    BY <1>2 DEF BeginApply
  <2> HIDE DEF phase
  <2> QED
    BY <2>1, <2>2, StartHolds
<1>3. ASSUME NEW w \in Worker, NEW p \in Commanded, NEW a \in BOOLEAN, NEW d \in BOOLEAN,
             BeginRepoPatch(w, p, a, d) \/ BeginMcpPatch(w, p, a, d)
      PROVE  SharedTainted' /\ Tracked' /\ CommittedIntact'
  <2>1. p \in Patch /\ {"cli_patch", "mcp_patch"} \subseteq Kind /\ FALSE \in BOOLEAN
        /\ File \in SUBSET File /\ "plan" \in {"plan", "record"}
    BY PatchAssumption DEF Kind
  <2>2. \/ Start(w, "cli_patch", p, FALSE, FALSE, d, File, "plan")
        \/ Start(w, "mcp_patch", p, FALSE, FALSE, d, File, "plan")
    BY <1>3 DEF BeginRepoPatch, BeginMcpPatch
  <2> QED
    BY <2>1, <2>2, StartHolds
<1>4. ASSUME NEW w \in Worker, NEW p \in Commanded, NEW a \in BOOLEAN, NEW d \in BOOLEAN,
             NEW s \in Scope, BeginRepoRun(w, p, a, d, s)
      PROVE  SharedTainted' /\ Tracked' /\ CommittedIntact'
  <2>1. p \in Patch /\ "repo_run" \in Kind /\ FALSE \in BOOLEAN
        /\ s \in SUBSET File /\ "plan" \in {"plan", "record"}
    BY PatchAssumption DEF Kind
  <2>2. Start(w, "repo_run", p, FALSE, FALSE, d, s, "plan")
    BY <1>4 DEF BeginRepoRun
  <2> QED
    BY <2>1, <2>2, StartHolds
<1>5. ASSUME NEW w \in Worker, SaveRecord(w) \/ SetStatus(w)
      PROVE  SharedTainted' /\ Tracked' /\ CommittedIntact'
  <2> DEFINE phase == IF pc[w] = "record" THEN "status" ELSE "idle"
             j == IF pc[w] = "record" THEN job[w] ELSE None
  <2>1. /\ pc[w] \in {"record", "status"} /\ phase \in Phase /\ (phase # "idle" => j \in Job)
        /\ Advance(w, phase, j) /\ UNCHANGED <<file, base, tainted>>
    BY <1>5 DEF SaveRecord, SetStatus, Phase, TypeOK
  <2> HIDE DEF phase, j
  <2>2. /\ pc'[w] = phase /\ \A v \in Worker \ {w} : pc'[v] = pc[v] /\ job'[v] = job[v]
    BY <2>1, AdvanceTyped
  <2>3. \A v \in Worker : /\ InFlight(v)' <=> InFlight(v)
                          /\ InFlight(v) => pc'[v] = pc[v] /\ job'[v] = job[v]
    BY <2>1, <2>2 DEF InFlight, phase
  <2> QED
    BY <2>1, <2>3, QuietStep
<1>6. ASSUME NEW w \in Worker, Step(w)
      PROVE  SharedTainted' /\ Tracked' /\ CommittedIntact'
  BY <1>5, <1>6, PlanHolds, CaptureHolds, WriteHolds, DecideHolds, RestoreHolds DEF Step
<1>7. CASE CommitWorktree
  BY <1>7, QuietStep DEF CommitWorktree, InFlight
<1>8. CASE UNCHANGED vars
  BY <1>8, QuietStep DEF vars, InFlight
<1> QED
  BY <1>1, <1>2, <1>3, <1>4, <1>6, <1>7, <1>8, FaultHolds DEF Next

(* The inductive invariant on the files                                      *)
LEMMA WorkspaceHolds == Spec => [](TypeOK /\ WorkspaceInv)
<1>1. Init => TypeOK /\ WorkspaceInv
  BY InitTyped, InitWorkspace
<1>2. TypeOK /\ WorkspaceInv /\ [Next]_vars => TypeOK' /\ WorkspaceInv'
  BY StepTyped, StepWorkspace DEF WorkspaceInv
<1> QED
  BY <1>1, <1>2, PTL DEF Spec

(* A file that no fault and no second patch hit holds, whenever no patch of  *)
(* it is under way, what the accepted patches made of it.                    *)
THEOREM PatchesLeaveNoTrace == Spec => []CommittedIntact
<1>1. WorkspaceInv => CommittedIntact
  BY DEF WorkspaceInv
<1> QED
  BY <1>1, WorkspaceHolds, PTL

-----------------------------------------------------------------------------
(* The refinement *)

(* Of several file patches for one path the last one is what Patched takes.  *)
LEMMA PatchedByLast ==
  ASSUME NEW p \in Patch, NEW f \in File, NEW k, LastFor(p, f, k, Width(p)), NEW c
  PROVE  Patched(p, f, c) = Fit(p, k, c)
<1> DEFINE Final(n) == Path(p, n) = f /\ \A m \in n + 1 .. Width(p) : Path(p, m) # f
<1>1. Width(p) \in Nat
  BY PatchTyped
<1>2. k \in 1..Width(p) /\ Final(k)
  BY <1>1 DEF LastFor
<1>3. \A n \in 1..Width(p) : Final(n) => n = k
  BY <1>1, <1>2
<1> HIDE DEF Final
<1>4. (CHOOSE n \in 1..Width(p) : Final(n)) = k
  BY <1>2, <1>3
<1> QED
  BY <1>4 DEF Patched, Final

(* Every step of an application is a whole patch, a loss, or nothing to the  *)
(* workspace.                                                                *)
LEMMA StepWhole == TypeOK /\ WorkspaceInv /\ [Next]_vars => [Workspace!Next]_content
<1> SUFFICES ASSUME TypeOK, WorkspaceInv, [Next]_vars PROVE [Workspace!Next]_content
  OBVIOUS
<1>1. TypeOK'
  BY StepTyped DEF WorkspaceInv
<1>2. CASE base' = base /\ tainted \subseteq tainted'
  <2>1. tainted' \in SUBSET File
    BY <1>1 DEF TypeOK
  <2>2. content' = [f \in File |-> IF f \in tainted' THEN Unknown ELSE content[f]]
    BY <1>2 DEF content
  <2>3. Workspace!Lose(tainted')
    BY <2>2 DEF Workspace!Lose
  <2> QED
    BY <2>1, <2>3 DEF Workspace!Next
<1>3. ASSUME NEW w \in Worker, Accept(w)
      PROVE  Workspace!Next
  <2> DEFINE j == job[w]
             p == j.patch
  <2>1. /\ pc[w] = "decide" /\ InFlight(w) /\ tainted' = tainted /\ p \in Patch
        /\ base' = [f \in File |-> IF f \in Touches(p) THEN file[f] ELSE base[f]]
    BY <1>3 DEF Accept, InFlight, TypeOK, Job
  <2>2. Progress("decide", j) /\ Width(p) \in Nat
    BY <2>1, PatchTyped DEF WorkspaceInv, Progressing
  <2>3. p \in Contained
    BY <2>1, <2>2, PatchAssumption DEF Contained, Progress, Captured, Planned
  <2>4. \A f \in File : f \notin tainted <=> content[f] # Unknown
    BY PatchAssumption DEF TypeOK, content
  <2>5. Workspace!Known(Touches(p)) = Touches(p) \ tainted
    BY <2>4 DEF Workspace!Known, Touches
  <2>6. ASSUME NEW f \in Touches(p) \ tainted
        PROVE  file[f] = Patched(p, f, base[f])
    <3>1. Holds("decide", j, f) /\ f \in File
      BY <2>1 DEF WorkspaceInv, Tracked, Touching, Touches
    <3>2. PICK k \in 1..Width(p) : LastFor(p, f, k, Width(p)) /\ file[f] = j.plan[k]
      BY <3>1 DEF Holds
    <3>3. j.plan[k] = Fit(p, k, base[f])
      BY <2>2, <3>1, <3>2 DEF Holds, LastFor, Progress, Captured, Planned
    <3> QED
      BY <2>1, <3>1, <3>2, <3>3, PatchedByLast
  <2>7. Workspace!Take(p)
    <3>1. ASSUME NEW f \in File
          PROVE  content'[f] = IF f \in Touches(p) \ tainted THEN Patched(p, f, content[f])
                                                             ELSE content[f]
      BY <2>1, <2>6 DEF content
    <3>2. content' = [f \in File |-> content'[f]]
      BY DEF content
    <3> QED
      BY <2>5, <3>1, <3>2 DEF Workspace!Take
  <2> QED
    BY <2>3, <2>7 DEF Workspace!Next
<1>4. \/ base' = base /\ tainted \subseteq tainted'
      \/ \E w \in Worker : Accept(w)
  BY DEF Next, Step, vars, Create, BeginApply, BeginRepoPatch, BeginMcpPatch, BeginRepoRun, Start,
         Plan, Capture, Write, RollBack, Abandon, Restore, SaveRecord, SetStatus, Die,
         RollbackFails, CommitWorktree
<1> QED
  BY <1>2, <1>3, <1>4

(* The workspace moves by whole patches only, each from a content it fits.   *)
THEOREM PatchesImplementWorkspace == Spec => WholePatches
<1>1. TypeOK /\ WorkspaceInv /\ [Next]_vars => [Workspace!Next]_content
  BY StepWhole
<1> QED
  BY <1>1, WorkspaceHolds, PTL DEF Spec, WholePatches

-----------------------------------------------------------------------------
(* The records *)

(* A job that goes on keeps its approvals and its record.                    *)
LEMMA AdvanceBacked ==
  ASSUME TypeOK, Approved, NEW w \in Worker, NEW phase \in Phase, NEW j,
         phase # "idle" => j \in Job, Advance(w, phase, j),
         records \subseteq records',
         phase # "idle" => Backed(phase, j, records')
  PROVE  Approved'
<1>1. /\ pc'[w] = phase /\ (phase # "idle" => job'[w] = j)
      /\ \A v \in Worker \ {w} : pc'[v] = pc[v] /\ job'[v] = job[v]
  BY AdvanceTyped
<1> SUFFICES ASSUME NEW v \in Worker PROVE Backed(pc'[v], job'[v], records')
  BY DEF Approved, Backed, SameFiles, Path, Width
<1>2. CASE v = w
  <2>1. CASE phase = "idle"
    BY <1>1, <1>2, <2>1 DEF Backed
  <2>2. CASE phase # "idle"
    BY <1>1, <1>2, <2>2
  <2> QED
    BY <2>1, <2>2
<1>3. CASE v # w
  BY <1>1, <1>3 DEF Approved, Backed
<1> QED
  BY <1>2, <1>3

(* A proposal goes to the files only with both approvals.                    *)
LEMMA StartBacked ==
  ASSUME TypeOK, Progressing, Approved, NEW w \in Worker, NEW kind \in Kind, NEW p \in Patch,
         NEW a \in BOOLEAN, NEW b \in BOOLEAN, NEW d \in BOOLEAN, NEW s \in SUBSET File,
         NEW phase \in {"plan", "record"}, Start(w, kind, p, a, b, d, s, phase),
         phase = "plan" /\ kind = "proposal" => a /\ b
  PROVE  Approved'
<1> DEFINE j == NewJob(kind, p, a, b, d, s)
<1>s. pc'[w] = phase /\ job'[w] = j /\ \A v \in Worker \ {w} : pc'[v] = pc[v] /\ job'[v] = job[v]
  BY StartTyped
<1>r. records' = records
  BY DEF Start
<1>1. /\ pc'[w] = phase /\ job'[w] = j /\ records' = records
      /\ \A v \in Worker \ {w} : pc'[v] = pc[v] /\ job'[v] = job[v]
  BY <1>s, <1>r
<1>2. j.applied = FALSE /\ j.kind = kind /\ j.verifier = a /\ j.guardian = b
  BY DEF NewJob
<1> HIDE DEF j
<1>3. Backed(phase, j, records)
  BY <1>2 DEF Backed
<1> SUFFICES ASSUME NEW v \in Worker PROVE Backed(pc'[v], job'[v], records')
  BY DEF Approved, Backed, SameFiles, Path, Width
<1>4. CASE v = w
  BY <1>1, <1>3, <1>4
<1>5. CASE v # w
  BY <1>1, <1>5 DEF Approved, Backed
<1> QED
  BY <1>4, <1>5

(* What the steps leave of a job that its record will say.                   *)
LEMMA StepApproved ==
  ASSUME TypeOK, WorkspaceInv, RecordInv, NEW w \in Worker, Step(w)
  PROVE  Approved'
<1> DEFINE j == job[w]
<1>1. Progressing /\ Approved /\ Backed(pc[w], j, records)
  BY DEF WorkspaceInv, RecordInv, Approved
<1>2. TypeOK /\ (pc[w] # "idle" => j \in Job)
  BY DEF TypeOK
<1>3. InFlight(w) /\ j.kind = "proposal" => Backed("record", j, records)
  BY <1>1 DEF Backed, InFlight
<1>4. InFlight(w) => (Refused(j) # "idle" => Backed(Refused(j), j, records))
  BY <1>3 DEF Refused
<1>5. CASE Plan(w)
  <2> DEFINE k == Len(j.plan) + 1
             i == [j EXCEPT !.plan = Append(@, Fit(j.patch, k, file[Path(j.patch, k)]))]
             next == IF k = Width(j.patch) THEN "capture" ELSE "plan"
  <2>1. pc[w] = "plan" /\ j \in Job /\ next \in Phase /\ next \in {"capture", "plan"}
        /\ records' = records /\ InFlight(w)
    BY <1>2, <1>5 DEF Plan, Phase, InFlight
  <2>2. CASE Advance(w, Refused(j), j)
    BY <1>1, <1>4, <2>1, <2>2, RefusedPhase, AdvanceBacked
  <2>3. CASE k <= Width(j.patch) /\ Plannable(j.patch, k) /\ Advance(w, next, i)
    <3>1. /\ i \in Job /\ i.patch = j.patch /\ i.kind = j.kind /\ i.verifier = j.verifier
          /\ i.guardian = j.guardian /\ i.applied = j.applied
      BY <1>1, <2>1, <2>3, PlannedJob
    <3> HIDE DEF i, next
    <3>2. Backed(next, i, records)
      BY <1>1, <2>1, <3>1 DEF Backed
    <3> QED
      BY <1>1, <2>1, <2>3, <3>1, <3>2, AdvanceBacked
  <2> QED
    BY <1>5, <2>2, <2>3 DEF Plan
<1>6. CASE Capture(w)
  <2> DEFINE k == Len(j.journal) + 1
             i == [j EXCEPT !.journal = Append(@, file[Path(j.patch, k)])]
             next == IF k = Width(j.patch) THEN "write" ELSE "capture"
  <2>1. pc[w] = "capture" /\ next \in Phase /\ next \in {"capture", "write"}
        /\ records' = records /\ Advance(w, next, i)
    BY <1>6 DEF Capture, Phase
  <2>2. /\ i \in Job /\ i.patch = j.patch /\ i.kind = j.kind /\ i.verifier = j.verifier
        /\ i.guardian = j.guardian /\ i.applied = j.applied
    BY <1>1, <2>1, CapturedJob
  <2> HIDE DEF i, next
  <2>3. Backed(next, i, records)
    BY <1>1, <2>1, <2>2 DEF Backed
  <2> QED
    BY <1>1, <2>1, <2>2, <2>3, AdvanceBacked
<1>7. CASE Write(w) \/ Restore(w)
  <2> DEFINE i == [j EXCEPT !.next = @ + 1]
             next == IF Write(w) THEN IF j.next = Width(j.patch) THEN "decide" ELSE "write"
                     ELSE IF j.next = Width(j.patch) THEN Refused(j) ELSE "rollback"
  <2>1. /\ pc[w] \in {"write", "rollback"} /\ InFlight(w) /\ j \in Job
        /\ records' = records /\ Advance(w, next, i)
    BY <1>2, <1>7 DEF Write, Restore, InFlight
  <2>2. next \in Phase /\ next \in {"decide", "write", "rollback", Refused(j)}
    BY RefusedPhase DEF Phase
  <2>3. /\ i \in Job /\ i.patch = j.patch /\ i.kind = j.kind /\ i.verifier = j.verifier
        /\ i.guardian = j.guardian /\ i.applied = j.applied
    BY <1>1, <2>1, NextJob
  <2> HIDE DEF i, next
  <2>4. next # "idle" => Backed(next, i, records)
    BY <1>1, <2>1, <2>2, <2>3 DEF Backed, Refused
  <2> QED
    BY <1>1, <2>1, <2>2, <2>3, <2>4, AdvanceBacked
<1>8. CASE Accept(w)
  <2> DEFINE i == [j EXCEPT !.applied = TRUE]
  <2>1. /\ pc[w] = "decide" /\ InFlight(w) /\ records' = records
        /\ Advance(w, Refused(j), i) /\ "accept" \in Verdict(j)
    BY <1>8 DEF Accept, InFlight
  <2>2. /\ i \in Job /\ i.patch = j.patch /\ i.kind = j.kind /\ i.verifier = j.verifier
        /\ i.guardian = j.guardian /\ i.applied = TRUE
    BY <1>1, <2>1, DecidedJob
  <2>3. j.kind = "proposal" => SameFiles(j.patch)
    BY <2>1 DEF Verdict, ProposalVerdict
  <2> HIDE DEF i
  <2>4. Refused(j) # "idle" => Backed(Refused(j), i, records)
    BY <1>1, <2>1, <2>2, <2>3 DEF Backed, Refused
  <2> QED
    BY <1>1, <2>1, <2>2, <2>4, RefusedPhase, AdvanceBacked
<1>9. CASE RollBack(w)
  <2> DEFINE r == [j EXCEPT !.next = 1]
  <2>1. /\ pc[w] = "decide" /\ Advance(w, "rollback", r) /\ records' = records /\ "rollback" \in Phase
    BY <1>9 DEF RollBack, Phase
  <2>2. /\ r \in Job /\ r.patch = j.patch /\ r.kind = j.kind /\ r.verifier = j.verifier
        /\ r.guardian = j.guardian /\ r.applied = j.applied
    BY <1>1, <2>1, DecidedJob
  <2> HIDE DEF r
  <2>3. Backed("rollback", r, records)
    BY <1>1, <2>1, <2>2 DEF Backed
  <2> QED
    BY <1>1, <2>1, <2>2, <2>3, AdvanceBacked
<1>10. CASE Abandon(w) \/ SetStatus(w)
  <2>1. /\ Advance(w, "idle", j) \/ Advance(w, "idle", None)
        /\ "idle" \in Phase /\ records' = records
    BY <1>10 DEF Abandon, SetStatus, Phase
  <2> QED
    BY <1>1, <2>1, AdvanceBacked
<1>11. CASE SaveRecord(w)
  <2> DEFINE r == [patch |-> j.patch, applied |-> j.applied,
                   verifier |-> j.verifier, guardian |-> j.guardian]
  <2>1. /\ pc[w] = "record" /\ Advance(w, "status", j) /\ "status" \in Phase /\ j \in Job
        /\ records' = records \cup {r}
    BY <1>2, <1>11 DEF SaveRecord, Phase
  <2>2. r \in records' /\ r.patch = j.patch /\ r.applied = j.applied
    BY <2>1
  <2> HIDE DEF r
  <2>3. Backed("status", j, records')
    BY <1>1, <2>1, <2>2 DEF Backed
  <2> QED
    BY <1>1, <2>1, <2>3, AdvanceBacked
<1> QED
  BY <1>5, <1>6, <1>7, <1>8, <1>9, <1>10, <1>11 DEF Step

(* Every step keeps the record before the status.                            *)
LEMMA StepRecord == TypeOK /\ WorkspaceInv /\ RecordInv /\ [Next]_vars => RecordInv'
<1> SUFFICES ASSUME TypeOK, WorkspaceInv, RecordInv, [Next]_vars
             PROVE  Approved' /\ StatusHasRecord'
  BY DEF RecordInv
<1>0. Progressing /\ Approved /\ StatusHasRecord
  BY DEF WorkspaceInv, RecordInv
<1>1. ASSUME NEW p \in Proposed, Create(p)
      PROVE  Approved' /\ StatusHasRecord'
  <2>1. UNCHANGED <<pc, job, records>> /\ status' = [status EXCEPT ![p] = "proposed"]
    BY <1>1 DEF Create
  <2>2. Approved'
    BY <1>0, <2>1 DEF Approved, Backed, SameFiles, Path, Width
  <2>3. \A q \in Patch : status'[q] \in {"applied", "denied"} => status'[q] = status[q]
    BY <2>1 DEF TypeOK
  <2>4. StatusHasRecord'
    BY <1>0, <2>1, <2>3 DEF StatusHasRecord, SameFiles, Path, Width
  <2> QED
    BY <2>2, <2>4
<1>2. ASSUME UNCHANGED <<status, records>> PROVE StatusHasRecord'
  BY <1>0, <1>2 DEF StatusHasRecord, SameFiles, Path, Width
<1>3. ASSUME NEW w \in Worker, NEW p \in Proposed, NEW a \in BOOLEAN, NEW b \in BOOLEAN,
             BeginApply(w, p, a, b)
      PROVE  Approved' /\ StatusHasRecord'
  <2> DEFINE phase == IF ApprovalBlocked(a, b) THEN "record" ELSE "plan"
  <2>1. p \in Patch /\ "proposal" \in Kind /\ FALSE \in BOOLEAN /\ File \in SUBSET File
        /\ phase \in {"plan", "record"} /\ (phase = "plan" => a /\ b)
    BY PatchAssumption DEF Kind, ApprovalBlocked
  <2>2. Start(w, "proposal", p, a, b, FALSE, File, phase)
    BY <1>3 DEF BeginApply
  <2> HIDE DEF phase
  <2>3. UNCHANGED <<status, records>>
    BY <2>2 DEF Start
  <2> QED
    BY <1>0, <1>2, <2>1, <2>2, <2>3, StartBacked
<1>4. ASSUME NEW w \in Worker, NEW p \in Commanded, NEW a \in BOOLEAN, NEW d \in BOOLEAN,
             BeginRepoPatch(w, p, a, d) \/ BeginMcpPatch(w, p, a, d)
      PROVE  Approved' /\ StatusHasRecord'
  <2>1. p \in Patch /\ {"cli_patch", "mcp_patch"} \subseteq Kind /\ FALSE \in BOOLEAN
        /\ File \in SUBSET File /\ "plan" \in {"plan", "record"}
    BY PatchAssumption DEF Kind
  <2>2. \/ Start(w, "cli_patch", p, FALSE, FALSE, d, File, "plan")
        \/ Start(w, "mcp_patch", p, FALSE, FALSE, d, File, "plan")
    BY <1>4 DEF BeginRepoPatch, BeginMcpPatch
  <2>3. UNCHANGED <<status, records>>
    BY <2>2 DEF Start
  <2> QED
    BY <1>0, <1>2, <2>1, <2>2, <2>3, StartBacked
<1>5. ASSUME NEW w \in Worker, NEW p \in Commanded, NEW a \in BOOLEAN, NEW d \in BOOLEAN,
             NEW s \in Scope, BeginRepoRun(w, p, a, d, s)
      PROVE  Approved' /\ StatusHasRecord'
  <2>1. p \in Patch /\ "repo_run" \in Kind /\ FALSE \in BOOLEAN
        /\ s \in SUBSET File /\ "plan" \in {"plan", "record"}
    BY PatchAssumption DEF Kind
  <2>2. Start(w, "repo_run", p, FALSE, FALSE, d, s, "plan")
    BY <1>5 DEF BeginRepoRun
  <2>3. UNCHANGED <<status, records>>
    BY <2>2 DEF Start
  <2> QED
    BY <1>0, <1>2, <2>1, <2>2, <2>3, StartBacked
<1>6. ASSUME NEW w \in Worker, Step(w)
      PROVE  Approved' /\ StatusHasRecord'
  <2>1. Backed(pc[w], job[w], records) /\ (pc[w] # "idle" => job[w] \in Job)
    BY <1>0 DEF Approved, TypeOK
  <2>2. CASE UNCHANGED <<status, records>>
    BY <1>2, <1>6, <2>2, StepApproved
  <2>3. CASE SaveRecord(w)
    <3> DEFINE r == [patch |-> job[w].patch, applied |-> job[w].applied,
                     verifier |-> job[w].verifier, guardian |-> job[w].guardian]
    <3>1. records' = records \cup {r} /\ status' = status
          /\ (r.applied => r.verifier /\ r.guardian /\ SameFiles(r.patch))
      BY <2>1, <2>3 DEF SaveRecord, Backed
    <3> HIDE DEF r
    <3>2. StatusHasRecord'
      BY <1>0, <3>1 DEF StatusHasRecord, SameFiles, Path, Width
    <3> QED
      BY <1>6, <3>2, StepApproved
  <2>4. CASE SetStatus(w)
    <3>1. /\ records' = records /\ job[w] \in Job
          /\ status' = [status EXCEPT ![job[w].patch] = IF job[w].applied THEN "applied" ELSE "denied"]
          /\ \E r \in records : r.patch = job[w].patch /\ r.applied = job[w].applied
      BY <2>1, <2>4 DEF SetStatus, Patching, Backed
    <3>2. job[w].patch \in Patch /\ job[w].applied \in BOOLEAN
      BY <3>1 DEF Job
    <3>3. \A p \in Patch : status'[p] \in {"applied", "denied"} =>
            \E r \in records : r.patch = p /\ r.applied = (status'[p] = "applied")
      <4> TAKE p \in Patch
      <4>1. CASE p = job[w].patch
        BY <3>1, <3>2, <4>1 DEF TypeOK
      <4>2. CASE p # job[w].patch
        BY <1>0, <3>1, <4>2 DEF StatusHasRecord, TypeOK
      <4> QED
        BY <4>1, <4>2
    <3>4. StatusHasRecord'
      BY <1>0, <3>1, <3>3 DEF StatusHasRecord, SameFiles, Path, Width
    <3> QED
      BY <1>6, <3>4, StepApproved
  <2> QED
    BY <1>6, <2>2, <2>3, <2>4 DEF Step, Plan, Capture, Write, Accept, RollBack, Abandon, Restore
<1>7. ASSUME NEW w \in Worker, Die(w) \/ RollbackFails(w)
      PROVE  Approved' /\ StatusHasRecord'
  <2>1. /\ UNCHANGED <<status, records>> /\ "idle" \in Phase
        /\ \/ Advance(w, "idle", None)
           \/ pc[w] = "rollback" /\ Advance(w, Refused(job[w]), job[w])
    BY <1>7 DEF Die, RollbackFails, Phase
  <2>2. Backed(pc[w], job[w], records) /\ (pc[w] # "idle" => job[w] \in Job)
    BY <1>0 DEF Approved, TypeOK
  <2>3. pc[w] = "rollback" /\ Refused(job[w]) # "idle" => Backed(Refused(job[w]), job[w], records)
    BY <2>2 DEF Backed, Refused
  <2>4. Approved'
    BY <1>0, <2>1, <2>2, <2>3, RefusedPhase, AdvanceBacked
  <2> QED
    BY <1>2, <2>1, <2>4
<1>8. CASE CommitWorktree \/ UNCHANGED vars
  BY <1>0, <1>2, <1>8 DEF CommitWorktree, vars, Approved, Backed, SameFiles, Path, Width
<1> QED
  BY <1>1, <1>3, <1>4, <1>5, <1>6, <1>7, <1>8 DEF Next

(* No crash and no interleaving leaves a status without its record, or a     *)
(* record of an application that was not approved or not as proposed.        *)
THEOREM PatchesStatusHasRecord == Spec => []StatusHasRecord
<1>1. Init => TypeOK /\ WorkspaceInv /\ RecordInv
  <2>1. Init => RecordInv
    BY DEF Init, RecordInv, Approved, Backed, StatusHasRecord
  <2> QED
    BY <2>1, InitTyped, InitWorkspace
<1>2. TypeOK /\ WorkspaceInv /\ RecordInv /\ [Next]_vars => TypeOK' /\ WorkspaceInv' /\ RecordInv'
  BY StepTyped, StepWorkspace, StepRecord DEF WorkspaceInv
<1>3. RecordInv => StatusHasRecord
  BY DEF RecordInv
<1> QED
  BY <1>1, <1>2, <1>3, PTL DEF Spec

=============================================================================
