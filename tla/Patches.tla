------------------------------ MODULE Patches ------------------------------
(***************************************************************************)
(* Unified diffs applied to a workspace: diff proposals applied through    *)
(* the API (vad/server/api/diff_proposals.py, vad/repo/diff_workflow.py)   *)
(* and the `repo patch` and `repo run` commands of the CLI and the MCP     *)
(* adapter, all over apply_unified_diff and its journal.  Each worker is a *)
(* request thread or a command; a step reads or writes one file or row.    *)
(***************************************************************************)
EXTENDS Integers, Sequences, FiniteSets

CONSTANTS
  Worker,          \* request threads and command processes
  File,            \* the files of the workspace
  Outside,         \* a path that resolves outside the workspace root
  Line,            \* the lines of files
  Content,         \* what a file may hold: sequences of lines
  Patch,           \* the patches
  Proposed,        \* those submitted as diff proposals
  Commanded,       \* those given to the repo commands
  DiffOf,          \* [Patch -> Seq(FilePatch)]: the parsed patch text
  Declared,        \* [Patch -> Seq(File)]: changed_files of the proposal
  InitialFile,     \* the workspace as checked out
  Manifest,        \* the dependency manifests among the files
  Scope,           \* the scopes `repo run --scope` may be given
  Absent, NoFit, Unknown, None,
  SmallHunk,       \* the hunks _apply_hunks is compared with its meaning on
  MaxJobs,         \* bound on applications started
  MaxFaults        \* bound on crashes and failed writes

VARIABLES
  file,      \* the workspace
  head,      \* the workspace as last committed to git
  status,    \* diff_proposals.status
  records,   \* diff_apply_records
  pc, job,   \* what each worker does next, and on what
  jobs, faults,
  base,      \* history: what the patches taken so far should have left
  tainted    \* history: files hit by a fault or by two patches at a time

vars == <<file, head, status, records, pc, job, jobs, faults, base, tainted>>

-----------------------------------------------------------------------------
(* Hunks *)

(* Mutant: context and removed lines are not compared with the original.     *)
ApplyLine_IgnoresText(original, s, l) ==
  CASE ~s.ok \/ l.mark = "\\" -> s
    [] s.ok /\ l.mark \in {" ", "-"} /\ s.cursor < Len(original) ->
         [s EXCEPT !.out = IF l.mark = " " THEN Append(@, l.text) ELSE @, !.cursor = @ + 1]
    [] s.ok /\ l.mark = "+" -> [s EXCEPT !.out = Append(@, l.text)]
    [] OTHER -> [s EXCEPT !.ok = FALSE]

(* One line of a hunk at a time: context and removed lines must be the next  *)
(* line of the original.                                                     *)
ApplyLine(original, s, l) ==
  CASE ~s.ok \/ l.mark = "\\" -> s
    [] s.ok /\ l.mark \in {" ", "-"} /\ s.cursor < Len(original)
         /\ original[s.cursor + 1] = l.text ->
         [s EXCEPT !.out = IF l.mark = " " THEN Append(@, l.text) ELSE @, !.cursor = @ + 1]
    [] s.ok /\ l.mark = "+" -> [s EXCEPT !.out = Append(@, l.text)]
    [] OTHER -> [s EXCEPT !.ok = FALSE]

ApplyHunk(original, s, h) ==
  LET target == IF h.start < 1 THEN 0 ELSE h.start - 1
      begun == [s EXCEPT !.out = @ \o SubSeq(original, s.cursor + 1, target), !.cursor = target]
      after[n \in 0..Len(h.body)] ==
        IF n = 0 THEN begun ELSE ApplyLine(original, after[n - 1], h.body[n])
  IN IF ~s.ok \/ target < s.cursor \/ target > Len(original)
     THEN [s EXCEPT !.ok = FALSE]
     ELSE after[Len(h.body)]

ApplyHunks(original, hunks) ==
  LET after[n \in 0..Len(hunks)] ==
        IF n = 0 THEN [out |-> <<>>, cursor |-> 0, ok |-> TRUE]
                 ELSE ApplyHunk(original, after[n - 1], hunks[n])
      end == after[Len(hunks)]
  IN IF end.ok THEN end.out \o SubSeq(original, end.cursor + 1, Len(original)) ELSE NoFit

-----------------------------------------------------------------------------
(* What the hunks of a unified diff mean, with no walk over lines *)

Hunk == [start : Int, body : Seq([mark : STRING, text : Line])]
Mark == {" ", "-", "+", "\\"}

(* The texts of the lines with one of the marks, in their order.             *)
Side(h, marks) ==
  LET kept[n \in 0..Len(h.body)] ==
        IF n = 0 THEN <<>>
        ELSE IF h.body[n].mark \in marks THEN Append(kept[n - 1], h.body[n].text)
        ELSE kept[n - 1]
  IN kept[Len(h.body)]
Old(h) == Side(h, {" ", "-"})
New(h) == Side(h, {" ", "+"})

(* The first line of the old side, and the first one after it.  A hunk with  *)
(* an empty old side goes behind the line that its header names.             *)
First(h) == IF Old(h) = <<>> THEN h.start + 1 ELSE h.start
Cut(h) == First(h) + Len(Old(h))

(* The old side of a hunk is where its header says, at line from or later.   *)
Applies(original, from, h) ==
  /\ \A n \in 1..Len(h.body) : h.body[n].mark \in Mark
  /\ from <= First(h) /\ Cut(h) <= Len(original) + 1
  /\ SubSeq(original, First(h), Cut(h) - 1) = Old(h)

(* The original falls into kept parts and the old sides of the hunks, one    *)
(* after the other; the result is the same with the new sides.               *)
Behind(hunks, k) == IF k = 0 THEN 1 ELSE Cut(hunks[k])
Meaning(original, hunks) ==
  LET new[k \in 0..Len(hunks)] ==
        IF k = 0 THEN <<>>
        ELSE new[k - 1] \o SubSeq(original, Behind(hunks, k - 1), First(hunks[k]) - 1)
                       \o New(hunks[k])
  IN IF \A k \in 1..Len(hunks) : Applies(original, Behind(hunks, k - 1), hunks[k])
     THEN new[Len(hunks)] \o SubSeq(original, Behind(hunks, Len(hunks)), Len(original))
     ELSE NoFit

(* The headers on which _apply_hunks and unified diffs agree: with an empty  *)
(* old side it goes before the named line, right only at the top of a file.  *)
Anchored(h) == IF Old(h) = <<>> THEN h.start = 0 ELSE h.start >= 1

-----------------------------------------------------------------------------
(* Patches *)

Width(p) == Len(DiffOf[p])
Path(p, k) == DiffOf[p][k].path
Hunks(p, k) == DiffOf[p][k].hunks
Touches(p) == {Path(p, k) : k \in 1..Width(p)} \cap File

(* What the k-th file patch makes of a content.                              *)
Fit(p, k, c) == IF c = Absent THEN NoFit ELSE ApplyHunks(c, Hunks(p, k))

(* What the whole patch makes of a file: of several file patches for one     *)
(* path, all planned from the original, the last one written stays.          *)
Patched(p, f, c) ==
  Fit(p, CHOOSE k \in 1..Width(p) : Path(p, k) = f /\ \A j \in k + 1 .. Width(p) : Path(p, j) # f, c)

ASSUME PatchAssumption ==
  /\ Proposed \subseteq Patch /\ Commanded \subseteq Patch
  /\ Outside \notin File
  /\ Unknown \notin Content \cup {Absent, NoFit}
  /\ NoFit \notin Content \cup {Absent}
  /\ Content \subseteq Seq(Line) /\ <<>> \in Content
  /\ SmallHunk \subseteq Hunk /\ \A h \in SmallHunk : Anchored(h)
  /\ \A p \in Patch : /\ Width(p) \in Nat
                      /\ \A k \in 1..Width(p) : Path(p, k) \in File \cup {Outside}
  /\ \A p \in Patch : \A k \in 1..Width(p) : \A c \in Content : Fit(p, k, c) \in Content \cup {NoFit}
  /\ InitialFile \in [File -> Content \cup {Absent}]
  /\ Manifest \subseteq File /\ Scope \subseteq SUBSET File
  /\ MaxJobs \in Nat /\ MaxFaults \in Nat

Kind == {"proposal", "cli_patch", "mcp_patch", "repo_run"}
Phase == {"idle", "plan", "capture", "write", "decide", "rollback", "record", "status"}

(* A job: the approvals of a proposal, the flags of a command, the planned   *)
(* contents, the journal, the next file to write or to restore, the outcome. *)
Job == [kind : Kind, patch : Patch, verifier : BOOLEAN, guardian : BOOLEAN,
        deps : BOOLEAN, scope : SUBSET File, plan : Seq(Content),
        journal : Seq(Content \cup {Absent}), next : Nat, applied : BOOLEAN]
Record == [patch : Patch, applied : BOOLEAN, verifier : BOOLEAN, guardian : BOOLEAN]

TypeOK ==
  /\ file \in [File -> Content \cup {Absent}]
  /\ head \in [File -> Content \cup {Absent}]
  /\ status \in [Patch -> {"none", "proposed", "applied", "denied"}]
  /\ records \subseteq Record
  /\ pc \in [Worker -> Phase]
  /\ job \in [Worker -> Job \cup {None}]
  /\ \A w \in Worker : pc[w] # "idle" => job[w] \in Job
  /\ jobs \in 0..MaxJobs /\ faults \in 0..MaxFaults
  /\ base \in [File -> Content \cup {Absent}]
  /\ tainted \subseteq File

Init ==
  /\ file = InitialFile /\ head = InitialFile /\ base = InitialFile
  /\ status = [p \in Patch |-> "none"]
  /\ records = {} /\ tainted = {}
  /\ pc = [w \in Worker |-> "idle"]
  /\ job = [w \in Worker |-> None]
  /\ jobs = 0 /\ faults = 0

InFlight(w) == pc[w] \in {"plan", "capture", "write", "decide", "rollback"}
Busy(f) == \E w \in Worker : InFlight(w) /\ f \in Touches(job[w].patch)

-----------------------------------------------------------------------------
(* Starting *)

(* POST /diff-proposals; the status of a proposal is written again by apply. *)
Create(p) ==
  /\ status[p] = "none" /\ jobs < MaxJobs
  /\ status' = [status EXCEPT ![p] = "proposed"]
  /\ UNCHANGED <<file, head, records, pc, job, jobs, faults, base, tainted>>

Start(w, kind, p, verifier, guardian, deps, scope, phase) ==
  /\ pc[w] = "idle" /\ jobs < MaxJobs
  /\ jobs' = jobs + 1
  /\ pc' = [pc EXCEPT ![w] = phase]
  /\ job' = [job EXCEPT ![w] =
       [kind |-> kind, patch |-> p, verifier |-> verifier, guardian |-> guardian,
        deps |-> deps, scope |-> scope, plan |-> <<>>, journal |-> <<>>,
        next |-> 1, applied |-> FALSE]]
  /\ tainted' = IF phase = "plan" THEN tainted \cup {f \in Touches(p) : Busy(f)} ELSE tainted
  /\ UNCHANGED <<file, head, status, records, faults, base>>

ApprovalBlocked(verifier, guardian) == ~verifier \/ ~guardian

(* POST /diff-proposals/{id}/apply: the status of the proposal is not asked  *)
(* for, so an applied or denied proposal is applied again.                   *)
BeginApply(w, p, verifier, guardian) ==
  /\ status[p] # "none"
  /\ Start(w, "proposal", p, verifier, guardian, FALSE, File,
           IF ApprovalBlocked(verifier, guardian) THEN "record" ELSE "plan")

(* A dirty worktree blocks the patch unless that is allowed; a worktree git  *)
(* cannot tell about blocks it always.                                       *)
GitAllows(allowDirty) == file = head \/ allowDirty

(* vad repo patch: nothing is touched when the worktree blocks the patch.    *)
BeginRepoPatch(w, p, allowDirty, deps) ==
  /\ GitAllows(allowDirty)
  /\ Start(w, "cli_patch", p, FALSE, FALSE, deps, File, "plan")

BeginMcpPatch(w, p, allowDirty, deps) ==
  /\ GitAllows(allowDirty)
  /\ Start(w, "mcp_patch", p, FALSE, FALSE, deps, File, "plan")

(* vad repo run: an ask that needs a human, or a repository in which no      *)
(* proof command is found, ends the command here, before the patch is read.  *)
BeginRepoRun(w, p, allowDirty, deps, scope) ==
  /\ GitAllows(allowDirty)
  /\ Start(w, "repo_run", p, FALSE, FALSE, deps, scope, "plan")

-----------------------------------------------------------------------------
(* apply_unified_diff *)

Patching(w) == job[w].patch
Advance(w, phase, j) ==
  /\ pc' = [pc EXCEPT ![w] = phase]
  /\ job' = [job EXCEPT ![w] = IF phase = "idle" THEN None ELSE j]

(* Mutant: a refused proposal gets its status without a record.              *)
Refused_NoRecord(j) == IF j.kind = "proposal" THEN "status" ELSE "idle"

(* A patch that is refused: a proposal gets a record, a command ends.        *)
Refused(j) == IF j.kind = "proposal" THEN "record" ELSE "idle"

(* Mutant: hunks that do not fit are not noticed.                            *)
Plannable_AnyFit(p, k) == Path(p, k) # Outside

(* The k-th path is inside the workspace, exists, and its hunks fit.         *)
Plannable(p, k) == Path(p, k) # Outside /\ Fit(p, k, file[Path(p, k)]) # NoFit

(* One file is resolved, read and patched in memory.                         *)
Plan(w) ==
  LET j == job[w]
      k == Len(j.plan) + 1
  IN /\ pc[w] = "plan"
     /\ \/ Width(j.patch) = 0 /\ Advance(w, Refused(j), j)
        \/ k <= Width(j.patch) /\ ~Plannable(j.patch, k) /\ Advance(w, Refused(j), j)
        \/ /\ k <= Width(j.patch) /\ Plannable(j.patch, k)
           /\ Advance(w, IF k = Width(j.patch) THEN "capture" ELSE "plan",
                      [j EXCEPT !.plan = Append(@, Fit(j.patch, k, file[Path(j.patch, k)]))])
     /\ UNCHANGED <<file, head, status, records, jobs, faults, base, tainted>>

(* PatchJournal.capture reads the files again, one by one.                   *)
Capture(w) ==
  LET j == job[w]
      k == Len(j.journal) + 1
  IN /\ pc[w] = "capture"
     /\ Advance(w, IF k = Width(j.patch) THEN "write" ELSE "capture",
                [j EXCEPT !.journal = Append(@, file[Path(j.patch, k)])])
     /\ UNCHANGED <<file, head, status, records, jobs, faults, base, tainted>>

(* Mutant: only the first file is written.                                   *)
Write_FirstOnly(w) ==
  LET j == job[w]
  IN /\ pc[w] = "write"
     /\ file' = [file EXCEPT ![Path(j.patch, j.next)] = j.plan[j.next]]
     /\ Advance(w, "decide", [j EXCEPT !.next = @ + 1])
     /\ UNCHANGED <<head, status, records, jobs, faults, base, tainted>>

Write(w) ==
  LET j == job[w]
  IN /\ pc[w] = "write"
     /\ file' = [file EXCEPT ![Path(j.patch, j.next)] = j.plan[j.next]]
     /\ Advance(w, IF j.next = Width(j.patch) THEN "decide" ELSE "write", [j EXCEPT !.next = @ + 1])
     /\ UNCHANGED <<head, status, records, jobs, faults, base, tainted>>

-----------------------------------------------------------------------------
(* Deciding *)

(* The sorted lists agree: every file is named as often in both.             *)
SameFiles(p) ==
  \A f \in File : Cardinality({k \in 1..Width(p) : Path(p, k) = f})
                    = Cardinality({k \in DOMAIN Declared[p] : Declared[p][k] = f})

ProposalVerdict(p) == IF SameFiles(p) THEN {"accept"} ELSE {"rollback"}

DependencyDenied(j) == Touches(j.patch) \cap Manifest # {} /\ ~j.deps

(* The proofs of the plan pass or fail; a failure rolls back.                *)
RepoPatchVerdict(j) == IF DependencyDenied(j) THEN {"rollback"} ELSE {"accept", "rollback"}
McpPatchVerdict(j) == IF DependencyDenied(j) THEN {"rollback"} ELSE {"accept", "rollback"}

(* build_patch_plan raises for a file outside the scope, and the command     *)
(* ends there: what was written stays.                                       *)
OutOfScope(j) == ~(Touches(j.patch) \subseteq j.scope)
RepoRunVerdict(j) ==
  IF OutOfScope(j) THEN {"abandon"}
  ELSE IF DependencyDenied(j) THEN {"rollback"} ELSE {"accept", "rollback"}

Verdict(j) ==
  CASE j.kind = "proposal"  -> ProposalVerdict(j.patch)
    [] j.kind = "cli_patch" -> RepoPatchVerdict(j)
    [] j.kind = "mcp_patch" -> McpPatchVerdict(j)
    [] j.kind = "repo_run"  -> RepoRunVerdict(j)

Accept(w) ==
  LET j == job[w]
  IN /\ pc[w] = "decide" /\ "accept" \in Verdict(j)
     /\ Advance(w, Refused(j), [j EXCEPT !.applied = TRUE])
     /\ base' = [f \in File |-> IF f \in Touches(j.patch) THEN file[f] ELSE base[f]]
     /\ UNCHANGED <<file, head, status, records, jobs, faults, tainted>>

RollBack(w) ==
  /\ pc[w] = "decide" /\ "rollback" \in Verdict(job[w])
  /\ Advance(w, "rollback", [job[w] EXCEPT !.next = 1])
  /\ UNCHANGED <<file, head, status, records, jobs, faults, base, tainted>>

Abandon(w) ==
  /\ pc[w] = "decide" /\ "abandon" \in Verdict(job[w])
  /\ Advance(w, "idle", job[w])
  /\ tainted' = tainted \cup Touches(Patching(w))
  /\ UNCHANGED <<file, head, status, records, jobs, faults, base>>

(* Mutant: the rollback ends after the first snapshot.                       *)
Restore_FirstOnly(w) ==
  LET j == job[w]
  IN /\ pc[w] = "rollback"
     /\ file' = [file EXCEPT ![Path(j.patch, j.next)] = j.journal[j.next]]
     /\ Advance(w, Refused(j), [j EXCEPT !.next = @ + 1])
     /\ UNCHANGED <<head, status, records, jobs, faults, base, tainted>>

(* PatchJournal.rollback, one snapshot at a time.                            *)
Restore(w) ==
  LET j == job[w]
  IN /\ pc[w] = "rollback"
     /\ file' = [file EXCEPT ![Path(j.patch, j.next)] = j.journal[j.next]]
     /\ Advance(w, IF j.next = Width(j.patch) THEN Refused(j) ELSE "rollback",
                [j EXCEPT !.next = @ + 1])
     /\ UNCHANGED <<head, status, records, jobs, faults, base, tainted>>

-----------------------------------------------------------------------------
(* Recording: the apply record first, then the status of the proposal *)

SaveRecord(w) ==
  LET j == job[w]
  IN /\ pc[w] = "record"
     /\ records' = records \cup {[patch |-> j.patch, applied |-> j.applied,
                                  verifier |-> j.verifier, guardian |-> j.guardian]}
     /\ Advance(w, "status", j)
     /\ UNCHANGED <<file, head, status, jobs, faults, base, tainted>>

SetStatus(w) ==
  /\ pc[w] = "status"
  /\ status' = [status EXCEPT ![Patching(w)] = IF job[w].applied THEN "applied" ELSE "denied"]
  /\ Advance(w, "idle", None)
  /\ UNCHANGED <<file, head, records, jobs, faults, base, tainted>>

-----------------------------------------------------------------------------
(* Faults and the operator *)

(* The process dies, or a write raises OSError: the journal is gone with the *)
(* call, and the file being written may have been truncated.                 *)
Die(w) ==
  /\ pc[w] # "idle" /\ faults < MaxFaults
  /\ faults' = faults + 1
  /\ Advance(w, "idle", None)
  /\ \/ UNCHANGED file
     \/ /\ pc[w] \in {"write", "rollback"}
        /\ file' = [file EXCEPT ![Path(Patching(w), job[w].next)] = <<>>]
  /\ tainted' = IF pc[w] \in {"write", "decide", "rollback"}
                THEN tainted \cup Touches(Patching(w)) ELSE tainted
  /\ UNCHANGED <<head, status, records, jobs, base>>

(* rollback catches OSError and reports it: the rest is not restored.        *)
RollbackFails(w) ==
  /\ pc[w] = "rollback" /\ faults < MaxFaults
  /\ faults' = faults + 1
  /\ Advance(w, Refused(job[w]), job[w])
  /\ tainted' = tainted \cup Touches(Patching(w))
  /\ UNCHANGED <<file, head, status, records, jobs, base>>

(* The operator commits the worktree.                                        *)
CommitWorktree ==
  /\ head # file
  /\ head' = file
  /\ UNCHANGED <<file, status, records, pc, job, jobs, faults, base, tainted>>

Step(w) == Plan(w) \/ Capture(w) \/ Write(w) \/ Accept(w) \/ RollBack(w) \/ Abandon(w)
             \/ Restore(w) \/ SaveRecord(w) \/ SetStatus(w)

Next ==
  \/ \E p \in Proposed : Create(p)
  \/ \E w \in Worker, p \in Proposed, a, b \in BOOLEAN : BeginApply(w, p, a, b)
  \/ \E w \in Worker, p \in Commanded, a, d \in BOOLEAN : BeginRepoPatch(w, p, a, d)
  \/ \E w \in Worker, p \in Commanded, a, d \in BOOLEAN : BeginMcpPatch(w, p, a, d)
  \/ \E w \in Worker, p \in Commanded, a, d \in BOOLEAN, s \in Scope : BeginRepoRun(w, p, a, d, s)
  \/ \E w \in Worker : Step(w)
  \/ \E w \in Worker : Die(w) \/ RollbackFails(w)
  \/ CommitWorktree

Spec == Init /\ [][Next]_vars

-----------------------------------------------------------------------------
(* Properties *)

Misapplied ==
  {c \in Content : \E g, h \in SmallHunk : ApplyHunks(c, <<g, h>>) # Meaning(c, <<g, h>>)}

(* The cursor walk over the lines of a file agrees with that meaning: no     *)
(* content a file ever holds is misapplied by two small hunks, overlapping,  *)
(* out of order or past its end as they may be.  (_apply_hunks)              *)
HunksMeanWhatTheySay == \A f \in File : file[f] \notin Misapplied

(* As long as no fault and no second patch hits a file, it holds what the    *)
(* patches taken so far made of it whenever no patch of it is in flight:     *)
(* refused patches, rollbacks and retries leave no trace, and a crash before *)
(* the first write neither.  (apply_unified_diff, PatchJournal.rollback)     *)
CommittedIntact == \A f \in File : f \notin tainted /\ ~Busy(f) => file[f] = base[f]

(* The files move by whole patches only, each from a content it fits, and    *)
(* never by a patch that names a path outside the workspace.                 *)
(* (apply_approved_diff_proposal, repo_patch_command, repo_run_command)      *)
content == [f \in File |-> IF f \in tainted THEN Unknown ELSE base[f]]
Contained == {p \in Patch : \A k \in 1..Width(p) : Path(p, k) # Outside}
Workspace == INSTANCE PatchedWorkspace
               WITH content <- content, PathsOf <- Touches, Patched <- Patched,
                    File <- File, Patch <- Contained, Unknown <- Unknown
WholePatches == [][Workspace!Next]_content

(* Whatever the interleaving and wherever the process died, a status that    *)
(* says applied or denied has its apply record, and applied ones were        *)
(* approved by both roles and changed the files the proposal names.          *)
(* (DiffProposalService.apply)                                               *)
StatusHasRecord ==
  /\ \A p \in Patch : status[p] \in {"applied", "denied"} =>
       \E r \in records : r.patch = p /\ r.applied = (status[p] = "applied")
  /\ \A r \in records : r.applied => r.verifier /\ r.guardian /\ SameFiles(r.patch)
=============================================================================
