------------------------------ MODULE Gateway ------------------------------
(***************************************************************************)
(* MCP tool calls (vad/adapters/mcp.py, vad/control_plane/mcp_gateway.py)  *)
(* handled by several processes or threads at once: the events each call   *)
(* leaves in the ledger, the policy in front of the handlers, the file of  *)
(* retrospective memory the handlers read and rewrite, and the replay that *)
(* the dashboard makes of the ledger (vad/control_plane/projection.py).    *)
(***************************************************************************)
EXTENDS Integers, Sequences

CONSTANTS
  Proc,               \* processes and threads that handle calls
  Task,
  Requests,           \* what clients call: subset of Request
  Submissions,        \* events that clients post: subset of Submission
  Filed,              \* processes that run with VAD_RETRO_MEMORY_FILE
  Torn, None,
  MaxCalls, MaxSubmits

(* _GATEWAY_TOOLS: the role a tool asks for, and whether it is high-risk     *)
Gated(role, highRisk) == [role |-> role, highRisk |-> highRisk]
GatewayTools ==
  [validate_eip         |-> Gated("observer", FALSE),
   run_proofs           |-> Gated("verifier", FALSE),
   retro_analyze        |-> Gated("auditor", FALSE),
   query_retrospective  |-> Gated("observer", FALSE),
   submit_retrospective |-> Gated("auditor", FALSE),
   repo_assess          |-> Gated("observer", FALSE),
   repo_patch           |-> Gated("builder", TRUE),
   repo_run             |-> Gated("builder", TRUE),
   sign_verify          |-> Gated("release_guardian", TRUE),
   evidence_inspect     |-> Gated("observer", FALSE),
   provider_inventory   |-> Gated("observer", FALSE),
   provider_test        |-> Gated("verifier", FALSE),
   swarm_status         |-> Gated("observer", FALSE)]

(* The handlers that index an argument outside their try                     *)
Unguarded == {"validate_eip", "retro_analyze", "submit_retrospective", "provider_inventory"}

MemoryReaders == {"query_retrospective"}
MemoryWriters == {"submit_retrospective", "retro_analyze"}

(* recorded: the arguments name a database, a client and an actor; complete: *)
(* no required argument is missing; approved: a high-risk tool is approved;  *)
(* valid: the arguments make a GatewayToolVisibilityRequest.                 *)
Request == [tool : STRING, role : STRING, task : Task \cup {None}, approved : BOOLEAN,
            recorded : BOOLEAN, complete : BOOLEAN, valid : BOOLEAN]

EventStatus == {"active", "passed", "failed", "blocked", "needs_human", "stale"}
Submission == [task : Task \cup {None}, status : EventStatus, seq : Nat]

ASSUME GatewayAssumption ==
  /\ Requests \subseteq Request /\ Submissions \subseteq Submission
  /\ Filed \subseteq Proc
  /\ MaxCalls \in Nat /\ MaxSubmits \in Nat
  /\ None \notin 1..MaxCalls

(* An event of the ledger; call is None for one that a client submitted.     *)
CallStatus == {"active", "blocked", "passed", "failed"}
Event == [call : 1..MaxCalls \cup {None}, task : Task \cup {None},
          status : EventStatus, seq : Nat]

Phase == {"number", "append", "authorize", "handle", "persist", "fill"}
Call == [id : 1..MaxCalls, request : Requests, phase : Phase,
         todo : Seq(CallStatus), seq : Nat,
         loaded : SUBSET (1..MaxCalls)]

VARIABLES
  call,        \* [Proc -> call being handled, or idle]
  ledger,      \* control_plane_events, in the order they were inserted
  memory,      \* entries of the memory file, or Torn
  calls, submits,
  stored,      \* history: entries whose save has written the file
  overlapped,  \* history: entries whose load-to-write span met another's
  broken       \* history: calls that raised or whose process died

vars == <<call, ledger, memory, calls, submits, stored, overlapped, broken>>

Idle == [phase |-> "idle"]
Busy(p) == call[p].phase # "idle"

TypeOK ==
  /\ call \in [Proc -> Call \cup {Idle}]
  /\ ledger \in Seq(Event)
  /\ memory = Torn \/ memory \subseteq 1..MaxCalls
  /\ calls \in 0..MaxCalls /\ submits \in 0..MaxSubmits
  /\ {stored, overlapped, broken} \subseteq SUBSET (1..MaxCalls)

Init ==
  /\ call = [p \in Proc |-> Idle]
  /\ ledger = <<>> /\ memory = {}
  /\ calls = 0 /\ submits = 0
  /\ stored = {} /\ overlapped = {} /\ broken = {}

-----------------------------------------------------------------------------
(* Recording a call *)

Receive(p, r) ==
  /\ ~Busy(p) /\ calls < MaxCalls
  /\ calls' = calls + 1
  /\ call' = [call EXCEPT ![p] =
       [id |-> calls + 1, request |-> r,
        phase |-> IF r.recorded THEN "number" ELSE "authorize",
        todo |-> IF r.recorded THEN <<"active">> ELSE <<>>, seq |-> 0, loaded |-> {}]]
  /\ UNCHANGED <<ledger, memory, submits, stored, overlapped, broken>>

(* _next_event_sequence counts the events in a transaction of its own.       *)
Number(p) ==
  /\ call[p].phase = "number"
  /\ call' = [call EXCEPT ![p].seq = Len(ledger) + 1, ![p].phase = "append"]
  /\ UNCHANGED <<ledger, memory, calls, submits, stored, overlapped, broken>>

EventOf(c) == [call |-> c.id, task |-> c.request.task, status |-> Head(c.todo), seq |-> c.seq]

(* Mutant: the events recorded at the end of a call share one number.        *)
Recorded_SameNumber(c) ==
  IF Tail(c.todo) # <<>> THEN [c EXCEPT !.todo = Tail(@)]
  ELSE IF Head(c.todo) = "active" THEN [c EXCEPT !.todo = <<>>, !.phase = "authorize"]
  ELSE Idle

Recorded(c) ==
  IF Tail(c.todo) # <<>> THEN [c EXCEPT !.todo = Tail(@), !.phase = "number"]
  ELSE IF Head(c.todo) = "active" THEN [c EXCEPT !.todo = <<>>, !.phase = "authorize"]
  ELSE Idle

AppendEvent(p) ==
  /\ call[p].phase = "append"
  /\ ledger' = Append(ledger, EventOf(call[p]))
  /\ call' = [call EXCEPT ![p] = Recorded(@)]
  /\ UNCHANGED <<memory, calls, submits, stored, overlapped, broken>>

(* Mutant: an error result is not recorded.                                  *)
Concluded_OnlySuccess(c, ok) ==
  IF c.request.recorded /\ ok THEN [c EXCEPT !.todo = <<"passed">>, !.phase = "number"]
  ELSE Idle

(* Mutant: a denial is recorded under a status that events do not have.      *)
Concluded_Denied(c, ok) ==
  IF c.request.recorded
    THEN [c EXCEPT !.todo = IF ok THEN <<"passed">> ELSE <<"policy_denied", "failed">>,
                   !.phase = "number"]
    ELSE Idle

(* What is still to be recorded of a call once its result is known: an error *)
(* is recorded as a denial and then as a failed finish.                      *)
Concluded(c, ok) ==
  IF c.request.recorded
    THEN [c EXCEPT !.todo = IF ok THEN <<"passed">> ELSE <<"blocked", "failed">>,
                   !.phase = "number"]
    ELSE Idle

Conclude(p, ok) == call' = [call EXCEPT ![p] = Concluded(@, ok)]

-----------------------------------------------------------------------------
(* The policy and the handlers *)

(* A tool that is not in the registry is visible to nobody.                  *)
Visible(r) ==
  /\ r.tool \in DOMAIN GatewayTools
  /\ LET tool == GatewayTools[r.tool]
     IN \/ tool.role = "observer"
        \/ r.role = tool.role /\ (tool.highRisk => r.approved)

Authorize(p) ==
  /\ call[p].phase = "authorize" /\ call[p].request.valid
  /\ IF Visible(call[p].request)
       THEN call' = [call EXCEPT ![p].phase = "handle"]
       ELSE Conclude(p, FALSE)
  /\ UNCHANGED <<ledger, memory, calls, submits, stored, overlapped, broken>>

(* An exception that handle_tool_call lets through: the call is not recorded *)
(* any further.                                                              *)
BreakOff(p) ==
  /\ broken' = broken \cup {call[p].id}
  /\ call' = [call EXCEPT ![p] = Idle]
  /\ UNCHANGED <<ledger, memory, calls, submits, stored, overlapped>>

(* Arguments with an identifier that is not safe or too long do not validate.*)
AuthorizeRaises(p) == call[p].phase = "authorize" /\ ~call[p].request.valid /\ BreakOff(p)

(* A required argument that is missing raises out of the handler.            *)
Raises(c) == c.request.tool \in Unguarded /\ ~c.request.complete

HandlerRaises(p) == call[p].phase = "handle" /\ Raises(call[p]) /\ BreakOff(p)

(* A handler that does not get to the memory; it turns its own failures into *)
(* an error result.  retro_analyze reads the evidence bundle first.          *)
Handle(p, ok) ==
  /\ call[p].phase = "handle" /\ ~Raises(call[p])
  /\ \/ call[p].request.tool \notin MemoryReaders \cup MemoryWriters
     \/ call[p].request.tool = "retro_analyze" /\ ~ok
  /\ Conclude(p, ok)
  /\ UNCHANGED <<ledger, memory, calls, submits, stored, overlapped, broken>>

(* LocalMemoryStore loads the file when it is made, once per call; a file    *)
(* that does not parse is an error result.  Without VAD_RETRO_MEMORY_FILE it *)
(* starts empty.                                                             *)
Readable == memory # Torn
Loads(p) == p \in Filed => Readable
Writing(q) == call[q].phase = "fill" \/ (call[q].phase = "persist" /\ q \in Filed)

LoadMemory(p) ==
  /\ call[p].phase = "handle" /\ ~Raises(call[p])
  /\ call[p].request.tool \in MemoryReaders \cup MemoryWriters
  /\ IF ~Loads(p) \/ call[p].request.tool \in MemoryReaders
       THEN Conclude(p, Loads(p)) /\ UNCHANGED overlapped
       ELSE /\ call' = [call EXCEPT ![p].loaded = IF p \in Filed THEN memory ELSE {},
                                    ![p].phase = "persist"]
            /\ LET met == {q \in Proc : Writing(q)}
               IN overlapped' = IF met = {} \/ p \notin Filed THEN overlapped
                                ELSE overlapped \cup {call[q].id : q \in met \cup {p}}
  /\ UNCHANGED <<ledger, memory, calls, submits, stored, broken>>

(* save refuses an entry over the size of its scope.                         *)
Oversized(p) ==
  /\ call[p].phase = "persist"
  /\ Conclude(p, FALSE)
  /\ UNCHANGED <<ledger, memory, calls, submits, stored, overlapped, broken>>

(* Without a file _persist returns at once: the call succeeds, and the entry *)
(* is gone with the store at its end.                                        *)
PersistNothing(p) ==
  /\ call[p].phase = "persist" /\ p \notin Filed
  /\ Conclude(p, TRUE)
  /\ UNCHANGED <<ledger, memory, calls, submits, stored, overlapped, broken>>

(* _persist opens the file, which empties it, and then writes all entries.   *)
Truncate(p) ==
  /\ call[p].phase = "persist" /\ p \in Filed
  /\ memory' = Torn
  /\ call' = [call EXCEPT ![p].phase = "fill"]
  /\ UNCHANGED <<ledger, calls, submits, stored, overlapped, broken>>

(* Mutant: the file is written with the new entry alone.                     *)
NewMemory_Alone(c) == {c.id}

(* Where another writer has filled the file since, its longer text may stick *)
(* out behind the end of this one.                                           *)
NewMemory(c) == c.loaded \cup {c.id}

Fill(p) ==
  /\ call[p].phase = "fill"
  /\ \/ memory' = NewMemory(call[p])
     \/ memory # Torn /\ memory' = Torn
  /\ stored' = stored \cup {call[p].id}
  /\ Conclude(p, TRUE)
  /\ UNCHANGED <<ledger, calls, submits, overlapped, broken>>

(* The process that handles a call dies, or the ledger's database refuses    *)
(* it; the memory file stays as it is.                                       *)
Die(p) == Busy(p) /\ BreakOff(p)

(* A client posts an event of its own, with a task, a status and a sequence  *)
(* number of its choice; a privileged kind without the role leaves a blocked *)
(* event under the same task and number instead.                             *)
Submit(e, privileged, entitled) ==
  /\ submits < MaxSubmits
  /\ submits' = submits + 1
  /\ ledger' = Append(ledger,
       [call |-> None, task |-> e.task, seq |-> e.seq,
        status |-> IF privileged /\ ~entitled THEN "blocked" ELSE e.status])
  /\ UNCHANGED <<call, memory, calls, stored, overlapped, broken>>

Next ==
  \/ \E p \in Proc :
       \/ \E r \in Requests : Receive(p, r)
       \/ Number(p) \/ AppendEvent(p) \/ Authorize(p) \/ AuthorizeRaises(p)
       \/ HandlerRaises(p) \/ LoadMemory(p) \/ Oversized(p) \/ PersistNothing(p)
       \/ Truncate(p) \/ Fill(p) \/ Die(p)
       \/ \E ok \in BOOLEAN : Handle(p, ok)
  \/ \E e \in Submissions, x, y \in BOOLEAN : Submit(e, x, y)

Spec == Init /\ [][Next]_vars

-----------------------------------------------------------------------------
(* Properties *)

Stage(e) == CASE e.status = "active" -> 1 [] e.status = "blocked" -> 2 [] OTHER -> 3

(* The dashboard replays the ledger by sequence number, and the numbers are  *)
(* counted before the event is inserted, so events of different calls may    *)
(* share one or come in the wrong order.  The events of one call never do:   *)
(* its start is replayed before its denial and that before its finish.       *)
(* (McpToolCallRecorder._emit, build_dashboard_projection)                   *)
ReplayKeepsCallOrder ==
  \A i, j \in DOMAIN ledger :
    (ledger[i].call # None /\ ledger[i].call = ledger[j].call
       /\ Stage(ledger[i]) < Stage(ledger[j])) => ledger[i].seq < ledger[j].seq

(* The task board shows of each task the event that is replayed last.  Where *)
(* that is an event of a call which has ended, it is the finish of the call, *)
(* never its start or its denial, however the calls interleave and whatever  *)
(* clients post under the same task.  Excepted are calls that broke off: one *)
(* whose process died, or whose arguments made the policy or the handler     *)
(* raise, has no finish and may stand as active.  What a client posts itself *)
(* is shown as it is.  (build_dashboard_projection over what                 *)
(* handle_tool_call records and ControlPlaneEventService.ingest appends)     *)
Shown(i) ==
  /\ ledger[i].task # None
  /\ \A j \in DOMAIN ledger : ledger[j].task = ledger[i].task => ledger[j].seq <= ledger[i].seq

BoardSettles ==
  \A i \in DOMAIN ledger :
    Shown(i) /\ ledger[i].call # None =>
      \/ Stage(ledger[i]) = 3
      \/ ledger[i].call \in broken
      \/ \E p \in Proc : Busy(p) /\ call[p].id = ledger[i].call

(* A learning that a save has written stays in the memory file, as long as   *)
(* the file is readable, unless its load-to-write span met another's: calls  *)
(* one after another never lose one, whichever processes handle them, and    *)
(* processes that run without a file disturb none.                           *)
(* (LocalMemoryStore, handle_submit_retrospective, handle_retro_analyze)     *)
LearningsSurvive == Readable => stored \ overlapped \subseteq memory
=============================================================================
