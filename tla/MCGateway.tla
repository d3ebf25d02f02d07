----------------------------- MODULE MCGateway -----------------------------
(* A small instance of Gateway for TLC. *)
EXTENDS Gateway, TLC

CONSTANT k1

Asks(t, r, approved, recorded, complete) ==
  [tool |-> t, role |-> r, task |-> k1, approved |-> approved,
   recorded |-> recorded, complete |-> complete, valid |-> TRUE]

(* Learnings submitted with and without a record, one without its text and   *)
(* one by an observer; an analysis; a query; a signature check with and      *)
(* without approval; a tool that does not exist; and a call with no task     *)
(* whose arguments are not valid.                                            *)
MCRequests ==
  {Asks("submit_retrospective", "auditor", FALSE, TRUE, TRUE),
   Asks("submit_retrospective", "auditor", FALSE, FALSE, TRUE),
   Asks("submit_retrospective", "auditor", FALSE, TRUE, FALSE),
   Asks("submit_retrospective", "observer", FALSE, TRUE, TRUE),
   Asks("retro_analyze", "auditor", FALSE, TRUE, TRUE),
   Asks("query_retrospective", "observer", FALSE, TRUE, TRUE),
   Asks("sign_verify", "release_guardian", FALSE, TRUE, TRUE),
   Asks("sign_verify", "release_guardian", TRUE, TRUE, TRUE),
   Asks("unknown_tool", "observer", FALSE, TRUE, TRUE),
   [Asks("swarm_status", "observer", FALSE, TRUE, TRUE) EXCEPT !.valid = FALSE, !.task = None]}

(* A heartbeat and a result on the task of the calls, and a message with no  *)
(* task, among and before their numbers.                                     *)
MCSubmissions ==
  {[task |-> k1, status |-> "active", seq |-> 3], [task |-> k1, status |-> "passed", seq |-> 2],
   [task |-> None, status |-> "needs_human", seq |-> 0]}

ProcSymmetry == Permutations(Filed)
=============================================================================
