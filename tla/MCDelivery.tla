----------------------------- MODULE MCDelivery -----------------------------
(* A small instance of Delivery for TLC. *)
EXTENDS Delivery

CONSTANTS e1, e2, e3, o1, o2, latency, errors, t1, a1, a2, ls

(* e1 has two obligations and releases on latency; e2 has the version of e1, *)
(* a manual gate in place of o2 and releases on errors; e3 has criteria but  *)
(* no obligation, and no budget.                                             *)
MCObligations(e) == IF e = e3 THEN {} ELSE {o1, o2}
MCManualGates(e) == IF e = e2 THEN {o2} ELSE {}
MCVersionOf(e) == "1.0"
MCGates(e) == CASE e = e1 -> {latency} [] e = e2 -> {errors} [] OTHER -> {}

(* A plan that forgets o2, and one that runs it with a command the guard     *)
(* refuses.                                                                  *)
MCEditedPlan ==
  {[version |-> "1.0", digest |-> e1, commands |-> (o1 :> Pytest), manual |-> {}],
   [version |-> "1.0", digest |-> e2, commands |-> (o1 :> Pytest) @@ (o2 :> ls), manual |-> {}]}

MCReports == {[m \in Metric |-> "healthy"],
              (latency :> "low") @@ (errors :> "healthy"),
              (latency :> "healthy") @@ (errors :> "unreported")}

MCEffort == {[mees |-> 80, spread |-> FALSE, dependency |-> FALSE],
             [mees |-> 40, spread |-> FALSE, dependency |-> FALSE]}

Deploy(a, production, approval, rollback) ==
  [target |-> t1, artifact |-> a, production |-> production, approval |-> approval,
   telemetry |-> production, rollback |-> rollback]
MCDemoPlan == Deploy(a2, FALSE, FALSE, TRUE)
MCDeploymentPlan == {Deploy(a1, TRUE, FALSE, TRUE), Deploy(a2, FALSE, FALSE, TRUE)}
=============================================================================
