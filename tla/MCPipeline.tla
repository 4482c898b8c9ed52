----------------------------- MODULE MCPipeline -----------------------------
(***************************************************************************)
(* Two phases of a run are explored side by side, since the first          *)
(* multiplies the states of the second: from the request (StartLog, Init   *)
(* with later ids, so that MaxEvents leaves each phase its own bound), and *)
(* from the moment the PR of a programmatic run is projected and all that  *)
(* came before is consumed (PrLog), a state the first phase reaches.       *)
(* RevisionLog is a state the second one reaches.                          *)
(***************************************************************************)
EXTENDS Pipeline, TLC

CONSTANTS n1, n2

OneRouter == {n1}
TwoRouters == {n1, n2}
RouterSymmetry == Permutations(TwoRouters)
OneValidator == <<"reviewer">>
TwoValidators == <<"reviewer", "code_critic">>

World(b) == [k \in BudgetKinds |-> IF k \in DOMAIN b THEN b[k] ELSE 0]
Calm == [k \in BudgetKinds |-> 0]
StartFaults == World([beacon |-> 1, crash |-> 1, invoke |-> 1, agent_error |-> 1, loss |-> 1,
                      issue_closed |-> 1])
StaleStart == World([stale |-> 1, beacon |-> 1])
OneAgentError == World([agent_error |-> 1])
PrWorld == World([mention |-> 1, checks_failed |-> 1, redelivery |-> 1, agent_death |-> 1,
                  pr_closed |-> 1])
StalePr == World([stale |-> 1, invoke |-> 1])
OneStaleRead == World([stale |-> 1])
OneMention == World([mention |-> 1])
OneCrash == World([crash |-> 1])

Ev(i, t, a, g) == [id |-> i, type |-> t, arg |-> a, dlv |-> NoDelivery, trg |-> g]
PrEvents ==
  {Ev(1, "REQUEST.RECEIVED", "programmatic", 0), Ev(2, "ARCHITECT.DISPATCHED", "none", 0),
   Ev(3, "DESIGN.READY", "none", 0), Ev(4, "IMPLEMENTER.DISPATCHED", "none", 0),
   Ev(5, "IMPL_PR.OPENED", "none", 0)}
PrLog ==
  /\ log = PrEvents
  /\ bus = {} /\ lost = {} /\ beacons = 1 /\ sessions = {} /\ misled = FALSE
  /\ routers = [r \in Routers |-> Idle]
  /\ clock = 6
StartLog ==
  /\ \E k \in RequestKinds : bus = {Ev(4, "REQUEST.RECEIVED", k, 0)}
  /\ log = {} /\ lost = {} /\ beacons = 0 /\ sessions = {} /\ misled = FALSE
  /\ routers = [r \in Routers |-> Idle]
  /\ clock = 5
PhasesSpec == /\ \/ StartLog /\ budget \in {StartFaults, StaleStart}
                 \/ PrLog /\ budget \in {PrWorld, StalePr}
              /\ [][Next]_vars

\* The loop from an open PR on, and from the running revision on with a read
\* that misses rows; a run from its request is followed up to its PR.
RevisionLog ==
  /\ log = PrEvents \cup {Ev(6, "VALIDATORS.DISPATCHED", "none", 5),
                          Ev(7, "REVIEW.READY", "request_changes", 0),
                          Ev(8, "IMPLEMENTER.DISPATCHED", "none", 7)}
  /\ bus = {} /\ lost = {} /\ beacons = 0 /\ misled = FALSE
  /\ sessions = {[runtime |-> "implementer", mode |-> "revision", marker |-> 8]}
  /\ routers = [r \in Routers |-> Idle]
  /\ clock = 9
LiveNext == Next /\ (PrTracked => Says(log, "REQUEST.RECEIVED", "programmatic"))
LiveSpec == /\ \/ StartLog /\ budget \in {OneAgentError, OneStaleRead}
               \/ PrLog /\ budget = Calm
               \/ RevisionLog /\ budget = OneStaleRead
            /\ [][LiveNext]_vars /\ Fairness
=============================================================================
