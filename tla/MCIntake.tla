------------------------------ MODULE MCIntake ------------------------------
(***************************************************************************)
(* The bot is assigned to an issue, a client starts a run of its own, and  *)
(* a mention on an issue with a terminal label must not start anything; in *)
(* the other instance a human answers the bot's question on the issue.     *)
(***************************************************************************)
EXTENDS Intake, TLC

CONSTANTS c1, c2, i1

MCCallers == {c1, c2}
MCIssues == {i1}
CallerSymmetry == Permutations(MCCallers)
Q(a, l, b, h, i) == [action |-> a, labels |-> l, bot |-> b, human |-> h, issue |-> i]
Assigned == Q("assigned", {}, TRUE, FALSE, i1)
Answered == Q("comment", {AWAITING_RESPONSE_LABEL}, FALSE, TRUE, i1)
Mentioned == Q("comment", {"aidlc:in-progress"}, TRUE, TRUE, i1)
Api == Q("api", {}, FALSE, FALSE, NoIssue)
ThreeKeys == 1..3
RetriedRequests == <<Assigned, Api, Mentioned>>
IssueRequests == <<Assigned, Answered, Mentioned>>

World(b) == [k \in BudgetKinds |-> IF k \in DOMAIN b THEN b[k] ELSE 0]
Faults == World([call |-> 4, close |-> 1, reject |-> 1, ambiguous |-> 1, death |-> 1, expire |-> 1])
OneReject == World([call |-> 2, reject |-> 1, expire |-> 1])
TwoTriggers == World([call |-> 2, close |-> 1])
=============================================================================
