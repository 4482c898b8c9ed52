------------------------------- MODULE Events -------------------------------
(***************************************************************************)
(* The vocabulary of the platform bus: the event types of common/events.py *)
(* and the part of each payload that a decision anywhere in the system     *)
(* looks at.  An event is a record with at least                           *)
(*    id    its event_id; a UUID7, so ids order events by minting time     *)
(*    type  its EventType                                                  *)
(*    arg   the one payload field that decide() branches on: whether the   *)
(*          request names a source issue, the triage action, the reviewer  *)
(*          verdict; "none" for every other type                           *)
(***************************************************************************)
EXTENDS Naturals

TERMINAL_EVENTS == {"RUN.COMPLETED", "RUN.FAILED", "RUN.CANCEL_REQUESTED"}

Agents == {"triage", "architect", "implementer", "validators", "proposer"}

DISPATCH_MARKERS ==
  [a \in Agents |-> CASE a = "triage"      -> "TRIAGE.DISPATCHED"
                      [] a = "architect"   -> "ARCHITECT.DISPATCHED"
                      [] a = "implementer" -> "IMPLEMENTER.DISPATCHED"
                      [] a = "validators"  -> "VALIDATORS.DISPATCHED"
                      [] a = "proposer"    -> "PROPOSER.DISPATCHED"]

MarkerTypes == {"TRIAGE.DISPATCHED", "ARCHITECT.DISPATCHED", "IMPLEMENTER.DISPATCHED",
                "VALIDATORS.DISPATCHED", "PROPOSER.DISPATCHED"}

\* The events a GitHub webhook produces and whose payload carries the
\* X-GitHub-Delivery header as delivery_id.
WebhookTypes == {"IMPL.ITERATION_REQUESTED", "VALIDATION.REQUESTED",
                 "CHECKS.PASSED", "CHECKS.FAILED"}

AgentResults == {"ISSUE.TRIAGED", "DESIGN.READY", "IMPL_PR.OPENED", "REVIEW.READY",
                 "TEST_REPORT.READY", "CODE_CRITIQUE.READY", "REVISION.READY"}

EventTypes == {"REQUEST.RECEIVED", "EVAL.DRIFT_DETECTED"}
                \cup WebhookTypes \cup MarkerTypes \cup AgentResults \cup TERMINAL_EVENTS

CANCEL_TRIAGE_ACTIONS == {"ask", "defer", "decline"}
TriageActions == CANCEL_TRIAGE_ACTIONS \cup {"proceed", "research"}
ReviewVerdicts == {"approve", "request_changes", "comment"}

\* delivery_id of the payloads that carry none.
NoDelivery == 0

\* Two envelopes of one run that GitHub produced by delivering one webhook
\* twice: the second delivery mints a fresh event_id, so only the delivery id
\* and the type give the duplicate away.
SameDelivery(e, f) == e.dlv # NoDelivery /\ e.dlv = f.dlv /\ e.type = f.type

\* Two envelopes of which the runs table keeps only one.
SameRow(e, f) == e.run = f.run /\ (e.id = f.id \/ SameDelivery(e, f))

\* What an event of each type may carry in arg.
ArgsOf(type) ==
  CASE type = "REQUEST.RECEIVED" -> {"issue", "programmatic"}
    [] type = "ISSUE.TRIAGED"    -> TriageActions
    [] type = "REVIEW.READY"     -> ReviewVerdicts
    [] OTHER                     -> {"none"}
=============================================================================
