------------------------------- MODULE Decide -------------------------------
(***************************************************************************)
(* The state router's pure decision function (state_router/decide.py).     *)
(* The handler hands decide() the run's event rows sorted by event_id; ids *)
(* are unique (they are the rows' sort key), so a log is a finite set of   *)
(* events with distinct ids and every positional question of the code is a *)
(* question about ids: the tail is the event with the largest id, "after"  *)
(* is a larger id.                                                         *)
(***************************************************************************)
EXTENDS Events, FiniteSets

CONSTANTS MAX_REVISIONS,        \* ceiling on automated revision passes (3)
          REVISION_COUNT_LIMIT  \* le= bound of RunFailed.revision_count (16)

ASSUME RevisionBoundsAssumption ==
  MAX_REVISIONS \in Nat /\ REVISION_COUNT_LIMIT \in Nat

OfType(log, type) == {e \in log : e.type = type}
Has(log, type) == \E e \in log : e.type = type
first_of(log, type) ==
  CHOOSE e \in OfType(log, type) : \A f \in OfType(log, type) : e.id <= f.id
Latest(log) == CHOOSE e \in log : \A f \in log : f.id <= e.id
has_event_after(log, type, after) == \E e \in log : e.type = type /\ e.id > after

has_source_issue(log) == first_of(log, "REQUEST.RECEIVED").arg = "issue"
\* Mutant: counts validation passes by the tester's reports.
current_revision_number_by_reports(log) ==
  Cardinality(OfType(log, "REVISION.READY") \cup OfType(log, "TEST_REPORT.READY"))
current_revision_number(log) == Cardinality(OfType(log, "REVISION.READY"))

(***************************************************************************)
(* Actions.  "raise" is the exception pydantic raises when decide() builds *)
(* a payload outside its declared bounds.  trigger is the trigger_event_id *)
(* the decision was made for, 0 for the steps before the PR.               *)
(***************************************************************************)
Noop == [kind |-> "noop"]
Raise == [kind |-> "raise"]
EmitEvent(type) == [kind |-> "emit", type |-> type]
InvokeAgent(agent, mode, rev, trigger) ==
  [kind |-> "invoke", agent |-> agent, mode |-> mode, rev |-> rev, trigger |-> trigger]

Actions ==
  {Noop, Raise} \cup {EmitEvent(t) : t \in TERMINAL_EVENTS}
    \cup [kind : {"invoke"}, agent : Agents, mode : {"implementation", "revision"},
          rev : Nat, trigger : Nat]

\* Before the PR: the agent runs once per run, a marker anywhere settles it.
InvokeOnce(log, agent) ==
  IF Has(log, DISPATCH_MARKERS[agent]) THEN Noop
  ELSE InvokeAgent(agent, "implementation", 0, 0)

\* Mutants: dispatches without looking for the marker; accepts a marker of any
\* earlier trigger, the rule that holds before the PR.
InvokeForTrigger_blind(log, agent, mode, rev, trigger) == InvokeAgent(agent, mode, rev, trigger)
InvokeForTrigger_once(log, agent, mode, rev, trigger) ==
  IF Has(log, DISPATCH_MARKERS[agent]) THEN Noop ELSE InvokeAgent(agent, mode, rev, trigger)

\* After the PR: the marker must be later than the triggering event.
InvokeForTrigger(log, agent, mode, rev, trigger) ==
  IF has_event_after(log, DISPATCH_MARKERS[agent], trigger) THEN Noop
  ELSE InvokeAgent(agent, mode, rev, trigger)

emit_cancel(log) ==
  IF Has(log, "RUN.CANCEL_REQUESTED") THEN Noop ELSE EmitEvent("RUN.CANCEL_REQUESTED")

emit_revision_cap_reached(log) ==
  IF current_revision_number(log) > REVISION_COUNT_LIMIT THEN Raise
  ELSE EmitEvent("RUN.FAILED")

revise(log, trigger, capped) ==
  LET n == current_revision_number(log) + 1 IN
  IF capped /\ n > MAX_REVISIONS THEN emit_revision_cap_reached(log)
  ELSE InvokeForTrigger(log, "implementer", "revision", n, trigger.id)

events_since_last_validation(log) ==
  {e \in log : \A v \in OfType(log, "VALIDATORS.DISPATCHED") : v.id < e.id}

\* Mutant: sees a verdict only while it is the newest event.
pending_blocking_review_at_tail(log) ==
  {r \in events_since_last_validation(log) :
     r.type = "REVIEW.READY" /\ r.arg = "request_changes" /\ r = Latest(log)}

\* The current pass's latest verdict, as the set of that one review (or {}).
pending_blocking_review(log) ==
  LET reviews == OfType(events_since_last_validation(log), "REVIEW.READY") IN
  {r \in reviews : r.arg = "request_changes" /\ \A s \in reviews : s.id <= r.id}

decide_after_pr_open(log) ==
  LET last == Latest(log)
      blocking == pending_blocking_review(log)
  IN CASE last.type \in {"IMPL.ITERATION_REQUESTED", "CHECKS.FAILED"} ->
            revise(log, last, last.type = "CHECKS.FAILED")
       [] last.type \in {"IMPL_PR.OPENED", "REVISION.READY", "VALIDATION.REQUESTED"} ->
            InvokeForTrigger(log, "validators", "implementation",
                             current_revision_number(log), last.id)
       [] OTHER ->
            IF blocking = {} THEN Noop
            ELSE revise(log, CHOOSE r \in blocking : TRUE, TRUE)

decide_after_design(log) ==
  IF Has(log, "IMPL_PR.OPENED") THEN decide_after_pr_open(log)
  ELSE InvokeOnce(log, "implementer")

\* Mutant: does not wait for the design.
ArchitectThenImplement_no_wait(log) == decide_after_design(log)

ArchitectThenImplement(log) ==
  IF Has(log, "DESIGN.READY") THEN decide_after_design(log)
  ELSE InvokeOnce(log, "architect")

decide_after_triage(log) ==
  LET action == first_of(log, "ISSUE.TRIAGED").arg IN
  CASE action \in CANCEL_TRIAGE_ACTIONS -> emit_cancel(log)
    [] action = "research"              -> InvokeOnce(log, "proposer")
    [] action = "proceed"               -> ArchitectThenImplement(log)
    [] OTHER                            -> Noop

decide_after_request(log) ==
  CASE Has(log, "ISSUE.TRIAGED") -> decide_after_triage(log)
    [] ~Has(log, "ISSUE.TRIAGED") /\ has_source_issue(log) -> InvokeOnce(log, "triage")
    [] OTHER -> ArchitectThenImplement(log)

Terminal(log) == \E e \in log : e.type \in TERMINAL_EVENTS

decide(log) ==
  IF log = {} \/ Terminal(log) \/ ~Has(log, "REQUEST.RECEIVED") THEN Noop
  ELSE decide_after_request(log)
=============================================================================
