------------------------------ MODULE DecideLog ------------------------------
(***************************************************************************)
(* decide() against every log it can be handed.  The log grows by one      *)
(* event at a time, at any free id: rows are committed in whatever order   *)
(* the projector happens to run, not in id order.  The properties relate   *)
(* the decision on a log to the decision on that log plus one event.       *)
(***************************************************************************)
EXTENDS Decide

CONSTANTS Ids,       \* the event ids in play
          Kinds,     \* the <<type, arg>> pairs in play
          BaseLogs   \* the logs a behaviour starts from

ASSUME LogAssumption ==
  /\ Ids \subseteq Nat \ {0}
  /\ Kinds \subseteq {k \in EventTypes \X UNION {ArgsOf(t) : t \in EventTypes} :
                        k[2] \in ArgsOf(k[1])}
  /\ \A b \in BaseLogs :
       /\ IsFiniteSet(b)
       /\ \A e \in b : \E i \in Ids, k \in Kinds : e = [id |-> i, type |-> k[1], arg |-> k[2]]
       /\ \A e, f \in b : e.id = f.id => e = f
       /\ b # {} => \E e \in b : \A f \in b : f.id <= e.id

VARIABLE log

Event == {[id |-> i, type |-> k[1], arg |-> k[2]] : i \in Ids, k \in Kinds}

Init == log \in BaseLogs
\* Mutant: the row's put is not conditional.
Append_unconditional(e) == log' = log \cup {e}

Append(e) == /\ \A f \in log : f.id # e.id
             /\ log' = log \cup {e}
Next == \E e \in Event : Append(e)
Spec == Init /\ [][Next]_log

\* The type invariant: a log is a finite set of events with distinct ids.
TypeOK == /\ log \subseteq Event
          /\ IsFiniteSet(log)
          /\ \A e, f \in log : e.id = f.id => e = f

AtTail(e) == \A f \in log : f.id < e.id
PrOpen == /\ Has(log, "REQUEST.RECEIVED") /\ Has(log, "DESIGN.READY") /\ Has(log, "IMPL_PR.OPENED")
          /\ Has(log, "ISSUE.TRIAGED") => first_of(log, "ISSUE.TRIAGED").arg = "proceed"
          /\ ~Has(log, "ISSUE.TRIAGED") => ~has_source_issue(log)
          /\ ~Terminal(log)
AdvisoryTypes == {"TEST_REPORT.READY", "CODE_CRITIQUE.READY", "CHECKS.PASSED"}

\* Below the revision cap, committing the marker of the dispatch that decide()
\* just asked for settles the log: the same decision is never taken twice,
\* whatever else the log holds (decide.py: "decide returns Noop whenever the
\* marker for the action it would otherwise emit is already present").
MarkerSettlesBelowCap ==
  LET d == decide(log) IN
  d.kind = "invoke" /\ current_revision_number(log) < MAX_REVISIONS =>
    \A m \in Event : AtTail(m) /\ m.type = DISPATCH_MARKERS[d.agent] =>
      decide(log \cup {m}) = Noop

\* The same without the proviso, as the module docstring of decide.py states
\* it: once the run has caught up to its dispatched state, replay is a Noop.
ReplaySafe ==
  LET d == decide(log) IN
  d.kind = "invoke" =>
    \A m \in Event : AtTail(m) /\ m.type = DISPATCH_MARKERS[d.agent] =>
      decide(log \cup {m}) = Noop

\* A reviewer's request_changes verdict still drives the run when the tester,
\* the code-critic or a green CI result reports after it: the decision taken on
\* a log whose tail is that review is unchanged by the later advisory event.
VerdictSurvivesLateValidators ==
  PrOpen /\ Latest(log).type = "REVIEW.READY" =>
    \A x \in Event : AtTail(x) /\ x.type \in AdvisoryTypes =>
      decide(log \cup {x}) = decide(log)

\* An advisory event that is projected late, behind a later event, never
\* changes a decision: it can only add an obsolete beacon.
LateAdvisoryIsNeutral ==
  log # {} =>
    \A x \in Event : /\ x.type \in AdvisoryTypes
                     /\ \A f \in log : f.id # x.id
                     /\ x.id < Latest(log).id
                     => decide(log \cup {x}) = decide(log)

\* Every human mention that lands at the tail of an open run's log gets a
\* revision of its own, however many implementer dispatches and revisions
\* precede it, and every push or nudge gets a validation pass of its own.
FreshTriggerDispatches ==
  PrOpen =>
    \A x \in Event : AtTail(x) =>
      LET d == decide(log \cup {x}) IN
      /\ x.type = "IMPL.ITERATION_REQUESTED" =>
           d = InvokeAgent("implementer", "revision", current_revision_number(log) + 1, x.id)
      /\ x.type \in {"REVISION.READY", "VALIDATION.REQUESTED"} =>
           d.kind = "invoke" /\ d.agent = "validators" /\ d.trigger = x.id
=============================================================================
