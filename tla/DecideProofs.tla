---------------------------- MODULE DecideProofs ----------------------------
(***************************************************************************)
(* What decide() guarantees on every log, of any length, with any ids and  *)
(* any mix of events.                                                      *)
(***************************************************************************)
EXTENDS DecideLog, FiniteSetTheorems, TLAPS

\* The log stays a finite set of events with distinct ids.
THEOREM TypeCorrect == Spec => []TypeOK
<1>1. Init => TypeOK
  BY LogAssumption DEF Init, TypeOK, Event
<1>2. TypeOK /\ [Next]_log => TypeOK'
  <2> SUFFICES ASSUME TypeOK, [Next]_log PROVE TypeOK'
    OBVIOUS
  <2>1. CASE UNCHANGED log
    BY <2>1 DEF TypeOK
  <2>2. CASE Next
    <3>1. PICK e \in Event : Append(e)
      BY <2>2 DEF Next
    <3>2. IsFiniteSet(log')
      BY <3>1, FS_AddElement DEF Append, TypeOK
    <3> QED
      BY <3>1, <3>2 DEF Append, TypeOK
  <2> QED
    BY <2>1, <2>2
<1> QED
  BY <1>1, <1>2, PTL DEF Spec

\* The fields of an event, whatever Ids and Kinds are.
LEMMA EventFields ==
  ASSUME NEW e \in Event
  PROVE  e.id \in Nat /\ e.id > 0 /\ e.type \in EventTypes
  BY LogAssumption DEF Event

\* An event whose id exceeds every id of the log is the new tail.
LEMMA LatestOfExtension ==
  ASSUME TypeOK, NEW x \in Event, AtTail(x)
  PROVE  Latest(log \cup {x}) = x
<1>1. \A f \in log \cup {x} : f.id \in Nat
  BY EventFields DEF TypeOK
<1>2. \A f \in log \cup {x} : f.id <= x.id
  BY <1>1 DEF AtTail
<1>3. \A e \in log \cup {x} : (\A f \in log \cup {x} : f.id <= e.id) => e = x
  BY <1>1 DEF AtTail
<1> QED
  BY <1>2, <1>3 DEF Latest

\* Revision counts are natural numbers, on the log and on its extensions.
LEMMA RevisionCountIsNat ==
  ASSUME TypeOK
  PROVE  current_revision_number(log) \in Nat
<1>1. OfType(log, "REVISION.READY") \subseteq log
  BY DEF OfType
<1>2. IsFiniteSet(OfType(log, "REVISION.READY"))
  BY <1>1, FS_Subset DEF TypeOK
<1> QED
  BY <1>2, FS_CardinalityType DEF current_revision_number

\* An event of another type leaves the revision count alone.
LEMMA RevisionCountUnchanged ==
  ASSUME NEW x, x.type # "REVISION.READY"
  PROVE  current_revision_number(log \cup {x}) = current_revision_number(log)
  BY DEF current_revision_number, OfType

\* The events that decide which stage of the pipeline the run is in.
StageTypes == {"REQUEST.RECEIVED", "ISSUE.TRIAGED", "DESIGN.READY", "IMPL_PR.OPENED"}

\* An event that is neither a stage event nor terminal leaves every question
\* the pre-PR part of decide() asks with the same answer.
LEMMA SameStage ==
  ASSUME NEW x, x.type \notin StageTypes, x.type \notin TERMINAL_EVENTS
  PROVE  /\ Terminal(log \cup {x}) <=> Terminal(log)
         /\ \A t \in StageTypes : /\ Has(log \cup {x}, t) <=> Has(log, t)
                                 /\ first_of(log \cup {x}, t) = first_of(log, t)
<1>1. Terminal(log \cup {x}) <=> Terminal(log)
  BY DEF Terminal
<1>2. ASSUME NEW t \in StageTypes
      PROVE  OfType(log \cup {x}, t) = OfType(log, t)
  BY <1>2 DEF OfType
<1>3. ASSUME NEW t \in StageTypes
      PROVE  (Has(log \cup {x}, t) <=> Has(log, t)) /\ first_of(log \cup {x}, t) = first_of(log, t)
  <2>1. Has(log \cup {x}, t) <=> Has(log, t)
    BY <1>3 DEF Has
  <2> QED
    BY <1>2, <2>1 DEF first_of
<1> QED
  BY <1>1, <1>3

\* On an open PR decide() is decide_after_pr_open(), and so it is after any
\* event that is neither a stage event nor terminal.
LEMMA OpenPrDecision ==
  ASSUME PrOpen
  PROVE  /\ decide(log) = decide_after_pr_open(log)
         /\ \A x : x.type \notin StageTypes /\ x.type \notin TERMINAL_EVENTS =>
              decide(log \cup {x}) = decide_after_pr_open(log \cup {x})
<1>1. decide(log) = decide_after_pr_open(log)
  BY DEF PrOpen, decide, decide_after_request, decide_after_triage, decide_after_design,
         ArchitectThenImplement, Has, CANCEL_TRIAGE_ACTIONS
<1>2. ASSUME NEW x, x.type \notin StageTypes, x.type \notin TERMINAL_EVENTS
      PROVE  decide(log \cup {x}) = decide_after_pr_open(log \cup {x})
  <2> DEFINE L == log \cup {x}
  <2>1. /\ ~Terminal(L) /\ L # {}
        /\ Has(L, "REQUEST.RECEIVED") /\ Has(L, "DESIGN.READY") /\ Has(L, "IMPL_PR.OPENED")
        /\ Has(L, "ISSUE.TRIAGED") => first_of(L, "ISSUE.TRIAGED").arg = "proceed"
        /\ ~Has(L, "ISSUE.TRIAGED") => ~has_source_issue(L)
    BY <1>2, SameStage DEF PrOpen, StageTypes, has_source_issue
  <2> HIDE DEF L
  <2>2. decide(L) = decide_after_pr_open(L)
    BY <2>1 DEF decide, decide_after_request, decide_after_triage, decide_after_design,
                ArchitectThenImplement, CANCEL_TRIAGE_ACTIONS
  <2> QED
    BY <2>2 DEF L
<1> QED
  BY <1>1, <1>2

\* A fresh human mention, push or nudge at the tail of an open run's log always
\* gets the dispatch it asks for (the property FreshTriggerDispatches).
THEOREM FreshTriggerCorrect == Spec => []FreshTriggerDispatches
<1>1. TypeOK => FreshTriggerDispatches
  <2> SUFFICES ASSUME TypeOK, PrOpen, NEW x \in Event, AtTail(x)
               PROVE  LET d == decide(log \cup {x}) IN
                      /\ x.type = "IMPL.ITERATION_REQUESTED" =>
                           d = InvokeAgent("implementer", "revision",
                                           current_revision_number(log) + 1, x.id)
                      /\ x.type \in {"REVISION.READY", "VALIDATION.REQUESTED"} =>
                           d.kind = "invoke" /\ d.agent = "validators" /\ d.trigger = x.id
    BY DEF FreshTriggerDispatches
  <2> DEFINE L == log \cup {x}
  <2>1. Latest(L) = x
    BY LatestOfExtension
  <2>2. \A t : ~has_event_after(L, t, x.id)
    BY EventFields DEF has_event_after, AtTail, TypeOK
  <2>3. CASE x.type = "IMPL.ITERATION_REQUESTED"
    <3>1. decide(L) = decide_after_pr_open(L)
      BY <2>3, OpenPrDecision DEF StageTypes, TERMINAL_EVENTS
    <3>2. current_revision_number(L) = current_revision_number(log)
      BY <2>3, RevisionCountUnchanged
    <3> HIDE DEF L
    <3>3. decide_after_pr_open(L)
            = InvokeAgent("implementer", "revision", current_revision_number(L) + 1, x.id)
      BY <2>1, <2>2, <2>3 DEF decide_after_pr_open, revise, InvokeForTrigger
    <3> QED
      BY <2>3, <3>1, <3>2, <3>3 DEF L
  <2>4. CASE x.type \in {"REVISION.READY", "VALIDATION.REQUESTED"}
    <3>1. decide(L) = decide_after_pr_open(L)
      BY <2>4, OpenPrDecision DEF StageTypes, TERMINAL_EVENTS
    <3> HIDE DEF L
    <3>2. decide_after_pr_open(L)
            = InvokeAgent("validators", "implementation", current_revision_number(L), x.id)
      BY <2>1, <2>2, <2>4 DEF decide_after_pr_open, InvokeForTrigger
    <3> QED
      BY <2>4, <3>1, <3>2 DEF InvokeAgent, L
  <2> QED
    BY <2>3, <2>4
<1> QED
  BY <1>1, TypeCorrect, PTL

\* When decide() invokes an agent, either the PR is open or the decision is a
\* once-per-run dispatch, and it stays one after any non-stage event.
LEMMA StageSplit ==
  ASSUME decide(log).kind = "invoke"
  PROVE  \/ PrOpen
         \/ \E a \in Agents :
              /\ decide(log) = InvokeOnce(log, a)
              /\ \A x : x.type \notin StageTypes /\ x.type \notin TERMINAL_EVENTS =>
                   decide(log \cup {x}) = InvokeOnce(log \cup {x}, a)
<1>1. log # {} /\ ~Terminal(log) /\ Has(log, "REQUEST.RECEIVED")
  BY DEF decide, Noop
<1> DEFINE Triaged == Has(log, "ISSUE.TRIAGED")
           Action == first_of(log, "ISSUE.TRIAGED").arg
           Route(a) == CASE a = "triage" -> ~Triaged /\ has_source_issue(log)
                         [] a = "proposer" -> Triaged /\ Action = "research"
                         [] OTHER -> IF Triaged THEN Action = "proceed" ELSE ~has_source_issue(log)
<1>2. \/ Route("triage")
      \/ Route("proposer")
      \/ Route("architect") /\ ~Has(log, "DESIGN.READY")
      \/ Route("implementer") /\ Has(log, "DESIGN.READY") /\ ~Has(log, "IMPL_PR.OPENED")
      \/ PrOpen
  <2>1. Triaged /\ Action \notin {"research", "proceed"} => decide(log).kind # "invoke"
    BY <1>1 DEF decide, decide_after_request, decide_after_triage, emit_cancel, EmitEvent, Noop
  <2> QED
    BY <1>1, <2>1 DEF PrOpen
<1>3. ASSUME NEW a \in {"triage", "proposer", "architect", "implementer"}, Route(a),
             a = "architect" => ~Has(log, "DESIGN.READY"),
             a = "implementer" => Has(log, "DESIGN.READY") /\ ~Has(log, "IMPL_PR.OPENED")
      PROVE  /\ decide(log) = InvokeOnce(log, a)
             /\ \A x : x.type \notin StageTypes /\ x.type \notin TERMINAL_EVENTS =>
                  decide(log \cup {x}) = InvokeOnce(log \cup {x}, a)
  <2>1. decide(log) = InvokeOnce(log, a)
    BY <1>1, <1>3 DEF decide, decide_after_request, decide_after_triage, decide_after_design,
                      ArchitectThenImplement, CANCEL_TRIAGE_ACTIONS
  <2>2. ASSUME NEW x, x.type \notin StageTypes, x.type \notin TERMINAL_EVENTS
        PROVE  decide(log \cup {x}) = InvokeOnce(log \cup {x}, a)
    <3> DEFINE L == log \cup {x}
    <3>1. /\ L # {} /\ ~Terminal(L)
          /\ \A t \in StageTypes : /\ Has(L, t) <=> Has(log, t)
                                  /\ first_of(L, t) = first_of(log, t)
      BY <1>1, <2>2, SameStage
    <3>2. /\ Has(L, "REQUEST.RECEIVED")
          /\ Has(L, "ISSUE.TRIAGED") <=> Triaged
          /\ first_of(L, "ISSUE.TRIAGED").arg = Action
          /\ has_source_issue(L) <=> has_source_issue(log)
          /\ Has(L, "DESIGN.READY") <=> Has(log, "DESIGN.READY")
          /\ Has(L, "IMPL_PR.OPENED") <=> Has(log, "IMPL_PR.OPENED")
      BY <1>1, <3>1 DEF StageTypes, has_source_issue
    <3> HIDE DEF L
    <3> QED
      <4>1. decide(L) = InvokeOnce(L, a)
        BY <1>3, <3>1, <3>2 DEF decide, decide_after_request, decide_after_triage,
             decide_after_design, ArchitectThenImplement, CANCEL_TRIAGE_ACTIONS
      <4> QED
        BY <4>1 DEF L
  <2> QED
    BY <2>1, <2>2
<1> HIDE DEF Route
<1>4. \/ PrOpen
      \/ \E a \in {"triage", "proposer", "architect", "implementer"} :
           /\ decide(log) = InvokeOnce(log, a)
           /\ \A x : x.type \notin StageTypes /\ x.type \notin TERMINAL_EVENTS =>
                decide(log \cup {x}) = InvokeOnce(log \cup {x}, a)
  BY <1>2, <1>3
<1> QED
  BY <1>4 DEF Agents

\* Below the revision cap the marker of the dispatch just decided on settles
\* the log (the property MarkerSettlesBelowCap).
THEOREM MarkerSettlesCorrect == Spec => []MarkerSettlesBelowCap
<1>1. TypeOK => MarkerSettlesBelowCap
  <2> SUFFICES ASSUME TypeOK, decide(log).kind = "invoke",
                      current_revision_number(log) < MAX_REVISIONS,
                      NEW m \in Event, AtTail(m),
                      m.type = DISPATCH_MARKERS[decide(log).agent]
               PROVE  decide(log \cup {m}) = Noop
    BY DEF MarkerSettlesBelowCap
  <2> DEFINE L == log \cup {m}
  <2>1. ASSUME NEW a \in Agents, decide(log) = InvokeOnce(log, a),
               \A x : x.type \notin StageTypes /\ x.type \notin TERMINAL_EVENTS =>
                    decide(log \cup {x}) = InvokeOnce(log \cup {x}, a)
        PROVE  decide(L) = Noop
    <3>1. decide(log).agent = a
      BY <2>1 DEF InvokeOnce, InvokeAgent, Noop
    <3>2. m.type = DISPATCH_MARKERS[a]
      BY <3>1
    <3>3. m.type \notin StageTypes /\ m.type \notin TERMINAL_EVENTS
      BY <3>2, <2>1 DEF DISPATCH_MARKERS, Agents, StageTypes, TERMINAL_EVENTS
    <3>4. Has(L, DISPATCH_MARKERS[a])
      BY <3>2 DEF Has
    <3> QED
      BY <2>1, <3>3, <3>4 DEF InvokeOnce
  <2>2. CASE PrOpen
    <3>1. decide(log) = decide_after_pr_open(log)
      BY <2>2, OpenPrDecision
    <3>2. decide(log).agent \in {"validators", "implementer"}
      BY <3>1 DEF decide_after_pr_open, revise, InvokeForTrigger, InvokeAgent,
                  emit_revision_cap_reached, EmitEvent, Noop, Raise
    <3>3. m.type \in {"VALIDATORS.DISPATCHED", "IMPLEMENTER.DISPATCHED"}
      BY <3>2 DEF DISPATCH_MARKERS, Agents
    <3>4. decide(L) = decide_after_pr_open(L)
      BY <2>2, <3>3, OpenPrDecision DEF StageTypes, TERMINAL_EVENTS
    <3>5. Latest(L) = m
      BY LatestOfExtension
    <3>6. \/ pending_blocking_review(L) = {}
          \/ /\ m.type = "IMPLEMENTER.DISPATCHED"
             /\ \A r \in pending_blocking_review(L) : r.id < m.id
      <4>1. CASE m.type = "VALIDATORS.DISPATCHED"
        <5>1. \A e \in L : e.id \in Nat /\ e.id <= m.id
          BY EventFields DEF TypeOK, AtTail
        <5>2. events_since_last_validation(L) = {}
          BY <4>1, <5>1 DEF events_since_last_validation, OfType
        <5> QED
          BY <5>2 DEF pending_blocking_review, OfType
      <4>2. CASE m.type = "IMPLEMENTER.DISPATCHED"
        BY <4>2 DEF pending_blocking_review, OfType, events_since_last_validation, AtTail
      <4> QED
        BY <3>3, <4>1, <4>2
    <3>7. current_revision_number(L) = current_revision_number(log)
      BY <3>3, RevisionCountUnchanged
    <3>8. ~(current_revision_number(L) + 1 > MAX_REVISIONS)
      BY <3>7, RevisionCountIsNat, RevisionBoundsAssumption
    <3>9. ASSUME pending_blocking_review(L) # {}
          PROVE  revise(L, CHOOSE r \in pending_blocking_review(L) : TRUE, TRUE) = Noop
      <4>1. PICK r : r \in pending_blocking_review(L)
                     /\ r = CHOOSE s \in pending_blocking_review(L) : TRUE
        BY <3>9
      <4>2. has_event_after(L, "IMPLEMENTER.DISPATCHED", r.id)
        BY <3>6, <4>1 DEF has_event_after
      <4>3. DISPATCH_MARKERS["implementer"] = "IMPLEMENTER.DISPATCHED"
        BY DEF DISPATCH_MARKERS, Agents
      <4>4. revise(L, r, TRUE) = Noop
        BY <3>8, <4>2, <4>3 DEF revise, InvokeForTrigger
      <4> QED
        BY <4>1, <4>4
    <3> HIDE DEF L
    <3>10. decide_after_pr_open(L) = Noop
      BY <3>3, <3>5, <3>9 DEF decide_after_pr_open
    <3> QED
      BY <3>4, <3>10 DEF L
  <2> QED
    BY <2>1, <2>2, StageSplit
<1> QED
  BY <1>1, TypeCorrect, PTL

\* An advisory event answers none of the questions decide() asks, except
\* possibly which event is the tail.
LEMMA AdvisoryNeutral ==
  ASSUME NEW x, x.type \in AdvisoryTypes
  PROVE  /\ pending_blocking_review(log \cup {x}) = pending_blocking_review(log)
         /\ current_revision_number(log \cup {x}) = current_revision_number(log)
         /\ \A trigger, capped : revise(log \cup {x}, trigger, capped) = revise(log, trigger, capped)
         /\ \A mode, rev, trigger :
              InvokeForTrigger(log \cup {x}, "validators", mode, rev, trigger)
                = InvokeForTrigger(log, "validators", mode, rev, trigger)
         /\ \A a \in Agents : InvokeOnce(log \cup {x}, a) = InvokeOnce(log, a)
         /\ emit_cancel(log \cup {x}) = emit_cancel(log)
<1> DEFINE L == log \cup {x}
<1>1. x.type \notin MarkerTypes /\ x.type \notin {"REVIEW.READY", "REVISION.READY", "RUN.CANCEL_REQUESTED"}
  BY DEF AdvisoryTypes, MarkerTypes
<1>2. \A a \in Agents : DISPATCH_MARKERS[a] \in MarkerTypes
  BY DEF DISPATCH_MARKERS, MarkerTypes, Agents
<1>3. OfType(events_since_last_validation(L), "REVIEW.READY")
        = OfType(events_since_last_validation(log), "REVIEW.READY")
  BY <1>1 DEF events_since_last_validation, OfType, MarkerTypes
<1>4. pending_blocking_review(L) = pending_blocking_review(log)
  BY <1>3 DEF pending_blocking_review
<1>5. current_revision_number(L) = current_revision_number(log)
  BY <1>1, RevisionCountUnchanged
<1>6. \A a \in Agents : /\ Has(L, DISPATCH_MARKERS[a]) <=> Has(log, DISPATCH_MARKERS[a])
                       /\ \A i : has_event_after(L, DISPATCH_MARKERS[a], i)
                                 <=> has_event_after(log, DISPATCH_MARKERS[a], i)
  BY <1>1, <1>2 DEF Has, has_event_after
<1>7. \A a \in Agents : InvokeOnce(L, a) = InvokeOnce(log, a)
  BY <1>6 DEF InvokeOnce
<1>8. \A a \in Agents : \A mode, rev, i :
        InvokeForTrigger(L, a, mode, rev, i) = InvokeForTrigger(log, a, mode, rev, i)
  BY <1>6 DEF InvokeForTrigger
<1>9. \A t, capped : revise(L, t, capped) = revise(log, t, capped)
  <2>1. emit_revision_cap_reached(L) = emit_revision_cap_reached(log)
    BY <1>5 DEF emit_revision_cap_reached
  <2>2. "implementer" \in Agents
    BY DEF Agents
  <2> HIDE DEF L
  <2> QED
    BY <1>5, <1>8, <2>1, <2>2 DEF revise
<1>10. emit_cancel(L) = emit_cancel(log)
  BY <1>1 DEF emit_cancel, Has
<1>11. "validators" \in Agents
  BY DEF Agents
<1> HIDE DEF L
<1>12. /\ pending_blocking_review(L) = pending_blocking_review(log)
       /\ current_revision_number(L) = current_revision_number(log)
       /\ \A t, capped : revise(L, t, capped) = revise(log, t, capped)
       /\ \A mode, rev, t : InvokeForTrigger(L, "validators", mode, rev, t)
                             = InvokeForTrigger(log, "validators", mode, rev, t)
       /\ \A a \in Agents : InvokeOnce(L, a) = InvokeOnce(log, a)
       /\ emit_cancel(L) = emit_cancel(log)
  BY <1>4, <1>5, <1>7, <1>8, <1>9, <1>10, <1>11
<1> QED
  BY <1>12 DEF L

\* A request_changes verdict is still acted on when advisory events report
\* after it (the property VerdictSurvivesLateValidators).
THEOREM VerdictSurvivesCorrect == Spec => []VerdictSurvivesLateValidators
<1>1. TypeOK => VerdictSurvivesLateValidators
  <2> SUFFICES ASSUME TypeOK, PrOpen, Latest(log).type = "REVIEW.READY",
                      NEW x \in Event, AtTail(x), x.type \in AdvisoryTypes
               PROVE  decide(log \cup {x}) = decide(log)
    BY DEF VerdictSurvivesLateValidators
  <2> DEFINE L == log \cup {x}
  <2>1. /\ decide(log) = decide_after_pr_open(log)
        /\ decide(L) = decide_after_pr_open(L)
    BY OpenPrDecision DEF AdvisoryTypes, StageTypes, TERMINAL_EVENTS
  <2>2. Latest(L) = x
    BY LatestOfExtension
  <2>3. /\ pending_blocking_review(L) = pending_blocking_review(log)
        /\ \A t, capped : revise(L, t, capped) = revise(log, t, capped)
    BY AdvisoryNeutral
  <2> HIDE DEF L
  <2>4. decide_after_pr_open(L) = decide_after_pr_open(log)
    BY <2>2, <2>3 DEF decide_after_pr_open, AdvisoryTypes
  <2> QED
    BY <2>1, <2>4 DEF L
<1> QED
  BY <1>1, TypeCorrect, PTL

\* A non-empty log always has a tail: the strengthening that lets Latest be
\* reasoned about when an event is inserted behind it.
HasTail == log # {} => \E e \in log : \A f \in log : f.id <= e.id

LEMMA HasTailCorrect == Spec => []HasTail
<1>1. Init => HasTail
  BY LogAssumption DEF Init, HasTail
<1>2. TypeOK /\ HasTail /\ [Next]_log => HasTail'
  <2> SUFFICES ASSUME TypeOK, HasTail, NEW x \in Event, Append(x) PROVE HasTail'
    BY DEF HasTail, Next
  <2>1. \A f \in log \cup {x} : f.id \in Nat
    BY EventFields DEF TypeOK
  <2>2. CASE log = {}
    BY <2>1, <2>2 DEF Append, HasTail
  <2>3. CASE log # {}
    <3>1. PICK e \in log : \A f \in log : f.id <= e.id
      BY <2>3 DEF HasTail
    <3>2. CASE x.id <= e.id
      BY <3>1, <3>2 DEF Append, HasTail
    <3>3. CASE ~(x.id <= e.id)
      <4>1. \A f \in log \cup {x} : f.id <= x.id
        BY <2>1, <3>1, <3>3
      <4> QED
        BY <4>1 DEF Append, HasTail
    <3> QED
      BY <3>2, <3>3
  <2> QED
    BY <2>2, <2>3
<1> QED
  BY <1>1, <1>2, TypeCorrect, PTL DEF Spec

\* An advisory event inserted behind the tail changes no decision (the
\* property LateAdvisoryIsNeutral).
THEOREM LateAdvisoryCorrect == Spec => []LateAdvisoryIsNeutral
<1>1. TypeOK /\ HasTail => LateAdvisoryIsNeutral
  <2> SUFFICES ASSUME TypeOK, HasTail, log # {}, NEW x \in Event,
                      x.type \in AdvisoryTypes, x.id < Latest(log).id
               PROVE  decide(log \cup {x}) = decide(log)
    BY DEF LateAdvisoryIsNeutral
  <2> DEFINE L == log \cup {x}
  <2>1. \A f \in L : f.id \in Nat
    BY EventFields DEF TypeOK
  <2>2. PICK e \in log : \A f \in log : f.id <= e.id
    BY DEF HasTail
  <2>3. \A g \in log : (\A f \in log : f.id <= g.id) => g = e
    BY <2>1, <2>2 DEF TypeOK
  <2>4. Latest(log) = e
    BY <2>2, <2>3 DEF Latest
  <2>5. \A f \in L : f.id <= e.id
    BY <2>1, <2>2, <2>4
  <2>6. \A g \in L : (\A f \in L : f.id <= g.id) => g = e
    BY <2>1, <2>3, <2>4
  <2>7. Latest(L) = Latest(log)
    BY <2>2, <2>4, <2>5, <2>6 DEF Latest
  <2>8. x.type \notin StageTypes /\ x.type \notin TERMINAL_EVENTS
    BY DEF AdvisoryTypes, StageTypes, TERMINAL_EVENTS
  <2>9. /\ Terminal(L) <=> Terminal(log)
        /\ \A t \in StageTypes : /\ Has(L, t) <=> Has(log, t)
                                /\ first_of(L, t) = first_of(log, t)
    BY <2>8, SameStage
  <2>10. /\ Has(L, "REQUEST.RECEIVED") <=> Has(log, "REQUEST.RECEIVED")
         /\ Has(L, "ISSUE.TRIAGED") <=> Has(log, "ISSUE.TRIAGED")
         /\ Has(L, "DESIGN.READY") <=> Has(log, "DESIGN.READY")
         /\ Has(L, "IMPL_PR.OPENED") <=> Has(log, "IMPL_PR.OPENED")
         /\ first_of(L, "ISSUE.TRIAGED") = first_of(log, "ISSUE.TRIAGED")
         /\ has_source_issue(L) <=> has_source_issue(log)
    BY <2>9 DEF StageTypes, has_source_issue
  <2>11. /\ pending_blocking_review(L) = pending_blocking_review(log)
         /\ current_revision_number(L) = current_revision_number(log)
         /\ \A t, capped : revise(L, t, capped) = revise(log, t, capped)
         /\ \A mode, rev, t : InvokeForTrigger(L, "validators", mode, rev, t)
                               = InvokeForTrigger(log, "validators", mode, rev, t)
         /\ \A a \in Agents : InvokeOnce(L, a) = InvokeOnce(log, a)
         /\ emit_cancel(L) = emit_cancel(log)
    BY AdvisoryNeutral
  <2>12. L # {}
    OBVIOUS
  <2> HIDE DEF L
  <2>13. decide_after_pr_open(L) = decide_after_pr_open(log)
    <3> DEFINE last == Latest(log)
    <3>1. CASE last.type \in {"IMPL.ITERATION_REQUESTED", "CHECKS.FAILED"}
      <4>1. revise(L, last, last.type = "CHECKS.FAILED")
              = revise(log, last, last.type = "CHECKS.FAILED")
        BY <2>11, Zenon
      <4> QED
        BY <2>7, <3>1, <4>1 DEF decide_after_pr_open
    <3>2. CASE last.type \notin {"IMPL.ITERATION_REQUESTED", "CHECKS.FAILED"}
      BY <2>7, <2>11, <3>2 DEF decide_after_pr_open
    <3> QED
      BY <3>1, <3>2
  <2>14. /\ InvokeOnce(L, "triage") = InvokeOnce(log, "triage")
         /\ InvokeOnce(L, "architect") = InvokeOnce(log, "architect")
         /\ InvokeOnce(L, "implementer") = InvokeOnce(log, "implementer")
         /\ InvokeOnce(L, "proposer") = InvokeOnce(log, "proposer")
    BY <2>11 DEF Agents
  <2>15. ArchitectThenImplement(L) = ArchitectThenImplement(log)
    BY <2>10, <2>13, <2>14 DEF ArchitectThenImplement, decide_after_design
  <2>16. decide(L) = decide(log)
    BY <2>9, <2>10, <2>11, <2>12, <2>14, <2>15
       DEF decide, decide_after_request, decide_after_triage
  <2> QED
    BY <2>16 DEF L
<1> QED
  BY <1>1, TypeCorrect, HasTailCorrect, PTL
=============================================================================
