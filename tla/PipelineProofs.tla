--------------------------- MODULE PipelineProofs ---------------------------
(***************************************************************************)
(* Proofs about the composed pipeline, for any number of router            *)
(* invocations, any validators, any rows a read misses and any budget of   *)
(* faults.                                                                 *)
(***************************************************************************)
EXTENDS Pipeline, FiniteSetTheorems, SequenceTheorems, TLAPS

-----------------------------------------------------------------------------
(* What decide() returns, of any log whose queries have an answer.         *)

HasTail(L) == L # {} => \E e \in L : \A f \in L : f.id <= e.id
HasFirst(L, type) ==
  Has(L, type) => \E e \in OfType(L, type) : \A f \in OfType(L, type) : e.id <= f.id
WellFormed(L) ==
  /\ L \subseteq Event /\ IsFiniteSet(L)
  /\ \A e \in L : e.arg \in ArgsOf(e.type)
  /\ HasTail(L) /\ HasFirst(L, "REQUEST.RECEIVED") /\ HasFirst(L, "ISSUE.TRIAGED")

LEMMA RevisionCountIsNat ==
  ASSUME NEW L, IsFiniteSet(L)
  PROVE  current_revision_number(L) \in Nat
<1>1. OfType(L, "REVISION.READY") \subseteq L
  BY DEF OfType
<1>2. IsFiniteSet(OfType(L, "REVISION.READY"))
  BY <1>1, FS_Subset
<1> QED
  BY <1>2, FS_CardinalityType DEF current_revision_number

\* The two ways decide() asks for a dispatch, and the one way it ends a run.
LEMMA ActionTypes ==
  ASSUME NEW L, NEW a \in Agents, NEW m \in {"implementation", "revision"},
         NEW n \in Nat, NEW t \in Nat
  PROVE  /\ InvokeOnce(L, a) \in Actions
         /\ InvokeForTrigger(L, a, m, n, t) \in Actions
         /\ emit_cancel(L) \in Actions
         /\ emit_revision_cap_reached(L) \in Actions
  BY DEF InvokeOnce, InvokeForTrigger, InvokeAgent, Actions, Noop, Raise, EmitEvent,
         emit_cancel, emit_revision_cap_reached, TERMINAL_EVENTS

LEMMA ReviseType ==
  ASSUME NEW L, IsFiniteSet(L), NEW e, e.id \in Nat, NEW capped
  PROVE  revise(L, e, capped) \in Actions
<1> DEFINE n == current_revision_number(L) + 1
<1>1. n \in Nat
  BY RevisionCountIsNat
<1>2. "implementer" \in Agents /\ "revision" \in {"implementation", "revision"}
  BY DEF Agents
<1>3. /\ InvokeForTrigger(L, "implementer", "revision", n, e.id) \in Actions
      /\ emit_revision_cap_reached(L) \in Actions
  BY <1>1, <1>2, ActionTypes
<1> QED
  BY <1>3 DEF revise

LEMMA AfterPrOpenType ==
  ASSUME NEW L, WellFormed(L), L # {}
  PROVE  decide_after_pr_open(L) \in Actions
<1>1. Latest(L) \in L /\ Latest(L).id \in Nat
  BY DEF WellFormed, HasTail, Latest, Event
<1>2. pending_blocking_review(L) \subseteq L
  BY DEF pending_blocking_review, OfType, events_since_last_validation
<1>3. pending_blocking_review(L) # {} =>
        (CHOOSE r \in pending_blocking_review(L) : TRUE).id \in Nat
  BY <1>2 DEF WellFormed, Event
<1>4. \A capped : revise(L, Latest(L), capped) \in Actions
  BY <1>1, ReviseType DEF WellFormed
<1>5. pending_blocking_review(L) # {} =>
        revise(L, CHOOSE r \in pending_blocking_review(L) : TRUE, TRUE) \in Actions
  BY <1>3, ReviseType DEF WellFormed
<1>6. InvokeForTrigger(L, "validators", "implementation", current_revision_number(L),
                       Latest(L).id) \in Actions
  BY <1>1, RevisionCountIsNat, ActionTypes DEF WellFormed, Agents
<1>7. Noop \in Actions
  BY DEF Actions
<1> QED
  BY <1>4, <1>5, <1>6, <1>7 DEF decide_after_pr_open

LEMMA DecideType ==
  ASSUME NEW L, WellFormed(L)
  PROVE  decide(L) \in Actions
<1>1. Noop \in Actions /\ emit_cancel(L) \in Actions
  BY ActionTypes DEF Actions, Agents
<1>2. \A a \in Agents : InvokeOnce(L, a) \in Actions
  BY ActionTypes
<1>3. L # {} => ArchitectThenImplement(L) \in Actions
  BY <1>2, AfterPrOpenType DEF ArchitectThenImplement, decide_after_design, Agents
<1>4. L # {} => decide_after_triage(L) \in Actions
  BY <1>1, <1>2, <1>3 DEF decide_after_triage, Agents
<1>5. L # {} => decide_after_request(L) \in Actions
  BY <1>2, <1>3, <1>4 DEF decide_after_request, Agents
<1> QED
  BY <1>1, <1>5 DEF decide

-----------------------------------------------------------------------------
(* The stage a decision presupposes.                                       *)

\* What decide() asks for, seen as the marker it would publish.
MarkerOf(act) == [type |-> DISPATCH_MARKERS[act.agent], trg |-> act.trigger]

LEMMA PreconditionMonotone ==
  ASSUME NEW e, NEW L, NEW M, L \subseteq M, Precondition(e, L)
  PROVE  Precondition(e, M)
  BY DEF Precondition, Says, Has

LEMMA PreconditionOfFields ==
  ASSUME NEW e, NEW f, e.type = f.type, e.trg = f.trg, NEW L, Precondition(e, L)
  PROVE  Precondition(f, L)
  BY DEF Precondition

\* first_of answers with an event of that type.
LEMMA FirstOf ==
  ASSUME NEW L, NEW type, HasFirst(L, type), Has(L, type)
  PROVE  first_of(L, type) \in L /\ first_of(L, type).type = type
  BY DEF HasFirst, first_of, OfType

LEMMA OnceIsInvoke ==
  ASSUME NEW L, NEW a \in Agents, InvokeOnce(L, a).kind = "invoke"
  PROVE  MarkerOf(InvokeOnce(L, a)) = [type |-> DISPATCH_MARKERS[a], trg |-> 0]
  BY DEF InvokeOnce, Noop, InvokeAgent, MarkerOf

\* With the PR open every dispatch is a revision or a validation pass.
LEMMA AfterPrOpenAgents ==
  ASSUME NEW L, decide_after_pr_open(L).kind = "invoke"
  PROVE  decide_after_pr_open(L).agent \in {"implementer", "validators"}
  BY DEF decide_after_pr_open, revise, InvokeForTrigger, InvokeAgent, Noop, Raise, EmitEvent,
         emit_revision_cap_reached

LEMMA ArchitectThenImplementStage ==
  ASSUME NEW L, ArchitectThenImplement(L).kind = "invoke",
         Says(L, "REQUEST.RECEIVED", "programmatic") \/ Says(L, "ISSUE.TRIAGED", "proceed")
  PROVE  Precondition(MarkerOf(ArchitectThenImplement(L)), L)
<1>1. CASE ~Has(L, "DESIGN.READY")
  <2>1. ArchitectThenImplement(L) = InvokeOnce(L, "architect")
    BY <1>1 DEF ArchitectThenImplement
  <2>2. MarkerOf(ArchitectThenImplement(L)) = [type |-> "ARCHITECT.DISPATCHED", trg |-> 0]
    BY <2>1, OnceIsInvoke DEF Agents, DISPATCH_MARKERS
  <2> QED
    BY <2>2 DEF Precondition
<1>2. CASE Has(L, "DESIGN.READY") /\ ~Has(L, "IMPL_PR.OPENED")
  <2>1. ArchitectThenImplement(L) = InvokeOnce(L, "implementer")
    BY <1>2 DEF ArchitectThenImplement, decide_after_design
  <2>2. MarkerOf(ArchitectThenImplement(L)) = [type |-> "IMPLEMENTER.DISPATCHED", trg |-> 0]
    BY <2>1, OnceIsInvoke DEF Agents, DISPATCH_MARKERS
  <2> QED
    BY <1>2, <2>2 DEF Precondition
<1>3. CASE Has(L, "DESIGN.READY") /\ Has(L, "IMPL_PR.OPENED")
  <2>1. ArchitectThenImplement(L) = decide_after_pr_open(L)
    BY <1>3 DEF ArchitectThenImplement, decide_after_design
  <2>2. MarkerOf(ArchitectThenImplement(L)).type
          \in {"IMPLEMENTER.DISPATCHED", "VALIDATORS.DISPATCHED"}
    BY <2>1, AfterPrOpenAgents DEF MarkerOf, Agents, DISPATCH_MARKERS
  <2> QED
    BY <1>3, <2>2 DEF Precondition
<1> QED
  BY <1>1, <1>2, <1>3

LEMMA DecideStage ==
  ASSUME NEW L, WellFormed(L), decide(L).kind = "invoke"
  PROVE  Precondition(MarkerOf(decide(L)), L)
<1>1. Has(L, "REQUEST.RECEIVED") /\ decide(L) = decide_after_request(L)
  BY DEF decide, Noop
<1>2. CASE Has(L, "ISSUE.TRIAGED")
  <2> DEFINE t == first_of(L, "ISSUE.TRIAGED")
  <2>1. t \in L /\ t.type = "ISSUE.TRIAGED"
    BY <1>2, FirstOf DEF WellFormed
  <2>2. decide(L) = decide_after_triage(L)
    BY <1>1, <1>2 DEF decide_after_request
  <2>3. CASE t.arg = "research"
    <3>1. decide(L) = InvokeOnce(L, "proposer")
      BY <2>2, <2>3 DEF decide_after_triage, CANCEL_TRIAGE_ACTIONS
    <3>2. MarkerOf(decide(L)) = [type |-> "PROPOSER.DISPATCHED", trg |-> 0]
      BY <3>1, OnceIsInvoke DEF Agents, DISPATCH_MARKERS
    <3> QED
      BY <2>1, <2>3, <3>2 DEF Precondition, Says
  <2>4. CASE t.arg = "proceed"
    <3>1. decide(L) = ArchitectThenImplement(L)
      BY <2>2, <2>4 DEF decide_after_triage, CANCEL_TRIAGE_ACTIONS
    <3>2. Says(L, "ISSUE.TRIAGED", "proceed")
      BY <2>1, <2>4 DEF Says
    <3> QED
      BY <3>1, <3>2, ArchitectThenImplementStage
  <2>5. CASE t.arg \notin {"research", "proceed"}
    <3>1. decide(L).kind # "invoke"
      BY <2>2, <2>5 DEF decide_after_triage, emit_cancel, Noop, EmitEvent
    <3> QED
      BY <3>1
  <2> QED
    BY <2>3, <2>4, <2>5
<1>3. CASE ~Has(L, "ISSUE.TRIAGED")
  <2> DEFINE q == first_of(L, "REQUEST.RECEIVED")
  <2>1. q \in L /\ q.type = "REQUEST.RECEIVED"
    BY <1>1, FirstOf DEF WellFormed
  <2>2. q.arg \in {"issue", "programmatic"}
    BY <2>1 DEF WellFormed, Event, ArgsOf
  <2>3. CASE q.arg = "issue"
    <3>1. decide(L) = InvokeOnce(L, "triage")
      BY <1>1, <1>3, <2>3 DEF decide_after_request, has_source_issue
    <3>2. MarkerOf(decide(L)) = [type |-> "TRIAGE.DISPATCHED", trg |-> 0]
      BY <3>1, OnceIsInvoke DEF Agents, DISPATCH_MARKERS
    <3> QED
      BY <2>1, <2>3, <3>2 DEF Precondition, Says
  <2>4. CASE q.arg = "programmatic"
    <3>1. decide(L) = ArchitectThenImplement(L)
      BY <1>1, <1>3, <2>4 DEF decide_after_request, has_source_issue
    <3>2. Says(L, "REQUEST.RECEIVED", "programmatic")
      BY <2>1, <2>4 DEF Says
    <3> QED
      BY <3>1, <3>2, ArchitectThenImplementStage
  <2> QED
    BY <2>2, <2>3, <2>4
<1> QED
  BY <1>2, <1>3

-----------------------------------------------------------------------------
(* The inductive invariant.  Tables speaks of the events, RoutersOK of what *)
(* an invocation carries from its read of the log to its publication: the   *)
(* log only grows, so what it read is still there.                          *)

\* A read may miss any rows, so the queries have an answer in every part of the
\* log.
PartsWellFormed(L) == \A S \in SUBSET L : WellFormed(S)

Tables ==
  /\ log \subseteq Event /\ bus \subseteq Event /\ lost \subseteq Event
  /\ \A e \in Published :
       e.id < clock /\ e.arg \in ArgsOf(e.type) /\ (e.dlv # NoDelivery => e.type \in WebhookTypes)
  /\ clock \in Nat \ {0}
  /\ PartsWellFormed(log)
  /\ StagesInOrder

RoutersOK ==
  /\ routers \in [Routers -> [pc : {"idle", "decided", "marked"}, act : Actions,
                              todo : Seq(Runtimes), marker : Nat]]
  /\ \A r \in Routers :
       /\ routers[r].pc = "marked" => routers[r].act.kind = "invoke" /\ routers[r].todo # <<>>
       /\ routers[r].pc = "decided" /\ routers[r].act.kind = "invoke" =>
            Precondition(MarkerOf(routers[r].act), log)

Session == [runtime : Runtimes, mode : {"implementation", "revision"}, marker : Nat]
Counters == /\ beacons \in Nat /\ sessions \subseteq Session /\ misled \in BOOLEAN
            /\ budget \in [BudgetKinds -> Nat]

IInv == Tables /\ RoutersOK /\ Counters /\ NoLostWakeup

LEMMA IInvTypes == IInv => TypeOK
  BY DEF IInv, Tables, RoutersOK, Counters, TypeOK, Session

-----------------------------------------------------------------------------
(* Events.                                                                 *)

\* An event that may be published now.
Sound(e) ==
  /\ e \in Event /\ e.id = clock /\ e.arg \in ArgsOf(e.type)
  /\ e.dlv # NoDelivery => e.type \in WebhookTypes
  /\ e.type \in MarkerTypes => Precondition(e, log)

LEMMA NewEventIsSound ==
  ASSUME Tables, NEW type \in EventTypes, NEW arg \in ArgsOf(type), NEW dlv \in Nat,
         NEW trg \in Nat, dlv # NoDelivery => type \in WebhookTypes,
         type \in MarkerTypes => Precondition([type |-> type, trg |-> trg], log)
  PROVE  Sound(NewEvent(type, arg, dlv, trg))
<1> DEFINE e == NewEvent(type, arg, dlv, trg)
<1>1. e \in Event
  BY DEF Tables, NewEvent, Event
<1>2. e.type = type /\ e.trg = trg /\ e.id = clock /\ e.dlv = dlv /\ e.arg = arg
  BY DEF NewEvent
<1>3. type \in MarkerTypes => Precondition(e, log)
  BY <1>2, PreconditionOfFields, Zenon
<1> QED
  BY <1>1, <1>2, <1>3 DEF Sound

\* Only markers have a precondition.
LEMMA PreconditionTrivial ==
  ASSUME NEW e, e.type \notin MarkerTypes, NEW L
  PROVE  Precondition(e, L)
  BY DEF Precondition, MarkerTypes

LEMMA PublishKeepsTables ==
  ASSUME Tables, NEW evs, \A e \in evs : Sound(e), Publish(evs), UNCHANGED <<log, lost>>
  PROVE  Tables'
<1>1. bus' = bus \cup evs /\ clock' \in Nat \ {0} /\ clock <= clock'
      /\ (evs # {} => clock < clock')
  BY DEF Publish, Tables
<1>2. \A e \in evs : e \in Event /\ e.id = clock /\ e.arg \in ArgsOf(e.type)
                     /\ (e.dlv # NoDelivery => e.type \in WebhookTypes)
  BY DEF Sound
<1>3. bus' \subseteq Event /\ log' \subseteq Event /\ lost' \subseteq Event
  BY <1>1, <1>2 DEF Tables
<1>4. \A e \in Published' : e.id < clock' /\ e.arg \in ArgsOf(e.type)
                            /\ (e.dlv # NoDelivery => e.type \in WebhookTypes)
  <2> SUFFICES ASSUME NEW e \in Published'
               PROVE  e.id < clock' /\ e.arg \in ArgsOf(e.type)
                      /\ (e.dlv # NoDelivery => e.type \in WebhookTypes)
    OBVIOUS
  <2>1. CASE e \in evs
    BY <1>1, <1>2, <2>1 DEF Tables
  <2>2. CASE e \notin evs
    <3>1. e \in Published /\ e.id \in Nat
      BY <1>1, <2>2 DEF Published, Tables, Event
    <3> QED
      BY <1>1, <3>1 DEF Tables
  <2> QED
    BY <2>1, <2>2
<1>5. PartsWellFormed(log)'
  BY DEF Tables, PartsWellFormed, WellFormed, HasTail, HasFirst, Has, OfType
<1>6. StagesInOrder'
  <2> SUFFICES ASSUME NEW e \in Published'
               PROVE  Precondition(e, {f \in log : f.id < e.id})
    BY DEF StagesInOrder
  <2>1. CASE e \in evs /\ e.type \in MarkerTypes
    <3>1. {f \in log : f.id < e.id} = log
      BY <1>2, <2>1 DEF Tables, Published
    <3> QED
      BY <2>1, <3>1 DEF Sound
  <2>2. CASE e \in evs /\ e.type \notin MarkerTypes
    BY <2>2, PreconditionTrivial
  <2>3. CASE e \notin evs
    BY <1>1, <2>3 DEF Published, Tables, StagesInOrder
  <2> QED
    BY <2>1, <2>2, <2>3
<1> QED
  BY <1>1, <1>3, <1>4, <1>5, <1>6 DEF Tables

\* Adding one event keeps the queries of decide() answered.
LEMMA ExtensionWellFormed ==
  ASSUME NEW L, WellFormed(L), NEW e \in Event, e.arg \in ArgsOf(e.type)
  PROVE  WellFormed(L \cup {e})
<1> DEFINE M == L \cup {e}
<1>1. \A f \in M : f.id \in Nat
  BY DEF WellFormed, Event
<1>2. M \subseteq Event /\ IsFiniteSet(M) /\ \A f \in M : f.arg \in ArgsOf(f.type)
  BY FS_AddElement DEF WellFormed
<1>3. HasTail(M)
  <2>1. CASE L = {}
    BY <1>1, <2>1 DEF HasTail
  <2>2. CASE L # {}
    <3>1. PICK t \in L : \A f \in L : f.id <= t.id
      BY <2>2 DEF WellFormed, HasTail
    <3>2. CASE e.id <= t.id
      BY <3>1, <3>2 DEF HasTail
    <3>3. CASE ~(e.id <= t.id)
      <4>1. \A f \in M : f.id <= e.id
        BY <1>1, <3>1, <3>3
      <4> QED
        BY <4>1 DEF HasTail
    <3> QED
      BY <3>2, <3>3
  <2> QED
    BY <2>1, <2>2
<1>4. ASSUME NEW type, HasFirst(L, type)
      PROVE  HasFirst(M, type)
  <2>1. CASE e.type # type
    <3>1. OfType(M, type) = OfType(L, type) /\ (Has(M, type) => Has(L, type))
      BY <2>1 DEF OfType, Has
    <3> QED
      BY <1>4, <3>1 DEF HasFirst
  <2>2. CASE e.type = type /\ ~Has(L, type)
    <3>1. OfType(M, type) = {e}
      BY <2>2 DEF OfType, Has
    <3>2. e.id <= e.id
      BY <1>1
    <3> QED
      BY <3>1, <3>2 DEF HasFirst
  <2>3. CASE e.type = type /\ Has(L, type)
    <3>1. PICK t \in OfType(L, type) : \A f \in OfType(L, type) : t.id <= f.id
      BY <1>4, <2>3 DEF HasFirst
    <3>2. OfType(M, type) = OfType(L, type) \cup {e} /\ t \in M
      BY <2>3, <3>1 DEF OfType
    <3>3. CASE t.id <= e.id
      BY <3>1, <3>2, <3>3 DEF HasFirst
    <3>4. CASE ~(t.id <= e.id)
      <4>1. \A f \in OfType(M, type) : e.id <= f.id
        <5>1. \A f \in OfType(M, type) : f.id \in Nat
          BY <1>1 DEF OfType
        <5> QED
          BY <1>1, <3>1, <3>2, <3>4, <5>1
      <4> QED
        BY <3>2, <4>1 DEF HasFirst
    <3> QED
      BY <3>3, <3>4
  <2> QED
    BY <2>1, <2>2, <2>3
<1> QED
  BY <1>2, <1>3, <1>4 DEF WellFormed

LEMMA PartsOfExtension ==
  ASSUME NEW L, PartsWellFormed(L), NEW e \in Event, e.arg \in ArgsOf(e.type)
  PROVE  PartsWellFormed(L \cup {e})
<1> SUFFICES ASSUME NEW S \in SUBSET (L \cup {e})
             PROVE  WellFormed(S)
  BY DEF PartsWellFormed
<1>1. CASE e \notin S
  <2>1. S \in SUBSET L
    BY <1>1
  <2> QED
    BY <2>1 DEF PartsWellFormed
<1>2. CASE e \in S
  <2> DEFINE T == S \ {e}
  <2>1. T \in SUBSET L /\ S = T \cup {e}
    BY <1>2
  <2>2. WellFormed(T)
    BY <2>1 DEF PartsWellFormed
  <2> HIDE DEF T
  <2>3. WellFormed(T \cup {e})
    BY <2>2, ExtensionWellFormed
  <2> QED
    BY <2>1, <2>3
<1> QED
  BY <1>1, <1>2

\* An event moves from the bus to the log or to the lost ones, or disappears.
LEMMA ProjectKeepsTables ==
  ASSUME Tables, NEW e \in bus, Project(e)
  PROVE  Tables'
<1>1. /\ Published' \subseteq Published /\ clock' = clock
      /\ log \subseteq log' /\ (log' = log \/ log' = log \cup {e})
      /\ bus' \subseteq bus /\ lost' \subseteq lost \cup {e}
  BY DEF Project, Commit, Drop, Lose, Published
<1>2. e \in Event /\ e.arg \in ArgsOf(e.type)
  BY DEF Tables, Published
<1>3. PartsWellFormed(log')
  <2>1. PartsWellFormed(log \cup {e})
    BY <1>2, PartsOfExtension DEF Tables
  <2> QED
    BY <1>1, <2>1 DEF Tables
<1>4. StagesInOrder'
  <2> SUFFICES ASSUME NEW x \in Published'
               PROVE  Precondition(x, {f \in log' : f.id < x.id})
    BY DEF StagesInOrder
  <2>1. Precondition(x, {f \in log : f.id < x.id})
    BY <1>1 DEF Tables, StagesInOrder
  <2>2. {f \in log : f.id < x.id} \subseteq {f \in log' : f.id < x.id}
    BY <1>1
  <2> QED
    BY <2>1, <2>2, PreconditionMonotone
<1>5. PartsWellFormed(log)'
  BY <1>3 DEF PartsWellFormed, WellFormed, HasTail, HasFirst, Has, OfType
<1> QED
  BY <1>1, <1>2, <1>4, <1>5 DEF Tables

-----------------------------------------------------------------------------
(* Invocations.                                                            *)

LEMMA InvokeFields ==
  ASSUME NEW act \in Actions, act.kind = "invoke"
  PROVE  /\ act.agent \in Agents /\ act.mode \in {"implementation", "revision"}
         /\ act.trigger \in Nat
  BY DEF Actions, Noop, Raise, EmitEvent

LEMMA EmitFields ==
  ASSUME NEW act \in Actions, act.kind = "emit"
  PROVE  act.type \in TERMINAL_EVENTS
  BY DEF Actions, Noop, Raise, EmitEvent

LEMMA RuntimesOf ==
  ASSUME NEW agent \in Agents
  PROVE  runtimes_of(agent) \in Seq(Runtimes) /\ runtimes_of(agent) # <<>>
<1>1. CASE agent = "validators"
  <2>1. VALIDATOR_RUNTIMES \in Seq(Runtimes)
    BY PipelineAssumption DEF Runtimes
  <2> QED
    BY <1>1, <2>1, PipelineAssumption DEF runtimes_of
<1>2. CASE agent # "validators"
  BY <1>2 DEF runtimes_of, Runtimes
<1> QED
  BY <1>1, <1>2

\* A step of invocation r to a state of that kind, while the log grows or stays.
LEMMA RoutersKept ==
  ASSUME RoutersOK, log \subseteq log', UNCHANGED routers
  PROVE  RoutersOK'
<1>1. \A r \in Routers :
        routers[r].pc = "decided" /\ routers[r].act.kind = "invoke" =>
          Precondition(MarkerOf(routers[r].act), log')
  BY PreconditionMonotone DEF RoutersOK
<1>2. \A r \in Routers : routers'[r] = routers[r]
  OBVIOUS
<1> QED
  BY <1>1, <1>2 DEF RoutersOK, MarkerOf, Precondition, Says, Has

LEMMA RouterMoves ==
  ASSUME RoutersOK, UNCHANGED log, NEW r \in Routers, NEW v,
         v \in [pc : {"idle", "decided", "marked"}, act : Actions,
                todo : Seq(Runtimes), marker : Nat],
         v.pc = "marked" => v.act.kind = "invoke" /\ v.todo # <<>>,
         v.pc = "decided" /\ v.act.kind = "invoke" => Precondition(MarkerOf(v.act), log),
         routers' = [routers EXCEPT ![r] = v]
  PROVE  RoutersOK'
<1>1. \A x \in Routers : routers'[x] = IF x = r THEN v ELSE routers[x]
  BY DEF RoutersOK
<1>2. \A x \in Routers :
        routers'[x].pc = "decided" /\ routers'[x].act.kind = "invoke" =>
          Precondition(MarkerOf(routers'[x].act), log)
  BY <1>1 DEF RoutersOK
<1>3. log' = log
  OBVIOUS
<1>4. \A x \in Routers :
        routers'[x].pc = "decided" /\ routers'[x].act.kind = "invoke" =>
          Precondition(MarkerOf(routers'[x].act), log')
  BY <1>2, <1>3
<1>5. \A x \in Routers :
        routers'[x].pc = "marked" => routers'[x].act.kind = "invoke" /\ routers'[x].todo # <<>>
  BY <1>1 DEF RoutersOK
<1>6. routers' \in [Routers -> [pc : {"idle", "decided", "marked"}, act : Actions,
                                todo : Seq(Runtimes), marker : Nat]]
  BY DEF RoutersOK
<1> QED
  BY <1>4, <1>5, <1>6 DEF RoutersOK, MarkerOf, Precondition, Says, Has

LEMMA IdleType ==
  /\ Idle \in [pc : {"idle", "decided", "marked"}, act : Actions,
               todo : Seq(Runtimes), marker : Nat]
  /\ Idle.pc = "idle"
  BY DEF Idle, Actions

-----------------------------------------------------------------------------
(* Wake-ups.                                                               *)

LEMMA BeaconSuffices ==
  ASSUME beacons' > 0
  PROVE  NoLostWakeup'
  BY DEF NoLostWakeup, Attended

\* A step that keeps the log, the beacons, what was decided and what was
\* published keeps whoever is going to take the action.
LEMMA WakeupKept ==
  ASSUME NoLostWakeup, UNCHANGED <<log, beacons, misled>>, bus \cup lost \subseteq bus' \cup lost',
         \A r \in Routers : routers[r].pc = "decided" => routers'[r] = routers[r]
  PROVE  NoLostWakeup'
<1> DEFINE act == decide(log)
<1>1. decide(log)' = act
  BY DEF decide, Terminal, Has, decide_after_request, decide_after_triage, has_source_issue,
         first_of, OfType, ArchitectThenImplement, decide_after_design, decide_after_pr_open,
         InvokeOnce, InvokeForTrigger, has_event_after, emit_cancel, Latest, revise,
         emit_revision_cap_reached, current_revision_number, pending_blocking_review,
         events_since_last_validation
<1> QED
  BY <1>1 DEF NoLostWakeup, Attended, Answers

-----------------------------------------------------------------------------
(* One lemma per group of actions.                                         *)

LEMMA InitIInv == Init => IInv
<1> SUFFICES ASSUME Init PROVE IInv
  OBVIOUS
<1>1. PICK k \in RequestKinds :
        bus = {[id |-> 1, type |-> "REQUEST.RECEIVED", arg |-> k, dlv |-> NoDelivery, trg |-> 0]}
  BY DEF Init
<1>2. k \in ArgsOf("REQUEST.RECEIVED") /\ "REQUEST.RECEIVED" \in EventTypes
  BY PipelineAssumption DEF ArgsOf, EventTypes
<1>3. bus \subseteq Event
  BY <1>1, <1>2 DEF Event, NoDelivery
<1>4. log = {} /\ lost = {} /\ clock = 2 /\ beacons = 0 /\ sessions = {} /\ budget = Budget
      /\ misled = FALSE
      /\ routers = [r \in Routers |-> Idle]
  BY DEF Init
<1>5. PartsWellFormed(log)
  BY <1>4, FS_EmptySet DEF PartsWellFormed, WellFormed, HasTail, HasFirst, Has
<1>6. StagesInOrder
  BY <1>1, <1>4 DEF StagesInOrder, Published, Precondition
<1>7. Tables
  BY <1>1, <1>2, <1>3, <1>4, <1>5, <1>6 DEF Tables, Published
<1>8. RoutersOK
  BY <1>4, IdleType DEF RoutersOK
<1>9. Counters
  BY <1>4, PipelineAssumption DEF Counters
<1>10. NoLostWakeup
  BY <1>4 DEF NoLostWakeup, Attended, decide
<1> QED
  BY <1>7, <1>8, <1>9, <1>10 DEF IInv

\* Spending keeps the budget a budget.
LEMMA SpendType ==
  ASSUME Counters, NEW k \in BudgetKinds, Spend(k)
  PROVE  budget' \in [BudgetKinds -> Nat]
  BY DEF Counters, Spend

LEMMA ProjectStep ==
  ASSUME IInv, NEW e \in bus, Project(e)
  PROVE  IInv'
<1>1. Tables'
  BY ProjectKeepsTables DEF IInv
<1>2. RoutersOK'
  BY RoutersKept DEF IInv, Project, Commit, Drop, Lose
<1>3. Counters'
  BY SpendType DEF IInv, Counters, Project, Commit, Drop, Lose, BudgetKinds
<1>4. NoLostWakeup'
  <2>1. CASE Commit(e)
    <3>1. beacons' > 0
      BY <2>1 DEF Commit, IInv, Counters
    <3> QED
      BY <3>1, BeaconSuffices
  <2>2. CASE Lose(e)
    BY <2>2, WakeupKept DEF Lose, IInv
  <2>3. CASE Drop(e)
    <3> DEFINE act == decide(log)
    <3>1. e.type \in WebhookTypes
      BY <2>3 DEF Drop, Duplicate, SameDelivery, IInv, Tables, Published
    <3>2. act \in Actions
      BY DecideType DEF IInv, Tables, PartsWellFormed
    <3>3. ~Answers(e, act)
      <4>1. act.kind = "invoke" => DISPATCH_MARKERS[act.agent] \in MarkerTypes
        BY <3>2, InvokeFields DEF DISPATCH_MARKERS, Agents, MarkerTypes
      <4>2. act.kind = "emit" => act.type \in TERMINAL_EVENTS
        BY <3>2, EmitFields
      <4> QED
        BY <3>1, <4>1, <4>2 DEF Answers, WebhookTypes, MarkerTypes, TERMINAL_EVENTS
    <3>4. UNCHANGED <<log, lost, beacons, routers, misled>> /\ bus' = bus \ {e}
      BY <2>3 DEF Drop
    <3>5. act # Noop => \/ beacons > 0
                        \/ \E r \in Routers : routers[r].pc = "decided" /\ routers[r].act = act
                        \/ \E f \in bus' \cup lost' : Answers(f, act)
                        \/ misled
      BY <3>3, <3>4 DEF IInv, NoLostWakeup, Attended
    <3> HIDE DEF act
    <3>6. decide(log)' = act
      BY <3>4 DEF decide, Terminal, Has, decide_after_request, decide_after_triage,
           has_source_issue, first_of, OfType, ArchitectThenImplement, decide_after_design,
           decide_after_pr_open, InvokeOnce, InvokeForTrigger, has_event_after, emit_cancel,
           Latest, revise, emit_revision_cap_reached, current_revision_number,
           pending_blocking_review, events_since_last_validation, act
    <3> QED
      BY <3>4, <3>5, <3>6 DEF NoLostWakeup, Attended, Answers
  <2> QED
    BY <2>1, <2>2, <2>3 DEF Project
<1> QED
  BY <1>1, <1>2, <1>3, <1>4 DEF IInv

\* The agents and GitHub: an event or none is published, nothing else that the
\* invariant speaks of changes.
LEMMA OutsideStep ==
  ASSUME IInv, NEW evs, \A e \in evs : Sound(e), Publish(evs),
         UNCHANGED <<log, lost, beacons, routers, misled>>,
         sessions' \subseteq sessions, budget' \in [BudgetKinds -> Nat]
  PROVE  IInv'
<1>1. Tables'
  BY PublishKeepsTables DEF IInv
<1>2. RoutersOK'
  BY RoutersKept DEF IInv
<1>3. Counters'
  BY DEF IInv, Counters
<1>4. NoLostWakeup'
  BY WakeupKept DEF IInv, Publish
<1> QED
  BY <1>1, <1>2, <1>3, <1>4 DEF IInv

LEMMA AgentStep ==
  ASSUME IInv, NEW s \in sessions, Agent(s)
  PROVE  IInv'
<1>1. CASE AgentReports(s)
  <2>1. PICK x \in Results(s) : Publish({NewEvent(x[1], x[2], NoDelivery, 0)})
    BY <1>1 DEF AgentReports
  <2>2. s.runtime \in Runtimes
    BY DEF IInv, Counters, Session
  <2>3. x[1] \in EventTypes \ MarkerTypes /\ x[2] \in ArgsOf(x[1])
    BY <2>2, PipelineAssumption
       DEF Results, Runtimes, Agents, Validators, EventTypes, AgentResults, TERMINAL_EVENTS,
           ArgsOf, MarkerTypes
  <2>4. Sound(NewEvent(x[1], x[2], NoDelivery, 0))
    BY <2>3, NewEventIsSound DEF IInv, NoDelivery
  <2> QED
    BY <1>1, <2>1, <2>4, OutsideStep DEF AgentReports, IInv, Counters
<1>2. CASE AgentRaises(s)
  <2>1. Sound(NewEvent("RUN.FAILED", "none", NoDelivery, 0))
    BY NewEventIsSound DEF IInv, NoDelivery, ArgsOf, EventTypes, TERMINAL_EVENTS, MarkerTypes
  <2>2. budget' \in [BudgetKinds -> Nat]
    BY <1>2, SpendType DEF AgentRaises, BudgetKinds, IInv
  <2> QED
    BY <1>2, <2>1, <2>2, OutsideStep DEF AgentRaises
<1>3. CASE AgentDies(s)
  <2>1. budget' \in [BudgetKinds -> Nat]
    BY <1>3, SpendType DEF AgentDies, BudgetKinds, IInv
  <2>2. Publish({})
    BY <1>3 DEF AgentDies, Publish
  <2> QED
    BY <1>3, <2>1, <2>2, OutsideStep DEF AgentDies
<1> QED
  BY <1>1, <1>2, <1>3 DEF Agent

LEMMA GitHubStep ==
  ASSUME IInv, GitHub
  PROVE  IInv'
<1>1. ASSUME NEW k \in DOMAIN WebhookOf, PrWebhook(k) PROVE IInv'
  <2>1. k \in BudgetKinds /\ WebhookOf[k] \in WebhookTypes
    BY DEF WebhookOf, BudgetKinds, WebhookTypes
  <2>2. Sound(NewEvent(WebhookOf[k], "none", clock, 0))
    BY <2>1, NewEventIsSound
       DEF IInv, Tables, ArgsOf, EventTypes, WebhookTypes, MarkerTypes
  <2> QED
    BY <1>1, <2>1, <2>2, SpendType, OutsideStep DEF PrWebhook, IInv
<1>2. ASSUME NEW e \in log \cup bus, RedeliverWebhook(e) PROVE IInv'
  <2>1. e.type \in WebhookTypes /\ e.dlv \in Nat
    BY <1>2 DEF RedeliverWebhook, IInv, Tables, Published, Event
  <2>2. Sound(NewEvent(e.type, "none", e.dlv, 0))
    BY <2>1, NewEventIsSound DEF IInv, ArgsOf, EventTypes, WebhookTypes, MarkerTypes
  <2> QED
    BY <1>2, <2>2, SpendType, OutsideStep DEF RedeliverWebhook, IInv, BudgetKinds
<1>3. ASSUME NEW t \in {"RUN.COMPLETED", "RUN.CANCEL_REQUESTED"}
      PROVE  Sound(NewEvent(t, "none", NoDelivery, 0))
  BY NewEventIsSound DEF IInv, NoDelivery, ArgsOf, EventTypes, TERMINAL_EVENTS, MarkerTypes
<1>4. ASSUME handle_pull_request PROVE IInv'
  BY <1>3, <1>4, SpendType, OutsideStep DEF handle_pull_request, IInv, BudgetKinds
<1>5. ASSUME handle_issue_closed PROVE IInv'
  BY <1>3, <1>5, SpendType, OutsideStep DEF handle_issue_closed, IInv, BudgetKinds
<1> QED
  BY <1>1, <1>2, <1>4, <1>5 DEF GitHub

LEMMA BeaconStep ==
  ASSUME IInv, DuplicateBeacon
  PROVE  IInv'
<1>1. Publish({}) /\ budget' \in [BudgetKinds -> Nat]
  BY SpendType DEF DuplicateBeacon, Publish, BudgetKinds, IInv
<1>2. Tables'
  BY <1>1, PublishKeepsTables DEF IInv, DuplicateBeacon
<1>3. RoutersOK'
  BY RoutersKept DEF IInv, DuplicateBeacon
<1>4. Counters' /\ beacons' > 0
  BY <1>1 DEF IInv, Counters, DuplicateBeacon
<1> QED
  BY <1>2, <1>3, <1>4, BeaconSuffices DEF IInv

\* A decision on what was seen of the log.  What it requires is seen, hence in
\* the log; and unless it is what the whole log calls for, the reader is misled.
LEMMA DecisionStep ==
  ASSUME IInv, NEW r \in Routers, NEW seen \in SUBSET log, decide_on(r, seen),
         UNCHANGED <<log, bus, lost, sessions, clock>>, budget' \in [BudgetKinds -> Nat],
         beacons > 0
  PROVE  IInv'
<1> DEFINE act == decide(seen)
<1>1. WellFormed(seen) /\ WellFormed(log)
  BY DEF IInv, Tables, PartsWellFormed
<1>2. act \in Actions
  BY <1>1, DecideType
<1>3. act.kind = "invoke" => Precondition(MarkerOf(act), log)
  BY <1>1, DecideStage, PreconditionMonotone
<1>4. Publish({}) /\ UNCHANGED <<log, lost>>
  BY DEF Publish
<1>5. Tables'
  BY <1>4, PublishKeepsTables DEF IInv
<1>6. Counters' /\ misled' = (act # decide(log))
  BY DEF IInv, Counters, decide_on
<1>7. decide(log)' = decide(log)
  BY <1>4 DEF decide, Terminal, Has, decide_after_request, decide_after_triage,
       has_source_issue, first_of, OfType, ArchitectThenImplement, decide_after_design,
       decide_after_pr_open, InvokeOnce, InvokeForTrigger, has_event_after, emit_cancel,
       Latest, revise, emit_revision_cap_reached, current_revision_number,
       pending_blocking_review, events_since_last_validation
<1>8. CASE act = Noop
  <2>1. UNCHANGED routers
    BY <1>8 DEF decide_on
  <2>2. RoutersOK'
    BY <1>4, <2>1, RoutersKept DEF IInv
  <2>3. NoLostWakeup'
    BY <1>6, <1>7, <1>8 DEF NoLostWakeup
  <2> QED
    BY <1>5, <1>6, <2>2, <2>3 DEF IInv
<1>9. CASE act # Noop
  <2> DEFINE v == [Idle EXCEPT !.pc = "decided", !.act = act]
  <2>1. routers' = [routers EXCEPT ![r] = v]
    BY <1>9 DEF decide_on
  <2>2. /\ v \in [pc : {"idle", "decided", "marked"}, act : Actions,
                  todo : Seq(Runtimes), marker : Nat]
        /\ v.pc = "decided" /\ v.act = act
    BY <1>2, IdleType DEF Idle
  <2> HIDE DEF v
  <2>3. RoutersOK'
    BY <1>3, <1>4, <2>1, <2>2, RouterMoves DEF IInv
  <2>4. routers'[r] = v
    BY <2>1 DEF IInv, RoutersOK
  <2>5. NoLostWakeup'
    BY <1>6, <1>7, <2>2, <2>4 DEF NoLostWakeup, Attended
  <2> QED
    BY <1>5, <1>6, <2>3, <2>5 DEF IInv
<1> QED
  BY <1>8, <1>9

LEMMA ReadStep ==
  ASSUME IInv, NEW r \in Routers, process_record(r)
  PROVE  IInv'
<1>1. beacons > 0 /\ UNCHANGED <<log, bus, lost, sessions, clock>>
  BY DEF process_record
<1>2. CASE decide_on(r, log) /\ UNCHANGED budget
  <2>1. budget' \in [BudgetKinds -> Nat]
    BY <1>2 DEF IInv, Counters
  <2> QED
    BY <1>1, <1>2, <2>1, DecisionStep
<1>3. ASSUME Spend("stale"), NEW missed \in SUBSET Recent \ {{}}, decide_on(r, log \ missed)
      PROVE  IInv'
  <2>1. budget' \in [BudgetKinds -> Nat]
    BY <1>3, SpendType DEF IInv, BudgetKinds
  <2> QED
    BY <1>1, <1>3, <2>1, DecisionStep
<1> QED
  BY <1>2, <1>3 DEF process_record

\* Publishing what was decided answers the wake-up that rested on it.
LEMMA PublicationAnswers ==
  ASSUME IInv, NEW r \in Routers, NEW e, Answers(e, routers[r].act), Publish({e}), NEW v,
         routers' = [routers EXCEPT ![r] = v], UNCHANGED <<log, lost, beacons, misled>>
  PROVE  NoLostWakeup'
<1> DEFINE act == decide(log)
<1>1. act # Noop => \/ beacons > 0
                    \/ \E x \in Routers : routers[x].pc = "decided" /\ routers[x].act = act
                    \/ \E f \in bus \cup lost : Answers(f, act)
                    \/ misled
  BY DEF IInv, NoLostWakeup, Attended
<1>2. bus' = bus \cup {e}
  BY DEF Publish
<1>3. \A x \in Routers : x # r => routers'[x] = routers[x]
  BY DEF IInv, RoutersOK
<1> HIDE DEF act
<1>4. act # Noop => \/ beacons' > 0
                    \/ \E x \in Routers : routers'[x].pc = "decided" /\ routers'[x].act = act
                    \/ \E f \in bus' \cup lost' : Answers(f, act)
                    \/ misled'
  BY <1>1, <1>2, <1>3
<1>5. decide(log)' = act
  BY DEF decide, Terminal, Has, decide_after_request, decide_after_triage,
       has_source_issue, first_of, OfType, ArchitectThenImplement, decide_after_design,
       decide_after_pr_open, InvokeOnce, InvokeForTrigger, has_event_after, emit_cancel,
       Latest, revise, emit_revision_cap_reached, current_revision_number,
       pending_blocking_review, events_since_last_validation, act
<1> QED
  BY <1>4, <1>5 DEF NoLostWakeup, Attended, Answers

LEMMA EmitStep ==
  ASSUME IInv, NEW r \in Routers, execute_emit(r)
  PROVE  IInv'
<1> DEFINE e == NewEvent(routers[r].act.type, "none", NoDelivery, 0)
<1>1. routers[r].act \in Actions /\ routers[r].act.kind = "emit"
  BY DEF IInv, RoutersOK, execute_emit
<1>2. routers[r].act.type \in TERMINAL_EVENTS
  BY <1>1, EmitFields
<1>3. Sound(e)
  BY <1>2, NewEventIsSound DEF IInv, NoDelivery, ArgsOf, EventTypes, TERMINAL_EVENTS, MarkerTypes
<1>4. Answers(e, routers[r].act)
  BY <1>1 DEF Answers, NewEvent
<1> HIDE DEF e
<1>5. Publish({e}) /\ UNCHANGED <<log, lost, beacons, sessions, misled, budget>>
      /\ routers' = [routers EXCEPT ![r] = Idle]
  BY DEF execute_emit, e
<1>6. Tables'
  BY <1>3, <1>5, PublishKeepsTables DEF IInv
<1>7. RoutersOK'
  BY <1>5, IdleType, RouterMoves DEF IInv
<1>8. Counters'
  BY <1>5 DEF IInv, Counters
<1>9. NoLostWakeup'
  BY <1>4, <1>5, PublicationAnswers
<1> QED
  BY <1>6, <1>7, <1>8, <1>9 DEF IInv

LEMMA MarkerStep ==
  ASSUME IInv, NEW r \in Routers, publish_dispatch_marker(r)
  PROVE  IInv'
<1> DEFINE act == routers[r].act
           e == NewEvent(DISPATCH_MARKERS[act.agent], "none", NoDelivery, act.trigger)
           v == [routers[r] EXCEPT !.pc = "marked", !.marker = clock,
                                   !.todo = runtimes_of(act.agent)]
<1>1. act \in Actions /\ act.kind = "invoke" /\ Precondition(MarkerOf(act), log)
  BY DEF IInv, RoutersOK, publish_dispatch_marker
<1>2. act.agent \in Agents /\ act.trigger \in Nat
  BY <1>1, InvokeFields
<1>3. DISPATCH_MARKERS[act.agent] \in EventTypes /\ "none" \in ArgsOf(DISPATCH_MARKERS[act.agent])
  BY <1>2 DEF DISPATCH_MARKERS, Agents, EventTypes, MarkerTypes, ArgsOf
<1>4. Sound(e)
  BY <1>1, <1>2, <1>3, NewEventIsSound DEF IInv, NoDelivery, MarkerOf
<1>5. Answers(e, act)
  BY <1>1 DEF Answers, NewEvent
<1>6. /\ v \in [pc : {"idle", "decided", "marked"}, act : Actions,
                todo : Seq(Runtimes), marker : Nat]
      /\ v.pc = "marked" /\ v.act = act /\ v.todo # <<>>
  <2>1. runtimes_of(act.agent) \in Seq(Runtimes) /\ runtimes_of(act.agent) # <<>> /\ clock \in Nat
    BY <1>2, RuntimesOf DEF IInv, Tables
  <2> QED
    BY <2>1 DEF IInv, RoutersOK
<1> HIDE DEF e, v
<1>7. Publish({e}) /\ UNCHANGED <<log, lost, beacons, sessions, misled, budget>>
      /\ routers' = [routers EXCEPT ![r] = v]
  BY DEF publish_dispatch_marker, e, v
<1>8. Tables'
  BY <1>4, <1>7, PublishKeepsTables DEF IInv
<1>9. RoutersOK'
  BY <1>1, <1>6, <1>7, RouterMoves DEF IInv
<1>10. Counters'
  BY <1>7 DEF IInv, Counters
<1>11. NoLostWakeup'
  BY <1>5, <1>7, PublicationAnswers
<1> QED
  BY <1>8, <1>9, <1>10, <1>11 DEF IInv

LEMMA HeadOfRuntimes ==
  ASSUME NEW S, NEW s \in Seq(S), s # <<>>
  PROVE  /\ Head(s) \in S /\ Tail(s) \in Seq(S)
         /\ Len(s) # 1 => Tail(s) # <<>>
<1>1. Head(s) \in S /\ Tail(s) \in Seq(S) /\ Len(Tail(s)) = Len(s) - 1
  BY HeadTailProperties
<1>2. Len(s) \in Nat
  BY LenProperties
<1>3. Len(s) # 1 => Len(Tail(s)) # 0
  BY <1>1, <1>2
<1>4. Len(<<>>) = 0
  BY EmptySeq
<1>5. Len(s) # 1 => Tail(s) # <<>>
  <2> DEFINE t == Tail(s)
  <2>1. Len(s) # 1 => Len(t) # 0
    BY <1>3
  <2> HIDE DEF t
  <2>2. Len(s) # 1 => t # <<>>
    BY <2>1, <1>4, Zenon
  <2> QED
    BY <2>2 DEF t
<1> QED
  BY <1>1, <1>5, Zenon

\* The state an invocation is in after a runtime call.
LEMMA NextRuntimeType ==
  ASSUME RoutersOK, NEW r \in Routers, routers[r].pc = "marked", NextRuntime(r), UNCHANGED log
  PROVE  RoutersOK' /\ Head(routers[r].todo) \in Runtimes
<1> DEFINE q == routers[r]
           v == IF Len(q.todo) = 1 THEN Idle ELSE [q EXCEPT !.todo = Tail(q.todo)]
<1>1. q.todo \in Seq(Runtimes) /\ q.todo # <<>> /\ q.act.kind = "invoke"
  BY DEF RoutersOK
<1>2. Head(q.todo) \in Runtimes /\ Tail(q.todo) \in Seq(Runtimes)
      /\ (Len(q.todo) # 1 => Tail(q.todo) # <<>>)
  BY <1>1, HeadOfRuntimes
<1>3. /\ v \in [pc : {"idle", "decided", "marked"}, act : Actions,
                todo : Seq(Runtimes), marker : Nat]
      /\ v.pc = "marked" => v.act.kind = "invoke" /\ v.todo # <<>>
      /\ v.pc # "decided"
  BY <1>1, <1>2, IdleType DEF RoutersOK
<1>4. routers' = [routers EXCEPT ![r] = v]
  BY DEF NextRuntime
<1> HIDE DEF v
<1>5. RoutersOK'
  BY <1>3, <1>4, RouterMoves
<1> QED
  BY <1>2, <1>5

LEMMA RuntimeCallStep ==
  ASSUME IInv, NEW r \in Routers, dispatch_to_runtime(r) \/ dispatch_fails(r)
  PROVE  IInv'
<1>1. routers[r].pc = "marked" /\ NextRuntime(r) /\ UNCHANGED <<log, lost, beacons, misled>>
  BY DEF dispatch_to_runtime, dispatch_fails
<1>2. RoutersOK' /\ Head(routers[r].todo) \in Runtimes
  BY <1>1, NextRuntimeType DEF IInv
<1>3. \A x \in Routers : routers[x].pc = "decided" => routers'[x] = routers[x]
  BY <1>1 DEF NextRuntime, IInv, RoutersOK
<1>4. CASE dispatch_to_runtime(r)
  <2>1. Publish({}) /\ UNCHANGED <<log, lost>>
    BY <1>4 DEF dispatch_to_runtime, Publish
  <2>2. Tables'
    BY <2>1, PublishKeepsTables DEF IInv
  <2>3. routers[r].act.mode \in {"implementation", "revision"} /\ routers[r].marker \in Nat
    BY <1>1, InvokeFields DEF IInv, RoutersOK
  <2>4. Counters'
    BY <1>2, <1>4, <2>3 DEF dispatch_to_runtime, IInv, Counters, Session
  <2>5. NoLostWakeup'
    BY <1>1, <1>3, <1>4, WakeupKept DEF dispatch_to_runtime, IInv
  <2> QED
    BY <1>2, <2>2, <2>4, <2>5 DEF IInv
<1>5. CASE dispatch_fails(r)
  <2>1. Sound(NewEvent("RUN.FAILED", "none", NoDelivery, 0))
    BY NewEventIsSound DEF IInv, NoDelivery, ArgsOf, EventTypes, TERMINAL_EVENTS, MarkerTypes
  <2>2. PICK evs : Publish(evs) /\ \A e \in evs : Sound(e)
    BY <1>5, <2>1 DEF dispatch_fails
  <2>3. Tables'
    BY <1>1, <2>2, PublishKeepsTables DEF IInv
  <2>4. Counters'
    BY <1>5, SpendType DEF dispatch_fails, IInv, Counters, BudgetKinds
  <2>5. NoLostWakeup'
    BY <1>1, <1>3, <2>2, WakeupKept DEF IInv, Publish
  <2> QED
    BY <1>2, <2>3, <2>4, <2>5 DEF IInv
<1> QED
  BY <1>4, <1>5

LEMMA CrashStep ==
  ASSUME IInv, NEW r \in Routers, Crash(r)
  PROVE  IInv'
<1>1. Publish({}) /\ UNCHANGED <<log, lost>> /\ budget' \in [BudgetKinds -> Nat]
      /\ routers' = [routers EXCEPT ![r] = Idle]
  BY SpendType DEF Crash, Publish, BudgetKinds, IInv
<1>2. Tables'
  BY <1>1, PublishKeepsTables DEF IInv
<1>3. RoutersOK'
  BY <1>1, IdleType, RouterMoves DEF IInv
<1>4. Counters' /\ beacons' > 0
  BY <1>1 DEF Crash, IInv, Counters
<1> QED
  BY <1>2, <1>3, <1>4, BeaconSuffices DEF IInv

-----------------------------------------------------------------------------
LEMMA StutterStep ==
  ASSUME IInv, UNCHANGED vars
  PROVE  IInv'
<1>1. Publish({}) /\ UNCHANGED <<log, lost, beacons, routers, misled>> /\ sessions' \subseteq sessions
      /\ budget' \in [BudgetKinds -> Nat]
  BY DEF vars, Publish, IInv, Counters
<1>2. \A e \in {} : Sound(e)
  OBVIOUS
<1> QED
  BY <1>1, <1>2, OutsideStep

LEMMA NextIInv == IInv /\ [Next]_vars => IInv'
<1> SUFFICES ASSUME IInv, [Next]_vars PROVE IInv'
  OBVIOUS
<1>1. ASSUME NEW r \in Routers, RouterStep(r) PROVE IInv'
  BY <1>1, ReadStep, EmitStep, MarkerStep, RuntimeCallStep, CrashStep DEF RouterStep, Router
<1>2. ASSUME NEW e \in bus, Project(e) PROVE IInv'
  BY <1>2, ProjectStep
<1>3. ASSUME NEW s \in sessions, Agent(s) PROVE IInv'
  BY <1>3, AgentStep
<1>4. CASE DuplicateBeacon
  BY <1>4, BeaconStep
<1>5. CASE GitHub
  BY <1>5, GitHubStep
<1>6. CASE UNCHANGED vars
  BY <1>6, StutterStep
<1> QED
  BY <1>1, <1>2, <1>3, <1>4, <1>5, <1>6 DEF Next

THEOREM InvariantHolds == Spec => []IInv
  BY InitIInv, NextIInv, PTL DEF Spec

\* Every variable keeps its type, ids stay below the clock and only webhook
\* events carry a delivery id.
THEOREM TypeCorrect == Spec => []TypeOK
  BY InvariantHolds, IInvTypes, PTL

\* The run is owed no action that nobody will take, except where the last reader
\* of the log missed a row that matters.
THEOREM WakeupsAreNotLost == Spec => []NoLostWakeup
<1>1. IInv => NoLostWakeup
  BY DEF IInv
<1> QED
  BY <1>1, InvariantHolds, PTL

\* No dispatch is published ahead of its stage.
THEOREM StagesAreInOrder == Spec => []StagesInOrder
<1>1. IInv => StagesInOrder
  BY DEF IInv, Tables
<1> QED
  BY <1>1, InvariantHolds, PTL
=============================================================================
