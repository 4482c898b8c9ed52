------------------------------ MODULE Pipeline ------------------------------
(***************************************************************************)
(* One run end to end: event log, beacon queue, state router, agent        *)
(* runtimes and GitHub.  Nothing here is synchronous.  A published event   *)
(* waits on the bus until the projector commits it, in any order; every    *)
(* commit sends one beacon; a router invocation reads the log at one       *)
(* moment and acts on what it read at a later one, publishing the dispatch *)
(* marker first and calling the runtime second; an agent works for as long *)
(* as it likes and then publishes; GitHub's webhooks come at any time.     *)
(*                                                                         *)
(* The projector's own steps are module Projector; here they are the       *)
(* abstract log it implements (module EventLog) for the events of one run. *)
(* Event ids are minted by one clock, so they order publications.          *)
(***************************************************************************)
EXTENDS Decide, Sequences

CONSTANTS Routers,             \* concurrent state_router invocations
          VALIDATOR_RUNTIMES,  \* the runtimes one validation pass invokes, in order
          RequestKinds,        \* the args of REQUEST.RECEIVED a run may start with
          TriageOutcomes,      \* what the triage agent may decide
          Verdicts,            \* what the reviewer may decide
          Budget,              \* how often each bounded event of the world happens
          Lag,                 \* bound: how many of the last ids a read may miss
          MaxInFlight,         \* bound: events on the bus at a time
          MaxEvents            \* bound: events of the run

Validators == {"reviewer", "tester", "code_critic"}
Runtimes == (Agents \ {"validators"}) \cup Validators

\* What is bounded: human mentions, human validation requests, failed and
\* passed checks, the closing of the PR and of the issue, redelivered webhooks;
\* duplicated beacons, reads that miss rows, router crashes, failed runtime
\* calls, agent exceptions, killed agents, and events the projector gives up on.
BudgetKinds == {"mention", "nudge", "checks_failed", "checks_passed", "pr_closed",
                "issue_closed", "redelivery", "beacon", "stale", "crash", "invoke",
                "agent_error", "agent_death", "loss"}

ASSUME PipelineAssumption ==
  /\ VALIDATOR_RUNTIMES \in Seq(Validators) /\ VALIDATOR_RUNTIMES # <<>>
  /\ RequestKinds \subseteq {"issue", "programmatic"}
  /\ TriageOutcomes \subseteq TriageActions /\ Verdicts \subseteq ReviewVerdicts
  /\ Budget \in [BudgetKinds -> Nat]
  /\ Lag \in Nat /\ MaxInFlight \in Nat /\ MaxEvents \in Nat

VARIABLES log,       \* the run's EVENT# rows
          bus,       \* published, not yet projected
          lost,      \* dropped by the projector after its last attempt
          beacons,   \* beacons in the SQS queue
          routers,   \* per invocation, where it is and what it decided
          sessions,  \* agent tasks that are running
          misled,    \* history: the last reader decided what the log does not call for
          clock,     \* the next event id
          budget     \* what is left of Budget

vars == <<log, bus, lost, beacons, routers, sessions, misled, clock, budget>>

\* trg is history: for a dispatch marker, the trigger the dispatch answers.
Event == [id : Nat \ {0}, type : EventTypes, arg : UNION {ArgsOf(t) : t \in EventTypes},
          dlv : Nat, trg : Nat]
NewEvent(type, arg, dlv, trg) ==
  [id |-> clock, type |-> type, arg |-> arg, dlv |-> dlv, trg |-> trg]

Idle == [pc |-> "idle", act |-> Noop, todo |-> <<>>, marker |-> 0]

\* Mutant: two events of one id.
Publish_same_id(events) ==
  /\ events # {} => Cardinality(bus) < MaxInFlight /\ clock <= MaxEvents
  /\ bus' = bus \cup events
  /\ clock' = clock

\* The publications of this step: the set of one new event, or none.
Publish(events) ==
  /\ events # {} => Cardinality(bus) < MaxInFlight /\ clock <= MaxEvents
  /\ bus' = bus \cup events
  /\ clock' = IF events = {} THEN clock ELSE clock + 1

Spend(kind) ==
  /\ budget[kind] > 0
  /\ budget' = [budget EXCEPT ![kind] = @ - 1]

Init == /\ \E k \in RequestKinds :
             bus = {[id |-> 1, type |-> "REQUEST.RECEIVED", arg |-> k,
                     dlv |-> NoDelivery, trg |-> 0]}
        /\ log = {} /\ lost = {} /\ beacons = 0 /\ sessions = {} /\ misled = FALSE
        /\ routers = [r \in Routers |-> Idle]
        /\ clock = 2
        /\ budget = Budget

-----------------------------------------------------------------------------
(* The projector, the stream, the pipe and the queue.                      *)

Duplicate(e) == \E f \in log : SameDelivery(e, f)

\* Mutant: the pipe's filter misses the webhook events.
Commit_filtered(e) ==
  /\ ~Duplicate(e)
  /\ log' = log \cup {e}
  /\ bus' = bus \ {e}
  /\ beacons' = IF e.type \in WebhookTypes THEN beacons ELSE beacons + 1
  /\ UNCHANGED <<lost, routers, sessions, misled, clock, budget>>

\* The row is inserted; the pipe turns the INSERT into a beacon.
Commit(e) == /\ ~Duplicate(e)
             /\ log' = log \cup {e}
             /\ bus' = bus \ {e}
             /\ beacons' = beacons + 1
             /\ UNCHANGED <<lost, routers, sessions, misled, clock, budget>>

Drop(e) == /\ Duplicate(e)
           /\ bus' = bus \ {e}
           /\ UNCHANGED <<log, lost, beacons, routers, sessions, misled, clock, budget>>

Lose(e) == /\ Spend("loss")
           /\ bus' = bus \ {e}
           /\ lost' = lost \cup {e}
           /\ UNCHANGED <<log, beacons, routers, sessions, misled, clock>>

Project(e) == Commit(e) \/ Drop(e) \/ Lose(e)

\* At-least-once: the pipe or SQS delivers a beacon of this run once more.
DuplicateBeacon == /\ log # {} /\ Spend("beacon")
                   /\ beacons' = beacons + 1
                   /\ UNCHANGED <<log, bus, lost, routers, sessions, misled, clock>>

-----------------------------------------------------------------------------
(* The state router: process_record, execute.                              *)

\* Mutant: keeps the beacon of a Noop visible.
decide_on_keeps_beacon(r, seen) ==
  LET act == decide(seen) IN
  /\ act # Raise
  /\ beacons' = IF act = Noop THEN beacons ELSE beacons - 1
  /\ routers' = IF act = Noop THEN routers
                ELSE [routers EXCEPT ![r] = [Idle EXCEPT !.pc = "decided", !.act = act]]
  /\ misled' = (act # decide(log))

\* decide() on the rows an invocation has read, and its beacon acknowledged in
\* the end; no events and Noop acknowledge it at once.
decide_on(r, seen) ==
  LET act == decide(seen) IN
  /\ act # Raise
  /\ beacons' = beacons - 1
  /\ routers' = IF act = Noop THEN routers
                ELSE [routers EXCEPT ![r] = [Idle EXCEPT !.pc = "decided", !.act = act]]
  /\ misled' = (act # decide(log))

\* The rows a replica may not have yet.
Recent == {e \in log : clock <= e.id + Lag}

\* process_record up to decide().  read_events is a Query, page by page and
\* without ConsistentRead: it may miss any recent rows, that of the event whose
\* beacon is handled among them.
process_record(r) ==
  /\ routers[r] = Idle /\ beacons > 0
  /\ \/ decide_on(r, log) /\ UNCHANGED budget
     \/ Spend("stale") /\ \E missed \in SUBSET Recent \ {{}} : decide_on(r, log \ missed)
  /\ UNCHANGED <<log, bus, lost, sessions, clock>>

\* EmitEvent: publish the terminal event decide() built.
execute_emit(r) ==
  /\ routers[r].pc = "decided" /\ routers[r].act.kind = "emit"
  /\ Publish({NewEvent(routers[r].act.type, "none", NoDelivery, 0)})
  /\ routers' = [routers EXCEPT ![r] = Idle]
  /\ UNCHANGED <<log, lost, beacons, sessions, misled, budget>>

runtimes_of(agent) == IF agent = "validators" THEN VALIDATOR_RUNTIMES ELSE <<agent>>

publish_dispatch_marker(r) ==
  LET act == routers[r].act IN
  /\ routers[r].pc = "decided" /\ act.kind = "invoke"
  /\ Publish({NewEvent(DISPATCH_MARKERS[act.agent], "none", NoDelivery, act.trigger)})
  /\ routers' = [routers EXCEPT ![r] = [@ EXCEPT !.pc = "marked", !.marker = clock,
                                                 !.todo = runtimes_of(act.agent)]]
  /\ UNCHANGED <<log, lost, beacons, sessions, misled, budget>>

\* The call returned; the invocation ends after the last runtime.
NextRuntime(r) ==
  LET q == routers[r] IN
  routers' = [routers EXCEPT ![r] = IF Len(q.todo) = 1 THEN Idle
                                    ELSE [q EXCEPT !.todo = Tail(q.todo)]]

dispatch_to_runtime(r) ==
  LET act == routers[r].act IN
  /\ routers[r].pc = "marked"
  /\ sessions' = sessions \cup {[runtime |-> Head(routers[r].todo), mode |-> act.mode,
                                 marker |-> routers[r].marker]}
  /\ NextRuntime(r)
  /\ UNCHANGED <<log, bus, lost, beacons, misled, clock, budget>>

\* The call failed: a validator is skipped, any other agent fails the run.
dispatch_fails(r) ==
  /\ routers[r].pc = "marked" /\ Spend("invoke")
  /\ NextRuntime(r)
  /\ Publish(IF routers[r].act.agent = "validators" THEN {}
             ELSE {NewEvent("RUN.FAILED", "none", NoDelivery, 0)})
  /\ UNCHANGED <<log, lost, beacons, sessions, misled>>

\* Mutant: the exception is caught and the beacon acknowledged.
Crash_acknowledged(r) ==
  /\ routers[r].pc # "idle" /\ Spend("crash")
  /\ routers' = [routers EXCEPT ![r] = Idle]
  /\ UNCHANGED <<log, bus, lost, beacons, sessions, misled, clock>>

\* The invocation dies, times out or raises: SQS shows the beacon again.
Crash(r) == /\ routers[r].pc # "idle" /\ Spend("crash")
            /\ routers' = [routers EXCEPT ![r] = Idle]
            /\ beacons' = beacons + 1
            /\ UNCHANGED <<log, bus, lost, sessions, misled, clock>>

Router(r) == \/ process_record(r) \/ execute_emit(r) \/ publish_dispatch_marker(r)
             \/ dispatch_to_runtime(r) \/ dispatch_fails(r)
RouterStep(r) == Router(r) \/ Crash(r)

-----------------------------------------------------------------------------
(* The agents: what the background task publishes when it ends.            *)

\* The <<type, arg>> a task may report on success.
Results(s) ==
  CASE s.runtime = "triage"      -> {"ISSUE.TRIAGED"} \X TriageOutcomes
    [] s.runtime = "architect"   -> {<<"DESIGN.READY", "none">>}
    [] s.runtime = "implementer" ->
         {IF s.mode = "revision" THEN <<"REVISION.READY", "none">>
                                 ELSE <<"IMPL_PR.OPENED", "none">>}
    [] s.runtime = "reviewer"    -> {"REVIEW.READY"} \X Verdicts
    [] s.runtime = "tester"      -> {<<"TEST_REPORT.READY", "none">>}
    [] s.runtime = "code_critic" -> {<<"CODE_CRITIQUE.READY", "none">>}
    [] s.runtime = "proposer"    -> {<<"RUN.COMPLETED", "none">>}

AgentReports(s) ==
  /\ \E x \in Results(s) : Publish({NewEvent(x[1], x[2], NoDelivery, 0)})
  /\ sessions' = sessions \ {s}
  /\ UNCHANGED <<log, lost, beacons, routers, misled, budget>>

\* Mutant: the architect logs its exception, too.
SilentRuntimes_architect == {"reviewer", "tester", "proposer", "architect"}

\* The runtimes whose handler swallows an exception without an event.
SilentRuntimes == {"reviewer", "tester", "proposer"}

AgentRaises(s) ==
  /\ Spend("agent_error")
  /\ Publish(IF s.runtime \in SilentRuntimes THEN {}
             ELSE {NewEvent("RUN.FAILED", "none", NoDelivery, 0)})
  /\ sessions' = sessions \ {s}
  /\ UNCHANGED <<log, lost, beacons, routers, misled>>

\* The microVM is killed, or even try_publish of RUN.FAILED is rejected.
AgentDies(s) == /\ Spend("agent_death")
                /\ sessions' = sessions \ {s}
                /\ UNCHANGED <<log, bus, lost, beacons, routers, misled, clock>>

Agent(s) == AgentReports(s) \/ AgentRaises(s) \/ AgentDies(s)

-----------------------------------------------------------------------------
(* GitHub, through the webhook routes of the dashboard.                    *)

\* lookup_pr: SUMMARY has the pr_url once IMPL_PR.OPENED is projected.
PrTracked == Has(log, "IMPL_PR.OPENED")

WebhookOf == [mention       |-> "IMPL.ITERATION_REQUESTED",
              nudge         |-> "VALIDATION.REQUESTED",
              checks_failed |-> "CHECKS.FAILED",
              checks_passed |-> "CHECKS.PASSED"]

\* A fresh delivery; its id is the id of the first event it produced.
PrWebhook(kind) ==
  /\ PrTracked /\ Spend(kind)
  /\ Publish({NewEvent(WebhookOf[kind], "none", clock, 0)})
  /\ UNCHANGED <<log, lost, beacons, routers, sessions, misled>>

\* GitHub delivers a webhook again: a fresh event_id, the same delivery id.
RedeliverWebhook(e) ==
  /\ e.dlv # NoDelivery /\ Spend("redelivery")
  /\ Publish({NewEvent(e.type, "none", e.dlv, 0)})
  /\ UNCHANGED <<log, lost, beacons, routers, sessions, misled>>

handle_pull_request ==
  /\ PrTracked /\ Spend("pr_closed")
  /\ \E t \in {"RUN.COMPLETED", "RUN.CANCEL_REQUESTED"} :
       Publish({NewEvent(t, "none", NoDelivery, 0)})
  /\ UNCHANGED <<log, lost, beacons, routers, sessions, misled>>

\* The issue is closed or the bot is unassigned; gsi1 finds the run.
handle_issue_closed ==
  /\ \E e \in log : e.type = "REQUEST.RECEIVED" /\ e.arg = "issue"
  /\ Spend("issue_closed")
  /\ Publish({NewEvent("RUN.CANCEL_REQUESTED", "none", NoDelivery, 0)})
  /\ UNCHANGED <<log, lost, beacons, routers, sessions, misled>>

GitHub == \/ \E k \in DOMAIN WebhookOf : PrWebhook(k)
          \/ \E e \in log \cup bus : RedeliverWebhook(e)
          \/ handle_pull_request \/ handle_issue_closed

-----------------------------------------------------------------------------
Next == \/ \E e \in bus : Project(e)
        \/ DuplicateBeacon
        \/ \E r \in Routers : RouterStep(r)
        \/ \E s \in sessions : Agent(s)
        \/ GitHub

Spec == Init /\ [][Next]_vars

\* EventBridge delivers, the queue's event source mapping polls, a started
\* invocation goes on and a running agent ends.  Humans owe nothing.
Fairness == /\ WF_vars(\E e \in bus : Commit(e) \/ Drop(e))
            /\ \A r \in Routers : WF_vars(Router(r))
            /\ WF_vars(\E s \in sessions : Agent(s))
FairSpec == Spec /\ Fairness

-----------------------------------------------------------------------------
\* Every event published so far, a dropped duplicate aside.
Published == bus \cup log \cup lost

\* The type invariant: ids are unique and only webhook events have a delivery.
TypeOK ==
  /\ log \subseteq Event /\ bus \subseteq Event /\ lost \subseteq Event
  /\ \A e \in Published :
       e.id < clock /\ e.arg \in ArgsOf(e.type) /\ (e.dlv # NoDelivery => e.type \in WebhookTypes)
  /\ beacons \in Nat /\ clock \in Nat
  /\ routers \in [Routers -> [pc : {"idle", "decided", "marked"}, act : Actions,
                              todo : Seq(Runtimes), marker : Nat]]
  /\ sessions \subseteq [runtime : Runtimes, mode : {"implementation", "revision"},
                         marker : Nat]
  /\ misled \in BOOLEAN
  /\ budget \in [BudgetKinds -> Nat]

\* What e does about a decision: it is its marker or the event it emits.
Answers(e, act) == \/ act.kind = "invoke" /\ e.type = DISPATCH_MARKERS[act.agent]
                   \/ act.kind = "emit" /\ e.type = act.type

\* Somebody is going to take the action: a beacon is queued, or an invocation
\* has decided exactly that, or the event that settles it is published (and, at
\* worst, was dropped).
Attended(act) == \/ beacons > 0
                 \/ \E r \in Routers : routers[r].pc = "decided" /\ routers[r].act = act
                 \/ \E e \in bus \cup lost : Answers(e, act)

\* The run is owed no action that nobody will take, except where the Query of
\* the last reader missed a row that matters: its beacon is acknowledged, and
\* only that makes a run wait for an event that need not come.
NoLostWakeup ==
  LET act == decide(log) IN act # Noop => Attended(act) \/ misled

\* state_router/handler.py: a beacon means an event landed, "re-read the event
\* log and decide what to do next".  Not so, since the read may miss the event.
EveryBeaconIsHeeded ==
  LET act == decide(log) IN act # Noop => Attended(act)

\* No dispatch ahead of its stage, however stale the log its invocation read:
\* what must precede a marker is projected before the marker is published.
Says(L, type, arg) == \E f \in L : f.type = type /\ f.arg = arg
Precondition(e, L) ==
  CASE e.type = "TRIAGE.DISPATCHED"      -> Says(L, "REQUEST.RECEIVED", "issue")
    [] e.type = "ARCHITECT.DISPATCHED"   -> \/ Says(L, "REQUEST.RECEIVED", "programmatic")
                                            \/ Says(L, "ISSUE.TRIAGED", "proceed")
    [] e.type = "PROPOSER.DISPATCHED"    -> Says(L, "ISSUE.TRIAGED", "research")
    [] e.type = "IMPLEMENTER.DISPATCHED" -> Has(L, IF e.trg = 0 THEN "DESIGN.READY" ELSE "IMPL_PR.OPENED")
    [] e.type = "VALIDATORS.DISPATCHED"  -> Has(L, "IMPL_PR.OPENED")
    [] OTHER                             -> TRUE
StagesInOrder ==
  \A e \in Published : Precondition(e, {f \in log : f.id < e.id})

Markers == {e \in Published : e.type \in MarkerTypes}

\* decide.py: each agent is dispatched once per trigger (once per run before
\* the PR); the marker is the idempotency proof.
OneDispatchPerTrigger ==
  \A m, n \in Markers : m.type = n.type /\ m.trg = n.trg => m = n

\* A blocking verdict of an open run that no later dispatch or verdict has met.
VerdictPending ==
  /\ ~Terminal(log)
  /\ \E e \in log :
       /\ e.type = "REVIEW.READY" /\ e.arg = "request_changes"
       /\ \A f \in log : f.id > e.id =>
            f.type \notin {"IMPLEMENTER.DISPATCHED", "VALIDATORS.DISPATCHED", "REVIEW.READY"}

\* Nothing of the run is under way.
AtRest == /\ beacons = 0 /\ bus = {} /\ sessions = {}
          /\ \A r \in Routers : routers[r] = Idle

\* Every blocking verdict is met, whatever reports, mentions or checks come
\* behind it: a run at rest has passed it to an implementer, superseded it by
\* another pass or verdict, or ended (the cap included).  Only a marker that was
\* dropped, or a last reader that missed rows that matter, leaves it pending.
VerdictIsMet == AtRest /\ VerdictPending => misled \/ lost # {}

\* A request comes to an open PR or to the end of its run, unless the last
\* reader missed rows that matter.
ReachesPrOrEnd == <>(Has(log, "IMPL_PR.OPENED") \/ Terminal(log)) \/ <>[]misled

\* The loop in which every event is a beacon, a beacon a dispatch and a
\* dispatch two events comes to rest.
ComesToRest == <>[]AtRest

\* pipeline.md: IMPL.ITERATION_REQUESTED -> revising.  A projected mention gets
\* a later implementer dispatch, unless the run ends.
MentionPending ==
  /\ ~Terminal(log)
  /\ \E e \in log :
       /\ e.type = "IMPL.ITERATION_REQUESTED"
       /\ \A f \in log : f.id > e.id => f.type # "IMPLEMENTER.DISPATCHED"
MentionIsAnswered == []<>~MentionPending
=============================================================================
