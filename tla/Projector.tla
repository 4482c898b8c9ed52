------------------------------ MODULE Projector ------------------------------
(***************************************************************************)
(* The event_projector Lambda, from the platform bus to the runs table and *)
(* AgentCore Memory.  EventBridge delivers every envelope at least once,   *)
(* in any order, to concurrent invocations.  One invocation is two steps:  *)
(* the DynamoDB transaction, which is atomic, and the CreateEvent call     *)
(* after it; a failure or a crash can come before, between or after them,  *)
(* and Lambda retries a failed asynchronous invocation a bounded number of *)
(* times before it drops it.                                               *)
(***************************************************************************)
EXTENDS Events, FiniteSets

CONSTANTS Runs,          \* run ids
          Envelope,      \* every envelope that may be put on the bus
          Copies,        \* per envelope, how many deliveries may be pending at once
          MAX_ATTEMPTS   \* invocation attempts per delivery (1 + Lambda's retries)

NoPr == "no PR"
NoStatus == "no status"

ASSUME ProjectorAssumption ==
  /\ Copies \in [Envelope -> Nat \ {0}] /\ MAX_ATTEMPTS \in Nat \ {0}
  /\ \A e \in Envelope :
       /\ e.run \in Runs /\ e.id \in Nat /\ e.dlv \in Nat /\ e.usage \in Nat
       /\ e.type \in EventTypes /\ e.wellformed \in BOOLEAN
  /\ \A e, f \in Envelope : e.id = f.id => e = f

VARIABLES published,   \* envelopes put on the bus so far
          queue,       \* deliveries waiting for an invocation
          committing,  \* deliveries whose transaction committed, CreateEvent pending
          discarded,   \* deliveries Lambda gave up on
          rows,        \* EVENT# rows, as the envelopes they hold
          guards,      \* WEBHOOK_DELIVERY# rows, as <<run, delivery, type>>
          summary,     \* per run, the SUMMARY row
          stream,      \* per run, INSERT records of EVENT# rows sent to the pipe
          memory       \* per envelope, CreateEvent calls that reached AgentCore

vars == <<published, queue, committing, discarded, rows, guards, summary, stream, memory>>

Delivery == [env : Envelope, copy : Nat \ {0}, tries : 0..MAX_ATTEMPTS]

EmptySummary == [status |-> NoStatus, last_event_id |-> 0, pr_url |-> NoPr,
                 total |-> 0]

Init == /\ published = {} /\ queue = {} /\ committing = {} /\ discarded = {}
        /\ rows = {} /\ guards = {}
        /\ summary = [r \in Runs |-> EmptySummary]
        /\ stream = [r \in Runs |-> 0]
        /\ memory = [e \in Envelope |-> 0]

-----------------------------------------------------------------------------
(* The bus (EventBridge, external).                                        *)

\* A publisher's PutEvents is accepted.
Publish(e) == /\ e \notin published
              /\ published' = published \cup {e}
              /\ queue' = queue \cup {[env |-> e, copy |-> 1, tries |-> 0]}
              /\ UNCHANGED <<committing, discarded, rows, guards, summary, stream, memory>>

\* At-least-once delivery: another copy of an envelope already published.
DeliverAgain(e) == \E c \in 2..Copies[e] :
  /\ e \in published
  /\ \A d \in queue \cup committing \cup discarded : d.env = e => d.copy < c
  /\ queue' = queue \cup {[env |-> e, copy |-> c, tries |-> 0]}
  /\ UNCHANGED <<published, committing, discarded, rows, guards, summary, stream, memory>>

\* A failed attempt d goes back to the queue or, out of attempts, is dropped.
Retried(d) == [d EXCEPT !.tries = @ + 1]
GiveBack(d, q) ==
  IF d.tries + 1 < MAX_ATTEMPTS
  THEN queue' = q \cup {Retried(d)} /\ UNCHANGED discarded
  ELSE queue' = q /\ discarded' = discarded \cup {Retried(d)}

-----------------------------------------------------------------------------
(* project_event: one TransactWriteItems.                                  *)

\* Mutants: the conditional puts without their conditions.
event_row_free_always(e) == TRUE
guard_row_free_always(e) == TRUE

event_row_free(e) == \A f \in rows : ~(f.run = e.run /\ f.id = e.id)
guard_row(e) == <<e.run, e.dlv, e.type>>
guard_row_free(e) == e.dlv = NoDelivery \/ guard_row(e) \notin guards
ConditionsHold(e) == event_row_free(e) /\ guard_row_free(e)

\* Mutant: a guard row for every event.
webhook_delivery_row_always(e) == {guard_row(e)}

webhook_delivery_row(e) == IF e.dlv = NoDelivery THEN {} ELSE {guard_row(e)}

\* Mutant: SET instead of ADD.
summary_row_set(s, e) ==
  [status |-> e.type, last_event_id |-> e.id, total |-> e.usage,
   pr_url |-> IF e.type = "IMPL_PR.OPENED" /\ e.pr # NoPr THEN e.pr ELSE s.pr_url]

\* SET status and last_event_id; SET pr_url on IMPL_PR.OPENED; ADD the usage.
\* The attributes set once per run and never changed are left out.
summary_row(s, e) ==
  [status        |-> e.type,
   last_event_id |-> e.id,
   pr_url        |-> IF e.type = "IMPL_PR.OPENED" /\ e.pr # NoPr THEN e.pr ELSE s.pr_url,
   total         |-> s.total + e.usage]

Commit(d) ==
  /\ d \in queue /\ d.env.wellformed
  /\ ConditionsHold(d.env)
  /\ rows' = rows \cup {d.env}
  /\ guards' = guards \cup webhook_delivery_row(d.env)
  /\ summary' = [summary EXCEPT ![d.env.run] = summary_row(@, d.env)]
  /\ stream' = [stream EXCEPT ![d.env.run] = @ + 1]
  /\ queue' = queue \ {d}
  /\ committing' = committing \cup {d}
  /\ UNCHANGED <<published, discarded, memory>>

\* Mutant: forwards to memory what was already projected.
AlreadyProjected_forward(d) ==
  /\ d \in queue /\ d.env.wellformed
  /\ ~ConditionsHold(d.env)
  /\ queue' = queue \ {d}
  /\ memory' = [memory EXCEPT ![d.env] = @ + 1]
  /\ UNCHANGED <<published, committing, discarded, rows, guards, summary, stream>>

\* Every cancellation reason is ConditionalCheckFailed: an idempotent no-op.
AlreadyProjected(d) ==
  /\ d \in queue /\ d.env.wellformed
  /\ ~ConditionsHold(d.env)
  /\ queue' = queue \ {d}
  /\ UNCHANGED <<published, committing, discarded, rows, guards, summary, stream, memory>>

\* UntypedEnvelope rejects the detail: the handler answers validation_error.
Reject(d) ==
  /\ d \in queue /\ ~d.env.wellformed
  /\ queue' = queue \ {d}
  /\ UNCHANGED <<published, committing, discarded, rows, guards, summary, stream, memory>>

\* Mutants: the guard row is put on its own, before what then fails; every
\* ClientError is taken for a duplicate.
TransactionFails_guard_first(d) ==
  /\ d \in queue /\ d.env.wellformed
  /\ guards' = guards \cup webhook_delivery_row(d.env)
  /\ GiveBack(d, queue \ {d})
  /\ UNCHANGED <<published, committing, rows, summary, stream, memory>>
TransactionFails_swallowed(d) ==
  /\ d \in queue /\ d.env.wellformed
  /\ queue' = queue \ {d}
  /\ UNCHANGED <<published, committing, discarded, rows, guards, summary, stream, memory>>

\* The transaction is cancelled for another reason (a TransactionConflict on
\* the shared SUMMARY row, throttling) or the invocation dies before it: commit
\* re-raises and the invocation counts as failed.
TransactionFails(d) ==
  /\ d \in queue /\ d.env.wellformed
  /\ GiveBack(d, queue \ {d})
  /\ UNCHANGED <<published, committing, rows, guards, summary, stream, memory>>

-----------------------------------------------------------------------------
(* forward_to_memory: CreateEvent, gated on the commit.                    *)

Forward(d) ==
  /\ d \in committing
  /\ memory' = [memory EXCEPT ![d.env] = @ + 1]
  /\ committing' = committing \ {d}
  /\ UNCHANGED <<published, queue, discarded, rows, guards, summary, stream>>

\* ClientError and BotoCoreError are logged and swallowed.
ForwardFails(d) ==
  /\ d \in committing
  /\ committing' = committing \ {d}
  /\ UNCHANGED <<published, queue, discarded, rows, guards, summary, stream, memory>>

\* The invocation dies between the two calls, or after CreateEvent but before
\* it returns; the delivery is retried.
CrashBeforeForward(d) ==
  /\ d \in committing
  /\ committing' = committing \ {d}
  /\ GiveBack(d, queue)
  /\ UNCHANGED <<published, rows, guards, summary, stream, memory>>

CrashAfterForward(d) ==
  /\ d \in committing
  /\ memory' = [memory EXCEPT ![d.env] = @ + 1]
  /\ committing' = committing \ {d}
  /\ GiveBack(d, queue)
  /\ UNCHANGED <<published, rows, guards, summary, stream>>

handle_eventbridge(d) ==
  \/ Commit(d) \/ AlreadyProjected(d) \/ Reject(d) \/ TransactionFails(d)
  \/ Forward(d) \/ ForwardFails(d) \/ CrashBeforeForward(d) \/ CrashAfterForward(d)

Next == \/ \E e \in Envelope : Publish(e) \/ DeliverAgain(e)
        \/ \E d \in queue \cup committing : handle_eventbridge(d)

Spec == Init /\ [][Next]_vars

\* Lambda keeps invoking the function for a queued delivery and the function
\* returns: nothing waits forever.  Failures are bounded by MAX_ATTEMPTS.
Fairness == \A e \in Envelope :
  WF_vars(\E d \in queue \cup committing : d.env = e /\ handle_eventbridge(d))
FairSpec == Spec /\ Fairness

-----------------------------------------------------------------------------
TypeOK ==
  /\ published \subseteq Envelope
  /\ queue \subseteq Delivery /\ committing \subseteq Delivery /\ discarded \subseteq Delivery
  /\ rows \subseteq Envelope
  /\ guards \subseteq Runs \X (Nat \ {NoDelivery}) \X EventTypes
  /\ summary \in [Runs -> [status : EventTypes \cup {NoStatus}, last_event_id : Nat,
                           pr_url : {NoPr} \cup {e.pr : e \in Envelope},
                           total : Nat]]
  /\ stream \in [Runs -> Nat]
  /\ memory \in [Envelope -> Nat]

\* Whatever EventBridge duplicates, GitHub redelivers or Lambda retries, no two
\* rows of a run hold the same event or the same webhook delivery.
NoDuplicateRows == \A e, f \in rows : SameRow(e, f) => e = f

\* The guard rows are exactly those of the committed webhook events: a guard
\* without its row would swallow a delivery that was never processed.
GuardsMatchRows ==
  guards = {<<e.run, e.dlv, e.type>> : e \in {f \in rows : f.dlv # NoDelivery}}

\* An event reaches AgentCore Memory at most once, and only once it is a row.
MemoryFollowsRows == \A e \in Envelope : memory[e] > 0 => memory[e] = 1 /\ e \in rows

\* A published, well-formed envelope is never silently lost: it is a row, a
\* twin of a row, still queued, or was dropped after MAX_ATTEMPTS failures.
NothingLost ==
  \A e \in published : e.wellformed =>
    \/ \E f \in rows : SameRow(e, f)
    \/ \E d \in queue \cup discarded : d.env = e

\* The units of usage the events of S report, each event's its own.
Units(S) == UNION {{e} \X (1..e.usage) : e \in S}

\* The usage total on SUMMARY is that of the rows, each counted once, the pipe
\* saw one INSERT per row, and the PR lookup key is set to a PR the run opened
\* as soon as it opened one.
SummaryMatchesRows ==
  \A r \in Runs :
    LET mine == {e \in rows : e.run = r}
        opened == {e \in mine : e.type = "IMPL_PR.OPENED" /\ e.pr # NoPr}
    IN /\ summary[r].total = Cardinality(Units(mine))
       /\ stream[r] = Cardinality(mine)
       /\ summary[r].pr_url \in IF opened = {} THEN {NoPr} ELSE {e.pr : e \in opened}

\* Every published envelope is eventually settled.
Settled(e) == \/ ~e.wellformed
              \/ \E f \in rows : SameRow(e, f)
              \/ \E d \in discarded : d.env = e
EventuallySettled == \A e \in Envelope : e \in published ~> Settled(e)

\* The projector implements the exactly-once log of module EventLog.
Log == INSTANCE EventLog WITH
         log <- rows, total <- [r \in Runs |-> summary[r].total], memory <- memory
ImplementsEventLog == Log!Spec
=============================================================================
