------------------------------- MODULE Intake -------------------------------
(***************************************************************************)
(* How runs are minted and which run the end of an issue ends.  Three      *)
(* surfaces accept a run: the entry adapter's POST /v1/runs, the           *)
(* dashboard's, and the GitHub webhook for issue triggers.  Each calls     *)
(* start_run inside Powertools' idempotency layer: a conditional put       *)
(* reserves the key, start_run publishes REQUEST.RECEIVED, and an update   *)
(* completes the record with the answer to replay.  Clients retry, GitHub  *)
(* redelivers, and an invocation may die between any two of those steps.   *)
(* When start_run raises the layer tries to delete the record; the roles   *)
(* of the two Lambdas may put and update items but not delete them         *)
(* (terraform/modules/pipeline/lambdas.tf 45-51, dashboard/lambda.tf       *)
(* 89-96), so the record stays in progress and the caller gets an error.   *)
(*                                                                         *)
(* The projector makes a run visible under its issue (gsi1) some time      *)
(* later; closing the issue or unassigning the bot looks one run up there  *)
(* and requests its cancellation.                                          *)
(***************************************************************************)
EXTENDS Naturals

CONSTANTS Callers,   \* concurrent invocations of the accepting surfaces
          Keys,      \* idempotency keys: X-GitHub-Delivery ids, clients' keys
          Request,   \* per key, what is sent under it
          Issues,
          Budget     \* how often each bounded event of the world happens

NoIssue == "no issue"
NoKey == 0
NoRun == 0

READY_LABEL == "aidlc:ready"
AWAITING_RESPONSE_LABEL == "aidlc:awaiting-response"
TERMINAL_LABELS == {"aidlc:in-progress", "aidlc:deferred", "aidlc:declined"}

\* What is bounded: calls, closed issues; rejected and ambiguous publications,
\* dead invocations, expired idempotency records.
BudgetKinds == {"call", "close", "reject", "ambiguous", "death", "expire"}
Failures == {"reject", "ambiguous", "death"}

\* bot: the assignee, or the login the comment mentions, is the bot's, or the
\* label just added is READY_LABEL.  human: the commenter is no bot.
ASSUME IntakeAssumption ==
  /\ Keys \subseteq Nat \ {NoKey}
  /\ Request \in [Keys -> [action : {"api", "opened", "labeled", "assigned", "comment"},
                           labels : SUBSET (TERMINAL_LABELS \cup {READY_LABEL, AWAITING_RESPONSE_LABEL}),
                           bot : BOOLEAN, human : BOOLEAN, issue : Issues \cup {NoIssue}]]
  /\ Budget \in [BudgetKinds -> Nat]

VARIABLES calls,      \* per caller, the invocation it is in
          records,    \* the idempotency table
          generation, \* per key, how often its record was forgotten (history)
          clock,      \* the next run id; UUID7s grow with the time of minting
          runs,       \* every run whose REQUEST.RECEIVED was published
          rows,       \* ids of runs the projector has a SUMMARY row for
          index,      \* those of them that gsi1 shows: it is eventually consistent
          ended,      \* ids of runs with a projected terminal event
          cancels,    \* cancellations requested, with the runs in flight (history)
          answers,    \* 202 answers (history)
          budget

vars == <<calls, records, generation, clock, runs, rows, index, ended, cancels, answers, budget>>

Run == [id : Nat \ {NoRun}, key : Keys, gen : Nat]
NoCall == [pc |-> "idle", key |-> NoKey, run |-> NoRun]
Free == [status |-> "none", run |-> NoRun]

Spend(kind) == /\ budget[kind] > 0
               /\ budget' = [budget EXCEPT ![kind] = @ - 1]

Init == /\ calls = [c \in Callers |-> NoCall]
        /\ records = [k \in Keys |-> Free]
        /\ generation = [k \in Keys |-> 0]
        /\ clock = 1
        /\ runs = {} /\ rows = {} /\ index = {} /\ ended = {} /\ cancels = {} /\ answers = {}
        /\ budget = Budget

platform == <<rows, index, ended, cancels>>
Working(c) == calls[c].pc \in {"reserved", "minted"}
KeyOf(c) == calls[c].key

-----------------------------------------------------------------------------
(* The handlers up to the idempotency layer.                               *)

issues_action_is_trigger(q) ==
  /\ q.labels \cap TERMINAL_LABELS = {}
  /\ \/ q.action = "opened" /\ READY_LABEL \in q.labels
     \/ q.action \in {"labeled", "assigned"} /\ q.bot

\* A comment asks for a run by mentioning the bot or by answering its question.
handle_issue_only_comment(q) ==
  /\ q.action = "comment"
  /\ q.labels \cap TERMINAL_LABELS = {}
  /\ q.bot \/ (AWAITING_RESPONSE_LABEL \in q.labels /\ q.human)

IsTrigger(q) ==
  q.action = "api" \/ issues_action_is_trigger(q) \/ handle_issue_only_comment(q)

\* A first delivery, a client's retry, a redelivery: the same to the layer.
Call(c, k) ==
  /\ calls[c] = NoCall /\ IsTrigger(Request[k]) /\ Spend("call")
  /\ calls' = [calls EXCEPT ![c] = [pc |-> "called", key |-> k, run |-> NoRun]]
  /\ UNCHANGED <<records, generation, clock, runs, platform, answers>>

-----------------------------------------------------------------------------
(* Powertools' idempotent_function around accept_run and                   *)
(* trigger_request_received.                                               *)

Return(c) == calls' = [calls EXCEPT ![c] = NoCall]
Answer(k, run) == answers' = answers \cup {[key |-> k, gen |-> generation[k], run |-> run]}

\* Mutant: the record is read first and put without a condition.
Reserve_unconditional(c) ==
  /\ calls[c].pc = "called" /\ records[KeyOf(c)].status # "COMPLETED"
  /\ records' = [records EXCEPT ![KeyOf(c)] = [status |-> "INPROGRESS", run |-> NoRun]]
  /\ calls' = [calls EXCEPT ![c].pc = "reserved"]
  /\ UNCHANGED <<generation, clock, runs, platform, answers, budget>>

\* save_inprogress: a conditional put.
Reserve(c) ==
  /\ calls[c].pc = "called" /\ records[KeyOf(c)] = Free
  /\ records' = [records EXCEPT ![KeyOf(c)] = [status |-> "INPROGRESS", run |-> NoRun]]
  /\ calls' = [calls EXCEPT ![c].pc = "reserved"]
  /\ UNCHANGED <<generation, clock, runs, platform, answers, budget>>

\* IdempotencyAlreadyInProgressError: 409.
AlreadyInProgress(c) ==
  /\ calls[c].pc = "called" /\ records[KeyOf(c)].status = "INPROGRESS"
  /\ Return(c)
  /\ UNCHANGED <<records, generation, clock, runs, platform, answers, budget>>

\* The cached answer.
Replay(c) ==
  /\ calls[c].pc = "called" /\ records[KeyOf(c)].status = "COMPLETED"
  /\ Answer(KeyOf(c), records[KeyOf(c)].run)
  /\ Return(c)
  /\ UNCHANGED <<records, generation, clock, runs, platform, budget>>

\* save_success: 202.
Complete(c) ==
  /\ calls[c].pc = "minted"
  /\ records' = [records EXCEPT ![KeyOf(c)] = [status |-> "COMPLETED", run |-> calls[c].run]]
  /\ Answer(KeyOf(c), calls[c].run)
  /\ Return(c)
  /\ UNCHANGED <<generation, clock, runs, platform, budget>>

\* The invocation is killed, or save_success fails: the record stays.
CallDies(c) ==
  /\ Working(c) /\ Spend("death")
  /\ Return(c)
  /\ UNCHANGED <<records, generation, clock, runs, platform, answers>>

\* A record expires a day after it was written or, in progress and of an entry
\* adapter's call, at the deadline of its invocation: never under a running call.
Expire(k) ==
  /\ records[k] # Free /\ Spend("expire")
  /\ \A c \in Callers : Working(c) => KeyOf(c) # k
  /\ records' = [records EXCEPT ![k] = Free]
  /\ generation' = [generation EXCEPT ![k] = @ + 1]
  /\ UNCHANGED <<calls, clock, runs, platform, answers>>

-----------------------------------------------------------------------------
(* start_run.                                                              *)

Minted(k) == [id |-> clock, key |-> k, gen |-> generation[k]]

start_run(c) ==
  /\ calls[c].pc = "reserved"
  /\ runs' = runs \cup {Minted(KeyOf(c))}
  /\ clock' = clock + 1
  /\ calls' = [calls EXCEPT ![c].pc = "minted", ![c].run = clock]
  /\ UNCHANGED <<records, generation, platform, answers, budget>>

\* Mutant: the rejection is swallowed (try_publish).
start_run_rejected_swallowed(c) ==
  /\ calls[c].pc = "reserved" /\ Spend("reject")
  /\ clock' = clock + 1
  /\ calls' = [calls EXCEPT ![c].pc = "minted", ![c].run = clock]
  /\ UNCHANGED <<records, generation, runs, platform, answers>>

\* EventBridge rejects the entry: publish raises, and the layer's delete of the
\* record is denied.
start_run_rejected(c) ==
  /\ calls[c].pc = "reserved" /\ Spend("reject")
  /\ Return(c)
  /\ UNCHANGED <<records, generation, clock, runs, platform, answers>>

\* Mutant: the record is cleared, and with it the memory of a run that exists.
start_run_ambiguous_cleared(c) ==
  /\ calls[c].pc = "reserved" /\ Spend("ambiguous")
  /\ runs' = runs \cup {Minted(KeyOf(c))}
  /\ clock' = clock + 1
  /\ records' = [records EXCEPT ![KeyOf(c)] = Free]
  /\ Return(c)
  /\ UNCHANGED <<generation, platform, answers>>

\* EventBridge took the entry but the call raised (a read timeout): to the
\* layer it is a failure like the other.
start_run_ambiguous(c) ==
  /\ calls[c].pc = "reserved" /\ Spend("ambiguous")
  /\ runs' = runs \cup {Minted(KeyOf(c))}
  /\ clock' = clock + 1
  /\ Return(c)
  /\ UNCHANGED <<records, generation, platform, answers>>

-----------------------------------------------------------------------------
(* The read model and the end of an issue.                                 *)

\* The projector's first commit for a run writes its SUMMARY row.
Project(r) ==
  /\ r.id \notin rows
  /\ rows' = rows \cup {r.id}
  /\ UNCHANGED <<calls, records, generation, clock, runs, index, ended, cancels, answers, budget>>

\* gsi1, a projection of the rows, shows the run of an issue some time later.
IndexCatchesUp(r) ==
  /\ r.id \in rows \ index /\ Request[r.key].issue # NoIssue
  /\ index' = index \cup {r.id}
  /\ UNCHANGED <<calls, records, generation, clock, runs, rows, ended, cancels, answers, budget>>

\* The rest of the pipeline (module Pipeline) brings a run to its end.
End(r) ==
  /\ r.id \in rows \ ended
  /\ ended' = ended \cup {r.id}
  /\ UNCHANGED <<calls, records, generation, clock, runs, rows, index, cancels, answers, budget>>

RunsOfIssue(i) == {r.id : r \in {q \in runs : q.id \in index /\ Request[q.key].issue = i}}

\* The first entry of gsi1: its range key is the run id.
lookup_run_by_issue(i) == CHOOSE x \in RunsOfIssue(i) : \A y \in RunsOfIssue(i) : x <= y

\* The issue is closed, or the bot is unassigned from it.
handle_issue_closed(i) ==
  /\ RunsOfIssue(i) # {} /\ Spend("close")
  /\ cancels' = cancels \cup {[run |-> lookup_run_by_issue(i), alive |-> RunsOfIssue(i) \ ended]}
  /\ UNCHANGED <<calls, records, generation, clock, runs, rows, index, ended, answers>>

-----------------------------------------------------------------------------
Layer(c) == \/ Reserve(c) \/ AlreadyInProgress(c) \/ Replay(c) \/ Complete(c) \/ CallDies(c)
            \/ start_run(c) \/ start_run_rejected(c) \/ start_run_ambiguous(c)

Next == \/ \E c \in Callers : Layer(c) \/ \E k \in Keys : Call(c, k)
        \/ \E k \in Keys : Expire(k)
        \/ \E r \in runs : Project(r) \/ IndexCatchesUp(r) \/ End(r)
        \/ \E i \in Issues : handle_issue_closed(i)

Spec == Init /\ [][Next]_vars

-----------------------------------------------------------------------------
\* The type invariant: run ids are unique, the index shows projected runs only.
TypeOK ==
  /\ calls \in [Callers -> [pc : {"idle", "called", "reserved", "minted"},
                            key : Keys \cup {NoKey}, run : Nat]]
  /\ \A c \in Callers : calls[c].pc # "idle" => KeyOf(c) \in Keys
  /\ records \in [Keys -> [status : {"none", "INPROGRESS", "COMPLETED"}, run : Nat]]
  /\ generation \in [Keys -> Nat] /\ clock \in Nat \ {NoRun}
  /\ runs \subseteq Run
  /\ \A r \in runs : r.id < clock
  /\ \A r, s \in runs : r.id = s.id => r = s
  /\ index \subseteq rows /\ ended \subseteq rows /\ rows \subseteq {r.id : r \in runs}

\* However often a request is retried or a webhook redelivered, by however many
\* concurrent calls, with calls dying anywhere and publications that raise but
\* went through, its key mints at most one run until the record expires.
OneRunPerKey == \A r, s \in runs : r.key = s.key /\ r.gen = s.gen => r = s

\* A 202 answer never names a phantom: its run was published for its key, and
\* every answer of the key until the record expires names that run.
AnswersAreRuns ==
  \A a \in answers : \E r \in runs : r.id = a.run /\ r.key = a.key /\ r.gen = a.gen

\* The records in progress that turn the retries of their key away for nothing.
Stuck == {k \in Keys : /\ records[k].status = "INPROGRESS"
                       /\ \A c \in Callers : Working(c) => KeyOf(c) # k}

\* One call at a time works under a key, and its record says so; and only a
\* failed call (killed, or raised from start_run) leaves its record in progress.
RecordsFollowCalls ==
  /\ \A c, d \in Callers : Working(c) /\ Working(d) /\ KeyOf(c) = KeyOf(d) => c = d
  /\ \A c \in Callers : Working(c) => records[KeyOf(c)].status = "INPROGRESS"
  /\ Stuck # {} => \E f \in Failures : budget[f] < Budget[f]

\* routes/runs.py 31-35: "A transient failure during start_run leaves no
\* committed record (the IN_PROGRESS row is cleared on exception), so a retry
\* re-executes instead of returning a 409": unless a call was killed, no record
\* is stuck.
ExceptionsClearTheRecord == Stuck # {} => budget["death"] < Budget["death"]

\* Expiry included, the intake implements the book of module OneRun: a key's
\* run is never replaced, and what a caller was told is never told otherwise.
CurrentRun(k) == {r.id : r \in {q \in runs : q.key = k /\ q.gen = generation[k]}}
Told(k) == {a.run : a \in {b \in answers : b.key = k /\ b.gen = generation[k]}}
Book == INSTANCE OneRun WITH
  minted <- [k \in Keys |-> CurrentRun(k)], told <- [k \in Keys |-> Told(k)], next <- clock
ImplementsOneRun == Book!Spec

\* webhooks.py handle_issue_closed: "cancel the in-flight run if there is one".
ClosingCancelsInFlight == \A x \in cancels : x.alive # {} => x.run \in x.alive
=============================================================================
