# A TLA+ model of the ai-dlc pipeline

ai-dlc turns a request (a GitHub issue, or a call of its API) into a pull request by a sequence of
LLM agents, and then reviews and revises that pull request until a human merges it. Nothing in it holds
a run's state in memory: every step is an event on an EventBridge bus, the events of a run are rows of
one DynamoDB table, and a pure function over those rows decides what happens next. This directory
models that machinery: what the log may look like, what is decided from it, and what happens when the
deliveries, invocations and agents in between are duplicated, reordered, concurrent or lost.

## 1. The system

### Components, their state and operations

| Component (source) | State | Operations | Modelled in |
|---|---|---|---|
| Event vocabulary (`packages/common/.../events.py`, `ids.py`) | none; ids are UUID7 and order events | build an envelope | `Events` |
| Event bus (`event_emit.py`, EventBridge) | envelopes in flight, delivered at least once in any order | `publish`, `try_publish` | `Projector`, `Pipeline` |
| Event projector (`lambdas/event_projector`, `ddb.py`) | `EVENT#` rows, `WEBHOOK_DELIVERY#` guard rows, the `SUMMARY` row, AgentCore Memory | one transaction per envelope, then one `CreateEvent` | `Projector` |
| Stream, pipe, beacon queue (`terraform/modules/pipeline`, `messaging`) | beacons in SQS | one beacon per inserted row, redelivery | `Pipeline` |
| State router (`lambdas/state_router`) | none of its own: reads the log, holds one decision while an invocation runs | `process_record`: read, `decide`, `execute` | `Decide`, `Pipeline` |
| Agent runtimes (`agents/*`, `common/runtime.py`) | one daemon thread per dispatch in the microVM of its session; artifacts in S3, comments on GitHub | model, upload, comment, publish; `RUN.FAILED` or nothing | `Reports` (inside), `Pipeline` (as the run sees them) |
| Implementer session (`agents/implementer`) | a checkout per session, the agent's turns, the finish report | implement or revise, push, open the PR, publish | `Implementer` |
| Repo helper (`lambdas/repo_helper`) | none; GitHub's refs, PRs and checks | branches, commits, PRs, comments, diffs, check aggregation | `RepoHelper` |
| Retrospector (`agents/retrospector`, `lambdas/retrospector_dispatcher`) | the lesson buffer in AgentCore Memory | capture, weekly fan-out, consolidation, deletion | `Lessons` |
| Artifact tool (`lambdas/artifact_tool`), architect grounding (`repo_grounding.py`, `memory_md.py`) | the artifacts bucket, the project's snapshot | put, get; sync of the memory files and of the stack profile | partly, in `Reports` |
| Webhooks (`services/dashboard/.../webhooks.py`) | none; look runs up by PR or issue through `SUMMARY` | one event per accepted webhook; issue triggers mint runs; completed checks are aggregated | `Pipeline`, `Intake`, `Checks` |
| Entry adapter, run submission (`entry_adapter`, `runs.py`, `routes/runs.py`) | idempotency records | `start_run`, `delete_run` | `Intake`; initial state of `Pipeline` (`delete_run` is planned) |
| Payload construction (`payload.py`, `extract.py`) | none | build an agent's input from the log | planned |
| Dashboard pages, sign-in, sandbox, prompts, infrastructure, scripts | - | - | not modelled: text, presentation and I/O |

### How they interact

    request / webhook --publish--> bus --> projector --transaction--> EVENT row, SUMMARY
       ^                                                   |               |
       |  agent <--invoke-- state router <--beacon-- SQS <--pipe-- stream  +--> memory
       |   |  |                  |                                              |
       |   |  +----publish-------+--publish marker----> bus --> dispatcher --> retrospector
       |   +--tools--> artifact tool --> S3                                     |
       |   +--tools--> repo helper --> GitHub <---------------------------------+
       +-----------------------------------+

Each arrow is asynchronous. The only atomic unit is the projector's transaction. A router invocation reads
the log by an eventually consistent query, decides, publishes a dispatch marker, and calls the runtime later; the marker protects
against a second dispatch only once it is a row. An agent works for minutes and publishes when it is done.
Webhooks arrive at any time.
The operations of the repo helper, which agents, the retrospector and the webhook route call, are sequences of HTTP requests to
GitHub with nothing held in between. Threads of one session share a microVM and what is on its disk.

### What is hard

Concurrent router invocations of one run on logs of different age; a read that misses the very row whose beacon it handles and
acknowledges it; a crash between the marker and the call;
events committed in another order than their ids; redelivered webhooks with fresh event ids; a trigger that
is no longer the last event when somebody looks; the revision loop feeding itself; the counting of revisions;
agents that fail silently; a `SUMMARY` row written by whoever comes last; a trigger that is retried or redelivered while, or
after, its first delivery fails; an issue that has had several runs; requests of two callers to one branch, and answers that are
lost after they took effect; agents that push, reset and switch branches, comment and open PRs by themselves before the code
around them does; microVMs that die, look idle, or serve two threads; a consolidation that fails between the PR that
tells a lesson and the deletion of the lesson. `PROJECT.json` lists each hazard at its
line with the properties that bear on it.

### What makes each component correct

* **decide**: a marker settles the decision it answers; a verdict is not shadowed by the reports behind it; a
  late report changes nothing; every fresh trigger gets a dispatch; the cap ends the run.
* **projector**: an exactly-once log out of an at-least-once bus; guard rows, totals and memory agree with the rows;
  nothing well formed is dropped unless the last attempt failed.
* **pipeline**: the run is owed no action that nobody will take, unless the read that should have seen it missed rows; nothing is
  dispatched ahead of its stage; a request comes to a PR or to an end; a blocking verdict is met; the loop comes to rest.
* **intake**: a request mints one run however often it arrives; every 202 names a run that was published; only a failed call
  locks its request out, and only until the record expires; the end of an issue ends the run that is working on it.
* **repo helper**: a branch only grows and a commit changes only its own files, whoever else pushes; a failed check is seen and
  "passed" is true, whatever page a check has moved to; what is cut says so.
* **implementer**: a ready event follows work that is pushed and has a PR; the wrapper pushes and reports nothing for an agent that is
  blocked; a failure names the PR that was opened; every task ends.
* **agent runtimes**: a report is published after what it tells of is stored; a replaced model does not repeat what the application
  posts for the task (what it posted itself it may); best-effort steps harm nobody; a run hears of every task that was not killed; microVMs are neither kept nor ended early.
* **retrospector**: a lesson leaves the buffer only when it was discarded or a PR tells it, if no other consolidation of the
  repository names its branches in the same second.
* **checks**: once the checks of a head are complete, the run has been told.

## 2. Modules

| Module | What it is |
|---|---|
| `Events` | event types, markers, terminal types, the one payload field decisions branch on, row identity |
| `Decide` | `decide()` as operators of the same names over a log, a finite set of events with distinct ids |
| `DecideLog` | a log that grows by any event at any free id; properties relate decisions on neighbouring logs |
| `EventLog` | abstract specification: an exactly-once log with totals and memory |
| `Projector` | the projector Lambda with delivery, retries and crashes; implements `EventLog` |
| `Pipeline` | one run end to end, composing `Decide` with bus, log, beacons, invocations, agents and GitHub |
| `Intake` | the three accepting surfaces, the idempotency records, `start_run`, the issue index, closing an issue; implements `OneRun` |
| `OneRun` | abstract specification: until a key is forgotten it has at most one run, and every answer under it tells that run |
| `RepoHelper` | the Lambda's operations, one action per HTTP request, and GitHub as the requests show it; no next-state relation of its own |
| `RepoHelperCalls` | the operations called by anyone in any order on a repository others work on |
| `Checks` | the webhook route that aggregates checks, composed with `RepoHelper` |
| `Implementer` | the implementer's tasks and checkouts, composed with `RepoHelper` |
| `Lessons` | dispatcher, captures and consolidations, composed with `RepoHelper` |
| `Reports` | the other six agents, their microVMs, artifacts, posts and reports |
| `MC*` | constants, bounds and start states for TLC |
| `DecideProofs`, `ProjectorProofs`, `PipelineProofs`, `IntakeProofs`, `ReportsProofs`, `RepoHelperProofs` (about `RepoHelperCalls`), `ImplementerProofs`, `LessonsProofs` | theorems and their proofs |

`Decide` turns positions into ids: `read_events` sorts by `event_id` and ids are the rows' sort key, so "last" is the
largest id and "after" a larger one. An event is reduced to its id, type and the field `arg` that `decide` reads
(has the request a source issue, the triage action, the reviewer's verdict). A dispatch also carries `trigger`, the event it
answers, which the code passes as `trigger_event_id`. `Raise` is pydantic's rejection of
`RunFailed.revision_count > 16`.

`Projector` state against the code: `rows`, `guards` and `summary` are the three kinds of items of the transaction,
`stream` counts the inserts the pipe sees, `memory` the `CreateEvent` calls per envelope, `committing` the invocations
between the commit and the forward, `queue`/`discarded` Lambda's asynchronous queue and what it gives up on.
`TransactionFails` is every cancellation that is not solely `ConditionalCheckFailed`, and a crash before the commit.

`Pipeline` state against the code: `log` the rows, `bus` what is published and not yet projected, `beacons` the visible
messages of the queue, `routers` the invocations (`decided` between `decide` and its first side effect, `marked` between the
marker and the last runtime call, `todo` the runtimes still to call), `sessions` the running agent tasks. In place of the
projector's own steps it uses the atomic log that `Projector` is shown to implement. `process_record` decides on the whole log or,
spending budget `stale`, on the log without some of the rows whose ids are among the last `Lag`: `query_all` is a paginated query
without `ConsistentRead`, so any recent row may be missing, that of the event whose beacon is handled included, and the beacon is
acknowledged all the same. A beacon whose `decide` raises stays on the queue. `trg` on a marker and `misled` (the last reader decided
something else than the whole log calls for) are history: no decision reads them, the properties do.

`Intake` state against the code: `records` the Powertools table (a conditional put reserves a key, an update completes it with
the answer; the layer would delete it on an exception, but neither Lambda's role has `dynamodb:DeleteItem`, so it stays in progress until
`Expire`), `calls` the invocations (`called` until the reservation, `reserved` while `start_run` runs,
`minted` until the record is completed), `runs` what was published, `rows` and `index` what the projector and then `gsi1` show of it,
`ended` the runs with a projected terminal event. `generation`, `answers` and `cancels` are history. `start_run_rejected` is an
entry EventBridge refuses, `start_run_ambiguous` one it took although the call raised; both leave the record. `Stuck` is the keys whose
record turns retries away although no call works under them. The in-progress expiry that only the
entry adapter sets (it registers the Lambda context) and the day-long TTL are one action, `Expire`. `Intake` meets `Pipeline` at
`REQUEST.RECEIVED`: a member of `runs` is the initial state of a `Pipeline`, and `End` is its terminal event.

`RepoHelper` state against the code: `refs` (a branch is the sequence of its commits and a commit the tree it leaves, so a tip is its
own sha and "fast-forward" is the prefix order), `prs`, `checks` (newest first, as the API lists them), `threads` (comments, only
counted), `calls` (what an invocation of the Lambda has in its locals; `pc` names the next request). What an API lists of a
sequence, the changed files or the checks of a sha, is `Pick`: the members at some indices in their order. `RequestFails` is
an error of any request; for a write it may have been applied. `since` is history. `RepoHelperCalls` assumes that nobody asks to commit to the
default branch: the agents' code commits to branches it names itself (`proposer/app.py:214`, `retrospector/app.py:342` and `:357`). A model that
calls the tool by hand could name any; the properties that need the assumption do not cover it.

`Implementer`: `vm` is what `/workspace/repo` holds per session (`local` the run's branch, `on` whether HEAD is that branch, `detached` the
commits HEAD is at otherwise, `main` is `origin/main` as last fetched, `work` the files), `task` the daemon thread (`report` is the `FinishSink`, `blocked_stop` the stop hook's flag, `result` the
`ImplementerResult`). A task's call of the repo helper runs `RepoHelper`'s own steps with the task as the caller. `said`,
`pushed`, `home` (HEAD was the run's branch when the wrapper pushed), `alone` and `cut` (tips an agent's push took off the run's branch) are
history. A revision is of a PR of the run's branch (`RunPrs`); other branches may have PRs too. For `MaxTurns` turns the agent does what
`hooks.py` lets it, in any order: it edits, commits, pushes the run's branch with or without force (`git_push`), leaves the branch for
main or a branch or worktree of its own and comes back (`git_switch`), resets or amends (`git_reset`), opens the PR or commits to the
branch through the repo helper (`call_repo_helper`), finishes and stops. Left out are pushes of other branches than the run's, merges and
pulls, and the repo helper's comments and issues, none of which the wrapper reads. A commit is the tree it leaves and its history, so an
amendment that ends in the same tree is the same commit.

`Lessons`: `buffer` is the memory events per session id, `fanout` what `handle_scheduled_consolidate` has yet to invoke, `task` one
capture or consolidation; a MEMORY.md or SKILL.md is the set of lessons it tells, or malformed. `captured`, `deleted` and `named` (how many
consolidations named branches in a second) are history. What the consolidating model decides (ship a lesson or drop it) is any choice, and so is the order in which its plan
lists the events to delete. A branch is a function of the second and the kind (`BranchFor`), as `branch_name` makes it for one
repository; a consolidation names its branches in the second of the one before it or in a later one, and that no branch of a second to come exists
yet is an assumption. The consolidating model also holds the gateway's tools (`retrospector/agent.py:78`); what it would do with them is not modelled.

`Reports`: `store` the artifact per key (who stored it, with which model), `snapshot` and `profile` the project's files in S3, `prs` the
steps of a proposal's PR per run, `vms` the clone and the open async tasks of a session, `tasks` the threads; `Steps` is the body of each
`app.py` as the order of its effects, `Raise` the except clause, which publishes for triage, architect and code_critic and
logs for the others. `faults` is history. While a model runs it may use the tools of the Gateway that its runtime has (`terraform/modules/agents/variables.tf`): the
validators' and the proposer's the repo helper's, to comment, open issues, commit or open a PR (`call_repo_helper`); the architect's and
the validators' the artifact tool's, to store an artifact or write the project's memory snapshot (`put_artifact`, `write_memory_md`).
`posts` counts what the application posted and which of the task's models posted something themselves. `Body` is what
`compose_memory_md_body` makes of a version of the repository: each file cut at 16384 bytes, so versions that differ past the cut have one
body, and `NoBody` where there is none to write. A session id and an artifact key are functions of role, run and revision, so two dispatches
with the same revision meet in one microVM and under one key. What a model writes is not told apart; how often it runs is.

`Checks` keeps the two messages between the webhook route and the Lambda as records with the keys of the code, since their form
is the question. `Pipeline` takes `CHECKS.PASSED` and `CHECKS.FAILED` to be emitted as `webhooks.py` documents, although the
run `MCChecks` shows that today none is: the router's side is modelled for the day they are.

## 3. Runs

| Run | Question | Result |
|---|---|---|
| `MCDecideLog_pr` | decisions on every log of an open PR with up to four more events at ids 4..7 | holds |
| `MCProjector` | four envelopes, among them two of one webhook delivery and a malformed one; duplicates, two attempts | holds, implements `EventLog`; every envelope is settled |
| `MCPipeline_safe` | request to PR and the loop of an open PR, two invocations, two validators, one of each fault, a read that misses rows | no wake-up lost but by such a read, stages in order, verdicts are met |
| `MCPipeline_live` | liveness up to the PR with an agent exception or a read that misses rows, and of the loop without humans | a PR or an end unless the last reader was misled; the run comes to rest |
| `MCIntake_keys` | four calls on three requests, two concurrent, one of each fault | one run per key, honest answers, no stuck record without a failed call; implements `OneRun` |
| `MCRepoHelper` | a writing and a reading caller, three calls, a push, new checks, lost answers, three starting repositories | branches only grow, check states are true, no silent cut |
| `MCImplementer` | a first pass dispatched twice, or with a revision, in one checkout or two, agents with their own git, a push or a killed microVM | ready means pushed (alone and with HEAD on the branch), blocked is never ready, every task ends |
| `MCLessons` | a week's consolidation, which a fault may repeat in the same second or a later one, against a capture and a human edit | no lesson is lost but by a shared second |
| `MCReports` | two invocations of any one role, or the architects of two runs of one project, models that write by themselves, two faults | reports are true, one outcome each, the application's posts are not repeated, every task ends and is heard of |
| `MCPipeline_wedge` | does a run survive a router crash? | violated |
| `MCIntake_stuck` | does an exception of `start_run` clear the idempotency record? | violated |
| `MCChecks` | is the run told when the checks of its PR have completed? | violated |

`MCPipeline_safe` explores two phases side by side because the first multiplies the states of the second: from the request
(`StartLog` is `Init` with later ids, so that `MaxEvents` gives each phase its own room; budgets `StartFaults` and `StaleStart`) and from the
projected PR (`PrLog`; budgets `PrWorld` and `StalePr`). `MCPipeline_live` starts from the request as well, from `PrLog`, and, with a read
that misses rows, from a running revision (`RevisionLog`); a run from its request is followed up to its PR (`LiveNext`), since the loop
after it is the other start's.

### Statements of the repository that the code does not keep

Three are runs, and `PROJECT.json` quotes the sentence and tells what the counterexample does:

* `MCPipeline_wedge`, `ReachesPrOrEnd`: a crash between marker and call leaves a run that waits for ever.
* `MCChecks`, `ChecksAreReported`: the route puts the request under an `input` key the Lambda does not read, and reads
  the answer under keys the Lambda does not write. With both keys put right the property holds on the same instance.
* `MCIntake_stuck`, `ExceptionsClearTheRecord`: `routes/runs.py:31-35` says the record of a failed `start_run` is cleared; without
  the permission to delete it stays, and every retry is answered 409 until it expires (`entry_adapter/handler.py:9-11` says so).

The others are stated in the modules; each is reproduced by the constants given.

* `DecideLog!ReplaySafe` ("Replaying any suffix of the run's events yields Noop once the run has caught up to its current dispatched state", docstring of `decide.py`): with the constants of `MCDecideLog_pr`, a marker at the cap
  ends the run that its own revision is working on.
* `Pipeline!OneDispatchPerTrigger`: `Spec`, `OneRouter`, budget `Calm`, request kind `issue`, `MaxInFlight` 2, `MaxEvents` 9. Without any
  fault: a second beacon is read before the marker of the first decision is a row.
* `Pipeline!MentionIsAnswered`: `PrLog` with budget `OneMention`, `Next` and `Fairness`, `MaxInFlight` 2, `MaxEvents` 14. A mention that another
  event follows before its beacon is read is not the tail any more, and nothing looks for it again.
* `Pipeline!EveryBeaconIsHeeded` (a beacon means "re-read the event log and decide what to do next", `state_router/handler.py:3-5`): with the
  constants of `MCPipeline_safe`, one read that misses the row of its own beacon decides on nothing new, the beacon is acknowledged, and the
  run waits. `NoLostWakeup` is this property but for such reads.
* `Intake!ClosingCancelsInFlight`: requests `IssueRequests`, budget `TwoTriggers`. The index query returns the runs of the issue by run id; the
  first is an old one.
* `Lessons!NoLessonEverLost`, with the constants of `MCLessons`: two consolidations of the repository in one second. The branch is named by the
  second, the second task finds it, and its commit, made of the MEMORY.md of main, drops the first one's lessons, whose events are
  then deleted. `NoLessonLost` is this property but for a shared second.
* `Implementer!MovedHeadIsPushed` (a moved HEAD is the agent's work, `implementer/client.py:188-191`), with the constants of `MCImplementer`: an
  agent that ends a revision on another branch has moved HEAD, and so does a second task in the checkout; `push_branch` pushes neither,
  and `REVISION.READY` follows.
* `Reports!ModelsPostOnce` (`common/runtime.py:554-557`: a run must be such that nothing like opening a duplicate PR is redone), with the
  constants of `MCReports`: a throttled model that has posted through its tools is replaced by one that starts from scratch and posts
  again.
* `RUN.FAILED` names the PR only of a result that was built (`FailureNamesPr` says so): when a step between `open_pr` and the
  `ImplementerResult` fails, or the answer of `open_pr` is lost, the PR exists and the event cannot name it.

### Bounds, and why they are enough

* `MAX_REVISIONS` is 1 (0 in the run that stops at the PR) instead of 3, and `REVISION_COUNT_LIMIT` 2 instead of 16 for
  `DecideLog`: the code compares counts with them and nothing else, so the last pass below the cap, the pass at it
  and one beyond it all occur.
* `Ids`, `Kinds` (`DecideLog`): four events after the fixed prefix are enough for a trigger, its marker, a
  verdict and a further trigger in any order; the proofs remove the bound.
* `Copies`, `MAX_ATTEMPTS` (2): a first delivery, a duplicate where a twin or a second forward could come of it, a retry
  that succeeds and one that is the last.
* `MaxInFlight`, `MaxEvents` (`Pipeline`): publication waits while the bus is full or the run has its last id. With
  `MaxInFlight` 2 events overtake each other; `MaxEvents` of the safety runs reaches past the PR, or past the first
  revision. In the liveness runs `MaxEvents` is larger than any run the budget allows, so that it never stops a
  behaviour; `MaxInFlight` is 1 where overtaking is not the question, and the weak fairness of the projector empties the
  bus, so it delays a publication and never blocks it.
* `Lag` 4: a read may miss any of the rows of the last four ids, so a marker with its trigger and what they follow, or a
  verdict with the reports around it. Where no read misses rows (`MCPipeline_wedge`) it is 1. The proofs remove the bound.
* `Budget`: how often each thing a human, GitHub or a fault does may happen. A read that misses rows and the other faults are spent from
  different budgets, as one such read already breaks what it can break.
* `PrLog` starts the PR phase from the log of a programmatic run whose PR has just been projected, one beacon
  queued and nothing else in flight. It is a state of `Spec`: request, architect, design, implementer and PR in
  sequence, each beacon consumed before the next event is published. `RevisionLog` is what `PrLog` leads to when the
  verdict is projected alone and the beacons are consumed.
* `Intake`: two concurrent calls contend for a key, and of four calls one may find the record free, one in progress, one
  completed and one expired; one fault of each kind. `MCIntake_stuck` allows one refused publication and no death. The requests are an assignment of the bot, a call of the API, a human's
  answer and a mention under a terminal label, which must not start anything. The proofs remove the bounds.
* `RepoHelper`: pages of one entry (`PerPage`) make every list of two cross a page boundary, and a diff of three files with a cap of two
  (`DiffCap`) is cut; the code's 100 and its cap appear in comparisons only. `Bounds` are three calls and one act of the world beyond
  the completion of checks. The starting repositories have no PR, a PR with a failed suite, and a PR with a passed run.
* `Implementer`: two tasks, one file, three contents (what is there and what each task writes), one act of the world (`Bounds`), and `MaxTurns` 1 for the
  task of the first pass only and 2 for the one that may be a revision: two turns are an edit followed by a commit, a push, a switch or an
  end, a finish that another follows, or a reset and a forced push. Any step that calls out may raise, without bound.
* `Lessons`: one week, one capture, one edit, two faults; as many seconds as there can be consolidations, which may also share one. A week repeated by
  a fault gives two consolidations of one buffer. The tasks are interchangeable and permuted.
* `Reports`: two invocations, two faults (`MaxFaults`, which pushes to main use up too), a proposal of at most one issue (`MaxIssues`), a main with
  memory files, one without, and one whose files differ from the first's past the cut only (`ThreeBodies`). Invocations of two roles share nothing
  either reads, so the run takes both from one role; only the first one's models write by themselves. The proofs remove the bounds.
* `Checks`: a check run and a check suite of one head, two invocations; `PerPage`, `DiffCap`, `MaxPrs` 1.
* `RouterSymmetry` permutes invocations, which are interchangeable; it is used in safety runs only.

### Fairness

Weak fairness of: the projector on some envelope of the bus (EventBridge delivers and Lambda runs), each router invocation's own
steps (the event source mapping polls, a started invocation goes on), and the agents as a whole (a task ends, if
only by raising or by being killed). Nothing is assumed of humans, GitHub or faults, nor that the projector or a
runtime call succeeds, nor that a read sees the whole log: `Lose`, `dispatch_fails`, `Crash` and the reads that miss rows are bounded by
`Budget` instead. `Projector` has weak fairness per
envelope: Lambda invokes the function for a queued delivery, which may fail `MAX_ATTEMPTS` times. `Implementer` and `Reports` have weak fairness of each
thread's steps, and `Reports` of the model's own end, so that a model cannot write artifacts for ever: threads run, calls return or raise, and
the runtime bounds a model's turns. Nothing makes an invocation come, a microVM live, or a call succeed.

## 4. Proofs

`tlapm` checks every proof. Assumptions on constants are the named `ASSUME`s of `Decide`, `DecideLog`, `Projector`,
`Pipeline`, `Intake`, `Reports`, `RepoHelper`, `RepoHelperCalls`, `Implementer` and `Lessons`, which TLC evaluates in every run.

* **`DecideProofs`**. The invariant is `TypeOK`: the log is a finite set with distinct ids. What makes it inductive is
  the conditional put (`Append`). The other theorems are about one decision and the next and follow from where the tail
  is: a lemma says the tail, the first event of a type and the latest verdict are well defined when the log is finite and
  non-empty, and one lemma per kind of added event says which of the questions `decide` asks it can change. They hold for all
  ids, kinds and caps, where TLC has seven ids.
* **`ProjectorProofs`**. `NoDuplicateRows` is not inductive: a second event of one delivery is kept out by the guard rows, not by
  the rows. The invariant adds that guards are exactly the deliveries of the rows, that an envelope being forwarded is a row not
  yet in memory and is being forwarded by one invocation, and that queued deliveries are of published envelopes. From it follow the safety
  properties and the step-by-step refinement of `EventLog` (`Commit` is `Append`, `Forward` is `Remember`, all else stutters).
  `SummaryMatchesRows` is inductive beside it: the usage of a set of rows is the number of its `Units`, a plain cardinality instead of a
  sum, so one lemma (`UnitsAdd`) replaces the induction over data, and that a committed envelope was no row yet is what keeps a replay
  from being counted twice.
* **`PipelineProofs`**. `NoLostWakeup` needs to know that the ids of everything published are below the clock and distinct, that
  `decide` has an answer on every part of the log (`PartsWellFormed`, a read may miss any rows), and that a projected
  event leaves a beacon behind. A step either leaves the log alone, and then the beacon or invocation that answers the
  owed action is followed, or commits an event, and then there is a fresh beacon, or reads the log, and then the reader holds what the whole
  log calls for or `misled` says that it does not. `StagesInOrder` uses that what a
  decision requires of the log is in whatever part of it was read, and is only ever added to, so it holds however stale the reads.
  Both hold for any number of invocations, validators, events, faults and missed rows.
* **`IntakeProofs`**. `OneRunPerKey` is not inductive: nothing in it stops a second mint. The invariant says what the state of a
  key knows of the run of its current generation: a free record or a reserved call means there is none yet, a completed
  record or a call that has minted names it. Only a reserved call mints and a key has one working call, so the
  second run never comes; a call that fails leaves a record in progress that nobody can reserve, whether it minted or not, and forgetting a
  record starts a generation that no run belongs to. What is spent of the budget counts the failures (`FailuresCounted`): only one of them
  excuses a record in progress that has lost its call. All for any number of callers,
  keys, requests and faults. The same invariant gives the refinement of `OneRun`: `minted` is the run of the key's current
  generation that was published, `told` what its callers were answered with in that generation; `start_run` is `Mint`, an ambiguous
  publication `MintUnknown`, `Replay` and `Complete` are `Tell`, `Expire` is `Forget`, and all else stutters. That `Mint`
  finds the key without a run, and `Tell` the run that was minted, is where the invariant is needed.
* **`ReportsProofs`**. A thread's step is first put in words, one case per action: where it may lead (`Moves`), what it leaves of its
  task (`Keeps`), what it may write outside it (`Writes`) and what it has done by the time it moves on (`Does`); `StepKinds` splits the rest of
  `Next`. The invariant is then shown from these words. `OneOutcome` needs that an event's task is at its end, and that a thread in its except
  clause met something other than a best-effort failure. `ReportsAreTrue` and `DesignHasPlan` say nothing before the report: the invariant says
  of every earlier step what has been stored, posted or read by then, and that whoever wrote under a key was started with that key, so that
  a second writer is a twin. `PostsOnce` is about the application's posts: it needs that none is made before the comment, while the model
  may still be replaced and start over. What the models post through their tools is counted apart, and nothing keeps it from being repeated.
  `SnapshotIsTheClone` follows an architect that is alone through its two syncs, whose first writes the clone's body, cut as it is, and
  through its model's own `write_memory_md`. All for any invocations, inputs and faults.
* **`RepoHelperProofs`**. The first lemmas are about the prefix order, about `Pick` (it keeps order and loses nothing) and about pages (a batch
  is the window after those skipped). `GithubStep` then says once what any step does to the repository: branches grow, the base
  stays, PRs keep their heads, the list of checks gets one in front or has one completed. None of the properties is inductive, since all
  speak of the answer only; the invariant says of every request before it what the call has. `FailureIsAhead`: a check that
  had failed when the sha was read is among the items or still beyond the pages skipped, which new checks in front cannot undo, as they
  push entries towards the pages to come. `ItemsAreChecks`: what was collected is still in the list unless it was incomplete then. `DiffSoFar`:
  while the head stays, the entries are the changed paths up to the page reached. `OnItsParent`: a commit about to be pointed at is
  its parent and one tree, so that a fast-forward (`force: false`) lands on that very parent (`AncestorBetween`) and
  `CommitsTouchTheirFiles` follows. For any callers, requests, page sizes, caps and whatever others do.
* **`ImplementerProofs`**. `ReadyIsPushed` is a statement about the end of a task; the invariant carries it from the clone on: in a checkout of its own
  a task starts on the branch, a first pass at `main` and never behind it, whatever its agent commits, resets or switches to (`OnItsHead`),
  and what `commit_changes` lets through differs from the HEAD before the agent; if HEAD is the branch at the push, that is what gets
  there. `AloneOK` is what makes that local: another task in the checkout means that neither
  counts as alone. From the push on, the branch has the task's HEAD (`HasPushed`, `Landed`), which later pushes keep, since only an agent's may be
  forced, and `cut` records what such a push takes off (`Grow`, `Recorded`). `Gated` ties what
  the agent said to what the sink holds until `raise_if_blocked`, `PrKnown` a task's place to the PR it answers for,
  `CallOK` a call of the repo helper, which outlives a killed task, to the branch it is about. `OneTaskStep` states once what a step of one
  task has to show; each action is then one lemma. For any tasks, sessions, payloads, turns and repositories.

* **`LessonsProofs`**. `NoLessonLost` is a statement about deletion, but what makes it true lies long before. Nothing is assumed of the
  seconds: `named` counts the consolidations that named branches in each, and the clauses about branches are for the seconds that only one
  did (`Sole`). Of these comes exclusive writing (`HoldersOK`): such a branch is written by the task that named it, or by a call of
  the repo helper that such a task left running when its microVM ended, and of a second in which nobody named any there is neither a branch nor a
  holder. A second may become shared later, by a consolidation that begins in it; it never ceases to be (`NamesStay`). `WritersOK`
  says that nothing is written to such a branch once it has a PR, so what a PR tells it tells for ever (`Keeps`, `ToldStays`); people edit main
  only. `Progress` follows a consolidation through its two PRs: what it has shipped is in a PR with the files
  it meant, and what it has not begun has none. At the deletion, a lesson whose scope was written is in a PR, and when a
  MEMORY.md could not be parsed the scopes differ and only what the plan discarded is deleted (`ConsumedTold`). `CallStep` and
  `GithubStep` say once what a step of the repo helper does to a call and to the repository, lost answers included, and `OneTask` what a
  step of a task has to show. For any lessons, files, slugs, buffers, repositories, tasks and faults.

Only model-checked: everything under fairness (`EventuallySettled`, `ReachesPrOrEnd`, `ComesToRest`, `EveryTaskEnds`,
`RunHearsOfTask`), since liveness and `ENABLED` are beyond the prover; and the invariant `VerdictIsMet` of `Pipeline`, whose induction
over the whole loop is not done.

## 5. Not modelled, and the plan

Not modelled, for good: the dashboard's pages and sign-in, prompts, templates and steering, infrastructure and maintenance scripts, budget and
redaction hooks and the sandbox (text, presentation, pure functions of one call, or I/O); and the classification of a
repository by `stack_discovery`, a pure function of the repository's files whose result no other state depends on.

In this order:

1. `Payload` (P): which event each field of an agent's input comes from, for every log `decide` dispatches on. Two mismatches are known from reading:
   the dispatcher reads `pr_comment_body` where the mention event has `feedback_body`, and names the validators' artifacts by runtime where the
   agents store `review_s3_key`, `report_s3_key` and `critique_s3_key` (`retrospector_dispatcher/handler.py:304` and `:318`).
2. `RunDeletion` (P): deletion against late events; the dashboard's polling cursor and progress.
3. The rest of the webhook table: reviews and comments by the bot itself, the mention grammar, lookups on a stale `SUMMARY`; then `Intake` and `Pipeline`
   composed, so that an issue's second run is a pipeline of its own.
4. An abstract specification of a run (requested, triaged, designed, PR open, ended) that `Pipeline` implements.
5. `Pipeline` with `Reports` and `Implementer` in place of its abstract sessions, for one revision with two dispatches.
6. A run for the ceiling on automated passes, a pipeline with skewed clocks, the token cache.

(P): with proofs.
