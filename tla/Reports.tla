------------------------------ MODULE Reports ------------------------------
(***************************************************************************)
(* The agents other than the implementer and the retrospector: triage,     *)
(* architect, reviewer, tester, code_critic and proposer (src/agents/).    *)
(* Each is one daemon thread per invocation in the microVM of its          *)
(* session: it runs a model, stores an artifact in S3, posts on GitHub     *)
(* and publishes one report.  The architect first copies the memory files  *)
(* of the repository's default branch to the project's S3 snapshot.  All   *)
(* but triage's models hold tools of the Gateway that write: to the        *)
(* artifacts and the memory, and (all but the architect's) to GitHub.      *)
(*                                                                         *)
(* Two invocations may carry the same input (a dispatch is at least once), *)
(* share a microVM, or work for two runs of one project; the model may be  *)
(* throttled and replaced; every call outside the thread may be refused,   *)
(* may be applied although it seems to fail, or may raise.                 *)
(***************************************************************************)
EXTENDS Naturals, Sequences, FiniteSets

CONSTANTS Tasks,          \* the invocations
          Inputs,         \* what an invocation may be given
          Versions,       \* the states of the repository's default branch
          Body,           \* what compose_memory_md_body makes of each of them
          MaxIssues,      \* bound: the issues a proposal spawns
          MaxFaults       \* bound: how often the world goes wrong or main moves

Roles == {"triage", "architect", "reviewer", "tester", "code_critic", "proposer"}
Validators == {"reviewer", "tester", "code_critic"}
Input == [role : Roles, run : Nat, rev : Nat]

\* A version is the whole of a clone, and its own stack profile.  Its body is
\* the memory files each cut at MAX_FILE_BYTES, so versions may share one; no
\* files, no body.  Written is the text of a model.
None == 0
NoBody == "none"
Written == "written by a model"
Bodies == {Body[v] : v \in Versions}

\* What MaxFaults bounds: throttled models, failing models and clones, calls
\* through the Gateway and to S3 that do not succeed, publications that raise,
\* microVMs that are killed, pushes to main.
ASSUME ReportsAssumption ==
  /\ Inputs \subseteq Input /\ Inputs # {}
  /\ None \notin Versions
  /\ MaxIssues \in Nat /\ MaxFaults \in Nat

VARIABLES main,      \* the default branch
          snapshot,  \* projects/<slug>/MEMORY.md in S3
          profile,   \* projects/<slug>/stack_profile.json in S3
          store,     \* the artifacts bucket: the stored artifacts by key
          posts,     \* per task, what it, and its models by themselves, wrote
          prs,       \* the proposal branches, by run, and how far each came
          events,    \* the events published by these agents
          vms,       \* per session, the clone and the open async tasks
          tasks, left

vars == <<main, snapshot, profile, store, posts, prs, events, vms, tasks, left>>
world == <<main, snapshot, profile, store, posts, prs, events, vms>>

\* execute.py: the session id of a dispatch.
session_id_for(in) == <<in.role, in.run, IF in.role \in Validators THEN in.rev ELSE 0>>
Sessions == {session_id_for(in) : in \in Inputs}

\* plan_s3_key, triage_decision_s3_key, review_s3_key, report_s3_key, critique_s3_key.
s3_key(in) == session_id_for(in)

NoProposal == [comment |-> FALSE, issues |-> 0, edits |-> FALSE]
NoTask == [pc |-> "idle", in |-> CHOOSE in \in Inputs : TRUE, model |-> 1, body |-> NoBody,
           plan |-> {}, proposal |-> NoProposal, pr |-> "none", faults |-> {}]
NoPosts == [comments |-> 0, issues |-> 0, tools |-> {}, memory |-> FALSE]
NoVm == [clone |-> None, open |-> {}]

Init == /\ main \in Versions
        /\ snapshot = NoBody /\ profile = None
        /\ store = [k \in {s3_key(in) : in \in Inputs} |-> {}]
        /\ posts = [t \in Tasks |-> NoPosts]
        /\ prs = [r \in {in.run : in \in Inputs} |-> {}]
        /\ events = {}
        /\ vms = [s \in Sessions |-> NoVm]
        /\ tasks = [t \in Tasks |-> NoTask]
        /\ left = MaxFaults

-----------------------------------------------------------------------------
(* The frame of every app.py: the steps of each role, and where a failure  *)
(* goes.                                                                   *)

Role(t) == tasks[t].in.role
Session(t) == session_id_for(tasks[t].in)
Key(t) == s3_key(tasks[t].in)
Ended == {"idle", "done", "dead"}
Active(t) == tasks[t].pc \notin Ended

FirstStep(role) == IF role = "architect" THEN "clone" ELSE "model"

\* Mutant: the report goes out before what it reports is stored.
Steps_report_first(role) ==
  CASE role = "triage" -> [model |-> "publish", publish |-> "upload", upload |-> "finally"]
    [] role = "architect" -> [clone |-> "memory", memory |-> "profile", profile |-> "model",
                              model |-> "plan", plan |-> "publish", publish |-> "finally"]
    [] role \in Validators -> [model |-> "comment", comment |-> "publish", publish |-> "upload",
                               upload |-> "finally"]
    [] role = "proposer" -> [model |-> "comment", comment |-> "issues", issues |-> "pr",
                             pr |-> "publish", publish |-> "finally"]

\* Per role, what follows each step.
Steps(role) ==
  CASE role = "triage" -> [model |-> "upload", upload |-> "publish", publish |-> "finally"]
    [] role = "architect" -> [clone |-> "memory", memory |-> "profile", profile |-> "model",
                              model |-> "plan", plan |-> "publish", publish |-> "finally"]
    [] role \in Validators -> [model |-> "upload", upload |-> "comment", comment |-> "publish",
                               publish |-> "finally"]
    [] role = "proposer" -> [model |-> "comment", comment |-> "issues", issues |-> "pr",
                             pr |-> "publish", publish |-> "finally"]

After(t, pc) == Steps(Role(t))[pc]

Goto(t, pc) == tasks' = [tasks EXCEPT ![t].pc = pc]
Proceed(t) == Goto(t, After(t, tasks[t].pc))

\* Mutant: triage logs its exceptions and publishes nothing.
PublishesFailure_without_triage == {"architect", "code_critic"}
\* The roles whose except clause publishes RUN.FAILED; the others log.
PublishesFailure == {"triage", "architect", "code_critic"}

Spend == left > 0 /\ left' = left - 1

\* An exception: the except clause is next.  What went wrong is remembered.
Raise(t, fault) ==
  tasks' = [tasks EXCEPT ![t].pc = IF Role(t) \in PublishesFailure THEN "failing" ELSE "finally",
                         ![t].faults = @ \cup {fault}]

\* A call that does not succeed, and that the thread does not stop for.
GoOn(t, pc, fault) ==
  tasks' = [tasks EXCEPT ![t].pc = pc, ![t].faults = @ \cup {fault}]

\* Mutant: no async task is registered, so the microVM looks idle.
handler_untracked(t, in) ==
  /\ tasks[t].pc = "idle"
  /\ tasks' = [tasks EXCEPT ![t].pc = FirstStep(in.role), ![t].in = in]
  /\ UNCHANGED <<main, snapshot, profile, store, posts, prs, events, vms, left>>

\* add_async_task, then the thread; the caller gets its answer at once.
handler(t, in) ==
  /\ tasks[t].pc = "idle"
  /\ tasks' = [tasks EXCEPT ![t].pc = FirstStep(in.role), ![t].in = in]
  /\ vms' = [vms EXCEPT ![session_id_for(in)].open = @ \cup {t}]
  /\ UNCHANGED <<main, snapshot, profile, store, posts, prs, events, left>>

\* Mutant: the task is completed at the end of the try block, not in finally.
complete_async_task_on_success(t) ==
  /\ tasks[t].pc = "finally" /\ tasks[t].faults = {}
  /\ Goto(t, "done")
  /\ vms' = [vms EXCEPT ![Session(t)].open = @ \ {t}]
  /\ UNCHANGED <<main, snapshot, profile, store, posts, prs, events, left>>

complete_async_task(t) ==
  /\ tasks[t].pc = "finally"
  /\ Goto(t, "done")
  /\ vms' = [vms EXCEPT ![Session(t)].open = @ \ {t}]
  /\ UNCHANGED <<main, snapshot, profile, store, posts, prs, events, left>>

-----------------------------------------------------------------------------
(* The architect's grounding (repo_grounding.py, memory_md.py).            *)

\* clone_target_repo, or refresh_clone when the session has been used.
clone_target_repo(t) ==
  /\ tasks[t].pc = "clone"
  /\ \/ /\ vms' = [vms EXCEPT ![Session(t)].clone = main]
        /\ Proceed(t) /\ UNCHANGED left
     \/ Spend /\ Raise(t, "clone") /\ UNCHANGED vms
  /\ UNCHANGED <<main, snapshot, profile, store, posts, prs, events>>

\* Mutant: a failed HeadObject counts as a match.
existing_object_matches_on_error(object, body) == {TRUE, object = body}
\* The answers HeadObject and GetObject may lead to: any failure is "no match".
existing_object_matches(object, body) == {FALSE, object = body}

\* sync_memory_md_from_clone: nothing to copy, the same as in S3, or a put.
sync_memory_md_from_clone(t) ==
  /\ tasks[t].pc = "memory"
  /\ LET body == Body[vms[Session(t)].clone]
     IN \/ body = NoBody /\ Goto(t, "profile") /\ UNCHANGED left
        \/ /\ body # NoBody
           /\ \E same \in existing_object_matches(snapshot, body) :
                /\ IF same = (snapshot = body) THEN UNCHANGED left ELSE Spend
                /\ tasks' = [tasks EXCEPT ![t].pc = IF same THEN "profile" ELSE "memory_put",
                                          ![t].body = body]
  /\ UNCHANGED world

\* A ClientError of the put is swallowed; any other error of the call is not.
put_memory_md(t) ==
  /\ tasks[t].pc = "memory_put"
  /\ \/ snapshot' = tasks[t].body /\ Goto(t, "profile") /\ UNCHANGED left
     \/ Spend /\ GoOn(t, "profile", "sync_refused") /\ UNCHANGED snapshot
     \/ /\ Spend /\ Raise(t, "sync_unreachable")
        /\ snapshot' \in {snapshot, tasks[t].body}
  /\ UNCHANGED <<main, profile, store, posts, prs, events, vms>>

\* write_stack_profile compares before it puts; a failed read is "no match".
sync_stack_profile_from_clone(t) ==
  /\ tasks[t].pc = "profile"
  /\ \/ profile' = vms[Session(t)].clone /\ Proceed(t) /\ UNCHANGED left
     \/ Spend /\ GoOn(t, "model", "sync_refused") /\ UNCHANGED profile
     \/ /\ Spend /\ Raise(t, "sync_unreachable")
        /\ profile' \in {profile, vms[Session(t)].clone}
  /\ UNCHANGED <<main, snapshot, store, posts, prs, events, vms>>

-----------------------------------------------------------------------------
(* The model (agent.py, common/runtime.py).                                *)

FallbackRoles == {"architect", "code_critic", "proposer"}

\* The targets each role's models reach through the Gateway's tools.
ArtifactTool == Validators \cup {"architect"}
RepoHelperTool == Validators \cup {"proposer"}

\* The architect's model stores the plan itself; the validators' may write
\* under the key of their report.
put_artifact(t) ==
  /\ Role(t) \in ArtifactTool /\ tasks[t].pc = "model"
  /\ store' = [store EXCEPT ![Key(t)] = {<<t, tasks[t].model>>}]
  /\ store' # store
  /\ UNCHANGED <<main, snapshot, profile, posts, prs, events, vms, tasks, left>>

write_memory_md(t) ==
  /\ Role(t) \in ArtifactTool /\ tasks[t].pc = "model"
  /\ snapshot' = Written /\ posts' = [posts EXCEPT ![t].memory = TRUE]
  /\ <<snapshot', posts'>> # <<snapshot, posts>>
  /\ UNCHANGED <<main, profile, store, prs, events, vms, tasks, left>>

\* A comment, an issue, a branch, a commit or a PR, anywhere: of posts, which
\* of the task's models made any.
call_repo_helper(t) ==
  /\ Role(t) \in RepoHelperTool /\ tasks[t].pc = "model"
  /\ posts' = [posts EXCEPT ![t].tools = @ \cup {tasks[t].model}] /\ posts' # posts
  /\ UNCHANGED <<main, snapshot, profile, store, prs, events, vms, tasks, left>>

Proposals == [comment : BOOLEAN, issues : 0..MaxIssues, edits : BOOLEAN]

run_for_structured_output(t) ==
  /\ tasks[t].pc = "model"
  /\ \/ /\ \E p \in IF Role(t) = "proposer" THEN Proposals ELSE {NoProposal} :
             tasks' = [tasks EXCEPT ![t].pc = After(t, "model"), ![t].proposal = p]
        /\ UNCHANGED left
     \/ Spend /\ Raise(t, "model")
  /\ UNCHANGED world

\* Mutant: the fallback wraps what follows the model too.
invoke_with_fallback_whole(t) ==
  /\ tasks[t].pc \in {"model", "comment", "issues", "pr"} /\ Spend
  /\ IF Role(t) \in FallbackRoles /\ tasks[t].model = 1
     THEN tasks' = [tasks EXCEPT ![t].pc = "model", ![t].model = 2]
     ELSE Raise(t, "throttle")
  /\ UNCHANGED world

\* The model stays throttled: a fresh agent on the fallback model starts over,
\* where one is configured; otherwise the exception propagates.
invoke_with_fallback(t) ==
  /\ tasks[t].pc = "model" /\ Spend
  /\ IF Role(t) \in FallbackRoles /\ tasks[t].model = 1
     THEN tasks' = [tasks EXCEPT ![t].model = 2]
     ELSE Raise(t, "throttle")
  /\ UNCHANGED world

-----------------------------------------------------------------------------
(* Artifacts and posts.  A call through the Gateway answers with an        *)
(* envelope, ok or not, or raises; without an ok it may have been applied. *)

\* Mutant: the plan is published unread.
fetch_plan_body_unread(t) ==
  /\ tasks[t].pc = "plan"
  /\ Proceed(t)
  /\ UNCHANGED <<main, snapshot, profile, store, posts, prs, events, vms, left>>

\* The plan is read back; an error envelope raises, as does a plan that was
\* never stored.
fetch_plan_body(t) ==
  /\ tasks[t].pc = "plan"
  /\ \/ /\ store[Key(t)] # {} /\ UNCHANGED left
        /\ tasks' = [tasks EXCEPT ![t].pc = After(t, "plan"), ![t].plan = store[Key(t)]]
     \/ store[Key(t)] = {} /\ Raise(t, "no_plan") /\ UNCHANGED left
     \/ Spend /\ Raise(t, "plan")
  /\ UNCHANGED world

\* upload_decision lets an error of S3 propagate; upload_review, upload_report
\* and upload_critique look at no envelope, so only a raising call stops them.
upload(t) ==
  LET stored == [store EXCEPT ![Key(t)] = {<<t, tasks[t].model>>}]
  IN /\ tasks[t].pc = "upload"
     /\ \/ store' = stored /\ Proceed(t) /\ UNCHANGED left
        \/ /\ Spend /\ store' \in {store, stored}
           /\ \/ Raise(t, "upload")
              \/ Role(t) # "triage" /\ GoOn(t, After(t, "upload"), "upload_refused")
     /\ UNCHANGED <<main, snapshot, profile, posts, prs, events, vms>>

Commented(t) == [posts EXCEPT ![t].comments = @ + 1]

\* Mutant: the comment is not wrapped in a try.
post_pr_comment_unguarded(t) ==
  /\ tasks[t].pc = "comment" /\ Role(t) \in Validators
  /\ \/ posts' = Commented(t) /\ Proceed(t) /\ UNCHANGED left
     \/ Spend /\ posts' \in {posts, Commented(t)} /\ Raise(t, "comment")
  /\ UNCHANGED <<main, snapshot, profile, store, prs, events, vms>>

\* Best effort, whatever the call does.
post_pr_comment(t) ==
  /\ tasks[t].pc = "comment" /\ Role(t) \in Validators
  /\ \/ posts' = Commented(t) /\ Proceed(t) /\ UNCHANGED left
     \/ /\ Spend /\ posts' \in {posts, Commented(t)}
        /\ GoOn(t, After(t, "comment"), "comment")
  /\ UNCHANGED <<main, snapshot, profile, store, prs, events, vms>>

\* Mutant: an error envelope is logged and ignored.
invoke_repo_helper_lenient(t, done, unchanged, next) ==
  \/ done /\ next /\ UNCHANGED left
  \/ Spend /\ (done \/ unchanged) /\ next

\* The proposer's calls: an envelope that is not ok raises.
invoke_repo_helper(t, done, unchanged, next) ==
  \/ done /\ next /\ UNCHANGED left
  \/ Spend /\ (done \/ unchanged) /\ Raise(t, "repo_helper")

post_research_comment(t) ==
  /\ tasks[t].pc = "comment" /\ Role(t) = "proposer"
  /\ IF tasks[t].proposal.comment
     THEN invoke_repo_helper(t, posts' = Commented(t), posts' = posts, Proceed(t))
     ELSE Proceed(t) /\ UNCHANGED <<posts, left>>
  /\ UNCHANGED <<main, snapshot, profile, store, prs, events, vms>>

create_proposed_issues(t) ==
  /\ tasks[t].pc = "issues"
  /\ IF posts[t].issues < tasks[t].proposal.issues
     THEN invoke_repo_helper(t, posts' = [posts EXCEPT ![t].issues = @ + 1], posts' = posts,
                             UNCHANGED tasks)
     ELSE Proceed(t) /\ UNCHANGED <<posts, left>>
  /\ UNCHANGED <<main, snapshot, profile, store, prs, events, vms>>

\* The branch is named after the run; the helper reuses a branch and an open PR
\* that it finds, so a second task of the run commits on top.
PrSteps == <<"branch", "commit", "open">>
NextPrStep(pr) == CASE pr = "none" -> "branch" [] pr = "branch" -> "commit" [] OTHER -> "open"

open_proposal_pr(t) ==
  LET step == NextPrStep(tasks[t].pr)
      run == tasks[t].in.run
  IN /\ tasks[t].pc = "pr"
     /\ IF tasks[t].proposal.edits /\ tasks[t].pr # "open"
        THEN invoke_repo_helper(t, prs' = [prs EXCEPT ![run] = @ \cup {<<step, t>>}], prs' = prs,
                                tasks' = [tasks EXCEPT ![t].pr = step])
        ELSE Proceed(t) /\ UNCHANGED <<prs, left>>
     /\ UNCHANGED <<main, snapshot, profile, store, posts, events, vms>>

-----------------------------------------------------------------------------
(* Publication (common/event_emit.py).                                     *)

ReadyType(role) ==
  CASE role = "triage" -> "ISSUE.TRIAGED" [] role = "architect" -> "DESIGN.READY"
    [] role = "reviewer" -> "REVIEW.READY" [] role = "tester" -> "TEST_REPORT.READY"
    [] role = "code_critic" -> "CODE_CRITIQUE.READY" [] role = "proposer" -> "RUN.COMPLETED"

\* of: for DESIGN.READY, the plan that was read back and is summarised.
Event(t, type) == [type |-> type, by |-> t, of |-> tasks[t].plan]

\* PutEvents may refuse the entry, or raise after it was accepted.
publish_ready(t) ==
  /\ tasks[t].pc = "publish"
  /\ LET published == events \cup {Event(t, ReadyType(Role(t)))}
     IN \/ events' = published /\ Proceed(t) /\ UNCHANGED left
        \/ Spend /\ events' \in {events, published} /\ Raise(t, "publish")
  /\ UNCHANGED <<main, snapshot, profile, store, posts, prs, vms>>

\* try_publish logs a refusal; what else it raises ends the thread.
publish_run_failed(t) ==
  /\ tasks[t].pc = "failing"
  /\ LET published == events \cup {Event(t, "RUN.FAILED")}
     IN \/ events' = published /\ Goto(t, "finally") /\ UNCHANGED left
        \/ /\ Spend /\ events' \in {events, published}
           /\ GoOn(t, "finally", "publish_failed")
  /\ UNCHANGED <<main, snapshot, profile, store, posts, prs, vms>>

-----------------------------------------------------------------------------
(* The world.                                                              *)

VmEnds(s, why) ==
  /\ tasks' = [t \in Tasks |-> IF Active(t) /\ Session(t) = s
                               THEN [tasks[t] EXCEPT !.pc = "dead", !.faults = @ \cup why]
                               ELSE tasks[t]]
  /\ vms' = [vms EXCEPT ![s] = NoVm]
  /\ UNCHANGED <<main, snapshot, profile, store, posts, prs, events>>

\* AgentCore ends a microVM that reports itself idle, and kills one now and then.
IdleTimeout(s) == vms[s] # NoVm /\ vms[s].open = {} /\ VmEnds(s, {}) /\ UNCHANGED left
VmKilled(s) == vms[s].open # {} /\ Spend /\ VmEnds(s, {"killed"})

PushToMain == /\ Spend
              /\ main' \in Versions \ {main}
              /\ UNCHANGED <<snapshot, profile, store, posts, prs, events, vms, tasks>>

-----------------------------------------------------------------------------
Work(t) ==
  \/ clone_target_repo(t) \/ sync_memory_md_from_clone(t) \/ put_memory_md(t)
  \/ sync_stack_profile_from_clone(t)
  \/ put_artifact(t) \/ write_memory_md(t) \/ call_repo_helper(t)
  \/ run_for_structured_output(t) \/ invoke_with_fallback(t)
  \/ fetch_plan_body(t) \/ upload(t) \/ post_pr_comment(t)
  \/ post_research_comment(t) \/ create_proposed_issues(t) \/ open_proposal_pr(t)
  \/ publish_ready(t) \/ publish_run_failed(t) \/ complete_async_task(t)

Next == \/ \E t \in Tasks : Work(t) \/ \E in \in Inputs : handler(t, in)
        \/ \E s \in Sessions : IdleTimeout(s) \/ VmKilled(s)
        \/ PushToMain

\* A started thread runs, and a model comes to an end however often it writes;
\* nothing makes an invocation come.
Fairness == \A t \in Tasks : WF_vars(Work(t)) /\ WF_vars(run_for_structured_output(t))
Spec == Init /\ [][Next]_vars /\ Fairness

-----------------------------------------------------------------------------
(* Properties.                                                             *)

Pcs == Ended \cup {"clone", "memory", "memory_put", "profile", "model", "plan", "upload",
                    "comment", "issues", "pr", "publish", "failing", "finally"}
Artifacts == Tasks \X {1, 2}
Faults == {"clone", "sync_refused", "sync_unreachable", "model", "throttle", "no_plan", "plan",
           "upload", "upload_refused", "comment", "repo_helper", "publish", "publish_failed",
           "killed"}
Posts == [comments : Nat, issues : Nat, tools : SUBSET {1, 2}, memory : BOOLEAN]
Task == [pc : Pcs, in : Inputs, model : {1, 2}, body : Bodies \cup {NoBody},
         plan : SUBSET Artifacts, proposal : Proposals,
         pr : {"none", "branch", "commit", "open"}, faults : SUBSET Faults]

\* Types; and the open async tasks of a microVM are the running threads of its
\* session (every app.py, handler and finally).
TypeOK ==
  /\ main \in Versions /\ profile \in Versions \cup {None}
  /\ snapshot \in Bodies \cup {NoBody, Written}
  /\ store \in [Sessions -> SUBSET Artifacts]
  /\ posts \in [Tasks -> Posts]
  /\ prs \in [{in.run : in \in Inputs} -> SUBSET ({"branch", "commit", "open"} \X Tasks)]
  /\ vms \in [Sessions -> [clone : Versions \cup {None}, open : SUBSET Tasks]]
  /\ tasks \in [Tasks -> Task] /\ left \in Nat
  /\ \A e \in events : e.by \in Tasks
  /\ \A s \in Sessions : vms[s].open = {t \in Tasks : Active(t) /\ Session(t) = s}

Reported(t) == \E e \in events : e.by = t /\ e.type = ReadyType(Role(t))
RunFailed(t) == \E e \in events : e.by = t /\ e.type = "RUN.FAILED"
Started(t) == tasks[t].pc # "idle"
\* Other invocations that write under the same key.
Twins(t) == {u \in Tasks \ {t} : Started(u) /\ Key(u) = Key(t)}

\* What the code goes on after: a comment that fails, a snapshot that S3
\* refuses, an upload whose envelope is not ok.
BestEffort == {"comment", "sync_refused", "upload_refused"}

\* A run is given one outcome of a task, its report or RUN.FAILED, unless the
\* report's own publication raised (run_architect: a terminal event on success
\* or on exception).  A thread that met best-effort failures only gives its
\* report (post_pr_comment and the two syncs, whose docstrings call a failure
\* swallowed).
OneOutcome ==
  \A t \in Tasks :
    /\ Reported(t) /\ RunFailed(t) => "publish" \in tasks[t].faults
    /\ tasks[t].pc \in {"failing", "finally", "done"} /\ tasks[t].faults \subseteq BestEffort
       => Reported(t)

\* ISSUE.TRIAGED and the validators' reports are published after what they
\* report is stored: the artifact under the key the event names is that of the
\* same task, unless a second invocation writes under the same key, or the
\* upload was refused and the envelope ignored (upload_review, upload_report,
\* upload_critique, upload_decision).
ArtifactBehindReport ==
  \A t \in Tasks :
    Reported(t) /\ Role(t) \in Validators \cup {"triage"}
    => \/ \E m \in {1, 2} : store[Key(t)] = {<<t, m>>}
       \/ Twins(t) # {} \/ "upload_refused" \in tasks[t].faults

\* A completed research run has posted its synthesis, spawned its issues and
\* opened its PR with its own edits committed (run_research, invoke_repo_helper).
CompletedMeansDone ==
  \A t \in Tasks : Role(t) = "proposer" /\ Reported(t) =>
    LET p == tasks[t].proposal
    IN  /\ p.comment => posts[t].comments = 1
        /\ posts[t].issues = p.issues
        /\ p.edits => {"branch", "commit", "open"} \X {t}
                      \subseteq prs[tasks[t].in.run]

\* What a report tells of has happened.
ReportsAreTrue == ArtifactBehindReport /\ CompletedMeansDone

\* DESIGN.READY describes a plan that is stored, by this run's architect, under
\* the key it names, even when the model that wrote it was given up; and it is
\* the plan the implementer will read, unless a second architect of the run
\* wrote again (fetch_plan_body, invoke_with_fallback).
DesignHasPlan ==
  \A e \in events : e.type = "DESIGN.READY" =>
    /\ e.of # {} /\ store[Key(e.by)] # {}
    /\ \A w \in e.of : Key(w[1]) = Key(e.by)
    /\ e.of = store[Key(e.by)] \/ Twins(e.by) # {}

\* However often its model is replaced, the application posts one comment of a
\* task, and each issue of its proposal once: the model is run again, what
\* follows from its output is not (run_research, post_pr_comment).  What a model
\* posts through its tools before it is given up is redone by the next.
PostsOnce ==
  \A t \in Tasks : posts[t].comments <= 1 /\ posts[t].issues <= tasks[t].proposal.issues

\* No invariant of the code (runtime.py 554-557 says that `run` must be such
\* that opening a duplicate PR is not redone, and code_critic's and the
\* proposer's models hold that tool): no two models of a task post.
ModelsPostOnce ==
  \A t \in Tasks : posts[t].tools # {1, 2}

\* An architect that was the only one to run, and met no failure of S3 while it
\* wrote, leaves the memory files (cut as they are) and the profile of its clone
\* in S3, also when the comparison with the object that is there fails
\* (existing_object_matches: better to overwrite than to skip a real change);
\* or what its own model put there instead of them, and nothing else.
SnapshotIsTheClone ==
  \A t \in Tasks :
    /\ Role(t) = "architect" /\ tasks[t].pc \in {"model", "plan", "publish"}
    /\ tasks[t].faults \cap {"sync_refused", "sync_unreachable"} = {}
    /\ \A u \in Tasks \ {t} : Started(u) => Role(u) # "architect" /\ ~posts[u].memory
    => LET clone == vms[Session(t)].clone
       IN  /\ profile = clone
           /\ IF posts[t].memory THEN snapshot = Written
              ELSE Body[clone] # NoBody => snapshot = Body[clone]

\* Every thread that is not killed completes its async task, so that its
\* microVM can be released, and a microVM that reports itself idle takes no
\* thread with it (add_async_task before the thread, complete_async_task in
\* the finally of every app.py).
EveryTaskEnds ==
  \A t \in Tasks : Active(t) ~> tasks[t].pc = "done" \/ "killed" \in tasks[t].faults

\* Triage, architect and code_critic never leave their run waiting: a report or
\* RUN.FAILED follows, unless the thread is killed or EventBridge refuses the
\* failure too (run_architect's docstring, publish_run_failed).
RunHearsOfTask ==
  \A t \in Tasks :
    Active(t) /\ Role(t) \in {"triage", "architect", "code_critic"}
    ~> Reported(t) \/ RunFailed(t) \/ tasks[t].faults \cap {"killed", "publish_failed"} # {}
=============================================================================
