---------------------------- MODULE Implementer -----------------------------
(***************************************************************************)
(* The implementer runtime: one task per invocation, each on a thread of   *)
(* its own in the microVM of its session.  A task clones or resets the     *)
(* session's checkout, lets the agent work in it, pushes the run's branch, *)
(* opens the PR through repo_helper or answers review threads, and reports.*)
(* Tasks of one session share the checkout; nothing keeps two invocations  *)
(* of a session apart when the router dispatches one twice.                *)
(***************************************************************************)
EXTENDS RepoHelper

CONSTANTS Repos,     \* the repositories the tasks may find
          Impl,      \* the run's branch, aidlc/impl/{run_id}
          Sessions,  \* the session ids, one microVM each
          Payloads,  \* per task, the inputs it may be invoked with
          Written,   \* per task, the content its agent writes
          MaxTurns,  \* per task, of its agent
          Bounds     \* how many pushes of others and microVMs that end

Tasks == Callers

\* ImplementerInput; pr is 0 while there is no PR.
ImplementerInput == [mode : {"implementation", "revision"}, session : Sessions, pr : Nat]

ASSUME ImplementerAssumption ==
  /\ \A repo \in Repos : IsRepo(repo)
  /\ Impl \in Branches \ {Base}
  /\ Payloads \in [Tasks -> SUBSET ImplementerInput]
  /\ Written \in [Tasks -> Contents]
  /\ MaxTurns \in [Tasks -> Nat] /\ Bounds \in Nat

VARIABLES vm,     \* per session, the checkout under /workspace/repo
          task, events, left,
          cut     \* history: the tips an agent's push has taken off the run's branch

vars == <<hvars, vm, task, events, left, cut>>

\* on: HEAD is the run's branch, whose commits are local; otherwise HEAD is at
\* the commits detached.  main: origin/main as last fetched.  work: the files.
NoVm == [cloned |-> FALSE, on |-> FALSE, detached |-> <<>>, local |-> <<>>, main |-> <<>>,
         work |-> NoTree]
FreshVm(tip) == [NoVm EXCEPT !.cloned = TRUE, !.detached = tip, !.main = tip,
                             !.work = TreeOf(tip)]

\* report: what FinishSink holds; result: the PR of the ImplementerResult.
\* History: said is the last status the agent gave, pushed the HEAD the task
\* pushed, home that it was the run's branch, alone that no other task was in
\* the checkout meanwhile.
NoTask == [pc |-> "idle", in |-> [mode |-> "none", session |-> "none", pr |-> 0], turns |-> 0,
           before |-> <<>>, report |-> "none", blocked_stop |-> FALSE, pr |-> 0, result |-> 0,
           said |-> "none", pushed |-> <<>>, home |-> TRUE, alone |-> TRUE]

Active(t) == task[t].pc \notin {"idle", "done", "dead"}
Step(t, from, to) == task[t].pc = from /\ task' = [task EXCEPT ![t].pc = to]
Raises(t, from) == Step(t, from, "raised")
Checkout(t) == vm[task[t].in.session]
SetCheckout(t, v) == vm' = [vm EXCEPT ![task[t].in.session] = v]
Revising(t) == task[t].in.mode = "revision"
Spend == left > 0 /\ left' = left - 1
\* The thread's locals end with it.
Ends(t) == task' = [task EXCEPT ![t] = [@ EXCEPT !.pc = "done", !.turns = 0, !.report = "none",
                                                 !.blocked_stop = FALSE, !.pr = 0]]

Init ==
  /\ \E repo \in Repos : HInit(repo)
  /\ vm = [s \in Sessions |-> NoVm]
  /\ task = [t \in Tasks |-> NoTask]
  /\ events = {}
  /\ left = Bounds
  /\ cut = {}

-----------------------------------------------------------------------------
(* app.py: the entry point and the daemon thread's frame.                  *)

SameVm(t, s) == {u \in Tasks \ {t} : Active(u) /\ task[u].in.session = s}

\* The PRs of the run's branch.
RunPrs == {n \in DOMAIN prs : prs[n].head = Impl}

\* handler: a task is registered and its thread started.  A revision is
\* dispatched for a PR of the run, the first pass for none.
invoke(t) ==
  /\ task[t].pc = "idle"
  /\ \E p \in Payloads[t] :
       /\ p.pr \in RunPrs \cup {0} /\ (p.mode = "revision" <=> p.pr # 0)
       /\ LET shared == SameVm(t, p.session)
          IN task' = [u \in Tasks |->
               IF u = t THEN [NoTask EXCEPT !.pc = "clone", !.in = p, !.alone = shared = {}]
               ELSE IF u \in shared THEN [task[u] EXCEPT !.alone = FALSE] ELSE task[u]]
  /\ UNCHANGED <<hvars, vm, events, left, cut>>

Event(t, type, pr) == [type |-> type, by |-> t, pr |-> pr]
ReadyType(t) == IF Revising(t) THEN "REVISION.READY" ELSE "IMPL_PR.OPENED"

\* emit_impl_pr_opened and emit_revision_ready: publish raises when the bus
\* rejects the event, and when its answer is lost.
emit_ready(t) ==
  /\ task[t].pc = "emit"
  /\ \/ /\ Ends(t) \/ Raises(t, "emit")
        /\ events' = events \cup {Event(t, ReadyType(t), task[t].result)}
     \/ /\ Raises(t, "emit")
        /\ UNCHANGED events
  /\ UNCHANGED <<hvars, vm, left, cut>>

\* Mutant: the PR is taken from the payload only.
failed_pr_of_payload(t) == task[t].in.pr

failed_pr(t) == IF task[t].result # 0 THEN task[t].result ELSE task[t].in.pr

\* The except and finally blocks: try_publish, then complete_async_task.
publish_run_failed(t) ==
  /\ task[t].pc = "raised" /\ Ends(t)
  /\ \/ events' = events \cup {Event(t, "RUN.FAILED", failed_pr(t))}
     \/ UNCHANGED events
  /\ UNCHANGED <<hvars, vm, left, cut>>

\* What calls another service, or git over the network, may raise.
External == {"clone", "branch", "agent", "push", "open_pr", "summary"}
TaskRaises(t) ==
  /\ task[t].pc \in External /\ Raises(t, task[t].pc)
  /\ UNCHANGED <<hvars, vm, events, left, cut>>

-----------------------------------------------------------------------------
(* repo_ops.py: the checkout.                                              *)

head_sha(v) == IF v.on THEN v.local ELSE v.detached
has_uncommitted_changes(v) == v.work # TreeOf(head_sha(v))

\* git checkout keeps uncommitted edits and refuses to overwrite one.
CanSwitch(v, to) ==
  LET old == TreeOf(head_sha(v))
  IN \A p \in Paths : v.work[p] = old[p] \/ old[p] = TreeOf(to)[p]
Carried(v, to) ==
  LET old == TreeOf(head_sha(v))
  IN [p \in Paths |-> IF v.work[p] # old[p] THEN v.work[p] ELSE TreeOf(to)[p]]

\* make_session, then the clone or reset_existing_clone: fetch, checkout --detach, reset --hard, clean.
\* A checkout that would overwrite edits left behind fails before the reset.
clone_repo(t) ==
  /\ task[t].pc = "clone"
  /\ LET v == Checkout(t)
         fetched == refs[Base]
     IN \/ /\ ~v.cloned
           /\ SetCheckout(t, FreshVm(fetched))
           /\ Step(t, "clone", "branch")
        \/ /\ v.cloned /\ CanSwitch(v, fetched)
           /\ SetCheckout(t, [v EXCEPT !.on = FALSE, !.detached = fetched, !.main = fetched,
                                       !.work = TreeOf(fetched)])
           /\ Step(t, "clone", "branch")
        \/ /\ v.cloned /\ ~CanSwitch(v, fetched)
           /\ SetCheckout(t, [v EXCEPT !.main = fetched])
           /\ Raises(t, "clone")
  /\ UNCHANGED <<hvars, events, left, cut>>

\* git checkout -B off the current HEAD, in the first pass.
create_branch_local(t) ==
  /\ task[t].pc = "branch" /\ ~Revising(t)
  /\ LET head == head_sha(Checkout(t))
     IN SetCheckout(t, [Checkout(t) EXCEPT !.on = TRUE, !.detached = <<>>, !.local = head])
  /\ Step(t, "branch", "inputs")
  /\ UNCHANGED <<hvars, events, left, cut>>

checkout_impl_branch(t) ==
  /\ task[t].pc = "branch" /\ Revising(t)
  /\ LET v == Checkout(t)
     IN IF Impl \in DOMAIN refs /\ CanSwitch(v, refs[Impl])
          THEN /\ SetCheckout(t, [v EXCEPT !.on = TRUE, !.detached = <<>>, !.local = refs[Impl],
                                           !.work = Carried(v, refs[Impl])])
               /\ Step(t, "branch", "inputs")
          ELSE Raises(t, "branch") /\ UNCHANGED vm
  /\ UNCHANGED <<hvars, events, left, cut>>

\* fetch_plan and fetch_revision_inputs are best effort; then head_before.
gather_inputs(t) ==
  /\ task[t].pc = "inputs"
  /\ task' = [task EXCEPT ![t].pc = "agent", ![t].before = head_sha(Checkout(t))]
  /\ UNCHANGED <<hvars, vm, events, left, cut>>

Committed(v) ==
  LET commits == Append(head_sha(v), v.work)
  IN IF ~has_uncommitted_changes(v) THEN v
     ELSE IF v.on THEN [v EXCEPT !.local = commits] ELSE [v EXCEPT !.detached = commits]

-----------------------------------------------------------------------------
(* drive_agent: the SDK's loop with the finish tool and the Stop hook.     *)

Turn(t) == task[t].pc = "agent" /\ task[t].turns < MaxTurns[t]
NextTurn(t) == task' = [task EXCEPT ![t].turns = @ + 1]

edit(t) ==
  /\ Turn(t) /\ NextTurn(t)
  /\ \E p \in Paths :
       /\ Checkout(t).work[p] # Written[t]
       /\ SetCheckout(t, [Checkout(t) EXCEPT !.work[p] = Written[t]])
  /\ UNCHANGED <<hvars, events, left, cut>>

git_commit(t) ==
  /\ Turn(t) /\ NextTurn(t)
  /\ has_uncommitted_changes(Checkout(t))
  /\ SetCheckout(t, Committed(Checkout(t)))
  /\ UNCHANGED <<hvars, events, left, cut>>

\* The prompt asks for pushes; hooks.py denies none of the run's branch, forced or not.
git_push(t) ==
  /\ Turn(t) /\ NextTurn(t)
  /\ \E commits \in {Checkout(t).local, head_sha(Checkout(t))} : SetRef(Impl, commits)
  /\ refs' # refs
  /\ cut' = IF Impl \in DOMAIN refs /\ ~Ancestor(refs[Impl], refs'[Impl])
              THEN cut \cup {refs[Impl]} ELSE cut
  /\ UNCHANGED <<prs, checks, threads, calls, vm, events, left>>

\* HEAD leaves the run's branch, for main or a branch or worktree of the agent's, or comes back.
git_switch(t) ==
  /\ Turn(t) /\ NextTurn(t)
  /\ LET v == Checkout(t)
     IN \E on \in BOOLEAN, to \in {v.local, v.main} :
          /\ CanSwitch(v, to) /\ (on => ~v.on /\ to = v.local)
          /\ SetCheckout(t, [v EXCEPT !.on = on, !.detached = IF on THEN <<>> ELSE to,
                                      !.work = Carried(v, to)])
  /\ vm' # vm
  /\ UNCHANGED <<hvars, events, left, cut>>

\* reset, to main or before the last commit: --soft and amend keep the files, --hard does not.
git_reset(t) ==
  /\ Turn(t) /\ NextTurn(t)
  /\ LET v == Checkout(t)
         head == head_sha(v)
     IN /\ ~Ancestor(head, v.main)
        /\ \E to \in {v.main, SubSeq(head, 1, Len(head) - 1)} : \E files \in {v.work, TreeOf(to)} :
             SetCheckout(t, IF v.on THEN [v EXCEPT !.local = to, !.work = files]
                            ELSE [v EXCEPT !.detached = to, !.work = files])
  /\ UNCHANGED <<hvars, events, left, cut>>

\* The repo_helper tool, in the agent's own hands: it opens the PR, or commits to the branch.
call_repo_helper(t) ==
  /\ Turn(t) /\ NextTurn(t)
  /\ \/ /\ CanOpen(Impl)
        /\ prs' = Append(prs, [head |-> Impl, open |-> TRUE])
        /\ UNCHANGED <<refs, checks, threads, calls>>
     \/ /\ Impl \in DOMAIN refs
        /\ \E p \in Paths : Push(Impl, p, Written[t])
  /\ UNCHANGED <<vm, events, left, cut>>

\* FinishSink.set: the last call wins.
set_report(t, status) ==
  task' = [task EXCEPT ![t].turns = @ + 1, ![t].said = status, ![t].report = status]

\* A report that fails validation stores nothing.
finish(t) ==
  /\ Turn(t)
  /\ \E status \in {"done", "blocked"} : set_report(t, status)
  /\ UNCHANGED <<hvars, vm, events, left, cut>>

\* require_finish_on_stop blocks once a stop without a report.
stop(t) ==
  /\ task[t].pc = "agent"
  /\ IF task[t].report = "none" /\ ~task[t].blocked_stop /\ task[t].turns < MaxTurns[t]
       THEN task' = [task EXCEPT ![t].turns = @ + 1, ![t].blocked_stop = TRUE]
       ELSE task' = [task EXCEPT ![t].pc = "changes", ![t].turns = 0, ![t].blocked_stop = FALSE]
  /\ UNCHANGED <<hvars, vm, events, left, cut>>

-----------------------------------------------------------------------------
(* client.py: what follows the agent.                                      *)

repo_made_real_changes(v) ==
  has_uncommitted_changes(v) \/ TreeOf(head_sha(v)) # TreeOf(v.main)

\* Mutant: a revision is compared with origin/main too.
made_changes_since_main(t) == repo_made_real_changes(Checkout(t))

\* A revision commits first and compares with the HEAD before the agent.
made_changes(t) ==
  IF Revising(t) THEN head_sha(Committed(Checkout(t))) # task[t].before
  ELSE repo_made_real_changes(Checkout(t))

\* Mutant: a first pass only stops when it is blocked.
blocked_first_pass(t) == task[t].report = "blocked" /\ ~Revising(t)

raise_if_blocked(t) == task[t].report = "blocked"

\* raise_if_blocked, the check for changes, commit_changes.
commit_changes(t) ==
  /\ task[t].pc = "changes"
  /\ IF raise_if_blocked(t)
       THEN Raises(t, "changes") /\ UNCHANGED vm
       ELSE IF made_changes(t)
         THEN Step(t, "changes", "push") /\ SetCheckout(t, Committed(Checkout(t)))
         ELSE Raises(t, "changes") /\ UNCHANGED vm
  /\ UNCHANGED <<hvars, events, left, cut>>

Pushed(t, to) ==
  /\ SetRef(Impl, Checkout(t).local)
  /\ task' = [task EXCEPT ![t].pc = to, ![t].pushed = head_sha(Checkout(t)),
                          ![t].home = Checkout(t).on]

\* Mutant: git push --force.
push_branch_forced(t) ==
  /\ task[t].pc = "push"
  /\ Pushed(t, IF Revising(t) THEN "replies" ELSE "open_pr")
  /\ UNCHANGED <<prs, checks, threads, calls, vm, events, left, cut>>

\* A plain push of the branch, whatever HEAD is; not a fast forward: rejected.
push_branch(t) ==
  /\ task[t].pc = "push"
  /\ IF Impl \in DOMAIN refs => Ancestor(refs[Impl], Checkout(t).local)
       THEN Pushed(t, IF Revising(t) THEN "replies" ELSE "open_pr") \/ Pushed(t, "raised")
       ELSE Raises(t, "push") /\ UNCHANGED refs
  /\ UNCHANGED <<prs, checks, threads, calls, vm, events, left, cut>>

Ask(op, pr) == [NoRequest EXCEPT !.op = op, !.branch = Impl, !.pr = pr]

\* invoke_repo_helper, and the Lambda's own steps.
open_impl_pr(t) ==
  /\ Step(t, "open_pr", "opening") /\ handler(t, Ask("open_pr", 0))
  /\ UNCHANGED <<vm, events, left, cut>>
post_inline_replies(t) ==
  /\ \/ Step(t, "replies", "replying") /\ handler(t, Ask("reply_pr_review_comment", task[t].in.pr))
     \/ Step(t, "replies", "summary") /\ UNCHANGED hvars
  /\ UNCHANGED <<vm, events, left, cut>>
repo_helper(t) == run_op(t) /\ UNCHANGED <<vm, task, events, left, cut>>

\* Mutant: an envelope that is not ok is waited out.
pr_opened_ok_only(t) ==
  /\ At(t, "answered") /\ calls[t].answer.ok
  /\ task[t].pc = "opening"
  /\ task' = [task EXCEPT ![t].pc = "summary", ![t].pr = calls[t].answer.pr]
  /\ UNCHANGED <<hvars, vm, events, left, cut>>

pr_opened(t) ==
  /\ At(t, "answered")
  /\ LET a == calls[t].answer
     IN IF a.ok THEN /\ task[t].pc = "opening"
                     /\ task' = [task EXCEPT ![t].pc = "summary", ![t].pr = a.pr]
        ELSE Raises(t, "opening")
  /\ UNCHANGED <<hvars, vm, events, left, cut>>
replied(t) ==
  /\ At(t, "answered") /\ Step(t, "replying", "summary")
  /\ UNCHANGED <<hvars, vm, events, left, cut>>

\* short_diff_summary, then the result is built.
build_result(t) ==
  /\ task[t].pc = "summary"
  /\ task' = [task EXCEPT ![t].pc = "emit",
                          ![t].result = IF Revising(t) THEN task[t].in.pr ELSE task[t].pr]
  /\ UNCHANGED <<hvars, vm, events, left, cut>>

-----------------------------------------------------------------------------
run_implementer(t) ==
  \/ clone_repo(t) \/ create_branch_local(t) \/ checkout_impl_branch(t)
  \/ gather_inputs(t) \/ edit(t) \/ git_commit(t) \/ git_push(t) \/ git_switch(t)
  \/ git_reset(t) \/ call_repo_helper(t) \/ finish(t) \/ stop(t)
  \/ commit_changes(t) \/ push_branch(t) \/ open_impl_pr(t) \/ post_inline_replies(t)
  \/ repo_helper(t) \/ pr_opened(t) \/ replied(t) \/ build_result(t)
  \/ emit_ready(t) \/ publish_run_failed(t) \/ TaskRaises(t)

\* The microVM ends (eight hours, or idle): its tasks and its checkout are gone.
VmEnds(s) ==
  /\ vm[s].cloned /\ Spend
  /\ vm' = [vm EXCEPT ![s] = NoVm]
  /\ task' = [t \in Tasks |-> IF Active(t) /\ task[t].in.session = s
                                THEN [task[t] EXCEPT !.pc = "dead"] ELSE task[t]]
  /\ UNCHANGED <<hvars, events, cut>>

\* Someone else pushes work of their own to the run's branch.
OthersPush ==
  /\ Impl \in DOMAIN refs /\ Spend
  /\ \E p \in Paths, x \in Contents \ {Written[t] : t \in Tasks} : Push(Impl, p, x)
  /\ UNCHANGED <<vm, task, events, cut>>

Next == \/ \E t \in Tasks : invoke(t) \/ run_implementer(t)
        \/ \E s \in Sessions : VmEnds(s)
        \/ OthersPush

Spec == Init /\ [][Next]_vars

-----------------------------------------------------------------------------
ReadyEvent(e) == e.type \in {"IMPL_PR.OPENED", "REVISION.READY"}

\* The commits were put on the run's branch, and nothing but an agent's push has
\* taken them off since.
Landed(commits) ==
  \/ Impl \in DOMAIN refs /\ Ancestor(commits, refs[Impl])
  \/ \E tip \in cut : Ancestor(commits, tip)

\* Something new of the task's has got to the run's branch.
MadeAndPushed(t) == task[t].pushed # task[t].before /\ Landed(task[t].pushed)

\* A ready event names a PR of the run's branch, and what the task made is on
\* it: of a task that had its checkout to itself and whose agent left HEAD on
\* the branch, whatever else its git did (reset, amend, push, force).
ReadyIsPushed ==
  \A e \in events : ReadyEvent(e) =>
    /\ e.pr # 0 /\ prs[e.pr].head = Impl
    /\ task[e.by].alone /\ task[e.by].home => MadeAndPushed(e.by)

\* Without the exceptions: what client.py:188-191 takes a moved HEAD for.  It
\* does not hold.  An agent that ends a revision on another branch moves HEAD,
\* and so does a second task in the checkout, and push_branch pushes neither.
MovedHeadIsPushed ==
  \A e \in events : ReadyEvent(e) => MadeAndPushed(e.by)

\* For an agent whose last word is that it is blocked, the wrapper neither
\* pushes, opens a PR nor reports ready, whatever the agent said before
\* (raise_if_blocked).  What the agent pushed by itself stays on the branch.
BlockedIsNeverReady ==
  \A t \in Tasks : task[t].said = "blocked" /\ task[t].pc # "agent" =>
    /\ task[t].pushed = <<>> /\ task[t].result = 0
    /\ \A e \in events : e.by = t => e.type = "RUN.FAILED"

\* When the ready event of a first pass cannot be published, the failure that
\* takes its place names the PR that was opened.
FailureNamesPr ==
  \A e \in events : e.type = "RUN.FAILED" /\ task[e.by].result # 0 =>
    e.pr = task[e.by].result

\* Neither a second invocation nor a reused checkout, a lost answer or someone
\* else's push ever takes a commit off a branch.  An agent's own push of the
\* run's branch is the only step that may.
BranchesOnlyGrow ==
  [][\A b \in DOMAIN refs :
       /\ b \in DOMAIN refs'
       /\ Ancestor(refs[b], refs'[b]) \/ (b = Impl /\ \E t \in Tasks : git_push(t))]_refs

\* Every task ends and completes its async task, unless its microVM does; the
\* agent's turns are bounded and everything after it is a fixed sequence.
EveryTaskEnds == \A t \in Tasks : task[t].pc = "clone" ~> ~Active(t)
=============================================================================
