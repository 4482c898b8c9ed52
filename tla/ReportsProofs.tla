--------------------------- MODULE ReportsProofs ----------------------------
(***************************************************************************)
(* Safety of Reports for every set of invocations and inputs, every set of *)
(* states of the default branch and every number of faults.                *)
(*                                                                         *)
(* A step of a thread is first put in words: where it may lead (Moves),    *)
(* what it leaves of its task (Keeps), what it may write outside it        *)
(* (Writes), and what it has done by the time it moves on (Does), each     *)
(* with one case per action.  StepKinds then splits Next into a thread's   *)
(* step, a start, the end of a microVM and a push; the invariant IInv is   *)
(* shown part by part from these words, without the actions.               *)
(***************************************************************************)
EXTENDS Reports, TLAPS

-----------------------------------------------------------------------------
(* The steps of a thread.                                                  *)

\* What follows a step, by role.
LEMMA StepOrder ==
  ASSUME NEW t \in Tasks
  PROVE  /\ Role(t) = "architect" =>
              /\ After(t, "clone") = "memory" /\ After(t, "profile") = "model"
              /\ After(t, "model") = "plan" /\ After(t, "plan") = "publish"
              /\ After(t, "publish") = "finally"
         /\ Role(t) = "triage" =>
              /\ After(t, "model") = "upload" /\ After(t, "upload") = "publish"
              /\ After(t, "publish") = "finally"
         /\ Role(t) \in Validators =>
              /\ After(t, "model") = "upload" /\ After(t, "upload") = "comment"
              /\ After(t, "comment") = "publish" /\ After(t, "publish") = "finally"
         /\ Role(t) = "proposer" =>
              /\ After(t, "model") = "comment" /\ After(t, "comment") = "issues"
              /\ After(t, "issues") = "pr" /\ After(t, "pr") = "publish"
              /\ After(t, "publish") = "finally"
  BY DEF After, Steps, Validators

TasksTyped == tasks \in [Tasks -> Task]

\* All tasks but t are as they were, and t has its input and its type.
OnlyMoves(t) ==
  /\ tasks' \in [Tasks -> Task]
  /\ \A u \in Tasks \ {t} : tasks'[u] = tasks[u]
  /\ tasks'[t].in = tasks[t].in

\* Which steps a role takes, and that the memory files are read from a clone.
RoleOfPc ==
  \A t \in Tasks :
    /\ tasks[t].pc \in {"clone", "memory", "memory_put", "profile", "plan"} => Role(t) = "architect"
    /\ tasks[t].pc = "upload" => Role(t) \in Validators \cup {"triage"}
    /\ tasks[t].pc = "comment" => Role(t) \in Validators \cup {"proposer"}
    /\ tasks[t].pc \in {"issues", "pr"} => Role(t) = "proposer"
    /\ tasks[t].pc = "failing" => Role(t) \in PublishesFailure
    /\ tasks[t].pc = "memory" => vms[Session(t)].clone \in Versions

\* Where each step may lead.
Moves(t) ==
  LET pc == tasks[t].pc
      next == tasks'[t].pc
  IN /\ pc \notin Ended
     /\ pc = "clone" => next \in {"memory", "failing"}
     /\ pc = "memory" => next \in {"memory_put", "profile"}
     /\ pc = "memory_put" => next \in {"profile", "failing"}
     /\ pc = "profile" => next \in {"model", "failing"}
     /\ pc = "model" /\ Role(t) = "architect" => next \in {"model", "plan", "failing"}
     /\ pc = "model" /\ Role(t) = "triage" => next \in {"upload", "failing"}
     /\ pc = "model" /\ Role(t) \in Validators => next \in {"model", "upload", "failing", "finally"}
     /\ pc = "model" /\ Role(t) = "proposer" => next \in {"model", "comment", "finally"}
     /\ pc = "plan" => next \in {"publish", "failing"}
     /\ pc = "upload" /\ Role(t) = "triage" => next \in {"publish", "failing"}
     /\ pc = "upload" /\ Role(t) \in Validators => next \in {"comment", "failing", "finally"}
     /\ pc = "comment" /\ Role(t) \in Validators => next = "publish"
     /\ pc = "comment" /\ Role(t) = "proposer" => next \in {"issues", "finally"}
     /\ pc = "issues" => next \in {"issues", "pr", "finally"}
     /\ pc = "pr" => next \in {"pr", "publish", "finally"}
     /\ pc = "publish" => next \in {"failing", "finally"}
     /\ pc = "failing" => next = "finally"
     /\ pc = "finally" => next = "done"
     /\ next = "failing" => Role(t) \in PublishesFailure

\* What a step leaves alone, and that an exception is not a best-effort failure.
Keeps(t) ==
  LET old == tasks[t]
      new == tasks'[t]
  IN /\ old.faults \subseteq new.faults
     /\ old.pc # "plan" => new.plan = old.plan
     /\ old.pc # "model" => new.proposal = old.proposal
     /\ old.pc # "pr" => new.pr = old.pr
     /\ old.pc # "memory" => new.body = old.body
     /\ new.pc = "failing" \/ (new.pc = "finally" /\ old.pc \notin {"publish", "failing"})
        => ~(new.faults \subseteq BestEffort)

\* A step of a task gives it a new record and leaves the others alone.
LEMMA UpdateEffect ==
  ASSUME TasksTyped, NEW t \in Tasks, NEW new \in Task, new.in = tasks[t].in,
         tasks' = [tasks EXCEPT ![t] = new]
  PROVE  OnlyMoves(t) /\ tasks'[t] = new
  BY DEF TasksTyped, OnlyMoves

\* The three ways to move on, and what the steps that set a field do.
LEMMA GotoEffect ==
  ASSUME TasksTyped, NEW t \in Tasks, NEW pc \in Pcs, Goto(t, pc),
         pc # "failing", pc = "finally" => tasks[t].pc \in {"publish", "failing"}
  PROVE  OnlyMoves(t) /\ tasks'[t].pc = pc /\ Keeps(t)
  BY DEF TasksTyped, Goto, OnlyMoves, Task, Keeps

LEMMA GoOnEffect ==
  ASSUME TasksTyped, NEW t \in Tasks, NEW pc \in Pcs, NEW fault \in Faults, GoOn(t, pc, fault),
         pc # "failing", pc = "finally" => tasks[t].pc \in {"publish", "failing"}
  PROVE  OnlyMoves(t) /\ tasks'[t].pc = pc /\ Keeps(t)
<1> DEFINE new == [tasks[t] EXCEPT !.pc = pc, !.faults = tasks[t].faults \cup {fault}]
<1>1. tasks' = [tasks EXCEPT ![t] = new]
  BY DEF GoOn
<1>2. /\ new \in Task /\ new.pc = pc /\ new.faults = tasks[t].faults \cup {fault}
      /\ new.in = tasks[t].in /\ new.plan = tasks[t].plan /\ new.proposal = tasks[t].proposal
      /\ new.body = tasks[t].body /\ new.pr = tasks[t].pr
  BY DEF TasksTyped, Task
<1> HIDE DEF new
<1> QED
  BY <1>1, <1>2, UpdateEffect DEF Keeps

LEMMA BodyEffect ==
  ASSUME TasksTyped, NEW t \in Tasks, NEW pc \in Pcs, NEW body \in Bodies \cup {NoBody},
         tasks' = [tasks EXCEPT ![t].pc = pc, ![t].body = body],
         tasks[t].pc = "memory", pc \notin {"failing", "finally"}
  PROVE  OnlyMoves(t) /\ tasks'[t].pc = pc /\ Keeps(t)
<1> DEFINE new == [tasks[t] EXCEPT !.pc = pc, !.body = body]
<1>1. tasks' = [tasks EXCEPT ![t] = new]
  OBVIOUS
<1>2. /\ new \in Task /\ new.pc = pc /\ new.body = body
      /\ new.in = tasks[t].in /\ new.plan = tasks[t].plan /\ new.proposal = tasks[t].proposal
      /\ new.pr = tasks[t].pr /\ new.faults = tasks[t].faults
  BY DEF TasksTyped, Task
<1> HIDE DEF new
<1> QED
  BY <1>1, <1>2, UpdateEffect DEF Keeps

LEMMA PlanEffect ==
  ASSUME TasksTyped, NEW t \in Tasks, NEW pc \in Pcs, NEW plan \in SUBSET Artifacts,
         tasks' = [tasks EXCEPT ![t].pc = pc, ![t].plan = plan],
         tasks[t].pc = "plan", pc \notin {"failing", "finally"}
  PROVE  OnlyMoves(t) /\ tasks'[t].pc = pc /\ Keeps(t)
<1> DEFINE new == [tasks[t] EXCEPT !.pc = pc, !.plan = plan]
<1>1. tasks' = [tasks EXCEPT ![t] = new]
  OBVIOUS
<1>2. /\ new \in Task /\ new.pc = pc /\ new.plan = plan
      /\ new.in = tasks[t].in /\ new.proposal = tasks[t].proposal /\ new.body = tasks[t].body
      /\ new.pr = tasks[t].pr /\ new.faults = tasks[t].faults
  BY DEF TasksTyped, Task
<1> HIDE DEF new
<1> QED
  BY <1>1, <1>2, UpdateEffect DEF Keeps

LEMMA ProposalEffect ==
  ASSUME TasksTyped, NEW t \in Tasks, NEW pc \in Pcs, NEW proposal \in Proposals,
         tasks' = [tasks EXCEPT ![t].pc = pc, ![t].proposal = proposal],
         tasks[t].pc = "model", pc \notin {"failing", "finally"}
  PROVE  OnlyMoves(t) /\ tasks'[t].pc = pc /\ Keeps(t)
<1> DEFINE new == [tasks[t] EXCEPT !.pc = pc, !.proposal = proposal]
<1>1. tasks' = [tasks EXCEPT ![t] = new]
  OBVIOUS
<1>2. /\ new \in Task /\ new.pc = pc /\ new.proposal = proposal
      /\ new.in = tasks[t].in /\ new.plan = tasks[t].plan /\ new.body = tasks[t].body
      /\ new.pr = tasks[t].pr /\ new.faults = tasks[t].faults
  BY DEF TasksTyped, Task
<1> HIDE DEF new
<1> QED
  BY <1>1, <1>2, UpdateEffect DEF Keeps

LEMMA RaiseEffect ==
  ASSUME TasksTyped, NEW t \in Tasks, NEW fault \in Faults \ BestEffort, Raise(t, fault)
  PROVE  /\ OnlyMoves(t) /\ Keeps(t) /\ fault \in tasks'[t].faults
         /\ tasks'[t].pc = IF Role(t) \in PublishesFailure THEN "failing" ELSE "finally"
<1> DEFINE pc == IF Role(t) \in PublishesFailure THEN "failing" ELSE "finally"
<1>1. pc \in Pcs /\ fault \in Faults
  BY DEF Pcs
<1>2. /\ OnlyMoves(t) /\ tasks'[t].pc = pc /\ tasks'[t].faults = tasks[t].faults \cup {fault}
      /\ tasks'[t].plan = tasks[t].plan /\ tasks'[t].proposal = tasks[t].proposal
      /\ tasks'[t].body = tasks[t].body /\ tasks'[t].pr = tasks[t].pr
  <2> DEFINE new == [tasks[t] EXCEPT !.pc = pc, !.faults = tasks[t].faults \cup {fault}]
  <2>1. tasks' = [tasks EXCEPT ![t] = new]
    BY DEF Raise
  <2> HIDE DEF pc
  <2>2. tasks \in [Tasks -> Task] /\ tasks[t] \in Task
    BY DEF TasksTyped
  <2>3. /\ new \in Task /\ new.in = tasks[t].in
        /\ new.pc = pc /\ new.faults = tasks[t].faults \cup {fault}
        /\ new.plan = tasks[t].plan /\ new.proposal = tasks[t].proposal
        /\ new.body = tasks[t].body /\ new.pr = tasks[t].pr
    BY <1>1, <2>2 DEF Task
  <2> HIDE DEF new
  <2> QED
    BY <2>1, <2>3, UpdateEffect
<1>3. ~(tasks'[t].faults \subseteq BestEffort)
  <2>1. fault \in tasks'[t].faults /\ fault \notin BestEffort
    BY <1>2
  <2> QED
    BY <2>1
<1> QED
  BY <1>2, <1>3 DEF Keeps

LEMMA WorkMoves ==
  ASSUME TasksTyped, RoleOfPc, NEW t \in Tasks, Work(t), store \in [Sessions -> SUBSET Artifacts],
         vms \in [Sessions -> [clone : Versions \cup {None}, open : SUBSET Tasks]]
  PROVE  OnlyMoves(t) /\ Moves(t) /\ Keeps(t)
<1>a. tasks[t].in \in Inputs /\ Session(t) \in Sessions /\ Key(t) \in Sessions
  BY DEF TasksTyped, Task, Session, Key, s3_key, Sessions
<1>b. NoProposal \in Proposals
  BY ReportsAssumption DEF NoProposal, Proposals
<1>c. Role(t) \in Roles
  BY <1>a, ReportsAssumption DEF Role, Input
<1>1. CASE clone_target_repo(t)
  <2>1. /\ tasks[t].pc = "clone"
        /\ \/ Goto(t, After(t, "clone"))
           \/ Raise(t, "clone")
    BY <1>1 DEF clone_target_repo, Proceed, invoke_repo_helper, Spend
  <2>2. Role(t) = "architect"
    BY <1>1, <2>1 DEF clone_target_repo, RoleOfPc, Validators
  <2>3. Goto(t, "memory") \/ Raise(t, "clone")
    BY <2>1, <2>2, StepOrder
  <2>4. OnlyMoves(t) /\ Keeps(t) /\ tasks'[t].pc \in {"memory", "failing"}
    BY <2>1, <2>2, <2>3, GotoEffect, GoOnEffect, RaiseEffect
    DEF Pcs, Faults, BestEffort, PublishesFailure, Validators
  <2> QED
    BY <2>1, <2>2, <2>4 DEF Moves, Ended, Validators, PublishesFailure
<1>2. CASE sync_memory_md_from_clone(t)
  <2>1. /\ tasks[t].pc = "memory"
        /\ \/ Goto(t, "profile")
           \/ \E pc \in {"profile", "memory_put"}, body \in Bodies \cup {NoBody} :
             tasks' = [tasks EXCEPT ![t].pc = pc, ![t].body = body]
    <3>1. Body[vms[Session(t)].clone] \in Bodies
      BY <1>2 DEF sync_memory_md_from_clone, RoleOfPc, Bodies
    <3> QED
      BY <1>2, <3>1 DEF sync_memory_md_from_clone
  <2>2. CASE Goto(t, "profile")
    BY <2>1, <2>2, GotoEffect DEF Pcs, Moves, Ended
  <2>3. ASSUME NEW pc \in {"profile", "memory_put"}, NEW body \in Bodies \cup {NoBody},
               tasks' = [tasks EXCEPT ![t].pc = pc, ![t].body = body]
        PROVE  OnlyMoves(t) /\ Moves(t) /\ Keeps(t)
    <3>1. pc \in Pcs
      BY DEF Pcs
    <3>2. OnlyMoves(t) /\ tasks'[t].pc = pc /\ Keeps(t)
      BY <2>1, <2>3, <3>1, BodyEffect
    <3> QED
      BY <2>1, <3>2 DEF Moves, Ended
  <2> QED
    BY <2>1, <2>2, <2>3
<1>3. CASE put_memory_md(t)
  <2>1. /\ tasks[t].pc = "memory_put"
        /\ \/ Goto(t, "profile")
           \/ GoOn(t, "profile", "sync_refused")
           \/ Raise(t, "sync_unreachable")
    BY <1>3 DEF put_memory_md, Proceed, invoke_repo_helper, Spend
  <2>2. Role(t) = "architect"
    BY <1>3, <2>1 DEF put_memory_md, RoleOfPc, Validators
  <2>3. Goto(t, "profile") \/ GoOn(t, "profile", "sync_refused") \/ Raise(t, "sync_unreachable")
    BY <2>1, <2>2, StepOrder
  <2>4. OnlyMoves(t) /\ Keeps(t) /\ tasks'[t].pc \in {"profile", "failing"}
    BY <2>1, <2>2, <2>3, GotoEffect, GoOnEffect, RaiseEffect
    DEF Pcs, Faults, BestEffort, PublishesFailure, Validators
  <2> QED
    BY <2>1, <2>2, <2>4 DEF Moves, Ended, Validators, PublishesFailure
<1>4. CASE sync_stack_profile_from_clone(t)
  <2>1. /\ tasks[t].pc = "profile"
        /\ \/ Goto(t, After(t, "profile"))
           \/ GoOn(t, "model", "sync_refused")
           \/ Raise(t, "sync_unreachable")
    BY <1>4 DEF sync_stack_profile_from_clone, Proceed, invoke_repo_helper, Spend
  <2>2. Role(t) = "architect"
    BY <1>4, <2>1 DEF sync_stack_profile_from_clone, RoleOfPc, Validators
  <2>3. Goto(t, "model") \/ GoOn(t, "model", "sync_refused") \/ Raise(t, "sync_unreachable")
    BY <2>1, <2>2, StepOrder
  <2>4. OnlyMoves(t) /\ Keeps(t) /\ tasks'[t].pc \in {"model", "failing"}
    BY <2>1, <2>2, <2>3, GotoEffect, GoOnEffect, RaiseEffect
    DEF Pcs, Faults, BestEffort, PublishesFailure, Validators
  <2> QED
    BY <2>1, <2>2, <2>4 DEF Moves, Ended, Validators, PublishesFailure
<1>5. CASE put_artifact(t)
  BY <1>5 DEF put_artifact, ArtifactTool, OnlyMoves, Moves, Keeps, TasksTyped, Ended, Validators
<1>6. CASE run_for_structured_output(t)
  <2>1. /\ tasks[t].pc = "model"
        /\ \/ \E p \in Proposals : tasks' = [tasks EXCEPT ![t].pc = After(t, "model"), ![t].proposal = p]
           \/ Raise(t, "model")
    BY <1>6, <1>b DEF run_for_structured_output, Proceed, invoke_repo_helper, Spend
  <2>2. ASSUME NEW p \in Proposals,
               tasks' = [tasks EXCEPT ![t].pc = After(t, "model"), ![t].proposal = p]
        PROVE  OnlyMoves(t) /\ Moves(t) /\ Keeps(t)
    <3>1. /\ After(t, "model") \in {"plan", "upload", "comment"}
          /\ Role(t) = "architect" => After(t, "model") = "plan"
          /\ Role(t) \in Validators \cup {"triage"} => After(t, "model") = "upload"
          /\ Role(t) = "proposer" => After(t, "model") = "comment"
      BY <1>c, StepOrder DEF Roles, Validators
    <3>2. After(t, "model") \in Pcs
      BY <3>1 DEF Pcs
    <3>3. OnlyMoves(t) /\ tasks'[t].pc = After(t, "model") /\ Keeps(t)
      BY <2>1, <2>2, <3>1, <3>2, ProposalEffect
    <3> QED
      BY <2>1, <3>1, <3>3 DEF Moves, Ended, Validators
  <2>3. CASE Raise(t, "model")
    BY <2>1, <2>3, <1>c, RaiseEffect
    DEF Faults, BestEffort, Moves, Ended, Roles, PublishesFailure, Validators
  <2> QED
    BY <2>1, <2>2, <2>3
<1>7. CASE invoke_with_fallback(t)
  <2>1. /\ tasks[t].pc = "model"
        /\ \/ Role(t) \in FallbackRoles /\ tasks' = [tasks EXCEPT ![t].model = 2]
           \/ Raise(t, "throttle")
    BY <1>7 DEF invoke_with_fallback, Proceed, invoke_repo_helper, Spend
  <2>2. CASE Role(t) \in FallbackRoles /\ tasks' = [tasks EXCEPT ![t].model = 2]
    <3>1. OnlyMoves(t) /\ tasks'[t].pc = "model" /\ Keeps(t)
      BY <2>1, <2>2 DEF TasksTyped, Task, OnlyMoves, Keeps
    <3> QED
      BY <2>1, <2>2, <3>1 DEF Moves, Ended, FallbackRoles, Validators
  <2>3. CASE Raise(t, "throttle")
    BY <2>1, <2>3, <1>c, RaiseEffect
    DEF Faults, BestEffort, Moves, Ended, Roles, PublishesFailure, Validators
  <2> QED
    BY <2>1, <2>2, <2>3
<1>8. CASE fetch_plan_body(t)
  <2>1. /\ tasks[t].pc = "plan"
        /\ \/ \E plan \in SUBSET Artifacts :
             tasks' = [tasks EXCEPT ![t].pc = After(t, "plan"), ![t].plan = plan]
           \/ Raise(t, "no_plan")
           \/ Raise(t, "plan")
    BY <1>8, <1>a DEF fetch_plan_body, Proceed, invoke_repo_helper, Spend
  <2>2. Role(t) = "architect" /\ After(t, "plan") = "publish"
    BY <2>1, StepOrder DEF RoleOfPc
  <2>3. ASSUME NEW plan \in SUBSET Artifacts,
               tasks' = [tasks EXCEPT ![t].pc = After(t, "plan"), ![t].plan = plan]
        PROVE  OnlyMoves(t) /\ Moves(t) /\ Keeps(t)
    <3>1. "publish" \in Pcs
      BY DEF Pcs
    <3>2. OnlyMoves(t) /\ tasks'[t].pc = "publish" /\ Keeps(t)
      BY <2>1, <2>2, <2>3, <3>1, PlanEffect
    <3> QED
      BY <2>1, <3>2 DEF Moves, Ended
  <2>4. CASE Raise(t, "no_plan") \/ Raise(t, "plan")
    BY <2>1, <2>2, <2>4, RaiseEffect DEF Faults, BestEffort, Moves, Ended, PublishesFailure
  <2> QED
    BY <2>1, <2>3, <2>4
<1>9. CASE upload(t)
  <2>1. /\ tasks[t].pc = "upload"
        /\ \/ Goto(t, After(t, "upload"))
           \/ Raise(t, "upload")
           \/ Role(t) # "triage" /\ GoOn(t, After(t, "upload"), "upload_refused")
    BY <1>9 DEF upload, Proceed, invoke_repo_helper, Spend
  <2>2. CASE Role(t) = "triage"
    <3>1. Goto(t, "publish") \/ Raise(t, "upload")
      BY <2>1, <2>2, StepOrder
    <3>2. OnlyMoves(t) /\ Keeps(t) /\ tasks'[t].pc \in {"publish", "failing"}
          /\ (tasks'[t].pc = "failing" => Role(t) \in PublishesFailure)
      BY <2>1, <2>2, <3>1, GotoEffect, GoOnEffect, RaiseEffect
      DEF Pcs, Faults, BestEffort, PublishesFailure, Validators
    <3> QED
      BY <2>1, <2>2, <3>2 DEF Moves, Ended, Validators, PublishesFailure
  <2>3. CASE Role(t) \in Validators
    <3>1. Goto(t, "comment") \/ Raise(t, "upload") \/ GoOn(t, "comment", "upload_refused")
      BY <2>1, <2>3, StepOrder
    <3>2. OnlyMoves(t) /\ Keeps(t) /\ tasks'[t].pc \in {"comment", "failing", "finally"}
          /\ (tasks'[t].pc = "failing" => Role(t) \in PublishesFailure)
      BY <2>1, <2>3, <3>1, GotoEffect, GoOnEffect, RaiseEffect
      DEF Pcs, Faults, BestEffort, PublishesFailure, Validators
    <3> QED
      BY <2>1, <2>3, <3>2 DEF Moves, Ended, Validators, PublishesFailure
  <2> QED
    BY <2>1, <2>2, <2>3 DEF RoleOfPc
<1>10. CASE post_pr_comment(t)
  <2>1. /\ tasks[t].pc = "comment"
        /\ \/ Goto(t, After(t, "comment"))
           \/ GoOn(t, After(t, "comment"), "comment")
    BY <1>10 DEF post_pr_comment, Proceed, invoke_repo_helper, Spend
  <2>2. Role(t) \in Validators
    BY <1>10, <2>1 DEF post_pr_comment, RoleOfPc, Validators
  <2>3. Goto(t, "publish") \/ GoOn(t, "publish", "comment")
    BY <2>1, <2>2, StepOrder
  <2>4. OnlyMoves(t) /\ Keeps(t) /\ tasks'[t].pc \in {"publish"}
    BY <2>1, <2>2, <2>3, GotoEffect, GoOnEffect, RaiseEffect
    DEF Pcs, Faults, BestEffort, PublishesFailure, Validators
  <2> QED
    BY <2>1, <2>2, <2>4 DEF Moves, Ended, Validators, PublishesFailure
<1>11. CASE post_research_comment(t)
  <2>1. /\ tasks[t].pc = "comment"
        /\ \/ Goto(t, After(t, "comment"))
           \/ Raise(t, "repo_helper")
    BY <1>11 DEF post_research_comment, Proceed, invoke_repo_helper, Spend
  <2>2. Role(t) = "proposer"
    BY <1>11, <2>1 DEF post_research_comment, RoleOfPc, Validators
  <2>3. Goto(t, "issues") \/ Raise(t, "repo_helper")
    BY <2>1, <2>2, StepOrder
  <2>4. OnlyMoves(t) /\ Keeps(t) /\ tasks'[t].pc \in {"issues", "finally"}
    BY <2>1, <2>2, <2>3, GotoEffect, GoOnEffect, RaiseEffect
    DEF Pcs, Faults, BestEffort, PublishesFailure, Validators
  <2> QED
    BY <2>1, <2>2, <2>4 DEF Moves, Ended, Validators, PublishesFailure
<1>12. CASE create_proposed_issues(t)
  <2>1. /\ tasks[t].pc = "issues"
        /\ \/ Goto(t, After(t, "issues"))
           \/ UNCHANGED tasks
           \/ Raise(t, "repo_helper")
    BY <1>12 DEF create_proposed_issues, Proceed, invoke_repo_helper, Spend
  <2>2. Role(t) = "proposer" /\ After(t, "issues") = "pr"
    BY <2>1, StepOrder DEF RoleOfPc
  <2>3. CASE Goto(t, After(t, "issues")) \/ Raise(t, "repo_helper")
    BY <2>1, <2>2, <2>3, GotoEffect, RaiseEffect
    DEF Pcs, Faults, BestEffort, Moves, Ended, PublishesFailure
  <2>4. CASE UNCHANGED tasks
    BY <2>1, <2>4 DEF TasksTyped, OnlyMoves, Keeps, Moves, Ended
  <2> QED
    BY <2>1, <2>3, <2>4
<1>13. CASE open_proposal_pr(t)
  <2>1. /\ tasks[t].pc = "pr"
        /\ \/ Goto(t, After(t, "pr"))
           \/ tasks' = [tasks EXCEPT ![t].pr = NextPrStep(tasks[t].pr)]
           \/ Raise(t, "repo_helper")
    BY <1>13 DEF open_proposal_pr, Proceed, invoke_repo_helper, Spend
  <2>2. Role(t) = "proposer" /\ After(t, "pr") = "publish"
    BY <2>1, StepOrder DEF RoleOfPc
  <2>3. CASE Goto(t, After(t, "pr")) \/ Raise(t, "repo_helper")
    BY <2>1, <2>2, <2>3, GotoEffect, RaiseEffect
    DEF Pcs, Faults, BestEffort, Moves, Ended, PublishesFailure
  <2>4. CASE tasks' = [tasks EXCEPT ![t].pr = NextPrStep(tasks[t].pr)]
    <3>1. NextPrStep(tasks[t].pr) \in {"none", "branch", "commit", "open"}
      BY DEF NextPrStep
    <3>2. OnlyMoves(t) /\ tasks'[t].pc = "pr" /\ Keeps(t)
      BY <2>1, <2>4, <3>1 DEF TasksTyped, Task, OnlyMoves, Keeps
    <3> QED
      BY <2>1, <3>2 DEF Moves, Ended
  <2> QED
    BY <2>1, <2>3, <2>4
<1>14. CASE publish_ready(t)
  <2>1. /\ tasks[t].pc = "publish"
        /\ \/ Goto(t, After(t, "publish"))
           \/ Raise(t, "publish")
    BY <1>14 DEF publish_ready, Proceed, invoke_repo_helper, Spend
  <2>2. After(t, "publish") = "finally"
    BY <1>c, StepOrder DEF Roles, Validators
  <2> QED
    BY <2>1, <2>2, GotoEffect, RaiseEffect
    DEF Pcs, Faults, BestEffort, Moves, Ended, PublishesFailure
<1>15. CASE publish_run_failed(t)
  <2>1. /\ tasks[t].pc = "failing"
        /\ \/ Goto(t, "finally")
           \/ GoOn(t, "finally", "publish_failed")
    BY <1>15 DEF publish_run_failed, Proceed, invoke_repo_helper, Spend
  <2> QED
    BY <2>1, GotoEffect, GoOnEffect DEF Pcs, Faults, Moves, Ended
<1>16. CASE complete_async_task(t)
  <2>1. /\ tasks[t].pc = "finally"
        /\ \/ Goto(t, "done")
    BY <1>16 DEF complete_async_task, Proceed, invoke_repo_helper, Spend
  <2> QED
    BY <2>1, GotoEffect, GoOnEffect DEF Pcs, Faults, Moves, Ended
<1>17. CASE write_memory_md(t)
  BY <1>17 DEF write_memory_md, ArtifactTool, OnlyMoves, Moves, Keeps, TasksTyped, Ended, Validators
<1>18. CASE call_repo_helper(t)
  BY <1>18 DEF call_repo_helper, RepoHelperTool, OnlyMoves, Moves, Keeps, TasksTyped, Ended,
               Validators
<1> QED
  BY <1>1, <1>2, <1>3, <1>4, <1>5, <1>6, <1>7, <1>8, <1>9, <1>10, <1>11, <1>12, <1>13, <1>14,
     <1>15, <1>16, <1>17, <1>18
  DEF Work

\* What a thread's step may write outside its task.
Writes(t) ==
  LET pc == tasks[t].pc
  IN /\ main' = main
     /\ \/ snapshot' = snapshot
        \/ pc = "memory_put" /\ snapshot' = tasks[t].body
        \/ /\ pc = "model" /\ snapshot' = Written
           /\ posts' = [posts EXCEPT ![t].memory = TRUE]
     /\ profile' = profile \/ (pc = "profile" /\ profile' = vms[Session(t)].clone)
     /\ \/ store' = store
        \/ /\ pc = "upload" \/ (pc = "model" /\ Role(t) \in ArtifactTool)
           /\ store' = [store EXCEPT ![Key(t)] = {<<t, tasks[t].model>>}]
     /\ \/ posts' = posts
        \/ pc = "comment" /\ posts' = Commented(t)
        \/ /\ pc = "issues" /\ posts[t].issues < tasks[t].proposal.issues
           /\ posts' = [posts EXCEPT ![t].issues = @ + 1]
        \/ /\ pc = "model" /\ snapshot' = Written
           /\ posts' = [posts EXCEPT ![t].memory = TRUE]
        \/ pc = "model" /\ posts' = [posts EXCEPT ![t].tools = @ \cup {tasks[t].model}]
     /\ \/ prs' = prs
        \/ /\ pc = "pr"
           /\ prs' = [prs EXCEPT ![tasks[t].in.run] = @ \cup {<<NextPrStep(tasks[t].pr), t>>}]
     /\ \/ events' = events
        \/ pc = "publish" /\ events' = events \cup {Event(t, ReadyType(Role(t)))}
        \/ pc = "failing" /\ events' = events \cup {Event(t, "RUN.FAILED")}
     /\ \/ vms' = vms
        \/ pc = "clone" /\ vms' = [vms EXCEPT ![Session(t)].clone = main]
        \/ pc = "finally" /\ vms' = [vms EXCEPT ![Session(t)].open = @ \ {t}]
     /\ pc = "finally" => vms' = [vms EXCEPT ![Session(t)].open = @ \ {t}]
     /\ left' = left \/ Spend

LEMMA WorkWrites ==
  ASSUME NEW t \in Tasks, Work(t)
  PROVE  Writes(t)
<1>1. CASE clone_target_repo(t)
  BY <1>1 DEF clone_target_repo, Writes, world, Spend, invoke_repo_helper
<1>2. CASE sync_memory_md_from_clone(t)
  BY <1>2 DEF sync_memory_md_from_clone, Writes, world, Spend, invoke_repo_helper
<1>3. CASE put_memory_md(t)
  BY <1>3 DEF put_memory_md, Writes, world, Spend, invoke_repo_helper
<1>4. CASE sync_stack_profile_from_clone(t)
  BY <1>4 DEF sync_stack_profile_from_clone, Writes, world, Spend, invoke_repo_helper
<1>5. CASE put_artifact(t)
  BY <1>5 DEF put_artifact, Writes, world, Spend, invoke_repo_helper
<1>6. CASE run_for_structured_output(t)
  BY <1>6 DEF run_for_structured_output, Writes, world, Spend, invoke_repo_helper
<1>7. CASE invoke_with_fallback(t)
  BY <1>7 DEF invoke_with_fallback, Writes, world, Spend, invoke_repo_helper
<1>8. CASE fetch_plan_body(t)
  BY <1>8 DEF fetch_plan_body, Writes, world, Spend, invoke_repo_helper
<1>9. CASE upload(t)
  BY <1>9 DEF upload, Writes, world, Spend, invoke_repo_helper
<1>10. CASE post_pr_comment(t)
  BY <1>10 DEF post_pr_comment, Writes, world, Spend, invoke_repo_helper
<1>11. CASE post_research_comment(t)
  BY <1>11 DEF post_research_comment, Writes, world, Spend, invoke_repo_helper
<1>12. CASE create_proposed_issues(t)
  BY <1>12 DEF create_proposed_issues, Writes, world, Spend, invoke_repo_helper
<1>13. CASE open_proposal_pr(t)
  BY <1>13 DEF open_proposal_pr, Writes, world, Spend, invoke_repo_helper
<1>14. CASE publish_ready(t)
  BY <1>14 DEF publish_ready, Writes, world, Spend, invoke_repo_helper
<1>15. CASE publish_run_failed(t)
  BY <1>15 DEF publish_run_failed, Writes, world, Spend, invoke_repo_helper
<1>16. CASE complete_async_task(t)
  BY <1>16 DEF complete_async_task, Writes, world, Spend, invoke_repo_helper
<1>17. CASE write_memory_md(t)
  BY <1>17 DEF write_memory_md, Writes
<1>18. CASE call_repo_helper(t)
  BY <1>18 DEF call_repo_helper, Writes
<1> QED
  BY <1>1, <1>2, <1>3, <1>4, <1>5, <1>6, <1>7, <1>8, <1>9, <1>10, <1>11, <1>12, <1>13, <1>14,
     <1>15, <1>16, <1>17, <1>18
  DEF Work

\* What a thread has done when it moves on.
Does(t) ==
  LET old == tasks[t]
      new == tasks'[t]
      clone == vms[Session(t)].clone
  IN /\ old.pc = "memory" /\ new.pc = "profile"
        => Body[clone] = NoBody \/ snapshot = Body[clone]
     /\ old.pc = "clone" /\ new.pc = "memory"
        => vms' = [vms EXCEPT ![Session(t)].clone = main]
     /\ old.pc = "memory" /\ new.pc = "memory_put" => new.body = Body[clone]
     /\ old.pc = "memory_put" /\ new.pc = "profile"
        => snapshot' = old.body \/ "sync_refused" \in new.faults
     /\ old.pc = "profile" /\ new.pc = "model" => profile' = clone \/ "sync_refused" \in new.faults
     /\ old.pc = "plan" /\ new.pc = "publish" => new.plan = store[Key(t)] /\ store[Key(t)] # {}
     /\ old.pc = "plan" => new.plan \in {old.plan, store[Key(t)]}
     /\ old.pc = "upload" /\ new.pc \in {"comment", "publish"}
        => \/ store' = [store EXCEPT ![Key(t)] = {<<t, old.model>>}]
           \/ "upload_refused" \in new.faults
     /\ old.pc = "comment" /\ new.pc = "issues" /\ old.proposal.comment => posts' = Commented(t)
     /\ old.pc = "issues" /\ new.pc = "pr" => ~(posts[t].issues < old.proposal.issues)
     /\ old.pc = "pr" /\ new.pc = "publish" /\ old.proposal.edits => old.pr = "open"
     /\ old.pc = "pr" =>
          \/ new.pr = old.pr
          \/ /\ new.pr = NextPrStep(old.pr)
             /\ prs' = [prs EXCEPT ![old.in.run] = @ \cup {<<new.pr, t>>}]
     /\ old.pc = "publish" =>
          \/ "publish" \in new.faults
          \/ new.pc = "finally" /\ events' = events \cup {Event(t, ReadyType(Role(t)))}
     /\ old.pc = "finally" => new.faults = old.faults

LEMMA WorkDoes ==
  ASSUME TasksTyped, NEW t \in Tasks, Work(t)
  PROVE  Does(t)
<1>1. CASE clone_target_repo(t)
  BY <1>1
  DEF clone_target_repo, Does, Goto, GoOn, Raise, Proceed, invoke_repo_helper, TasksTyped, Task
<1>2. CASE sync_memory_md_from_clone(t)
  <2> DEFINE body == Body[vms[Session(t)].clone]
  <2>1. tasks[t].pc = "memory"
    BY <1>2 DEF sync_memory_md_from_clone
  <2>2. \/ body = NoBody
        \/ /\ body # NoBody
           /\ tasks' = [tasks EXCEPT ![t].pc = "profile", ![t].body = body]
           /\ snapshot = body
        \/ /\ body # NoBody
           /\ tasks' = [tasks EXCEPT ![t].pc = "memory_put", ![t].body = body]
    BY <1>2 DEF sync_memory_md_from_clone, existing_object_matches
  <2>3. body = NoBody => tasks'[t].pc = "profile"
    BY <1>2 DEF sync_memory_md_from_clone, Goto, TasksTyped, Task
  <2>4. body # NoBody => \/ tasks'[t].pc = "profile" /\ snapshot = body
                         \/ tasks'[t].pc = "memory_put" /\ tasks'[t].body = body
    BY <2>2 DEF TasksTyped, Task
  <2> QED
    BY <2>1, <2>3, <2>4 DEF Does
<1>3. CASE put_memory_md(t)
  BY <1>3
  DEF put_memory_md, Does, Goto, GoOn, Raise, Proceed, invoke_repo_helper, TasksTyped, Task
<1>4. CASE sync_stack_profile_from_clone(t)
  BY <1>4
  DEF sync_stack_profile_from_clone, Does, Goto, GoOn, Raise, Proceed, invoke_repo_helper,
      TasksTyped, Task
<1>5. CASE put_artifact(t)
  BY <1>5
  DEF put_artifact, Does, Goto, GoOn, Raise, Proceed, invoke_repo_helper, TasksTyped, Task
<1>6. CASE run_for_structured_output(t)
  BY <1>6
  DEF run_for_structured_output, Does, Goto, GoOn, Raise, Proceed, invoke_repo_helper,
      TasksTyped, Task
<1>7. CASE invoke_with_fallback(t)
  BY <1>7
  DEF invoke_with_fallback, Does, Goto, GoOn, Raise, Proceed, invoke_repo_helper, TasksTyped,
      Task
<1>8. CASE fetch_plan_body(t)
  BY <1>8
  DEF fetch_plan_body, Does, Goto, GoOn, Raise, Proceed, invoke_repo_helper, TasksTyped, Task
<1>9. CASE upload(t)
  BY <1>9 DEF upload, Does, Goto, GoOn, Raise, Proceed, invoke_repo_helper, TasksTyped, Task
<1>10. CASE post_pr_comment(t)
  <2>1. /\ tasks[t].pc = "comment" /\ Role(t) \in Validators
        /\ \/ Goto(t, After(t, "comment"))
           \/ GoOn(t, After(t, "comment"), "comment")
    BY <1>10 DEF post_pr_comment, Proceed
  <2>2. tasks'[t].pc = "publish"
    BY <2>1, StepOrder DEF Goto, GoOn, TasksTyped, Task
  <2> QED
    BY <2>1, <2>2 DEF Does
<1>11. CASE post_research_comment(t)
  BY <1>11
  DEF post_research_comment, Does, Goto, GoOn, Raise, Proceed, invoke_repo_helper, TasksTyped,
      Task
<1>12. CASE create_proposed_issues(t)
  BY <1>12
  DEF create_proposed_issues, Does, Goto, GoOn, Raise, Proceed, invoke_repo_helper, TasksTyped,
      Task
<1>13. CASE open_proposal_pr(t)
  BY <1>13
  DEF open_proposal_pr, Does, Goto, GoOn, Raise, Proceed, invoke_repo_helper, TasksTyped, Task
<1>14. CASE publish_ready(t)
  <2>1. /\ tasks[t].pc = "publish"
        /\ \/ /\ Goto(t, After(t, "publish"))
              /\ events' = events \cup {Event(t, ReadyType(Role(t)))}
           \/ Raise(t, "publish")
    BY <1>14 DEF publish_ready, Proceed
  <2>2. Role(t) \in Roles
    BY ReportsAssumption DEF Role, TasksTyped, Task, Input
  <2>3. After(t, "publish") = "finally"
    BY <2>2, StepOrder DEF Roles, Validators
  <2>4. CASE Raise(t, "publish")
    BY <2>1, <2>4 DEF Does, Raise, TasksTyped, Task
  <2>5. CASE /\ Goto(t, After(t, "publish"))
             /\ events' = events \cup {Event(t, ReadyType(Role(t)))}
    BY <2>1, <2>3, <2>5 DEF Does, Goto, TasksTyped, Task
  <2> QED
    BY <2>1, <2>4, <2>5
<1>15. CASE publish_run_failed(t)
  BY <1>15
  DEF publish_run_failed, Does, Goto, GoOn, Raise, Proceed, invoke_repo_helper, TasksTyped, Task
<1>16. CASE complete_async_task(t)
  BY <1>16
  DEF complete_async_task, Does, Goto, GoOn, Raise, Proceed, invoke_repo_helper, TasksTyped,
      Task
<1>17. CASE write_memory_md(t)
  BY <1>17 DEF write_memory_md, Does
<1>18. CASE call_repo_helper(t)
  BY <1>18 DEF call_repo_helper, Does
<1> QED
  BY <1>1, <1>2, <1>3, <1>4, <1>5, <1>6, <1>7, <1>8, <1>9, <1>10, <1>11, <1>12, <1>13, <1>14,
     <1>15, <1>16, <1>17, <1>18
  DEF Work

Worked(u) == OnlyMoves(u) /\ Moves(u) /\ Keeps(u) /\ Writes(u) /\ Does(u)

\* The task that an invocation starts.
Begun(u, in) ==
  LET old == tasks[u]
      new == tasks'[u]
  IN /\ old.pc = "idle" /\ new.in = in
     /\ new.pc \in {"clone", "model"} /\ (new.pc = "clone" <=> in.role = "architect")
     /\ new.plan = old.plan /\ new.proposal = old.proposal /\ new.pr = old.pr
     /\ new.faults = old.faults /\ new.body = old.body
     /\ \A t \in Tasks \ {u} : tasks'[t] = tasks[t]
     /\ vms' = [vms EXCEPT ![session_id_for(in)].open = @ \cup {u}]

\* What the end of a thread leaves of its task.
Died(t) ==
  LET old == tasks[t]
      new == tasks'[t]
  IN /\ new.pc = "dead" /\ old.faults \subseteq new.faults /\ new.in = old.in
     /\ new.plan = old.plan /\ new.proposal = old.proposal /\ new.pr = old.pr /\ new.body = old.body

\* The end of a microVM.
Emptied(s) ==
  /\ \A t \in Tasks : IF Active(t) /\ Session(t) = s THEN Died(t) ELSE tasks'[t] = tasks[t]
  /\ vms' = [vms EXCEPT ![s] = NoVm]

Quiet == UNCHANGED <<snapshot, profile, store, posts, prs, events>>

\* Every step, in the words above.
LEMMA StepKinds ==
  ASSUME TypeOK, RoleOfPc, Next
  PROVE  \/ \E u \in Tasks : Worked(u)
         \/ /\ Quiet /\ tasks' \in [Tasks -> Task] /\ main' = main /\ left' = left
            /\ \E u \in Tasks, in \in Inputs : Begun(u, in)
         \/ /\ Quiet /\ tasks' \in [Tasks -> Task] /\ main' = main /\ (left' = left \/ Spend)
            /\ \E s \in Sessions : Emptied(s)
         \/ Quiet /\ UNCHANGED <<tasks, vms>> /\ Spend /\ main' \in Versions
<1>1. TasksTyped
  BY DEF TypeOK, TasksTyped
<1>2. ASSUME NEW u \in Tasks, Work(u)
      PROVE  Worked(u)
  <2>1. /\ store \in [Sessions -> SUBSET Artifacts]
        /\ vms \in [Sessions -> [clone : Versions \cup {None}, open : SUBSET Tasks]]
    BY DEF TypeOK
  <2> QED
    BY <1>1, <1>2, <2>1, WorkMoves, WorkWrites, WorkDoes DEF Worked
<1>3. ASSUME NEW u \in Tasks, NEW in \in Inputs, handler(u, in)
      PROVE  Quiet /\ tasks' \in [Tasks -> Task] /\ main' = main /\ left' = left /\ Begun(u, in)
  <2>1. FirstStep(in.role) \in {"clone", "model"} /\ (FirstStep(in.role) = "clone" <=> in.role = "architect")
    BY DEF FirstStep
  <2>2. FirstStep(in.role) \in Pcs
    BY <2>1 DEF Pcs
  <2> QED
    BY <1>1, <1>3, <2>1, <2>2 DEF handler, Quiet, Begun, TasksTyped, Task
<1>4. ASSUME NEW s \in Sessions, NEW why \in SUBSET Faults, VmEnds(s, why)
      PROVE  Quiet /\ tasks' \in [Tasks -> Task] /\ main' = main /\ Emptied(s)
  <2>1. "dead" \in Pcs
    BY DEF Pcs, Ended
  <2>2. tasks' \in [Tasks -> Task]
    <3>1. \A t \in Tasks : [tasks[t] EXCEPT !.pc = "dead", !.faults = @ \cup why] \in Task
      <4> TAKE t \in Tasks
      <4>1. tasks[t] \in Task
        BY <1>1 DEF TasksTyped
      <4>2. tasks[t].faults \cup why \in SUBSET Faults
        BY <4>1 DEF Task
      <4> QED
        BY <2>1, <4>1, <4>2 DEF Task
    <3> QED
      BY <1>1, <1>4, <3>1 DEF VmEnds, TasksTyped
  <2>3. \A t \in Tasks : IF Active(t) /\ Session(t) = s THEN Died(t) ELSE tasks'[t] = tasks[t]
    BY <1>1, <1>4 DEF VmEnds, TasksTyped, Task, Died
  <2> QED
    BY <1>4, <2>2, <2>3 DEF VmEnds, Quiet, Emptied
<1>5. ASSUME NEW s \in Sessions, IdleTimeout(s) \/ VmKilled(s)
      PROVE  /\ Quiet /\ tasks' \in [Tasks -> Task] /\ main' = main /\ (left' = left \/ Spend)
             /\ Emptied(s)
  <2>1. {} \in SUBSET Faults /\ {"killed"} \in SUBSET Faults
    BY DEF Faults
  <2> QED
    BY <1>4, <1>5, <2>1 DEF IdleTimeout, VmKilled
<1>6. ASSUME PushToMain
      PROVE  Quiet /\ UNCHANGED <<tasks, vms>> /\ Spend /\ main' \in Versions
  BY <1>6 DEF PushToMain, Quiet
<1> QED
  BY <1>2, <1>3, <1>5, <1>6 DEF Next

-----------------------------------------------------------------------------
(* Types, and which steps a role takes.                                    *)

OpenIsRunning ==
  \A s \in Sessions : vms[s].open = {t \in Tasks : Active(t) /\ Session(t) = s}

EventsTyped == \A e \in events : e.by \in Tasks

WorldTyped ==
  /\ main \in Versions /\ profile \in Versions \cup {None}
  /\ snapshot \in Bodies \cup {NoBody, Written}
  /\ store \in [Sessions -> SUBSET Artifacts]
  /\ posts \in [Tasks -> Posts]
  /\ prs \in [{in.run : in \in Inputs} -> SUBSET ({"branch", "commit", "open"} \X Tasks)]
  /\ vms \in [Sessions -> [clone : Versions \cup {None}, open : SUBSET Tasks]]

LEMMA TypeParts ==
  TypeOK <=> WorldTyped /\ TasksTyped /\ left \in Nat /\ EventsTyped /\ OpenIsRunning
  BY DEF TypeOK, WorldTyped, TasksTyped, EventsTyped, OpenIsRunning

\* A task's input, keys and artifact are of their types.
LEMMA KeysTyped ==
  ASSUME TasksTyped, NEW t \in Tasks
  PROVE  /\ tasks[t].in \in Inputs /\ Role(t) \in Roles /\ Session(t) \in Sessions
         /\ Key(t) \in Sessions /\ {<<t, tasks[t].model>>} \in SUBSET Artifacts
<1>1. tasks[t].in \in Inputs /\ tasks[t].model \in {1, 2}
  BY DEF TasksTyped, Task
<1> QED
  BY <1>1, ReportsAssumption DEF Role, Input, Session, Key, s3_key, Sessions, Artifacts

LEMMA WorkTyped ==
  ASSUME WorldTyped, TasksTyped, EventsTyped, NEW u \in Tasks, Writes(u)
  PROVE  WorldTyped' /\ EventsTyped'
<1>1. /\ tasks[u].in \in Inputs /\ Session(u) \in Sessions /\ Key(u) \in Sessions
      /\ {<<u, tasks[u].model>>} \in SUBSET Artifacts
  BY KeysTyped
<1>2. tasks[u].body \in Bodies \cup {NoBody} /\ tasks[u].model \in {1, 2}
  BY DEF TasksTyped, Task
<1>3. /\ main' \in Versions /\ profile' \in Versions \cup {None}
      /\ snapshot' \in Bodies \cup {NoBody, Written}
  BY <1>1, <1>2 DEF Writes, WorldTyped
<1>4. store' \in [Sessions -> SUBSET Artifacts]
  BY <1>1 DEF Writes, WorldTyped
<1>5. posts' \in [Tasks -> Posts]
  <2>1. posts \in [Tasks -> Posts]
    BY DEF WorldTyped
  <2> DEFINE old == posts[u]
  <2>a. old \in Posts
    BY <2>1
  <2>b. /\ old.comments + 1 \in Nat /\ old.issues + 1 \in Nat
        /\ old.tools \cup {tasks[u].model} \in SUBSET {1, 2}
    BY <1>2, <2>a DEF Posts
  <2>2. /\ [old EXCEPT !.comments = @ + 1] \in Posts /\ [old EXCEPT !.issues = @ + 1] \in Posts
        /\ [old EXCEPT !.memory = TRUE] \in Posts
        /\ [old EXCEPT !.tools = @ \cup {tasks[u].model}] \in Posts
    <3> HIDE DEF old
    <3> QED
      BY <2>a, <2>b DEF Posts
  <2>3. \/ posts' = posts
        \/ posts' = [posts EXCEPT ![u] = [old EXCEPT !.comments = @ + 1]]
        \/ posts' = [posts EXCEPT ![u] = [old EXCEPT !.issues = @ + 1]]
        \/ posts' = [posts EXCEPT ![u] = [old EXCEPT !.memory = TRUE]]
        \/ posts' = [posts EXCEPT ![u] = [old EXCEPT !.tools = @ \cup {tasks[u].model}]]
    BY DEF Writes, Commented
  <2> HIDE DEF old
  <2> QED
    BY <2>1, <2>2, <2>3
<1>6. prs' \in [{in.run : in \in Inputs} -> SUBSET ({"branch", "commit", "open"} \X Tasks)]
  <2>1. tasks[u].in.run \in {in.run : in \in Inputs}
    BY <1>1
  <2>2. <<NextPrStep(tasks[u].pr), u>> \in {"branch", "commit", "open"} \X Tasks
    BY DEF NextPrStep
  <2>3. \/ prs' = prs
        \/ prs' = [prs EXCEPT ![tasks[u].in.run] = @ \cup {<<NextPrStep(tasks[u].pr), u>>}]
    BY DEF Writes
  <2>4. prs \in [{in.run : in \in Inputs} -> SUBSET ({"branch", "commit", "open"} \X Tasks)]
    BY DEF WorldTyped
  <2> QED
    BY <2>1, <2>2, <2>3, <2>4
<1>7. vms' \in [Sessions -> [clone : Versions \cup {None}, open : SUBSET Tasks]]
  <2>1. \/ vms' = vms
        \/ vms' = [vms EXCEPT ![Session(u)].clone = main]
        \/ vms' = [vms EXCEPT ![Session(u)].open = @ \ {u}]
    BY DEF Writes
  <2>2. main \in Versions /\ vms \in [Sessions -> [clone : Versions \cup {None}, open : SUBSET Tasks]]
    BY DEF WorldTyped
  <2> QED
    BY <2>1, <2>2, <1>1
<1>8. EventsTyped'
  BY DEF Writes, EventsTyped, Event
<1> QED
  BY <1>3, <1>4, <1>5, <1>6, <1>7, <1>8 DEF WorldTyped

\* A thread ends after its finally clause only.
LEMMA MovesOn ==
  ASSUME RoleOfPc, NEW u \in Tasks, Moves(u), Role(u) \in Roles, tasks[u].pc \in Pcs
  PROVE  tasks[u].pc \notin Ended /\ (tasks'[u].pc \notin Ended <=> tasks[u].pc # "finally")
<1> DEFINE pc == tasks[u].pc
<1>1. pc \notin Ended
  BY DEF Moves
<1>2. CASE pc \in {"clone", "memory", "memory_put", "profile", "plan", "issues", "pr", "publish",
                   "failing", "finally"}
  BY <1>2 DEF Moves, Ended
<1>3. CASE pc \in {"model", "upload", "comment"}
  <2>1. tasks'[u].pc \notin Ended
    BY <1>3 DEF Moves, Ended, Roles, Validators, RoleOfPc
  <2> QED
    BY <1>1, <1>3, <2>1
<1> QED
  BY <1>1, <1>2, <1>3 DEF Pcs

LEMMA WorkOpen ==
  ASSUME WorldTyped, TasksTyped, RoleOfPc, OpenIsRunning, NEW u \in Tasks, Worked(u)
  PROVE  OpenIsRunning'
<1>1. Session(u) \in Sessions
  BY KeysTyped
<1>2. \A t \in Tasks : Session(t)' = Session(t)
  BY DEF Session, Worked, OnlyMoves
<1>3. \A t \in Tasks \ {u} : Active(t)' = Active(t)
  BY DEF Active, Worked, OnlyMoves
<1>4. Active(u) /\ (Active(u)' <=> tasks[u].pc # "finally")
  <2>1. Moves(u)
    BY DEF Worked
  <2>2. tasks'[u].pc \in Pcs /\ tasks[u].pc \in Pcs /\ Role(u) \in Roles
    BY KeysTyped DEF Worked, OnlyMoves, TasksTyped, Task
  <2> QED
    BY <2>1, <2>2, MovesOn DEF Active
<1>5. CASE tasks[u].pc = "finally"
  <2>1. vms' = [vms EXCEPT ![Session(u)].open = @ \ {u}]
    BY <1>5 DEF Worked, Writes
  <2>2. \A s \in Sessions : vms'[s].open = IF s = Session(u) THEN vms[s].open \ {u} ELSE vms[s].open
    BY <2>1, <1>1 DEF WorldTyped
  <2> SUFFICES ASSUME NEW s \in Sessions
               PROVE  vms'[s].open = {t \in Tasks : Active(t)' /\ Session(t)' = s}
    BY DEF OpenIsRunning
  <2>3. vms[s].open = {t \in Tasks : Active(t) /\ Session(t) = s}
    BY DEF OpenIsRunning
  <2> QED
    BY <2>2, <2>3, <1>2, <1>3, <1>4, <1>5
<1>6. CASE tasks[u].pc # "finally"
  <2>1. \A s \in Sessions : vms'[s].open = vms[s].open
    BY <1>1, <1>6 DEF Worked, Writes, WorldTyped
  <2> QED
    BY <2>1, <1>2, <1>3, <1>4, <1>6 DEF OpenIsRunning, Active, Session
<1> QED
  BY <1>5, <1>6

LEMMA BegunOpen ==
  ASSUME WorldTyped, TasksTyped, OpenIsRunning, NEW u \in Tasks, NEW in \in Inputs, Begun(u, in)
  PROVE  /\ OpenIsRunning'
         /\ vms' \in [Sessions -> [clone : Versions \cup {None}, open : SUBSET Tasks]]
<1>1. session_id_for(in) \in Sessions
  BY DEF Sessions
<1>2. \A t \in Tasks \ {u} : Session(t)' = Session(t) /\ Active(t)' = Active(t)
  BY DEF Session, Begun, Active
<1>3. Session(u)' = session_id_for(in) /\ Active(u)' /\ ~Active(u)
  BY DEF Session, Begun, Active, Ended
<1>4. \A s \in Sessions : vms'[s].open = IF s = session_id_for(in) THEN vms[s].open \cup {u}
                                                                  ELSE vms[s].open
  BY <1>1 DEF Begun, WorldTyped
<1>5. OpenIsRunning'
  <2> SUFFICES ASSUME NEW s \in Sessions
               PROVE  vms'[s].open = {t \in Tasks : Active(t)' /\ Session(t)' = s}
    BY DEF OpenIsRunning
  <2>1. vms[s].open = {t \in Tasks : Active(t) /\ Session(t) = s}
    BY DEF OpenIsRunning
  <2> QED
    BY <2>1, <1>2, <1>3, <1>4
<1>6. vms' \in [Sessions -> [clone : Versions \cup {None}, open : SUBSET Tasks]]
  BY <1>1 DEF Begun, WorldTyped
<1> QED
  BY <1>5, <1>6

LEMMA EmptiedOpen ==
  ASSUME WorldTyped, TasksTyped, OpenIsRunning, NEW s \in Sessions, Emptied(s)
  PROVE  /\ OpenIsRunning'
         /\ vms' \in [Sessions -> [clone : Versions \cup {None}, open : SUBSET Tasks]]
<1>1. \A t \in Tasks : /\ Session(t)' = Session(t)
                       /\ (Active(t)' <=> Active(t) /\ Session(t) # s)
  BY DEF Session, Emptied, Died, Active, Ended
<1>2. \A r \in Sessions : vms'[r].open = IF r = s THEN {} ELSE vms[r].open
  BY DEF Emptied, WorldTyped, NoVm
<1>3. OpenIsRunning'
  <2> SUFFICES ASSUME NEW r \in Sessions
               PROVE  vms'[r].open = {t \in Tasks : Active(t)' /\ Session(t)' = r}
    BY DEF OpenIsRunning
  <2>1. vms[r].open = {t \in Tasks : Active(t) /\ Session(t) = r}
    BY DEF OpenIsRunning
  <2>2. CASE r = s
    <3>1. \A t \in Tasks : ~(Active(t)' /\ Session(t)' = s)
      BY <1>1
    <3> QED
      BY <2>2, <3>1, <1>2
  <2>3. CASE r # s
    <3>1. \A t \in Tasks : Active(t)' /\ Session(t)' = r <=> Active(t) /\ Session(t) = r
      BY <1>1, <2>3
    <3> QED
      BY <2>1, <2>3, <3>1, <1>2
  <2> QED
    BY <2>2, <2>3
<1>4. vms' \in [Sessions -> [clone : Versions \cup {None}, open : SUBSET Tasks]]
  BY DEF Emptied, WorldTyped, NoVm
<1> QED
  BY <1>3, <1>4

LEMMA TypeStep ==
  ASSUME TypeOK, RoleOfPc, [Next]_vars
  PROVE  TypeOK'
<1>1. WorldTyped /\ TasksTyped /\ left \in Nat /\ EventsTyped /\ OpenIsRunning
  BY TypeParts
<1>2. CASE \E u \in Tasks : Worked(u)
  <2> PICK u \in Tasks : Worked(u)
    BY <1>2
  <2>1. WorldTyped' /\ EventsTyped'
    BY <1>1, WorkTyped DEF Worked
  <2>2. OpenIsRunning'
    BY <1>1, WorkOpen
  <2>3. TasksTyped' /\ left' \in Nat
    BY <1>1 DEF Worked, OnlyMoves, TasksTyped, Writes, Spend
  <2> QED
    BY <2>1, <2>2, <2>3, TypeParts
    DEF TypeOK, WorldTyped, TasksTyped, EventsTyped, OpenIsRunning
<1>3. ASSUME Quiet, tasks' \in [Tasks -> Task], main' \in Versions, left' = left \/ Spend,
             OpenIsRunning',
             vms' \in [Sessions -> [clone : Versions \cup {None}, open : SUBSET Tasks]]
      PROVE  TypeOK'
  <2>1. WorldTyped' /\ EventsTyped' /\ TasksTyped' /\ left' \in Nat
    BY <1>1, <1>3 DEF WorldTyped, EventsTyped, TasksTyped, Quiet, Spend
  <2> QED
    BY <2>1, <1>3 DEF TypeOK, WorldTyped, TasksTyped, EventsTyped, OpenIsRunning
<1>4. main \in Versions
  BY <1>1 DEF WorldTyped
<1>5. CASE /\ Quiet /\ tasks' \in [Tasks -> Task] /\ main' = main /\ left' = left
           /\ \E u \in Tasks, in \in Inputs : Begun(u, in)
  BY <1>1, <1>3, <1>4, <1>5, BegunOpen
<1>6. CASE /\ Quiet /\ tasks' \in [Tasks -> Task] /\ main' = main /\ (left' = left \/ Spend)
           /\ \E s \in Sessions : Emptied(s)
  BY <1>1, <1>3, <1>4, <1>6, EmptiedOpen
<1>7. CASE Quiet /\ UNCHANGED <<tasks, vms>> /\ Spend /\ main' \in Versions
  <2>1. OpenIsRunning'
    BY <1>1, <1>7 DEF OpenIsRunning, Active, Session
  <2> QED
    BY <1>1, <1>3, <1>7, <2>1 DEF TasksTyped, WorldTyped
<1>8. CASE UNCHANGED vars
  <2>1. OpenIsRunning'
    BY <1>1, <1>8 DEF OpenIsRunning, Active, Session, vars
  <2> QED
    BY <1>1, <1>3, <1>4, <1>8, <2>1 DEF TasksTyped, WorldTyped, vars, Quiet
<1> QED
  BY <1>2, <1>5, <1>6, <1>7, <1>8, StepKinds

LEMMA RoleStep ==
  ASSUME TypeOK, RoleOfPc, [Next]_vars
  PROVE  RoleOfPc'
<1>1. TasksTyped
  BY TypeParts
<1>b. /\ vms \in [Sessions -> [clone : Versions \cup {None}, open : SUBSET Tasks]]
       /\ main \in Versions
  BY TypeParts DEF WorldTyped
<1>2. CASE \E u \in Tasks : Worked(u)
  <2> PICK u \in Tasks : Worked(u)
    BY <1>2
  <2>1. \A t \in Tasks : Role(t)' = Role(t)
    BY DEF Worked, OnlyMoves, Role
  <2>2. Role(u) \in Roles /\ tasks[u].pc \in Pcs
    BY <1>1, KeysTyped DEF TasksTyped, Task
  <2>3. /\ tasks'[u].pc \in {"clone", "memory", "memory_put", "profile", "plan"} => Role(u) = "architect"
        /\ tasks'[u].pc = "upload" => Role(u) \in Validators \cup {"triage"}
        /\ tasks'[u].pc = "comment" => Role(u) \in Validators \cup {"proposer"}
        /\ tasks'[u].pc \in {"issues", "pr"} => Role(u) = "proposer"
        /\ tasks'[u].pc = "failing" => Role(u) \in PublishesFailure
    BY <2>2 DEF Worked, Moves, RoleOfPc, Pcs, Ended, Roles, Validators
  <2>4. \A t \in Tasks \ {u} : tasks'[t] = tasks[t]
    BY DEF Worked, OnlyMoves
  <2>5. \A t \in Tasks : tasks'[t].pc = "memory" => vms'[Session(t)'].clone \in Versions
    <3> SUFFICES ASSUME NEW t \in Tasks, tasks'[t].pc = "memory"
                 PROVE  vms'[Session(t)'].clone \in Versions
      OBVIOUS
    <3>1. Session(t)' = Session(t) /\ Session(t) \in Sessions /\ Session(u) \in Sessions
      BY <1>1, KeysTyped DEF Worked, OnlyMoves, Session
    <3>2. \/ vms' = vms
          \/ vms' = [vms EXCEPT ![Session(u)].clone = main]
          \/ vms' = [vms EXCEPT ![Session(u)].open = @ \ {u}]
      BY DEF Worked, Writes
    <3>3. vms[Session(t)].clone \in Versions \/ vms'[Session(t)].clone = main
      <4>1. CASE t # u
        BY <2>4, <4>1 DEF RoleOfPc
      <4>2. CASE t = u
        <5>1. tasks[u].pc = "clone"
          BY <2>2, <4>2 DEF Worked, Moves, Pcs, Ended, Roles, Validators, RoleOfPc
        <5>2. vms' = [vms EXCEPT ![Session(u)].clone = main]
          BY <4>2, <5>1 DEF Worked, Writes, Does
        <5> QED
          BY <1>b, <3>1, <4>2, <5>2
      <4> QED
        BY <4>1, <4>2
    <3> QED
      BY <1>b, <3>1, <3>2, <3>3
  <2> QED
    BY <2>1, <2>3, <2>4, <2>5 DEF RoleOfPc
<1>3. CASE \E u \in Tasks, in \in Inputs : Begun(u, in)
  <2> PICK u \in Tasks, in \in Inputs : Begun(u, in)
    BY <1>3
  <2>1. \A s \in Sessions : vms'[s].clone = vms[s].clone
    BY <1>b DEF Begun, Sessions
  <2>2. \A t \in Tasks : Session(t) \in Sessions
    BY <1>1, KeysTyped
  <2>3. \A t \in Tasks \ {u} : tasks'[t] = tasks[t] /\ Session(t)' = Session(t) /\ Role(t)' = Role(t)
    BY DEF Begun, Session, Role
  <2>4. tasks'[u].pc \in {"clone", "model"} /\ (tasks'[u].pc = "clone" => Role(u)' = "architect")
    BY DEF Begun, Role
  <2> QED
    BY <2>1, <2>2, <2>3, <2>4 DEF RoleOfPc
<1>4. CASE \E s \in Sessions : Emptied(s)
  <2> PICK s \in Sessions : Emptied(s)
    BY <1>4
  <2> SUFFICES ASSUME NEW t \in Tasks, tasks'[t].pc # "dead"
               PROVE  /\ tasks'[t] = tasks[t] /\ Role(t)' = Role(t) /\ Session(t)' = Session(t)
                      /\ Active(t) => vms'[Session(t)] = vms[Session(t)]
    BY DEF RoleOfPc, Active, Ended
  <2>1. tasks'[t] = tasks[t] /\ (Active(t) => Session(t) # s)
    BY DEF Emptied, Died
  <2>2. Session(t) \in Sessions
    BY <1>1, KeysTyped
  <2> QED
    BY <1>b, <2>1, <2>2 DEF Emptied, Role, Session
<1>5. CASE UNCHANGED <<tasks, vms>>
  BY <1>5 DEF RoleOfPc, Role, Session
<1> QED
  BY <1>2, <1>3, <1>4, <1>5, StepKinds DEF vars

-----------------------------------------------------------------------------
(* Events, and the one outcome of a task.                                  *)

Closing == {"failing", "finally", "done", "dead"}

\* An event was published by the task it names, with the plan of that task,
\* and the task is at its end.
EventsOf ==
  \A e \in events :
    /\ e.type \in {ReadyType(Role(e.by)), "RUN.FAILED"} /\ e.of = tasks[e.by].plan
    /\ tasks[e.by].pc \in Closing

\* What a task's end says of its events (OneOutcome, and why it is kept).
Outcome(t) ==
  LET pc == tasks[t].pc
      faults == tasks[t].faults
  IN /\ pc = "failing" => ~(faults \subseteq BestEffort)
     /\ pc \in {"finally", "done"} /\ faults \subseteq BestEffort => Reported(t)
     /\ Reported(t) /\ (pc = "failing" \/ RunFailed(t)) => "publish" \in faults
     /\ RunFailed(t) => pc \in {"finally", "done", "dead"}

Outcomes == \A t \in Tasks : Outcome(t)

LEMMA ReadyIsNotFailed ==
  ASSUME NEW role \in Roles
  PROVE  ReadyType(role) # "RUN.FAILED"
  BY DEF Roles, ReadyType, Validators

LEMMA EventsStep ==
  ASSUME TypeOK, RoleOfPc, EventsOf, [Next]_vars
  PROVE  EventsOf'
<1>1. TasksTyped /\ EventsTyped
  BY TypeParts
<1>2. CASE \E u \in Tasks : Worked(u)
  <2> PICK u \in Tasks : Worked(u)
    BY <1>2
  <2>1. /\ \A t \in Tasks : Role(t)' = Role(t)
        /\ \A t \in Tasks \ {u} : tasks'[t] = tasks[t]
    BY DEF Worked, OnlyMoves, Role
  <2>2. tasks[u].pc \in Closing \cup {"publish"}
        => tasks'[u].plan = tasks[u].plan /\ tasks'[u].pc \in Closing
    BY DEF Worked, Moves, Keeps, Closing, Ended
  <2>3. \A e \in events' \ events :
          /\ tasks[u].pc \in {"publish", "failing"} /\ e.by = u /\ e.of = tasks[u].plan
          /\ e.type \in {ReadyType(Role(u)), "RUN.FAILED"}
    BY DEF Worked, Writes, Event
  <2>4. ASSUME NEW e \in events
        PROVE  /\ e.type \in {ReadyType(Role(e.by)'), "RUN.FAILED"} /\ e.of = tasks'[e.by].plan
               /\ tasks'[e.by].pc \in Closing
    <3>1. e.by \in Tasks
      BY <1>1 DEF EventsTyped
    <3> QED
      BY <3>1, <2>1, <2>2 DEF EventsOf
  <2>5. ASSUME NEW e \in events' \ events
        PROVE  /\ e.type \in {ReadyType(Role(e.by)'), "RUN.FAILED"} /\ e.of = tasks'[e.by].plan
               /\ tasks'[e.by].pc \in Closing
    BY <2>1, <2>2, <2>3 DEF Closing
  <2> QED
    BY <2>4, <2>5 DEF EventsOf
<1>3. CASE Quiet /\ \E u \in Tasks, in \in Inputs : Begun(u, in)
  <2> PICK u \in Tasks, in \in Inputs : Begun(u, in)
    BY <1>3
  <2>1. \A e \in events : e.by \in Tasks /\ tasks'[e.by] = tasks[e.by]
    BY <1>1 DEF EventsTyped, EventsOf, Begun, Closing
  <2> QED
    BY <1>3, <2>1 DEF EventsOf, Quiet, Role
<1>4. CASE Quiet /\ \E s \in Sessions : Emptied(s)
  <2>1. \A t \in Tasks : /\ tasks'[t].pc \in {tasks[t].pc, "dead"}
                         /\ tasks'[t].in = tasks[t].in /\ tasks'[t].plan = tasks[t].plan
    BY <1>4 DEF Emptied, Died
  <2> QED
    BY <1>1, <1>4, <2>1 DEF EventsOf, EventsTyped, Quiet, Role, Closing
<1>5. CASE UNCHANGED <<events, tasks>>
  BY <1>5 DEF EventsOf, Role
<1> QED
  BY <1>2, <1>3, <1>4, <1>5, StepKinds DEF vars, Quiet

LEMMA OutcomeStep ==
  ASSUME TypeOK, RoleOfPc, EventsOf, Outcomes, [Next]_vars
  PROVE  Outcomes'
<1>1. TasksTyped /\ EventsTyped
  BY TypeParts
<1>a. \A t \in Tasks : Reported(t) \/ RunFailed(t) => tasks[t].pc \in Closing
  BY DEF Reported, RunFailed, EventsOf
<1>2. CASE \E u \in Tasks : Worked(u)
  <2> PICK u \in Tasks : Worked(u)
    BY <1>2
  <2>1. ASSUME NEW t \in Tasks \ {u}
        PROVE  Outcome(t)'
    <3>1. tasks'[t] = tasks[t] /\ Role(t)' = Role(t)
      BY DEF Worked, OnlyMoves, Role
    <3>2. Reported(t)' <=> Reported(t)
      BY <3>1 DEF Worked, Writes, Event, Reported
    <3>3. RunFailed(t)' <=> RunFailed(t)
      BY <3>1 DEF Worked, Writes, Event, RunFailed
    <3> QED
      BY <3>1, <3>2, <3>3 DEF Outcomes, Outcome
  <2>2. Outcome(u)'
    <3>1. Role(u)' = Role(u) /\ Role(u) \in Roles
      BY <1>1, KeysTyped DEF Worked, OnlyMoves, Role
    <3>2. /\ tasks[u].faults \subseteq tasks'[u].faults
          /\ tasks'[u].pc = "failing" => ~(tasks'[u].faults \subseteq BestEffort)
          /\ tasks'[u].pc = "finally" /\ tasks[u].pc \notin {"publish", "failing"}
             => ~(tasks'[u].faults \subseteq BestEffort)
      BY DEF Worked, Keeps
    <3>3. CASE tasks[u].pc = "publish"
      <4>1. ~Reported(u) /\ ~RunFailed(u) /\ tasks'[u].pc \in {"failing", "finally"}
        BY <3>3, <1>a DEF Worked, Moves, Closing
      <4>2. ~RunFailed(u)'
        BY <3>1, <3>3, <4>1, ReadyIsNotFailed DEF Worked, Writes, RunFailed, Event
      <4>3. \/ "publish" \in tasks'[u].faults
            \/ tasks'[u].pc = "finally" /\ Reported(u)'
        <5>1. \/ "publish" \in tasks'[u].faults
              \/ tasks'[u].pc = "finally" /\ Event(u, ReadyType(Role(u))) \in events'
          BY <3>3 DEF Worked, Does
        <5>2. /\ Event(u, ReadyType(Role(u))).by = u
              /\ Event(u, ReadyType(Role(u))).type = ReadyType(Role(u))
          BY DEF Event
        <5> QED
          BY <5>1, <5>2, <3>1 DEF Reported
      <4>4. "publish" \in tasks'[u].faults => ~(tasks'[u].faults \subseteq BestEffort)
        BY DEF BestEffort
      <4> QED
        BY <4>1, <4>2, <4>3, <4>4, <3>2 DEF Outcome
    <3>4. CASE tasks[u].pc = "failing"
      <4>1. tasks'[u].pc = "finally"
        BY <3>4 DEF Worked, Moves
      <4>2. Reported(u)' => Reported(u)
        BY <3>1, <3>4, ReadyIsNotFailed DEF Worked, Writes, Reported, Event
      <4> QED
        BY <3>2, <3>4, <4>1, <4>2 DEF Outcomes, Outcome
    <3>5. CASE tasks[u].pc \notin {"publish", "failing"}
      <4>1. events' = events
        BY <3>5 DEF Worked, Writes
      <4>2. (Reported(u)' <=> Reported(u)) /\ (RunFailed(u)' <=> RunFailed(u))
        BY <4>1, <3>1 DEF Reported, RunFailed
      <4>3. CASE tasks[u].pc = "finally"
        <5>1. tasks'[u].pc = "done" /\ tasks'[u].faults = tasks[u].faults
          BY <4>3 DEF Worked, Moves, Does
        <5> QED
          BY <5>1, <4>2, <4>3 DEF Outcomes, Outcome
      <4>4. CASE tasks[u].pc # "finally"
        <5>1. ~Reported(u) /\ ~RunFailed(u)
          BY <4>4, <3>5, <1>a DEF Closing, Worked, Moves, Ended
        <5>2. tasks'[u].pc # "done"
          <6>1. tasks'[u].pc \notin Ended
            BY <1>1, <4>4, <3>1, MovesOn DEF Worked, TasksTyped, Task
          <6> QED
            BY <6>1 DEF Ended
        <5> QED
          BY <5>1, <5>2, <4>2, <3>2, <3>5 DEF Outcome
      <4> QED
        BY <4>3, <4>4
    <3> QED
      BY <3>3, <3>4, <3>5
  <2> QED
    BY <2>1, <2>2 DEF Outcomes
<1>3. CASE Quiet /\ \E u \in Tasks, in \in Inputs : Begun(u, in)
  <2> PICK u \in Tasks, in \in Inputs : Begun(u, in)
    BY <1>3
  <2>1. \A e \in events : e.by # u
    BY DEF EventsOf, Begun, Closing
  <2>2. Outcome(u)'
    BY <1>3, <2>1 DEF Quiet, Begun, Outcome, Reported, RunFailed
  <2>3. ASSUME NEW t \in Tasks \ {u}
        PROVE  Outcome(t)'
    <3>1. tasks'[t] = tasks[t]
      BY DEF Begun
    <3>2. (Reported(t)' <=> Reported(t)) /\ (RunFailed(t)' <=> RunFailed(t))
      BY <1>3, <3>1 DEF Quiet, Reported, RunFailed, Role
    <3> QED
      BY <3>1, <3>2 DEF Outcomes, Outcome
  <2> QED
    BY <2>2, <2>3 DEF Outcomes
<1>4. CASE Quiet /\ \E s \in Sessions : Emptied(s)
  <2> SUFFICES ASSUME NEW t \in Tasks
               PROVE  Outcome(t)'
    BY DEF Outcomes
  <2>1. /\ tasks'[t].in = tasks[t].in /\ tasks[t].faults \subseteq tasks'[t].faults
        /\ tasks'[t].pc = "dead" \/ tasks'[t] = tasks[t]
    BY <1>4 DEF Emptied, Died
  <2>2. (Reported(t)' <=> Reported(t)) /\ (RunFailed(t)' <=> RunFailed(t))
    BY <1>4, <2>1 DEF Quiet, Reported, RunFailed, Role
  <2> QED
    BY <2>1, <2>2 DEF Outcomes, Outcome
<1>5. CASE UNCHANGED <<events, tasks>>
  BY <1>5 DEF Outcomes, Outcome, Reported, RunFailed, Role
<1> QED
  BY <1>2, <1>3, <1>4, <1>5, StepKinds DEF vars, Quiet

-----------------------------------------------------------------------------
(* What has been posted, stored and planned.                               *)

Early == {"idle", "clone", "memory", "memory_put", "profile", "model", "upload", "comment"}

\* Nothing is posted before the comment, and no issue too many after it; and
\* no model writes the memory before it runs.
Once(t) ==
  /\ posts[t].comments <= 1 /\ posts[t].issues <= tasks[t].proposal.issues
  /\ tasks[t].pc \in Early => posts[t].comments = 0 /\ posts[t].issues = 0
  /\ tasks[t].pc \in Early \ {"model", "upload", "comment"} => ~posts[t].memory

Onces == \A t \in Tasks : Once(t)

LEMMA OnceStep ==
  ASSUME TypeOK, RoleOfPc, Onces, [Next]_vars
  PROVE  Onces'
<1>1. TasksTyped /\ posts \in [Tasks -> Posts]
  BY TypeParts DEF WorldTyped
<1>2. CASE \E u \in Tasks : Worked(u)
  <2> PICK u \in Tasks : Worked(u)
    BY <1>2
  <2>1. ASSUME NEW t \in Tasks \ {u}
        PROVE  Once(t)'
    <3>1. tasks'[t] = tasks[t]
      BY DEF Worked, OnlyMoves
    <3>2. posts'[t] = posts[t]
      BY <1>1 DEF Worked, Writes, Commented
    <3> QED
      BY <3>1, <3>2 DEF Onces, Once
  <2>2. Once(u)'
    <3>1. /\ tasks[u].pc # "model" => tasks'[u].proposal = tasks[u].proposal
          /\ tasks'[u].pc \in Early => tasks[u].pc \in Early \ {"comment"}
          /\ tasks'[u].pc \in Early \ {"model", "upload", "comment"}
             => tasks[u].pc \in Early \ {"model", "upload", "comment"}
      <4>1. tasks[u].pc \in Pcs /\ Role(u) \in Roles
        BY <1>1, KeysTyped DEF TasksTyped, Task
      <4>2. Moves(u) /\ RoleOfPc
        BY DEF Worked
      <4>3. /\ tasks'[u].pc \in Early => tasks[u].pc \in Early \ {"comment"}
            /\ tasks'[u].pc \in Early \ {"model", "upload", "comment"}
               => tasks[u].pc \in Early \ {"model", "upload", "comment"}
        BY <4>1, <4>2 DEF Moves, Early, Pcs, Ended, Roles, Validators, RoleOfPc
      <4> QED
        BY <4>3 DEF Worked, Keeps
    <3>2. tasks'[u].proposal.issues \in Nat /\ tasks[u].proposal.issues \in Nat
      BY <1>1, ReportsAssumption DEF Worked, OnlyMoves, TasksTyped, Task, Proposals
    <3>3. /\ \/ posts'[u].comments = posts[u].comments /\ posts'[u].issues = posts[u].issues
             \/ /\ tasks[u].pc = "comment" /\ posts'[u].comments = posts[u].comments + 1
                /\ posts'[u].issues = posts[u].issues
             \/ /\ tasks[u].pc = "issues" /\ posts[u].issues < tasks[u].proposal.issues
                /\ posts'[u].issues = posts[u].issues + 1
                /\ posts'[u].comments = posts[u].comments
          /\ tasks[u].pc # "model" => posts'[u].memory = posts[u].memory
      BY <1>1 DEF Worked, Writes, Commented, Posts
    <3>4. posts[u].comments \in Nat /\ posts[u].issues \in Nat /\ Once(u)
      BY <1>1 DEF Onces, Posts
    <3> QED
      BY <3>1, <3>2, <3>3, <3>4 DEF Once, Early
  <2> QED
    BY <2>1, <2>2 DEF Onces
<1>3. CASE Quiet /\ \E u \in Tasks, in \in Inputs : Begun(u, in)
  BY <1>3 DEF Quiet, Begun, Onces, Once, Early
<1>4. CASE Quiet /\ \E s \in Sessions : Emptied(s)
  BY <1>4 DEF Quiet, Emptied, Died, Onces, Once, Early
<1>5. CASE UNCHANGED <<posts, tasks>>
  BY <1>5 DEF Onces, Once
<1> QED
  BY <1>2, <1>3, <1>4, <1>5, StepKinds DEF vars, Quiet

\* A started task keeps its input, stays started, and its twins and faults stay.
LEMMA Grows ==
  ASSUME TypeOK, RoleOfPc, [Next]_vars, NEW t \in Tasks, Started(t)
  PROVE  /\ Started(t)' /\ tasks'[t].in = tasks[t].in /\ tasks[t].faults \subseteq tasks'[t].faults
         /\ Twins(t) \subseteq Twins(t)'
<1>1. ASSUME NEW u \in Tasks, Started(u)
      PROVE  Started(u)' /\ tasks'[u].in = tasks[u].in /\ tasks[u].faults \subseteq tasks'[u].faults
  <2>1. CASE \E v \in Tasks : Worked(v)
    <3> PICK v \in Tasks : Worked(v)
      BY <2>1
    <3>1. CASE u = v
      <4>1. tasks[u].pc \in Pcs /\ Role(u) \in Roles
        BY TypeParts, KeysTyped DEF TasksTyped, Task
      <4>2. tasks'[u].pc # "idle"
        BY <3>1, <4>1, MovesOn DEF Worked, Moves, Ended
      <4> QED
        BY <3>1, <4>2 DEF Worked, OnlyMoves, Keeps, Started
    <3>2. CASE u # v
      BY <1>1, <3>2 DEF Worked, OnlyMoves, Started
    <3> QED
      BY <3>1, <3>2
  <2>2. CASE \E v \in Tasks, in \in Inputs : Begun(v, in)
    BY <1>1, <2>2 DEF Begun, Started
  <2>3. CASE \E s \in Sessions : Emptied(s)
    BY <1>1, <2>3 DEF Emptied, Died, Started
  <2>4. CASE UNCHANGED tasks
    BY <1>1, <2>4 DEF Started
  <2> QED
    BY <2>1, <2>2, <2>3, <2>4, StepKinds DEF vars
<1> QED
  BY <1>1 DEF Twins, Key

\* A report is new only if its task was about to publish it.
LEMMA NewReport ==
  ASSUME TypeOK, RoleOfPc, EventsOf, [Next]_vars, NEW t \in Tasks, Reported(t)'
  PROVE  /\ Started(t) /\ (Reported(t) \/ tasks[t].pc = "publish")
         /\ tasks'[t].pc \in Closing
<1>1. tasks'[t].pc \in Closing
  BY EventsStep DEF EventsOf, Reported
<1>2. CASE \E u \in Tasks : Worked(u)
  <2> PICK u \in Tasks : Worked(u)
    BY <1>2
  <2>1. Role(t)' = Role(t) /\ Role(t) \in Roles
    BY TypeParts, KeysTyped DEF Worked, OnlyMoves, Role
  <2>2. Reported(t) \/ (t = u /\ tasks[t].pc = "publish")
    BY <2>1, ReadyIsNotFailed DEF Worked, Writes, Event, Reported
  <2>3. Reported(t) => tasks[t].pc \in Closing
    BY DEF Reported, EventsOf
  <2> QED
    BY <1>1, <2>2, <2>3 DEF Started, Closing
<1>3. CASE Quiet /\ \E u \in Tasks, in \in Inputs : Begun(u, in)
  BY <1>1, <1>3 DEF Quiet, Begun, Closing, Reported, Role, Started
<1>4. CASE Quiet /\ \E s \in Sessions : Emptied(s)
  <2>1. Role(t)' = Role(t) /\ events' = events
    BY <1>4 DEF Quiet, Emptied, Died, Role
  <2>2. Reported(t)
    BY <2>1 DEF Reported
  <2>3. tasks[t].pc \in Closing
    BY <2>2 DEF Reported, EventsOf
  <2> QED
    BY <1>1, <2>2, <2>3 DEF Closing, Started
<1>5. CASE UNCHANGED <<events, tasks>>
  BY <1>1, <1>5 DEF Reported, Role, Started, Closing
<1> QED
  BY <1>2, <1>3, <1>4, <1>5, StepKinds DEF vars, Quiet

WroteIt(t) == \E m \in {1, 2} : store[Key(t)] = {<<t, m>>}

\* What a report names is stored (ArtifactBehindReport, before the report too).
Stored(t) ==
  (tasks[t].pc \in {"comment", "publish"} \/ Reported(t)) /\ Role(t) \in Validators \cup {"triage"}
  => WroteIt(t) \/ Twins(t) # {} \/ "upload_refused" \in tasks[t].faults

Storeds == \A t \in Tasks : Stored(t)

LEMMA StoredStep ==
  ASSUME TypeOK, RoleOfPc, EventsOf, Storeds, [Next]_vars
  PROVE  Storeds'
<1> SUFFICES ASSUME NEW t \in Tasks, tasks'[t].pc \in {"comment", "publish"} \/ Reported(t)',
                    Role(t)' \in Validators \cup {"triage"}
             PROVE  WroteIt(t)' \/ Twins(t)' # {} \/ "upload_refused" \in tasks'[t].faults
  BY DEF Storeds, Stored
<1>1. TasksTyped /\ store \in [Sessions -> SUBSET Artifacts]
  BY TypeParts DEF WorldTyped
<1>2. Reported(t)' => Started(t) /\ (Reported(t) \/ tasks[t].pc = "publish")
  BY NewReport
<1>3. Reported(t) => tasks[t].pc \in Closing
  BY DEF Reported, EventsOf
<1>4. CASE \E u \in Tasks : Worked(u)
  <2> PICK u \in Tasks : Worked(u)
    BY <1>4
  <2>1. Started(t)
    BY <1>2 DEF Worked, OnlyMoves, Moves, Ended, Started
  <2>2. /\ tasks'[t].in = tasks[t].in /\ tasks[t].faults \subseteq tasks'[t].faults
        /\ Twins(t) \subseteq Twins(t)'
    BY <2>1, Grows
  <2>3. Role(t)' = Role(t) /\ Key(t)' = Key(t)
    BY <2>2 DEF Role, Key
  <2>4. CASE u = t
    <3>1. tasks[t].pc \in Pcs /\ Role(t) \in Roles /\ Key(t) \in Sessions /\ tasks[t].model \in {1, 2}
      BY <1>1, KeysTyped DEF TasksTyped, Task
    <3>2. tasks[t].pc \in {"upload", "comment", "publish"} \/ Reported(t)
      BY <1>2, <2>3, <2>4, <3>1 DEF Worked, Moves, Pcs, Ended, Validators, Roles, RoleOfPc
    <3>3. CASE tasks[t].pc = "upload"
      <4>1. tasks'[t].pc \in {"comment", "publish"}
        BY <1>2, <1>3, <3>3 DEF Closing
      <4>2. \/ store' = [store EXCEPT ![Key(t)] = {<<t, tasks[t].model>>}]
            \/ "upload_refused" \in tasks'[t].faults
        BY <2>4, <3>3, <4>1 DEF Worked, Does
      <4> QED
        BY <1>1, <2>3, <3>1, <4>2 DEF WroteIt
    <3>4. CASE tasks[t].pc # "upload"
      <4>1. store' = store
        BY <1>3, <2>4, <3>2, <3>4 DEF Worked, Writes, Closing
      <4> QED
        BY <2>2, <2>3, <3>2, <3>4, <4>1 DEF Storeds, Stored, WroteIt
    <3> QED
      BY <3>3, <3>4
  <2>5. CASE u # t
    <3>1. tasks'[t] = tasks[t] /\ Stored(t)
      BY <2>5 DEF Worked, OnlyMoves, Storeds
    <3>2. tasks[t].pc \in {"comment", "publish"} \/ Reported(t)
      BY <1>2, <3>1
    <3>3. CASE store' = store
      BY <2>2, <2>3, <3>1, <3>2, <3>3 DEF Stored, WroteIt
    <3>4. CASE store' # store
      <4>1. /\ store' = [store EXCEPT ![Key(u)] = {<<u, tasks[u].model>>}]
            /\ tasks[u].pc \in {"upload", "model"}
        BY <3>4 DEF Worked, Writes
      <4>2. CASE Key(u) = Key(t)
        <5>1. u \in Twins(t)
          BY <2>5, <4>1, <4>2 DEF Twins, Started
        <5> QED
          BY <5>1, <2>2
      <4>3. CASE Key(u) # Key(t)
        <5>1. store'[Key(t)] = store[Key(t)]
          BY <1>1, <4>1, <4>3, KeysTyped
        <5> QED
          BY <2>2, <2>3, <3>1, <3>2, <5>1 DEF Stored, WroteIt
      <4> QED
        BY <4>2, <4>3
    <3> QED
      BY <3>3, <3>4
  <2> QED
    BY <2>4, <2>5
<1>5. CASE Quiet /\ \/ \E u \in Tasks, in \in Inputs : Begun(u, in)
                    \/ \E s \in Sessions : Emptied(s)
                    \/ UNCHANGED tasks
  <2>1. Started(t) /\ (Reported(t) \/ tasks[t].pc \in {"comment", "publish"})
    BY <1>2, <1>5 DEF Begun, Emptied, Died, Started
  <2>2. /\ tasks'[t].in = tasks[t].in /\ tasks[t].faults \subseteq tasks'[t].faults
        /\ Twins(t) \subseteq Twins(t)'
    BY <2>1, Grows
  <2>3. Role(t)' = Role(t) /\ (WroteIt(t)' <=> WroteIt(t))
    BY <1>5, <2>2 DEF Role, Key, WroteIt, Quiet
  <2> QED
    BY <2>1, <2>2, <2>3 DEF Storeds, Stored
<1> QED
  BY <1>4, <1>5, StepKinds DEF vars, Quiet

\* What a proposer has done so far (CompletedMeansDone, before the report too).
Spawned(t) ==
  LET pc == tasks[t].pc
      p == tasks[t].proposal
      done == prs[tasks[t].in.run]
  IN /\ pc = "idle" => tasks[t].pr = "none"
     /\ Role(t) = "proposer" =>
          /\ pc \in {"issues", "pr", "publish"} \/ Reported(t)
             => (p.comment => posts[t].comments = 1)
          /\ pc \in {"pr", "publish"} \/ Reported(t) => posts[t].issues = p.issues
          /\ (pc = "publish" \/ Reported(t)) /\ p.edits => tasks[t].pr = "open"
          /\ tasks[t].pr # "none" => <<"branch", t>> \in done
          /\ tasks[t].pr \in {"commit", "open"} => <<"commit", t>> \in done
          /\ tasks[t].pr = "open" => <<"open", t>> \in done

Spawneds == \A t \in Tasks : Spawned(t)

LEMMA SpawnedStep ==
  ASSUME TypeOK, RoleOfPc, EventsOf, Onces, Spawneds, [Next]_vars
  PROVE  Spawneds'
<1> SUFFICES ASSUME NEW t \in Tasks
             PROVE  Spawned(t)'
  BY DEF Spawneds
<1>1. /\ TasksTyped /\ posts \in [Tasks -> Posts]
      /\ prs \in [{in.run : in \in Inputs} -> SUBSET ({"branch", "commit", "open"} \X Tasks)]
  BY TypeParts DEF WorldTyped
<1>2. Reported(t)' => Started(t) /\ (Reported(t) \/ tasks[t].pc = "publish")
  BY NewReport
<1>3. Reported(t) => tasks[t].pc \in Closing
  BY DEF Reported, EventsOf
<1>4. CASE \E u \in Tasks : Worked(u)
  <2> PICK u \in Tasks : Worked(u)
    BY <1>4
  <2>1. tasks'[t].in = tasks[t].in /\ Role(t)' = Role(t)
    BY DEF Worked, OnlyMoves, Role
  <2>2. tasks[t].in.run \in {in.run : in \in Inputs} /\ tasks[u].in.run \in {in.run : in \in Inputs}
    BY <1>1, KeysTyped
  <2>3. prs[tasks[t].in.run] \subseteq prs'[tasks[t].in.run]
    BY <1>1, <2>2 DEF Worked, Writes
  <2>4. CASE u # t
    <3>1. tasks'[t] = tasks[t] /\ Spawned(t)
      BY <2>4 DEF Worked, OnlyMoves, Spawneds
    <3>2. posts'[t] = posts[t]
      BY <1>1, <2>4 DEF Worked, Writes, Commented
    <3>3. Reported(t)' => Reported(t) \/ tasks[t].pc = "publish"
      BY <1>2
    <3> QED
      BY <2>1, <2>3, <3>1, <3>2, <3>3 DEF Spawned
  <2>5. CASE u = t /\ Role(t) # "proposer"
    <3>1. tasks[t].pc \in Pcs /\ Role(t) \in Roles
      BY <1>1, KeysTyped DEF TasksTyped, Task
    <3>2. tasks'[t].pc # "idle"
      BY <2>5, <3>1, MovesOn DEF Worked, Moves, Ended
    <3> QED
      BY <2>1, <2>5, <3>2 DEF Spawned
  <2>6. CASE u = t /\ Role(t) = "proposer"
    <3>1. tasks[t].pc \in Pcs /\ tasks[t].pr \in {"none", "branch", "commit", "open"}
          /\ tasks[t].proposal.issues \in Nat /\ posts[t].issues \in Nat /\ posts[t].comments \in Nat
      BY <1>1, ReportsAssumption DEF TasksTyped, Task, Proposals, Posts
    <3>2. /\ tasks[t].pc \in {"model", "comment", "issues", "pr", "publish", "finally"}
          /\ tasks[t].pc = "model" => tasks'[t].pc \in {"model", "comment", "finally"}
          /\ tasks[t].pc = "comment" => tasks'[t].pc \in {"issues", "finally"}
          /\ tasks[t].pc = "issues" => tasks'[t].pc \in {"issues", "pr", "finally"}
          /\ tasks[t].pc = "pr" => tasks'[t].pc \in {"pr", "publish", "finally"}
          /\ tasks[t].pc = "publish" => tasks'[t].pc \in {"failing", "finally"}
          /\ tasks[t].pc = "finally" => tasks'[t].pc = "done"
      BY <2>1, <2>6, <3>1 DEF Worked, Moves, Pcs, Ended, RoleOfPc, Validators, PublishesFailure
    <3>3. /\ tasks[t].pc # "model" => tasks'[t].proposal = tasks[t].proposal
          /\ tasks[t].pc # "pr" => tasks'[t].pr = tasks[t].pr
      BY <2>6 DEF Worked, Keeps
    <3>4. Spawned(t) /\ Once(t)
      BY DEF Spawneds, Onces
    <3>5. tasks[t].pc \notin {"comment", "issues"}
          => posts'[t].comments = posts[t].comments /\ posts'[t].issues = posts[t].issues
      BY <1>1, <2>6 DEF Worked, Writes, Posts
    <3>6. CASE tasks[t].pc \in {"model", "publish", "finally"}
      BY <1>2, <1>3, <2>1, <2>3, <3>2, <3>3, <3>4, <3>5, <3>6 DEF Spawned, Closing
    <3>7. CASE tasks[t].pc = "comment"
      <4>1. ~Reported(t)'
        BY <1>2, <1>3, <3>7 DEF Closing
      <4>2. tasks[t].proposal.comment /\ tasks'[t].pc = "issues" => posts'[t].comments = 1
        <5>1. tasks[t].proposal.comment /\ tasks'[t].pc = "issues" => posts' = Commented(t)
          BY <2>6, <3>7 DEF Worked, Does
        <5>2. posts[t].comments = 0
          BY <3>4, <3>7 DEF Once, Early
        <5> QED
          BY <1>1, <5>1, <5>2 DEF Commented, Posts
      <4> QED
        BY <2>1, <2>3, <3>2, <3>3, <3>4, <3>7, <4>1, <4>2 DEF Spawned
    <3>8. CASE tasks[t].pc = "issues"
      <4>1. ~Reported(t)'
        BY <1>2, <1>3, <3>8 DEF Closing
      <4>2. posts'[t].comments = posts[t].comments
        BY <1>1, <2>6, <3>8 DEF Worked, Writes, Posts
      <4>3. tasks'[t].pc = "pr" => posts'[t].issues = tasks[t].proposal.issues
        <5>1. tasks'[t].pc = "pr" => posts[t].issues = tasks[t].proposal.issues
          BY <2>6, <3>1, <3>4, <3>8 DEF Worked, Does, Once
        <5> QED
          BY <5>1, <2>6, <3>1, <3>8 DEF Worked, Writes
      <4> QED
        BY <2>1, <2>3, <3>2, <3>3, <3>4, <3>8, <4>1, <4>2, <4>3 DEF Spawned
    <3>9. CASE tasks[t].pc = "pr"
      <4>1. ~Reported(t)'
        BY <1>2, <1>3, <3>9 DEF Closing
      <4>2. tasks'[t].pc = "publish" /\ tasks[t].proposal.edits => tasks[t].pr = "open"
        BY <2>6, <3>9 DEF Worked, Does
      <4>3. \/ tasks'[t].pr = tasks[t].pr
            \/ /\ tasks'[t].pr = NextPrStep(tasks[t].pr)
               /\ <<tasks'[t].pr, t>> \in prs'[tasks[t].in.run]
        BY <1>1, <2>2, <2>6, <3>9 DEF Worked, Does
      <4>4. tasks[t].pr = "open" => tasks'[t].pr = "open"
        BY <4>3 DEF NextPrStep
      <4>5. /\ tasks'[t].pr # "none" => <<"branch", t>> \in prs'[tasks[t].in.run]
            /\ tasks'[t].pr \in {"commit", "open"} => <<"commit", t>> \in prs'[tasks[t].in.run]
            /\ tasks'[t].pr = "open" => <<"open", t>> \in prs'[tasks[t].in.run]
        <5> DEFINE done == prs'[tasks[t].in.run]
        <5>1. /\ tasks[t].pr # "none" => <<"branch", t>> \in done
              /\ tasks[t].pr \in {"commit", "open"} => <<"commit", t>> \in done
              /\ tasks[t].pr = "open" => <<"open", t>> \in done
          BY <2>3, <2>6, <3>4 DEF Spawned
        <5>2. CASE tasks'[t].pr = tasks[t].pr
          BY <5>1, <5>2
        <5>3. CASE tasks'[t].pr = NextPrStep(tasks[t].pr) /\ <<tasks'[t].pr, t>> \in done
          <6>1. \/ tasks[t].pr = "none" /\ tasks'[t].pr = "branch"
                \/ tasks[t].pr = "branch" /\ tasks'[t].pr = "commit"
                \/ tasks[t].pr \in {"commit", "open"} /\ tasks'[t].pr = "open"
            BY <3>1, <5>3 DEF NextPrStep
          <6> QED
            BY <5>1, <5>3, <6>1
        <5> QED
          BY <4>3, <5>2, <5>3
      <4>6. /\ posts'[t].comments = posts[t].comments /\ posts'[t].issues = posts[t].issues
            /\ tasks'[t].proposal = tasks[t].proposal
            /\ tasks'[t].pc \in {"pr", "publish", "finally"}
        BY <3>2, <3>3, <3>5, <3>9
      <4>7. /\ tasks[t].proposal.comment => posts[t].comments = 1
            /\ posts[t].issues = tasks[t].proposal.issues
        BY <2>6, <3>4, <3>9 DEF Spawned
      <4>8. tasks'[t].pc = "publish" /\ tasks[t].proposal.edits => tasks'[t].pr = "open"
        BY <4>2, <4>4
      <4> QED
        BY <2>1, <4>1, <4>5, <4>6, <4>7, <4>8 DEF Spawned
    <3> QED
      BY <3>2, <3>6, <3>7, <3>8, <3>9
  <2> QED
    BY <2>4, <2>5, <2>6
<1>5. CASE Quiet /\ \E u \in Tasks, in \in Inputs : Begun(u, in)
  <2> PICK u \in Tasks, in \in Inputs : Begun(u, in)
    BY <1>5
  <2>1. CASE u # t
    BY <1>2, <1>5, <2>1 DEF Quiet, Begun, Spawneds, Spawned, Role
  <2>2. CASE u = t
    BY <1>2, <1>5, <2>2 DEF Quiet, Begun, Spawneds, Spawned, Role, Started
  <2> QED
    BY <2>1, <2>2
<1>6. CASE Quiet /\ \E s \in Sessions : Emptied(s)
  BY <1>2, <1>3, <1>6 DEF Quiet, Emptied, Died, Spawneds, Spawned, Role, Closing
<1>7. CASE Quiet /\ UNCHANGED tasks
  BY <1>2, <1>7 DEF Quiet, Spawneds, Spawned, Role
<1> QED
  BY <1>4, <1>5, <1>6, <1>7, StepKinds DEF vars, Quiet

-----------------------------------------------------------------------------
(* The plan of a design.                                                   *)

\* Whoever wrote an artifact was started under its key.
Keyed == \A k \in Sessions : \A w \in store[k] : Started(w[1]) /\ Key(w[1]) = k

\* A task that has read its plan has one that was stored under its own key,
\* and that is still the one stored there unless a twin may have written.
Planned(t) ==
  LET plan == tasks[t].plan
  IN /\ tasks[t].pc = "idle" => plan = {}
     /\ \A w \in plan : Started(w[1]) /\ Key(w[1]) = Key(t)
     /\ (tasks[t].pc = "publish" \/ Reported(t)) /\ Role(t) = "architect"
        => plan # {} /\ store[Key(t)] # {} /\ (plan = store[Key(t)] \/ Twins(t) # {})

Planneds == Keyed /\ \A t \in Tasks : Planned(t)

LEMMA KeyedStep ==
  ASSUME TypeOK, RoleOfPc, Keyed, [Next]_vars
  PROVE  Keyed'
<1>1. TasksTyped /\ store \in [Sessions -> SUBSET Artifacts]
  BY TypeParts DEF WorldTyped
<1>2. \A t \in Tasks : Started(t) => Started(t)' /\ Key(t)' = Key(t)
  BY Grows DEF Key
<1>3. \A k \in Sessions : \A w \in store[k] : w[1] \in Tasks
  BY <1>1 DEF Artifacts
<1>4. \A k \in Sessions : \A w \in store[k] : Started(w[1])' /\ Key(w[1])' = k
  BY <1>2, <1>3 DEF Keyed
<1>5. CASE store' = store
  BY <1>4, <1>5 DEF Keyed
<1>6. CASE \E u \in Tasks : Worked(u)
  <2> PICK u \in Tasks : Worked(u)
    BY <1>6
  <2>1. Started(u)' /\ Key(u)' = Key(u) /\ Key(u) \in Sessions
    BY <1>1, <1>2, KeysTyped DEF Worked, Moves, Ended, Started
  <2>2. store' = store \/ store' = [store EXCEPT ![Key(u)] = {<<u, tasks[u].model>>}]
    BY DEF Worked, Writes
  <2>3. \A k \in Sessions : \A w \in store'[k] :
          w \in store[k] \/ (k = Key(u) /\ w = <<u, tasks[u].model>>)
    BY <1>1, <2>1, <2>2
  <2> QED
    BY <1>4, <2>1, <2>3 DEF Keyed
<1> QED
  BY <1>5, <1>6, StepKinds DEF vars, Quiet

LEMMA PlannedStep ==
  ASSUME TypeOK, RoleOfPc, EventsOf, Planneds, [Next]_vars
  PROVE  Planneds'
<1>0. Keyed'
  BY KeyedStep DEF Planneds
<1> SUFFICES ASSUME NEW t \in Tasks
             PROVE  Planned(t)'
  BY <1>0 DEF Planneds
<1>1. TasksTyped /\ store \in [Sessions -> SUBSET Artifacts]
  BY TypeParts DEF WorldTyped
<1>2. \A u \in Tasks : Started(u) => Started(u)' /\ Key(u)' = Key(u)
  BY Grows DEF Key
<1>3. Reported(t)' => Started(t) /\ (Reported(t) \/ tasks[t].pc = "publish")
  BY NewReport
<1>4. Reported(t) => tasks[t].pc \in Closing
  BY DEF Reported, EventsOf
<1>5. Planned(t) /\ Keyed
  BY DEF Planneds
<1>6. \A w \in tasks[t].plan : w[1] \in Tasks
  BY <1>1 DEF TasksTyped, Task, Artifacts
<1>7. CASE ~Started(t)
  <2>1. tasks[t].plan = {} /\ ~Reported(t)'
    BY <1>3, <1>5, <1>7 DEF Planned, Started
  <2>2. tasks'[t].plan = {} /\ tasks'[t].pc # "publish"
    <3>1. CASE \E u \in Tasks : Worked(u)
      BY <1>7, <2>1, <3>1 DEF Worked, OnlyMoves, Moves, Ended, Started
    <3>2. CASE \E u \in Tasks, in \in Inputs : Begun(u, in)
      BY <1>7, <2>1, <3>2 DEF Begun, Started
    <3>3. CASE \E s \in Sessions : Emptied(s)
      BY <1>7, <2>1, <3>3 DEF Emptied, Died, Started
    <3>4. CASE UNCHANGED tasks
      BY <1>7, <2>1, <3>4 DEF Started
    <3> QED
      BY <3>1, <3>2, <3>3, <3>4, StepKinds DEF vars
  <2> QED
    BY <2>1, <2>2 DEF Planned
<1>8. CASE Started(t)
  <2>1. Started(t)' /\ tasks'[t].in = tasks[t].in /\ Twins(t) \subseteq Twins(t)'
    BY <1>8, Grows
  <2>2. Role(t)' = Role(t) /\ Key(t)' = Key(t) /\ Key(t) \in Sessions
    BY <1>1, <2>1, KeysTyped DEF Role, Key
  <2>3. ASSUME tasks'[t].plan = tasks[t].plan,
               tasks'[t].pc = "publish" => tasks[t].pc = "publish",
               store'[Key(t)] = store[Key(t)] \/ (Twins(t) # {} /\ store'[Key(t)] # {})
        PROVE  Planned(t)'
    <3>1. \A w \in tasks'[t].plan : Started(w[1])' /\ Key(w[1])' = Key(t)'
      BY <1>2, <1>5, <1>6, <2>2, <2>3 DEF Planned
    <3>2. tasks'[t].pc # "idle"
      BY <2>1 DEF Started
    <3> QED
      BY <1>3, <1>5, <2>1, <2>2, <2>3, <3>1, <3>2 DEF Planned
  <2>4. CASE \E u \in Tasks : Worked(u)
    <3> PICK u \in Tasks : Worked(u)
      BY <2>4
    <3>1. store' = store \/ (store' = [store EXCEPT ![Key(u)] = {<<u, tasks[u].model>>}]
                             /\ tasks[u].pc \in {"upload", "model"})
      BY DEF Worked, Writes
    <3>2. CASE u # t
      <4>1. tasks'[t] = tasks[t]
        BY <3>2 DEF Worked, OnlyMoves
      <4>2. store'[Key(t)] = store[Key(t)] \/ (Twins(t) # {} /\ store'[Key(t)] # {})
        <5>1. Key(u) = Key(t) => u \in Twins(t)
          BY <3>2 DEF Twins, Started, Worked, Moves, Ended
        <5> QED
          BY <1>1, <2>2, <3>1, <5>1
      <4> QED
        BY <2>3, <4>1, <4>2
    <3>3. CASE u = t /\ tasks[t].pc = "plan"
      <4>1. store' = store /\ tasks'[t].pc \in {"publish", "failing"}
        BY <3>1, <3>3 DEF Worked, Moves
      <4>2. CASE tasks'[t].pc = "publish"
        <5>1. tasks'[t].plan = store[Key(t)] /\ store[Key(t)] # {}
          BY <3>3, <4>2 DEF Worked, Does
        <5>2. \A w \in store[Key(t)] : Started(w[1])' /\ Key(w[1])' = Key(t)'
          BY <1>0, <2>2, <4>1 DEF Keyed
        <5> QED
          BY <2>2, <4>1, <4>2, <5>1, <5>2 DEF Planned
      <4>3. CASE tasks'[t].pc = "failing"
        <5>1. ~Reported(t)'
          BY <1>3, <1>4, <3>3 DEF Closing
        <5>2. tasks'[t].plan \in {tasks[t].plan, store[Key(t)]}
          BY <3>3 DEF Worked, Does
        <5>3. \A w \in tasks'[t].plan : Started(w[1])' /\ Key(w[1])' = Key(t)'
          <6>1. \A w \in store[Key(t)] : Started(w[1])' /\ Key(w[1])' = Key(t)'
            BY <1>0, <2>2, <4>1 DEF Keyed
          <6> QED
            BY <1>2, <1>5, <1>6, <2>2, <5>2, <6>1 DEF Planned
        <5> QED
          BY <4>3, <5>1, <5>3 DEF Planned
      <4> QED
        BY <4>1, <4>2, <4>3
    <3>4. CASE u = t /\ tasks[t].pc # "plan"
      <4>1. tasks'[t].plan = tasks[t].plan
        BY <3>4 DEF Worked, Keeps
      <4>2. CASE store' = store /\ (Role(t) # "architect" \/ tasks'[t].pc # "publish")
        <5>1. \A w \in tasks'[t].plan : Started(w[1])' /\ Key(w[1])' = Key(t)'
          BY <1>2, <1>5, <1>6, <2>2, <4>1 DEF Planned
        <5> QED
          BY <1>3, <1>5, <2>1, <2>2, <4>1, <4>2, <5>1 DEF Planned, Started
      <4>3. CASE store' # store
        <5>1. ~Reported(t)'
          BY <1>3, <1>4, <3>1, <3>4, <4>3 DEF Closing
        <5>2. \A w \in tasks'[t].plan : Started(w[1])' /\ Key(w[1])' = Key(t)'
          BY <1>2, <1>5, <1>6, <2>2, <4>1 DEF Planned
        <5>3. Role(t) = "architect" => tasks'[t].pc # "publish"
          BY <3>1, <3>4, <4>3 DEF Worked, Moves, RoleOfPc, Validators
        <5> QED
          BY <2>1, <2>2, <5>1, <5>2, <5>3 DEF Planned, Started
      <4>4. Role(t) = "architect" => tasks'[t].pc # "publish"
        <5>1. tasks[t].pc \in Pcs
          BY <1>1 DEF TasksTyped, Task
        <5> QED
          BY <3>4, <5>1 DEF Worked, Moves, RoleOfPc, Validators, Pcs, Ended
      <4> QED
        BY <4>2, <4>3, <4>4
    <3> QED
      BY <3>2, <3>3, <3>4
  <2>5. CASE Quiet /\ \/ \E u \in Tasks, in \in Inputs : Begun(u, in)
                      \/ \E s \in Sessions : Emptied(s)
                      \/ UNCHANGED tasks
    <3>1. /\ tasks'[t].plan = tasks[t].plan
          /\ tasks'[t].pc = "publish" => tasks[t].pc = "publish"
      BY <1>8, <2>5 DEF Begun, Emptied, Died, Started
    <3> QED
      BY <2>3, <2>5, <3>1 DEF Quiet
  <2> QED
    BY <2>4, <2>5, StepKinds DEF vars, Quiet
<1> QED
  BY <1>7, <1>8

-----------------------------------------------------------------------------
(* The architect's snapshot.                                               *)

\* No other task is an architect, and no other's model wrote the memory.
Alone(t) == \A u \in Tasks \ {t} : Started(u) => Role(u) # "architect" /\ ~posts[u].memory

\* What a model wrote of the memory stays written.
LEMMA MemoryStays ==
  ASSUME TypeOK, RoleOfPc, [Next]_vars, NEW t \in Tasks, posts[t].memory
  PROVE  posts'[t].memory
<1>1. posts \in [Tasks -> Posts]
  BY TypeParts DEF WorldTyped
<1>2. ASSUME NEW u \in Tasks, Worked(u)
      PROVE  posts'[t].memory
  BY <1>1, <1>2 DEF Worked, Writes, Commented, Posts
<1> QED
  BY <1>2, StepKinds DEF Quiet, vars

\* How far an architect that is alone, and whose writes S3 took, has come.
Synced(t) ==
  LET pc == tasks[t].pc
      clone == vms[Session(t)].clone
  IN Role(t) = "architect" /\ Alone(t)
     /\ tasks[t].faults \cap {"sync_refused", "sync_unreachable"} = {} =>
       /\ pc = "memory_put" => tasks[t].body = Body[clone]
       /\ pc \in {"profile", "model", "plan", "publish"}
          => IF posts[t].memory THEN snapshot = Written
             ELSE Body[clone] # NoBody => snapshot = Body[clone]
       /\ pc \in {"model", "plan", "publish"} => profile = clone

Synceds == \A t \in Tasks : Synced(t)

LEMMA SyncedStep ==
  ASSUME TypeOK, RoleOfPc, Onces, Synceds, [Next]_vars
  PROVE  Synceds'
<1> SUFFICES ASSUME NEW t \in Tasks, Role(t)' = "architect", Alone(t)',
                    tasks'[t].faults \cap {"sync_refused", "sync_unreachable"} = {}
             PROVE  Synced(t)'
  BY DEF Synceds, Synced
<1>1. TasksTyped /\ vms \in [Sessions -> [clone : Versions \cup {None}, open : SUBSET Tasks]]
  BY TypeParts DEF WorldTyped
<1>2. Session(t) \in Sessions
  BY <1>1, KeysTyped
<1>3. Started(t) => /\ tasks'[t].in = tasks[t].in /\ Session(t)' = Session(t) /\ Role(t) = "architect"
                    /\ tasks[t].faults \cap {"sync_refused", "sync_unreachable"} = {}
  BY Grows DEF Role, Session
<1>4. Alone(t)
  BY Grows, MemoryStays DEF Alone, Role
<1>a. posts \in [Tasks -> Posts]
  BY TypeParts DEF WorldTyped
<1>5. CASE \E u \in Tasks : Worked(u)
  <2> PICK u \in Tasks : Worked(u)
    BY <1>5
  <2>1. CASE u # t
    <3>1. tasks'[t] = tasks[t] /\ Session(t)' = Session(t) /\ Role(t)' = Role(t)
      BY <2>1 DEF Worked, OnlyMoves, Session, Role
    <3>2. Started(u) /\ Role(u) # "architect"
      BY <1>4, <2>1 DEF Alone, Worked, Moves, Ended, Started
    <3>3. tasks[u].pc \notin {"clone", "memory_put", "profile"}
      BY <3>2 DEF RoleOfPc
    <3>a. Started(u)'
      BY <3>2, Grows
    <3>b. ~posts'[u].memory
      BY <2>1, <3>a DEF Alone
    <3>4. snapshot' = snapshot /\ profile' = profile /\ posts'[t] = posts[t]
      BY <1>a, <2>1, <3>3, <3>b DEF Worked, Writes, Commented, Posts
    <3>5. vms'[Session(t)].clone = vms[Session(t)].clone
      BY <1>1, <1>2, <3>3, KeysTyped DEF Worked, Writes
    <3> QED
      BY <1>4, <3>1, <3>4, <3>5 DEF Synceds, Synced
  <2>2. CASE u = t
    <3>1. /\ Started(t) /\ Role(t) = "architect" /\ Session(t)' = Session(t)
          /\ tasks[t].faults \cap {"sync_refused", "sync_unreachable"} = {}
      BY <1>3, <2>2 DEF Worked, Moves, Ended, Started
    <3>2. /\ tasks[t].pc \in Pcs \ Ended
          /\ tasks[t].pc = "clone" => tasks'[t].pc \in {"memory", "failing"}
          /\ tasks[t].pc = "memory" => tasks'[t].pc \in {"memory_put", "profile"}
          /\ tasks[t].pc = "memory_put" => tasks'[t].pc \in {"profile", "failing"}
          /\ tasks[t].pc = "profile" => tasks'[t].pc \in {"model", "failing"}
          /\ tasks[t].pc = "model" => tasks'[t].pc \in {"model", "plan", "failing"}
          /\ tasks[t].pc = "plan" => tasks'[t].pc \in {"publish", "failing"}
          /\ tasks[t].pc \in {"publish", "failing", "finally"}
             => tasks'[t].pc \in {"failing", "finally", "done"}
          /\ tasks[t].pc \notin {"upload", "comment", "issues", "pr"}
      BY <1>1, <2>2, <3>1 DEF Worked, Moves, RoleOfPc, Validators, TasksTyped, Task
    <3>3. /\ tasks[t].pc \notin {"memory_put", "model"} => snapshot' = snapshot
          /\ tasks[t].pc # "model" => posts'[t].memory = posts[t].memory
          /\ tasks[t].pc = "model" => \/ snapshot' = snapshot /\ posts'[t].memory = posts[t].memory
                                      \/ snapshot' = Written /\ posts'[t].memory
          /\ tasks[t].pc # "profile" => profile' = profile
      BY <1>a, <2>2 DEF Worked, Writes, Commented, Posts
    <3>4. tasks[t].pc # "clone" => vms'[Session(t)].clone = vms[Session(t)].clone
      BY <1>1, <1>2, <2>2 DEF Worked, Writes
    <3>5. /\ tasks[t].pc # "memory" => tasks'[t].body = tasks[t].body
          /\ tasks[t].pc = "memory" /\ tasks'[t].pc = "profile"
             => Body[vms[Session(t)].clone] \in {NoBody, snapshot}
          /\ tasks[t].pc = "memory" /\ tasks'[t].pc = "memory_put"
             => tasks'[t].body = Body[vms[Session(t)].clone]
          /\ tasks[t].pc = "memory_put" /\ tasks'[t].pc = "profile" => snapshot' = tasks[t].body
          /\ tasks[t].pc = "profile" /\ tasks'[t].pc = "model"
             => profile' = vms[Session(t)].clone
      BY <2>2 DEF Worked, Keeps, Does
    <3>6. /\ Synced(t)
          /\ tasks[t].pc \in {"memory", "memory_put", "profile"} => ~posts[t].memory
      BY DEF Synceds, Onces, Once, Early
    <3>7. CASE tasks[t].pc \in {"clone", "publish", "failing", "finally"}
      BY <3>2, <3>7 DEF Synced
    <3>8. CASE tasks[t].pc = "memory"
      BY <3>1, <3>2, <3>3, <3>4, <3>5, <3>6, <3>8 DEF Synced
    <3>9. CASE tasks[t].pc = "memory_put"
      BY <1>4, <3>1, <3>2, <3>3, <3>4, <3>5, <3>6, <3>9 DEF Synced
    <3>10. CASE tasks[t].pc = "profile"
      BY <1>4, <3>1, <3>2, <3>3, <3>4, <3>5, <3>6, <3>10 DEF Synced
    <3>11. CASE tasks[t].pc \in {"model", "plan"}
      BY <1>4, <3>1, <3>2, <3>3, <3>4, <3>5, <3>6, <3>11 DEF Synced
    <3> QED
      BY <3>2, <3>7, <3>8, <3>9, <3>10, <3>11 DEF Pcs
  <2> QED
    BY <2>1, <2>2
<1>6. CASE Quiet /\ \E u \in Tasks, in \in Inputs : Begun(u, in)
  <2> PICK u \in Tasks, in \in Inputs : Begun(u, in)
    BY <1>6
  <2>1. CASE u = t
    <3>1. tasks'[t].pc = "clone"
      BY <2>1 DEF Begun, Role
    <3> QED
      BY <3>1 DEF Synced
  <2>2. CASE u # t
    <3>1. tasks'[t] = tasks[t] /\ Session(t)' = Session(t) /\ Role(t)' = Role(t)
      BY <2>2 DEF Begun, Session, Role
    <3>2. vms'[Session(t)].clone = vms[Session(t)].clone
      BY <1>1, <1>2 DEF Begun
    <3> QED
      BY <1>4, <1>6, <3>1, <3>2 DEF Quiet, Synceds, Synced
  <2> QED
    BY <2>1, <2>2
<1>7. CASE Quiet /\ \E s \in Sessions : Emptied(s)
  <2> PICK s \in Sessions : Emptied(s)
    BY <1>7
  <2>1. CASE tasks'[t].pc \notin {"memory_put", "profile", "model", "plan", "publish"}
    BY <2>1 DEF Synced
  <2>2. CASE tasks'[t].pc \in {"memory_put", "profile", "model", "plan", "publish"}
    <3>1. tasks'[t] = tasks[t] /\ Session(t) # s
      BY <2>2 DEF Emptied, Died, Active, Ended
    <3>2. vms'[Session(t)] = vms[Session(t)] /\ Session(t)' = Session(t) /\ Role(t)' = Role(t)
      BY <1>1, <1>2, <3>1 DEF Emptied, Session, Role
    <3> QED
      BY <1>4, <1>7, <3>1, <3>2 DEF Quiet, Synceds, Synced
  <2> QED
    BY <2>1, <2>2
<1>8. CASE Quiet /\ UNCHANGED <<tasks, vms>>
  BY <1>4, <1>8 DEF Quiet, Synceds, Synced, Session, Role
<1> QED
  BY <1>5, <1>6, <1>7, <1>8, StepKinds DEF vars, Quiet

-----------------------------------------------------------------------------
(* The theorems.                                                           *)

\* The inductive invariant.
IInv == /\ TypeOK /\ RoleOfPc /\ EventsOf /\ Outcomes /\ Onces /\ Storeds
        /\ Spawneds /\ Planneds /\ Synceds

LEMMA InitInv == Init => IInv
<1> SUFFICES ASSUME Init
             PROVE  IInv
  OBVIOUS
<1>1. \A t \in Tasks : tasks[t] = NoTask
  BY DEF Init
<1>2. NoTask \in Task
  <2>1. (CHOOSE in \in Inputs : TRUE) \in Inputs
    BY ReportsAssumption
  <2>2. NoProposal \in Proposals
    BY ReportsAssumption DEF NoProposal, Proposals
  <2> QED
    BY <2>1, <2>2 DEF NoTask, Task, Pcs, Ended
<1>3. TypeOK
  <2>1. TasksTyped
    BY <1>2 DEF Init, TasksTyped
  <2>2. OpenIsRunning
    BY <1>1 DEF Init, OpenIsRunning, NoVm, Active, NoTask, Ended
  <2>3. EventsTyped /\ left \in Nat
    BY ReportsAssumption DEF Init, EventsTyped
  <2>4. store \in [Sessions -> SUBSET Artifacts]
    BY DEF Init, s3_key, Sessions
  <2>5. /\ posts \in [Tasks -> Posts]
        /\ prs \in [{in.run : in \in Inputs} -> SUBSET ({"branch", "commit", "open"} \X Tasks)]
        /\ vms \in [Sessions -> [clone : Versions \cup {None}, open : SUBSET Tasks]]
        /\ main \in Versions /\ profile \in Versions \cup {None}
        /\ snapshot \in Bodies \cup {NoBody, Written}
    BY DEF Init, NoPosts, NoVm, Posts
  <2> QED
    BY <2>1, <2>2, <2>3, <2>4, <2>5, TypeParts DEF WorldTyped
<1>4. events = {} /\ \A t \in Tasks : ~Reported(t) /\ ~RunFailed(t)
  BY DEF Init, Reported, RunFailed
<1>a. \A t \in Tasks : /\ tasks[t].pc = "idle" /\ tasks[t].plan = {} /\ tasks[t].pr = "none"
                       /\ tasks[t].proposal.issues = 0
  <2>1. /\ NoTask.pc = "idle" /\ NoTask.plan = {} /\ NoTask.pr = "none"
        /\ NoTask.proposal = NoProposal
    BY DEF NoTask
  <2> QED
    BY <1>1, <2>1 DEF NoProposal
<1>5. RoleOfPc /\ EventsOf /\ Outcomes
  BY <1>a, <1>4 DEF RoleOfPc, EventsOf, Outcomes, Outcome
<1>6. Onces
  BY <1>a DEF Init, Onces, Once, NoPosts
<1>7. Storeds /\ Spawneds /\ Synceds
  BY <1>a, <1>4 DEF Storeds, Stored, Spawneds, Spawned, Synceds, Synced
<1>8. Planneds
  <2>1. \A k \in Sessions : store[k] = {}
    BY DEF Init, s3_key, Sessions
  <2> QED
    BY <1>a, <1>4, <2>1 DEF Planneds, Keyed, Planned
<1> QED
  BY <1>3, <1>5, <1>6, <1>7, <1>8 DEF IInv

LEMMA StepInv == IInv /\ [Next]_vars => IInv'
  BY TypeStep, RoleStep, EventsStep, OutcomeStep, OnceStep, StoredStep, SpawnedStep,
     PlannedStep,
     SyncedStep DEF IInv

LEMMA Invariant == Spec => []IInv
<1> QED
  BY InitInv, StepInv, PTL DEF Spec

\* Types, and the open async tasks of a microVM are the running threads of its
\* session (add_async_task and complete_async_task of every app.py).
THEOREM SpecTypeOK == Spec => []TypeOK
<1>1. IInv => TypeOK
  BY DEF IInv
<1> QED
  BY <1>1, Invariant, PTL

\* A run is given one outcome of a task, unless the report's publication raised,
\* and best-effort failures do not cost it its report (the except clauses).
THEOREM SpecOneOutcome == Spec => []OneOutcome
<1>1. IInv => OneOutcome
  BY DEF IInv, Outcomes, Outcome, OneOutcome
<1> QED
  BY <1>1, Invariant, PTL

\* What a report tells of has happened: its artifact is stored, and a completed
\* research run has posted and proposed all it meant to (upload_review,
\* run_research).
THEOREM SpecReportsAreTrue == Spec => []ReportsAreTrue
<1>1. IInv => ArtifactBehindReport
  BY DEF IInv, Storeds, Stored, WroteIt, ArtifactBehindReport
<1>2. IInv => CompletedMeansDone
  <2> SUFFICES ASSUME IInv, NEW t \in Tasks, Role(t) = "proposer", Reported(t)
               PROVE  LET p == tasks[t].proposal
                      IN  /\ p.comment => posts[t].comments = 1
                          /\ posts[t].issues = p.issues
                          /\ p.edits => {"branch", "commit", "open"} \X {t}
                                        \subseteq prs[tasks[t].in.run]
    BY DEF CompletedMeansDone
  <2>1. Spawned(t)
    BY DEF IInv, Spawneds
  <2> QED
    BY <2>1 DEF Spawned
<1> QED
  BY <1>1, <1>2, Invariant, PTL DEF ReportsAreTrue

\* DESIGN.READY describes a plan that is stored under the key it names
\* (fetch_plan_body).
THEOREM SpecDesignHasPlan == Spec => []DesignHasPlan
<1>1. IInv => DesignHasPlan
  <2> SUFFICES ASSUME IInv, NEW e \in events, e.type = "DESIGN.READY"
               PROVE  /\ e.of # {} /\ store[Key(e.by)] # {}
                      /\ \A w \in e.of : Key(w[1]) = Key(e.by)
                      /\ e.of = store[Key(e.by)] \/ Twins(e.by) # {}
    BY DEF DesignHasPlan
  <2>1. /\ e.by \in Tasks /\ Role(e.by) \in Roles /\ e.of = tasks[e.by].plan
        /\ e.type \in {ReadyType(Role(e.by)), "RUN.FAILED"}
    BY TypeParts, KeysTyped DEF IInv, EventsTyped, EventsOf
  <2>2. e.type = ReadyType(Role(e.by)) /\ Role(e.by) = "architect"
    BY <2>1 DEF ReadyType, Roles, Validators
  <2>3. Reported(e.by) /\ Planned(e.by)
    BY <2>1, <2>2 DEF Reported, IInv, Planneds
  <2> QED
    BY <2>1, <2>2, <2>3 DEF Planned
<1> QED
  BY <1>1, Invariant, PTL

\* The application posts one comment of a task, and no issue of its proposal
\* twice, however often its model is replaced and whatever the models post
\* through their tools (invoke_with_fallback).
THEOREM SpecPostsOnce == Spec => []PostsOnce
<1>1. IInv => PostsOnce
  BY DEF IInv, Onces, Once, PostsOnce
<1> QED
  BY <1>1, Invariant, PTL

\* An architect alone, whose writes S3 took, leaves the memory files of its
\* clone in S3, cut as they are, or what its own model wrote there instead
\* (sync_memory_md_from_clone, existing_object_matches, write_memory_md).
THEOREM SpecSnapshotIsTheClone == Spec => []SnapshotIsTheClone
<1>1. IInv => SnapshotIsTheClone
  <2> SUFFICES ASSUME IInv, NEW t \in Tasks,
                      Role(t) = "architect", tasks[t].pc \in {"model", "plan", "publish"},
                      tasks[t].faults \cap {"sync_refused", "sync_unreachable"} = {},
                      \A u \in Tasks \ {t} : Started(u) => Role(u) # "architect" /\ ~posts[u].memory
               PROVE  LET clone == vms[Session(t)].clone
                      IN  /\ profile = clone
                          /\ IF posts[t].memory THEN snapshot = Written
                             ELSE Body[clone] # NoBody => snapshot = Body[clone]
    BY DEF SnapshotIsTheClone
  <2>1. Synced(t) /\ Alone(t)
    BY DEF IInv, Synceds, Alone
  <2> QED
    BY <2>1 DEF Synced
<1> QED
  BY <1>1, Invariant, PTL
=============================================================================
