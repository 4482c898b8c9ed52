------------------------------ MODULE Lessons -------------------------------
(***************************************************************************)
(* The retrospector: captures write lessons one by one into the memory     *)
(* buffer of their destination; once a week the dispatcher has each        *)
(* destination's buffer consolidated into a MEMORY.md PR and a SKILL.md PR *)
(* through repo_helper, and what was shipped or discarded is deleted.      *)
(* Captures, consolidations and human edits of main overlap, any call may  *)
(* fail, a microVM may end anywhere, and a fan-out that fails half-way is  *)
(* run again.                                                              *)
(*                                                                         *)
(* A MEMORY.md or SKILL.md is the set of lessons it tells.                 *)
(***************************************************************************)
EXTENDS RepoHelper

CONSTANTS Repos,                \* the repositories the tasks may find
          Lessons, PathOf,      \* the file a lesson belongs to
          SkillPaths,           \* SKILL.md files; the other paths are MEMORY.md scopes
          Projects,             \* project slugs of the repository, in scan order
          SessionOf,            \* per slug, the session id of its buffer
          Waiting,              \* per session id, the lessons already waiting
          BusEvents,            \* events of the bus: type, slug, and a PR or issue url
          Bullets,              \* what one capture may come up with
          Malformed,            \* a MEMORY.md that parse rejects
          BranchFor,            \* per second and kind, the branch name
          Bounds                \* how often the world acts, per kind

Tasks == Callers
Slugs == {Projects[i] : i \in DOMAIN Projects}
Sessions == {SessionOf[g] : g \in Slugs}
Seconds == {sk[1] : sk \in DOMAIN BranchFor}
Kinds == {"memory", "skills"}
\* retrospective/{destination}/{timestamp}-{kind}
Retrospectives == {BranchFor[sk] : sk \in DOMAIN BranchFor}
BoundKinds == {"week", "capture", "edit", "fault"}

CAPTURE_EVENT_TYPES ==
  {"RUN.COMPLETED", "RUN.FAILED", "RUN.CANCEL_REQUESTED", "IMPL_PR.OPENED", "REVIEW.READY",
   "CHECKS.PASSED", "CHECKS.FAILED", "IMPL.ITERATION_REQUESTED"}

ASSUME LessonsAssumption ==
  /\ Contents = (SUBSET Lessons) \cup {Malformed} /\ \A c \in SUBSET Lessons : c # Malformed
  /\ PathOf \in [Lessons -> Paths] /\ SkillPaths \subseteq Paths
  /\ Projects # <<>> /\ Projects \in Seq(Slugs) /\ Slugs \subseteq DOMAIN SessionOf
  /\ \A s \in Sessions : \A e \in Waiting[s] : e.lesson \in Lessons
  /\ Bullets \subseteq Seq(Lessons)
  \* A branch is named by the second and the kind, and not before that second.
  /\ Seconds \subseteq Nat /\ DOMAIN BranchFor = Seconds \X Kinds
  /\ BranchFor \in [DOMAIN BranchFor -> Branches \ {Base}]
  /\ \A x, y \in DOMAIN BranchFor : BranchFor[x] = BranchFor[y] => x = y
  /\ \A repo \in Repos : IsRepo(repo) /\ DOMAIN repo.refs \cap Retrospectives = {}
  /\ Bounds \in [BoundKinds -> Nat]

VARIABLES buffer,   \* per session id, the memory events
          fanout,   \* slugs the dispatcher has still to invoke
          task, now, left,
          captured, \* history: every event ever written
          deleted,  \* history: each event deleted, the second of the consolidation
                    \* that did so, and whether its plan discarded the event
          named     \* history: per second, the consolidations that named branches in it

history == <<captured, deleted, named>>
vars == <<hvars, buffer, fanout, task, now, left, history>>
others == <<buffer, fanout, now, left, history>>

NoTask == [pc |-> "idle", slug |-> Projects[1], bullets |-> <<>>, listed |-> {}, ship |-> {},
           drop |-> {}, reads |-> {}, files |-> [p \in {} |-> {}], at |-> 0, kind |-> "memory",
           todo |-> {}]

Init ==
  /\ \E repo \in Repos : HInit(repo)
  /\ buffer = [s \in Sessions |-> Waiting[s]]
  /\ fanout = <<>>
  /\ task = [t \in Tasks |-> NoTask]
  /\ now \in {x \in Seconds : \A y \in Seconds : x <= y}
  /\ left = Bounds
  /\ captured = UNION {Waiting[s] : s \in Sessions} /\ deleted = {}
  /\ named = [s \in Seconds |-> 0]

Spend(kind) == left[kind] > 0 /\ left' = [left EXCEPT ![kind] = @ - 1]
Idle(t) == task[t].pc \in {"idle", "done"}
Active(t) == task[t].pc \notin {"idle", "done", "dead"}
Step(t, from, to) == task[t].pc = from /\ task' = [task EXCEPT ![t].pc = to]
\* An exception is logged and swallowed; the async task completes.
GivesUp(t) == task' = [task EXCEPT ![t] = [NoTask EXCEPT !.pc = "done"]]
Session(t) == SessionOf[task[t].slug]

-----------------------------------------------------------------------------
(* The dispatcher Lambda.                                                  *)

\* build_capture_input: None without a project or anything to attach a lesson to.
has_capture_input(event) == event.slug \in Slugs /\ event.url

\* An event of the bus, delivered once or again; other types are ignored.
handle_capture_event(t) ==
  /\ Idle(t) /\ Spend("capture")
  /\ \E event \in BusEvents, b \in Bullets :
       /\ event.type \in CAPTURE_EVENT_TYPES /\ has_capture_input(event)
       /\ task' = [task EXCEPT ![t] = [NoTask EXCEPT !.pc = "bullets", !.slug = event.slug,
                                                    !.bullets = b]]
  /\ UNCHANGED <<hvars, buffer, fanout, now, history>>

\* The scheduled rule: active_projects, one invocation each.
handle_scheduled_consolidate ==
  /\ fanout = <<>> /\ Spend("week")
  /\ fanout' = Projects
  /\ UNCHANGED <<hvars, buffer, task, now, history>>

\* An invocation that fails, before or after it started the runtime, has the
\* Lambda retried, from the first slug.
invoke_runtime(t) ==
  /\ Idle(t) /\ fanout # <<>>
  /\ task' = [task EXCEPT ![t] = [NoTask EXCEPT !.pc = "list", !.slug = Head(fanout)]]
  /\ \/ fanout' = Tail(fanout) /\ UNCHANGED left
     \/ fanout' = Projects /\ Spend("fault")
  /\ UNCHANGED <<hvars, buffer, now, history>>

invoke_runtime_fails ==
  /\ fanout # <<>> /\ Spend("fault")
  /\ fanout' = Projects
  /\ UNCHANGED <<hvars, buffer, task, now, history>>

-----------------------------------------------------------------------------
(* run_capture: one memory event per bullet.                               *)

write_bullets(t) ==
  /\ task[t].pc = "bullets"
  /\ IF task[t].bullets = <<>>
       THEN GivesUp(t) /\ UNCHANGED <<buffer, captured>>
       ELSE LET e == [n |-> Cardinality(captured) + 1, lesson |-> Head(task[t].bullets)]
            IN /\ buffer' = [buffer EXCEPT ![Session(t)] = @ \cup {e}]
               /\ captured' = captured \cup {e}
               /\ task' = [task EXCEPT ![t].bullets = Tail(@)]
  /\ UNCHANGED <<hvars, fanout, now, left, deleted, named>>

-----------------------------------------------------------------------------
(* run_consolidate.                                                        *)

\* list_events of the destination's session; nothing pending: done.
list_events(t) ==
  /\ task[t].pc = "list"
  /\ IF buffer[Session(t)] = {} THEN GivesUp(t)
     ELSE task' = [task EXCEPT ![t].pc = "plan", ![t].listed = buffer[Session(t)]]
  /\ UNCHANGED <<hvars, others>>

Scopes(events) == {PathOf[e.lesson] : e \in events}
intended_scopes(t) == Scopes(task[t].ship) \ SkillPaths

\* The agent's ConsolidationPlan ships some of the listed events and discards
\* others; every shipped lesson is in an addition or a skill file.  The branch
\* names take the second in which the PRs are begun; nothing keeps another
\* consolidation out of it.
consolidate(t) ==
  /\ task[t].pc = "plan"
  /\ \E ship \in SUBSET task[t].listed : \E drop \in SUBSET (task[t].listed \ ship) :
       task' = [task EXCEPT ![t].pc = "read", ![t].ship = ship, ![t].drop = drop,
                            ![t].reads = Scopes(ship) \ SkillPaths, ![t].at = now]
  /\ named' = [named EXCEPT ![now] = @ + 1]
  /\ now' \in {now, now + 1} \cap Seconds
  /\ UNCHANGED <<hvars, buffer, fanout, left, captured, deleted>>

LessonsFor(t, p) == {e.lesson : e \in {f \in task[t].ship : PathOf[f.lesson] = p}}
File(p, c) == [q \in {p} |-> c]
Union(f, g) == [q \in DOMAIN f \cup DOMAIN g |-> IF q \in DOMAIN g THEN g[q] ELSE f[q]]
Ask(t, op, branch, files, waiting) ==
  /\ handler(t, [op |-> op, branch |-> branch, files |-> files, pr |-> 0])
  /\ task' = [task EXCEPT ![t].pc = waiting]
  /\ UNCHANGED others
Answers(t, waiting) == task[t].pc = waiting /\ At(t, "answered")

\* memory_files_for: fetch_file on main, one scope after another.
fetch_file(t) ==
  /\ task[t].pc = "read" /\ task[t].reads # {}
  /\ LET p == CHOOSE q \in task[t].reads : TRUE
     IN Ask(t, "get_file", Base, File(p, {}), "reading")

parse_fails(c) == c = Malformed

\* parse, with_appended, render; a MEMORY.md that parse rejects is skipped.
append_additions(t) ==
  /\ Answers(t, "reading") /\ calls[t].answer.ok
  /\ LET p == CHOOSE q \in DOMAIN calls[t].req.files : TRUE
         a == calls[t].answer
         doc == IF a.exists THEN a.content ELSE {}
     IN task' = [task EXCEPT ![t].pc = "read", ![t].reads = @ \ {p},
          ![t].files = IF parse_fails(doc) THEN @ ELSE Union(@, File(p, doc \cup LessonsFor(t, p)))]
  /\ UNCHANGED <<hvars, others>>

\* Mutant: the scopes that were asked for.
scopes_written_intended(t) == intended_scopes(t)
scopes_written(t) == DOMAIN task[t].files

SkillFiles(t) == [p \in Scopes(task[t].ship) \cap SkillPaths |-> LessonsFor(t, p)]
FilesOf(t) == IF task[t].kind = "memory" THEN task[t].files ELSE SkillFiles(t)
Branch(t) == BranchFor[<<task[t].at, task[t].kind>>]

\* event_ids: the shipped ones only when every scope was written.
consumed(t) ==
  task[t].drop \cup (IF intended_scopes(t) = scopes_written(t) THEN task[t].ship ELSE {})

\* open_consolidation_prs: the memory PR, the skills PR, each only with files.
open_consolidation_prs(t) ==
  /\ task[t].pc = "read" /\ task[t].reads = {}
  /\ IF DOMAIN FilesOf(t) # {}
       THEN Ask(t, "create_branch", Branch(t), File(Base, {}), "branching")
       ELSE /\ IF task[t].kind = "memory"
                 THEN task' = [task EXCEPT ![t].kind = "skills"]
                 ELSE task' = [task EXCEPT ![t].pc = "delete", ![t].todo = consumed(t)]
            /\ UNCHANGED <<hvars, others>>

commit(t) ==
  /\ Answers(t, "branching") /\ calls[t].answer.ok
  /\ Ask(t, "commit_files", Branch(t), FilesOf(t), "committing")

open(t) ==
  /\ Answers(t, "committing") /\ calls[t].answer.ok
  /\ Ask(t, "open_pr", Branch(t), File(Base, {}), "opening")

opened(t) ==
  /\ Answers(t, "opening") /\ calls[t].answer.ok
  /\ IF task[t].kind = "memory"
       THEN task' = [task EXCEPT ![t].pc = "read", ![t].kind = "skills"]
       ELSE task' = [task EXCEPT ![t].pc = "delete", ![t].todo = consumed(t)]
  /\ UNCHANGED <<hvars, others>>

\* invoke_repo_helper raises on an error envelope.
invoke_repo_helper(t) ==
  /\ task[t].pc \in {"reading", "branching", "committing", "opening"}
  /\ At(t, "answered") /\ ~calls[t].answer.ok
  /\ GivesUp(t)
  /\ UNCHANGED <<hvars, others>>

\* delete_event per id, in the order the plan lists them; one that fails is
\* logged and left.
delete_consumed_events(t) ==
  /\ task[t].pc = "delete"
  /\ IF task[t].todo = {}
       THEN GivesUp(t) /\ UNCHANGED <<buffer, left, deleted>>
       ELSE \E e \in task[t].todo :
              /\ task' = [task EXCEPT ![t].todo = @ \ {e}]
              /\ \/ /\ buffer' = [buffer EXCEPT ![Session(t)] = @ \ {e}]
                    /\ deleted' = deleted \cup {[event |-> e, at |-> task[t].at,
                                                 discarded |-> e \in task[t].drop]}
                    /\ UNCHANGED left
                 \/ Spend("fault") /\ UNCHANGED <<buffer, deleted>>
  /\ UNCHANGED <<hvars, fanout, now, captured, named>>

\* AgentCore Memory, the model or the gateway fails.
TaskRaises(t) ==
  /\ task[t].pc \in {"bullets", "list", "plan"} /\ Spend("fault")
  /\ GivesUp(t)
  /\ UNCHANGED <<hvars, buffer, fanout, now, history>>

AnswerLost(t) == At(t, "answered")' /\ ~calls'[t].answer.ok /\ <<refs, prs>>' # <<refs, prs>>

repo_helper(t) ==
  /\ \/ /\ Write(t) \/ Reading(t)
        /\ IF AnswerLost(t) THEN Spend("fault") ELSE UNCHANGED left
     \/ RequestFails(t) /\ Spend("fault")
  /\ UNCHANGED <<buffer, fanout, task, now, history>>

dispatch_by_mode(t) ==
  \/ write_bullets(t) \/ list_events(t) \/ consolidate(t) \/ fetch_file(t) \/ append_additions(t)
  \/ open_consolidation_prs(t) \/ commit(t) \/ open(t) \/ opened(t) \/ invoke_repo_helper(t)
  \/ delete_consumed_events(t) \/ TaskRaises(t)
  \/ repo_helper(t)

TaskDies(t) ==
  /\ Active(t) /\ Spend("fault")
  /\ task' = [task EXCEPT ![t] = [NoTask EXCEPT !.pc = "dead"]]
  /\ UNCHANGED <<hvars, buffer, fanout, now, history>>

\* A human edit merged to main breaks a MEMORY.md, or mends it.
HumanEdits ==
  /\ Spend("edit")
  /\ \E p \in Paths \ SkillPaths, c \in {Malformed, {}} :
       /\ TreeOf(refs[Base])[p] # c /\ Push(Base, p, c)
  /\ UNCHANGED <<buffer, fanout, task, now, history>>

Next == \/ \E t \in Tasks : handle_capture_event(t) \/ invoke_runtime(t) \/ dispatch_by_mode(t)
                            \/ TaskDies(t)
        \/ handle_scheduled_consolidate \/ invoke_runtime_fails \/ HumanEdits

Spec == Init /\ [][Next]_vars

-----------------------------------------------------------------------------
\* The lesson is in the file it belongs to, at the tip of a branch with a PR.
InPr(e) == \E n \in DOMAIN prs :
  LET c == TreeOf(HeadOf(n))[PathOf[e.lesson]]
  IN c \notin {NoFile, Malformed} /\ e.lesson \in c

\* Two consolidations have the same branches.
Shared(second) == named[second] > 1

\* No lesson is lost: an event leaves the buffer only when a plan discarded it or
\* a PR tells its lesson, however captures, consolidations, failures, malformed
\* files and repeated fan-outs interleave; unless the consolidation that deleted
\* it named its branches in a second that another one named its own in, before
\* or since.
NoLessonLost ==
  \A e \in captured : \/ \E s \in Sessions : e \in buffer[s]
                      \/ \E d \in deleted : d.event = e /\ (d.discarded \/ Shared(d.at))
                      \/ InPr(e)

\* The same without the exception, as docs say of the buffer; it does not hold.
NoLessonEverLost ==
  \A e \in captured : \/ \E s \in Sessions : e \in buffer[s]
                      \/ \E d \in deleted : d.event = e /\ d.discarded
                      \/ InPr(e)
=============================================================================
