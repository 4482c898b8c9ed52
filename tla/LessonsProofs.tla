---------------------------- MODULE LessonsProofs ----------------------------
(***************************************************************************)
(* No lesson is lost, for any lessons, slugs, buffers, repository and      *)
(* number of concurrent captures and consolidations, except by a           *)
(* consolidation that shares the second of its branches with another one.  *)
(***************************************************************************)
EXTENDS Lessons, SequenceTheorems, TLAPS

-----------------------------------------------------------------------------
(* The invariant.                                                          *)

CallFields == {"pc", "req", "sha", "page", "items", "since", "answer"}
TaskFields == {"pc", "slug", "bullets", "listed", "ship", "drop", "reads", "files", "at", "kind",
               "todo"}

LessonEvents(evs) == \A e \in evs : e.lesson \in Lessons

GithubOK == /\ RefsOK(refs) /\ prs \in Seq([head : Branches, open : BOOLEAN])
            /\ \A n \in DOMAIN prs : prs[n].head \in DOMAIN refs

\* A branch has a PR; a branch has these files.
HasPr(b) == \E n \in DOMAIN prs : prs[n].head = b
HasFiles(b, files) == b \in DOMAIN refs /\ \A p \in DOMAIN files : TreeOf(refs[b])[p] = files[p]
\* What is to be shipped is in a PR, if there is something.
Shipped(b, files) == DOMAIN files = {} \/ (HasPr(b) /\ HasFiles(b, files))

\* A PR of the retrospector tells the lesson of e.
Tells(c, e) == c \notin {NoFile, Malformed} /\ e.lesson \in c
ToldBy(e, b) == b \in DOMAIN refs /\ HasPr(b) /\ Tells(TreeOf(refs[b])[PathOf[e.lesson]], e)
ToldAt(e, second) == \E kind \in Kinds : ToldBy(e, BranchFor[<<second, kind>>])

\* A call is one of the four the retrospector makes; its pc fits the operation.
Writes == {"create_branch", "commit_files", "open_pr"}
PcsOf(op) == CASE op = "get_file" -> {"read"}
               [] op = "create_branch" -> {"base_ref", "post_ref", "get_ref"}
               [] op = "commit_files" -> {"tip", "objects", "patch_ref"}
               [] op = "open_pr" -> {"post_pr", "find_pr"}
Files(f) == \E P \in SUBSET Paths : f \in [P -> SUBSET Lessons]
IsRunning(q) == q.pc \notin {"idle", "answered"}
CallOK(q) == q.pc # "idle" =>
  /\ q.req.op \in {"get_file"} \cup Writes
  /\ q.pc \in {"answered"} \cup PcsOf(q.req.op)
  /\ q.req.op \in Writes => q.req.branch \in Retrospectives
  /\ q.req.op = "get_file" => q.req.branch = Base /\ \E p \in Paths : DOMAIN q.req.files = {p}
  /\ q.req.op = "get_file" /\ q.pc = "answered" /\ q.answer.ok =>
       (q.answer.exists => q.answer.content \in Contents)
  /\ q.req.op = "commit_files" => Files(q.req.files)
  /\ q.pc \in {"post_ref", "objects", "patch_ref"} => q.sha \in Seq(Trees)
  /\ q.pc \in {"objects", "patch_ref"} => q.req.branch \in DOMAIN refs
  /\ q.pc = "patch_ref" => \A p \in DOMAIN q.req.files : TreeOf(q.sha)[p] = q.req.files[p]
CallsOK == DOMAIN calls = Tasks /\ \A t \in Tasks : DOMAIN calls[t] = CallFields /\ CallOK(calls[t])

\* The places of a task that has named its branches.
Shipping == {"read", "reading", "branching", "committing", "opening", "delete"}
TellsAll(evs, c) == \A e \in evs : e.lesson \in c
TaskOK(k) ==
  /\ DOMAIN k = TaskFields
  /\ k.pc \in {"idle", "bullets", "list", "plan", "done", "dead"} \cup Shipping
  /\ k.slug \in Slugs /\ k.bullets \in Seq(Lessons)
  /\ LessonEvents(k.listed) /\ LessonEvents(k.ship) /\ LessonEvents(k.drop)
  /\ k.reads \subseteq Paths
  /\ Files(k.files)
  /\ \A p \in DOMAIN k.files : TellsAll({e \in k.ship : PathOf[e.lesson] = p}, k.files[p])
  /\ k.kind \in Kinds /\ (k.kind = "skills" => k.reads = {} /\ k.pc # "reading")
  /\ k.pc \in Shipping => k.at \in Seconds
  /\ k.pc \notin Shipping => k.kind = "memory" /\ DOMAIN k.files = {}
  /\ k.pc \in {"branching", "committing", "opening", "delete"} => k.reads = {}
TasksOK == DOMAIN task = Tasks /\ \A t \in Tasks : TaskOK(task[t])

BufferOK == /\ DOMAIN buffer = Sessions /\ \A s \in Sessions : LessonEvents(buffer[s])
            /\ fanout \in Seq(Slugs)

\* Who may write to a branch of the retrospector: the task that named it, and a
\* call that is still running.
BranchAt(k, kind) == BranchFor[<<k.at, kind>>]
Holds(k, q, b) == \/ k.pc \in Shipping /\ \E kind \in Kinds : b = BranchAt(k, kind)
                  \/ IsRunning(q) /\ q.req.op \in Writes /\ b = q.req.branch
HeldBy(t, b) == Holds(task[t], calls[t], b)

\* The branches that no two consolidations share.
Sole == {BranchFor[x] : x \in {y \in DOMAIN BranchFor : ~Shared(y[1])}}

\* Nobody else may, unless the second is shared; in a second in which nobody named
\* a branch nobody holds one, and there is none.
HoldersOK ==
  /\ \A b \in Sole : \A t, u \in Tasks : HeldBy(t, b) /\ HeldBy(u, b) => t = u
  /\ \A x \in DOMAIN BranchFor : named[x[1]] = 0 =>
       BranchFor[x] \notin DOMAIN refs /\ \A t \in Tasks : ~HeldBy(t, BranchFor[x])
  /\ now \in Seconds /\ named \in [Seconds -> Nat]

\* Nothing is written to a branch once it has a PR, unless its second is shared.
Writing(q) == IsRunning(q) /\ q.req.op \in {"create_branch", "commit_files"}
WriterOK(q) == Writing(q) /\ q.req.branch \in Sole => ~HasPr(q.req.branch)
WritersOK == \A t \in Tasks : WriterOK(calls[t])

\* What a task has shipped by the place it is at.
SkillsOf(k) == [p \in Scopes(k.ship) \cap SkillPaths |->
                  {e.lesson : e \in {f \in k.ship : PathOf[f.lesson] = p}}]
FilesAt(k) == IF k.kind = "memory" THEN k.files ELSE SkillsOf(k)
Ok(q) == q.pc = "answered" /\ q.answer.ok
\* The call a task waits for; no other task waits.
Waits == [reading |-> "get_file", branching |-> "create_branch", committing |-> "commit_files",
          opening |-> "open_pr"]
WaitsFor(k, q) ==
  /\ k.pc \in DOMAIN Waits => q.req.op = Waits[k.pc] /\ q.pc # "idle"
  /\ k.pc \in {"branching", "committing", "opening"} => q.req.branch = BranchAt(k, k.kind)
  /\ k.pc = "committing" => q.req.files = FilesAt(k)
  /\ k.pc \notin DOMAIN Waits \cup {"dead"} => ~IsRunning(q)

\* What it has shipped, and what it has not begun to.
Progress(k, q) ==
  /\ k.pc \notin {"opening", "delete"} => ~HasPr(BranchAt(k, k.kind))
  /\ k.kind = "memory" => ~HasPr(BranchAt(k, "skills"))
  /\ k.kind = "skills" => Shipped(BranchAt(k, "memory"), k.files)
  /\ k.pc = "committing" /\ Ok(q) => HasFiles(BranchAt(k, k.kind), FilesAt(k))
  /\ k.pc = "opening" => HasFiles(BranchAt(k, k.kind), FilesAt(k))
  /\ k.pc = "opening" /\ Ok(q) => HasPr(BranchAt(k, k.kind))
  /\ k.pc = "delete" => k.kind = "skills" /\ \A e \in k.todo : e \in k.drop \/ ToldAt(e, k.at)
TaskInv(k, q) == WaitsFor(k, q) /\ (k.pc \in Shipping /\ ~Shared(k.at) => Progress(k, q))
TasksInv == \A t \in Tasks : TaskInv(task[t], calls[t])

\* An event that left the buffer was deleted; and what was deleted was discarded,
\* or is told by the consolidation that deleted it, or that one's second is shared.
DeletionOK(d) == d.at \in Seconds /\ (d.discarded \/ Shared(d.at) \/ ToldAt(d.event, d.at))
LessonInv ==
  /\ \A e \in captured : (\E s \in Sessions : e \in buffer[s]) \/ \E d \in deleted : d.event = e
  /\ \A d \in deleted : DeletionOK(d)

IInv == /\ GithubOK /\ CallsOK /\ TasksOK /\ BufferOK
        /\ HoldersOK /\ WritersOK /\ TasksInv /\ LessonInv

-----------------------------------------------------------------------------
(* What a step of a call does to GitHub.                                   *)

TypeOfPr == [head : Branches, open : BOOLEAN]

LEMMA TreeOfType ==
  ASSUME NEW s \in Seq(Trees)
  PROVE  TreeOf(s) \in Trees
<1>1. NoTree \in Trees
  BY DEF NoTree, Trees
<1> QED
  BY <1>1 DEF TreeOf

LEMMA LastTree ==
  ASSUME NEW s \in Seq(Trees), NEW tree \in Trees
  PROVE  Append(s, tree) \in Seq(Trees) /\ TreeOf(Append(s, tree)) = tree
<1>1. Len(Append(s, tree)) = Len(s) + 1 /\ Append(s, tree)[Len(s) + 1] = tree /\ Len(s) \in Nat
  OBVIOUS
<1> QED
  BY <1>1 DEF TreeOf

\* What a call with the request r may do to the repository.
GithubStep(r) ==
  /\ GithubOK'
  /\ \A b \in DOMAIN refs : /\ b \in DOMAIN refs'
                            /\ refs'[b] = refs[b] \/ (b = r.branch /\ r.op = "commit_files")
  /\ \A b \in DOMAIN refs' : b \in DOMAIN refs \/ (b = r.branch /\ r.op = "create_branch")
  /\ \A b \in Branches : HasPr(b) => HasPr(b)'
  /\ \A b \in Branches : HasPr(b)' => HasPr(b) \/ (b = r.branch /\ r.op = "open_pr")

LEMMA GithubUnchanged ==
  ASSUME GithubOK, UNCHANGED <<refs, prs>>, NEW r
  PROVE  GithubStep(r)
  BY DEF GithubOK, GithubStep, HasPr

LEMMA BranchSet ==
  ASSUME GithubOK, NEW b \in Branches, NEW s \in Seq(Trees), SetRef(b, s), UNCHANGED prs,
         NEW r, r.branch = b, r.op = IF b \in DOMAIN refs THEN "commit_files" ELSE "create_branch"
  PROVE  GithubStep(r) /\ b \in DOMAIN refs' /\ refs'[b] = s
<1>1. /\ DOMAIN refs' = DOMAIN refs \cup {b} /\ refs'[b] = s
      /\ \A x \in DOMAIN refs : x # b => refs'[x] = refs[x]
  BY DEF SetRef
<1>2. GithubOK'
  BY <1>1 DEF GithubOK, RefsOK
<1> QED
  BY <1>1, <1>2 DEF GithubOK, GithubStep, HasPr

LEMMA PrOpened ==
  ASSUME GithubOK, NEW b \in DOMAIN refs, UNCHANGED refs, NEW r, r.branch = b, r.op = "open_pr",
         prs' = Append(prs, [head |-> b, open |-> TRUE])
  PROVE  GithubStep(r) /\ HasPr(b)'
<1> DEFINE pr == [head |-> b, open |-> TRUE]
<1>1. pr \in TypeOfPr /\ prs \in Seq(TypeOfPr)
  BY DEF GithubOK, RefsOK, TypeOfPr
<1> HIDE DEF pr
<1>2. /\ prs' \in Seq(TypeOfPr) /\ DOMAIN prs' = DOMAIN prs \cup {Len(prs) + 1}
      /\ prs'[Len(prs) + 1] = pr /\ \A n \in DOMAIN prs : prs'[n] = prs[n]
  BY <1>1 DEF pr
<1>3. pr.head = b
  BY DEF pr
<1>4. GithubOK'
  BY <1>2, <1>3 DEF GithubOK, TypeOfPr
<1> QED
  BY <1>2, <1>3, <1>4 DEF GithubStep, HasPr

-----------------------------------------------------------------------------
(* What a step of a call does to the call.                                 *)

\* An answer that is ok is the truth.
Did(r, ok) == /\ r.op = "commit_files" /\ ok => HasFiles(r.branch, r.files)
              /\ r.op = "open_pr" /\ ok => HasPr(r.branch)

CallStep(t, q) ==
  /\ IsRunning(calls[t]) /\ calls' = [calls EXCEPT ![t] = q] /\ q.req = calls[t].req
  /\ DOMAIN q = CallFields /\ q.pc # "idle" /\ CallOK(q)'
  /\ Did(q.req, Ok(q))'
  /\ GithubStep(q.req)

LEMMA CallAt ==
  ASSUME CallsOK, NEW t \in Tasks
  PROVE  t \in DOMAIN calls /\ DOMAIN calls[t] = CallFields /\ CallOK(calls[t])
  BY DEF CallsOK

LEMMA ReturnStep ==
  ASSUME CallsOK, NEW t \in Tasks, IsRunning(calls[t]), NEW a, Return(t, a), NEW r,
         calls[t].req = r, GithubStep(r), Did(r, a.ok)',
         r.op = "get_file" /\ a.ok => (a.exists => a.content \in Contents)
  PROVE  \E q : CallStep(t, q)
<1> DEFINE q == [calls[t] EXCEPT !.pc = "answered", !.answer = a]
<1>1. DOMAIN calls = Tasks /\ DOMAIN calls[t] = CallFields /\ CallOK(calls[t])
  BY DEF CallsOK
<1>2. calls' = [calls EXCEPT ![t] = q]
  BY <1>1 DEF Return
<1>3. DOMAIN q = CallFields /\ q.pc = "answered" /\ q.answer = a /\ q.req = r
  BY <1>1 DEF CallFields
<1>4. PICK x : x = q
  OBVIOUS
<1> HIDE DEF q
<1>5. CallOK(x)'
  BY <1>1, <1>3, <1>4 DEF CallOK, IsRunning
<1>6. Ok(x) <=> a.ok
  BY <1>3, <1>4 DEF Ok
<1>7. Did(x.req, Ok(x))'
  BY <1>3, <1>4 DEF Did, Ok
<1>8. CallStep(t, x)
  BY <1>2, <1>3, <1>4, <1>5, <1>7 DEF CallStep
<1> QED
  BY <1>8

\* A call that goes on leaves GitHub alone.
LEMMA GoesOn ==
  ASSUME CallsOK, GithubOK, NEW t \in Tasks, IsRunning(calls[t]), UNCHANGED <<refs, prs>>,
         NEW q, calls' = [calls EXCEPT ![t] = q], DOMAIN q = CallFields, q.req = calls[t].req,
         q.pc # "idle", q.pc # "answered", CallOK(q)
  PROVE  CallStep(t, q)
<1>1. CallOK(q)'
  BY DEF CallOK
<1>2. Did(q.req, Ok(q))'
  BY DEF Did, Ok
<1>3. GithubStep(q.req)
  BY GithubUnchanged
<1> QED
  BY <1>1, <1>2, <1>3 DEF CallStep

LEMMA FailsStep ==
  ASSUME CallsOK, GithubOK, NEW t \in Tasks, IsRunning(calls[t]), Return(t, Error("github_error")),
         GithubStep(calls[t].req)
  PROVE  \E q : CallStep(t, q)
<1> DEFINE a == Error("github_error")
<1>1. a.ok = FALSE
  BY DEF Error
<1>2. PICK r : r = calls[t].req
  OBVIOUS
<1> HIDE DEF a
<1>3. Did(r, a.ok)'
  BY <1>1 DEF Did
<1> QED
  BY <1>1, <1>2, <1>3, ReturnStep DEF a

LEMMA OpenPrStep ==
  ASSUME CallsOK, GithubOK, NEW t \in Tasks, open_pr(t)
  PROVE  \E q : CallStep(t, q)
<1> DEFINE p == calls[t]
           a == OpenPrAnswer(Len(prs) + 1, FALSE)
<1>1. CallOK(p) /\ DOMAIN p = CallFields /\ p.pc = "post_pr"
  BY CallAt DEF open_pr, At
<1>2. p.req.op = "open_pr" /\ IsRunning(p) /\ Target(t) \in Branches
  BY <1>1, LessonsAssumption DEF CallOK, PcsOf, Writes, IsRunning, Target, Retrospectives
<1>3. CASE CanOpen(Target(t))
  <2>1. prs' = Append(prs, [head |-> Target(t), open |-> TRUE]) /\ UNCHANGED refs
        /\ Target(t) \in DOMAIN refs
    BY <1>3 DEF open_pr, CanOpen
  <2>2. PICK r : r = calls[t].req
    OBVIOUS
  <2>3. PICK b : b = Target(t)
    OBVIOUS
  <2>4. r.branch = b /\ r.op = "open_pr"
    BY <2>2, <2>3, <1>2 DEF Target
  <2>5. GithubStep(r) /\ HasPr(b)'
    BY <2>1, <2>3, <2>4, PrOpened
  <2>6. CASE Return(t, a)
    <3>1. PICK x : x = a
      OBVIOUS
    <3>2. Did(r, x.ok)'
      BY <2>4, <2>5 DEF Did
    <3> HIDE DEF a
    <3> QED
      BY <1>2, <2>2, <2>4, <2>5, <2>6, <3>1, <3>2, ReturnStep
  <2>7. CASE Return(t, Error("github_error"))
    BY <1>2, <2>2, <2>5, <2>7, FailsStep
  <2> QED
    BY <1>3, <2>6, <2>7 DEF open_pr, Applied
<1>4. CASE ~CanOpen(Target(t))
  <2>1. Go(t, "find_pr") /\ UNCHANGED <<refs, prs>>
    BY <1>4 DEF open_pr
  <2>2. PICK q : q = [p EXCEPT !.pc = "find_pr"]
    OBVIOUS
  <2>3. /\ calls' = [calls EXCEPT ![t] = q] /\ DOMAIN q = CallFields /\ q.req = p.req
        /\ q.pc = "find_pr" /\ q.sha = p.sha
    BY <2>1, <2>2, <1>1, CallAt DEF Go, CallFields
  <2>4. CallOK(q)
    BY <1>1, <1>2, <2>3 DEF CallOK, PcsOf, Writes
  <2> QED
    BY <1>2, <2>1, <2>3, <2>4, GoesOn
<1> QED
  BY <1>3, <1>4

LEMMA FindPrStep ==
  ASSUME CallsOK, GithubOK, NEW t \in Tasks, find_open_pr(t)
  PROVE  \E q : CallStep(t, q)
<1> DEFINE p == calls[t]
<1>1. CallOK(p) /\ DOMAIN p = CallFields /\ p.pc = "find_pr"
  BY CallAt DEF find_open_pr, At
<1>2. p.req.op = "open_pr" /\ IsRunning(p) /\ UNCHANGED <<refs, prs>>
  BY <1>1 DEF CallOK, PcsOf, Writes, IsRunning, find_open_pr, github
<1>3. PICK r : r = calls[t].req
  OBVIOUS
<1>4. GithubStep(r)
  BY <1>2, GithubUnchanged
<1>5. CASE OpenPrs(Target(t)) # {}
  <2>1. PICK n \in OpenPrs(Target(t)) : Return(t, OpenPrAnswer(n, TRUE))
    BY <1>5 DEF find_open_pr
  <2>2. HasPr(r.branch)'
    BY <1>2, <1>3, <2>1 DEF HasPr, OpenPrs, Target
  <2> DEFINE a == OpenPrAnswer(n, TRUE)
  <2>3. Did(r, a.ok)'
    BY <1>2, <1>3, <2>2 DEF Did
  <2> HIDE DEF a
  <2>4. Return(t, a)
    BY <2>1 DEF a
  <2> QED
    BY <1>2, <1>3, <1>4, <2>3, <2>4, ReturnStep
<1>6. CASE OpenPrs(Target(t)) = {}
  BY <1>2, <1>3, <1>4, <1>6, FailsStep DEF find_open_pr
<1> QED
  BY <1>5, <1>6

LEMMA BranchBaseStep ==
  ASSUME CallsOK, GithubOK, NEW t \in Tasks, create_branch_base(t)
  PROVE  \E q : CallStep(t, q)
<1> DEFINE p == calls[t]
<1>1. CallOK(p) /\ DOMAIN p = CallFields /\ p.pc = "base_ref"
  BY CallAt DEF create_branch_base, At
<1>2. p.req.op = "create_branch" /\ IsRunning(p) /\ UNCHANGED <<refs, prs>>
  BY <1>1 DEF CallOK, PcsOf, Writes, IsRunning, create_branch_base, github
<1>3. PICK q : q = [p EXCEPT !.pc = "post_ref", !.sha = refs[Base]]
  OBVIOUS
<1>4. /\ calls' = [calls EXCEPT ![t] = q] /\ DOMAIN q = CallFields /\ q.req = p.req
      /\ q.pc = "post_ref" /\ q.sha = refs[Base]
  BY <1>1, <1>3, CallAt DEF create_branch_base, CallFields
<1>5. refs[Base] \in Seq(Trees)
  BY DEF GithubOK, RefsOK
<1>6. CallOK(q)
  BY <1>1, <1>2, <1>4, <1>5 DEF CallOK, PcsOf, Writes
<1> QED
  BY <1>2, <1>4, <1>6, GoesOn

LEMMA CreateBranchStep ==
  ASSUME CallsOK, GithubOK, NEW t \in Tasks, create_branch(t)
  PROVE  \E q : CallStep(t, q)
<1> DEFINE p == calls[t]
<1>1. CallOK(p) /\ DOMAIN p = CallFields /\ p.pc = "post_ref"
  BY CallAt DEF create_branch, At
<1>2. p.req.op = "create_branch" /\ IsRunning(p) /\ Target(t) \in Branches /\ p.sha \in Seq(Trees)
  BY <1>1, LessonsAssumption DEF CallOK, PcsOf, Writes, IsRunning, Target, Retrospectives
<1>3. PICK r : r = calls[t].req
  OBVIOUS
<1>4. CASE Target(t) \notin DOMAIN refs
  <2>1. SetRef(Target(t), p.sha) /\ UNCHANGED prs /\ Applied(t, BranchAnswer(p.sha, FALSE))
    BY <1>4 DEF create_branch
  <2>2. PICK b : b = Target(t)
    OBVIOUS
  <2>3. r.branch = b /\ r.op = IF b \in DOMAIN refs THEN "commit_files" ELSE "create_branch"
    BY <1>2, <1>3, <1>4, <2>2 DEF Target
  <2>4. GithubStep(r)
    BY <1>2, <2>1, <2>2, <2>3, BranchSet
  <2>5. PICK x : x = BranchAnswer(p.sha, FALSE)
    OBVIOUS
  <2>6. Did(r, x.ok)'
    BY <1>2, <1>3 DEF Did
  <2>7. CASE Return(t, x)
    BY <1>2, <1>3, <2>4, <2>6, <2>7, ReturnStep
  <2>8. CASE Return(t, Error("github_error"))
    BY <1>2, <1>3, <2>4, <2>8, FailsStep
  <2> QED
    BY <2>1, <2>5, <2>7, <2>8 DEF Applied
<1>5. CASE Target(t) \in DOMAIN refs
  <2>1. Go(t, "get_ref") /\ UNCHANGED <<refs, prs>>
    BY <1>5 DEF create_branch
  <2>2. PICK q : q = [p EXCEPT !.pc = "get_ref"]
    OBVIOUS
  <2>3. /\ calls' = [calls EXCEPT ![t] = q] /\ DOMAIN q = CallFields /\ q.req = p.req
        /\ q.pc = "get_ref" /\ q.sha = p.sha
    BY <2>1, <2>2, <1>1, CallAt DEF Go, CallFields
  <2>4. CallOK(q)
    BY <1>1, <1>2, <2>3 DEF CallOK, PcsOf, Writes
  <2> QED
    BY <1>2, <2>1, <2>3, <2>4, GoesOn
<1> QED
  BY <1>4, <1>5

LEMMA ExistingBranchStep ==
  ASSUME CallsOK, GithubOK, NEW t \in Tasks, create_branch_existing(t)
  PROVE  \E q : CallStep(t, q)
<1> DEFINE p == calls[t]
<1>1. CallOK(p) /\ p.pc = "get_ref" /\ UNCHANGED <<refs, prs>>
  BY CallAt DEF create_branch_existing, At, github
<1>2. p.req.op = "create_branch" /\ IsRunning(p)
  BY <1>1 DEF CallOK, PcsOf, Writes, IsRunning
<1>3. PICK r : r = calls[t].req
  OBVIOUS
<1>4. PICK x : x = BranchAnswer(refs[Target(t)], TRUE)
  OBVIOUS
<1>5. GithubStep(r) /\ Did(r, x.ok)'
  BY <1>1, <1>2, <1>3, GithubUnchanged DEF Did
<1> QED
  BY <1>2, <1>3, <1>4, <1>5, ReturnStep DEF create_branch_existing

LEMMA CommitFilesStep ==
  ASSUME CallsOK, GithubOK, NEW t \in Tasks, commit_files(t)
  PROVE  \E q : CallStep(t, q)
<1> DEFINE p == calls[t]
<1>1. CallOK(p) /\ DOMAIN p = CallFields /\ p.pc = "tip" /\ UNCHANGED <<refs, prs>>
  BY CallAt DEF commit_files, At, github
<1>2. p.req.op = "commit_files" /\ IsRunning(p)
  BY <1>1 DEF CallOK, PcsOf, Writes, IsRunning
<1>3. CASE Target(t) \in DOMAIN refs
  <2>1. PICK q : q = [p EXCEPT !.pc = "objects", !.sha = refs[Target(t)]]
    OBVIOUS
  <2>2. /\ calls' = [calls EXCEPT ![t] = q] /\ DOMAIN q = CallFields /\ q.req = p.req
        /\ q.pc = "objects" /\ q.sha = refs[Target(t)]
    BY <1>1, <1>3, <2>1, CallAt DEF commit_files, CallFields
  <2>3. q.sha \in Seq(Trees) /\ q.req.branch \in DOMAIN refs
    BY <1>3, <2>2 DEF GithubOK, RefsOK, Target
  <2>4. CallOK(q)
    BY <1>1, <1>2, <2>2, <2>3 DEF CallOK, PcsOf, Writes
  <2> QED
    BY <1>1, <1>2, <2>2, <2>4, GoesOn
<1>4. CASE Target(t) \notin DOMAIN refs
  <2>1. PICK r : r = calls[t].req
    OBVIOUS
  <2>2. GithubStep(r)
    BY <1>1, GithubUnchanged
  <2> QED
    BY <1>2, <1>4, <2>1, <2>2, FailsStep DEF commit_files
<1> QED
  BY <1>3, <1>4

LEMMA UpsertProperties ==
  ASSUME NEW tree \in Trees, NEW files, Files(files)
  PROVE  Upsert(tree, files) \in Trees /\ \A x \in DOMAIN files : Upsert(tree, files)[x] = files[x]
<1>1. DOMAIN files \in SUBSET Paths /\ \A x \in DOMAIN files : files[x] \in Contents
  BY LessonsAssumption DEF Files
<1> QED
  BY <1>1 DEF Upsert, Trees

LEMMA NewCommitStep ==
  ASSUME CallsOK, GithubOK, NEW t \in Tasks, NewCommit(t)
  PROVE  \E q : CallStep(t, q)
<1> DEFINE p == calls[t]
<1>1. CallOK(p) /\ DOMAIN p = CallFields /\ p.pc = "objects" /\ UNCHANGED <<refs, prs>>
  BY CallAt DEF NewCommit, At, github
<1>2. /\ p.req.op = "commit_files" /\ IsRunning(p) /\ p.sha \in Seq(Trees) /\ Files(p.req.files)
      /\ p.req.branch \in DOMAIN refs
  BY <1>1 DEF CallOK, PcsOf, Writes, IsRunning
<1>3. PICK tree : tree = Upsert(TreeOf(p.sha), p.req.files)
  OBVIOUS
<1>4. tree \in Trees /\ \A x \in DOMAIN p.req.files : tree[x] = p.req.files[x]
  BY <1>2, <1>3, TreeOfType, UpsertProperties
<1>5. PICK q : q = [p EXCEPT !.pc = "patch_ref", !.sha = Append(p.sha, tree)]
  OBVIOUS
<1>6. /\ calls' = [calls EXCEPT ![t] = q] /\ DOMAIN q = CallFields /\ q.req = p.req
      /\ q.pc = "patch_ref" /\ q.sha = Append(p.sha, tree)
  BY <1>1, <1>3, <1>5, CallAt DEF NewCommit, CallFields
<1>7. q.sha \in Seq(Trees) /\ TreeOf(q.sha) = tree
  BY <1>2, <1>4, <1>6, LastTree
<1>8. CallOK(q)
  BY <1>1, <1>2, <1>4, <1>6, <1>7 DEF CallOK, PcsOf, Writes
<1> QED
  BY <1>1, <1>2, <1>6, <1>8, GoesOn

LEMMA UpdateRefStep ==
  ASSUME CallsOK, GithubOK, NEW t \in Tasks, update_ref(t)
  PROVE  \E q : CallStep(t, q)
<1> DEFINE p == calls[t]
<1>1. CallOK(p) /\ p.pc = "patch_ref"
  BY CallAt DEF update_ref, At
<1>2. /\ p.req.op = "commit_files" /\ IsRunning(p) /\ p.sha \in Seq(Trees)
      /\ Target(t) \in DOMAIN refs /\ Target(t) \in Branches
      /\ \A x \in DOMAIN p.req.files : TreeOf(p.sha)[x] = p.req.files[x]
  BY <1>1 DEF CallOK, PcsOf, Writes, IsRunning, Target, GithubOK, RefsOK
<1>3. PICK r : r = calls[t].req
  OBVIOUS
<1>4. CASE Ancestor(refs[Target(t)], calls[t].sha)
  <2>1. SetRef(Target(t), p.sha) /\ UNCHANGED prs /\ Applied(t, CommitAnswer(p.sha))
    BY <1>4 DEF update_ref
  <2>2. PICK b : b = Target(t)
    OBVIOUS
  <2>3. r.branch = b /\ r.op = IF b \in DOMAIN refs THEN "commit_files" ELSE "create_branch"
    BY <1>2, <1>3, <2>2 DEF Target
  <2>4. GithubStep(r) /\ b \in DOMAIN refs' /\ refs'[b] = p.sha
    BY <1>2, <2>1, <2>2, <2>3, BranchSet
  <2>5. HasFiles(b, r.files)'
    BY <1>2, <1>3, <2>4 DEF HasFiles
  <2>6. PICK x : x = CommitAnswer(p.sha)
    OBVIOUS
  <2>7. Did(r, x.ok)'
    BY <1>2, <1>3, <2>3, <2>5 DEF Did
  <2>8. CASE Return(t, x)
    BY <1>2, <1>3, <2>4, <2>7, <2>8, ReturnStep
  <2>9. CASE Return(t, Error("github_error"))
    BY <1>2, <1>3, <2>4, <2>9, FailsStep
  <2> QED
    BY <2>1, <2>6, <2>8, <2>9 DEF Applied
<1>5. CASE ~Ancestor(refs[Target(t)], calls[t].sha)
  <2>1. Return(t, Error("github_error")) /\ UNCHANGED <<refs, prs>>
    BY <1>5 DEF update_ref
  <2>2. GithubStep(r)
    BY <2>1, GithubUnchanged
  <2> QED
    BY <1>2, <1>3, <2>1, <2>2, FailsStep
<1> QED
  BY <1>4, <1>5

LEMMA ReadStep ==
  ASSUME CallsOK, GithubOK, NEW t \in Tasks, Read(t)
  PROVE  \E q : CallStep(t, q)
<1> DEFINE p == calls[t]
<1>1. CallOK(p) /\ p.pc = "read" /\ UNCHANGED <<refs, prs>>
  BY CallAt DEF Read, At, github
<1>2. p.req.op = "get_file" /\ IsRunning(p) /\ Target(t) = Base /\ DOMAIN p.req.files \subseteq Paths
  BY <1>1 DEF CallOK, PcsOf, Writes, IsRunning, Target
<1>3. PICK x \in DOMAIN p.req.files : Return(t, FileAnswer(Target(t), x))
  BY <1>2 DEF Read, Op
<1>4. PICK a : a = FileAnswer(Base, x)
  OBVIOUS
<1>5. TreeOf(refs[Base]) \in Trees
  BY TreeOfType DEF GithubOK, RefsOK
<1>6. a.exists => a.content \in Contents
  BY <1>2, <1>4, <1>5 DEF FileAnswer, Trees
<1>7. PICK r : r = calls[t].req
  OBVIOUS
<1>8. GithubStep(r) /\ Did(r, a.ok)'
  BY <1>1, <1>2, <1>7, GithubUnchanged DEF Did
<1> QED
  BY <1>2, <1>3, <1>4, <1>6, <1>7, <1>8, ReturnStep

LEMMA RequestFailsStep ==
  ASSUME CallsOK, GithubOK, NEW t \in Tasks, RequestFails(t)
  PROVE  \E q : CallStep(t, q)
<1>1. IsRunning(calls[t]) /\ UNCHANGED <<refs, prs>> /\ Return(t, Error("github_error"))
  BY DEF RequestFails, Running, IsRunning, github
<1>2. PICK r : r = calls[t].req
  OBVIOUS
<1>3. GithubStep(r)
  BY <1>1, GithubUnchanged
<1> QED
  BY <1>1, <1>2, <1>3, FailsStep

\* The other operations are never asked for.
LEMMA RunOpStep ==
  ASSUME CallsOK, GithubOK, NEW t \in Tasks, run_op(t)
  PROVE  \E q : CallStep(t, q)
<1>1. CallOK(calls[t])
  BY CallAt
<1>2. ~Post(t)
  BY <1>1 DEF CallOK, PcsOf, Writes, Post, At
<1>3. ~(get_pr_archive_url(t) \/ get_pr_diff(t) \/ get_check_state(t))
  BY <1>1 DEF CallOK, PcsOf, Writes, get_pr_archive_url, get_pr_diff, get_check_state, ReadHead, At
<1>4. ~(Tarball(t) \/ DiffPage(t) \/ CheckPage(t) \/ Aggregate(t))
  BY <1>1 DEF CallOK, PcsOf, Writes, Tarball, DiffPage, CheckPage, Aggregate, At
<1> QED
  BY <1>2, <1>3, <1>4, OpenPrStep, FindPrStep, BranchBaseStep, CreateBranchStep,
     ExistingBranchStep, CommitFilesStep, NewCommitStep, UpdateRefStep, ReadStep, RequestFailsStep
     DEF run_op, Write, Reading

-----------------------------------------------------------------------------
(* What a step of a call leaves true.                                      *)

\* A branch that has a PR stays as it is, unless its second is shared.
Keeps == \A b \in DOMAIN refs \cap Sole :
           HasPr(b) => b \in DOMAIN refs' /\ refs'[b] = refs[b] /\ HasPr(b)'

\* A second that is shared stays so.
NamesStay == \A s \in Seconds : Shared(s) => Shared(s)'

LEMMA NamesAreStable ==
  ASSUME UNCHANGED named
  PROVE  NamesStay /\ Sole' = Sole /\ \A s : Shared(s)' <=> Shared(s)
  BY DEF NamesStay, Sole, Shared

LEMMA SoleType ==
  /\ Sole \subseteq Retrospectives
  /\ \A x \in DOMAIN BranchFor : BranchFor[x] \in Sole <=> ~Shared(x[1])
<1>1. \A x, y \in DOMAIN BranchFor : BranchFor[x] = BranchFor[y] => x = y
  BY LessonsAssumption
<1> QED
  BY <1>1 DEF Sole, Retrospectives

LEMMA ToldStays ==
  ASSUME Keeps, NEW s \in Seconds, ~Shared(s), NEW e, ToldAt(e, s)
  PROVE  ToldAt(e, s)'
<1>1. PICK kind \in Kinds : ToldBy(e, BranchFor[<<s, kind>>])
  BY DEF ToldAt
<1>2. PICK b : b = BranchFor[<<s, kind>>]
  OBVIOUS
<1>3. <<s, kind>> \in DOMAIN BranchFor
  BY LessonsAssumption
<1>4. b \in Sole
  BY <1>2, <1>3, SoleType
<1>5. ToldBy(e, b)'
  BY <1>1, <1>2, <1>4 DEF Keeps, ToldBy
<1> QED
  BY <1>2, <1>5 DEF ToldAt

LEMMA ShippedStays ==
  ASSUME Keeps, NEW b \in Sole, NEW files, Shipped(b, files)
  PROVE  Shipped(b, files)'
  BY DEF Keeps, Shipped, HasFiles

LEMMA BranchAtType ==
  ASSUME NEW k, k.at \in Seconds, NEW kind \in Kinds
  PROVE  /\ BranchAt(k, kind) \in Retrospectives
         /\ BranchAt(k, kind) \in Branches /\ BranchAt(k, kind) # Base
         /\ BranchAt(k, kind) \in Sole <=> ~Shared(k.at)
         /\ \A other \in Kinds : BranchAt(k, other) = BranchAt(k, kind) => other = kind
<1>1. <<k.at, kind>> \in DOMAIN BranchFor
  BY LessonsAssumption
<1>2. \A other \in Kinds : <<k.at, other>> \in DOMAIN BranchFor
  BY LessonsAssumption
<1>3. \A other \in Kinds : BranchFor[<<k.at, other>>] = BranchFor[<<k.at, kind>>] => other = kind
  BY <1>1, <1>2, LessonsAssumption
<1> QED
  BY <1>1, <1>3, SoleType, LessonsAssumption DEF BranchAt, Retrospectives

\* A call that runs and writes holds its branch.
LEMMA TargetIsHeld ==
  ASSUME CallsOK, NEW t \in Tasks, IsRunning(calls[t]), calls[t].req.op \in Writes
  PROVE  calls[t].req.branch \in Retrospectives /\ HeldBy(t, calls[t].req.branch)
  BY CallAt DEF CallOK, IsRunning, HeldBy, Holds

LEMMA CallKeeps ==
  ASSUME IInv, NEW t \in Tasks, NEW q, CallStep(t, q)
  PROVE  Keeps
<1>1. calls[t].req.op = "commit_files" /\ calls[t].req.branch \in Sole => ~HasPr(calls[t].req.branch)
  BY DEF IInv, WritersOK, WriterOK, Writing, CallStep
<1> QED
  BY <1>1, SoleType, LessonsAssumption DEF Keeps, CallStep, GithubStep, Retrospectives

LEMMA CallsAfterCall ==
  ASSUME IInv, NEW t \in Tasks, NEW q, CallStep(t, q)
  PROVE  /\ GithubOK' /\ CallsOK' /\ calls'[t] = q
         /\ \A u \in Tasks : u # t => calls'[u] = calls[u]
<1>1. calls' = [calls EXCEPT ![t] = q] /\ DOMAIN q = CallFields /\ CallOK(q)' /\ GithubStep(q.req)
  BY DEF CallStep
<1>0. GithubOK' /\ \A b \in DOMAIN refs : b \in DOMAIN refs'
  BY <1>1 DEF GithubStep
<1>2. DOMAIN calls = Tasks /\ \A u \in Tasks : DOMAIN calls[u] = CallFields /\ CallOK(calls[u])
  BY DEF IInv, CallsOK
<1>3. DOMAIN calls' = Tasks /\ calls'[t] = q /\ \A u \in Tasks : u # t => calls'[u] = calls[u]
  BY <1>1, <1>2
<1>4. ASSUME NEW u \in Tasks
      PROVE  (DOMAIN calls[u] = CallFields /\ CallOK(calls[u]))'
  <2>1. CASE u = t
    BY <1>1, <1>3, <2>1
  <2>2. CASE u # t
    <3>1. PICK p : p = calls[u]
      OBVIOUS
    <3>2. CallOK(p)'
      BY <1>0, <1>2, <3>1 DEF CallOK
    <3> QED
      BY <1>2, <1>3, <2>2, <3>1, <3>2
  <2> QED
    BY <2>1, <2>2
<1> QED
  BY <1>0, <1>3, <1>4 DEF CallsOK

LEMMA HoldersAfterCall ==
  ASSUME IInv, NEW t \in Tasks, NEW q, CallStep(t, q), UNCHANGED <<task, now, named>>
  PROVE  HoldersOK'
<1>1. \A u \in Tasks, b \in Retrospectives : HeldBy(u, b)' => HeldBy(u, b)
  BY CallsAfterCall DEF HeldBy, Holds, CallStep
<1>2. \A b \in DOMAIN refs' : b \in DOMAIN refs \/ HeldBy(t, b)
  BY TargetIsHeld DEF IInv, CallStep, GithubStep, Writes
<1>3. \A x \in DOMAIN BranchFor : BranchFor[x] \in Retrospectives
  BY DEF Retrospectives
<1>4. Sole' = Sole /\ Sole \subseteq Retrospectives
  BY NamesAreStable, SoleType
<1> QED
  BY <1>1, <1>2, <1>3, <1>4 DEF IInv, HoldersOK

\* Another holder's branch is left alone.
LEMMA HeldIsKept ==
  ASSUME IInv, NEW t \in Tasks, NEW q, CallStep(t, q),
         NEW u \in Tasks, u # t, NEW b \in Sole, HeldBy(u, b)
  PROVE  /\ HasPr(b)' <=> HasPr(b)
         /\ b \in DOMAIN refs => b \in DOMAIN refs' /\ refs'[b] = refs[b]
<1>1. calls[t].req.op \in Writes => calls[t].req.branch # b
  BY TargetIsHeld DEF IInv, HoldersOK, CallStep
<1>2. b \in Branches
  BY SoleType, LessonsAssumption DEF Retrospectives
<1> QED
  BY <1>1, <1>2 DEF CallStep, GithubStep, Writes

LEMMA WritersAfterCall ==
  ASSUME IInv, NEW t \in Tasks, NEW q, CallStep(t, q), UNCHANGED named
  PROVE  WritersOK'
<1>0. Sole' = Sole
  BY NamesAreStable
<1> SUFFICES ASSUME NEW u \in Tasks, Writing(calls[u])', calls'[u].req.branch \in Sole,
                    HasPr(calls[u].req.branch)'
             PROVE  FALSE
  BY <1>0 DEF WritersOK, WriterOK
<1>1. CASE u = t
  <2>1. calls'[t] = q /\ q.req = calls[t].req
    BY CallsAfterCall DEF CallStep
  <2>2. PICK b : b = q.req.branch
    OBVIOUS
  <2>3. Writing(calls[t]) /\ HasPr(b)' /\ q.req.op # "open_pr" /\ b \in Sole
    BY <1>1, <2>1, <2>2 DEF Writing, CallStep
  <2>4. b \in Branches
    BY <2>1, <2>2, <2>3, TargetIsHeld, LessonsAssumption DEF Writing, IInv, Writes, Retrospectives
  <2>5. HasPr(b)
    BY <2>3, <2>4 DEF CallStep, GithubStep
  <2> QED
    BY <2>1, <2>2, <2>3, <2>5 DEF IInv, WritersOK, WriterOK
<1>2. CASE u # t
  <2>1. calls'[u] = calls[u]
    BY <1>2, CallsAfterCall
  <2>2. PICK b : b = calls[u].req.branch
    OBVIOUS
  <2>3. Writing(calls[u]) /\ HasPr(b)' /\ b \in Sole
    BY <2>1, <2>2
  <2>4. HeldBy(u, b)
    BY <2>2, <2>3, TargetIsHeld DEF Writing, IInv, Writes
  <2> QED
    BY <1>2, <2>2, <2>3, <2>4, HeldIsKept DEF IInv, WritersOK, WriterOK
<1> QED
  BY <1>1, <1>2

LEMMA TaskAt ==
  ASSUME IInv, NEW u \in Tasks
  PROVE  TaskOK(task[u]) /\ TaskInv(task[u], calls[u])
  BY DEF IInv, TasksOK, TasksInv

LEMMA OtherAfterCall ==
  ASSUME IInv, NEW t \in Tasks, NEW q, CallStep(t, q), UNCHANGED <<task, named>>,
         NEW u \in Tasks, u # t
  PROVE  TaskInv(task[u], calls[u])'
<1>1. PICK k, p : k = task[u] /\ p = calls[u]
  OBVIOUS
<1>2. k = task'[u] /\ p = calls'[u] /\ TaskOK(k) /\ TaskInv(k, p)
  BY <1>1, CallsAfterCall, TaskAt
<1>3. ASSUME k.pc \in Shipping, ~Shared(k.at)
      PROVE  Progress(k, p)'
  <2>1. Progress(k, p) /\ k.at \in Seconds /\ k.kind \in Kinds
    BY <1>2, <1>3 DEF TaskInv, TaskOK
  <2>2. \A kind \in Kinds : BranchAt(k, kind) \in Sole /\ HeldBy(u, BranchAt(k, kind))
    BY <1>1, <1>3, <2>1, BranchAtType DEF HeldBy, Holds
  <2>3. \A kind \in Kinds :
          LET b == BranchAt(k, kind)
          IN /\ HasPr(b)' <=> HasPr(b)
             /\ b \in DOMAIN refs => b \in DOMAIN refs' /\ refs'[b] = refs[b]
    BY <2>2, HeldIsKept
  <2>4. \A kind \in Kinds : \A files :
          HasFiles(BranchAt(k, kind), files) => HasFiles(BranchAt(k, kind), files)'
    BY <2>3 DEF HasFiles
  <2>5. Shipped(BranchAt(k, "memory"), k.files) => Shipped(BranchAt(k, "memory"), k.files)'
    BY <2>3, <2>4 DEF Shipped, Kinds
  <2>6. \A e \in k.todo : ToldAt(e, k.at) => ToldAt(e, k.at)'
    BY <1>3, <2>1, CallKeeps, ToldStays
  <2> QED
    BY <2>1, <2>3, <2>4, <2>5, <2>6 DEF Progress, Kinds
<1>4. Shared(k.at)' <=> Shared(k.at)
  BY NamesAreStable
<1>5. TaskInv(k, p)'
  BY <1>2, <1>3, <1>4 DEF TaskInv, WaitsFor
<1> QED
  BY <1>2, <1>5

LEMMA OwnAfterCall ==
  ASSUME IInv, NEW t \in Tasks, NEW q, CallStep(t, q), UNCHANGED <<task, named>>
  PROVE  TaskInv(task[t], calls[t])'
<1>1. PICK k, r : k = task[t] /\ r = calls[t].req
  OBVIOUS
<1>2. k = task'[t] /\ q = calls'[t] /\ q.req = r /\ q.pc # "idle"
  BY <1>1, CallsAfterCall DEF CallStep
<1>3. TaskOK(k) /\ TaskInv(k, calls[t]) /\ IsRunning(calls[t])
  BY <1>1, TaskAt DEF CallStep
<1>4. k.pc \in DOMAIN Waits \cup {"dead"}
  BY <1>3 DEF TaskInv, WaitsFor
<1>5. /\ k.pc \in DOMAIN Waits => r.op = Waits[k.pc]
      /\ k.pc \in {"branching", "committing", "opening"} => r.branch = BranchAt(k, k.kind)
      /\ k.pc = "committing" => r.files = FilesAt(k)
  BY <1>1, <1>3 DEF TaskInv, WaitsFor
<1>6. WaitsFor(k, q)
  BY <1>2, <1>4, <1>5 DEF WaitsFor
<1>7. ASSUME k.pc \in Shipping, ~Shared(k.at)
      PROVE  Progress(k, q)'
  <2>1. /\ Progress(k, calls[t]) /\ k.at \in Seconds /\ k.kind \in Kinds
        /\ k.pc \in {"reading", "branching", "committing", "opening"}
    BY <1>3, <1>4, <1>7 DEF TaskInv, TaskOK, Waits, Shipping
  <2>2. \A kind \in Kinds : BranchAt(k, kind) \in Sole /\ BranchAt(k, kind) \in Branches
    BY <1>7, <2>1, BranchAtType
  <2>3. GithubStep(r) /\ Did(r, Ok(q))'
    BY <1>2 DEF CallStep
  <2>4. k.pc = "opening" <=> r.op = "open_pr"
    BY <1>5, <2>1 DEF Waits
  <2>5. k.pc # "opening" => ~HasPr(BranchAt(k, k.kind))'
    BY <2>1, <2>2, <2>3, <2>4 DEF Progress, GithubStep
  <2>6. k.kind = "memory" => ~HasPr(BranchAt(k, "skills"))'
    <3>1. k.kind = "memory" /\ r.op = "open_pr" => r.branch # BranchAt(k, "skills")
      BY <1>5, <2>1, <2>4, BranchAtType DEF Kinds
    <3>2. BranchAt(k, "skills") \in Branches
      BY <2>2 DEF Kinds
    <3> QED
      BY <2>1, <2>3, <3>1, <3>2 DEF Progress, GithubStep
  <2>7. k.kind = "skills" => Shipped(BranchAt(k, "memory"), k.files)'
    <3>1. BranchAt(k, "memory") \in Sole
      BY <2>2 DEF Kinds
    <3> QED
      BY <2>1, <3>1, CallKeeps, ShippedStays DEF Progress
  <2>8. k.pc = "committing" /\ Ok(q) => HasFiles(BranchAt(k, k.kind), FilesAt(k))'
    BY <1>5, <2>3 DEF Did, Waits
  <2>9. k.pc = "opening" => HasFiles(BranchAt(k, k.kind), FilesAt(k))'
    <3>1. k.pc = "opening" => HasFiles(BranchAt(k, k.kind), FilesAt(k))
      BY <2>1 DEF Progress
    <3>2. r.op = "open_pr" => \A b \in DOMAIN refs : b \in DOMAIN refs' /\ refs'[b] = refs[b]
      BY <2>3 DEF GithubStep
    <3> QED
      BY <2>4, <3>1, <3>2 DEF HasFiles
  <2>10. k.pc = "opening" /\ Ok(q) => HasPr(BranchAt(k, k.kind))'
    BY <1>5, <2>3, <2>4 DEF Did
  <2> QED
    BY <2>1, <2>5, <2>6, <2>7, <2>8, <2>9, <2>10 DEF Progress
<1>8. Shared(k.at)' <=> Shared(k.at)
  BY NamesAreStable
<1>9. TaskInv(k, q)'
  BY <1>6, <1>7, <1>8 DEF TaskInv, WaitsFor
<1> QED
  BY <1>2, <1>9

LEMMA DeletionsKept ==
  ASSUME IInv, Keeps, NamesStay, NEW d \in deleted
  PROVE  DeletionOK(d)'
<1>1. d.at \in Seconds /\ (d.discarded \/ Shared(d.at) \/ ToldAt(d.event, d.at))
  BY DEF IInv, LessonInv, DeletionOK
<1>2. PICK e, s : e = d.event /\ s = d.at
  OBVIOUS
<1>3. s \in Seconds /\ (d.discarded \/ Shared(s) \/ ToldAt(e, s))
  BY <1>1, <1>2
<1>4. d.discarded \/ Shared(s)' \/ ToldAt(e, s)'
  BY <1>3, ToldStays DEF NamesStay
<1> QED
  BY <1>2, <1>3, <1>4 DEF DeletionOK

LEMMA LessonsKept ==
  ASSUME IInv, Keeps, NamesStay, UNCHANGED <<buffer, captured, deleted>>
  PROVE  LessonInv'
  BY DeletionsKept DEF IInv, LessonInv

LEMMA CallPreserves ==
  ASSUME IInv, NEW t \in Tasks, NEW q, CallStep(t, q),
         UNCHANGED <<task, now, buffer, fanout, captured, deleted, named>>
  PROVE  IInv'
<1>1. GithubOK' /\ CallsOK'
  BY CallsAfterCall
<1>2. TasksOK' /\ BufferOK'
  BY DEF IInv, TasksOK, BufferOK, TaskOK
<1>3. HoldersOK' /\ WritersOK'
  BY HoldersAfterCall, WritersAfterCall
<1>4. TasksInv'
  BY OwnAfterCall, OtherAfterCall DEF TasksInv
<1>5. LessonInv'
  BY CallKeeps, LessonsKept, NamesAreStable
<1> QED
  BY <1>1, <1>2, <1>3, <1>4, <1>5 DEF IInv

LEMMA RepoHelperPreserves ==
  ASSUME IInv, NEW t \in Tasks, repo_helper(t)
  PROVE  IInv'
<1>1. run_op(t) /\ UNCHANGED <<task, now, buffer, fanout, captured, deleted, named>>
  BY DEF repo_helper, run_op, history
<1>2. PICK q : CallStep(t, q)
  BY <1>1, RunOpStep DEF IInv
<1> QED
  BY <1>1, <1>2, CallPreserves

-----------------------------------------------------------------------------
(* What a step of a task leaves true.                                      *)

\* Task t is now k and its call q; the other tasks and calls are as they were.
Becomes(t, k, q) ==
  /\ DOMAIN task' = Tasks /\ task'[t] = k /\ \A u \in Tasks : u # t => task'[u] = task[u]
  /\ DOMAIN calls' = Tasks /\ calls'[t] = q /\ \A u \in Tasks : u # t => calls'[u] = calls[u]

TaskParts == GithubOK /\ CallsOK /\ TasksOK /\ WritersOK /\ TasksInv

\* What a task and its call must be once the names are those of the next state.
Fits(k, q) == WaitsFor(k, q) /\ (k.pc \in Shipping /\ ~Shared(k.at)' => Progress(k, q))

LEMMA SoleShrinks ==
  ASSUME NamesStay
  PROVE  Sole' \subseteq Sole
<1>1. \A x \in DOMAIN BranchFor : x[1] \in Seconds
  BY LessonsAssumption
<1> QED
  BY <1>1 DEF NamesStay, Sole

LEMMA OneTask ==
  ASSUME IInv, NEW t \in Tasks, NEW k, NEW q, Becomes(t, k, q), UNCHANGED <<refs, prs>>, NamesStay,
         TaskOK(k), Fits(k, q), DOMAIN q = CallFields, CallOK(q), WriterOK(q)
  PROVE  TaskParts'
<1>1. GithubOK'
  BY DEF IInv, GithubOK
<1>2. ASSUME NEW u \in Tasks
      PROVE  /\ (DOMAIN calls[u] = CallFields /\ CallOK(calls[u]))'
             /\ TaskOK(task[u])'
             /\ WriterOK(calls[u])'
             /\ TaskInv(task[u], calls[u])'
  <2>1. PICK j, p : j = task'[u] /\ p = calls'[u]
    OBVIOUS
  <2>2. DOMAIN p = CallFields /\ CallOK(p) /\ TaskOK(j) /\ Fits(j, p) /\ WriterOK(p)
    <3>1. CASE u = t
      BY <2>1, <3>1 DEF Becomes
    <3>2. CASE u # t
      <4>1. j = task[u] /\ p = calls[u]
        BY <2>1, <3>2 DEF Becomes
      <4>2. DOMAIN p = CallFields /\ CallOK(p) /\ TaskOK(j) /\ TaskInv(j, p) /\ WriterOK(p)
        BY <4>1 DEF IInv, CallsOK, TasksOK, WritersOK, TasksInv
      <4>3. Fits(j, p)
        BY <4>2 DEF Fits, TaskInv, TaskOK, NamesStay
      <4> QED
        BY <4>2, <4>3
    <3> QED
      BY <3>1, <3>2
  <2>3. CallOK(p)'
    BY <2>2 DEF CallOK
  <2>4. TaskInv(j, p)'
    <3>1. HasPr(BranchAt(j, j.kind))' <=> HasPr(BranchAt(j, j.kind))
      BY DEF HasPr
    <3>2. HasPr(BranchAt(j, "skills"))' <=> HasPr(BranchAt(j, "skills"))
      BY DEF HasPr
    <3>3. Shipped(BranchAt(j, "memory"), j.files)' <=> Shipped(BranchAt(j, "memory"), j.files)
      BY DEF Shipped, HasPr, HasFiles
    <3>4. HasFiles(BranchAt(j, j.kind), FilesAt(j))' <=> HasFiles(BranchAt(j, j.kind), FilesAt(j))
      BY DEF HasFiles
    <3>5. \A e : ToldAt(e, j.at)' <=> ToldAt(e, j.at)
      BY DEF ToldAt, ToldBy, HasPr
    <3>6. Progress(j, p)' <=> Progress(j, p)
      BY <3>1, <3>2, <3>3, <3>4, <3>5 DEF Progress
    <3>7. WaitsFor(j, p)' <=> WaitsFor(j, p)
      BY DEF WaitsFor
    <3> QED
      BY <2>2, <3>6, <3>7 DEF TaskInv, Fits
  <2>5. WriterOK(p)'
    <3>1. HasPr(p.req.branch)' <=> HasPr(p.req.branch)
      BY DEF HasPr
    <3> QED
      BY <2>2, <3>1, SoleShrinks DEF WriterOK
  <2> QED
    BY <2>1, <2>2, <2>3, <2>4, <2>5 DEF TaskOK
<1> QED
  BY <1>1, <1>2 DEF TaskParts, CallsOK, TasksOK, WritersOK, TasksInv, Becomes

LEMMA HoldersShrink ==
  ASSUME IInv, NEW t \in Tasks, NEW k, NEW q, Becomes(t, k, q), UNCHANGED <<refs, now, named>>,
         \A b \in Retrospectives : Holds(k, q, b) => HeldBy(t, b)
  PROVE  HoldersOK'
<1>1. \A u \in Tasks, b \in Retrospectives : HeldBy(u, b)' => HeldBy(u, b)
  BY DEF Becomes, HeldBy
<1>2. \A x \in DOMAIN BranchFor : BranchFor[x] \in Retrospectives
  BY DEF Retrospectives
<1>3. Sole' = Sole /\ Sole \subseteq Retrospectives
  BY NamesAreStable, SoleType
<1> QED
  BY <1>1, <1>2, <1>3 DEF IInv, HoldersOK

LEMMA UnchangedKeeps ==
  ASSUME UNCHANGED <<refs, prs>>
  PROVE  Keeps
  BY DEF Keeps, HasPr

LEMMA LessonsStay ==
  ASSUME IInv, UNCHANGED <<refs, prs, buffer, captured, deleted, named>>
  PROVE  LessonInv'
  BY UnchangedKeeps, NamesAreStable, LessonsKept

\* The branches of k are those of j.
Follows(k, j) == k.pc \in Shipping => j.pc \in Shipping /\ k.at = j.at

LEMMA BecomesOwn ==
  ASSUME IInv, NEW t \in Tasks, NEW k, task' = [task EXCEPT ![t] = k], UNCHANGED calls
  PROVE  Becomes(t, k, calls[t])
  BY DEF IInv, TasksOK, CallsOK, Becomes

LEMMA ThinkParts ==
  ASSUME IInv, NEW t \in Tasks, NEW k, task' = [task EXCEPT ![t] = k],
         UNCHANGED <<refs, prs, calls>>, NamesStay, TaskOK(k), Fits(k, calls[t])
  PROVE  TaskParts'
<1>1. PICK q : q = calls[t]
  OBVIOUS
<1>2. Becomes(t, k, q)
  BY <1>1, BecomesOwn
<1>3. DOMAIN q = CallFields /\ CallOK(q) /\ WriterOK(q)
  BY <1>1, CallAt DEF IInv, WritersOK
<1> QED
  BY <1>1, <1>2, <1>3, OneTask

\* A task that makes no call and names no branch.
LEMMA ThinkPreserves ==
  ASSUME IInv, NEW t \in Tasks, NEW k, task' = [task EXCEPT ![t] = k],
         UNCHANGED <<refs, prs, calls, now, named>>, TaskOK(k), TaskInv(k, calls[t]),
         Follows(k, task[t]), BufferOK', LessonInv'
  PROVE  IInv'
<1>0. NamesStay /\ Fits(k, calls[t])
  BY NamesAreStable DEF TaskInv, Fits
<1>1. TaskParts'
  BY <1>0, ThinkParts
<1>2. HoldersOK'
  <2>1. PICK q : q = calls[t]
    OBVIOUS
  <2>2. Becomes(t, k, q)
    BY <2>1, BecomesOwn
  <2>3. \A b \in Retrospectives : Holds(k, q, b) => HeldBy(t, b)
    BY <2>1 DEF Holds, HeldBy, Follows, BranchAt
  <2> QED
    BY <2>2, <2>3, HoldersShrink
<1> QED
  BY <1>1, <1>2 DEF IInv, TaskParts

Fresh(k) == /\ DOMAIN k = TaskFields /\ k.slug \in Slugs /\ k.bullets \in Seq(Lessons)
            /\ k.listed = {} /\ k.ship = {} /\ k.drop = {} /\ k.reads = {}
            /\ k.files = [p \in {} |-> {}] /\ k.kind = "memory"

LEMMA FirstSlug == Projects[1] \in Slugs
<1>1. 1 \in DOMAIN Projects
  BY LessonsAssumption
<1> QED
  BY <1>1 DEF Slugs

LEMMA NoTaskIsFresh ==
  ASSUME NEW pc
  PROVE  Fresh([NoTask EXCEPT !.pc = pc]) /\ [NoTask EXCEPT !.pc = pc].pc = pc
  BY FirstSlug DEF NoTask, Fresh, TaskFields

LEMMA FreshTask ==
  ASSUME NEW k, Fresh(k), k.pc \in {"idle", "bullets", "list", "done", "dead"},
         NEW q, k.pc = "dead" \/ ~IsRunning(q)
  PROVE  TaskOK(k) /\ TaskInv(k, q) /\ k.pc \notin Shipping
<1>1. Files(k.files)
  BY DEF Files, Fresh
<1> QED
  BY <1>1 DEF Fresh, TaskOK, LessonEvents, TaskInv, WaitsFor, Waits, Shipping, Kinds

\* A task that ends, or begins.
LEMMA FreshPreserves ==
  ASSUME IInv, NEW t \in Tasks, NEW k, task' = [task EXCEPT ![t] = k],
         UNCHANGED <<refs, prs, calls, now, buffer, captured, deleted, named>>, fanout' \in Seq(Slugs),
         Fresh(k), k.pc \in {"bullets", "list", "done", "dead"},
         k.pc = "dead" \/ ~IsRunning(calls[t])
  PROVE  IInv'
<1>1. TaskOK(k) /\ TaskInv(k, calls[t]) /\ Follows(k, task[t])
  BY FreshTask DEF Follows
<1>2. BufferOK' /\ LessonInv' /\ UNCHANGED named
  BY LessonsStay DEF IInv, BufferOK
<1> QED
  BY <1>1, <1>2, ThinkPreserves

LEMMA GivesUpPreserves ==
  ASSUME IInv, NEW t \in Tasks, GivesUp(t), ~IsRunning(calls[t]),
         UNCHANGED <<refs, prs, calls, now, buffer, fanout, captured, deleted, named>>
  PROVE  IInv'
<1>1. fanout' \in Seq(Slugs)
  BY DEF IInv, BufferOK
<1>2. PICK k : k = [NoTask EXCEPT !.pc = "done"]
  OBVIOUS
<1> QED
  BY <1>1, <1>2, NoTaskIsFresh, FreshPreserves DEF GivesUp

\* A task that is not waiting for its call has none.
LEMMA NotWaiting ==
  ASSUME IInv, NEW t \in Tasks,
         task[t].pc \in {"idle", "bullets", "list", "plan", "read", "delete", "done"}
  PROVE  ~IsRunning(calls[t])
  BY TaskAt DEF TaskInv, WaitsFor, Waits

-----------------------------------------------------------------------------
(* The actions that make no call.                                          *)

LEMMA HandleCaptureEvent ==
  ASSUME IInv, NEW t \in Tasks, handle_capture_event(t)
  PROVE  IInv'
<1>1. ~IsRunning(calls[t]) /\ UNCHANGED <<refs, prs, calls, now, buffer, fanout, captured, deleted, named>>
  BY NotWaiting DEF handle_capture_event, Idle, hvars, history
<1>2. PICK event \in BusEvents, b \in Bullets :
        /\ event.slug \in Slugs
        /\ task' = [task EXCEPT ![t] = [NoTask EXCEPT !.pc = "bullets", !.slug = event.slug,
                                                     !.bullets = b]]
  BY DEF handle_capture_event, has_capture_input
<1>3. PICK k : k = [NoTask EXCEPT !.pc = "bullets", !.slug = event.slug, !.bullets = b]
  OBVIOUS
<1>4. b \in Seq(Lessons)
  BY LessonsAssumption
<1>5. Fresh(k) /\ k.pc = "bullets"
  BY <1>2, <1>3, <1>4 DEF NoTask, Fresh, TaskFields
<1>6. fanout' \in Seq(Slugs)
  BY <1>1 DEF IInv, BufferOK
<1> QED
  BY <1>1, <1>2, <1>3, <1>5, <1>6, FreshPreserves

LEMMA InvokeRuntime ==
  ASSUME IInv, NEW t \in Tasks, invoke_runtime(t)
  PROVE  IInv'
<1>1. /\ ~IsRunning(calls[t]) /\ fanout # <<>>
      /\ UNCHANGED <<refs, prs, calls, now, buffer, captured, deleted, named>>
  BY NotWaiting DEF invoke_runtime, Idle, hvars, history
<1>2. Head(fanout) \in Slugs /\ Tail(fanout) \in Seq(Slugs) /\ Projects \in Seq(Slugs)
  BY <1>1, LessonsAssumption DEF IInv, BufferOK
<1>3. fanout' \in Seq(Slugs)
  BY <1>2 DEF invoke_runtime
<1>4. PICK k : k = [NoTask EXCEPT !.pc = "list", !.slug = Head(fanout)]
  OBVIOUS
<1>5. Fresh(k) /\ k.pc = "list"
  BY <1>2, <1>4, FirstSlug DEF NoTask, Fresh, TaskFields
<1> QED
  BY <1>1, <1>3, <1>4, <1>5, FreshPreserves DEF invoke_runtime

LEMMA QuietParts ==
  ASSUME IInv, UNCHANGED <<refs, prs, calls, task, now, named>>
  PROVE  GithubOK' /\ CallsOK' /\ TasksOK' /\ HoldersOK' /\ WritersOK' /\ TasksInv'
<1>1. Sole' = Sole /\ \A s : Shared(s)' <=> Shared(s)
  BY NamesAreStable
<1>2. GithubOK' /\ CallsOK' /\ TasksOK'
  BY DEF IInv, GithubOK, CallsOK, CallOK, TasksOK
<1>3. HoldersOK' /\ WritersOK'
  BY <1>1 DEF IInv, HoldersOK, HeldBy, WritersOK, WriterOK, HasPr
<1>4. TasksInv'
  <2>1. \A e, s : ToldAt(e, s)' <=> ToldAt(e, s)
    BY DEF ToldAt, ToldBy, HasPr
  <2> QED
    BY <1>1, <2>1 DEF IInv, TasksInv, TaskInv, Progress, Shipped, HasPr, HasFiles
<1> QED
  BY <1>2, <1>3, <1>4

LEMMA DispatcherStep ==
  ASSUME IInv, UNCHANGED <<refs, prs, calls, task, now, buffer, captured, deleted, named>>,
         fanout' = Projects
  PROVE  IInv'
<1>1. BufferOK' /\ LessonInv'
  BY LessonsStay, LessonsAssumption DEF IInv, BufferOK
<1>2. GithubOK' /\ CallsOK' /\ TasksOK' /\ HoldersOK' /\ WritersOK' /\ TasksInv'
  BY QuietParts
<1> QED
  BY <1>1, <1>2 DEF IInv

LEMMA SessionType ==
  ASSUME IInv, NEW t \in Tasks
  PROVE  Session(t) \in Sessions /\ Session(t) \in DOMAIN buffer
  BY TaskAt, LessonsAssumption DEF TaskOK, Session, Sessions, IInv, BufferOK

LEMMA WriteBullets ==
  ASSUME IInv, NEW t \in Tasks, write_bullets(t)
  PROVE  IInv'
<1>1. /\ task[t].pc = "bullets" /\ ~IsRunning(calls[t])
      /\ UNCHANGED <<refs, prs, calls, now, fanout, deleted, named>>
  BY NotWaiting DEF write_bullets, hvars, history
<1>2. CASE task[t].bullets = <<>>
  BY <1>1, <1>2, GivesUpPreserves DEF write_bullets
<1>3. CASE task[t].bullets # <<>>
  <2>1. TaskOK(task[t]) /\ task[t].bullets \in Seq(Lessons) /\ DOMAIN task[t] = TaskFields
    BY TaskAt DEF TaskOK
  <2>2. PICK e, s : /\ e = [n |-> Cardinality(captured) + 1, lesson |-> Head(task[t].bullets)]
                    /\ s = Session(t)
    OBVIOUS
  <2>3. /\ buffer' = [buffer EXCEPT ![s] = @ \cup {e}] /\ captured' = captured \cup {e}
        /\ task' = [task EXCEPT ![t].bullets = Tail(@)]
    BY <1>3, <2>2 DEF write_bullets
  <2>4. e.lesson \in Lessons /\ Tail(task[t].bullets) \in Seq(Lessons) /\ s \in Sessions
    BY <1>3, <2>1, <2>2, SessionType
  <2>5. PICK k : k = [task[t] EXCEPT !.bullets = Tail(task[t].bullets)]
    OBVIOUS
  <2>6. /\ task' = [task EXCEPT ![t] = k] /\ DOMAIN k = TaskFields /\ k.pc = "bullets"
        /\ k.bullets \in Seq(Lessons)
        /\ k.slug = task[t].slug /\ k.listed = task[t].listed /\ k.ship = task[t].ship
        /\ k.drop = task[t].drop /\ k.reads = task[t].reads /\ k.files = task[t].files
        /\ k.kind = task[t].kind
    BY <1>1, <2>1, <2>3, <2>4, <2>5 DEF TaskFields
  <2>7. TaskOK(k) /\ TaskInv(k, calls[t]) /\ Follows(k, task[t])
    BY <1>1, <2>1, <2>6 DEF TaskOK, TaskInv, WaitsFor, Waits, Shipping, Follows
  <2>8. BufferOK'
    BY <1>1, <2>3, <2>4 DEF IInv, BufferOK, LessonEvents
  <2>9. LessonInv'
    <3>1. \A d \in deleted : DeletionOK(d)'
      BY <1>1, UnchangedKeeps, NamesAreStable, DeletionsKept
    <3>2. s \in DOMAIN buffer /\ DOMAIN buffer = Sessions
      BY <2>4 DEF IInv, BufferOK
    <3>3. e \in buffer'[s] /\ \A z \in Sessions : buffer[z] \subseteq buffer'[z]
      BY <2>3, <3>2
    <3>4. \A x \in captured' : (\E z \in Sessions : x \in buffer'[z]) \/ \E d \in deleted : d.event = x
      BY <2>3, <2>4, <3>3 DEF IInv, LessonInv
    <3> QED
      BY <1>1, <3>1, <3>4 DEF LessonInv
  <2> QED
    BY <1>1, <2>6, <2>7, <2>8, <2>9, ThinkPreserves
<1> QED
  BY <1>2, <1>3

LEMMA ListEvents ==
  ASSUME IInv, NEW t \in Tasks, list_events(t)
  PROVE  IInv'
<1>1. /\ task[t].pc = "list" /\ ~IsRunning(calls[t])
      /\ UNCHANGED <<refs, prs, calls, now, buffer, fanout, captured, deleted, named>>
  BY NotWaiting DEF list_events, hvars, history, others
<1>2. CASE buffer[Session(t)] = {}
  BY <1>1, <1>2, GivesUpPreserves DEF list_events
<1>3. CASE buffer[Session(t)] # {}
  <2>1. TaskOK(task[t]) /\ DOMAIN task[t] = TaskFields /\ LessonEvents(buffer[Session(t)])
    BY TaskAt, SessionType DEF TaskOK, IInv, BufferOK
  <2>2. PICK k : k = [task[t] EXCEPT !.pc = "plan", !.listed = buffer[Session(t)]]
    OBVIOUS
  <2>3. t \in DOMAIN task
    BY DEF IInv, TasksOK
  <2>4. /\ task' = [task EXCEPT ![t] = k] /\ DOMAIN k = TaskFields /\ k.pc = "plan"
        /\ k.listed = buffer[Session(t)]
        /\ k.slug = task[t].slug /\ k.bullets = task[t].bullets /\ k.ship = task[t].ship
        /\ k.drop = task[t].drop /\ k.reads = task[t].reads /\ k.files = task[t].files
        /\ k.kind = task[t].kind
    BY <1>3, <2>1, <2>2, <2>3 DEF list_events, TaskFields
  <2>5. TaskOK(k) /\ TaskInv(k, calls[t]) /\ Follows(k, task[t])
    BY <1>1, <2>1, <2>4 DEF TaskOK, TaskInv, WaitsFor, Waits, Shipping, Follows
  <2>6. BufferOK' /\ LessonInv'
    BY <1>1, LessonsStay DEF IInv, BufferOK
  <2> QED
    BY <1>1, <2>4, <2>5, <2>6, ThinkPreserves
<1> QED
  BY <1>2, <1>3

\* The fields of a task that no action after consolidate changes.
Same(k, j) == /\ k.slug = j.slug /\ k.bullets = j.bullets /\ k.listed = j.listed
              /\ k.ship = j.ship /\ k.drop = j.drop

\* What naming branches in the present second does to the names.
LEMMA NamesNow ==
  ASSUME IInv, NEW t \in Tasks, consolidate(t)
  PROVE  /\ named' \in [Seconds -> Nat] /\ named'[now] # 0
         /\ \A s \in Seconds : s # now => named'[s] = named[s]
         /\ NamesStay
         /\ ~(named'[now] > 1) => named[now] = 0
<1>1. named' = [named EXCEPT ![now] = @ + 1] /\ now \in Seconds /\ named \in [Seconds -> Nat]
  BY DEF consolidate, IInv, HoldersOK
<1>2. named[now] \in Nat /\ named'[now] = named[now] + 1
  BY <1>1
<1>3. \A s \in Seconds : s # now => named'[s] = named[s]
  BY <1>1
<1>4. named[now] > 1 => named'[now] > 1
  BY <1>2
<1>5. NamesStay
  BY <1>3, <1>4 DEF NamesStay, Shared
<1> QED
  BY <1>1, <1>2, <1>3, <1>5

LEMMA ConsolidateTask ==
  ASSUME IInv, NEW t \in Tasks, consolidate(t)
  PROVE  \E k : /\ task' = [task EXCEPT ![t] = k] /\ k.pc = "read" /\ k.at = now
                /\ TaskOK(k) /\ Fits(k, calls[t])
<1>1. /\ task[t].pc = "plan" /\ ~IsRunning(calls[t]) /\ TaskOK(task[t]) /\ DOMAIN task[t] = TaskFields
      /\ t \in DOMAIN task
  BY NotWaiting, TaskAt DEF consolidate, TaskOK, IInv, TasksOK
<1>2. PICK ship \in SUBSET task[t].listed : \E drop \in SUBSET (task[t].listed \ ship) :
        task' = [task EXCEPT ![t].pc = "read", ![t].ship = ship, ![t].drop = drop,
                             ![t].reads = Scopes(ship) \ SkillPaths, ![t].at = now]
  BY DEF consolidate
<1>3. PICK drop \in SUBSET (task[t].listed \ ship) :
        task' = [task EXCEPT ![t].pc = "read", ![t].ship = ship, ![t].drop = drop,
                             ![t].reads = Scopes(ship) \ SkillPaths, ![t].at = now]
  BY <1>2
<1>4. PICK k : k = [task[t] EXCEPT !.pc = "read", !.ship = ship, !.drop = drop,
                                   !.reads = Scopes(ship) \ SkillPaths, !.at = now]
  OBVIOUS
<1>5. /\ task' = [task EXCEPT ![t] = k] /\ DOMAIN k = TaskFields
      /\ k.pc = "read" /\ k.ship = ship /\ k.drop = drop
      /\ k.reads = Scopes(ship) \ SkillPaths /\ k.at = now
      /\ k.slug = task[t].slug /\ k.bullets = task[t].bullets /\ k.listed = task[t].listed
      /\ k.files = task[t].files /\ k.kind = task[t].kind
  BY <1>1, <1>3, <1>4 DEF TaskFields
<1>6. k.kind = "memory" /\ DOMAIN k.files = {} /\ k.at \in Seconds
  BY <1>1, <1>5 DEF TaskOK, Shipping, IInv, HoldersOK
<1>7. LessonEvents(ship) /\ LessonEvents(drop)
  BY <1>1 DEF TaskOK, LessonEvents
<1>8. Scopes(ship) \subseteq Paths
  BY <1>7, LessonsAssumption DEF Scopes, LessonEvents
<1>9. TaskOK(k)
  BY <1>1, <1>5, <1>6, <1>7, <1>8 DEF TaskOK, Shipping, Kinds
<1>10. ASSUME ~(named'[now] > 1)
       PROVE  \A kind \in Kinds : ~HasPr(BranchAt(k, kind))
  <2>1. \A kind \in Kinds : <<now, kind>> \in DOMAIN BranchFor
    BY <1>5, <1>6, LessonsAssumption
  <2>2. named[now] = 0
    BY <1>10, NamesNow
  <2>3. \A kind \in Kinds : BranchFor[<<now, kind>>] \notin DOMAIN refs
    BY <2>1, <2>2 DEF IInv, HoldersOK
  <2> QED
    BY <1>5, <2>3 DEF BranchAt, HasPr, IInv, GithubOK
<1>11. Fits(k, calls[t])
  <2>1. WaitsFor(k, calls[t])
    BY <1>1, <1>5 DEF WaitsFor, Waits
  <2>2. Shared(k.at)' <=> named'[now] > 1
    BY <1>5 DEF Shared
  <2>3. ASSUME ~Shared(k.at)'
        PROVE  Progress(k, calls[t])
    BY <1>5, <1>6, <1>10, <2>2, <2>3 DEF Progress, Kinds
  <2> QED
    BY <2>1, <2>3 DEF Fits
<1> QED
  BY <1>5, <1>9, <1>11

LEMMA Consolidate ==
  ASSUME IInv, NEW t \in Tasks, consolidate(t)
  PROVE  IInv'
<1>0. /\ NamesStay /\ named' \in [Seconds -> Nat]
      /\ \A s \in Seconds : named'[s] = 0 => s # now /\ named[s] = 0
      /\ ~(named'[now] > 1) => named[now] = 0
  BY NamesNow
<1>1. UNCHANGED <<refs, prs, calls, buffer, fanout, captured, deleted>> /\ now' \in Seconds
  BY DEF consolidate, hvars
<1>2. PICK k : /\ task' = [task EXCEPT ![t] = k] /\ k.pc = "read" /\ k.at = now
               /\ TaskOK(k) /\ Fits(k, calls[t])
  BY ConsolidateTask
<1>3. TaskParts'
  BY <1>0, <1>1, <1>2, ThinkParts
<1>4. BufferOK' /\ LessonInv'
  BY <1>0, <1>1, UnchangedKeeps, LessonsKept DEF IInv, BufferOK
<1>5. PICK q : q = calls[t]
  OBVIOUS
<1>6. Becomes(t, k, q) /\ ~IsRunning(q)
  BY <1>1, <1>2, <1>5, BecomesOwn, NotWaiting DEF consolidate
<1>7. /\ now \in Seconds /\ Sole' \subseteq Sole /\ Sole \subseteq Retrospectives
      /\ \A x \in DOMAIN BranchFor : x[1] \in Seconds /\ BranchFor[x] \in Retrospectives
  BY <1>0, SoleShrinks, SoleType, LessonsAssumption DEF IInv, HoldersOK, Retrospectives
<1>8. \A u \in Tasks, b \in Retrospectives : u # t => (HeldBy(u, b)' <=> HeldBy(u, b))
  BY <1>6 DEF Becomes, HeldBy
<1>9. ASSUME NEW b \in Retrospectives, HeldBy(t, b)'
      PROVE  \E x \in DOMAIN BranchFor : b = BranchFor[x] /\ x[1] = now
  <2>1. PICK kind \in Kinds : b = BranchAt(k, kind)
    BY <1>2, <1>6, <1>9 DEF Becomes, HeldBy, Holds
  <2>2. PICK x : x = <<now, kind>>
    OBVIOUS
  <2>3. x \in DOMAIN BranchFor /\ x[1] = now /\ b = BranchFor[x]
    BY <1>2, <2>1, <2>2, LessonsAssumption DEF BranchAt, IInv, HoldersOK
  <2> QED
    BY <2>3
<1>10. \A b \in Sole' : \A u, v \in Tasks : HeldBy(u, b)' /\ HeldBy(v, b)' => u = v
  <2> SUFFICES ASSUME NEW b \in Sole', NEW u \in Tasks, HeldBy(u, b)', u # t, HeldBy(t, b)'
               PROVE  FALSE
    BY <1>7, <1>8 DEF IInv, HoldersOK
  <2>1. PICK x \in DOMAIN BranchFor : b = BranchFor[x] /\ x[1] = now
    BY <1>7, <1>9
  <2>2. PICK y \in DOMAIN BranchFor : b = BranchFor[y] /\ ~(named'[y[1]] > 1)
    BY DEF Sole, Shared
  <2>3. x = y
    BY <2>1, <2>2, LessonsAssumption
  <2>4. named[x[1]] = 0
    BY <1>0, <2>1, <2>2, <2>3
  <2>5. ~HeldBy(u, b)
    BY <2>1, <2>4 DEF IInv, HoldersOK
  <2> QED
    BY <1>7, <1>8, <2>5
<1>11. ASSUME NEW x \in DOMAIN BranchFor, named'[x[1]] = 0
       PROVE  BranchFor[x] \notin DOMAIN refs' /\ \A u \in Tasks : ~HeldBy(u, BranchFor[x])'
  <2>1. named[x[1]] = 0 /\ x[1] # now
    BY <1>0, <1>7, <1>11
  <2>2. BranchFor[x] \notin DOMAIN refs' /\ \A u \in Tasks : ~HeldBy(u, BranchFor[x])
    BY <1>1, <2>1 DEF IInv, HoldersOK
  <2>3. ~HeldBy(t, BranchFor[x])'
    <3>1. \A y \in DOMAIN BranchFor : BranchFor[x] = BranchFor[y] => y[1] = x[1]
      BY LessonsAssumption
    <3> QED
      BY <1>7, <1>9, <2>1, <3>1
  <2> QED
    BY <1>7, <1>8, <2>2, <2>3
<1>12. HoldersOK'
  BY <1>0, <1>1, <1>10, <1>11 DEF HoldersOK
<1> QED
  BY <1>3, <1>4, <1>12 DEF IInv, TaskParts

LEMMA LessonsForType ==
  ASSUME NEW t \in Tasks, TaskOK(task[t]), NEW x
  PROVE  /\ LessonsFor(t, x) \in SUBSET Lessons
         /\ TellsAll({e \in task[t].ship : PathOf[e.lesson] = x}, LessonsFor(t, x))
  BY DEF LessonsFor, TaskOK, LessonEvents, TellsAll

LEMMA UnionFiles ==
  ASSUME NEW f, Files(f), NEW x \in Paths, NEW c \in SUBSET Lessons
  PROVE  /\ Files(Union(f, File(x, c))) /\ DOMAIN Union(f, File(x, c)) = DOMAIN f \cup {x}
         /\ Union(f, File(x, c))[x] = c
         /\ \A y \in DOMAIN f : y # x => Union(f, File(x, c))[y] = f[y]
<1>1. PICK P \in SUBSET Paths : f \in [P -> SUBSET Lessons]
  BY DEF Files
<1>2. Union(f, File(x, c)) = [y \in P \cup {x} |-> IF y = x THEN c ELSE f[y]]
  BY <1>1 DEF Union, File
<1>3. Union(f, File(x, c)) \in [P \cup {x} -> SUBSET Lessons] /\ P \cup {x} \in SUBSET Paths
  BY <1>1, <1>2
<1> QED
  BY <1>1, <1>2, <1>3 DEF Files

LEMMA AppendAdditions ==
  ASSUME IInv, NEW t \in Tasks, append_additions(t)
  PROVE  IInv'
<1>1. /\ task[t].pc = "reading" /\ Ok(calls[t]) /\ t \in DOMAIN task
      /\ UNCHANGED <<refs, prs, calls, now, buffer, fanout, captured, deleted, named>>
  BY DEF append_additions, Answers, At, Ok, hvars, history, others, IInv, TasksOK
<1>2. TaskOK(task[t]) /\ DOMAIN task[t] = TaskFields /\ TaskInv(task[t], calls[t]) /\ CallOK(calls[t])
  BY TaskAt, CallAt DEF TaskOK, IInv
<1>3. calls[t].req.op = "get_file"
  BY <1>1, <1>2 DEF TaskInv, WaitsFor, Waits
<1>4. PICK x \in Paths : DOMAIN calls[t].req.files = {x}
  BY <1>1, <1>2, <1>3 DEF CallOK, Ok
<1>5. PICK doc : doc = IF calls[t].answer.exists THEN calls[t].answer.content ELSE {}
  OBVIOUS
<1>6. doc # Malformed => doc \in SUBSET Lessons
  BY <1>1, <1>2, <1>3, <1>5, LessonsAssumption DEF CallOK, Ok
<1>7. PICK files : files = IF parse_fails(doc) THEN task[t].files
                           ELSE Union(task[t].files, File(x, doc \cup LessonsFor(t, x)))
  OBVIOUS
<1> DEFINE p == CHOOSE q \in DOMAIN calls[t].req.files : TRUE
           found == IF calls[t].answer.exists THEN calls[t].answer.content ELSE {}
<1>8. task' = [task EXCEPT ![t].pc = "read", ![t].reads = @ \ {p},
                 ![t].files = IF parse_fails(found) THEN @
                              ELSE Union(@, File(p, found \cup LessonsFor(t, p)))]
  BY DEF append_additions
<1>9. task' = [task EXCEPT ![t].pc = "read", ![t].reads = @ \ {x}, ![t].files = files]
  <2>1. p = x /\ found = doc
    BY <1>4, <1>5
  <2> HIDE DEF p, found
  <2> QED
    BY <1>7, <1>8, <2>1
<1> HIDE DEF p, found
<1>10. PICK k : k = [task[t] EXCEPT !.pc = "read", !.reads = @ \ {x}, !.files = files]
  OBVIOUS
<1>11. /\ task' = [task EXCEPT ![t] = k] /\ DOMAIN k = TaskFields /\ k.pc = "read"
       /\ k.reads = task[t].reads \ {x} /\ k.files = files
       /\ k.at = task[t].at /\ k.kind = task[t].kind /\ Same(k, task[t])
  BY <1>1, <1>2, <1>9, <1>10 DEF TaskFields, Same
<1>12. Files(files) /\ \A y \in DOMAIN files : TellsAll({e \in k.ship : PathOf[e.lesson] = y}, files[y])
  <2>1. CASE parse_fails(doc)
    BY <1>2, <1>7, <1>11, <2>1 DEF TaskOK, Same
  <2>2. CASE ~parse_fails(doc)
    <3>1. PICK c : c = doc \cup LessonsFor(t, x)
      OBVIOUS
    <3>2. c \in SUBSET Lessons /\ TellsAll({e \in task[t].ship : PathOf[e.lesson] = x}, c)
      BY <1>2, <1>6, <2>2, <3>1, LessonsForType DEF parse_fails, TellsAll
    <3>3. PICK f : f = task[t].files
      OBVIOUS
    <3>4. files = Union(f, File(x, c)) /\ Files(f)
      BY <1>2, <1>7, <2>2, <3>1, <3>3 DEF TaskOK
    <3>5. /\ Files(files) /\ DOMAIN files = DOMAIN f \cup {x} /\ files[x] = c
          /\ \A y \in DOMAIN f : y # x => files[y] = f[y]
      BY <3>2, <3>4, UnionFiles
    <3>6. k.ship = task[t].ship /\ \A y \in DOMAIN f : TellsAll({e \in k.ship : PathOf[e.lesson] = y}, f[y])
      BY <1>2, <1>11, <3>3 DEF TaskOK, Same
    <3>7. ASSUME NEW y \in DOMAIN files
          PROVE  TellsAll({e \in k.ship : PathOf[e.lesson] = y}, files[y])
      <4>1. CASE y = x
        BY <3>2, <3>5, <3>6, <4>1
      <4>2. CASE y # x
        BY <3>5, <3>6, <4>2
      <4> QED
        BY <4>1, <4>2
    <3> QED
      BY <3>5, <3>7
  <2> QED
    BY <2>1, <2>2
<1>13. k.kind = "memory" /\ k.at \in Seconds
  BY <1>1, <1>2, <1>11 DEF TaskOK, Kinds, Shipping
<1>14. TaskOK(k)
  BY <1>2, <1>11, <1>12, <1>13 DEF TaskOK, Same, Shipping, Kinds
<1>15. TaskInv(k, calls[t])
  BY <1>1, <1>2, <1>11, <1>13 DEF TaskInv, WaitsFor, Waits, Shipping, Progress, BranchAt, Ok, IsRunning
<1>16. Follows(k, task[t]) /\ BufferOK' /\ LessonInv'
  BY <1>1, <1>11, LessonsStay DEF Follows, Shipping, IInv, BufferOK
<1> QED
  BY <1>1, <1>11, <1>14, <1>15, <1>16, ThinkPreserves

LEMMA ShippedTells ==
  ASSUME NEW k, NEW kind \in Kinds, NEW files, Files(files), Shipped(BranchAt(k, kind), files),
         NEW e, PathOf[e.lesson] \in DOMAIN files, e.lesson \in files[PathOf[e.lesson]]
  PROVE  ToldAt(e, k.at)
<1>0. PICK b : b = BranchAt(k, kind)
  OBVIOUS
<1>1. PICK x : x = PathOf[e.lesson]
  OBVIOUS
<1>2. files[x] \in SUBSET Lessons
  BY <1>1 DEF Files
<1>3. files[x] \notin {NoFile, Malformed}
  BY <1>2, LessonsAssumption, RepoHelperAssumption
<1>4. HasPr(b) /\ b \in DOMAIN refs /\ TreeOf(refs[b])[x] = files[x]
  BY <1>0, <1>1 DEF Shipped, HasFiles
<1>5. ToldBy(e, b)
  BY <1>1, <1>3, <1>4 DEF ToldBy, Tells
<1> QED
  BY <1>0, <1>5 DEF ToldAt, BranchAt

LEMMA SkillsOfType ==
  ASSUME NEW k, LessonEvents(k.ship)
  PROVE  /\ Files(SkillsOf(k))
         /\ \A e \in k.ship : PathOf[e.lesson] \in SkillPaths =>
              /\ PathOf[e.lesson] \in DOMAIN SkillsOf(k)
              /\ e.lesson \in SkillsOf(k)[PathOf[e.lesson]]
<1> DEFINE P == Scopes(k.ship) \cap SkillPaths
           Of(x) == {e.lesson : e \in {f \in k.ship : PathOf[f.lesson] = x}}
<1>1. P \in SUBSET Paths
  BY LessonsAssumption
<1>2. \A x \in P : Of(x) \in SUBSET Lessons
  BY DEF LessonEvents
<1>3. SkillsOf(k) = [x \in P |-> Of(x)]
  BY DEF SkillsOf
<1>4. Files(SkillsOf(k))
  BY <1>1, <1>2, <1>3 DEF Files
<1>5. ASSUME NEW e \in k.ship, PathOf[e.lesson] \in SkillPaths
      PROVE  PathOf[e.lesson] \in P /\ e.lesson \in Of(PathOf[e.lesson])
  BY <1>5 DEF Scopes
<1> QED
  BY <1>3, <1>4, <1>5

\* Everything that is about to be deleted was discarded or is in a PR.
LEMMA ConsumedTold ==
  ASSUME IInv, NEW t \in Tasks, task[t].pc \in Shipping,
         Shipped(BranchAt(task[t], "memory"), task[t].files),
         Shipped(BranchAt(task[t], "skills"), SkillsOf(task[t]))
  PROVE  \A e \in consumed(t) : e \in task[t].drop \/ ToldAt(e, task[t].at)
<1>1. TaskOK(task[t]) /\ LessonEvents(task[t].ship) /\ Files(task[t].files)
  BY TaskAt DEF TaskOK
<1>2. "memory" \in Kinds /\ "skills" \in Kinds
  BY DEF Kinds
<1> SUFFICES ASSUME NEW e \in task[t].ship, intended_scopes(t) = scopes_written(t)
             PROVE  ToldAt(e, task[t].at)
  BY DEF consumed
<1>3. CASE PathOf[e.lesson] \in SkillPaths
  <2>1. /\ Files(SkillsOf(task[t])) /\ PathOf[e.lesson] \in DOMAIN SkillsOf(task[t])
        /\ e.lesson \in SkillsOf(task[t])[PathOf[e.lesson]]
    BY <1>1, <1>3, SkillsOfType
  <2> QED
    BY <1>1, <1>2, <2>1, ShippedTells
<1>4. CASE PathOf[e.lesson] \notin SkillPaths
  <2>1. PathOf[e.lesson] \in DOMAIN task[t].files
    BY <1>4 DEF intended_scopes, scopes_written, Scopes
  <2>2. e.lesson \in task[t].files[PathOf[e.lesson]]
    BY <1>1, <2>1 DEF TaskOK, TellsAll
  <2> QED
    BY <1>1, <1>2, <2>1, <2>2, ShippedTells
<1> QED
  BY <1>3, <1>4

\* The memory PR is open, or there is nothing for one: on to the skills.
LEMMA ToSkills ==
  ASSUME IInv, NEW t \in Tasks, task[t].kind = "memory", task[t].pc \in Shipping, task[t].reads = {},
         ~Shared(task[t].at) => Shipped(BranchAt(task[t], "memory"), FilesAt(task[t])),
         ~IsRunning(calls[t]),
         UNCHANGED <<refs, prs, calls, now, buffer, fanout, captured, deleted, named>>,
         NEW k, task' = [task EXCEPT ![t] = k], DOMAIN k = TaskFields, Same(k, task[t]),
         k.pc = "read", k.kind = "skills", k.reads = {}, k.files = task[t].files, k.at = task[t].at
  PROVE  IInv'
<1>1. TaskOK(task[t]) /\ TaskInv(task[t], calls[t])
  BY TaskAt
<1>2. TaskOK(k)
  BY <1>1 DEF TaskOK, Same, Shipping, Kinds
<1>3. TaskInv(k, calls[t])
  BY <1>1 DEF TaskInv, WaitsFor, Waits, Progress, BranchAt, FilesAt, Ok
<1>4. Follows(k, task[t]) /\ BufferOK' /\ LessonInv'
  BY LessonsStay DEF Follows, IInv, BufferOK
<1> QED
  BY <1>2, <1>3, <1>4, ThinkPreserves

LEMMA ToDelete ==
  ASSUME IInv, NEW t \in Tasks, task[t].kind = "skills", task[t].pc \in Shipping, task[t].reads = {},
         ~Shared(task[t].at) => Shipped(BranchAt(task[t], "skills"), FilesAt(task[t])),
         ~IsRunning(calls[t]),
         UNCHANGED <<refs, prs, calls, now, buffer, fanout, captured, deleted, named>>,
         NEW k, task' = [task EXCEPT ![t] = k], DOMAIN k = TaskFields, Same(k, task[t]),
         k.pc = "delete", k.kind = "skills", k.reads = {}, k.files = task[t].files, k.at = task[t].at,
         k.todo = consumed(t)
  PROVE  IInv'
<1>1. TaskOK(task[t]) /\ TaskInv(task[t], calls[t])
  BY TaskAt
<1>2. TaskOK(k)
  BY <1>1 DEF TaskOK, Same, Shipping, Kinds
<1>3. ~Shared(k.at) => \A e \in k.todo : e \in k.drop \/ ToldAt(e, k.at)
  BY <1>1, ConsumedTold DEF TaskInv, Progress, FilesAt, Same
<1>4. TaskInv(k, calls[t])
  BY <1>1, <1>3 DEF TaskInv, WaitsFor, Waits, Progress, BranchAt, FilesAt, Ok
<1>5. Follows(k, task[t]) /\ BufferOK' /\ LessonInv'
  BY LessonsStay DEF Follows, IInv, BufferOK
<1> QED
  BY <1>2, <1>4, <1>5, ThinkPreserves

\* On from a kind that is shipped, whatever action finds it so.
Onward(t) == IF task[t].kind = "memory"
               THEN task' = [task EXCEPT ![t].pc = "read", ![t].kind = "skills"]
               ELSE task' = [task EXCEPT ![t].pc = "delete", ![t].todo = consumed(t)]

LEMMA OnwardPreserves ==
  ASSUME IInv, NEW t \in Tasks, task[t].pc \in Shipping, task[t].reads = {},
         ~Shared(task[t].at) => Shipped(BranchAt(task[t], task[t].kind), FilesAt(task[t])),
         ~IsRunning(calls[t]),
         UNCHANGED <<refs, prs, calls, now, buffer, fanout, captured, deleted, named>>,
         Onward(t)
  PROVE  IInv'
<1>1. /\ TaskOK(task[t]) /\ DOMAIN task[t] = TaskFields /\ t \in DOMAIN task
      /\ task[t].kind \in {"memory", "skills"}
  BY TaskAt DEF TaskOK, IInv, TasksOK, Kinds
<1>2. CASE task[t].kind = "memory"
  <2>1. PICK k : k = [task[t] EXCEPT !.pc = "read", !.kind = "skills"]
    OBVIOUS
  <2>2. /\ task' = [task EXCEPT ![t] = k] /\ DOMAIN k = TaskFields /\ Same(k, task[t])
        /\ k.pc = "read" /\ k.kind = "skills" /\ k.reads = {} /\ k.files = task[t].files
        /\ k.at = task[t].at
    BY <1>1, <1>2, <2>1 DEF TaskFields, Same, Onward
  <2> QED
    BY <1>2, <2>2, ToSkills
<1>3. CASE task[t].kind = "skills"
  <2>1. PICK k : k = [task[t] EXCEPT !.pc = "delete", !.todo = consumed(t)]
    OBVIOUS
  <2>2. /\ task' = [task EXCEPT ![t] = k] /\ DOMAIN k = TaskFields /\ Same(k, task[t])
        /\ k.pc = "delete" /\ k.kind = "skills" /\ k.reads = {} /\ k.files = task[t].files
        /\ k.at = task[t].at /\ k.todo = consumed(t)
    BY <1>1, <1>3, <2>1 DEF TaskFields, Same, Onward
  <2> QED
    BY <1>3, <2>2, ToDelete
<1> QED
  BY <1>1, <1>2, <1>3

LEMMA Opened ==
  ASSUME IInv, NEW t \in Tasks, opened(t)
  PROVE  IInv'
<1>1. /\ task[t].pc = "opening" /\ Ok(calls[t]) /\ ~IsRunning(calls[t])
      /\ UNCHANGED <<refs, prs, calls, now, buffer, fanout, captured, deleted, named>>
  BY DEF opened, Answers, At, Ok, IsRunning, hvars, history, others
<1>2. TaskOK(task[t]) /\ TaskInv(task[t], calls[t]) /\ task[t].reads = {}
  BY <1>1, TaskAt DEF TaskOK
<1>3. /\ ~Shared(task[t].at) => Shipped(BranchAt(task[t], task[t].kind), FilesAt(task[t]))
      /\ task[t].pc \in Shipping
  BY <1>1, <1>2 DEF TaskInv, Progress, Shipping, Shipped
<1>4. Onward(t)
  BY DEF opened, Onward
<1> QED
  BY <1>1, <1>2, <1>3, <1>4, OnwardPreserves

-----------------------------------------------------------------------------
(* The actions that call repo_helper.                                      *)

\* What a task may ask for, at the place it is at.
MayAsk(k, op, b, files, waiting) ==
  /\ waiting \in DOMAIN Waits /\ op = Waits[waiting]
  /\ k.pc \in Shipping \ {"opening", "delete"}
  /\ waiting = "reading" => b = Base /\ k.kind = "memory" /\ \E p \in Paths : DOMAIN files = {p}
  /\ waiting # "reading" => b = BranchAt(k, k.kind) /\ k.reads = {}
  /\ waiting = "committing" => files = FilesAt(k)
  /\ waiting = "opening" /\ ~Shared(k.at) => HasFiles(b, FilesAt(k))

LEMMA FilesAtType ==
  ASSUME NEW k, TaskOK(k)
  PROVE  Files(FilesAt(k))
  BY SkillsOfType DEF TaskOK, FilesAt

LEMMA AskPreserves ==
  ASSUME IInv, NEW t \in Tasks, NEW op, NEW b, NEW files, NEW waiting,
         Ask(t, op, b, files, waiting), MayAsk(task[t], op, b, files, waiting)
  PROVE  IInv'
<1> DEFINE r == [op |-> op, branch |-> b, files |-> files, pr |-> 0]
<1>1. /\ TaskOK(task[t]) /\ DOMAIN task[t] = TaskFields /\ TaskInv(task[t], calls[t])
      /\ t \in DOMAIN task /\ DOMAIN calls = Tasks
  BY TaskAt DEF TaskOK, IInv, TasksOK, CallsOK
<1>2. waiting \in {"reading", "branching", "committing", "opening"} /\ op \in DISPATCH
  BY DEF MayAsk, Waits, DISPATCH, FirstRequest
<1>3. PICK q : q = [NoCall EXCEPT !.pc = FirstRequest[op], !.req = r]
  OBVIOUS
<1>4. PICK k : k = [task[t] EXCEPT !.pc = waiting]
  OBVIOUS
<1>5. /\ calls' = [calls EXCEPT ![t] = q] /\ task' = [task EXCEPT ![t] = k]
      /\ UNCHANGED <<refs, prs, now, buffer, fanout, captured, deleted, named>>
  BY <1>1, <1>2, <1>3, <1>4 DEF Ask, handler, github, others, history
<1>6. /\ DOMAIN q = CallFields /\ q.pc = FirstRequest[op] /\ q.req.op = op /\ q.req.branch = b
      /\ q.req.files = files
  BY <1>3 DEF NoCall, CallFields
<1>7. /\ DOMAIN k = TaskFields /\ k.pc = waiting /\ Same(k, task[t]) /\ k.reads = task[t].reads
      /\ k.files = task[t].files /\ k.at = task[t].at /\ k.kind = task[t].kind
  BY <1>1, <1>4 DEF TaskFields, Same
<1>8. /\ k.at \in Seconds /\ k.kind \in Kinds /\ k.pc \in Shipping
      /\ task[t].pc \in Shipping /\ task[t].pc \notin {"opening", "delete"}
  BY <1>1, <1>2, <1>7 DEF TaskOK, MayAsk, Shipping
<1>9. BranchAt(k, k.kind) = BranchAt(task[t], task[t].kind) /\ FilesAt(k) = FilesAt(task[t])
  BY <1>7 DEF BranchAt, FilesAt, SkillsOf, Same
<1>10. waiting # "reading" => b \in Retrospectives /\ (b \in Sole => ~HasPr(b))
  <2>1. /\ BranchAt(k, k.kind) \in Retrospectives
        /\ BranchAt(k, k.kind) \in Sole <=> ~Shared(task[t].at)
    BY <1>7, <1>8, BranchAtType
  <2> QED
    BY <1>1, <1>8, <1>9, <2>1 DEF MayAsk, TaskInv, Progress
<1>11. q.pc \in PcsOf(op) /\ q.pc \notin {"answered", "idle", "post_ref", "objects", "patch_ref"}
  BY <1>2, <1>6 DEF MayAsk, Waits, FirstRequest, PcsOf
<1>12. CallOK(q)
  <2>1. waiting = "committing" => Files(files)
    BY <1>1, FilesAtType DEF MayAsk
  <2>2. op \in {"get_file"} \cup Writes /\ (op \in Writes <=> waiting # "reading")
        /\ (op = "get_file" <=> waiting = "reading") /\ (op = "commit_files" <=> waiting = "committing")
    BY <1>2 DEF MayAsk, Waits, Writes
  <2> QED
    BY <1>6, <1>10, <1>11, <2>1, <2>2 DEF CallOK, MayAsk
<1>13. TaskOK(k)
  BY <1>1, <1>2, <1>7, <1>8 DEF TaskOK, Same, MayAsk, Shipping, Kinds
<1>14. TaskInv(k, q)
  <2>1. WaitsFor(k, q)
    BY <1>2, <1>6, <1>7, <1>9, <1>11 DEF WaitsFor, MayAsk, Waits
  <2>2. ~Shared(k.at) => Progress(k, q)
    BY <1>1, <1>2, <1>7, <1>8, <1>9, <1>11 DEF TaskInv, Progress, MayAsk, Ok, BranchAt
  <2> QED
    BY <2>1, <2>2 DEF TaskInv
<1>15. Becomes(t, k, q)
  BY <1>1, <1>5 DEF Becomes, IInv, TasksOK
<1>16. WriterOK(q) /\ NamesStay /\ Fits(k, q)
  BY <1>2, <1>5, <1>6, <1>10, <1>14, NamesAreStable
     DEF WriterOK, Writing, MayAsk, Waits, Fits, TaskInv
<1>17. TaskParts'
  BY <1>5, <1>6, <1>12, <1>13, <1>15, <1>16, OneTask
<1>18. \A x \in Retrospectives : Holds(k, q, x) => HeldBy(t, x)
  <2>1. q.req.op \in Writes => q.req.branch = BranchAt(task[t], task[t].kind)
    BY <1>2, <1>6 DEF MayAsk, Waits, Writes
  <2> QED
    BY <1>7, <1>8, <2>1 DEF Holds, HeldBy, BranchAt
<1>19. HoldersOK'
  BY <1>5, <1>15, <1>18, HoldersShrink
<1>20. BufferOK' /\ LessonInv'
  BY <1>5, LessonsStay DEF IInv, BufferOK
<1> QED
  BY <1>17, <1>19, <1>20 DEF IInv, TaskParts

LEMMA FetchFile ==
  ASSUME IInv, NEW t \in Tasks, fetch_file(t)
  PROVE  IInv'
<1>1. PICK x : x = CHOOSE q \in task[t].reads : TRUE
  OBVIOUS
<1>2. PICK files : files = File(x, {})
  OBVIOUS
<1>3. Ask(t, "get_file", Base, files, "reading") /\ task[t].pc = "read" /\ task[t].reads # {}
  BY <1>1, <1>2 DEF fetch_file
<1>4. x \in task[t].reads /\ TaskOK(task[t])
  BY <1>1, <1>3, TaskAt
<1>5. x \in Paths /\ task[t].kind = "memory" /\ DOMAIN files = {x}
  BY <1>2, <1>3, <1>4 DEF TaskOK, Kinds, File
<1>6. MayAsk(task[t], "get_file", Base, files, "reading")
  BY <1>3, <1>5 DEF MayAsk, Waits, Shipping
<1> QED
  BY <1>3, <1>6, AskPreserves

LEMMA OpenConsolidationPrs ==
  ASSUME IInv, NEW t \in Tasks, open_consolidation_prs(t)
  PROVE  IInv'
<1>1. task[t].pc = "read" /\ task[t].reads = {} /\ ~IsRunning(calls[t]) /\ TaskOK(task[t])
  BY NotWaiting, TaskAt DEF open_consolidation_prs
<1>2. FilesOf(t) = FilesAt(task[t]) /\ Branch(t) = BranchAt(task[t], task[t].kind)
  BY DEF FilesOf, FilesAt, SkillFiles, SkillsOf, LessonsFor, Branch, BranchAt
<1>3. CASE DOMAIN FilesOf(t) # {}
  <2>1. PICK b, files : b = Branch(t) /\ files = File(Base, {})
    OBVIOUS
  <2>2. Ask(t, "create_branch", b, files, "branching")
    BY <1>3, <2>1 DEF open_consolidation_prs
  <2>3. MayAsk(task[t], "create_branch", b, files, "branching")
    BY <1>1, <1>2, <2>1 DEF MayAsk, Waits, Shipping
  <2> QED
    BY <2>2, <2>3, AskPreserves
<1>4. CASE DOMAIN FilesOf(t) = {}
  <2>1. UNCHANGED <<refs, prs, calls, now, buffer, fanout, captured, deleted, named>>
    BY <1>4 DEF open_consolidation_prs, hvars, history, others
  <2>2. DOMAIN task[t] = TaskFields /\ t \in DOMAIN task
    BY <1>1 DEF TaskOK, IInv, TasksOK
  <2>3. Onward(t)
    <3>1. task[t].kind = "memory" =>
            [task EXCEPT ![t].kind = "skills"] = [task EXCEPT ![t].pc = "read", ![t].kind = "skills"]
      <4>1. [task[t] EXCEPT !.kind = "skills"] = [task[t] EXCEPT !.pc = "read", !.kind = "skills"]
        BY <1>1, <2>2 DEF TaskFields
      <4> QED
        BY <2>2, <4>1
    <3> QED
      BY <1>4, <3>1 DEF open_consolidation_prs, Onward
  <2>4. Shipped(BranchAt(task[t], task[t].kind), FilesAt(task[t])) /\ task[t].pc \in Shipping
    BY <1>1, <1>2, <1>4 DEF Shipped, Shipping
  <2> QED
    BY <1>1, <2>1, <2>3, <2>4, OnwardPreserves
<1> QED
  BY <1>3, <1>4

LEMMA Commit ==
  ASSUME IInv, NEW t \in Tasks, commit(t)
  PROVE  IInv'
<1>1. PICK b, files : b = Branch(t) /\ files = FilesOf(t)
  OBVIOUS
<1>2. Ask(t, "commit_files", b, files, "committing") /\ task[t].pc = "branching"
  BY <1>1 DEF commit, Answers
<1>3. files = FilesAt(task[t]) /\ b = BranchAt(task[t], task[t].kind) /\ task[t].reads = {}
  BY <1>1, <1>2, TaskAt
     DEF FilesOf, FilesAt, SkillFiles, SkillsOf, LessonsFor, Branch, BranchAt, TaskOK
<1>4. MayAsk(task[t], "commit_files", b, files, "committing")
  BY <1>2, <1>3 DEF MayAsk, Waits, Shipping
<1> QED
  BY <1>2, <1>4, AskPreserves

LEMMA OpenPr ==
  ASSUME IInv, NEW t \in Tasks, open(t)
  PROVE  IInv'
<1>1. PICK b, files : b = Branch(t) /\ files = File(Base, {})
  OBVIOUS
<1>2. Ask(t, "open_pr", b, files, "opening") /\ task[t].pc = "committing" /\ Ok(calls[t])
  BY <1>1 DEF open, Answers, At, Ok
<1>3. b = BranchAt(task[t], task[t].kind) /\ task[t].reads = {}
  BY <1>1, <1>2, TaskAt DEF Branch, BranchAt, TaskOK
<1>4. ~Shared(task[t].at) => HasFiles(b, FilesAt(task[t]))
  BY <1>2, <1>3, TaskAt DEF TaskInv, Progress, Shipping
<1>5. MayAsk(task[t], "open_pr", b, files, "opening")
  BY <1>2, <1>3, <1>4 DEF MayAsk, Waits, Shipping
<1> QED
  BY <1>2, <1>5, AskPreserves

-----------------------------------------------------------------------------
(* The end of a task, and the world.                                       *)

LEMMA InvokeRepoHelper ==
  ASSUME IInv, NEW t \in Tasks, invoke_repo_helper(t)
  PROVE  IInv'
<1>1. /\ GivesUp(t) /\ ~IsRunning(calls[t])
      /\ UNCHANGED <<refs, prs, calls, now, buffer, fanout, captured, deleted, named>>
  BY DEF invoke_repo_helper, At, IsRunning, hvars, history, others
<1> QED
  BY <1>1, GivesUpPreserves

LEMMA TaskRaisesStep ==
  ASSUME IInv, NEW t \in Tasks, TaskRaises(t)
  PROVE  IInv'
<1>1. /\ GivesUp(t) /\ ~IsRunning(calls[t])
      /\ UNCHANGED <<refs, prs, calls, now, buffer, fanout, captured, deleted, named>>
  BY NotWaiting DEF TaskRaises, hvars, history
<1> QED
  BY <1>1, GivesUpPreserves

LEMMA TaskDiesStep ==
  ASSUME IInv, NEW t \in Tasks, TaskDies(t)
  PROVE  IInv'
<1>1. UNCHANGED <<refs, prs, calls, now, buffer, captured, deleted, named>> /\ fanout' \in Seq(Slugs)
  BY DEF TaskDies, hvars, history, IInv, BufferOK
<1>2. PICK k : k = [NoTask EXCEPT !.pc = "dead"]
  OBVIOUS
<1> QED
  BY <1>1, <1>2, NoTaskIsFresh, FreshPreserves DEF TaskDies

LEMMA DeleteConsumedEvents ==
  ASSUME IInv, NEW t \in Tasks, delete_consumed_events(t)
  PROVE  IInv'
<1>1. /\ task[t].pc = "delete" /\ ~IsRunning(calls[t])
      /\ UNCHANGED <<refs, prs, calls, now, fanout, captured, named>>
  BY NotWaiting DEF delete_consumed_events, hvars
<1>2. CASE task[t].todo = {}
  BY <1>1, <1>2, GivesUpPreserves DEF delete_consumed_events
<1>3. CASE task[t].todo # {}
  <2>1. /\ TaskOK(task[t]) /\ DOMAIN task[t] = TaskFields /\ TaskInv(task[t], calls[t])
        /\ t \in DOMAIN task
    BY TaskAt DEF TaskOK, IInv, TasksOK
  <2>2. PICK e \in task[t].todo :
          /\ task' = [task EXCEPT ![t].todo = @ \ {e}]
          /\ \/ /\ buffer' = [buffer EXCEPT ![Session(t)] = @ \ {e}]
                /\ deleted' = deleted \cup {[event |-> e, at |-> task[t].at,
                                             discarded |-> e \in task[t].drop]}
             \/ UNCHANGED <<buffer, deleted>>
    BY <1>3 DEF delete_consumed_events
  <2>3. PICK k : k = [task[t] EXCEPT !.todo = @ \ {e}]
    OBVIOUS
  <2>4. /\ task' = [task EXCEPT ![t] = k] /\ DOMAIN k = TaskFields /\ Same(k, task[t])
        /\ k.pc = "delete" /\ k.kind = task[t].kind /\ k.reads = task[t].reads
        /\ k.files = task[t].files /\ k.at = task[t].at /\ k.todo = task[t].todo \ {e}
    BY <1>1, <2>1, <2>2, <2>3 DEF TaskFields, Same
  <2>5. TaskOK(k)
    BY <1>1, <2>1, <2>4 DEF TaskOK, Same, Shipping, Kinds
  <2>6. /\ e \in task[t].drop \/ Shared(task[t].at) \/ ToldAt(e, task[t].at)
        /\ task[t].at \in Seconds /\ task[t].pc \in Shipping
    BY <1>1, <2>1 DEF TaskInv, TaskOK, Progress, Shipping
  <2>7. TaskInv(k, calls[t]) /\ Follows(k, task[t])
    BY <1>1, <2>1, <2>4, <2>6 DEF TaskInv, WaitsFor, Waits, Progress, BranchAt, Same, Follows
  <2>8. /\ DOMAIN buffer = Sessions /\ Session(t) \in Sessions
        /\ \A s \in Sessions : LessonEvents(buffer[s])
    BY <1>1, SessionType DEF IInv, BufferOK
  <2> DEFINE made == [event |-> e, at |-> task[t].at, discarded |-> e \in task[t].drop]
  <2>12. PICK d : d = made
    OBVIOUS
  <2>13. /\ d.event = e /\ d.at = task[t].at /\ (e \in task[t].drop => d.discarded)
    BY <2>12
  <2>14. \/ /\ buffer' = [buffer EXCEPT ![Session(t)] = @ \ {e}]
            /\ deleted' = deleted \cup {d}
         \/ UNCHANGED <<buffer, deleted>>
    BY <2>2, <2>12
  <2> HIDE DEF made
  <2>9. /\ DOMAIN buffer' = Sessions /\ \A s \in Sessions : buffer'[s] \subseteq buffer[s]
        /\ deleted \subseteq deleted' /\ fanout' = fanout
        /\ \A x, s : s \in Sessions /\ x \in buffer[s] => x \in buffer'[s] \/ x = e
        /\ d \in deleted' \/ UNCHANGED <<buffer, deleted>>
    BY <1>1, <2>8, <2>14
  <2>10. BufferOK'
    BY <2>8, <2>9 DEF BufferOK, LessonEvents, IInv
  <2>11. LessonInv'
    <3>1. \A x \in captured' : (\E s \in Sessions : x \in buffer'[s]) \/ \E c \in deleted' : c.event = x
      BY <1>1, <2>9, <2>13 DEF IInv, LessonInv
    <3>2. Keeps /\ NamesStay
      BY <1>1, UnchangedKeeps, NamesAreStable
    <3>3. \A c \in deleted : DeletionOK(c)'
      BY <3>2, DeletionsKept
    <3>4. DeletionOK(d)'
      <4>1. PICK s : s = task[t].at
        OBVIOUS
      <4>2. s \in Seconds /\ (d.discarded \/ Shared(s) \/ ToldAt(e, s))
        BY <2>6, <2>13, <4>1
      <4>3. d.discarded \/ Shared(s)' \/ ToldAt(e, s)'
        BY <3>2, <4>2, ToldStays DEF NamesStay
      <4> QED
        BY <2>13, <4>1, <4>2, <4>3 DEF DeletionOK
    <3>5. deleted' \subseteq deleted \cup {d}
      BY <2>14
    <3> QED
      BY <3>1, <3>3, <3>4, <3>5 DEF LessonInv
  <2> QED
    BY <1>1, <2>4, <2>5, <2>7, <2>10, <2>11, ThinkPreserves
<1> QED
  BY <1>2, <1>3

LEMMA HumanEditsStep ==
  ASSUME IInv, HumanEdits
  PROVE  IInv'
<1>1. /\ UNCHANGED <<prs, calls, task, now, buffer, fanout, captured, deleted, named>>
      /\ \E x \in Paths \ SkillPaths, c \in {Malformed, {}} : Push(Base, x, c)
  BY DEF HumanEdits, Push, history
<1>0. Sole' = Sole /\ NamesStay /\ \A s : Shared(s)' <=> Shared(s)
  BY <1>1, NamesAreStable
<1>2. PICK x \in Paths, c \in Contents : Push(Base, x, c)
  BY <1>1, LessonsAssumption
<1>3. Base \in DOMAIN refs /\ refs[Base] \in Seq(Trees) /\ TreeOf(refs[Base]) \in Trees
  BY TreeOfType DEF IInv, GithubOK, RefsOK
<1>4. PICK tree : tree = [TreeOf(refs[Base]) EXCEPT ![x] = c]
  OBVIOUS
<1>5. tree \in Trees
  BY <1>3, <1>4 DEF Trees
<1>6. SetRef(Base, Append(refs[Base], tree))
  BY <1>2, <1>3, <1>4 DEF Push
<1>7. /\ DOMAIN refs' = DOMAIN refs /\ refs'[Base] \in Seq(Trees)
      /\ \A b \in DOMAIN refs : b # Base => refs'[b] = refs[b]
  BY <1>3, <1>5, <1>6, LastTree DEF SetRef
<1>8. GithubOK' /\ CallsOK' /\ TasksOK' /\ BufferOK' /\ WritersOK'
  <2>1. GithubOK'
    BY <1>1, <1>7 DEF IInv, GithubOK, RefsOK
  <2>2. CallsOK'
    BY <1>1, <1>7 DEF IInv, CallsOK, CallOK
  <2>3. TasksOK' /\ BufferOK'
    BY <1>1 DEF IInv, TasksOK, BufferOK
  <2>4. WritersOK'
    BY <1>0, <1>1 DEF IInv, WritersOK, WriterOK, HasPr
  <2> QED
    BY <2>1, <2>2, <2>3, <2>4
<1>9. HoldersOK'
  BY <1>0, <1>1, <1>7 DEF IInv, HoldersOK, HeldBy
<1>10. \A b \in Sole : b # Base
  BY SoleType, LessonsAssumption DEF Retrospectives
<1>11. Keeps /\ \A b : HasPr(b)' <=> HasPr(b)
  BY <1>1, <1>7, <1>10 DEF Keeps, HasPr
<1>12. ASSUME NEW u \in Tasks
       PROVE  TaskInv(task[u], calls[u])'
  <2>1. PICK k, q : k = task[u] /\ q = calls[u]
    OBVIOUS
  <2>2. TaskOK(k) /\ TaskInv(k, q)
    BY <2>1, TaskAt
  <2>3. ASSUME k.pc \in Shipping, ~Shared(k.at)
        PROVE  Progress(k, q)'
    <3>1. Progress(k, q) /\ k.at \in Seconds /\ k.kind \in Kinds
      BY <2>2, <2>3 DEF TaskInv, TaskOK
    <3>2. \A kind \in Kinds : BranchAt(k, kind) \in Retrospectives /\ BranchAt(k, kind) # Base
      BY <3>1, BranchAtType
    <3>3. \A kind \in Kinds : \A files :
            HasFiles(BranchAt(k, kind), files) => HasFiles(BranchAt(k, kind), files)'
      BY <1>7, <3>2 DEF HasFiles
    <3>4. Shipped(BranchAt(k, "memory"), k.files) => Shipped(BranchAt(k, "memory"), k.files)'
      BY <1>11, <3>3 DEF Shipped, Kinds
    <3>5. \A e \in k.todo : ToldAt(e, k.at) => ToldAt(e, k.at)'
      BY <1>11, <2>3, <3>1, ToldStays
    <3> QED
      BY <1>11, <3>1, <3>3, <3>4, <3>5 DEF Progress
  <2>4. TaskInv(k, q)'
    BY <1>0, <2>2, <2>3 DEF TaskInv, WaitsFor
  <2> QED
    BY <1>1, <2>1, <2>4
<1>13. LessonInv'
  BY <1>0, <1>1, <1>11, LessonsKept
<1> QED
  BY <1>8, <1>9, <1>12, <1>13 DEF IInv, TasksInv

-----------------------------------------------------------------------------
(* The theorems.                                                           *)

LEMMA InvInit ==
  ASSUME Init
  PROVE  IInv
<1>1. PICK repo \in Repos : HInit(repo)
  BY DEF Init
<1>2. IsRepo(repo) /\ DOMAIN repo.refs \cap Retrospectives = {}
  BY LessonsAssumption
<1>3. /\ refs = repo.refs /\ prs = repo.prs /\ calls = [t \in Tasks |-> NoCall]
      /\ task = [t \in Tasks |-> NoTask] /\ now \in Seconds
      /\ buffer = [s \in Sessions |-> Waiting[s]] /\ fanout = <<>>
      /\ captured = UNION {Waiting[s] : s \in Sessions} /\ deleted = {}
      /\ named = [s \in Seconds |-> 0]
  BY <1>1 DEF HInit, Init, Tasks
<1>4. GithubOK
  <2>1. PICK S : S = [head : DOMAIN repo.refs, open : BOOLEAN]
    OBVIOUS
  <2>2. S \subseteq TypeOfPr /\ repo.prs \in Seq(S)
    BY <1>2, <2>1 DEF IsRepo, RefsOK, TypeOfPr
  <2>3. repo.prs \in Seq(TypeOfPr)
    BY <2>2, SeqMonotonic
  <2>4. \A n \in DOMAIN repo.prs : repo.prs[n] \in S
    BY <2>2, ElementOfSeq
  <2>5. \A n \in DOMAIN repo.prs : repo.prs[n].head \in DOMAIN repo.refs
    BY <2>1, <2>4
  <2> QED
    BY <1>2, <1>3, <2>3, <2>5 DEF GithubOK, IsRepo, TypeOfPr
<1>5. NoCall.pc = "idle" /\ DOMAIN NoCall = CallFields
  BY DEF NoCall, CallFields
<1>6. CallsOK /\ WritersOK
  BY <1>3, <1>5 DEF CallsOK, CallOK, WritersOK, WriterOK, Writing, IsRunning
<1>7. Fresh(NoTask) /\ NoTask.pc = "idle"
  BY FirstSlug DEF NoTask, Fresh, TaskFields
<1>8. TasksOK /\ TasksInv /\ NoTask.pc \notin Shipping
  BY <1>3, <1>5, <1>7, FreshTask DEF TasksOK, TasksInv, IsRunning
<1>9. BufferOK
  BY <1>3, LessonsAssumption DEF BufferOK, LessonEvents
<1>10. HoldersOK
  <2>1. \A t \in Tasks : \A b : ~HeldBy(t, b)
    BY <1>3, <1>5, <1>8 DEF HeldBy, Holds, IsRunning
  <2>2. \A x \in DOMAIN BranchFor : BranchFor[x] \in Retrospectives
    BY DEF Retrospectives
  <2> QED
    BY <1>2, <1>3, <2>1, <2>2 DEF HoldersOK
<1>11. LessonInv
  BY <1>3 DEF LessonInv
<1> QED
  BY <1>4, <1>6, <1>8, <1>9, <1>10, <1>11 DEF IInv

LEMMA TaskSteps ==
  ASSUME IInv, NEW t \in Tasks, dispatch_by_mode(t)
  PROVE  IInv'
  BY WriteBullets, ListEvents, Consolidate, FetchFile, AppendAdditions, OpenConsolidationPrs, Commit,
     OpenPr, Opened, InvokeRepoHelper, DeleteConsumedEvents, TaskRaisesStep, RepoHelperPreserves
     DEF dispatch_by_mode

LEMMA InvNext ==
  ASSUME IInv, [Next]_vars
  PROVE  IInv'
<1>1. CASE Next
  <2>1. CASE \E t \in Tasks : handle_capture_event(t) \/ invoke_runtime(t) \/ dispatch_by_mode(t)
                              \/ TaskDies(t)
    BY <2>1, HandleCaptureEvent, InvokeRuntime, TaskSteps, TaskDiesStep
  <2>2. CASE handle_scheduled_consolidate \/ invoke_runtime_fails
    BY <2>2, DispatcherStep DEF handle_scheduled_consolidate, invoke_runtime_fails, hvars, history
  <2>3. CASE HumanEdits
    BY <2>3, HumanEditsStep
  <2> QED
    BY <1>1, <2>1, <2>2, <2>3 DEF Next
<1>2. CASE UNCHANGED vars
  <2>1. UNCHANGED <<refs, prs, calls, task, now, buffer, fanout, captured, deleted, named>>
    BY <1>2 DEF vars, hvars, history
  <2>2. GithubOK' /\ CallsOK' /\ TasksOK' /\ HoldersOK' /\ WritersOK' /\ TasksInv'
    BY <2>1, QuietParts
  <2>3. BufferOK' /\ LessonInv'
    BY <2>1, LessonsStay DEF IInv, BufferOK
  <2> QED
    BY <2>2, <2>3 DEF IInv
<1> QED
  BY <1>1, <1>2

LEMMA InvImplies ==
  ASSUME IInv
  PROVE  NoLessonLost
<1>1. ASSUME NEW e, NEW s, ToldAt(e, s)
      PROVE  InPr(e)
  <2>1. PICK b \in DOMAIN refs : HasPr(b) /\ Tells(TreeOf(refs[b])[PathOf[e.lesson]], e)
    BY <1>1 DEF ToldAt, ToldBy
  <2>2. PICK n \in DOMAIN prs : prs[n].head = b
    BY <2>1 DEF HasPr
  <2> QED
    BY <2>1, <2>2 DEF InPr, HeadOf, Tells
<1>2. ASSUME NEW e \in captured, \A s \in Sessions : e \notin buffer[s]
      PROVE  InPr(e) \/ \E d \in deleted : d.event = e /\ (d.discarded \/ Shared(d.at))
  <2>1. PICK d \in deleted : d.event = e
    BY <1>2 DEF IInv, LessonInv
  <2>2. d.discarded \/ Shared(d.at) \/ ToldAt(e, d.at)
    BY <2>1 DEF IInv, LessonInv, DeletionOK
  <2> QED
    BY <1>1, <2>1, <2>2
<1> QED
  BY <1>2 DEF NoLessonLost

\* A branch of the retrospector whose second no other consolidation named its own
\* in is written by the task that named it alone and never once it has a PR, and
\* what run_consolidate is about to delete is then discarded or in a PR.
THEOREM InvariantHolds == Spec => []IInv
<1>1. Init => IInv
  BY InvInit
<1>2. IInv /\ [Next]_vars => IInv'
  BY InvNext
<1> QED
  BY <1>1, <1>2, PTL DEF Spec

\* No lesson is lost: an event leaves the buffer only when a plan discarded it or
\* a PR tells its lesson, for any number of concurrent captures and
\* consolidations, failed and lost requests, malformed files, human edits,
\* microVMs that end and repeated fan-outs; unless the consolidation that deleted
\* it shares the second of its branches with another one.
THEOREM LessonsAreKept == Spec => []NoLessonLost
<1>1. IInv => NoLessonLost
  BY InvImplies
<1> QED
  BY <1>1, InvariantHolds, PTL
=============================================================================
