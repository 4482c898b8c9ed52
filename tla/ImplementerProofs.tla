-------------------------- MODULE ImplementerProofs --------------------------
(***************************************************************************)
(* Safety of Implementer for any tasks, sessions, payloads and repository, *)
(* with tasks that share a checkout, microVMs that end and others who push *)
(* to the run's branch.                                                    *)
(***************************************************************************)
EXTENDS Implementer, SequenceTheorems, TLAPS

-----------------------------------------------------------------------------
(* Branches are sequences of commits under the prefix order.               *)

LEMMA AncestorReflexive ==
  ASSUME NEW S, NEW s \in Seq(S)
  PROVE  Ancestor(s, s)
  BY DEF Ancestor

LEMMA AncestorTransitive ==
  ASSUME NEW S, NEW s \in Seq(S), NEW t \in Seq(S), NEW u \in Seq(S),
         Ancestor(s, t), Ancestor(t, u)
  PROVE  Ancestor(s, u)
  BY DEF Ancestor

LEMMA AncestorAppend ==
  ASSUME NEW S, NEW s \in Seq(S), NEW e \in S
  PROVE  Append(s, e) \in Seq(S) /\ Ancestor(s, Append(s, e))
  BY DEF Ancestor

LEMMA AppendIsNew ==
  ASSUME NEW S, NEW s \in Seq(S), NEW t \in Seq(S), NEW e \in S, Ancestor(s, t)
  PROVE  Append(t, e) # s
<1>1. Len(s) <= Len(t) /\ Len(Append(t, e)) = Len(t) + 1 /\ Len(s) \in Nat /\ Len(t) \in Nat
  BY DEF Ancestor
<1> QED
  BY <1>1

\* Taking the last commit off a branch that is beyond another leaves it there.
LEMMA BeforeTheLast ==
  ASSUME NEW S, NEW s \in Seq(S), NEW t \in Seq(S), ~Ancestor(s, t)
  PROVE  /\ SubSeq(s, 1, Len(s) - 1) \in Seq(S)
         /\ Ancestor(t, s) => Ancestor(t, SubSeq(s, 1, Len(s) - 1))
<1>1. Len(s) \in Nat /\ Len(t) \in Nat /\ Len(s) # 0
  BY DEF Ancestor
<1>2. PICK u : u = SubSeq(s, 1, Len(s) - 1)
  OBVIOUS
<1>3. /\ u \in Seq(S) /\ Len(u) = Len(s) - 1
      /\ \A i \in 1..(Len(s) - 1) : u[i] = s[i]
  <2>1. PICK n \in Nat : n = Len(s) - 1
    BY <1>1
  <2>2. \A i \in 1..n : s[i] \in S
    BY <2>1
  <2>3. /\ SubSeq(s, 1, n) \in Seq(S) /\ Len(SubSeq(s, 1, n)) = (IF 1 <= n THEN n - 1 + 1 ELSE 0)
        /\ \A i \in 1..(n - 1 + 1) : SubSeq(s, 1, n)[i] = s[1 + i - 1]
    BY <2>2, SubSeqProperties
  <2>4. Len(SubSeq(s, 1, n)) = n /\ n - 1 + 1 = n
    BY <2>1, <2>3
  <2> QED
    BY <1>2, <2>1, <2>3, <2>4
<1>4. ASSUME Ancestor(t, s)
      PROVE  Ancestor(t, u)
  <2>1. Len(t) <= Len(s) /\ \A i \in 1..Len(t) : t[i] = s[i]
    BY <1>4 DEF Ancestor
  <2>2. Len(t) # Len(s)
    <3>1. SUFFICES ASSUME Len(t) = Len(s)
                   PROVE  FALSE
      OBVIOUS
    <3>2. \A i \in DOMAIN s : s[i] = t[i]
      BY <2>1, <3>1
    <3> QED
      BY <3>1, <3>2, <1>1 DEF Ancestor
  <2> QED
    BY <1>1, <1>3, <2>1, <2>2 DEF Ancestor
<1> QED
  BY <1>2, <1>3, <1>4

LEMMA TreeOfType ==
  ASSUME NEW s \in Seq(Trees)
  PROVE  TreeOf(s) \in Trees
<1>1. NoTree \in Trees
  BY DEF NoTree, Trees
<1> QED
  BY <1>1 DEF TreeOf

-----------------------------------------------------------------------------
(* The invariant.                                                          *)

CallFields == {"pc", "req", "sha", "page", "items", "since", "answer"}
VmFields == {"cloned", "on", "detached", "local", "main", "work"}
TaskFields == {"pc", "in", "turns", "before", "report", "blocked_stop", "pr", "result", "said",
               "pushed", "home", "alone"}

GithubOK == /\ RefsOK(refs) /\ prs \in Seq([head : Branches, open : BOOLEAN])
            /\ cut \subseteq Seq(Trees)

\* A call of a task: it is about the run's branch, and an answer of open_pr names a PR.
CallOK(q) ==
  /\ q.pc \in {"idle", "post_pr", "find_pr", "append", "answered"}
  /\ q.pc \in {"post_pr", "find_pr"} => q.req.op = "open_pr" /\ q.req.branch = Impl
  /\ q.pc = "append" => q.req.op = "reply_pr_review_comment"
  /\ q.pc = "answered" /\ q.req.op = "open_pr" /\ q.answer.ok => q.answer.pr \in RunPrs
CallsOK == DOMAIN calls = Tasks /\ \A t \in Tasks : DOMAIN calls[t] = CallFields /\ CallOK(calls[t])

VmOK(v) ==
  /\ DOMAIN v = VmFields
  /\ v.detached \in Seq(Trees) /\ v.local \in Seq(Trees) /\ v.main \in Seq(Trees) /\ v.work \in Trees
VmsOK == DOMAIN vm = Sessions /\ \A s \in Sessions : VmOK(vm[s])

Before == {"idle", "clone", "branch", "inputs"}
Working == {"agent", "changes"}
After == {"open_pr", "opening", "replies", "replying", "summary", "emit"}
Ended == {"raised", "done", "dead"}

TaskOK(k) ==
  /\ DOMAIN k = TaskFields
  /\ k.pc \in Before \cup Working \cup {"push"} \cup After \cup Ended
  /\ k.pc # "idle" => k.in \in ImplementerInput
  /\ k.before \in Seq(Trees) /\ k.pushed \in Seq(Trees)

\* What the agent said is what the sink holds until the gate, and nobody who
\* said "blocked" gets past it.
Gated(k) ==
  /\ k.pc \in Before => k.said = "none" /\ k.report = "none"
  /\ k.pc \in Working => k.report = k.said
  /\ k.pc \in {"push"} \cup After => k.said # "blocked"
  /\ k.pc \in Before \cup Working \cup {"push"} \/ k.said = "blocked" => k.pushed = <<>> /\ k.result = 0

\* The PR a task answers for.
PrKnown(k, q) ==
  /\ k.pc # "idle" /\ k.in.mode = "revision" => k.in.pr \in RunPrs
  /\ k.pc \in {"replies", "replying"} => k.in.mode = "revision"
  /\ k.pc = "opening" => q.req.op = "open_pr"
  /\ k.pc = "summary" /\ k.in.mode # "revision" => k.pr \in RunPrs
  /\ k.pc = "emit" => k.result \in RunPrs

\* In a checkout of its own a task starts on the run's branch, a first pass at main
\* and never behind it whatever its agent resets; what it pushes from there is new.
OnItsHead(k, v) == k.alone =>
  /\ k.pc = "branch" => ~v.on /\ v.detached = v.main
  /\ k.pc = "inputs" => v.on
  /\ k.pc = "inputs" /\ k.in.mode # "revision" => v.local = v.main
  /\ k.pc \in Working /\ k.in.mode # "revision" => k.before = v.main /\ Ancestor(v.main, v.local)
  /\ k.pc = "push" /\ v.on => v.local # k.before

HasPushed(k) == k.pushed # k.before /\ Landed(k.pushed)

TaskInv(k, v, q) ==
  /\ TaskOK(k) /\ Gated(k) /\ PrKnown(k, q) /\ OnItsHead(k, v)
  /\ k.alone /\ k.home /\ k.pc \in After => HasPushed(k)
TasksOK == DOMAIN task = Tasks /\ \A t \in Tasks : TaskInv(task[t], Checkout(t), calls[t])

\* An event of a task that has got to its end.
EventInv(e, k) ==
  /\ k.pc \in Ended
  /\ \/ e.type = "RUN.FAILED" /\ k.pc = "done" /\ (k.result # 0 => e.pr = k.result)
     \/ ReadyEvent(e) /\ k.said # "blocked" /\ e.pr \in RunPrs /\ (k.alone /\ k.home => HasPushed(k))
EventsOK == \A e \in events : e.by \in Tasks /\ EventInv(e, task[e.by])

\* Of two tasks in one checkout neither counts as alone.
AloneOK == \A t, u \in Tasks :
  t # u /\ Active(t) /\ Active(u) /\ task[t].in.session = task[u].in.session => ~task[t].alone

IInv == GithubOK /\ CallsOK /\ VmsOK /\ TasksOK /\ EventsOK /\ AloneOK

-----------------------------------------------------------------------------
(* What any step may do to the repository, and what it leaves true.        *)

\* An agent's push, and what it may do that no other step may.
AgentPushes == \E t \in Tasks : git_push(t)
Grow == \A b \in DOMAIN refs : /\ b \in DOMAIN refs'
                               /\ Ancestor(refs[b], refs'[b]) \/ (b = Impl /\ AgentPushes)
Recorded == /\ cut \subseteq cut'
            /\ Impl \in DOMAIN refs => Ancestor(refs[Impl], refs'[Impl]) \/ refs[Impl] \in cut'
GithubStep == GithubOK' /\ Grow /\ Recorded /\ RunPrs \subseteq RunPrs'

LEMMA GithubUnchanged ==
  ASSUME GithubOK, UNCHANGED <<refs, prs, cut>>
  PROVE  GithubStep
<1>1. \A x \in DOMAIN refs : Ancestor(refs[x], refs[x])
  BY AncestorReflexive DEF GithubOK, RefsOK
<1> QED
  BY <1>1 DEF GithubOK, GithubStep, Grow, Recorded, RunPrs

LEMMA BranchSet ==
  ASSUME GithubOK, NEW s \in Seq(Trees), SetRef(Impl, s), UNCHANGED prs,
         cut' \in SUBSET Seq(Trees), cut \subseteq cut',
         Impl \in DOMAIN refs => Ancestor(refs[Impl], s) \/ (refs[Impl] \in cut' /\ AgentPushes)
  PROVE  GithubStep /\ Impl \in DOMAIN refs' /\ refs'[Impl] = s
<1>1. /\ DOMAIN refs' = DOMAIN refs \cup {Impl} /\ refs'[Impl] = s
      /\ \A x \in DOMAIN refs : x # Impl => refs'[x] = refs[x]
  BY DEF SetRef
<1>2. \A x \in DOMAIN refs : Ancestor(refs[x], refs[x])
  BY AncestorReflexive DEF GithubOK, RefsOK
<1>3. Impl \in Branches
  BY ImplementerAssumption
<1>4. Grow /\ Recorded
  BY <1>1, <1>2 DEF Grow, Recorded
<1> QED
  BY <1>1, <1>3, <1>4 DEF GithubOK, RefsOK, GithubStep, RunPrs

LEMMA PushedStays ==
  ASSUME GithubOK, GithubStep, NEW k, TaskOK(k), HasPushed(k)
  PROVE  HasPushed(k)'
<1>1. PICK s \in Seq(Trees) : s = k.pushed
  BY DEF TaskOK
<1>2. ASSUME NEW tip \in cut, Ancestor(s, tip)
      PROVE  Landed(s)'
  BY <1>2 DEF GithubStep, Recorded, Landed
<1>3. ASSUME Impl \in DOMAIN refs, Ancestor(s, refs[Impl])
      PROVE  Landed(s)'
  <2>1. /\ Impl \in DOMAIN refs' /\ refs[Impl] \in Seq(Trees) /\ refs'[Impl] \in Seq(Trees)
        /\ Ancestor(refs[Impl], refs'[Impl]) \/ refs[Impl] \in cut'
    BY <1>3 DEF GithubOK, GithubStep, RefsOK, Grow, Recorded
  <2> QED
    BY <1>1, <1>3, <2>1, AncestorTransitive DEF Landed
<1>4. Landed(s)'
  BY <1>1, <1>2, <1>3 DEF HasPushed, Landed
<1> QED
  BY <1>1, <1>4 DEF HasPushed

LEMMA TaskInvStays ==
  ASSUME GithubOK, GithubStep, NEW k, NEW v, NEW q, TaskInv(k, v, q)
  PROVE  TaskInv(k, v, q)'
<1>1. PrKnown(k, q)'
  BY DEF TaskInv, PrKnown, GithubStep
<1>2. k.alone /\ k.home /\ k.pc \in After => HasPushed(k)'
  BY PushedStays DEF TaskInv
<1> QED
  BY <1>1, <1>2 DEF TaskInv

LEMMA EventInvStays ==
  ASSUME GithubOK, GithubStep, NEW e, NEW k, TaskOK(k), EventInv(e, k)
  PROVE  EventInv(e, k)'
<1>1. k.alone /\ HasPushed(k) => HasPushed(k)'
  BY PushedStays
<1> QED
  BY <1>1 DEF EventInv, GithubStep, ReadyEvent

LEMMA CallOKStays ==
  ASSUME GithubStep, NEW q, CallOK(q)
  PROVE  CallOK(q)'
  BY DEF CallOK, GithubStep

-----------------------------------------------------------------------------
(* A step of one task.                                                     *)

TaskMoves(t, k) ==
  /\ DOMAIN task' = Tasks /\ task'[t] = k /\ \A u \in Tasks \ {t} : task'[u] = task[u]
  /\ k.in = task[t].in /\ k.alone = task[t].alone
VmMoves(t, v) ==
  /\ VmsOK' /\ vm'[task[t].in.session] = v
  /\ \A s \in Sessions \ {task[t].in.session} : vm'[s] = vm[s]
CallMoves(t, q) ==
  DOMAIN calls' = Tasks /\ calls'[t] = q /\ \A u \in Tasks \ {t} : calls'[u] = calls[u]

IsActive(k) == k.pc \notin {"idle", "done", "dead"}

LEMMA OneTaskStep ==
  ASSUME IInv, GithubStep, NEW t \in Tasks, NEW k, NEW v, NEW q,
         TaskMoves(t, k), VmMoves(t, v), CallMoves(t, q),
         IsActive(k) => Active(t), Active(t) \/ UNCHANGED vm,
         DOMAIN q = CallFields, CallOK(q)', TaskInv(k, v, q)',
         \A e \in events' : IF e.by = t THEN EventInv(e, k)' ELSE e \in events
  PROVE  IInv'
<1>1. GithubOK /\ DOMAIN task = Tasks
  BY DEF IInv, TasksOK
<1>2. CallsOK'
  <2>1. ASSUME NEW u \in Tasks \ {t}
        PROVE  DOMAIN calls'[u] = CallFields /\ CallOK(calls[u])'
    <3>1. PICK p : p = calls[u] /\ p = calls'[u]
      BY DEF CallMoves
    <3>2. DOMAIN p = CallFields /\ CallOK(p)
      BY <3>1 DEF IInv, CallsOK
    <3>3. CallOK(p)'
      BY <3>2, CallOKStays
    <3> QED
      BY <3>1, <3>2, <3>3 DEF CallOK
  <2> QED
    BY <2>1 DEF CallsOK, CallMoves, CallOK
<1>3. ASSUME NEW u \in Tasks
      PROVE  TaskInv(task[u], Checkout(u), calls[u])'
  <2>1. CASE u = t
    BY <2>1 DEF TaskMoves, VmMoves, CallMoves, Checkout
  <2>2. CASE u # t
    <3>1. PICK j, w, p : /\ j = task[u] /\ j = task'[u] /\ p = calls[u] /\ p = calls'[u]
                         /\ w = Checkout(u)
      BY <2>2 DEF TaskMoves, CallMoves
    <3>2. TaskInv(j, w, p)'
      BY <1>1, <3>1, TaskInvStays DEF IInv, TasksOK
    <3>3. PICK x : x = Checkout(u)'
      OBVIOUS
    <3>4. CASE x = w
      BY <3>1, <3>2, <3>3, <3>4
    <3>5. CASE x # w
      <4>1. x = vm'[j.in.session] /\ w = vm[j.in.session]
        BY <3>1, <3>3 DEF Checkout
      <4>2. Active(t) /\ (j.in.session \in Sessions => j.in.session = task[t].in.session)
        BY <3>5, <4>1 DEF VmMoves
      <4>3. IsActive(j) => ~j.alone
        <5>1. SUFFICES ASSUME IsActive(j)
                       PROVE  ~j.alone
          OBVIOUS
        <5>2. j.in.session \in Sessions
          BY <3>2, <5>1 DEF TaskInv, TaskOK, IsActive, ImplementerInput
        <5> QED
          BY <2>2, <3>1, <4>2, <5>1, <5>2 DEF IInv, AloneOK, Active, IsActive
      <4>4. OnItsHead(j, x)
        BY <4>3 DEF OnItsHead, IsActive, Working
      <4>5. TaskInv(j, x, p)'
        BY <3>2, <4>4 DEF TaskInv
      <4> QED
        BY <3>1, <3>3, <4>5
    <3> QED
      BY <3>4, <3>5
  <2> QED
    BY <2>1, <2>2
<1>4. TasksOK'
  BY <1>3 DEF TasksOK, TaskMoves
<1>5. EventsOK'
  <2>1. ASSUME NEW e \in events', e.by # t
        PROVE  e.by \in Tasks /\ EventInv(e, task[e.by])'
    <3>1. PICK j : j = task[e.by] /\ e \in events /\ e.by \in Tasks /\ EventInv(e, j)
      BY <2>1 DEF IInv, EventsOK
    <3>2. TaskOK(j)
      BY <3>1 DEF IInv, TasksOK, TaskInv
    <3>3. EventInv(e, j)'
      BY <1>1, <3>1, <3>2, EventInvStays
    <3>4. j = task'[e.by]
      BY <2>1, <3>1 DEF TaskMoves
    <3> QED
      BY <3>1, <3>3, <3>4
  <2>2. ASSUME NEW e \in events', e.by = t
        PROVE  EventInv(e, task[e.by])'
    BY <2>2 DEF TaskMoves
  <2> QED
    BY <2>1, <2>2 DEF EventsOK
<1>6. AloneOK'
  <2>1. \A u \in Tasks : /\ task'[u].alone = task[u].alone /\ task'[u].in = task[u].in
                         /\ Active(u)' => Active(u)
    BY DEF TaskMoves, Active, IsActive
  <2> QED
    BY <2>1 DEF IInv, AloneOK
<1> QED
  BY <1>2, <1>4, <1>5, <1>6 DEF IInv, GithubStep, VmMoves

-----------------------------------------------------------------------------
(* The steps of a task in its checkout.                                    *)

\* k is o but for the fields in F.
Same(k, o, F) == DOMAIN k = TaskFields /\ \A f \in TaskFields \ F : k[f] = o[f]

LEMMA Known ==
  ASSUME IInv, NEW t \in Tasks, task[t].pc # "idle"
  PROVE  /\ TaskInv(task[t], Checkout(t), calls[t]) /\ VmOK(Checkout(t))
         /\ DOMAIN task = Tasks /\ DOMAIN task[t] = TaskFields
         /\ task[t].in \in ImplementerInput /\ task[t].in.session \in Sessions
<1>1. TaskInv(task[t], Checkout(t), calls[t]) /\ DOMAIN task = Tasks
  BY DEF IInv, TasksOK
<1>2. /\ DOMAIN task[t] = TaskFields
      /\ task[t].in \in ImplementerInput /\ task[t].in.session \in Sessions
  BY <1>1 DEF TaskInv, TaskOK, ImplementerInput
<1> QED
  BY <1>1, <1>2 DEF IInv, VmsOK, Checkout

LEMMA NoEventsYet ==
  ASSUME IInv, NEW t \in Tasks, task[t].pc \notin Ended
  PROVE  \A e \in events : e.by # t
  BY DEF IInv, EventsOK, EventInv

LEMMA LocalStep ==
  ASSUME IInv, NEW t \in Tasks, task[t].pc \notin Ended \cup {"idle"}, UNCHANGED <<hvars, events,
  cut>>,
         NEW k, NEW v, TaskMoves(t, k), VmMoves(t, v), TaskInv(k, v, calls[t])
  PROVE  IInv' /\ GithubStep
<1>1. UNCHANGED <<refs, prs, calls, cut>>
  BY DEF hvars
<1>2. GithubStep
  BY <1>1, GithubUnchanged DEF IInv
<1>3. PICK q : q = calls[t]
  OBVIOUS
<1>4. CallMoves(t, q) /\ DOMAIN q = CallFields /\ CallOK(q)'
  BY <1>1, <1>2, <1>3, CallOKStays DEF IInv, CallsOK, CallMoves
<1>5. TaskInv(k, v, q)'
  BY <1>2, <1>3, TaskInvStays DEF IInv
<1>6. \A e \in events' : e.by # t /\ e \in events
  BY NoEventsYet
<1>7. Active(t)
  BY DEF Active, Ended
<1> QED
  BY <1>2, <1>4, <1>5, <1>6, <1>7, OneTaskStep

LEMMA SetCheckoutMoves ==
  ASSUME IInv, NEW t \in Tasks, task[t].pc # "idle", NEW v, VmOK(v), SetCheckout(t, v)
  PROVE  VmMoves(t, v)
  BY Known DEF IInv, VmsOK, VmMoves, SetCheckout

LEMMA VmStays ==
  ASSUME IInv, NEW t \in Tasks, UNCHANGED vm
  PROVE  VmMoves(t, Checkout(t))
  BY DEF IInv, VmsOK, VmMoves, Checkout

LEMMA StepMoves ==
  ASSUME IInv, NEW t \in Tasks, NEW from, NEW to, from # "idle", Step(t, from, to)
  PROVE  /\ TaskMoves(t, task'[t]) /\ task[t].pc = from /\ task'[t].pc = to
         /\ Same(task'[t], task[t], {"pc"})
<1>1. task[t].pc = from /\ task' = [task EXCEPT ![t].pc = to]
  BY DEF Step
<1>2. /\ DOMAIN task' = Tasks /\ \A u \in Tasks \ {t} : task'[u] = task[u]
      /\ task'[t] = [task[t] EXCEPT !.pc = to]
  BY <1>1, Known
<1>3. task'[t].pc = to /\ Same(task'[t], task[t], {"pc"})
  BY <1>1, <1>2, Known DEF Same, TaskFields
<1> QED
  BY <1>1, <1>2, <1>3 DEF TaskMoves, Same, TaskFields

\* A task that raises goes to its failure handler with what it has.
LEMMA RaisesStep ==
  ASSUME IInv, NEW t \in Tasks, NEW from \in Before \cup Working \cup {"push"} \cup After,
         from # "idle", Raises(t, from), NEW v, VmMoves(t, v), UNCHANGED <<hvars, events, cut>>
  PROVE  IInv' /\ GithubStep
<1>1. PICK o, k, q : o = task[t] /\ k = task'[t] /\ q = calls[t]
  OBVIOUS
<1>2. TaskMoves(t, k) /\ o.pc = from /\ k.pc = "raised" /\ Same(k, o, {"pc"})
  BY <1>1, StepMoves DEF Raises
<1>3. \E w : TaskInv(o, w, q)
  BY <1>1, <1>2, Known
<1>4. TaskInv(k, v, q)
  <2>1. /\ k.in = o.in /\ k.before = o.before /\ k.pushed = o.pushed /\ k.home = o.home /\ k.said = o.said
        /\ k.result = o.result /\ k.alone = o.alone /\ DOMAIN k = TaskFields
    BY <1>2 DEF Same, TaskFields
  <2>2. TaskOK(k)
    BY <1>2, <1>3, <2>1 DEF TaskInv, TaskOK, Ended
  <2>3. Gated(k)
    BY <1>2, <1>3, <2>1 DEF TaskInv, Gated, Before, Working, After
  <2>4. PrKnown(k, q)
    BY <1>2, <1>3, <2>1 DEF TaskInv, PrKnown
  <2>5. OnItsHead(k, v)
    BY <1>2 DEF OnItsHead, Working
  <2> QED
    BY <1>2, <2>2, <2>3, <2>4, <2>5 DEF TaskInv, After
<1>5. task[t].pc \notin Ended \cup {"idle"}
  BY <1>1, <1>2 DEF Before, Working, After, Ended
<1> QED
  BY <1>1, <1>2, <1>4, <1>5, LocalStep

LEMMA BaseType ==
  ASSUME IInv
  PROVE  /\ refs[Base] \in Seq(Trees) /\ Base \in DOMAIN refs
         /\ Impl \in DOMAIN refs => refs[Impl] \in Seq(Trees)
  BY DEF IInv, GithubOK, RefsOK

\* From before the agent to before the agent.
LEMMA EarlyStep ==
  ASSUME IInv, NEW t \in Tasks, NEW from \in {"clone", "branch"}, NEW to \in {"branch", "inputs"},
         Step(t, from, to), NEW v, VmMoves(t, v), UNCHANGED <<hvars, events, cut>>, VmOK(v),
         task[t].alone /\ to = "branch" => ~v.on /\ v.detached = v.main,
         task[t].alone /\ to = "inputs" => v.on /\ (~Revising(t) => v.local = v.main)
  PROVE  IInv' /\ GithubStep
<1>1. PICK o, k, q : o = task[t] /\ k = task'[t] /\ q = calls[t]
  OBVIOUS
<1>2. TaskMoves(t, k) /\ o.pc = from /\ k.pc = to /\ Same(k, o, {"pc"})
  BY <1>1, StepMoves
<1>3. /\ \E w : TaskInv(o, w, q)
      /\ DOMAIN o = TaskFields
  BY <1>1, <1>2, Known
<1>4. /\ k.in = o.in /\ k.before = o.before /\ k.pushed = o.pushed /\ k.home = o.home /\ k.said = o.said
      /\ k.result = o.result /\ k.alone = o.alone /\ k.report = o.report /\ DOMAIN k = TaskFields
  BY <1>2 DEF Same, TaskFields
<1>7. OnItsHead(k, v)
  BY <1>1, <1>2, <1>4 DEF OnItsHead, Working, Revising
<1>8. TaskOK(k) /\ Gated(k) /\ PrKnown(k, q)
  BY <1>2, <1>3, <1>4 DEF TaskInv, TaskOK, Gated, PrKnown, Before, Working, After
<1>9. TaskInv(k, v, q)
  BY <1>2, <1>7, <1>8 DEF TaskInv, After
<1>10. task[t].pc \notin Ended \cup {"idle"}
  BY <1>1, <1>2 DEF Ended
<1> QED
  BY <1>1, <1>2, <1>9, <1>10, LocalStep

LEMMA CloneStep ==
  ASSUME IInv, NEW t \in Tasks, clone_repo(t)
  PROVE  IInv' /\ GithubStep
<1>1. PICK v, fetched : v = Checkout(t) /\ fetched = refs[Base]
  OBVIOUS
<1>2. /\ task[t].pc = "clone" /\ UNCHANGED <<hvars, events, left, cut>>
      /\ fetched \in Seq(Trees) /\ TreeOf(fetched) \in Trees
  BY <1>1, BaseType, TreeOfType DEF clone_repo
<1>3. VmOK(v) /\ DOMAIN v = VmFields
  BY <1>1, <1>2, Known DEF VmOK
<1>4. CASE ~v.cloned
  <2>1. PICK w : w = FreshVm(fetched)
    OBVIOUS
  <2>2. SetCheckout(t, w) /\ Step(t, "clone", "branch")
    BY <1>1, <1>4, <2>1 DEF clone_repo
  <2>3. VmOK(w) /\ ~w.on /\ w.detached = w.main
    BY <1>2, <2>1 DEF FreshVm, NoVm, VmOK, VmFields
  <2>4. VmMoves(t, w)
    BY <1>2, <2>2, <2>3, SetCheckoutMoves
  <2> QED
    BY <1>2, <2>2, <2>3, <2>4, EarlyStep
<1>5. CASE v.cloned /\ CanSwitch(v, fetched)
  <2>1. PICK w : w = [v EXCEPT !.on = FALSE, !.detached = fetched, !.main = fetched,
                               !.work = TreeOf(fetched)]
    OBVIOUS
  <2>2. SetCheckout(t, w) /\ Step(t, "clone", "branch")
    BY <1>1, <1>5, <2>1 DEF clone_repo
  <2>3. VmOK(w) /\ ~w.on /\ w.detached = w.main
    BY <1>2, <1>3, <2>1 DEF VmOK, VmFields
  <2>4. VmMoves(t, w)
    BY <1>2, <2>2, <2>3, SetCheckoutMoves
  <2> QED
    BY <1>2, <2>2, <2>3, <2>4, EarlyStep
<1>6. CASE v.cloned /\ ~CanSwitch(v, fetched)
  <2>1. PICK w : w = [v EXCEPT !.main = fetched]
    OBVIOUS
  <2>2. SetCheckout(t, w) /\ Raises(t, "clone")
    BY <1>1, <1>6, <2>1 DEF clone_repo
  <2>3. VmOK(w)
    BY <1>2, <1>3, <2>1 DEF VmOK, VmFields
  <2>4. VmMoves(t, w)
    BY <1>2, <2>2, <2>3, SetCheckoutMoves
  <2>5. "clone" \in Before
    BY DEF Before
  <2> QED
    BY <1>2, <2>2, <2>4, <2>5, RaisesStep
<1> QED
  BY <1>4, <1>5, <1>6

LEMMA CreateBranchStep ==
  ASSUME IInv, NEW t \in Tasks, create_branch_local(t)
  PROVE  IInv' /\ GithubStep
<1>1. PICK v : v = Checkout(t)
  OBVIOUS
<1>7. PICK w : w = [v EXCEPT !.on = TRUE, !.detached = <<>>, !.local = head_sha(v)]
  OBVIOUS
<1>2. /\ task[t].pc = "branch" /\ UNCHANGED <<hvars, events, left, cut>>
      /\ SetCheckout(t, w) /\ Step(t, "branch", "inputs")
  BY <1>1, <1>7 DEF create_branch_local
<1>3. VmOK(v) /\ DOMAIN v = VmFields
  BY <1>1, <1>2, Known DEF VmOK
<1>4. /\ VmOK(w) /\ w.on /\ w.main = v.main
      /\ ~v.on => w.local = v.detached
  BY <1>7, <1>3 DEF VmOK, VmFields, head_sha
<1>5. task[t].alone => ~v.on /\ v.detached = v.main
  BY <1>1, <1>2, Known DEF TaskInv, OnItsHead
<1>6. VmMoves(t, w)
  BY <1>2, <1>4, SetCheckoutMoves
<1> QED
  BY <1>2, <1>4, <1>5, <1>6, EarlyStep

LEMMA CheckoutImplBranchStep ==
  ASSUME IInv, NEW t \in Tasks, checkout_impl_branch(t)
  PROVE  IInv' /\ GithubStep
<1>1. PICK v : v = Checkout(t)
  OBVIOUS
<1>2. task[t].pc = "branch" /\ Revising(t) /\ UNCHANGED <<hvars, events, left, cut>>
  BY DEF checkout_impl_branch
<1>3. VmOK(v) /\ DOMAIN v = VmFields
  BY <1>1, <1>2, Known DEF VmOK
<1>4. CASE Impl \in DOMAIN refs /\ CanSwitch(v, refs[Impl])
  <2>1. PICK tip, work : tip = refs[Impl] /\ work = Carried(v, refs[Impl])
    OBVIOUS
  <2>2. PICK w : w = [v EXCEPT !.on = TRUE, !.detached = <<>>, !.local = tip, !.work = work]
    OBVIOUS
  <2>3. SetCheckout(t, w) /\ Step(t, "branch", "inputs")
    BY <1>1, <1>4, <2>1, <2>2 DEF checkout_impl_branch
  <2>4. tip \in Seq(Trees)
    BY <1>4, <2>1, BaseType
  <2>5. work \in Trees
    <3>1. TreeOf(tip) \in Trees /\ v.work \in Trees
      BY <1>3, <2>4, TreeOfType DEF VmOK
    <3> QED
      BY <2>1, <3>1 DEF Carried, Trees
  <2>6. VmOK(w) /\ w.on
    BY <1>3, <2>2, <2>4, <2>5 DEF VmOK, VmFields
  <2>7. VmMoves(t, w)
    BY <1>2, <2>3, <2>6, SetCheckoutMoves
  <2> QED
    BY <1>2, <2>3, <2>6, <2>7, EarlyStep
<1>5. CASE ~(Impl \in DOMAIN refs /\ CanSwitch(v, refs[Impl]))
  <2>1. Raises(t, "branch") /\ UNCHANGED vm
    BY <1>1, <1>5 DEF checkout_impl_branch
  <2>2. "branch" \in Before
    BY DEF Before
  <2> QED
    BY <1>2, <2>1, <2>2, VmStays, RaisesStep
<1> QED
  BY <1>4, <1>5

\* head_before is the HEAD the agent finds.
LEMMA GatherInputsStep ==
  ASSUME IInv, NEW t \in Tasks, gather_inputs(t)
  PROVE  IInv' /\ GithubStep
<1>1. PICK o, k, q, v : o = task[t] /\ k = task'[t] /\ q = calls[t] /\ v = Checkout(t)
  OBVIOUS
<1>2. o.pc = "inputs" /\ UNCHANGED <<hvars, vm, events, left, cut>>
  BY <1>1 DEF gather_inputs
<1>3. TaskInv(o, v, q) /\ VmOK(v) /\ DOMAIN o = TaskFields
  BY <1>1, <1>2, Known
<1>4. PICK head \in Seq(Trees) : head = head_sha(v)
  BY <1>3 DEF VmOK, head_sha
<1>5. task' = [task EXCEPT ![t].pc = "agent", ![t].before = head]
  BY <1>1, <1>4 DEF gather_inputs
<1>6. /\ DOMAIN task' = Tasks /\ \A u \in Tasks \ {t} : task'[u] = task[u]
      /\ k = [o EXCEPT !.pc = "agent", !.before = head]
  BY <1>1, <1>2, <1>5, Known
<1>7. /\ DOMAIN k = TaskFields /\ k.pc = "agent" /\ k.before = head
      /\ k.in = o.in /\ k.pushed = o.pushed /\ k.home = o.home /\ k.said = o.said
      /\ k.result = o.result /\ k.alone = o.alone /\ k.report = o.report
  BY <1>3, <1>6 DEF TaskFields
<1>8. TaskMoves(t, k)
  BY <1>1, <1>6, <1>7 DEF TaskMoves
<1>9. OnItsHead(k, v)
  <2>1. k.alone => v.on
    BY <1>2, <1>3, <1>7 DEF TaskInv, OnItsHead
  <2>2. k.alone /\ k.in.mode # "revision" => v.local = v.main /\ head = v.local
    BY <1>2, <1>3, <1>4, <1>7 DEF TaskInv, OnItsHead, head_sha
  <2>3. Ancestor(v.main, v.main)
    BY <1>3, AncestorReflexive DEF VmOK
  <2> QED
    BY <1>7, <2>1, <2>2, <2>3 DEF OnItsHead, Working
<1>10. TaskOK(k) /\ Gated(k) /\ PrKnown(k, q)
  BY <1>2, <1>3, <1>7 DEF TaskInv, TaskOK, Gated, PrKnown, Before, Working, After
<1>11. TaskInv(k, v, q)
  BY <1>7, <1>9, <1>10 DEF TaskInv, After
<1>12. task[t].pc \notin Ended \cup {"idle"}
  BY <1>1, <1>2 DEF Ended
<1> QED
  BY <1>1, <1>2, <1>8, <1>11, <1>12, VmStays, LocalStep

\* A commit is on top of what was there.
LEMMA CommittedGrows ==
  ASSUME NEW v, VmOK(v)
  PROVE  /\ VmOK(Committed(v)) /\ Committed(v).on = v.on /\ Committed(v).main = v.main
         /\ Ancestor(v.local, Committed(v).local)
         /\ v.on /\ has_uncommitted_changes(v) => Committed(v).local = Append(v.local, v.work)
         /\ ~has_uncommitted_changes(v) => Committed(v) = v
<1>1. /\ DOMAIN v = VmFields /\ v.detached \in Seq(Trees) /\ v.local \in Seq(Trees)
      /\ v.main \in Seq(Trees) /\ v.work \in Trees
  BY DEF VmOK
<1>2. Ancestor(v.local, v.local)
  BY <1>1, AncestorReflexive
<1>3. CASE ~has_uncommitted_changes(v)
  BY <1>2, <1>3 DEF Committed
<1>4. CASE has_uncommitted_changes(v) /\ v.on
  <2>1. PICK s \in Seq(Trees) : s = Append(v.local, v.work) /\ Ancestor(v.local, s)
    BY <1>1, AncestorAppend
  <2>2. Committed(v) = [v EXCEPT !.local = s]
    BY <1>4, <2>1 DEF Committed, head_sha
  <2>3. /\ VmOK(Committed(v)) /\ Committed(v).on = v.on /\ Committed(v).main = v.main
        /\ Committed(v).local = s
    BY <1>1, <2>2 DEF VmOK, VmFields
  <2> QED
    BY <1>4, <2>1, <2>3
<1>5. CASE has_uncommitted_changes(v) /\ ~v.on
  <2>1. PICK s \in Seq(Trees) : s = Append(v.detached, v.work)
    BY <1>1, AncestorAppend
  <2>2. Committed(v) = [v EXCEPT !.detached = s]
    BY <1>5, <2>1 DEF Committed, head_sha
  <2>3. /\ VmOK(Committed(v)) /\ Committed(v).on = v.on /\ Committed(v).main = v.main
        /\ Committed(v).local = v.local
    BY <1>1, <2>2 DEF VmOK, VmFields
  <2> QED
    BY <1>2, <1>5, <2>3
<1> QED
  BY <1>3, <1>4, <1>5

LEMMA AgentStep ==
  ASSUME IInv, NEW t \in Tasks, task[t].pc = "agent", UNCHANGED <<hvars, events, cut>>,
         NEW k, NEW w, TaskMoves(t, k), VmMoves(t, w), VmOK(w),
         DOMAIN k = TaskFields, k.pc \in Working, k.report = k.said,
         k.before = task[t].before, k.pushed = task[t].pushed, k.home = task[t].home,
         k.result = task[t].result,
         w.main = Checkout(t).main,
         Ancestor(w.main, Checkout(t).local) => Ancestor(w.main, w.local)
  PROVE  IInv' /\ GithubStep
<1>1. PICK o, q, v : o = task[t] /\ q = calls[t] /\ v = Checkout(t)
  OBVIOUS
<1>2. TaskInv(o, v, q) /\ VmOK(v) /\ o.pc = "agent" /\ k.in = o.in /\ k.alone = o.alone
  BY <1>1, Known DEF TaskMoves
<1>3. OnItsHead(k, w)
  <2>2. k.alone /\ k.in.mode # "revision" => k.before = w.main /\ Ancestor(w.main, v.local)
    BY <1>1, <1>2 DEF TaskInv, OnItsHead, Working
  <2>3. Ancestor(w.main, v.local) => Ancestor(w.main, w.local)
    BY <1>1
  <2> QED
    BY <2>2, <2>3 DEF OnItsHead, Working
<1>4. TaskOK(k) /\ Gated(k) /\ PrKnown(k, q)
  BY <1>1, <1>2 DEF TaskInv, TaskOK, Gated, PrKnown, Before, Working, After
<1>5. TaskInv(k, w, q)
  BY <1>3, <1>4 DEF TaskInv, After, Working
<1> QED
  BY <1>1, <1>5, LocalStep DEF Ended

LEMMA TurnMoves ==
  ASSUME IInv, NEW t \in Tasks, task[t].pc = "agent", NEW k, k = task'[t],
         \/ NextTurn(t)
         \/ \E status : set_report(t, status)
         \/ task' = [task EXCEPT ![t].turns = @ + 1, ![t].blocked_stop = TRUE]
         \/ task' = [task EXCEPT ![t].pc = "changes", ![t].turns = 0, ![t].blocked_stop = FALSE]
  PROVE  /\ TaskMoves(t, k) /\ DOMAIN k = TaskFields /\ k.pc \in Working /\ k.report = k.said
         /\ k.before = task[t].before /\ k.pushed = task[t].pushed /\ k.home = task[t].home
         /\ k.result = task[t].result
<1>1. PICK o : o = task[t]
  OBVIOUS
<1>2. DOMAIN o = TaskFields /\ o.pc = "agent" /\ o.report = o.said /\ DOMAIN task = Tasks
  BY <1>1, Known DEF TaskInv, Gated, Working
<1>3. CASE NextTurn(t)
  <2>1. /\ DOMAIN task' = Tasks /\ \A u \in Tasks \ {t} : task'[u] = task[u]
        /\ k = [o EXCEPT !.turns = o.turns + 1]
    BY <1>1, <1>2, <1>3 DEF NextTurn
  <2> QED
    BY <1>1, <1>2, <2>1 DEF TaskMoves, TaskFields, Working
<1>4. ASSUME NEW status, set_report(t, status)
      PROVE  /\ TaskMoves(t, k) /\ DOMAIN k = TaskFields /\ k.pc \in Working /\ k.report = k.said
             /\ k.before = task[t].before /\ k.pushed = task[t].pushed /\ k.home = task[t].home
             /\ k.result = task[t].result
  <2>1. /\ DOMAIN task' = Tasks /\ \A u \in Tasks \ {t} : task'[u] = task[u]
        /\ k = [o EXCEPT !.turns = o.turns + 1, !.said = status, !.report = status]
    BY <1>1, <1>2, <1>4 DEF set_report
  <2> QED
    BY <1>1, <1>2, <2>1 DEF TaskMoves, TaskFields, Working
<1>5. CASE task' = [task EXCEPT ![t].turns = @ + 1, ![t].blocked_stop = TRUE]
  <2>1. /\ DOMAIN task' = Tasks /\ \A u \in Tasks \ {t} : task'[u] = task[u]
        /\ k = [o EXCEPT !.turns = o.turns + 1, !.blocked_stop = TRUE]
    BY <1>1, <1>2, <1>5
  <2> QED
    BY <1>1, <1>2, <2>1 DEF TaskMoves, TaskFields, Working
<1>6. CASE task' = [task EXCEPT ![t].pc = "changes", ![t].turns = 0, ![t].blocked_stop = FALSE]
  <2>1. /\ DOMAIN task' = Tasks /\ \A u \in Tasks \ {t} : task'[u] = task[u]
        /\ k = [o EXCEPT !.pc = "changes", !.turns = 0, !.blocked_stop = FALSE]
    BY <1>1, <1>2, <1>6
  <2> QED
    BY <1>1, <1>2, <2>1 DEF TaskMoves, TaskFields, Working
<1> QED
  BY <1>3, <1>4, <1>5, <1>6

\* The agent edits, commits, reports or stops.
LEMMA AgentActs ==
  ASSUME IInv, NEW t \in Tasks, edit(t) \/ git_commit(t) \/ finish(t) \/ stop(t)
  PROVE  IInv' /\ GithubStep
<1>1. PICK k, v : k = task'[t] /\ v = Checkout(t)
  OBVIOUS
<1>2. task[t].pc = "agent" /\ UNCHANGED <<hvars, events, left, cut>>
  BY DEF edit, git_commit, finish, stop, Turn
<1>3. VmOK(v) /\ DOMAIN v = VmFields /\ Ancestor(v.local, v.local)
  <2>1. VmOK(v)
    BY <1>1, <1>2, Known
  <2> QED
    BY <2>1, AncestorReflexive DEF VmOK
<1>4. CASE edit(t)
  <2>1. PICK p \in Paths : SetCheckout(t, [v EXCEPT !.work[p] = Written[t]])
    BY <1>1, <1>4 DEF edit
  <2>2. PICK work : work = [v.work EXCEPT ![p] = Written[t]]
    OBVIOUS
  <2>3. work \in Trees
    <3>1. v.work \in Trees /\ Written[t] \in Contents
      BY <1>3, ImplementerAssumption DEF VmOK
    <3> QED
      BY <2>2, <3>1 DEF Trees
  <2>4. PICK w : w = [v EXCEPT !.work = work]
    OBVIOUS
  <2>5. SetCheckout(t, w)
    BY <2>1, <2>2, <2>4
  <2>6. VmOK(w) /\ w.on = v.on /\ w.main = v.main /\ w.local = v.local
    BY <1>3, <2>3, <2>4 DEF VmOK, VmFields
  <2>7. VmMoves(t, w)
    BY <1>2, <2>5, <2>6, SetCheckoutMoves
  <2>8. NextTurn(t)
    BY <1>4 DEF edit
  <2> QED
    BY <1>1, <1>2, <1>3, <2>6, <2>7, <2>8, TurnMoves, AgentStep
<1>5. CASE git_commit(t)
  <2>1. PICK w : w = Committed(v)
    OBVIOUS
  <2>2. SetCheckout(t, w) /\ NextTurn(t)
    BY <1>1, <1>5, <2>1 DEF git_commit
  <2>3. VmOK(w) /\ w.on = v.on /\ w.main = v.main /\ Ancestor(v.local, w.local)
    BY <1>3, <2>1, CommittedGrows
  <2>4. VmMoves(t, w)
    BY <1>2, <2>2, <2>3, SetCheckoutMoves
  <2>5. Ancestor(w.main, v.local) => Ancestor(w.main, w.local)
    BY <1>3, <2>3, AncestorTransitive DEF VmOK
  <2> QED
    BY <1>1, <1>2, <2>2, <2>3, <2>4, <2>5, TurnMoves, AgentStep
<1>6. CASE finish(t) \/ stop(t)
  <2>1. /\ VmMoves(t, v)
    BY <1>1, <1>6, VmStays DEF finish, stop
  <2>2. \/ \E status : set_report(t, status)
        \/ task' = [task EXCEPT ![t].turns = @ + 1, ![t].blocked_stop = TRUE]
        \/ task' = [task EXCEPT ![t].pc = "changes", ![t].turns = 0, ![t].blocked_stop = FALSE]
    BY <1>6 DEF finish, stop
  <2>3. /\ TaskMoves(t, k) /\ DOMAIN k = TaskFields /\ k.pc \in Working /\ k.report = k.said
        /\ k.before = task[t].before /\ k.pushed = task[t].pushed /\ k.home = task[t].home
        /\ k.result = task[t].result
    BY <1>1, <1>2, <2>2, TurnMoves
  <2> QED
    BY <1>1, <1>2, <1>3, <2>1, <2>3, AgentStep
<1> QED
  BY <1>4, <1>5, <1>6

\* The agent's reset and its change of HEAD leave a first pass's branch at main or beyond.
LEMMA GitStep ==
  ASSUME IInv, NEW t \in Tasks, git_switch(t) \/ git_reset(t)
  PROVE  IInv' /\ GithubStep
<1>1. PICK k, v : k = task'[t] /\ v = Checkout(t)
  OBVIOUS
<1>2. /\ task[t].pc = "agent" /\ NextTurn(t) /\ UNCHANGED <<hvars, events, left, cut>>
  BY DEF git_switch, git_reset, Turn
<1>3. /\ VmOK(v) /\ DOMAIN v = VmFields /\ v.detached \in Seq(Trees) /\ v.local \in Seq(Trees)
      /\ v.main \in Seq(Trees) /\ v.work \in Trees
  <2>1. VmOK(v)
    BY <1>1, <1>2, Known
  <2> QED
    BY <2>1 DEF VmOK
<1>4. ASSUME NEW w, VmOK(w), SetCheckout(t, w), w.main = v.main,
             Ancestor(v.main, v.local) => Ancestor(v.main, w.local)
      PROVE  IInv' /\ GithubStep
  <2>1. VmMoves(t, w)
    BY <1>2, <1>4, SetCheckoutMoves
  <2>2. /\ TaskMoves(t, k) /\ DOMAIN k = TaskFields /\ k.pc \in Working /\ k.report = k.said
        /\ k.before = task[t].before /\ k.pushed = task[t].pushed /\ k.home = task[t].home
        /\ k.result = task[t].result
    BY <1>1, <1>2, TurnMoves
  <2> QED
    BY <1>1, <1>2, <1>4, <2>1, <2>2, AgentStep
<1>5. CASE git_switch(t)
  <2>1. PICK on \in BOOLEAN, to \in {v.local, v.main} :
          SetCheckout(t, [v EXCEPT !.on = on, !.detached = IF on THEN <<>> ELSE to,
                                   !.work = Carried(v, to)])
    BY <1>1, <1>5 DEF git_switch
  <2>2. PICK s, files : s = (IF on THEN <<>> ELSE to) /\ files = Carried(v, to)
    OBVIOUS
  <2>3. s \in Seq(Trees) /\ to \in Seq(Trees)
    BY <1>3, <2>2
  <2>4. files \in Trees
    <3>1. TreeOf(to) \in Trees
      BY <2>3, TreeOfType
    <3> QED
      BY <1>3, <2>2, <3>1 DEF Carried, Trees
  <2>5. PICK w : w = [v EXCEPT !.on = on, !.detached = s, !.work = files]
    OBVIOUS
  <2>6. VmOK(w) /\ w.main = v.main /\ w.local = v.local
    BY <1>3, <2>3, <2>4, <2>5 DEF VmOK, VmFields
  <2>7. SetCheckout(t, w)
    BY <2>1, <2>2, <2>5
  <2> QED
    BY <1>4, <2>6, <2>7
<1>6. CASE git_reset(t)
  <2>1. PICK head \in Seq(Trees) : head = head_sha(v)
    BY <1>3 DEF head_sha
  <2>2. ~Ancestor(head, v.main)
    BY <1>1, <1>6, <2>1 DEF git_reset
  <2>3. PICK to \in {v.main, SubSeq(head, 1, Len(head) - 1)} : \E files \in {v.work, TreeOf(to)} :
          SetCheckout(t, IF v.on THEN [v EXCEPT !.local = to, !.work = files]
                         ELSE [v EXCEPT !.detached = to, !.work = files])
    BY <1>1, <1>6, <2>1 DEF git_reset
  <2>4. to \in Seq(Trees) /\ (Ancestor(v.main, head) => Ancestor(v.main, to))
    BY <1>3, <2>1, <2>2, <2>3, BeforeTheLast, AncestorReflexive
  <2>5. PICK files \in {v.work, TreeOf(to)} :
          SetCheckout(t, IF v.on THEN [v EXCEPT !.local = to, !.work = files]
                         ELSE [v EXCEPT !.detached = to, !.work = files])
    BY <2>3
  <2>6. files \in Trees
    BY <1>3, <2>4, <2>5, TreeOfType
  <2>7. CASE v.on
    <3>1. PICK w : w = [v EXCEPT !.local = to, !.work = files]
      OBVIOUS
    <3>2. VmOK(w) /\ w.main = v.main /\ w.local = to
      BY <1>3, <2>4, <2>6, <3>1 DEF VmOK, VmFields
    <3>3. head = v.local /\ SetCheckout(t, w)
      BY <2>1, <2>5, <2>7, <3>1 DEF head_sha
    <3> QED
      BY <1>4, <2>4, <3>2, <3>3
  <2>8. CASE ~v.on
    <3>1. PICK w : w = [v EXCEPT !.detached = to, !.work = files]
      OBVIOUS
    <3>2. VmOK(w) /\ w.main = v.main /\ w.local = v.local
      BY <1>3, <2>4, <2>6, <3>1 DEF VmOK, VmFields
    <3>3. SetCheckout(t, w)
      BY <2>5, <2>8, <3>1
    <3> QED
      BY <1>4, <3>2, <3>3
  <2> QED
    BY <2>7, <2>8
<1> QED
  BY <1>5, <1>6

\* What goes on to the push is something new, and its agent is not blocked.
LEMMA CommitChangesStep ==
  ASSUME IInv, NEW t \in Tasks, commit_changes(t)
  PROVE  IInv' /\ GithubStep
<1>1. PICK o, k, q, v : o = task[t] /\ k = task'[t] /\ q = calls[t] /\ v = Checkout(t)
  OBVIOUS
<1>2. o.pc = "changes" /\ UNCHANGED <<hvars, events, left, cut>>
  BY <1>1 DEF commit_changes
<1>3. TaskInv(o, v, q) /\ VmOK(v) /\ DOMAIN o = TaskFields
  BY <1>1, <1>2, Known
<1>4. CASE Raises(t, "changes") /\ UNCHANGED vm
  <2>1. "changes" \in Working
    BY DEF Working
  <2> QED
    BY <1>2, <1>4, <2>1, VmStays, RaisesStep
<1>5. CASE /\ ~raise_if_blocked(t) /\ made_changes(t)
           /\ Step(t, "changes", "push") /\ SetCheckout(t, Committed(v))
  <2>1. PICK w : w = Committed(v)
    OBVIOUS
  <2>2. /\ VmOK(w) /\ w.on = v.on /\ w.main = v.main /\ Ancestor(v.local, w.local)
        /\ v.on /\ has_uncommitted_changes(v) => w.local = Append(v.local, v.work)
        /\ ~has_uncommitted_changes(v) => w = v
    BY <1>3, <2>1, CommittedGrows
  <2>3. VmMoves(t, w)
    BY <1>1, <1>2, <1>5, <2>1, <2>2, SetCheckoutMoves
  <2>4. TaskMoves(t, k) /\ k.pc = "push" /\ Same(k, o, {"pc"})
    BY <1>1, <1>5, StepMoves
  <2>5. /\ k.in = o.in /\ k.before = o.before /\ k.pushed = o.pushed /\ k.home = o.home /\ k.said = o.said
        /\ k.result = o.result /\ k.alone = o.alone /\ k.report = o.report /\ DOMAIN k = TaskFields
    BY <2>4 DEF Same, TaskFields
  <2>6. o.said # "blocked"
    BY <1>1, <1>2, <1>3, <1>5 DEF TaskInv, Gated, Working, raise_if_blocked
  <2>7. ASSUME o.alone, w.on
        PROVE  w.local # o.before
    <3>1. v.on /\ (o.in.mode # "revision" => o.before = v.main /\ Ancestor(v.main, v.local))
      BY <1>2, <1>3, <2>2, <2>7 DEF TaskInv, OnItsHead, Working
    <3>2. CASE o.in.mode = "revision"
      <4>1. head_sha(w) # o.before
        BY <1>1, <1>5, <2>1, <3>2 DEF made_changes, Revising
      <4> QED
        BY <2>2, <3>1, <4>1 DEF head_sha
    <3>3. CASE o.in.mode # "revision"
      <4>1. has_uncommitted_changes(v) \/ TreeOf(head_sha(v)) # TreeOf(v.main)
        BY <1>1, <1>5, <3>3 DEF made_changes, Revising, repo_made_real_changes
      <4>2. CASE has_uncommitted_changes(v)
        BY <1>3, <2>2, <3>1, <3>3, <4>2, AppendIsNew DEF VmOK
      <4>3. CASE ~has_uncommitted_changes(v)
        BY <2>2, <3>1, <3>3, <4>1, <4>3 DEF head_sha
      <4> QED
        BY <4>2, <4>3
    <3> QED
      BY <2>2, <3>1, <3>2, <3>3
  <2>8. OnItsHead(k, w)
    BY <2>4, <2>5, <2>7 DEF OnItsHead, Working
  <2>9. TaskOK(k) /\ Gated(k) /\ PrKnown(k, q)
    BY <1>2, <1>3, <2>4, <2>5, <2>6 DEF TaskInv, TaskOK, Gated, PrKnown, Before, Working, After
  <2>10. TaskInv(k, w, q)
    BY <2>4, <2>8, <2>9 DEF TaskInv, After
  <2> QED
    BY <1>1, <1>2, <2>3, <2>4, <2>10, LocalStep DEF Ended
<1> QED
  BY <1>1, <1>4, <1>5 DEF commit_changes
-----------------------------------------------------------------------------
(* The push, and what follows it.                                          *)

LEMMA CallsStay ==
  ASSUME IInv, GithubStep, UNCHANGED calls, NEW t \in Tasks, NEW q, q = calls[t]
  PROVE  CallMoves(t, q) /\ DOMAIN q = CallFields /\ CallOK(q)'
  BY CallOKStays DEF IInv, CallsOK, CallMoves

\* The agent does something on GitHub.
LEMMA OnGithubStep ==
  ASSUME IInv, NEW t \in Tasks, task[t].pc = "agent", NextTurn(t), GithubStep,
         UNCHANGED <<calls, vm, events>>
  PROVE  IInv'
<1>1. PICK o, k, q, v : o = task[t] /\ k = task'[t] /\ q = calls[t] /\ v = Checkout(t)
  OBVIOUS
<1>2. o.pc = "agent" /\ TaskInv(o, v, q)
  BY <1>1, Known
<1>3. /\ TaskMoves(t, k) /\ DOMAIN k = TaskFields /\ k.pc \in Working /\ k.report = k.said
      /\ k.before = o.before /\ k.pushed = o.pushed /\ k.result = o.result /\ k.in = o.in
      /\ k.alone = o.alone
  BY <1>1, <1>2, TurnMoves DEF TaskMoves
<1>4. TaskInv(k, v, q)
  <2>1. TaskOK(k) /\ Gated(k) /\ PrKnown(k, q)
    BY <1>2, <1>3 DEF TaskInv, TaskOK, Gated, PrKnown, Before, Working, After
  <2>2. OnItsHead(k, v)
    BY <1>2, <1>3 DEF TaskInv, OnItsHead, Working
  <2> QED
    BY <1>3, <2>1, <2>2 DEF TaskInv, After, Working
<1>5. TaskInv(k, v, q)'
  BY <1>4, TaskInvStays DEF IInv
<1>6. CallMoves(t, q) /\ DOMAIN q = CallFields /\ CallOK(q)'
  BY <1>1, CallsStay
<1>7. VmMoves(t, v)
  BY <1>1, VmStays
<1>8. \A e \in events' : e.by # t /\ e \in events
  BY <1>1, <1>2, NoEventsYet DEF Ended
<1>9. Active(t)
  BY <1>1, <1>2 DEF Active
<1> QED
  BY <1>3, <1>5, <1>6, <1>7, <1>8, <1>9, OneTaskStep

\* The agent's own push: what was on the branch stays there or is recorded as cut.
LEMMA GitPushStep ==
  ASSUME IInv, NEW t \in Tasks, git_push(t)
  PROVE  IInv' /\ GithubStep
<1>1. PICK v : v = Checkout(t)
  OBVIOUS
<1>2. /\ task[t].pc = "agent" /\ NextTurn(t) /\ AgentPushes
      /\ UNCHANGED <<prs, checks, threads, calls, vm, events, left>>
  BY DEF git_push, Turn, AgentPushes
<1>3. VmOK(v)
  BY <1>1, <1>2, Known
<1>4. PICK s \in Seq(Trees) : SetRef(Impl, s)
  BY <1>1, <1>3 DEF git_push, VmOK, head_sha
<1>5. /\ cut' \in SUBSET Seq(Trees) /\ cut \subseteq cut'
      /\ Impl \in DOMAIN refs => Ancestor(refs[Impl], s) \/ (refs[Impl] \in cut' /\ AgentPushes)
  <2>1. refs'[Impl] = s
    BY <1>4 DEF SetRef
  <2>2. cut \subseteq Seq(Trees) /\ (Impl \in DOMAIN refs => refs[Impl] \in Seq(Trees))
    BY BaseType DEF IInv, GithubOK
  <2> QED
    BY <1>2, <2>1, <2>2 DEF git_push
<1>6. GithubStep
  BY <1>2, <1>4, <1>5, BranchSet DEF IInv
<1> QED
  BY <1>2, <1>6, OnGithubStep

\* A commit on top of the run's branch.
LEMMA PushGrows ==
  ASSUME IInv, NEW p \in Paths, NEW x \in Contents, Push(Impl, p, x), Impl \in DOMAIN refs,
         UNCHANGED cut
  PROVE  GithubStep
<1>1. PICK tip, tree : tip = refs[Impl] /\ tree = TreeOf(tip)
  OBVIOUS
<1>2. tip \in Seq(Trees) /\ tree \in Trees
  BY <1>1, BaseType, TreeOfType
<1>3. PICK new : new = [tree EXCEPT ![p] = x]
  OBVIOUS
<1>4. new \in Trees
  BY <1>2, <1>3 DEF Trees
<1>5. PICK s \in Seq(Trees) : s = Append(tip, new) /\ Ancestor(tip, s)
  BY <1>2, <1>4, AncestorAppend
<1>6. SetRef(Impl, s) /\ UNCHANGED prs
  BY <1>1, <1>3, <1>5 DEF Push
<1>7. GithubOK /\ cut' \in SUBSET Seq(Trees) /\ cut \subseteq cut'
  BY DEF IInv, GithubOK
<1> QED
  BY <1>1, <1>5, <1>6, <1>7, BranchSet

LEMMA PrOpens ==
  ASSUME GithubOK, UNCHANGED <<refs, cut>>, prs' = Append(prs, [head |-> Impl, open |-> TRUE])
  PROVE  GithubStep /\ Len(prs) + 1 \in RunPrs'
<1>1. PICK pr, n : pr = [head |-> Impl, open |-> TRUE] /\ n = Len(prs) + 1
  OBVIOUS
<1>2. prs \in Seq([head : Branches, open : BOOLEAN]) /\ Impl \in Branches
  BY ImplementerAssumption DEF GithubOK
<1>3. \A x \in DOMAIN refs : Ancestor(refs[x], refs[x])
  BY AncestorReflexive DEF GithubOK, RefsOK
<1>4. pr \in [head : Branches, open : BOOLEAN] /\ pr.head = Impl
  BY <1>1, <1>2
<1>5. /\ prs' \in Seq([head : Branches, open : BOOLEAN])
      /\ DOMAIN prs' = 1..n /\ DOMAIN prs = 1..Len(prs) /\ n \in DOMAIN prs'
      /\ prs'[n] = pr /\ \A i \in DOMAIN prs : i \in DOMAIN prs' /\ prs'[i] = prs[i]
  BY <1>1, <1>2, <1>4
<1> QED
  BY <1>1, <1>2, <1>3, <1>4, <1>5 DEF GithubStep, GithubOK, Grow, Recorded, RunPrs

\* The agent's own call of the repo helper.
LEMMA CallRepoHelperStep ==
  ASSUME IInv, NEW t \in Tasks, call_repo_helper(t)
  PROVE  IInv' /\ GithubStep
<1>1. task[t].pc = "agent" /\ NextTurn(t) /\ UNCHANGED <<vm, events, left, cut>>
  BY DEF call_repo_helper, Turn
<1>2. CASE /\ prs' = Append(prs, [head |-> Impl, open |-> TRUE])
           /\ UNCHANGED <<refs, checks, threads, calls>>
  <2>1. GithubStep
    BY <1>1, <1>2, PrOpens DEF IInv
  <2> QED
    BY <1>1, <1>2, <2>1, OnGithubStep
<1>3. ASSUME NEW p \in Paths, Push(Impl, p, Written[t]), Impl \in DOMAIN refs
      PROVE  IInv' /\ GithubStep
  <2>1. Written[t] \in Contents
    BY ImplementerAssumption
  <2>2. GithubStep
    BY <1>1, <1>3, <2>1, PushGrows
  <2>3. UNCHANGED calls
    BY <1>3 DEF Push
  <2> QED
    BY <1>1, <2>2, <2>3, OnGithubStep
<1> QED
  BY <1>2, <1>3 DEF call_repo_helper

\* Whether its answer arrives or not, the push of a checkout nobody shares puts
\* the HEAD the task made on the branch, if HEAD is that branch.
LEMMA PushedStep ==
  ASSUME IInv, NEW t \in Tasks, task[t].pc = "push", NEW to \in {"replies", "open_pr", "raised"},
         to = "replies" => Revising(t), Pushed(t, to),
         Impl \in DOMAIN refs => Ancestor(refs[Impl], Checkout(t).local),
         UNCHANGED <<prs, calls, cut, vm, events>>
  PROVE  IInv' /\ GithubStep
<1>1. PICK o, k, q, v : o = task[t] /\ k = task'[t] /\ q = calls[t] /\ v = Checkout(t)
  OBVIOUS
<1>2. TaskInv(o, v, q) /\ VmOK(v) /\ DOMAIN o = TaskFields /\ o.pc = "push" /\ DOMAIN task = Tasks
  BY <1>1, Known
<1>3. PICK s \in Seq(Trees), head \in Seq(Trees) : s = v.local /\ head = head_sha(v)
  BY <1>2 DEF VmOK, head_sha
<1>4. /\ SetRef(Impl, s)
      /\ task' = [task EXCEPT ![t].pc = to, ![t].pushed = head, ![t].home = v.on]
  BY <1>1, <1>3 DEF Pushed
<1>5. GithubStep /\ Impl \in DOMAIN refs' /\ refs'[Impl] = s
  <2>1. GithubOK
    BY DEF IInv
  <2>2. Impl \in DOMAIN refs => Ancestor(refs[Impl], s)
    BY <1>1, <1>3
  <2>3. cut' \in SUBSET Seq(Trees) /\ cut \subseteq cut'
    BY DEF IInv, GithubOK
  <2> QED
    BY <1>4, <2>1, <2>2, <2>3, BranchSet
<1>6. /\ \A u \in Tasks \ {t} : task'[u] = task[u]
      /\ DOMAIN task' = Tasks
      /\ k = [o EXCEPT !.pc = to, !.pushed = head, !.home = v.on]
  BY <1>1, <1>2, <1>4
<1>7. /\ DOMAIN k = TaskFields /\ k.pc = to /\ k.pushed = head /\ k.home = v.on
      /\ k.in = o.in /\ k.before = o.before /\ k.said = o.said
      /\ k.result = o.result /\ k.alone = o.alone /\ k.report = o.report
  BY <1>2, <1>6 DEF TaskFields
<1>8. TaskMoves(t, k)
  BY <1>1, <1>6, <1>7 DEF TaskMoves
<1>9. k.alone /\ k.home => HasPushed(k)'
  <2>1. k.alone /\ k.home => v.on /\ v.local # o.before
    BY <1>2, <1>7 DEF TaskInv, OnItsHead
  <2>2. k.alone /\ k.home => head = s /\ k.pushed # k.before
    BY <1>3, <1>7, <2>1 DEF head_sha
  <2>3. Ancestor(s, s)
    BY AncestorReflexive
  <2> QED
    BY <1>5, <1>7, <2>2, <2>3 DEF HasPushed, Landed
<1>10. TaskInv(k, v, q)'
  <2>1. TaskInv(o, v, q)'
    BY <1>2, <1>5, TaskInvStays DEF IInv
  <2>2. TaskOK(k) /\ Gated(k)
    BY <1>2, <1>7 DEF TaskInv, TaskOK, Gated, Before, Working, After, Ended
  <2>3. PrKnown(k, q)'
    BY <1>1, <1>2, <1>7, <2>1 DEF TaskInv, PrKnown, Revising
  <2>4. OnItsHead(k, v)
    BY <1>7 DEF OnItsHead, Working
  <2> QED
    BY <1>9, <2>2, <2>3, <2>4 DEF TaskInv
<1>11. CallMoves(t, q) /\ DOMAIN q = CallFields /\ CallOK(q)'
  BY <1>1, <1>5, CallsStay
<1>12. VmMoves(t, v)
  BY <1>1, VmStays
<1>13. \A e \in events' : e.by # t /\ e \in events
  BY <1>1, <1>2, NoEventsYet DEF Ended
<1>14. Active(t)
  BY <1>1, <1>2 DEF Active
<1> QED
  BY <1>5, <1>8, <1>10, <1>11, <1>12, <1>13, <1>14, OneTaskStep

LEMMA PushBranchStep ==
  ASSUME IInv, NEW t \in Tasks, push_branch(t)
  PROVE  IInv' /\ GithubStep
<1>1. task[t].pc = "push" /\ UNCHANGED <<prs, checks, threads, calls, vm, events, left, cut>>
  BY DEF push_branch
<1>2. CASE Impl \in DOMAIN refs => Ancestor(refs[Impl], Checkout(t).local)
  <2>1. \/ Pushed(t, "replies") /\ Revising(t)
        \/ Pushed(t, "open_pr")
        \/ Pushed(t, "raised")
    BY <1>2 DEF push_branch
  <2> QED
    BY <1>1, <1>2, <2>1, PushedStep
<1>3. CASE ~(Impl \in DOMAIN refs => Ancestor(refs[Impl], Checkout(t).local))
  <2>1. Raises(t, "push") /\ UNCHANGED <<hvars, events, cut>>
    BY <1>1, <1>3 DEF push_branch, hvars
  <2> QED
    BY <1>1, <2>1, VmStays, RaisesStep
<1> QED
  BY <1>2, <1>3

\* A task past its push goes on to its report.
LEMMA LateStep ==
  ASSUME IInv, NEW t \in Tasks, task[t].pc \in After, UNCHANGED <<refs, prs, cut, vm, events>>,
         NEW k, NEW q, TaskMoves(t, k), CallMoves(t, q), DOMAIN q = CallFields, CallOK(q),
         DOMAIN k = TaskFields, k.pc \in After, PrKnown(k, q),
         k.before = task[t].before, k.pushed = task[t].pushed, k.home = task[t].home,
         k.said = task[t].said
  PROVE  IInv' /\ GithubStep
<1>1. PICK o, v : o = task[t] /\ v = Checkout(t)
  OBVIOUS
<1>2. o.pc \in After /\ o.pc # "idle" /\ o.pc \notin Ended
  BY <1>1 DEF After, Ended
<1>3. TaskInv(o, v, calls[t])
  BY <1>1, <1>2, Known
<1>4. k.in = o.in /\ k.alone = o.alone
  BY <1>1 DEF TaskMoves
<1>5. GithubStep
  BY GithubUnchanged DEF IInv
<1>6. TaskInv(k, v, q)
  <2>1. TaskOK(k) /\ Gated(k)
    BY <1>1, <1>2, <1>3, <1>4 DEF TaskInv, TaskOK, Gated, Before, Working, After
  <2>2. OnItsHead(k, v)
    BY DEF OnItsHead, Working, After
  <2>3. k.alone /\ k.home => HasPushed(k)
    BY <1>1, <1>2, <1>3, <1>4 DEF TaskInv, HasPushed
  <2> QED
    BY <2>1, <2>2, <2>3 DEF TaskInv
<1>7. TaskInv(k, v, q)' /\ CallOK(q)'
  BY <1>5, <1>6, TaskInvStays, CallOKStays DEF IInv
<1>8. VmMoves(t, v)
  BY <1>1, VmStays
<1>9. \A e \in events' : e.by # t /\ e \in events
  BY <1>1, <1>2, NoEventsYet
<1>10. Active(t)
  BY <1>1, <1>2 DEF Active, Ended
<1> QED
  BY <1>5, <1>7, <1>8, <1>9, <1>10, OneTaskStep
LEMMA HandlerMoves ==
  ASSUME IInv, NEW t \in Tasks, NEW r, handler(t, r), r.branch = Impl,
         r.op \in {"open_pr", "reply_pr_review_comment"}
  PROVE  /\ UNCHANGED <<refs, prs>>
         /\ \E q : CallMoves(t, q) /\ DOMAIN q = CallFields /\ CallOK(q) /\ q.req = r
<1>1. /\ r.op \in DISPATCH /\ FirstRequest[r.op] \in {"post_pr", "append"}
      /\ r.op = "open_pr" <=> FirstRequest[r.op] = "post_pr"
  BY DEF DISPATCH, FirstRequest
<1>2. PICK q : q = [NoCall EXCEPT !.pc = FirstRequest[r.op], !.req = r]
  OBVIOUS
<1>3. calls' = [calls EXCEPT ![t] = q] /\ UNCHANGED github
  BY <1>1, <1>2 DEF handler
<1>4. CallMoves(t, q)
  BY <1>3 DEF IInv, CallsOK, CallMoves
<1>5. DOMAIN q = CallFields /\ q.pc = FirstRequest[r.op] /\ q.req = r
  BY <1>2 DEF NoCall, CallFields
<1>6. CallOK(q)
  BY <1>1, <1>5 DEF CallOK
<1> QED
  BY <1>3, <1>4, <1>5, <1>6 DEF github

LEMMA AskIs ==
  ASSUME NEW op, NEW pr
  PROVE  Ask(op, pr).op = op /\ Ask(op, pr).branch = Impl
  BY DEF Ask, NoRequest

LEMMA OpenImplPrStep ==
  ASSUME IInv, NEW t \in Tasks, open_impl_pr(t)
  PROVE  IInv' /\ GithubStep
<1>1. PICK r : r = Ask("open_pr", 0)
  OBVIOUS
<1>2. Step(t, "open_pr", "opening") /\ handler(t, r) /\ UNCHANGED <<vm, events, left, cut>>
  BY <1>1 DEF open_impl_pr
<1>3. PICK q : CallMoves(t, q) /\ DOMAIN q = CallFields /\ CallOK(q) /\ q.req = r
  BY <1>1, <1>2, AskIs, HandlerMoves
<1>4. UNCHANGED <<refs, prs, cut>>
  BY <1>1, <1>2, AskIs, HandlerMoves
<1>5. PICK o, k : o = task[t] /\ k = task'[t]
  OBVIOUS
<1>6. TaskMoves(t, k) /\ o.pc = "open_pr" /\ k.pc = "opening" /\ Same(k, o, {"pc"})
  BY <1>2, <1>5, StepMoves
<1>7. PrKnown(o, calls[t])
  BY <1>5, <1>6, Known DEF TaskInv
<1>8. /\ k.in = o.in /\ k.before = o.before /\ k.pushed = o.pushed /\ k.home = o.home /\ k.said = o.said
      /\ DOMAIN k = TaskFields
  BY <1>6 DEF Same, TaskFields
<1>9. PrKnown(k, q)
  BY <1>1, <1>3, <1>6, <1>7, <1>8, AskIs DEF PrKnown
<1> QED
  BY <1>2, <1>3, <1>4, <1>5, <1>6, <1>8, <1>9, LateStep DEF After

LEMMA PostInlineRepliesStep ==
  ASSUME IInv, NEW t \in Tasks, post_inline_replies(t)
  PROVE  IInv' /\ GithubStep
<1>1. PICK o, k : o = task[t] /\ k = task'[t]
  OBVIOUS
<1>2. UNCHANGED <<vm, events, left, cut>>
  BY DEF post_inline_replies
<1>3. ASSUME NEW to \in {"replying", "summary"}, NEW q, Step(t, "replies", to),
             CallMoves(t, q), DOMAIN q = CallFields, CallOK(q), UNCHANGED <<refs, prs, cut>>
      PROVE  IInv' /\ GithubStep
  <2>1. TaskMoves(t, k) /\ o.pc = "replies" /\ k.pc = to /\ Same(k, o, {"pc"})
    BY <1>1, <1>3, StepMoves
  <2>2. PrKnown(o, calls[t])
    BY <1>1, <2>1, Known DEF TaskInv
  <2>3. /\ k.in = o.in /\ k.before = o.before /\ k.pushed = o.pushed /\ k.home = o.home /\ k.said = o.said
        /\ DOMAIN k = TaskFields
    BY <2>1 DEF Same, TaskFields
  <2>4. PrKnown(k, q)
    BY <2>1, <2>2, <2>3 DEF PrKnown
  <2> QED
    BY <1>1, <1>2, <1>3, <2>1, <2>3, <2>4, LateStep DEF After
<1>4. CASE /\ Step(t, "replies", "replying")
           /\ handler(t, Ask("reply_pr_review_comment", task[t].in.pr))
  <2>1. PICK r : r = Ask("reply_pr_review_comment", task[t].in.pr)
    OBVIOUS
  <2>2. r.op = "reply_pr_review_comment" /\ r.branch = Impl /\ handler(t, r)
    BY <1>4, <2>1, AskIs
  <2>3. /\ UNCHANGED <<refs, prs>>
        /\ \E q : CallMoves(t, q) /\ DOMAIN q = CallFields /\ CallOK(q) /\ q.req = r
    BY <2>2, HandlerMoves
  <2> QED
    BY <1>2, <1>3, <1>4, <2>3
<1>5. CASE Step(t, "replies", "summary") /\ UNCHANGED hvars
  <2>1. UNCHANGED <<refs, prs, calls, cut>>
    BY <1>2, <1>5 DEF hvars
  <2>2. PICK q : q = calls[t]
    OBVIOUS
  <2>3. CallMoves(t, q) /\ DOMAIN q = CallFields /\ CallOK(q)
    BY <2>1, <2>2 DEF IInv, CallsOK, CallMoves
  <2> QED
    BY <1>3, <1>5, <2>1, <2>3
<1> QED
  BY <1>4, <1>5 DEF post_inline_replies

\* An answer leaves the call as it is.
LEMMA AnsweredStep ==
  ASSUME IInv, NEW t \in Tasks, task[t].pc \in After, UNCHANGED <<hvars, vm, events, cut>>,
         NEW k, TaskMoves(t, k),
         DOMAIN k = TaskFields, k.pc \in After, PrKnown(k, calls[t]),
         k.before = task[t].before, k.pushed = task[t].pushed, k.home = task[t].home,
         k.said = task[t].said
  PROVE  IInv' /\ GithubStep
<1>1. UNCHANGED <<refs, prs, calls, cut>>
  BY DEF hvars
<1>2. PICK q : q = calls[t]
  OBVIOUS
<1>3. CallMoves(t, q) /\ DOMAIN q = CallFields /\ CallOK(q)
  BY <1>1, <1>2 DEF IInv, CallsOK, CallMoves
<1> QED
  BY <1>1, <1>2, <1>3, LateStep

LEMMA PrOpenedStep ==
  ASSUME IInv, NEW t \in Tasks, pr_opened(t)
  PROVE  IInv' /\ GithubStep
<1>1. PICK o, k, q : o = task[t] /\ k = task'[t] /\ q = calls[t]
  OBVIOUS
<1>2. q.pc = "answered" /\ UNCHANGED <<hvars, vm, events, left, cut>>
  BY <1>1 DEF pr_opened, At
<1>3. CASE q.answer.ok
  <2>1. PICK n : n = q.answer.pr
    OBVIOUS
  <2>2. o.pc = "opening" /\ task' = [task EXCEPT ![t].pc = "summary", ![t].pr = n]
    BY <1>1, <1>3, <2>1 DEF pr_opened
  <2>3. TaskInv(o, Checkout(t), q) /\ DOMAIN o = TaskFields /\ DOMAIN task = Tasks
    BY <1>1, <2>2, Known
  <2>4. n \in RunPrs
    BY <1>1, <1>2, <1>3, <2>1, <2>2, <2>3 DEF TaskInv, PrKnown, IInv, CallsOK, CallOK
  <2>5. /\ DOMAIN task' = Tasks /\ \A u \in Tasks \ {t} : task'[u] = task[u]
        /\ k = [o EXCEPT !.pc = "summary", !.pr = n]
    BY <1>1, <2>2, <2>3
  <2>6. /\ DOMAIN k = TaskFields /\ k.pc = "summary" /\ k.pr = n /\ k.in = o.in
        /\ k.before = o.before /\ k.pushed = o.pushed /\ k.home = o.home /\ k.said = o.said
        /\ k.alone = o.alone
    BY <2>3, <2>5 DEF TaskFields
  <2>7. TaskMoves(t, k)
    BY <1>1, <2>5, <2>6 DEF TaskMoves
  <2>8. PrKnown(k, q)
    BY <2>2, <2>3, <2>4, <2>6 DEF TaskInv, PrKnown
  <2> QED
    BY <1>1, <1>2, <2>2, <2>6, <2>7, <2>8, AnsweredStep DEF After
<1>4. CASE ~q.answer.ok
  <2>1. Raises(t, "opening")
    BY <1>1, <1>4 DEF pr_opened
  <2>2. "opening" \in After
    BY DEF After
  <2> QED
    BY <1>2, <2>1, <2>2, VmStays, RaisesStep
<1> QED
  BY <1>3, <1>4

LEMMA RepliedStep ==
  ASSUME IInv, NEW t \in Tasks, replied(t)
  PROVE  IInv' /\ GithubStep
<1>1. PICK o, k, q : o = task[t] /\ k = task'[t] /\ q = calls[t]
  OBVIOUS
<1>2. Step(t, "replying", "summary") /\ UNCHANGED <<hvars, vm, events, left, cut>>
  BY DEF replied
<1>3. TaskMoves(t, k) /\ o.pc = "replying" /\ k.pc = "summary" /\ Same(k, o, {"pc"})
  BY <1>1, <1>2, StepMoves
<1>4. PrKnown(o, q)
  BY <1>1, <1>3, Known DEF TaskInv
<1>5. /\ k.in = o.in /\ k.before = o.before /\ k.pushed = o.pushed /\ k.home = o.home /\ k.said = o.said
      /\ DOMAIN k = TaskFields
  BY <1>3 DEF Same, TaskFields
<1>6. PrKnown(k, q)
  BY <1>3, <1>4, <1>5 DEF PrKnown
<1> QED
  BY <1>1, <1>2, <1>3, <1>5, <1>6, AnsweredStep DEF After

\* The result names a PR of the branch, the one of the payload or the one opened.
LEMMA BuildResultStep ==
  ASSUME IInv, NEW t \in Tasks, build_result(t)
  PROVE  IInv' /\ GithubStep
<1>1. PICK o, k, q : o = task[t] /\ k = task'[t] /\ q = calls[t]
  OBVIOUS
<1>2. PICK n : n = IF o.in.mode = "revision" THEN o.in.pr ELSE o.pr
  OBVIOUS
<1>3. /\ o.pc = "summary" /\ UNCHANGED <<hvars, vm, events, left, cut>>
      /\ task' = [task EXCEPT ![t].pc = "emit", ![t].result = n]
  BY <1>1, <1>2 DEF build_result, Revising
<1>4. TaskInv(o, Checkout(t), q) /\ DOMAIN o = TaskFields /\ DOMAIN task = Tasks
  BY <1>1, <1>3, Known
<1>5. n \in RunPrs
  BY <1>2, <1>3, <1>4 DEF TaskInv, PrKnown
<1>6. /\ DOMAIN task' = Tasks /\ \A u \in Tasks \ {t} : task'[u] = task[u]
      /\ k = [o EXCEPT !.pc = "emit", !.result = n]
  BY <1>1, <1>3, <1>4
<1>7. /\ DOMAIN k = TaskFields /\ k.pc = "emit" /\ k.result = n /\ k.in = o.in
      /\ k.before = o.before /\ k.pushed = o.pushed /\ k.home = o.home /\ k.said = o.said
      /\ k.alone = o.alone
  BY <1>4, <1>6 DEF TaskFields
<1>8. TaskMoves(t, k)
  BY <1>1, <1>6, <1>7 DEF TaskMoves
<1>9. PrKnown(k, q)
  BY <1>3, <1>4, <1>5, <1>7 DEF TaskInv, PrKnown
<1> QED
  BY <1>1, <1>3, <1>7, <1>8, <1>9, AnsweredStep DEF After
-----------------------------------------------------------------------------
(* The Lambda's own steps, of a call whose task may have died.             *)

LEMMA CallStep ==
  ASSUME IInv, GithubStep, NEW t \in Tasks, UNCHANGED <<vm, task, events>>,
         NEW q, CallMoves(t, q), DOMAIN q = CallFields, CallOK(q)', q.req = calls[t].req
  PROVE  IInv'
<1>1. PICK k, v, p : k = task[t] /\ v = Checkout(t) /\ p = calls[t]
  OBVIOUS
<1>2. DOMAIN task = Tasks /\ TaskInv(k, v, p) /\ GithubOK
  BY <1>1 DEF IInv, TasksOK
<1>3. TaskInv(k, v, p)'
  BY <1>2, TaskInvStays
<1>4. TaskInv(k, v, q)'
  <2>1. PrKnown(k, q)'
    BY <1>1, <1>3 DEF TaskInv, PrKnown
  <2> QED
    BY <1>3, <2>1 DEF TaskInv
<1>5. TaskMoves(t, k) /\ VmMoves(t, v) /\ (IsActive(k) => Active(t))
  BY <1>1, <1>2, VmStays DEF TaskMoves, IsActive, Active
<1>6. ASSUME NEW e \in events', e.by = t
      PROVE  EventInv(e, k)'
  <2>1. EventInv(e, k)
    BY <1>1, <1>6 DEF IInv, EventsOK
  <2> QED
    BY <1>2, <2>1, EventInvStays DEF TaskInv
<1>7. \A e \in events' : IF e.by = t THEN EventInv(e, k)' ELSE e \in events
  BY <1>6
<1> QED
  BY <1>4, <1>5, <1>7, OneTaskStep

LEMMA ReturnMoves ==
  ASSUME IInv, NEW t \in Tasks, NEW a, Return(t, a),
         calls[t].req.op = "open_pr" /\ a.ok => a.pr \in RunPrs'
  PROVE  \E q : CallMoves(t, q) /\ DOMAIN q = CallFields /\ CallOK(q)' /\ q.req = calls[t].req
<1>1. PICK p : p = calls[t]
  OBVIOUS
<1>2. PICK q : q = [p EXCEPT !.pc = "answered", !.answer = a]
  OBVIOUS
<1>3. DOMAIN calls = Tasks /\ DOMAIN p = CallFields
  BY <1>1 DEF IInv, CallsOK
<1>4. DOMAIN q = CallFields /\ q.pc = "answered" /\ q.answer = a /\ q.req = p.req
  BY <1>2, <1>3 DEF CallFields
<1>5. CallMoves(t, q)
  BY <1>1, <1>2, <1>3 DEF Return, CallMoves
<1>6. CallOK(q)'
  BY <1>1, <1>4 DEF CallOK
<1> QED
  BY <1>1, <1>4, <1>5, <1>6

LEMMA OpenPrStep ==
  ASSUME IInv, NEW t \in Tasks, open_pr(t), UNCHANGED cut
  PROVE  /\ GithubStep
         /\ \E q : CallMoves(t, q) /\ DOMAIN q = CallFields /\ CallOK(q)' /\ q.req = calls[t].req
<1>1. PICK p : p = calls[t]
  OBVIOUS
<1>2. /\ p.pc = "post_pr" /\ p.req.op = "open_pr" /\ p.req.branch = Impl /\ UNCHANGED refs
      /\ DOMAIN calls = Tasks /\ DOMAIN p = CallFields
  BY <1>1 DEF open_pr, At, IInv, CallsOK, CallOK
<1>3. GithubOK
  BY DEF IInv
<1>5. CASE CanOpen(Target(t))
  <2>1. PICK n : n = Len(prs) + 1
    OBVIOUS
  <2>2. /\ prs' = Append(prs, [head |-> Impl, open |-> TRUE])
        /\ Applied(t, OpenPrAnswer(n, FALSE))
    BY <1>1, <1>2, <1>5, <2>1 DEF open_pr, Target
  <2>6. GithubStep /\ n \in RunPrs'
    BY <1>2, <1>3, <2>1, <2>2, PrOpens
  <2>7. PICK a : Return(t, a) /\ (a = OpenPrAnswer(n, FALSE) \/ a = Error("github_error"))
    BY <2>2 DEF Applied
  <2>8. a.ok => a.pr = n
    BY <2>7 DEF OpenPrAnswer, Error
  <2> QED
    BY <2>6, <2>7, <2>8, ReturnMoves
<1>6. CASE ~CanOpen(Target(t))
  <2>1. Go(t, "find_pr") /\ UNCHANGED prs
    BY <1>6 DEF open_pr
  <2>2. GithubStep
    BY <1>2, <1>3, <2>1, GithubUnchanged
  <2>3. PICK q : q = [p EXCEPT !.pc = "find_pr"]
    OBVIOUS
  <2>4. DOMAIN q = CallFields /\ q.pc = "find_pr" /\ q.req = p.req
    BY <1>2, <2>3 DEF CallFields
  <2>5. CallMoves(t, q)
    BY <1>1, <1>2, <2>1, <2>3 DEF Go, CallMoves
  <2>6. CallOK(q)'
    BY <1>2, <2>4 DEF CallOK
  <2> QED
    BY <1>1, <2>2, <2>4, <2>5, <2>6
<1> QED
  BY <1>5, <1>6

LEMMA FindOpenPrStep ==
  ASSUME IInv, NEW t \in Tasks, find_open_pr(t), UNCHANGED cut
  PROVE  /\ GithubStep
         /\ \E q : CallMoves(t, q) /\ DOMAIN q = CallFields /\ CallOK(q)' /\ q.req = calls[t].req
<1>1. UNCHANGED <<refs, prs, cut>>
  BY DEF find_open_pr, github
<1>2. GithubStep
  BY <1>1, GithubUnchanged DEF IInv
<1>3. \/ \E n \in RunPrs : Return(t, OpenPrAnswer(n, TRUE))
      \/ Return(t, Error("github_error"))
  BY DEF find_open_pr, OpenPrs, RunPrs, IInv, CallsOK, CallOK, At, Target
<1>4. PICK a : Return(t, a) /\ (a.ok => a.pr \in RunPrs)
  <2>1. ASSUME NEW n \in RunPrs, Return(t, OpenPrAnswer(n, TRUE))
        PROVE  \E a : Return(t, a) /\ (a.ok => a.pr \in RunPrs)
    <3>1. OpenPrAnswer(n, TRUE).pr = n
      BY DEF OpenPrAnswer
    <3> QED
      BY <2>1, <3>1
  <2>2. ~Error("github_error").ok
    BY DEF Error
  <2> QED
    BY <1>3, <2>1, <2>2
<1> QED
  BY <1>1, <1>2, <1>4, ReturnMoves DEF RunPrs

LEMMA RepoHelperStep ==
  ASSUME IInv, NEW t \in Tasks, repo_helper(t)
  PROVE  IInv' /\ GithubStep
<1>1. run_op(t) /\ UNCHANGED cut /\ UNCHANGED <<vm, task, events>>
  BY DEF repo_helper
<1>2. /\ calls[t].pc \in {"idle", "post_pr", "find_pr", "append", "answered"}
      /\ calls[t].pc = "append" => calls[t].req.op # "open_pr"
  BY DEF IInv, CallsOK, CallOK
<1>3. open_pr(t) \/ find_open_pr(t) \/ Post(t) \/ RequestFails(t)
  <2>1. ~Reading(t)
    BY <1>2 DEF Reading, Read, get_pr_archive_url, Tarball, get_pr_diff, DiffPage, get_check_state,
                ReadHead, CheckPage, Aggregate, At
  <2>2. Write(t) => open_pr(t) \/ find_open_pr(t) \/ Post(t)
    BY <1>2 DEF Write, create_branch_base, create_branch, create_branch_existing, commit_files,
                NewCommit, update_ref, At
  <2> QED
    BY <1>1, <2>1, <2>2 DEF run_op
<1>4. CASE Post(t)
  <2>1. UNCHANGED <<refs, prs, cut>> /\ calls[t].req.op # "open_pr"
    BY <1>1, <1>2, <1>4 DEF Post, At
  <2>2. \E a : Return(t, a)
    BY <1>4 DEF Post, Applied
  <2>3. GithubStep
    BY <2>1, GithubUnchanged DEF IInv
  <2> QED
    BY <1>1, <2>1, <2>2, <2>3, ReturnMoves, CallStep
<1>5. CASE RequestFails(t)
  <2>1. UNCHANGED <<refs, prs, cut>> /\ Return(t, Error("github_error"))
    BY <1>1, <1>5 DEF RequestFails, github
  <2>2. ~Error("github_error").ok
    BY DEF Error
  <2>3. GithubStep
    BY <2>1, GithubUnchanged DEF IInv
  <2> QED
    BY <1>1, <2>1, <2>2, <2>3, ReturnMoves, CallStep
<1>6. CASE open_pr(t) \/ find_open_pr(t)
  BY <1>1, <1>6, OpenPrStep, FindOpenPrStep, CallStep
<1> QED
  BY <1>3, <1>4, <1>5, <1>6
-----------------------------------------------------------------------------
(* The end of a task.                                                      *)

\* A task reports, or fails to, with the events that were there still true.
LEMMA EndStep ==
  ASSUME IInv, NEW t \in Tasks, task[t].pc \in {"emit", "raised"}, UNCHANGED <<hvars, vm, cut>>,
         NEW k, TaskMoves(t, k), DOMAIN k = TaskFields, k.pc \in {"raised", "done"},
         k.before = task[t].before, k.pushed = task[t].pushed, k.home = task[t].home,
         k.said = task[t].said,
         k.result = task[t].result,
         \A e \in events' : e \in events \/ (e.by = t /\ EventInv(e, k))
  PROVE  IInv' /\ GithubStep
<1>1. PICK o, v, q : o = task[t] /\ v = Checkout(t) /\ q = calls[t]
  OBVIOUS
<1>2. TaskInv(o, v, q) /\ k.in = o.in /\ k.alone = o.alone
  BY <1>1, Known DEF TaskMoves
<1>3. UNCHANGED <<refs, prs, calls, cut>>
  BY DEF hvars
<1>4. GithubStep
  BY <1>3, GithubUnchanged DEF IInv
<1>5. TaskInv(k, v, q)
  <2>1. TaskOK(k) /\ Gated(k)
    BY <1>1, <1>2 DEF TaskInv, TaskOK, Gated, Before, Working, After, Ended
  <2>2. PrKnown(k, q)
    BY <1>1, <1>2 DEF TaskInv, PrKnown
  <2>3. OnItsHead(k, v) /\ k.pc \notin After
    BY DEF OnItsHead, Working, After
  <2> QED
    BY <2>1, <2>2, <2>3 DEF TaskInv
<1>6. TaskInv(k, v, q)'
  BY <1>4, <1>5, TaskInvStays DEF IInv
<1>7. ASSUME NEW e \in events', e.by = t
      PROVE  EventInv(e, k)'
  <2>1. ASSUME e \in events
        PROVE  EventInv(e, k)
    <3>1. EventInv(e, o)
      BY <1>1, <1>7, <2>1 DEF IInv, EventsOK
    <3>2. k.pc \in Ended
      BY DEF Ended
    <3> QED
      BY <1>1, <1>2, <3>1, <3>2 DEF EventInv, Ended, HasPushed
  <2>2. EventInv(e, k)
    BY <2>1
  <2> QED
    BY <1>4, <1>5, <2>2, EventInvStays DEF TaskInv, IInv
<1>8. \A e \in events' : IF e.by = t THEN EventInv(e, k)' ELSE e \in events
  BY <1>7
<1>9. CallMoves(t, q) /\ DOMAIN q = CallFields /\ CallOK(q)'
  BY <1>1, <1>3, <1>4, CallsStay
<1>10. VmMoves(t, v) /\ Active(t)
  BY <1>1, VmStays DEF Active
<1> QED
  BY <1>4, <1>6, <1>8, <1>9, <1>10, OneTaskStep

\* What stays of a task when its thread ends, and when it raises.
Kept(t, k) ==
  /\ TaskMoves(t, k) /\ DOMAIN k = TaskFields
  /\ k.before = task[t].before /\ k.pushed = task[t].pushed /\ k.home = task[t].home
  /\ k.said = task[t].said
  /\ k.result = task[t].result

LEMMA EndsMoves ==
  ASSUME IInv, NEW t \in Tasks, task[t].pc # "idle", Ends(t)
  PROVE  Kept(t, task'[t]) /\ task'[t].pc = "done"
<1>1. PICK o, k : o = task[t] /\ k = task'[t]
  OBVIOUS
<1>2. DOMAIN o = TaskFields /\ DOMAIN task = Tasks
  BY <1>1, Known
<1>3. /\ DOMAIN task' = Tasks /\ \A u \in Tasks \ {t} : task'[u] = task[u]
      /\ k = [o EXCEPT !.pc = "done", !.turns = 0, !.report = "none", !.blocked_stop = FALSE,
                       !.pr = 0]
  BY <1>1, <1>2 DEF Ends
<1>4. /\ DOMAIN k = TaskFields /\ k.pc = "done"
      /\ k.before = o.before /\ k.pushed = o.pushed /\ k.home = o.home /\ k.said = o.said
      /\ k.result = o.result
      /\ k.in = o.in /\ k.alone = o.alone
  BY <1>2, <1>3 DEF TaskFields
<1> QED
  BY <1>1, <1>3, <1>4 DEF Kept, TaskMoves

LEMMA RaisesMoves ==
  ASSUME IInv, NEW t \in Tasks, NEW from, from # "idle", Raises(t, from)
  PROVE  Kept(t, task'[t]) /\ task'[t].pc = "raised" /\ task[t].pc = from
<1>1. PICK o, k : o = task[t] /\ k = task'[t]
  OBVIOUS
<1>2. TaskMoves(t, k) /\ o.pc = from /\ k.pc = "raised" /\ Same(k, o, {"pc"})
  BY <1>1, StepMoves DEF Raises
<1>3. /\ DOMAIN k = TaskFields
      /\ k.before = o.before /\ k.pushed = o.pushed /\ k.home = o.home /\ k.said = o.said
      /\ k.result = o.result
  BY <1>2 DEF Same, TaskFields
<1> QED
  BY <1>1, <1>2, <1>3 DEF Kept

LEMMA EmitReadyStep ==
  ASSUME IInv, NEW t \in Tasks, emit_ready(t)
  PROVE  IInv' /\ GithubStep
<1>1. PICK o, k : o = task[t] /\ k = task'[t]
  OBVIOUS
<1>2. o.pc = "emit" /\ UNCHANGED <<hvars, vm, left, cut>>
  BY <1>1 DEF emit_ready
<1>3. TaskInv(o, Checkout(t), calls[t])
  BY <1>1, <1>2, Known
<1>4. Ends(t) \/ Raises(t, "emit")
  BY DEF emit_ready
<1>5. Kept(t, k) /\ k.pc \in {"raised", "done"}
  BY <1>1, <1>2, <1>4, EndsMoves, RaisesMoves
<1>6. PICK e : e = Event(t, ReadyType(t), o.result)
  OBVIOUS
<1>7. events' \subseteq events \cup {e}
  BY <1>1, <1>6 DEF emit_ready
<1>8. e.by = t /\ EventInv(e, k)
  <2>1. e.by = t /\ ReadyEvent(e) /\ e.pr = o.result
    BY <1>6 DEF Event, ReadyType, ReadyEvent
  <2>2. o.said # "blocked" /\ o.result \in RunPrs /\ (o.alone /\ o.home => HasPushed(o))
    BY <1>2, <1>3 DEF TaskInv, Gated, PrKnown, After
  <2>3. /\ k.said = o.said /\ k.alone = o.alone /\ k.before = o.before /\ k.pushed = o.pushed /\ k.home = o.home
        /\ k.pc \in Ended
    BY <1>1, <1>5 DEF Kept, TaskMoves, Ended
  <2> QED
    BY <2>1, <2>2, <2>3 DEF EventInv, HasPushed
<1> QED
  BY <1>1, <1>2, <1>5, <1>7, <1>8, EndStep DEF Kept

LEMMA PublishRunFailedStep ==
  ASSUME IInv, NEW t \in Tasks, publish_run_failed(t)
  PROVE  IInv' /\ GithubStep
<1>1. PICK o, k : o = task[t] /\ k = task'[t]
  OBVIOUS
<1>2. o.pc = "raised" /\ Ends(t) /\ UNCHANGED <<hvars, vm, left, cut>>
  BY <1>1 DEF publish_run_failed
<1>3. Kept(t, k) /\ k.pc = "done"
  BY <1>1, <1>2, EndsMoves
<1>4. PICK e : e = Event(t, "RUN.FAILED", failed_pr(t))
  OBVIOUS
<1>5. events' \subseteq events \cup {e}
  BY <1>4 DEF publish_run_failed
<1>6. e.by = t /\ EventInv(e, k)
  BY <1>1, <1>3, <1>4 DEF Event, EventInv, Ended, failed_pr, Kept
<1> QED
  BY <1>1, <1>2, <1>3, <1>5, <1>6, EndStep DEF Kept

LEMMA TaskRaisesStep ==
  ASSUME IInv, NEW t \in Tasks, TaskRaises(t)
  PROVE  IInv' /\ GithubStep
<1>1. PICK from : from = task[t].pc
  OBVIOUS
<1>2. /\ from \in Before \cup Working \cup {"push"} \cup After /\ from # "idle"
      /\ Raises(t, from) /\ UNCHANGED <<hvars, vm, events, left, cut>>
  BY <1>1 DEF TaskRaises, External, Before, Working, After
<1> QED
  BY <1>2, VmStays, RaisesStep

\* Any step of a task.
LEMMA RunImplementerStep ==
  ASSUME IInv, NEW t \in Tasks, run_implementer(t)
  PROVE  IInv' /\ GithubStep
  BY CloneStep, CreateBranchStep, CheckoutImplBranchStep, GatherInputsStep, AgentActs,
     GitStep, GitPushStep, CallRepoHelperStep, CommitChangesStep, PushBranchStep, OpenImplPrStep,
     PostInlineRepliesStep, RepoHelperStep, PrOpenedStep, RepliedStep, BuildResultStep,
     EmitReadyStep, PublishRunFailedStep, TaskRaisesStep DEF run_implementer
-----------------------------------------------------------------------------
(* The steps of several tasks at once, and of none.                        *)

\* Pushes of others leave everything as true as it was.
LEMMA StaysStep ==
  ASSUME IInv, GithubStep, UNCHANGED <<calls, vm, task, events>>
  PROVE  IInv'
<1>1. GithubOK /\ CallsOK /\ VmsOK /\ TasksOK /\ EventsOK /\ AloneOK
  BY DEF IInv
<1>2. CallsOK'
  BY <1>1, CallOKStays DEF CallsOK
<1>3. TasksOK'
  <2>1. ASSUME NEW u \in Tasks
        PROVE  TaskInv(task[u], Checkout(u), calls[u])'
    <3>1. PICK k, v, q : k = task[u] /\ v = Checkout(u) /\ q = calls[u]
      OBVIOUS
    <3>2. TaskInv(k, v, q)'
      BY <1>1, <3>1, TaskInvStays DEF TasksOK
    <3>3. k = task[u]' /\ v = Checkout(u)' /\ q = calls[u]'
      BY <3>1 DEF Checkout
    <3> QED
      BY <3>2, <3>3
  <2> QED
    BY <1>1, <2>1 DEF TasksOK
<1>4. EventsOK'
  <2>1. ASSUME NEW e \in events'
        PROVE  e.by \in Tasks /\ EventInv(e, task[e.by])'
    <3>1. PICK k : k = task[e.by] /\ e.by \in Tasks /\ EventInv(e, k)
      BY <1>1, <2>1 DEF EventsOK
    <3>2. TaskOK(k)
      BY <1>1, <3>1 DEF TasksOK, TaskInv
    <3>3. EventInv(e, k)'
      BY <1>1, <3>1, <3>2, EventInvStays
    <3> QED
      BY <3>1, <3>3
  <2> QED
    BY <2>1 DEF EventsOK
<1> QED
  BY <1>1, <1>2, <1>3, <1>4 DEF IInv, GithubStep, VmsOK, AloneOK, Active

\* Others only add to the branch.
LEMMA OthersPushStep ==
  ASSUME IInv, OthersPush
  PROVE  IInv' /\ GithubStep
<1>1. PICK p \in Paths, x \in Contents : Push(Impl, p, x) /\ Impl \in DOMAIN refs
  BY DEF OthersPush
<1>2. UNCHANGED <<calls, vm, task, events, cut>>
  BY <1>1 DEF Push, OthersPush
<1>3. GithubStep
  BY <1>1, <1>2, PushGrows
<1> QED
  BY <1>2, <1>3, StaysStep

\* A task dies with its checkout: what it had pushed and said stays.
LEMMA VmEndsStep ==
  ASSUME IInv, NEW s \in Sessions, VmEnds(s)
  PROVE  IInv' /\ GithubStep
<1>1. /\ vm' = [vm EXCEPT ![s] = NoVm] /\ UNCHANGED <<hvars, events, cut>>
      /\ task' = [u \in Tasks |-> IF Active(u) /\ task[u].in.session = s
                                    THEN [task[u] EXCEPT !.pc = "dead"] ELSE task[u]]
  BY DEF VmEnds
<1>2. GithubOK /\ CallsOK /\ VmsOK /\ TasksOK /\ EventsOK /\ AloneOK
  BY DEF IInv
<1>3. UNCHANGED <<refs, prs, calls, cut>> /\ GithubStep
  BY <1>1, <1>2, GithubUnchanged DEF hvars
<1>4. VmsOK'
  <2>1. VmOK(NoVm)
    BY DEF VmOK, NoVm, VmFields, NoTree, Trees
  <2> QED
    BY <1>1, <1>2, <2>1 DEF VmsOK
<1>5. ASSUME NEW u \in Tasks
      PROVE  /\ task'[u].in = task[u].in /\ task'[u].alone = task[u].alone
             /\ task'[u].before = task[u].before /\ task'[u].pushed = task[u].pushed
             /\ task'[u].home = task[u].home
             /\ task'[u].said = task[u].said /\ task'[u].result = task[u].result
             /\ \/ task'[u] = task[u] /\ (Active(u) => task[u].in.session # s)
                \/ Active(u) /\ task'[u].pc = "dead" /\ DOMAIN task'[u] = TaskFields
  <2>1. PICK o, k : o = task[u] /\ k = task'[u]
    OBVIOUS
  <2>2. CASE Active(u) /\ o.in.session = s
    <3>1. k = [o EXCEPT !.pc = "dead"]
      BY <1>1, <2>1, <2>2
    <3>2. DOMAIN o = TaskFields
      BY <1>2, <2>1 DEF TasksOK, TaskInv, TaskOK
    <3> QED
      BY <2>1, <2>2, <3>1, <3>2 DEF TaskFields
  <2>3. CASE ~(Active(u) /\ o.in.session = s)
    BY <1>1, <2>1, <2>3
  <2> QED
    BY <2>2, <2>3
<1>6. ASSUME NEW u \in Tasks
      PROVE  TaskInv(task[u], Checkout(u), calls[u])'
  <2>1. PICK o, k, v, w, q : /\ o = task[u] /\ k = task'[u] /\ q = calls[u]
                             /\ v = Checkout(u) /\ w = Checkout(u)'
    OBVIOUS
  <2>2. TaskInv(o, v, q)
    BY <1>2, <2>1 DEF TasksOK
  <2>3. CASE k = o /\ (IsActive(o) => o.in.session # s)
    <3>1. IsActive(o) => o.in.session \in Sessions
      BY <2>2 DEF TaskInv, TaskOK, IsActive, ImplementerInput
    <3>2. IsActive(o) => w = v
      BY <1>1, <1>2, <2>1, <2>3, <3>1 DEF Checkout, VmsOK
    <3>3. OnItsHead(o, w)
      BY <2>2, <3>2 DEF TaskInv, OnItsHead, IsActive, Working
    <3>4. TaskInv(o, w, q)
      BY <2>2, <3>3 DEF TaskInv
    <3>5. TaskInv(k, w, q)'
      BY <1>2, <1>3, <2>3, <3>4, TaskInvStays
    <3> QED
      BY <1>3, <2>1, <3>5
  <2>4. CASE IsActive(o) /\ k.pc = "dead" /\ DOMAIN k = TaskFields
    <3>1. /\ k.in = o.in /\ k.before = o.before /\ k.pushed = o.pushed /\ k.home = o.home
          /\ k.said = o.said /\ k.result = o.result
      BY <1>5, <2>1
    <3>2. TaskOK(k) /\ Gated(k)
      BY <2>2, <2>4, <3>1 DEF TaskInv, TaskOK, Gated, IsActive, Before, Working, After, Ended
    <3>3. PrKnown(k, q)
      BY <2>2, <2>4, <3>1 DEF TaskInv, PrKnown, IsActive
    <3>4. OnItsHead(k, w) /\ k.pc \notin After
      BY <2>4 DEF OnItsHead, Working, After
    <3>5. TaskInv(k, w, q)
      BY <3>2, <3>3, <3>4 DEF TaskInv
    <3>6. TaskInv(k, w, q)'
      BY <1>2, <1>3, <3>5, TaskInvStays
    <3> QED
      BY <1>3, <2>1, <3>6
  <2> QED
    BY <1>5, <2>1, <2>3, <2>4 DEF Active, IsActive
<1>7. TasksOK'
  BY <1>1, <1>6 DEF TasksOK
<1>8. EventsOK'
  <2>1. ASSUME NEW e \in events'
        PROVE  e.by \in Tasks /\ EventInv(e, task[e.by])'
    <3>1. PICK o, k : /\ o = task[e.by] /\ k = task'[e.by] /\ e \in events /\ e.by \in Tasks
                      /\ EventInv(e, o)
      BY <1>1, <1>2, <2>1 DEF EventsOK
    <3>2. /\ k.alone = o.alone /\ k.before = o.before /\ k.pushed = o.pushed /\ k.home = o.home
          /\ k.said = o.said /\ k.result = o.result
          /\ k = o \/ (IsActive(o) /\ k.pc = "dead")
      BY <1>5, <3>1 DEF Active, IsActive
    <3>3. EventInv(e, k)
      BY <3>1, <3>2 DEF EventInv, IsActive, Ended, HasPushed
    <3>4. TaskOK(k)
      BY <1>2, <1>5, <3>1, <1>7 DEF TasksOK, TaskInv, TaskOK
    <3>5. EventInv(e, k)'
      BY <1>2, <1>3, <3>3, <3>4, EventInvStays
    <3> QED
      BY <3>1, <3>5
  <2> QED
    BY <2>1 DEF EventsOK
<1>9. AloneOK'
  <2>1. \A u \in Tasks : Active(u)' => Active(u)
    BY <1>5 DEF Active
  <2> QED
    BY <1>2, <1>5, <2>1 DEF AloneOK
<1>10. CallsOK'
  BY <1>2, <1>3, CallOKStays DEF CallsOK
<1> QED
  BY <1>3, <1>4, <1>7, <1>8, <1>9, <1>10 DEF IInv, GithubStep
\* Two tasks that meet in a checkout both stop counting as alone.
LEMMA InvokeStep ==
  ASSUME IInv, NEW t \in Tasks, invoke(t)
  PROVE  IInv' /\ GithubStep
<1>1. PICK p \in Payloads[t] :
        /\ p.pr \in RunPrs \cup {0} /\ (p.mode = "revision" <=> p.pr # 0)
        /\ task' = [u \in Tasks |->
             IF u = t THEN [NoTask EXCEPT !.pc = "clone", !.in = p,
                                          !.alone = SameVm(t, p.session) = {}]
             ELSE IF u \in SameVm(t, p.session) THEN [task[u] EXCEPT !.alone = FALSE] ELSE task[u]]
  BY DEF invoke
<1>2. /\ task[t].pc = "idle" /\ UNCHANGED <<hvars, vm, events, left, cut>>
      /\ p \in ImplementerInput
  BY <1>1, ImplementerAssumption DEF invoke
<1>3. GithubOK /\ CallsOK /\ VmsOK /\ TasksOK /\ EventsOK /\ AloneOK
  BY DEF IInv
<1>4. UNCHANGED <<refs, prs, calls, cut, vm, events>> /\ GithubStep
  BY <1>2, <1>3, GithubUnchanged DEF hvars
<1>5. PICK alone : alone = (SameVm(t, p.session) = {})
  OBVIOUS
<1>6. PICK new : new = [NoTask EXCEPT !.pc = "clone", !.in = p, !.alone = alone]
  OBVIOUS
<1>7. task'[t] = new /\ DOMAIN task' = Tasks
  BY <1>1, <1>5, <1>6
<1>8. /\ DOMAIN new = TaskFields /\ new.pc = "clone" /\ new.in = p /\ new.alone = alone
      /\ new.before = <<>> /\ new.pushed = <<>> /\ new.said = "none" /\ new.report = "none"
      /\ new.result = 0
  BY <1>6 DEF NoTask, TaskFields
<1>9. ASSUME NEW u \in Tasks \ {t}
      PROVE  /\ DOMAIN task[u] = TaskFields
             /\ DOMAIN task'[u] = TaskFields
             /\ \A f \in TaskFields \ {"alone"} : task'[u][f] = task[u][f]
             /\ task'[u].alone => task[u].alone /\ u \notin SameVm(t, p.session)
  <2>1. PICK o, k : o = task[u] /\ k = task'[u]
    OBVIOUS
  <2>2. DOMAIN o = TaskFields
    BY <1>3, <2>1 DEF TasksOK, TaskInv, TaskOK
  <2>3. CASE u \in SameVm(t, p.session)
    <3>1. k = [o EXCEPT !.alone = FALSE]
      BY <1>1, <2>1, <2>3
    <3> QED
      BY <2>1, <2>2, <3>1 DEF TaskFields
  <2>4. CASE u \notin SameVm(t, p.session)
    BY <1>1, <2>1, <2>2, <2>4
  <2> QED
    BY <2>3, <2>4
<1>10. ASSUME NEW u \in Tasks
       PROVE  TaskInv(task[u], Checkout(u), calls[u])'
  <2>1. PICK o, k, v, q, w : /\ o = task[u] /\ k = task'[u] /\ q = calls[u] /\ v = Checkout(u)
                             /\ w = Checkout(u)'
    OBVIOUS
  <2>2. TaskInv(k, w, q)
    <3>1. CASE u = t
      <4>1. k = new
        BY <1>7, <2>1, <3>1
      <4>2. TaskOK(new) /\ Gated(new)
        <5>1. <<>> \in Seq(Trees)
          OBVIOUS
        <5> QED
          BY <1>2, <1>8, <5>1 DEF TaskOK, Gated, Before, Working, After
      <4>3. PrKnown(new, q) /\ OnItsHead(new, w)
        BY <1>1, <1>8 DEF PrKnown, OnItsHead, Working
      <4> QED
        BY <1>8, <4>1, <4>2, <4>3 DEF TaskInv, After
    <3>2. CASE u # t
      <4>1. /\ k.pc = o.pc /\ k.in = o.in /\ k.before = o.before /\ k.pushed = o.pushed /\ k.home = o.home
            /\ k.said = o.said /\ k.report = o.report /\ k.result = o.result /\ k.pr = o.pr
            /\ DOMAIN k = TaskFields /\ (k.alone => o.alone)
        BY <1>9, <2>1, <3>2 DEF TaskFields
      <4>2. TaskInv(o, v, q)
        BY <1>3, <2>1 DEF TasksOK
      <4>3. w = v
        BY <1>4, <2>1, <4>1 DEF Checkout
      <4>4. TaskOK(k) /\ Gated(k) /\ PrKnown(k, q)
        BY <4>1, <4>2 DEF TaskInv, TaskOK, Gated, PrKnown
      <4>5. OnItsHead(k, w)
        BY <4>1, <4>2, <4>3 DEF TaskInv, OnItsHead
      <4> QED
        BY <4>1, <4>2, <4>4, <4>5 DEF TaskInv, HasPushed
    <3> QED
      BY <3>1, <3>2
  <2>3. TaskInv(k, w, q)'
    BY <1>3, <1>4, <2>2, TaskInvStays
  <2> QED
    BY <1>4, <2>1, <2>3
<1>11. TasksOK'
  BY <1>7, <1>10 DEF TasksOK
<1>12. EventsOK'
  <2>1. ASSUME NEW e \in events'
        PROVE  e.by \in Tasks /\ EventInv(e, task[e.by])'
    <3>1. PICK o, k : /\ o = task[e.by] /\ k = task'[e.by] /\ e \in events /\ e.by \in Tasks
                      /\ EventInv(e, o)
      BY <1>3, <1>4, <2>1 DEF EventsOK
    <3>2. e.by # t
      BY <1>2, <3>1 DEF EventInv, Ended
    <3>3. /\ k.pc = o.pc /\ k.before = o.before /\ k.pushed = o.pushed /\ k.home = o.home
          /\ k.said = o.said /\ k.result = o.result /\ (k.alone => o.alone)
      BY <1>9, <3>1, <3>2 DEF TaskFields
    <3>4. EventInv(e, k)
      BY <3>1, <3>3 DEF EventInv, HasPushed
    <3>5. TaskOK(k)
      BY <1>11, <3>1 DEF TasksOK, TaskInv, TaskOK
    <3>6. EventInv(e, k)'
      BY <1>3, <1>4, <3>4, <3>5, EventInvStays
    <3> QED
      BY <3>1, <3>6
  <2> QED
    BY <2>1 DEF EventsOK
<1>13. AloneOK'
  <2>1. ASSUME NEW u \in Tasks, NEW x \in Tasks, u # x, Active(u)', Active(x)',
               task'[u].in.session = task'[x].in.session
        PROVE  ~task'[u].alone
    <3>1. \A y \in Tasks \ {t} : /\ Active(y) <=> Active(y)'
                                 /\ task'[y].in = task[y].in
      BY <1>9 DEF Active, TaskFields
    <3>2. CASE u = t
      <4>1. x \in SameVm(t, p.session)
        BY <1>7, <1>8, <2>1, <3>1, <3>2 DEF SameVm
      <4> QED
        BY <1>5, <1>7, <1>8, <3>2, <4>1
    <3>3. CASE x = t
      <4>1. u \in SameVm(t, p.session)
        BY <1>7, <1>8, <2>1, <3>1, <3>3 DEF SameVm
      <4> QED
        BY <1>9, <2>1, <3>3, <4>1
    <3>4. CASE u # t /\ x # t
      BY <1>3, <1>9, <2>1, <3>1, <3>4 DEF AloneOK
    <3> QED
      BY <3>2, <3>3, <3>4
  <2> QED
    BY <2>1 DEF AloneOK
<1>14. CallsOK'
  BY <1>3, <1>4, CallOKStays DEF CallsOK
<1> QED
  BY <1>3, <1>4, <1>11, <1>12, <1>13, <1>14 DEF IInv, GithubStep, VmsOK

-----------------------------------------------------------------------------
(* The theorems.                                                           *)

LEMMA InvInit ==
  ASSUME Init
  PROVE  IInv
<1>1. PICK repo \in Repos : HInit(repo)
  BY DEF Init
<1>2. IsRepo(repo)
  BY ImplementerAssumption
<1>3. GithubOK
  <2>1. prs \in Seq([head : DOMAIN repo.refs, open : BOOLEAN]) /\ DOMAIN repo.refs \subseteq Branches
    BY <1>1, <1>2 DEF HInit, IsRepo, RefsOK
  <2>2. [head : DOMAIN repo.refs, open : BOOLEAN] \subseteq [head : Branches, open : BOOLEAN]
    BY <2>1
  <2>3. prs \in Seq([head : Branches, open : BOOLEAN])
    <3>1. PICK s, S, T : /\ s = prs /\ S = [head : DOMAIN repo.refs, open : BOOLEAN]
                         /\ T = [head : Branches, open : BOOLEAN]
      OBVIOUS
    <3>2. s \in Seq(S) /\ S \subseteq T
      BY <2>1, <2>2, <3>1
    <3>3. s \in Seq(T)
      BY <3>2, SeqMonotonic
    <3> QED
      BY <3>1, <3>3
  <2> QED
    BY <1>1, <1>2, <2>3 DEF Init, HInit, IsRepo, GithubOK
<1>4. CallsOK
  <2>1. DOMAIN NoCall = CallFields /\ NoCall.pc = "idle"
    BY DEF NoCall, CallFields
  <2>2. CallOK(NoCall)
    BY <2>1 DEF CallOK
  <2> QED
    BY <1>1, <2>1, <2>2 DEF HInit, CallsOK, Tasks
<1>5. VmsOK
  <2>1. /\ DOMAIN NoVm = VmFields /\ NoVm.detached = <<>> /\ NoVm.local = <<>>
        /\ NoVm.main = <<>> /\ NoVm.work = NoTree
    BY DEF NoVm, VmFields
  <2>2. NoTree \in Trees /\ <<>> \in Seq(Trees)
    BY DEF NoTree, Trees
  <2>3. VmOK(NoVm)
    BY <2>1, <2>2 DEF VmOK
  <2> QED
    BY <2>3 DEF Init, VmsOK
<1>6. /\ DOMAIN task = Tasks
      /\ \A u \in Tasks : task[u] = NoTask
  BY DEF Init
<1>7. /\ DOMAIN NoTask = TaskFields /\ NoTask.pc = "idle" /\ NoTask.said = "none"
      /\ NoTask.report = "none" /\ NoTask.before = <<>> /\ NoTask.pushed = <<>>
      /\ NoTask.result = 0
  BY DEF NoTask, TaskFields
<1>8. TasksOK
  <2>1. <<>> \in Seq(Trees)
    OBVIOUS
  <2>2. TaskOK(NoTask) /\ Gated(NoTask)
    BY <1>7, <2>1 DEF TaskOK, Gated, Before, Working, After
  <2>3. \A v, q : PrKnown(NoTask, q) /\ OnItsHead(NoTask, v)
    BY <1>7 DEF PrKnown, OnItsHead, Working
  <2> QED
    BY <1>6, <1>7, <2>2, <2>3 DEF TasksOK, TaskInv, After
<1>9. EventsOK /\ AloneOK
  BY <1>6, <1>7 DEF Init, EventsOK, AloneOK, Active
<1> QED
  BY <1>3, <1>4, <1>5, <1>8, <1>9 DEF IInv

\* What any step leaves true, and that branches only grow in it.
LEMMA AnyStep ==
  ASSUME IInv, [Next]_vars
  PROVE  IInv' /\ GithubStep
<1>1. CASE UNCHANGED vars
  <2>1. UNCHANGED <<refs, prs, calls, cut, vm, task, events>>
    BY <1>1 DEF vars, hvars
  <2>2. GithubStep
    BY <2>1, GithubUnchanged DEF IInv
  <2> QED
    BY <2>1, <2>2, StaysStep
<1>2. CASE Next
  BY <1>2, InvokeStep, RunImplementerStep, VmEndsStep, OthersPushStep DEF Next
<1> QED
  BY <1>1, <1>2

\* The inductive invariant holds: tasks, checkouts, calls and events agree
\* whatever is invoked, shared, lost or ended.
THEOREM InvariantHolds == Spec => []IInv
<1>1. Init => IInv
  BY InvInit
<1>2. IInv /\ [Next]_vars => IInv'
  BY AnyStep
<1> QED
  BY <1>1, <1>2, PTL DEF Spec

\* A ready event names a PR of the run's branch, whatever the agent's git did; of
\* a task alone in its checkout whose agent stayed on the branch it means something
\* new, put on that branch (client.py, after the agent).
THEOREM ReadyMeansPushed == Spec => []ReadyIsPushed
<1>1. IInv => ReadyIsPushed
  <2>1. ASSUME IInv, NEW e \in events, ReadyEvent(e)
        PROVE  /\ e.pr # 0 /\ prs[e.pr].head = Impl
               /\ task[e.by].alone /\ task[e.by].home => MadeAndPushed(e.by)
    <3>1. e.pr \in RunPrs /\ (task[e.by].alone /\ task[e.by].home => HasPushed(task[e.by]))
      BY <2>1 DEF IInv, EventsOK, EventInv, ReadyEvent
    <3>2. prs \in Seq([head : Branches, open : BOOLEAN])
      BY <2>1 DEF IInv, GithubOK
    <3>3. e.pr \in 1..Len(prs) /\ prs[e.pr].head = Impl
      BY <3>1, <3>2 DEF RunPrs
    <3>4. e.pr # 0
      BY <3>2, <3>3
    <3> QED
      BY <3>1, <3>3, <3>4 DEF HasPushed, MadeAndPushed
  <2> QED
    BY <2>1 DEF ReadyIsPushed
<1> QED
  BY <1>1, InvariantHolds, PTL

\* For an agent that ends up blocked the wrapper makes neither a push, a result nor
\* a ready event (raise_if_blocked comes before the commit), whatever the agent pushed.
THEOREM BlockedStopsThere == Spec => []BlockedIsNeverReady
<1>1. IInv => BlockedIsNeverReady
  <2>1. ASSUME IInv, NEW t \in Tasks, task[t].said = "blocked"
        PROVE  /\ task[t].pushed = <<>> /\ task[t].result = 0
               /\ \A e \in events : e.by = t => e.type = "RUN.FAILED"
    <3>1. Gated(task[t])
      BY <2>1 DEF IInv, TasksOK, TaskInv
    <3>2. ASSUME NEW e \in events, e.by = t
          PROVE  e.type = "RUN.FAILED"
      BY <2>1, <3>2 DEF IInv, EventsOK, EventInv
    <3> QED
      BY <2>1, <3>1, <3>2 DEF Gated
  <2> QED
    BY <2>1 DEF BlockedIsNeverReady
<1> QED
  BY <1>1, InvariantHolds, PTL

\* A failure published after the PR was made names that PR (the except block's
\* use of the result).
THEOREM FailuresNameTheirPr == Spec => []FailureNamesPr
<1>1. IInv => FailureNamesPr
  BY DEF IInv, EventsOK, EventInv, ReadyEvent, FailureNamesPr
<1> QED
  BY <1>1, InvariantHolds, PTL

\* No step but an agent's own push takes a commit off a branch, and that one only
\* of the run's: the wrapper's push is a plain one, and the Lambda writes no ref
\* for a task.
THEOREM BranchesGrow == Spec => BranchesOnlyGrow
<1>1. IInv /\ [Next]_vars =>
        [\A b \in DOMAIN refs :
           /\ b \in DOMAIN refs'
           /\ Ancestor(refs[b], refs'[b]) \/ (b = Impl /\ \E t \in Tasks : git_push(t))]_refs
  BY AnyStep DEF GithubStep, Grow, AgentPushes
<1> QED
  BY <1>1, InvariantHolds, PTL DEF Spec, BranchesOnlyGrow
=============================================================================
