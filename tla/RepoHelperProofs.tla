-------------------------- MODULE RepoHelperProofs ---------------------------
(***************************************************************************)
(* Safety of RepoHelperCalls for any callers, requests, repositories and   *)
(* pages, and for whatever others do to the repository in between.         *)
(***************************************************************************)
EXTENDS RepoHelperCalls, FiniteSetTheorems, SequenceTheorems, TLAPS

-----------------------------------------------------------------------------
(* Branches are sequences of commits under the prefix order.               *)

LEMMA AncestorReflexive ==
  ASSUME NEW S, NEW s \in Seq(S)
  PROVE  Ancestor(s, s)
  BY DEF Ancestor

LEMMA AncestorTransitive ==
  ASSUME NEW S, NEW s \in Seq(S), NEW t \in Seq(S), NEW u \in Seq(S),
         Ancestor(s, t), Ancestor(t, u)
  PROVE  Ancestor(s, u)
  BY DEF Ancestor

LEMMA AncestorAntisymmetric ==
  ASSUME NEW S, NEW s \in Seq(S), NEW t \in Seq(S), Ancestor(s, t), Ancestor(t, s)
  PROVE  s = t
  BY DEF Ancestor

LEMMA AncestorAppend ==
  ASSUME NEW S, NEW s \in Seq(S), NEW e \in S
  PROVE  Append(s, e) \in Seq(S) /\ Ancestor(s, Append(s, e))
  BY DEF Ancestor

\* There is nothing between a commit and its parent.
LEMMA AncestorBetween ==
  ASSUME NEW S, NEW s \in Seq(S), NEW t \in Seq(S), NEW e \in S,
         Ancestor(s, t), Ancestor(t, Append(s, e)), t # Append(s, e)
  PROVE  t = s
<1>1. Len(t) \in {Len(s), Len(s) + 1}
  BY DEF Ancestor
<1>2. CASE Len(t) = Len(s)
  BY <1>2 DEF Ancestor
<1>3. CASE Len(t) = Len(s) + 1
  BY <1>3 DEF Ancestor
<1> QED
  BY <1>1, <1>2, <1>3

LEMMA TreeOfType ==
  ASSUME NEW s \in Seq(Trees)
  PROVE  TreeOf(s) \in Trees
<1>1. NoTree \in Trees
  BY DEF NoTree, Trees
<1> QED
  BY <1>1 DEF TreeOf

LEMMA TreeOfAppend ==
  ASSUME NEW s \in Seq(Trees), NEW e \in Trees
  PROVE  TreeOf(Append(s, e)) = e
  BY DEF TreeOf

\* What a call relies on of its request.
RequestOK(r) == /\ r.branch \in Branches /\ r.pr \in Nat
                /\ \E P \in SUBSET Paths : r.files \in [P -> Contents]

LEMMA UpsertType ==
  ASSUME NEW tree \in Trees, NEW r, RequestOK(r)
  PROVE  Upsert(tree, r.files) \in Trees
<1>1. PICK P \in SUBSET Paths : r.files \in [P -> Contents]
  BY DEF RequestOK
<1> QED
  BY <1>1 DEF Upsert, Trees

-----------------------------------------------------------------------------
(* The members of a sequence at some of its indices, in their order.       *)

Rank(I, i) == Cardinality({j \in I : j <= i})

LEMMA RankType ==
  ASSUME NEW I \in SUBSET Nat, IsFiniteSet(I), NEW i \in I
  PROVE  Rank(I, i) \in 1..Cardinality(I)
<1> DEFINE J == {j \in I : j <= i}
<1>1. IsFiniteSet(J) /\ Cardinality(J) <= Cardinality(I)
  BY FS_Subset
<1>2. Cardinality(J) \in Nat /\ Cardinality(I) \in Nat
  BY <1>1, FS_CardinalityType
<1>3. Cardinality(J) # 0
  BY <1>1, FS_EmptySet
<1> QED
  BY <1>1, <1>2, <1>3 DEF Rank

LEMMA RankStrict ==
  ASSUME NEW I \in SUBSET Nat, IsFiniteSet(I), NEW i \in I, NEW j \in I, i < j
  PROVE  Rank(I, i) < Rank(I, j)
<1> DEFINE A == {k \in I : k <= i}
           B == {k \in I : k <= j}
<1>1. A \subseteq B /\ j \in B /\ j \notin A
  <2>1. i \in Nat /\ j \in Nat /\ ~(j <= i)
    OBVIOUS
  <2>2. \A k \in I : k \in Nat /\ (k <= i => k <= j)
    BY <2>1
  <2>3. j <= j
    BY <2>1
  <2>4. j \in B
    BY <2>3
  <2>5. j \notin A
    BY <2>1
  <2>6. A \subseteq B
    BY <2>2
  <2> QED
    BY <2>4, <2>5, <2>6
<1>2. IsFiniteSet(A) /\ IsFiniteSet(B)
  BY FS_Subset
<1>3. Cardinality(A) <= Cardinality(B) /\ Cardinality(A) # Cardinality(B)
  BY <1>1, <1>2, FS_Subset
<1>4. Cardinality(A) \in Nat /\ Cardinality(B) \in Nat
  BY <1>2, FS_CardinalityType
<1> QED
  BY <1>3, <1>4 DEF Rank

LEMMA RankInjective ==
  ASSUME NEW I \in SUBSET Nat, IsFiniteSet(I), NEW i \in I, NEW j \in I, Rank(I, i) = Rank(I, j)
  PROVE  i = j
<1>1. Rank(I, i) \in Nat
  BY RankType, FS_CardinalityType
<1>2. i < j \/ j < i \/ i = j
  OBVIOUS
<1> QED
  BY <1>1, <1>2, RankStrict

\* The ranks of I are 1 to its cardinality.
LEMMA NthType ==
  ASSUME NEW I \in SUBSET Nat, IsFiniteSet(I), NEW r \in 1..Cardinality(I)
  PROVE  Nth(I, r) \in I /\ Rank(I, Nth(I, r)) = r
<1> DEFINE N == Cardinality(I)
           f == [i \in I |-> Rank(I, i)]
<1>1. N \in Nat
  BY FS_CardinalityType
<1>2. f \in [I -> 1..N]
  BY RankType
<1>3. \A i, j \in I : f[i] = f[j] => i = j
  BY RankInjective
<1>4. f \in Injection(I, 1..N)
  BY <1>2, <1>3 DEF Injection, IsInjective
<1>5. IsFiniteSet(1..N) /\ Cardinality(1..N) = N
  BY <1>1, FS_Interval
<1>6. f \in Surjection(I, 1..N)
  <2> HIDE DEF f
  <2> QED BY <1>4, <1>5, FS_Injection
<1>7. PICK i \in I : f[i] = r
  BY <1>6 DEF Surjection
<1>8. \E k \in I : Cardinality({j \in I : j <= k}) = r
  BY <1>7 DEF Rank
<1> QED
  BY <1>8 DEF Nth, Rank

LEMMA NthOfRank ==
  ASSUME NEW I \in SUBSET Nat, IsFiniteSet(I), NEW i \in I
  PROVE  Nth(I, Rank(I, i)) = i
<1>1. Rank(I, i) \in 1..Cardinality(I)
  BY RankType
<1>2. Nth(I, Rank(I, i)) \in I /\ Rank(I, Nth(I, Rank(I, i))) = Rank(I, i)
  BY <1>1, NthType
<1>3. PICK k \in I : k = Nth(I, Rank(I, i)) /\ Rank(I, k) = Rank(I, i)
  BY <1>2
<1>4. k = i
  BY <1>3, RankInjective
<1> QED
  BY <1>3, <1>4

LEMMA PickProperties ==
  ASSUME NEW S, NEW s \in Seq(S), NEW I \in SUBSET DOMAIN s
  PROVE  /\ IsFiniteSet(I) /\ I \in SUBSET Nat /\ Cardinality(I) \in Nat
         /\ Pick(s, I) \in Seq(S)
         /\ Len(Pick(s, I)) = Cardinality(I)
         /\ \A r \in 1..Cardinality(I) : Nth(I, r) \in I /\ Pick(s, I)[r] = s[Nth(I, r)]
         /\ \A i \in I : /\ Rank(I, i) \in 1..Cardinality(I)
                         /\ Pick(s, I)[Rank(I, i)] = s[i]
<1>1. I \in SUBSET Nat /\ IsFiniteSet(I)
  <2>1. IsFiniteSet(1..Len(s))
    BY FS_Interval
  <2> QED
    BY <2>1, FS_Subset
<1>2. Cardinality(I) \in Nat
  BY <1>1, FS_CardinalityType
<1>3. \A r \in 1..Cardinality(I) : Nth(I, r) \in I
  BY <1>1, NthType
<1>4. \A r \in 1..Cardinality(I) : s[Nth(I, r)] \in S
  BY <1>3
<1>5. \A i \in I : Rank(I, i) \in 1..Cardinality(I) /\ Nth(I, Rank(I, i)) = i
  BY <1>1, RankType, NthOfRank
<1> QED
  BY <1>1, <1>2, <1>3, <1>4, <1>5 DEF Pick

-----------------------------------------------------------------------------
(* What any step may do to the repository.                                 *)

GithubOK ==
  /\ RefsOK(refs)
  /\ prs \in Seq([head : DOMAIN refs, open : BOOLEAN])
  /\ checks \in Seq(CheckRecord)

Grow == \A b \in DOMAIN refs : b \in DOMAIN refs' /\ Ancestor(refs[b], refs'[b])

\* A PR stays, with its branch.
PrsStay == \A n \in DOMAIN prs : n \in DOMAIN prs' /\ prs'[n].head = prs[n].head

ChecksPrepended == \E e \in CheckRecord : checks' = <<e>> \o checks
ChecksCompleted ==
  \E i \in DOMAIN checks, x \in Conclusions :
    checks[i].conclusion = "none" /\ checks' = [checks EXCEPT ![i].conclusion = x]
ChecksStep == checks' = checks \/ ChecksPrepended \/ ChecksCompleted

GithubStep == GithubOK' /\ Grow /\ refs'[Base] = refs[Base] /\ PrsStay /\ ChecksStep

LEMMA BranchSet ==
  ASSUME RefsOK(refs), NEW b \in Branches, NEW s \in Seq(Trees), SetRef(b, s),
         b \in DOMAIN refs => Ancestor(refs[b], s)
  PROVE  /\ RefsOK(refs') /\ Grow /\ DOMAIN refs \subseteq DOMAIN refs'
         /\ b # Base => refs'[Base] = refs[Base]
<1>1. /\ DOMAIN refs' = DOMAIN refs \cup {b} /\ refs'[b] = s
      /\ \A x \in DOMAIN refs : x # b => refs'[x] = refs[x]
  BY DEF SetRef
<1>2. \A x \in DOMAIN refs : Ancestor(refs[x], refs[x])
  BY AncestorReflexive DEF RefsOK
<1> QED
  BY <1>1, <1>2 DEF RefsOK, Grow

\* A step that leaves all or part of the repository alone.
LEMMA RefsUnchanged ==
  ASSUME RefsOK(refs), UNCHANGED refs
  PROVE  RefsOK(refs') /\ Grow /\ refs'[Base] = refs[Base]
<1>1. \A x \in DOMAIN refs : Ancestor(refs[x], refs[x])
  BY AncestorReflexive DEF RefsOK
<1> QED
  BY <1>1 DEF Grow

LEMMA GithubUnchanged ==
  ASSUME GithubOK, UNCHANGED github
  PROVE  GithubStep
  BY RefsUnchanged DEF GithubOK, GithubStep, github, PrsStay, ChecksStep

\* A step that writes a branch only.
LEMMA GithubRefs ==
  ASSUME GithubOK, RefsOK(refs'), Grow, DOMAIN refs \subseteq DOMAIN refs',
         refs'[Base] = refs[Base], UNCHANGED <<prs, checks>>
  PROVE  GithubStep
<1>1. [head : DOMAIN refs, open : BOOLEAN] \subseteq [head : DOMAIN refs', open : BOOLEAN]
  OBVIOUS
<1>2. prs' \in Seq([head : DOMAIN refs', open : BOOLEAN])
  BY <1>1, SeqMonotonic DEF GithubOK
<1> QED
  BY <1>2 DEF GithubOK, GithubStep, PrsStay, ChecksStep

LEMMA PushStep ==
  ASSUME GithubOK, NEW b \in Branches \ {Base}, NEW p \in Paths, NEW x \in Contents, Push(b, p, x)
  PROVE  GithubStep
<1> DEFINE old == IF b \in DOMAIN refs THEN refs[b] ELSE refs[Base]
           new == Append(old, [TreeOf(old) EXCEPT ![p] = x])
<1>1. old \in Seq(Trees)
  BY DEF GithubOK, RefsOK
<1>2. [TreeOf(old) EXCEPT ![p] = x] \in Trees
  BY <1>1, TreeOfType DEF Trees
<1>3. new \in Seq(Trees) /\ Ancestor(old, new)
  BY <1>1, <1>2, AncestorAppend
<1>4. SetRef(b, new) /\ UNCHANGED <<prs, checks>>
  BY DEF Push
<1>5. b \in DOMAIN refs => Ancestor(refs[b], new)
  BY <1>3
<1> HIDE DEF new
<1>6. RefsOK(refs') /\ Grow /\ DOMAIN refs \subseteq DOMAIN refs' /\ refs'[Base] = refs[Base]
  BY <1>3, <1>4, <1>5, BranchSet DEF GithubOK
<1> QED
  BY <1>4, <1>6, GithubRefs

LEMMA ClosePrStep ==
  ASSUME GithubOK, NEW n \in DOMAIN prs, ClosePr(n)
  PROVE  GithubStep
<1>1. prs' = [prs EXCEPT ![n].open = FALSE] /\ UNCHANGED <<refs, checks>>
  BY DEF ClosePr
<1>2. prs \in Seq([head : DOMAIN refs, open : BOOLEAN]) /\ n \in 1..Len(prs)
  BY DEF GithubOK
<1>3. [prs[n] EXCEPT !.open = FALSE] \in [head : DOMAIN refs, open : BOOLEAN]
  <2>1. prs[n] \in [head : DOMAIN refs, open : BOOLEAN]
    BY <1>2, ElementOfSeq
  <2> QED
    BY <2>1
<1>4. prs' \in Seq([head : DOMAIN refs, open : BOOLEAN])
  BY <1>1, <1>2, <1>3, ExceptSeq
<1>5. PrsStay
  BY <1>1, <1>2 DEF PrsStay
<1> QED
  BY <1>1, <1>4, <1>5, RefsUnchanged DEF GithubOK, GithubStep, ChecksStep

LEMMA CheckStartsStep ==
  ASSUME GithubOK, NEW b \in Branches, NEW kind \in CheckKinds, CheckStarts(b, kind)
  PROVE  GithubStep
<1> DEFINE e == [id |-> Len(checks) + 1, sha |-> refs[b], kind |-> kind, conclusion |-> "none"]
<1>1. e \in CheckRecord
  BY DEF CheckStarts, GithubOK, RefsOK, CheckRecord
<1>2. checks' = <<e>> \o checks /\ UNCHANGED <<refs, prs>>
  BY DEF CheckStarts
<1> HIDE DEF e
<1>3. checks' \in Seq(CheckRecord)
  BY <1>1, <1>2 DEF GithubOK
<1> QED
  BY <1>1, <1>2, <1>3, RefsUnchanged DEF GithubOK, GithubStep, PrsStay, ChecksStep, ChecksPrepended

LEMMA CheckCompletesStep ==
  ASSUME GithubOK, NEW i \in DOMAIN checks, NEW x \in Conclusions, CheckCompletes(i, x)
  PROVE  GithubStep
<1>1. checks[i].conclusion = "none" /\ checks' = [checks EXCEPT ![i].conclusion = x]
      /\ UNCHANGED <<refs, prs>>
  BY DEF CheckCompletes
<1>2. checks \in Seq(CheckRecord) /\ i \in 1..Len(checks)
  BY DEF GithubOK
<1>3. [checks[i] EXCEPT !.conclusion = x] \in CheckRecord
  <2>1. checks[i] \in CheckRecord
    BY <1>2, ElementOfSeq
  <2> QED
    BY <2>1 DEF CheckRecord
<1>4. checks' \in Seq(CheckRecord)
  BY <1>1, <1>2, <1>3, ExceptSeq
<1>5. ChecksStep
  BY <1>1 DEF ChecksStep, ChecksCompleted
<1> QED
  BY <1>1, <1>4, <1>5, RefsUnchanged DEF GithubOK, GithubStep, PrsStay

-----------------------------------------------------------------------------
(* What a step of a call does to the calls.                                *)

CallFields == {"pc", "req", "sha", "page", "items", "since", "answer"}

CallOK(k) ==
  /\ DOMAIN k = CallFields
  /\ RequestOK(k.req) /\ k.sha \in Seq(Trees) /\ k.page \in Nat \ {0}
  /\ k.pc = "head" => k.page = 1 /\ k.items = <<>>
  /\ k.pc \in {"tip", "objects", "patch_ref"} => k.req.branch # Base

TypeOK == GithubOK /\ DOMAIN calls = Callers /\ \A c \in Callers : CallOK(calls[c])

\* The commit under way has the tip its branch had, on which the branch has only grown.
OnItsParent(k) ==
  /\ k.pc = "objects" => k.req.branch \in DOMAIN refs /\ Ancestor(k.sha, refs[k.req.branch])
  /\ k.pc = "patch_ref" =>
       \E s \in Seq(Trees) : /\ k.sha = Append(s, Upsert(TreeOf(s), k.req.files))
                             /\ k.req.branch \in DOMAIN refs /\ Ancestor(s, refs[k.req.branch])

\* Only c's call moves.
Moves(c) == DOMAIN calls' = Callers /\ \A d \in Callers \ {c} : calls'[d] = calls[d]

\* A call that is neither reading pages nor answering what they say.
Quiet(k) ==
  /\ k.pc \notin {"files", "runs", "suites", "aggregate"}
  /\ k.pc = "answered" => k.answer.kind \notin {"diff", "state"}

\* What holds of a step of c's call other than those that read pages.
StepOK(c) ==
  /\ GithubStep /\ Moves(c) /\ CallOK(calls'[c]) /\ OnItsParent(calls[c])'

LEMMA Types ==
  ASSUME TypeOK, NEW c \in Callers
  PROVE  /\ RefsOK(refs) /\ c \in DOMAIN calls /\ DOMAIN calls[c] = CallFields
         /\ RequestOK(calls[c].req) /\ Target(c) \in Branches /\ calls[c].req.pr \in Nat
         /\ calls[c].sha \in Seq(Trees) /\ calls[c].page \in Nat \ {0}
  BY DEF TypeOK, CallOK, GithubOK, Target, RequestOK

LEMMA GoStep ==
  ASSUME TypeOK, NEW c \in Callers, NEW pc, Go(c, pc), pc \notin {"head", "tip", "objects", "patch_ref"}
  PROVE  Moves(c) /\ CallOK(calls'[c]) /\ OnItsParent(calls[c])' /\ calls'[c].pc = pc
<1>1. calls' = [calls EXCEPT ![c].pc = pc]
  BY DEF Go
<1>2. /\ DOMAIN calls' = Callers /\ \A d \in Callers \ {c} : calls'[d] = calls[d]
      /\ calls'[c] = [calls[c] EXCEPT !.pc = pc]
  BY <1>1, Types DEF TypeOK
<1>3. CallOK(calls'[c]) /\ calls'[c].pc = pc
  BY <1>2, Types DEF TypeOK, CallOK, CallFields
<1> QED
  BY <1>2, <1>3 DEF Moves, OnItsParent

LEMMA ReturnStep ==
  ASSUME TypeOK, NEW c \in Callers, NEW a, Return(c, a)
  PROVE  /\ Moves(c) /\ CallOK(calls'[c]) /\ OnItsParent(calls[c])'
         /\ calls'[c].pc = "answered" /\ calls'[c].answer = a
         /\ \A f \in {"req", "sha", "page", "items", "since"} : calls'[c][f] = calls[c][f]
<1>1. calls' = [calls EXCEPT ![c].pc = "answered", ![c].answer = a]
  BY DEF Return
<1>2. /\ DOMAIN calls' = Callers /\ \A d \in Callers \ {c} : calls'[d] = calls[d]
      /\ calls'[c] = [calls[c] EXCEPT !.pc = "answered", !.answer = a]
  BY <1>1, Types DEF TypeOK
<1>3. /\ CallOK(calls'[c]) /\ calls'[c].pc = "answered" /\ calls'[c].answer = a
      /\ \A f \in {"req", "sha", "page", "items", "since"} : calls'[c][f] = calls[c][f]
  BY <1>2, Types DEF TypeOK, CallOK, CallFields
<1> QED
  BY <1>2, <1>3 DEF Moves, OnItsParent

\* An error, or any answer that does not tell of pages.
LEMMA QuietReturn ==
  ASSUME TypeOK, NEW c \in Callers, NEW a, a.kind \notin {"diff", "state"}, Return(c, a)
  PROVE  Moves(c) /\ CallOK(calls'[c]) /\ OnItsParent(calls[c])' /\ Quiet(calls'[c])
  BY ReturnStep DEF Quiet

LEMMA QuietError ==
  ASSUME TypeOK, NEW c \in Callers, Return(c, Error("github_error"))
  PROVE  Moves(c) /\ CallOK(calls'[c]) /\ OnItsParent(calls[c])' /\ Quiet(calls'[c])
  BY QuietReturn DEF Error

LEMMA QuietGo ==
  ASSUME TypeOK, NEW c \in Callers, NEW pc \in {"find_pr", "get_ref"}, Go(c, pc)
  PROVE  Moves(c) /\ CallOK(calls'[c]) /\ OnItsParent(calls[c])' /\ Quiet(calls'[c])
  BY GoStep DEF Quiet

LEMMA QuietApplied ==
  ASSUME TypeOK, NEW c \in Callers, NEW a, a.kind \notin {"diff", "state"}, Applied(c, a)
  PROVE  Moves(c) /\ CallOK(calls'[c]) /\ OnItsParent(calls[c])' /\ Quiet(calls'[c])
  BY QuietReturn, QuietError DEF Applied

-----------------------------------------------------------------------------
(* The operations that write.                                              *)

LEMMA OpenPrStep ==
  ASSUME TypeOK, NEW c \in Callers, open_pr(c)
  PROVE  StepOK(c) /\ Quiet(calls'[c])
<1>1. UNCHANGED <<refs, checks>>
  BY DEF open_pr
<1>2. CASE CanOpen(Target(c))
  <2>1. prs' = Append(prs, [head |-> Target(c), open |-> TRUE])
        /\ Applied(c, OpenPrAnswer(Len(prs) + 1, FALSE))
    BY <1>2 DEF open_pr
  <2>2. OpenPrAnswer(Len(prs) + 1, FALSE).kind = "pr"
    BY DEF OpenPrAnswer
  <2>3. Target(c) \in DOMAIN refs
    BY <1>2 DEF CanOpen
  <2>4. prs' \in Seq([head : DOMAIN refs, open : BOOLEAN]) /\ PrsStay
    BY <2>1, <2>3 DEF TypeOK, GithubOK, PrsStay
  <2>5. GithubStep
    BY <1>1, <2>4, RefsUnchanged DEF TypeOK, GithubOK, GithubStep, ChecksStep
  <2> QED
    BY <2>1, <2>2, <2>5, QuietApplied DEF StepOK
<1>3. CASE ~CanOpen(Target(c))
  <2>1. Go(c, "find_pr") /\ UNCHANGED github
    BY <1>1, <1>3 DEF open_pr, github
  <2> QED
    BY <2>1, QuietGo, GithubUnchanged DEF StepOK, TypeOK
<1> QED
  BY <1>2, <1>3

LEMMA FindOpenPrStep ==
  ASSUME TypeOK, NEW c \in Callers, find_open_pr(c)
  PROVE  StepOK(c) /\ Quiet(calls'[c])
<1>1. GithubStep
  BY GithubUnchanged DEF TypeOK, find_open_pr
<1>2. \/ \E n \in OpenPrs(Target(c)) : Return(c, OpenPrAnswer(n, TRUE))
      \/ Return(c, Error("github_error"))
  BY DEF find_open_pr
<1>3. \A n : OpenPrAnswer(n, TRUE).kind = "pr"
  BY DEF OpenPrAnswer
<1> QED
  BY <1>1, <1>2, <1>3, QuietReturn, QuietError DEF StepOK

LEMMA CreateBranchBaseStep ==
  ASSUME TypeOK, NEW c \in Callers, create_branch_base(c)
  PROVE  StepOK(c) /\ Quiet(calls'[c])
<1>1. GithubStep
  BY GithubUnchanged DEF TypeOK, create_branch_base
<1>2. calls' = [calls EXCEPT ![c].pc = "post_ref", ![c].sha = refs[Base]]
  BY DEF create_branch_base
<1>3. /\ DOMAIN calls' = Callers /\ \A d \in Callers \ {c} : calls'[d] = calls[d]
      /\ calls'[c] = [calls[c] EXCEPT !.pc = "post_ref", !.sha = refs[Base]]
  BY <1>2, Types DEF TypeOK
<1>4. CallOK(calls'[c]) /\ calls'[c].pc = "post_ref"
  BY <1>3, Types DEF TypeOK, CallOK, CallFields, RefsOK
<1> QED
  BY <1>1, <1>3, <1>4 DEF StepOK, Moves, OnItsParent, Quiet

LEMMA CreateBranchStep ==
  ASSUME TypeOK, NEW c \in Callers, create_branch(c)
  PROVE  StepOK(c) /\ Quiet(calls'[c])
<1>1. UNCHANGED <<prs, checks, threads>>
  BY DEF create_branch
<1>2. CASE Target(c) \in DOMAIN refs
  <2>1. Go(c, "get_ref") /\ UNCHANGED github
    BY <1>1, <1>2 DEF create_branch, github
  <2> QED
    BY <2>1, QuietGo, GithubUnchanged DEF StepOK, TypeOK
<1>3. CASE Target(c) \notin DOMAIN refs
  <2>1. SetRef(Target(c), calls[c].sha) /\ Applied(c, BranchAnswer(calls[c].sha, FALSE))
    BY <1>3 DEF create_branch
  <2>2. BranchAnswer(calls[c].sha, FALSE).kind = "branch"
    BY DEF BranchAnswer
  <2>3. Target(c) \in Branches /\ Target(c) # Base /\ calls[c].sha \in Seq(Trees)
    BY <1>3, Types DEF RefsOK
  <2>4. RefsOK(refs') /\ Grow /\ DOMAIN refs \subseteq DOMAIN refs' /\ refs'[Base] = refs[Base]
    BY <1>3, <2>1, <2>3, BranchSet DEF TypeOK, GithubOK
  <2>5. GithubStep
    BY <1>1, <2>4, GithubRefs DEF TypeOK
  <2> QED
    BY <2>1, <2>2, <2>5, QuietApplied DEF StepOK
<1> QED
  BY <1>2, <1>3

LEMMA CreateBranchExistingStep ==
  ASSUME TypeOK, NEW c \in Callers, create_branch_existing(c)
  PROVE  StepOK(c) /\ Quiet(calls'[c])
<1>1. Return(c, BranchAnswer(refs[Target(c)], TRUE)) /\ UNCHANGED github
  BY DEF create_branch_existing
<1>2. BranchAnswer(refs[Target(c)], TRUE).kind = "branch"
  BY DEF BranchAnswer
<1> QED
  BY <1>1, <1>2, QuietReturn, GithubUnchanged DEF StepOK, TypeOK

LEMMA CommitFilesStep ==
  ASSUME TypeOK, NEW c \in Callers, commit_files(c)
  PROVE  StepOK(c) /\ Quiet(calls'[c])
<1>1. GithubStep /\ UNCHANGED refs
  BY GithubUnchanged DEF TypeOK, commit_files, github
<1>2. CASE Target(c) \in DOMAIN refs
  <2>1. calls' = [calls EXCEPT ![c].pc = "objects", ![c].sha = refs[Target(c)]]
    BY <1>2 DEF commit_files
  <2>2. /\ DOMAIN calls' = Callers /\ \A d \in Callers \ {c} : calls'[d] = calls[d]
        /\ calls'[c] = [calls[c] EXCEPT !.pc = "objects", !.sha = refs[Target(c)]]
    BY <2>1, Types DEF TypeOK
  <2>3. calls[c].pc = "tip"
    BY DEF commit_files, At
  <2>4. /\ CallOK(calls'[c]) /\ calls'[c].pc = "objects" /\ calls'[c].sha = refs[Target(c)]
        /\ calls'[c].req = calls[c].req
    BY <1>2, <2>2, <2>3, Types DEF TypeOK, CallOK, CallFields, RefsOK
  <2>5. Ancestor(refs[Target(c)], refs[Target(c)])
    BY <1>2, Types, AncestorReflexive DEF RefsOK
  <2> QED
    BY <1>1, <1>2, <2>2, <2>4, <2>5 DEF StepOK, Moves, OnItsParent, Quiet, Target
<1>3. CASE Target(c) \notin DOMAIN refs
  <2>1. Return(c, Error("github_error"))
    BY <1>3 DEF commit_files
  <2> QED
    BY <1>1, <2>1, QuietError DEF StepOK
<1> QED
  BY <1>2, <1>3

LEMMA NewCommitStep ==
  ASSUME TypeOK, NEW c \in Callers, OnItsParent(calls[c]), NewCommit(c)
  PROVE  StepOK(c) /\ Quiet(calls'[c])
<1> DEFINE s == calls[c].sha
           new == Append(s, Upsert(TreeOf(s), calls[c].req.files))
<1>1. GithubStep /\ UNCHANGED refs
  BY GithubUnchanged DEF TypeOK, NewCommit, github
<1>2. calls[c].pc = "objects" /\ calls' = [calls EXCEPT ![c].pc = "patch_ref", ![c].sha = new]
  BY DEF NewCommit, At
<1>3. s \in Seq(Trees) /\ new \in Seq(Trees)
  BY Types, TreeOfType, UpsertType
<1>4. Target(c) \in DOMAIN refs /\ Ancestor(s, refs[Target(c)])
  BY <1>2 DEF OnItsParent, Target
<1>5. /\ DOMAIN calls' = Callers /\ \A d \in Callers \ {c} : calls'[d] = calls[d]
      /\ calls'[c] = [calls[c] EXCEPT !.pc = "patch_ref", !.sha = new]
  BY <1>2, Types DEF TypeOK
<1>6. /\ CallOK(calls'[c]) /\ calls'[c].pc = "patch_ref"
      /\ calls'[c].sha = new /\ calls'[c].req = calls[c].req
  <2> HIDE DEF new
  <2> QED BY <1>2, <1>3, <1>5, Types DEF TypeOK, CallOK, CallFields
<1>7. OnItsParent(calls[c])'
  BY <1>1, <1>3, <1>4, <1>6 DEF OnItsParent, Target
<1> QED
  BY <1>1, <1>5, <1>6, <1>7 DEF StepOK, Moves, Quiet

LEMMA UpdateRefStep ==
  ASSUME TypeOK, NEW c \in Callers, update_ref(c)
  PROVE  StepOK(c) /\ Quiet(calls'[c])
<1>1. UNCHANGED <<prs, checks, threads>> /\ calls[c].pc = "patch_ref"
  BY DEF update_ref, At
<1>2. CASE Ancestor(refs[Target(c)], calls[c].sha)
  <2>1. SetRef(Target(c), calls[c].sha) /\ Applied(c, CommitAnswer(calls[c].sha))
    BY <1>2 DEF update_ref
  <2>2. CommitAnswer(calls[c].sha).kind = "commit"
    BY DEF CommitAnswer
  <2>3. Target(c) \in Branches /\ Target(c) # Base /\ calls[c].sha \in Seq(Trees)
    BY <1>1, Types DEF TypeOK, CallOK, Target
  <2>4. RefsOK(refs') /\ Grow /\ DOMAIN refs \subseteq DOMAIN refs' /\ refs'[Base] = refs[Base]
    BY <1>2, <2>1, <2>3, BranchSet DEF TypeOK, GithubOK
  <2>5. GithubStep
    BY <1>1, <2>4, GithubRefs DEF TypeOK
  <2> QED
    BY <2>1, <2>2, <2>5, QuietApplied DEF StepOK
<1>3. CASE ~Ancestor(refs[Target(c)], calls[c].sha)
  <2>1. Return(c, Error("github_error")) /\ UNCHANGED github
    BY <1>1, <1>3 DEF update_ref, github
  <2> QED
    BY <2>1, QuietError, GithubUnchanged DEF StepOK, TypeOK
<1> QED
  BY <1>2, <1>3

LEMMA PostStep ==
  ASSUME TypeOK, NEW c \in Callers, Post(c)
  PROVE  StepOK(c) /\ Quiet(calls'[c])
<1>1. UNCHANGED <<refs, prs, checks>> /\ Applied(c, [ok |-> TRUE, kind |-> "posted"])
  BY DEF Post
<1>2. GithubStep
  BY <1>1, RefsUnchanged DEF TypeOK, GithubOK, GithubStep, PrsStay, ChecksStep
<1> QED
  BY <1>1, <1>2, QuietApplied DEF StepOK

LEMMA WriteStep ==
  ASSUME TypeOK, NEW c \in Callers, OnItsParent(calls[c]), Write(c)
  PROVE  StepOK(c) /\ Quiet(calls'[c])
  BY OpenPrStep, FindOpenPrStep, CreateBranchBaseStep, CreateBranchStep, CreateBranchExistingStep,
     CommitFilesStep, NewCommitStep, UpdateRefStep, PostStep DEF Write

-----------------------------------------------------------------------------
(* Pages of a list that others add to while they are read.                 *)

Skipped(page) == (page - 1) * PerPage

LEMMA SkippedType ==
  ASSUME NEW page \in Nat \ {0}
  PROVE  Skipped(page) \in Nat /\ Skipped(page + 1) = Skipped(page) + PerPage /\ Skipped(1) = 0
<1>1. PerPage \in Nat
  BY RepoHelperAssumption
<1>2. \A q \in Nat : q * PerPage \in Nat /\ (q + 1) * PerPage = q * PerPage + PerPage
  BY <1>1
<1>3. page - 1 \in Nat /\ (page + 1) - 1 = (page - 1) + 1
  OBVIOUS
<1>4. 0 * PerPage = 0
  BY <1>1
<1> QED
  BY <1>2, <1>3, <1>4 DEF Skipped

LEMMA BatchProperties ==
  ASSUME NEW S, NEW list \in Seq(S), NEW page \in Nat \ {0}
  PROVE  LET b == Batch(list, page)
             m == Skipped(page)
         IN /\ b \in Seq(S) /\ Len(b) <= PerPage
            /\ \A i \in 1..Len(b) : m + i \in 1..Len(list) /\ b[i] = list[m + i]
            /\ Len(b) < PerPage => Len(list) <= m + Len(b)
            /\ \A r \in 1..Len(list) : m < r /\ r <= m + PerPage => r - m \in 1..Len(b)
<1> DEFINE m == Skipped(page)
           e == IF m + PerPage < Len(list) THEN m + PerPage ELSE Len(list)
           b == Batch(list, page)
<1>1. m \in Nat /\ page * PerPage = m + PerPage /\ PerPage \in Nat \ {0}
  BY SkippedType, RepoHelperAssumption DEF Skipped
<1>2. b = SubSeq(list, m + 1, e)
  BY <1>1 DEF Batch, Skipped
<1> HIDE DEF m, b
<1>3. e \in Nat /\ e <= Len(list) /\ e <= m + PerPage
  BY <1>1
<1>4. \A i \in (m + 1)..e : list[i] \in S
  BY <1>1, <1>3
<1>5. /\ b \in Seq(S) /\ Len(b) = IF m + 1 <= e THEN e - m ELSE 0
      /\ \A i \in 1..(e - m) : b[i] = list[m + i]
  <2> HIDE DEF e
  <2>1. /\ SubSeq(list, m + 1, e) \in Seq(S)
        /\ Len(SubSeq(list, m + 1, e)) = IF m + 1 <= e THEN e - (m + 1) + 1 ELSE 0
        /\ \A i \in 1..(e - (m + 1) + 1) : SubSeq(list, m + 1, e)[i] = list[(m + 1) + i - 1]
    BY <1>1, <1>3, <1>4, SubSeqProperties
  <2>2. e - (m + 1) + 1 = e - m /\ \A i \in Nat : (m + 1) + i - 1 = m + i
    BY <1>1, <1>3
  <2>3. 1..(e - m) \subseteq Nat
    BY <1>1, <1>3
  <2> QED
    BY <1>2, <2>1, <2>2, <2>3
<1>6. Len(list) \in Nat /\ (m + PerPage < Len(list) => e = m + PerPage)
      /\ (m + PerPage >= Len(list) => e = Len(list))
  BY <1>1
<1> HIDE DEF e
<1>7. Len(b) <= PerPage /\ (Len(b) < PerPage => Len(list) <= m + Len(b))
  BY <1>1, <1>3, <1>5, <1>6
<1>8. \A i \in 1..Len(b) : m + i \in 1..Len(list) /\ b[i] = list[m + i]
  BY <1>1, <1>3, <1>5
<1>9. \A r \in 1..Len(list) : m < r /\ r <= m + PerPage => r - m \in 1..Len(b)
  BY <1>1, <1>3, <1>5, <1>6
<1> QED
  BY <1>5, <1>7, <1>8, <1>9 DEF m, b

\* Someone has failed at a position beyond m.
Fails(list, m) == \E r \in DOMAIN list : r > m /\ list[r].conclusion \in CHECK_FAILED_CONCLUSIONS

ListedAt(list, sha, kind) == {i \in DOMAIN list : list[i].sha = sha /\ list[i].kind = kind}

\* Checks that are added push a failed one to a later position, and what has
\* completed stays as it is.
LEMMA FailureStays ==
  ASSUME GithubOK, GithubStep, NEW sha, NEW kind, NEW m \in Nat, Fails(ChecksOf(sha, kind), m)
  PROVE  Fails(ChecksOf(sha, kind), m)'
<1> DEFINE I == ListedAt(checks, sha, kind)
           J == ListedAt(checks', sha, kind)
<1>1. checks \in Seq(CheckRecord) /\ checks' \in Seq(CheckRecord)
  BY DEF GithubOK, GithubStep
<1>2. I \in SUBSET DOMAIN checks /\ J \in SUBSET DOMAIN checks'
  BY DEF ListedAt
<1>3. ChecksOf(sha, kind) = Pick(checks, I) /\ ChecksOf(sha, kind)' = Pick(checks', J)
  BY DEF ChecksOf, ListedAt
<1> HIDE DEF I, J
<1>4. PICK r \in 1..Cardinality(I) :
        r > m /\ Pick(checks, I)[r].conclusion \in CHECK_FAILED_CONCLUSIONS
  BY <1>1, <1>2, <1>3, PickProperties DEF Fails
<1>5. PICK i \in I : /\ i = Nth(I, r) /\ Rank(I, i) = r
                     /\ checks[i].conclusion \in CHECK_FAILED_CONCLUSIONS
  BY <1>1, <1>2, <1>4, PickProperties, NthType
<1>6. SUFFICES \E j \in J : Rank(J, j) >= r /\ checks'[j] = checks[i]
  <2>1. PICK j \in J : Rank(J, j) >= r /\ checks'[j] = checks[i]
    BY <1>6
  <2>2. Rank(J, j) \in 1..Cardinality(J) /\ Pick(checks', J)[Rank(J, j)] = checks'[j]
        /\ Len(Pick(checks', J)) = Cardinality(J) /\ Pick(checks', J) \in Seq(CheckRecord)
    BY <1>1, <1>2, PickProperties
  <2>3. Rank(J, j) \in DOMAIN Pick(checks', J) /\ Rank(J, j) > m
    BY <1>4, <2>1, <2>2
  <2> QED
    BY <1>3, <1>5, <2>1, <2>2, <2>3 DEF Fails
<1>7. CASE checks' = checks
  BY <1>4, <1>5, <1>7 DEF I, J
<1>8. CASE ChecksCompleted
  <2>1. PICK k \in DOMAIN checks, x \in Conclusions :
          checks[k].conclusion = "none" /\ checks' = [checks EXCEPT ![k].conclusion = x]
    BY <1>8 DEF ChecksCompleted
  <2>2. /\ DOMAIN checks' = DOMAIN checks
        /\ \A j \in DOMAIN checks : checks'[j].sha = checks[j].sha /\ checks'[j].kind = checks[j].kind
        /\ \A j \in DOMAIN checks \ {k} : checks'[j] = checks[j]
    <3>1. \A j \in DOMAIN checks : checks[j] \in CheckRecord
      BY <1>1, ElementOfSeq
    <3> QED
      BY <2>1, <3>1 DEF CheckRecord
  <2>3. I = J
    BY <2>2 DEF I, J, ListedAt
  <2>4. i # k
    BY <1>5, <2>1 DEF CHECK_FAILED_CONCLUSIONS
  <2> QED
    BY <1>2, <1>4, <1>5, <2>2, <2>3, <2>4
<1>9. CASE ChecksPrepended
  <2>1. PICK e \in CheckRecord : checks' = <<e>> \o checks
    BY <1>9 DEF ChecksPrepended
  <2>2. \A j \in DOMAIN checks : j + 1 \in DOMAIN checks' /\ checks'[j + 1] = checks[j]
    BY <1>1, <2>1
  <2>3. \A j \in I : j + 1 \in J
    BY <1>2, <2>2 DEF I, J, ListedAt
  <2> DEFINE A == {j \in I : j <= i}
             B == {j \in J : j <= i + 1}
             f == [j \in A |-> j + 1]
  <2>4. IsFiniteSet(J) /\ J \in SUBSET Nat /\ I \in SUBSET Nat
    BY <1>1, <1>2, PickProperties
  <2>5. IsFiniteSet(B)
    BY <2>4, FS_Subset
  <2>6. f \in Injection(A, B)
    <3>1. \A j \in A : j \in Nat /\ j + 1 \in J /\ j + 1 <= i + 1
      BY <2>3, <2>4
    <3> QED
      BY <3>1 DEF Injection, IsInjective
  <2>7. Cardinality(A) <= Cardinality(B)
    <3> HIDE DEF A, B, f
    <3> QED BY <2>5, <2>6, FS_Injection
  <2>8. i + 1 \in J /\ Rank(J, i + 1) >= r /\ checks'[i + 1] = checks[i]
    BY <1>2, <1>5, <2>2, <2>3, <2>7 DEF Rank
  <2> QED
    BY <2>8
<1> QED
  BY <1>7, <1>8, <1>9 DEF GithubStep, ChecksStep

-----------------------------------------------------------------------------
(* What a call that reads pages knows.                                     *)

TellsState(k) == k.pc = "answered" /\ k.answer.kind = "state"
TellsDiff(k) == k.pc = "answered" /\ k.answer.kind = "diff"

\* A check that had failed when the head was read has been seen, or is on a page to come.
FailureIsAhead(k) == k.since # {} =>
  /\ k.pc = "runs" => \/ Fails(k.items, 0) \/ Fails(ChecksOf(k.sha, "run"), Skipped(k.page))
                      \/ Fails(ChecksOf(k.sha, "suite"), 0)
  /\ k.pc = "suites" => Fails(k.items, 0) \/ Fails(ChecksOf(k.sha, "suite"), Skipped(k.page))
  /\ k.pc = "aggregate" => Fails(k.items, 0)
  /\ TellsState(k) => k.answer.state = "failed"

\* What has been read are checks of the head, as they still are unless they had not completed.
ItemsAreChecks(k) == k.pc \in {"runs", "suites", "aggregate"} \/ TellsState(k) =>
  /\ k.items \in Seq(CheckRecord)
  /\ \A i \in DOMAIN k.items :
       /\ k.items[i].sha = k.sha
       /\ k.items[i].conclusion = "none" \/ \E j \in DOMAIN checks : checks[j] = k.items[i]
  /\ TellsState(k) => /\ k.answer.sha = k.sha
                      /\ k.answer.state = "passed" =>
                           /\ k.items # <<>>
                           /\ \A i \in DOMAIN k.items : k.items[i].conclusion \in CHECK_PASSED_CONCLUSIONS

Entries == {diff_file_entry(p) : p \in Paths}
ChangedPaths(sha) == {p \in Paths : TreeOf(sha)[p] # TreeOf(refs[Base])[p]}

\* The entries are those of the first paths of the list.
Shows(entries, list) ==
  /\ Len(entries) <= Len(list)
  /\ \A i \in 1..Len(entries) : entries[i] = diff_file_entry(list[i])

\* As long as the head has not moved, the entries are those of the pages so far.
PagesSoFar(k) ==
  LET list == Changed(k.req.pr)
  IN Len(k.items) = Skipped(k.page) /\ Shows(k.items, list)

DiffSoFar(k) ==
  /\ k.pc = "files" =>
       /\ k.req.pr \in DOMAIN prs /\ Ancestor(k.sha, HeadOf(k.req.pr))
       /\ k.items \in Seq(Entries) /\ Len(k.items) < DiffCap
       /\ HeadOf(k.req.pr) = k.sha => PagesSoFar(k)
  /\ TellsDiff(k) =>
       /\ k.req.pr \in DOMAIN prs /\ k.answer.sha = k.sha /\ Ancestor(k.sha, HeadOf(k.req.pr))
       /\ k.answer.files \in Seq(Entries)
       /\ HeadOf(k.req.pr) = k.sha /\ ~k.answer.files_truncated =>
            {k.answer.files[i].path : i \in DOMAIN k.answer.files} = ChangedPaths(k.sha)

CallInv(k) == OnItsParent(k) /\ FailureIsAhead(k) /\ ItemsAreChecks(k) /\ DiffSoFar(k)

IInv == TypeOK /\ \A c \in Callers : CallInv(calls[c])

-----------------------------------------------------------------------------
(* What a call knows stays true while others act.                          *)

LEMMA HeadGrows ==
  ASSUME GithubOK, GithubStep, NEW n \in DOMAIN prs
  PROVE  /\ n \in DOMAIN prs' /\ HeadOf(n) \in Seq(Trees) /\ HeadOf(n)' \in Seq(Trees)
         /\ Ancestor(HeadOf(n), HeadOf(n)')
<1>1. prs[n] \in [head : DOMAIN refs, open : BOOLEAN]
  <2>1. prs \in Seq([head : DOMAIN refs, open : BOOLEAN]) /\ n \in 1..Len(prs)
    BY DEF GithubOK
  <2> QED
    BY <2>1, ElementOfSeq
<1>2. n \in DOMAIN prs' /\ prs'[n].head = prs[n].head /\ prs[n].head \in DOMAIN refs
  BY <1>1 DEF GithubStep, PrsStay
<1> QED
  BY <1>2 DEF GithubStep, GithubOK, RefsOK, Grow, HeadOf

LEMMA ParentStays ==
  ASSUME GithubOK, GithubStep, NEW k, k.sha \in Seq(Trees), OnItsParent(k)
  PROVE  OnItsParent(k)'
<1> DEFINE b == k.req.branch
<1>1. \A x \in DOMAIN refs : /\ x \in DOMAIN refs' /\ refs[x] \in Seq(Trees)
                             /\ refs'[x] \in Seq(Trees) /\ Ancestor(refs[x], refs'[x])
  BY DEF GithubOK, GithubStep, RefsOK, Grow
<1>2. \A s \in Seq(Trees) : b \in DOMAIN refs /\ Ancestor(s, refs[b]) =>
        b \in DOMAIN refs' /\ Ancestor(s, refs'[b])
  BY <1>1, AncestorTransitive
<1> QED
  BY <1>2 DEF OnItsParent

LEMMA FailureStaysAhead ==
  ASSUME GithubOK, GithubStep, NEW k, k.page \in Nat \ {0}, FailureIsAhead(k)
  PROVE  FailureIsAhead(k)'
<1>1. \A kind : \A m \in Nat : Fails(ChecksOf(k.sha, kind), m) => Fails(ChecksOf(k.sha, kind), m)'
  BY FailureStays
<1>2. Skipped(k.page) \in Nat
  BY SkippedType
<1>3. TellsState(k)' = TellsState(k) /\ Fails(k.items, 0)' = Fails(k.items, 0)
  OBVIOUS
<1> QED
  BY <1>1, <1>2, <1>3 DEF FailureIsAhead

LEMMA CheckStays ==
  ASSUME GithubOK, GithubStep, NEW j \in DOMAIN checks, checks[j].conclusion # "none"
  PROVE  \E i \in DOMAIN checks' : checks'[i] = checks[j]
<1>1. CASE checks' = checks
  BY <1>1
<1>2. CASE ChecksPrepended
  <2>1. PICK e \in CheckRecord : checks' = <<e>> \o checks
    BY <1>2 DEF ChecksPrepended
  <2>2. j + 1 \in DOMAIN checks' /\ checks'[j + 1] = checks[j]
    BY <2>1 DEF GithubOK
  <2> QED
    BY <2>2
<1>3. CASE ChecksCompleted
  BY <1>3 DEF ChecksCompleted
<1> QED
  BY <1>1, <1>2, <1>3 DEF GithubStep, ChecksStep

LEMMA ItemsStayChecks ==
  ASSUME GithubOK, GithubStep, NEW k, ItemsAreChecks(k)
  PROVE  ItemsAreChecks(k)'
<1>1. TellsState(k)' = TellsState(k)
  OBVIOUS
<1>2. \A x : x.conclusion # "none" /\ (\E j \in DOMAIN checks : checks[j] = x)
               => \E j \in DOMAIN checks' : checks'[j] = x
  BY CheckStays
<1> QED
  BY <1>1, <1>2 DEF ItemsAreChecks

LEMMA SameHeadSameDiff ==
  ASSUME GithubOK, GithubStep, NEW n \in DOMAIN prs, NEW sha \in Seq(Trees),
         Ancestor(sha, HeadOf(n)), HeadOf(n)' = sha
  PROVE  HeadOf(n) = sha /\ Changed(n)' = Changed(n)
<1>1. /\ HeadOf(n) \in Seq(Trees) /\ Ancestor(HeadOf(n), HeadOf(n)')
  BY HeadGrows
<1>2. HeadOf(n) = sha
  BY <1>1, AncestorAntisymmetric
<1> QED
  BY <1>2 DEF GithubStep, Changed

LEMMA DiffStays ==
  ASSUME GithubOK, GithubStep, NEW k, k.sha \in Seq(Trees), DiffSoFar(k)
  PROVE  DiffSoFar(k)'
<1> DEFINE n == k.req.pr
<1>1. TellsDiff(k)' = TellsDiff(k) /\ ChangedPaths(k.sha)' = ChangedPaths(k.sha)
  BY DEF GithubStep, ChangedPaths
<1>2. ASSUME n \in DOMAIN prs, Ancestor(k.sha, HeadOf(n))
      PROVE  n \in DOMAIN prs' /\ Ancestor(k.sha, HeadOf(n)')
  BY <1>2, HeadGrows, AncestorTransitive
<1>3. ASSUME n \in DOMAIN prs, Ancestor(k.sha, HeadOf(n)), HeadOf(n)' = k.sha
      PROVE  HeadOf(n) = k.sha /\ Changed(n)' = Changed(n)
  BY <1>3, SameHeadSameDiff
<1>4. ASSUME n \in DOMAIN prs, Ancestor(k.sha, HeadOf(n)), HeadOf(n)' = k.sha, PagesSoFar(k)
      PROVE  PagesSoFar(k)'
  BY <1>3, <1>4 DEF PagesSoFar
<1> QED
  BY <1>1, <1>2, <1>3, <1>4 DEF DiffSoFar

LEMMA CallInvStays ==
  ASSUME GithubOK, GithubStep, NEW k, CallOK(k), CallInv(k)
  PROVE  CallInv(k)'
  BY ParentStays, FailureStaysAhead, ItemsStayChecks, DiffStays DEF CallInv, CallOK

-----------------------------------------------------------------------------
(* The operations that read.                                               *)

\* A quiet call knows nothing of pages.
LEMMA QuietCallInv ==
  ASSUME NEW c, Quiet(calls'[c]), OnItsParent(calls[c])'
  PROVE  CallInv(calls[c])'
  BY DEF Quiet, CallInv, FailureIsAhead, ItemsAreChecks, DiffSoFar, TellsState, TellsDiff

LEMMA HandlerStep ==
  ASSUME TypeOK, NEW c \in Callers, NEW r \in Requests[c], handler(c, r)
  PROVE  StepOK(c) /\ Quiet(calls'[c])
<1>1. RequestOK(r) /\ (r.op = "commit_files" => r.branch # Base)
  BY CallsAssumption DEF Request, RequestOK
<1>2. GithubStep
  BY GithubUnchanged DEF TypeOK, handler
<1>3. NoCall.page = 1 /\ NoCall.items = <<>> /\ NoCall.sha \in Seq(Trees) /\ DOMAIN NoCall = CallFields
  BY DEF NoCall, CallFields
<1>4. CASE r.op \in DISPATCH
  <2>1. calls' = [calls EXCEPT ![c] = [NoCall EXCEPT !.pc = FirstRequest[r.op], !.req = r]]
    BY <1>4 DEF handler
  <2>2. /\ FirstRequest[r.op] \notin {"objects", "patch_ref", "files", "runs", "suites", "aggregate", "answered"}
        /\ FirstRequest[r.op] = "tip" => r.op = "commit_files"
    BY <1>4 DEF DISPATCH, FirstRequest
  <2>3. /\ DOMAIN calls' = Callers /\ \A d \in Callers \ {c} : calls'[d] = calls[d]
        /\ calls'[c] = [NoCall EXCEPT !.pc = FirstRequest[r.op], !.req = r]
    BY <2>1 DEF TypeOK
  <2>4. /\ DOMAIN calls'[c] = CallFields /\ calls'[c].pc = FirstRequest[r.op] /\ calls'[c].req = r
        /\ calls'[c].page = 1 /\ calls'[c].items = <<>> /\ calls'[c].sha \in Seq(Trees)
    BY <1>3, <2>3 DEF NoCall, CallFields
  <2>5. CallOK(calls'[c])
    BY <1>1, <2>2, <2>4 DEF CallOK
  <2> QED
    BY <1>2, <2>2, <2>3, <2>4, <2>5 DEF StepOK, Moves, OnItsParent, Quiet
<1>5. CASE r.op \notin DISPATCH
  <2>1. calls' = [calls EXCEPT ![c] = [NoCall EXCEPT !.pc = "answered", !.req = r,
                                                     !.answer = Error("unknown_op")]]
    BY <1>5 DEF handler
  <2>2. /\ DOMAIN calls' = Callers /\ \A d \in Callers \ {c} : calls'[d] = calls[d]
        /\ calls'[c] = [NoCall EXCEPT !.pc = "answered", !.req = r, !.answer = Error("unknown_op")]
    BY <2>1 DEF TypeOK
  <2>3. /\ DOMAIN calls'[c] = CallFields /\ calls'[c].pc = "answered" /\ calls'[c].req = r
        /\ calls'[c].page = 1 /\ calls'[c].sha \in Seq(Trees) /\ calls'[c].answer = Error("unknown_op")
    BY <1>3, <2>2 DEF NoCall, CallFields
  <2>4. CallOK(calls'[c]) /\ Quiet(calls'[c])
    BY <1>1, <2>3 DEF CallOK, Quiet, Error
  <2> QED
    BY <1>2, <2>2, <2>3, <2>4 DEF StepOK, Moves, OnItsParent
<1> QED
  BY <1>4, <1>5

LEMMA RequestFailsStep ==
  ASSUME TypeOK, NEW c \in Callers, RequestFails(c)
  PROVE  StepOK(c) /\ Quiet(calls'[c])
  BY QuietError, GithubUnchanged DEF TypeOK, StepOK, RequestFails

LEMMA ReadStep ==
  ASSUME TypeOK, NEW c \in Callers, Read(c)
  PROVE  StepOK(c) /\ Quiet(calls'[c])
<1>1. GithubStep
  BY GithubUnchanged DEF TypeOK, Read
<1>2. PICK a : Return(c, a) /\ a.kind \notin {"diff", "state"}
  <2>1. \A p : FileAnswer(Target(c), p).kind = "file"
    BY DEF FileAnswer
  <2>2. Error("github_error").kind = "github_error"
    BY DEF Error
  <2> QED
    BY <2>1, <2>2 DEF Read
<1> QED
  BY <1>1, <1>2, QuietReturn DEF StepOK

LEMMA TarballStep ==
  ASSUME TypeOK, NEW c \in Callers, Tarball(c)
  PROVE  StepOK(c) /\ Quiet(calls'[c])
<1>1. GithubStep
  BY GithubUnchanged DEF TypeOK, Tarball
<1>2. Return(c, [ok |-> TRUE, kind |-> "archive", sha |-> calls[c].sha])
  BY DEF Tarball
<1> QED
  BY <1>1, <1>2, QuietReturn DEF StepOK

\* The head is read: the call is at its first page, or has failed.
LEMMA ReadHeadStep ==
  ASSUME TypeOK, NEW c \in Callers, NEW next \in {"tarball", "files", "runs"}, ReadHead(c, next)
  PROVE  /\ StepOK(c) /\ UNCHANGED github
         /\ \/ Quiet(calls'[c])
            \/ LET n == calls[c].req.pr
                   k == calls'[c]
               IN /\ n \in DOMAIN prs /\ k.pc = next /\ k.sha = HeadOf(n) /\ k.req = calls[c].req
                  /\ k.since = {f.id : f \in Failed(HeadOf(n))} /\ k.page = 1 /\ k.items = <<>>
<1> DEFINE n == calls[c].req.pr
           since == {f.id : f \in Failed(HeadOf(n))}
<1>1. GithubStep /\ UNCHANGED github
  BY GithubUnchanged DEF TypeOK, ReadHead
<1>2. calls[c].pc = "head" /\ calls[c].page = 1 /\ calls[c].items = <<>>
  BY Types DEF ReadHead, At, TypeOK, CallOK
<1>3. CASE n \in DOMAIN prs
  <2>1. calls' = [calls EXCEPT ![c].pc = next, ![c].sha = HeadOf(n), ![c].since = since]
    BY <1>3 DEF ReadHead
  <2>2. HeadOf(n) \in Seq(Trees)
    BY <1>1, <1>3, HeadGrows DEF TypeOK
  <2> HIDE DEF since
  <2>3. /\ DOMAIN calls' = Callers /\ \A d \in Callers \ {c} : calls'[d] = calls[d]
        /\ calls'[c] = [calls[c] EXCEPT !.pc = next, !.sha = HeadOf(n), !.since = since]
    BY <2>1, Types DEF TypeOK
  <2>4. /\ DOMAIN calls'[c] = CallFields /\ calls'[c].pc = next /\ calls'[c].sha = HeadOf(n)
        /\ calls'[c].req = calls[c].req /\ calls'[c].since = since /\ calls'[c].page = 1
        /\ calls'[c].items = <<>>
    BY <1>2, <2>3, Types DEF CallFields
  <2>5. CallOK(calls'[c])
    BY <2>2, <2>4, Types DEF CallOK
  <2> QED
    BY <1>1, <1>3, <2>3, <2>4, <2>5 DEF StepOK, Moves, OnItsParent, since
<1>4. CASE n \notin DOMAIN prs
  <2>1. Return(c, Error("github_error"))
    BY <1>4 DEF ReadHead
  <2> QED
    BY <1>1, <2>1, QuietError DEF StepOK
<1> QED
  BY <1>3, <1>4

\* The checks listed for a sha are those it has.
LEMMA ChecksListed ==
  ASSUME GithubOK, NEW sha, NEW kind
  PROVE  LET list == ChecksOf(sha, kind)
         IN /\ list \in Seq(CheckRecord)
            /\ \A r \in DOMAIN list : /\ list[r].sha = sha
                                      /\ \E j \in DOMAIN checks : checks[j] = list[r]
            /\ \A i \in DOMAIN checks : checks[i].sha = sha /\ checks[i].kind = kind =>
                 \E r \in DOMAIN list : list[r] = checks[i]
<1> DEFINE I == ListedAt(checks, sha, kind)
           list == ChecksOf(sha, kind)
<1>1. checks \in Seq(CheckRecord) /\ I \in SUBSET DOMAIN checks
  BY DEF GithubOK, ListedAt
<1>2. list = Pick(checks, I)
  BY DEF ChecksOf, ListedAt
<1>3. \A i \in I : checks[i].sha = sha
  BY DEF ListedAt
<1>4. \A i \in DOMAIN checks : checks[i].sha = sha /\ checks[i].kind = kind => i \in I
  BY DEF ListedAt
<1> HIDE DEF I, list
<1>5. /\ list \in Seq(CheckRecord) /\ Len(list) = Cardinality(I) /\ Cardinality(I) \in Nat
      /\ \A r \in 1..Cardinality(I) : Nth(I, r) \in I /\ list[r] = checks[Nth(I, r)]
      /\ \A i \in I : Rank(I, i) \in 1..Cardinality(I) /\ list[Rank(I, i)] = checks[i]
  BY <1>1, <1>2, PickProperties
<1>6. DOMAIN list = 1..Cardinality(I)
  BY <1>5
<1> QED
  BY <1>1, <1>3, <1>4, <1>5, <1>6 DEF list

\* A step that only reads: what the call knows is about the repository as it is.
LEMMA CallInvOfReading ==
  ASSUME UNCHANGED github, NEW c, NEW k, k = calls'[c],
         OnItsParent(calls[c])', FailureIsAhead(k), ItemsAreChecks(k), DiffSoFar(k)
  PROVE  CallInv(calls[c])'
<1>1. UNCHANGED <<refs, prs, checks>>
  BY DEF github
<1>2. FailureIsAhead(calls[c])'
  <2>1. \A sha, kind : ChecksOf(sha, kind)' = ChecksOf(sha, kind)
    BY <1>1 DEF ChecksOf, Pick
  <2> QED
    BY <2>1 DEF FailureIsAhead, TellsState
<1>3. ItemsAreChecks(calls[c])'
  BY <1>1 DEF ItemsAreChecks, TellsState
<1>4. DiffSoFar(calls[c])'
  <2>1. /\ \A n : HeadOf(n)' = HeadOf(n) /\ Changed(n)' = Changed(n)
        /\ \A sha : ChangedPaths(sha)' = ChangedPaths(sha)
    BY <1>1 DEF HeadOf, Changed, Pick, ChangedPaths
  <2>2. PagesSoFar(calls[c])' = PagesSoFar(k)
    BY <2>1 DEF PagesSoFar
  <2> QED
    BY <1>1, <2>1, <2>2 DEF DiffSoFar, TellsDiff
<1> QED
  BY <1>2, <1>3, <1>4 DEF CallInv

LEMMA GetCheckStateStep ==
  ASSUME TypeOK, NEW c \in Callers, get_check_state(c)
  PROVE  StepOK(c) /\ CallInv(calls[c])'
<1>1. ReadHead(c, "runs")
  BY DEF get_check_state
<1>2. CASE Quiet(calls'[c])
  BY <1>1, <1>2, ReadHeadStep, QuietCallInv DEF StepOK
<1>3. CASE ~Quiet(calls'[c])
  <2>1. PICK k, n : k = calls'[c] /\ n = calls[c].req.pr
    OBVIOUS
  <2>2. /\ StepOK(c) /\ UNCHANGED github
        /\ k.pc = "runs" /\ k.sha = HeadOf(n) /\ k.since = {f.id : f \in Failed(HeadOf(n))}
        /\ k.page = 1 /\ k.items = <<>>
    BY <1>1, <1>3, <2>1, ReadHeadStep
  <2>3. k.since # {} => \/ Fails(ChecksOf(k.sha, "run"), 0)
                        \/ Fails(ChecksOf(k.sha, "suite"), 0)
    <3>1. SUFFICES ASSUME k.since # {}
                   PROVE  \E kind \in CheckKinds : Fails(ChecksOf(k.sha, kind), 0)
      BY DEF CheckKinds
    <3>2. PICK i \in DOMAIN checks : /\ checks[i].sha = k.sha
                                     /\ checks[i].conclusion \in CHECK_FAILED_CONCLUSIONS
      BY <2>2, <3>1 DEF Failed
    <3>3. PICK kind \in CheckKinds : checks[i].kind = kind
      <4>1. checks \in Seq(CheckRecord) /\ i \in 1..Len(checks)
        BY DEF TypeOK, GithubOK
      <4>2. checks[i] \in CheckRecord
        BY <4>1, ElementOfSeq
      <4> QED
        BY <4>2 DEF CheckRecord
    <3>4. PICK list : list = ChecksOf(k.sha, kind)
      OBVIOUS
    <3>5. /\ list \in Seq(CheckRecord)
          /\ \A j \in DOMAIN checks : checks[j].sha = k.sha /\ checks[j].kind = kind =>
               \E r \in DOMAIN list : list[r] = checks[j]
      BY <3>4, ChecksListed DEF TypeOK
    <3>6. \E r \in DOMAIN list : list[r] = checks[i] /\ r > 0
      BY <3>2, <3>3, <3>5
    <3>7. Fails(list, 0)
      BY <3>2, <3>6 DEF Fails
    <3> QED
      BY <3>4, <3>7
  <2>4. Skipped(k.page) = 0
    BY <2>2, SkippedType
  <2>5. FailureIsAhead(k) /\ ItemsAreChecks(k) /\ DiffSoFar(k)
    BY <2>2, <2>3, <2>4 DEF FailureIsAhead, ItemsAreChecks, DiffSoFar, TellsState, TellsDiff
  <2> QED
    BY <2>1, <2>2, <2>5, CallInvOfReading DEF StepOK
<1> QED
  BY <1>2, <1>3

\* A failed check beyond the pages so far is on this page or beyond it too, and
\* there is nothing beyond the last.
LEMMA PageShowsFailure ==
  ASSUME NEW items \in Seq(CheckRecord), NEW list \in Seq(CheckRecord), NEW page \in Nat \ {0},
         Fails(items, 0) \/ Fails(list, Skipped(page))
  PROVE  LET b == Batch(list, page)
         IN \/ Fails(items \o b, 0)
            \/ Len(b) >= PerPage /\ Fails(list, Skipped(page + 1))
<1> DEFINE b == Batch(list, page)
           m == Skipped(page)
<1>1. /\ b \in Seq(CheckRecord) /\ Len(b) <= PerPage
      /\ \A i \in 1..Len(b) : m + i \in 1..Len(list) /\ b[i] = list[m + i]
      /\ Len(b) < PerPage => Len(list) <= m + Len(b)
      /\ \A r \in 1..Len(list) : m < r /\ r <= m + PerPage => r - m \in 1..Len(b)
  BY BatchProperties
<1>2. m \in Nat /\ Skipped(page + 1) = m + PerPage /\ PerPage \in Nat
  BY SkippedType, RepoHelperAssumption
<1> HIDE DEF b, m
<1>3. CASE Fails(items, 0)
  <2>1. PICK i \in 1..Len(items) : items[i].conclusion \in CHECK_FAILED_CONCLUSIONS
    BY <1>3 DEF Fails
  <2>2. i \in DOMAIN (items \o b) /\ i > 0 /\ (items \o b)[i] = items[i]
    BY <1>1, ConcatProperties
  <2> QED
    BY <2>1, <2>2 DEF Fails, b
<1>4. CASE Fails(list, m)
  <2>1. PICK r \in 1..Len(list) : r > m /\ list[r].conclusion \in CHECK_FAILED_CONCLUSIONS
    BY <1>4 DEF Fails
  <2>2. CASE r <= m + PerPage
    <3>1. r - m \in 1..Len(b) /\ b[r - m] = list[r]
      BY <1>1, <1>2, <2>1, <2>2
    <3>2. Len(items) + (r - m) \in 1..(Len(items) + Len(b)) /\ Len(items) + (r - m) > Len(items)
          /\ (Len(items) + (r - m)) - Len(items) = r - m
      BY <1>1, <1>2, <2>1, <3>1
    <3>3. /\ Len(items) + (r - m) \in DOMAIN (items \o b)
          /\ (items \o b)[Len(items) + (r - m)] = list[r]
      BY <1>1, <3>1, <3>2, ConcatProperties
    <3> QED
      BY <2>1, <3>2, <3>3 DEF Fails, b
  <2>3. CASE r > m + PerPage
    <3>1. ~(Len(b) < PerPage)
      BY <1>1, <1>2, <2>3
    <3> QED
      BY <1>1, <1>2, <2>1, <2>3, <3>1 DEF Fails, b
  <2> QED
    BY <1>2, <2>1, <2>2, <2>3
<1> QED
  BY <1>3, <1>4 DEF m

\* What a page adds are checks of the sha, as they are.
LEMMA BatchIsListed ==
  ASSUME GithubOK, NEW sha, NEW kind, NEW page \in Nat \ {0}, NEW items \in Seq(CheckRecord),
         \A i \in DOMAIN items : /\ items[i].sha = sha
                                 /\ \/ items[i].conclusion = "none"
                                    \/ \E j \in DOMAIN checks : checks[j] = items[i]
  PROVE  LET all == items \o Batch(ChecksOf(sha, kind), page)
         IN /\ all \in Seq(CheckRecord)
            /\ \A i \in DOMAIN all : /\ all[i].sha = sha
                                     /\ \/ all[i].conclusion = "none"
                                        \/ \E j \in DOMAIN checks : checks[j] = all[i]
<1>1. PICK list : list = ChecksOf(sha, kind)
  OBVIOUS
<1>2. /\ list \in Seq(CheckRecord)
      /\ \A r \in DOMAIN list : /\ list[r].sha = sha
                                /\ \E j \in DOMAIN checks : checks[j] = list[r]
  BY <1>1, ChecksListed
<1>3. PICK b : b = Batch(list, page)
  OBVIOUS
<1>4. /\ b \in Seq(CheckRecord)
      /\ \A i \in DOMAIN b : \E r \in DOMAIN list : b[i] = list[r]
  <2>1. /\ b \in Seq(CheckRecord)
        /\ \A i \in 1..Len(b) : /\ Skipped(page) + i \in 1..Len(list)
                                /\ b[i] = list[Skipped(page) + i]
    <3>1. list \in Seq(CheckRecord)
      BY <1>2
    <3> QED
      BY ONLY <1>3, <3>1, page \in Nat \ {0}, BatchProperties
  <2> QED
    BY <1>2, <2>1
<1>5. \A i \in DOMAIN b : b[i].sha = sha /\ \E j \in DOMAIN checks : checks[j] = b[i]
  BY <1>2, <1>4
<1>6. items \o b \in Seq(CheckRecord)
  BY <1>4
<1>7. \A i \in DOMAIN (items \o b) :
        \/ i \in DOMAIN items /\ (items \o b)[i] = items[i]
        \/ \E j \in DOMAIN b : (items \o b)[i] = b[j]
  BY <1>4, ConcatProperties
<1> QED
  BY <1>1, <1>3, <1>5, <1>6, <1>7

\* A page of runs or suites is added, and what had failed has been seen or is to come.
LEMMA ListPageStep ==
  ASSUME TypeOK, NEW c \in Callers, CallInv(calls[c]), UNCHANGED github,
         NEW kind \in CheckKinds,
         LET pc == IF kind = "run" THEN "runs" ELSE "suites"
         IN At(c, pc) /\ paginate_check_list(c, pc, ChecksOf(calls[c].sha, kind))
  PROVE  StepOK(c) /\ CallInv(calls[c])'
<1>1. PICK o, k : o = calls[c] /\ k = calls'[c]
  OBVIOUS
<1>2. PICK list : list = ChecksOf(o.sha, kind)
  OBVIOUS
<1>3. PICK b : b = Batch(list, o.page)
  OBVIOUS
<1> DEFINE pc == IF kind = "run" THEN "runs" ELSE "suites"
           next == IF kind = "run" THEN "suites" ELSE "aggregate"
<1>4. /\ o.pc = pc /\ DOMAIN o = CallFields /\ RequestOK(o.req) /\ o.sha \in Seq(Trees)
      /\ o.page \in Nat \ {0}
  BY <1>1, Types DEF At
<1>5. /\ DOMAIN calls' = Callers /\ \A d \in Callers \ {c} : calls'[d] = calls[d]
      /\ k = [o EXCEPT !.items = o.items \o b,
                       !.page = IF Len(b) < PerPage THEN 1 ELSE o.page + 1,
                       !.pc = IF ~(Len(b) < PerPage) THEN pc ELSE next]
  BY <1>1, <1>2, <1>3 DEF TypeOK, paginate_check_list, CheckKinds
<1>6. /\ DOMAIN k = CallFields /\ k.req = o.req /\ k.sha = o.sha /\ k.since = o.since
      /\ k.items = o.items \o b
      /\ k.page = IF Len(b) < PerPage THEN 1 ELSE o.page + 1
      /\ k.pc = IF ~(Len(b) < PerPage) THEN pc ELSE next
  BY <1>4, <1>5 DEF CallFields
<1>7. StepOK(c)
  <2>1. k.pc \in {"runs", "suites", "aggregate"} /\ k.page \in Nat \ {0}
    BY <1>4, <1>6 DEF CheckKinds
  <2>2. CallOK(k)
    BY <1>4, <1>6, <2>1 DEF CallOK
  <2> QED
    BY <1>1, <1>5, <2>1, <2>2, GithubUnchanged DEF StepOK, Moves, OnItsParent, TypeOK
<1>8. /\ o.items \in Seq(CheckRecord)
      /\ \A i \in DOMAIN o.items :
           /\ o.items[i].sha = o.sha
           /\ o.items[i].conclusion = "none" \/ \E j \in DOMAIN checks : checks[j] = o.items[i]
  BY <1>1, <1>4 DEF CallInv, ItemsAreChecks
<1>9. ItemsAreChecks(k)
  <2>1. PICK items, page, sha : /\ items = o.items /\ page = o.page /\ sha = o.sha
                               /\ items \in Seq(CheckRecord) /\ page \in Nat \ {0}
    BY <1>4, <1>8
  <2>2. b = Batch(ChecksOf(sha, kind), page)
    BY <1>2, <1>3, <2>1
  <2>3. /\ items \o b \in Seq(CheckRecord)
        /\ \A i \in DOMAIN (items \o b) :
             /\ (items \o b)[i].sha = sha
             /\ \/ (items \o b)[i].conclusion = "none"
                \/ \E j \in DOMAIN checks : checks[j] = (items \o b)[i]
    <3>1. \A i \in DOMAIN items :
            /\ items[i].sha = sha
            /\ items[i].conclusion = "none" \/ \E j \in DOMAIN checks : checks[j] = items[i]
      BY <1>8, <2>1
    <3>2. GithubOK /\ items \in Seq(CheckRecord) /\ page \in Nat \ {0}
      BY <2>1 DEF TypeOK
    <3> QED
      BY ONLY <2>2, <3>1, <3>2, BatchIsListed
  <2>4. k.pc # "answered"
    BY <1>6 DEF CheckKinds
  <2> QED
    BY <1>6, <2>1, <2>3, <2>4 DEF ItemsAreChecks, TellsState
<1>10. list \in Seq(CheckRecord)
  BY <1>2, ChecksListed DEF TypeOK
<1>11. FailureIsAhead(k)
  <2>1. SUFFICES ASSUME k.since # {}
                 PROVE  FailureIsAhead(k)
    BY DEF FailureIsAhead
  <2>2. Skipped(1) = 0
    BY SkippedType
  <2>3. \/ Fails(o.items, 0) \/ Fails(list, Skipped(o.page))
        \/ kind = "run" /\ Fails(ChecksOf(o.sha, "suite"), 0)
    BY <1>1, <1>2, <1>4, <1>6, <2>1 DEF CallInv, FailureIsAhead, CheckKinds
  <2>4. \/ Fails(k.items, 0)
        \/ Len(b) >= PerPage /\ Fails(list, Skipped(o.page + 1))
        \/ kind = "run" /\ Fails(ChecksOf(o.sha, "suite"), 0)
    <3>1. CASE Fails(o.items, 0) \/ Fails(list, Skipped(o.page))
      BY <1>3, <1>4, <1>6, <1>8, <1>10, <3>1, PageShowsFailure
    <3> QED
      BY <2>3, <3>1
  <2>5. Len(b) >= PerPage => ~(Len(b) < PerPage)
    BY <1>3, <1>4, <1>10, BatchProperties, RepoHelperAssumption
  <2> QED
    BY <1>2, <1>4, <1>6, <2>2, <2>4, <2>5 DEF FailureIsAhead, TellsState, CheckKinds
<1>12. DiffSoFar(k)
  BY <1>6 DEF DiffSoFar, TellsDiff, CheckKinds
<1> QED
  BY <1>1, <1>7, <1>9, <1>11, <1>12, CallInvOfReading DEF StepOK

LEMMA CheckPageStep ==
  ASSUME TypeOK, NEW c \in Callers, CallInv(calls[c]), CheckPage(c)
  PROVE  StepOK(c) /\ CallInv(calls[c])'
<1>1. CASE At(c, "runs") /\ paginate_check_list(c, "runs", ChecksOf(calls[c].sha, "run"))
  BY <1>1, ListPageStep DEF CheckPage, CheckKinds
<1>2. CASE At(c, "suites") /\ paginate_check_list(c, "suites", ChecksOf(calls[c].sha, "suite"))
  BY <1>2, ListPageStep DEF CheckPage, CheckKinds
<1> QED
  BY <1>1, <1>2 DEF CheckPage

LEMMA AggregateStep ==
  ASSUME TypeOK, NEW c \in Callers, CallInv(calls[c]), Aggregate(c)
  PROVE  StepOK(c) /\ CallInv(calls[c])'
<1>1. PICK o, k : o = calls[c] /\ k = calls'[c]
  OBVIOUS
<1>2. PICK state : state = aggregate_check_state(o.items)
  OBVIOUS
<1>3. /\ o.pc = "aggregate" /\ UNCHANGED github
      /\ Return(c, [ok |-> TRUE, kind |-> "state", sha |-> o.sha, state |-> state])
  BY <1>1, <1>2 DEF Aggregate, At
<1>4. /\ StepOK(c) /\ k.pc = "answered" /\ k.sha = o.sha /\ k.items = o.items /\ k.since = o.since
      /\ k.answer = [ok |-> TRUE, kind |-> "state", sha |-> o.sha, state |-> state]
  BY <1>1, <1>3, ReturnStep, GithubUnchanged DEF StepOK, TypeOK
<1>5. /\ o.items \in Seq(CheckRecord)
      /\ \A i \in DOMAIN o.items :
           /\ o.items[i].sha = o.sha
           /\ o.items[i].conclusion = "none" \/ \E j \in DOMAIN checks : checks[j] = o.items[i]
      /\ o.since # {} => Fails(o.items, 0)
  BY <1>1, <1>3 DEF CallInv, ItemsAreChecks, FailureIsAhead
<1>6. FailureIsAhead(k)
  <2>1. Fails(o.items, 0) => state = "failed"
    BY <1>2 DEF Fails, aggregate_check_state
  <2> QED
    BY <1>4, <1>5, <2>1 DEF FailureIsAhead, TellsState
<1>7. ItemsAreChecks(k)
  <2>1. state = "passed" => /\ o.items # <<>>
                            /\ \A i \in DOMAIN o.items :
                                 o.items[i].conclusion \in CHECK_PASSED_CONCLUSIONS
    BY <1>2 DEF aggregate_check_state
  <2> QED
    BY <1>4, <1>5, <2>1 DEF ItemsAreChecks, TellsState
<1>8. DiffSoFar(k)
  BY <1>4 DEF DiffSoFar, TellsDiff
<1> QED
  BY <1>1, <1>3, <1>4, <1>6, <1>7, <1>8, CallInvOfReading DEF StepOK

LEMMA ArchiveStep ==
  ASSUME TypeOK, NEW c \in Callers, get_pr_archive_url(c)
  PROVE  StepOK(c) /\ Quiet(calls'[c])
<1>1. ReadHead(c, "tarball")
  BY DEF get_pr_archive_url
<1> QED
  BY <1>1, ReadHeadStep DEF Quiet

LEMMA GetPrDiffStep ==
  ASSUME TypeOK, NEW c \in Callers, get_pr_diff(c)
  PROVE  StepOK(c) /\ CallInv(calls[c])'
<1>1. ReadHead(c, "files")
  BY DEF get_pr_diff
<1>2. CASE Quiet(calls'[c])
  BY <1>1, <1>2, ReadHeadStep, QuietCallInv DEF StepOK
<1>3. CASE ~Quiet(calls'[c])
  <2>1. PICK k, n : k = calls'[c] /\ n = calls[c].req.pr
    OBVIOUS
  <2>2. /\ StepOK(c) /\ UNCHANGED github
        /\ n \in DOMAIN prs /\ k.pc = "files" /\ k.sha = HeadOf(n) /\ k.req.pr = n
        /\ k.page = 1 /\ k.items = <<>>
    BY <1>1, <1>3, <2>1, ReadHeadStep
  <2>3. HeadOf(n) \in Seq(Trees) /\ Ancestor(HeadOf(n), HeadOf(n))
    BY <2>2, HeadGrows, AncestorReflexive DEF StepOK, TypeOK
  <2>4. Skipped(1) = 0 /\ 0 < DiffCap
    BY SkippedType, RepoHelperAssumption
  <2>5. Len(Changed(n)) \in Nat
    <3>1. PICK I : I \in SUBSET DOMAIN PathOrder /\ Changed(n) = Pick(PathOrder, I)
      BY DEF Changed
    <3> QED
      BY <3>1, PickProperties, RepoHelperAssumption
  <2>6. PagesSoFar(k)
    BY <2>2, <2>4, <2>5 DEF PagesSoFar, Shows
  <2>7. DiffSoFar(k)
    BY <2>2, <2>3, <2>4, <2>6 DEF DiffSoFar, TellsDiff
  <2>8. FailureIsAhead(k) /\ ItemsAreChecks(k)
    BY <2>2 DEF FailureIsAhead, ItemsAreChecks, TellsState
  <2> QED
    BY <2>1, <2>2, <2>7, <2>8, CallInvOfReading DEF StepOK
<1> QED
  BY <1>2, <1>3

\* The diff of a PR lists the paths at which its head differs from the base.
LEMMA ChangedLists ==
  ASSUME NEW n
  PROVE  /\ Changed(n) \in Seq(Paths)
         /\ {Changed(n)[i] : i \in DOMAIN Changed(n)} = ChangedPaths(HeadOf(n))
<1> DEFINE old == TreeOf(refs[Base])
           new == TreeOf(HeadOf(n))
           I == {i \in DOMAIN PathOrder : old[PathOrder[i]] # new[PathOrder[i]]}
<1>1. PathOrder \in Seq(Paths) /\ I \in SUBSET DOMAIN PathOrder /\ Changed(n) = Pick(PathOrder, I)
  BY RepoHelperAssumption DEF Changed
<1>2. ChangedPaths(HeadOf(n)) = {PathOrder[i] : i \in I}
  BY DEF ChangedPaths, Paths
<1> HIDE DEF I
<1>3. PICK list : list = Changed(n)
  OBVIOUS
<1>4. /\ list \in Seq(Paths) /\ Len(list) = Cardinality(I) /\ Cardinality(I) \in Nat
      /\ \A r \in 1..Cardinality(I) : \E i \in I : list[r] = PathOrder[i]
      /\ \A i \in I : \E r \in 1..Cardinality(I) : list[r] = PathOrder[i]
  <2>1. /\ list \in Seq(Paths) /\ Len(list) = Cardinality(I) /\ Cardinality(I) \in Nat
        /\ \A r \in 1..Cardinality(I) : Nth(I, r) \in I /\ list[r] = PathOrder[Nth(I, r)]
        /\ \A i \in I : Rank(I, i) \in 1..Cardinality(I) /\ list[Rank(I, i)] = PathOrder[i]
    BY <1>1, <1>3, PickProperties
  <2> QED
    BY <2>1
<1>5. DOMAIN list = 1..Cardinality(I)
  BY <1>4
<1>6. {list[r] : r \in 1..Cardinality(I)} = {PathOrder[i] : i \in I}
  BY <1>4
<1> QED
  BY <1>2, <1>3, <1>4, <1>5, <1>6

WithEntries(items, b) == items \o [i \in DOMAIN b |-> diff_file_entry(b[i])]
Capped(all) == SubSeq(all, 1, IF Len(all) < DiffCap THEN Len(all) ELSE DiffCap)

\* The entries of a page follow those of the pages before it.
LEMMA EntriesOfPages ==
  ASSUME NEW list \in Seq(Paths), NEW items \in Seq(Entries), NEW page \in Nat \ {0}
  PROVE  LET b == Batch(list, page)
             all == WithEntries(items, b)
         IN /\ b \in Seq(Paths) /\ Len(b) <= PerPage /\ Capped(all) \in Seq(Entries)
            /\ ~(Len(Capped(all)) >= DiffCap) => Capped(all) = all /\ Len(all) < DiffCap
            /\ Len(items) = Skipped(page) /\ Shows(items, list) =>
                 /\ Len(all) = Skipped(page) + Len(b) /\ Shows(all, list)
                 /\ Len(b) < PerPage => Len(all) = Len(list)
<1>1. PICK b : b = Batch(list, page)
  OBVIOUS
<1>2. PICK m : m = Skipped(page)
  OBVIOUS
<1>3. /\ b \in Seq(Paths) /\ Len(b) <= PerPage
      /\ \A i \in 1..Len(b) : m + i \in 1..Len(list) /\ b[i] = list[m + i]
      /\ Len(b) < PerPage => Len(list) <= m + Len(b)
  BY <1>1, <1>2, BatchProperties
<1>4. PICK e : e = [i \in DOMAIN b |-> diff_file_entry(b[i])]
  OBVIOUS
<1>5. e \in Seq(Entries) /\ Len(e) = Len(b) /\ \A i \in 1..Len(b) : e[i] = diff_file_entry(b[i])
  BY <1>3, <1>4 DEF Entries
<1>6. PICK all : all = items \o e /\ all = WithEntries(items, b)
  BY <1>4 DEF WithEntries
<1>7. /\ all \in Seq(Entries) /\ Len(all) = Len(items) + Len(b)
      /\ \A i \in 1..Len(items) : all[i] = items[i]
      /\ \A i \in 1..Len(b) : all[Len(items) + i] = e[i]
  <2>1. /\ all \in Seq(Entries) /\ Len(all) = Len(items) + Len(e)
        /\ \A i \in 1..(Len(items) + Len(e)) :
             all[i] = IF i <= Len(items) THEN items[i] ELSE e[i - Len(items)]
    <3>1. e \in Seq(Entries)
      BY <1>5
    <3> QED
      BY ONLY items \in Seq(Entries), <3>1, <1>6, ConcatProperties
  <2>2. ASSUME NEW i \in 1..Len(items)
        PROVE  all[i] = items[i]
    BY <1>5, <2>1
  <2>3. ASSUME NEW i \in 1..Len(b)
        PROVE  all[Len(items) + i] = e[i]
    <3>1. /\ Len(items) + i \in 1..(Len(items) + Len(e)) /\ ~(Len(items) + i <= Len(items))
          /\ (Len(items) + i) - Len(items) = i
      BY <1>5
    <3> QED
      BY <2>1, <3>1
  <2> QED
    BY <1>5, <2>1, <2>2, <2>3
<1>9. /\ Capped(all) \in Seq(Entries)
      /\ ~(Len(Capped(all)) >= DiffCap) => Capped(all) = all /\ Len(all) < DiffCap
  BY <1>7, RepoHelperAssumption DEF Capped
<1>10. ASSUME Len(items) = m, Len(items) <= Len(list),
              \A i \in 1..Len(items) : items[i] = diff_file_entry(list[i])
       PROVE  /\ Len(all) = m + Len(b) /\ Len(all) <= Len(list)
              /\ \A i \in 1..Len(all) : all[i] = diff_file_entry(list[i])
              /\ Len(b) < PerPage => Len(all) = Len(list)
  <2>1. Len(all) = m + Len(b) /\ m \in Nat /\ Len(b) \in Nat /\ Len(list) \in Nat
    BY <1>3, <1>7, <1>10
  <2>2. Len(all) <= Len(list)
    <3>1. CASE Len(b) = 0
      BY <1>10, <2>1, <3>1
    <3>2. CASE Len(b) \in 1..Len(b)
      BY <1>3, <2>1, <3>2
    <3> QED
      BY <2>1, <3>1, <3>2
  <2>3. ASSUME NEW i \in 1..Len(all)
        PROVE  all[i] = diff_file_entry(list[i])
    <3>1. CASE i <= m
      BY <1>7, <1>10, <2>1, <3>1
    <3>2. CASE i > m
      <4>1. PICK j \in 1..Len(b) : i = m + j
        <5>1. i - m \in 1..Len(b) /\ i = m + (i - m)
          BY <2>1, <3>2
        <5> QED
          BY <5>1
      <4>2. all[i] = e[j] /\ e[j] = diff_file_entry(b[j]) /\ b[j] = list[i]
        BY <1>3, <1>5, <1>7, <1>10, <4>1
      <4> QED
        BY <4>2
    <3> QED
      BY <2>1, <3>1, <3>2
  <2>4. Len(b) < PerPage => Len(all) = Len(list)
    BY <1>3, <2>1, <2>2
  <2> QED
    BY <2>1, <2>2, <2>3, <2>4
<1> QED
  BY <1>1, <1>2, <1>3, <1>6, <1>9, <1>10 DEF Shows

LEMMA DiffPageStep ==
  ASSUME TypeOK, NEW c \in Callers, CallInv(calls[c]), DiffPage(c)
  PROVE  StepOK(c) /\ CallInv(calls[c])'
<1>1. PICK o, k : o = calls[c] /\ k = calls'[c]
  OBVIOUS
<1>2. PICK n : n = o.req.pr
  OBVIOUS
<1>3. PICK list : list = Changed(n)
  OBVIOUS
<1>4. PICK b : b = Batch(list, o.page)
  OBVIOUS
<1>5. PICK all : all = WithEntries(o.items, b)
  OBVIOUS
<1>6. PICK files : files = Capped(all)
  OBVIOUS
<1>7. /\ o.pc = "files" /\ UNCHANGED github /\ DOMAIN o = CallFields /\ RequestOK(o.req)
      /\ o.sha \in Seq(Trees) /\ o.page \in Nat \ {0}
  BY <1>1, Types DEF DiffPage, At
<1>8. /\ n \in DOMAIN prs /\ Ancestor(o.sha, HeadOf(n)) /\ o.items \in Seq(Entries)
      /\ HeadOf(n) = o.sha => Len(o.items) = Skipped(o.page) /\ Shows(o.items, list)
  BY <1>1, <1>2, <1>3, <1>7 DEF CallInv, DiffSoFar, PagesSoFar
<1>9. list \in Seq(Paths) /\ {list[i] : i \in DOMAIN list} = ChangedPaths(HeadOf(n))
  BY <1>3, ChangedLists
<1>10. /\ b \in Seq(Paths) /\ Len(b) <= PerPage /\ files \in Seq(Entries)
       /\ ~(Len(files) >= DiffCap) => files = all /\ Len(files) < DiffCap
       /\ HeadOf(n) = o.sha =>
            /\ Len(all) = Skipped(o.page) + Len(b) /\ Shows(all, list)
            /\ Len(b) < PerPage => Len(all) = Len(list)
  <2>1. PICK page \in Nat \ {0} : page = o.page
    BY <1>7
  <2>2. PICK items \in Seq(Entries) : items = o.items
    BY <1>8
  <2>3. b = Batch(list, page) /\ all = WithEntries(items, b)
    BY <1>4, <1>5, <2>1, <2>2
  <2>4. list \in Seq(Paths)
    BY <1>9
  <2>5. /\ b \in Seq(Paths) /\ Len(b) <= PerPage /\ files \in Seq(Entries)
        /\ ~(Len(files) >= DiffCap) => files = all /\ Len(files) < DiffCap
        /\ Len(items) = Skipped(page) /\ Shows(items, list) =>
             /\ Len(all) = Skipped(page) + Len(b) /\ Shows(all, list)
             /\ Len(b) < PerPage => Len(all) = Len(list)
    BY <1>6, <2>3, <2>4, EntriesOfPages
  <2> QED
    BY <1>8, <2>1, <2>2, <2>5
<1>11. IF Len(b) < PerPage \/ Len(files) >= DiffCap
         THEN Return(c, [ok |-> TRUE, kind |-> "diff", sha |-> o.sha, files |-> files,
                         files_truncated |-> Len(files) >= DiffCap])
         ELSE calls' = [calls EXCEPT ![c].items = files, ![c].page = o.page + 1]
  BY <1>1, <1>2, <1>3, <1>4, <1>5, <1>6 DEF DiffPage, WithEntries, Capped
<1>12. CASE Len(b) < PerPage \/ Len(files) >= DiffCap
  <2>1. PICK cut : cut = (Len(files) >= DiffCap)
    OBVIOUS
  <2>2. Return(c, [ok |-> TRUE, kind |-> "diff", sha |-> o.sha, files |-> files, files_truncated |-> cut])
    BY <1>11, <1>12, <2>1
  <2>3. /\ StepOK(c) /\ k.pc = "answered" /\ k.sha = o.sha /\ k.req = o.req
        /\ k.answer = [ok |-> TRUE, kind |-> "diff", sha |-> o.sha, files |-> files,
                       files_truncated |-> cut]
    BY <1>1, <1>7, <2>2, ReturnStep, GithubUnchanged DEF StepOK, TypeOK
  <2>4. ASSUME HeadOf(n) = o.sha, ~cut
        PROVE  {files[i].path : i \in DOMAIN files} = ChangedPaths(o.sha)
    <3>1. files = all /\ Len(b) < PerPage
      BY <1>10, <1>12, <2>1, <2>4
    <3>2. Len(files) = Len(list) /\ \A i \in 1..Len(files) : files[i] = diff_file_entry(list[i])
      BY <1>10, <2>4, <3>1 DEF Shows
    <3>3. DOMAIN files = 1..Len(files) /\ DOMAIN list = 1..Len(list)
      BY <1>9, <1>10
    <3>4. \A p : diff_file_entry(p).path = p
      BY DEF diff_file_entry
    <3>5. \A i \in 1..Len(files) : files[i].path = list[i]
      BY <3>2, <3>4
    <3>6. {files[i].path : i \in DOMAIN files} = {list[i] : i \in DOMAIN list}
      BY <3>2, <3>3, <3>5
    <3> QED
      BY <1>9, <2>4, <3>6
  <2>5. DiffSoFar(k)
    <3>1. /\ k.answer.files = files /\ k.answer.files_truncated = cut /\ k.answer.sha = o.sha
          /\ k.req.pr = n
      BY <1>2, <2>3
    <3> QED
      BY <1>8, <1>10, <2>3, <2>4, <3>1 DEF DiffSoFar, TellsDiff
  <2>6. FailureIsAhead(k) /\ ItemsAreChecks(k)
    BY <2>3 DEF FailureIsAhead, ItemsAreChecks, TellsState
  <2> QED
    BY <1>1, <1>7, <2>3, <2>5, <2>6, CallInvOfReading DEF StepOK
<1>13. CASE ~(Len(b) < PerPage \/ Len(files) >= DiffCap)
  <2>1. /\ DOMAIN calls' = Callers /\ \A d \in Callers \ {c} : calls'[d] = calls[d]
        /\ k = [o EXCEPT !.items = files, !.page = o.page + 1]
    BY <1>1, <1>11, <1>13 DEF TypeOK
  <2>2. /\ DOMAIN k = CallFields /\ k.req = o.req /\ k.sha = o.sha /\ k.pc = "files"
        /\ k.items = files /\ k.page = o.page + 1
    BY <1>7, <2>1 DEF CallFields
  <2>3. CallOK(k)
    BY <1>7, <2>2 DEF CallOK
  <2>4. StepOK(c)
    BY <1>1, <1>7, <2>1, <2>2, <2>3, GithubUnchanged DEF StepOK, Moves, OnItsParent, TypeOK
  <2>5. Len(b) = PerPage /\ Skipped(o.page + 1) = Skipped(o.page) + PerPage
    <3>1. Len(b) \in Nat /\ PerPage \in Nat
      BY <1>10, RepoHelperAssumption
    <3>2. Skipped(o.page + 1) = Skipped(o.page) + PerPage
      BY <1>7, SkippedType
    <3> QED
      BY <1>10, <1>13, <3>1, <3>2
  <2>6. HeadOf(n) = k.sha => PagesSoFar(k)
    BY <1>2, <1>3, <1>10, <1>13, <2>2, <2>5 DEF PagesSoFar
  <2>7. DiffSoFar(k)
    BY <1>2, <1>8, <1>10, <1>13, <2>2, <2>6 DEF DiffSoFar, TellsDiff
  <2>8. FailureIsAhead(k) /\ ItemsAreChecks(k)
    BY <2>2 DEF FailureIsAhead, ItemsAreChecks, TellsState
  <2> QED
    BY <1>1, <1>7, <2>4, <2>7, <2>8, CallInvOfReading DEF StepOK
<1> QED
  BY <1>12, <1>13

LEMMA RunOpStep ==
  ASSUME TypeOK, NEW c \in Callers, CallInv(calls[c]), run_op(c)
  PROVE  StepOK(c) /\ CallInv(calls[c])'
<1>1. CASE Write(c) \/ Read(c) \/ get_pr_archive_url(c) \/ Tarball(c) \/ RequestFails(c)
  <2>1. StepOK(c) /\ Quiet(calls'[c])
    BY <1>1, WriteStep, ReadStep, ArchiveStep, TarballStep, RequestFailsStep DEF CallInv
  <2> QED
    BY <2>1, QuietCallInv DEF StepOK
<1>2. CASE get_pr_diff(c) \/ DiffPage(c) \/ get_check_state(c) \/ CheckPage(c) \/ Aggregate(c)
  BY <1>2, GetPrDiffStep, DiffPageStep, GetCheckStateStep, CheckPageStep, AggregateStep
<1> QED
  BY <1>1, <1>2 DEF run_op, Reading

-----------------------------------------------------------------------------
(* The invariant.                                                          *)

LEMMA CallStep ==
  ASSUME IInv, NEW c \in Callers, StepOK(c), CallInv(calls[c])'
  PROVE  IInv'
<1>1. GithubOK /\ GithubStep
  BY DEF IInv, TypeOK, StepOK
<1>2. ASSUME NEW d \in Callers
      PROVE  CallOK(calls'[d]) /\ CallInv(calls[d])'
  <2>1. CASE d = c
    BY <2>1 DEF StepOK
  <2>2. CASE d # c
    <3>1. PICK k : k = calls[d] /\ k = calls'[d]
      BY <2>2 DEF StepOK, Moves
    <3>2. CallOK(k) /\ CallInv(k)
      BY <3>1 DEF IInv, TypeOK
    <3>3. CallInv(k)'
      BY <1>1, <3>2, CallInvStays
    <3>4. CallInv(calls[d])'
      BY <3>1, <3>3
    <3> QED
      BY <3>1, <3>2, <3>4
  <2> QED
    BY <2>1, <2>2
<1> QED
  BY <1>1, <1>2 DEF IInv, TypeOK, StepOK, GithubStep, Moves, CallOK

\* A step of others, or none.
LEMMA WorldStep ==
  ASSUME IInv, GithubStep, UNCHANGED calls
  PROVE  IInv'
<1>1. GithubOK /\ DOMAIN calls' = Callers
  BY DEF IInv, TypeOK
<1>2. ASSUME NEW d \in Callers
      PROVE  CallOK(calls'[d]) /\ CallInv(calls[d])'
  <2>1. PICK k : k = calls[d] /\ k = calls'[d]
    OBVIOUS
  <2>2. CallOK(k) /\ CallInv(k)
    BY <2>1 DEF IInv, TypeOK
  <2>3. CallInv(k)'
    BY <1>1, <2>2, CallInvStays
  <2>4. CallInv(calls[d])'
    BY <2>1, <2>3
  <2> QED
    BY <2>1, <2>2, <2>4
<1> QED
  BY <1>1, <1>2 DEF IInv, TypeOK, GithubStep, CallOK

LEMMA InvInit ==
  ASSUME Init
  PROVE  IInv
<1>1. PICK repo \in Repos : HInit(repo)
  BY DEF Init
<1>2. IsRepo(repo)
  BY CallsAssumption
<1>3. GithubOK
  BY <1>1, <1>2 DEF HInit, IsRepo, RefsOK, GithubOK
<1>4. RequestOK(NoRequest)
  <2>1. PICK f : f = [p \in {} |-> NoFile]
    OBVIOUS
  <2>2. {} \in SUBSET Paths /\ f \in [{} -> Contents]
    BY <2>1
  <2>3. NoRequest = [op |-> "none", branch |-> Base, files |-> f, pr |-> 0]
    BY <2>1 DEF NoRequest
  <2>4. Base \in Branches
    BY RepoHelperAssumption
  <2> QED
    BY <2>2, <2>3, <2>4 DEF RequestOK
<1>5. CallOK(NoCall)
  BY <1>4 DEF NoCall, CallOK, CallFields
<1>6. DOMAIN calls = Callers /\ \A c \in Callers : calls[c] = NoCall
  BY <1>1 DEF HInit
<1>7. CallInv(NoCall)
  BY DEF NoCall, CallInv, OnItsParent, FailureIsAhead, ItemsAreChecks, DiffSoFar, TellsState, TellsDiff
<1> QED
  BY <1>3, <1>5, <1>6, <1>7 DEF IInv, TypeOK

\* Any step is a step of one call or of none.
LEMMA AnyStep ==
  ASSUME IInv, [Next]_vars
  PROVE  IInv' /\ GithubStep
<1>1. TypeOK /\ GithubOK
  BY DEF IInv, TypeOK
<1>2. CASE \E c \in Callers, r \in UNION {Requests[d] : d \in Callers} : r \in Requests[c] /\ handler(c, r)
  <2>1. PICK c \in Callers : StepOK(c) /\ Quiet(calls'[c])
    BY <1>1, <1>2, HandlerStep
  <2> QED
    BY <2>1, QuietCallInv, CallStep DEF StepOK
<1>3. CASE \E c \in Callers : run_op(c)
  <2>1. PICK c \in Callers : StepOK(c) /\ CallInv(calls[c])'
    BY <1>1, <1>3, RunOpStep DEF IInv
  <2> QED
    BY <2>1, CallStep DEF StepOK
<1>4. CASE World
  <2>1. GithubStep
    <3>1. {"success", "failure"} \subseteq Conclusions
      BY DEF Conclusions, CHECK_FAILED_CONCLUSIONS, CHECK_PASSED_CONCLUSIONS
    <3> QED
      BY <1>1, <1>4, <3>1, PushStep, ClosePrStep, CheckStartsStep, CheckCompletesStep DEF World
  <2>2. UNCHANGED calls
    BY <1>4 DEF World, Push, ClosePr, CheckStarts, CheckCompletes
  <2> QED
    BY <2>1, <2>2, WorldStep
<1>5. CASE UNCHANGED vars
  BY <1>1, <1>5, GithubUnchanged, WorldStep DEF vars, hvars, github
<1> QED
  BY <1>2, <1>3, <1>4, <1>5 DEF Next

LEMMA CommitLands ==
  ASSUME IInv, NEW c \in Callers, update_ref(c), refs' # refs, NEW p \in Paths
  PROVE  LET b == Target(c)
             files == calls[c].req.files
         IN TreeOf(refs'[b])[p] = IF p \in DOMAIN files THEN files[p] ELSE TreeOf(refs[b])[p]
<1>1. PICK b, files, sha : b = Target(c) /\ files = calls[c].req.files /\ sha = calls[c].sha
  OBVIOUS
<1>2. calls[c].pc = "patch_ref" /\ Ancestor(refs[b], sha) /\ SetRef(b, sha)
  BY <1>1 DEF update_ref, At
<1>3. refs'[b] = sha
  BY <1>2 DEF SetRef
<1>4. PICK s \in Seq(Trees) : /\ sha = Append(s, Upsert(TreeOf(s), files))
                              /\ b \in DOMAIN refs /\ Ancestor(s, refs[b])
  BY <1>1, <1>2 DEF IInv, CallInv, OnItsParent, Target
<1>5. refs[b] \in Seq(Trees) /\ RequestOK(calls[c].req)
  BY <1>4, Types DEF IInv, RefsOK
<1>6. PICK tree \in Trees : tree = Upsert(TreeOf(s), files)
  BY <1>1, <1>5, TreeOfType, UpsertType
<1>7. TreeOf(sha) = tree
  BY <1>4, <1>6, TreeOfAppend
<1>8. refs[b] = sha \/ refs[b] = s
  BY <1>2, <1>4, <1>5, <1>6, AncestorBetween
<1>9. tree[p] = IF p \in DOMAIN files THEN files[p] ELSE TreeOf(s)[p]
  BY <1>6 DEF Upsert
<1> QED
  BY <1>1, <1>3, <1>7, <1>8, <1>9

-----------------------------------------------------------------------------
(* The theorems.                                                           *)

\* The repository and every call stay well typed, every commit under way has as
\* parent a tip its branch had, and what a call that reads pages has collected
\* is what the list it reads holds.
THEOREM InvariantHolds == Spec => []IInv
<1>1. Init => IInv
  BY InvInit
<1>2. IInv /\ [Next]_vars => IInv'
  BY AnyStep
<1> QED
  BY <1>1, <1>2, PTL DEF Spec

\* get_check_state never misses a check that had failed when it read the head,
\* however many are added while it reads the pages, and says "passed" only when
\* every check it read, at least one, has passed.
THEOREM CheckStateHolds == Spec => []CheckStateIsTrue
<1>1. ASSUME IInv, NEW c \in Callers, Answered(c, "state")
      PROVE  /\ calls[c].since # {} => Answer(c).state = "failed"
             /\ Answer(c).state = "passed" =>
                  /\ calls[c].items # <<>> /\ calls[c].items \in Seq(CheckRecord)
                  /\ \A i \in DOMAIN calls[c].items :
                       /\ calls[c].items[i].sha = Answer(c).sha
                       /\ calls[c].items[i].conclusion \in CHECK_PASSED_CONCLUSIONS
                       /\ \E j \in DOMAIN checks : checks[j] = calls[c].items[i]
  <2>1. CallInv(calls[c]) /\ TellsState(calls[c])
    BY <1>1 DEF IInv, Answered, Answer, At, TellsState
  <2>2. "none" \notin CHECK_PASSED_CONCLUSIONS
    BY DEF CHECK_PASSED_CONCLUSIONS
  <2> QED
    BY <2>1, <2>2 DEF CallInv, FailureIsAhead, ItemsAreChecks, Answer
<1>2. IInv => FailedCheckIsSeen
  BY <1>1 DEF FailedCheckIsSeen
<1>3. IInv => PassedMeansPassed
  <2>1. SUFFICES ASSUME IInv, NEW c \in Callers, Answered(c, "state"), Answer(c).state = "passed"
                 PROVE  /\ calls[c].items # <<>>
                        /\ \A i \in DOMAIN calls[c].items : calls[c].items[i].sha = Answer(c).sha
                        /\ \E k \in {checks[i] : i \in DOMAIN checks} :
                             k.sha = Answer(c).sha /\ k.conclusion \in CHECK_PASSED_CONCLUSIONS
                        /\ \A i \in DOMAIN calls[c].items : LET k == calls[c].items[i]
                             IN \E j \in DOMAIN checks :
                                  checks[j] = k /\ k.conclusion \in CHECK_PASSED_CONCLUSIONS
    BY DEF PassedMeansPassed
  <2>2. PICK items : items = calls[c].items
    OBVIOUS
  <2>3. /\ items # <<>> /\ items \in Seq(CheckRecord)
        /\ \A i \in DOMAIN items :
             /\ items[i].sha = Answer(c).sha
             /\ items[i].conclusion \in CHECK_PASSED_CONCLUSIONS
             /\ \E j \in DOMAIN checks : checks[j] = items[i]
    BY <1>1, <2>1, <2>2
  <2>4. 1 \in DOMAIN items
    BY <2>3
  <2>5. PICK j \in DOMAIN checks : checks[j] = items[1]
    BY <2>3, <2>4
  <2>6. checks[j].sha = Answer(c).sha /\ checks[j].conclusion \in CHECK_PASSED_CONCLUSIONS
    BY <2>3, <2>4, <2>5
  <2> QED
    BY <2>2, <2>3, <2>6
<1>4. IInv => CheckStateIsTrue
  BY <1>2, <1>3 DEF CheckStateIsTrue
<1> QED
  BY <1>4, InvariantHolds, PTL

\* get_pr_diff cuts nothing silently: each entry is whole or marked, and a list
\* that is not marked names every path at which the head it answers for, if it
\* still is the head, differs from the base, and no other.
THEOREM NothingIsCut == Spec => []NothingCutSilently
<1>1. ASSUME IInv, NEW c \in Callers, Answered(c, "diff")
      PROVE  LET a == Answer(c)
             IN /\ \A i \in DOMAIN a.files : a.files[i].whole \/ a.files[i].truncated
                /\ refs[prs[calls[c].req.pr].head] = a.sha /\ ~a.files_truncated =>
                     {a.files[i].path : i \in DOMAIN a.files} =
                       {p \in Paths : TreeOf(a.sha)[p] # TreeOf(refs[Base])[p]}
  <2>1. PICK k, a : k = calls[c] /\ a = k.answer
    OBVIOUS
  <2>2. TellsDiff(k) /\ DiffSoFar(k)
    BY <1>1, <2>1 DEF IInv, CallInv, Answered, Answer, At, TellsDiff
  <2>3. /\ a.sha = k.sha /\ a.files \in Seq(Entries)
        /\ HeadOf(k.req.pr) = k.sha /\ ~a.files_truncated =>
             {a.files[i].path : i \in DOMAIN a.files} = ChangedPaths(k.sha)
    BY <2>1, <2>2 DEF DiffSoFar
  <2>4. \A i \in DOMAIN a.files : a.files[i].whole \/ a.files[i].truncated
    <3>1. \A i \in DOMAIN a.files : a.files[i] \in Entries
      BY <2>3
    <3>2. ASSUME NEW p \in Paths
          PROVE  diff_file_entry(p).whole \/ diff_file_entry(p).truncated
      <4>1. CASE Patch[p] = "short"
        BY <4>1 DEF diff_file_entry
      <4>2. CASE Patch[p] # "short"
        BY <4>2 DEF diff_file_entry
      <4> QED
        BY <4>1, <4>2
    <3>3. \A e \in Entries : e.whole \/ e.truncated
      BY <3>2 DEF Entries
    <3> QED
      BY <3>1, <3>3
  <2> QED
    BY <2>1, <2>3, <2>4 DEF Answer, HeadOf, ChangedPaths
<1>2. IInv => NothingCutSilently
  BY <1>1 DEF NothingCutSilently
<1> QED
  BY <1>2, InvariantHolds, PTL

\* A branch only grows: no request, of however many at once, takes a commit off it.
THEOREM BranchesGrow == Spec => BranchesOnlyGrow
<1>1. IInv /\ [Next]_vars => Grow
  BY AnyStep DEF GithubStep
<1>2. IInv /\ [Next]_vars => [\A b \in DOMAIN refs : b \in DOMAIN refs' /\ Ancestor(refs[b], refs'[b])]_refs
  BY <1>1 DEF Grow
<1> QED
  BY <1>2, InvariantHolds, PTL DEF Spec, BranchesOnlyGrow

\* What commit_files lands is the branch as it is at that moment with the files
\* of the request, all of them, and nothing else changed.
THEOREM CommitsTouchTheirFiles == Spec => CommitsTouchOnlyTheirFiles
<1> DEFINE A == \A c \in Callers :
       At(c, "patch_ref") /\ ~At(c, "patch_ref")' /\ refs # refs' =>
         LET b == Target(c)
             files == calls[c].req.files
         IN \A p \in Paths : TreeOf(refs'[b])[p] =
              IF p \in DOMAIN files THEN files[p] ELSE TreeOf(refs[b])[p]
<1>1. ASSUME IInv, Next
      PROVE  A
  <2>1. SUFFICES ASSUME NEW c \in Callers, At(c, "patch_ref"), ~At(c, "patch_ref")', refs # refs'
                 PROVE  update_ref(c)
    BY <1>1, <2>1, CommitLands
  <2>2. calls[c].pc = "patch_ref" /\ calls'[c].pc # "patch_ref"
    BY <2>1 DEF At
  <2>3. TypeOK
    BY <1>1 DEF IInv
  <2>4. ~World
    BY <2>2 DEF World, Push, ClosePr, CheckStarts, CheckCompletes
  <2>5. \A d, r : ~handler(d, r)
    BY <2>1 DEF handler, github
  <2>6. PICK d \in Callers : run_op(d)
    BY <1>1, <2>4, <2>5 DEF Next
  <2>7. d = c
    BY <1>1, <2>2, <2>3, <2>6, RunOpStep DEF IInv, StepOK, Moves
  <2>8. ~Reading(c)
    BY <2>2 DEF Reading, Read, get_pr_archive_url, Tarball, get_pr_diff, DiffPage, get_check_state,
                ReadHead, CheckPage, Aggregate, At
  <2>9. ~RequestFails(c)
    BY <2>1 DEF RequestFails, github
  <2>10. Write(c)
    BY <2>6, <2>7, <2>8, <2>9 DEF run_op
  <2> QED
    BY <2>2, <2>10 DEF Write, open_pr, find_open_pr, create_branch_base, create_branch,
                       create_branch_existing, commit_files, NewCommit, Post, At
<1>2. IInv /\ [Next]_vars => [A]_vars
  BY <1>1
<1> HIDE DEF A
<1>3. Spec => [][A]_vars
  BY <1>2, InvariantHolds, PTL DEF Spec
<1> QED
  BY <1>3 DEF CommitsTouchOnlyTheirFiles, A
=============================================================================
