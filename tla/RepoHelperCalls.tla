-------------------------- MODULE RepoHelperCalls ---------------------------
(***************************************************************************)
(* The repo_helper Lambda called by anyone in any order, on a repository   *)
(* others push to and whose checks report while the calls are under way.   *)
(***************************************************************************)
EXTENDS RepoHelper

CONSTANTS Repos,    \* the repositories the calls may find
          Requests, \* per caller, what it asks for
          Bounds    \* how many calls, and pushes, new checks and closed PRs

BoundKinds == {"call", "world"}

ASSUME CallsAssumption ==
  /\ \A repo \in Repos : IsRepo(repo)
  /\ Requests \in [Callers -> SUBSET Request]
  \* The agents commit to branches of their own.
  /\ \A c \in Callers : \A r \in Requests[c] : r.op = "commit_files" => r.branch # Base
  /\ Bounds \in [BoundKinds -> Nat]

VARIABLE left \* what is left of the bounds

vars == <<hvars, left>>

Spend(kind) == left[kind] > 0 /\ left' = [left EXCEPT ![kind] = @ - 1]

Init == (\E repo \in Repos : HInit(repo)) /\ left = Bounds

World ==
  \/ \E b \in Branches \ {Base}, p \in Paths, x \in Contents : Push(b, p, x) /\ Spend("world")
  \/ \E n \in DOMAIN prs : ClosePr(n) /\ Spend("world")
  \/ \E b \in Branches \ {Base}, kind \in CheckKinds : CheckStarts(b, kind) /\ Spend("world")
  \/ \E i \in DOMAIN checks, x \in {"success", "failure"} :
       CheckCompletes(i, x) /\ UNCHANGED left

Next == \/ \E c \in Callers, r \in UNION {Requests[d] : d \in Callers} :
             r \in Requests[c] /\ handler(c, r) /\ Spend("call")
        \/ \E c \in Callers : run_op(c) /\ UNCHANGED left
        \/ World

Spec == Init /\ [][Next]_vars

-----------------------------------------------------------------------------
Answer(c) == calls[c].answer
Answered(c, kind) == At(c, "answered") /\ Answer(c).kind = kind

\* A check that had failed on the head when the call read it is never missed,
\* whatever page it is on and however many checks are added while the pages are
\* read: new ones come first and push the others to later pages.
FailedCheckIsSeen ==
  \A c \in Callers : Answered(c, "state") /\ calls[c].since # {} => Answer(c).state = "failed"

\* "passed" is never said of a sha with nothing reported or with a check that
\* was there when it was read and has not passed.  A check that starts or
\* completes afterwards may make the answer stale: the caller gets the sha.
PassedMeansPassed ==
  \A c \in Callers : Answered(c, "state") /\ Answer(c).state = "passed" =>
    /\ calls[c].items # <<>>
    /\ \A i \in DOMAIN calls[c].items : calls[c].items[i].sha = Answer(c).sha
    /\ \E k \in {checks[i] : i \in DOMAIN checks} :
         k.sha = Answer(c).sha /\ k.conclusion \in CHECK_PASSED_CONCLUSIONS
    /\ \A i \in DOMAIN calls[c].items : LET k == calls[c].items[i]
         IN \E j \in DOMAIN checks : checks[j] = k /\ k.conclusion \in CHECK_PASSED_CONCLUSIONS

\* What get_check_state answers is so.
CheckStateIsTrue == FailedCheckIsSeen /\ PassedMeansPassed

\* No part of a diff is cut silently: a list that was cut says so, and so does
\* every patch that is not whole.  (A list of exactly DiffCap files says so too.)
NothingCutSilently ==
  \A c \in Callers : Answered(c, "diff") =>
    LET a == Answer(c)
    IN /\ \A i \in DOMAIN a.files : a.files[i].whole \/ a.files[i].truncated
       /\ refs[prs[calls[c].req.pr].head] = a.sha /\ ~a.files_truncated =>
            {a.files[i].path : i \in DOMAIN a.files} =
              {p \in Paths : TreeOf(a.sha)[p] # TreeOf(refs[Base])[p]}

\* Whoever else pushes or commits between two requests of a call, a branch only
\* grows: no commit is ever taken off it, and create_branch on a branch that
\* exists leaves it alone.
BranchesOnlyGrow ==
  [][\A b \in DOMAIN refs : b \in DOMAIN refs' /\ Ancestor(refs[b], refs'[b])]_refs

\* A commit_files leaves every path it was not asked to write as it was on the
\* branch at the moment it lands, and lands all its files together.
CommitsTouchOnlyTheirFiles ==
  [][\A c \in Callers :
       At(c, "patch_ref") /\ ~At(c, "patch_ref")' /\ refs # refs' =>
         LET b == Target(c)
             files == calls[c].req.files
         IN \A p \in Paths : TreeOf(refs'[b])[p] =
              IF p \in DOMAIN files THEN files[p] ELSE TreeOf(refs[b])[p]]_vars
=============================================================================
