----------------------------- MODULE RepoHelper -----------------------------
(***************************************************************************)
(* The repo_helper Lambda: the operations agents call on GitHub through    *)
(* the gateway.  An operation is a sequence of HTTP requests with nothing  *)
(* held between them: other callers' requests, pushes, closed PRs and      *)
(* reporting checks come in between, any request may fail, and the         *)
(* response to a write may be lost after GitHub applied it.                *)
(*                                                                         *)
(* A commit is the tree it leaves and a branch the sequence of its         *)
(* commits, so a tip is its own sha and ancestry is the prefix order.      *)
(***************************************************************************)
EXTENDS Naturals, Sequences, FiniteSets

CONSTANTS Callers,    \* concurrent invocations
          Branches, Base,
          PathOrder,  \* the paths, in the order the Files API lists them
          Patch,      \* per path, the patch the Files API shows for a change to it
          Contents, NoFile,
          PerPage, DiffCap,
          MaxPrs

\* conclusion "none": the run or suite has not completed.
CHECK_FAILED_CONCLUSIONS == {"failure", "timed_out", "cancelled", "action_required", "stale"}
CHECK_PASSED_CONCLUSIONS == {"success", "neutral", "skipped"}
Conclusions == CHECK_FAILED_CONCLUSIONS \cup CHECK_PASSED_CONCLUSIONS
CheckKinds == {"run", "suite"}
ThreadKinds == {"pr", "issue", "review", "issues"}

Paths == {PathOrder[i] : i \in DOMAIN PathOrder}

ASSUME RepoHelperAssumption ==
  /\ Base \in Branches /\ NoFile \notin Contents /\ PathOrder \in Seq(Paths)
  /\ Patch \in [Paths -> {"none", "short", "long"}]
  /\ PerPage \in Nat \ {0} /\ DiffCap \in Nat \ {0} /\ MaxPrs \in Nat

VARIABLES refs,    \* per existing branch, its commits
          prs,     \* the pull requests, by number
          checks,  \* check runs and suites, newest first
          threads, \* comments, replies and issues posted, per kind
          calls

github == <<refs, prs, checks, threads>>
hvars == <<refs, prs, checks, threads, calls>>

NoTree == [p \in Paths |-> NoFile]
Trees == [Paths -> Contents \cup {NoFile}]
TreeOf(commits) == IF commits = <<>> THEN NoTree ELSE commits[Len(commits)]
Ancestor(s, t) == Len(s) <= Len(t) /\ \A i \in DOMAIN s : s[i] = t[i]

\* A request: files is a function from some of the paths to contents.
Request == [op : STRING, branch : Branches, files : UNION {[P -> Contents] : P \in SUBSET Paths}, pr : Nat]
NoRequest == [op |-> "none", branch |-> Base, files |-> [p \in {} |-> NoFile], pr |-> 0]
Pending == [ok |-> FALSE, kind |-> "pending"]
Error(kind) == [ok |-> FALSE, kind |-> kind]
\* since: ids of the checks that had failed on the sha when it was read (history).
NoCall == [pc |-> "idle", req |-> NoRequest, sha |-> <<>>, page |-> 1, items |-> <<>>,
           since |-> {}, answer |-> Pending]

\* A repository as the calls find it.
CheckRecord == [id : Nat, sha : Seq(Trees), kind : CheckKinds, conclusion : Conclusions \cup {"none"}]
RefsOK(r) == /\ DOMAIN r \subseteq Branches /\ Base \in DOMAIN r
             /\ \A b \in DOMAIN r : r[b] \in Seq(Trees)
IsRepo(repo) == /\ RefsOK(repo.refs)
                /\ repo.prs \in Seq([head : DOMAIN repo.refs, open : BOOLEAN])
                /\ repo.checks \in Seq(CheckRecord)

HInit(repo) ==
         /\ refs = repo.refs /\ prs = repo.prs /\ checks = repo.checks
         /\ threads = [k \in ThreadKinds |-> 0]
         /\ calls = [c \in Callers |-> NoCall]

-----------------------------------------------------------------------------
(* GitHub, as far as the requests show it.                                 *)

PrOpen(n) == n \in DOMAIN prs /\ prs[n].open
OpenPrs(h) == {n \in DOMAIN prs : prs[n].open /\ prs[n].head = h}
SetRef(b, commits) == refs' = [x \in DOMAIN refs \cup {b} |-> IF x = b THEN commits ELSE refs[x]]

\* POST /pulls: 422 without commits beyond the base, and when a PR is open.
CanOpen(h) == h \in DOMAIN refs /\ refs[h] # refs[Base] /\ OpenPrs(h) = {} /\ Len(prs) < MaxPrs

\* The members of s at the indices in I, in their order.
Nth(I, r) == CHOOSE i \in I : Cardinality({j \in I : j <= i}) = r
Pick(s, I) == [r \in 1..Cardinality(I) |-> s[Nth(I, r)]]

\* A PR shows the changes of its head's tip, a closed one too.
HeadOf(n) == refs[prs[n].head]
Changed(n) == LET old == TreeOf(refs[Base])
                  new == TreeOf(HeadOf(n))
              IN Pick(PathOrder, {i \in DOMAIN PathOrder : old[PathOrder[i]] # new[PathOrder[i]]})
ChecksOf(sha, kind) == Pick(checks, {i \in DOMAIN checks : checks[i].sha = sha /\ checks[i].kind = kind})
Failed(sha) == {k \in {checks[i] : i \in DOMAIN checks} :
                  k.sha = sha /\ k.conclusion \in CHECK_FAILED_CONCLUSIONS}

\* The k-th page of a list.
Batch(list, k) ==
  SubSeq(list, (k - 1) * PerPage + 1, IF k * PerPage < Len(list) THEN k * PerPage ELSE Len(list))

\* Anyone pushes to a branch of a PR, or creates one.
Push(b, p, x) ==
  /\ LET old == IF b \in DOMAIN refs THEN refs[b] ELSE refs[Base]
     IN SetRef(b, Append(old, [TreeOf(old) EXCEPT ![p] = x]))
  /\ UNCHANGED <<prs, checks, threads, calls>>

ClosePr(n) == /\ PrOpen(n)
              /\ prs' = [prs EXCEPT ![n].open = FALSE]
              /\ UNCHANGED <<refs, checks, threads, calls>>

CheckStarts(b, kind) ==
  /\ b \in DOMAIN refs
  /\ checks' = <<[id |-> Len(checks) + 1, sha |-> refs[b], kind |-> kind, conclusion |-> "none"]>>
                 \o checks
  /\ UNCHANGED <<refs, prs, threads, calls>>

CheckCompletes(i, conclusion) ==
  /\ i \in DOMAIN checks /\ checks[i].conclusion = "none"
  /\ checks' = [checks EXCEPT ![i].conclusion = conclusion]
  /\ UNCHANGED <<refs, prs, threads, calls>>

-----------------------------------------------------------------------------
(* handler: validate, dispatch on op, turn a failed request into an        *)
(* error envelope.                                                         *)

FirstRequest ==
  [open_pr |-> "post_pr", create_branch |-> "base_ref", commit_files |-> "tip",
   comment_pr |-> "append", comment_issue |-> "append", create_issue |-> "append",
   reply_pr_review_comment |-> "append", get_pr |-> "read", get_file |-> "read",
   get_issue |-> "read", list_issue_comments |-> "read", list_pr_comments |-> "read",
   list_pr_review_comments |-> "read", list_check_runs |-> "read",
   get_pr_diff |-> "head", get_pr_archive_url |-> "head", get_check_state |-> "head"]
DISPATCH == DOMAIN FirstRequest

At(c, pc) == calls[c].pc = pc
Op(c) == calls[c].req.op
Target(c) == calls[c].req.branch
Go(c, pc) == calls' = [calls EXCEPT ![c].pc = pc]
Return(c, answer) == calls' = [calls EXCEPT ![c].pc = "answered", ![c].answer = answer]
Running(c) == calls[c].pc \notin {"idle", "answered"}

handler(c, r) ==
  /\ ~Running(c)
  /\ IF r.op \in DISPATCH
       THEN calls' = [calls EXCEPT ![c] = [NoCall EXCEPT !.pc = FirstRequest[r.op], !.req = r]]
       ELSE calls' = [calls EXCEPT ![c] = [NoCall EXCEPT !.pc = "answered", !.req = r,
                                                         !.answer = Error("unknown_op")]]
  /\ UNCHANGED github

\* An httpx error of any request (github_http_error, github_network_error):
\* nothing was applied.
RequestFails(c) ==
  /\ Running(c)
  /\ Return(c, Error("github_error"))
  /\ UNCHANGED github

\* The answer of a request that was applied, unless the response is lost.
Applied(c, answer) == Return(c, answer) \/ Return(c, Error("github_error"))

-----------------------------------------------------------------------------
(* The operations that write.                                              *)

OpenPrAnswer(n, reused) == [ok |-> TRUE, kind |-> "pr", pr |-> n, reused |-> reused]

open_pr(c) ==
  /\ At(c, "post_pr")
  /\ IF CanOpen(Target(c))
       THEN /\ prs' = Append(prs, [head |-> Target(c), open |-> TRUE])
            /\ Applied(c, OpenPrAnswer(Len(prs) + 1, FALSE))
       ELSE /\ Go(c, "find_pr")          \* 422
            /\ UNCHANGED prs
  /\ UNCHANGED <<refs, checks, threads>>

\* Without an open PR the 422 is raised.
find_open_pr(c) ==
  /\ At(c, "find_pr")
  /\ LET found == OpenPrs(Target(c))
     IN IF found # {}
          THEN \E n \in found : Return(c, OpenPrAnswer(n, TRUE))
          ELSE Return(c, Error("github_error"))
  /\ UNCHANGED github

BranchAnswer(sha, reused) == [ok |-> TRUE, kind |-> "branch", sha |-> sha, reused |-> reused]

create_branch_base(c) ==
  /\ At(c, "base_ref")
  /\ calls' = [calls EXCEPT ![c].pc = "post_ref", ![c].sha = refs[Base]]
  /\ UNCHANGED github

create_branch(c) ==
  /\ At(c, "post_ref")
  /\ IF Target(c) \in DOMAIN refs
       THEN Go(c, "get_ref") /\ UNCHANGED refs     \* 422
       ELSE SetRef(Target(c), calls[c].sha) /\ Applied(c, BranchAnswer(calls[c].sha, FALSE))
  /\ UNCHANGED <<prs, checks, threads>>

create_branch_existing(c) ==
  /\ At(c, "get_ref")
  /\ Return(c, BranchAnswer(refs[Target(c)], TRUE))
  /\ UNCHANGED github

\* head_commit_sha: 404 for a branch that is not there.
commit_files(c) ==
  /\ At(c, "tip")
  /\ IF Target(c) \in DOMAIN refs
       THEN calls' = [calls EXCEPT ![c].pc = "objects", ![c].sha = refs[Target(c)]]
       ELSE Return(c, Error("github_error"))
  /\ UNCHANGED github

Upsert(tree, files) == [p \in Paths |-> IF p \in DOMAIN files THEN files[p] ELSE tree[p]]

\* Mutant: the new tree is posted without base_tree.
NewCommit_bare(c) ==
  /\ At(c, "objects")
  /\ calls' = [calls EXCEPT ![c].pc = "patch_ref",
                            ![c].sha = Append(calls[c].sha, Upsert(NoTree, calls[c].req.files))]
  /\ UNCHANGED github

\* commit_tree_sha, build_blob_entry per file, create_tree, create_commit: they
\* make objects no branch points at yet.
NewCommit(c) ==
  /\ At(c, "objects")
  /\ calls' = [calls EXCEPT ![c].pc = "patch_ref",
                            ![c].sha = Append(calls[c].sha, Upsert(TreeOf(calls[c].sha), calls[c].req.files))]
  /\ UNCHANGED github

CommitAnswer(sha) == [ok |-> TRUE, kind |-> "commit", sha |-> sha]

\* Mutant: force: true.
update_ref_forced(c) ==
  /\ At(c, "patch_ref")
  /\ SetRef(Target(c), calls[c].sha)
  /\ Return(c, CommitAnswer(calls[c].sha))
  /\ UNCHANGED <<prs, checks, threads>>

\* force: false, so a branch that has moved in the meantime is a 422.
update_ref(c) ==
  /\ At(c, "patch_ref")
  /\ IF Ancestor(refs[Target(c)], calls[c].sha)
       THEN SetRef(Target(c), calls[c].sha) /\ Applied(c, CommitAnswer(calls[c].sha))
       ELSE Return(c, Error("github_error")) /\ UNCHANGED refs
  /\ UNCHANGED <<prs, checks, threads>>

Thread == [comment_pr |-> "pr", comment_issue |-> "issue",
           reply_pr_review_comment |-> "review", create_issue |-> "issues"]

\* comment_pr, comment_issue, create_issue, reply_pr_review_comment.
Post(c) ==
  /\ At(c, "append")
  /\ threads' = [threads EXCEPT ![Thread[Op(c)]] = @ + 1]
  /\ Applied(c, [ok |-> TRUE, kind |-> "posted"])
  /\ UNCHANGED <<refs, prs, checks>>

-----------------------------------------------------------------------------
(* The operations that read.                                               *)

\* get_file: a missing ref is a 404 like a missing path.
FileAnswer(b, p) ==
  LET found == b \in DOMAIN refs /\ TreeOf(refs[b])[p] # NoFile
  IN [ok |-> TRUE, kind |-> "file", exists |-> found,
      content |-> IF found THEN TreeOf(refs[b])[p] ELSE NoFile]

CheckRuns(b) == {k \in {checks[i] : i \in DOMAIN checks} :
                   b \in DOMAIN refs /\ k.sha = refs[b] /\ k.kind = "run"}

Read(c) ==
  /\ At(c, "read")
  /\ \/ /\ Op(c) = "get_file"
        /\ \E p \in DOMAIN calls[c].req.files : Return(c, FileAnswer(Target(c), p))
     \/ /\ Op(c) = "get_pr"
        /\ IF calls[c].req.pr \in DOMAIN prs
             THEN Return(c, [ok |-> TRUE, kind |-> "get_pr", open |-> PrOpen(calls[c].req.pr),
                             sha |-> HeadOf(calls[c].req.pr)])
             ELSE Return(c, Error("github_error"))
     \/ /\ Op(c) = "list_check_runs"
        /\ Return(c, [ok |-> TRUE, kind |-> "check_runs", runs |-> CheckRuns(Target(c))])
     \/ /\ Op(c) \in {"get_issue", "list_issue_comments", "list_pr_comments",
                      "list_pr_review_comments"}
        /\ Return(c, [ok |-> TRUE, kind |-> "listed"])
  /\ UNCHANGED github

ReadHead(c, next) ==
  /\ At(c, "head")
  /\ IF calls[c].req.pr \in DOMAIN prs
       THEN calls' = [calls EXCEPT ![c].pc = next, ![c].sha = HeadOf(calls[c].req.pr),
                        ![c].since = {k.id : k \in Failed(HeadOf(calls[c].req.pr))}]
       ELSE Return(c, Error("github_error"))
  /\ UNCHANGED github

get_pr_archive_url(c) == Op(c) = "get_pr_archive_url" /\ ReadHead(c, "tarball")
Tarball(c) ==
  /\ At(c, "tarball")
  /\ Return(c, [ok |-> TRUE, kind |-> "archive", sha |-> calls[c].sha])
  /\ UNCHANGED github

get_pr_diff(c) == Op(c) = "get_pr_diff" /\ ReadHead(c, "files")

\* Mutant: only a missing patch is marked.
diff_file_entry_unmarked(p) ==
  [path |-> p, whole |-> Patch[p] = "short", truncated |-> Patch[p] = "none"]

\* A patch that is missing or cut to its tail is marked.
diff_file_entry(p) == [path |-> p, whole |-> Patch[p] = "short", truncated |-> Patch[p] # "short"]

DiffPage(c) ==
  /\ At(c, "files")
  /\ LET batch == Batch(Changed(calls[c].req.pr), calls[c].page)
         all == calls[c].items \o [i \in DOMAIN batch |-> diff_file_entry(batch[i])]
         files == SubSeq(all, 1, IF Len(all) < DiffCap THEN Len(all) ELSE DiffCap)
     IN IF Len(batch) < PerPage \/ Len(files) >= DiffCap
          THEN Return(c, [ok |-> TRUE, kind |-> "diff", sha |-> calls[c].sha, files |-> files,
                          files_truncated |-> Len(files) >= DiffCap])
          ELSE calls' = [calls EXCEPT ![c].items = files, ![c].page = calls[c].page + 1]
  /\ UNCHANGED github

\* Mutant: what is still running is overlooked.
aggregate_check_state_eager(entries) ==
  IF \E i \in DOMAIN entries : entries[i].conclusion \in CHECK_FAILED_CONCLUSIONS THEN "failed"
  ELSE IF entries = <<>> THEN "pending" ELSE "passed"

aggregate_check_state(entries) ==
  IF \E i \in DOMAIN entries : entries[i].conclusion \in CHECK_FAILED_CONCLUSIONS THEN "failed"
  ELSE IF entries = <<>> \/ \E i \in DOMAIN entries :
            entries[i].conclusion \notin CHECK_PASSED_CONCLUSIONS THEN "pending"
  ELSE "passed"

get_check_state(c) == Op(c) = "get_check_state" /\ ReadHead(c, "runs")

\* Mutant: one page only.
paginate_check_list_once(c, kind, list) ==
  LET batch == Batch(list, calls[c].page)
  IN calls' = [calls EXCEPT ![c].items = calls[c].items \o batch, ![c].page = 1,
                            ![c].pc = IF kind = "runs" THEN "suites" ELSE "aggregate"]

\* One request of _paginate_check_list; a short page is the last.
paginate_check_list(c, kind, list) ==
  LET batch == Batch(list, calls[c].page)
      last == Len(batch) < PerPage
  IN calls' = [calls EXCEPT ![c].items = calls[c].items \o batch,
                            ![c].page = IF last THEN 1 ELSE calls[c].page + 1,
                            ![c].pc = IF ~last THEN kind
                                      ELSE IF kind = "runs" THEN "suites" ELSE "aggregate"]

CheckPage(c) ==
  /\ \/ At(c, "runs") /\ paginate_check_list(c, "runs", ChecksOf(calls[c].sha, "run"))
     \/ At(c, "suites") /\ paginate_check_list(c, "suites", ChecksOf(calls[c].sha, "suite"))
  /\ UNCHANGED github

Aggregate(c) ==
  /\ At(c, "aggregate")
  /\ Return(c, [ok |-> TRUE, kind |-> "state", sha |-> calls[c].sha,
                state |-> aggregate_check_state(calls[c].items)])
  /\ UNCHANGED github

-----------------------------------------------------------------------------
Write(c) == \/ open_pr(c) \/ find_open_pr(c)
            \/ create_branch_base(c) \/ create_branch(c) \/ create_branch_existing(c)
            \/ commit_files(c) \/ NewCommit(c) \/ update_ref(c) \/ Post(c)
Reading(c) == \/ Read(c) \/ get_pr_archive_url(c) \/ Tarball(c) \/ get_pr_diff(c) \/ DiffPage(c)
              \/ get_check_state(c) \/ CheckPage(c) \/ Aggregate(c)
run_op(c) == Write(c) \/ Reading(c) \/ RequestFails(c)
=============================================================================
