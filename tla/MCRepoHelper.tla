---------------------------- MODULE MCRepoHelper ----------------------------
(***************************************************************************)
(* One caller writes a branch others push to and opens its PR, another     *)
(* reads that PR.  Pages of one entry make every list of two run over      *)
(* page boundaries, and a diff of three files runs over the cap.           *)
(***************************************************************************)
EXTENDS RepoHelperCalls

CONSTANTS writer, reader, main, impl, x, none

MCCallers == {writer, reader}
MCBranches == {main, impl}
ThreePaths == <<"a", "b", "c">>
MCPatch == [p \in Paths |-> IF p = "a" THEN "short" ELSE IF p = "b" THEN "long" ELSE "none"]
MCContents == {x}
R(op, files) == [op |-> op, branch |-> impl, files |-> files, pr |-> 1]
Nothing == [p \in {} |-> x]
File(p) == [q \in {p} |-> x]
MCRequests ==
  [c \in MCCallers |->
     IF c = writer
       THEN {R("create_branch", Nothing), R("commit_files", File("a")), R("open_pr", Nothing),
             R("comment_pr", Nothing)}
       ELSE {R("get_check_state", Nothing), R("get_pr_diff", Nothing), R("get_pr", Nothing),
             R("get_pr_archive_url", Nothing), R("get_file", File("a")),
             R("commit_files", [q \in {"b", "c"} |-> x]), R("merge_pr", Nothing),
             R("list_check_runs", Nothing), R("get_issue", Nothing)}]

\* Nothing but the base; or three changed files under an open PR with a failed
\* suite and a run under way on its tip.
T(ps) == [p \in Paths |-> IF p \in ps THEN x ELSE none]
Tip == <<T({"a"}), T({"a", "b", "c"})>>
Check(i, kind, conclusion) == [id |-> i, sha |-> Tip, kind |-> kind, conclusion |-> conclusion]
MCRepos == {[refs |-> [b \in {main} |-> <<>>], prs |-> <<>>, checks |-> <<>>],
            [refs |-> [b \in {main, impl} |-> IF b = main THEN <<>> ELSE Tip],
             prs |-> <<[head |-> impl, open |-> TRUE]>>,
             checks |-> <<Check(2, "suite", "failure"), Check(1, "run", "none")>>],
            [refs |-> [b \in {main, impl} |-> IF b = main THEN <<>> ELSE Tip],
             prs |-> <<[head |-> impl, open |-> TRUE]>>,
             checks |-> <<Check(2, "run", "success"), Check(1, "run", "none")>>]}
MCBounds == [k \in BoundKinds |-> IF k = "call" THEN 3 ELSE 1]
=============================================================================
