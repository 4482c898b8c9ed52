------------------------------ MODULE MCChecks ------------------------------
(***************************************************************************)
(* One PR with a check run and a check suite under way on its head.        *)
(***************************************************************************)
EXTENDS Checks

CONSTANTS c1, c2, main, impl, x, none

MCCallers == {c1, c2}
MCBranches == {main, impl}
OnePath == <<"a">>
MCPatch == [p \in Paths |-> "short"]
MCContents == {x}
Tip == <<[p \in Paths |-> x]>>
Check(i, kind) == [id |-> i, sha |-> Tip, kind |-> kind, conclusion |-> "none"]
MCRepos == {[refs |-> [b \in MCBranches |-> IF b = main THEN <<>> ELSE Tip],
             prs |-> <<[head |-> impl, open |-> TRUE]>>,
             checks |-> <<Check(2, "suite"), Check(1, "run")>>]}
=============================================================================
