--------------------------- MODULE MCImplementer ----------------------------
(***************************************************************************)
(* A first pass dispatched twice and a revision, in the checkouts of two   *)
(* sessions; someone else pushes once or one microVM ends.                 *)
(***************************************************************************)
EXTENDS Implementer

CONSTANTS t1, t2, main, impl, other, x, y, z, none

MCTasks == {t1, t2}
MCBranches == {main, impl, other}
OnePath == <<"a">>
MCPatch == [p \in Paths |-> "short"]
MCContents == {x, y, z}
MCSessions == {"implementer", "r1"}
In(mode, session, pr) == [mode |-> mode, session |-> session, pr |-> pr]
First == In("implementation", "implementer", 0)
Revision == In("revision", "r1", 2)
MCPayloads == [t \in MCTasks |-> IF t = t1 THEN {First} ELSE {First, Revision}]
MCWritten == [t \in MCTasks |-> IF t = t1 THEN x ELSE y]
MCTurns == [t \in MCTasks |-> IF t = t1 THEN 1 ELSE 2]

T(c) == [p \in Paths |-> c]
Tip(b) == IF b = main THEN <<T(none)>> ELSE <<T(none), T(z)>>
Pr(head) == [head |-> head, open |-> TRUE]
\* Before the first pass, and with the PR of one open, beside the PR of another run.
MCRepos == {[refs |-> [b \in {main, other} |-> Tip(b)], prs |-> <<Pr(other)>>, checks |-> <<>>],
            [refs |-> [b \in {main, other, impl} |-> Tip(b)], prs |-> <<Pr(other), Pr(impl)>>,
             checks |-> <<>>]}

\* The threads run; the microVM, others and the router do as they like.
FairSpec == Spec /\ \A t \in Tasks : WF_vars(run_implementer(t))
=============================================================================
