----------------------------- MODULE MCReports -----------------------------
(***************************************************************************)
(* Two invocations of one role, any role: with one input (a repeated       *)
(* dispatch), or, for the architect, for two runs of one project.          *)
(* Invocations of two roles share nothing that either reads; t1 is the     *)
(* first to come, and the default branch, which only the architect reads,  *)
(* is left alone when others run.  Only t1's models write by themselves,   *)
(* and t2's proposal is empty or full.                                     *)
(***************************************************************************)
EXTENDS Reports

CONSTANTS t1, t2

In(role, run, rev) == [role |-> role, run |-> run, rev |-> rev]
EveryRole == {In(r, 1, 0) : r \in Roles} \cup {In("architect", 2, 0)}
TwoTasks == {t1, t2}
\* The last version's memory files differ from the first's past the cut only.
ThreeBodies == <<"lessons", NoBody, "lessons">>

Everything == [comment |-> TRUE, issues |-> MaxIssues, edits |-> TRUE]

OneRole == /\ \A t, u \in Tasks : Started(t) /\ Started(u) => Role(t) = Role(u)
           /\ Started(t2) => Started(t1)
           /\ \A t \in Tasks : Started(t) => Role(t) = "architect" \/ main = 1
           /\ posts[t2].tools = {} /\ ~posts[t2].memory
           /\ tasks[t2].proposal \in {NoProposal, Everything}
MCSpec == (Init /\ main = 1) /\ [][Next /\ OneRole']_vars /\ Fairness
=============================================================================
