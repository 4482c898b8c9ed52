----------------------------- MODULE MCLessons ------------------------------
(***************************************************************************)
(* A week's consolidation of a buffer with a lesson for MEMORY.md, while   *)
(* another, for MEMORY.md or a skill, is captured, with two faults (a      *)
(* repeated fan-out is one) and a human edit; a consolidation may begin in *)
(* the second of the one before it or in the next.                         *)
(***************************************************************************)
EXTENDS Lessons, TLC

CONSTANTS t1, t2, main, none, malformed

MCTasks == {t1, t2}
ThePaths == <<"MEMORY.md", "SKILL.md">>
MCPatch == [p \in Paths |-> "short"]
MCLessonSet == {"fact", "rule", "custom"}
MCPathOf == [k \in MCLessonSet |-> IF k = "rule" THEN "SKILL.md" ELSE "MEMORY.md"]
MCSkillPaths == {"SKILL.md"}
MCContents == {c : c \in SUBSET MCLessonSet} \cup {malformed}
OneSlug == <<"a">>
MCSessionOf == [g \in {"a"} |-> g]
E(n, lesson) == [n |-> n, lesson |-> lesson]
MCWaiting == [g \in {"a"} |-> {E(1, "fact")}]
MCBusEvents == {[type |-> "RUN.COMPLETED", slug |-> "a", url |-> TRUE],
                [type |-> "RUN.FAILED", slug |-> "a", url |-> FALSE],
                [type |-> "DESIGN.READY", slug |-> "a", url |-> TRUE]}
MCBullets == {<<"custom">>, <<"rule">>}
\* As many as the consolidations a week and two repeated fan-outs make.
MCSeconds == 1..3
MCBranchFor == [sk \in MCSeconds \X {"memory", "skills"} |-> sk]
MCBranches == {main} \cup (MCSeconds \X {"memory", "skills"})
MCBounds == [k \in BoundKinds |-> IF k = "fault" THEN 2 ELSE 1]
Symmetry == Permutations(MCTasks)

T(c) == [p \in Paths |-> IF p = "MEMORY.md" THEN c ELSE none]
MCRepos == {[refs |-> [b \in {main} |-> <<T({})>>], prs |-> <<>>, checks |-> <<>>]}
=============================================================================
