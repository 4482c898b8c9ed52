----------------------------- MODULE MCProjector -----------------------------
(***************************************************************************)
(* Run r1 gets its PR and one failed-checks webhook that GitHub delivers   *)
(* twice (ids 2 and 3, one delivery id); EventBridge delivers the PR and   *)
(* the first of them twice.  The bus also carries a malformed envelope.    *)
(***************************************************************************)
EXTENDS Projector

CONSTANT r1

E(i, r, t, d, u, ok) ==
  [id |-> i, run |-> r, type |-> t, dlv |-> d, usage |-> u, wellformed |-> ok,
   pr |-> IF t = "IMPL_PR.OPENED" THEN "pr1" ELSE NoPr]

MCRuns == {r1}
MCEnvelope == {E(1, r1, "IMPL_PR.OPENED", 0, 2, TRUE),
               E(2, r1, "CHECKS.FAILED", 7, 1, TRUE),
               E(3, r1, "CHECKS.FAILED", 7, 1, TRUE),
               E(4, r1, "REVIEW.READY", 0, 3, FALSE)}
MCCopies == [e \in MCEnvelope |-> IF e.id \in {1, 2} THEN 2 ELSE 1]
=============================================================================
