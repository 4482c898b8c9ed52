----------------------------- MODULE MCDecideLog -----------------------------
EXTENDS DecideLog

E(i, t, a) == [id |-> i, type |-> t, arg |-> a]

\* A programmatic run whose PR has just been opened, and four more events.
PrBase == {{E(1, "REQUEST.RECEIVED", "programmatic"), E(2, "DESIGN.READY", "none"),
            E(3, "IMPL_PR.OPENED", "none")}}
PrKinds == {<<"REQUEST.RECEIVED", "programmatic">>, <<"DESIGN.READY", "none">>,
            <<"IMPL_PR.OPENED", "none">>,
            <<"IMPL.ITERATION_REQUESTED", "none">>, <<"VALIDATION.REQUESTED", "none">>,
            <<"CHECKS.FAILED", "none">>,
            <<"VALIDATORS.DISPATCHED", "none">>, <<"IMPLEMENTER.DISPATCHED", "none">>,
            <<"REVIEW.READY", "request_changes">>, <<"REVIEW.READY", "approve">>,
            <<"REVISION.READY", "none">>, <<"TEST_REPORT.READY", "none">>}
PrIds == 1..7
=============================================================================
