------------------------------- MODULE Checks -------------------------------
(***************************************************************************)
(* How the result of CI comes to a run: GitHub delivers a webhook for each *)
(* check that completes, a dashboard invocation looks up the run of the PR *)
(* and calls the repo_helper Lambda (module RepoHelper) synchronously for  *)
(* the state of all checks of the PR's head, and publishes CHECKS.PASSED   *)
(* or CHECKS.FAILED.  Deliveries come in any order and are handled by any  *)
(* invocation while further checks complete.                               *)
(*                                                                         *)
(* What matters here is the form of the two messages between the webhook   *)
(* route and the Lambda, so they are records with the keys of the code.    *)
(***************************************************************************)
EXTENDS RepoHelper

CONSTANT Repos  \* the repositories, each with the PR of a run as its first

VARIABLES deliveries, \* completed checks GitHub has yet to deliver, by id
          handling,   \* per invocation, the delivery it works on
          ignored,    \* deliveries that ended without an event
          events      \* CHECKS.PASSED and CHECKS.FAILED

vars == <<hvars, deliveries, handling, ignored, events>>

NoDelivery == 0

Init == /\ \E repo \in Repos : HInit(repo)
        /\ deliveries = {} /\ ignored = {} /\ events = {}
        /\ handling = [c \in Callers |-> NoDelivery]

\* GitHub: a check completes, and its webhook is sent.
Completes(i, conclusion) ==
  /\ CheckCompletes(i, conclusion)
  /\ deliveries' = deliveries \cup {checks[i].id}
  /\ UNCHANGED <<handling, ignored, events>>

-----------------------------------------------------------------------------
(* webhooks.py                                                             *)

\* repo_pr_from_payload and lookup_pr: the PR, and the run whose SUMMARY has it.
repo_pr_from_payload == 1
Payload(n) == [input |-> [NoRequest EXCEPT !.op = "get_check_state", !.pr = n]]

\* What the Lambda takes the payload for: op is read at the top level.
RequestIn(payload) == IF "op" \in DOMAIN payload THEN payload ELSE NoRequest

\* get_check_state of the webhook route, up to lambda_client().invoke.
aggregate_checks_event(c, d) ==
  /\ handling[c] = NoDelivery /\ d \in deliveries
  /\ handling' = [handling EXCEPT ![c] = d]
  /\ deliveries' = deliveries \ {d}
  /\ handler(c, RequestIn(Payload(repo_pr_from_payload)))
  /\ UNCHANGED <<ignored, events>>

\* The Lambda's wrap and error.
Envelope(answer) == IF answer.ok THEN [ok |-> TRUE, result |-> answer]
                                 ELSE [ok |-> FALSE, error |-> answer.kind]

\* What the route reads in it: body["state"], or body["data"]["state"].
StateIn(body) ==
  IF ~body.ok THEN "unknown"
  ELSE IF "state" \in DOMAIN body THEN body.state
  ELSE IF "data" \in DOMAIN body /\ "state" \in DOMAIN body.data THEN body.data.state
  ELSE "unknown"

EventOf == [passed |-> "CHECKS.PASSED", failed |-> "CHECKS.FAILED"]

\* emit_checks_passed, emit_checks_failed; pending and unknown are ignored.
emit_checks(c) ==
  LET state == StateIn(Envelope(calls[c].answer))
  IN /\ handling[c] # NoDelivery /\ At(c, "answered")
     /\ IF state \in DOMAIN EventOf
          THEN /\ events' = events \cup {[type |-> EventOf[state], delivery |-> handling[c]]}
               /\ UNCHANGED ignored
          ELSE ignored' = ignored \cup {handling[c]} /\ UNCHANGED events
     /\ handling' = [handling EXCEPT ![c] = NoDelivery]
     /\ UNCHANGED <<hvars, deliveries>>

\* The Lambda at work.  Its requests to GitHub are taken to succeed.
repo_helper(c) == /\ handling[c] # NoDelivery /\ Reading(c)
                  /\ UNCHANGED <<deliveries, handling, ignored, events>>

-----------------------------------------------------------------------------
Next == \/ \E i \in DOMAIN checks, x \in {"success", "failure"} : Completes(i, x)
        \/ \E c \in Callers : \/ \E d \in deliveries : aggregate_checks_event(c, d)
                              \/ repo_helper(c) \/ emit_checks(c)

Spec == Init /\ [][Next]_vars

-----------------------------------------------------------------------------
AllHandled == deliveries = {} /\ \A c \in Callers : handling[c] = NoDelivery
OnHead == {k \in {checks[i] : i \in DOMAIN checks} : k.sha = HeadOf(repo_pr_from_payload)}

\* webhooks.py: completed checks are aggregated and CHECKS.PASSED or
\* CHECKS.FAILED is emitted; only a pending state results in no event.  Once the
\* checks of the head have all completed and their webhooks are handled, the run
\* has been told.
ChecksAreReported ==
  AllHandled /\ OnHead # {} /\ (\A k \in OnHead : k.conclusion # "none")
  => \E e \in events : e.type = EventOf[aggregate_check_state(checks)]
=============================================================================
