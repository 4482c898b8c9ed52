------------------------------ MODULE EventLog ------------------------------
(***************************************************************************)
(* What the projector promises to every reader of the runs table: an event *)
(* enters a run's log at most once, so does the event of a redelivered     *)
(* webhook, the usage totals are those of the logged events, and long-term *)
(* memory holds a logged event at most once.                               *)
(***************************************************************************)
EXTENDS Events

CONSTANTS Runs,     \* run ids
          Envelope  \* every envelope that may be put on the bus

VARIABLES log,      \* the committed envelopes
          total,    \* per run, accumulated usage
          memory    \* per envelope, how often it was sent to AgentCore Memory

Init == /\ log = {}
        /\ total = [r \in Runs |-> 0]
        /\ memory = [e \in Envelope |-> 0]

Append(e) == /\ \A f \in log : ~SameRow(e, f)
             /\ log' = log \cup {e}
             /\ total' = [total EXCEPT ![e.run] = @ + e.usage]
             /\ UNCHANGED memory

Remember(e) == /\ e \in log
               /\ memory[e] = 0
               /\ memory' = [memory EXCEPT ![e] = 1]
               /\ UNCHANGED <<log, total>>

Next == \E e \in Envelope : Append(e) \/ Remember(e)
Spec == Init /\ [][Next]_<<log, total, memory>>
=============================================================================
