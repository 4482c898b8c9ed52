------------------------------- MODULE OneRun -------------------------------
(***************************************************************************)
(* What the intake promises to whoever sends a request under a key: until  *)
(* the key is forgotten there is at most one run of it, and every answer   *)
(* under the key tells that run.  Not promised: that anybody is told of a  *)
(* run (its publication may have raised), or that a key is ever forgotten. *)
(***************************************************************************)
EXTENDS Naturals

CONSTANT Keys

VARIABLES minted,  \* per key, its run: one id or none
          told,    \* per key, the ids its callers were answered with
          next     \* the next run id

Init == /\ minted = [k \in Keys |-> {}]
        /\ told = [k \in Keys |-> {}]
        /\ next = 1

Mint(k) == /\ minted[k] = {}
           /\ minted' = [minted EXCEPT ![k] = {next}]
           /\ next' = next + 1
           /\ UNCHANGED told

Tell(k) == /\ minted[k] # {}
           /\ told' = [told EXCEPT ![k] = minted[k]]
           /\ UNCHANGED <<minted, next>>

Forget(k) == /\ minted' = [minted EXCEPT ![k] = {}]
             /\ told' = [told EXCEPT ![k] = {}]
             /\ UNCHANGED next

Next == \E k \in Keys : Mint(k) \/ Tell(k) \/ Forget(k)
Spec == Init /\ [][Next]_<<minted, told, next>>
=============================================================================
