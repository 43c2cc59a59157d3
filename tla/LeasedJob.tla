------------------------------ MODULE LeasedJob ------------------------------
(* What a queue of leased work promises of one piece of work, whoever does it *)
(* and however often it is started: a request is open until it is settled,    *)
(* is settled once, stays as it was settled, and what is removed stays away.  *)
EXTENDS Naturals

VARIABLES
    status,     \* "none", "open", "ready", "failed" or "gone"
    request     \* the number of the latest request

vars == << status, request >>

Init == status = "none" /\ request = 0

\* New work, or work that has to be done again.
Request == status # "gone" /\ status' = "open" /\ request' = request + 1

Settle == status = "open" /\ status' \in {"ready", "failed"} /\ UNCHANGED request

\* What was asked for does not matter any more.
Remove == status # "gone" /\ status' = "gone" /\ request' \in Nat

Next == Request \/ Settle \/ Remove

Spec == Init /\ [][Next]_vars
==============================================================================
