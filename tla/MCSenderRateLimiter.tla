------------------------- MODULE MCSenderRateLimiter -------------------------
(***************************************************************************)
(* Instances of SenderRateLimiter for TLC.                                 *)
(***************************************************************************)
EXTENDS SenderRateLimiter, TLC

\* One policy for good.
NoChange == {}
\* A policy with room for two emails an hour, and the one that replaces it while
\* workers are between reading it and using it: a lower limit, a delay that is
\* longer than its key lives, and the sender deactivated.
Roomy == [limit |-> 2, delay |-> 1, active |-> TRUE]
Tight == [limit |-> 1, delay |-> 4, active |-> FALSE]
BothPolicies == {Roomy, Tight}
Tightened == {<<Roomy, Tight>>}
\* One email an hour, without spacing, from a sender that stays active.
OneAnHour == {[limit |-> 1, delay |-> 0, active |-> TRUE]}

Symmetric == Permutations(Worker) \cup Permutations(Email)
=============================================================================
