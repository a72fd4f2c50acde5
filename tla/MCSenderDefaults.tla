-------------------------- MODULE MCSenderDefaults --------------------------
(***************************************************************************)
(* Instances of SenderDefaults for TLC.                                    *)
(***************************************************************************)
EXTENDS SenderDefaults, TLC

CONSTANTS a1, a2

Patch(isDefault, isActive, address) ==
    [isDefault |-> isDefault, isActive |-> isActive, address |-> address]

\* Each flag set and cleared, the two that contradict each other, and a change
\* of the address.
Bodies == { Patch("yes", "omitted", "omitted"), Patch("no", "omitted", "omitted"),
            Patch("omitted", "yes", "omitted"), Patch("omitted", "no", "omitted"),
            Patch("yes", "no", "omitted"), Patch("omitted", "omitted", a2) }

Symmetric == Permutations(Sender) \cup Permutations(Request)
=============================================================================
