-------------------------- MODULE MCEmailProcessor --------------------------
(***************************************************************************)
(* Instances of EmailProcessor for TLC: the rows, the slots and the faults *)
(* of each run are set in its .cfg.                                        *)
(***************************************************************************)
EXTENDS EmailProcessor, TLC

CONSTANT TheBatch

\* All emails in one batch.
OneBatch == [e \in Email |-> TheBatch]

\* Some order of the rows' ids.
SomeOrder ==
    CHOOSE r \in [Email -> 1..Cardinality(Email)] : \A e, f \in Email : r[e] = r[f] => e = f

\* Slots are interchangeable (safety runs only).
Symmetric == Permutations(Slot)
=============================================================================
