--------------------------- MODULE MCBatchCreation ---------------------------
(***************************************************************************)
(* Instances of BatchCreation for TLC.                                     *)
(***************************************************************************)
EXTENDS BatchCreation, TLC

CONSTANTS s1, s2

\* A form without a valid lead, one whose leads take two chunks and two pages,
\* and the same leads for another sender.
Forms == { [sender |-> s1, leads |-> 0], [sender |-> s1, leads |-> 2], [sender |-> s2, leads |-> 2] }

Interchangeable == Permutations(Request) \cup Permutations(Key)
=============================================================================
