----------------------------- MODULE MCDeletion -----------------------------
(***************************************************************************)
(* Instances of Deletion for TLC.                                          *)
(***************************************************************************)
EXTENDS Deletion, TLC

CONSTANTS r1, r2, w1, w2, q1, q2

\* Clients may post any list of the recipients.
AnyList == SUBSET Recipient \ {{}}

Symmetry == Permutations(Recipient) \cup Permutations(Worker) \cup Permutations(Request)
=============================================================================
