----------------------------- MODULE MCCampaign -----------------------------
(***************************************************************************)
(* Instances of Campaign for TLC.                                          *)
(***************************************************************************)
EXTENDS Campaign, TLC

CONSTANTS r1, r2, w1, w2, w3, q1, q2

\* Clients may post any list of the recipients, or always the whole one.
AnyList == SUBSET Recipient \ {{}}
WholeList == {Recipient}

\* Recipients, runs and requests are interchangeable.
Symmetry == Permutations(Recipient) \cup Permutations(Worker) \cup Permutations(Request)
=============================================================================
