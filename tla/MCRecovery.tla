----------------------------- MODULE MCRecovery -----------------------------
(***************************************************************************)
(* Instances of Recovery for TLC.                                          *)
(***************************************************************************)
EXTENDS Recovery, TLC

CONSTANTS r1, r2, w1, q1

\* Clients post the whole list.
WholeList == {Recipient}

\* A job that stalled, or a second disaster after the repair of the first.
Scenario ==
  \/ strikes <= 1
  \/ strikes <= commands + 1 /\ \A r \in Recipient : stalled[r] = 0

Symmetry == Permutations(Recipient)
=============================================================================
