-------------------------- MODULE MCDeliveryStatus --------------------------
(* Values for the constants of DeliveryStatus that a .cfg cannot write.    *)
EXTENDS DeliveryStatus, TLC

CONSTANTS j1, j2, m1, m2, i1, i2

OneRow == {1}
TwoRows == {1, 2}
OneJob == [r \in Rows |-> j1]
RowPerJob == [r \in Rows |-> IF r = 1 THEN j1 ELSE j2]
\* Every mail accepted is on a row, or with the run that will store its id.
NoneLost == exposed = {} /\ \A m \in Messages : mailed[m] # None => Traceable(m)

\* The worker has only been at row 1.
OneWorked ==
  \A r \in Rows \ {1} : /\ row[r].status = "pending" /\ r \notin exposed
                        /\ \A w \in Runs : run[w].row # r

\* Runs of both rows that lose nothing while all transactions race, or runs of one
\* row that do, and mail it again, while one import and the webhooks race.
Scenario == NoneLost \/ (OneWorked /\ \E i \in Imports : imp[i].pc = "idle")

Symmetry ==
  Permutations(Messages) \union Permutations(Imports) \union Permutations(Hooks)
=============================================================================
