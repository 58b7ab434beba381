----------------------------- MODULE MCAccounts -----------------------------
(***************************************************************************)
(* Instances of Accounts for TLC.                                          *)
(***************************************************************************)
EXTENDS Accounts, TLC

CONSTANTS u1, u2, s1, s2, c1, a1, a2

\* Several accounts while nobody is logged in, or the logins of a single account
\* while at most one operation is under way.
Scenario ==
  \/ used = {} /\ \A c \in Client : client[c].pc = "idle"
  \/ /\ \E u \in User : \A v \in User \ {u} : role[v] = "none"
     /\ \E a \in Admin : \A b \in Admin \ {a} : op[b].pc = "idle"

\* Users, session ids, browsers and operations are interchangeable.
Symmetry == Permutations(User) \cup Permutations(Session)
            \cup Permutations(Client) \cup Permutations(Admin)
=============================================================================
