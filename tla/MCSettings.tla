----------------------------- MODULE MCSettings -----------------------------
(***************************************************************************)
(* Instances of Settings for TLC.                                          *)
(***************************************************************************)
EXTENDS Settings, TLC

CONSTANTS b1, b2, y1, y2, c1, c2, s1, s2

Conf(c, s) == {[account |-> c, secret |-> s]}

\* Two releases that disagree, one of them without mail settings.
Environments ==
  {[smtp |-> {}, oidc |-> Conf(c1, s1)], [smtp |-> Conf(c2, s1), oidc |-> Conf(c2, s1)]}

F(k, c, new, test) == [key |-> k, account |-> c, new |-> new, test |-> test]

\* A save of each section, and one that clears the intranet login.
Saves == {F("smtp", c1, s1, FALSE), F("oidc", c1, s1, FALSE), F("oidc", None, None, FALSE)}

\* Two mail accounts, two clients, each with its secret or none; tests.
Forms ==
  UNION {{F(k, c1, s1, FALSE), F(k, c2, s2, FALSE), F(k, c1, None, FALSE), F(k, c2, None, FALSE)}
           : k \in Section}
  \cup {F("oidc", None, None, FALSE), F("smtp", c1, None, TRUE), F("smtp", c2, s2, TRUE)}

\* The form administrator y works on.
Submitted(y) == F(adm[y].key, adm[y].account, adm[y].new, adm[y].test)

\* Two administrators work on one section while no backend starts, or two
\* backends start while one administrator saves with the first secret.
Scenario ==
  \/ /\ \A b \in Backend : tx[b].pc = "off"
     /\ \E k \in Section : /\ row[k] = {}
                           /\ \A y \in Admin : adm[y].pc = "idle" \/ adm[y].key # k
  \/ /\ \E y \in Admin : \A z \in Admin \ {y} : adm[z].pc = "idle"
     /\ \A y \in Admin : adm[y].pc = "idle" \/ Submitted(y) \in Saves
     /\ sent = {} /\ \A g \in given : g[3] = s1
     /\ \A k \in Section : \A v \in row[k] : v.secret = None => v.account = None

Symmetry == Permutations({b1, b2}) \cup Permutations({y1, y2})
=============================================================================
