--------------------------- MODULE MCOidcSessions ---------------------------
(***************************************************************************)
(* Instances of OidcSessions for TLC.                                      *)
(***************************************************************************)
EXTENDS OidcSessions, TLC

CONSTANTS k1, k2, t1, t2, t3, s1, s2, s3, x1, c1, c2, r1, r2

\* One session that was stored before bindings existed.
OneOld == (s1 :> t1)

\* Several requests on the old session before anybody opens the login page, or,
\* after its end, one request at a time, or several callbacks in calm times.
Scenario ==
  \/ \A x \in Login : login[x] = NoLogin
  \/ /\ \A s \in DOMAIN OldToken : ~Live(s)
     /\ \/ calm /\ \A r \in Request : h[r].sid = None
        \/ \E r \in Request : \A q \in Request \ {r} : h[q].pc = "idle"

\* The old session and its token are named; requests and codes, and the tokens
\* not issued yet, are interchangeable.
Symmetry == Permutations(Request) \cup Permutations(Code) \cup Permutations(Token \ {t1})
=============================================================================
