------------------------------ MODULE Settings ------------------------------
(***************************************************************************)
(* The settings of the mail service and of the intranet login in the table *)
(* configurations: the backends that import them from their environment at *)
(* startup, in a transaction, and the administrators who save and test     *)
(* them, in single statements.  READ COMMITTED: a statement sees what was  *)
(* committed before it, and its own transaction.                           *)
(*                                                                         *)
(* A row is its account (host and user, issuer and client) and its secret; *)
(* the token of the webhook goes the way of the password, without the      *)
(* check of the account.  A row that is absent is the empty set.           *)
(***************************************************************************)
EXTENDS FiniteSets

CONSTANTS
  Backend, Admin,
  Account, Secret,
  Env,        \* environments: what each has for the sections it configures
  Form,       \* what administrators submit
  None

Section == {"smtp", "oidc"}
Row == [account : Account \cup {None}, secret : Secret \cup {None}]
RowOrNone == {{}} \cup {{v} : v \in Row}

\* new: the secret, None when its field is empty.  The mail service needs an
\* account, and only its settings are sent by a test.
FormRecord ==
  {f \in [key : Section, account : Account \cup {None}, new : Secret \cup {None},
          test : BOOLEAN] :
     (f.key = "smtp" => f.account # None) /\ (f.test => f.key = "smtp")}

ASSUME SettingsAssumption ==
  /\ None \notin Account \cup Secret \cup Backend
  /\ Env \subseteq [Section -> {{}} \cup {{v} : v \in [account : Account, secret : Secret]}]
  /\ Form \subseteq FormRecord

VARIABLES
  row,        \* the committed settings
  binding,    \* the committed binding of sessions that have none
  hold,       \* the backend whose transaction has inserted a key
  tx,         \* backends
  adm,        \* requests of administrators
  \* history
  given,      \* secrets that were given, with the account they are for
  sent,       \* passwords that went to a mail account
  imported,   \* the OIDC settings that were imported
  ever        \* OIDC settings ever committed

history == <<given, sent, imported, ever>>
vars == <<row, binding, hold, tx, adm, history>>

-----------------------------------------------------------------------------
Off == [pc |-> "off", env |-> [k \in Section |-> {}], want |-> [k \in Section |-> {}],
        put |-> [k \in Section |-> {}], need |-> FALSE, found |-> {}, bind |-> {}]
\* want: what is to be imported; need: the binding is to be stored;
\* found: the OIDC settings read back; put, bind: what it inserted.
BackendState ==
  [pc : {"off", "smtp", "oidc", "binding", "insert smtp", "insert oidc",
         "derive", "bind", "commit"},
   env : [Section -> RowOrNone], want : [Section -> RowOrNone],
   put : [Section -> RowOrNone], need : BOOLEAN, found : RowOrNone, bind : RowOrNone]

Idle == [pc |-> "idle", key |-> "smtp", account |-> None, new |-> None, test |-> FALSE,
         keep |-> None, exists |-> FALSE]
\* The form, the secret to be stored, and whether set found a row.
AdminState ==
  [pc : {"idle", "read", "ask", "write"}, key : Section, account : Account \cup {None},
   new : Secret \cup {None}, test : BOOLEAN, keep : Secret \cup {None}, exists : BOOLEAN]

Given == Section \X (Account \cup {None}) \X Secret

TypeOK ==
  /\ row \in [Section -> RowOrNone] /\ binding \in RowOrNone
  /\ hold \in [Section \cup {"binding"} -> Backend \cup {None}]
  /\ tx \in [Backend -> BackendState] /\ adm \in [Admin -> AdminState]
  /\ given \subseteq Given /\ sent \subseteq Given
  /\ imported \in RowOrNone /\ ever \subseteq Row

Init ==
  /\ row = [k \in Section |-> {}] /\ binding = {}
  /\ hold = [k \in Section \cup {"binding"} |-> None]
  /\ tx = [b \in Backend |-> Off] /\ adm = [x \in Admin |-> Idle]
  /\ given = {} /\ sent = {} /\ imported = {} /\ ever = {}

-----------------------------------------------------------------------------
(***************************************************************************)
(* importFromEnvironment.                                                  *)
(***************************************************************************)
SetTx(b, st) == tx' = [tx EXCEPT ![b] = st]
Goto(b, pc) == SetTx(b, [tx[b] EXCEPT !.pc = pc])

Pairs(env) == UNION {{<<k, v.account, v.secret>> : v \in env[k]} : k \in Section}

Start(b, env) ==
  /\ tx[b].pc = "off"
  /\ SetTx(b, [Off EXCEPT !.pc = "smtp", !.env = env])
  /\ given' = given \cup Pairs(env)
  /\ UNCHANGED <<row, binding, hold, adm, sent, imported, ever>>

\* What is read is absent when nothing is committed.
ReadSection(b, k) ==
  /\ tx[b].pc = k
  /\ SetTx(b, [tx[b] EXCEPT
       !.pc = IF k = "smtp" THEN "oidc" ELSE "binding",
       !.want[k] = IF row[k] = {} THEN tx[b].env[k] ELSE {},
       !.need = k = "oidc" /\ (row[k] # {} \/ tx[b].env[k] # {})])
  /\ UNCHANGED <<row, binding, hold, adm, history>>

ReadBinding(b) ==
  /\ tx[b].pc = "binding"
  /\ SetTx(b, [tx[b] EXCEPT !.pc = "insert smtp", !.need = @ /\ binding = {}])
  /\ UNCHANGED <<row, binding, hold, adm, history>>

\* Whether insertIfAbsent finds no row; it waits for another transaction's.
Mut_Upsert(k) == TRUE
Absent(k) == IF k = "binding" THEN binding = {} ELSE row[k] = {}

Insert(b, k) ==
  LET next == IF k = "smtp" THEN "insert oidc" ELSE IF tx[b].need THEN "derive" ELSE "commit"
      inserts == tx[b].want[k] # {} /\ Absent(k)
  IN
  /\ tx[b].pc = (IF k = "smtp" THEN "insert smtp" ELSE "insert oidc")
  /\ tx[b].want[k] # {} => hold[k] = None
  /\ SetTx(b, [tx[b] EXCEPT !.pc = next, !.put[k] = IF inserts THEN tx[b].want[k] ELSE {}])
  /\ hold' = IF inserts THEN [hold EXCEPT ![k] = b] ELSE hold
  /\ UNCHANGED <<row, binding, adm, history>>

\* The settings the binding is derived from.
Mut_OwnImport(b) == IF tx[b].want["oidc"] # {} THEN tx[b].want["oidc"] ELSE row["oidc"]
Persisted(b) == IF tx[b].put["oidc"] # {} THEN tx[b].put["oidc"] ELSE row["oidc"]

Derive(b) ==
  /\ tx[b].pc = "derive"
  /\ SetTx(b, [tx[b] EXCEPT !.pc = "bind", !.found = Persisted(b)])
  /\ UNCHANGED <<row, binding, hold, adm, history>>

Bind(b) ==
  /\ tx[b].pc = "bind"
  /\ hold["binding"] = None
  /\ SetTx(b, [tx[b] EXCEPT !.pc = "commit",
                            !.bind = IF Absent("binding") THEN tx[b].found ELSE {}])
  /\ hold' = IF Absent("binding") THEN [hold EXCEPT !["binding"] = b] ELSE hold
  /\ UNCHANGED <<row, binding, adm, history>>

Released(b) == [k \in DOMAIN hold |-> IF hold[k] = b THEN None ELSE hold[k]]
Merge(old, new) == IF new = {} THEN old ELSE new

Commit(b) ==
  LET put == tx[b].put IN
  /\ tx[b].pc = "commit"
  /\ row' = [k \in Section |-> Merge(row[k], put[k])]
  /\ binding' = Merge(binding, tx[b].bind)
  /\ imported' = Merge(imported, put["oidc"])
  /\ ever' = ever \cup put["oidc"]
  /\ hold' = Released(b)
  /\ SetTx(b, Off)
  /\ UNCHANGED <<adm, given, sent>>

\* A secret file cannot be read, a setting is invalid, the database fails or
\* the process dies: the transaction is rolled back.
ImportFails(b) ==
  /\ tx[b].pc # "off"
  /\ hold' = Released(b)
  /\ SetTx(b, Off)
  /\ UNCHANGED <<row, binding, adm, history>>

-----------------------------------------------------------------------------
(***************************************************************************)
(* updateMailgridConfig, updateOidcConfig and testMailgridConfig.          *)
(***************************************************************************)
SetAdm(x, st) == adm' = [adm EXCEPT ![x] = st]

Submit(x, f) ==
  /\ adm[x].pc = "idle"
  /\ SetAdm(x, [pc |-> "read", key |-> f.key, account |-> f.account, new |-> f.new,
                test |-> f.test, keep |-> None, exists |-> FALSE])
  /\ given' = IF f.new = None THEN given ELSE given \cup {<<f.key, f.account, f.new>>}
  /\ UNCHANGED <<row, binding, hold, tx, sent, imported, ever>>

NoRow == [account |-> None, secret |-> None]
Current(k) == IF row[k] = {} THEN NoRow ELSE CHOOSE v \in row[k] : TRUE

\* The stored secret is for another account than the one in the form.
Foreign(x, cur) == cur.secret # None /\ cur.account # adm[x].account

\* An intranet login that is off may be cleared, which drops its secret.
Refused(x, cur) ==
  adm[x].new = None /\ Foreign(x, cur) /\ (adm[x].key = "smtp" \/ adm[x].account # None)

\* The secret that is stored or sent.
Kept(x, cur) ==
  IF adm[x].new # None THEN adm[x].new
  ELSE IF Foreign(x, cur) THEN None ELSE cur.secret

ReadCurrent(x) ==
  LET cur == Current(adm[x].key)
      keep == Kept(x, cur)
  IN
  /\ adm[x].pc = "read"
  /\ IF Refused(x, cur) \/ adm[x].test THEN SetAdm(x, Idle)
     ELSE SetAdm(x, [adm[x] EXCEPT !.pc = "ask", !.keep = keep])
  /\ sent' = IF Refused(x, cur) \/ ~adm[x].test \/ keep = None THEN sent
             ELSE sent \cup {<<adm[x].key, adm[x].account, keep>>}
  /\ UNCHANGED <<row, binding, hold, tx, given, imported, ever>>

\* The getByKey of set.
Ask(x) ==
  /\ adm[x].pc = "ask"
  /\ SetAdm(x, [adm[x] EXCEPT !.pc = "write", !.exists = row[adm[x].key] # {}])
  /\ UNCHANGED <<row, binding, hold, tx, history>>

\* What set stores.
Mut_KeepAtWrite(x) ==
  [account |-> adm[x].account,
   secret |-> IF adm[x].new # None THEN adm[x].new ELSE Current(adm[x].key).secret]
Stored(x) == [account |-> adm[x].account, secret |-> adm[x].keep]

\* An UPDATE, or an INSERT, which fails when the row is there by now.
Save(x) ==
  LET k == adm[x].key IN
  /\ adm[x].pc = "write"
  /\ ~adm[x].exists => hold[k] = None
  /\ IF adm[x].exists \/ row[k] = {}
     THEN /\ row' = [row EXCEPT ![k] = {Stored(x)}]
          /\ ever' = IF k = "oidc" THEN ever \cup {Stored(x)} ELSE ever
     ELSE UNCHANGED <<row, ever>>
  /\ SetAdm(x, Idle)
  /\ UNCHANGED <<binding, hold, tx, given, sent, imported>>

\* A field is invalid, the database fails or the process dies.
GiveUp(x) ==
  /\ adm[x].pc # "idle"
  /\ SetAdm(x, Idle)
  /\ UNCHANGED <<row, binding, hold, tx, history>>

-----------------------------------------------------------------------------
BackendNext(b) ==
  \/ \E env \in Env : Start(b, env)
  \/ \E k \in Section : ReadSection(b, k) \/ Insert(b, k)
  \/ ReadBinding(b) \/ Derive(b) \/ Bind(b) \/ Commit(b) \/ ImportFails(b)

AdminNext(x) ==
  \/ \E f \in Form : Submit(x, f)
  \/ ReadCurrent(x) \/ Ask(x) \/ Save(x) \/ GiveUp(x)

Next == (\E b \in Backend : BackendNext(b)) \/ (\E x \in Admin : AdminNext(x))

Spec == Init /\ [][Next]_vars

-----------------------------------------------------------------------------
(***************************************************************************)
(* Properties.                                                             *)
(***************************************************************************)

\* The comments at configController.ts:99, 144 and 201: a secret is only stored
\* with, and a password only sent to, the account it was given for.
SecretStaysWithAccount ==
  /\ \A k \in Section : \A v \in row[k] :
       v.secret # None => <<k, v.account, v.secret>> \in given
  /\ sent \subseteq given

\* Story 4.2, criterion 19: the environment is copied once, and ignored when
\* settings are stored: only an administrator's save changes stored settings.
StoredWins ==
  [][\A k \in Section : row[k] # {} /\ row'[k] # row[k] =>
       \E x \in Admin : adm[x].pc = "write" /\ adm[x].key = k /\ adm'[x].pc = "idle"]_vars

\* The binding is of settings that were stored, never of an import that lost;
\* imported settings are committed with it.
BindingIsOfStored ==
  /\ binding \subseteq ever
  /\ imported # {} => binding = imported

\* Story 4.2, criterion 14 and configController.ts:99: an empty field keeps the
\* value that is stored.  TLC refutes this of updateMailgridConfig when saves
\* overlap, see "Findings" in README.md.
EmptyKeepsCurrent ==
  [][\A x \in Admin :
       LET k == adm[x].key IN
       adm[x].pc = "write" /\ adm'[x].pc = "idle" /\ adm[x].new = None /\ row'[k] # row[k]
       => \A v \in row[k], w \in row'[k] : w.account = v.account => w.secret = v.secret]_vars
=============================================================================
