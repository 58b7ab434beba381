--------------------------- MODULE SettingsProofs ---------------------------
(***************************************************************************)
(* Proofs about Settings: types, secrets that stay with their account,     *)
(* stored settings that win, and the binding.                              *)
(***************************************************************************)
EXTENDS Settings, TLAPS

\* Every row that can be read is typed, and so is what Current makes of it.
LEMMA CurrentType ==
  ASSUME TypeOK, NEW k \in Section
  PROVE  /\ Current(k) \in Row
         /\ row[k] # {} => Current(k) \in row[k]
         /\ row[k] = {} => Current(k) = NoRow
  <1>1. CASE row[k] = {}
    BY <1>1 DEF Current, NoRow, Row
  <1>2. CASE row[k] # {}
    <2>1. row[k] \subseteq Row
      BY DEF TypeOK, RowOrNone
    <2>2. Current(k) = CHOOSE v \in row[k] : TRUE
      BY <1>2 DEF Current
    <2>3. Current(k) \in row[k]
      BY <1>2, <2>2
    <2> QED
      BY <1>2, <2>1, <2>3
  <1> QED
    BY <1>1, <1>2

\* Idle states are typed.
LEMMA IdleTypes == Off \in BackendState /\ Idle \in AdminState
  BY DEF Off, Idle, BackendState, AdminState, Section, RowOrNone

\* What an environment offers is typed.
LEMMA EnvType ==
  ASSUME NEW env \in Env
  PROVE  env \in [Section -> RowOrNone]
  <1>1. env \in [Section -> {{}} \cup {{v} : v \in [account : Account, secret : Secret]}]
    BY SettingsAssumption
  <1>2. [account : Account, secret : Secret] \subseteq Row
    BY DEF Row
  <1> QED
    BY <1>1, <1>2 DEF RowOrNone

\* What an administrator may submit is typed.
LEMMA FormType ==
  ASSUME NEW f \in Form
  PROVE  /\ f.key \in Section /\ f.account \in Account \cup {None}
         /\ f.new \in Secret \cup {None} /\ f.test \in BOOLEAN
  BY SettingsAssumption DEF FormRecord

\* The initial state is typed.
LEMMA InitTypes == Init => TypeOK
  BY IdleTypes DEF Init, TypeOK, RowOrNone, Section

\* The secret a save keeps or a test sends is a secret or none.
LEMMA KeptType ==
  ASSUME TypeOK, NEW x \in Admin, adm[x].key \in Section
  PROVE  Kept(x, Current(adm[x].key)) \in Secret \cup {None}
  <1>1. Current(adm[x].key) \in Row
    BY CurrentType
  <1> QED
    BY <1>1 DEF Kept, Row, TypeOK, AdminState

\* An import moves on with typed values.
LEMMA BackendTypes ==
  ASSUME TypeOK, NEW b \in Backend, BackendNext(b)
  PROVE  TypeOK'
  <1> USE IdleTypes
  <1>0. tx[b] \in BackendState
    BY DEF TypeOK
  <1>1. ASSUME NEW env \in Env, Start(b, env) PROVE TypeOK'
    <2>1. [Off EXCEPT !.pc = "smtp", !.env = env] \in BackendState
      BY EnvType DEF Off, BackendState, RowOrNone
    <2>2. Pairs(env) \subseteq Given
      <3>1. env \in [Section -> RowOrNone]
        BY EnvType
      <3>2. ASSUME NEW k \in Section, NEW v \in env[k]
            PROVE  <<k, v.account, v.secret>> \in Given
        <4>1. v \in [account : Account, secret : Secret]
          BY SettingsAssumption
        <4> QED
          BY <4>1 DEF Given
      <3> QED
        BY <3>2 DEF Pairs
    <2> QED
      BY <1>1, <2>1, <2>2 DEF Start, SetTx, TypeOK
  <1>2. ASSUME NEW k \in Section, ReadSection(b, k) PROVE TypeOK'
    <2>1. row[k] \in RowOrNone /\ tx[b].env[k] \in RowOrNone /\ {} \in RowOrNone
      BY <1>0 DEF TypeOK, BackendState, RowOrNone
    <2> DEFINE next == [tx[b] EXCEPT
       !.pc = IF k = "smtp" THEN "oidc" ELSE "binding",
       !.want[k] = IF row[k] = {} THEN tx[b].env[k] ELSE {},
       !.need = k = "oidc" /\ (row[k] # {} \/ tx[b].env[k] # {})]
    <2>2. next \in BackendState
      BY <1>0, <2>1 DEF BackendState
    <2> QED
      BY <1>2, <2>2 DEF ReadSection, SetTx, TypeOK, history
  <1>3. ASSUME NEW k \in Section, Insert(b, k) PROVE TypeOK'
    BY <1>0, <1>3 DEF Insert, SetTx, TypeOK, BackendState, RowOrNone, history
  <1>4. CASE ReadBinding(b)
    BY <1>0, <1>4 DEF ReadBinding, SetTx, TypeOK, BackendState, history
  <1>5. CASE Derive(b)
    <2>1. Persisted(b) \in RowOrNone
      BY <1>0 DEF Persisted, TypeOK, BackendState, Section
    <2> QED
      BY <1>0, <1>5, <2>1 DEF Derive, SetTx, TypeOK, BackendState, history
  <1>6. CASE Bind(b)
    BY <1>0, <1>6 DEF Bind, SetTx, TypeOK, BackendState, RowOrNone, history
  <1>7. Released(b) \in [Section \cup {"binding"} -> Backend \cup {None}]
    BY DEF TypeOK, Released
  <1>8. CASE Commit(b)
    <2>1. \A old, new \in RowOrNone : Merge(old, new) \in RowOrNone
      BY DEF Merge
    <2>2. \A v \in RowOrNone : v \subseteq Row
      BY DEF RowOrNone
    <2>3. tx[b].put \in [Section -> RowOrNone] /\ tx[b].bind \in RowOrNone /\ "oidc" \in Section
      BY <1>0 DEF BackendState, Section
    <2> QED
      BY <1>7, <1>8, <2>1, <2>2, <2>3 DEF Commit, SetTx, TypeOK
  <1>9. CASE ImportFails(b)
    BY <1>7, <1>9 DEF ImportFails, SetTx, TypeOK, history
  <1> QED
    BY <1>1, <1>2, <1>3, <1>4, <1>5, <1>6, <1>8, <1>9 DEF BackendNext

\* An administrator's request moves on with typed values.
LEMMA AdminTypes ==
  ASSUME TypeOK, NEW x \in Admin, AdminNext(x)
  PROVE  TypeOK'
  <1> USE IdleTypes
  <1>0. adm[x] \in AdminState /\ adm[x].key \in Section
    BY DEF TypeOK, AdminState
  <1>1. ASSUME NEW f \in Form, Submit(x, f) PROVE TypeOK'
    <2>1. [pc |-> "read", key |-> f.key, account |-> f.account, new |-> f.new,
           test |-> f.test, keep |-> None, exists |-> FALSE] \in AdminState
      BY FormType DEF AdminState
    <2>2. f.new # None => <<f.key, f.account, f.new>> \in Given
      BY FormType DEF Given
    <2> QED
      BY <1>1, <2>1, <2>2 DEF Submit, SetAdm, TypeOK
  <1>2. CASE ReadCurrent(x)
    <2> DEFINE keep == Kept(x, Current(adm[x].key))
    <2>1. keep \in Secret \cup {None}
      BY <1>0, KeptType
    <2>2. [adm[x] EXCEPT !.pc = "ask", !.keep = keep] \in AdminState
      BY <1>0, <2>1 DEF AdminState
    <2>3. keep # None => <<adm[x].key, adm[x].account, keep>> \in Given
      BY <1>0, <2>1 DEF Given, AdminState
    <2>4. adm' \in [Admin -> AdminState]
      BY <1>2, <2>2 DEF ReadCurrent, SetAdm, TypeOK
    <2>5. sent' \subseteq Given
      BY <1>2, <2>3 DEF ReadCurrent, TypeOK
    <2> QED
      BY <1>2, <2>4, <2>5 DEF ReadCurrent, TypeOK
  <1>3. CASE Ask(x)
    BY <1>0, <1>3 DEF Ask, SetAdm, TypeOK, AdminState, history
  <1>4. CASE Save(x)
    <2>1. Stored(x) \in Row
      BY <1>0 DEF Stored, Row, AdminState
    <2>2. {Stored(x)} \in RowOrNone
      BY <2>1 DEF RowOrNone
    <2> QED
      BY <1>0, <1>4, <2>1, <2>2 DEF Save, SetAdm, TypeOK
  <1>5. CASE GiveUp(x)
    BY <1>5 DEF GiveUp, SetAdm, TypeOK, history
  <1> QED
    BY <1>1, <1>2, <1>3, <1>4, <1>5 DEF AdminNext

\* Every step is an import's, a request's or none.
LEMMA TypesStep ==
  ASSUME TypeOK, [Next]_vars
  PROVE  TypeOK'
  <1>1. CASE UNCHANGED vars
    BY <1>1 DEF vars, history, TypeOK
  <1> QED
    BY <1>1, BackendTypes, AdminTypes DEF Next

\* Rows, imports, requests and histories have their types (configService.ts,
\* configController.ts).
THEOREM TypeCorrect == Spec => []TypeOK
  BY InitTypes, TypesStep, PTL DEF Spec

(***************************************************************************)
(* Secrets.                                                                *)
(***************************************************************************)

\* Row v of section k has no secret, or one that was given for its account.
Vouched(k, v) == v.secret # None => <<k, v.account, v.secret>> \in given

\* Whatever is stored, sent or about to be was given for its account.
SecretInv ==
  /\ \A k \in Section : \A v \in row[k] : Vouched(k, v)
  /\ sent \subseteq given
  /\ \A b \in Backend, k \in Section :
       \A v \in tx[b].env[k] \cup tx[b].want[k] \cup tx[b].put[k] : Vouched(k, v)
  /\ \A x \in Admin :
       /\ adm[x].pc # "idle" /\ adm[x].new # None
            => <<adm[x].key, adm[x].account, adm[x].new>> \in given
       /\ adm[x].pc \in {"ask", "write"} /\ adm[x].keep # None
            => <<adm[x].key, adm[x].account, adm[x].keep>> \in given

\* An import stores what its environment gives.
LEMMA BackendSecrets ==
  ASSUME TypeOK, SecretInv, NEW b \in Backend, BackendNext(b)
  PROVE  SecretInv'
  <1>0. tx[b] \in BackendState /\ {"smtp", "oidc"} = Section
    BY DEF TypeOK, Section
  <1>1. adm' = adm /\ sent' = sent /\ given \subseteq given'
    BY DEF BackendNext, Start, ReadSection, Insert, ReadBinding, Derive, Bind, Commit,
           ImportFails, history
  <1>2. SUFFICES /\ \A k \in Section : \A v \in row'[k] : Vouched(k, v)'
                 /\ \A k \in Section : \A v \in tx'[b].env[k] \cup tx'[b].want[k]
                                                  \cup tx'[b].put[k] : Vouched(k, v)'
    <2>1. \A c \in Backend \ {b} : tx'[c] = tx[c]
      BY DEF BackendNext, Start, ReadSection, Insert, ReadBinding, Derive, Bind, Commit,
             ImportFails, SetTx, TypeOK
    <2> QED
      BY <1>1, <1>2, <2>1 DEF SecretInv, Vouched
  <1>3. ASSUME NEW env \in Env, Start(b, env)
        PROVE  /\ row' = row
               /\ \A k \in Section : \A v \in tx'[b].env[k] \cup tx'[b].want[k]
                                                \cup tx'[b].put[k] : Vouched(k, v)'
    <2>1. tx'[b] = [Off EXCEPT !.pc = "smtp", !.env = env]
      BY <1>3 DEF Start, SetTx, TypeOK
    <2>2. \A k \in Section : tx'[b].env[k] = env[k] /\ tx'[b].want[k] = {} /\ tx'[b].put[k] = {}
      BY <2>1 DEF Off
    <2>3. \A k \in Section : \A v \in env[k] : <<k, v.account, v.secret>> \in given'
      BY <1>3 DEF Start, Pairs
    <2> QED
      BY <1>3, <2>2, <2>3 DEF Start, Vouched
  <1>4. ASSUME NEW k \in Section, ReadSection(b, k)
        PROVE  /\ UNCHANGED <<row, given>>
               /\ \A l \in Section : /\ tx'[b].env[l] = tx[b].env[l]
                                     /\ tx'[b].want[l] \subseteq tx[b].want[l] \cup tx[b].env[l]
                                     /\ tx'[b].put[l] = tx[b].put[l]
    BY <1>0, <1>4 DEF ReadSection, SetTx, TypeOK, BackendState, history
  <1>5. ASSUME NEW k \in Section, Insert(b, k)
        PROVE  /\ UNCHANGED <<row, given>>
               /\ \A l \in Section : /\ tx'[b].env[l] = tx[b].env[l]
                                     /\ tx'[b].want[l] = tx[b].want[l]
                                     /\ tx'[b].put[l] \subseteq tx[b].put[l] \cup tx[b].want[l]
    BY <1>0, <1>5 DEF Insert, SetTx, TypeOK, BackendState, history
  <1>6. ASSUME ReadBinding(b) \/ Derive(b) \/ Bind(b)
        PROVE  /\ UNCHANGED <<row, given>>
               /\ \A l \in Section : /\ tx'[b].env[l] = tx[b].env[l]
                                     /\ tx'[b].want[l] = tx[b].want[l]
                                     /\ tx'[b].put[l] = tx[b].put[l]
    <2>1. CASE ReadBinding(b)
      BY <1>0, <2>1 DEF ReadBinding, SetTx, TypeOK, BackendState, history
    <2>2. CASE Derive(b)
      BY <1>0, <2>2 DEF Derive, SetTx, TypeOK, BackendState, history
    <2>3. CASE Bind(b)
      BY <1>0, <2>3 DEF Bind, SetTx, TypeOK, BackendState, history
    <2> QED
      BY <1>6, <2>1, <2>2, <2>3
  <1>7. ASSUME Commit(b) \/ ImportFails(b)
        PROVE  /\ given' = given
               /\ \A l \in Section : /\ row'[l] \in {row[l], tx[b].put[l]}
                                     /\ tx'[b].env[l] = {} /\ tx'[b].want[l] = {}
                                     /\ tx'[b].put[l] = {}
    <2>1. tx'[b] = Off
      BY <1>7 DEF Commit, ImportFails, SetTx, TypeOK
    <2>2. given' = given
      BY <1>7 DEF Commit, ImportFails, history
    <2>3. \A l \in Section : row'[l] \in {row[l], tx[b].put[l]}
      BY <1>7 DEF Commit, ImportFails, Merge
    <2> QED
      BY <2>1, <2>2, <2>3 DEF Off
  <1> QED
    BY <1>1, <1>3, <1>4, <1>5, <1>6, <1>7 DEF BackendNext, SecretInv, Vouched

\* A request keeps the stored secret only for its account.
LEMMA AdminSecrets ==
  ASSUME TypeOK, SecretInv, NEW x \in Admin, AdminNext(x)
  PROVE  SecretInv'
  <1>0. adm[x] \in AdminState /\ adm[x].key \in Section
    BY DEF TypeOK, AdminState
  <1>1. tx' = tx /\ given \subseteq given'
    BY DEF AdminNext, Submit, ReadCurrent, Ask, Save, GiveUp, history
  <1>2. SUFFICES /\ \A k \in Section : \A v \in row'[k] : Vouched(k, v)'
                 /\ sent' \subseteq given'
                 /\ adm'[x].pc # "idle" /\ adm'[x].new # None
                      => <<adm'[x].key, adm'[x].account, adm'[x].new>> \in given'
                 /\ adm'[x].pc \in {"ask", "write"} /\ adm'[x].keep # None
                      => <<adm'[x].key, adm'[x].account, adm'[x].keep>> \in given'
    <2>1. \A y \in Admin \ {x} : adm'[y] = adm[y]
      BY DEF AdminNext, Submit, ReadCurrent, Ask, Save, GiveUp, SetAdm, TypeOK
    <2> QED
      BY <1>1, <1>2, <2>1 DEF SecretInv, Vouched
  <1>3. Idle.pc = "idle"
    BY DEF Idle
  <1>4. ASSUME NEW f \in Form, Submit(x, f)
        PROVE  /\ UNCHANGED <<row, sent>>
               /\ adm'[x].pc = "read"
               /\ adm'[x].new # None => <<adm'[x].key, adm'[x].account, adm'[x].new>> \in given'
    BY <1>4 DEF Submit, SetAdm, TypeOK
  <1>5. ASSUME ReadCurrent(x)
        PROVE  /\ UNCHANGED <<row, given>>
               /\ sent' \subseteq given
               /\ \/ adm'[x].pc = "idle"
                  \/ /\ adm'[x].key = adm[x].key /\ adm'[x].account = adm[x].account
                     /\ adm'[x].new = adm[x].new
                     /\ adm'[x].keep # None
                          => <<adm[x].key, adm[x].account, adm'[x].keep>> \in given
    <2> DEFINE cur == Current(adm[x].key)
               keep == Kept(x, cur)
    <2>1. keep # None => <<adm[x].key, adm[x].account, keep>> \in given
      <3>1. CASE adm[x].new # None
        BY <1>5, <3>1 DEF Kept, ReadCurrent, SecretInv
      <3>2. CASE adm[x].new = None /\ keep # None
        <4>1. keep = cur.secret /\ cur.account = adm[x].account
          BY <3>2 DEF Kept, Foreign
        <4>2. cur \in row[adm[x].key]
          BY <1>0, <3>2, <4>1, CurrentType DEF NoRow
        <4> QED
          BY <1>0, <3>2, <4>1, <4>2 DEF SecretInv, Vouched
      <3> QED
        BY <3>1, <3>2
    <2>2. sent' \subseteq given
      BY <1>5, <2>1 DEF ReadCurrent, SecretInv
    <2>3. adm'[x] = Idle \/ adm'[x] = [adm[x] EXCEPT !.pc = "ask", !.keep = keep]
      BY <1>5 DEF ReadCurrent, SetAdm, TypeOK
    <2> QED
      BY <1>0, <1>3, <1>5, <2>1, <2>2, <2>3 DEF ReadCurrent, AdminState
  <1>6. ASSUME Ask(x)
        PROVE  /\ UNCHANGED <<row, given, sent>> /\ adm[x].pc = "ask"
               /\ adm'[x].key = adm[x].key /\ adm'[x].account = adm[x].account
               /\ adm'[x].new = adm[x].new /\ adm'[x].keep = adm[x].keep
    BY <1>0, <1>6 DEF Ask, SetAdm, TypeOK, AdminState, history
  <1>7. ASSUME Save(x)
        PROVE  /\ UNCHANGED <<given, sent>> /\ adm'[x].pc = "idle"
               /\ \A k \in Section : \A v \in row'[k] : Vouched(k, v)
    <2>1. Vouched(adm[x].key, Stored(x))
      BY <1>7 DEF Save, Stored, Vouched, SecretInv
    <2>2. \A k \in Section : row'[k] = row[k] \/ (k = adm[x].key /\ row'[k] = {Stored(x)})
      BY <1>7 DEF Save, TypeOK
    <2>3. \A k \in Section : \A v \in row'[k] : Vouched(k, v)
      BY <2>1, <2>2 DEF SecretInv
    <2>4. UNCHANGED <<given, sent>> /\ adm'[x].pc = "idle"
      BY <1>3, <1>7 DEF Save, SetAdm, TypeOK
    <2> QED
      BY <2>3, <2>4
  <1>8. ASSUME GiveUp(x)
        PROVE  UNCHANGED <<row, given, sent>> /\ adm'[x].pc = "idle"
    BY <1>3, <1>8 DEF GiveUp, SetAdm, TypeOK, history
  <1>9. \A k \in Section : \A v \in row'[k] : Vouched(k, v)
    BY <1>4, <1>5, <1>6, <1>7, <1>8 DEF AdminNext, SecretInv
  <1>10. sent' \subseteq given'
    BY <1>1, <1>4, <1>5, <1>6, <1>7, <1>8 DEF AdminNext, SecretInv
  <1>11. /\ adm'[x].pc # "idle" /\ adm'[x].new # None
              => <<adm'[x].key, adm'[x].account, adm'[x].new>> \in given'
         /\ adm'[x].pc \in {"ask", "write"} /\ adm'[x].keep # None
              => <<adm'[x].key, adm'[x].account, adm'[x].keep>> \in given'
    <2>1. ASSUME NEW f \in Form, Submit(x, f)
          PROVE  /\ adm'[x].pc # "idle" /\ adm'[x].new # None
                      => <<adm'[x].key, adm'[x].account, adm'[x].new>> \in given'
                 /\ adm'[x].pc \notin {"ask", "write"}
      BY <1>4, <2>1
    <2>2. CASE ReadCurrent(x)
      BY <1>1, <1>5, <2>2 DEF ReadCurrent, SecretInv
    <2>3. CASE Ask(x)
      BY <1>1, <1>6, <2>3 DEF SecretInv
    <2>4. CASE Save(x) \/ GiveUp(x)
      BY <1>7, <1>8, <2>4
    <2> QED
      BY <2>1, <2>2, <2>3, <2>4 DEF AdminNext
  <1> QED
    BY <1>1, <1>9, <1>10, <1>11 DEF Vouched

\* A secret is only stored with, and a password only sent to, the account it was
\* given for, however many imports, saves and tests overlap
\* (configController.ts:99, 144 and 201).
THEOREM SecretsStay == Spec => []SecretStaysWithAccount
  <1>1. Init => SecretInv
    BY DEF Init, SecretInv, Off, Idle
  <1>2. TypeOK /\ SecretInv /\ [Next]_vars => SecretInv'
    <2>1. UNCHANGED vars /\ SecretInv => SecretInv'
      BY DEF vars, history, SecretInv, Vouched
    <2> QED
      BY <2>1, BackendSecrets, AdminSecrets DEF Next
  <1>3. SecretInv => SecretStaysWithAccount
    BY DEF SecretInv, Vouched, SecretStaysWithAccount
  <1> QED
    BY <1>1, <1>2, <1>3, TypeCorrect, PTL DEF Spec

(***************************************************************************)
(* Stored settings and the binding.                                        *)
(***************************************************************************)

\* A transaction that has inserted a row holds its key, and nobody has stored it
\* since; a row that a save has found is still there.
HoldInv ==
  /\ \A b \in Backend, k \in Section : tx[b].put[k] # {} => hold[k] = b /\ row[k] = {}
  /\ \A b \in Backend : tx[b].bind # {} => hold["binding"] = b /\ binding = {}
  /\ \A x \in Admin : adm[x].pc = "write" /\ adm[x].exists => row[adm[x].key] # {}

\* What a step of an import does to what it has inserted, to the locks and to rows.
LEMMA BackendHolds ==
  ASSUME TypeOK, HoldInv, NEW b \in Backend, BackendNext(b)
  PROVE  /\ HoldInv'
         /\ \A k \in Section : row[k] # {} => row'[k] = row[k]
  <1>0. /\ tx[b] \in BackendState /\ {"smtp", "oidc"} = Section
        /\ DOMAIN hold = Section \cup {"binding"} /\ b # None
    BY SettingsAssumption DEF TypeOK, Section
  <1>1. adm' = adm /\ \A c \in Backend \ {b} : tx'[c] = tx[c]
    BY DEF BackendNext, Start, ReadSection, Insert, ReadBinding, Derive, Bind, Commit,
           ImportFails, SetTx, TypeOK, history
  <1>2. ASSUME UNCHANGED <<row, binding, hold>>,
               \A k \in Section : tx'[b].put[k] \in {tx[b].put[k], {}},
               tx'[b].bind \in {tx[b].bind, {}}
        PROVE  HoldInv' /\ \A k \in Section : row'[k] = row[k]
    BY <1>1, <1>2 DEF HoldInv
  <1>3. ASSUME NEW env \in Env, Start(b, env)
        PROVE  /\ UNCHANGED <<row, binding, hold>>
               /\ \A k \in Section : tx'[b].put[k] = {}
               /\ tx'[b].bind = {}
    BY <1>3 DEF Start, SetTx, TypeOK, Off
  <1>4. ASSUME NEW k \in Section, ReadSection(b, k)
        PROVE  UNCHANGED <<row, binding, hold>> /\ tx'[b].put = tx[b].put /\ tx'[b].bind = tx[b].bind
    BY <1>0, <1>4 DEF ReadSection, SetTx, TypeOK, BackendState
  <1>5. CASE ReadBinding(b)
    <2>1. UNCHANGED <<row, binding, hold>> /\ tx'[b].put = tx[b].put /\ tx'[b].bind = tx[b].bind
      BY <1>0, <1>5 DEF ReadBinding, SetTx, TypeOK, BackendState
    <2> QED
      BY <1>2, <2>1
  <1>6. CASE Derive(b)
    <2>1. UNCHANGED <<row, binding, hold>> /\ tx'[b].put = tx[b].put /\ tx'[b].bind = tx[b].bind
      BY <1>0, <1>6 DEF Derive, SetTx, TypeOK, BackendState
    <2> QED
      BY <1>2, <2>1
  <1>7. ASSUME NEW k \in Section, Insert(b, k)
        PROVE  HoldInv' /\ \A l \in Section : row'[l] = row[l]
    <2> DEFINE inserts == tx[b].want[k] # {} /\ row[k] = {}
    <2>1. /\ tx'[b].bind = tx[b].bind
          /\ \A l \in Section \ {k} : tx'[b].put[l] = tx[b].put[l]
          /\ tx'[b].put[k] = IF inserts THEN tx[b].want[k] ELSE {}
      BY <1>0, <1>7 DEF Insert, Absent, SetTx, TypeOK, BackendState, Section
    <2>2. UNCHANGED <<row, binding>> /\ hold' = IF inserts THEN [hold EXCEPT ![k] = b] ELSE hold
      BY <1>7 DEF Insert, Absent, Section
    <2>3. inserts => hold[k] = None
      BY <1>7 DEF Insert
    <2>4. \A c \in Backend : hold[k] = None => tx[c].put[k] = {}
      BY SettingsAssumption DEF HoldInv
    <2>5. \A l \in Section \ {k} : hold'[l] = hold[l]
      BY <2>2
    <2>6. hold'["binding"] = hold["binding"]
      BY <1>0, <2>2
    <2>7. inserts => hold'[k] = b
      BY <1>0, <2>2
    <2> QED
      BY <1>1, <2>1, <2>2, <2>3, <2>4, <2>5, <2>6, <2>7 DEF HoldInv
  <1>8. CASE Bind(b)
    <2>1. /\ tx'[b].put = tx[b].put
          /\ tx'[b].bind = IF binding = {} THEN tx[b].found ELSE {}
      BY <1>0, <1>8 DEF Bind, Absent, SetTx, TypeOK, BackendState
    <2>2. /\ UNCHANGED <<row, binding>> /\ hold["binding"] = None
          /\ hold' = IF binding = {} THEN [hold EXCEPT !["binding"] = b] ELSE hold
      BY <1>8 DEF Bind, Absent
    <2>3. \A c \in Backend : tx[c].bind = {}
      BY <2>2, SettingsAssumption DEF HoldInv
    <2>4. \A l \in Section : hold'[l] = hold[l]
      BY <1>0, <2>2
    <2>5. binding = {} => hold'["binding"] = b
      BY <1>0, <2>2
    <2> QED
      BY <1>1, <2>1, <2>2, <2>3, <2>4, <2>5 DEF HoldInv
  <1>9. ASSUME Commit(b) \/ ImportFails(b)
        PROVE  HoldInv' /\ \A k \in Section : row[k] # {} => row'[k] = row[k]
    <2>1. (\A k \in Section : tx'[b].put[k] = {}) /\ tx'[b].bind = {}
      BY <1>9 DEF Commit, ImportFails, SetTx, TypeOK, Off
    <2>2. \A k \in Section \cup {"binding"} : hold[k] # b => hold'[k] = hold[k]
      BY <1>0, <1>9 DEF Commit, ImportFails, Released
    <2>3. \A k \in Section : row'[k] = IF tx[b].put[k] = {} \/ ImportFails(b) THEN row[k]
                                       ELSE tx[b].put[k]
      BY <1>9 DEF Commit, ImportFails, Merge
    <2>4. binding' = IF tx[b].bind = {} \/ ImportFails(b) THEN binding ELSE tx[b].bind
      BY <1>9 DEF Commit, ImportFails, Merge
    <2>5. \A k \in Section : tx[b].put[k] # {} => hold[k] = b /\ row[k] = {}
      BY DEF HoldInv
    <2>6. tx[b].bind # {} => hold["binding"] = b
      BY DEF HoldInv
    <2>7. \A k \in Section : row[k] # {} => row'[k] = row[k]
      BY <2>3, <2>5
    <2>8. \A c \in Backend \ {b}, k \in Section :
             tx[c].put[k] # {} => hold'[k] = c /\ row'[k] = {}
      BY <2>2, <2>3, <2>5 DEF HoldInv
    <2>9. \A c \in Backend \ {b} : tx[c].bind # {} => hold'["binding"] = c /\ binding' = {}
      BY <2>2, <2>4, <2>6 DEF HoldInv
    <2>10. \A x \in Admin : adm[x].pc = "write" /\ adm[x].exists => row'[adm[x].key] # {}
      BY <2>7 DEF HoldInv, TypeOK, AdminState
    <2> QED
      BY <1>1, <2>1, <2>7, <2>8, <2>9, <2>10 DEF HoldInv
  <1> QED
    BY <1>2, <1>3, <1>4, <1>5, <1>6, <1>7, <1>8, <1>9 DEF BackendNext

\* A request stores a row only when none is being inserted, and takes none away.
LEMMA AdminHolds ==
  ASSUME TypeOK, HoldInv, NEW x \in Admin, AdminNext(x)
  PROVE  /\ HoldInv'
         /\ \A k \in Section :
              row'[k] # row[k] => /\ adm[x].pc = "write" /\ adm[x].key = k
                                  /\ adm'[x].pc = "idle"
                                  /\ \A b \in Backend : tx[b].put[k] = {}
         /\ \A k \in Section : row[k] # {} => row'[k] # {}
  <1>0. adm[x] \in AdminState /\ adm[x].key \in Section
    BY DEF TypeOK, AdminState
  <1>1. UNCHANGED <<tx, hold, binding>>
    BY DEF AdminNext, Submit, ReadCurrent, Ask, Save, GiveUp
  <1>2. \A y \in Admin \ {x} : adm'[y] = adm[y]
    BY DEF AdminNext, Submit, ReadCurrent, Ask, Save, GiveUp, SetAdm, TypeOK
  <1>3. CASE Save(x)
    <2> DEFINE k == adm[x].key
    <2>1. \A b \in Backend : row[k] # {} \/ hold[k] = None => tx[b].put[k] = {}
      BY <1>0, SettingsAssumption DEF HoldInv
    <2>2. row[k] # {} \/ hold[k] = None
      BY <1>3 DEF Save, HoldInv
    <2>3. /\ adm'[x].pc = "idle" /\ adm[x].pc = "write"
          /\ \A l \in Section \ {k} : row'[l] = row[l]
          /\ row'[k] \in {row[k], {Stored(x)}}
      BY <1>0, <1>3 DEF Save, SetAdm, TypeOK, Idle
    <2>4. \A l \in Section : row[l] # {} => row'[l] # {}
      BY <2>3
    <2>5. \A b \in Backend, l \in Section : tx[b].put[l] # {} => hold[l] = b /\ row'[l] = {}
      BY <2>1, <2>2, <2>3 DEF HoldInv
    <2>6. \A y \in Admin : adm'[y].pc = "write" /\ adm'[y].exists => row'[adm'[y].key] # {}
      <3> TAKE y \in Admin
      <3>1. CASE y = x
        BY <2>3, <3>1
      <3>2. CASE y # x
        BY <1>2, <2>4, <3>2 DEF HoldInv, TypeOK, AdminState
      <3> QED
        BY <3>1, <3>2
    <2>7. HoldInv'
      BY <1>1, <2>5, <2>6 DEF HoldInv
    <2> QED
      BY <2>1, <2>2, <2>3, <2>4, <2>7
  <1>4. ASSUME ~Save(x)
        PROVE  row' = row /\ (adm'[x].pc = "write" /\ adm'[x].exists => row[adm'[x].key] # {})
    <2>1. ASSUME NEW f \in Form, Submit(x, f) PROVE row' = row /\ adm'[x].pc = "read"
      BY <2>1 DEF Submit, SetAdm, TypeOK
    <2>2. CASE ReadCurrent(x)
      <3>1. adm'[x].pc \in {"idle", "ask"}
        <4>1. \/ adm'[x] = Idle
              \/ adm'[x] = [adm[x] EXCEPT !.pc = "ask", !.keep = Kept(x, Current(adm[x].key))]
          BY <2>2 DEF ReadCurrent, SetAdm, TypeOK
        <4>2. Idle.pc = "idle"
          BY DEF Idle
        <4>3. \A keep : [adm[x] EXCEPT !.pc = "ask", !.keep = keep].pc = "ask"
          BY <1>0 DEF AdminState
        <4> QED
          BY <4>1, <4>2, <4>3
      <3> QED
        BY <2>2, <3>1 DEF ReadCurrent
    <2>3. CASE Ask(x)
      BY <1>0, <2>3 DEF Ask, SetAdm, TypeOK, AdminState
    <2>4. CASE GiveUp(x)
      BY <2>4 DEF GiveUp, SetAdm, TypeOK, Idle
    <2> QED
      BY <1>4, <2>1, <2>2, <2>3, <2>4 DEF AdminNext
  <1>5. CASE ~Save(x)
    BY <1>1, <1>2, <1>4, <1>5 DEF HoldInv
  <1> QED
    BY <1>3, <1>5

\* The invariant holds at first, and in every step.
LEMMA HoldsInductive ==
  /\ Init => HoldInv
  /\ TypeOK /\ HoldInv /\ [Next]_vars => HoldInv'
  <1>1. Init => HoldInv
    BY DEF Init, HoldInv, Off, Idle
  <1>2. HoldInv /\ UNCHANGED vars => HoldInv'
    BY DEF HoldInv, vars
  <1> QED
    BY <1>1, <1>2, BackendHolds, AdminHolds DEF Next

\* Only an administrator's save changes stored settings: no import, however many
\* run at once, replaces a row that is committed (insertIfAbsent).
THEOREM StoredAlwaysWins == Spec => StoredWins
  <1>1. TypeOK /\ HoldInv /\ [Next]_vars =>
          [\A k \in Section : row[k] # {} /\ row'[k] # row[k] =>
             \E x \in Admin : adm[x].pc = "write" /\ adm[x].key = k /\ adm'[x].pc = "idle"]_vars
    BY BackendHolds, AdminHolds DEF Next
  <1> QED
    BY <1>1, HoldsInductive, TypeCorrect, PTL DEF Spec, StoredWins

\* The settings a binding may be derived from.
Sources(b) == ever \cup tx[b].put["oidc"]

\* What transaction b knows of the binding: it is derived from settings that are
\* stored, or that it inserts; when it inserts some, from them.
BindOf(b) ==
  /\ tx[b].pc = "bind" => tx[b].found \subseteq Sources(b)
  /\ tx[b].bind \subseteq Sources(b)
  /\ /\ (tx[b].pc = "bind" /\ tx[b].found # {}) \/ tx[b].bind # {}
     /\ tx[b].put["oidc"] = {}
     => row["oidc"] # {}
  /\ tx[b].pc = "binding" /\ tx[b].want["oidc"] # {} => tx[b].need
  /\ /\ tx[b].pc \in {"insert smtp", "insert oidc"} /\ tx[b].want["oidc"] # {}
     => tx[b].need \/ binding # {}
  /\ tx[b].put["oidc"] # {} =>
       \/ tx[b].pc = "derive"
       \/ tx[b].pc = "bind" /\ tx[b].found = tx[b].put["oidc"]
       \/ tx[b].pc = "commit" /\ tx[b].bind = tx[b].put["oidc"]

\* What is committed: a binding is of settings that were stored, and never without.
CommittedBinding ==
  /\ row["oidc"] \subseteq ever /\ binding \subseteq ever
  /\ binding # {} => row["oidc"] # {}
  /\ imported # {} => binding = imported

BindInv == CommittedBinding /\ \A b \in Backend : BindOf(b)

\* What a transaction knows stays true when others commit.
LEMMA BindStays ==
  ASSUME NEW b \in Backend, BindOf(b), tx'[b] = tx[b], ever \subseteq ever',
         row["oidc"] # {} => row'["oidc"] # {}, binding # {} => binding' # {}
  PROVE  BindOf(b)'
  BY DEF BindOf, Sources

\* The steps of an import keep it.
LEMMA BackendBinds ==
  ASSUME TypeOK, HoldInv, BindInv, NEW b \in Backend, BackendNext(b)
  PROVE  BindInv'
  <1>0. /\ tx[b] \in BackendState /\ {"smtp", "oidc"} = Section /\ BindOf(b)
        /\ tx[b].put["oidc"] # {} => row["oidc"] = {} /\ binding = {} /\ imported = {}
        /\ tx[b].bind # {} => binding = {} /\ imported = {}
    BY DEF TypeOK, Section, HoldInv, BindInv, CommittedBinding
  <1>1. \A c \in Backend \ {b} : tx'[c] = tx[c]
    BY DEF BackendNext, Start, ReadSection, Insert, ReadBinding, Derive, Bind, Commit,
           ImportFails, SetTx, TypeOK
  <1>2. ASSUME UNCHANGED <<row, binding, imported, ever>>, BindOf(b)'
        PROVE  BindInv'
    <2>1. CommittedBinding'
      BY <1>2 DEF BindInv, CommittedBinding
    <2>2. \A c \in Backend : BindOf(c)'
      BY <1>1, <1>2, BindStays DEF BindInv
    <2> QED
      BY <2>1, <2>2 DEF BindInv
  <1>3. ASSUME NEW env \in Env, Start(b, env) PROVE BindInv'
    <2>1. tx'[b] = [Off EXCEPT !.pc = "smtp", !.env = env]
      BY <1>3 DEF Start, SetTx, TypeOK
    <2>2. tx'[b].pc = "smtp" /\ tx'[b].bind = {} /\ tx'[b].put["oidc"] = {}
      BY <1>0, <2>1 DEF Off
    <2>3. BindOf(b)'
      BY <2>2 DEF BindOf
    <2> QED
      BY <1>2, <1>3, <2>3 DEF Start
  <1>4. ASSUME NEW k \in Section, ReadSection(b, k) PROVE BindInv'
    <2>1. /\ tx[b].pc = k
          /\ tx'[b] = [tx[b] EXCEPT
               !.pc = IF k = "smtp" THEN "oidc" ELSE "binding",
               !.want[k] = IF row[k] = {} THEN tx[b].env[k] ELSE {},
               !.need = k = "oidc" /\ (row[k] # {} \/ tx[b].env[k] # {})]
      BY <1>4 DEF ReadSection, SetTx, TypeOK
    <2>2. /\ tx'[b].bind = tx[b].bind /\ tx'[b].put = tx[b].put /\ tx'[b].found = tx[b].found
          /\ tx'[b].pc = IF k = "smtp" THEN "oidc" ELSE "binding"
          /\ k = "oidc" /\ tx'[b].want["oidc"] # {} => tx'[b].need
      <3>1. tx'[b].bind = tx[b].bind /\ tx'[b].put = tx[b].put /\ tx'[b].found = tx[b].found
        BY <1>0, <2>1 DEF BackendState
      <3>2. tx'[b].pc = IF k = "smtp" THEN "oidc" ELSE "binding"
        BY <1>0, <2>1 DEF BackendState
      <3>3. tx'[b].need = (k = "oidc" /\ (row[k] # {} \/ tx[b].env[k] # {}))
        BY <1>0, <2>1 DEF BackendState
      <3>4. tx'[b].want[k] = IF row[k] = {} THEN tx[b].env[k] ELSE {}
        <4>1. tx'[b].want = [tx[b].want EXCEPT ![k] = IF row[k] = {} THEN tx[b].env[k] ELSE {}]
          BY <1>0, <2>1 DEF BackendState
        <4>2. tx[b].want \in [Section -> RowOrNone]
          BY <1>0 DEF BackendState
        <4> QED
          BY <4>1, <4>2
      <3> QED
        BY <3>1, <3>2, <3>3, <3>4
    <2>3. tx[b].put["oidc"] = {}
      BY <1>0, <2>1 DEF BindOf
    <2>4. UNCHANGED <<row, binding, imported, ever>>
      BY <1>4 DEF ReadSection, history
    <2>5. BindOf(b)'
      BY <1>0, <2>2, <2>3, <2>4 DEF BindOf, Sources, Section
    <2> QED
      BY <1>2, <2>4, <2>5
  <1>5. CASE ReadBinding(b)
    <2>1. /\ tx[b].pc = "binding"
          /\ tx'[b] = [tx[b] EXCEPT !.pc = "insert smtp", !.need = @ /\ binding = {}]
      BY <1>5 DEF ReadBinding, SetTx, TypeOK
    <2>2. /\ tx'[b].bind = tx[b].bind /\ tx'[b].put = tx[b].put /\ tx'[b].want = tx[b].want
          /\ tx'[b].pc = "insert smtp" /\ tx'[b].need = (tx[b].need /\ binding = {})
      BY <1>0, <2>1 DEF BackendState
    <2>3. UNCHANGED <<row, binding, imported, ever>>
      BY <1>5 DEF ReadBinding, history
    <2>4. BindOf(b)'
      BY <1>0, <2>1, <2>2, <2>3 DEF BindOf, Sources
    <2> QED
      BY <1>2, <2>3, <2>4
  <1>6. ASSUME NEW k \in Section, Insert(b, k) PROVE BindInv'
    <2> DEFINE inserts == tx[b].want[k] # {} /\ row[k] = {}
    <2>1. UNCHANGED <<row, binding, imported, ever>>
      BY <1>6 DEF Insert, history
    <2>2. /\ tx'[b].bind = tx[b].bind /\ tx'[b].want = tx[b].want
          /\ tx'[b].need = tx[b].need
          /\ tx'[b].pc = IF k = "smtp" THEN "insert oidc"
                         ELSE IF tx[b].need THEN "derive" ELSE "commit"
          /\ k = "smtp" => tx'[b].put["oidc"] = tx[b].put["oidc"]
          /\ k = "oidc" => tx'[b].put["oidc"] = IF inserts THEN tx[b].want[k] ELSE {}
      BY <1>0, <1>6 DEF Insert, Absent, SetTx, TypeOK, BackendState
    <2>3. /\ tx[b].pc = IF k = "smtp" THEN "insert smtp" ELSE "insert oidc"
          /\ tx[b].put["oidc"] = {}
      BY <1>0, <1>6 DEF Insert, BindOf
    <2>4. row["oidc"] = {} => binding = {}
      BY DEF BindInv, CommittedBinding
    <2>5. BindOf(b)'
      BY <1>0, <2>1, <2>2, <2>3, <2>4 DEF BindOf, Sources
    <2> QED
      BY <1>2, <2>1, <2>5
  <1>7. CASE Derive(b)
    <2>1. UNCHANGED <<row, binding, imported, ever>> /\ tx[b].pc = "derive"
      BY <1>7 DEF Derive, history
    <2>2. /\ tx'[b].bind = tx[b].bind /\ tx'[b].put = tx[b].put /\ tx'[b].pc = "bind"
          /\ tx'[b].found = Persisted(b)
      BY <1>0, <1>7 DEF Derive, SetTx, TypeOK, BackendState
    <2>3. row["oidc"] \subseteq ever
      BY DEF BindInv, CommittedBinding
    <2>4. BindOf(b)'
      BY <1>0, <2>1, <2>2, <2>3 DEF BindOf, Sources, Persisted
    <2> QED
      BY <1>2, <2>1, <2>4
  <1>8. CASE Bind(b)
    <2>1. UNCHANGED <<row, binding, imported, ever>> /\ tx[b].pc = "bind"
      BY <1>8 DEF Bind, history
    <2>2. /\ tx'[b].put = tx[b].put /\ tx'[b].pc = "commit"
          /\ tx'[b].bind = IF binding = {} THEN tx[b].found ELSE {}
      <3>1. tx'[b] = [tx[b] EXCEPT !.pc = "commit",
                                   !.bind = IF binding = {} THEN tx[b].found ELSE {}]
        BY <1>8 DEF Bind, Absent, SetTx, TypeOK
      <3> QED
        BY <1>0, <3>1 DEF BackendState
    <2>3. BindOf(b)'
      BY <1>0, <2>1, <2>2 DEF BindOf, Sources
    <2> QED
      BY <1>2, <2>1, <2>3
  <1>9. CASE ImportFails(b)
    <2>1. tx'[b].pc = "off" /\ tx'[b].bind = {} /\ tx'[b].put["oidc"] = {}
      BY <1>0, <1>9 DEF ImportFails, SetTx, TypeOK, Off
    <2>2. BindOf(b)'
      BY <2>1 DEF BindOf
    <2> QED
      BY <1>2, <1>9, <2>2 DEF ImportFails, history
  <1>10. CASE Commit(b)
    <2> DEFINE put == tx[b].put["oidc"]
               bind == tx[b].bind
    <2>1. /\ tx[b].pc = "commit"
          /\ row'["oidc"] = IF put = {} THEN row["oidc"] ELSE put
          /\ binding' = IF bind = {} THEN binding ELSE bind
          /\ imported' = IF put = {} THEN imported ELSE put
          /\ ever' = ever \cup put
      BY <1>0, <1>10 DEF Commit, Merge
    <2>2. /\ bind \subseteq ever \cup put
          /\ bind # {} /\ put = {} => row["oidc"] # {}
          /\ put # {} => bind = put
      BY <1>0, <2>1 DEF BindOf, Sources
    <2>3. CommittedBinding'
      BY <1>0, <2>1, <2>2 DEF BindInv, CommittedBinding
    <2>4. tx'[b].pc = "off" /\ tx'[b].bind = {} /\ tx'[b].put["oidc"] = {}
      BY <1>0, <1>10 DEF Commit, SetTx, TypeOK, Off
    <2>5. BindOf(b)'
      BY <2>4 DEF BindOf
    <2>6. \A c \in Backend \ {b} : BindOf(c)'
      BY <1>1, <2>1, <2>2, BindStays DEF BindInv
    <2> QED
      BY <2>3, <2>5, <2>6 DEF BindInv
  <1> QED
    BY <1>3, <1>4, <1>5, <1>6, <1>7, <1>8, <1>9, <1>10 DEF BackendNext

\* A save stores settings and leaves the binding alone.
LEMMA AdminBinds ==
  ASSUME TypeOK, HoldInv, BindInv, NEW x \in Admin, AdminNext(x)
  PROVE  BindInv'
  <1>1. UNCHANGED <<tx, binding, imported>> /\ ever \subseteq ever'
    BY DEF AdminNext, Submit, ReadCurrent, Ask, Save, GiveUp, history
  <1>2. row["oidc"] # {} => row'["oidc"] # {}
    BY AdminHolds DEF Section
  <1>3. row'["oidc"] \subseteq ever'
    <2>1. CASE row' = row
      BY <1>1, <2>1 DEF BindInv, CommittedBinding
    <2>2. CASE Save(x) /\ row' # row
      BY <1>1, <2>2 DEF Save, BindInv, CommittedBinding, TypeOK, Section
    <2>3. Save(x) \/ row' = row
      BY DEF AdminNext, Submit, ReadCurrent, Ask, GiveUp
    <2> QED
      BY <2>1, <2>2, <2>3
  <1>4. CommittedBinding'
    BY <1>1, <1>2, <1>3 DEF BindInv, CommittedBinding
  <1>5. \A b \in Backend : BindOf(b)'
    BY <1>1, <1>2, BindStays DEF BindInv
  <1> QED
    BY <1>4, <1>5 DEF BindInv

\* The binding is of settings that were stored, and imported settings are bound in
\* the transaction that stores them, whoever imports or saves meanwhile.
THEOREM BindingStays == Spec => []BindingIsOfStored
  <1>1. Init => BindInv
    <2> SUFFICES ASSUME Init PROVE BindInv
      OBVIOUS
    <2>1. CommittedBinding
      BY DEF Init, CommittedBinding, Section
    <2>2. ASSUME NEW b \in Backend PROVE BindOf(b)
      <3>1. tx[b].pc = "off" /\ tx[b].bind = {} /\ tx[b].put["oidc"] = {}
        BY DEF Init, Off, Section
      <3> QED
        BY <3>1 DEF BindOf
    <2> QED
      BY <2>1, <2>2 DEF BindInv
  <1>2. TypeOK /\ HoldInv /\ BindInv /\ [Next]_vars => BindInv'
    <2>1. BindInv /\ UNCHANGED vars => BindInv'
      BY DEF BindInv, CommittedBinding, BindOf, Sources, vars, history
    <2> QED
      BY <2>1, BackendBinds, AdminBinds DEF Next
  <1>3. BindInv => BindingIsOfStored
    BY DEF BindInv, CommittedBinding, BindingIsOfStored
  <1> QED
    BY <1>1, <1>2, <1>3, HoldsInductive, TypeCorrect, PTL DEF Spec
=============================================================================
