---------------------------- MODULE OidcSessions ----------------------------
(***************************************************************************)
(* Intranet logins and the sessions they leave in Redis: the callback that *)
(* consumes a login transaction, the requests that renew a session with    *)
(* its refresh token, logouts, and the settings and accounts that          *)
(* administrators change meanwhile.                                        *)
(*                                                                         *)
(* One intranet user.  A configuration stands for an issuer with its       *)
(* client, that is for the pair of issuer and fingerprint a session is     *)
(* bound to; the user has an account per issuer.                           *)
(***************************************************************************)
CONSTANTS
  Config,     \* OIDC configurations
  Token,      \* refresh tokens, each with the access token it came with
  Session,    \* session ids
  Login,      \* login transactions
  Code,       \* authorization codes
  Request,    \* HTTP requests served at once
  None,
  Legacy,     \* the configuration imported at the first start, or None
  OldToken,   \* sessions stored before bindings existed, with their tokens
  OldLogin,   \* login transactions of that time
  SingleUse,  \* whether the provider takes a refresh token only once
  Faults      \* of "settings", "accounts", "ttl", "provider", "crash"

ASSUME OidcAssumption ==
  /\ None \notin Config \cup Token \cup Session \cup Login \cup Code
  /\ Legacy \in Config \cup {None}
  /\ DOMAIN OldToken \subseteq Session
  /\ OldToken \in [DOMAIN OldToken -> Token]
  /\ \A s, t \in DOMAIN OldToken : OldToken[s] = OldToken[t] => s = t
  /\ OldLogin \subseteq Login
  /\ DOMAIN OldToken # {} \/ OldLogin # {} => Legacy # None
  /\ SingleUse \in BOOLEAN

VARIABLES
  settings,   \* the stored configuration, None while the login is off
  account,    \* the user's account with each issuer
  session,    \* what Redis stores under a session id
  login,      \* login transactions, as they were saved
  stored,     \* those Redis still has
  \* the providers
  issuer,     \* who issued a token
  valid,      \* refresh tokens a provider takes
  expired,    \* tokens whose access token is over
  code,       \* the login a code was issued for
  open,       \* codes not redeemed
  h,          \* requests
  \* history
  born,       \* the login that created a session
  used,       \* session ids ever stored
  ended,      \* sessions that were logged out
  raced,      \* sessions and logins that two requests worked on at once
  calm        \* no fault, no account disabled, no setting changed so far

redis == <<session, login, stored>>
provider == <<issuer, valid, expired, code, open>>
history == <<born, used, ended, raced>>
vars == <<settings, account, redis, provider, h, history, calm>>

-----------------------------------------------------------------------------
Setting == Config \cup {None}

\* A session is bound to the configuration that issued its token, or to none.
Record == [bound : Setting, token : Token]
NoSession == [bound |-> None, token |-> None]
\* The page a login leads to, and the configuration it is bound to.
LoginRecord == [asked : Config, bound : Setting]
NoLogin == [asked |-> None, bound |-> None]

\* who: the issuer whose account is concerned; ctx: the operation context;
\* banned: the account is disabled since before the request arrived;
\* stale: its configuration is not the stored one since before it arrived.
Idle == [pc |-> "idle", sid |-> None, code |-> None, rec |-> NoSession,
         who |-> None, ctx |-> None, banned |-> FALSE, stale |-> FALSE]
RequestState ==
  [pc : {"idle", "load", "bind", "guard", "exchange", "store", "account", "serve",
         "delete", "revoke", "send", "drop",
         "consume", "connect", "redeem", "admit", "create"},
   sid : Session \cup {None}, code : Code \cup {None}, rec : Record \cup {NoSession},
   who : Setting, ctx : Setting, banned : BOOLEAN, stale : BOOLEAN]

RedisTypes ==
  /\ session \in [Session -> Record \cup {NoSession}]
  /\ login \in [Login -> LoginRecord \cup {NoLogin}]
  /\ stored \subseteq Login
ProviderTypes ==
  /\ issuer \in [Token -> Setting]
  /\ valid \subseteq Token /\ expired \subseteq Token
  /\ code \in [Code -> Login \cup {None}] /\ open \subseteq Code
SettingTypes ==
  /\ settings \in Setting
  /\ account \in [Config -> {"none", "active", "disabled"}]
HistoryTypes ==
  /\ born \in [Session -> Login \cup {None}]
  /\ used \subseteq Session /\ ended \subseteq Session
  /\ raced \subseteq Session \cup Login /\ calm \in BOOLEAN
RequestTypes == h \in [Request -> RequestState]

TypeOK == RedisTypes /\ ProviderTypes /\ SettingTypes /\ HistoryTypes /\ RequestTypes

Old == {OldToken[s] : s \in DOMAIN OldToken}

Init ==
  /\ settings \in Setting
  /\ account \in [Config -> {"none", "active", "disabled"}]
  /\ session = [s \in Session |->
       IF s \in DOMAIN OldToken THEN [bound |-> None, token |-> OldToken[s]] ELSE NoSession]
  /\ login = [x \in Login |->
       IF x \in OldLogin THEN [asked |-> Legacy, bound |-> None] ELSE NoLogin]
  /\ stored = OldLogin
  /\ issuer = [t \in Token |-> IF t \in Old THEN Legacy ELSE None]
  /\ valid = Old /\ expired = {}
  /\ code = [c \in Code |-> None] /\ open = {}
  /\ h = [r \in Request |-> Idle]
  /\ born = [s \in Session |-> None] /\ used = DOMAIN OldToken
  /\ ended = {} /\ raced = {}
  /\ calm = ((\A k \in Config : account[k] # "disabled") /\ settings = Legacy)

-----------------------------------------------------------------------------
Live(s) == session[s] # NoSession

\* The binding of a session or a login without one is the imported configuration.
Effective(b) == IF b = None THEN Legacy ELSE b

\* loadOidcOperationContext and assertOidcBinding; both errors end the operation.
Accepts(b) == settings # None /\ Effective(b) = settings

\* Request r goes on to pc.
Goto(r, pc) == h' = [h EXCEPT ![r] = [h[r] EXCEPT !.pc = pc]]
Finish(r) == h' = [h EXCEPT ![r] = Idle]
\* Load the context r works with from now on.
Load(r, pc) == h' = [h EXCEPT ![r] = [h[r] EXCEPT !.pc = pc, !.ctx = settings]]

\* Sessions and logins that other requests are working on.
Taken(r) == {h[q].sid : q \in Request \ {r}}
            \cup {code[h[q].code] : q \in {p \in Request \ {r} : h[p].code # None}}

\* Request r starts, about the user's account with issuer k.
Starting(k, pc, sid, c, rec) ==
  [pc |-> pc, sid |-> sid, code |-> c, rec |-> rec, who |-> k, ctx |-> None,
   banned |-> account[k] = "disabled", stale |-> settings # k]

\* The provider issues token t and takes the ones in gone no longer.
Mint(t, k, gone) ==
  /\ issuer[t] = None
  /\ issuer' = [issuer EXCEPT ![t] = k]
  /\ valid' = (valid \ gone) \cup {t}

-----------------------------------------------------------------------------
(***************************************************************************)
(* GET /oidc/login and /oidc/callback.                                     *)
(***************************************************************************)
LoginStart(x) ==
  /\ settings # None
  /\ login[x] = NoLogin
  /\ login' = [login EXCEPT ![x] = [asked |-> settings, bound |-> settings]]
  /\ stored' = stored \cup {x}
  /\ UNCHANGED <<settings, account, session, provider, h, history, calm>>

\* The user signs in, once for every time the browser opens the page.
Authorize(x, c) ==
  /\ login[x] # NoLogin
  /\ code[c] = None
  /\ code' = [code EXCEPT ![c] = x]
  /\ open' = open \cup {c}
  /\ UNCHANGED <<settings, account, redis, issuer, valid, expired, h, history, calm>>

\* The GET of consumeLoginTransaction.
Callback(r, c) ==
  /\ h[r].pc = "idle"
  /\ code[c] # None
  /\ code[c] \in stored
  /\ h' = [h EXCEPT ![r] =
             Starting(login[code[c]].asked, "consume", None, c, NoSession)]
  /\ raced' = raced \cup ({code[c]} \cap Taken(r))
  /\ UNCHANGED <<settings, account, redis, provider, born, used, ended, calm>>

\* The DEL: whatever it answers, the value read before counts.
Mut_KeepUntilTtl(x) == stored
Consumed(x) == stored \ {x}

Consume(r) ==
  /\ h[r].pc = "consume"
  /\ stored' = Consumed(code[h[r].code])
  /\ Goto(r, "connect")
  /\ UNCHANGED <<settings, account, session, login, provider, history, calm>>

Connect(r) ==
  /\ h[r].pc = "connect"
  /\ IF Accepts(login[code[h[r].code]].bound) THEN Load(r, "redeem") ELSE Finish(r)
  /\ UNCHANGED <<settings, account, redis, provider, history, calm>>

\* The code goes to the token endpoint of the context; the provider takes it once.
Redeem(r, t) ==
  LET c == h[r].code IN
  /\ h[r].pc = "redeem"
  /\ c \in open /\ login[code[c]].asked = h[r].ctx
  /\ open' = open \ {c}
  /\ Mint(t, h[r].ctx, {})
  /\ h' = [h EXCEPT ![r] = [h[r] EXCEPT !.pc = "admit",
                              !.rec = [bound |-> h[r].ctx, token |-> t]]]
  /\ UNCHANGED <<settings, account, redis, expired, code, history, calm>>

RedeemRefused(r) ==
  /\ h[r].pc = "redeem"
  /\ h[r].code \notin open \/ login[code[h[r].code]].asked # h[r].ctx
  /\ Finish(r)
  /\ UNCHANGED <<settings, account, redis, provider, history, calm>>

\* upsertOidcUser, and the check of the account it returns.
Admit(r) ==
  LET k == h[r].ctx IN
  /\ h[r].pc = "admit"
  /\ account' = [account EXCEPT ![k] = IF account[k] = "none" THEN "active" ELSE account[k]]
  /\ IF account[k] = "disabled" THEN Finish(r) ELSE Goto(r, "create")
  /\ UNCHANGED <<settings, redis, provider, history, calm>>

\* createSession.
Create(r, s) ==
  /\ h[r].pc = "create"
  /\ s \notin used
  /\ session' = [session EXCEPT ![s] = h[r].rec]
  /\ used' = used \cup {s}
  /\ born' = [born EXCEPT ![s] = code[h[r].code]]
  /\ Finish(r)
  /\ UNCHANGED <<settings, account, login, stored, provider, ended, raced, calm>>

-----------------------------------------------------------------------------
(***************************************************************************)
(* requireAuthentication and refreshSessionIfNeeded.                       *)
(***************************************************************************)
\* getSession.
Arrive(r, s) ==
  /\ h[r].pc = "idle"
  /\ Live(s)
  /\ h' = [h EXCEPT ![r] =
             Starting(Effective(session[s].bound), "load", s, None, session[s])]
  /\ raced' = raced \cup ({s} \cap Taken(r))
  /\ UNCHANGED <<settings, account, redis, provider, born, used, ended, calm>>

LoadContext(r) ==
  LET rec == h[r].rec IN
  /\ h[r].pc = "load"
  /\ \/ ~Accepts(rec.bound) /\ Goto(r, "drop")
     \/ Accepts(rec.bound) /\ rec.token \in expired /\ Load(r, "guard")
     \/ Accepts(rec.bound) /\ rec.token \notin expired
          /\ Load(r, IF rec.bound = None THEN "bind" ELSE "account")
  /\ UNCHANGED <<settings, account, redis, provider, history, calm>>

\* What is stored for a session bound to, or renewed under, the context of r.
Bound(r, t) == [bound |-> h[r].ctx, token |-> t]

\* The SET of a session bound, or of one renewed, under the context of r.
Store(r) ==
  LET rec == Bound(r, h[r].rec.token) IN
  /\ h[r].pc \in {"bind", "store"}
  /\ session' = [session EXCEPT ![h[r].sid] = rec]
  /\ h' = [h EXCEPT ![r] = [h[r] EXCEPT !.pc = "account", !.rec = rec]]
  /\ UNCHANGED <<settings, account, login, stored, provider, history, calm>>

\* rejectDisabledBeforeRefresh.
Mut_NoGuard(k) == FALSE
Disabled(k) == account[k] = "disabled"

Mut_GuardReloads(r) ==
  /\ h[r].pc = "guard"
  /\ IF Disabled(h[r].ctx) \/ settings = None THEN Goto(r, "drop") ELSE Load(r, "exchange")
  /\ UNCHANGED <<settings, account, redis, provider, history, calm>>

Guard(r) ==
  /\ h[r].pc = "guard"
  /\ Goto(r, IF Disabled(h[r].ctx) THEN "drop" ELSE "exchange")
  /\ UNCHANGED <<settings, account, redis, provider, history, calm>>

\* The token a renewed session keeps.
Mut_KeepOld(old, t) == old
Renewed(old, t) == t

\* The refresh token goes to the token endpoint of the context.
Exchange(r, t) ==
  LET old == h[r].rec.token IN
  /\ h[r].pc = "exchange"
  /\ old \in valid /\ issuer[old] = h[r].ctx
  /\ Mint(t, h[r].ctx, IF SingleUse THEN {old} ELSE {})
  /\ h' = [h EXCEPT ![r] = [h[r] EXCEPT !.pc = "store",
              !.rec = [bound |-> h[r].rec.bound, token |-> Renewed(old, t)]]]
  /\ UNCHANGED <<settings, account, redis, expired, code, open, history, calm>>

ExchangeRefused(r) ==
  LET old == h[r].rec.token IN
  /\ h[r].pc = "exchange"
  /\ old \notin valid \/ issuer[old] # h[r].ctx
  /\ Goto(r, "drop")
  /\ UNCHANGED <<settings, account, redis, provider, history, calm>>

\* resolveAccount: an unknown account is registered.
ResolveAccount(r) ==
  LET k == h[r].rec.bound IN
  /\ h[r].pc = "account"
  /\ account' = [account EXCEPT ![k] = IF account[k] = "none" THEN "active" ELSE account[k]]
  /\ Goto(r, IF account[k] = "disabled" THEN "drop" ELSE "serve")
  /\ UNCHANGED <<settings, redis, provider, history, calm>>

\* deleteSession of a refused request.
Drop(r) ==
  /\ h[r].pc = "drop"
  /\ session' = [session EXCEPT ![h[r].sid] = NoSession]
  /\ Finish(r)
  /\ UNCHANGED <<settings, account, login, stored, provider, history, calm>>

Served(r) ==
  /\ h[r].pc = "serve"
  /\ Finish(r)
  /\ UNCHANGED <<settings, account, redis, provider, history, calm>>

-----------------------------------------------------------------------------
(***************************************************************************)
(* POST /logout, once requireAuthentication let it through.                *)
(***************************************************************************)
\* getSession again: the session may have been renewed or deleted meanwhile.
LogoutRead(r) ==
  /\ h[r].pc = "serve"
  /\ h' = [h EXCEPT ![r] = [h[r] EXCEPT !.pc = "delete", !.rec = session[h[r].sid]]]
  /\ UNCHANGED <<settings, account, redis, provider, history, calm>>

Mut_RevokeOnly(s) == session
Removed(s) == [session EXCEPT ![s] = NoSession]

LogoutDelete(r) ==
  /\ h[r].pc = "delete"
  /\ session' = Removed(h[r].sid)
  /\ ended' = ended \cup {h[r].sid}
  /\ IF h[r].rec = NoSession THEN Finish(r) ELSE Goto(r, "revoke")
  /\ UNCHANGED <<settings, account, login, stored, provider, born, used, raced, calm>>

LogoutLoad(r) ==
  /\ h[r].pc = "revoke"
  /\ IF Accepts(h[r].rec.bound) THEN Load(r, "send") ELSE Finish(r)
  /\ UNCHANGED <<settings, account, redis, provider, history, calm>>

\* The revocation endpoint of the context; an error is swallowed.
LogoutRevoke(r) ==
  /\ h[r].pc = "send"
  /\ valid' = IF issuer[h[r].rec.token] = h[r].ctx THEN valid \ {h[r].rec.token} ELSE valid
  /\ Finish(r)
  /\ UNCHANGED <<settings, account, redis, issuer, expired, code, open, history, calm>>

-----------------------------------------------------------------------------
(***************************************************************************)
(* What happens around the requests.                                       *)
(***************************************************************************)
\* updateOidcConfig; see Settings.
SaveSettings(v) ==
  /\ "settings" \in Faults
  /\ settings' = v
  /\ h' = [r \in Request |->
             IF h[r].who = v THEN [h[r] EXCEPT !.stale = FALSE] ELSE h[r]]
  /\ calm' = FALSE
  /\ UNCHANGED <<account, redis, provider, history>>

\* updateAccess of an intranet account; see Accounts.
SwitchAccount(k, st) ==
  /\ "accounts" \in Faults
  /\ account[k] # "none"
  /\ account' = [account EXCEPT ![k] = st]
  /\ h' = [r \in Request |->
             IF h[r].who = k /\ st = "active" THEN [h[r] EXCEPT !.banned = FALSE] ELSE h[r]]
  /\ calm' = FALSE
  /\ UNCHANGED <<settings, redis, provider, history>>

AccessExpires(t) ==
  /\ issuer[t] # None
  /\ expired' = expired \cup {t}
  /\ UNCHANGED <<settings, account, redis, issuer, valid, code, open, h, history, calm>>

SessionExpires(s) ==
  /\ "ttl" \in Faults
  /\ Live(s)
  /\ session' = [session EXCEPT ![s] = NoSession]
  /\ calm' = FALSE
  /\ UNCHANGED <<settings, account, login, stored, provider, h, history>>

LoginExpires(x) ==
  /\ "ttl" \in Faults
  /\ stored' = stored \ {x}
  /\ UNCHANGED <<settings, account, session, login, provider, h, history, calm>>

\* The provider rotated the token or redeemed the code, but its answer is lost,
\* incomplete, or about another user; or it never got the request.
ProviderFails(r) ==
  LET old == h[r].rec.token IN
  /\ "provider" \in Faults
  /\ calm' = FALSE
  /\ \/ /\ h[r].pc = "exchange"
        /\ valid' \in {valid, IF SingleUse /\ issuer[old] = h[r].ctx THEN valid \ {old} ELSE valid}
        /\ open' = open
        /\ Goto(r, "drop")
     \/ /\ h[r].pc = "redeem"
        /\ open' \in {open, open \ {h[r].code}}
        /\ valid' = valid
        /\ Finish(r)
  /\ UNCHANGED <<settings, account, redis, issuer, expired, code, history>>

\* The process dies, or loses the database or Redis.  refreshSessionIfNeeded deletes
\* the session on any error, which it can when only the database is lost.
Crash(r) ==
  /\ "crash" \in Faults
  /\ h[r].pc # "idle"
  /\ \/ Finish(r)
     \/ h[r].pc \in {"load", "guard"} /\ Goto(r, "drop")
  /\ calm' = FALSE
  /\ UNCHANGED <<settings, account, redis, provider, history>>

-----------------------------------------------------------------------------
LoginNext(r) ==
  \/ \E c \in Code : Callback(r, c)
  \/ Consume(r) \/ Connect(r) \/ RedeemRefused(r) \/ Admit(r)
  \/ \E t \in Token : Redeem(r, t)
  \/ \E s \in Session : Create(r, s)

RequestNext(r) ==
  \/ \E s \in Session : Arrive(r, s)
  \/ LoadContext(r) \/ Store(r) \/ Guard(r) \/ ExchangeRefused(r)
  \/ \E t \in Token : Exchange(r, t)
  \/ ResolveAccount(r) \/ Drop(r) \/ Served(r)
  \/ LogoutRead(r) \/ LogoutDelete(r) \/ LogoutLoad(r) \/ LogoutRevoke(r)
  \/ ProviderFails(r) \/ Crash(r)

EnvNext ==
  \/ \E x \in Login : LoginStart(x) \/ LoginExpires(x)
  \/ \E x \in Login, c \in Code : Authorize(x, c)
  \/ \E v \in Setting : SaveSettings(v)
  \/ \E k \in Config, st \in {"active", "disabled"} : SwitchAccount(k, st)
  \/ \E t \in Token : AccessExpires(t)
  \/ \E s \in Session : SessionExpires(s)

Next == EnvNext \/ \E r \in Request : LoginNext(r) \/ RequestNext(r)

Spec == Init /\ [][Next]_vars

-----------------------------------------------------------------------------
(***************************************************************************)
(* Properties.                                                             *)
(***************************************************************************)

\* Story 4.2, criterion 7: a code or a refresh token is only ever sent to the
\* configuration it came from, whatever was saved while the request ran.
TokensStayHome ==
  \A r \in Request :
    /\ h[r].pc \in {"exchange", "send"} => issuer[h[r].rec.token] = h[r].ctx
    /\ h[r].pc = "redeem" => login[code[h[r].code]].asked = h[r].ctx

\* Story 4.2, criterion 3: an account that is disabled since before a request
\* arrived is neither renewed nor served nor given a session.
DisabledIsShutOut ==
  \A r \in Request :
    h[r].banned => h[r].pc \notin {"exchange", "store", "serve", "delete", "create"}

\* A request whose session or login is not of the stored configuration, not
\* even for a moment since it arrived, gets past no check.
StaleIsRefused ==
  \A r \in Request :
    h[r].stale => h[r].pc \in {"load", "drop", "consume", "connect"}

\* docs/oidc-testing.md, renewal: the user stays authenticated.  While nothing
\* fails and nobody changes anything, only a logout ends a session; unless the
\* provider takes a refresh token once and two requests renewed it at once.
UserStaysIn ==
  [][calm' => \A s \in Session :
       Live(s) /\ session'[s] = NoSession => s \in ended' \/ (SingleUse /\ s \in raced)]_vars

\* docs/oidc-testing.md, logout: the session is removed from Redis; unless
\* another request was renewing it.
LogoutEnds == \A s \in ended \ raced : ~Live(s)

\* docs/oidc-testing.md, callback: a state that was used creates no session;
\* unless another callback had read it before.
StateUsedOnce ==
  \A s, t \in used : born[s] = born[t] /\ born[s] \notin raced \cup {None} => s = t
=============================================================================
