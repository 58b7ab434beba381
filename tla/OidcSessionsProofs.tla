------------------------- MODULE OidcSessionsProofs -------------------------
(***************************************************************************)
(* Proofs about OidcSessions: types, where tokens and codes go, what a     *)
(* disabled account or a stale configuration is refused, that a session    *)
(* ends with its logout and a login is used once, and that a user stays    *)
(* signed in while nothing fails.                                          *)
(***************************************************************************)
EXTENDS OidcSessions, TLAPS

(***************************************************************************)
(* The invariant.                                                          *)
(***************************************************************************)

\* A record whose token comes from the configuration it is bound to.
Home(rec) ==
  /\ rec \in Record
  /\ Effective(rec.bound) # None
  /\ issuer[rec.token] = Effective(rec.bound)

\* Stored sessions and logins are bound to where they come from, codes to logins.
World ==
  /\ \A s \in Session : Live(s) => Home(session[s])
  /\ \A x \in Login : login[x] # NoLogin =>
       login[x] \in LoginRecord /\ login[x].asked = Effective(login[x].bound)
  /\ \A c \in Code : code[c] # None => code[c] \in Login /\ login[code[c]] # NoLogin

ForSession == {"load", "bind", "guard", "exchange", "store", "account", "serve",
               "delete", "revoke", "send", "drop"}
ForLogin == {"consume", "connect", "redeem", "admit", "create"}
InContext == {"bind", "guard", "exchange", "store", "account",
              "redeem", "admit", "create"}

\* What a request that is under way knows of its session, login and context.
Fits(q) ==
  /\ q \in RequestState
  /\ q.rec # NoSession => Home(q.rec)
  /\ q.pc \in ForSession => q.sid \in Session
  /\ q.pc \in ForSession \ {"delete"} => q.rec # NoSession
  /\ q.pc \in ForLogin => /\ q.code \in Code /\ code[q.code] # None
                          /\ q.who = login[code[q.code]].asked
  /\ q.pc = "load" => q.who = Effective(q.rec.bound)
  /\ q.pc \in InContext => q.ctx = q.who /\ q.ctx \in Config
  /\ q.pc \in InContext \ {"redeem"} => Effective(q.rec.bound) = q.ctx
  /\ q.pc \in {"admit", "create"} => q.rec # NoSession
  /\ q.pc = "send" => Effective(q.rec.bound) = q.ctx
  /\ q.pc = "account" => q.rec.bound = q.ctx
  /\ q.banned => /\ q.who \in Config /\ account[q.who] = "disabled"
                 /\ q.pc \notin {"exchange", "store", "serve", "delete", "revoke",
                                 "send", "create"}
  /\ q.stale => /\ settings # q.who
                /\ q.pc \in {"load", "drop", "consume", "connect"}

Inv ==
  /\ RedisTypes /\ ProviderTypes /\ SettingTypes /\ HistoryTypes /\ RequestTypes
  /\ World
  /\ \A r \in Request : Fits(h[r])

\* The world only grows in this step, and no account or setting is switched.
Grows ==
  /\ \A t \in Token : issuer[t] # None => issuer'[t] = issuer[t]
  /\ \A x \in Login : login[x] # NoLogin => login'[x] = login[x]
  /\ \A c \in Code : code[c] # None => code'[c] = code[c]
  /\ \A k \in Config : account[k] = "disabled" => account'[k] = "disabled"
  /\ settings' = settings

\* None stands for nothing.
LEMMA Absent ==
  /\ NoSession \notin Record /\ NoLogin \notin LoginRecord
  /\ None \notin Config \cup Token \cup Session \cup Login \cup Code
  BY OidcAssumption DEF NoSession, NoLogin, Record, LoginRecord

\* The state of a request between two.
LEMMA IdleFits == Fits(Idle)
  BY DEF Fits, Idle, RequestState, ForSession, ForLogin, InContext, NoSession, Setting

\* A record stays at home while the world grows.
LEMMA HomeStays ==
  ASSUME Grows, NEW rec, Home(rec)
  PROVE  /\ Effective(rec.bound) # None /\ issuer'[rec.token] = Effective(rec.bound)
         /\ issuer[rec.token] # None
  BY DEF Grows, Home, Record

\* A request that does not move keeps fitting.
LEMMA FitsStays ==
  ASSUME Inv, Grows, NEW r \in Request, h'[r] = h[r]
  PROVE  Fits(h[r])'
  <1> DEFINE q == h[r]
  <1>1. Fits(q) /\ q \in RequestState
    BY DEF Inv, Fits
  <1>2. q.rec # NoSession => Home(q.rec)'
    BY <1>1, HomeStays DEF Fits, Home, Effective
  <1>3. q.pc \in ForLogin => /\ q.code \in Code /\ code'[q.code] # None
                             /\ q.who = login'[code'[q.code]].asked
    <2> SUFFICES ASSUME q.pc \in ForLogin
                 PROVE  /\ q.code \in Code /\ code'[q.code] # None
                        /\ q.who = login'[code'[q.code]].asked
      OBVIOUS
    <2>1. q.code \in Code /\ code[q.code] # None /\ q.who = login[code[q.code]].asked
      BY <1>1 DEF Fits
    <2>2. code'[q.code] = code[q.code]
      BY <2>1 DEF Grows
    <2>3. code[q.code] \in Login /\ login[code[q.code]] # NoLogin
      BY <2>1 DEF Inv, World
    <2> QED
      BY <2>1, <2>2, <2>3 DEF Grows
  <1>4. q.banned => q.who \in Config /\ account'[q.who] = "disabled"
    BY <1>1 DEF Fits, Grows
  <1> QED
    BY <1>1, <1>2, <1>3, <1>4 DEF Fits, Grows, Effective

\* When one request moves and fits, all fit.
LEMMA OneMoves ==
  ASSUME Inv, Grows, NEW r \in Request, NEW next, h' = [h EXCEPT ![r] = next], Fits(h[r])'
  PROVE  (\A q \in Request : Fits(h[q])) '
  <1> SUFFICES ASSUME NEW q \in Request PROVE Fits(h[q])'
    OBVIOUS
  <1>1. CASE q = r
    BY <1>1
  <1>2. CASE q # r
    <2>1. h'[q] = h[q]
      BY <1>2 DEF Inv, RequestTypes
    <2> QED
      BY <2>1, FitsStays
  <1> QED
    BY <1>1, <1>2

\* The types of the requests follow.
LEMMA FitTypes ==
  ASSUME RequestTypes, NEW r \in Request, NEW next \in RequestState,
         h' = [h EXCEPT ![r] = next]
  PROVE  RequestTypes' /\ h'[r] = next
  BY DEF RequestTypes

\* A request that finishes.
LEMMA FinishFits ==
  ASSUME Inv, Grows, NEW r \in Request, Finish(r)
  PROVE  RequestTypes' /\ (\A q \in Request : Fits(h[q]))'
  <1>1. Idle \in RequestState
    BY DEF Idle, RequestState, NoSession, Setting
  <1>2. RequestTypes' /\ h'[r] = Idle
    BY <1>1, FitTypes DEF Finish, Inv
  <1>3. Fits(h[r])'
    BY <1>2, <1>1 DEF Fits, Idle, ForSession, ForLogin, InContext, NoSession
  <1> QED
    BY <1>2, <1>3, OneMoves DEF Finish

\* A request that goes on, all else of it being the same.
LEMMA GotoFields ==
  ASSUME RequestTypes, NEW r \in Request,
         NEW pc \in ForSession \cup ForLogin \cup {"idle"}, Goto(r, pc)
  PROVE  /\ RequestTypes'
         /\ h'[r].pc = pc
         /\ h'[r].sid = h[r].sid /\ h'[r].code = h[r].code /\ h'[r].rec = h[r].rec
         /\ h'[r].who = h[r].who /\ h'[r].ctx = h[r].ctx
         /\ h'[r].banned = h[r].banned /\ h'[r].stale = h[r].stale
  BY DEF RequestTypes, RequestState, Goto, ForSession, ForLogin

\* A request that loads its context.
LEMMA LoadFields ==
  ASSUME RequestTypes, SettingTypes, NEW r \in Request,
         NEW pc \in ForSession \cup ForLogin \cup {"idle"}, Load(r, pc)
  PROVE  /\ RequestTypes'
         /\ h'[r].pc = pc /\ h'[r].ctx = settings
         /\ h'[r].sid = h[r].sid /\ h'[r].code = h[r].code /\ h'[r].rec = h[r].rec
         /\ h'[r].who = h[r].who
         /\ h'[r].banned = h[r].banned /\ h'[r].stale = h[r].stale
  BY DEF RequestTypes, RequestState, SettingTypes, Load, ForSession, ForLogin

\* A step of a request that touches nothing but itself, and the history.
LEMMA OnlyMoves ==
  ASSUME Inv, NEW r \in Request,
         UNCHANGED <<settings, account, redis, provider, calm>>, HistoryTypes',
         RequestTypes', Grows => (\A q \in Request : Fits(h[q]))'
  PROVE  Inv'
  <1>1. Grows
    BY DEF Grows, provider, redis
  <1>2. World'
    BY DEF Inv, World, redis, provider, Home, Live, Effective
  <1> QED
    BY <1>1, <1>2 DEF Inv, RedisTypes, ProviderTypes, SettingTypes, redis, provider

\* The steps of requests that load a context or check an account.
LEMMA ChecksKeepInv ==
  ASSUME Inv, NEW r \in Request,
         LoadContext(r) \/ Guard(r) \/ Connect(r) \/ LogoutLoad(r)
  PROVE  Inv'
  <1> DEFINE q == h[r]
  <1>1. /\ Fits(q) /\ q \in RequestState /\ RequestTypes /\ SettingTypes
        /\ UNCHANGED <<settings, account, redis, provider, calm>> /\ HistoryTypes'
    BY DEF Inv, Fits, LoadContext, Guard, Connect, LogoutLoad, HistoryTypes, history
  <1>2. Grows
    BY <1>1 DEF Grows, provider, redis
  <1>3. q.rec # NoSession => Home(q.rec) /\ issuer'[q.rec.token] = Effective(q.rec.bound)
    BY <1>1, <1>2, HomeStays DEF Fits, Home, Effective
  <1>4. ASSUME NEW pc \in ForSession \cup ForLogin \cup {"idle"},
               Goto(r, pc) \/ Load(r, pc), Fits(h[r])'
        PROVE  Inv'
    <2>1. RequestTypes'
      BY <1>1, <1>4, GotoFields, LoadFields
    <2>2. (\A p \in Request : Fits(h[p]))'
      BY <1>2, <1>4, OneMoves DEF Goto, Load
    <2> QED
      BY <1>1, <2>1, <2>2, OnlyMoves
  <1>5. CASE LoadContext(r)
    <2>1. /\ q.pc = "load" /\ q.rec # NoSession /\ q.sid \in Session
          /\ q.who = Effective(q.rec.bound)
      BY <1>1, <1>5 DEF LoadContext, Fits, ForSession
    <2>2. CASE Goto(r, "drop")
      <3>1. Fits(h[r])'
        BY <1>1, <1>3, <2>1, <2>2, GotoFields
        DEF Fits, RequestTypes, ForSession, ForLogin, InContext, Home, Effective
      <3> QED
        BY <1>4, <2>2, <3>1 DEF ForSession
    <2>3. ASSUME NEW pc \in {"guard", "bind", "account"}, Load(r, pc), Accepts(q.rec.bound),
                 pc = "account" => q.rec.bound # None
          PROVE  Inv'
      <3>1. settings \in Config /\ settings = q.who /\ settings' = settings
        BY <1>1, <2>1, <2>3 DEF Accepts, SettingTypes, Setting
      <3>2. pc = "account" => q.rec.bound = settings
        BY <2>3 DEF Accepts, Effective
      <3>3. Fits(h[r])'
        BY <1>1, <1>3, <2>1, <2>3, <3>1, <3>2, LoadFields
        DEF Fits, RequestTypes, ForSession, ForLogin, InContext, Home, Effective
      <3> QED
        BY <1>4, <2>3, <3>3 DEF ForSession
    <2> QED
      BY <1>5, <2>2, <2>3 DEF LoadContext
  <1>6. CASE Guard(r)
    <2>1. /\ q.pc = "guard" /\ q.rec # NoSession /\ q.sid \in Session
          /\ q.ctx = q.who /\ q.ctx \in Config /\ Effective(q.rec.bound) = q.ctx
      BY <1>1, <1>6 DEF Guard, Fits, ForSession, InContext
    <2>2. CASE Goto(r, "drop")
      <3>1. Fits(h[r])'
        BY <1>1, <1>3, <2>1, <2>2, GotoFields
        DEF Fits, RequestTypes, ForSession, ForLogin, InContext, Home, Effective
      <3> QED
        BY <1>4, <2>2, <3>1 DEF ForSession
    <2>3. CASE Goto(r, "exchange") /\ ~Disabled(q.ctx)
      <3>1. ~q.banned
        BY <1>1, <2>1, <2>3 DEF Fits, Disabled
      <3>2. Fits(h[r])'
        BY <1>1, <1>3, <2>1, <2>3, <3>1, GotoFields
        DEF Fits, RequestTypes, ForSession, ForLogin, InContext, Home, Effective
      <3> QED
        BY <1>4, <2>3, <3>2 DEF ForSession
    <2> QED
      BY <1>6, <2>2, <2>3 DEF Guard
  <1>7. CASE Connect(r)
    <2> DEFINE x == code[q.code]
    <2>1. /\ q.pc = "connect" /\ q.code \in Code /\ x # None /\ q.who = login[x].asked
      BY <1>1, <1>7 DEF Connect, Fits, ForLogin
    <2>2. /\ x \in Login /\ login[x] \in LoginRecord
          /\ login[x].asked = Effective(login[x].bound)
      BY <2>1 DEF Inv, World
    <2>3. CASE Finish(r)
      BY <1>1, <1>2, <2>3, FinishFits, OnlyMoves
    <2>4. CASE Load(r, "redeem") /\ Accepts(login[x].bound)
      <3>1. settings = q.who /\ settings \in Config
        BY <2>1, <2>2, <2>4 DEF Accepts, LoginRecord
      <3>2. /\ code' = code /\ login' = login /\ settings' = settings /\ account' = account
            /\ h'[r].code = q.code /\ h'[r].who = q.who /\ h'[r].pc = "redeem"
        BY <1>1, <2>4, LoadFields DEF provider, redis, ForLogin
      <3>3. h'[r].who = login'[code'[h'[r].code]].asked /\ code'[h'[r].code] # None
        BY <2>1, <3>2
      <3>4. /\ h'[r] \in RequestState /\ h'[r].rec = q.rec /\ h'[r].ctx = settings
            /\ h'[r].banned = q.banned /\ h'[r].stale = q.stale
        BY <1>1, <2>4, LoadFields DEF RequestTypes, ForLogin
      <3>5. Fits(h[r])'
        BY <1>1, <1>3, <2>1, <3>1, <3>2, <3>3, <3>4
        DEF Fits, ForSession, ForLogin, InContext, Home, Effective
      <3> QED
        BY <1>4, <2>4, <3>5 DEF ForLogin
    <2> QED
      BY <1>7, <2>3, <2>4 DEF Connect
  <1>8. CASE LogoutLoad(r)
    <2>1. q.pc = "revoke" /\ q.rec # NoSession /\ q.sid \in Session
      BY <1>1, <1>8 DEF LogoutLoad, Fits, ForSession
    <2>2. CASE Finish(r)
      BY <1>1, <1>2, <2>2, FinishFits, OnlyMoves
    <2>3. CASE Load(r, "send") /\ Accepts(q.rec.bound)
      <3>1. Effective(q.rec.bound) = settings /\ ~q.banned /\ ~q.stale
        BY <1>1, <2>1, <2>3 DEF Accepts, Fits
      <3>2. Fits(h[r])'
        BY <1>1, <1>3, <2>1, <2>3, <3>1, LoadFields
        DEF Fits, RequestTypes, ForSession, ForLogin, InContext, Home, Effective
      <3> QED
        BY <1>4, <2>3, <3>2 DEF ForSession
    <2> QED
      BY <1>8, <2>2, <2>3 DEF LogoutLoad
  <1> QED
    BY <1>5, <1>6, <1>7, <1>8

\* Sessions stay, go, or are stored at home; logins and codes stay.
LEMMA WorldStays ==
  ASSUME Inv, Grows, UNCHANGED <<login, code>>,
         \A s \in Session : session'[s] \in {session[s], NoSession} \/ Home(session[s])'
  PROVE  World'
  <1>1. \A s \in Session : Live(s)' => Home(session[s])'
    <2> SUFFICES ASSUME NEW s \in Session, Live(s)' PROVE Home(session[s])'
      OBVIOUS
    <2>1. CASE session'[s] = session[s]
      <3>1. Home(session[s])
        BY <2>1 DEF Inv, World, Live
      <3> QED
        BY <2>1, <3>1, HomeStays DEF Home, Effective
    <2>2. CASE session'[s] = NoSession
      BY <2>2 DEF Live
    <2> QED
      BY <2>1, <2>2
  <1> QED
    BY <1>1 DEF Inv, World, Effective

\* The steps that read a session, a transaction or an answer and nothing else.
LEMMA ReadsKeepInv ==
  ASSUME Inv, NEW r \in Request,
         \/ \E c \in Code : Callback(r, c)
         \/ \E s \in Session : Arrive(r, s)
         \/ RedeemRefused(r) \/ ExchangeRefused(r) \/ Served(r) \/ LogoutRead(r)
  PROVE  Inv'
  <1> DEFINE q == h[r]
  <1>1. /\ Fits(q) /\ q \in RequestState /\ RequestTypes /\ SettingTypes
        /\ UNCHANGED <<settings, account, redis, provider, calm>> /\ HistoryTypes'
        /\ session' = session /\ issuer' = issuer /\ login' = login /\ code' = code
    <2>1. /\ UNCHANGED <<settings, account, redis, provider, born, used, ended, calm>>
          /\ raced' \subseteq raced \cup Session \cup stored
      BY DEF Callback, Arrive, RedeemRefused, ExchangeRefused, Served, LogoutRead, history
    <2>2. HistoryTypes'
      BY <2>1 DEF Inv, HistoryTypes, RedisTypes
    <2> QED
      BY <2>1, <2>2 DEF Inv, Fits, redis, provider
  <1>2. Grows
    BY <1>1 DEF Grows
  <1>3. ASSUME NEW next \in RequestState, h' = [h EXCEPT ![r] = next], Fits(h[r])'
        PROVE  Inv'
    <2>1. RequestTypes' /\ (\A p \in Request : Fits(h[p]))'
      BY <1>1, <1>2, <1>3, FitTypes, OneMoves
    <2> QED
      BY <1>1, <2>1, OnlyMoves
  <1>4. ASSUME Finish(r) PROVE Inv'
    BY <1>1, <1>2, <1>4, FinishFits, OnlyMoves
  <1>5. ASSUME NEW c \in Code, Callback(r, c) PROVE Inv'
    <2> DEFINE k == login[code[c]].asked
               next == Starting(k, "consume", None, c, NoSession)
    <2>1. /\ code[c] \in Login /\ login[code[c]] \in LoginRecord /\ code[c] # None
          /\ k \in Config
      BY <1>5 DEF Callback, Inv, World, LoginRecord
    <2>2. next \in RequestState
      BY <2>1 DEF Starting, RequestState, Setting, LoginRecord
    <2>3. h' = [h EXCEPT ![r] = next] /\ h'[r] = next
      BY <1>1, <1>5, <2>2, FitTypes DEF Callback
    <2>4. /\ next.pc = "consume" /\ next.code = c /\ next.who = k /\ next.rec = NoSession
          /\ next.banned = (account[k] = "disabled") /\ next.stale = (settings # k)
      BY DEF Starting
    <2>5. Fits(h[r])'
      BY <1>1, <2>1, <2>2, <2>3, <2>4 DEF Fits, ForSession, ForLogin, InContext
    <2> QED
      BY <1>3, <2>2, <2>3, <2>5
  <1>6. ASSUME NEW s \in Session, Arrive(r, s) PROVE Inv'
    <2> DEFINE rec == session[s]
               k == Effective(rec.bound)
               next == Starting(k, "load", s, None, rec)
    <2>1. /\ Home(rec) /\ rec \in Record /\ rec # NoSession /\ k \in Config
      BY <1>6, OidcAssumption DEF Arrive, Inv, World, Home, Live, Effective, Record, Setting
    <2>2. next \in RequestState
      BY <2>1 DEF Starting, RequestState, Setting
    <2>3. h' = [h EXCEPT ![r] = next] /\ h'[r] = next
      BY <1>1, <1>6, <2>2, FitTypes DEF Arrive
    <2>4. /\ next.pc = "load" /\ next.sid = s /\ next.who = k /\ next.rec = rec
          /\ next.banned = (account[k] = "disabled") /\ next.stale = (settings # k)
      BY DEF Starting
    <2>5. k = Effective(rec.bound)
      OBVIOUS
    <2>6. \A v : Home(v) => Home(v)'
      BY <1>1 DEF Home, Effective
    <2> HIDE DEF rec, k, next
    <2>7. Fits(h[r])'
      BY <1>1, <2>1, <2>2, <2>3, <2>4, <2>5, <2>6
      DEF Fits, ForSession, ForLogin, InContext, Effective
    <2> QED
      BY <1>3, <2>2, <2>3, <2>7
  <1>7. CASE RedeemRefused(r) \/ Served(r)
    BY <1>4, <1>7 DEF RedeemRefused, Served
  <1>8. CASE ExchangeRefused(r)
    <2>1. q.pc = "exchange" /\ q.rec # NoSession /\ Home(q.rec) /\ q.sid \in Session
      BY <1>1, <1>8 DEF ExchangeRefused, Fits, ForSession
    <2>2. Goto(r, "drop")
      BY <1>8 DEF ExchangeRefused
    <2>3. ~q.banned /\ ~q.stale
      BY <1>1, <2>1 DEF Fits
    <2>4. RequestTypes' /\ Fits(h[r])'
      BY <1>1, <2>1, <2>2, <2>3, GotoFields
      DEF Fits, RequestTypes, ForSession, ForLogin, InContext, Home, Effective
    <2>5. (\A p \in Request : Fits(h[p]))'
      BY <1>2, <2>2, <2>4, OneMoves DEF Goto
    <2> QED
      BY <1>1, <2>4, <2>5, OnlyMoves
  <1>9. CASE LogoutRead(r)
    <2> DEFINE rec == session[q.sid]
               next == [q EXCEPT !.pc = "delete", !.rec = rec]
    <2>1. q.pc = "serve" /\ q.sid \in Session /\ ~q.banned /\ ~q.stale
      BY <1>1, <1>9 DEF LogoutRead, Fits, ForSession
    <2>2. rec \in Record \cup {NoSession} /\ (rec # NoSession => Home(rec))
      BY <2>1 DEF Inv, RedisTypes, World, Live
    <2>3. next \in RequestState /\ next.pc = "delete" /\ next.sid = q.sid /\ next.rec = rec
          /\ ~next.banned /\ ~next.stale
      BY <1>1, <2>1, <2>2 DEF RequestState
    <2>4. h' = [h EXCEPT ![r] = next] /\ h'[r] = next
      BY <1>1, <1>9, <2>3, FitTypes DEF LogoutRead
    <2>5. Fits(h[r])'
      BY <1>1, <2>1, <2>2, <2>3, <2>4
      DEF Fits, ForSession, ForLogin, InContext, Home, Effective
    <2> QED
      BY <1>3, <2>3, <2>4, <2>5
  <1> QED
    BY <1>5, <1>6, <1>7, <1>8, <1>9

\* The steps that store or delete a session.
LEMMA StoresKeepInv ==
  ASSUME Inv, NEW r \in Request,
         Store(r) \/ Drop(r) \/ LogoutDelete(r) \/ \E s \in Session : Create(r, s)
  PROVE  Inv'
  <1> DEFINE q == h[r]
  <1>1. /\ Fits(q) /\ q \in RequestState /\ RequestTypes /\ SettingTypes
        /\ RedisTypes /\ HistoryTypes /\ ProviderTypes
        /\ UNCHANGED <<settings, account, login, stored, provider, calm>>
        /\ issuer' = issuer /\ code' = code
    BY DEF Inv, Fits, Store, Drop, LogoutDelete, Create, provider
  <1>2. Grows
    BY <1>1 DEF Grows
  <1>3. SettingTypes' /\ ProviderTypes'
    BY <1>1 DEF SettingTypes, ProviderTypes, provider
  <1>5. CASE Store(r)
    <2> DEFINE rec == Bound(r, q.rec.token)
               next == [q EXCEPT !.pc = "account", !.rec = rec]
    <2>1. /\ q.pc \in {"bind", "store"} /\ q.sid \in Session /\ q.rec # NoSession
          /\ Home(q.rec) /\ q.ctx = q.who /\ q.ctx \in Config
          /\ Effective(q.rec.bound) = q.ctx /\ ~q.stale
          /\ session' = [session EXCEPT ![q.sid] = rec]
      BY <1>1, <1>5 DEF Store, Fits, ForSession, InContext
    <2>2. rec \in Record /\ rec.bound = q.ctx /\ rec.token = q.rec.token /\ rec # NoSession
      BY <2>1, Absent DEF Bound, Record, Home, Setting
    <2>3. issuer'[rec.token] = q.ctx /\ Effective(rec.bound) = q.ctx
      BY <1>1, <2>1, <2>2, Absent DEF Home, Effective
    <2>4. next \in RequestState /\ next.pc = "account" /\ next.rec = rec /\ next.sid = q.sid
          /\ next.ctx = q.ctx /\ next.who = q.who /\ next.banned = q.banned
          /\ next.stale = q.stale
      BY <1>1, <2>2 DEF RequestState
    <2>5. h' = [h EXCEPT ![r] = next]
      BY <1>5 DEF Store
    <2>6. RequestTypes' /\ h'[r] = next
      BY <1>1, <2>4, <2>5, FitTypes
    <2>7. q.banned => q.who \in Config /\ account'[q.who] = "disabled"
      BY <1>1 DEF Fits
    <2>8. q.ctx # None
      BY <2>1, Absent
    <2>9. Fits(h[r])'
      BY <2>1, <2>2, <2>3, <2>4, <2>6, <2>7, <2>8
      DEF Fits, ForSession, ForLogin, InContext, Home, Effective
    <2>10. (\A p \in Request : Fits(h[p]))'
      BY <1>2, <2>5, <2>9, OneMoves
    <2>11. RedisTypes' /\ \A s \in Session : session'[s] \in {session[s], NoSession}
                                             \/ Home(session[s])'
      BY <1>1, <2>1, <2>2, <2>3, <2>8 DEF RedisTypes, Home, Effective
    <2>12. World'
      BY <1>1, <1>2, <2>11, WorldStays
    <2> QED
      BY <1>1, <1>3, <1>5, <2>6, <2>10, <2>11, <2>12 DEF Inv, Store, HistoryTypes, history
  <1>6. ASSUME NEW s \in Session, session' = [session EXCEPT ![s] = NoSession]
        PROVE  RedisTypes' /\ World'
    <2>1. RedisTypes'
      BY <1>1, <1>6 DEF RedisTypes
    <2>2. \A t \in Session : session'[t] \in {session[t], NoSession}
      BY <1>1, <1>6 DEF RedisTypes
    <2> QED
      BY <1>1, <1>2, <2>1, <2>2, WorldStays
  <1>7. CASE Drop(r)
    <2>1. q.sid \in Session /\ session' = [session EXCEPT ![q.sid] = NoSession] /\ Finish(r)
      BY <1>1, <1>7 DEF Drop, Fits, ForSession
    <2>2. RequestTypes' /\ (\A p \in Request : Fits(h[p]))'
      BY <1>2, <2>1, FinishFits
    <2> QED
      BY <1>1, <1>3, <1>6, <1>7, <2>1, <2>2 DEF Inv, Drop, HistoryTypes, history
  <1>8. CASE LogoutDelete(r)
    <2>1. /\ q.pc = "delete" /\ q.sid \in Session
          /\ session' = [session EXCEPT ![q.sid] = NoSession]
      BY <1>1, <1>8 DEF LogoutDelete, Removed, Fits, ForSession
    <2>2. HistoryTypes'
      BY <1>1, <1>8, <2>1 DEF LogoutDelete, HistoryTypes
    <2>3. CASE Finish(r)
      <3>1. RequestTypes' /\ (\A p \in Request : Fits(h[p]))'
        BY <1>2, <2>3, FinishFits
      <3> QED
        BY <1>3, <1>6, <2>1, <2>2, <3>1 DEF Inv
    <2>4. CASE Goto(r, "revoke") /\ q.rec # NoSession
      <3>1. ~q.banned /\ ~q.stale /\ Home(q.rec)
        BY <1>1, <2>1, <2>4 DEF Fits
      <3>2. RequestTypes' /\ Fits(h[r])'
        BY <1>1, <2>1, <2>4, <3>1, GotoFields
        DEF Fits, RequestTypes, ForSession, ForLogin, InContext, Home, Effective
      <3>3. (\A p \in Request : Fits(h[p]))'
        BY <1>2, <2>4, <3>2, OneMoves DEF Goto
      <3> QED
        BY <1>3, <1>6, <2>1, <2>2, <3>2, <3>3 DEF Inv
    <2> QED
      BY <1>8, <2>3, <2>4 DEF LogoutDelete
  <1>9. ASSUME NEW s \in Session, Create(r, s) PROVE Inv'
    <2>1. /\ q.pc = "create" /\ q.rec # NoSession /\ Home(q.rec) /\ q.code \in Code
          /\ code[q.code] # None /\ session' = [session EXCEPT ![s] = q.rec] /\ Finish(r)
      BY <1>1, <1>9 DEF Create, Fits, ForSession, ForLogin
    <2>2. RequestTypes' /\ (\A p \in Request : Fits(h[p]))'
      BY <1>2, <2>1, FinishFits
    <2>3. code[q.code] \in Login
      BY <2>1 DEF Inv, World
    <2>4. HistoryTypes'
      BY <1>1, <1>9, <2>3 DEF Create, HistoryTypes
    <2>5. RedisTypes' /\ \A t \in Session : session'[t] \in {session[t], NoSession}
                                            \/ Home(session[t])'
      BY <1>1, <2>1 DEF RedisTypes, Home, Effective
    <2>6. World'
      BY <1>1, <1>2, <2>5, WorldStays
    <2> QED
      BY <1>3, <2>2, <2>4, <2>5, <2>6 DEF Inv
  <1> QED
    BY <1>5, <1>7, <1>8, <1>9

\* A new token belongs to nobody yet, so the world keeps all it knew.
LEMMA MintGrows ==
  ASSUME Inv, NEW t \in Token, NEW k \in Config, NEW gone, Mint(t, k, gone),
         UNCHANGED <<settings, account, login, code, session, stored, expired>>,
         open' \subseteq open
  PROVE  /\ Grows /\ World' /\ issuer'[t] = k
         /\ RedisTypes' /\ ProviderTypes' /\ SettingTypes'
  <1>1. ProviderTypes /\ RedisTypes /\ SettingTypes
    BY DEF Inv
  <1>2. issuer'[t] = k /\ \A u \in Token : issuer[u] # None => issuer'[u] = issuer[u]
    BY <1>1 DEF Mint, ProviderTypes
  <1>3. Grows
    BY <1>2 DEF Grows
  <1>4. World'
    BY <1>3, WorldStays
  <1>5. ProviderTypes'
    BY <1>1 DEF Mint, ProviderTypes, Setting
  <1> QED
    BY <1>1, <1>2, <1>3, <1>4, <1>5 DEF RedisTypes, SettingTypes

\* The steps in which a provider issues a token.
LEMMA MintsKeepInv ==
  ASSUME Inv, NEW r \in Request, NEW t \in Token, Redeem(r, t) \/ Exchange(r, t)
  PROVE  Inv'
  <1> DEFINE q == h[r]
  <1>1. Fits(q) /\ q \in RequestState /\ RequestTypes /\ HistoryTypes
    BY DEF Inv, Fits
  <1>2. /\ q.pc \in {"exchange", "redeem"} /\ q.ctx \in Config /\ q.ctx = q.who
        /\ ~q.stale
    BY <1>1 DEF Redeem, Exchange, Fits, InContext
  <1>3. /\ Grows /\ World' /\ issuer'[t] = q.ctx
        /\ RedisTypes' /\ ProviderTypes' /\ SettingTypes' /\ HistoryTypes'
    <2>1. \E gone : Mint(t, q.ctx, gone)
      BY DEF Redeem, Exchange
    <2>2. /\ UNCHANGED <<settings, account, login, code, session, stored, expired>>
          /\ UNCHANGED history /\ calm' = calm /\ open' \subseteq open
      BY DEF Redeem, Exchange, redis
    <2>3. HistoryTypes'
      BY <1>1, <2>2 DEF HistoryTypes, history
    <2> QED
      BY <1>2, <2>1, <2>2, <2>3, MintGrows
  <1>4. ASSUME NEW next \in RequestState, h' = [h EXCEPT ![r] = next],
               h'[r] = next => Fits(h[r])'
        PROVE  Inv'
    <2>1. RequestTypes' /\ h'[r] = next
      BY <1>1, <1>4, FitTypes
    <2>2. (\A p \in Request : Fits(h[p]))'
      BY <1>3, <1>4, <2>1, OneMoves
    <2> QED
      BY <1>3, <2>1, <2>2 DEF Inv
  <1>5. q.ctx # None /\ Effective(q.ctx) = q.ctx
    BY <1>2, Absent DEF Effective
  <1>6. q.banned => q.who \in Config /\ account'[q.who] = "disabled"
    BY <1>1, <1>3 DEF Fits, Grows
  <1>7. CASE Redeem(r, t)
    <2> DEFINE rec == [bound |-> q.ctx, token |-> t]
               next == [q EXCEPT !.pc = "admit", !.rec = rec]
    <2>1. /\ q.pc = "redeem" /\ q.code \in Code /\ code[q.code] # None
          /\ q.who = login[code[q.code]].asked /\ code' = code /\ login' = login
      BY <1>1, <1>7 DEF Redeem, Fits, ForLogin, redis
    <2>2. rec \in Record /\ rec # NoSession
      BY <1>2, <1>5, Absent DEF Record, Setting
    <2>3. /\ next \in RequestState /\ next.pc = "admit" /\ next.rec = rec
          /\ next.code = q.code /\ next.ctx = q.ctx /\ next.who = q.who
          /\ next.banned = q.banned /\ next.stale = q.stale
      BY <1>1, <2>2 DEF RequestState
    <2>4. h' = [h EXCEPT ![r] = next]
      BY <1>7 DEF Redeem
    <2>5. ASSUME h'[r] = next PROVE Fits(h[r])'
      <3>1. code'[next.code] # None /\ next.who = login'[code'[next.code]].asked
        BY <2>1, <2>3
      <3>2. rec.bound = q.ctx /\ issuer'[rec.token] = q.ctx
        BY <1>3
      <3> HIDE DEF next, rec
      <3> QED
        BY <1>2, <1>5, <1>6, <2>1, <2>2, <2>3, <2>5, <3>1, <3>2
        DEF Fits, ForSession, ForLogin, InContext, Home, Effective
    <2> QED
      BY <1>4, <2>3, <2>4, <2>5
  <1>8. CASE Exchange(r, t)
    <2> DEFINE rec == [bound |-> q.rec.bound, token |-> Renewed(q.rec.token, t)]
               next == [q EXCEPT !.pc = "store", !.rec = rec]
    <2>1. /\ q.pc = "exchange" /\ q.sid \in Session /\ q.rec # NoSession
          /\ Home(q.rec) /\ Effective(q.rec.bound) = q.ctx /\ ~q.banned
      BY <1>1, <1>8 DEF Exchange, Fits, ForSession, InContext
    <2>2. /\ rec \in Record /\ rec # NoSession /\ rec.bound = q.rec.bound
          /\ rec.token = t
      BY <2>1, Absent DEF Record, Home, NoSession, Renewed
    <2>3. /\ next \in RequestState /\ next.pc = "store" /\ next.rec = rec
          /\ next.sid = q.sid /\ next.ctx = q.ctx /\ next.who = q.who
          /\ next.banned = q.banned /\ next.stale = q.stale
      BY <1>1, <2>2 DEF RequestState
    <2>4. h' = [h EXCEPT ![r] = next]
      BY <1>8 DEF Exchange
    <2>5. ASSUME h'[r] = next PROVE Fits(h[r])'
      BY <1>2, <1>3, <1>5, <2>1, <2>2, <2>3, <2>5
      DEF Fits, ForSession, ForLogin, InContext, Home, Effective
    <2> QED
      BY <1>4, <2>3, <2>4, <2>5
  <1> QED
    BY <1>7, <1>8

\* A step that leaves sessions, logins and codes alone, and issues nothing.
LEMMA ProvidersKeepInv ==
  ASSUME Inv, NEW r \in Request,
         LogoutRevoke(r) \/ ProviderFails(r) \/ Crash(r)
  PROVE  Inv'
  <1> DEFINE q == h[r]
  <1>1. /\ Fits(q) /\ q \in RequestState /\ RequestTypes /\ SettingTypes
        /\ RedisTypes /\ ProviderTypes /\ HistoryTypes
    BY DEF Inv, Fits
  <1>2. /\ UNCHANGED <<settings, account, redis, issuer, expired, code, history>>
        /\ valid' \subseteq valid /\ open' \subseteq open /\ calm' \in BOOLEAN
    BY <1>1 DEF LogoutRevoke, ProviderFails, Crash, provider, HistoryTypes
  <1>3. Grows /\ session' = session /\ login' = login /\ code' = code
    BY <1>2 DEF Grows, redis
  <1>4. World' /\ RedisTypes' /\ ProviderTypes' /\ SettingTypes' /\ HistoryTypes'
    BY <1>1, <1>2, <1>3, WorldStays
    DEF RedisTypes, ProviderTypes, SettingTypes, HistoryTypes, redis, history
  <1>5. CASE Finish(r)
    BY <1>3, <1>4, <1>5, FinishFits DEF Inv
  <1>6. CASE Goto(r, "drop") /\ q.pc \in {"load", "guard", "exchange"}
    <2>1. /\ q.rec # NoSession /\ q.sid \in Session /\ Home(q.rec)
          /\ q.banned => q.who \in Config /\ account'[q.who] = "disabled"
          /\ q.stale => settings' # q.who
          /\ UNCHANGED <<issuer, settings, account>>
      BY <1>1, <1>2, <1>6 DEF Fits, ForSession
    <2>2. RequestTypes' /\ Fits(h[r])'
      BY <1>1, <1>6, <2>1, GotoFields
      DEF Fits, RequestTypes, ForSession, ForLogin, InContext, Home, Effective
    <2>3. (\A p \in Request : Fits(h[p]))'
      BY <1>3, <1>6, <2>2, OneMoves DEF Goto
    <2> QED
      BY <1>4, <2>2, <2>3 DEF Inv
  <1> QED
    BY <1>5, <1>6 DEF LogoutRevoke, ProviderFails, Crash

\* The steps that register an account or consume a login.
LEMMA AdmitsKeepInv ==
  ASSUME Inv, NEW r \in Request, Admit(r) \/ ResolveAccount(r) \/ Consume(r)
  PROVE  Inv'
  <1> DEFINE q == h[r]
  <1>1. /\ Fits(q) /\ q \in RequestState /\ RequestTypes /\ SettingTypes
        /\ RedisTypes /\ ProviderTypes /\ HistoryTypes
    BY DEF Inv, Fits
  <1>2. /\ UNCHANGED <<settings, session, login, provider, history, calm>>
        /\ stored' \subseteq stored /\ issuer' = issuer /\ code' = code
    BY DEF Admit, ResolveAccount, Consume, redis, Consumed, provider
  <1>3. CASE Admit(r) \/ ResolveAccount(r)
    <2> DEFINE k == IF q.pc = "admit" THEN q.ctx ELSE q.rec.bound
    <2>1. /\ q.pc \in {"admit", "account"} /\ k \in Config /\ k = q.who /\ k = q.ctx
          /\ account' = [account EXCEPT ![k] = IF account[k] = "none" THEN "active"
                                                                      ELSE account[k]]
      BY <1>1, <1>3 DEF Admit, ResolveAccount, Fits, InContext
    <2>2. SettingTypes' /\ \A j \in Config : account[j] = "disabled" => account'[j] = "disabled"
      BY <1>1, <1>2, <2>1 DEF SettingTypes
    <2>3. Grows
      BY <1>2, <2>2 DEF Grows
    <2>4. World' /\ RedisTypes' /\ ProviderTypes' /\ HistoryTypes'
      BY <1>1, <1>2, <2>3, WorldStays
      DEF RedisTypes, ProviderTypes, HistoryTypes, provider, history
    <2>5. CASE Finish(r)
      BY <2>2, <2>3, <2>4, <2>5, FinishFits DEF Inv
    <2>6. ASSUME NEW pc \in {"drop", "serve", "create"}, Goto(r, pc),
                 pc = "create" <=> q.pc = "admit",
                 pc = "drop" \/ account[k] # "disabled"
          PROVE  Inv'
      <3>1. q.rec # NoSession /\ Home(q.rec) /\ ~q.stale
        BY <1>1, <2>1 DEF Fits, ForSession
      <3>2. pc # "drop" => ~q.banned
        BY <1>1, <2>1, <2>6 DEF Fits
      <3>3. q.banned => q.who \in Config /\ account'[q.who] = "disabled"
        BY <1>1, <2>2 DEF Fits
      <3>4. /\ RequestTypes' /\ h'[r].pc = pc /\ h'[r].sid = q.sid /\ h'[r].rec = q.rec
            /\ h'[r].code = q.code /\ h'[r].who = q.who /\ h'[r].ctx = q.ctx
            /\ h'[r].banned = q.banned /\ h'[r].stale = q.stale
        BY <1>1, <2>6, GotoFields DEF ForSession, ForLogin
      <3>5. h'[r] \in RequestState
        BY <3>4 DEF RequestTypes
      <3>6. /\ q.pc = "account" => q.sid \in Session
            /\ q.pc = "admit" => /\ q.code \in Code /\ code[q.code] # None
                                 /\ q.who = login[code[q.code]].asked
                                 /\ q.ctx = q.who /\ Effective(q.rec.bound) = q.ctx
        BY <1>1 DEF Fits, ForSession, ForLogin, InContext
      <3>7. Fits(h[r])'
        BY <1>2, <2>1, <2>6, <3>1, <3>2, <3>3, <3>4, <3>5, <3>6
        DEF Fits, ForSession, ForLogin, InContext, Home, Effective
      <3>8. (\A p \in Request : Fits(h[p]))'
        BY <2>3, <2>6, <3>7, OneMoves DEF Goto
      <3> QED
        BY <2>2, <2>4, <3>4, <3>8 DEF Inv
    <2> QED
      BY <1>3, <2>1, <2>5, <2>6 DEF Admit, ResolveAccount
  <1>4. CASE Consume(r)
    <2>1. Goto(r, "connect") /\ q.pc = "consume" /\ account' = account
      BY <1>4 DEF Consume
    <2>2. Grows
      BY <1>2, <2>1 DEF Grows
    <2>3. World' /\ RedisTypes' /\ ProviderTypes' /\ SettingTypes' /\ HistoryTypes'
      BY <1>1, <1>2, <2>1, <2>2, WorldStays
      DEF RedisTypes, ProviderTypes, SettingTypes, HistoryTypes, provider, history
    <2>4. /\ q.code \in Code /\ code[q.code] # None /\ q.who = login[code[q.code]].asked
          /\ q.rec # NoSession => Home(q.rec)
          /\ q.banned => q.who \in Config /\ account[q.who] = "disabled"
          /\ q.stale => settings # q.who
      BY <1>1, <2>1 DEF Fits, ForLogin
    <2>5. RequestTypes' /\ Fits(h[r])'
      BY <1>1, <1>2, <2>1, <2>4, GotoFields
      DEF Fits, RequestTypes, ForSession, ForLogin, InContext, Home, Effective
    <2>6. (\A p \in Request : Fits(h[p]))'
      BY <2>1, <2>2, <2>5, OneMoves DEF Goto
    <2> QED
      BY <2>3, <2>5, <2>6 DEF Inv
  <1> QED
    BY <1>3, <1>4

\* What happens around the requests, but for settings and accounts.
LEMMA SurroundingsKeepInv ==
  ASSUME Inv,
         \/ \E x \in Login : LoginStart(x) \/ LoginExpires(x)
         \/ \E x \in Login, c \in Code : Authorize(x, c)
         \/ \E t \in Token : AccessExpires(t)
         \/ \E s \in Session : SessionExpires(s)
  PROVE  Inv'
  <1>1. RedisTypes /\ ProviderTypes /\ SettingTypes /\ HistoryTypes /\ RequestTypes
    BY DEF Inv
  <1>2. UNCHANGED <<settings, account, issuer, valid, h, history>>
    BY DEF LoginStart, LoginExpires, Authorize, AccessExpires, SessionExpires,
           redis, provider
  <1>3. ASSUME Grows, World', RedisTypes', ProviderTypes', calm' \in BOOLEAN
        PROVE  Inv'
    <2>1. (\A r \in Request : Fits(h[r]))'
      BY <1>2, <1>3, FitsStays
    <2> QED
      BY <1>1, <1>2, <1>3, <2>1 DEF Inv, SettingTypes, HistoryTypes, RequestTypes, history
  <1>4. ASSUME NEW x \in Login, LoginStart(x) PROVE Inv'
    <2> DEFINE new == [asked |-> settings, bound |-> settings]
    <2>1. /\ login' = [login EXCEPT ![x] = new] /\ stored' = stored \cup {x}
          /\ login[x] = NoLogin /\ settings \in Config
          /\ UNCHANGED <<session, provider, calm>>
      BY <1>1, <1>4 DEF LoginStart, SettingTypes, Setting
    <2>2. new \in LoginRecord /\ new # NoLogin /\ new.asked = Effective(new.bound)
      BY <2>1, Absent DEF LoginRecord, Setting, Effective
    <2>3. RedisTypes' /\ ProviderTypes' /\ calm' \in BOOLEAN
      BY <1>1, <2>1, <2>2 DEF RedisTypes, ProviderTypes, provider, HistoryTypes
    <2>4. \A y \in Login : login'[y] = IF y = x THEN new ELSE login[y]
      BY <1>1, <2>1 DEF RedisTypes
    <2>5. Grows
      BY <1>2, <2>1, <2>4 DEF Grows, provider
    <2>6. World'
      <3> HIDE DEF new
      <3>1. code' = code /\ session' = session /\ issuer' = issuer
        BY <2>1 DEF provider
      <3>2. \A y \in Login : login'[y] # NoLogin =>
              login'[y] \in LoginRecord /\ login'[y].asked = Effective(login'[y].bound)
        BY <2>2, <2>4 DEF Inv, World
      <3>3. \A c \in Code : code'[c] # None =>
              code'[c] \in Login /\ login'[code'[c]] # NoLogin
        BY <2>2, <2>4, <3>1 DEF Inv, World
      <3>4. \A s \in Session : Live(s)' => Home(session[s])'
        BY <3>1 DEF Inv, World, Live, Home, Effective
      <3> QED
        BY <3>2, <3>3, <3>4 DEF World, Effective
    <2> QED
      BY <1>3, <2>3, <2>5, <2>6
  <1>5. ASSUME NEW x \in Login, LoginExpires(x) PROVE Inv'
    <2>1. stored' \subseteq stored /\ UNCHANGED <<session, login, provider, calm>>
      BY <1>5 DEF LoginExpires
    <2>2. Grows /\ code' = code
      BY <1>2, <2>1 DEF Grows, provider
    <2>3. World' /\ RedisTypes' /\ ProviderTypes' /\ calm' \in BOOLEAN
      BY <1>1, <2>1, <2>2, WorldStays DEF RedisTypes, ProviderTypes, provider, HistoryTypes
    <2> QED
      BY <1>3, <2>2, <2>3
  <1>6. ASSUME NEW x \in Login, NEW c \in Code, Authorize(x, c) PROVE Inv'
    <2>1. /\ code' = [code EXCEPT ![c] = x] /\ open' = open \cup {c} /\ code[c] = None
          /\ login[x] # NoLogin
          /\ UNCHANGED <<redis, expired, calm>>
      BY <1>6 DEF Authorize
    <2>2. \A d \in Code : code'[d] = IF d = c THEN x ELSE code[d]
      BY <1>1, <2>1 DEF ProviderTypes
    <2>3. Grows
      BY <1>2, <2>1, <2>2 DEF Grows, redis
    <2>4. RedisTypes' /\ ProviderTypes' /\ calm' \in BOOLEAN
      BY <1>1, <1>2, <2>1 DEF RedisTypes, ProviderTypes, redis, HistoryTypes
    <2>5. World'
      <3>1. session' = session /\ login' = login /\ issuer' = issuer
        BY <1>2, <2>1 DEF redis
      <3>2. \A d \in Code : code'[d] # None =>
              code'[d] \in Login /\ login'[code'[d]] # NoLogin
        BY <2>1, <2>2, <3>1 DEF Inv, World
      <3>3. \A s \in Session : Live(s)' => Home(session[s])'
        BY <3>1 DEF Inv, World, Live, Home, Effective
      <3> QED
        BY <3>1, <3>2, <3>3 DEF Inv, World, Effective
    <2> QED
      BY <1>3, <2>3, <2>4, <2>5
  <1>7. ASSUME NEW t \in Token, AccessExpires(t) PROVE Inv'
    <2>1. expired' = expired \cup {t} /\ UNCHANGED <<redis, code, open, calm>>
      BY <1>7 DEF AccessExpires
    <2>2. Grows /\ session' = session /\ login' = login
      BY <1>2, <2>1 DEF Grows, redis
    <2>3. World' /\ RedisTypes' /\ ProviderTypes' /\ calm' \in BOOLEAN
      BY <1>1, <1>2, <2>1, <2>2, WorldStays
      DEF RedisTypes, ProviderTypes, redis, HistoryTypes
    <2> QED
      BY <1>3, <2>2, <2>3
  <1>8. ASSUME NEW s \in Session, SessionExpires(s) PROVE Inv'
    <2>1. /\ session' = [session EXCEPT ![s] = NoSession] /\ calm' = FALSE
          /\ UNCHANGED <<login, stored, provider>>
      BY <1>8 DEF SessionExpires
    <2>2. Grows /\ code' = code
      BY <1>2, <2>1 DEF Grows, provider
    <2>3. RedisTypes' /\ \A u \in Session : session'[u] \in {session[u], NoSession}
      BY <1>1, <2>1 DEF RedisTypes
    <2>4. World' /\ ProviderTypes'
      BY <1>1, <2>1, <2>2, <2>3, WorldStays DEF ProviderTypes, provider
    <2> QED
      BY <1>3, <2>1, <2>2, <2>3, <2>4
  <1> QED
    BY <1>4, <1>5, <1>6, <1>7, <1>8

\* An administrator saves the settings or switches an account: no request moves,
\* and some are no longer marked as stale or banned.
LEMMA SwitchesKeepInv ==
  ASSUME Inv,
         \/ \E v \in Setting : SaveSettings(v)
         \/ \E k \in Config, st \in {"active", "disabled"} : SwitchAccount(k, st)
  PROVE  Inv'
  <1>1. RedisTypes /\ ProviderTypes /\ SettingTypes /\ HistoryTypes /\ RequestTypes
    BY DEF Inv
  <1>2. /\ UNCHANGED <<redis, provider, history>> /\ calm' = FALSE
        /\ session' = session /\ login' = login /\ code' = code /\ issuer' = issuer
    BY DEF SaveSettings, SwitchAccount, redis, provider
  <1>3. World' /\ RedisTypes' /\ ProviderTypes' /\ HistoryTypes'
    BY <1>1, <1>2 DEF Inv, World, RedisTypes, ProviderTypes, HistoryTypes, redis,
                      provider, history, Live, Home, Effective
  <1>4. ASSUME NEW v \in Setting, SaveSettings(v) PROVE Inv'
    <2>1. settings' = v /\ account' = account
      BY <1>4 DEF SaveSettings
    <2>2. \A r \in Request : /\ h'[r] \in RequestState /\ h'[r].pc = h[r].pc
            /\ h'[r].sid = h[r].sid /\ h'[r].code = h[r].code /\ h'[r].rec = h[r].rec
            /\ h'[r].who = h[r].who /\ h'[r].ctx = h[r].ctx /\ h'[r].banned = h[r].banned
            /\ (h'[r].stale => h[r].stale /\ h[r].who # v)
      BY <1>1, <1>4 DEF SaveSettings, RequestTypes, RequestState
    <2>3. RequestTypes'
      BY <1>4, <2>2 DEF SaveSettings, RequestTypes
    <2>4. SettingTypes'
      BY <1>1, <2>1 DEF SettingTypes
    <2>5. ASSUME NEW r \in Request PROVE Fits(h[r])'
      <3> DEFINE q == h[r]
      <3>1. Fits(q)
        BY DEF Inv
      <3>2. h'[r].stale => settings' # q.who /\ q.stale
        BY <2>1, <2>2
      <3>3. q.rec # NoSession => /\ q.rec \in Record /\ Effective(q.rec.bound) # None
                                 /\ issuer'[q.rec.token] = Effective(q.rec.bound)
        BY <1>2, <3>1 DEF Fits, Home
      <3>4. q.pc \in ForLogin => code'[q.code] # None /\ q.who = login'[code'[q.code]].asked
        BY <1>2, <3>1 DEF Fits
      <3> QED
        BY <2>1, <2>2, <3>1, <3>2, <3>3, <3>4 DEF Fits, Home, Effective
    <2> QED
      BY <1>3, <2>3, <2>4, <2>5 DEF Inv
  <1>5. ASSUME NEW k \in Config, NEW st \in {"active", "disabled"}, SwitchAccount(k, st)
        PROVE  Inv'
    <2>1. settings' = settings /\ account' = [account EXCEPT ![k] = st]
      BY <1>5 DEF SwitchAccount
    <2>2. ASSUME NEW r \in Request
          PROVE  /\ h'[r] \in RequestState /\ h'[r].pc = h[r].pc
                 /\ h'[r].sid = h[r].sid /\ h'[r].code = h[r].code /\ h'[r].rec = h[r].rec
                 /\ h'[r].who = h[r].who /\ h'[r].ctx = h[r].ctx /\ h'[r].stale = h[r].stale
                 /\ h'[r].banned => h[r].banned
                 /\ h'[r].banned => ~(h[r].who = k /\ st = "active")
      <3>1. h[r] \in RequestState
        BY <1>1 DEF RequestTypes
      <3>2. CASE h[r].who = k /\ st = "active"
        <4>1. h'[r] = [h[r] EXCEPT !.banned = FALSE]
          BY <1>5, <3>2 DEF SwitchAccount
        <4> QED
          BY <3>1, <3>2, <4>1 DEF RequestState
      <3>3. CASE ~(h[r].who = k /\ st = "active")
        <4>1. h'[r] = h[r]
          BY <1>5, <3>3 DEF SwitchAccount
        <4> QED
          BY <3>1, <3>3, <4>1
      <3> QED
        BY <3>2, <3>3
    <2>3. RequestTypes'
      BY <1>5, <2>2 DEF SwitchAccount, RequestTypes
    <2>4. SettingTypes'
      BY <1>1, <2>1 DEF SettingTypes
    <2>5. ASSUME NEW r \in Request PROVE Fits(h[r])'
      <3> DEFINE q == h[r]
      <3>1. Fits(q)
        BY DEF Inv
      <3>2. /\ h'[r].banned => q.banned
            /\ h'[r].banned => ~(q.who = k /\ st = "active")
        BY <2>2
      <3>3. ASSUME h'[r].banned PROVE q.who \in Config /\ account'[q.who] = "disabled"
        <4>1. q.who \in Config /\ account[q.who] = "disabled"
          BY <3>1, <3>2, <3>3 DEF Fits
        <4>2. q.who = k => st = "disabled"
          BY <3>2, <3>3
        <4> QED
          BY <1>1, <2>1, <4>1, <4>2 DEF SettingTypes
      <3>4. q.rec # NoSession => /\ q.rec \in Record /\ Effective(q.rec.bound) # None
                                 /\ issuer'[q.rec.token] = Effective(q.rec.bound)
        BY <1>2, <3>1 DEF Fits, Home
      <3>5. q.pc \in ForLogin => code'[q.code] # None /\ q.who = login'[code'[q.code]].asked
        BY <1>2, <3>1 DEF Fits
      <3> QED
        BY <2>1, <2>2, <3>1, <3>2, <3>3, <3>4, <3>5 DEF Fits, Home, Effective
    <2> QED
      BY <1>3, <2>3, <2>4, <2>5 DEF Inv
  <1> QED
    BY <1>4, <1>5

(***************************************************************************)
(* The theorems.                                                           *)
(***************************************************************************)

\* Sessions and logins of the time before bindings come from the imported
\* configuration.
LEMMA InitInv == Init => Inv
  <1> SUFFICES ASSUME Init PROVE Inv
    OBVIOUS
  <1>1. Old \subseteq Token
    BY OidcAssumption DEF Old
  <1>2. \A s \in DOMAIN OldToken : OldToken[s] \in Old /\ OldToken[s] \in Token
    BY OidcAssumption DEF Old
  <1>3. \A s \in Session : session[s] = IF s \in DOMAIN OldToken
             THEN [bound |-> None, token |-> OldToken[s]] ELSE NoSession
    BY DEF Init
  <1>4. \A x \in Login : login[x] = IF x \in OldLogin
             THEN [asked |-> Legacy, bound |-> None] ELSE NoLogin
    BY DEF Init
  <1>5. RedisTypes
    <2>1. ASSUME NEW s \in Session PROVE session[s] \in Record \cup {NoSession}
      <3>1. s \in DOMAIN OldToken => [bound |-> None, token |-> OldToken[s]] \in Record
        BY <1>2 DEF Record, Setting
      <3> QED
        BY <1>3, <3>1
    <2>2. \A x \in Login : login[x] \in LoginRecord \cup {NoLogin}
      BY <1>4, OidcAssumption DEF LoginRecord, Setting
    <2> QED
      BY <2>1, <2>2, OidcAssumption DEF Init, RedisTypes
  <1>6. ProviderTypes
    BY <1>1, OidcAssumption DEF Init, ProviderTypes, Setting
  <1>7. SettingTypes /\ HistoryTypes
    BY OidcAssumption DEF Init, SettingTypes, HistoryTypes
  <1>8. RequestTypes /\ \A r \in Request : Fits(h[r])
    BY IdleFits DEF Init, RequestTypes, Fits
  <1>9. World
    <2>1. ASSUME NEW s \in Session, Live(s) PROVE Home(session[s])
      <3>1. s \in DOMAIN OldToken /\ session[s] = [bound |-> None, token |-> OldToken[s]]
        BY <1>3, <2>1 DEF Live
      <3>2. Legacy # None /\ issuer[OldToken[s]] = Legacy
        BY <1>2, <3>1, OidcAssumption DEF Init
      <3> QED
        BY <1>2, <3>1, <3>2 DEF Home, Record, Setting, Effective
    <2>2. ASSUME NEW x \in Login, login[x] # NoLogin
          PROVE  login[x] \in LoginRecord /\ login[x].asked = Effective(login[x].bound)
      BY <1>4, <2>2, OidcAssumption DEF LoginRecord, Setting, Effective
    <2>3. \A c \in Code : code[c] = None
      BY DEF Init
    <2> QED
      BY <2>1, <2>2, <2>3 DEF World
  <1> QED
    BY <1>5, <1>6, <1>7, <1>8, <1>9 DEF Inv

\* No step breaks the invariant.
LEMMA InvInductive == Inv /\ [Next]_vars => Inv'
  <1> SUFFICES ASSUME Inv, [Next]_vars PROVE Inv'
    OBVIOUS
  <1>1. CASE EnvNext
    BY <1>1, SurroundingsKeepInv, SwitchesKeepInv DEF EnvNext
  <1>2. ASSUME NEW r \in Request, LoginNext(r) PROVE Inv'
    BY <1>2, ChecksKeepInv, ReadsKeepInv, StoresKeepInv, MintsKeepInv, AdmitsKeepInv
    DEF LoginNext
  <1>3. ASSUME NEW r \in Request, RequestNext(r) PROVE Inv'
    BY <1>3, ChecksKeepInv, ReadsKeepInv, StoresKeepInv, MintsKeepInv, AdmitsKeepInv,
       ProvidersKeepInv DEF RequestNext
  <1>4. CASE UNCHANGED vars
    BY <1>4 DEF vars, redis, provider, history, Inv, RedisTypes, ProviderTypes,
                SettingTypes, HistoryTypes, RequestTypes, World, Fits, Home, Live, Effective
  <1> QED
    BY <1>1, <1>2, <1>3, <1>4 DEF Next

\* The invariant always holds.
LEMMA Always == Spec => []Inv
  BY InitInv, InvInductive, PTL DEF Spec

\* Sessions, logins, tokens, accounts and requests keep their types.
THEOREM TypeCorrect == Spec => []TypeOK
  <1>1. Inv => TypeOK
    BY DEF Inv, TypeOK
  <1> QED
    BY <1>1, Always, PTL

\* A code or a refresh token is only sent to the configuration it came from.
THEOREM TokensHome == Spec => []TokensStayHome
  <1>1. Inv => TokensStayHome
    BY DEF Inv, TokensStayHome, Fits, Home, ForSession, ForLogin, InContext
  <1> QED
    BY <1>1, Always, PTL

\* A disabled account is neither renewed nor served nor given a session.
THEOREM DisabledOut == Spec => []DisabledIsShutOut
  <1>1. Inv => DisabledIsShutOut
    BY DEF Inv, DisabledIsShutOut, Fits
  <1> QED
    BY <1>1, Always, PTL

\* A request of another configuration than the stored one gets past no check.
THEOREM StaleOut == Spec => []StaleIsRefused
  <1>1. Inv => StaleIsRefused
    BY DEF Inv, StaleIsRefused, Fits
  <1> QED
    BY <1>1, Always, PTL
-----------------------------------------------------------------------------
(***************************************************************************)
(* One session per login, and no session after its logout.                 *)
(***************************************************************************)

\* Request p works on login x, on session s.
On(p, x) == h[p].pc \in ForLogin /\ code[h[p].code] = x
Holds(p, s) == h[p].pc \in ForSession /\ h[p].sid = s

\* A login that no two callbacks worked on at once leads to one session, and once
\* it was consumed to no further callback.
OnceFor(x) ==
  x \notin raced =>
    /\ \A p, q \in Request : On(p, x) /\ On(q, x) => p = q
    /\ \A p \in Request : On(p, x) /\ h[p].pc # "consume" => x \notin stored
    /\ \A s \in used : born[s] = x => x \notin stored /\ \A p \in Request : ~On(p, x)
    /\ \A s, t \in used : born[s] = x /\ born[t] = x => s = t

\* Logins Redis has, or that led to a session, were started.
Started ==
  /\ \A x \in stored : login[x] # NoLogin
  /\ \A s \in used : born[s] # None => login[born[s]] # NoLogin

Once == Started /\ \A x \in Login : OnceFor(x)

\* A session that no two requests worked on at once has one request, and none
\* that could store it again once it was logged out.
OverFor(s) ==
  s \notin raced =>
    /\ \A p, q \in Request : Holds(p, s) /\ Holds(q, s) => p = q
    /\ s \in ended => /\ ~Live(s)
                      /\ \A p \in Request : Holds(p, s) => h[p].pc \in {"revoke", "send"}

Over ==
  /\ ended \subseteq used
  /\ \A s \in Session : Live(s) => s \in used
  /\ \A p \in Request : h[p].pc \in ForSession =>
       /\ h[p].sid \in used
       /\ h[p].pc \in {"revoke", "send"} => h[p].sid \in ended
  /\ \A s \in Session : OverFor(s)

-----------------------------------------------------------------------------
(***************************************************************************)
(* Tokens and calm times.                                                  *)
(***************************************************************************)

\* Token t is stored for session s, or a request that works on s has it.
Owns(s, t) ==
  \/ Live(s) /\ session[s].token = t
  \/ \E p \in Request : Holds(p, s) /\ h[p].rec # NoSession /\ h[p].rec.token = t

\* Callback p has token t and has not created the session yet.
Brings(p, t) == h[p].pc \in {"admit", "create"} /\ h[p].rec.token = t

\* A token belongs to one session, or to one callback.
OneOwner ==
  \A t \in Token :
    /\ \A s, u \in Session : Owns(s, t) /\ Owns(u, t) => s = u
    /\ \A p \in Request, s \in Session : ~(Brings(p, t) /\ Owns(s, t))
    /\ \A p, q \in Request : Brings(p, t) /\ Brings(q, t) => p = q

\* What may cost a user the session in calm times.
Spent(s) == s \in ended \/ (SingleUse /\ s \in raced)

\* A request has renewed session s and has yet to store it.
Renewing(s, t) ==
  SingleUse /\ \E p \in Request : Holds(p, s) /\ h[p].pc = "store" /\ h[p].rec.token # t

\* Nobody changed a setting or disabled an account, so everything is of the
\* imported configuration.
Settled ==
  /\ settings = Legacy
  /\ \A k \in Config : account[k] # "disabled"
  /\ \A x \in Login : login[x] # NoLogin => login[x].asked = Legacy
  /\ \A t \in Token : issuer[t] \in {None, Legacy}

\* A provider takes a token until its session is spent or renewed, and only a
\* request of a spent session is about to drop it.
Sound ==
  /\ \A p \in Request, t \in Token : Brings(p, t) => t \in valid
  /\ \A s \in Session, t \in Token :
       Owns(s, t) /\ t \notin valid => Spent(s) \/ Renewing(s, t)
  /\ \A p \in Request : h[p].pc = "drop" => Spent(h[p].sid)

Quiet == calm => Settled /\ Sound
-----------------------------------------------------------------------------
(***************************************************************************)
(* What a step of a request does to the requests.                          *)
(***************************************************************************)

\* Request r goes on with what it works on, or is done.
Continues(r) ==
  /\ \A q \in Request \ {r} : h'[q] = h[q]
  /\ \/ h'[r] = Idle
     \/ /\ h'[r].sid = h[r].sid /\ h'[r].code = h[r].code
        /\ \/ h[r].pc \in ForSession /\ h'[r].pc \in ForSession
           \/ h[r].pc \in ForLogin /\ h'[r].pc \in ForLogin \ {"consume"}

\* The steps of requests that are under way and read or check something.
Looks(r) ==
  \/ Consume(r) \/ Connect(r) \/ RedeemRefused(r) \/ Admit(r)
  \/ LoadContext(r) \/ Guard(r) \/ ExchangeRefused(r) \/ ResolveAccount(r)
  \/ Served(r) \/ LogoutLoad(r) \/ LogoutRevoke(r) \/ ProviderFails(r) \/ Crash(r)

\* A request that finishes leaves the others alone.
LEMMA FinishShape ==
  ASSUME Inv, NEW r \in Request, Finish(r)
  PROVE  Continues(r) /\ h'[r] = Idle
  BY DEF Inv, RequestTypes, Finish, Continues

\* So does one that goes on.
LEMMA GotoShape ==
  ASSUME Inv, NEW r \in Request, NEW pc, Goto(r, pc) \/ Load(r, pc),
         \/ h[r].pc \in ForSession /\ pc \in ForSession
         \/ h[r].pc \in ForLogin /\ pc \in ForLogin \ {"consume"}
  PROVE  Continues(r) /\ h'[r].pc = pc /\ h'[r].rec = h[r].rec /\ h'[r].sid = h[r].sid
  <1>1. RequestTypes /\ SettingTypes /\ pc \in ForSession \cup ForLogin \cup {"idle"}
    BY DEF Inv
  <1>2. /\ h'[r].pc = pc /\ h'[r].sid = h[r].sid /\ h'[r].code = h[r].code
        /\ h'[r].rec = h[r].rec
    BY <1>1, GotoFields, LoadFields
  <1>3. \A q \in Request \ {r} : h'[q] = h[q]
    BY <1>1 DEF RequestTypes, Goto, Load
  <1> QED
    BY <1>2, <1>3 DEF Continues

\* A request that looks at something keeps its record, and neither starts to store
\* a session nor ends one.
LEMMA LooksShape ==
  ASSUME Inv, NEW r \in Request, Looks(r)
  PROVE  /\ Continues(r)
         /\ h'[r] # Idle =>
              /\ h'[r].rec = h[r].rec /\ h'[r].pc # "store"
              /\ h[r].pc \notin {"store", "delete"}
              /\ h'[r].pc = "send" <=> h[r].pc = "revoke"
              /\ h'[r].pc # "revoke" /\ h[r].pc # "send"
              /\ h'[r].pc \in {"admit", "create"} => h[r].pc = "admit"
         /\ UNCHANGED <<session, login, born, used, ended, raced>>
         /\ stored' \subseteq stored /\ valid' \subseteq valid
  <1>1. /\ UNCHANGED <<session, login, born, used, ended, raced>>
        /\ stored' \subseteq stored /\ valid' \subseteq valid
    BY DEF Looks, Consume, Connect, RedeemRefused, Admit, LoadContext, Guard,
           ExchangeRefused, ResolveAccount, Served, LogoutLoad, LogoutRevoke,
           ProviderFails, Crash, redis, provider, history, Consumed
  <1>2. CASE Finish(r)
    BY <1>1, <1>2, FinishShape
  <1>3. ASSUME NEW from, NEW pc, Goto(r, pc) \/ Load(r, pc), h[r].pc = from,
               \/ /\ from \in ForSession \ {"store", "delete", "send"}
                  /\ pc \in ForSession \ {"store", "revoke"}
                  /\ pc = "send" <=> from = "revoke"
               \/ /\ from \in ForLogin /\ pc \in ForLogin \ {"consume"}
                  /\ pc \in {"admit", "create"} => from = "admit"
        PROVE  /\ Continues(r)
               /\ h'[r].rec = h[r].rec /\ h'[r].pc # "store"
               /\ h[r].pc \notin {"store", "delete"}
               /\ h'[r].pc = "send" <=> h[r].pc = "revoke"
               /\ h'[r].pc # "revoke" /\ h[r].pc # "send"
               /\ h'[r].pc \in {"admit", "create"} => h[r].pc = "admit"
    BY <1>3, GotoShape DEF ForSession, ForLogin
  <1>4. \/ Finish(r)
        \/ \E from \in {"load", "guard", "exchange", "account", "revoke"},
              pc \in {"drop", "guard", "bind", "account", "exchange", "serve", "send"} :
             /\ h[r].pc = from /\ (pc = "send" <=> from = "revoke")
             /\ Goto(r, pc) \/ Load(r, pc)
        \/ \E from \in {"consume", "connect", "admit"}, pc \in {"connect", "redeem", "create"} :
             /\ h[r].pc = from /\ (pc = "create" => from = "admit")
             /\ Goto(r, pc) \/ Load(r, pc)
    BY DEF Looks, Consume, Connect, RedeemRefused, Admit, LoadContext, Guard,
           ExchangeRefused, ResolveAccount, Served, LogoutLoad, LogoutRevoke,
           ProviderFails, Crash
  <1> QED
    BY <1>1, <1>2, <1>3, <1>4 DEF ForSession, ForLogin
-----------------------------------------------------------------------------
(***************************************************************************)
(* One session per login.                                                  *)
(***************************************************************************)

\* A request that continues works on the login it worked on, past its consumption.
LEMMA OnStays ==
  ASSUME Inv, NEW r \in Request, Continues(r), code' = code,
         NEW p \in Request, NEW x, On(p, x)'
  PROVE  On(p, x) /\ (p = r => h'[p].pc # "consume") /\ (p # r => h'[p] = h[p])
  BY DEF Continues, On, Idle, ForLogin, ForSession

\* A step that starts no callback, consumes nothing back and creates no session.
LEMMA OnceStays ==
  ASSUME Inv, Once, UNCHANGED <<born, used>>, raced \subseteq raced',
         \A x \in Login : login[x] # NoLogin => login'[x] = login[x],
         \A x \in stored' : x \in stored \/ (login[x] = NoLogin /\ login'[x] # NoLogin),
         \A p \in Request, x \in Login : On(p, x)' =>
           On(p, x) /\ (h'[p].pc # "consume" => h[p].pc # "consume" \/ x \notin stored')
  PROVE  Once'
  <1>1. \A x \in Login, p \in Request : On(p, x) => login[x] # NoLogin
    BY DEF Inv, World, Fits, On
  <1>2. ASSUME NEW x \in Login PROVE OnceFor(x)'
    <2>1. OnceFor(x) /\ (x \notin raced' => x \notin raced)
      BY DEF Once
    <2>2. x \in stored => login[x] # NoLogin
      BY DEF Once, Started
    <2>3. \A s \in used : born[s] = x => login[x] # NoLogin
      BY Absent DEF Once, Started
    <2>4. \A p \in Request : On(p, x)' => On(p, x)
      OBVIOUS
    <2>5. \A p \in Request : On(p, x)' /\ h'[p].pc # "consume" =>
            h[p].pc # "consume" \/ x \notin stored'
      OBVIOUS
    <2>6. login[x] # NoLogin => (x \in stored' => x \in stored)
      OBVIOUS
    <2> QED
      BY <1>1, <2>1, <2>2, <2>3, <2>4, <2>5, <2>6 DEF OnceFor
  <1>3. Started'
    <2>1. \A s \in used : born[s] # None => born[s] \in Login
      BY DEF Inv, HistoryTypes
    <2> QED
      BY <2>1 DEF Once, Started, Inv, RedisTypes
  <1> QED
    BY <1>2, <1>3 DEF Once

\* The steps of a request that is under way, but for the session it may create.
LEMMA StepsKeepOnce ==
  ASSUME Inv, Once, NEW r \in Request, Continues(r),
         UNCHANGED <<login, code, born, used>>, stored' \subseteq stored,
         raced \subseteq raced', h[r].pc = "consume" => ~(code[h[r].code] \in stored')
                                                       \/ h'[r] = Idle
  PROVE  Once'
  <1>1. ASSUME NEW p \in Request, NEW x \in Login, On(p, x)'
        PROVE  On(p, x) /\ (h'[p].pc # "consume" => h[p].pc # "consume" \/ x \notin stored')
    <2>1. On(p, x) /\ (p = r => h'[p].pc # "consume") /\ (p # r => h'[p] = h[p])
      BY <1>1, OnStays
    <2>2. h'[p] # Idle
      BY <1>1 DEF On, Idle, ForLogin
    <2> QED
      BY <2>1, <2>2 DEF On
  <1> QED
    BY <1>1, OnceStays

\* A callback starts with a login that led to no session yet.
LEMMA CallbackKeepsOnce ==
  ASSUME Inv, Once, NEW r \in Request, NEW c \in Code, Callback(r, c)
  PROVE  Once'
  <1> DEFINE y == code[c]
             next == Starting(login[y].asked, "consume", None, c, NoSession)
  <1>1. /\ h' = [h EXCEPT ![r] = next] /\ h[r].pc = "idle" /\ y \in stored /\ y # None
        /\ raced' = raced \cup ({y} \cap Taken(r))
        /\ UNCHANGED <<redis, provider, born, used>>
    BY DEF Callback
  <1>2. /\ h'[r].pc = "consume" /\ h'[r].code = c
        /\ \A q \in Request \ {r} : h'[q] = h[q]
    BY <1>1 DEF Inv, RequestTypes, Starting
  <1>3. stored' = stored /\ login' = login /\ code' = code
    BY <1>1 DEF redis, provider
  <1>4. \A x : On(r, x)' => x = y
    BY <1>2, <1>3 DEF On
  <1>5. ASSUME NEW q \in Request \ {r}, NEW x
        PROVE  On(q, x)' <=> On(q, x)
    BY <1>2, <1>3 DEF On
  <1>6. ASSUME NEW q \in Request \ {r}, On(q, y) PROVE y \in raced'
    <2>1. h[q].code \in Code /\ code[h[q].code] = y
      BY <1>6 DEF On, Inv, Fits
    <2>2. h[q].code # None
      BY <2>1, Absent
    <2>3. y \in Taken(r)
      BY <2>1, <2>2 DEF Taken
    <2> QED
      BY <1>1, <2>3
  <1>7. ASSUME NEW x \in Login PROVE OnceFor(x)'
    <2> SUFFICES ASSUME x \notin raced' PROVE OnceFor(x)'
      BY DEF OnceFor
    <2>1. OnceFor(x) /\ x \notin raced
      BY <1>1 DEF Once
    <2>2. CASE x = y
      <3>1. \A q \in Request : On(q, x)' => q = r
        BY <1>5, <1>6, <2>2
      <3>2. \A s \in used : born[s] # x
        BY <1>1, <2>1, <2>2 DEF OnceFor
      <3> QED
        BY <1>1, <1>2, <3>1, <3>2 DEF OnceFor
    <2>3. CASE x # y
      <3>1. \A q \in Request : On(q, x)' => On(q, x) /\ h'[q] = h[q]
        BY <1>2, <1>4, <1>5, <2>3
      <3> QED
        BY <1>1, <1>3, <2>1, <3>1 DEF OnceFor
    <2> QED
      BY <2>2, <2>3
  <1>8. Started'
    BY <1>1, <1>3 DEF Once, Started
  <1> QED
    BY <1>7, <1>8 DEF Once

\* A session is created from a login that is consumed and has none yet.
LEMMA CreateKeepsOnce ==
  ASSUME Inv, Once, NEW r \in Request, NEW n \in Session, Create(r, n)
  PROVE  Once'
  <1> DEFINE y == code[h[r].code]
  <1>1. /\ h[r].pc = "create" /\ n \notin used /\ used' = used \cup {n}
        /\ born' = [born EXCEPT ![n] = y] /\ Finish(r)
        /\ UNCHANGED <<login, stored, provider, ended, raced>> /\ code' = code
    BY DEF Create, provider
  <1>2. On(r, y) /\ y \in Login /\ login[y] # NoLogin
    BY <1>1 DEF On, ForLogin, Inv, Fits, World
  <1>3. Continues(r) /\ h'[r] = Idle
    BY <1>1, FinishShape
  <1>4. \A p \in Request, x \in Login : On(p, x)' => On(p, x) /\ p # r /\ h'[p] = h[p]
    BY <1>1, <1>3, OnStays DEF On, Idle, ForLogin
  <1>5. /\ born'[n] = y
        /\ \A s \in used : s # n /\ born'[s] = born[s]
    BY <1>1 DEF Inv, HistoryTypes
  <1>6. ASSUME NEW x \in Login PROVE OnceFor(x)'
    <2> SUFFICES ASSUME x \notin raced' PROVE OnceFor(x)'
      BY DEF OnceFor
    <2>1. OnceFor(x) /\ x \notin raced
      BY <1>1 DEF Once
    <2>2. CASE x = y
      <3>1. /\ x \notin stored /\ \A p \in Request : ~On(p, x)'
            /\ \A s \in used : born[s] # x
        BY <1>1, <1>2, <1>4, <2>1, <2>2 DEF OnceFor
      <3>2. \A s \in used' : born'[s] = x => s = n
        BY <1>1, <1>5, <3>1
      <3> QED
        BY <1>1, <3>1, <3>2 DEF OnceFor
    <2>3. CASE x # y
      <3>1. \A s \in used' : born'[s] = x => s \in used /\ born[s] = x
        BY <1>1, <1>5, <2>3
      <3>2. \A p \in Request : On(p, x)' => On(p, x) /\ h'[p] = h[p]
        BY <1>4
      <3> QED
        BY <1>1, <2>1, <3>1, <3>2 DEF OnceFor
    <2> QED
      BY <2>2, <2>3
  <1>7. Started'
    BY <1>1, <1>2, <1>5 DEF Once, Started
  <1> QED
    BY <1>6, <1>7 DEF Once
-----------------------------------------------------------------------------
(***************************************************************************)
(* The steps that act on a token or on a stored session.                   *)
(***************************************************************************)

\* The callback has a token.
LEMMA RedeemShape ==
  ASSUME Inv, NEW r \in Request, NEW t \in Token, Redeem(r, t)
  PROVE  /\ Continues(r) /\ h[r].pc = "redeem"
         /\ h'[r].pc = "admit" /\ h'[r].rec.token = t
  BY DEF Inv, RequestTypes, RequestState, Redeem, Continues, ForLogin

\* The request has a new token for its session.
LEMMA ExchangeShape ==
  ASSUME Inv, NEW r \in Request, NEW t \in Token, Exchange(r, t)
  PROVE  /\ Continues(r) /\ h[r].pc = "exchange"
         /\ h'[r].pc = "store" /\ h'[r].sid = h[r].sid /\ h'[r].rec.token = t
  BY DEF Inv, RequestTypes, RequestState, Exchange, Renewed, Continues, ForSession

\* The request stores the token it has.
LEMMA StoreShape ==
  ASSUME Inv, NEW r \in Request, Store(r)
  PROVE  /\ Continues(r) /\ h[r].pc \in {"bind", "store"} /\ h[r].sid \in Session
         /\ h'[r].pc = "account" /\ h'[r].sid = h[r].sid /\ h[r].rec # NoSession
         /\ h'[r].rec.token = h[r].rec.token
         /\ session'[h[r].sid].token = h[r].rec.token /\ session'[h[r].sid] # NoSession
         /\ \A s \in Session \ {h[r].sid} : session'[s] = session[s]
  <1> DEFINE rec == Bound(r, h[r].rec.token)
             next == [h[r] EXCEPT !.pc = "account", !.rec = rec]
  <1>1. /\ h[r] \in RequestState /\ RequestTypes /\ h[r].pc \in {"bind", "store"}
        /\ h' = [h EXCEPT ![r] = next] /\ session' = [session EXCEPT ![h[r].sid] = rec]
    BY DEF Inv, RequestTypes, Store
  <1>2. h[r].sid \in Session /\ h[r].rec # NoSession /\ Home(h[r].rec)
    BY <1>1 DEF Inv, Fits, ForSession
  <1>3. rec.token = h[r].rec.token
    BY DEF Bound
  <1>4. rec # NoSession
    BY <1>2, <1>3, Absent DEF Home, Record, NoSession
  <1>5. next.pc = "account" /\ next.sid = h[r].sid /\ next.code = h[r].code /\ next.rec = rec
    BY <1>1 DEF RequestState
  <1>6. h'[r] = next /\ \A q \in Request \ {r} : h'[q] = h[q]
    BY <1>1 DEF RequestTypes
  <1>7. session'[h[r].sid] = rec /\ \A s \in Session \ {h[r].sid} : session'[s] = session[s]
    BY <1>1, <1>2 DEF Inv, RedisTypes
  <1> HIDE DEF rec, next
  <1> QED
    BY <1>1, <1>2, <1>3, <1>4, <1>5, <1>6, <1>7 DEF Continues, ForSession

\* The request deletes its session, and is done.
LEMMA DropShape ==
  ASSUME Inv, NEW r \in Request, Drop(r)
  PROVE  /\ Continues(r) /\ h[r].pc = "drop" /\ h[r].sid \in Session /\ h'[r] = Idle
         /\ session'[h[r].sid] = NoSession
         /\ \A s \in Session \ {h[r].sid} : session'[s] = session[s]
  <1>1. h[r].pc = "drop" /\ h[r].sid \in Session
    BY DEF Inv, Fits, Drop, ForSession
  <1>2. Continues(r) /\ h'[r] = Idle
    BY FinishShape DEF Drop
  <1> QED
    BY <1>1, <1>2 DEF Drop, Inv, RedisTypes

\* The logout reads the session once more.
LEMMA LogoutReadShape ==
  ASSUME Inv, NEW r \in Request, LogoutRead(r)
  PROVE  /\ Continues(r) /\ h[r].pc = "serve" /\ h[r].sid \in Session
         /\ h'[r].pc = "delete" /\ h'[r].sid = h[r].sid /\ h'[r].rec = session[h[r].sid]
  BY DEF Inv, RequestTypes, RequestState, LogoutRead, Continues, Fits, ForSession

\* The logout deletes the session.
LEMMA LogoutDeleteShape ==
  ASSUME Inv, NEW r \in Request, LogoutDelete(r)
  PROVE  /\ Continues(r) /\ h[r].pc = "delete" /\ h[r].sid \in Session
         /\ h'[r] # Idle => h'[r].pc = "revoke" /\ h'[r].rec = h[r].rec
         /\ session'[h[r].sid] = NoSession /\ ended' = ended \cup {h[r].sid}
         /\ \A s \in Session \ {h[r].sid} : session'[s] = session[s]
  <1>1. h[r].pc = "delete" /\ h[r].sid \in Session
    BY DEF Inv, Fits, LogoutDelete, ForSession
  <1>2. CASE Finish(r)
    BY <1>1, <1>2, FinishShape DEF LogoutDelete, Removed, Inv, RedisTypes
  <1>3. CASE Goto(r, "revoke")
    <2>1. Continues(r) /\ h'[r].pc = "revoke" /\ h'[r].rec = h[r].rec
      BY <1>1, <1>3, GotoShape DEF ForSession
    <2> QED
      BY <1>1, <2>1 DEF LogoutDelete, Removed, Inv, RedisTypes
  <1> QED
    BY <1>2, <1>3 DEF LogoutDelete

\* A callback creates a session of an id that was never stored.
LEMMA CreateShape ==
  ASSUME Inv, NEW r \in Request, NEW n \in Session, Create(r, n)
  PROVE  /\ Continues(r) /\ h[r].pc = "create" /\ h'[r] = Idle /\ n \notin used
         /\ session'[n] = h[r].rec /\ used' = used \cup {n}
         /\ \A s \in Session \ {n} : session'[s] = session[s]
  <1>1. Continues(r) /\ h'[r] = Idle
    BY FinishShape DEF Create
  <1> QED
    BY <1>1 DEF Create, Inv, RedisTypes

\* A request starts on a stored session.
LEMMA ArriveShape ==
  ASSUME Inv, NEW r \in Request, NEW s \in Session, Arrive(r, s)
  PROVE  /\ h[r].pc = "idle" /\ Live(s)
         /\ h'[r].pc = "load" /\ h'[r].sid = s /\ h'[r].rec = session[s]
         /\ \A q \in Request \ {r} : h'[q] = h[q]
  BY DEF Inv, RequestTypes, Arrive, Starting

\* Or on a login.
LEMMA CallbackShape ==
  ASSUME Inv, NEW r \in Request, NEW c \in Code, Callback(r, c)
  PROVE  /\ h[r].pc = "idle" /\ h'[r].pc = "consume"
         /\ \A q \in Request \ {r} : h'[q] = h[q]
  BY DEF Inv, RequestTypes, Callback, Starting

-----------------------------------------------------------------------------
(***************************************************************************)
(* No session after its logout.                                            *)
(***************************************************************************)

\* A step in which nobody starts on a session, and only who holds one stores it.
LEMMA OverStays ==
  ASSUME Over, ended \subseteq ended', raced \subseteq raced', used \subseteq used',
         \A p \in Request : h'[p].pc \in ForSession =>
           /\ h[p].pc \in ForSession /\ h'[p].sid = h[p].sid
           /\ h'[p].pc \in {"revoke", "send"} => h[p].sid \in ended'
           /\ h[p].pc \in {"revoke", "send"} => h'[p].pc \in {"revoke", "send"},
         \A s \in Session : Live(s)' =>
           \/ Live(s)
           \/ s \in used' \ used
           \/ \E p \in Request : Holds(p, s) /\ h[p].pc \in {"bind", "store"},
         \A s \in ended' : \/ s \in ended
                           \/ /\ s \in used /\ ~Live(s)'
                              /\ \E p \in Request :
                                   /\ Holds(p, s)
                                   /\ Holds(p, s)' => h'[p].pc \in {"revoke", "send"}
  PROVE  Over'
  <1>1. \A p \in Request : \A s : Holds(p, s)' => Holds(p, s)
    BY DEF Holds
  <1>2. \A p \in Request : \A s : Holds(p, s) => s \in used
    BY DEF Over, Holds
  <1>3. ASSUME NEW s \in Session PROVE OverFor(s)'
    <2> SUFFICES ASSUME s \notin raced' PROVE OverFor(s)'
      BY DEF OverFor
    <2>1. OverFor(s) /\ s \notin raced
      BY DEF Over
    <2>2. \A p, q \in Request : Holds(p, s) /\ Holds(q, s) => p = q
      BY <2>1 DEF OverFor
    <2>3. CASE s \in ended
      <3>1. /\ ~Live(s) /\ s \in used
            /\ \A p \in Request : Holds(p, s) => h[p].pc \in {"revoke", "send"}
        BY <2>1, <2>3 DEF OverFor, Over
      <3>2. ~Live(s)'
        BY <3>1
      <3>3. \A p \in Request : Holds(p, s)' => h'[p].pc \in {"revoke", "send"}
        BY <1>1, <3>1 DEF Holds
      <3> QED
        BY <1>1, <2>2, <3>2, <3>3 DEF OverFor
    <2>4. CASE s \in ended' \ ended
      <3>1. PICK p \in Request : Holds(p, s) /\ (Holds(p, s)' => h'[p].pc \in {"revoke", "send"})
        BY <2>4
      <3>2. \A q \in Request : Holds(q, s)' => q = p
        BY <1>1, <2>2, <3>1
      <3> QED
        BY <2>4, <3>1, <3>2 DEF OverFor
    <2>5. CASE s \notin ended'
      BY <1>1, <2>2, <2>5 DEF OverFor
    <2> QED
      BY <2>3, <2>4, <2>5
  <1>4. ended' \subseteq used' /\ \A s \in Session : Live(s)' => s \in used'
    BY <1>2 DEF Over
  <1>5. \A p \in Request : h'[p].pc \in ForSession =>
          /\ h'[p].sid \in used'
          /\ h'[p].pc \in {"revoke", "send"} => h'[p].sid \in ended'
    BY DEF Over
  <1> QED
    BY <1>3, <1>4, <1>5 DEF Over

\* Nobody who works on a session but the ones that did.
LEMMA HoldsStays ==
  ASSUME Inv, NEW r \in Request, Continues(r), NEW p \in Request, h'[p].pc \in ForSession
  PROVE  /\ h[p].pc \in ForSession /\ h'[p].sid = h[p].sid
         /\ p # r => h'[p] = h[p]
         /\ p = r => h'[r] # Idle
  BY DEF Continues, Idle, ForSession, ForLogin

\* A request that looks at something, reads its session again or gets a token.
LEMMA LooksKeepOver ==
  ASSUME Inv, Over, NEW r \in Request,
         Looks(r) \/ LogoutRead(r) \/ (\E t \in Token : Redeem(r, t) \/ Exchange(r, t))
  PROVE  Over'
  <1>1. /\ Continues(r) /\ UNCHANGED <<session, used, ended, raced>>
        /\ h'[r].pc \in ForSession =>
             (h'[r].pc \in {"revoke", "send"} <=> h[r].pc \in {"revoke", "send"})
    <2>1. CASE Looks(r)
      BY <2>1, LooksShape DEF Idle, ForSession
    <2>2. CASE LogoutRead(r)
      BY <2>2, LogoutReadShape DEF LogoutRead, redis, history
    <2>3. ASSUME NEW t \in Token, Redeem(r, t) \/ Exchange(r, t)
          PROVE  /\ Continues(r) /\ UNCHANGED <<session, used, ended, raced>>
                 /\ h'[r].pc \in ForSession =>
                      (h'[r].pc \in {"revoke", "send"} <=> h[r].pc \in {"revoke", "send"})
      BY <2>3, RedeemShape, ExchangeShape DEF Redeem, Exchange, redis, history, ForSession
    <2> QED
      BY <2>1, <2>2, <2>3
  <1>2. ASSUME NEW p \in Request, h'[p].pc \in ForSession
        PROVE  /\ h[p].pc \in ForSession /\ h'[p].sid = h[p].sid
               /\ h'[p].pc \in {"revoke", "send"} => h[p].sid \in ended'
               /\ h[p].pc \in {"revoke", "send"} => h'[p].pc \in {"revoke", "send"}
    <2>1. h[p].pc \in ForSession /\ h'[p].sid = h[p].sid /\ (p # r => h'[p] = h[p])
      BY <1>1, <1>2, HoldsStays
    <2> QED
      BY <1>1, <1>2, <2>1 DEF Over
  <1> QED
    BY <1>1, <1>2, OverStays DEF Live

\* A request that stores, drops or logs out of its session, and a callback that
\* creates one.
LEMMA StoresKeepOver ==
  ASSUME Inv, Over, NEW r \in Request,
         Store(r) \/ Drop(r) \/ LogoutDelete(r) \/ \E n \in Session : Create(r, n)
  PROVE  Over'
  <1>1. ASSUME Continues(r), h'[r].pc \in ForSession => h'[r].pc \notin {"revoke", "send"},
               h[r].pc \notin {"revoke", "send"}, NEW p \in Request, h'[p].pc \in ForSession
        PROVE  /\ h[p].pc \in ForSession /\ h'[p].sid = h[p].sid
               /\ h'[p].pc \in {"revoke", "send"} => h[p].sid \in ended
               /\ h[p].pc \in {"revoke", "send"} => h'[p].pc \in {"revoke", "send"}
    <2>1. h[p].pc \in ForSession /\ h'[p].sid = h[p].sid /\ (p # r => h'[p] = h[p])
      BY <1>1, HoldsStays
    <2> QED
      BY <1>1, <2>1 DEF Over
  <1>2. CASE Store(r)
    <2>1. UNCHANGED <<used, ended, raced>>
      BY <1>2 DEF Store, history
    <2>2. /\ Continues(r) /\ h'[r].pc = "account" /\ h[r].pc \in {"bind", "store"}
          /\ Holds(r, h[r].sid)
          /\ \A s \in Session : s # h[r].sid => session'[s] = session[s]
      BY <1>2, StoreShape DEF Holds, ForSession
    <2>3. \A s \in Session : Live(s)' =>
            Live(s) \/ \E p \in Request : Holds(p, s) /\ h[p].pc \in {"bind", "store"}
      BY <2>2 DEF Live
    <2> QED
      BY <1>1, <2>1, <2>2, <2>3, OverStays
  <1>3. CASE Drop(r)
    <2>1. UNCHANGED <<used, ended, raced>>
      BY <1>3 DEF Drop, history
    <2>2. /\ Continues(r) /\ h'[r] = Idle /\ h[r].pc = "drop"
          /\ \A s \in Session : session'[s] \in {session[s], NoSession}
      BY <1>3, DropShape
    <2>3. \A s \in Session : Live(s)' => Live(s)
      BY <2>2 DEF Live
    <2> QED
      BY <1>1, <2>1, <2>2, <2>3, OverStays DEF Idle, ForSession
  <1>4. CASE LogoutDelete(r)
    <2>1. UNCHANGED <<used, raced>>
      BY <1>4 DEF LogoutDelete
    <2>2. /\ Continues(r) /\ h[r].pc = "delete" /\ h[r].sid \in Session
          /\ h'[r] # Idle => h'[r].pc = "revoke"
          /\ ended' = ended \cup {h[r].sid} /\ session'[h[r].sid] = NoSession
          /\ \A s \in Session : session'[s] \in {session[s], NoSession}
      BY <1>4, LogoutDeleteShape
    <2>3. \A s \in Session : Live(s)' => Live(s)
      BY <2>2 DEF Live
    <2>4. /\ Holds(r, h[r].sid) /\ h[r].sid \in used
          /\ h'[r].pc \in ForSession => h'[r].pc \in {"revoke", "send"}
      BY <2>2 DEF Holds, Over, ForSession, Idle
    <2>5. ASSUME NEW p \in Request, h'[p].pc \in ForSession
          PROVE  /\ h[p].pc \in ForSession /\ h'[p].sid = h[p].sid
                 /\ h'[p].pc \in {"revoke", "send"} => h[p].sid \in ended'
                 /\ h[p].pc \in {"revoke", "send"} => h'[p].pc \in {"revoke", "send"}
      <3>1. h[p].pc \in ForSession /\ h'[p].sid = h[p].sid /\ (p # r => h'[p] = h[p])
        BY <2>2, <2>5, HoldsStays
      <3> QED
        BY <2>2, <3>1 DEF Over
    <2>6. ASSUME NEW s \in ended', s \notin ended
          PROVE  /\ s \in used /\ ~Live(s)'
                 /\ \E p \in Request :
                      /\ Holds(p, s)
                      /\ Holds(p, s)' => h'[p].pc \in {"revoke", "send"}
      <3>1. s = h[r].sid
        BY <2>2, <2>6
      <3>2. Holds(r, s) /\ (Holds(r, s)' => h'[r].pc \in {"revoke", "send"})
        BY <2>4, <3>1 DEF Holds
      <3>3. ~Live(s)'
        BY <2>2, <3>1 DEF Live
      <3> QED
        BY <2>4, <3>1, <3>2, <3>3
    <2> QED
      BY <2>1, <2>2, <2>3, <2>5, <2>6, OverStays
  <1>5. ASSUME NEW n \in Session, Create(r, n) PROVE Over'
    <2>1. UNCHANGED <<ended, raced>>
      BY <1>5 DEF Create
    <2>2. /\ Continues(r) /\ h'[r] = Idle /\ h[r].pc = "create"
          /\ n \notin used /\ used' = used \cup {n}
          /\ \A s \in Session : s # n => session'[s] = session[s]
      BY <1>5, CreateShape
    <2>3. \A s \in Session : Live(s)' => Live(s) \/ s \in used' \ used
      BY <2>2 DEF Live
    <2> QED
      BY <1>1, <2>1, <2>2, <2>3, OverStays DEF Idle, ForSession
  <1> QED
    BY <1>2, <1>3, <1>4, <1>5

\* A request that starts, on a session or on a login.
LEMMA StartsKeepOver ==
  ASSUME Inv, Over, NEW r \in Request,
         (\E s \in Session : Arrive(r, s)) \/ (\E c \in Code : Callback(r, c))
  PROVE  Over'
  <1>1. ASSUME NEW c \in Code, Callback(r, c) PROVE Over'
    <2>1. UNCHANGED <<session, used, ended>> /\ raced \subseteq raced'
      BY <1>1 DEF Callback, redis
    <2>2. h'[r].pc = "consume" /\ \A q \in Request \ {r} : h'[q] = h[q]
      BY <1>1, CallbackShape
    <2>3. \A p \in Request : h'[p].pc \in ForSession => h'[p] = h[p]
      BY <2>2 DEF ForSession
    <2>4. \A p \in Request : h[p].pc \in {"revoke", "send"} => h[p].sid \in ended
      BY DEF Over, ForSession
    <2> QED
      BY <2>1, <2>3, <2>4, OverStays DEF Live
  <1>2. ASSUME NEW s \in Session, Arrive(r, s) PROVE Over'
    <2>1. UNCHANGED <<session, used, ended>> /\ raced' = raced \cup ({s} \cap Taken(r))
      BY <1>2 DEF Arrive, redis
    <2>2. /\ Live(s) /\ h'[r].pc = "load" /\ h'[r].sid = s
          /\ \A q \in Request \ {r} : h'[q] = h[q]
      BY <1>2, ArriveShape
    <2>3. \A q \in Request \ {r} : Holds(q, s) => s \in raced'
      BY <2>1 DEF Holds, Taken
    <2>4. s \in used
      BY <2>2 DEF Over
    <2>5. ASSUME NEW u \in Session PROVE OverFor(u)'
      <3> SUFFICES ASSUME u \notin raced' PROVE OverFor(u)'
        BY DEF OverFor
      <3>1. OverFor(u) /\ u \notin raced /\ (Live(u)' <=> Live(u))
        BY <2>1 DEF Over, Live
      <3>2. CASE u = s
        <4>1. \A q \in Request : Holds(q, u)' => q = r
          BY <2>2, <2>3, <3>2 DEF Holds
        <4>2. u \notin ended
          BY <2>2, <3>1, <3>2 DEF OverFor
        <4> QED
          BY <2>1, <4>1, <4>2 DEF OverFor
      <3>3. CASE u # s
        <4>1. \A q \in Request : Holds(q, u)' => Holds(q, u) /\ h'[q] = h[q]
          BY <2>2, <3>3 DEF Holds
        <4> QED
          BY <2>1, <3>1, <4>1 DEF OverFor
      <3> QED
        BY <3>2, <3>3
    <2>6. \A p \in Request : h'[p].pc \in ForSession =>
            /\ h'[p].sid \in used'
            /\ h'[p].pc \in {"revoke", "send"} => h'[p].sid \in ended'
      BY <2>1, <2>2, <2>4 DEF Over
    <2>7. ended' \subseteq used' /\ \A u \in Session : Live(u)' => u \in used'
      BY <2>1 DEF Over, Live
    <2> QED
      BY <2>5, <2>6, <2>7 DEF Over
  <1> QED
    BY <1>1, <1>2
-----------------------------------------------------------------------------
(***************************************************************************)
(* Every token has one owner.                                              *)
(***************************************************************************)

\* A token that somebody has was issued.
LEMMA OwnedIsIssued ==
  ASSUME Inv, NEW t \in Token,
         (\E s \in Session : Owns(s, t)) \/ (\E p \in Request : Brings(p, t))
  PROVE  issuer[t] # None
  <1>1. \A rec : Home(rec) => issuer[rec.token] # None
    BY DEF Home
  <1>2. \A s \in Session : Live(s) => Home(session[s])
    BY DEF Inv, World
  <1>3. \A p \in Request : h[p].rec # NoSession => Home(h[p].rec)
    BY DEF Inv, Fits
  <1>4. \A p \in Request : h[p].pc \in {"admit", "create"} => h[p].rec # NoSession
    BY DEF Inv, Fits
  <1> QED
    BY <1>1, <1>2, <1>3, <1>4 DEF Owns, Brings

\* Who has a token had it, when only holders of a session store it and requests
\* keep their token or read the one of their session.
LEMMA OwnsStays ==
  ASSUME NEW s \in Session, NEW t \in Token,
         \/ session'[s] \in {session[s], NoSession}
         \/ \E p \in Request : /\ Holds(p, s) /\ h[p].rec # NoSession
                               /\ session'[s].token = h[p].rec.token,
         \A p \in Request : Holds(p, s)' =>
           \/ h'[p].rec = NoSession
           \/ Holds(p, s) /\ h[p].rec # NoSession /\ h'[p].rec.token = h[p].rec.token
           \/ Live(s) /\ h'[p].rec.token = session[s].token,
         Owns(s, t)'
  PROVE  Owns(s, t)
  <1>1. CASE Live(s)' /\ session'[s].token = t
    BY <1>1 DEF Owns, Live
  <1>2. ASSUME NEW p \in Request, Holds(p, s)', h'[p].rec # NoSession, h'[p].rec.token = t
        PROVE  Owns(s, t)
    BY <1>2 DEF Owns
  <1> QED
    BY <1>1, <1>2 DEF Owns

\* When nobody gets a token, every token keeps its owner.
LEMMA OwnersStay ==
  ASSUME OneOwner,
         \A t \in Token, s \in Session : Owns(s, t)' => Owns(s, t),
         \A t \in Token, p \in Request : Brings(p, t)' => Brings(p, t)
  PROVE  OneOwner'
  BY DEF OneOwner

\* The steps of a request that is under way and gets no token.
LEMMA StepsKeepOwner ==
  ASSUME Inv, NEW r \in Request,
         Looks(r) \/ LogoutRead(r) \/ Store(r) \/ Drop(r) \/ LogoutDelete(r)
  PROVE  /\ \A t \in Token, s \in Session : Owns(s, t)' => Owns(s, t)
         /\ \A t \in Token, p \in Request : Brings(p, t)' => Brings(p, t)
  <1>1. /\ Continues(r)
        /\ \A s \in Session : session'[s] \in {session[s], NoSession}
                              \/ (Store(r) /\ s = h[r].sid)
        /\ h'[r].pc \in ForSession =>
             \/ h'[r].rec.token = h[r].rec.token
             \/ h'[r].rec = session[h[r].sid] /\ h[r].sid \in Session
    <2>1. CASE Looks(r)
      BY <2>1, LooksShape DEF Idle, ForSession
    <2>2. CASE LogoutRead(r)
      BY <2>2, LogoutReadShape DEF LogoutRead, redis
    <2>3. CASE Store(r)
      BY <2>3, StoreShape
    <2>4. CASE Drop(r)
      BY <2>4, DropShape DEF Idle, ForSession
    <2>5. CASE LogoutDelete(r)
      BY <2>5, LogoutDeleteShape DEF Idle, ForSession
    <2> QED
      BY <2>1, <2>2, <2>3, <2>4, <2>5
  <1>2. Store(r) => /\ Holds(r, h[r].sid) /\ h[r].rec # NoSession
                    /\ session'[h[r].sid].token = h[r].rec.token
    BY StoreShape DEF Holds, ForSession
  <1>3. h[r].rec = NoSession /\ h'[r].pc \in ForSession => h'[r].rec = NoSession \/ LogoutRead(r)
    <2>1. CASE Looks(r)
      BY <2>1, LooksShape DEF Idle, ForSession
    <2>2. CASE Store(r)
      BY <2>2, <1>2
    <2>3. CASE Drop(r)
      BY <2>3, DropShape DEF Idle, ForSession
    <2>4. CASE LogoutDelete(r)
      BY <2>4, LogoutDeleteShape DEF Idle, ForSession
    <2> QED
      BY <2>1, <2>2, <2>3, <2>4
  <1>4. ASSUME NEW t \in Token, NEW s \in Session, Owns(s, t)' PROVE Owns(s, t)
    <2>1. \/ session'[s] \in {session[s], NoSession}
          \/ \E p \in Request : /\ Holds(p, s) /\ h[p].rec # NoSession
                                /\ session'[s].token = h[p].rec.token
      BY <1>1, <1>2
    <2>2. ASSUME NEW p \in Request, Holds(p, s)'
          PROVE  \/ h'[p].rec = NoSession
                 \/ Holds(p, s) /\ h[p].rec # NoSession /\ h'[p].rec.token = h[p].rec.token
                 \/ Live(s) /\ h'[p].rec.token = session[s].token
      <3>1. Holds(p, s) /\ (p # r => h'[p] = h[p])
        BY <1>1, <2>2, HoldsStays DEF Holds
      <3>2. CASE p # r
        BY <3>1, <3>2
      <3>3. CASE p = r /\ LogoutRead(r)
        <4>1. h'[p].rec = session[s]
          BY <3>1, <3>3, LogoutReadShape DEF Holds
        <4> QED
          BY <4>1 DEF Live
      <3>4. CASE p = r /\ ~LogoutRead(r)
        <4>1. h'[r].pc \in ForSession /\ h[r].sid = s
          BY <2>2, <3>1, <3>4 DEF Holds
        <4>2. CASE h[r].rec = NoSession
          BY <1>3, <3>4, <4>1, <4>2
        <4>3. CASE h[r].rec # NoSession
          BY <1>1, <3>1, <3>4, <4>1, <4>3 DEF Live
        <4> QED
          BY <4>2, <4>3
      <3> QED
        BY <3>2, <3>3, <3>4
    <2> QED
      BY <1>4, <2>1, <2>2, OwnsStays
  <1>5. ASSUME NEW t \in Token, NEW p \in Request, Brings(p, t)' PROVE Brings(p, t)
    <2>1. CASE p # r
      BY <1>1, <1>5, <2>1 DEF Continues, Brings
    <2>2. CASE p = r
      <3>1. h'[r].pc \in {"admit", "create"} /\ h'[r] # Idle
        BY <1>5, <2>2 DEF Brings, Idle
      <3>2. Looks(r)
        BY <3>1, StoreShape, DropShape, LogoutReadShape, LogoutDeleteShape
      <3> QED
        BY <1>5, <2>2, <3>1, <3>2, LooksShape DEF Brings
    <2> QED
      BY <2>1, <2>2
  <1> QED
    BY <1>4, <1>5

\* A request that starts has no token, or the one of its session.
LEMMA StartsKeepOwner ==
  ASSUME Inv, NEW r \in Request,
         (\E s \in Session : Arrive(r, s)) \/ (\E c \in Code : Callback(r, c))
  PROVE  /\ \A t \in Token, s \in Session : Owns(s, t)' => Owns(s, t)
         /\ \A t \in Token, p \in Request : Brings(p, t)' => Brings(p, t)
  <1>1. session' = session
    BY DEF Arrive, Callback, redis
  <1>2. /\ \A q \in Request \ {r} : h'[q] = h[q]
        /\ h'[r].pc \in {"load", "consume"}
        /\ h'[r].pc = "load" => Live(h'[r].sid) /\ h'[r].rec = session[h'[r].sid]
    BY ArriveShape, CallbackShape
  <1>3. ASSUME NEW t \in Token, NEW s \in Session, Owns(s, t)' PROVE Owns(s, t)
    <2>1. ASSUME NEW p \in Request, Holds(p, s)'
          PROVE  \/ h'[p].rec = NoSession
                 \/ Holds(p, s) /\ h[p].rec # NoSession /\ h'[p].rec.token = h[p].rec.token
                 \/ Live(s) /\ h'[p].rec.token = session[s].token
      BY <1>2, <2>1 DEF Holds, ForSession
    <2> QED
      BY <1>1, <1>3, <2>1, OwnsStays
  <1> QED
    BY <1>2, <1>3 DEF Brings

\* Requests that have the same record and place after a step around them.
LEMMA SameOwner ==
  ASSUME \A p \in Request : /\ h'[p].pc = h[p].pc /\ h'[p].sid = h[p].sid
                            /\ h'[p].rec = h[p].rec,
         \A s \in Session : session'[s] \in {session[s], NoSession}
  PROVE  /\ \A t \in Token, s \in Session : Owns(s, t)' => Owns(s, t)
         /\ \A t \in Token, p \in Request : Brings(p, t)' => Brings(p, t)
  BY DEF Owns, Brings, Holds, Live

\* A renewed session has a token nobody had.
LEMMA ExchangeOwner ==
  ASSUME Inv, OneOwner, NEW r \in Request, NEW n \in Token, Exchange(r, n)
  PROVE  /\ OneOwner'
         /\ \A t \in Token, s \in Session : Owns(s, t)' =>
              Owns(s, t) \/ (t = n /\ s = h[r].sid)
         /\ \A t \in Token, p \in Request : Brings(p, t)' => Brings(p, t)
  <1>1. /\ Continues(r) /\ h'[r].pc = "store" /\ h'[r].sid = h[r].sid
        /\ h'[r].rec.token = n /\ h[r].pc = "exchange"
    BY ExchangeShape
  <1>2. session' = session /\ issuer[n] = None
    BY DEF Exchange, redis, Mint
  <1>3. /\ \A s \in Session : ~Owns(s, n)
        /\ \A p \in Request : ~Brings(p, n)
    BY <1>2, OwnedIsIssued
  <1>4. ASSUME NEW t \in Token, NEW s \in Session, Owns(s, t)'
        PROVE  Owns(s, t) \/ (t = n /\ s = h[r].sid)
    <2>1. CASE Live(s)' /\ session'[s].token = t
      BY <1>2, <2>1 DEF Owns, Live
    <2>2. ASSUME NEW p \in Request, Holds(p, s)', h'[p].rec # NoSession, h'[p].rec.token = t
          PROVE  Owns(s, t) \/ (t = n /\ s = h[r].sid)
      BY <1>1, <2>2 DEF Owns, Holds, Continues
    <2> QED
      BY <1>4, <2>1, <2>2 DEF Owns
  <1>5. \A t \in Token, p \in Request : Brings(p, t)' => Brings(p, t)
    BY <1>1 DEF Brings, Continues
  <1>6. OneOwner'
    BY <1>3, <1>4, <1>5 DEF OneOwner
  <1> QED
    BY <1>4, <1>5, <1>6

\* So does a callback.
LEMMA RedeemOwner ==
  ASSUME Inv, OneOwner, NEW r \in Request, NEW n \in Token, Redeem(r, n)
  PROVE  /\ OneOwner'
         /\ \A t \in Token, s \in Session : Owns(s, t)' => Owns(s, t)
         /\ \A t \in Token, p \in Request : Brings(p, t)' => Brings(p, t) \/ t = n
  <1>1. Continues(r) /\ h'[r].pc = "admit" /\ h'[r].rec.token = n
    BY RedeemShape
  <1>2. session' = session /\ issuer[n] = None
    BY DEF Redeem, redis, Mint
  <1>3. /\ \A s \in Session : ~Owns(s, n)
        /\ \A p \in Request : ~Brings(p, n)
    BY <1>2, OwnedIsIssued
  <1>4. \A t \in Token, s \in Session : Owns(s, t)' => Owns(s, t)
    BY <1>1, <1>2 DEF Owns, Live, Holds, Continues, ForSession
  <1>5. \A t \in Token, p \in Request : Brings(p, t)' => Brings(p, t) \/ (t = n /\ p = r)
    BY <1>1 DEF Brings, Continues
  <1>6. OneOwner'
    BY <1>3, <1>4, <1>5 DEF OneOwner
  <1> QED
    BY <1>4, <1>5, <1>6

\* The token of a callback goes to the session it creates.
LEMMA CreateOwner ==
  ASSUME Inv, Over, OneOwner, NEW r \in Request, NEW n \in Session, Create(r, n)
  PROVE  /\ OneOwner'
         /\ \A t \in Token, s \in Session : Owns(s, t)' => Owns(s, t) \/ Brings(r, t)
         /\ \A t \in Token, p \in Request : Brings(p, t)' => Brings(p, t)
  <1>1. /\ Continues(r) /\ h'[r] = Idle /\ h[r].pc = "create"
        /\ n \notin used /\ session'[n] = h[r].rec
        /\ \A s \in Session \ {n} : session'[s] = session[s]
    BY CreateShape
  <1>2. \A t \in Token : ~Owns(n, t)
    BY <1>1 DEF Owns, Over, Holds
  <1>3. \A p \in Request : \A s : Holds(p, s)' => Holds(p, s) /\ h'[p] = h[p]
    BY <1>1, HoldsStays DEF Holds
  <1>4. ASSUME NEW t \in Token, NEW s \in Session, Owns(s, t)'
        PROVE  Owns(s, t) \/ (Brings(r, t) /\ s = n)
    <2>1. CASE Live(s)' /\ session'[s].token = t
      BY <1>1, <2>1 DEF Owns, Live, Brings
    <2>2. ASSUME NEW p \in Request, Holds(p, s)', h'[p].rec # NoSession, h'[p].rec.token = t
          PROVE  Owns(s, t)
      BY <1>3, <2>2 DEF Owns
    <2> QED
      BY <1>4, <2>1, <2>2 DEF Owns
  <1>5. \A t \in Token, p \in Request : Brings(p, t)' => Brings(p, t) /\ p # r
    BY <1>1 DEF Brings, Continues, Idle
  <1>6. OneOwner'
    <2> SUFFICES ASSUME NEW t \in Token
                 PROVE  /\ \A s, u \in Session : Owns(s, t)' /\ Owns(u, t)' => s = u
                        /\ \A p \in Request, s \in Session : ~(Brings(p, t)' /\ Owns(s, t)')
                        /\ \A p, q \in Request : Brings(p, t)' /\ Brings(q, t)' => p = q
      BY DEF OneOwner
    <2>1. /\ \A s, u \in Session : Owns(s, t) /\ Owns(u, t) => s = u
          /\ \A p \in Request, s \in Session : ~(Brings(p, t) /\ Owns(s, t))
          /\ \A p, q \in Request : Brings(p, t) /\ Brings(q, t) => p = q
      BY DEF OneOwner
    <2> QED
      BY <1>4, <1>5, <2>1
  <1> QED
    BY <1>4, <1>5, <1>6
-----------------------------------------------------------------------------
(***************************************************************************)
(* Calm times.                                                             *)
(***************************************************************************)

\* What is spent stays so.
LEMMA SpentStays ==
  ASSUME ended \subseteq ended', raced \subseteq raced', NEW s, Spent(s)
  PROVE  Spent(s)'
  BY DEF Spent

\* A renewal is under way until it is stored.
LEMMA RenewingStays ==
  ASSUME NEW r \in Request, \A q \in Request \ {r} : h'[q] = h[q], h[r].pc # "store",
         NEW s, NEW t, Renewing(s, t)
  PROVE  Renewing(s, t)'
  <1>1. PICK p \in Request : Holds(p, s) /\ h[p].pc = "store" /\ h[p].rec.token # t
    BY DEF Renewing
  <1>2. h'[p] = h[p]
    BY <1>1
  <1> QED
    BY <1>1, <1>2 DEF Renewing, Holds

\* A step in which the tokens that are taken no longer were renewed or spent.
LEMMA SoundStays ==
  ASSUME Sound, ended \subseteq ended', raced \subseteq raced',
         \A p \in Request, t \in Token : Brings(p, t)' => Brings(p, t) \/ t \in valid',
         \A s \in Session, t \in Token : Owns(s, t)' => Owns(s, t) \/ t \in valid',
         \A t \in Token : t \in valid /\ t \notin valid' =>
           /\ \A p \in Request : ~Brings(p, t)
           /\ \A s \in Session : Owns(s, t)' => Spent(s)' \/ Renewing(s, t)',
         \A s \in Session, t \in Token : Owns(s, t)' /\ Renewing(s, t) =>
           Spent(s)' \/ Renewing(s, t)',
         \A p \in Request : h'[p].pc = "drop" =>
           (h[p].pc = "drop" /\ h'[p].sid = h[p].sid) \/ Spent(h[p].sid)'
  PROVE  Sound'
  <1>1. \A s : Spent(s) => Spent(s)'
    BY SpentStays
  <1>2. \A p \in Request, t \in Token : Brings(p, t)' => t \in valid'
    BY DEF Sound
  <1>3. \A s \in Session, t \in Token :
          Owns(s, t)' /\ t \notin valid' => Spent(s)' \/ Renewing(s, t)'
    BY <1>1 DEF Sound
  <1>4. ASSUME NEW p \in Request, h'[p].pc = "drop" PROVE Spent(h[p].sid)'
    <2>1. CASE Spent(h[p].sid)'
      BY <2>1
    <2>2. CASE h[p].pc = "drop" /\ h'[p].sid = h[p].sid
      BY <2>2 DEF Sound, Spent
    <2> QED
      BY <1>4, <2>1, <2>2
  <1> QED
    BY <1>2, <1>3, <1>4 DEF Sound

\* In calm times a context is accepted.
LEMMA CalmAccepts ==
  ASSUME Inv, Settled, NEW rec, Home(rec)
  PROVE  Accepts(rec.bound) /\ Legacy \in Config /\ Effective(rec.bound) = Legacy
  BY OidcAssumption DEF Inv, Settled, Home, Record, Accepts, Effective, Setting

\* In calm times only a refused exchange makes a request drop its session, and then
\* the session is spent.
LEMMA CalmDrops ==
  ASSUME Inv, Over, Settled, Sound, NEW r \in Request, Looks(r), calm', h'[r].pc = "drop"
  PROVE  Spent(h[r].sid)
  <1> DEFINE q == h[r]
  <1>1. RequestTypes /\ SettingTypes /\ Fits(q)
    BY DEF Inv
  <1>2. \A pc \in ForSession \cup ForLogin \cup {"idle"} :
          Goto(r, pc) \/ Load(r, pc) => h'[r].pc = pc
    BY <1>1, GotoFields, LoadFields
  <1>3. ~Finish(r)
    BY <1>1 DEF RequestTypes, Finish, Idle
  <1>4. ~(Consume(r) \/ Connect(r) \/ RedeemRefused(r) \/ Admit(r) \/ Served(r)
          \/ LogoutLoad(r) \/ LogoutRevoke(r))
    BY <1>2, <1>3 DEF Consume, Connect, RedeemRefused, Admit, Served, LogoutLoad,
                      LogoutRevoke, ForSession, ForLogin
  <1>5. ~(ProviderFails(r) \/ Crash(r))
    BY DEF ProviderFails, Crash
  <1>6. ~LoadContext(r)
    <2> SUFFICES ASSUME LoadContext(r) PROVE FALSE
      OBVIOUS
    <2>1. Home(q.rec)
      BY <1>1 DEF LoadContext, Fits, ForSession
    <2>2. Accepts(q.rec.bound)
      BY <2>1, CalmAccepts
    <2> QED
      BY <1>2, <2>2 DEF LoadContext, ForSession
  <1>7. ~Guard(r)
    <2> SUFFICES ASSUME Guard(r) PROVE FALSE
      OBVIOUS
    <2>1. ~Disabled(q.ctx)
      BY <1>1 DEF Guard, Fits, InContext, Settled, Disabled
    <2> QED
      BY <1>2, <2>1 DEF Guard, ForSession
  <1>8. ~ResolveAccount(r)
    <2> SUFFICES ASSUME ResolveAccount(r) PROVE FALSE
      OBVIOUS
    <2>1. account[q.rec.bound] # "disabled"
      BY <1>1 DEF ResolveAccount, Fits, InContext, Settled
    <2> QED
      BY <1>2, <2>1 DEF ResolveAccount, ForSession
  <1>9. ExchangeRefused(r)
    BY <1>4, <1>5, <1>6, <1>7, <1>8 DEF Looks
  <1> DEFINE old == q.rec.token
             s == q.sid
  <1>10. /\ q.pc = "exchange" /\ q.rec # NoSession /\ Home(q.rec) /\ s \in Session
         /\ Effective(q.rec.bound) = q.ctx /\ old \in Token
    BY <1>1, <1>9 DEF ExchangeRefused, Fits, ForSession, InContext, Home, Record
  <1>11. old \notin valid /\ Owns(s, old) /\ Holds(r, s)
    BY <1>9, <1>10 DEF ExchangeRefused, Home, Owns, Holds, ForSession
  <1>12. Spent(s) \/ Renewing(s, old)
    BY <1>10, <1>11 DEF Sound
  <1>13. Renewing(s, old) => Spent(s)
    <2> SUFFICES ASSUME Renewing(s, old) PROVE s \in raced /\ SingleUse
      BY DEF Spent
    <2>1. PICK p \in Request : Holds(p, s) /\ h[p].pc = "store"
      BY DEF Renewing
    <2>2. p # r
      BY <1>10, <2>1
    <2>3. OverFor(s)
      BY <1>10 DEF Over
    <2> QED
      BY <1>11, <2>1, <2>2, <2>3 DEF OverFor, Renewing
  <1> QED
    BY <1>12, <1>13

\* The steps of a request that is under way and gets no token keep what is sound.
LEMMA StepsKeepSound ==
  ASSUME Inv, Over, OneOwner, Settled, Sound, NEW r \in Request, calm',
         Looks(r) \/ LogoutRead(r) \/ Drop(r) \/ LogoutDelete(r)
  PROVE  Sound'
  <1>1. /\ Continues(r) /\ ended \subseteq ended' /\ raced' = raced
        /\ h[r].pc # "store"
        /\ h'[r].pc = "drop" => h'[r].sid = h[r].sid /\ Spent(h[r].sid)
        /\ valid' \subseteq valid
    <2>1. CASE Looks(r)
      <3>1. Continues(r) /\ UNCHANGED <<ended, raced>> /\ valid' \subseteq valid
        BY <2>1, LooksShape
      <3>2. h[r].pc # "store"
        BY <2>1 DEF Looks, Consume, Connect, RedeemRefused, Admit, LoadContext, Guard,
                    ExchangeRefused, ResolveAccount, Served, LogoutLoad, LogoutRevoke,
                    ProviderFails, Crash
      <3>3. h'[r].pc = "drop" => h'[r].sid = h[r].sid
        BY <3>1 DEF Continues, Idle
      <3> QED
        BY <2>1, <3>1, <3>2, <3>3, CalmDrops
    <2>2. CASE LogoutRead(r)
      BY <2>2, LogoutReadShape DEF LogoutRead, history, provider
    <2>3. CASE Drop(r)
      <3>1. h'[r].pc # "drop" /\ Continues(r) /\ h[r].pc = "drop"
        BY <2>3, DropShape DEF Idle
      <3> QED
        BY <2>3, <3>1 DEF Drop, history, provider
    <2>4. CASE LogoutDelete(r)
      <3>1. h'[r].pc # "drop"
        BY <2>4, LogoutDeleteShape DEF Idle
      <3> QED
        BY <2>4, <3>1, LogoutDeleteShape DEF LogoutDelete, provider
    <2> QED
      BY <2>1, <2>2, <2>3, <2>4
  <1>2. /\ \A t \in Token, s \in Session : Owns(s, t)' => Owns(s, t)
        /\ \A t \in Token, p \in Request : Brings(p, t)' => Brings(p, t)
    BY StepsKeepOwner
  <1>3. \A s : Spent(s) => Spent(s)'
    BY <1>1, SpentStays
  <1>4. ASSUME NEW t \in Token, t \in valid, t \notin valid'
        PROVE  /\ \A p \in Request : ~Brings(p, t)
               /\ \A s \in Session : Owns(s, t)' => Spent(s)' \/ Renewing(s, t)'
    <2>1. LogoutRevoke(r) /\ t = h[r].rec.token
      BY <1>4 DEF Looks, Consume, Connect, RedeemRefused, Admit, LoadContext, Guard,
                  ExchangeRefused, ResolveAccount, Served, LogoutLoad, LogoutRevoke,
                  ProviderFails, Crash, LogoutRead, Drop, LogoutDelete, provider
    <2>2. h[r].pc = "send" /\ h[r].rec # NoSession /\ h[r].sid \in Session
      BY <2>1 DEF LogoutRevoke, Inv, Fits, ForSession
    <2>3. Owns(h[r].sid, t) /\ Spent(h[r].sid)
      BY <2>1, <2>2 DEF Owns, Holds, Over, ForSession, Spent
    <2> QED
      BY <1>2, <1>3, <2>2, <2>3 DEF OneOwner
  <1>5. \A s, t : Renewing(s, t) => Renewing(s, t)'
    BY <1>1, RenewingStays DEF Continues
  <1>6. ASSUME NEW p \in Request, h'[p].pc = "drop"
        PROVE  (h[p].pc = "drop" /\ h'[p].sid = h[p].sid) \/ Spent(h[p].sid)'
    BY <1>1, <1>3, <1>6 DEF Continues, Spent
  <1> QED
    BY <1>1, <1>2, <1>4, <1>5, <1>6, SoundStays

\* A request that stores the token it has ends the renewal; another one that would
\* still hold the old token had worked on the session at the same time.
LEMMA StoreKeepsSound ==
  ASSUME Inv, Over, Sound, NEW r \in Request, Store(r)
  PROVE  Sound'
  <1> DEFINE n == h[r].sid
             new == h[r].rec.token
  <1>1. /\ Continues(r) /\ h[r].pc \in {"bind", "store"} /\ n \in Session
        /\ h'[r].pc = "account" /\ h'[r].sid = n /\ h[r].rec # NoSession
        /\ h'[r].rec.token = new /\ session'[n].token = new
        /\ \A s \in Session \ {n} : session'[s] = session[s]
    BY StoreShape
  <1>2. UNCHANGED <<ended, raced, valid>>
    BY DEF Store, history, provider
  <1>3. /\ \A t \in Token, s \in Session : Owns(s, t)' => Owns(s, t)
        /\ \A t \in Token, p \in Request : Brings(p, t)' => Brings(p, t)
    BY StepsKeepOwner
  <1>4. Holds(r, n)
    BY <1>1 DEF Holds, ForSession
  <1>5. ASSUME NEW s \in Session, NEW t \in Token, Owns(s, t)', Renewing(s, t)
        PROVE  Spent(s)' \/ Renewing(s, t)'
    <2>1. PICK p \in Request : Holds(p, s) /\ h[p].pc = "store" /\ h[p].rec.token # t
      BY <1>5 DEF Renewing
    <2>2. CASE p # r
      <3>1. h'[p] = h[p]
        BY <1>1, <2>2 DEF Continues
      <3> QED
        BY <1>5, <2>1, <3>1 DEF Renewing, Holds
    <2>3. CASE p = r
      <3>1. s = n /\ new # t
        BY <2>1, <2>3 DEF Holds
      <3>2. PICK q \in Request : Holds(q, s)' /\ h'[q].rec.token = t
        BY <1>1, <1>5, <3>1 DEF Owns
      <3>3. q # r /\ Holds(q, s)
        BY <1>1, <3>1, <3>2 DEF Holds, Continues
      <3>4. s \in raced
        BY <1>4, <3>1, <3>3 DEF Over, OverFor
      <3> QED
        BY <1>2, <1>5, <3>4 DEF Spent, Renewing
    <2> QED
      BY <2>2, <2>3
  <1>6. \A p \in Request : h'[p].pc = "drop" => h[p].pc = "drop" /\ h'[p].sid = h[p].sid
    BY <1>1 DEF Continues
  <1> QED
    BY <1>2, <1>3, <1>5, <1>6, SoundStays

\* A request that starts changes no token.
LEMMA StartsKeepSound ==
  ASSUME Inv, Sound, NEW r \in Request,
         (\E s \in Session : Arrive(r, s)) \/ (\E c \in Code : Callback(r, c))
  PROVE  Sound'
  <1>1. valid' = valid /\ ended' = ended /\ raced \subseteq raced'
    BY DEF Arrive, Callback, provider
  <1>2. /\ \A q \in Request \ {r} : h'[q] = h[q]
        /\ h'[r].pc \in {"load", "consume"} /\ h[r].pc = "idle"
    BY ArriveShape, CallbackShape
  <1>3. /\ \A t \in Token, s \in Session : Owns(s, t)' => Owns(s, t)
        /\ \A t \in Token, p \in Request : Brings(p, t)' => Brings(p, t)
    BY StartsKeepOwner
  <1>4. \A s, t : Renewing(s, t) => Renewing(s, t)'
    BY <1>2, RenewingStays
  <1>5. \A p \in Request : h'[p].pc = "drop" => h[p].pc = "drop" /\ h'[p].sid = h[p].sid
    BY <1>2
  <1> QED
    BY <1>1, <1>3, <1>4, <1>5, SoundStays

\* A renewal replaces the token of the session; a callback brings one.
LEMMA MintsKeepSound ==
  ASSUME Inv, OneOwner, Sound, NEW r \in Request, NEW n \in Token,
         Exchange(r, n) \/ Redeem(r, n)
  PROVE  Sound'
  <1>1. UNCHANGED <<ended, raced>> /\ n \in valid' /\ issuer[n] = None
    BY DEF Exchange, Redeem, history, Mint
  <1>2. /\ Continues(r) /\ h'[r].pc \in {"store", "admit"}
        /\ h[r].pc \in {"exchange", "redeem"}
    BY ExchangeShape, RedeemShape
  <1>3. /\ \A t \in Token, s \in Session : Owns(s, t)' => Owns(s, t) \/ t = n
        /\ \A t \in Token, p \in Request : Brings(p, t)' => Brings(p, t) \/ t = n
    BY ExchangeOwner, RedeemOwner
  <1>4. \A s, t : Renewing(s, t) => Renewing(s, t)'
    BY <1>2, RenewingStays DEF Continues
  <1>5. \A p \in Request : h'[p].pc = "drop" => h[p].pc = "drop" /\ h'[p].sid = h[p].sid
    BY <1>2 DEF Continues
  <1>6. ASSUME NEW t \in Token, t \in valid, t \notin valid'
        PROVE  /\ \A p \in Request : ~Brings(p, t)
               /\ \A s \in Session : Owns(s, t)' => Spent(s)' \/ Renewing(s, t)'
    <2>1. Exchange(r, n) /\ SingleUse /\ t = h[r].rec.token /\ t # n
      BY <1>1, <1>6 DEF Exchange, Redeem, Mint
    <2>2. /\ h'[r].pc = "store" /\ h'[r].sid = h[r].sid /\ h'[r].rec.token = n
          /\ h[r].pc = "exchange"
      BY <2>1, ExchangeShape
    <2>3. h[r].rec # NoSession /\ h[r].sid \in Session
      BY <2>2 DEF Inv, Fits, ForSession
    <2>4. Owns(h[r].sid, t)
      BY <2>1, <2>2, <2>3 DEF Owns, Holds, ForSession
    <2>5. \A s \in Session : Owns(s, t)' => s = h[r].sid
      BY <1>3, <2>1, <2>3, <2>4 DEF OneOwner
    <2>6. \A s : s = h[r].sid => Renewing(s, t)'
      BY <2>1, <2>2 DEF Renewing, Holds, ForSession
    <2> QED
      BY <2>3, <2>4, <2>5, <2>6 DEF OneOwner
  <1> QED
    BY <1>1, <1>3, <1>4, <1>5, <1>6, SoundStays

\* The session a callback creates has a token the provider takes.
LEMMA CreateKeepsSound ==
  ASSUME Inv, Over, OneOwner, Sound, NEW r \in Request, NEW n \in Session, Create(r, n)
  PROVE  Sound'
  <1>1. UNCHANGED <<ended, raced, valid>>
    BY DEF Create, provider
  <1>2. Continues(r) /\ h'[r] = Idle /\ h[r].pc = "create"
    BY CreateShape
  <1>3. /\ \A t \in Token, s \in Session : Owns(s, t)' => Owns(s, t) \/ Brings(r, t)
        /\ \A t \in Token, p \in Request : Brings(p, t)' => Brings(p, t)
    BY CreateOwner
  <1>4. \A t \in Token : Brings(r, t) => t \in valid'
    BY <1>1 DEF Sound
  <1>5. \A s, t : Renewing(s, t) => Renewing(s, t)'
    BY <1>2, RenewingStays DEF Continues
  <1>6. \A p \in Request : h'[p].pc = "drop" => h[p].pc = "drop" /\ h'[p].sid = h[p].sid
    BY <1>2 DEF Continues, Idle
  <1> QED
    BY <1>1, <1>3, <1>4, <1>5, <1>6, SoundStays
\* Nobody changes a setting or disables an account, and what is started is of the
\* configuration there is.
LEMMA SettledStays ==
  ASSUME Settled, Inv, settings' = settings,
         \A k \in Config : account'[k] = "disabled" => account[k] = "disabled",
         \A x \in Login : login'[x] = login[x] \/ login'[x].asked = Legacy,
         \A t \in Token : issuer'[t] = issuer[t] \/ issuer'[t] = Legacy
  PROVE  Settled'
  BY DEF Settled

\* In calm times every token is of the imported configuration.
LEMMA MintsKeepSettled ==
  ASSUME Inv, Settled, NEW r \in Request, NEW n \in Token,
         Exchange(r, n) \/ Redeem(r, n)
  PROVE  Settled'
  <1> DEFINE q == h[r]
  <1>1. /\ UNCHANGED <<settings, account, login>>
        /\ issuer' = [issuer EXCEPT ![n] = q.ctx] /\ q.pc \in {"exchange", "redeem"}
    BY DEF Exchange, Redeem, Mint, redis
  <1>2. q.ctx = Legacy
    <2>1. CASE q.pc = "exchange"
      <3>1. Home(q.rec) /\ Effective(q.rec.bound) = q.ctx
        BY <2>1 DEF Inv, Fits, ForSession, InContext
      <3> QED
        BY <3>1, CalmAccepts
    <2>2. CASE q.pc = "redeem"
      <3>1. /\ q.code \in Code /\ code[q.code] # None
            /\ q.ctx = login[code[q.code]].asked
        BY <2>2 DEF Inv, Fits, ForLogin, InContext
      <3> QED
        BY <3>1 DEF Inv, World, Settled
    <2> QED
      BY <1>1, <2>1, <2>2
  <1>3. \A t \in Token : issuer'[t] = issuer[t] \/ issuer'[t] = Legacy
    BY <1>1, <1>2 DEF Inv, ProviderTypes
  <1> QED
    BY <1>1, <1>3, SettledStays

\* So is every account a request registers, and every login that starts.
LEMMA StepsKeepSettled ==
  ASSUME Inv, Settled, NEW r \in Request, LoginNext(r) \/ RequestNext(r), calm'
  PROVE  Settled'
  <1>1. CASE \E n \in Token : Exchange(r, n) \/ Redeem(r, n)
    BY <1>1, MintsKeepSettled
  <1>2. CASE Admit(r) \/ ResolveAccount(r)
    <2> DEFINE k == IF h[r].pc = "admit" THEN h[r].ctx ELSE h[r].rec.bound
    <2>1. /\ UNCHANGED <<settings, login, issuer>>
          /\ account' = [account EXCEPT ![k] = IF account[k] = "none" THEN "active"
                                                                      ELSE account[k]]
      BY <1>2 DEF Admit, ResolveAccount, redis, provider
    <2>2. \A j \in Config : account'[j] = "disabled" => account[j] = "disabled"
      BY <2>1 DEF Inv, SettingTypes
    <2> QED
      BY <2>1, <2>2, SettledStays
  <1>3. CASE ~(\E n \in Token : Exchange(r, n) \/ Redeem(r, n))
             /\ ~(Admit(r) \/ ResolveAccount(r))
    <2>1. UNCHANGED <<settings, account, login, issuer>>
      BY <1>3 DEF LoginNext, RequestNext, Callback, Consume, Connect, RedeemRefused,
        Create, Arrive, LoadContext, Store, Guard, ExchangeRefused, Drop, Served,
        LogoutRead, LogoutDelete, LogoutLoad, LogoutRevoke, ProviderFails, Crash,
        redis, provider
    <2> QED
      BY <2>1, SettledStays
  <1> QED
    BY <1>1, <1>2, <1>3

-----------------------------------------------------------------------------
(***************************************************************************)
(* The invariant of sessions and their tokens.                             *)
(***************************************************************************)

More == Once /\ Over /\ OneOwner /\ Quiet

\* Calm times end, and never begin again.
LEMMA CalmEnds ==
  ASSUME Inv, [Next]_vars
  PROVE  calm' => calm
  BY DEF Inv, HistoryTypes, Next, EnvNext, LoginNext, RequestNext, vars,
    LoginStart, LoginExpires, Authorize, SaveSettings, SwitchAccount, AccessExpires,
    SessionExpires, Callback, Consume, Connect, Redeem, RedeemRefused, Admit, Create,
    Arrive, LoadContext, Store, Guard, Exchange, ExchangeRefused, ResolveAccount, Drop,
    Served, LogoutRead, LogoutDelete, LogoutLoad, LogoutRevoke, ProviderFails, Crash

\* The steps of a request, for the logins.
LEMMA RequestsKeepOnce ==
  ASSUME Inv, Once, NEW r \in Request, LoginNext(r) \/ RequestNext(r)
  PROVE  Once'
  <1>1. CASE \E c \in Code : Callback(r, c)
    BY <1>1, CallbackKeepsOnce
  <1>2. CASE \E n \in Session : Create(r, n)
    BY <1>2, CreateKeepsOnce
  <1>3. CASE Looks(r)
    <2>1. Continues(r) /\ UNCHANGED <<login, born, used, raced>> /\ stored' \subseteq stored
      BY <1>3, LooksShape
    <2>2. code' = code
      BY <1>3 DEF Looks, Consume, Connect, RedeemRefused, Admit, LoadContext, Guard,
                  ExchangeRefused, ResolveAccount, Served, LogoutLoad, LogoutRevoke,
                  ProviderFails, Crash, provider
    <2>3. h[r].pc = "consume" => Consume(r) \/ (Crash(r) /\ Finish(r))
      BY <1>3 DEF Looks, Consume, Connect, RedeemRefused, Admit, LoadContext, Guard,
                  ExchangeRefused, ResolveAccount, Served, LogoutLoad, LogoutRevoke,
                  ProviderFails, Crash
    <2>4. Consume(r) => ~(code[h[r].code] \in stored')
      BY DEF Consume, Consumed
    <2>5. Finish(r) => h'[r] = Idle
      BY FinishShape
    <2> QED
      BY <2>1, <2>2, <2>3, <2>4, <2>5, StepsKeepOnce
  <1>4. CASE \/ Store(r) \/ Drop(r) \/ LogoutRead(r) \/ LogoutDelete(r)
             \/ \E t \in Token : Exchange(r, t) \/ Redeem(r, t)
    <2>1. Continues(r) /\ h[r].pc # "consume"
      BY <1>4, StoreShape, DropShape, LogoutReadShape, LogoutDeleteShape, ExchangeShape,
         RedeemShape
    <2>2. UNCHANGED <<login, stored, code, born, used, raced>>
      BY <1>4 DEF Store, Drop, LogoutRead, LogoutDelete, Exchange, Redeem, redis,
                  provider, history
    <2> QED
      BY <2>1, <2>2, StepsKeepOnce
  <1>5. CASE \E s \in Session : Arrive(r, s)
    <2>1. UNCHANGED <<redis, provider, born, used>> /\ raced \subseteq raced'
      BY <1>5 DEF Arrive
    <2>2. h'[r].pc = "load" /\ \A q \in Request \ {r} : h'[q] = h[q]
      BY <1>5, ArriveShape
    <2>3. \A p \in Request, x \in Login : On(p, x)' => On(p, x) /\ h'[p] = h[p]
      BY <2>1, <2>2 DEF On, ForLogin, provider
    <2> QED
      BY <2>1, <2>3, OnceStays DEF redis
  <1> QED
    BY <1>1, <1>2, <1>3, <1>4, <1>5 DEF LoginNext, RequestNext, Looks

\* The steps of a request, for the sessions and their tokens.
LEMMA RequestsKeepMore ==
  ASSUME Inv, More, NEW r \in Request, LoginNext(r) \/ RequestNext(r), calm' => calm
  PROVE  More'
  <1>1. Once'
    BY RequestsKeepOnce DEF More
  <1>2. Over'
    BY LooksKeepOver, StoresKeepOver, StartsKeepOver DEF More, LoginNext, RequestNext, Looks
  <1>3. OneOwner'
    BY StepsKeepOwner, StartsKeepOwner, OwnersStay, ExchangeOwner, RedeemOwner, CreateOwner
    DEF More, LoginNext, RequestNext, Looks
  <1>4. ASSUME calm' PROVE Settled' /\ Sound'
    <2>1. Settled /\ Sound
      BY <1>4 DEF More, Quiet
    <2>2. Settled'
      BY <1>4, <2>1, StepsKeepSettled
    <2>3. Sound'
      BY <1>4, <2>1, StepsKeepSound, StoreKeepsSound, StartsKeepSound, MintsKeepSound,
         CreateKeepsSound DEF More, LoginNext, RequestNext, Looks
    <2> QED
      BY <2>2, <2>3
  <1> QED
    BY <1>1, <1>2, <1>3, <1>4 DEF More, Quiet

\* What happens around the requests, and a step in which nothing happens.
LEMMA SurroundingsKeepMore ==
  ASSUME Inv, More, EnvNext \/ UNCHANGED vars, calm' => calm
  PROVE  More'
  <1>1. \A p \in Request : /\ h'[p].pc = h[p].pc /\ h'[p].sid = h[p].sid
                           /\ h'[p].rec = h[p].rec /\ h'[p].code = h[p].code
    <2>1. CASE \E v \in Setting : SaveSettings(v)
      BY <2>1 DEF SaveSettings, Inv, RequestTypes, RequestState
    <2>2. CASE \E k \in Config, st \in {"active", "disabled"} : SwitchAccount(k, st)
      BY <2>2 DEF SwitchAccount, Inv, RequestTypes, RequestState
    <2>3. CASE h' = h
      BY <2>3
    <2> QED
      BY <2>1, <2>2, <2>3 DEF EnvNext, LoginStart, LoginExpires, Authorize,
         AccessExpires, SessionExpires, vars
  <1>2. /\ UNCHANGED <<born, used, ended, raced, valid, issuer>>
        /\ \A s \in Session : session'[s] \in {session[s], NoSession}
    BY DEF EnvNext, LoginStart, LoginExpires, Authorize, SaveSettings, SwitchAccount,
       AccessExpires, SessionExpires, redis, provider, history, vars, Inv, RedisTypes
  <1>3. \A c \in Code : code[c] # None => code'[c] = code[c]
    BY DEF EnvNext, LoginStart, LoginExpires, Authorize, SaveSettings, SwitchAccount,
       AccessExpires, SessionExpires, redis, provider, history, vars, Inv, ProviderTypes
  <1>4. /\ \A x \in Login : login[x] # NoLogin => login'[x] = login[x]
        /\ \A x \in stored' : x \in stored \/ (login[x] = NoLogin /\ login'[x] # NoLogin)
    <2>1. ASSUME NEW y \in Login, LoginStart(y)
          PROVE  /\ \A x \in Login : login[x] # NoLogin => login'[x] = login[x]
                 /\ \A x \in stored' : x \in stored \/ (login[x] = NoLogin /\ login'[x] # NoLogin)
      <3> DEFINE new == [asked |-> settings, bound |-> settings]
      <3>1. /\ login' = [login EXCEPT ![y] = new] /\ stored' = stored \cup {y}
            /\ login[y] = NoLogin /\ settings # None
        BY <2>1 DEF LoginStart
      <3>2. new # NoLogin
        BY <3>1 DEF NoLogin
      <3> QED
        BY <3>1, <3>2 DEF Inv, RedisTypes
    <2>2. CASE login' = login /\ stored' \subseteq stored
      BY <2>2
    <2> QED
      BY <2>1, <2>2 DEF EnvNext, LoginExpires, Authorize, SaveSettings, SwitchAccount,
         AccessExpires, SessionExpires, redis, vars
  <1>5. Once'
    <2>1. ASSUME NEW p \in Request, NEW x \in Login, On(p, x)'
          PROVE  On(p, x) /\ h'[p].pc = h[p].pc
      <3>1. h[p].pc \in ForLogin /\ code'[h[p].code] = x
        BY <1>1, <2>1 DEF On
      <3>2. h[p].code \in Code /\ code[h[p].code] # None
        BY <3>1 DEF Inv, Fits
      <3> QED
        BY <1>1, <1>3, <3>1, <3>2 DEF On
    <2> QED
      BY <1>2, <1>4, <2>1, OnceStays DEF More
  <1>6. Over'
    <2>1. \A s \in Session : Live(s)' => Live(s)
      BY <1>2 DEF Live
    <2>2. \A p \in Request : h[p].pc \in {"revoke", "send"} => h[p].sid \in ended
      BY DEF More, Over, ForSession
    <2> QED
      BY <1>1, <1>2, <2>1, <2>2, OverStays DEF More
  <1>7. /\ \A t \in Token, s \in Session : Owns(s, t)' => Owns(s, t)
        /\ \A t \in Token, p \in Request : Brings(p, t)' => Brings(p, t)
    BY <1>1, <1>2, SameOwner
  <1>8. OneOwner'
    BY <1>7, OwnersStay DEF More
  <1>9. ASSUME calm' PROVE Settled' /\ Sound'
    <2>1. Settled /\ Sound
      BY <1>9 DEF More, Quiet
    <2>2. \A s, t : Renewing(s, t) => Renewing(s, t)'
      BY <1>1 DEF Renewing, Holds
    <2>3. Sound'
      BY <1>1, <1>2, <1>7, <2>1, <2>2, SoundStays
    <2>4. settings' = settings /\ account' = account
      BY <1>9 DEF EnvNext, LoginStart, LoginExpires, Authorize, SaveSettings,
         SwitchAccount, AccessExpires, SessionExpires, vars
    <2>5. \A x \in Login : login'[x] = login[x] \/ login'[x].asked = Legacy
      <3>1. ASSUME NEW y \in Login, LoginStart(y)
            PROVE  \A x \in Login : login'[x] = login[x] \/ login'[x].asked = Legacy
        BY <2>1, <3>1 DEF LoginStart, Settled, Inv, RedisTypes
      <3>2. CASE login' = login
        BY <3>2
      <3> QED
        BY <3>1, <3>2 DEF EnvNext, LoginExpires, Authorize, SaveSettings, SwitchAccount,
           AccessExpires, SessionExpires, redis, vars
    <2>6. Settled'
      BY <1>2, <2>1, <2>4, <2>5, SettledStays
    <2> QED
      BY <2>3, <2>6
  <1> QED
    BY <1>5, <1>6, <1>8, <1>9 DEF More, Quiet

\* At the start nobody works on anything, and every old session has its own token.
LEMMA InitMore == Init => More
  <1> SUFFICES ASSUME Init PROVE More
    OBVIOUS
  <1>1. Inv
    BY InitInv
  <1>2. \A p \in Request : h[p].pc = "idle"
    BY DEF Init, Idle
  <1>3. \A s \in Session : Live(s) =>
          /\ s \in used /\ s \in DOMAIN OldToken
          /\ session[s].token = OldToken[s] /\ OldToken[s] \in valid
    BY DEF Init, Live, Old
  <1>4. Once
    <2>1. \A x \in stored : login[x] # NoLogin
      BY OidcAssumption DEF Init, NoLogin
    <2>2. \A s \in used : born[s] = None
      BY OidcAssumption DEF Init
    <2> QED
      BY <1>2, <2>1, <2>2, Absent DEF Once, Started, OnceFor, On, ForLogin
  <1>5. Over
    BY <1>2, <1>3 DEF Init, Over, OverFor, Holds, ForSession
  <1>6. \A s, t : Owns(s, t) <=> Live(s) /\ session[s].token = t
    BY <1>2 DEF Owns, Holds, ForSession
  <1>7. \A p \in Request : \A t : ~Brings(p, t)
    BY <1>2 DEF Brings
  <1>8. OneOwner
    BY <1>3, <1>6, <1>7, OidcAssumption DEF OneOwner
  <1>9. ASSUME calm PROVE Settled /\ Sound
    <2>1. settings = Legacy /\ \A k \in Config : account[k] # "disabled"
      BY <1>9 DEF Init
    <2>2. Settled
      BY <2>1 DEF Settled, Init
    <2>3. Sound
      BY <1>2, <1>3, <1>6, <1>7 DEF Sound
    <2> QED
      BY <2>2, <2>3
  <1> QED
    BY <1>4, <1>5, <1>8, <1>9 DEF More, Quiet

\* No step breaks it.
LEMMA MoreInductive == Inv /\ More /\ [Next]_vars => More'
  <1> SUFFICES ASSUME Inv, More, [Next]_vars PROVE More'
    OBVIOUS
  <1>1. calm' => calm
    BY CalmEnds
  <1> QED
    BY <1>1, RequestsKeepMore, SurroundingsKeepMore DEF Next

\* Both invariants always hold.
LEMMA AlwaysMore == Spec => [](Inv /\ More)
  BY InitInv, InitMore, InvInductive, MoreInductive, PTL DEF Spec

\* A session that was logged out is not stored again, unless two requests worked on
\* it at once.
THEOREM LogoutHolds == Spec => []LogoutEnds
  <1>1. Inv /\ More => LogoutEnds
    BY DEF More, Over, OverFor, LogoutEnds, Inv, HistoryTypes
  <1> QED
    BY <1>1, AlwaysMore, PTL

\* A login leads to one session, unless two callbacks worked on it at once.
THEOREM StateHolds == Spec => []StateUsedOnce
  <1>1. Inv /\ More => StateUsedOnce
    <2> SUFFICES ASSUME Inv, More, NEW s \in used, NEW t \in used, born[s] = born[t],
                        born[s] \notin raced \cup {None}
                 PROVE  s = t
      BY DEF StateUsedOnce
    <2>1. born[s] \in Login
      BY DEF Inv, HistoryTypes
    <2> QED
      BY <2>1 DEF More, Once, OnceFor
  <1> QED
    BY <1>1, AlwaysMore, PTL

\* In calm times a user only loses a session by a logout, or because two requests
\* spent its refresh token at once.
LEMMA StayStep ==
  ASSUME Inv, More, [Next]_vars, calm', NEW s \in Session, Live(s), session'[s] = NoSession
  PROVE  s \in ended' \/ (SingleUse /\ s \in raced)
  <1>1. calm
    BY CalmEnds
  <1>2. session' # session
    BY DEF Live
  <1>3. PICK r \in Request : Store(r) \/ Drop(r) \/ LogoutDelete(r) \/ \E n \in Session : Create(r, n)
    BY <1>2 DEF Next, EnvNext, LoginNext, RequestNext, vars, redis,
       LoginStart, LoginExpires, Authorize, SaveSettings, SwitchAccount, AccessExpires,
       SessionExpires, Callback, Consume, Connect, Redeem, RedeemRefused, Admit,
       Arrive, LoadContext, Guard, Exchange, ExchangeRefused, ResolveAccount,
       Served, LogoutRead, LogoutLoad, LogoutRevoke, ProviderFails, Crash
  <1>4. CASE Store(r)
    BY <1>4, StoreShape DEF Live
  <1>5. CASE Drop(r)
    <2>1. h[r].pc = "drop" /\ s = h[r].sid /\ UNCHANGED <<ended, raced>>
      BY <1>5, DropShape DEF Live, Drop, history
    <2> QED
      BY <1>1, <2>1 DEF More, Quiet, Sound, Spent
  <1>6. CASE LogoutDelete(r)
    BY <1>6, LogoutDeleteShape DEF Live
  <1>7. ASSUME NEW n \in Session, Create(r, n) PROVE FALSE
    <2>1. h[r].pc = "create" /\ session'[n] = h[r].rec
          /\ \A u \in Session \ {n} : session'[u] = session[u]
      BY <1>7, CreateShape
    <2>2. h[r].rec # NoSession
      BY <2>1 DEF Inv, Fits
    <2> QED
      BY <2>1, <2>2 DEF Live
  <1> QED
    BY <1>3, <1>4, <1>5, <1>6, <1>7

\* The same, as a property of the specification.
THEOREM StaysIn == Spec => UserStaysIn
  <1>1. Inv /\ More /\ [Next]_vars =>
          [calm' => \A s \in Session :
             Live(s) /\ session'[s] = NoSession => s \in ended' \/ (SingleUse /\ s \in raced)]_vars
    BY StayStep
  <1> QED
    BY <1>1, AlwaysMore, PTL DEF Spec, UserStaysIn
=============================================================================
