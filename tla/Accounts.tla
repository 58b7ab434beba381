------------------------------ MODULE Accounts ------------------------------
(***************************************************************************)
(* Local accounts: the users table, what administrators do to it (API and  *)
(* command line), password logins, the sessions they leave in Redis with   *)
(* their index per user, and the check of every authenticated request.     *)
(*                                                                         *)
(* Every statement or Redis command the code awaits separately is a step   *)
(* of its own.  A failed login leaves no state here: LoginLimiter counts   *)
(* it.  Roles of intranet accounts change through the same updateAccess;   *)
(* their sessions are in OidcSessions.                                     *)
(***************************************************************************)
EXTENDS Naturals

CONSTANTS
  User,       \* rows the users table may hold
  Session,    \* the opaque ids sessions get
  Client,     \* browsers
  Admin,      \* administrative operations that may run at once
  None,       \* no user, no session
  Faults,     \* "abort": a process dies or loses its database or Redis
  MaxResets,  \* bound: password resets of one user
  MaxOffs,    \* bound: deactivations of one user
  MaxHash     \* bound: passwords a user has had

ASSUME AccountsAssumption ==
  /\ None \notin User \cup Session \cup Admin
  /\ MaxResets \in Nat /\ MaxOffs \in Nat /\ MaxHash \in Nat

VARIABLES
  \* the users table
  role, status, version, hash, must,
  locker,     \* the operation that holds the advisory lock 420002
  \* Redis
  session,    \* the session stored under an id
  index,      \* auth:local:user-sessions of each user
  \* processes
  op,         \* administrative operations
  client,     \* the request of each browser
  cookie,     \* the session each browser holds
  \* history
  used,       \* ids already drawn
  resets,     \* resets of each user's password
  offs        \* deactivations of each user

table   == <<role, status, version, hash, must>>
redis   == <<session, index>>
history == <<used, resets, offs>>
vars == <<table, locker, redis, op, client, cookie, history>>

-----------------------------------------------------------------------------
Roles    == {"admin", "operator"}
Statuses == {"active", "disabled"}

\* What a session says, and when its password was checked.
SessionRecord == [user : User, version : Nat, resets : Nat, offs : Nat]
NoSession == [user |-> None, version |-> 0, resets |-> 0, offs |-> 0]

IdleOp == [pc |-> "idle", user |-> None, role |-> "keep", status |-> "keep",
           ids |-> {}, targets |-> {}]
OpState ==
  [pc : {"idle", "decide", "write", "list", "delete", "unindex"},
   user : User \cup {None}, role : Roles \cup {"keep"},
   status : Statuses \cup {"keep"}, ids : SUBSET Session, targets : SUBSET Session]

\* rec is the session a request read, or the one a login is about to store;
\* the other fields are the account row a password change started from.
IdleClient == [pc |-> "idle", sid |-> None, rec |-> NoSession,
               hash |-> 0, version |-> 0, resets |-> 0]
ClientState ==
  [pc : {"idle", "forget", "set", "index", "account", "serve", "swap", "drop"},
   sid : Session \cup {None}, rec : SessionRecord \cup {NoSession},
   hash : Nat, version : Nat, resets : Nat]

TableTypes ==
  /\ role \in [User -> Roles \cup {"none"}]
  /\ status \in [User -> Statuses]
  /\ version \in [User -> Nat] /\ hash \in [User -> Nat]
  /\ must \in [User -> BOOLEAN]
  /\ locker \in Admin \cup {None}
RedisTypes ==
  /\ session \in [Session -> SessionRecord \cup {NoSession}]
  /\ index \in [User -> SUBSET Session]
OpTypes == op \in [Admin -> OpState]
ClientTypes ==
  /\ client \in [Client -> ClientState]
  /\ cookie \in [Client -> Session \cup {None}]
HistoryTypes ==
  /\ used \subseteq Session
  /\ resets \in [User -> Nat] /\ offs \in [User -> Nat]

TypeOK == TableTypes /\ RedisTypes /\ OpTypes /\ ClientTypes /\ HistoryTypes

\* The table as the migration leaves it: any accounts, all administrators.
Init ==
  /\ role \in [User -> {"none", "admin"}]
  /\ status \in [User -> Statuses]
  /\ version = [u \in User |-> 0]
  /\ hash = [u \in User |-> 0]
  /\ must = [u \in User |-> FALSE]
  /\ locker = None
  /\ session = [s \in Session |-> NoSession]
  /\ index = [u \in User |-> {}]
  /\ op = [a \in Admin |-> IdleOp]
  /\ client = [c \in Client |-> IdleClient]
  /\ cookie = [c \in Client |-> None]
  /\ used = {}
  /\ resets = [u \in User |-> 0]
  /\ offs = [u \in User |-> 0]

-----------------------------------------------------------------------------
(***************************************************************************)
(* updateAccess: one transaction under an advisory lock.                   *)
(***************************************************************************)
ActiveAdmins == {u \in User : role[u] = "admin" /\ status[u] = "active"}
Live(s) == session[s] # NoSession
\* Sessions of a user that some browser was given.
Given(u) == {s \in Session : Live(s) /\ session[s].user = u
                             /\ \E c \in Client : cookie[c] = s}

\* pg_advisory_xact_lock(420002), before any row is read.
LockFree == locker = None

AccessLock(a, u, r, st) ==
  /\ op[a].pc = "idle"
  /\ LockFree
  /\ r # "keep" \/ st # "keep"
  /\ locker' = a
  /\ op' = [op EXCEPT ![a] = [IdleOp EXCEPT !.pc = "decide", !.user = u,
                                            !.role = r, !.status = st]]
  /\ UNCHANGED <<table, redis, client, cookie, history>>

\* A field the request leaves out keeps its value.
After(new, old) == IF new = "keep" THEN old ELSE new

\* Whether the change takes an active administrator away.
Removes(o) ==
  /\ o.user \in ActiveAdmins
  /\ After(o.role, role[o.user]) # "admin" \/ After(o.status, status[o.user]) = "disabled"

\* UserNotFoundError or LastActiveAdminError roll back; else the update follows.
Mut_CountsDisabled(o) == \E u \in User \ {o.user} : role[u] = "admin"
AnotherAdmin(o) == ActiveAdmins \ {o.user} # {}

AccessDecide(a) ==
  /\ op[a].pc = "decide"
  /\ IF role[op[a].user] # "none" /\ (Removes(op[a]) => AnotherAdmin(op[a]))
       THEN /\ op' = [op EXCEPT ![a] = [op[a] EXCEPT !.pc = "write"]]
            /\ UNCHANGED locker
       ELSE /\ op' = [op EXCEPT ![a] = IdleOp]
            /\ locker' = None
  /\ UNCHANGED <<table, redis, client, cookie, history>>

\* The update and its commit, which releases the locks.  A deactivation goes on
\* to revoke the sessions of the user.
AccessWrite(a) ==
  LET u == op[a].user
      off == op[a].status = "disabled" IN
  /\ op[a].pc = "write"
  /\ off => offs[u] < MaxOffs
  /\ role' = [role EXCEPT ![u] = After(op[a].role, role[u])]
  /\ status' = [status EXCEPT ![u] = After(op[a].status, status[u])]
  /\ locker' = None
  /\ op' = [op EXCEPT ![a] =
              IF off THEN [op[a] EXCEPT !.pc = "list", !.targets = Given(u)] ELSE IdleOp]
  /\ offs' = [offs EXCEPT ![u] = IF off THEN offs[u] + 1 ELSE offs[u]]
  /\ UNCHANGED <<version, hash, must, redis, client, cookie, used, resets>>

\* The account is created: insert under the unique username.
CreateUser(a, u, r, change) ==
  /\ op[a].pc = "idle"
  /\ role[u] = "none"
  /\ role' = [role EXCEPT ![u] = r]
  /\ status' = [status EXCEPT ![u] = "active"]
  /\ must' = [must EXCEPT ![u] = change]
  /\ UNCHANGED <<version, hash, locker, redis, op, client, cookie, history>>

\* updatePassword: one statement that also raises credential_version.
NextVersion(u) == version[u] + 1

\* A reset by an administrator (must change) or by the command line (must not).
ResetPassword(a, u, change) ==
  /\ op[a].pc = "idle"
  /\ role[u] # "none"
  /\ resets[u] < MaxResets /\ hash[u] < MaxHash
  /\ hash' = [hash EXCEPT ![u] = hash[u] + 1]
  /\ version' = [version EXCEPT ![u] = NextVersion(u)]
  /\ must' = [must EXCEPT ![u] = change]
  /\ resets' = [resets EXCEPT ![u] = resets[u] + 1]
  /\ op' = [op EXCEPT ![a] = [IdleOp EXCEPT !.pc = "list", !.user = u,
                                            !.targets = Given(u)]]
  /\ UNCHANGED <<role, status, locker, redis, client, cookie, used, offs>>

-----------------------------------------------------------------------------
(***************************************************************************)
(* revokeLocalUserSessions: SMEMBERS, DEL, SREM.                           *)
(***************************************************************************)
\* SMEMBERS: every session of the user.
Mut_ActiveOnly(u) == IF status[u] = "active" THEN index[u] ELSE {}
Members(u) == index[u]

RevokeList(a) ==
  LET ids == Members(op[a].user) IN
  /\ op[a].pc = "list"
  /\ op' = [op EXCEPT ![a] =
              IF ids = {} THEN IdleOp ELSE [op[a] EXCEPT !.pc = "delete", !.ids = ids]]
  /\ UNCHANGED <<table, locker, redis, client, cookie, history>>

\* The session keys of a set of ids are gone.
Dropped(ids) == [s \in Session |-> IF s \in ids THEN NoSession ELSE session[s]]

RevokeDelete(a) ==
  /\ op[a].pc = "delete"
  /\ session' = Dropped(op[a].ids)
  /\ op' = [op EXCEPT ![a] = [op[a] EXCEPT !.pc = "unindex"]]
  /\ UNCHANGED <<table, locker, index, client, cookie, history>>

\* Only what was read leaves the index: a session indexed meanwhile stays.
Mut_ForgetIndex(o) == {}
Remaining(o) == index[o.user] \ o.ids

RevokeUnindex(a) ==
  /\ op[a].pc = "unindex"
  /\ index' = [index EXCEPT ![op[a].user] = Remaining(op[a])]
  /\ op' = [op EXCEPT ![a] = IdleOp]
  /\ UNCHANGED <<table, locker, session, client, cookie, history>>

\* The operation ends early; an open transaction is rolled back.
OpAbort(a) ==
  /\ "abort" \in Faults
  /\ op[a].pc # "idle"
  /\ op' = [op EXCEPT ![a] = IdleOp]
  /\ locker' = IF locker = a THEN None ELSE locker
  /\ UNCHANGED <<table, redis, client, cookie, history>>

-----------------------------------------------------------------------------
(***************************************************************************)
(* POST /api/auth/local/login.                                             *)
(***************************************************************************)

\* The right password for the row as findByUsername read it, which was active.
LoginVerified(c, u) ==
  /\ client[c].pc = "idle"
  /\ role[u] # "none" /\ status[u] = "active"
  /\ client' = [client EXCEPT ![c] = [IdleClient EXCEPT !.pc = "forget",
        !.rec = [user |-> u, version |-> version[u],
                 resets |-> resets[u], offs |-> offs[u]]]]
  /\ UNCHANGED <<table, locker, redis, op, cookie, history>>

\* deleteSession of the session the browser came with.
LoginForget(c) ==
  /\ client[c].pc = "forget"
  /\ session' = Dropped({cookie[c]})
  /\ client' = [client EXCEPT ![c] = [client[c] EXCEPT !.pc = "set"]]
  /\ UNCHANGED <<table, locker, index, op, cookie, history>>

LoginSet(c, s) ==
  /\ client[c].pc = "set"
  /\ s \notin used
  /\ used' = used \cup {s}
  /\ session' = [session EXCEPT ![s] = client[c].rec]
  /\ client' = [client EXCEPT ![c] = [client[c] EXCEPT !.pc = "index", !.sid = s]]
  /\ UNCHANGED <<table, locker, index, op, cookie, resets, offs>>

\* SADD; the answer gives the browser its cookie.
LoginIndex(c) ==
  LET u == client[c].rec.user IN
  /\ client[c].pc = "index"
  /\ index' = [index EXCEPT ![u] = index[u] \cup {client[c].sid}]
  /\ cookie' = [cookie EXCEPT ![c] = client[c].sid]
  /\ client' = [client EXCEPT ![c] = IdleClient]
  /\ UNCHANGED <<table, locker, session, op, history>>

-----------------------------------------------------------------------------
(***************************************************************************)
(* requireAuthentication and what it lets through.                         *)
(***************************************************************************)
\* getSession.
RequestSession(c) ==
  /\ client[c].pc = "idle"
  /\ cookie[c] # None
  /\ Live(cookie[c])
  /\ client' = [client EXCEPT ![c] = [IdleClient EXCEPT !.pc = "account",
                                        !.sid = cookie[c], !.rec = session[cookie[c]]]]
  /\ UNCHANGED <<table, locker, redis, op, cookie, history>>

\* resolveAccount, and the check of the row it returns.
Mut_IndexIsEnough(rec) == status[rec.user] = "active"
Admits(rec) == /\ version[rec.user] = rec.version
               /\ status[rec.user] = "active"

RequestAccount(c) ==
  LET rec == client[c].rec IN
  /\ client[c].pc = "account"
  /\ client' = [client EXCEPT ![c] =
                  IF Admits(rec)
                    THEN [client[c] EXCEPT !.pc = "serve", !.hash = hash[rec.user],
                            !.version = version[rec.user], !.resets = resets[rec.user]]
                    ELSE [client[c] EXCEPT !.pc = "drop"]]
  /\ UNCHANGED <<table, locker, redis, op, cookie, history>>

\* deleteSession: of a refused request, or of a logout.
RequestDrop(c) ==
  /\ client[c].pc \in {"drop", "serve"}
  /\ session' = Dropped({client[c].sid})
  /\ client' = [client EXCEPT ![c] = IdleClient]
  /\ cookie' = [cookie EXCEPT ![c] = None]
  /\ UNCHANGED <<table, locker, index, op, history>>

\* Any other request, or a wrong current password.
RequestServed(c) ==
  /\ client[c].pc = "serve"
  /\ client' = [client EXCEPT ![c] = IdleClient]
  /\ UNCHANGED <<table, locker, redis, op, cookie, history>>

\* changeOwnPassword: the current password matches the row read before.
ChangeVerified(c) ==
  /\ client[c].pc = "serve"
  /\ client' = [client EXCEPT ![c] = [client[c] EXCEPT !.pc = "swap"]]
  /\ UNCHANGED <<table, locker, redis, op, cookie, history>>

\* changePasswordIfCurrent: 409 unless hash and version are still the ones read.
Mut_SwapById(k) == TRUE
Unchanged(k) == /\ hash[k.rec.user] = k.hash
                /\ version[k.rec.user] = k.version

ChangeSwap(c) ==
  LET u == client[c].rec.user IN
  /\ client[c].pc = "swap"
  /\ hash[u] < MaxHash
  /\ IF Unchanged(client[c])
       THEN /\ hash' = [hash EXCEPT ![u] = hash[u] + 1]
            /\ must' = [must EXCEPT ![u] = FALSE]
       ELSE UNCHANGED <<hash, must>>
  /\ client' = [client EXCEPT ![c] = IdleClient]
  /\ UNCHANGED <<role, status, version, locker, redis, op, cookie, history>>

\* Eight hours are over.
SessionExpires(s) ==
  /\ Live(s)
  /\ session' = Dropped({s})
  /\ UNCHANGED <<table, locker, index, op, client, cookie, history>>

\* The request dies; the browser keeps the cookie it had.
ClientAbort(c) ==
  /\ "abort" \in Faults
  /\ client[c].pc # "idle"
  /\ client' = [client EXCEPT ![c] = IdleClient]
  /\ UNCHANGED <<table, locker, redis, op, cookie, history>>

-----------------------------------------------------------------------------
OpNext(a) ==
  \/ \E u \in User, r \in Roles \cup {"keep"}, st \in Statuses \cup {"keep"} :
       AccessLock(a, u, r, st)
  \/ AccessDecide(a) \/ AccessWrite(a)
  \/ \E u \in User, r \in Roles, change \in BOOLEAN : CreateUser(a, u, r, change)
  \/ \E u \in User, change \in BOOLEAN : ResetPassword(a, u, change)
  \/ RevokeList(a) \/ RevokeDelete(a) \/ RevokeUnindex(a)
  \/ OpAbort(a)

ClientNext(c) ==
  \/ \E u \in User : LoginVerified(c, u)
  \/ LoginForget(c) \/ LoginIndex(c)
  \/ \E s \in Session : LoginSet(c, s)
  \/ RequestSession(c) \/ RequestAccount(c) \/ RequestDrop(c) \/ RequestServed(c)
  \/ ChangeVerified(c) \/ ChangeSwap(c)
  \/ ClientAbort(c)

Next ==
  \/ \E a \in Admin : OpNext(a)
  \/ \E c \in Client : ClientNext(c)
  \/ \E s \in Session : SessionExpires(s)

Spec == Init /\ [][Next]_vars

-----------------------------------------------------------------------------
(***************************************************************************)
(* Properties.                                                             *)
(***************************************************************************)

\* Story 4.2, criterion 6: whoever demotes or deactivates whom at the same
\* time, through the API or the command line, the last active administrator
\* is never taken away.
LastAdminStays == [][ActiveAdmins # {} => ActiveAdmins' # {}]_vars

\* A request passes the account check in this step.
Passes(c) == client[c].pc = "account" /\ client'[c].pc = "serve"

\* Story 4.2, criterion 10: after a reset no request passes with a session
\* whose password was checked before it, not even one stored after the
\* sessions were revoked.
ResetEndsSessions ==
  [][\A c \in Client : Passes(c) =>
       client[c].rec.resets = resets[client[c].rec.user]]_vars

\* Story 4.2, criterion 11: a password changes only by a reset, or by a change
\* that was checked against the account as the last reset left it.
ResetIsNotUndone ==
  [][\A u \in User :
       hash'[u] # hash[u] =>
         \/ resets'[u] # resets[u]
         \/ \E c \in Client : /\ client[c].pc = "swap" /\ client[c].rec.user = u
                              /\ client[c].resets = resets[u]]_vars

\* What revokeLocalUserSessions relies on: a live session that a browser holds
\* is in the index of its user, whatever revocations and logins overlapped.
LiveIsIndexed ==
  \A c \in Client :
    cookie[c] # None /\ Live(cookie[c]) => cookie[c] \in index[session[cookie[c]].user]

\* When a reset or a deactivation is done revoking, the sessions that browsers
\* held when it was committed are gone.
RevocationComplete ==
  [][\A a \in Admin :
       (RevokeList(a) \/ RevokeUnindex(a)) /\ op'[a].pc = "idle"
         => \A s \in op[a].targets : session'[s] = NoSession]_vars

\* Story 4.1, criterion 20: a deactivation ends the sessions of the user: none
\* whose password was checked before it is served after it.  TLC refutes this of
\* revokeLocalUserSessions, see "Findings" in README.md.
DeactivationEndsSessions ==
  [][\A c \in Client : Passes(c) =>
       client[c].rec.offs = offs[client[c].rec.user]]_vars
=============================================================================
