--------------------------- MODULE AccountsProofs ---------------------------
(***************************************************************************)
(* Proofs about Accounts: types, the last administrator, what a password   *)
(* reset ends, and the index of the sessions of a user.                    *)
(***************************************************************************)
EXTENDS Accounts, TLAPS

(***************************************************************************)
(* Types.                                                                  *)
(***************************************************************************)

\* What is under way concerns a user, and a request past its login has a record.
Bound ==
  /\ \A a \in Admin : op[a].pc # "idle" => op[a].user \in User
  /\ \A c \in Client : client[c].pc # "idle" => client[c].rec \in SessionRecord
  /\ \A c \in Client : client[c].pc = "index" => client[c].sid \in Session

Typed == TypeOK /\ Bound

\* None stands for no session, no operation and no user.
LEMMA Absent ==
  /\ NoSession \notin SessionRecord /\ NoSession.user = None
  /\ NoSession.version = 0 /\ NoSession.resets = 0
  BY AccountsAssumption DEF NoSession, SessionRecord

\* The idle states of operations and browsers.
LEMMA IdleTypes ==
  /\ IdleOp \in OpState /\ IdleOp.pc = "idle"
  /\ IdleClient \in ClientState /\ IdleClient.pc = "idle"
  <1>1. IdleOp \in OpState /\ IdleOp.pc = "idle"
    BY DEF IdleOp, OpState
  <1>2. IdleClient \in ClientState /\ IdleClient.pc = "idle"
    BY DEF IdleClient, ClientState
  <1> QED
    BY <1>1, <1>2

\* The initial state is well typed.
LEMMA InitTypes == Init => Typed
  <1> SUFFICES ASSUME Init PROVE Typed
    OBVIOUS
  <1>1. TableTypes
    BY DEF Init, TableTypes, Statuses, Roles
  <1>2. RedisTypes /\ HistoryTypes
    BY DEF Init, RedisTypes, HistoryTypes
  <1>3. OpTypes /\ ClientTypes /\ Bound
    BY IdleTypes DEF Init, OpTypes, ClientTypes, Bound
  <1> QED
    BY <1>1, <1>2, <1>3 DEF Typed, TypeOK

\* Deleting sessions keeps their type.
LEMMA DroppedType ==
  ASSUME RedisTypes, NEW ids
  PROVE  Dropped(ids) \in [Session -> SessionRecord \cup {NoSession}]
  BY DEF RedisTypes, Dropped

\* The next state of one operation.
LEMMA OpMoves ==
  ASSUME OpTypes, Bound, NEW a \in Admin, NEW next \in OpState,
         op' = [op EXCEPT ![a] = next],
         next.pc # "idle" => next.user \in User,
         UNCHANGED client
  PROVE  OpTypes' /\ Bound'
  BY DEF OpTypes, Bound

\* The next state of one browser.
LEMMA ClientMoves ==
  ASSUME ClientTypes, Bound, NEW c \in Client, NEW next \in ClientState,
         client' = [client EXCEPT ![c] = next],
         cookie' \in [Client -> Session \cup {None}],
         next.pc # "idle" => next.rec \in SessionRecord,
         next.pc = "index" => next.sid \in Session,
         UNCHANGED op
  PROVE  ClientTypes' /\ Bound'
  BY DEF ClientTypes, Bound

\* The steps of an administrative operation keep the types.
LEMMA OpStepTypes ==
  ASSUME Typed, NEW a \in Admin, OpNext(a)
  PROVE  Typed'
  <1> USE DEF Typed, TypeOK
  <1>1. op[a] \in OpState /\ (op[a].pc # "idle" => op[a].user \in User)
    BY DEF OpTypes, Bound
  <1>2. ASSUME NEW u \in User, NEW r \in Roles \cup {"keep"},
               NEW st \in Statuses \cup {"keep"}, AccessLock(a, u, r, st)
        PROVE  Typed'
    <2> DEFINE next == [IdleOp EXCEPT !.pc = "decide", !.user = u, !.role = r, !.status = st]
    <2>1. next \in OpState /\ next.user \in User
      BY <1>2, IdleTypes DEF OpState
    <2>2. OpTypes' /\ Bound'
      BY <1>2, <2>1, OpMoves DEF AccessLock
    <2> QED
      BY <1>2, <2>2 DEF AccessLock, TableTypes, RedisTypes, ClientTypes, HistoryTypes,
                        table, redis, history
  <1>3. ASSUME AccessDecide(a) PROVE Typed'
    <2> DEFINE write == [op[a] EXCEPT !.pc = "write"]
    <2>1. write \in OpState /\ write.user \in User
      BY <1>1, <1>3 DEF OpState, AccessDecide
    <2>2. PICK next \in {write, IdleOp} : op' = [op EXCEPT ![a] = next]
      BY <1>3 DEF AccessDecide
    <2>3. OpTypes' /\ Bound'
      BY <1>3, <2>1, <2>2, IdleTypes, OpMoves DEF AccessDecide
    <2> QED
      BY <1>3, <2>3 DEF AccessDecide, TableTypes, RedisTypes, ClientTypes, HistoryTypes,
                        table, redis, history
  <1>4. ASSUME AccessWrite(a) PROVE Typed'
    <2> DEFINE list == [op[a] EXCEPT !.pc = "list", !.targets = Given(op[a].user)]
    <2>1. op[a].user \in User
      BY <1>1, <1>4 DEF AccessWrite
    <2>2. Given(op[a].user) \subseteq Session
      BY DEF Given
    <2>3. list \in OpState /\ list.user \in User
      BY <1>1, <2>1, <2>2 DEF OpState
    <2>4. PICK next \in {list, IdleOp} : op' = [op EXCEPT ![a] = next]
      BY <1>4 DEF AccessWrite
    <2>5. OpTypes' /\ Bound'
      BY <1>4, <2>3, <2>4, IdleTypes, OpMoves DEF AccessWrite
    <2>6. /\ After(op[a].role, role[op[a].user]) \in Roles \cup {"none"}
          /\ After(op[a].status, status[op[a].user]) \in Statuses
      BY <1>1, <2>1 DEF After, OpState, TableTypes
    <2>7. TableTypes'
      BY <1>4, <2>6 DEF AccessWrite, TableTypes
    <2>8. HistoryTypes'
      BY <1>4, <2>1 DEF AccessWrite, HistoryTypes
    <2> QED
      BY <1>4, <2>5, <2>7, <2>8 DEF AccessWrite, RedisTypes, ClientTypes, redis
  <1>5. ASSUME NEW u \in User, NEW r \in Roles, NEW change \in BOOLEAN,
               CreateUser(a, u, r, change)
        PROVE  Typed'
    <2>1. TableTypes'
      BY <1>5 DEF CreateUser, TableTypes, Statuses
    <2> QED
      BY <1>5, <2>1 DEF CreateUser, RedisTypes, OpTypes, ClientTypes, HistoryTypes, Bound,
                        redis, history
  <1>6. ASSUME NEW u \in User, NEW change \in BOOLEAN, ResetPassword(a, u, change)
        PROVE  Typed'
    <2> DEFINE next == [IdleOp EXCEPT !.pc = "list", !.user = u, !.targets = Given(u)]
    <2>1. Given(u) \subseteq Session
      BY DEF Given
    <2>2. next \in OpState /\ next.user \in User
      BY <2>1, IdleTypes DEF OpState
    <2>3. OpTypes' /\ Bound'
      BY <1>6, <2>2, OpMoves DEF ResetPassword
    <2>4. TableTypes'
      BY <1>6 DEF ResetPassword, TableTypes, NextVersion
    <2>5. HistoryTypes'
      BY <1>6 DEF ResetPassword, HistoryTypes
    <2> QED
      BY <1>6, <2>3, <2>4, <2>5 DEF ResetPassword, RedisTypes, ClientTypes, redis
  <1>7. ASSUME RevokeList(a) PROVE Typed'
    <2> DEFINE delete == [op[a] EXCEPT !.pc = "delete", !.ids = Members(op[a].user)]
    <2>1. op[a].user \in User
      BY <1>1, <1>7 DEF RevokeList
    <2>2. Members(op[a].user) \subseteq Session
      BY <2>1 DEF Members, RedisTypes
    <2>3. delete \in OpState /\ delete.user \in User
      BY <1>1, <2>1, <2>2 DEF OpState
    <2>4. PICK next \in {delete, IdleOp} : op' = [op EXCEPT ![a] = next]
      BY <1>7 DEF RevokeList
    <2>5. OpTypes' /\ Bound'
      BY <1>7, <2>3, <2>4, IdleTypes, OpMoves DEF RevokeList
    <2> QED
      BY <1>7, <2>5 DEF RevokeList, TableTypes, RedisTypes, ClientTypes, HistoryTypes,
                        table, redis, history
  <1>8. ASSUME RevokeDelete(a) PROVE Typed'
    <2> DEFINE next == [op[a] EXCEPT !.pc = "unindex"]
    <2>1. next \in OpState /\ next.user = op[a].user
      BY <1>1 DEF OpState
    <2>2. op[a].user \in User
      BY <1>1, <1>8 DEF RevokeDelete
    <2>3. OpTypes' /\ Bound'
      BY <1>8, <2>1, <2>2, OpMoves DEF RevokeDelete
    <2>4. RedisTypes'
      BY <1>8, DroppedType DEF RevokeDelete, RedisTypes
    <2> QED
      BY <1>8, <2>3, <2>4 DEF RevokeDelete, TableTypes, ClientTypes, HistoryTypes,
                              table, history
  <1>9. ASSUME RevokeUnindex(a) PROVE Typed'
    <2>1. OpTypes' /\ Bound'
      BY <1>9, IdleTypes, OpMoves DEF RevokeUnindex
    <2>2. RedisTypes'
      BY <1>9 DEF RevokeUnindex, RedisTypes, Remaining
    <2> QED
      BY <1>9, <2>1, <2>2 DEF RevokeUnindex, TableTypes, ClientTypes, HistoryTypes,
                              table, history
  <1>10. ASSUME OpAbort(a) PROVE Typed'
    <2>1. OpTypes' /\ Bound'
      BY <1>10, IdleTypes, OpMoves DEF OpAbort
    <2> QED
      BY <1>10, <2>1 DEF OpAbort, TableTypes, RedisTypes, ClientTypes, HistoryTypes,
                         table, redis, history
  <1> QED
    BY <1>2, <1>3, <1>4, <1>5, <1>6, <1>7, <1>8, <1>9, <1>10 DEF OpNext

\* The steps of a browser's requests keep the types.
LEMMA ClientStepTypes ==
  ASSUME Typed, NEW c \in Client, ClientNext(c)
  PROVE  Typed'
  <1> USE DEF Typed, TypeOK
  <1>1. /\ client[c] \in ClientState
        /\ client[c].pc # "idle" => client[c].rec \in SessionRecord
        /\ cookie \in [Client -> Session \cup {None}]
    BY DEF ClientTypes, Bound
  <1>2. ASSUME NEW u \in User, LoginVerified(c, u) PROVE Typed'
    <2> DEFINE rec == [user |-> u, version |-> version[u],
                       resets |-> resets[u], offs |-> offs[u]]
               next == [IdleClient EXCEPT !.pc = "forget", !.rec = rec]
    <2>1. rec \in SessionRecord
      BY DEF SessionRecord, TableTypes, HistoryTypes
    <2>2. next \in ClientState /\ next.rec \in SessionRecord /\ next.pc = "forget"
      BY <2>1, IdleTypes DEF ClientState
    <2>3. ClientTypes' /\ Bound'
      BY <1>1, <1>2, <2>2, ClientMoves DEF LoginVerified
    <2> QED
      BY <1>2, <2>3 DEF LoginVerified, TableTypes, RedisTypes, OpTypes, HistoryTypes,
                        table, redis, history
  <1>3. ASSUME LoginForget(c) PROVE Typed'
    <2> DEFINE next == [client[c] EXCEPT !.pc = "set"]
    <2>1. next \in ClientState /\ next.rec \in SessionRecord /\ next.pc = "set"
      BY <1>1, <1>3 DEF ClientState, LoginForget
    <2>2. ClientTypes' /\ Bound'
      BY <1>1, <1>3, <2>1, ClientMoves DEF LoginForget
    <2>3. RedisTypes'
      BY <1>3, DroppedType DEF LoginForget, RedisTypes
    <2> QED
      BY <1>3, <2>2, <2>3 DEF LoginForget, TableTypes, OpTypes, HistoryTypes, table, history
  <1>4. ASSUME NEW s \in Session, LoginSet(c, s) PROVE Typed'
    <2> DEFINE next == [client[c] EXCEPT !.pc = "index", !.sid = s]
    <2>1. next \in ClientState /\ next.rec \in SessionRecord /\ next.sid \in Session
      BY <1>1, <1>4 DEF ClientState, LoginSet
    <2>2. ClientTypes' /\ Bound'
      BY <1>1, <1>4, <2>1, ClientMoves DEF LoginSet
    <2>3. RedisTypes'
      BY <1>1, <1>4 DEF LoginSet, RedisTypes
    <2> QED
      BY <1>4, <2>2, <2>3 DEF LoginSet, TableTypes, OpTypes, HistoryTypes, table
  <1>5. ASSUME LoginIndex(c) PROVE Typed'
    <2>1. client[c].sid \in Session
      BY <1>5 DEF LoginIndex, Bound
    <2>2. cookie' \in [Client -> Session \cup {None}]
      BY <1>1, <1>5, <2>1 DEF LoginIndex
    <2>3. ClientTypes' /\ Bound'
      BY <1>5, <2>2, IdleTypes, ClientMoves DEF LoginIndex
    <2>4. RedisTypes'
      BY <1>5, <2>1 DEF LoginIndex, RedisTypes
    <2> QED
      BY <1>5, <2>3, <2>4 DEF LoginIndex, TableTypes, OpTypes, HistoryTypes, table, history
  <1>6. ASSUME RequestSession(c) PROVE Typed'
    <2> DEFINE next == [IdleClient EXCEPT !.pc = "account", !.sid = cookie[c],
                                          !.rec = session[cookie[c]]]
    <2>1. cookie[c] \in Session /\ session[cookie[c]] \in SessionRecord
      BY <1>1, <1>6 DEF RequestSession, Live, RedisTypes
    <2>2. next \in ClientState /\ next.rec \in SessionRecord /\ next.pc = "account"
      BY <2>1, IdleTypes DEF ClientState
    <2>3. ClientTypes' /\ Bound'
      BY <1>1, <1>6, <2>2, ClientMoves DEF RequestSession
    <2> QED
      BY <1>6, <2>3 DEF RequestSession, TableTypes, RedisTypes, OpTypes, HistoryTypes,
                        table, redis, history
  <1>7. ASSUME RequestAccount(c) PROVE Typed'
    <2> DEFINE u == client[c].rec.user
               serve == [client[c] EXCEPT !.pc = "serve", !.hash = hash[u],
                                          !.version = version[u], !.resets = resets[u]]
               drop == [client[c] EXCEPT !.pc = "drop"]
    <2>1. client[c].rec \in SessionRecord /\ u \in User
      BY <1>1, <1>7 DEF RequestAccount, SessionRecord
    <2>2. hash[u] \in Nat /\ version[u] \in Nat /\ resets[u] \in Nat
      BY <2>1 DEF TableTypes, HistoryTypes
    <2>3. serve \in ClientState /\ serve.rec = client[c].rec /\ serve.pc = "serve"
      BY <1>1, <2>2 DEF ClientState
    <2>4. drop \in ClientState /\ drop.rec = client[c].rec /\ drop.pc = "drop"
      BY <1>1 DEF ClientState
    <2>5. PICK next \in {serve, drop} : client' = [client EXCEPT ![c] = next]
      BY <1>7 DEF RequestAccount
    <2>6. ClientTypes' /\ Bound'
      BY <1>1, <1>7, <2>1, <2>3, <2>4, <2>5, ClientMoves DEF RequestAccount
    <2> QED
      BY <1>7, <2>6 DEF RequestAccount, TableTypes, RedisTypes, OpTypes, HistoryTypes,
                        table, redis, history
  <1>8. ASSUME RequestDrop(c) PROVE Typed'
    <2>1. cookie' \in [Client -> Session \cup {None}]
      BY <1>1, <1>8 DEF RequestDrop
    <2>2. ClientTypes' /\ Bound'
      BY <1>8, <2>1, IdleTypes, ClientMoves DEF RequestDrop
    <2>3. RedisTypes'
      BY <1>8, DroppedType DEF RequestDrop, RedisTypes
    <2> QED
      BY <1>8, <2>2, <2>3 DEF RequestDrop, TableTypes, OpTypes, HistoryTypes, table, history
  <1>9. ASSUME RequestServed(c) \/ ClientAbort(c) PROVE Typed'
    <2>1. ClientTypes' /\ Bound'
      BY <1>1, <1>9, IdleTypes, ClientMoves DEF RequestServed, ClientAbort
    <2> QED
      BY <1>9, <2>1 DEF RequestServed, ClientAbort, TableTypes, RedisTypes, OpTypes,
                        HistoryTypes, table, redis, history
  <1>10. ASSUME ChangeVerified(c) PROVE Typed'
    <2> DEFINE next == [client[c] EXCEPT !.pc = "swap"]
    <2>1. next \in ClientState /\ next.rec \in SessionRecord /\ next.pc = "swap"
      BY <1>1, <1>10 DEF ClientState, ChangeVerified
    <2>2. ClientTypes' /\ Bound'
      BY <1>1, <1>10, <2>1, ClientMoves DEF ChangeVerified
    <2> QED
      BY <1>10, <2>2 DEF ChangeVerified, TableTypes, RedisTypes, OpTypes, HistoryTypes,
                         table, redis, history
  <1>11. ASSUME ChangeSwap(c) PROVE Typed'
    <2>1. ClientTypes' /\ Bound'
      BY <1>1, <1>11, IdleTypes, ClientMoves DEF ChangeSwap
    <2>2. client[c].rec.user \in User
      BY <1>1, <1>11 DEF ChangeSwap, SessionRecord
    <2>3. hash' \in [User -> Nat] /\ must' \in [User -> BOOLEAN]
      <3>1. CASE Unchanged(client[c])
        <4> DEFINE u == client[c].rec.user
        <4>1. hash' = [hash EXCEPT ![u] = hash[u] + 1] /\ must' = [must EXCEPT ![u] = FALSE]
          BY <1>11, <3>1 DEF ChangeSwap
        <4>2. u \in User
          BY <2>2
        <4> QED
          BY <4>1, <4>2 DEF TableTypes
      <3>2. CASE ~Unchanged(client[c])
        BY <1>11, <3>2 DEF ChangeSwap, TableTypes
      <3> QED
        BY <3>1, <3>2
    <2>4. TableTypes'
      BY <1>11, <2>3 DEF ChangeSwap, TableTypes
    <2> QED
      BY <1>11, <2>1, <2>4 DEF ChangeSwap, RedisTypes, OpTypes, HistoryTypes,
                               redis, history
  <1> QED
    BY <1>2, <1>3, <1>4, <1>5, <1>6, <1>7, <1>8, <1>9, <1>10, <1>11 DEF ClientNext

\* Every step keeps the types.
LEMMA TypeInductive == Typed /\ [Next]_vars => Typed'
  <1> SUFFICES ASSUME Typed, [Next]_vars PROVE Typed'
    OBVIOUS
  <1>1. ASSUME NEW s \in Session, SessionExpires(s) PROVE Typed'
    <2>1. RedisTypes'
      BY <1>1, DroppedType DEF SessionExpires, Typed, TypeOK, RedisTypes
    <2> QED
      BY <1>1, <2>1 DEF SessionExpires, Typed, TypeOK, Bound, TableTypes, OpTypes,
                        ClientTypes, HistoryTypes, table, history
  <1>2. CASE UNCHANGED vars
    BY <1>2 DEF Typed, TypeOK, Bound, TableTypes, RedisTypes, OpTypes, ClientTypes,
                HistoryTypes, vars, table, redis, history
  <1> QED
    BY <1>1, <1>2, OpStepTypes, ClientStepTypes DEF Next

\* Accounts keeps its types, whatever the numbers of users, browsers and operations.
THEOREM TypeCorrect == Spec => []TypeOK
  <1>1. Typed => TypeOK
    BY DEF Typed
  <1> QED
    BY <1>1, InitTypes, TypeInductive, PTL DEF Spec

(***************************************************************************)
(* The last administrator.                                                 *)
(***************************************************************************)

\* A decision is taken and written under the advisory lock, and what was decided
\* still holds when it is written.
Serial ==
  \A a \in Admin :
    /\ op[a].pc \in {"decide", "write"} => locker = a
    /\ op[a].pc = "write" => /\ role[op[a].user] # "none"
                             /\ Removes(op[a]) => AnotherAdmin(op[a])

\* Only CreateUser and AccessWrite touch roles and statuses.
LEMMA OtherStepsKeepAccess ==
  ASSUME [Next]_vars,
         \A a \in Admin : ~AccessWrite(a),
         \A a \in Admin, u \in User, r \in Roles, change \in BOOLEAN :
            ~CreateUser(a, u, r, change)
  PROVE  UNCHANGED <<role, status>>
  BY DEF Next, OpNext, ClientNext, AccessLock, AccessDecide, ResetPassword, RevokeList,
         RevokeDelete, RevokeUnindex, OpAbort, LoginVerified, LoginForget, LoginSet,
         LoginIndex, RequestSession, RequestAccount, RequestDrop, RequestServed,
         ChangeVerified, ChangeSwap, ClientAbort, SessionExpires, vars, table

\* The steps of browsers and of Redis leave operations and accounts alone.
LEMMA ClientKeepsOps ==
  ASSUME NEW c \in Client, ClientNext(c)
  PROVE  UNCHANGED <<op, locker, role, status, version, resets>>
  BY DEF ClientNext, LoginVerified, LoginForget, LoginSet, LoginIndex, RequestSession,
         RequestAccount, RequestDrop, RequestServed, ChangeVerified, ChangeSwap,
         ClientAbort, table, history

\* The same operations, locks and accounts keep Serial.
LEMMA SerialStable ==
  ASSUME Serial, UNCHANGED <<op, locker, role, status>>
  PROVE  Serial'
  BY DEF Serial, Removes, AnotherAdmin, ActiveAdmins, After

\* One operation moves under the lock it holds, the accounts being the same.
LEMMA SerialMove ==
  ASSUME Typed, Serial, NEW a \in Admin, NEW next,
         op' = [op EXCEPT ![a] = next],
         next.pc \notin {"decide", "write"},
         UNCHANGED <<role, status>>,
         locker' = locker \/ (locker = a /\ locker' = None)
  PROVE  Serial'
  <1>1. op \in [Admin -> OpState]
    BY DEF Typed, TypeOK, OpTypes
  <1> SUFFICES ASSUME NEW b \in Admin, op'[b].pc \in {"decide", "write"}
               PROVE  /\ locker' = b
                      /\ op'[b].pc = "write" =>
                           /\ role'[op'[b].user] # "none"
                           /\ Removes(op[b])' => AnotherAdmin(op[b])'
    BY DEF Serial
  <1>2. b # a /\ op'[b] = op[b]
    BY <1>1
  <1>3. locker = b /\ locker' = b
    BY <1>2 DEF Serial
  <1> QED
    BY <1>2, <1>3 DEF Serial, Removes, AnotherAdmin, ActiveAdmins, After

\* Every step keeps access changes serial.
LEMMA SerialInductive == Typed /\ Serial /\ [Next]_vars => Serial'
  <1> SUFFICES ASSUME Typed, Serial, [Next]_vars PROVE Serial'
    OBVIOUS
  <1>1. op \in [Admin -> OpState] /\ locker \in Admin \cup {None} /\ None \notin Admin
    BY AccountsAssumption DEF Typed, TypeOK, OpTypes, TableTypes
  <1>2. ASSUME NEW a \in Admin, NEW u \in User, NEW r \in Roles \cup {"keep"},
               NEW st \in Statuses \cup {"keep"}, AccessLock(a, u, r, st)
        PROVE  Serial'
    <2>1. \A b \in Admin : op[b].pc \notin {"decide", "write"}
      BY <1>1, <1>2 DEF AccessLock, LockFree, Serial
    <2>2. \A b \in Admin : op'[b].pc \in {"decide", "write"} => b = a /\ op'[b].pc = "decide"
      BY <1>1, <1>2, <2>1, IdleTypes DEF AccessLock, OpState
    <2> QED
      BY <1>2, <2>2 DEF AccessLock, Serial
  <1>3. ASSUME NEW a \in Admin, AccessDecide(a) PROVE Serial'
    <2> DEFINE write == [op[a] EXCEPT !.pc = "write"]
    <2>1. UNCHANGED <<role, status>> /\ locker = a
      BY <1>3 DEF AccessDecide, table, Serial
    <2>2. CASE op' = [op EXCEPT ![a] = IdleOp]
      BY <1>3, <2>1, <2>2, IdleTypes, SerialMove DEF AccessDecide
    <2>3. CASE /\ op' = [op EXCEPT ![a] = write] /\ UNCHANGED locker
               /\ role[op[a].user] # "none" /\ (Removes(op[a]) => AnotherAdmin(op[a]))
      <3>1. op[a] \in OpState
        BY <1>1
      <3>2. write.user = op[a].user /\ write.role = op[a].role /\ write.status = op[a].status
        BY <3>1 DEF OpState
      <3>3. op'[a] = write /\ \A b \in Admin \ {a} : op'[b] = op[b]
        BY <1>1, <2>3
      <3>4. \A b \in Admin \ {a} : op'[b].pc \notin {"decide", "write"}
        BY <2>1, <3>3 DEF Serial
      <3>5. role'[op'[a].user] # "none" /\ (Removes(op[a])' => AnotherAdmin(op[a])')
        BY <2>1, <2>3, <3>2, <3>3 DEF Removes, AnotherAdmin, ActiveAdmins, After
      <3> QED
        BY <2>1, <2>3, <3>4, <3>5 DEF Serial
    <2> QED
      BY <1>3, <2>2, <2>3 DEF AccessDecide
  <1>4. ASSUME NEW a \in Admin, AccessWrite(a) PROVE Serial'
    <2>1. locker = a /\ locker' = None
      BY <1>4 DEF AccessWrite, Serial
    <2>2. \A b \in Admin : op'[b].pc \notin {"decide", "write"}
      <3> DEFINE list == [op[a] EXCEPT !.pc = "list", !.targets = Given(op[a].user)]
      <3>1. list.pc = "list"
        BY <1>1 DEF OpState
      <3>2. PICK next \in {list, IdleOp} : op' = [op EXCEPT ![a] = next]
        BY <1>4 DEF AccessWrite
      <3>3. next.pc \notin {"decide", "write"}
        BY <3>1, IdleTypes
      <3>4. op'[a] = next /\ \A b \in Admin \ {a} : op'[b] = op[b]
        BY <1>1, <3>2
      <3> QED
        BY <2>1, <3>3, <3>4 DEF Serial
    <2> QED
      BY <2>2 DEF Serial
  <1>5. ASSUME NEW a \in Admin, NEW u \in User, NEW r \in Roles, NEW change \in BOOLEAN,
               CreateUser(a, u, r, change)
        PROVE  Serial'
    <2> SUFFICES ASSUME NEW b \in Admin, op[b].pc = "write", op' = op, locker' = locker
                 PROVE  /\ role'[op[b].user] # "none"
                        /\ Removes(op[b])' => AnotherAdmin(op[b])'
      BY <1>5 DEF CreateUser, Serial
    <2> DEFINE v == op[b].user
    <2>1. v \in User /\ v # u
      BY <1>5 DEF CreateUser, Serial, Typed, Bound
    <2>2. /\ role' = [role EXCEPT ![u] = r] /\ status' = [status EXCEPT ![u] = "active"]
          /\ role \in [User -> Roles \cup {"none"}] /\ status \in [User -> Statuses]
      BY <1>5 DEF CreateUser, Typed, TypeOK, TableTypes
    <2>3. role'[v] = role[v] /\ status'[v] = status[v]
      BY <2>1, <2>2
    <2>4. ActiveAdmins \subseteq ActiveAdmins'
      BY <1>5, <2>2 DEF ActiveAdmins, CreateUser
    <2>5. Removes(op[b])' => Removes(op[b])
      BY <2>1, <2>3 DEF Removes, ActiveAdmins, After
    <2> QED
      BY <2>1, <2>3, <2>4, <2>5 DEF Serial, AnotherAdmin
  <1>6. ASSUME NEW a \in Admin, NEW u \in User, NEW change \in BOOLEAN,
               ResetPassword(a, u, change)
        PROVE  Serial'
    <2>1. [IdleOp EXCEPT !.pc = "list", !.user = u, !.targets = Given(u)].pc = "list"
      BY IdleTypes DEF OpState
    <2> QED
      BY <1>6, <2>1, SerialMove DEF ResetPassword
  <1>7. ASSUME NEW a \in Admin, RevokeList(a) PROVE Serial'
    <2> DEFINE delete == [op[a] EXCEPT !.pc = "delete", !.ids = Members(op[a].user)]
    <2>1. delete.pc = "delete"
      BY <1>1 DEF OpState
    <2>2. PICK next \in {delete, IdleOp} : op' = [op EXCEPT ![a] = next]
      BY <1>7 DEF RevokeList
    <2> QED
      BY <1>7, <2>1, <2>2, IdleTypes, SerialMove DEF RevokeList, table
  <1>8. ASSUME NEW a \in Admin, RevokeDelete(a) PROVE Serial'
    <2>1. [op[a] EXCEPT !.pc = "unindex"].pc = "unindex"
      BY <1>1 DEF OpState
    <2> QED
      BY <1>8, <2>1, SerialMove DEF RevokeDelete, table
  <1>9. ASSUME NEW a \in Admin, RevokeUnindex(a) \/ OpAbort(a) PROVE Serial'
    BY <1>9, IdleTypes, SerialMove DEF RevokeUnindex, OpAbort, table
  <1>10. ASSUME NEW c \in Client, ClientNext(c) PROVE Serial'
    BY <1>10, ClientKeepsOps, SerialStable
  <1>11. ASSUME NEW s \in Session, SessionExpires(s) PROVE Serial'
    BY <1>11, SerialStable DEF SessionExpires, table
  <1>12. CASE UNCHANGED vars
    BY <1>12, SerialStable DEF vars, table
  <1> QED
    BY <1>2, <1>3, <1>4, <1>5, <1>6, <1>7, <1>8, <1>9, <1>10, <1>11, <1>12
    DEF Next, OpNext

\* With Serial, no step takes the last active administrator away.
LEMMA LastAdminStep ==
  Typed /\ Serial /\ [Next]_vars => [ActiveAdmins # {} => ActiveAdmins' # {}]_vars
  <1> SUFFICES ASSUME Typed, Serial, [Next]_vars, ActiveAdmins # {}
               PROVE  ActiveAdmins' # {}
    OBVIOUS
  <1>1. role \in [User -> Roles \cup {"none"}] /\ status \in [User -> Statuses]
    BY DEF Typed, TypeOK, TableTypes
  <1>2. ASSUME NEW a \in Admin, AccessWrite(a) PROVE ActiveAdmins' # {}
    <2> DEFINE o == op[a]
               u == o.user
    <2>1. /\ u \in User /\ (Removes(o) => AnotherAdmin(o))
          /\ role' = [role EXCEPT ![u] = After(o.role, role[u])]
          /\ status' = [status EXCEPT ![u] = After(o.status, status[u])]
      BY <1>2 DEF AccessWrite, Serial, Typed, Bound
    <2>2. ActiveAdmins \ {u} \subseteq ActiveAdmins'
      BY <1>1, <2>1 DEF ActiveAdmins
    <2>3. CASE ActiveAdmins \ {u} # {}
      BY <2>2, <2>3
    <2>4. CASE ActiveAdmins \ {u} = {}
      <3>1. u \in ActiveAdmins /\ ~Removes(o)
        BY <2>1, <2>4 DEF AnotherAdmin
      <3>2. After(o.role, role[u]) = "admin" /\ After(o.status, status[u]) # "disabled"
        BY <3>1 DEF Removes
      <3>3. After(o.status, status[u]) \in Statuses
        BY <1>1, <2>1 DEF After, OpTypes, OpState, Typed, TypeOK
      <3> QED
        BY <1>1, <2>1, <3>2, <3>3 DEF ActiveAdmins, Statuses
    <2> QED
      BY <2>3, <2>4
  <1>3. ASSUME NEW a \in Admin, NEW u \in User, NEW r \in Roles, NEW change \in BOOLEAN,
               CreateUser(a, u, r, change)
        PROVE  ActiveAdmins' # {}
    <2>1. ActiveAdmins \subseteq ActiveAdmins'
      BY <1>1, <1>3 DEF ActiveAdmins, CreateUser
    <2> QED
      BY <2>1
  <1>4. CASE UNCHANGED <<role, status>>
    BY <1>4 DEF ActiveAdmins
  <1> QED
    BY <1>2, <1>3, <1>4, OtherStepsKeepAccess

\* However many administrators demote and disable one another at once, the last
\* active one is never taken away.
THEOREM LastAdmin == Spec => LastAdminStays
  <1>1. Init => Serial
    BY IdleTypes DEF Init, Serial
  <1> QED
    BY <1>1, InitTypes, TypeInductive, SerialInductive, LastAdminStep, PTL
    DEF Spec, LastAdminStays

(***************************************************************************)
(* Password resets.                                                        *)
(***************************************************************************)

\* A credential version counts the resets of its user, in the table and in every
\* copy of it.
Counted ==
  /\ \A u \in User : version[u] = resets[u]
  /\ \A s \in Session : session[s].version = session[s].resets
  /\ \A c \in Client : /\ client[c].rec.version = client[c].rec.resets
                       /\ client[c].version = client[c].resets

\* The version of a user is raised by the resets and nothing else.
LEMMA VersionStep ==
  ASSUME Typed, Counted, [Next]_vars
  PROVE  \A u \in User : version'[u] = resets'[u]
  <1>1. ASSUME NEW a \in Admin, NEW u \in User, NEW change \in BOOLEAN,
               ResetPassword(a, u, change)
        PROVE  \A v \in User : version'[v] = resets'[v]
    BY <1>1 DEF ResetPassword, NextVersion, Counted, Typed, TypeOK, TableTypes, HistoryTypes
  <1>2. CASE \A a \in Admin, u \in User, change \in BOOLEAN : ~ResetPassword(a, u, change)
    <2>1. UNCHANGED <<version, resets>>
      BY <1>2 DEF Next, OpNext, ClientNext, AccessLock, AccessDecide, AccessWrite,
        CreateUser, RevokeList, RevokeDelete, RevokeUnindex, OpAbort, LoginVerified,
        LoginForget, LoginSet, LoginIndex, RequestSession, RequestAccount, RequestDrop,
        RequestServed, ChangeVerified, ChangeSwap, ClientAbort, SessionExpires, vars,
        table, history
    <2> QED
      BY <2>1 DEF Counted
  <1> QED
    BY <1>1, <1>2

\* A stored session is dropped, or comes from a login.
LEMMA SessionStep ==
  ASSUME [Next]_vars
  PROVE  \/ session' = session
         \/ \E ids : session' = Dropped(ids)
         \/ \E c \in Client, s \in Session : LoginSet(c, s)
  BY DEF Next, OpNext, ClientNext, AccessLock, AccessDecide, AccessWrite, CreateUser,
         ResetPassword, RevokeList, RevokeDelete, RevokeUnindex, OpAbort, LoginVerified,
         LoginForget, LoginIndex, RequestSession, RequestAccount, RequestDrop,
         RequestServed, ChangeVerified, ChangeSwap, ClientAbort, SessionExpires, vars,
         table, redis

\* Operations and Redis leave the browsers alone.
LEMMA OpKeepsClients ==
  ASSUME [Next]_vars, \A c \in Client : ~ClientNext(c)
  PROVE  UNCHANGED <<client, cookie>>
  BY DEF Next, OpNext, AccessLock, AccessDecide, AccessWrite, CreateUser, ResetPassword,
         RevokeList, RevokeDelete, RevokeUnindex, OpAbort, SessionExpires, vars

\* The copies a browser's request carries stay counted.
LEMMA CopyStep ==
  ASSUME Typed, Counted, NEW c \in Client, ClientNext(c)
  PROVE  \A d \in Client : /\ client'[d].rec.version = client'[d].rec.resets
                           /\ client'[d].version = client'[d].resets
  <1>1. client \in [Client -> ClientState] /\ client[c] \in ClientState
    BY DEF Typed, TypeOK, ClientTypes
  <1>2. ASSUME NEW next, client' = [client EXCEPT ![c] = next],
               next.rec.version = next.rec.resets, next.version = next.resets
        PROVE  \A d \in Client : /\ client'[d].rec.version = client'[d].rec.resets
                                 /\ client'[d].version = client'[d].resets
    BY <1>1, <1>2 DEF Counted
  <1>3. IdleClient.rec.version = IdleClient.rec.resets /\ IdleClient.version = IdleClient.resets
    BY DEF IdleClient, NoSession
  <1>4. ASSUME NEW u \in User, LoginVerified(c, u)
        PROVE  \A d \in Client : /\ client'[d].rec.version = client'[d].rec.resets
                                 /\ client'[d].version = client'[d].resets
    <2> DEFINE rec == [user |-> u, version |-> version[u],
                       resets |-> resets[u], offs |-> offs[u]]
               next == [IdleClient EXCEPT !.pc = "forget", !.rec = rec]
    <2>1. next.rec = rec /\ next.version = next.resets
      BY DEF IdleClient
    <2>2. rec.version = rec.resets
      BY DEF Counted
    <2> QED
      BY <1>2, <1>4, <2>1, <2>2 DEF LoginVerified
  <1>5. ASSUME NEW p \in {"set", "drop", "swap"},
               client' = [client EXCEPT ![c] = [client[c] EXCEPT !.pc = p]]
        PROVE  \A d \in Client : /\ client'[d].rec.version = client'[d].rec.resets
                                 /\ client'[d].version = client'[d].resets
    <2> DEFINE next == [client[c] EXCEPT !.pc = p]
    <2>1. /\ next.rec = client[c].rec
          /\ next.version = client[c].version /\ next.resets = client[c].resets
      BY <1>1 DEF ClientState
    <2> QED
      BY <1>2, <1>5, <2>1 DEF Counted
  <1>6. ASSUME NEW s \in Session, LoginSet(c, s)
        PROVE  \A d \in Client : /\ client'[d].rec.version = client'[d].rec.resets
                                 /\ client'[d].version = client'[d].resets
    <2> DEFINE next == [client[c] EXCEPT !.pc = "index", !.sid = s]
    <2>1. /\ next.rec = client[c].rec
          /\ next.version = client[c].version /\ next.resets = client[c].resets
      BY <1>1 DEF ClientState
    <2> QED
      BY <1>2, <1>6, <2>1 DEF Counted, LoginSet
  <1>7. ASSUME RequestSession(c)
        PROVE  \A d \in Client : /\ client'[d].rec.version = client'[d].rec.resets
                                 /\ client'[d].version = client'[d].resets
    <2> DEFINE next == [IdleClient EXCEPT !.pc = "account", !.sid = cookie[c],
                                          !.rec = session[cookie[c]]]
    <2>1. next.rec = session[cookie[c]] /\ next.version = next.resets
      BY DEF IdleClient
    <2>2. cookie[c] \in Session
      BY <1>7 DEF RequestSession, Typed, TypeOK, ClientTypes
    <2> QED
      BY <1>2, <1>7, <2>1, <2>2 DEF RequestSession, Counted
  <1>8. ASSUME RequestAccount(c), Admits(client[c].rec)
        PROVE  \A d \in Client : /\ client'[d].rec.version = client'[d].rec.resets
                                 /\ client'[d].version = client'[d].resets
    <2> DEFINE u == client[c].rec.user
               next == [client[c] EXCEPT !.pc = "serve", !.hash = hash[u],
                                         !.version = version[u], !.resets = resets[u]]
    <2>1. next.rec = client[c].rec /\ next.version = version[u] /\ next.resets = resets[u]
      BY <1>1 DEF ClientState
    <2>2. u \in User
      BY <1>8 DEF RequestAccount, Typed, Bound, SessionRecord
    <2> QED
      BY <1>2, <1>8, <2>1, <2>2 DEF RequestAccount, Counted
  <1> QED
    BY <1>2, <1>3, <1>4, <1>5, <1>6, <1>7, <1>8
    DEF ClientNext, LoginForget, LoginIndex, RequestAccount, RequestDrop, RequestServed,
        ChangeVerified, ChangeSwap, ClientAbort

\* Every step keeps the counts.
LEMMA CountedInductive == Typed /\ Counted /\ [Next]_vars => Counted'
  <1> SUFFICES ASSUME Typed, Counted, [Next]_vars PROVE Counted'
    OBVIOUS
  <1>1. \A s \in Session : session'[s].version = session'[s].resets
    <2>1. ASSUME NEW ids, session' = Dropped(ids)
          PROVE  \A s \in Session : session'[s].version = session'[s].resets
      BY <2>1, Absent DEF Dropped, Counted
    <2>2. ASSUME NEW c \in Client, NEW t \in Session, LoginSet(c, t)
          PROVE  \A s \in Session : session'[s].version = session'[s].resets
      BY <2>2 DEF LoginSet, Counted, Typed, TypeOK, RedisTypes
    <2> QED
      BY <2>1, <2>2, SessionStep DEF Counted
  <1>2. \A c \in Client : /\ client'[c].rec.version = client'[c].rec.resets
                          /\ client'[c].version = client'[c].resets
    <2>1. CASE \E c \in Client : ClientNext(c)
      BY <2>1, CopyStep
    <2>2. CASE \A c \in Client : ~ClientNext(c)
      BY <2>2, OpKeepsClients DEF Counted
    <2> QED
      BY <2>1, <2>2
  <1> QED
    BY <1>1, <1>2, VersionStep DEF Counted

\* With the counts, a request passes only with a password checked since the last reset.
LEMMA ResetEndsStep ==
  Typed /\ Counted /\ [Next]_vars =>
    [\A c \in Client : Passes(c) =>
       client[c].rec.resets = resets[client[c].rec.user]]_vars
  <1> SUFFICES ASSUME Typed, Counted, [Next]_vars, NEW c \in Client, Passes(c)
               PROVE  client[c].rec.resets = resets[client[c].rec.user]
    OBVIOUS
  <1>1. client \in [Client -> ClientState] /\ client[c].rec.user \in User
    BY DEF Typed, TypeOK, ClientTypes, Bound, Passes, SessionRecord
  <1>2. ASSUME NEW d \in Client, ClientNext(d), d # c PROVE client'[c] = client[c]
    BY <1>1, <1>2 DEF ClientNext, LoginVerified, LoginForget, LoginSet, LoginIndex,
       RequestSession, RequestAccount, RequestDrop, RequestServed, ChangeVerified,
       ChangeSwap, ClientAbort
  <1>3. ClientNext(c)
    BY <1>2, OpKeepsClients DEF Passes
  <1>4. client'[c].pc = "serve" /\ client[c].pc = "account"
    BY DEF Passes
  <1>5. RequestAccount(c)
    <2>1. ~ClientAbort(c)
      BY <1>1, <1>4, IdleTypes DEF ClientAbort
    <2> QED
      BY <1>3, <1>4, <2>1 DEF ClientNext, LoginVerified, LoginForget, LoginSet, LoginIndex,
         RequestSession, RequestDrop, RequestServed, ChangeVerified, ChangeSwap
  <1>6. Admits(client[c].rec)
    <2> SUFFICES ASSUME ~Admits(client[c].rec) PROVE FALSE
      OBVIOUS
    <2>1. client'[c] = [client[c] EXCEPT !.pc = "drop"]
      BY <1>1, <1>5 DEF RequestAccount
    <2>2. client'[c].pc = "drop"
      BY <1>1, <2>1 DEF ClientState
    <2> QED
      BY <1>4, <2>2
  <1> QED
    BY <1>1, <1>6 DEF Admits, Counted

\* A session from before a reset never passes a request again, not even one that is
\* stored after the revocation.
THEOREM ResetEnds == Spec => ResetEndsSessions
  <1>1. Init => Counted
    BY DEF Init, Counted, IdleClient, NoSession
  <1> QED
    BY <1>1, InitTypes, TypeInductive, CountedInductive, ResetEndsStep, PTL
    DEF Spec, ResetEndsSessions

\* With the counts, a password changes by a reset or against the last reset's account.
LEMMA NotUndoneStep ==
  Typed /\ Counted /\ [Next]_vars =>
    [\A u \in User : hash'[u] # hash[u] =>
       \/ resets'[u] # resets[u]
       \/ \E c \in Client : /\ client[c].pc = "swap" /\ client[c].rec.user = u
                            /\ client[c].resets = resets[u]]_vars
  <1> SUFFICES ASSUME Typed, Counted, [Next]_vars, NEW u \in User, hash'[u] # hash[u]
               PROVE  \/ resets'[u] # resets[u]
                      \/ \E c \in Client : /\ client[c].pc = "swap" /\ client[c].rec.user = u
                                           /\ client[c].resets = resets[u]
    OBVIOUS
  <1>1. /\ hash \in [User -> Nat] /\ resets \in [User -> Nat]
        /\ \A c \in Client : client[c].pc = "swap" => client[c].rec.user \in User
    BY DEF Typed, TypeOK, TableTypes, HistoryTypes, Bound, SessionRecord
  <1>2. ASSUME NEW a \in Admin, NEW v \in User, NEW change \in BOOLEAN,
               ResetPassword(a, v, change)
        PROVE  resets'[u] # resets[u]
    BY <1>1, <1>2 DEF ResetPassword
  <1>3. ASSUME NEW c \in Client, ChangeSwap(c)
        PROVE  /\ client[c].pc = "swap" /\ client[c].rec.user = u
               /\ client[c].resets = resets[u]
    <2> DEFINE v == client[c].rec.user
    <2>1. Unchanged(client[c]) /\ hash' = [hash EXCEPT ![v] = hash[v] + 1]
      BY <1>3 DEF ChangeSwap
    <2>2. v = u
      BY <1>1, <2>1
    <2> QED
      BY <1>3, <2>1, <2>2 DEF ChangeSwap, Unchanged, Counted
  <1>4. CASE /\ \A a \in Admin, v \in User, change \in BOOLEAN : ~ResetPassword(a, v, change)
             /\ \A c \in Client : ~ChangeSwap(c)
    BY <1>4 DEF Next, OpNext, ClientNext, AccessLock, AccessDecide, AccessWrite,
       CreateUser, RevokeList, RevokeDelete, RevokeUnindex, OpAbort, LoginVerified,
       LoginForget, LoginSet, LoginIndex, RequestSession, RequestAccount, RequestDrop,
       RequestServed, ChangeVerified, ClientAbort, SessionExpires, vars, table
  <1> QED
    BY <1>2, <1>3, <1>4

\* A change of password never overwrites a reset it did not know of.
THEOREM ResetStays == Spec => ResetIsNotUndone
  <1>1. Init => Counted
    BY DEF Init, Counted, IdleClient, NoSession
  <1> QED
    BY <1>1, InitTypes, TypeInductive, CountedInductive, NotUndoneStep, PTL
    DEF Spec, ResetIsNotUndone

(***************************************************************************)
(* Sessions and their index.                                               *)
(***************************************************************************)

\* Ids that were never drawn appear nowhere.
DrawnIds ==
  /\ \A s \in Session : Live(s) => s \in used
  /\ \A u \in User : index[u] \subseteq used
  /\ \A a \in Admin : op[a].ids \subseteq used /\ op[a].targets \subseteq used
  /\ \A c \in Client : /\ cookie[c] # None => cookie[c] \in used
                       /\ client[c].pc = "index" => client[c].sid \in used

\* A session about to be indexed is still the one its login stored, or gone.
PendingIsOwn ==
  \A c \in Client : client[c].pc = "index" /\ Live(client[c].sid) =>
    session[client[c].sid].user = client[c].rec.user

\* What leaves the index is no longer stored.
UnindexedIsGone ==
  \A a \in Admin : op[a].pc = "unindex" => \A s \in op[a].ids : ~Live(s)

IndexInv == DrawnIds /\ PendingIsOwn /\ UnindexedIsGone /\ LiveIsIndexed

\* The targets of a revocation that has not read the index are found there, those
\* of one that has are among what it read, until they are gone.
TargetsFound ==
  \A a \in Admin : \A s \in op[a].targets :
    /\ op[a].pc = "list" /\ Live(s) => s \in index[op[a].user]
    /\ op[a].pc = "delete" /\ Live(s) => s \in op[a].ids
    /\ op[a].pc = "unindex" => ~Live(s)

\* Sessions only disappear in this step, and what pends stays what it was.
LEMMA IndexMonotone ==
  ASSUME Typed, IndexInv,
         \A s \in Session : session'[s] = session[s] \/ ~Live(s)',
         UNCHANGED <<index, used>>,
         \A a \in Admin : /\ op'[a].ids \subseteq used /\ op'[a].targets \subseteq used
                          /\ op'[a].pc = "unindex" => \A s \in op'[a].ids : ~Live(s)',
         \A c \in Client : /\ cookie'[c] \in {cookie[c], None}
                           /\ client'[c].pc = "index" => client'[c] = client[c]
  PROVE  IndexInv'
  <1>1. \A s \in Session : Live(s)' => Live(s) /\ session'[s] = session[s]
    BY DEF Live
  <1>2. /\ session \in [Session -> SessionRecord \cup {NoSession}]
        /\ cookie \in [Client -> Session \cup {None}]
        /\ \A c \in Client : client[c].pc = "index" => client[c].sid \in Session
    BY DEF Typed, TypeOK, RedisTypes, ClientTypes, Bound
  <1>3. DrawnIds'
    BY <1>1, <1>2 DEF IndexInv, DrawnIds
  <1>4. PendingIsOwn'
    BY <1>1, <1>2 DEF IndexInv, PendingIsOwn
  <1>5. UnindexedIsGone'
    BY DEF IndexInv, UnindexedIsGone
  <1>6. LiveIsIndexed'
    BY <1>1, <1>2 DEF IndexInv, LiveIsIndexed
  <1> QED
    BY <1>3, <1>4, <1>5, <1>6 DEF IndexInv

\* An operation that stays out of the index moves on.
LEMMA IndexOpMove ==
  ASSUME Typed, IndexInv, NEW a \in Admin, NEW next,
         op' = [op EXCEPT ![a] = next],
         \A s \in Session : session'[s] = session[s] \/ ~Live(s)',
         UNCHANGED <<index, used, client, cookie>>,
         next.ids \subseteq used, next.targets \subseteq used,
         next.pc = "unindex" => \A s \in next.ids : ~Live(s)'
  PROVE  IndexInv'
  <1>1. op \in [Admin -> OpState] /\ used \subseteq Session
    BY DEF Typed, TypeOK, OpTypes, HistoryTypes
  <1>2. op'[a] = next /\ \A b \in Admin \ {a} : op'[b] = op[b]
    BY <1>1
  <1>3. \A b \in Admin : op[b].pc = "unindex" => \A s \in op[b].ids : ~Live(s)'
    BY <1>1 DEF IndexInv, UnindexedIsGone, DrawnIds, Live
  <1>4. \A b \in Admin : /\ op'[b].ids \subseteq used /\ op'[b].targets \subseteq used
                         /\ op'[b].pc = "unindex" => \A s \in op'[b].ids : ~Live(s)'
    BY <1>2, <1>3 DEF IndexInv, DrawnIds
  <1> QED
    BY <1>4, IndexMonotone

\* Deleting sessions only makes them disappear.
LEMMA DroppedDisappears ==
  ASSUME NEW ids, session' = Dropped(ids)
  PROVE  /\ \A s \in Session : session'[s] = session[s] \/ ~Live(s)'
         /\ \A s \in Session \cap ids : ~Live(s)'
  BY DEF Dropped, Live

\* The targets of a new revocation are live and drawn.
LEMMA GivenDrawn ==
  ASSUME IndexInv, NEW u
  PROVE  Given(u) \subseteq used
  BY DEF IndexInv, DrawnIds, Given

\* The steps of an administrative operation keep the index right.
LEMMA OpStepIndex ==
  ASSUME Typed, IndexInv, NEW a \in Admin, OpNext(a)
  PROVE  IndexInv'
  <1>1. /\ op \in [Admin -> OpState] /\ op[a] \in OpState /\ used \subseteq Session
        /\ op[a].pc # "idle" => op[a].user \in User
        /\ op[a].ids \subseteq used /\ op[a].targets \subseteq used
        /\ index \in [User -> SUBSET Session]
    BY DEF Typed, TypeOK, OpTypes, HistoryTypes, RedisTypes, Bound, IndexInv, DrawnIds
  <1>2. IdleOp.ids = {} /\ IdleOp.targets = {} /\ IdleOp.pc = "idle"
    BY DEF IdleOp
  <1>3. \A b \in Admin : /\ op[b].ids \subseteq used /\ op[b].targets \subseteq used
                         /\ op[b].pc = "unindex" => \A s \in op[b].ids : ~Live(s)
    BY DEF IndexInv, DrawnIds, UnindexedIsGone
  <1>4. ASSUME op' = [op EXCEPT ![a] = IdleOp], UNCHANGED <<redis, used, client, cookie>>
        PROVE  IndexInv'
    BY <1>2, <1>4, IndexOpMove DEF redis
  <1>5. ASSUME NEW u \in User, NEW r \in Roles \cup {"keep"},
               NEW st \in Statuses \cup {"keep"}, AccessLock(a, u, r, st)
        PROVE  IndexInv'
    <2> DEFINE next == [IdleOp EXCEPT !.pc = "decide", !.user = u, !.role = r, !.status = st]
    <2>1. next.ids = {} /\ next.targets = {} /\ next.pc = "decide"
      BY DEF IdleOp
    <2> QED
      BY <1>5, <2>1, IndexOpMove DEF AccessLock, redis, history
  <1>6. ASSUME AccessDecide(a) PROVE IndexInv'
    <2> DEFINE write == [op[a] EXCEPT !.pc = "write"]
    <2>1. write.ids = op[a].ids /\ write.targets = op[a].targets /\ write.pc = "write"
      BY <1>1 DEF OpState
    <2>2. CASE op' = [op EXCEPT ![a] = write]
      BY <1>1, <1>6, <2>1, <2>2, IndexOpMove DEF AccessDecide, redis, history
    <2>3. CASE op' = [op EXCEPT ![a] = IdleOp]
      BY <1>4, <1>6, <2>3 DEF AccessDecide, history
    <2> QED
      BY <1>6, <2>2, <2>3 DEF AccessDecide
  <1>7. ASSUME AccessWrite(a) PROVE IndexInv'
    <2> DEFINE list == [op[a] EXCEPT !.pc = "list", !.targets = Given(op[a].user)]
    <2>1. list.ids = op[a].ids /\ list.targets = Given(op[a].user) /\ list.pc = "list"
      BY <1>1 DEF OpState
    <2>2. CASE op' = [op EXCEPT ![a] = list]
      <3>1. UNCHANGED <<session, index, used, client, cookie>>
        BY <1>7 DEF AccessWrite, redis
      <3>2. list.ids \subseteq used /\ list.targets \subseteq used
        BY <1>1, <2>1, GivenDrawn
      <3> QED
        BY <2>1, <2>2, <3>1, <3>2, IndexOpMove
    <2>3. CASE op' = [op EXCEPT ![a] = IdleOp]
      BY <1>4, <1>7, <2>3 DEF AccessWrite
    <2> QED
      BY <1>7, <2>2, <2>3 DEF AccessWrite
  <1>8. ASSUME NEW u \in User, NEW r \in Roles, NEW change \in BOOLEAN,
               CreateUser(a, u, r, change)
        PROVE  IndexInv'
    <2>1. UNCHANGED <<session, index, used, op, client, cookie>>
      BY <1>8 DEF CreateUser, redis, history
    <2>2. \A b \in Admin : /\ op'[b].ids \subseteq used /\ op'[b].targets \subseteq used
                           /\ op'[b].pc = "unindex" => \A s \in op'[b].ids : ~Live(s)'
      BY <1>3, <2>1 DEF Live
    <2> QED
      BY <2>1, <2>2, IndexMonotone
  <1>9. ASSUME NEW u \in User, NEW change \in BOOLEAN, ResetPassword(a, u, change)
        PROVE  IndexInv'
    <2> DEFINE next == [IdleOp EXCEPT !.pc = "list", !.user = u, !.targets = Given(u)]
    <2>1. next.ids = {} /\ next.targets = Given(u) /\ next.pc = "list"
      BY DEF IdleOp
    <2> QED
      BY <1>9, <2>1, GivenDrawn, IndexOpMove DEF ResetPassword, redis
  <1>10. ASSUME RevokeList(a) PROVE IndexInv'
    <2> DEFINE delete == [op[a] EXCEPT !.pc = "delete", !.ids = Members(op[a].user)]
    <2>1. Members(op[a].user) \subseteq used
      BY <1>1, <1>10 DEF RevokeList, Members, IndexInv, DrawnIds
    <2>2. delete.ids = Members(op[a].user) /\ delete.targets = op[a].targets /\ delete.pc = "delete"
      BY <1>1 DEF OpState
    <2>3. CASE op' = [op EXCEPT ![a] = delete]
      <3>1. UNCHANGED <<session, index, used, client, cookie>>
        BY <1>10 DEF RevokeList, redis, history
      <3>2. delete.ids \subseteq used /\ delete.targets \subseteq used
        BY <1>1, <2>1, <2>2
      <3> QED
        BY <2>2, <2>3, <3>1, <3>2, IndexOpMove
    <2>4. CASE op' = [op EXCEPT ![a] = IdleOp]
      BY <1>4, <1>10, <2>4 DEF RevokeList, history
    <2> QED
      BY <1>10, <2>3, <2>4 DEF RevokeList
  <1>11. ASSUME RevokeDelete(a) PROVE IndexInv'
    <2> DEFINE next == [op[a] EXCEPT !.pc = "unindex"]
    <2>1. next.ids = op[a].ids /\ next.targets = op[a].targets
      BY <1>1 DEF OpState
    <2>2. session' = Dropped(op[a].ids)
      BY <1>11 DEF RevokeDelete
    <2>3. \A s \in next.ids : ~Live(s)'
      BY <1>1, <2>1, <2>2, DroppedDisappears
    <2>4. \A s \in Session : session'[s] = session[s] \/ ~Live(s)'
      BY <2>2, DroppedDisappears
    <2> QED
      BY <1>1, <1>11, <2>1, <2>3, <2>4, IndexOpMove DEF RevokeDelete, history
  <1>12. ASSUME RevokeUnindex(a) PROVE IndexInv'
    <2> DEFINE u == op[a].user
    <2>1. /\ u \in User /\ \A s \in op[a].ids : ~Live(s)
          /\ UNCHANGED <<session, client, cookie, used>>
          /\ index' = [index EXCEPT ![u] = index[u] \ op[a].ids]
          /\ op' = [op EXCEPT ![a] = IdleOp]
      BY <1>1, <1>12 DEF RevokeUnindex, Remaining, history, IndexInv, UnindexedIsGone
    <2>2. \A v \in User : /\ index'[v] \subseteq index[v]
                          /\ \A s \in index[v] : Live(s) => s \in index'[v]
      BY <1>1, <2>1
    <2>3. DrawnIds'
      BY <1>1, <1>2, <2>1, <2>2 DEF IndexInv, DrawnIds, Live
    <2>4. PendingIsOwn' /\ UnindexedIsGone'
      BY <1>1, <1>2, <2>1 DEF IndexInv, PendingIsOwn, UnindexedIsGone, Live
    <2>5. LiveIsIndexed'
      <3> SUFFICES ASSUME NEW c \in Client, cookie[c] # None, Live(cookie[c])
                   PROVE  cookie[c] \in index'[session[cookie[c]].user]
        BY <2>1 DEF LiveIsIndexed, Live
      <3>1. cookie[c] \in Session /\ session[cookie[c]].user \in User
        BY DEF Typed, TypeOK, ClientTypes, RedisTypes, Live, SessionRecord
      <3> QED
        BY <2>2, <3>1 DEF IndexInv, LiveIsIndexed
    <2> QED
      BY <2>3, <2>4, <2>5 DEF IndexInv
  <1>13. ASSUME OpAbort(a) PROVE IndexInv'
    BY <1>4, <1>13 DEF OpAbort, history
  <1> QED
    BY <1>5, <1>6, <1>7, <1>8, <1>9, <1>10, <1>11, <1>12, <1>13 DEF OpNext

\* The steps of a browser's requests keep the index right.
LEMMA ClientStepIndex ==
  ASSUME Typed, IndexInv, NEW c \in Client, ClientNext(c)
  PROVE  IndexInv'
  <1>1. /\ client \in [Client -> ClientState] /\ client[c] \in ClientState
        /\ cookie \in [Client -> Session \cup {None}]
        /\ session \in [Session -> SessionRecord \cup {NoSession}]
        /\ index \in [User -> SUBSET Session] /\ used \subseteq Session
        /\ client[c].pc # "idle" => client[c].rec \in SessionRecord
    BY DEF Typed, TypeOK, ClientTypes, RedisTypes, HistoryTypes, Bound
  <1>2. \A b \in Admin : /\ op[b].ids \subseteq used /\ op[b].targets \subseteq used
                         /\ op[b].pc = "unindex" => \A s \in op[b].ids : ~Live(s)
    BY DEF IndexInv, DrawnIds, UnindexedIsGone
  <1>3. \A b \in Admin : op[b].ids \subseteq Session
    BY <1>1, <1>2
  <1>4. ASSUME NEW next, client' = [client EXCEPT ![c] = next], next.pc # "index",
               \A s \in Session : session'[s] = session[s] \/ ~Live(s)',
               \A d \in Client : cookie'[d] \in {cookie[d], None},
               UNCHANGED <<op, index, used>>
        PROVE  IndexInv'
    <2>1. \A d \in Client : client'[d].pc = "index" => client'[d] = client[d]
      BY <1>1, <1>4
    <2>2. \A b \in Admin : op[b].pc = "unindex" => \A s \in op[b].ids : ~Live(s)'
      BY <1>2, <1>3, <1>4 DEF Live
    <2> QED
      BY <1>2, <1>4, <2>1, <2>2, IndexMonotone
  <1>5. ASSUME NEW s \in Session, LoginSet(c, s) PROVE IndexInv'
    <2> DEFINE next == [client[c] EXCEPT !.pc = "index", !.sid = s]
    <2>1. /\ s \notin used /\ used' = used \cup {s}
          /\ session' = [session EXCEPT ![s] = client[c].rec]
          /\ client' = [client EXCEPT ![c] = next]
          /\ UNCHANGED <<op, index, cookie>>
      BY <1>5 DEF LoginSet
    <2>2. next.sid = s /\ next.rec = client[c].rec
      BY <1>1 DEF ClientState
    <2>3. /\ \A d \in Client \ {c} : client'[d] = client[d]
          /\ client'[c] = next
          /\ \A t \in Session \ {s} : session'[t] = session[t]
          /\ session'[s] = client[c].rec
      BY <1>1, <2>1
    <2>4. DrawnIds'
      BY <2>1, <2>2, <2>3 DEF IndexInv, DrawnIds, Live
    <2>5. PendingIsOwn'
      <3>1. \A d \in Client \ {c} : client[d].pc = "index" =>
              client[d].sid \in Session /\ client[d].sid # s
        BY <2>1 DEF IndexInv, DrawnIds, Typed, Bound
      <3> SUFFICES ASSUME NEW d \in Client, client'[d].pc = "index",
                          session'[client'[d].sid] # NoSession
                   PROVE  session'[client'[d].sid].user = client'[d].rec.user
        BY DEF PendingIsOwn, Live
      <3>2. CASE d = c
        BY <2>2, <2>3, <3>2
      <3>3. CASE d # c
        BY <2>3, <3>1, <3>3 DEF IndexInv, PendingIsOwn, Live
      <3> QED
        BY <3>2, <3>3
    <2>6. UnindexedIsGone'
      BY <1>2, <1>3, <2>1, <2>3 DEF UnindexedIsGone, Live
    <2>7. LiveIsIndexed'
      <3>1. \A d \in Client : cookie[d] # None => cookie[d] \in Session \ {s}
        BY <1>1, <2>1 DEF IndexInv, DrawnIds
      <3> QED
        BY <2>1, <2>3, <3>1 DEF IndexInv, LiveIsIndexed, Live
    <2> QED
      BY <2>4, <2>5, <2>6, <2>7 DEF IndexInv
  <1>6. ASSUME LoginIndex(c) PROVE IndexInv'
    <2> DEFINE u == client[c].rec.user
               sid == client[c].sid
    <2>1. /\ client[c].pc = "index" /\ u \in User /\ sid \in Session /\ sid \in used
          /\ Live(sid) => session[sid].user = u
          /\ index' = [index EXCEPT ![u] = index[u] \cup {sid}]
          /\ cookie' = [cookie EXCEPT ![c] = sid]
          /\ client' = [client EXCEPT ![c] = IdleClient]
          /\ UNCHANGED <<session, op, used>>
      BY <1>1, <1>6 DEF LoginIndex, history, SessionRecord, Typed, Bound, IndexInv,
         DrawnIds, PendingIsOwn
    <2>2. \A v \in User : index[v] \subseteq index'[v] /\ index'[v] \subseteq used
      BY <1>1, <2>1 DEF IndexInv, DrawnIds
    <2>3. sid \in index'[u]
      BY <1>1, <2>1
    <2>4. DrawnIds'
      BY <1>1, <2>1, <2>2, IdleTypes DEF IndexInv, DrawnIds, Live
    <2>5. PendingIsOwn' /\ UnindexedIsGone'
      BY <1>1, <2>1, IdleTypes DEF IndexInv, PendingIsOwn, UnindexedIsGone, Live
    <2>6. LiveIsIndexed'
      <3> SUFFICES ASSUME NEW d \in Client, cookie'[d] # None, Live(cookie'[d])
                   PROVE  cookie'[d] \in index'[session[cookie'[d]].user]
        BY <2>1 DEF LiveIsIndexed, Live
      <3>1. CASE cookie'[d] = sid
        BY <2>1, <2>3, <3>1
      <3>2. CASE cookie'[d] # sid
        <4>1. cookie'[d] = cookie[d] /\ cookie[d] \in Session
          BY <1>1, <2>1, <3>2
        <4>2. session[cookie[d]].user \in User
          BY <1>1, <4>1 DEF Live, SessionRecord
        <4> QED
          BY <2>2, <4>1, <4>2 DEF IndexInv, LiveIsIndexed
      <3> QED
        BY <3>1, <3>2
    <2> QED
      BY <2>4, <2>5, <2>6 DEF IndexInv
  <1>7. ASSUME RequestDrop(c) PROVE IndexInv'
    <2>1. \A d \in Client : cookie'[d] \in {cookie[d], None}
      BY <1>1, <1>7 DEF RequestDrop
    <2> QED
      BY <1>4, <1>7, <2>1, DroppedDisappears, IdleTypes DEF RequestDrop, history
  <1>8. ASSUME LoginForget(c) PROVE IndexInv'
    <2>1. [client[c] EXCEPT !.pc = "set"].pc = "set"
      BY <1>1 DEF ClientState
    <2> QED
      BY <1>4, <1>8, <2>1, DroppedDisappears DEF LoginForget, history
  <1>9. ASSUME NEW next \in ClientState, next.pc # "index",
               client' = [client EXCEPT ![c] = next],
               UNCHANGED <<redis, op, cookie, used>>
        PROVE  IndexInv'
    BY <1>4, <1>9 DEF redis
  <1>10. ASSUME NEW u \in User, LoginVerified(c, u) PROVE IndexInv'
    <2> DEFINE rec == [user |-> u, version |-> version[u],
                       resets |-> resets[u], offs |-> offs[u]]
               next == [IdleClient EXCEPT !.pc = "forget", !.rec = rec]
    <2>1. next.pc = "forget"
      BY DEF IdleClient
    <2> QED
      BY <1>4, <1>10, <2>1 DEF LoginVerified, redis, history
  <1>11. ASSUME RequestSession(c) PROVE IndexInv'
    <2> DEFINE next == [IdleClient EXCEPT !.pc = "account", !.sid = cookie[c],
                                          !.rec = session[cookie[c]]]
    <2>1. next.pc = "account"
      BY DEF IdleClient
    <2> QED
      BY <1>4, <1>11, <2>1 DEF RequestSession, redis, history
  <1>12. ASSUME RequestAccount(c) PROVE IndexInv'
    <2> DEFINE v == client[c].rec.user
               serve == [client[c] EXCEPT !.pc = "serve", !.hash = hash[v],
                                          !.version = version[v], !.resets = resets[v]]
               drop == [client[c] EXCEPT !.pc = "drop"]
    <2>1. serve.pc = "serve" /\ drop.pc = "drop"
      BY <1>1 DEF ClientState
    <2>2. PICK next \in {serve, drop} : client' = [client EXCEPT ![c] = next]
      BY <1>12 DEF RequestAccount
    <2> QED
      BY <1>4, <1>12, <2>1, <2>2 DEF RequestAccount, redis, history
  <1>13. ASSUME ChangeVerified(c) PROVE IndexInv'
    <2>1. [client[c] EXCEPT !.pc = "swap"].pc = "swap"
      BY <1>1 DEF ClientState
    <2> QED
      BY <1>4, <1>13, <2>1 DEF ChangeVerified, redis, history
  <1>14. ASSUME RequestServed(c) \/ ChangeSwap(c) \/ ClientAbort(c) PROVE IndexInv'
    BY <1>9, <1>14, IdleTypes DEF RequestServed, ChangeSwap, ClientAbort, redis, history
  <1> QED
    BY <1>5, <1>6, <1>7, <1>8, <1>10, <1>11, <1>12, <1>13, <1>14 DEF ClientNext

\* Every step keeps the index right.
LEMMA IndexInductive == Typed /\ IndexInv /\ [Next]_vars => IndexInv'
  <1> SUFFICES ASSUME Typed, IndexInv, [Next]_vars PROVE IndexInv'
    OBVIOUS
  <1>1. ASSUME NEW s \in Session, SessionExpires(s) PROVE IndexInv'
    <2>1. \A t \in Session : session'[t] = session[t] \/ ~Live(t)'
      BY <1>1, DroppedDisappears DEF SessionExpires
    <2>2. /\ used \subseteq Session
          /\ \A b \in Admin : op[b].ids \subseteq used /\ op[b].targets \subseteq used
      BY DEF Typed, TypeOK, HistoryTypes, IndexInv, DrawnIds
    <2>3. \A b \in Admin : op[b].pc = "unindex" => \A t \in op[b].ids : ~Live(t)'
      BY <2>1, <2>2 DEF IndexInv, UnindexedIsGone, Live
    <2> QED
      BY <1>1, <2>1, <2>2, <2>3, IndexMonotone DEF SessionExpires, history
  <1>2. CASE UNCHANGED vars
    BY <1>2 DEF vars, redis, history, IndexInv, DrawnIds, PendingIsOwn, UnindexedIsGone,
                LiveIsIndexed, Live
  <1> QED
    BY <1>1, <1>2, OpStepIndex, ClientStepIndex DEF Next

\* The initial state has no sessions at all.
LEMMA InitIndex == Init => IndexInv /\ TargetsFound
  <1> SUFFICES ASSUME Init PROVE IndexInv /\ TargetsFound
    OBVIOUS
  <1>1. /\ \A c \in Client : cookie[c] = None /\ client[c].pc = "idle"
        /\ \A a \in Admin : op[a].pc = "idle" /\ op[a].ids = {} /\ op[a].targets = {}
        /\ \A s \in Session : ~Live(s)
        /\ \A u \in User : index[u] = {}
    BY DEF Init, IdleClient, IdleOp, Live
  <1> QED
    BY <1>1 DEF IndexInv, DrawnIds, PendingIsOwn, UnindexedIsGone, LiveIsIndexed, TargetsFound

\* A live session that a browser holds is always in the index of its user, so a
\* revocation never overlooks it.
THEOREM IndexComplete == Spec => []LiveIsIndexed
  <1>1. IndexInv => LiveIsIndexed
    BY DEF IndexInv
  <1> QED
    BY <1>1, InitTypes, TypeInductive, InitIndex, IndexInductive, PTL DEF Spec

\* No step stores a drawn id again, and what leaves an index is no longer stored.
LEMMA WorldMonotone ==
  ASSUME Typed, IndexInv, [Next]_vars
  PROVE  /\ \A s \in used : Live(s)' => Live(s)
         /\ \A u \in User : \A s \in index[u] : Live(s)' => s \in index'[u]
  <1>1. /\ used \subseteq Session /\ index \in [User -> SUBSET Session]
        /\ session \in [Session -> SessionRecord \cup {NoSession}]
    BY DEF Typed, TypeOK, HistoryTypes, RedisTypes
  <1>2. \A s \in used : Live(s)' => Live(s)
    <2>1. ASSUME NEW ids, session' = Dropped(ids) PROVE \A s \in used : Live(s)' => Live(s)
      BY <1>1, <2>1 DEF Dropped, Live
    <2>2. ASSUME NEW c \in Client, NEW t \in Session, LoginSet(c, t)
          PROVE  \A s \in used : Live(s)' => Live(s)
      BY <1>1, <2>2 DEF LoginSet, Live
    <2> QED
      BY <2>1, <2>2, SessionStep DEF Live
  <1>3. ASSUME NEW a \in Admin, RevokeUnindex(a)
        PROVE  \A u \in User : \A s \in index[u] : Live(s)' => s \in index'[u]
    <2>1. /\ session' = session /\ \A s \in op[a].ids : ~Live(s)
          /\ index' = [index EXCEPT ![op[a].user] = index[op[a].user] \ op[a].ids]
      BY <1>3 DEF RevokeUnindex, Remaining, IndexInv, UnindexedIsGone
    <2>2. \A u \in User : index[u] \ op[a].ids \subseteq index'[u]
      BY <1>1, <2>1
    <2> QED
      BY <2>1, <2>2 DEF Live
  <1>4. ASSUME NEW c \in Client, LoginIndex(c)
        PROVE  \A u \in User : \A s \in index[u] : Live(s)' => s \in index'[u]
    BY <1>1, <1>4 DEF LoginIndex
  <1>5. CASE /\ \A a \in Admin : ~RevokeUnindex(a)
             /\ \A c \in Client : ~LoginIndex(c)
    <2>1. index' = index
      BY <1>5 DEF Next, OpNext, ClientNext, AccessLock, AccessDecide, AccessWrite,
         CreateUser, ResetPassword, RevokeList, RevokeDelete, OpAbort, LoginVerified,
         LoginForget, LoginSet, RequestSession, RequestAccount, RequestDrop, RequestServed,
         ChangeVerified, ChangeSwap, ClientAbort, SessionExpires, vars, table, redis
    <2> QED
      BY <1>2, <2>1
  <1>6. \A u \in User : \A s \in index[u] : Live(s)' => s \in index'[u]
    BY <1>3, <1>4, <1>5
  <1> QED
    BY <1>2, <1>6

\* A step of one operation, whose own targets are found after it.
LEMMA TargetsMove ==
  ASSUME Typed, IndexInv, TargetsFound, [Next]_vars, NEW a \in Admin, NEW next,
         op' = [op EXCEPT ![a] = next],
         \A s \in next.targets :
            /\ next.pc = "list" /\ Live(s)' => s \in index'[next.user]
            /\ next.pc = "delete" /\ Live(s)' => s \in next.ids
            /\ next.pc = "unindex" => ~Live(s)'
  PROVE  TargetsFound'
  <1>1. op \in [Admin -> OpState]
    BY DEF Typed, TypeOK, OpTypes
  <1>2. op'[a] = next /\ \A b \in Admin \ {a} : op'[b] = op[b]
    BY <1>1
  <1>3. ASSUME NEW b \in Admin \ {a}, NEW s \in op[b].targets
        PROVE  /\ op[b].pc = "list" /\ Live(s)' => s \in index'[op[b].user]
               /\ op[b].pc = "delete" /\ Live(s)' => s \in op[b].ids
               /\ op[b].pc = "unindex" => ~Live(s)'
    <2>1. s \in used /\ (op[b].pc # "idle" => op[b].user \in User)
      BY DEF IndexInv, DrawnIds, Typed, Bound
    <2>2. Live(s)' => Live(s)
      BY <2>1, WorldMonotone
    <2>3. op[b].pc = "list" /\ Live(s)' => s \in index'[op[b].user]
      BY <2>1, <2>2, WorldMonotone DEF TargetsFound
    <2> QED
      BY <2>2, <2>3 DEF TargetsFound
  <1> QED
    BY <1>2, <1>3 DEF TargetsFound

\* The same operations keep finding their targets.
LEMMA TargetsStay ==
  ASSUME Typed, IndexInv, TargetsFound, [Next]_vars, op' = op
  PROVE  TargetsFound'
  <1> SUFFICES ASSUME NEW b \in Admin, NEW s \in op[b].targets
               PROVE  /\ op[b].pc = "list" /\ Live(s)' => s \in index'[op[b].user]
                      /\ op[b].pc = "delete" /\ Live(s)' => s \in op[b].ids
                      /\ op[b].pc = "unindex" => ~Live(s)'
    BY DEF TargetsFound
  <1>1. s \in used /\ (op[b].pc # "idle" => op[b].user \in User)
    BY DEF IndexInv, DrawnIds, Typed, Bound
  <1>2. Live(s)' => Live(s)
    BY <1>1, WorldMonotone
  <1>3. op[b].pc = "list" /\ Live(s)' => s \in index'[op[b].user]
    BY <1>1, <1>2, WorldMonotone DEF TargetsFound
  <1> QED
    BY <1>2, <1>3 DEF TargetsFound

\* What a browser was given of a user is in the index of that user.
LEMMA GivenIndexed ==
  ASSUME Typed, IndexInv, NEW u \in User
  PROVE  Given(u) \subseteq index[u]
  BY AccountsAssumption DEF Given, IndexInv, LiveIsIndexed, Typed, TypeOK, ClientTypes

\* Every step keeps the targets found.
LEMMA TargetsInductive == Typed /\ IndexInv /\ TargetsFound /\ [Next]_vars => TargetsFound'
  <1> SUFFICES ASSUME Typed, IndexInv, TargetsFound, [Next]_vars PROVE TargetsFound'
    OBVIOUS
  <1>1. op \in [Admin -> OpState] /\ used \subseteq Session
        /\ \A a \in Admin : op[a].targets \subseteq used
    BY DEF Typed, TypeOK, OpTypes, HistoryTypes, IndexInv, DrawnIds
  <1>2. IdleOp.targets = {}
    BY DEF IdleOp
  <1>3. ASSUME NEW a \in Admin, op' = [op EXCEPT ![a] = IdleOp] PROVE TargetsFound'
    BY <1>2, <1>3, TargetsMove
  <1>4. ASSUME NEW a \in Admin, NEW u \in User, NEW r \in Roles \cup {"keep"},
               NEW st \in Statuses \cup {"keep"}, AccessLock(a, u, r, st)
        PROVE  TargetsFound'
    <2> DEFINE next == [IdleOp EXCEPT !.pc = "decide", !.user = u, !.role = r, !.status = st]
    <2>1. next.targets = {}
      BY DEF IdleOp
    <2> QED
      BY <1>4, <2>1, TargetsMove DEF AccessLock
  <1>5. ASSUME NEW a \in Admin, AccessDecide(a) PROVE TargetsFound'
    <2> DEFINE write == [op[a] EXCEPT !.pc = "write"]
    <2>1. write.pc = "write"
      BY <1>1 DEF OpState
    <2>2. PICK next \in {write, IdleOp} : op' = [op EXCEPT ![a] = next]
      BY <1>5 DEF AccessDecide
    <2>3. CASE next = IdleOp
      BY <1>3, <2>2, <2>3
    <2>4. CASE next = write
      BY <2>1, <2>2, <2>4, TargetsMove
    <2> QED
      BY <2>2, <2>3, <2>4
  <1>6. ASSUME NEW a \in Admin, AccessWrite(a) PROVE TargetsFound'
    <2> DEFINE u == op[a].user
               list == [op[a] EXCEPT !.pc = "list", !.targets = Given(u)]
    <2>1. u \in User /\ UNCHANGED <<session, index>>
      BY <1>6 DEF AccessWrite, Typed, Bound, redis
    <2>2. list.pc = "list" /\ list.targets = Given(u) /\ list.user = u
      BY <1>1 DEF OpState
    <2>3. PICK next \in {list, IdleOp} : op' = [op EXCEPT ![a] = next]
      BY <1>6 DEF AccessWrite
    <2>4. CASE next = IdleOp
      BY <1>3, <2>3, <2>4
    <2>5. CASE next = list
      <3>1. \A s \in list.targets : s \in index'[list.user]
        BY <2>1, <2>2, GivenIndexed
      <3> QED
        BY <2>2, <2>3, <2>5, <3>1, TargetsMove
    <2> QED
      BY <2>3, <2>4, <2>5
  <1>7. ASSUME NEW a \in Admin, NEW u \in User, NEW change \in BOOLEAN,
               ResetPassword(a, u, change)
        PROVE  TargetsFound'
    <2> DEFINE next == [IdleOp EXCEPT !.pc = "list", !.user = u, !.targets = Given(u)]
    <2>1. next.pc = "list" /\ next.targets = Given(u) /\ next.user = u
      BY DEF IdleOp
    <2>2. \A s \in next.targets : s \in index'[next.user]
      BY <1>7, <2>1, GivenIndexed DEF ResetPassword, redis
    <2> QED
      BY <1>7, <2>1, <2>2, TargetsMove DEF ResetPassword
  <1>8. ASSUME NEW a \in Admin, RevokeList(a) PROVE TargetsFound'
    <2> DEFINE delete == [op[a] EXCEPT !.pc = "delete", !.ids = Members(op[a].user)]
    <2>1. delete.pc = "delete" /\ delete.targets = op[a].targets
          /\ delete.ids = index[op[a].user]
      BY <1>1 DEF OpState, Members
    <2>2. op[a].pc = "list" /\ UNCHANGED session
      BY <1>8 DEF RevokeList, redis
    <2>3. PICK next \in {delete, IdleOp} : op' = [op EXCEPT ![a] = next]
      BY <1>8 DEF RevokeList
    <2>4. CASE next = IdleOp
      BY <1>3, <2>3, <2>4
    <2>5. CASE next = delete
      <3>1. \A s \in delete.targets : Live(s)' => s \in delete.ids
        BY <2>1, <2>2 DEF TargetsFound, Live
      <3> QED
        BY <2>1, <2>3, <2>5, <3>1, TargetsMove
    <2> QED
      BY <2>3, <2>4, <2>5
  <1>9. ASSUME NEW a \in Admin, RevokeDelete(a) PROVE TargetsFound'
    <2> DEFINE next == [op[a] EXCEPT !.pc = "unindex"]
    <2>1. next.pc = "unindex" /\ next.targets = op[a].targets
      BY <1>1 DEF OpState
    <2>2. op[a].pc = "delete" /\ session' = Dropped(op[a].ids)
      BY <1>9 DEF RevokeDelete
    <2>3. \A s \in next.targets : ~Live(s)'
      <3> SUFFICES ASSUME NEW s \in op[a].targets PROVE ~Live(s)'
        BY <2>1
      <3>1. s \in Session /\ (Live(s) => s \in op[a].ids)
        BY <1>1, <2>2 DEF TargetsFound
      <3> QED
        BY <2>2, <3>1 DEF Dropped, Live
    <2> QED
      BY <1>9, <2>1, <2>3, TargetsMove DEF RevokeDelete
  <1>10. ASSUME NEW a \in Admin, RevokeUnindex(a) \/ OpAbort(a) PROVE TargetsFound'
    BY <1>3, <1>10 DEF RevokeUnindex, OpAbort
  <1>11. ASSUME NEW a \in Admin, NEW u \in User, NEW r \in Roles, NEW change \in BOOLEAN,
                CreateUser(a, u, r, change)
         PROVE  TargetsFound'
    BY <1>11, TargetsStay DEF CreateUser
  <1>12. ASSUME NEW c \in Client, ClientNext(c) PROVE TargetsFound'
    BY <1>12, ClientKeepsOps, TargetsStay
  <1>13. ASSUME NEW s \in Session, SessionExpires(s) PROVE TargetsFound'
    BY <1>13, TargetsStay DEF SessionExpires
  <1>14. CASE UNCHANGED vars
    BY <1>14, TargetsStay DEF vars
  <1> QED
    BY <1>4, <1>5, <1>6, <1>7, <1>8, <1>9, <1>10, <1>11, <1>12, <1>13, <1>14
    DEF Next, OpNext

\* With the targets found, a revocation that ends has deleted them.
LEMMA RevocationStep ==
  Typed /\ IndexInv /\ TargetsFound /\ [Next]_vars =>
    [\A a \in Admin :
       (RevokeList(a) \/ RevokeUnindex(a)) /\ op'[a].pc = "idle"
         => \A s \in op[a].targets : session'[s] = NoSession]_vars
  <1> SUFFICES ASSUME Typed, IndexInv, TargetsFound, NEW a \in Admin,
                      RevokeList(a) \/ RevokeUnindex(a), op'[a].pc = "idle",
                      NEW s \in op[a].targets
               PROVE  session'[s] = NoSession
    OBVIOUS
  <1>1. op \in [Admin -> OpState]
    BY DEF Typed, TypeOK, OpTypes
  <1>4. CASE RevokeUnindex(a)
    BY <1>4 DEF RevokeUnindex, TargetsFound, Live
  <1>5. CASE RevokeList(a)
    <2> DEFINE delete == [op[a] EXCEPT !.pc = "delete", !.ids = Members(op[a].user)]
    <2>1. delete.pc = "delete"
      BY <1>1 DEF OpState
    <2>2. index[op[a].user] = {}
      <3> SUFFICES ASSUME index[op[a].user] # {} PROVE FALSE
        OBVIOUS
      <3>1. op'[a] = delete
        BY <1>1, <1>5 DEF RevokeList, Members
      <3> QED
        BY <2>1, <3>1
    <2> QED
      BY <1>5, <2>2 DEF RevokeList, TargetsFound, Live, redis
  <1> QED
    BY <1>4, <1>5

\* A reset or a deactivation that finishes has deleted every session of the user that
\* a browser held when it was committed, whatever logins overlap it.
THEOREM RevokesAll == Spec => RevocationComplete
  BY InitTypes, TypeInductive, InitIndex, IndexInductive, TargetsInductive,
     RevocationStep, PTL DEF Spec, RevocationComplete
=============================================================================
