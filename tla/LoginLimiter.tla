---------------------------- MODULE LoginLimiter ----------------------------
(***************************************************************************)
(* The counters that slow down password guesses: one per user name and     *)
(* address, one per address, each with a window after which Redis drops    *)
(* it.  An attempt is a local login or a password change; it reads both    *)
(* counters, checks the password, and counts a failure or clears the       *)
(* counter of its pair.  Time goes in ticks, Window of them in 15 minutes. *)
(***************************************************************************)
EXTENDS Naturals, FiniteSets

CONSTANTS
  Attempt,    \* requests served at once
  Name, Ip,   \* user names (or accounts whose password is changed), addresses
  MaxPair,    \* MAX_FAILURES_PER_USER_AND_IP
  MaxIp,      \* MAX_FAILURES_PER_IP
  Window      \* LOGIN_WINDOW_SECONDS, in ticks

Pair == Name \X Ip
Key == Pair \cup Ip

ASSUME LimiterAssumption ==
  /\ IsFiniteSet(Attempt)
  /\ Pair \cap Ip = {}
  /\ MaxPair \in Nat \ {0} /\ MaxIp \in Nat \ {0} /\ Window \in Nat \ {0}

VARIABLES
  count,      \* the counters; 0 when Redis has no such key
  left,       \* ticks until Redis drops a key; 0 when it has no TTL
  a,          \* attempts
  recent      \* history: failures registered within 0, 1, 2... ticks

vars == <<count, left, a, recent>>

-----------------------------------------------------------------------------
\* todo: counters still to be read or incremented; over: one read was full;
\* full: history, counters that were full when it arrived and still are.
Idle == [pc |-> "idle", todo |-> {}, over |-> FALSE, pair |-> <<>>, full |-> {}]
AttemptState ==
  [pc : {"idle", "check", "verify", "fail", "clear"}, todo : SUBSET Key,
   over : BOOLEAN, pair : Pair \cup {<<>>}, full : SUBSET Key]

TypeOK ==
  /\ count \in [Key -> Nat]
  /\ left \in [Key -> 0 .. Window]
  /\ a \in [Attempt -> AttemptState]
  /\ recent \in [Key -> [0 .. Window - 1 -> Nat]]

Init ==
  /\ count = [k \in Key |-> 0] /\ left = [k \in Key |-> 0]
  /\ a = [x \in Attempt |-> Idle]
  /\ recent = [k \in Key |-> [i \in 0 .. Window - 1 |-> 0]]

-----------------------------------------------------------------------------
MaxOf(k) == IF k \in Ip THEN MaxIp ELSE MaxPair
KeysOf(pair) == {pair, pair[2]}
Full(k) == count[k] >= MaxOf(k)

Set(x, st) == a' = [a EXCEPT ![x] = st]

Arrive(x, pair) ==
  /\ a[x].pc = "idle"
  /\ Set(x, [pc |-> "check", todo |-> KeysOf(pair), over |-> FALSE, pair |-> pair,
             full |-> {k \in KeysOf(pair) : Full(k)}])
  /\ UNCHANGED <<count, left, recent>>

\* One GET of isLoginBlocked.
Read(x, k) ==
  LET over == a[x].over \/ Full(k)
      todo == a[x].todo \ {k}
  IN
  /\ a[x].pc = "check"
  /\ k \in a[x].todo
  /\ IF todo # {} THEN Set(x, [a[x] EXCEPT !.todo = todo, !.over = over])
     ELSE IF over THEN Set(x, Idle)
     ELSE Set(x, [a[x] EXCEPT !.pc = "verify", !.todo = {}])
  /\ UNCHANGED <<count, left, recent>>

\* Or an unknown user, or a disabled one.
WrongPassword(x) ==
  /\ a[x].pc = "verify"
  /\ Set(x, [a[x] EXCEPT !.pc = "fail", !.todo = KeysOf(a[x].pair)])
  /\ UNCHANGED <<count, left, recent>>

RightPassword(x) ==
  /\ a[x].pc = "verify"
  /\ Set(x, [a[x] EXCEPT !.pc = "clear"])
  /\ UNCHANGED <<count, left, recent>>

\* EXPIRE ... NX.
Mut_Extend(k) == [left EXCEPT ![k] = Window]
Windowed(k) == [left EXCEPT ![k] = IF left[k] = 0 THEN Window ELSE left[k]]

\* What is left to count for an attempt whose MULTI was answered.
Mut_Retried(x, k) == a' = a \/ a' = [a EXCEPT ![x] = Idle]
Done(x, k) ==
  LET todo == a[x].todo \ {k} IN
  Set(x, IF todo = {} THEN Idle ELSE [a[x] EXCEPT !.todo = todo])

\* One MULTI of registerFailedLogin.
Register(x, k) ==
  /\ a[x].pc = "fail"
  /\ k \in a[x].todo
  /\ count' = [count EXCEPT ![k] = @ + 1]
  /\ left' = Windowed(k)
  /\ recent' = [recent EXCEPT ![k] = [i \in 0 .. Window - 1 |-> recent[k][i] + 1]]
  /\ Done(x, k)

\* One that is aborted; the other is on its way already.
RegisterLost(x, k) ==
  /\ a[x].pc = "fail"
  /\ k \in a[x].todo
  /\ Done(x, k)
  /\ UNCHANGED <<count, left, recent>>

\* The counters an attempt that succeeded takes back.
Mut_ClearBoth(pair) == {pair, pair[2]}
Cleared(pair) == {pair}

\* An attempt no longer finds a counter full that was emptied.
Forget(K) == a' = [x \in Attempt |-> [a[x] EXCEPT !.full = @ \ K]]

\* clearFailedLogins.
Clear(x) ==
  LET K == Cleared(a[x].pair) IN
  /\ a[x].pc = "clear"
  /\ count' = [k \in Key |-> IF k \in K THEN 0 ELSE count[k]]
  /\ left' = [k \in Key |-> IF k \in K THEN 0 ELSE left[k]]
  /\ recent' = [recent EXCEPT ![a[x].pair] = [i \in 0 .. Window - 1 |-> 0]]
  /\ a' = [y \in Attempt |->
             IF y = x THEN Idle ELSE [a[y] EXCEPT !.full = @ \ {a[x].pair}]]

\* The database or Redis fails, or the process dies.
GiveUp(x) ==
  /\ a[x].pc # "idle"
  /\ Set(x, Idle)
  /\ UNCHANGED <<count, left, recent>>

\* Redis drops the keys whose window is over.
Tick ==
  LET over == {k \in Key : left[k] = 1} IN
  /\ left' = [k \in Key |-> IF left[k] = 0 THEN 0 ELSE left[k] - 1]
  /\ count' = [k \in Key |-> IF k \in over THEN 0 ELSE count[k]]
  /\ recent' = [k \in Key |-> [i \in 0 .. Window - 1 |->
                                 IF i = 0 THEN 0 ELSE recent[k][i - 1]]]
  /\ Forget(over)

Next ==
  \/ \E x \in Attempt :
       \/ \E pair \in Pair : Arrive(x, pair)
       \/ \E k \in Key : Read(x, k) \/ Register(x, k) \/ RegisterLost(x, k)
       \/ WrongPassword(x) \/ RightPassword(x) \/ Clear(x) \/ GiveUp(x)
  \/ Tick

Spec == Init /\ [][Next]_vars

-----------------------------------------------------------------------------
(***************************************************************************)
(* Properties.                                                             *)
(***************************************************************************)
\* Failures of the last 15 minutes.
OfWindow(k) == recent[k][Window - 1]

\* Story 4.1, criterion 10, for one window: the password of an attempt is not
\* checked when it arrived at a full counter that has not been emptied since.
NewAttemptRefused ==
  \A x \in Attempt : a[x].pc \in {"verify", "fail", "clear"} => a[x].full = {}

\* Attempts that have read counter k and may still add to it.
Past(k) ==
  {x \in Attempt :
    \/ a[x].pc = "check" /\ k \in KeysOf(a[x].pair) \ a[x].todo /\ ~a[x].over
    \/ a[x].pc = "verify" /\ k \in KeysOf(a[x].pair)
    \/ a[x].pc = "fail" /\ k \in a[x].todo}

\* However many guesses run at once, no more than those that run at once are
\* checked beyond the limit.
OvershootBounded ==
  \A k \in Key : count[k] + Cardinality(Past(k)) <= MaxOf(k) - 1 + Cardinality(Attempt)

\* The comment at EXPIRE ... NX: a counter counts no failure that is older than
\* the window, so occasional mistakes do not add up to a block.
OnlyRecentFailuresCount == \A k \in Key : count[k] <= OfWindow(k)

\* A successful login forgives its own pair only: a counter gets smaller only
\* when its window ends or a login of its pair succeeds.
OnlySuccessForgives ==
  [][\A k \in Key : count'[k] < count[k] =>
       \/ left[k] = 1
       \/ \E x \in Attempt : a[x].pc = "clear" /\ a[x].pair = k]_vars

\* What the fixed window leaves of criterion 10: any 15 minutes hold the failures
\* of two windows at most, so no more than twice what gets past one counter.  A
\* successful login forgives its pair (Clear), so that of a pair only the failures
\* since its last one are counted; nothing forgives an address.
TwiceTheLimitAtMost ==
  \A k \in Key : OfWindow(k) <= 2 * (MaxOf(k) - 1 + Cardinality(Attempt))

\* Story 4.1, criterion 10, as it reads: after that many failures in 15 minutes,
\* whichever 15 minutes, an attempt finds one of its counters full.  TLC refutes
\* this of the fixed window, see "Findings" in README.md.
FailuresBlock ==
  [][\A x \in Attempt, k \in Key :
       /\ a[x].pc = "idle" /\ a'[x].pc = "check" /\ k \in KeysOf(a'[x].pair)
       /\ OfWindow(k) >= MaxOf(k)
       => a'[x].full # {}]_vars
=============================================================================
