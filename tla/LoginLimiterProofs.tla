------------------------- MODULE LoginLimiterProofs -------------------------
(***************************************************************************)
(* Proofs about LoginLimiter: types, refusals, what forgives, how far      *)
(* guesses that run at once go beyond a limit, and what a counter counts.  *)
(***************************************************************************)
EXTENDS LoginLimiter, FiniteSetTheorems, TLAPS

\* An attempt under way is of a pair.
Typed == TypeOK /\ \A x \in Attempt : a[x].pc # "idle" => a[x].pair \in Pair

\* The counters of a pair.
LEMMA PairKeys ==
  ASSUME NEW pair \in Pair
  PROVE  KeysOf(pair) \subseteq Key /\ pair \in Key
  BY DEF KeysOf, Key, Pair

\* An attempt moves on to a typed state.
LEMMA SetTypes ==
  ASSUME Typed, NEW x \in Attempt, NEW st \in AttemptState, Set(x, st),
         st.pc # "idle" => st.pair \in Pair,
         count' \in [Key -> Nat], left' \in [Key -> 0 .. Window],
         recent' \in [Key -> [0 .. Window - 1 -> Nat]]
  PROVE  Typed'
  BY DEF Set, Typed, TypeOK

\* An idle attempt.
LEMMA IdleType == Idle \in AttemptState /\ Idle.pc = "idle" /\ Idle.full = {}
  BY DEF Idle, AttemptState

\* The initial state is typed.
LEMMA InitTypes == Init => Typed
  BY IdleType, LimiterAssumption DEF Init, Typed, TypeOK

\* The states of attempts after the steps that change one.
LEMMA AttemptMoves ==
  ASSUME Typed, NEW x \in Attempt, a[x].pc # "idle"
  PROVE  /\ a[x] \in AttemptState /\ a[x].pair \in Pair
         /\ \A pc \in {"check", "verify", "fail", "clear"}, todo \in SUBSET Key, over \in BOOLEAN :
              /\ [a[x] EXCEPT !.todo = todo, !.over = over] \in AttemptState
              /\ [a[x] EXCEPT !.todo = todo, !.over = over].pair \in Pair
              /\ [a[x] EXCEPT !.pc = pc, !.todo = todo] \in AttemptState
              /\ [a[x] EXCEPT !.pc = pc, !.todo = todo].pair \in Pair
              /\ [a[x] EXCEPT !.pc = pc] \in AttemptState
              /\ [a[x] EXCEPT !.pc = pc].pair \in Pair
              /\ [a[x] EXCEPT !.todo = todo] \in AttemptState
              /\ [a[x] EXCEPT !.todo = todo].pair \in Pair
  BY DEF Typed, TypeOK, AttemptState

\* The steps of attempts keep the types.
LEMMA TypesStep ==
  ASSUME Typed, [Next]_vars
  PROVE  Typed'
  <1> USE IdleType
  <1>0. /\ count \in [Key -> Nat] /\ left \in [Key -> 0 .. Window]
        /\ recent \in [Key -> [0 .. Window - 1 -> Nat]]
        /\ Window \in Nat /\ Window > 0
    BY LimiterAssumption DEF Typed, TypeOK
  <1>1. ASSUME NEW x \in Attempt, NEW pair \in Pair, Arrive(x, pair) PROVE Typed'
    <2> DEFINE st == [pc |-> "check", todo |-> KeysOf(pair), over |-> FALSE, pair |-> pair,
                      full |-> {k \in KeysOf(pair) : Full(k)}]
    <2>1. st \in AttemptState /\ st.pair \in Pair
      BY PairKeys DEF AttemptState
    <2> QED
      BY <1>0, <1>1, <2>1, SetTypes DEF Arrive
  <1>2. ASSUME NEW x \in Attempt, NEW k \in Key, Read(x, k) PROVE Typed'
    <2>1. PICK st \in {[a[x] EXCEPT !.todo = @ \ {k}, !.over = @ \/ Full(k)], Idle,
                       [a[x] EXCEPT !.pc = "verify", !.todo = {}]} : Set(x, st)
      BY <1>2 DEF Read
    <2>2. a[x] \in AttemptState /\ a[x].todo \in SUBSET Key /\ a[x].over \in BOOLEAN
      BY DEF Typed, TypeOK, AttemptState
    <2>3. a[x].pc # "idle" /\ (a[x].over \/ Full(k)) \in BOOLEAN
      BY <1>2, <2>2 DEF Read
    <2>4. st \in AttemptState /\ (st.pc # "idle" => st.pair \in Pair)
      <3>1. CASE st = Idle
        BY <3>1
      <3>2. CASE st = [a[x] EXCEPT !.todo = @ \ {k}, !.over = @ \/ Full(k)]
        <4>1. a[x].todo \ {k} \in SUBSET Key
          BY <2>2
        <4>2. /\ [a[x] EXCEPT !.todo = a[x].todo \ {k}, !.over = a[x].over \/ Full(k)] \in AttemptState
              /\ [a[x] EXCEPT !.todo = a[x].todo \ {k}, !.over = a[x].over \/ Full(k)].pair \in Pair
          BY <4>1, <2>3, AttemptMoves
        <4> QED
          BY <3>2, <4>2
      <3>3. CASE st = [a[x] EXCEPT !.pc = "verify", !.todo = {}]
        <4>1. {} \in SUBSET Key
          OBVIOUS
        <4> QED
          BY <3>3, <4>1, <2>3, AttemptMoves
      <3> QED
        BY <2>1, <3>1, <3>2, <3>3
    <2> QED
      BY <1>0, <1>2, <2>1, <2>4, SetTypes DEF Read
  <1>3. ASSUME NEW x \in Attempt, WrongPassword(x) \/ RightPassword(x) PROVE Typed'
    <2>1. a[x].pc # "idle"
      BY <1>3 DEF WrongPassword, RightPassword
    <2>2. KeysOf(a[x].pair) \in SUBSET Key
      BY <2>1, AttemptMoves, PairKeys
    <2> QED
      BY <1>0, <1>3, <2>1, <2>2, AttemptMoves, SetTypes DEF WrongPassword, RightPassword
  <1>4. ASSUME NEW x \in Attempt, NEW k \in Key, Register(x, k) \/ RegisterLost(x, k)
        PROVE  Typed'
    <2>1. a[x].pc # "idle" /\ Done(x, k)
      BY <1>4 DEF Register, RegisterLost
    <2>2. PICK st \in {[a[x] EXCEPT !.todo = a[x].todo \ {k}], Idle} : Set(x, st)
      BY <2>1 DEF Done
    <2>3. a[x].todo \ {k} \in SUBSET Key
      BY DEF Typed, TypeOK, AttemptState
    <2>4. st \in AttemptState /\ (st.pc # "idle" => st.pair \in Pair)
      BY <2>1, <2>2, <2>3, AttemptMoves
    <2>5. /\ count' \in [Key -> Nat] /\ left' \in [Key -> 0 .. Window]
          /\ recent' \in [Key -> [0 .. Window - 1 -> Nat]]
      <3>1. CASE RegisterLost(x, k)
        BY <1>0, <3>1 DEF RegisterLost
      <3>2. CASE Register(x, k)
        <4>1. count' \in [Key -> Nat]
          BY <1>0, <3>2 DEF Register
        <4>2. left' \in [Key -> 0 .. Window]
          BY <1>0, <3>2 DEF Register, Windowed
        <4>3. [i \in 0 .. Window - 1 |-> recent[k][i] + 1] \in [0 .. Window - 1 -> Nat]
          BY <1>0
        <4> QED
          BY <1>0, <3>2, <4>1, <4>2, <4>3 DEF Register
      <3> QED
        BY <1>4, <3>1, <3>2
    <2> QED
      BY <2>2, <2>4, <2>5, SetTypes
  <1>5. ASSUME NEW x \in Attempt, Clear(x) PROVE Typed'
    <2>1. count' \in [Key -> Nat] /\ left' \in [Key -> 0 .. Window]
      BY <1>0, <1>5 DEF Clear
    <2>2. recent' \in [Key -> [0 .. Window - 1 -> Nat]]
      <3>1. [i \in 0 .. Window - 1 |-> 0] \in [0 .. Window - 1 -> Nat]
        OBVIOUS
      <3> QED
        BY <1>0, <1>5, <3>1 DEF Clear
    <2>3. \A y \in Attempt : /\ a'[y] \in AttemptState
                             /\ a'[y].pc # "idle" => a'[y].pair \in Pair
      BY <1>5 DEF Clear, Typed, TypeOK, AttemptState
    <2>4. a' \in [Attempt -> AttemptState]
      BY <1>5, <2>3 DEF Clear
    <2> QED
      BY <2>1, <2>2, <2>3, <2>4 DEF Typed, TypeOK
  <1>6. ASSUME NEW x \in Attempt, GiveUp(x) PROVE Typed'
    BY <1>0, <1>6, SetTypes DEF GiveUp
  <1>7. CASE Tick
    <2>1. count' \in [Key -> Nat]
      BY <1>0, <1>7 DEF Tick
    <2>2. left' \in [Key -> 0 .. Window]
      <3>1. \A k \in Key : left[k] \in 0 .. Window
        BY <1>0
      <3>2. \A n \in 0 .. Window : n # 0 => n - 1 \in 0 .. Window
        BY <1>0
      <3> QED
        BY <1>0, <1>7, <3>1, <3>2 DEF Tick
    <2>3. recent' \in [Key -> [0 .. Window - 1 -> Nat]]
      <3>1. \A k \in Key : \A i \in 0 .. Window - 1 : i # 0 => recent[k][i - 1] \in Nat
        BY <1>0
      <3>2. \A k \in Key : [i \in 0 .. Window - 1 |-> IF i = 0 THEN 0 ELSE recent[k][i - 1]]
                             \in [0 .. Window - 1 -> Nat]
        BY <3>1
      <3> QED
        BY <1>7, <3>2 DEF Tick
    <2>4. \A y \in Attempt : /\ a'[y] \in AttemptState
                             /\ a'[y].pc # "idle" => a'[y].pair \in Pair
      BY <1>7 DEF Tick, Forget, Typed, TypeOK, AttemptState
    <2>5. a' \in [Attempt -> AttemptState]
      BY <1>7, <2>4 DEF Tick, Forget
    <2> QED
      BY <2>1, <2>2, <2>3, <2>4, <2>5 DEF Typed, TypeOK
  <1>8. CASE UNCHANGED vars
    BY <1>8 DEF vars, Typed, TypeOK
  <1> QED
    BY <1>1, <1>2, <1>3, <1>4, <1>5, <1>6, <1>7, <1>8 DEF Next

\* The invariant the other proofs rest on.
LEMMA Types == Spec => []Typed
  BY InitTypes, TypesStep, PTL DEF Spec

\* Counters, windows, attempts and the failures of the last window have their types.
THEOREM TypeCorrect == Spec => []TypeOK
  <1>1. Typed => TypeOK
    BY DEF Typed
  <1> QED
    BY <1>1, Types, PTL

-----------------------------------------------------------------------------
\* Full counters are remembered until they are emptied, and an attempt that
\* found one full is going to read it.
FullInv ==
  \A x \in Attempt :
    /\ \A k \in a[x].full : Full(k)
    /\ a[x].pc = "check" /\ ~a[x].over => a[x].full \subseteq a[x].todo
    /\ a[x].pc \in {"verify", "fail", "clear"} => a[x].full = {}

\* No attempt has found anything full at the start.
LEMMA InitFull == Init => FullInv
  BY IdleType DEF Init, FullInv, Idle

\* The fields of an attempt that a step leaves alone.
LEMMA Fields ==
  ASSUME NEW st \in AttemptState
  PROVE  /\ \A K : /\ [st EXCEPT !.full = K].full = K
                  /\ [st EXCEPT !.full = K].pc = st.pc
                  /\ [st EXCEPT !.full = K].todo = st.todo
                  /\ [st EXCEPT !.full = K].over = st.over
                  /\ [st EXCEPT !.full = K].pair = st.pair
         /\ \A pc, todo : /\ [st EXCEPT !.pc = pc, !.todo = todo].pc = pc
                         /\ [st EXCEPT !.pc = pc, !.todo = todo].todo = todo
                         /\ [st EXCEPT !.pc = pc, !.todo = todo].full = st.full
                         /\ [st EXCEPT !.pc = pc, !.todo = todo].pair = st.pair
         /\ \A pc : /\ [st EXCEPT !.pc = pc].pc = pc
                   /\ [st EXCEPT !.pc = pc].full = st.full
         /\ \A todo : /\ [st EXCEPT !.todo = todo].pc = st.pc
                     /\ [st EXCEPT !.todo = todo].todo = todo
                     /\ [st EXCEPT !.todo = todo].full = st.full
                     /\ [st EXCEPT !.todo = todo].pair = st.pair
         /\ \A todo, over : /\ [st EXCEPT !.todo = todo, !.over = over].pc = st.pc
                           /\ [st EXCEPT !.todo = todo, !.over = over].todo = todo
                           /\ [st EXCEPT !.todo = todo, !.over = over].over = over
                           /\ [st EXCEPT !.todo = todo, !.over = over].full = st.full
                           /\ [st EXCEPT !.todo = todo, !.over = over].pair = st.pair
  BY DEF AttemptState

\* A step of one attempt that empties no counter keeps FullInv.
LEMMA SetFull ==
  ASSUME Typed, FullInv, NEW x \in Attempt, NEW st, Set(x, st),
         \A k \in Key : count'[k] \in Nat /\ count'[k] >= count[k],
         \A k \in st.full : k \in Key /\ Full(k),
         st.pc = "check" /\ ~st.over => st.full \subseteq st.todo,
         st.pc \in {"verify", "fail", "clear"} => st.full = {}
  PROVE  FullInv'
  <1>1. \A k \in Key : Full(k) => Full(k)'
    <2> SUFFICES ASSUME NEW k \in Key, Full(k) PROVE Full(k)'
      OBVIOUS
    <2>1. count[k] \in Nat /\ MaxOf(k) \in Nat
      BY LimiterAssumption DEF Typed, TypeOK, MaxOf
    <2> QED
      BY <2>1 DEF Full, MaxOf
  <1>2. \A y \in Attempt : a'[y] = (IF y = x THEN st ELSE a[y]) /\ a[y].full \subseteq Key
    BY DEF Set, Typed, TypeOK, AttemptState
  <1> QED
    BY <1>1, <1>2 DEF FullInv

\* A step that empties the counters in K and has every attempt forget them.
LEMMA ForgetFull ==
  ASSUME Typed, FullInv, NEW K \in SUBSET Key, NEW X \in SUBSET Attempt,
         \A k \in Key \ K : count'[k] = count[k],
         \A y \in X : a'[y] = Idle,
         \A y \in Attempt \ X : a'[y] = [a[y] EXCEPT !.full = a[y].full \ K]
  PROVE  FullInv'
  <1>1. \A k \in Key \ K : Full(k) => Full(k)'
    BY DEF Full, MaxOf
  <1>2. \A y \in Attempt \ X : /\ a[y].full \subseteq Key
                              /\ a'[y].full = a[y].full \ K /\ a'[y].pc = a[y].pc
                              /\ a'[y].todo = a[y].todo /\ a'[y].over = a[y].over
    <2>1. \A y \in Attempt : a[y] \in AttemptState /\ a[y].full \subseteq Key
      BY DEF Typed, TypeOK, AttemptState
    <2>2. ASSUME NEW y \in Attempt \ X
          PROVE  /\ a[y].full \subseteq Key
                 /\ a'[y].full = a[y].full \ K /\ a'[y].pc = a[y].pc
                 /\ a'[y].todo = a[y].todo /\ a'[y].over = a[y].over
      <3>1. a'[y] = [a[y] EXCEPT !.full = a[y].full \ K]
        OBVIOUS
      <3>2. a[y] \in AttemptState /\ a[y].full \subseteq Key
        BY <2>1
      <3> QED
        BY <3>1, <3>2, Fields
    <2> QED
      BY <2>2
  <1> QED
    BY <1>1, <1>2, IdleType DEF FullInv

\* Every step keeps FullInv.
LEMMA FullStep ==
  ASSUME Typed, FullInv, [Next]_vars
  PROVE  FullInv'
  <1> USE IdleType
  <1>0. /\ count \in [Key -> Nat]
        /\ \A y \in Attempt : a[y] \in AttemptState /\ a[y].full \subseteq Key
    BY DEF Typed, TypeOK, AttemptState
  <1>1. ASSUME NEW x \in Attempt, NEW pair \in Pair, Arrive(x, pair) PROVE FullInv'
    BY <1>0, <1>1, PairKeys, SetFull DEF Arrive
  <1>2. ASSUME NEW x \in Attempt, NEW k \in Key, Read(x, k) PROVE FullInv'
    <2>1. PICK st : Set(x, st) /\ st \in {[a[x] EXCEPT !.todo = a[x].todo \ {k}, !.over = a[x].over \/ Full(k)],
                        Idle, [a[x] EXCEPT !.pc = "verify", !.todo = {}]}
                  /\ (st.pc = "verify" => a[x].todo \ {k} = {} /\ ~a[x].over /\ ~Full(k))
      <3>1. CASE a[x].todo \ {k} # {}
        <4> DEFINE st == [a[x] EXCEPT !.todo = a[x].todo \ {k}, !.over = a[x].over \/ Full(k)]
        <4>1. Set(x, st)
          BY <1>2, <3>1 DEF Read
        <4>2. a[x].pc = "check"
          BY <1>2 DEF Read
        <4>3. st.pc = "check"
          BY <1>0, <4>2 DEF AttemptState
        <4> HIDE DEF st
        <4> WITNESS st
        <4>4. st.pc # "verify"
          BY <4>3
        <4>5. st = [a[x] EXCEPT !.todo = a[x].todo \ {k}, !.over = a[x].over \/ Full(k)]
          BY DEF st
        <4> QED
          BY <4>1, <4>4, <4>5
      <3>2. CASE a[x].todo \ {k} = {} /\ (a[x].over \/ Full(k))
        BY <1>2, <3>2 DEF Read
      <3>3. CASE a[x].todo \ {k} = {} /\ ~(a[x].over \/ Full(k))
        BY <1>2, <3>3 DEF Read
      <3> QED
        BY <3>1, <3>2, <3>3
    <2>2. a[x].pc = "check" /\ count' = count
      BY <1>2 DEF Read
    <2>3. /\ \A j \in a[x].full : j \in Key /\ Full(j)
          /\ ~a[x].over => a[x].full \subseteq a[x].todo
      BY <1>0, <2>2 DEF FullInv
    <2>4. CASE st = Idle
      BY <1>0, <2>1, <2>2, <2>4, SetFull
    <2>5. CASE st = [a[x] EXCEPT !.todo = a[x].todo \ {k}, !.over = a[x].over \/ Full(k)]
      <3>1. /\ st.pc = "check" /\ st.full = a[x].full /\ st.todo = a[x].todo \ {k}
            /\ st.over = (a[x].over \/ Full(k))
        BY <1>0, <2>2, <2>5 DEF AttemptState
      <3>2. ~st.over => st.full \subseteq st.todo
        BY <2>3, <3>1
      <3>3. \A j \in st.full : j \in Key /\ Full(j)
        BY <2>3, <3>1
      <3>4. \A j \in Key : count'[j] \in Nat /\ count'[j] >= count[j]
        BY <1>0, <2>2
      <3> QED
        BY <2>1, <3>1, <3>2, <3>3, <3>4, SetFull
    <2>6. CASE st = [a[x] EXCEPT !.pc = "verify", !.todo = {}]
      <3>1. st.pc = "verify" /\ st.full = a[x].full
        BY <1>0, <2>6 DEF AttemptState
      <3>2. a[x].full = {}
        BY <2>1, <2>3, <3>1
      <3> QED
        BY <1>0, <2>1, <2>2, <3>1, <3>2, SetFull
    <2> QED
      BY <2>1, <2>4, <2>5, <2>6
  <1>3. ASSUME NEW x \in Attempt, WrongPassword(x) \/ RightPassword(x) PROVE FullInv'
    <2>1. PICK st : Set(x, st) /\ st.pc \in {"fail", "clear"} /\ st.full = a[x].full
      <3>0. a[x] \in AttemptState
        BY <1>0
      <3>1. CASE WrongPassword(x)
        <4> DEFINE st == [a[x] EXCEPT !.pc = "fail", !.todo = KeysOf(a[x].pair)]
        <4>1. st.pc = "fail" /\ st.full = a[x].full
          BY <3>0 DEF AttemptState
        <4>2. Set(x, st)
          BY <3>1 DEF WrongPassword
        <4> HIDE DEF st
        <4> QED
          BY <4>1, <4>2
      <3>2. CASE RightPassword(x)
        <4> DEFINE st == [a[x] EXCEPT !.pc = "clear"]
        <4>1. st.pc = "clear" /\ st.full = a[x].full
          BY <3>0 DEF AttemptState
        <4>2. Set(x, st)
          BY <3>2 DEF RightPassword
        <4> HIDE DEF st
        <4> QED
          BY <4>1, <4>2
      <3> QED
        BY <1>3, <3>1, <3>2
    <2>2. a[x].full = {} /\ count' = count
      BY <1>3 DEF WrongPassword, RightPassword, FullInv
    <2> QED
      BY <1>0, <2>1, <2>2, SetFull
  <1>4. ASSUME NEW x \in Attempt, NEW k \in Key, Register(x, k) \/ RegisterLost(x, k)
        PROVE  FullInv'
    <2>1. a[x].pc = "fail" /\ a[x].full = {}
      BY <1>4 DEF Register, RegisterLost, FullInv
    <2>2. PICK st : Set(x, st) /\ st.pc \in {"fail", "idle"} /\ st.full = {}
      <3>0. a[x] \in AttemptState /\ Done(x, k)
        BY <1>0, <1>4 DEF Register, RegisterLost
      <3>1. CASE a[x].todo \ {k} = {}
        BY <3>0, <3>1 DEF Done
      <3>2. CASE a[x].todo \ {k} # {}
        <4> DEFINE st == [a[x] EXCEPT !.todo = a[x].todo \ {k}]
        <4>1. st.pc = "fail" /\ st.full = {}
          BY <2>1, <3>0 DEF AttemptState
        <4>2. Set(x, st)
          BY <3>0, <3>2 DEF Done
        <4> HIDE DEF st
        <4> QED
          BY <4>1, <4>2
      <3> QED
        BY <3>1, <3>2
    <2>3. \A j \in Key : count'[j] \in Nat /\ count'[j] >= count[j]
      BY <1>0, <1>4 DEF Register, RegisterLost
    <2> QED
      BY <2>2, <2>3, SetFull
  <1>5. ASSUME NEW x \in Attempt, Clear(x) PROVE FullInv'
    <2>1. a[x].pair \in Pair /\ a[x].pair \in Key
      BY <1>5, PairKeys DEF Clear, Typed
    <2>2. \A k \in Key \ {a[x].pair} : count'[k] = count[k]
      BY <1>5 DEF Clear, Cleared
    <2>3. a'[x] = Idle
      BY <1>5 DEF Clear
    <2>4. \A y \in Attempt \ {x} : a'[y] = [a[y] EXCEPT !.full = a[y].full \ {a[x].pair}]
      BY <1>5 DEF Clear
    <2>5. {a[x].pair} \in SUBSET Key /\ {x} \in SUBSET Attempt
      BY <2>1
    <2> QED
      BY <2>2, <2>3, <2>4, <2>5, ForgetFull
  <1>6. ASSUME NEW x \in Attempt, GiveUp(x) PROVE FullInv'
    BY <1>0, <1>6, SetFull DEF GiveUp
  <1>7. CASE Tick
    <2>1. \A k \in Key \ {j \in Key : left[j] = 1} : count'[k] = count[k]
      BY <1>7 DEF Tick
    <2> QED
      BY <1>7, <2>1, ForgetFull DEF Tick, Forget
  <1>8. CASE UNCHANGED vars
    BY <1>8 DEF vars, FullInv, Full, MaxOf
  <1> QED
    BY <1>1, <1>2, <1>3, <1>4, <1>5, <1>6, <1>7, <1>8 DEF Next

\* Story 4.1, criterion 10, for one window: no password is checked for an
\* attempt that arrived at a full counter that was not emptied since, whatever
\* other attempts register between its reads.
THEOREM NewRefused == Spec => []NewAttemptRefused
  <1>1. FullInv => NewAttemptRefused
    BY DEF FullInv, NewAttemptRefused
  <1>2. Spec => []FullInv
    BY InitFull, FullStep, Types, PTL DEF Spec
  <1> QED
    BY <1>1, <1>2, PTL

-----------------------------------------------------------------------------
\* A successful login forgives its own pair only: a counter gets smaller only
\* when its window ends or a login of its pair succeeds.
THEOREM OnlyOwnPair == Spec => OnlySuccessForgives
  <1> DEFINE Reason == \A k \in Key : count'[k] < count[k] =>
                 \/ left[k] = 1
                 \/ \E x \in Attempt : a[x].pc = "clear" /\ a[x].pair = k
  <1>1. ASSUME Typed, [Next]_vars PROVE [Reason]_vars
    <2>0. count \in [Key -> Nat]
      BY <1>1 DEF Typed, TypeOK
    <2>1. ASSUME NEW x \in Attempt, Clear(x) PROVE Reason
      BY <2>0, <2>1 DEF Clear, Cleared
    <2>2. CASE Tick
      BY <2>0, <2>2 DEF Tick
    <2>3. ASSUME NEW x \in Attempt, NEW k \in Key, Register(x, k) PROVE Reason
      BY <2>0, <2>3 DEF Register
    <2>4. CASE count' = count
      BY <2>0, <2>4
    <2>5. CASE UNCHANGED vars
      BY <2>5
    <2> QED
      BY <1>1, <2>1, <2>2, <2>3, <2>4, <2>5
         DEF Next, Arrive, Read, RegisterLost, WrongPassword, RightPassword, GiveUp
  <1>2. Spec => [][Reason]_vars
    BY <1>1, Types, PTL DEF Spec
  <1> QED
    BY <1>2 DEF OnlySuccessForgives

-----------------------------------------------------------------------------
\* The counter and those who may still add to it.
Bounded(k) == count[k] + Cardinality(Past(k)) <= MaxOf(k) - 1 + Cardinality(Attempt)

\* No more attempts are past a counter than there are.
LEMMA PastSize ==
  /\ Cardinality(Attempt) \in Nat
  /\ \A k : /\ Past(k) \subseteq Attempt /\ IsFiniteSet(Past(k))
           /\ Cardinality(Past(k)) \in Nat
           /\ Cardinality(Past(k)) <= Cardinality(Attempt)
  BY LimiterAssumption, FS_Subset, FS_CardinalityType DEF Past

\* The limits are positive.
LEMMA Limits == \A k : MaxOf(k) \in Nat /\ MaxOf(k) > 0 /\ (MaxOf(k))' = MaxOf(k)
  BY LimiterAssumption DEF MaxOf

\* A counter at zero is within the bound.
LEMMA ZeroBounded ==
  ASSUME NEW k, count[k] = 0
  PROVE  Bounded(k)
  BY PastSize, Limits DEF Bounded

\* So is one that a step leaves with room.
LEMMA FreeBoundedNext ==
  ASSUME NEW k, count'[k] \in Nat, ~Full(k)'
  PROVE  Bounded(k)'
  <1>1. Past(k)' \subseteq Attempt
    BY DEF Past
  <1>2. /\ Cardinality(Past(k)') \in Nat
        /\ Cardinality(Past(k)') <= Cardinality(Attempt) /\ Cardinality(Attempt) \in Nat
    BY <1>1, LimiterAssumption, FS_Subset, FS_CardinalityType
  <1> QED
    BY <1>2, Limits DEF Bounded, Full, MaxOf

\* Nobody new gets past a counter that does not grow.
LEMMA ShrinkBounded ==
  ASSUME NEW k, Bounded(k), count[k] \in Nat, count'[k] \in Nat, count'[k] <= count[k],
         Past(k)' \subseteq Past(k)
  PROVE  Bounded(k)'
  <1>1. Cardinality(Past(k)') <= Cardinality(Past(k)) /\ Cardinality(Past(k)') \in Nat
    BY PastSize, FS_Subset, FS_CardinalityType
  <1> QED
    BY <1>1, PastSize, Limits DEF Bounded

\* Whoever adds to a counter is no longer past it.
LEMMA GrowBounded ==
  ASSUME NEW k, Bounded(k), count[k] \in Nat, count'[k] = count[k] + 1,
         NEW x \in Past(k), Past(k)' \subseteq Past(k) \ {x}
  PROVE  Bounded(k)'
  <1>1. /\ IsFiniteSet(Past(k) \ {x})
        /\ Cardinality(Past(k) \ {x}) = Cardinality(Past(k)) - 1
    BY PastSize, FS_RemoveElement
  <1>2. /\ Cardinality(Past(k)') <= Cardinality(Past(k) \ {x})
        /\ Cardinality(Past(k)') \in Nat
    BY <1>1, FS_Subset, FS_CardinalityType
  <1> QED
    BY <1>1, <1>2, PastSize, Limits DEF Bounded

\* Attempts that keep their place, whatever else is noted about them.
LEMMA PastKept ==
  ASSUME NEW k, NEW X \in SUBSET Attempt,
         \A y \in X : a'[y] = Idle,
         \A y \in Attempt \ X : /\ a'[y].pc = a[y].pc /\ a'[y].todo = a[y].todo
                              /\ a'[y].over = a[y].over /\ a'[y].pair = a[y].pair
  PROVE  Past(k)' \subseteq Past(k)
  BY IdleType DEF Past, KeysOf

\* A step of one attempt after which it is past no other counter than before.
LEMMA PastOfOne ==
  ASSUME Typed, NEW k, NEW x \in Attempt, NEW st, Set(x, st),
         st.pc = "check" /\ k \in KeysOf(st.pair) \ st.todo /\ ~st.over => x \in Past(k),
         st.pc = "verify" /\ k \in KeysOf(st.pair) => x \in Past(k),
         st.pc = "fail" /\ k \in st.todo => x \in Past(k)
  PROVE  Past(k)' \subseteq Past(k)
  <1>1. \A y \in Attempt : a'[y] = IF y = x THEN st ELSE a[y]
    BY DEF Set, Typed, TypeOK
  <1> QED
    BY <1>1 DEF Past, KeysOf

\* Every step keeps the bound of every counter.
LEMMA BoundStep ==
  ASSUME Typed, OvershootBounded, [Next]_vars
  PROVE  OvershootBounded'
  <1> USE IdleType
  <1> SUFFICES ASSUME NEW k \in Key PROVE Bounded(k)'
    BY DEF OvershootBounded, Bounded
  <1>0. /\ Bounded(k) /\ count \in [Key -> Nat] /\ count[k] \in Nat
        /\ \A y \in Attempt : a[y] \in AttemptState
    BY DEF OvershootBounded, Bounded, Typed, TypeOK
  <1>1. ASSUME NEW x \in Attempt, NEW pair \in Pair, Arrive(x, pair) PROVE Bounded(k)'
    <2>1. Past(k)' \subseteq Past(k)
      BY <1>1, PastOfOne DEF Arrive
    <2> QED
      BY <1>0, <1>1, <2>1, ShrinkBounded DEF Arrive
  <1>2. ASSUME NEW x \in Attempt, NEW j \in Key, Read(x, j) PROVE Bounded(k)'
    <2>0. count' = count /\ a[x].pc = "check" /\ a[x] \in AttemptState
      BY <1>0, <1>2 DEF Read
    <2>1. CASE k = j /\ ~Full(k)
      <3>1. ~Full(k)' /\ count'[k] \in Nat
        BY <1>0, <2>0, <2>1 DEF Full, MaxOf
      <3> QED
        BY <3>1, FreeBoundedNext
    <2>2. CASE k # j \/ Full(k)
      <3>1. CASE a[x].todo \ {j} # {}
        <4> DEFINE st == [a[x] EXCEPT !.todo = a[x].todo \ {j}, !.over = a[x].over \/ Full(j)]
        <4>1. Set(x, st)
          BY <1>2, <3>1 DEF Read
        <4>2. /\ st.pc = "check" /\ st.todo = a[x].todo \ {j} /\ st.pair = a[x].pair
              /\ st.over = (a[x].over \/ Full(j))
          BY <2>0 DEF AttemptState
        <4>3. k \in KeysOf(st.pair) \ st.todo /\ ~st.over => x \in Past(k)
          BY <2>0, <2>2, <4>2 DEF Past
        <4> HIDE DEF st
        <4>4. Past(k)' \subseteq Past(k)
          BY <4>1, <4>2, <4>3, PastOfOne
        <4> QED
          BY <1>0, <2>0, <4>4, ShrinkBounded
      <3>2. CASE a[x].todo \ {j} = {} /\ (a[x].over \/ Full(j))
        <4>1. Set(x, Idle)
          BY <1>2, <3>2 DEF Read
        <4>2. Past(k)' \subseteq Past(k)
          BY <4>1, PastOfOne
        <4> QED
          BY <1>0, <2>0, <4>2, ShrinkBounded
      <3>3. CASE a[x].todo \ {j} = {} /\ ~(a[x].over \/ Full(j))
        <4> DEFINE st == [a[x] EXCEPT !.pc = "verify", !.todo = {}]
        <4>1. Set(x, st)
          BY <1>2, <3>3 DEF Read
        <4>2. st.pc = "verify" /\ st.pair = a[x].pair
          BY <2>0 DEF AttemptState
        <4>3. k \in KeysOf(st.pair) => x \in Past(k)
          BY <2>0, <2>2, <3>3, <4>2 DEF Past
        <4> HIDE DEF st
        <4>4. Past(k)' \subseteq Past(k)
          BY <4>1, <4>2, <4>3, PastOfOne
        <4> QED
          BY <1>0, <2>0, <4>4, ShrinkBounded
      <3> QED
        BY <3>1, <3>2, <3>3
    <2> QED
      BY <2>1, <2>2
  <1>3. ASSUME NEW x \in Attempt, WrongPassword(x) \/ RightPassword(x) PROVE Bounded(k)'
    <2>0. count' = count /\ a[x].pc = "verify" /\ a[x] \in AttemptState
      BY <1>0, <1>3 DEF WrongPassword, RightPassword
    <2>1. PICK st : /\ Set(x, st) /\ st.pc \in {"fail", "clear"}
                    /\ st.pc = "fail" => st.todo = KeysOf(a[x].pair)
      <3>1. CASE WrongPassword(x)
        <4> DEFINE st == [a[x] EXCEPT !.pc = "fail", !.todo = KeysOf(a[x].pair)]
        <4>1. st.pc = "fail" /\ st.todo = KeysOf(a[x].pair)
          BY <2>0 DEF AttemptState
        <4>2. Set(x, st)
          BY <3>1 DEF WrongPassword
        <4> HIDE DEF st
        <4> QED
          BY <4>1, <4>2
      <3>2. CASE RightPassword(x)
        <4> DEFINE st == [a[x] EXCEPT !.pc = "clear"]
        <4>1. st.pc = "clear"
          BY <2>0 DEF AttemptState
        <4>2. Set(x, st)
          BY <3>2 DEF RightPassword
        <4> HIDE DEF st
        <4> QED
          BY <4>1, <4>2
      <3> QED
        BY <1>3, <3>1, <3>2
    <2>2. k \in KeysOf(a[x].pair) => x \in Past(k)
      BY <2>0 DEF Past
    <2>3. Past(k)' \subseteq Past(k)
      BY <2>1, <2>2, PastOfOne
    <2> QED
      BY <1>0, <2>0, <2>3, ShrinkBounded
  <1>4. ASSUME NEW x \in Attempt, NEW j \in Key, Register(x, j) \/ RegisterLost(x, j)
        PROVE  Bounded(k)'
    <2>0. a[x].pc = "fail" /\ a[x] \in AttemptState /\ j \in a[x].todo
      BY <1>0, <1>4 DEF Register, RegisterLost
    <2>1. PICK st : /\ Set(x, st) /\ st.pc \in {"fail", "idle"}
                    /\ st.pc = "fail" => st.todo = a[x].todo \ {j}
      <3>0. Done(x, j)
        BY <1>4 DEF Register, RegisterLost
      <3>1. CASE a[x].todo \ {j} = {}
        BY <3>0, <3>1 DEF Done, Idle
      <3>2. CASE a[x].todo \ {j} # {}
        <4> DEFINE st == [a[x] EXCEPT !.todo = a[x].todo \ {j}]
        <4>1. st.pc = "fail" /\ st.todo = a[x].todo \ {j}
          BY <2>0 DEF AttemptState
        <4>2. Set(x, st)
          BY <3>0, <3>2 DEF Done
        <4> HIDE DEF st
        <4> QED
          BY <4>1, <4>2
      <3> QED
        BY <3>1, <3>2
    <2>2. Past(k)' \subseteq Past(k)
      <3>1. st.pc = "fail" /\ k \in st.todo => x \in Past(k)
        BY <2>0, <2>1 DEF Past
      <3> QED
        BY <2>1, <3>1, PastOfOne
    <2>3. CASE count'[k] = count[k]
      BY <1>0, <2>2, <2>3, ShrinkBounded
    <2>4. CASE count'[k] # count[k]
      <3>1. k = j /\ count'[k] = count[k] + 1
        BY <1>0, <1>4, <2>4 DEF Register, RegisterLost
      <3>2. x \in Past(k)
        BY <2>0, <3>1 DEF Past
      <3>3. a'[x] = st
        BY <2>1 DEF Set, Typed, TypeOK
      <3>4. x \notin Past(k)'
        BY <2>1, <3>1, <3>3 DEF Past
      <3> QED
        BY <1>0, <2>2, <3>1, <3>2, <3>4, GrowBounded
    <2> QED
      BY <2>3, <2>4
  <1>5. ASSUME NEW x \in Attempt, Clear(x) PROVE Bounded(k)'
    <2>1. count'[k] \in {0, count[k]}
      BY <1>5 DEF Clear
    <2>2. \A y \in Attempt \ {x} : a'[y] = [a[y] EXCEPT !.full = a[y].full \ {a[x].pair}]
      BY <1>5 DEF Clear
    <2>3. a'[x] = Idle
      BY <1>5 DEF Clear
    <2>4. \A y \in Attempt \ {x} : /\ a'[y].pc = a[y].pc /\ a'[y].todo = a[y].todo
                                 /\ a'[y].over = a[y].over /\ a'[y].pair = a[y].pair
      <3>1. ASSUME NEW y \in Attempt \ {x}
            PROVE  /\ a'[y].pc = a[y].pc /\ a'[y].todo = a[y].todo
                   /\ a'[y].over = a[y].over /\ a'[y].pair = a[y].pair
        <4>1. a'[y] = [a[y] EXCEPT !.full = a[y].full \ {a[x].pair}]
          BY <2>2
        <4>2. a[y] \in AttemptState
          BY <1>0
        <4> QED
          BY <4>1, <4>2, Fields
      <3> QED
        BY <3>1
    <2>5. {x} \in SUBSET Attempt
      OBVIOUS
    <2>6. Past(k)' \subseteq Past(k)
      BY <2>3, <2>4, <2>5, PastKept
    <2> QED
      BY <1>0, <2>1, <2>6, ShrinkBounded
  <1>6. ASSUME NEW x \in Attempt, GiveUp(x) PROVE Bounded(k)'
    <2>1. Past(k)' \subseteq Past(k)
      BY <1>6, PastOfOne DEF GiveUp
    <2> QED
      BY <1>0, <1>6, <2>1, ShrinkBounded DEF GiveUp
  <1>7. CASE Tick
    <2>1. count'[k] \in {0, count[k]}
      BY <1>7 DEF Tick
    <2>2. \A y \in Attempt : a'[y] = [a[y] EXCEPT !.full = a[y].full \ {j \in Key : left[j] = 1}]
      BY <1>7 DEF Tick, Forget
    <2>3. \A y \in Attempt : /\ a'[y].pc = a[y].pc /\ a'[y].todo = a[y].todo
                           /\ a'[y].over = a[y].over /\ a'[y].pair = a[y].pair
      <3>1. ASSUME NEW y \in Attempt
            PROVE  /\ a'[y].pc = a[y].pc /\ a'[y].todo = a[y].todo
                   /\ a'[y].over = a[y].over /\ a'[y].pair = a[y].pair
        <4>1. a'[y] = [a[y] EXCEPT !.full = a[y].full \ {j \in Key : left[j] = 1}]
          BY <2>2
        <4>2. a[y] \in AttemptState
          BY <1>0
        <4> QED
          BY <4>1, <4>2, Fields
      <3> QED
        BY <3>1
    <2>4. {} \in SUBSET Attempt
      OBVIOUS
    <2>5. Past(k)' \subseteq Past(k)
      BY <2>3, <2>4, PastKept
    <2> QED
      BY <1>0, <2>1, <2>5, ShrinkBounded
  <1>8. CASE UNCHANGED vars
    <2>1. Past(k)' \subseteq Past(k)
      BY <1>8 DEF vars, Past, KeysOf
    <2> QED
      BY <1>0, <1>8, <2>1, ShrinkBounded DEF vars
  <1> QED
    BY <1>1, <1>2, <1>3, <1>4, <1>5, <1>6, <1>7, <1>8 DEF Next

\* However many guesses run at once, no more than those that run at once are
\* checked beyond the limit.
THEOREM Overshoot == Spec => []OvershootBounded
  <1>1. Init => OvershootBounded
    BY ZeroBounded DEF Init, OvershootBounded, Bounded
  <1> QED
    BY <1>1, BoundStep, Types, PTL DEF Spec

-----------------------------------------------------------------------------
\* A counter holds the failures since its window began, which lie within
\* Window - left ticks; those before are of one window that is over.
SinceStart(k) ==
  /\ left[k] = 0 => count[k] = 0 /\ recent[k][0] = 0
  /\ left[k] > 0 => count[k] = recent[k][Window - left[k]]
MoreTimeMoreFailures(k) ==
  \A i, j \in 0 .. Window - 1 : i <= j => recent[k][i] <= recent[k][j]
Limit(k) == MaxOf(k) - 1 + Cardinality(Attempt)
Before(k) == OfWindow(k) - count[k] <= Limit(k)
OneWindow(k) == SinceStart(k) /\ MoreTimeMoreFailures(k) /\ Before(k)
WindowInv == \A k \in Key : OneWindow(k)

\* What is known of one counter.
LEMMA OneCounter ==
  ASSUME Typed, NEW k \in Key
  PROVE  /\ Window \in Nat /\ Window > 0
         /\ count[k] \in Nat /\ left[k] \in 0 .. Window
         /\ \A i \in 0 .. Window - 1 : recent[k][i] \in Nat
  BY LimiterAssumption DEF Typed, TypeOK

\* No counter goes further beyond its limit than there are attempts at once.
LEMMA CountLimited ==
  ASSUME OvershootBounded, NEW k \in Key, count[k] \in Nat
  PROVE  count[k] <= Limit(k) /\ Limit(k) \in Int
  BY PastSize, Limits DEF OvershootBounded, Limit

\* No failure was registered at the start.
LEMMA InitWindow == Init => WindowInv
  <1> SUFFICES ASSUME Init, NEW k \in Key
              PROVE  OneWindow(k)
    BY DEF WindowInv
  <1>1. /\ count[k] = 0 /\ left[k] = 0 /\ \A i \in 0 .. Window - 1 : recent[k][i] = 0
        /\ Window \in Nat /\ Window > 0
    BY LimiterAssumption DEF Init
  <1>2. Limit(k) \in Nat
    BY PastSize, Limits DEF Limit
  <1> QED
    BY <1>1, <1>2 DEF OneWindow, SinceStart, MoreTimeMoreFailures, Before, OfWindow

\* A counter no step touched.
LEMMA SameWindow ==
  ASSUME NEW k, OneWindow(k), count'[k] = count[k], left'[k] = left[k], recent'[k] = recent[k]
  PROVE  OneWindow(k)'
  BY DEF OneWindow, SinceStart, MoreTimeMoreFailures, Before, OfWindow, Limit, MaxOf

\* An emptied one, all of whose failures are forgiven.
LEMMA EmptyWindow ==
  ASSUME NEW k, count'[k] = 0, left'[k] = 0, Window \in Nat, Window > 0,
         \A i \in 0 .. Window - 1 : recent'[k][i] = 0
  PROVE  OneWindow(k)'
  <1>1. Limit(k) \in Nat /\ Limit(k)' = Limit(k)
    BY PastSize, Limits DEF Limit, MaxOf
  <1> QED
    BY <1>1 DEF OneWindow, SinceStart, MoreTimeMoreFailures, Before, OfWindow

\* A failure begins a window or is counted in the one that runs.
LEMMA FailureInWindow ==
  ASSUME Typed, NEW k \in Key, OneWindow(k), count'[k] = count[k] + 1,
         left'[k] = IF left[k] = 0 THEN Window ELSE left[k],
         \A i \in 0 .. Window - 1 : recent'[k][i] = recent[k][i] + 1
  PROVE  OneWindow(k)'
  <1>1. /\ Window \in Nat /\ Window > 0 /\ count[k] \in Nat /\ left[k] \in 0 .. Window
        /\ \A i \in 0 .. Window - 1 : recent[k][i] \in Nat
    BY OneCounter
  <1>2. SinceStart(k)'
    <2>1. CASE left[k] = 0
      BY <1>1, <2>1 DEF OneWindow, SinceStart
    <2>2. CASE left[k] # 0
      <3>1. Window - left[k] \in 0 .. Window - 1 /\ left[k] > 0
        BY <1>1, <2>2
      <3>2. left'[k] = left[k] /\ recent'[k][Window - left[k]] = recent[k][Window - left[k]] + 1
        BY <2>2, <3>1
      <3> QED
        BY <2>2, <3>1, <3>2 DEF OneWindow, SinceStart
    <2> QED
      BY <2>1, <2>2
  <1>3. MoreTimeMoreFailures(k)'
    <2> SUFFICES ASSUME NEW i \in 0 .. Window - 1, NEW j \in 0 .. Window - 1, i <= j
                 PROVE  recent'[k][i] <= recent'[k][j]
      BY DEF MoreTimeMoreFailures
    <2>1. recent[k][i] <= recent[k][j] /\ recent[k][i] \in Nat /\ recent[k][j] \in Nat
      BY <1>1 DEF OneWindow, MoreTimeMoreFailures
    <2> QED
      BY <2>1
  <1>4. Before(k)'
    <2>1. Limit(k) \in Int /\ Limit(k)' = Limit(k)
      BY PastSize, Limits DEF Limit, MaxOf
    <2>2. Window - 1 \in 0 .. Window - 1
      BY <1>1
    <2>3. recent'[k][Window - 1] = recent[k][Window - 1] + 1 /\ recent[k][Window - 1] \in Nat
      BY <1>1, <2>2
    <2> QED
      BY <1>1, <2>1, <2>3 DEF OneWindow, Before, OfWindow
  <1> QED
    BY <1>2, <1>3, <1>4 DEF OneWindow

\* Time passes: the counter is dropped with its window, and what it counted is
\* all that the last 15 minutes hold; or the window goes on.
LEMMA WindowGoesOn ==
  ASSUME Typed, NEW k \in Key, OneWindow(k), count[k] <= Limit(k),
         left'[k] = IF left[k] = 0 THEN 0 ELSE left[k] - 1,
         count'[k] = IF left[k] = 1 THEN 0 ELSE count[k],
         \A i \in 0 .. Window - 1 : recent'[k][i] = IF i = 0 THEN 0 ELSE recent[k][i - 1]
  PROVE  OneWindow(k)'
  <1>1. /\ Window \in Nat /\ Window > 0 /\ count[k] \in Nat /\ left[k] \in 0 .. Window
        /\ \A i \in 0 .. Window - 1 : recent[k][i] \in Nat
    BY OneCounter
  <1>2. recent'[k][0] = 0 /\ \A i \in 1 .. Window - 1 : recent'[k][i] = recent[k][i - 1]
    BY <1>1
  <1>3. \A i, j \in 0 .. Window - 1 : i <= j => recent[k][i] <= recent[k][j]
    BY DEF OneWindow, MoreTimeMoreFailures
  <1>4. SinceStart(k)'
    <2>1. CASE left[k] \in {0, 1}
      BY <1>1, <1>2, <2>1 DEF OneWindow, SinceStart
    <2>2. CASE left[k] > 1
      <3>1. Window - (left[k] - 1) \in 1 .. Window - 1
        BY <1>1, <2>2
      <3>2. recent'[k][Window - (left[k] - 1)] = recent[k][Window - (left[k] - 1) - 1]
        BY <1>2, <3>1
      <3>3. Window - (left[k] - 1) - 1 = Window - left[k]
        BY <1>1
      <3>4. left'[k] = left[k] - 1 /\ count'[k] = count[k]
        BY <1>1, <2>2
      <3> QED
        BY <1>1, <2>2, <3>2, <3>3, <3>4 DEF OneWindow, SinceStart
    <2> QED
      BY <1>1, <2>1, <2>2
  <1>5. MoreTimeMoreFailures(k)'
    <2> SUFFICES ASSUME NEW i \in 0 .. Window - 1, NEW j \in 0 .. Window - 1, i <= j
                 PROVE  recent'[k][i] <= recent'[k][j]
      BY DEF MoreTimeMoreFailures
    <2>1. CASE i = 0
      <3>1. recent'[k][j] \in Nat
        BY <1>1
      <3> QED
        BY <1>2, <2>1, <3>1
    <2>2. CASE i # 0
      <3>1. i - 1 \in 0 .. Window - 1 /\ j - 1 \in 0 .. Window - 1 /\ i - 1 <= j - 1
        BY <1>1, <2>2
      <3>2. recent'[k][i] = recent[k][i - 1] /\ recent'[k][j] = recent[k][j - 1]
        BY <1>1, <1>2, <2>2
      <3> QED
        BY <1>3, <3>1, <3>2
    <2> QED
      BY <2>1, <2>2
  <1>6. Before(k)'
    <2>0. Limit(k) \in Int /\ Limit(k)' = Limit(k)
      BY PastSize, Limits DEF Limit, MaxOf
    <2>1. Window - 1 \in 0 .. Window - 1
      BY <1>1
    <2>2. recent'[k][Window - 1] \in Nat /\ recent'[k][Window - 1] <= recent[k][Window - 1]
      <3>1. CASE Window = 1
        BY <1>1, <1>2, <2>1, <3>1
      <3>2. CASE Window # 1
        <4>1. Window - 2 \in 0 .. Window - 1 /\ Window - 1 \in 1 .. Window - 1
          BY <1>1, <3>2
        <4>2. recent'[k][Window - 1] = recent[k][Window - 2]
          BY <1>1, <1>2, <4>1
        <4> QED
          BY <1>1, <1>3, <2>1, <4>1, <4>2
      <3> QED
        BY <3>1, <3>2
    <2>3. CASE left[k] = 1
      <3>1. recent[k][Window - 1] = count[k] /\ count'[k] = 0
        BY <2>3 DEF OneWindow, SinceStart
      <3> QED
        BY <1>1, <2>0, <2>2, <3>1 DEF Before, OfWindow
    <2>4. CASE left[k] # 1
      <3>1. count'[k] = count[k] /\ recent[k][Window - 1] - count[k] <= Limit(k)
        BY <2>4 DEF OneWindow, Before, OfWindow
      <3>2. recent[k][Window - 1] \in Nat
        BY <1>1, <2>1
      <3> QED
        BY <1>1, <2>0, <2>2, <3>1, <3>2 DEF Before, OfWindow
    <2> QED
      BY <2>3, <2>4
  <1> QED
    BY <1>4, <1>5, <1>6 DEF OneWindow

\* Every step keeps what is known of every window.
LEMMA WindowStep ==
  ASSUME Typed, OvershootBounded, WindowInv, [Next]_vars
  PROVE  WindowInv'
  <1> SUFFICES ASSUME NEW k \in Key PROVE OneWindow(k)'
    BY DEF WindowInv
  <1>0. /\ OneWindow(k) /\ count[k] <= Limit(k)
        /\ count \in [Key -> Nat] /\ left \in [Key -> 0 .. Window]
        /\ recent \in [Key -> [0 .. Window - 1 -> Nat]]
        /\ Window \in Nat /\ Window > 0
    BY CountLimited, LimiterAssumption DEF WindowInv, Typed, TypeOK
  <1>1. CASE count' = count /\ left' = left /\ recent' = recent
    BY <1>0, <1>1, SameWindow
  <1>2. ASSUME NEW x \in Attempt, NEW j \in Key, Register(x, j) PROVE OneWindow(k)'
    <2>1. /\ count' = [count EXCEPT ![j] = count[j] + 1]
          /\ left' = [left EXCEPT ![j] = IF left[j] = 0 THEN Window ELSE left[j]]
          /\ recent' = [recent EXCEPT ![j] = [i \in 0 .. Window - 1 |-> recent[j][i] + 1]]
      BY <1>2 DEF Register, Windowed
    <2>2. CASE k = j
      <3>1. /\ count'[k] = count[k] + 1
            /\ left'[k] = IF left[k] = 0 THEN Window ELSE left[k]
            /\ recent'[k] = [i \in 0 .. Window - 1 |-> recent[k][i] + 1]
        BY <1>0, <2>1, <2>2
      <3> QED
        BY <1>0, <3>1, FailureInWindow
    <2>3. CASE k # j
      <3>1. count'[k] = count[k] /\ left'[k] = left[k] /\ recent'[k] = recent[k]
        BY <1>0, <2>1, <2>3
      <3> QED
        BY <1>0, <3>1, SameWindow
    <2> QED
      BY <2>2, <2>3
  <1>3. ASSUME NEW x \in Attempt, Clear(x) PROVE OneWindow(k)'
    <2>1. CASE k = a[x].pair
      <3>1. count'[k] = 0 /\ left'[k] = 0
        BY <1>3, <2>1 DEF Clear, Cleared
      <3>2. recent'[k] = [i \in 0 .. Window - 1 |-> 0]
        BY <1>0, <1>3, <2>1 DEF Clear
      <3> QED
        BY <1>0, <3>1, <3>2, EmptyWindow
    <2>2. CASE k # a[x].pair
      <3>1. count'[k] = count[k] /\ left'[k] = left[k]
        BY <1>3, <2>2 DEF Clear, Cleared
      <3>2. recent'[k] = recent[k]
        BY <1>0, <1>3, <2>2 DEF Clear
      <3> QED
        BY <1>0, <3>1, <3>2, SameWindow
    <2> QED
      BY <2>1, <2>2
  <1>4. CASE Tick
    <2>1. /\ left'[k] = IF left[k] = 0 THEN 0 ELSE left[k] - 1
          /\ count'[k] = IF left[k] = 1 THEN 0 ELSE count[k]
          /\ recent'[k] = [i \in 0 .. Window - 1 |-> IF i = 0 THEN 0 ELSE recent[k][i - 1]]
      BY <1>4 DEF Tick
    <2>2. \A i \in 0 .. Window - 1 : recent'[k][i] = IF i = 0 THEN 0 ELSE recent[k][i - 1]
      BY <2>1
    <2> QED
      BY <1>0, <2>1, <2>2, WindowGoesOn
  <1> QED
    BY <1>1, <1>2, <1>3, <1>4
       DEF Next, vars, Arrive, Read, RegisterLost, WrongPassword, RightPassword, GiveUp

\* Counters and the failures of their windows.
LEMMA Windows == Spec => []WindowInv
  BY InitWindow, WindowStep, Types, Overshoot, PTL DEF Spec

\* The comment at EXPIRE ... NX: a counter counts no failure that is older than
\* the window, so occasional mistakes do not add up to a block.
THEOREM OnlyRecent == Spec => []OnlyRecentFailuresCount
  <1>1. ASSUME Typed, WindowInv PROVE OnlyRecentFailuresCount
    <2> SUFFICES ASSUME NEW k \in Key PROVE count[k] <= OfWindow(k)
      BY DEF OnlyRecentFailuresCount
    <2>1. /\ Window \in Nat /\ Window > 0 /\ count[k] \in Nat /\ left[k] \in 0 .. Window
          /\ \A i \in 0 .. Window - 1 : recent[k][i] \in Nat
      BY <1>1, OneCounter
    <2>2. SinceStart(k) /\ MoreTimeMoreFailures(k)
      BY <1>1 DEF WindowInv, OneWindow
    <2>3. Window - 1 \in 0 .. Window - 1
      BY <2>1
    <2>4. CASE left[k] = 0
      BY <2>1, <2>2, <2>3, <2>4 DEF SinceStart, OfWindow
    <2>5. CASE left[k] # 0
      <3>1. Window - left[k] \in 0 .. Window - 1 /\ Window - left[k] <= Window - 1 /\ left[k] > 0
        BY <2>1, <2>5
      <3> QED
        BY <2>2, <2>3, <3>1 DEF SinceStart, MoreTimeMoreFailures, OfWindow
    <2> QED
      BY <2>4, <2>5
  <1> QED
    BY <1>1, Types, Windows, PTL

\* What the fixed window leaves of story 4.1, criterion 10: any 15 minutes hold
\* less than twice the failures of the limit, but for those that run at once.
THEOREM TwiceTheLimit == Spec => []TwiceTheLimitAtMost
  <1>1. ASSUME Typed, OvershootBounded, WindowInv PROVE TwiceTheLimitAtMost
    <2> SUFFICES ASSUME NEW k \in Key PROVE OfWindow(k) <= 2 * Limit(k)
      BY DEF TwiceTheLimitAtMost, Limit
    <2>1. count[k] \in Nat /\ Window - 1 \in 0 .. Window - 1 /\ recent[k][Window - 1] \in Nat
      BY <1>1, OneCounter
    <2>2. count[k] <= Limit(k) /\ Limit(k) \in Int
      BY <1>1, <2>1, CountLimited
    <2>3. OfWindow(k) - count[k] <= Limit(k)
      BY <1>1 DEF WindowInv, OneWindow, Before
    <2> QED
      BY <2>1, <2>2, <2>3 DEF OfWindow
  <1> QED
    BY <1>1, Types, Overshoot, Windows, PTL
=============================================================================
