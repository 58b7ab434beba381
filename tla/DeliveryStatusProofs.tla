------------------------ MODULE DeliveryStatusProofs ------------------------
(***************************************************************************)
(* Proofs about DeliveryStatus: types, the row locks and their order, and  *)
(* that the rows implement the register of NewestEvent.                    *)
(***************************************************************************)
EXTENDS DeliveryStatus, TLAPS

(***************************************************************************)
(* Types.                                                                  *)
(***************************************************************************)

\* An import that has read nothing yet.
LEMMA NothingReadType == NothingRead \in RowsRead /\ DOMAIN NothingRead = {}
  <1>1. NothingRead \in [{} -> Row]
    BY DEF NothingRead
  <1> QED
    BY <1>1 DEF RowsRead, NothingRead

\* The idle states of runs, webhooks and imports.
LEMMA IdleTypes ==
  /\ IdleRun \in Run
  /\ IdleHook \in [pc : {"idle", "apply"}, event : Event \union {None},
                   row : Rows \union {None}, seen : 0..MaxTime + Lag]
  /\ IdleImport \in ImportState
  /\ IdleRun.pc = "idle" /\ IdleHook.pc = "idle" /\ IdleImport.pc = "idle"
  /\ IdleImport.updates = {} /\ IdleImport.file = {} /\ IdleImport.want = {}
  /\ DOMAIN IdleImport.seen = {}
  BY NothingReadType, BoundAssumption DEF Run, IdleRun, IdleHook, IdleImport, ImportState

\* The initial state is well typed.
LEMMA InitTypes == Init => TypeOK
  <1> SUFFICES ASSUME Init PROVE TypeOK
    OBVIOUS
  <1>1. RowTypes
    BY BoundAssumption DEF Init, RowTypes, Row, Status
  <1>2. EventTypes
    BY DEF Init, EventTypes
  <1>3. RunTypes /\ HookTypes
    BY IdleTypes DEF Init, RunTypes, HookTypes
  <1>4. ImportTypes
    BY IdleTypes DEF Init, ImportTypes
  <1> QED
    BY <1>1, <1>2, <1>3, <1>4 DEF TypeOK

\* Ending a transaction keeps the type of the locks.
LEMMA ReleasedType ==
  ASSUME RowTypes, NEW t
  PROVE  Released(t) \in [Rows -> Hooks \union Imports \union {None}]
  BY DEF RowTypes, Released

\* A processor's steps touch its row and itself only.
LEMMA RunStepTypes ==
  ASSUME TypeOK, NEW w \in Runs,
         RunStep(w) \/ \E r \in Rows : RunCheck(w, r)
  PROVE  TypeOK'
  <1> USE DEF TypeOK
  <1>1. ASSUME NEW r \in Rows, RunCheck(w, r) PROVE RunTypes' /\ RowTypes'
    <2>1. PICK pc \in {"complete", "mark", "send"} :
            run' = [run EXCEPT ![w] = [pc |-> pc, row |-> r, msg |-> None]]
      BY <1>1 DEF RunCheck
    <2>2. exposed' \subseteq Rows /\ UNCHANGED <<row, lock, done, mailed>>
      BY <1>1 DEF RunCheck, RunTypes, Beside
    <2> QED
      BY <2>1, <2>2 DEF RunTypes, RowTypes, Run
  <1>2. ASSUME RunMark(w) PROVE RunTypes' /\ RowTypes'
    <2>1. run[w] = [run[w] EXCEPT !.pc = "mark"] /\ run[w].row \in Rows
      BY <1>2 DEF RunMark, RunTypes, Run
    <2>2. RunTypes'
      BY <1>2, <2>1 DEF RunMark, RunTypes, Run
    <2>3. row' \in [Rows -> Row]
      BY <1>2, <2>1 DEF RunMark, RowTypes, Row, Status
    <2> QED
      BY <1>2, <2>2, <2>3 DEF RunMark, RowTypes
  <1>3. ASSUME RunSend(w) PROVE RunTypes' /\ RowTypes'
    <2>1. run[w].pc = "send" /\ run[w].row \in Rows
      BY <1>3 DEF RunSend, RunTypes
    <2>2. mailed' \in [Messages -> Rows \union {None}]
      BY <1>3, <2>1 DEF RunSend, RunTypes
    <2>3. CASE run' = [run EXCEPT ![w] = IdleRun]
      BY <1>3, <2>2, <2>3, IdleTypes DEF RunSend, RunTypes, RowTypes
    <2>4. CASE run' = [run EXCEPT ![w].pc = "fail"]
      BY <1>3, <2>1, <2>2, <2>4 DEF RunSend, RunTypes, RowTypes, Run
    <2>5. ASSUME NEW m \in Messages,
                 run' = [run EXCEPT ![w].pc = "record", ![w].msg = m]
          PROVE  RunTypes' /\ RowTypes'
      BY <1>3, <2>1, <2>2, <2>5 DEF RunSend, RunTypes, RowTypes, Run
    <2> QED
      BY <1>3, <2>3, <2>4, <2>5 DEF RunSend
  <1>4. ASSUME RunRecord(w) \/ RunFail(w) PROVE RunTypes' /\ RowTypes'
    <2>1. /\ run[w].row \in Rows
          /\ RunRecord(w) => run[w].msg \in Messages
      BY <1>4 DEF RunRecord, RunFail, RunTypes
    <2>2. RunTypes'
      BY <1>4, <2>1 DEF RunRecord, RunFail, Recorded, RunTypes, Run
    <2>3. row' \in [Rows -> Row]
      BY <1>4, <2>1 DEF RunRecord, RunFail, RowTypes, Row, Status
    <2> QED
      BY <1>4, <2>2, <2>3 DEF RunRecord, RunFail, RowTypes
  <1>5. ASSUME RunComplete(w) \/ RunCrash(w) PROVE RunTypes' /\ RowTypes'
    <2>1. run[w].row \in Rows \/ RunCrash(w)
      BY <1>5 DEF RunComplete, RunTypes
    <2> QED
      BY <1>5, <2>1, IdleTypes DEF RunComplete, RunCrash, RunTypes, RowTypes
  <1>6. UNCHANGED <<emitted, unanswered, shown, hook, imp>>
    BY DEF RunStep, RunCheck, RunMark, RunSend, RunRecord, RunFail, RunComplete,
           RunCrash, provider
  <1>7. EventTypes' /\ HookTypes' /\ ImportTypes'
    BY <1>6 DEF EventTypes, HookTypes, ImportTypes
  <1> QED
    BY <1>1, <1>2, <1>3, <1>4, <1>5, <1>7 DEF RunStep

\* A new event is an event.
LEMMA EmitTypes ==
  ASSUME TypeOK, NEW e \in Event, Emit(e)
  PROVE  TypeOK'
  <1>1. UNCHANGED <<row, lock, done, run, mailed, exposed, hook, imp, shown>>
    BY DEF Emit, worker
  <1>2. RowTypes' /\ RunTypes'
    BY <1>1 DEF TypeOK, RowTypes, RunTypes
  <1>3. EventTypes' /\ HookTypes'
    BY <1>1 DEF TypeOK, EventTypes, HookTypes, Emit
  <1>4. ImportTypes'
    BY <1>1 DEF TypeOK, ImportTypes, Emit
  <1> QED
    BY <1>2, <1>3, <1>4 DEF TypeOK

\* A webhook touches its row, the locks and its own state.
LEMMA HookStepTypes ==
  ASSUME TypeOK, NEW h \in Hooks,
         \/ HookApply(h) \/ HookFail(h)
         \/ \E e \in unanswered : HookMiss(h, e) \/ HookFind(h, e)
  PROVE  TypeOK'
  <1>1. UNCHANGED <<run, done, mailed, exposed, emitted, imp>>
    BY DEF HookApply, HookFail, HookMiss, HookFind, worker, provider
  <1>2. RunTypes' /\ ImportTypes'
    BY <1>1 DEF TypeOK, RunTypes, ImportTypes
  <1>3. ASSUME HookApply(h) PROVE RowTypes' /\ EventTypes' /\ HookTypes'
    <2>1. /\ hook[h].event \in Event /\ hook[h].event \in emitted
          /\ hook[h].row \in Rows /\ hook[h].seen \in 0..MaxTime + Lag
      BY <1>3 DEF HookApply, TypeOK, HookTypes, EventTypes
    <2>2. Stamped(hook[h].seen, hook[h].event.at) \in 0..MaxTime + Lag
      BY <2>1, BoundAssumption DEF Stamped, Event
    <2>3. hook[h].event.status \in Status
      BY <2>1 DEF Event, Status
    <2>4. row' \in [Rows -> Row]
      BY <1>3, <2>1, <2>2, <2>3 DEF HookApply, TypeOK, RowTypes, Row
    <2>5. RowTypes'
      BY <1>1, <1>3, <2>4, ReleasedType DEF HookApply, TypeOK, RowTypes
    <2>6. EventTypes'
      BY <1>1, <1>3, <2>1 DEF HookApply, TypeOK, EventTypes, Acknowledged
    <2>7. HookTypes'
      BY <1>1, <1>3, IdleTypes DEF HookApply, TypeOK, HookTypes
    <2> QED
      BY <2>5, <2>6, <2>7
  <1>4. ASSUME HookFail(h) PROVE RowTypes' /\ EventTypes' /\ HookTypes'
    BY <1>1, <1>4, ReleasedType, IdleTypes
       DEF HookFail, TypeOK, RowTypes, EventTypes, HookTypes, provider, worker
  <1>5. ASSUME NEW e \in unanswered, HookMiss(h, e)
        PROVE  RowTypes' /\ EventTypes' /\ HookTypes'
    BY <1>1, <1>5
       DEF HookMiss, TypeOK, RowTypes, EventTypes, HookTypes, Acknowledged
  <1>6. ASSUME NEW e \in unanswered, HookFind(h, e)
        PROVE  RowTypes' /\ EventTypes' /\ HookTypes'
    BY <1>1, <1>6
       DEF HookFind, RowsOf, TypeOK, RowTypes, Row, EventTypes, HookTypes, provider
  <1> QED
    BY <1>2, <1>3, <1>4, <1>5, <1>6 DEF TypeOK

\* What an import has read of a row.
LEMMA ReadType ==
  ASSUME TypeOK, NEW i \in Imports
  PROVE  /\ DOMAIN imp[i].seen \subseteq Rows
         /\ imp[i].seen = [r \in DOMAIN imp[i].seen |-> imp[i].seen[r]]
         /\ \A r \in DOMAIN imp[i].seen : imp[i].seen[r] \in Row
  <1>1. imp[i].seen \in RowsRead
    BY DEF TypeOK, ImportTypes, ImportState
  <1> QED
    BY <1>1 DEF RowsRead

\* The update of a row that was read.
LEMMA UpdateType ==
  ASSUME TypeOK, NEW i \in Imports, NEW r \in DOMAIN imp[i].seen
  PROVE  /\ UpdateOf(i, r) \in imp[i].updates
         /\ UpdateOf(i, r).msg = imp[i].seen[r].msg
         /\ UpdateOf(i, r) \in emitted
         /\ UpdateOf(i, r) \in Event
  BY DEF TypeOK, ImportTypes, EventTypes, UpdateOf

\* An import touches the rows it read, the locks and its own state.
LEMMA ImportStepTypes ==
  ASSUME TypeOK, NEW i \in Imports,
         \/ ImportLock(i) \/ ImportApply(i) \/ ImportFail(i)
         \/ \E j \in Jobs, file \in SUBSET emitted : ImportStart(i, j, file)
  PROVE  TypeOK'
  <1>1. UNCHANGED <<run, done, mailed, exposed, emitted, unanswered, hook>>
    BY DEF ImportLock, ImportApply, ImportFail, ImportStart, worker, provider
  <1>2. RunTypes' /\ HookTypes'
    BY <1>1 DEF TypeOK, RunTypes, HookTypes
  <1>3. ASSUME ImportLock(i) PROVE RowTypes' /\ EventTypes' /\ ImportTypes'
    <2>1. PICK r \in NextRow(i) :
            \/ /\ \E u \in imp[i].updates : u.msg = row[r].msg
               /\ lock' = [lock EXCEPT ![r] = i]
               /\ imp' = [imp EXCEPT ![i].want = @ \ {r},
                                     ![i].seen = Extend(@, r, row[r])]
            \/ /\ imp' = [imp EXCEPT ![i].want = @ \ {r}]
               /\ UNCHANGED lock
      BY <1>3 DEF ImportLock
    <2>2. r \in Rows /\ row[r] \in Row
      BY <2>1 DEF NextRow, TypeOK, ImportTypes, ImportState, RowTypes
    <2>3. RowTypes' /\ EventTypes'
      BY <1>1, <1>3, <2>1, <2>2 DEF ImportLock, TypeOK, RowTypes, EventTypes
    <2>4. Extend(imp[i].seen, r, row[r]) \in RowsRead
      <3> DEFINE D == DOMAIN imp[i].seen \union {r}
      <3>1. D \in SUBSET Rows
        BY <2>2, ReadType
      <3>2. Extend(imp[i].seen, r, row[r]) \in [D -> Row]
        BY <2>2, ReadType DEF Extend
      <3> QED
        BY <3>1, <3>2 DEF RowsRead
    <2>5. CASE imp' = [imp EXCEPT ![i].want = @ \ {r}]
      <3>1. imp' \in [Imports -> ImportState]
        BY <2>5 DEF TypeOK, ImportTypes, ImportState
      <3> QED
        BY <1>1, <2>3, <2>5, <3>1 DEF TypeOK, ImportTypes
    <2>6. CASE /\ \E u \in imp[i].updates : u.msg = row[r].msg
               /\ imp' = [imp EXCEPT ![i].want = @ \ {r},
                                     ![i].seen = Extend(@, r, row[r])]
      <3>1. imp' \in [Imports -> ImportState]
        <4> DEFINE next == [imp[i] EXCEPT !.want = @ \ {r},
                                          !.seen = Extend(@, r, row[r])]
        <4>1. next \in ImportState
          BY <2>4 DEF TypeOK, ImportTypes, ImportState
        <4>2. imp' = [imp EXCEPT ![i] = next]
          BY <2>6 DEF TypeOK, ImportTypes, ImportState
        <4> QED
          BY <4>1, <4>2 DEF TypeOK, ImportTypes
      <3>2. \A q \in DOMAIN imp'[i].seen :
              \E u \in imp[i].updates : u.msg = imp'[i].seen[q].msg
        <4>1. imp'[i].seen = Extend(imp[i].seen, r, row[r])
          BY <2>6 DEF TypeOK, ImportTypes
        <4> QED
          BY <2>6, <4>1 DEF TypeOK, ImportTypes, Extend
      <3> QED
        BY <1>1, <2>3, <2>6, <3>1, <3>2 DEF TypeOK, ImportTypes
    <2> QED
      BY <2>1, <2>3, <2>5, <2>6
  <1>4. ASSUME ImportApply(i) PROVE RowTypes' /\ EventTypes' /\ ImportTypes'
    <2>1. \A r \in Applicable(i) : r \in DOMAIN imp[i].seen
      BY DEF Applicable
    <2>2. \A r \in Applicable(i) :
            /\ UpdateOf(i, r) \in emitted
            /\ UpdateOf(i, r).status \in Status
            /\ UpdateOf(i, r).at + Lag \in 0..MaxTime + Lag
      BY <2>1, UpdateType, BoundAssumption DEF Event, Status
    <2>3. row' \in [Rows -> Row]
      BY <1>4, <2>2 DEF ImportApply, TypeOK, RowTypes, Row
    <2>4. RowTypes'
      BY <1>1, <1>4, <2>3, ReleasedType DEF ImportApply, TypeOK, RowTypes
    <2>5. EventTypes'
      BY <1>1, <1>4, <2>2 DEF ImportApply, TypeOK, EventTypes
    <2>6. ImportTypes'
      <3>1. imp' = [imp EXCEPT ![i] = IdleImport]
        BY <1>4 DEF ImportApply
      <3> QED
        BY <1>1, <3>1, IdleTypes DEF TypeOK, ImportTypes
    <2> QED
      BY <2>4, <2>5, <2>6
  <1>5. ASSUME ImportFail(i) PROVE RowTypes' /\ EventTypes' /\ ImportTypes'
    <2>1. RowTypes' /\ EventTypes'
      BY <1>1, <1>5, ReleasedType DEF ImportFail, TypeOK, RowTypes, EventTypes
    <2>2. ImportTypes'
      BY <1>1, <1>5, IdleTypes DEF ImportFail, TypeOK, ImportTypes
    <2> QED
      BY <2>1, <2>2
  <1>6. ASSUME NEW j \in Jobs, NEW file \in SUBSET emitted, ImportStart(i, j, file)
        PROVE  RowTypes' /\ EventTypes' /\ ImportTypes'
    <2>1. RowTypes' /\ EventTypes'
      BY <1>1, <1>6 DEF ImportStart, TypeOK, RowTypes, EventTypes
    <2>2. PICK U \in Parsed(file) :
            imp' = [imp EXCEPT ![i] =
                     [pc |-> "lock", job |-> j, file |-> file, updates |-> U,
                      want |-> UNION {RowsOf(u.msg) : u \in U},
                      seen |-> NothingRead]]
      BY <1>6 DEF ImportStart
    <2>3. U \subseteq file /\ file \subseteq Event
      BY <2>2 DEF Parsed, TypeOK, EventTypes
    <2>4. UNION {RowsOf(u.msg) : u \in U} \subseteq Rows
      BY DEF RowsOf
    <2>5. ImportTypes'
      BY <1>1, <2>2, <2>3, <2>4, NothingReadType DEF TypeOK, ImportTypes, ImportState
    <2> QED
      BY <2>1, <2>5
  <1> QED
    BY <1>2, <1>3, <1>4, <1>5, <1>6 DEF TypeOK

\* Every step keeps the types.
LEMMA StepTypes == TypeOK /\ [Next]_vars => TypeOK'
  <1> SUFFICES ASSUME TypeOK, [Next]_vars PROVE TypeOK'
    OBVIOUS
  <1>1. CASE UNCHANGED vars
    BY <1>1 DEF vars, TypeOK, RowTypes, EventTypes, RunTypes, HookTypes, ImportTypes
  <1>2. CASE Next
    BY <1>2, RunStepTypes, EmitTypes, HookStepTypes, ImportStepTypes DEF Next
  <1> QED
    BY <1>1, <1>2

(* Every reachable state is well typed: a run only records an id the       *)
(* provider gave (sendViaMailgrid), an import reads rows its file names.   *)
THEOREM DeliveryTypeCorrect == Spec => []TypeOK
  BY InitTypes, StepTypes, PTL DEF Spec

-----------------------------------------------------------------------------
(***************************************************************************)
(* Row locks.  A transaction knows the rows it holds as they are, and an   *)
(* import holds smaller rows than those it has yet to lock.                *)
(***************************************************************************)

HookInv == \A h \in Hooks : hook[h].pc = "apply" =>
             /\ lock[hook[h].row] = h
             /\ hook[h].seen = row[hook[h].row].at
ReadInv == \A i \in Imports : \A r \in DOMAIN imp[i].seen :
             lock[r] = i /\ imp[i].seen[r] = row[r]
OrderInv == \A i \in Imports :
  /\ \A r \in Rows : lock[r] = i => r \in DOMAIN imp[i].seen
  /\ \A r \in DOMAIN imp[i].seen, q \in imp[i].want : r < q
  /\ imp[i].pc = "idle" => DOMAIN imp[i].seen = {}
LockInv == HookInv /\ ReadInv /\ OrderInv

\* Initially nothing is held.
LEMMA InitLocks == Init => LockInv
  BY IdleTypes, ActorAssumption DEF Init, LockInv, HookInv, ReadInv, OrderInv

\* A worker writes free rows only, and no event time.
LEMMA RunFrame ==
  ASSUME TypeOK, NEW w \in Runs,
         RunStep(w) \/ \E r \in Rows : RunCheck(w, r)
  PROVE  /\ UNCHANGED <<lock, hook, imp, shown, emitted>>
         /\ \A r \in Rows : /\ lock[r] # None => row'[r] = row[r]
                            /\ row'[r].at = row[r].at
  <1>1. UNCHANGED <<lock, hook, imp, shown, emitted>>
    BY DEF RunStep, RunCheck, RunMark, RunSend, RunRecord, RunFail, RunComplete,
           RunCrash, provider
  <1>2. row \in [Rows -> Row]
    BY DEF TypeOK, RowTypes
  <1>3. \A r \in Rows : row[r] = [row[r] EXCEPT !.at = @]
    BY <1>2 DEF Row
  <1>4. CASE UNCHANGED row
    BY <1>1, <1>4
  <1>5. CASE RunMark(w) /\ ~UNCHANGED row
    BY <1>1, <1>2, <1>5 DEF RunMark, Row
  <1>6. CASE RunRecord(w) /\ ~UNCHANGED row
    BY <1>1, <1>2, <1>6 DEF RunRecord, Row
  <1>7. CASE RunFail(w) /\ ~UNCHANGED row
    BY <1>1, <1>2, <1>7 DEF RunFail, Row
  <1> QED
    BY <1>4, <1>5, <1>6, <1>7 DEF RunStep, RunCheck, RunSend, RunComplete, RunCrash

\* Ending a transaction frees its rows and no others.
LEMMA ReleasedRows ==
  ASSUME NEW t
  PROVE  \A r \in Rows : Released(t)[r] = IF lock[r] = t THEN None ELSE lock[r]
  BY DEF Released

\* A webhook keeps the lock discipline.
LEMMA HookLocks ==
  ASSUME TypeOK, LockInv, NEW h \in Hooks,
         \/ HookApply(h) \/ HookFail(h)
         \/ \E e \in unanswered : HookMiss(h, e) \/ HookFind(h, e)
  PROVE  LockInv'
  <1>1. UNCHANGED imp
    BY DEF HookApply, HookFail, HookMiss, HookFind
  <1>2. \A i \in Imports : DOMAIN imp[i].seen \subseteq Rows /\ i # h /\ i # None
    BY ReadType, ActorAssumption
  <1>4. ASSUME NEW e \in unanswered, HookMiss(h, e) PROVE LockInv'
    BY <1>1, <1>4 DEF HookMiss, LockInv, HookInv, ReadInv, OrderInv
  <1>5. ASSUME NEW e \in unanswered, HookFind(h, e) PROVE LockInv'
    <2>1. PICK r \in Rows :
            /\ lock[r] = None
            /\ lock' = [lock EXCEPT ![r] = h]
            /\ hook' = [hook EXCEPT ![h] = [pc |-> "apply", event |-> e,
                                            row |-> r, seen |-> row[r].at]]
      BY <1>5 DEF HookFind, RowsOf
    <2>2. UNCHANGED row
      BY <1>5 DEF HookFind
    <2>3. \A q \in Rows : lock'[q] = IF q = r THEN h ELSE lock[q]
      BY <2>1 DEF TypeOK, RowTypes
    <2>4. HookInv'
      BY <2>1, <2>2, <2>3, ActorAssumption
         DEF TypeOK, HookTypes, LockInv, HookInv
    <2>5. ReadInv' /\ OrderInv'
      BY <1>1, <1>2, <2>1, <2>2, <2>3 DEF LockInv, ReadInv, OrderInv
    <2> QED
      BY <2>4, <2>5 DEF LockInv
  <1>6. ASSUME HookApply(h) \/ HookFail(h) PROVE LockInv'
    <2>1. /\ lock' = Released(h) /\ hook[h].pc = "apply"
          /\ hook' = [hook EXCEPT ![h] = IdleHook]
      BY <1>6 DEF HookApply, HookFail
    <2>2. \A q \in Rows : lock'[q] = IF lock[q] = h THEN None ELSE lock[q]
      BY <2>1, ReleasedRows
    <2>3. hook[h].row \in Rows /\ lock[hook[h].row] = h
      BY <2>1 DEF TypeOK, HookTypes, LockInv, HookInv
    <2>4. \A q \in Rows : q # hook[h].row => row'[q] = row[q]
      BY <1>6 DEF HookApply, HookFail, TypeOK, RowTypes
    <2>5. HookInv'
      BY <2>1, <2>2, <2>3, <2>4, IdleTypes DEF TypeOK, HookTypes, LockInv, HookInv
    <2>6. ReadInv' /\ OrderInv'
      BY <1>1, <1>2, <2>2, <2>3, <2>4 DEF LockInv, ReadInv, OrderInv
    <2> QED
      BY <2>5, <2>6 DEF LockInv
  <1> QED
    BY <1>4, <1>5, <1>6

\* An import keeps it: it locks the least of the rows it wants.
LEMMA ImportLocks ==
  ASSUME TypeOK, LockInv, NEW i \in Imports,
         \/ ImportLock(i) \/ ImportApply(i) \/ ImportFail(i)
         \/ \E j \in Jobs, file \in SUBSET emitted : ImportStart(i, j, file)
  PROVE  LockInv'
  <1>1. UNCHANGED hook
    BY DEF ImportLock, ImportApply, ImportFail, ImportStart
  <1>2. \A k \in Imports : DOMAIN imp[k].seen \subseteq Rows /\ k \notin Hooks /\ k # None
    BY ReadType, ActorAssumption
  <1>3. imp[i].want \subseteq Rows /\ Rows \subseteq Nat
    BY RowsAssumption DEF TypeOK, ImportTypes, ImportState
  <1>4. ASSUME ImportLock(i) PROVE LockInv'
    <2>1. PICK r \in NextRow(i) :
            /\ lock[r] = None
            /\ \/ /\ lock' = [lock EXCEPT ![r] = i]
                  /\ imp' = [imp EXCEPT ![i].want = @ \ {r},
                                        ![i].seen = Extend(@, r, row[r])]
               \/ /\ imp' = [imp EXCEPT ![i].want = @ \ {r}]
                  /\ UNCHANGED lock
      BY <1>4 DEF ImportLock
    <2>2. /\ r \in Rows /\ UNCHANGED row /\ imp[i].pc = "lock"
          /\ \A q \in imp[i].want : r <= q
      BY <1>3, <1>4, <2>1 DEF ImportLock, NextRow
    <2>3. CASE imp' = [imp EXCEPT ![i].want = @ \ {r}] /\ UNCHANGED lock
      BY <1>1, <2>2, <2>3
         DEF LockInv, HookInv, ReadInv, OrderInv, TypeOK, ImportTypes, ImportState
    <2>4. CASE /\ lock' = [lock EXCEPT ![r] = i]
               /\ imp' = [imp EXCEPT ![i].want = @ \ {r},
                                     ![i].seen = Extend(@, r, row[r])]
      <3>1. \A q \in Rows : lock'[q] = IF q = r THEN i ELSE lock[q]
        BY <2>2, <2>4 DEF TypeOK, RowTypes
      <3>2. /\ imp'[i].pc = "lock" /\ imp'[i].want = imp[i].want \ {r}
            /\ imp'[i].seen = Extend(imp[i].seen, r, row[r])
            /\ \A k \in Imports : k # i => imp'[k] = imp[k]
        BY <2>2, <2>4 DEF TypeOK, ImportTypes, ImportState
      <3>3. /\ DOMAIN imp'[i].seen = DOMAIN imp[i].seen \union {r}
            /\ \A q \in DOMAIN imp'[i].seen :
                 imp'[i].seen[q] = IF q = r THEN row[r] ELSE imp[i].seen[q]
        BY <3>2 DEF Extend
      <3>4. HookInv'
        BY <1>1, <1>2, <2>1, <2>2, <3>1, ActorAssumption
           DEF TypeOK, HookTypes, LockInv, HookInv
      <3>5. ReadInv'
        BY <1>2, <2>1, <2>2, <3>1, <3>2, <3>3 DEF LockInv, ReadInv
      <3>6. OrderInv'
        BY <1>2, <1>3, <2>1, <2>2, <3>1, <3>2, <3>3 DEF LockInv, OrderInv
      <3> QED
        BY <3>4, <3>5, <3>6 DEF LockInv
    <2> QED
      BY <2>1, <2>3, <2>4
  <1>5. ASSUME ImportApply(i) \/ ImportFail(i) PROVE LockInv'
    <2>1. lock' = Released(i) /\ imp' = [imp EXCEPT ![i] = IdleImport]
      BY <1>5 DEF ImportApply, ImportFail
    <2>2. \A q \in Rows : lock'[q] = IF lock[q] = i THEN None ELSE lock[q]
      BY <2>1, ReleasedRows
    <2>3. \A q \in Rows : lock[q] # i => row'[q] = row[q]
      <3>1. \A q \in Applicable(i) : lock[q] = i
        BY DEF Applicable, LockInv, ReadInv
      <3> QED
        BY <1>5, <3>1 DEF ImportApply, ImportFail
    <2>4. /\ imp'[i] = IdleImport
          /\ \A k \in Imports : k # i => imp'[k] = imp[k]
      BY <2>1 DEF TypeOK, ImportTypes
    <2>5. HookInv'
      BY <1>1, <1>2, <2>2, <2>3 DEF TypeOK, HookTypes, LockInv, HookInv
    <2>6. ReadInv' /\ OrderInv'
      BY <1>2, <2>2, <2>3, <2>4, IdleTypes DEF LockInv, ReadInv, OrderInv
    <2> QED
      BY <2>5, <2>6 DEF LockInv
  <1>6. ASSUME NEW j \in Jobs, NEW file \in SUBSET emitted, ImportStart(i, j, file)
        PROVE  LockInv'
    <2>1. UNCHANGED <<row, lock>> /\ imp[i].pc = "idle"
      BY <1>6 DEF ImportStart
    <2>2. /\ imp'[i].seen = NothingRead /\ imp'[i].pc = "lock"
          /\ \A k \in Imports : k # i => imp'[k] = imp[k]
      BY <1>6 DEF ImportStart, TypeOK, ImportTypes
    <2> QED
      BY <1>1, <2>1, <2>2, NothingReadType DEF LockInv, HookInv, ReadInv, OrderInv
  <1> QED
    BY <1>4, <1>5, <1>6

\* So does every step.
LEMMA StepLocks == TypeOK /\ LockInv /\ [Next]_vars => LockInv'
  <1> SUFFICES ASSUME TypeOK, LockInv, [Next]_vars PROVE LockInv'
    OBVIOUS
  <1>1. CASE UNCHANGED vars
    BY <1>1 DEF vars, LockInv, HookInv, ReadInv, OrderInv
  <1>2. ASSUME NEW w \in Runs, RunStep(w) \/ \E r \in Rows : RunCheck(w, r)
        PROVE  LockInv'
    <2>1. /\ UNCHANGED <<lock, hook, imp>>
          /\ \A r \in Rows : lock[r] # None => row'[r] = row[r]
      BY <1>2, RunFrame
    <2>2. \A i \in Imports : DOMAIN imp[i].seen \subseteq Rows /\ i # None
      BY ReadType, ActorAssumption
    <2>3. HookInv'
      BY <2>1, ActorAssumption DEF TypeOK, HookTypes, LockInv, HookInv
    <2> QED
      BY <2>1, <2>2, <2>3 DEF LockInv, ReadInv, OrderInv
  <1>3. ASSUME NEW e \in Event, Emit(e) PROVE LockInv'
    BY <1>3 DEF Emit, LockInv, HookInv, ReadInv, OrderInv
  <1> QED
    BY <1>1, <1>2, <1>3, HookLocks, ImportLocks DEF Next

\* A transaction holds what it read until it ends, so what it read is still so
\* when it writes (FOR UPDATE).
THEOREM LocksHold == Spec => [](TypeOK /\ LockInv)
  BY InitTypes, InitLocks, StepTypes, StepLocks, PTL DEF Spec

(* Imports that share rows cannot wait for each other, whatever the rows:  *)
(* every import locks in the order of email.id.                            *)
THEOREM NeverALockCycle == Spec => []NoLockCycle
  <1>1. TypeOK /\ LockInv => NoLockCycle
    <2> SUFFICES ASSUME TypeOK, LockInv, NEW i \in Imports, NEW k \in Imports,
                        NEW r \in Rows, NEW q \in Rows,
                        Waits(i, r), lock[r] = k, Waits(k, q), lock[q] = i
                 PROVE  FALSE
      BY DEF NoLockCycle
    <2>1. r \in imp[i].want /\ q \in imp[k].want
      BY DEF Waits, NextRow
    <2>2. q \in DOMAIN imp[i].seen /\ r \in DOMAIN imp[k].seen
      BY DEF LockInv, OrderInv
    <2>3. q < r /\ r < q
      BY <2>1, <2>2 DEF LockInv, OrderInv
    <2> QED
      BY <2>3, RowsAssumption
  <1> QED
    BY <1>1, LocksHold, PTL

-----------------------------------------------------------------------------
(***************************************************************************)
(* The register.  With one reading of the clock (Lag = 0) a row's event    *)
(* time is the time of the event it shows.                                 *)
(***************************************************************************)

ShownInv == \A r \in Rows : row[r].at = At(shown[r])

\* What a step may do to the events shown.
Newer == /\ shown' \in [Rows -> emitted \union {None}]
         /\ \A r \in Rows : At(shown[r]) <= At(shown'[r])

\* Event times are numbers.
LEMMA Times ==
  ASSUME TypeOK
  PROVE  /\ \A e \in emitted : At(e) = e.at /\ e.at \in 0..MaxTime
         /\ \A r \in Rows : At(shown[r]) \in Nat /\ row[r].at \in Nat
  <1>1. \A e \in Event : At(e) = e.at /\ e.at \in 0..MaxTime
    BY EventAssumption DEF At, Event
  <1> QED
    BY <1>1, BoundAssumption DEF TypeOK, RowTypes, EventTypes, Row, At

\* A webhook shows an event that is not older, or nothing new.
LEMMA HookShows ==
  ASSUME TypeOK, LockInv, ShownInv, NEW h \in Hooks, HookApply(h)
  PROVE  ShownInv' /\ Newer
  <1> DEFINE e == hook[h].event
             r == hook[h].row
  <1>1. e \in emitted /\ r \in Rows /\ hook[h].seen = row[r].at
    BY DEF HookApply, TypeOK, HookTypes, LockInv, HookInv
  <1>2. row[r].at = At(shown[r])
    BY <1>1 DEF ShownInv
  <1>3. CASE UNCHANGED <<row, shown>>
    BY <1>3, Times DEF ShownInv, Newer, TypeOK, EventTypes
  <1>4. CASE /\ ShouldApply(hook[h].seen, e.at)
             /\ row' = [row EXCEPT ![r].status = e.status,
                                   ![r].at = Stamped(hook[h].seen, e.at)]
             /\ shown' = [shown EXCEPT ![r] = e]
    <2>1. /\ Stamped(hook[h].seen, e.at) = e.at
          /\ row[r].at <= e.at
      BY <1>1, <1>4, Times, BoundAssumption DEF ShouldApply, Stamped
    <2>2. /\ row'[r].at = e.at
          /\ \A q \in Rows : q # r => row'[q] = row[q]
      BY <1>1, <1>4, <2>1 DEF TypeOK, RowTypes, Row
    <2>3. /\ shown' \in [Rows -> emitted \union {None}]
          /\ shown'[r] = e
          /\ \A q \in Rows : q # r => shown'[q] = shown[q]
      BY <1>1, <1>4 DEF TypeOK, EventTypes
    <2> QED
      BY <1>1, <1>2, <2>1, <2>2, <2>3, Times DEF ShownInv, Newer
  <1> QED
    BY <1>3, <1>4 DEF HookApply

\* An import shows, row by row, an update that is not older.
LEMMA ImportShows ==
  ASSUME TypeOK, LockInv, ShownInv, NEW i \in Imports, ImportApply(i), Lag = 0
  PROVE  ShownInv' /\ Newer
  <1>1. \A r \in Applicable(i) :
          /\ r \in Rows /\ UpdateOf(i, r) \in emitted
          /\ ShouldApply(row[r].at, UpdateOf(i, r).at + Lag)
    <2> SUFFICES ASSUME NEW r \in Applicable(i)
                 PROVE  /\ r \in Rows /\ UpdateOf(i, r) \in emitted
                        /\ ShouldApply(row[r].at, UpdateOf(i, r).at + Lag)
      OBVIOUS
    <2>1. r \in DOMAIN imp[i].seen
      BY DEF Applicable
    <2>2. imp[i].seen[r] = row[r]
      BY <2>1 DEF LockInv, ReadInv
    <2> QED
      BY <2>1, <2>2, ReadType, UpdateType DEF Applicable
  <1>2. \A r \in Applicable(i) :
          /\ UpdateOf(i, r).at + Lag = At(UpdateOf(i, r))
          /\ row[r].at <= At(UpdateOf(i, r))
    BY <1>1, Times, BoundAssumption DEF ShouldApply
  <1>3. \A r \in Rows :
          /\ shown'[r] = IF r \in Applicable(i) THEN UpdateOf(i, r) ELSE shown[r]
          /\ row'[r].at = IF r \in Applicable(i) THEN UpdateOf(i, r).at + Lag
                                                  ELSE row[r].at
    BY DEF ImportApply, TypeOK, RowTypes, Row
  <1>4. shown' \in [Rows -> emitted \union {None}]
    BY <1>1 DEF ImportApply, TypeOK, EventTypes
  <1> QED
    BY <1>1, <1>2, <1>3, <1>4, Times DEF ShownInv, Newer

\* What any step does to the events shown and to those reported.
LEMMA StepShows ==
  ASSUME TypeOK, LockInv, ShownInv, [Next]_vars, Lag = 0
  PROVE  /\ ShownInv'
         /\ \/ Newer /\ UNCHANGED emitted
            \/ UNCHANGED shown /\ \E e \in Event : emitted' = emitted \union {e}
  <1> DEFINE Goal == /\ ShownInv'
                     /\ \/ Newer /\ UNCHANGED emitted
                        \/ /\ UNCHANGED shown
                           /\ \E e \in Event : emitted' = emitted \union {e}
  <1>1. ASSUME UNCHANGED <<shown, emitted>>,
               \A r \in Rows : row'[r].at = row[r].at
        PROVE  Goal
    BY <1>1, Times DEF ShownInv, Newer, TypeOK, EventTypes
  <1>2. CASE UNCHANGED vars
    BY <1>1, <1>2 DEF vars
  <1>3. ASSUME NEW w \in Runs, RunStep(w) \/ \E r \in Rows : RunCheck(w, r)
        PROVE  Goal
    BY <1>1, <1>3, RunFrame
  <1>4. ASSUME NEW e \in Event, Emit(e) PROVE Goal
    BY <1>4 DEF Emit, ShownInv
  <1>5. ASSUME NEW h \in Hooks, HookApply(h) PROVE Goal
    BY <1>5, HookShows DEF HookApply
  <1>6. ASSUME NEW i \in Imports, ImportApply(i) PROVE Goal
    BY <1>6, ImportShows DEF ImportApply, provider
  <1>7. ASSUME NEW h \in Hooks,
               HookFail(h) \/ \E e \in unanswered : HookMiss(h, e) \/ HookFind(h, e)
        PROVE  Goal
    <2>1. UNCHANGED <<row, shown, emitted>>
      BY <1>7 DEF HookFail, HookMiss, HookFind, provider
    <2> QED
      BY <1>1, <2>1
  <1>8. ASSUME NEW i \in Imports,
               \/ ImportLock(i) \/ ImportFail(i)
               \/ \E j \in Jobs, file \in SUBSET emitted : ImportStart(i, j, file)
        PROVE  Goal
    <2>1. UNCHANGED <<row, shown, emitted>>
      BY <1>8 DEF ImportLock, ImportFail, ImportStart, provider
    <2> QED
      BY <1>1, <2>1
  <1> QED
    BY <1>2, <1>3, <1>4, <1>5, <1>6, <1>7, <1>8 DEF Next

\* Initially no event is shown.
LEMMA InitShown == Init => ShownInv
  BY DEF Init, ShownInv, At

(* Whatever rows, requests and faults there are, and even when runs of a   *)
(* job overlap, no event replaces a newer one on a row.                    *)
THEOREM NewestAlwaysWins ==
  ASSUME Lag = 0
  PROVE  Spec => NewestWins
  <1>1. TypeOK /\ LockInv /\ ShownInv /\ [Next]_vars =>
          ShownInv' /\ [\A r \in Rows : At(shown[r]) <= At(shown'[r])]_vars
    <2> SUFFICES ASSUME TypeOK, LockInv, ShownInv, [Next]_vars
                 PROVE  ShownInv' /\ \A r \in Rows : At(shown[r]) <= At(shown'[r])
      OBVIOUS
    <2>1. ShownInv' /\ (Newer \/ UNCHANGED shown)
      BY StepShows, Lag = 0
    <2> QED
      BY <2>1, Times DEF Newer
  <1> QED
    BY <1>1, LocksHold, InitShown, PTL DEF Spec, NewestWins

(* The rows of email_logs implement the register of the newest event.      *)
THEOREM RowsAreRegisters ==
  ASSUME Lag = 0
  PROVE  Spec => NewestEventSpec
  <1>1. Init => Register!Init
    BY DEF Init, Register!Init
  <1>2. TypeOK /\ LockInv /\ ShownInv /\ [Next]_vars =>
          ShownInv' /\ [Register!Next]_(Register!vars)
    <2> SUFFICES ASSUME TypeOK, LockInv, ShownInv, [Next]_vars
                 PROVE  ShownInv' /\ Register!Next
      OBVIOUS
    <2>1. \A e : Register!At(e) = At(e)
      BY DEF Register!At, At
    <2>2. CASE Newer /\ UNCHANGED emitted
      BY <2>1, <2>2, StepShows, Lag = 0
         DEF Newer, Register!Next, Register!Advance
    <2>3. CASE UNCHANGED shown /\ \E e \in Event : emitted' = emitted \union {e}
      BY <2>3, StepShows, Lag = 0 DEF Register!Next, Register!Report
    <2> QED
      BY <2>2, <2>3, StepShows, Lag = 0
  <1> QED
    BY <1>1, <1>2, LocksHold, InitShown, PTL DEF Spec, NewestEventSpec, Register!Spec

-----------------------------------------------------------------------------
(***************************************************************************)
(* Imports cover their file.                                               *)
(***************************************************************************)

\* The updates of an import cover its file, one of them per message.
FileInv == \A i \in Imports :
  /\ \A e \in imp[i].file : \E u \in imp[i].updates : u.msg = e.msg /\ u.at >= e.at
  /\ \A u, v \in imp[i].updates : u.msg = v.msg => u = v

\* Every step keeps FileInv: the updates are computed once.
LEMMA StepFile ==
  ASSUME TypeOK, FileInv, [Next]_vars
  PROVE  FileInv'
  <1>1. ASSUME UNCHANGED imp PROVE FileInv'
    BY <1>1 DEF FileInv
  <1>2. ASSUME NEW i \in Imports,
               \/ ImportLock(i) \/ ImportApply(i) \/ ImportFail(i)
               \/ \E j \in Jobs, file \in SUBSET emitted : ImportStart(i, j, file)
        PROVE  FileInv'
    <2>1. \A k \in Imports : k # i => imp'[k] = imp[k]
      BY <1>2 DEF ImportLock, ImportApply, ImportFail, ImportStart, TypeOK, ImportTypes
    <2>2. CASE ImportLock(i)
      <3>1. imp'[i].file = imp[i].file /\ imp'[i].updates = imp[i].updates
        BY <2>2 DEF ImportLock, TypeOK, ImportTypes, ImportState
      <3> QED
        BY <2>1, <3>1 DEF FileInv
    <2>3. CASE ImportApply(i) \/ ImportFail(i)
      <3>1. imp'[i] = IdleImport
        BY <2>3 DEF ImportApply, ImportFail, TypeOK, ImportTypes
      <3> QED
        BY <2>1, <3>1, IdleTypes DEF FileInv
    <2>4. ASSUME NEW j \in Jobs, NEW file \in SUBSET emitted, ImportStart(i, j, file)
          PROVE  FileInv'
      <3>1. PICK U \in Parsed(file) : imp'[i].file = file /\ imp'[i].updates = U
        BY <2>4 DEF ImportStart, TypeOK, ImportTypes
      <3> QED
        BY <2>1, <3>1 DEF FileInv, Parsed
    <2> QED
      BY <1>2, <2>2, <2>3, <2>4
  <1>3. CASE UNCHANGED vars
    BY <1>1, <1>3 DEF vars
  <1>4. ASSUME NEW w \in Runs, RunStep(w) \/ \E r \in Rows : RunCheck(w, r)
        PROVE  FileInv'
    BY <1>1, <1>4, RunFrame
  <1>5. ASSUME NEW e \in Event, Emit(e) PROVE FileInv'
    BY <1>1, <1>5 DEF Emit
  <1>6. ASSUME NEW h \in Hooks,
               \/ HookApply(h) \/ HookFail(h)
               \/ \E e \in unanswered : HookMiss(h, e) \/ HookFind(h, e)
        PROVE  FileInv'
    BY <1>1, <1>6 DEF HookApply, HookFail, HookMiss, HookFind
  <1> QED
    BY <1>2, <1>3, <1>4, <1>5, <1>6 DEF Next

\* An import leaves a row of its campaign at least as new as every line of the
\* file about its message.
LEMMA ImportCovers ==
  ASSUME TypeOK, LockInv, FileInv, NEW i \in Imports, ImportApply(i),
         NEW r \in DOMAIN imp[i].seen, NEW e \in imp[i].file,
         JobOf[r] = imp[i].job, row[r].msg = e.msg
  PROVE  row'[r].at >= e.at + Lag
  <1> DEFINE u == UpdateOf(i, r)
  <1>1. /\ r \in Rows /\ imp[i].seen[r] = row[r]
        /\ u \in imp[i].updates /\ u.msg = e.msg /\ u \in Event
    <2>1. r \in Rows /\ imp[i].seen[r] = row[r]
      BY ReadType DEF LockInv, ReadInv
    <2>2. u \in imp[i].updates /\ u.msg = imp[i].seen[r].msg /\ u \in Event
      BY UpdateType
    <2> HIDE DEF u
    <2> QED
      BY <2>1, <2>2
  <1>2. e \in Event
    BY DEF TypeOK, ImportTypes, ImportState
  <1>3. u.at >= e.at
    BY <1>1 DEF FileInv
  <1>4. /\ u.at \in Nat /\ e.at \in Nat /\ Lag \in Nat /\ row[r].at \in Nat
    BY <1>1, <1>2, Times, BoundAssumption DEF Event
  <1>5. CASE r \in Applicable(i)
    <2>1. row'[r].at = u.at + Lag
      BY <1>1, <1>5 DEF ImportApply, TypeOK, RowTypes, Row
    <2> QED
      BY <1>3, <1>4, <2>1
  <1>6. CASE r \notin Applicable(i)
    <2>1. row'[r] = row[r]
      BY <1>1, <1>6 DEF ImportApply
    <2>2. ~ShouldApply(row[r].at, u.at + Lag) \/ row[r].at = u.at + Lag
      BY <1>1, <1>6 DEF Applicable, IsUnchanged
    <2> QED
      BY <1>3, <1>4, <2>1, <2>2 DEF ShouldApply
  <1> QED
    BY <1>5, <1>6

(* Whatever the file lists, in any order and however old, and whatever     *)
(* webhooks do meanwhile, an import covers the rows it has read            *)
(* (applyImportedStatuses).                                                *)
THEOREM ImportsCover == Spec => ImportCoversFile
  <1>1. Init => FileInv
    BY IdleTypes DEF Init, FileInv
  <1>2. TypeOK /\ LockInv /\ FileInv /\ [Next]_vars =>
          /\ FileInv'
          /\ [\A i \in Imports : ImportApply(i) =>
                \A r \in DOMAIN imp[i].seen, e \in imp[i].file :
                  JobOf[r] = imp[i].job /\ row[r].msg = e.msg
                    => row'[r].at >= e.at + Lag]_vars
    BY StepFile, ImportCovers
  <1> QED
    BY <1>1, <1>2, LocksHold, PTL DEF Spec, ImportCoversFile

-----------------------------------------------------------------------------
(***************************************************************************)
(* A row shows its event.  An event reaches a row only by the message id,  *)
(* and once a row has one no run may write to it: the only run of the job  *)
(* is done with the row, and a later one finds the mail sent.              *)
(***************************************************************************)

\* One run at most is at a row that is not exposed, and is done with it once the
\* row has a message id.
OneRun == \A r \in Rows \ exposed :
  /\ \A w, v \in Runs : run[w].row = r /\ run[v].row = r => w = v
  /\ row[r].msg # None =>
       /\ WasEmailSent(row[r].status)
       /\ \A w \in Runs : run[w].row = r => run[w].pc = "complete"

\* A webhook is about to write a row that has its message.
HookMsg == \A h \in Hooks : hook[h].pc = "apply" =>
             row[hook[h].row].msg = hook[h].event.msg

\* A row without a message id shows no event.
LEMMA NoIdNoEvent ==
  ASSUME TypeOK, RowShowsEvent, NEW r \in Rows \ exposed, row[r].msg = None
  PROVE  shown[r] = None
  <1> SUFFICES ASSUME shown[r] # None PROVE FALSE
    OBVIOUS
  <1>1. shown[r] \in Event
    BY DEF TypeOK, EventTypes
  <1> QED
    BY <1>1, ActorAssumption DEF RowShowsEvent, Event

\* A run begins: it is alone at a row that is not exposed, and leaves the row alone
\* if the mail was sent.
LEMMA CheckAlone ==
  ASSUME TypeOK, OneRun, RowShowsEvent, NEW w \in Runs, NEW r \in Rows, RunCheck(w, r)
  PROVE  OneRun' /\ RowShowsEvent'
  <1>1. UNCHANGED <<row, shown>> /\ exposed \subseteq exposed'
    BY DEF RunCheck
  <1>2. RowShowsEvent'
    BY <1>1 DEF RowShowsEvent
  <1> SUFFICES ASSUME NEW q \in Rows \ exposed'
               PROVE  /\ \A u, v \in Runs : run'[u].row = q /\ run'[v].row = q => u = v
                      /\ row'[q].msg # None =>
                           /\ WasEmailSent(row'[q].status)
                           /\ \A v \in Runs : run'[v].row = q => run'[v].pc = "complete"
    BY <1>2 DEF OneRun
  <1>3. q \in Rows \ exposed
    BY <1>1
  <1>4. PICK pc \in {"complete", "mark", "send"} :
          run' = [run EXCEPT ![w] = [pc |-> pc, row |-> r, msg |-> None]]
    BY DEF RunCheck
  <1>5. /\ \A v \in Runs : v # w => run'[v] = run[v]
        /\ run'[w].row = r /\ run'[w].pc = pc
    BY <1>4 DEF TypeOK, RunTypes
  <1>6. CASE q # r
    BY <1>1, <1>3, <1>5, <1>6 DEF OneRun
  <1>7. CASE q = r
    <2>1. \A v \in Runs : run[v].row # r
      BY <1>7 DEF RunCheck, Beside
    <2>2. WasEmailSent(row[r].status) => run'[w].pc = "complete"
      BY <1>7, <1>5 DEF RunCheck, TypeOK, RunTypes
    <2> QED
      BY <1>1, <1>3, <1>5, <1>7, <2>1, <2>2 DEF OneRun
  <1> QED
    BY <1>6, <1>7

\* A run goes on with its row, or leaves it.
LEMMA RunAlone ==
  ASSUME TypeOK, OneRun, RowShowsEvent, NEW w \in Runs, RunStep(w)
  PROVE  OneRun' /\ RowShowsEvent'
  <1>1. None \notin Rows /\ None \notin Messages
    BY ActorAssumption
  <1>2. /\ run \in [Runs -> Run] /\ row \in [Rows -> Row]
        /\ run[w].pc # "idle" /\ run[w].row \in Rows
        /\ UNCHANGED <<shown, exposed>>
        /\ IdleRun.row = None
    BY DEF TypeOK, RunTypes, RowTypes, IdleRun, RunStep, RunMark, RunSend, RunRecord,
           RunFail, RunComplete, RunCrash
  <1> DEFINE r == run[w].row
  <1>3. /\ \A v \in Runs : v # w => run'[v] = run[v]
        /\ \A q \in Rows : q # r => row'[q] = row[q]
        /\ run'[w].row = r \/ run'[w].row = None
    BY <1>2 DEF RunStep, RunMark, RunSend, RunRecord, RunFail, RunComplete, RunCrash,
                Recorded, Run
  <1>4. \A q \in Rows \ exposed : q # r =>
          /\ \A u, v \in Runs : run'[u].row = q /\ run'[v].row = q => u = v
          /\ row'[q].msg # None =>
               /\ WasEmailSent(row'[q].status)
               /\ \A v \in Runs : run'[v].row = q => run'[v].pc = "complete"
          /\ shown'[q] # None => /\ row'[q].status = shown'[q].status
                                 /\ row'[q].msg = shown'[q].msg
    BY <1>1, <1>2, <1>3 DEF OneRun, RowShowsEvent
  <1>5. ASSUME r \notin exposed
        PROVE  /\ \A u, v \in Runs : run'[u].row = r /\ run'[v].row = r => u = v
               /\ row'[r].msg # None =>
                    /\ WasEmailSent(row'[r].status)
                    /\ \A v \in Runs : run'[v].row = r => run'[v].pc = "complete"
               /\ shown'[r] # None => /\ row'[r].status = shown'[r].status
                                      /\ row'[r].msg = shown'[r].msg
    <2>1. \A v \in Runs : run'[v].row = r => v = w
      BY <1>2, <1>3, <1>5 DEF OneRun
    <2>2. CASE RunComplete(w) \/ RunCrash(w)
      <3>1. run'[w].row = None /\ UNCHANGED row
        BY <1>2, <2>2 DEF RunComplete, RunCrash
      <3> QED
        BY <1>1, <1>2, <1>5, <2>1, <3>1 DEF OneRun, RowShowsEvent
    <2>3. CASE run[w].pc # "complete"
      <3>1. row[r].msg = None /\ shown[r] = None
        BY <1>2, <1>5, <2>3, NoIdNoEvent DEF OneRun
      <3>2. CASE ~RunRecord(w)
        <4>1. row'[r].msg = row[r].msg
          BY <1>2, <3>2 DEF RunStep, RunMark, RunSend, RunFail, RunComplete, RunCrash, Row
        <4> QED
          BY <1>2, <2>1, <3>1, <4>1
      <3>3. CASE RunRecord(w)
        <4>1. run'[w].pc = "complete"
          BY <1>2, <3>3 DEF RunRecord, Recorded, Run
        <4>2. row'[r].status = "sent" \/ row'[r] = row[r]
          BY <1>2, <3>3 DEF RunRecord, Row
        <4> QED
          BY <1>2, <2>1, <3>1, <4>1, <4>2 DEF WasEmailSent
      <3> QED
        BY <3>2, <3>3
    <2>4. run[w].pc = "complete" => RunComplete(w) \/ RunCrash(w)
      BY DEF RunStep, RunMark, RunSend, RunRecord, RunFail
    <2> QED
      BY <2>2, <2>3, <2>4
  <1> HIDE DEF r
  <1> QED
    BY <1>2, <1>4, <1>5 DEF OneRun, RowShowsEvent

\* Locked rows keep what a webhook read.
LEMMA HookKeepsMsg ==
  ASSUME TypeOK, LockInv, HookMsg, UNCHANGED hook,
         \A r \in Rows : lock[r] \in Hooks => row'[r].msg = row[r].msg
  PROVE  HookMsg'
  BY DEF HookMsg, LockInv, HookInv, TypeOK, HookTypes

\* So does a transaction that only reports events: a delivered mail was sent.
LEMMA EventKeepsOneRun ==
  ASSUME OneRun, UNCHANGED <<run, exposed>>,
         \A r \in Rows : /\ row'[r].msg = row[r].msg
                        /\ row'[r].status \in {row[r].status} \union Reported
  PROVE  OneRun'
  BY DEF OneRun, WasEmailSent

\* Every step keeps the three.
LEMMA StepAlone ==
  ASSUME TypeOK, LockInv, OneRun, HookMsg, RowShowsEvent, [Next]_vars
  PROVE  OneRun' /\ HookMsg' /\ RowShowsEvent'
  <1>1. CASE UNCHANGED vars
    BY <1>1 DEF vars, OneRun, HookMsg, RowShowsEvent
  <1>2. ASSUME NEW w \in Runs, RunStep(w) \/ \E r \in Rows : RunCheck(w, r)
        PROVE  OneRun' /\ HookMsg' /\ RowShowsEvent'
    <2>1. OneRun' /\ RowShowsEvent'
      BY <1>2, CheckAlone, RunAlone
    <2>2. UNCHANGED hook /\ \A r \in Rows : lock[r] # None => row'[r] = row[r]
      BY <1>2, RunFrame
    <2> QED
      BY <2>1, <2>2, HookKeepsMsg, ActorAssumption
  <1>3. ASSUME NEW e \in Event, Emit(e) PROVE OneRun' /\ HookMsg' /\ RowShowsEvent'
    BY <1>3 DEF Emit, worker, OneRun, HookMsg, RowShowsEvent
  <1>4. ASSUME NEW h \in Hooks, NEW e \in unanswered, HookMiss(h, e) \/ HookFind(h, e)
        PROVE  OneRun' /\ HookMsg' /\ RowShowsEvent'
    <2>1. UNCHANGED <<row, run, exposed, shown>>
      BY <1>4 DEF HookMiss, HookFind, worker
    <2>2. HookMsg'
      BY <1>4, <2>1 DEF HookMiss, HookFind, RowsOf, HookMsg, TypeOK, HookTypes
    <2> QED
      BY <2>1, <2>2 DEF OneRun, RowShowsEvent
  <1>5. ASSUME NEW h \in Hooks, HookApply(h) \/ HookFail(h)
        PROVE  OneRun' /\ HookMsg' /\ RowShowsEvent'
    <2> DEFINE r == hook[h].row
    <2>1. /\ UNCHANGED <<run, exposed>> /\ hook' = [hook EXCEPT ![h] = IdleHook]
          /\ hook[h].pc = "apply" /\ r \in Rows /\ lock[r] = h
          /\ row[r].msg = hook[h].event.msg
      BY <1>5 DEF HookApply, HookFail, worker, TypeOK, HookTypes, LockInv, HookInv, HookMsg
    <2>2. /\ \A q \in Rows : row'[q].msg = row[q].msg
          /\ \A q \in Rows : q # r => row'[q] = row[q] /\ shown'[q] = shown[q]
          /\ \/ row'[r] = row[r] /\ shown'[r] = shown[r]
             \/ shown'[r] = hook[h].event /\ row'[r].status = hook[h].event.status
      BY <1>5, <2>1 DEF HookApply, HookFail, TypeOK, RowTypes, EventTypes, Row
    <2>3. OneRun'
      <3>1. hook[h].event.status \in Reported
        BY <2>1 DEF TypeOK, HookTypes, EventTypes, Event
      <3> QED
        BY <2>1, <2>2, <3>1, EventKeepsOneRun
    <2>4. HookMsg'
      <3> SUFFICES ASSUME NEW g \in Hooks, hook'[g].pc = "apply"
                   PROVE  row'[hook'[g].row].msg = hook'[g].event.msg
        BY DEF HookMsg
      <3>1. hook'[g] = hook[g]
        BY <2>1, IdleTypes DEF TypeOK, HookTypes
      <3> QED
        BY <2>2, <3>1 DEF HookMsg, TypeOK, HookTypes
    <2>5. RowShowsEvent'
      BY <2>1, <2>2 DEF RowShowsEvent
    <2> QED
      BY <2>3, <2>4, <2>5
  <1>6. ASSUME NEW i \in Imports, ImportApply(i)
        PROVE  OneRun' /\ HookMsg' /\ RowShowsEvent'
    <2>1. UNCHANGED <<run, exposed, hook>>
      BY <1>6 DEF ImportApply, worker
    <2>2. \A r \in Rows :
            /\ row'[r].msg = row[r].msg
            /\ \/ row'[r] = row[r] /\ shown'[r] = shown[r]
               \/ /\ shown'[r] = UpdateOf(i, r) /\ row'[r].status = UpdateOf(i, r).status
                  /\ UpdateOf(i, r).msg = row[r].msg /\ UpdateOf(i, r).status \in Reported
      <3>1. \A r \in Applicable(i) : /\ UpdateOf(i, r).msg = row[r].msg
                                     /\ UpdateOf(i, r).status \in Reported
        <4> SUFFICES ASSUME NEW r \in Applicable(i)
                     PROVE  /\ UpdateOf(i, r).msg = row[r].msg
                            /\ UpdateOf(i, r).status \in Reported
          OBVIOUS
        <4>1. r \in DOMAIN imp[i].seen
          BY DEF Applicable
        <4>2. UpdateOf(i, r).status \in Reported
          BY <4>1, UpdateType DEF Event
        <4> QED
          BY <4>1, <4>2, UpdateType DEF LockInv, ReadInv
      <3> QED
        BY <1>6, <3>1 DEF ImportApply, TypeOK, RowTypes, Row
    <2>3. OneRun'
      BY <2>1, <2>2, EventKeepsOneRun
    <2>4. HookMsg'
      BY <2>1, <2>2, HookKeepsMsg
    <2>5. RowShowsEvent'
      BY <2>1, <2>2 DEF RowShowsEvent
    <2> QED
      BY <2>3, <2>4, <2>5
  <1>7. ASSUME NEW i \in Imports,
               \/ ImportLock(i) \/ ImportFail(i)
               \/ \E j \in Jobs, file \in SUBSET emitted : ImportStart(i, j, file)
        PROVE  OneRun' /\ HookMsg' /\ RowShowsEvent'
    <2>1. UNCHANGED <<row, run, exposed, shown, hook>>
      BY <1>7 DEF ImportLock, ImportFail, ImportStart, worker
    <2> QED
      BY <2>1 DEF OneRun, HookMsg, RowShowsEvent
  <1> QED
    BY <1>1, <1>2, <1>3, <1>4, <1>5, <1>6, <1>7 DEF Next

(* For every number of rows, runs, webhooks and imports, and every fault: a *)
(* row that an event reached shows it and no worker writes to it any more  *)
(* (markAsSent, markAsFailed), wherever workers die, unless its            *)
(* idempotency check failed or two of its runs overlap.                    *)
THEOREM RowsShowTheirEvent == Spec => []RowShowsEvent
  <1>1. Init => OneRun /\ HookMsg /\ RowShowsEvent
    BY IdleTypes, ActorAssumption DEF Init, OneRun, HookMsg, RowShowsEvent, IdleRun
  <1>2. TypeOK /\ LockInv /\ (OneRun /\ HookMsg /\ RowShowsEvent) /\ [Next]_vars
          => (OneRun /\ HookMsg /\ RowShowsEvent)'
    BY StepAlone
  <1> QED
    BY <1>1, <1>2, LocksHold, PTL DEF Spec
=============================================================================
