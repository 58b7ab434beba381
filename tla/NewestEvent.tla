---------------------------- MODULE NewestEvent ----------------------------
(***************************************************************************)
(* What the delivery status of a mail promises, whatever brings it: of the *)
(* events the provider reported of a row's mails, the row shows one, and   *)
(* it only ever moves on to an event that is not older.                    *)
(***************************************************************************)
EXTENDS Integers

CONSTANTS Rows,     \* the rows of email_logs
          Event,    \* the events the provider may report
          NoEvent   \* what a row shows before its first event

VARIABLES emitted,  \* the events reported so far
          best      \* the event each row shows

vars == <<emitted, best>>

At(e) == IF e = NoEvent THEN 0 ELSE e.at

Init == /\ emitted = {}
        /\ best = [r \in Rows |-> NoEvent]

Report(e) == /\ emitted' = emitted \union {e}
             /\ UNCHANGED best

\* One transaction may move several rows.
Advance == /\ best' \in [Rows -> emitted \union {NoEvent}]
           /\ \A r \in Rows : At(best[r]) <= At(best'[r])
           /\ UNCHANGED emitted

Next == Advance \/ \E e \in Event : Report(e)

Spec == Init /\ [][Next]_vars
=============================================================================
