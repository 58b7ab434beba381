---------------------------- MODULE MailPromise ----------------------------
(***************************************************************************)
(* What a campaign promises for each of its recipients, whatever is        *)
(* between the client and the provider (story 3.3): whoever was told that  *)
(* a recipient is taken on has a job for it, the recipient gets one mail,  *)
(* and one more for each run nobody learned the outcome of, and the result *)
(* that is reported at the end is true and stands.                         *)
(***************************************************************************)
EXTENDS Naturals

CONSTANTS Recipient,
          Readable      \* the provider accepts no mail with an answer that reads as a refusal

VARIABLES promised,     \* recipients a client was told are taken on
          outcome,      \* what is reported of each recipient
          mails,        \* mails it was given
          unknown       \* runs nobody learned the outcome of

vars == <<promised, outcome, mails, unknown>>

\* A recipient nobody knows, one that has a job, and how the job ends: the mail was
\* accepted, it was refused for good, or the job was given up.
Result == {"success", "failure", "givenUp"}

Init ==
  /\ promised = {}
  /\ outcome = [r \in Recipient |-> "none"]
  /\ mails = [r \in Recipient |-> 0]
  /\ unknown = [r \in Recipient |-> 0]

\* Recipients get a job.
TakeOn(R) ==
  /\ \A r \in R : outcome[r] = "none"
  /\ outcome' = [r \in Recipient |-> IF r \in R THEN "open" ELSE outcome[r]]
  /\ UNCHANGED <<promised, mails, unknown>>

\* A client is told so.
Answer(R) ==
  /\ \A r \in R : outcome[r] # "none"
  /\ promised' = promised \cup R
  /\ UNCHANGED <<outcome, mails, unknown>>

\* A mail that was refused for good is not given again, but by a run nobody learned
\* the outcome of.
Refused(r) == IF Readable /\ outcome[r] = "failure" THEN 1 ELSE 0

\* The recipient gets a mail, of which the system may never learn.
Mail(r) ==
  /\ outcome[r] # "none"
  /\ mails[r] + Refused(r) <= unknown[r]
  /\ mails' = [mails EXCEPT ![r] = @ + 1]
  /\ unknown' \in {unknown, [unknown EXCEPT ![r] = @ + 1]}
  /\ UNCHANGED <<promised, outcome>>

\* A run is started although nobody knows how the one before it ended.
LoseTrack(r) ==
  /\ outcome[r] = "open"
  /\ unknown' = [unknown EXCEPT ![r] = @ + 1]
  /\ UNCHANGED <<promised, outcome, mails>>

\* The job ends, once.
Report(r, result) ==
  /\ outcome[r] = "open"
  /\ result = "success" => mails[r] > 0
  /\ result = "failure" /\ Readable => mails[r] <= unknown[r]
  /\ outcome' = [outcome EXCEPT ![r] = result]
  /\ UNCHANGED <<promised, mails, unknown>>

Next ==
  \/ \E R \in SUBSET Recipient : TakeOn(R) \/ Answer(R)
  \/ \E r \in Recipient :
       \/ Mail(r) \/ LoseTrack(r)
       \/ \E result \in Result : Report(r, result)

Spec == Init /\ [][Next]_vars
=============================================================================
