------------------------------- MODULE Emails -------------------------------
(***************************************************************************)
(* The notification e-mail log: Notifier::deliver writes a row and queues  *)
(* a job, SendNotificationEmail claims the row and sends it, the           *)
(* maintenance run of every ten minutes (NotificationMaintenance) queues   *)
(* what failed or was never picked up, and the e-mail log of the dashboard *)
(* resends by hand.                                                        *)
(*                                                                         *)
(* The queue does not repeat a job ($tries is 1) and nothing stops a job   *)
(* that runs long: a worker may still be in an attempt when the claim of   *)
(* 60 seconds, or the wait of ten minutes, is over.                        *)
(***************************************************************************)
EXTENDS Integers, Sequences, FiniteSets

CONSTANTS
  Emails,       \* rows of the log
  Workers,      \* queue workers
  MaxAttempts,  \* MAX_AUTOMATIC_ATTEMPTS
  MaxQueued,    \* bound: jobs in the queue
  MaxByHand,    \* bound: resends by hand of one row
  MaxDeaths,    \* bound: workers killed
  None

ASSUME EmailsAssumption ==
  /\ IsFiniteSet(Emails) /\ IsFiniteSet(Workers)
  /\ {MaxAttempts, MaxQueued, MaxByHand, MaxDeaths} \subseteq Nat
  /\ MaxAttempts > 0
  /\ None \notin Emails

VARIABLES
  row,      \* notification_emails: status, attempts, the age of the last one
  jobs,     \* the queue of SendNotificationEmail
  worker,   \* what each worker does
  failed,   \* rows whose job is in failed_jobs
  copies,   \* history: how often the mail server took the e-mail
  twins,    \* history: claims of a row another worker was in, and
            \*   e-mails taken whose worker died before it could say so
  surplus,  \* history: jobs queued by hand, or while one was waiting
  byHand,   \* history: resends by hand
  deaths    \* history: workers killed

history == <<copies, twins, surplus, byHand, deaths>>
vars    == <<row, jobs, worker, failed, copies, twins, surplus, byHand, deaths>>

Statuses == {"none", "pending", "sent", "failed", "pruned"}

\* How long ago last_attempt_at is: null, under a minute, over CLAIM_SECONDS,
\* over RETRY_AFTER_MINUTES.
Ages == {"never", "fresh", "minute", "due"}

Idle == [at |-> "idle", mail |-> None, read |-> "none"]

Init ==
  /\ row = [e \in Emails |-> [status |-> "none", attempts |-> 0, last |-> "never", old |-> FALSE]]
  /\ jobs = <<>>
  /\ worker = [w \in Workers |-> Idle]
  /\ failed = {}
  /\ copies = [e \in Emails |-> 0]
  /\ twins = [e \in Emails |-> 0]
  /\ surplus = [e \in Emails |-> 0]
  /\ byHand = [e \in Emails |-> 0]
  /\ deaths = 0

Unsent(e)    == row[e].status \in {"pending", "failed"}
HoldersOf(e) == {w \in Workers : worker[w].mail = e /\ worker[w].at # "taken"}

\* The jobs of a row that have not come to their claim.
Outstanding(e) == Cardinality({i \in DOMAIN jobs : jobs[i] = e})
                + Cardinality({w \in Workers : worker[w].mail = e /\ worker[w].at = "taken"})

(***************************************************************************)
(* Notifier::deliver.  The job goes on the queue after the commit; the     *)
(* process may die in between, and then the row has no job.                *)
(***************************************************************************)
Deliver(e) ==
  /\ row[e].status = "none"
  /\ row' = [row EXCEPT ![e].status = "pending"]
  /\ \/ jobs' = Append(jobs, e) /\ Len(jobs) < MaxQueued
     \/ jobs' = jobs
  /\ UNCHANGED <<worker, failed, history>>

(***************************************************************************)
(* SendNotificationEmail::handle, cut where the worker may die or another  *)
(* worker may come between.                                                *)
(***************************************************************************)
Take(w) ==
  /\ worker[w].at = "idle" /\ jobs # <<>>
  /\ worker' = [worker EXCEPT ![w] = [Idle EXCEPT !.at = "taken", !.mail = Head(jobs)]]
  /\ jobs' = Tail(jobs)
  /\ UNCHANGED <<row, failed, history>>

\* Mutant: the claim forgets that a row may be sent already.
ClaimableSent(e) == row[e].status \in {"pending", "failed", "sent"} /\ row[e].last # "fresh"

\* The WHERE of the claim: not sent, and not attempted in the last minute.
Claimable(e) == Unsent(e) /\ row[e].last # "fresh"

Claim(w) ==
  LET e == worker[w].mail IN
  /\ worker[w].at = "taken"
  /\ IF Claimable(e)
       THEN /\ row' = [row EXCEPT ![e].attempts = @ + 1, ![e].last = "fresh"]
            /\ twins' = [twins EXCEPT ![e] = @ + (IF HoldersOf(e) = {} THEN 0 ELSE 1)]
            /\ worker' = [worker EXCEPT ![w].at = "claimed"]
       ELSE /\ worker' = [worker EXCEPT ![w] = Idle]
            /\ UNCHANGED <<row, twins>>
  /\ UNCHANGED <<jobs, failed, copies, surplus, byHand, deaths>>

\* The row is read once; the saves below compare with what was read.
Read(w) ==
  /\ worker[w].at = "claimed"
  /\ worker' = [worker EXCEPT ![w].at = "sending",
                                 ![w].read = row[worker[w].mail].status]
  /\ UNCHANGED <<row, jobs, failed, history>>

\* Mail::send: the mail server takes the e-mail, or it throws.
Mail(w) ==
  LET e == worker[w].mail IN
  /\ worker[w].at = "sending"
  /\ \/ /\ worker' = [worker EXCEPT ![w].at = "accepted"]
        /\ copies' = [copies EXCEPT ![e] = @ + 1]
     \/ /\ worker' = [worker EXCEPT ![w].at = "refused"]
        /\ UNCHANGED copies
  /\ UNCHANGED <<row, jobs, failed, twins, surplus, byHand, deaths>>

\* save() writes the attributes that differ from those read, to a row that
\* is still there.
Saved(e, read, status) ==
  IF read = status \/ row[e].status = "pruned" THEN row[e].status ELSE status

\* Mutant: the exception of the mailer is swallowed.
OutcomeUnread(w) == "sent"

Outcome(w) == IF worker[w].at = "accepted" THEN "sent" ELSE "failed"

Save(w) ==
  LET e == worker[w].mail IN
  /\ worker[w].at \in {"accepted", "refused"}
  /\ row' = [row EXCEPT ![e].status = Saved(e, worker[w].read, Outcome(w))]
  /\ worker' = [worker EXCEPT ![w] = Idle]
  /\ UNCHANGED <<jobs, failed, history>>

\* The worker is killed.  Its job may not run again, and the queue files it
\* under failed_jobs.
Die(w) ==
  LET e == worker[w].mail IN
  /\ worker[w].at # "idle" /\ deaths < MaxDeaths
  /\ worker' = [worker EXCEPT ![w] = Idle]
  /\ failed' = failed \union {e}
  /\ twins' = [twins EXCEPT ![e] = @ + (IF worker[w].at = "accepted" THEN 1 ELSE 0)]
  /\ deaths' = deaths + 1
  /\ UNCHANGED <<row, jobs, copies, surplus, byHand>>

(***************************************************************************)
(* NotificationMaintenance and NotificationEmailController.                *)
(***************************************************************************)
\* Mutant: the limit is off by one.
DueOnceMore(e, ignoreLimit) ==
  /\ Unsent(e)
  /\ ignoreLimit \/ row[e].attempts <= MaxAttempts
  /\ row[e].last = "due" \/ (row[e].last = "never" /\ row[e].old)

\* Mutant: the maintenance run looks at failed rows only.
DueFailed(e, ignoreLimit) ==
  /\ row[e].status = "failed"
  /\ ignoreLimit \/ row[e].attempts < MaxAttempts
  /\ row[e].last = "due"

\* What retryDue selects; by hand the limit is ignored.
Due(e, ignoreLimit) ==
  /\ Unsent(e)
  /\ ignoreLimit \/ row[e].attempts < MaxAttempts
  /\ row[e].last = "due" \/ (row[e].last = "never" /\ row[e].old)

\* The run queues one job for each of them, in the order of their ids.
DueRows(ignoreLimit) == {e \in Emails : Due(e, ignoreLimit)}

Orderings(S) == {q \in [1..Cardinality(S) -> S] : \A i, j \in DOMAIN q : q[i] = q[j] => i = j}

QueueAll(S) == \E q \in Orderings(S) : Len(jobs \o q) <= MaxQueued /\ jobs' = jobs \o q

RetryDue ==
  LET S == DueRows(FALSE) IN
  /\ S # {} /\ QueueAll(S)
  /\ surplus' = [e \in Emails |-> surplus[e] + (IF e \in S /\ Outstanding(e) > 0 THEN 1 ELSE 0)]
  /\ UNCHANGED <<row, worker, failed, copies, twins, byHand, deaths>>

\* "Retry all" in the log: retryDue(ignoreLimit: true).
RetryFailed ==
  LET S == DueRows(TRUE) IN
  /\ S # {} /\ QueueAll(S) /\ \A e \in S : byHand[e] < MaxByHand
  /\ surplus' = [e \in Emails |-> surplus[e] + (IF e \in S THEN 1 ELSE 0)]
  /\ byHand' = [e \in Emails |-> byHand[e] + (IF e \in S THEN 1 ELSE 0)]
  /\ UNCHANGED <<row, worker, failed, copies, twins, deaths>>

\* "Retry" on a row: last_attempt_at is cleared, whatever is going on.
Retry(e) ==
  /\ Unsent(e) /\ byHand[e] < MaxByHand /\ Len(jobs) < MaxQueued
  /\ row' = [row EXCEPT ![e].last = "never"]
  /\ jobs' = Append(jobs, e)
  /\ surplus' = [surplus EXCEPT ![e] = @ + 1]
  /\ byHand' = [byHand EXCEPT ![e] = @ + 1]
  /\ UNCHANGED <<worker, failed, copies, twins, deaths>>

\* "Retry" on a failed job.
RetryJob(e) ==
  /\ e \in failed /\ byHand[e] < MaxByHand /\ Len(jobs) < MaxQueued
  /\ jobs' = Append(jobs, e)
  /\ failed' = failed \ {e}
  /\ surplus' = [surplus EXCEPT ![e] = @ + 1]
  /\ byHand' = [byHand EXCEPT ![e] = @ + 1]
  /\ UNCHANGED <<row, worker, copies, twins, deaths>>

\* After 180 days; no worker is that slow.
Prune(e) ==
  /\ row[e].status = "sent" /\ row[e].last = "due" /\ HoldersOf(e) = {}
  /\ row' = [row EXCEPT ![e].status = "pruned"]
  /\ UNCHANGED <<jobs, worker, failed, history>>

(***************************************************************************)
(* Time.                                                                   *)
(***************************************************************************)
Pass(e) ==
  /\ row[e].status # "none"
  /\ \/ row[e].last = "fresh" /\ row' = [row EXCEPT ![e].last = "minute"]
     \/ row[e].last = "minute" /\ row' = [row EXCEPT ![e].last = "due", ![e].old = TRUE]
     \/ row[e].last = "never" /\ ~row[e].old /\ row' = [row EXCEPT ![e].old = TRUE]
  /\ UNCHANGED <<jobs, worker, failed, history>>

Work(w) == Take(w) \/ Claim(w) \/ Read(w) \/ Mail(w) \/ Save(w)

Next ==
  \/ \E e \in Emails : Deliver(e) \/ Retry(e) \/ RetryJob(e) \/ Prune(e) \/ Pass(e)
  \/ \E w \in Workers : Work(w) \/ Die(w)
  \/ RetryDue \/ RetryFailed

Spec == Init /\ [][Next]_vars

\* The workers run, the schedule runs, and time passes.  Nobody need press
\* a button and no mail server need ever take an e-mail.
Fairness ==
  /\ \A w \in Workers : WF_vars(Work(w))
  /\ WF_vars(RetryDue)
  /\ \A e \in Emails : WF_vars(Pass(e))

FairSpec == Spec /\ Fairness

(***************************************************************************)
(* Properties.                                                             *)
(***************************************************************************)
\* Types, and who is where in a claim.
TypeOK ==
  /\ row \in [Emails -> [status : Statuses, attempts : Nat, last : Ages, old : BOOLEAN]]
  /\ jobs \in Seq(Emails)
  /\ worker \in [Workers -> [at : {"idle", "taken", "claimed", "sending", "accepted", "refused"},
                             mail : Emails \union {None}, read : Statuses]]
  /\ failed \subseteq Emails
  /\ {copies, twins, surplus, byHand} \subseteq [Emails -> Nat]
  /\ deaths \in Nat

\* What is left of the copies an e-mail may have: one, one for each reason to
\* have another, less those made and those an attempt may still make.
Sending(e) == {w \in Workers : worker[w].mail = e /\ worker[w].at \in {"claimed", "sending"}}

Slack(e) == 1 + twins[e] - copies[e] - Cardinality(Sending(e))

\* When nothing is left, every attempt of late was taken by the mail server:
\* none of them will write "failed", and "sent" is written or will be.
Accounted(e) ==
  /\ Slack(e) >= 0
  /\ Slack(e) = 0 =>
       /\ \A w \in HoldersOf(e) : worker[w].at # "refused"
       /\ Unsent(e) => HoldersOf(e) # {} /\ \A w \in HoldersOf(e) : worker[w].read # "sent"

CopiesAccounted == \A e \in Emails : Accounted(e)

\* Before its row is written nothing knows of an e-mail; a worker that has not
\* read its row remembers nothing of it; one that says the mail server took
\* the e-mail is right.
StartsClean ==
  /\ \A e \in Emails : row[e].status = "none" =>
       copies[e] = 0 /\ e \notin failed /\ \A i \in DOMAIN jobs : jobs[i] # e
  /\ \A w \in Workers :
       /\ worker[w].at = "idle" <=> worker[w].mail = None
       /\ worker[w].at # "idle" => row[worker[w].mail].status # "none"
       /\ worker[w].at \in {"taken", "claimed"} => worker[w].read = "none"
       /\ worker[w].at = "accepted" => copies[worker[w].mail] > 0

\* An e-mail reaches the customer twice only for a reason: a worker died after
\* the mail server took it and before the log said so, or a second worker was
\* let in while the first was still sending.  A failure written late by the
\* slower of two workers over "sent" does not add one.
CopiesExplained == \A e \in Emails : copies[e] <= 1 + twins[e]

\* The five automatic attempts: a row is attempted more often only by the jobs
\* somebody queued by hand, or that a maintenance run queued while an earlier
\* job of the same row was still waiting.
AttemptsAccounted ==
  \A e \in Emails : row[e].attempts + Outstanding(e) <= MaxAttempts + surplus[e]

\* "Sent" in the log is never said of an e-mail no mail server took.
SentIsTrue == \A e \in Emails : row[e].status \in {"sent", "pruned"} => copies[e] > 0

\* What the mail server took is said to be sent, or is about to be: a customer
\* who has the e-mail is shown as waiting for it only if a worker died over it
\* or a second one was let in.
TakenIsSaid ==
  \A e \in Emails : copies[e] > 0 /\ twins[e] = 0 =>
    \/ row[e].status \in {"sent", "pruned"}
    \/ \E w \in Workers : worker[w].mail = e /\ worker[w].at = "accepted"

\* "Sent" is taken back, by an attempt that failed late, only then too.
SentStands ==
  [][\A e \in Emails : row[e].status = "sent" /\ twins[e] = 0 =>
       row'[e].status \in {"sent", "pruned"}]_vars

\* The inductive invariant.
IInv == TypeOK /\ CopiesAccounted /\ StartsClean /\ SentIsTrue

\* A mail outage, a killed worker or a lost job delays an e-mail and does not
\* lose it: while automatic attempts are left, a row that is not sent is
\* attempted again.
NotLost ==
  \A e \in Emails : \A n \in 0..(MaxAttempts - 1) :
    (Unsent(e) /\ row[e].attempts = n) ~> (~Unsent(e) \/ row[e].attempts > n)
=============================================================================
