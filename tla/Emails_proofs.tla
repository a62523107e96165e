---------------------------- MODULE Emails_proofs ----------------------------
(***************************************************************************)
(* The e-mail log for any number of rows and workers and any bounds: every *)
(* copy a customer gets beyond the first has a reason, attempts end with   *)
(* the presses and jobs that explain them, and "sent" is never said of an  *)
(* e-mail no mail server took.                                             *)
(***************************************************************************)
EXTENDS Emails, FiniteSetTheorems, SequenceTheorems, TLAPS

\* The attempts in progress can be counted.
LEMMA SendingCounted ==
  \A e : IsFiniteSet(Sending(e)) /\ Cardinality(Sending(e)) \in Nat
<1>1. \A e : Sending(e) \subseteq Workers
  BY DEF Sending
<1>. QED  BY <1>1, EmailsAssumption, FS_Subset, FS_CardinalityType

\* The slack of a row is a number.
LEMMA SlackTyped == ASSUME TypeOK, NEW e \in Emails PROVE Slack(e) \in Int
<1>1. twins[e] \in Nat /\ copies[e] \in Nat
  BY DEF TypeOK
<1>. QED  BY <1>1, SendingCounted DEF Slack

\* A row whose workers and copies do not change, and that does not become
\* unsent, stays accounted for.
LEMMA AccountedKept ==
  ASSUME NEW e \in Emails, Accounted(e),
         Sending(e)' = Sending(e), HoldersOf(e)' = HoldersOf(e),
         \A x \in HoldersOf(e) : worker'[x] = worker[x],
         twins'[e] = twins[e], copies'[e] = copies[e],
         Unsent(e)' => Unsent(e)
  PROVE  Accounted(e)'
<1>1. Slack(e)' = Slack(e)
  BY DEF Slack
<1>. QED  BY <1>1 DEF Accounted

\* The initial states satisfy the invariant.
LEMMA InitHolds == Init => IInv
<1>. SUFFICES ASSUME Init PROVE IInv
  OBVIOUS
<1>. USE EmailsAssumption
<1>1. TypeOK
  <2>1. <<>> \in Seq(Emails)
    OBVIOUS
  <2>. QED  BY <2>1 DEF Init, TypeOK, Statuses, Ages, Idle
<1>2. CopiesAccounted
  <2>. SUFFICES ASSUME NEW e \in Emails PROVE Accounted(e)
    BY DEF CopiesAccounted
  <2>1. Sending(e) = {}
    BY DEF Init, Sending, Idle
  <2>2. Slack(e) = 1
    BY <2>1, FS_EmptySet DEF Slack, Init
  <2>. QED  BY <2>2 DEF Accounted
<1>3. StartsClean /\ SentIsTrue
  BY DEF Init, StartsClean, SentIsTrue, Idle
<1>. QED  BY <1>1, <1>2, <1>3 DEF IInv

\* A worker that moves stays typed.
LEMMA WorkerTyped ==
  ASSUME TypeOK, NEW w \in Workers,
         NEW r \in [at : {"idle", "taken", "claimed", "sending", "accepted", "refused"},
                    mail : Emails \union {None}, read : Statuses]
  PROVE  [worker EXCEPT ![w] = r] \in [Workers -> [at : {"idle", "taken", "claimed", "sending", "accepted", "refused"},
                    mail : Emails \union {None}, read : Statuses]]
  BY DEF TypeOK

\* A row that is written stays typed.
LEMMA RowTyped ==
  ASSUME TypeOK, NEW e \in Emails, NEW r \in [status : Statuses, attempts : Nat, last : Ages, old : BOOLEAN]
  PROVE  [row EXCEPT ![e] = r] \in [Emails -> [status : Statuses, attempts : Nat, last : Ages, old : BOOLEAN]]
  BY DEF TypeOK

\* Steps that queue jobs of rows that exist, and change neither the rows'
\* status nor a worker nor the copies, keep the invariant.
LEMMA QueueingKeeps ==
  ASSUME IInv, TypeOK', UNCHANGED <<worker, copies, twins>>,
         failed' \subseteq failed,
         \A e \in Emails : row'[e].status = row[e].status,
         \A i \in DOMAIN jobs' : row[jobs'[i]].status # "none"
  PROVE  IInv'
<1>1. CopiesAccounted'
  <2>. SUFFICES ASSUME NEW e \in Emails PROVE Accounted(e)'
    BY DEF CopiesAccounted
  <2>1. Sending(e)' = Sending(e) /\ HoldersOf(e)' = HoldersOf(e)
    BY DEF Sending, HoldersOf
  <2>2. Accounted(e)
    BY DEF IInv, CopiesAccounted
  <2>. QED  BY <2>1, <2>2, AccountedKept DEF Unsent
<1>2. StartsClean'
  <2>1. \A w \in Workers : worker[w].mail \in Emails \union {None}
    BY DEF IInv, TypeOK
  <2>. QED  BY <2>1 DEF IInv, StartsClean
<1>3. SentIsTrue'
  BY DEF IInv, SentIsTrue
<1>. QED  BY <1>1, <1>2, <1>3 DEF IInv

\* Only rows that were written have jobs.
LEMMA JobsOfRows == ASSUME IInv PROVE \A i \in DOMAIN jobs : jobs[i] \in Emails /\ row[jobs[i]].status # "none"
<1>1. \A i \in DOMAIN jobs : jobs[i] \in Emails
  BY ElementOfSeq DEF IInv, TypeOK
<1>. QED  BY <1>1 DEF IInv, StartsClean

\* Jobs of one row, or of a set of rows, join the queue.
LEMMA Queued ==
  ASSUME TypeOK
  PROVE  /\ \A e \in Emails :
              /\ Append(jobs, e) \in Seq(Emails)
              /\ \A i \in DOMAIN Append(jobs, e) : Append(jobs, e)[i] = e \/ (i \in DOMAIN jobs /\ Append(jobs, e)[i] = jobs[i])
         /\ \A S \in SUBSET Emails : QueueAll(S) =>
              /\ jobs' \in Seq(Emails)
              /\ \A i \in DOMAIN jobs' : jobs'[i] \in S \/ (i \in DOMAIN jobs /\ jobs'[i] = jobs[i])
<1>1. jobs \in Seq(Emails)
  BY DEF TypeOK
<1>2. ASSUME NEW e \in Emails
      PROVE  /\ Append(jobs, e) \in Seq(Emails)
             /\ \A i \in DOMAIN Append(jobs, e) : Append(jobs, e)[i] = e \/ (i \in DOMAIN jobs /\ Append(jobs, e)[i] = jobs[i])
  BY <1>1
<1>3. ASSUME NEW S \in SUBSET Emails, QueueAll(S)
      PROVE  /\ jobs' \in Seq(Emails)
             /\ \A i \in DOMAIN jobs' : jobs'[i] \in S \/ (i \in DOMAIN jobs /\ jobs'[i] = jobs[i])
  <2>1. PICK q \in Orderings(S) : jobs' = jobs \o q
    BY <1>3 DEF QueueAll
  <2>2. IsFiniteSet(S) /\ Cardinality(S) \in Nat
    BY EmailsAssumption, FS_Subset, FS_CardinalityType
  <2>3. q \in Seq(S) /\ q \in Seq(Emails)
    BY <2>2 DEF Orderings
  <2>4. jobs' \in Seq(Emails) /\ Len(jobs') = Len(jobs) + Len(q)
        /\ \A i \in 1 .. Len(jobs') : jobs'[i] = IF i <= Len(jobs) THEN jobs[i] ELSE q[i - Len(jobs)]
    BY <1>1, <2>1, <2>3, ConcatProperties
  <2>5. \A i \in 1 .. Len(jobs') : i > Len(jobs) => q[i - Len(jobs)] \in S
    BY <1>1, <2>3, <2>4
  <2>. QED  BY <1>1, <2>4, <2>5
<1>. QED  BY <1>2, <1>3

LEMMA DeliverStep == ASSUME IInv, NEW e \in Emails, Deliver(e) PROVE IInv'
<1>. USE DEF Deliver, history
<1>1. TypeOK /\ StartsClean /\ SentIsTrue /\ CopiesAccounted
  BY DEF IInv
<1>2. row[e] \in [status : Statuses, attempts : Nat, last : Ages, old : BOOLEAN] /\ jobs \in Seq(Emails)
  BY <1>1 DEF TypeOK
<1>3. TypeOK'
  <2>1. [row[e] EXCEPT !.status = "pending"] \in [status : Statuses, attempts : Nat, last : Ages, old : BOOLEAN]
    BY <1>2 DEF Statuses
  <2>2. row' = [row EXCEPT ![e] = [row[e] EXCEPT !.status = "pending"]]
    BY <1>1 DEF TypeOK
  <2>3. row' \in [Emails -> [status : Statuses, attempts : Nat, last : Ages, old : BOOLEAN]]
    BY <1>1, <2>1, <2>2 DEF TypeOK
  <2>4. jobs' \in Seq(Emails)
    BY <1>1, <1>2, Queued
  <2>. QED  BY <1>1, <2>3, <2>4 DEF TypeOK
<1>4. \A f \in Emails : row'[f].status = IF f = e THEN "pending" ELSE row[f].status
  BY <1>1 DEF TypeOK
<1>5. CopiesAccounted'
  <2>. SUFFICES ASSUME NEW f \in Emails PROVE Accounted(f)'
    BY DEF CopiesAccounted
  <2>1. Sending(f)' = Sending(f) /\ HoldersOf(f)' = HoldersOf(f)
    BY DEF Sending, HoldersOf
  <2>2. CASE f # e
    BY <1>1, <1>4, <2>1, <2>2, AccountedKept DEF CopiesAccounted, Unsent
  <2>3. CASE f = e
    <3>1. Sending(e) = {} /\ copies[e] = 0 /\ twins[e] \in Nat
      BY <1>1, EmailsAssumption DEF StartsClean, Sending, TypeOK
    <3>2. Cardinality(Sending(e)') = 0 /\ copies'[e] = 0 /\ twins'[e] = twins[e]
      BY <2>1, <2>3, <3>1, FS_EmptySet
    <3>3. Slack(e)' = 1 + twins[e]
      BY <3>1, <3>2 DEF Slack
    <3>. QED  BY <2>3, <3>1, <3>3 DEF Accounted
  <2>. QED  BY <2>2, <2>3
<1>6. StartsClean'
  <2>1. \A i \in DOMAIN jobs' : jobs'[i] = e \/ (i \in DOMAIN jobs /\ jobs'[i] = jobs[i])
    BY <1>1, Queued
  <2>2. \A w \in Workers : worker[w].mail \in Emails \union {None}
    BY <1>1 DEF TypeOK
  <2>. QED  BY <1>1, <1>4, <2>1, <2>2 DEF StartsClean
<1>7. SentIsTrue'
  BY <1>1, <1>4 DEF SentIsTrue
<1>. QED  BY <1>3, <1>5, <1>6, <1>7 DEF IInv

LEMMA PruneStep == ASSUME IInv, NEW e \in Emails, Prune(e) PROVE IInv'
<1>. USE DEF Prune, history
<1>1. TypeOK /\ StartsClean /\ SentIsTrue /\ CopiesAccounted
  BY DEF IInv
<1>2. row[e] \in [status : Statuses, attempts : Nat, last : Ages, old : BOOLEAN]
  BY <1>1 DEF TypeOK
<1>3. TypeOK'
  <2>1. [row[e] EXCEPT !.status = "pruned"] \in [status : Statuses, attempts : Nat, last : Ages, old : BOOLEAN]
    BY <1>2 DEF Statuses
  <2>2. row' = [row EXCEPT ![e] = [row[e] EXCEPT !.status = "pruned"]]
    BY <1>1 DEF TypeOK
  <2>3. row' \in [Emails -> [status : Statuses, attempts : Nat, last : Ages, old : BOOLEAN]]
    BY <1>1, <2>1, <2>2 DEF TypeOK
  <2>. QED  BY <1>1, <2>3 DEF TypeOK
<1>4. \A f \in Emails : row'[f].status = IF f = e THEN "pruned" ELSE row[f].status
  BY <1>1 DEF TypeOK
<1>5. CopiesAccounted'
  <2>. SUFFICES ASSUME NEW f \in Emails PROVE Accounted(f)'
    BY DEF CopiesAccounted
  <2>1. Sending(f)' = Sending(f) /\ HoldersOf(f)' = HoldersOf(f)
    BY DEF Sending, HoldersOf
  <2>. QED  BY <1>1, <1>4, <2>1, AccountedKept DEF CopiesAccounted, Unsent
<1>6. StartsClean'
  <2>1. \A w \in Workers : worker[w].mail \in Emails \union {None}
    BY <1>1 DEF TypeOK
  <2>. QED  BY <1>1, <1>4, <2>1 DEF StartsClean
<1>7. SentIsTrue'
  BY <1>1, <1>4 DEF SentIsTrue
<1>. QED  BY <1>3, <1>5, <1>6, <1>7 DEF IInv

LEMMA PassStep == ASSUME IInv, NEW e \in Emails, Pass(e) PROVE IInv'
<1>. USE DEF Pass, history
<1>1. TypeOK /\ StartsClean
  BY DEF IInv
<1>2. row[e] \in [status : Statuses, attempts : Nat, last : Ages, old : BOOLEAN]
  BY <1>1 DEF TypeOK
<1>3. PICK l \in Ages, o \in BOOLEAN : row' = [row EXCEPT ![e] = [row[e] EXCEPT !.last = l, !.old = o]]
  <2>1. CASE row[e].last = "fresh"
    <3>1. row' = [row EXCEPT ![e] = [row[e] EXCEPT !.last = "minute", !.old = row[e].old]]
      BY <1>1, <1>2, <2>1 DEF TypeOK
    <3>. QED  BY <1>2, <3>1 DEF Ages
  <2>2. CASE row[e].last = "minute"
    <3>1. row' = [row EXCEPT ![e] = [row[e] EXCEPT !.last = "due", !.old = TRUE]]
      BY <1>1, <2>2 DEF TypeOK
    <3>. QED  BY <3>1 DEF Ages
  <2>3. CASE row[e].last = "never"
    <3>1. row' = [row EXCEPT ![e] = [row[e] EXCEPT !.last = row[e].last, !.old = TRUE]]
      BY <1>1, <1>2, <2>3 DEF TypeOK
    <3>. QED  BY <1>2, <3>1
  <2>. QED  BY <2>1, <2>2, <2>3
<1>4. [row[e] EXCEPT !.last = l, !.old = o] \in [status : Statuses, attempts : Nat, last : Ages, old : BOOLEAN]
  BY <1>2
<1>5. TypeOK'
  <2>1. row' \in [Emails -> [status : Statuses, attempts : Nat, last : Ages, old : BOOLEAN]]
    BY <1>1, <1>3, <1>4, RowTyped
  <2>. QED  BY <1>1, <2>1 DEF TypeOK
<1>6. \A f \in Emails : row'[f].status = row[f].status
  BY <1>1, <1>2, <1>3 DEF TypeOK
<1>. QED  BY <1>5, <1>6, JobsOfRows, QueueingKeeps

LEMMA RetryDueStep == ASSUME IInv, RetryDue PROVE IInv'
<1>1. TypeOK /\ DueRows(FALSE) \in SUBSET Emails
  BY DEF IInv, DueRows
<1>2. jobs' \in Seq(Emails) /\ \A i \in DOMAIN jobs' : jobs'[i] \in DueRows(FALSE) \/ (i \in DOMAIN jobs /\ jobs'[i] = jobs[i])
  BY <1>1, Queued DEF RetryDue
<1>3. surplus' \in [Emails -> Nat]
  <2>1. \A e \in Emails : surplus[e] \in Nat
    BY <1>1 DEF TypeOK
  <2>. DEFINE more(e) == IF e \in DueRows(FALSE) /\ Outstanding(e) > 0 THEN 1 ELSE 0
  <2>2. \A e \in Emails : more(e) \in Nat
    OBVIOUS
  <2>3. surplus' = [e \in Emails |-> surplus[e] + more(e)]
    BY DEF RetryDue
  <2>. HIDE DEF more
  <2>. QED  BY <2>1, <2>2, <2>3
<1>4. TypeOK'
  BY <1>1, <1>2, <1>3 DEF RetryDue, TypeOK
<1>5. \A i \in DOMAIN jobs' : row[jobs'[i]].status # "none"
  BY <1>2, JobsOfRows DEF DueRows, Due, Unsent
<1>. QED  BY <1>4, <1>5, QueueingKeeps DEF RetryDue

LEMMA RetryFailedStep == ASSUME IInv, RetryFailed PROVE IInv'
<1>1. TypeOK /\ DueRows(TRUE) \in SUBSET Emails
  BY DEF IInv, DueRows
<1>2. jobs' \in Seq(Emails) /\ \A i \in DOMAIN jobs' : jobs'[i] \in DueRows(TRUE) \/ (i \in DOMAIN jobs /\ jobs'[i] = jobs[i])
  BY <1>1, Queued DEF RetryFailed
<1>3. surplus' \in [Emails -> Nat] /\ byHand' \in [Emails -> Nat]
  <2>1. \A e \in Emails : surplus[e] \in Nat /\ byHand[e] \in Nat
    BY <1>1 DEF TypeOK
  <2>. DEFINE more(e) == IF e \in DueRows(TRUE) THEN 1 ELSE 0
  <2>2. \A e \in Emails : more(e) \in Nat
    OBVIOUS
  <2>3. surplus' = [e \in Emails |-> surplus[e] + more(e)] /\ byHand' = [e \in Emails |-> byHand[e] + more(e)]
    BY DEF RetryFailed
  <2>. HIDE DEF more
  <2>. QED  BY <2>1, <2>2, <2>3
<1>4. TypeOK'
  BY <1>1, <1>2, <1>3 DEF RetryFailed, TypeOK
<1>5. \A i \in DOMAIN jobs' : row[jobs'[i]].status # "none"
  BY <1>2, JobsOfRows DEF DueRows, Due, Unsent
<1>. QED  BY <1>4, <1>5, QueueingKeeps DEF RetryFailed

LEMMA RetryStep == ASSUME IInv, NEW e \in Emails, Retry(e) PROVE IInv'
<1>1. TypeOK
  BY DEF IInv
<1>2. jobs' \in Seq(Emails) /\ \A i \in DOMAIN jobs' : jobs'[i] = e \/ (i \in DOMAIN jobs /\ jobs'[i] = jobs[i])
  BY <1>1, Queued DEF Retry
<1>3. \A f \in Emails : row'[f].status = row[f].status
  BY <1>1 DEF Retry, TypeOK
<1>4. TypeOK'
  <2>1. row[e] \in [status : Statuses, attempts : Nat, last : Ages, old : BOOLEAN] /\ surplus[e] \in Nat /\ byHand[e] \in Nat
    BY <1>1 DEF TypeOK
  <2>2. [row[e] EXCEPT !.last = "never"] \in [status : Statuses, attempts : Nat, last : Ages, old : BOOLEAN]
    BY <2>1 DEF Ages
  <2>3. row' \in [Emails -> [status : Statuses, attempts : Nat, last : Ages, old : BOOLEAN]]
    BY <1>1, <2>2 DEF Retry, TypeOK
  <2>4. surplus' \in [Emails -> Nat] /\ byHand' \in [Emails -> Nat]
    BY <1>1, <2>1 DEF Retry, TypeOK
  <2>. QED  BY <1>1, <1>2, <2>3, <2>4 DEF Retry, TypeOK
<1>5. \A i \in DOMAIN jobs' : row[jobs'[i]].status # "none"
  BY <1>2, JobsOfRows DEF Retry, Unsent
<1>. QED  BY <1>3, <1>4, <1>5, QueueingKeeps DEF Retry

LEMMA RetryJobStep == ASSUME IInv, NEW e \in Emails, RetryJob(e) PROVE IInv'
<1>1. TypeOK
  BY DEF IInv
<1>2. jobs' \in Seq(Emails) /\ \A i \in DOMAIN jobs' : jobs'[i] = e \/ (i \in DOMAIN jobs /\ jobs'[i] = jobs[i])
  BY <1>1, Queued DEF RetryJob
<1>3. TypeOK'
  <2>1. surplus[e] \in Nat /\ byHand[e] \in Nat
    BY <1>1 DEF TypeOK
  <2>2. surplus' \in [Emails -> Nat] /\ byHand' \in [Emails -> Nat]
    BY <1>1, <2>1 DEF RetryJob, TypeOK
  <2>. QED  BY <1>1, <1>2, <2>2 DEF RetryJob, TypeOK
<1>4. \A i \in DOMAIN jobs' : row[jobs'[i]].status # "none"
  BY <1>2, JobsOfRows DEF RetryJob, IInv, StartsClean
<1>. QED  BY <1>3, <1>4, QueueingKeeps DEF RetryJob

\* What the invariant says of a worker and the row it is in.
LEMMA AtWork ==
  ASSUME IInv, NEW w \in Workers, worker[w].at # "idle"
  PROVE  /\ worker[w].mail \in Emails /\ Accounted(worker[w].mail)
         /\ row[worker[w].mail].status # "none"
         /\ worker[w] \in [at : {"idle", "taken", "claimed", "sending", "accepted", "refused"},
                           mail : Emails \union {None}, read : Statuses]
         /\ row[worker[w].mail] \in [status : Statuses, attempts : Nat, last : Ages, old : BOOLEAN]
         /\ copies[worker[w].mail] \in Nat /\ twins[worker[w].mail] \in Nat
<1>1. worker[w].mail \in Emails
  BY DEF IInv, StartsClean, TypeOK
<1>. QED  BY <1>1 DEF IInv, StartsClean, TypeOK, CopiesAccounted

\* Idle is a worker's state, and has no row.
LEMMA IdleTyped ==
  /\ Idle \in [at : {"idle", "taken", "claimed", "sending", "accepted", "refused"}, mail : Emails \union {None}, read : Statuses]
  /\ Idle.at = "idle" /\ Idle.mail = None /\ None \notin Emails
  BY EmailsAssumption DEF Idle, Statuses

LEMMA TakeStep == ASSUME IInv, NEW w \in Workers, Take(w) PROVE IInv'
<1>. USE DEF Take, history
<1>1. TypeOK /\ StartsClean /\ SentIsTrue /\ CopiesAccounted
  BY DEF IInv
<1>. DEFINE e == Head(jobs)
            r == [Idle EXCEPT !.at = "taken", !.mail = e]
<1>2. e \in Emails /\ jobs' \in Seq(Emails) /\ e = jobs[1] /\ 1 \in DOMAIN jobs
      /\ \A i \in DOMAIN jobs' : i + 1 \in DOMAIN jobs /\ jobs'[i] = jobs[i + 1]
  BY <1>1, HeadTailProperties, EmptySeq DEF TypeOK
<1>3. r \in [at : {"idle", "taken", "claimed", "sending", "accepted", "refused"}, mail : Emails \union {None}, read : Statuses]
      /\ r.at = "taken" /\ r.mail = e /\ r.read = "none"
  BY <1>2 DEF Idle, Statuses
<1>4. TypeOK'
  <2>1. worker' \in [Workers -> [at : {"idle", "taken", "claimed", "sending", "accepted", "refused"}, mail : Emails \union {None}, read : Statuses]]
    BY <1>1, <1>3, WorkerTyped
  <2>. QED  BY <1>1, <1>2, <2>1 DEF TypeOK
<1>5. \A x \in Workers : worker'[x] = IF x = w THEN r ELSE worker[x]
  BY <1>1 DEF TypeOK
<1>6. CopiesAccounted'
  <2>. SUFFICES ASSUME NEW f \in Emails PROVE Accounted(f)'
    BY DEF CopiesAccounted
  <2>1. worker[w].mail = None
    BY <1>1 DEF StartsClean
  <2>2. Sending(f)' = Sending(f) /\ HoldersOf(f)' = HoldersOf(f) /\ \A x \in HoldersOf(f) : worker'[x] = worker[x]
    BY <1>3, <1>5, <2>1, EmailsAssumption DEF Sending, HoldersOf
  <2>. QED  BY <1>1, <2>2, AccountedKept DEF CopiesAccounted, Unsent
<1>7. StartsClean'
  <2>1. row[e].status # "none"
    BY <1>2, JobsOfRows
  <2>2. \A i \in DOMAIN jobs' : row[jobs'[i]].status # "none"
    BY <1>2, JobsOfRows
  <2>. QED  BY <1>1, <1>2, <1>3, <1>5, <2>1, <2>2, EmailsAssumption DEF StartsClean
<1>8. SentIsTrue'
  BY <1>1 DEF SentIsTrue
<1>. QED  BY <1>4, <1>6, <1>7, <1>8 DEF IInv

LEMMA ClaimStep == ASSUME IInv, NEW w \in Workers, Claim(w) PROVE IInv'
<1>0. PICK e \in Emails : e = worker[w].mail
  BY AtWork DEF Claim
<1>1. TypeOK /\ StartsClean /\ SentIsTrue /\ CopiesAccounted
  BY DEF IInv
<1>2. /\ worker[w].at = "taken" /\ worker[w].read = "none" /\ e \in Emails /\ Accounted(e) /\ row[e].status # "none"
      /\ worker[w] \in [at : {"idle", "taken", "claimed", "sending", "accepted", "refused"},
                        mail : Emails \union {None}, read : Statuses]
      /\ row[e] \in [status : Statuses, attempts : Nat, last : Ages, old : BOOLEAN]
      /\ copies[e] \in Nat /\ twins[e] \in Nat
  BY <1>0, <1>1, AtWork DEF Claim, StartsClean
<1>3. CASE Claimable(e)
  <2>. DEFINE r == [worker[w] EXCEPT !.at = "claimed"]
              n == [row[e] EXCEPT !.attempts = row[e].attempts + 1, !.last = "fresh"]
  <2>1. /\ worker' = [worker EXCEPT ![w] = r] /\ row' = [row EXCEPT ![e] = n]
        /\ twins' = [twins EXCEPT ![e] = @ + (IF HoldersOf(e) = {} THEN 0 ELSE 1)]
        /\ UNCHANGED <<jobs, failed, copies, surplus, byHand, deaths>>
    BY <1>0, <1>1, <1>2, <1>3 DEF Claim, TypeOK
  <2>2. /\ r \in [at : {"idle", "taken", "claimed", "sending", "accepted", "refused"}, mail : Emails \union {None}, read : Statuses]
        /\ r.at = "claimed" /\ r.mail = e /\ r.read = "none"
        /\ n \in [status : Statuses, attempts : Nat, last : Ages, old : BOOLEAN] /\ n.status = row[e].status
    <3>1. row[e].attempts + 1 \in Nat /\ "fresh" \in Ages
      BY <1>2 DEF Ages
    <3>. QED  BY <1>0, <1>2, <3>1
  <2>. HIDE DEF r, n
  <2>3. TypeOK'
    <3>1. worker' \in [Workers -> [at : {"idle", "taken", "claimed", "sending", "accepted", "refused"}, mail : Emails \union {None}, read : Statuses]]
      BY <1>1, <2>1, <2>2 DEF TypeOK
    <3>2. row' \in [Emails -> [status : Statuses, attempts : Nat, last : Ages, old : BOOLEAN]]
      BY <1>1, <2>1, <2>2 DEF TypeOK
    <3>3. twins' \in [Emails -> Nat]
      BY <1>1, <1>2, <2>1 DEF TypeOK
    <3>. QED  BY <1>1, <2>1, <3>1, <3>2, <3>3 DEF TypeOK
  <2>4. /\ \A x \in Workers : worker'[x] = IF x = w THEN r ELSE worker[x]
        /\ \A f \in Emails : row'[f].status = row[f].status
        /\ \A f \in Emails : f # e => twins'[f] = twins[f]
        /\ HoldersOf(e) = {} => twins'[e] = twins[e]
        /\ HoldersOf(e) # {} => twins'[e] = twins[e] + 1
    BY <1>1, <1>2, <2>1, <2>2 DEF TypeOK
  <2>5. CopiesAccounted'
    <3>. SUFFICES ASSUME NEW f \in Emails PROVE Accounted(f)'
      BY DEF CopiesAccounted
    <3>1. CASE f # e
      <4>1. /\ Sending(f)' = Sending(f) /\ HoldersOf(f)' = HoldersOf(f)
            /\ \A x \in HoldersOf(f) : worker'[x] = worker[x]
        BY <1>0, <2>2, <2>4, <3>1 DEF Sending, HoldersOf
      <4>. QED  BY <1>1, <2>1, <2>4, <3>1, <4>1, AccountedKept DEF CopiesAccounted, Unsent
    <3>2. CASE f = e
      <4>1. Sending(e)' = Sending(e) \union {w} /\ w \notin Sending(e)
        BY <1>0, <1>2, <2>2, <2>4 DEF Sending
      <4>2. HoldersOf(e)' = HoldersOf(e) \union {w} /\ w \notin HoldersOf(e)
        BY <1>0, <1>2, <2>2, <2>4 DEF HoldersOf
      <4>3. Cardinality(Sending(e)') = Cardinality(Sending(e)) + 1
        BY <4>1, SendingCounted, FS_AddElement
      <4>4. CASE HoldersOf(e) = {}
        <5>1. twins'[e] = twins[e] /\ copies'[e] = copies[e]
          BY <1>2, <2>1, <2>4, <4>4
        <5>2. Slack(e) \in Int /\ Slack(e)' = Slack(e) - 1
          BY <1>2, <4>3, <5>1, SendingCounted DEF Slack
        <5>3. Slack(e) >= 1
          BY <1>2, <1>3, <4>4, <5>2 DEF Accounted, Claimable
        <5>4. \A x \in HoldersOf(e)' : worker'[x].at # "refused" /\ worker'[x].read # "sent"
          BY <2>2, <2>4, <4>2, <4>4
        <5>. QED  BY <3>2, <4>2, <5>2, <5>3, <5>4 DEF Accounted
      <4>5. CASE HoldersOf(e) # {}
        <5>1. twins'[e] = twins[e] + 1 /\ copies'[e] = copies[e]
          BY <1>2, <2>1, <2>4, <4>5
        <5>2. Slack(e)' = Slack(e)
          BY <1>2, <4>3, <5>1, SendingCounted DEF Slack
        <5>3. \A x \in HoldersOf(e)' : x = w \/ (x \in HoldersOf(e) /\ worker'[x] = worker[x])
          BY <2>4, <4>2 DEF HoldersOf
        <5>4. worker'[w].at # "refused" /\ worker'[w].read # "sent"
          BY <2>2, <2>4
        <5>5. Unsent(e)' => Unsent(e)
          BY <1>2, <2>4 DEF Unsent
        <5>. QED  BY <1>2, <3>2, <4>2, <5>2, <5>3, <5>4, <5>5 DEF Accounted
      <4>. QED  BY <4>4, <4>5
    <3>. QED  BY <3>1, <3>2
  <2>6. StartsClean'
    <3>1. \A x \in Workers : worker[x].mail \in Emails \union {None}
      BY <1>1 DEF TypeOK
    <3>. QED  BY <1>1, <1>2, <2>1, <2>2, <2>4, <3>1, EmailsAssumption DEF StartsClean
  <2>7. SentIsTrue'
    BY <1>1, <2>1, <2>4 DEF SentIsTrue
  <2>. QED  BY <2>3, <2>5, <2>6, <2>7 DEF IInv
<1>4. CASE ~Claimable(e)
  <2>1. worker' = [worker EXCEPT ![w] = Idle] /\ UNCHANGED <<row, twins, jobs, failed, copies, surplus, byHand, deaths>>
    BY <1>0, <1>4 DEF Claim
  <2>2. \A x \in Workers : worker'[x] = IF x = w THEN Idle ELSE worker[x]
    BY <1>1, <2>1 DEF TypeOK
  <2>3. TypeOK'
    <3>1. worker' \in [Workers -> [at : {"idle", "taken", "claimed", "sending", "accepted", "refused"}, mail : Emails \union {None}, read : Statuses]]
      BY <1>1, <2>1, IdleTyped DEF TypeOK
    <3>. QED  BY <1>1, <2>1, <3>1 DEF TypeOK
  <2>4. CopiesAccounted'
    <3>. SUFFICES ASSUME NEW f \in Emails PROVE Accounted(f)'
      BY DEF CopiesAccounted
    <3>1. Sending(f)' = Sending(f) /\ HoldersOf(f)' = HoldersOf(f) /\ \A x \in HoldersOf(f) : worker'[x] = worker[x]
      BY <1>2, <2>2, IdleTyped DEF Sending, HoldersOf
    <3>. QED  BY <1>1, <2>1, <3>1, AccountedKept DEF CopiesAccounted, Unsent
  <2>5. StartsClean'
    <3>1. \A x \in Workers : worker[x].mail \in Emails \union {None}
      BY <1>1 DEF TypeOK
    <3>. QED  BY <1>1, <2>1, <2>2, <3>1, IdleTyped DEF StartsClean
  <2>6. SentIsTrue'
    BY <1>1, <2>1 DEF SentIsTrue
  <2>. QED  BY <2>3, <2>4, <2>5, <2>6 DEF IInv
<1>. QED  BY <1>3, <1>4

LEMMA ReadStep == ASSUME IInv, NEW w \in Workers, Read(w) PROVE IInv'
<1>0. PICK e \in Emails : e = worker[w].mail
  BY AtWork DEF Read
<1>. DEFINE r == [worker[w] EXCEPT !.at = "sending", !.read = row[e].status]
<1>1. TypeOK /\ StartsClean /\ SentIsTrue /\ CopiesAccounted
  BY DEF IInv
<1>2. /\ worker[w].at = "claimed" /\ e \in Emails /\ Accounted(e) /\ row[e].status # "none"
      /\ worker[w] \in [at : {"idle", "taken", "claimed", "sending", "accepted", "refused"},
                        mail : Emails \union {None}, read : Statuses]
      /\ row[e].status \in Statuses
  BY <1>0, AtWork DEF Read
<1>3. worker' = [worker EXCEPT ![w] = r] /\ UNCHANGED <<row, jobs, failed, copies, twins, surplus, byHand, deaths>>
  BY <1>0, <1>1, <1>2 DEF Read, history, TypeOK
<1>4. r \in [at : {"idle", "taken", "claimed", "sending", "accepted", "refused"}, mail : Emails \union {None}, read : Statuses]
      /\ r.at = "sending" /\ r.mail = e /\ r.read = row[e].status
  BY <1>0, <1>2
<1>. HIDE DEF r
<1>5. TypeOK'
  <2>1. worker' \in [Workers -> [at : {"idle", "taken", "claimed", "sending", "accepted", "refused"}, mail : Emails \union {None}, read : Statuses]]
    BY <1>1, <1>3, <1>4 DEF TypeOK
  <2>. QED  BY <1>1, <1>3, <2>1 DEF TypeOK
<1>6. \A x \in Workers : worker'[x] = IF x = w THEN r ELSE worker[x]
  BY <1>1, <1>3 DEF TypeOK
<1>7. CopiesAccounted'
  <2>. SUFFICES ASSUME NEW f \in Emails PROVE Accounted(f)'
    BY DEF CopiesAccounted
  <2>1. Sending(f)' = Sending(f) /\ HoldersOf(f)' = HoldersOf(f)
    BY <1>0, <1>2, <1>4, <1>6 DEF Sending, HoldersOf
  <2>2. CASE f # e
    <3>1. \A x \in HoldersOf(f) : worker'[x] = worker[x]
      BY <1>0, <1>6, <2>2 DEF HoldersOf
    <3>. QED  BY <1>1, <1>3, <2>1, <3>1, AccountedKept DEF CopiesAccounted, Unsent
  <2>3. CASE f = e
    <3>1. Slack(e)' = Slack(e) /\ (Unsent(e)' <=> Unsent(e))
      BY <1>3, <2>1, <2>3 DEF Slack, Unsent
    <3>2. worker'[w].at = "sending" /\ (Unsent(e) => worker'[w].read # "sent")
      BY <1>4, <1>6 DEF Unsent
    <3>3. \A x \in HoldersOf(e)' : x \in HoldersOf(e) /\ (x = w \/ worker'[x] = worker[x])
      BY <1>6, <2>1, <2>3 DEF HoldersOf
    <3>4. HoldersOf(e)' = HoldersOf(e) /\ Accounted(e)
      BY <1>2, <2>1, <2>3
    <3>5. Slack(e)' >= 0
      BY <3>1, <3>4 DEF Accounted
    <3>6. ASSUME Slack(e)' = 0, NEW x \in HoldersOf(e)'
          PROVE  worker'[x].at # "refused" /\ (Unsent(e)' => worker'[x].read # "sent")
      BY <3>1, <3>2, <3>3, <3>4, <3>6 DEF Accounted
    <3>7. Slack(e)' = 0 /\ Unsent(e)' => HoldersOf(e)' # {}
      BY <3>1, <3>4 DEF Accounted
    <3>. QED  BY <2>3, <3>5, <3>6, <3>7 DEF Accounted
  <2>. QED  BY <2>2, <2>3
<1>8. StartsClean'
  <2>1. \A x \in Workers : worker[x].mail \in Emails \union {None}
    BY <1>1 DEF TypeOK
  <2>. QED  BY <1>1, <1>2, <1>3, <1>4, <1>6, <2>1, EmailsAssumption DEF StartsClean
<1>9. SentIsTrue'
  BY <1>1, <1>3 DEF SentIsTrue
<1>. QED  BY <1>5, <1>7, <1>8, <1>9 DEF IInv

LEMMA MailStep == ASSUME IInv, NEW w \in Workers, Mail(w) PROVE IInv'
<1>0. PICK e \in Emails : e = worker[w].mail
  BY AtWork DEF Mail
<1>1. TypeOK /\ StartsClean /\ SentIsTrue /\ CopiesAccounted
  BY DEF IInv
<1>2. /\ worker[w].at = "sending" /\ Accounted(e) /\ row[e].status # "none"
      /\ worker[w] \in [at : {"idle", "taken", "claimed", "sending", "accepted", "refused"},
                        mail : Emails \union {None}, read : Statuses]
      /\ copies[e] \in Nat /\ twins[e] \in Nat
  BY <1>0, AtWork DEF Mail
<1>3. PICK s \in {"accepted", "refused"} :
        /\ worker' = [worker EXCEPT ![w] = [worker[w] EXCEPT !.at = s]]
        /\ copies' = IF s = "accepted" THEN [copies EXCEPT ![e] = @ + 1] ELSE copies
        /\ UNCHANGED <<row, jobs, failed, twins, surplus, byHand, deaths>>
  BY <1>0, <1>1, <1>2 DEF Mail, TypeOK
<1>. DEFINE r == [worker[w] EXCEPT !.at = s]
<1>4. r \in [at : {"idle", "taken", "claimed", "sending", "accepted", "refused"}, mail : Emails \union {None}, read : Statuses]
      /\ r.at = s /\ r.mail = e /\ r.read = worker[w].read
  BY <1>0, <1>2
<1>5. worker' = [worker EXCEPT ![w] = r]
  BY <1>3
<1>. HIDE DEF r
<1>6. /\ \A x \in Workers : worker'[x] = IF x = w THEN r ELSE worker[x]
      /\ \A f \in Emails : f # e => copies'[f] = copies[f]
      /\ s = "accepted" => copies'[e] = copies[e] + 1
      /\ s = "refused" => copies'[e] = copies[e]
  BY <1>1, <1>3, <1>5 DEF TypeOK
<1>7. TypeOK'
  <2>1. worker' \in [Workers -> [at : {"idle", "taken", "claimed", "sending", "accepted", "refused"}, mail : Emails \union {None}, read : Statuses]]
    BY <1>1, <1>4, <1>5 DEF TypeOK
  <2>2. copies' \in [Emails -> Nat]
    BY <1>1, <1>2, <1>3 DEF TypeOK
  <2>. QED  BY <1>1, <1>3, <2>1, <2>2 DEF TypeOK
<1>8. CopiesAccounted'
  <2>. SUFFICES ASSUME NEW f \in Emails PROVE Accounted(f)'
    BY DEF CopiesAccounted
  <2>1. HoldersOf(f)' = HoldersOf(f)
    BY <1>0, <1>2, <1>4, <1>6 DEF HoldersOf
  <2>2. CASE f # e
    <3>1. Sending(f)' = Sending(f) /\ \A x \in HoldersOf(f) : worker'[x] = worker[x]
      BY <1>0, <1>4, <1>6, <2>2 DEF Sending, HoldersOf
    <3>. QED  BY <1>1, <1>3, <1>6, <2>1, <2>2, <3>1, AccountedKept DEF CopiesAccounted, Unsent
  <2>3. CASE f = e
    <3>1. Sending(e)' = Sending(e) \ {w} /\ w \in Sending(e)
      BY <1>0, <1>2, <1>4, <1>6 DEF Sending
    <3>2. Cardinality(Sending(e)') = Cardinality(Sending(e)) - 1
      BY <3>1, SendingCounted, FS_RemoveElement
    <3>3. twins'[e] = twins[e] /\ (Unsent(e)' <=> Unsent(e))
      BY <1>3 DEF Unsent
    <3>4. Slack(e) \in Int /\ Slack(e) >= 0
      BY <1>1, <1>2, SlackTyped DEF Accounted
    <3>5. CASE s = "accepted"
      <4>1. Slack(e)' = Slack(e)
        BY <1>2, <1>6, <3>2, <3>3, <3>5, SendingCounted DEF Slack
      <4>2. \A x \in HoldersOf(e)' : x \in HoldersOf(e) /\ worker'[x].read = worker[x].read
                                     /\ (worker'[x].at = "refused" => worker[x].at = "refused")
        BY <1>4, <1>6, <2>1, <2>3, <3>5 DEF HoldersOf
      <4>3. HoldersOf(e)' = HoldersOf(e)
        BY <2>1, <2>3
      <4>. QED  BY <1>2, <2>3, <3>3, <4>1, <4>2, <4>3 DEF Accounted
    <3>6. CASE s = "refused"
      <4>1. Slack(e)' = Slack(e) + 1
        BY <1>2, <1>6, <3>2, <3>3, <3>6, SendingCounted DEF Slack
      <4>. QED  BY <2>3, <3>4, <4>1 DEF Accounted
    <3>. QED  BY <3>5, <3>6
  <2>. QED  BY <2>2, <2>3
<1>9. StartsClean'
  <2>1. \A x \in Workers : worker[x].mail \in Emails \union {None} /\ \A f \in Emails : copies[f] \in Nat
    BY <1>1 DEF TypeOK
  <2>2. \A f \in Emails : copies'[f] >= copies[f]
    BY <1>3, <1>6, <2>1
  <2>3. \A f \in Emails : row[f].status = "none" => copies'[f] = copies[f]
    BY <1>2, <1>6
  <2>. QED  BY <1>0, <1>1, <1>2, <1>3, <1>4, <1>6, <2>1, <2>2, <2>3, EmailsAssumption DEF StartsClean
<1>10. SentIsTrue'
  <2>1. \A f \in Emails : copies[f] \in Nat
    BY <1>1 DEF TypeOK
  <2>. QED  BY <1>1, <1>3, <1>6, <2>1 DEF SentIsTrue
<1>. QED  BY <1>7, <1>8, <1>9, <1>10 DEF IInv

LEMMA SaveStep == ASSUME IInv, NEW w \in Workers, Save(w) PROVE IInv'
<1>0. PICK e \in Emails : e = worker[w].mail
  BY AtWork DEF Save
<1>1. TypeOK /\ StartsClean /\ SentIsTrue /\ CopiesAccounted
  BY DEF IInv
<1>2. /\ worker[w].at \in {"accepted", "refused"} /\ Accounted(e) /\ row[e].status # "none"
      /\ row[e] \in [status : Statuses, attempts : Nat, last : Ages, old : BOOLEAN]
      /\ copies[e] \in Nat /\ (worker[w].at = "accepted" => copies[e] > 0)
  BY <1>0, <1>1, AtWork DEF Save, StartsClean
<1>3. PICK s \in Statuses :
        /\ s = Saved(e, worker[w].read, Outcome(w))
        /\ row' = [row EXCEPT ![e].status = s]
  <2>1. Saved(e, worker[w].read, Outcome(w)) \in Statuses
    BY <1>2 DEF Saved, Outcome, Statuses
  <2>. QED  BY <1>0, <2>1 DEF Save
<1>4. worker' = [worker EXCEPT ![w] = Idle] /\ UNCHANGED <<jobs, failed, copies, twins, surplus, byHand, deaths>>
  BY DEF Save, history
<1>5. /\ \A x \in Workers : worker'[x] = IF x = w THEN Idle ELSE worker[x]
      /\ \A f \in Emails : row'[f].status = IF f = e THEN s ELSE row[f].status
  BY <1>1, <1>3, <1>4 DEF TypeOK
<1>6. /\ s \in {row[e].status, "sent", "failed"} /\ s # "none"
      /\ s = "sent" => row[e].status = "sent" \/ worker[w].at = "accepted"
      /\ s = "pruned" => row[e].status = "pruned"
      /\ worker[w].at = "accepted" /\ worker[w].read # "sent" => s \in {"sent", "pruned"}
      /\ worker[w].at = "accepted" /\ row[e].status \in {"sent", "pruned"} => s \in {"sent", "pruned"}
  BY <1>2, <1>3 DEF Saved, Outcome
<1>7. TypeOK'
  <2>1. worker' \in [Workers -> [at : {"idle", "taken", "claimed", "sending", "accepted", "refused"}, mail : Emails \union {None}, read : Statuses]]
    BY <1>1, <1>4, IdleTyped DEF TypeOK
  <2>2. row' \in [Emails -> [status : Statuses, attempts : Nat, last : Ages, old : BOOLEAN]]
    BY <1>1, <1>2, <1>3 DEF TypeOK
  <2>. QED  BY <1>1, <1>4, <2>1, <2>2 DEF TypeOK
<1>8. CopiesAccounted'
  <2>. SUFFICES ASSUME NEW f \in Emails PROVE Accounted(f)'
    BY DEF CopiesAccounted
  <2>1. Sending(f)' = Sending(f)
    BY <1>2, <1>5, IdleTyped DEF Sending
  <2>2. CASE f # e
    <3>1. HoldersOf(f)' = HoldersOf(f) /\ \A x \in HoldersOf(f) : worker'[x] = worker[x]
      BY <1>0, <1>5, <2>2, IdleTyped DEF HoldersOf
    <3>. QED  BY <1>1, <1>4, <1>5, <2>1, <2>2, <3>1, AccountedKept DEF CopiesAccounted, Unsent
  <2>3. CASE f = e
    <3>1. Slack(e)' = Slack(e)
      BY <1>4, <2>1, <2>3 DEF Slack
    <3>2. w \in HoldersOf(e) /\ \A x \in HoldersOf(e)' : x \in HoldersOf(e) /\ worker'[x] = worker[x]
      BY <1>0, <1>2, <1>5, IdleTyped DEF HoldersOf
    <3>3. ASSUME Slack(e) = 0 PROVE ~Unsent(e)'
      <4>1. worker[w].at = "accepted" /\ (Unsent(e) => worker[w].read # "sent")
        BY <1>2, <3>2, <3>3 DEF Accounted
      <4>2. Unsent(e) \/ row[e].status \in {"sent", "pruned"}
        BY <1>2 DEF Unsent, Statuses
      <4>3. s \in {"sent", "pruned"}
        BY <1>6, <4>1, <4>2
      <4>. QED  BY <1>5, <4>3 DEF Unsent
    <3>. QED  BY <1>2, <2>3, <3>1, <3>2, <3>3 DEF Accounted
  <2>. QED  BY <2>2, <2>3
<1>9. StartsClean'
  <2>1. \A x \in Workers : worker[x].mail \in Emails \union {None}
    BY <1>1 DEF TypeOK
  <2>. QED  BY <1>1, <1>2, <1>4, <1>5, <1>6, <2>1, IdleTyped DEF StartsClean
<1>10. SentIsTrue'
  BY <1>1, <1>2, <1>4, <1>5, <1>6 DEF SentIsTrue
<1>. QED  BY <1>7, <1>8, <1>9, <1>10 DEF IInv

LEMMA DieStep == ASSUME IInv, NEW w \in Workers, Die(w) PROVE IInv'
<1>0. PICK e \in Emails : e = worker[w].mail
  BY AtWork DEF Die
<1>1. TypeOK /\ StartsClean /\ SentIsTrue /\ CopiesAccounted
  BY DEF IInv
<1>2. /\ worker[w].at \in {"taken", "claimed", "sending", "accepted", "refused"}
      /\ Accounted(e) /\ row[e].status # "none"
      /\ copies[e] \in Nat /\ twins[e] \in Nat
  BY <1>0, AtWork DEF Die
<1>3. /\ worker' = [worker EXCEPT ![w] = Idle] /\ failed' = failed \union {e} /\ deaths' = deaths + 1
      /\ twins' = IF worker[w].at = "accepted" THEN [twins EXCEPT ![e] = @ + 1] ELSE [twins EXCEPT ![e] = @ + 0]
      /\ UNCHANGED <<row, jobs, copies, surplus, byHand>>
  BY <1>0 DEF Die
<1>4. /\ \A x \in Workers : worker'[x] = IF x = w THEN Idle ELSE worker[x]
      /\ \A f \in Emails : f # e => twins'[f] = twins[f]
      /\ worker[w].at = "accepted" => twins'[e] = twins[e] + 1
      /\ worker[w].at # "accepted" => twins'[e] = twins[e]
  BY <1>1, <1>2, <1>3 DEF TypeOK
<1>5. TypeOK'
  <2>1. worker' \in [Workers -> [at : {"idle", "taken", "claimed", "sending", "accepted", "refused"}, mail : Emails \union {None}, read : Statuses]]
    BY <1>1, <1>3, IdleTyped DEF TypeOK
  <2>2. twins' \in [Emails -> Nat]
    BY <1>1, <1>2, <1>3 DEF TypeOK
  <2>3. deaths' \in Nat
    BY <1>1, <1>3 DEF TypeOK
  <2>. QED  BY <1>1, <1>3, <2>1, <2>2, <2>3 DEF TypeOK
<1>6. CopiesAccounted'
  <2>. SUFFICES ASSUME NEW f \in Emails PROVE Accounted(f)'
    BY DEF CopiesAccounted
  <2>1. CASE f # e
    <3>1. /\ Sending(f)' = Sending(f) /\ HoldersOf(f)' = HoldersOf(f)
          /\ \A x \in HoldersOf(f) : worker'[x] = worker[x]
      BY <1>0, <1>4, <2>1, IdleTyped DEF Sending, HoldersOf
    <3>. QED  BY <1>1, <1>3, <1>4, <2>1, <3>1, AccountedKept DEF CopiesAccounted, Unsent
  <2>2. CASE f = e
    <3>1. Slack(e) \in Int /\ Slack(e) >= 0 /\ (Unsent(e)' <=> Unsent(e))
      BY <1>1, <1>2, <1>3, SlackTyped DEF Accounted, Unsent
    <3>2. CASE worker[w].at \in {"claimed", "sending"}
      <4>1. Sending(e)' = Sending(e) \ {w} /\ w \in Sending(e)
        BY <1>0, <1>4, <3>2, IdleTyped DEF Sending
      <4>2. Cardinality(Sending(e)') = Cardinality(Sending(e)) - 1
        BY <4>1, SendingCounted, FS_RemoveElement
      <4>3. Slack(e)' = Slack(e) + 1
        BY <1>2, <1>3, <1>4, <3>2, <4>2, SendingCounted DEF Slack
      <4>. QED  BY <2>2, <3>1, <4>3 DEF Accounted
    <3>3. CASE worker[w].at \notin {"claimed", "sending"}
      <4>1. Sending(e)' = Sending(e)
        BY <1>4, <3>3, IdleTyped DEF Sending
      <4>2. CASE worker[w].at = "accepted"
        <5>1. Slack(e)' = Slack(e) + 1
          BY <1>2, <1>3, <1>4, <4>1, <4>2, SendingCounted DEF Slack
        <5>. QED  BY <2>2, <3>1, <5>1 DEF Accounted
      <4>3. CASE worker[w].at = "refused"
        <5>1. Slack(e)' = Slack(e)
          BY <1>3, <1>4, <4>1, <4>3 DEF Slack
        <5>2. Slack(e) # 0
          BY <1>0, <1>2, <4>3 DEF Accounted, HoldersOf
        <5>. QED  BY <2>2, <3>1, <5>1, <5>2 DEF Accounted
      <4>4. CASE worker[w].at = "taken"
        <5>1. twins'[e] = twins[e] /\ copies' = copies
          BY <1>3, <1>4, <4>4
        <5>2. HoldersOf(e)' = HoldersOf(e) /\ \A x \in HoldersOf(e) : worker'[x] = worker[x]
          BY <1>4, <4>4, IdleTyped DEF HoldersOf
        <5>. QED  BY <1>2, <2>2, <3>1, <4>1, <5>1, <5>2, AccountedKept
      <4>. QED  BY <1>2, <3>3, <4>2, <4>3, <4>4
    <3>. QED  BY <3>2, <3>3
  <2>. QED  BY <2>1, <2>2
<1>7. StartsClean'
  <2>1. \A x \in Workers : worker[x].mail \in Emails \union {None}
    BY <1>1 DEF TypeOK
  <2>. QED  BY <1>1, <1>2, <1>3, <1>4, <2>1, IdleTyped DEF StartsClean
<1>8. SentIsTrue'
  BY <1>1, <1>3 DEF SentIsTrue
<1>. QED  BY <1>5, <1>6, <1>7, <1>8 DEF IInv

\* The invariant survives every step.
LEMMA StepKeepsIInv == IInv /\ [Next]_vars => IInv'
<1>. SUFFICES ASSUME IInv, [Next]_vars PROVE IInv'
  OBVIOUS
<1>1. CASE \E e \in Emails : Deliver(e) \/ Retry(e) \/ RetryJob(e) \/ Prune(e) \/ Pass(e)
  BY <1>1, DeliverStep, RetryStep, RetryJobStep, PruneStep, PassStep
<1>2. CASE \E w \in Workers : Work(w) \/ Die(w)
  BY <1>2, TakeStep, ClaimStep, ReadStep, MailStep, SaveStep, DieStep DEF Work
<1>3. CASE RetryDue \/ RetryFailed
  BY <1>3, RetryDueStep, RetryFailedStep
<1>4. CASE UNCHANGED vars
  <2>1. TypeOK'
    BY <1>4 DEF IInv, TypeOK, vars
  <2>. QED  BY <1>4, <2>1, JobsOfRows, QueueingKeeps DEF vars
<1>. QED  BY <1>1, <1>2, <1>3, <1>4 DEF Next

\* The inductive invariant of the e-mail log holds in every reachable state.
THEOREM Invariance == Spec => []IInv
<1>. QED  BY InitHolds, StepKeepsIInv, PTL DEF Spec

\* A customer gets an e-mail twice only because a worker died after the mail
\* server took it, or because a worker was let in while another was sending.
THEOREM Copies == Spec => []CopiesExplained
<1>1. IInv => CopiesExplained
  <2>. SUFFICES ASSUME IInv, NEW e \in Emails PROVE copies[e] <= 1 + twins[e]
    BY DEF CopiesExplained
  <2>1. Slack(e) >= 0 /\ copies[e] \in Nat /\ twins[e] \in Nat
    BY DEF IInv, CopiesAccounted, Accounted, TypeOK
  <2>. QED  BY <2>1, SendingCounted DEF Slack
<1>. QED  BY <1>1, Invariance, PTL

\* The log says "sent" only of an e-mail a mail server took.
THEOREM Sent == Spec => []SentIsTrue
<1>1. IInv => SentIsTrue
  BY DEF IInv
<1>. QED  BY <1>1, Invariance, PTL

-----------------------------------------------------------------------------
(* Attempts: the jobs of a row that have not come to their claim are       *)
(* counted at their places in the queue and by the workers that hold them. *)

Places(q, e)  == {i \in DOMAIN q : q[i] = e}
Holding(h, e) == {w \in Workers : h[w].mail = e /\ h[w].at = "taken"}

LEMMA PlacesCounted ==
  ASSUME NEW q \in Seq(Emails), NEW e
  PROVE  IsFiniteSet(Places(q, e)) /\ Cardinality(Places(q, e)) \in Nat
<1>1. Places(q, e) \subseteq 1..Len(q) /\ Len(q) \in Nat
  BY DEF Places
<1>2. IsFiniteSet(1..Len(q))
  BY <1>1, FS_Interval
<1>. QED  BY <1>1, <1>2, FS_Subset, FS_CardinalityType

LEMMA HoldingCounted ==
  ASSUME NEW h, NEW e
  PROVE  IsFiniteSet(Holding(h, e)) /\ Cardinality(Holding(h, e)) \in Nat
<1>1. Holding(h, e) \subseteq Workers
  BY DEF Holding
<1>. QED  BY <1>1, EmailsAssumption, FS_Subset, FS_CardinalityType

\* One job more for the row that is queued, none for the others.
LEMMA PlacesAppend ==
  ASSUME NEW q \in Seq(Emails), NEW f \in Emails, NEW e
  PROVE  Cardinality(Places(Append(q, f), e)) = Cardinality(Places(q, e)) + (IF e = f THEN 1 ELSE 0)
<1>1. /\ DOMAIN Append(q, f) = 1..(Len(q) + 1) /\ DOMAIN q = 1..Len(q) /\ Len(q) \in Nat
      /\ \A i \in 1..Len(q) : Append(q, f)[i] = q[i]
      /\ Append(q, f)[Len(q) + 1] = f
  BY AppendProperties
<1>2. CASE e = f
  <2>1. Places(Append(q, f), e) = Places(q, e) \union {Len(q) + 1} /\ Len(q) + 1 \notin Places(q, e)
    BY <1>1, <1>2 DEF Places
  <2>. QED  BY <1>2, <2>1, PlacesCounted, FS_AddElement
<1>3. CASE e # f
  <2>1. Places(Append(q, f), e) = Places(q, e)
    BY <1>1, <1>3 DEF Places
  <2>. QED  BY <1>3, <2>1, PlacesCounted
<1>. QED  BY <1>2, <1>3

LEMMA OrderingTyped ==
  ASSUME NEW S \in SUBSET Emails, NEW p \in Orderings(S)
  PROVE  p \in Seq(Emails) /\ Len(p) = Cardinality(S)
<1>1. Cardinality(S) \in Nat
  BY EmailsAssumption, FS_Subset, FS_CardinalityType
<1>2. p \in [1..Cardinality(S) -> S]
  BY DEF Orderings
<1>. QED  BY <1>1, <1>2

\* The maintenance run queues at most one job for each row it selects.
LEMMA PlacesQueueAll ==
  ASSUME NEW q \in Seq(Emails), NEW S \in SUBSET Emails, NEW p \in Orderings(S), NEW e
  PROVE  Cardinality(Places(q \o p, e)) <= Cardinality(Places(q, e)) + (IF e \in S THEN 1 ELSE 0)
<1>2. p \in [1..Cardinality(S) -> S] /\ \A i, j \in DOMAIN p : p[i] = p[j] => i = j
  BY DEF Orderings
<1>3. p \in Seq(Emails) /\ Len(p) = Cardinality(S)
  BY OrderingTyped
<1>4. /\ DOMAIN (q \o p) = 1..(Len(q) + Len(p)) /\ DOMAIN q = 1..Len(q)
      /\ Len(q) \in Nat /\ Len(p) \in Nat /\ DOMAIN p = 1..Len(p)
      /\ \A i \in 1..(Len(q) + Len(p)) : (q \o p)[i] = IF i <= Len(q) THEN q[i] ELSE p[i - Len(q)]
  <2>1. /\ q \o p \in Seq(Emails) /\ Len(q \o p) = Len(q) + Len(p)
        /\ \A i \in 1..(Len(q) + Len(p)) : (q \o p)[i] = IF i <= Len(q) THEN q[i] ELSE p[i - Len(q)]
    BY <1>3, ConcatProperties
  <2>2. \A x \in Seq(Emails) : DOMAIN x = 1..Len(x) /\ Len(x) \in Nat
    OBVIOUS
  <2>. QED  BY <1>3, <2>1, <2>2
<1>5. CASE \E k \in DOMAIN p : p[k] = e
  <2>1. PICK k \in DOMAIN p : p[k] = e
    BY <1>5
  <2>2. \A i \in DOMAIN (q \o p) : i > Len(q) /\ (q \o p)[i] = e => i = Len(q) + k
    <3>. SUFFICES ASSUME NEW i \in DOMAIN (q \o p), i > Len(q), (q \o p)[i] = e PROVE i = Len(q) + k
      OBVIOUS
    <3>1. i - Len(q) \in DOMAIN p /\ p[i - Len(q)] = e
      BY <1>4
    <3>2. i - Len(q) = k
      BY <1>2, <2>1, <3>1
    <3>. QED  BY <1>4, <3>2
  <2>3. Places(q \o p, e) \subseteq Places(q, e) \union {Len(q) + k}
    BY <1>4, <2>2 DEF Places
  <2>4. /\ IsFiniteSet(Places(q, e) \union {Len(q) + k})
        /\ Cardinality(Places(q, e) \union {Len(q) + k}) <= Cardinality(Places(q, e)) + 1
    <3>1. IsFiniteSet(Places(q, e)) /\ Cardinality(Places(q, e)) \in Nat
      BY PlacesCounted
    <3>. DEFINE W == Places(q, e)
                x == Len(q) + k
    <3>. HIDE DEF W, x
    <3>2. IsFiniteSet(W \union {x}) /\ (Cardinality(W \union {x}) = IF x \in W THEN Cardinality(W) ELSE Cardinality(W) + 1)
      BY <3>1, FS_AddElement DEF W
    <3>. QED  BY <3>1, <3>2 DEF W, x
  <2>5. Cardinality(Places(q \o p, e)) <= Cardinality(Places(q, e) \union {Len(q) + k})
    BY <2>3, <2>4, FS_Subset
  <2>6. q \o p \in Seq(Emails)
    BY <1>3, ConcatProperties
  <2>7. e \in S /\ Cardinality(Places(q \o p, e)) \in Nat /\ Cardinality(Places(q, e)) \in Nat
        /\ Cardinality(Places(q, e) \union {Len(q) + k}) \in Nat
    BY <1>2, <2>1, <2>4, <2>6, PlacesCounted, FS_CardinalityType
  <2>. QED  BY <2>4, <2>5, <2>7
<1>6. CASE ~\E k \in DOMAIN p : p[k] = e
  <2>1. Places(q \o p, e) = Places(q, e)
    BY <1>4, <1>6 DEF Places
  <2>. QED  BY <2>1, PlacesCounted
<1>. QED  BY <1>5, <1>6

\* The row whose job is taken has one job less in the queue.
LEMMA PlacesTail ==
  ASSUME NEW q \in Seq(Emails), q # <<>>, NEW e
  PROVE  Cardinality(Places(Tail(q), e)) + (IF e = Head(q) THEN 1 ELSE 0) <= Cardinality(Places(q, e))
<1>. DEFINE P == Places(q, e)
            R == P \ {1}
            T == Places(Tail(q), e)
            f == [i \in T |-> i + 1]
<1>1. /\ Tail(q) \in Seq(Emails) /\ Len(q) \in Nat /\ Len(q) > 0
      /\ Len(Tail(q)) = Len(q) - 1 /\ DOMAIN q = 1..Len(q) /\ DOMAIN Tail(q) = 1..Len(Tail(q))
      /\ \A i \in 1..Len(Tail(q)) : Tail(q)[i] = q[i + 1]
      /\ Head(q) = q[1]
  BY HeadTailProperties, EmptySeq
<1>2. f \in Injection(T, R)
  <2>1. \A i \in T : i \in Nat /\ i + 1 \in R
    BY <1>1 DEF Places
  <2>2. f \in [T -> R]
    BY <2>1
  <2>3. \A i, j \in T : f[i] = f[j] => i = j
    BY <2>1
  <2>. QED  BY <2>2, <2>3 DEF Injection, IsInjective
<1>3. /\ IsFiniteSet(P) /\ IsFiniteSet(R) /\ Cardinality(P) \in Nat /\ Cardinality(R) \in Nat
      /\ Cardinality(R) = IF 1 \in P THEN Cardinality(P) - 1 ELSE Cardinality(P)
  BY PlacesCounted, FS_RemoveElement, FS_CardinalityType
<1>4. Cardinality(T) <= Cardinality(R) /\ Cardinality(T) \in Nat
  <2>1. Cardinality(T) \in Nat
    BY <1>1, PlacesCounted
  <2>. HIDE DEF P, R, T, f
  <2>2. Cardinality(T) <= Cardinality(R)
    BY <1>2, <1>3, FS_Injection
  <2>. QED  BY <2>1, <2>2
<1>5. e = Head(q) => 1 \in P
  BY <1>1 DEF Places
<1>. HIDE DEF P, R, T
<1>. QED  BY <1>3, <1>4, <1>5 DEF P, R, T

\* The attempts made and the jobs that will make one, within what is allowed.
Within(e, n, q, h, m) ==
  n + (Cardinality(Places(q, e)) + Cardinality(Holding(h, e))) <= MaxAttempts + m

\* Nothing is attempted before its row is written.
Attempts ==
  /\ AttemptsAccounted
  /\ \A e \in Emails : row[e].status = "none" => row[e].attempts = 0

LEMMA WithinNow ==
  ASSUME NEW e \in Emails, AttemptsAccounted
  PROVE  Within(e, row[e].attempts, jobs, worker, surplus[e])
BY DEF AttemptsAccounted, Within, Outstanding, Places, Holding

LEMMA AttemptsTyped ==
  ASSUME TypeOK
  PROVE  /\ jobs \in Seq(Emails)
         /\ \A e \in Emails : /\ row[e].attempts \in Nat /\ surplus[e] \in Nat
                              /\ Cardinality(Places(jobs, e)) \in Nat
                              /\ Cardinality(Holding(worker, e)) \in Nat
                              /\ Outstanding(e) = Cardinality(Places(jobs, e)) + Cardinality(Holding(worker, e))
<1>1. jobs \in Seq(Emails) /\ \A e \in Emails : row[e].attempts \in Nat /\ surplus[e] \in Nat
  BY DEF TypeOK
<1>2. \A e \in Emails : Outstanding(e) = Cardinality(Places(jobs, e)) + Cardinality(Holding(worker, e))
  BY DEF Outstanding, Places, Holding
<1>. QED  BY <1>1, <1>2, PlacesCounted, HoldingCounted

\* A row that is not written has nobody to attempt it.
LEMMA NothingBefore ==
  ASSUME IInv, NEW e \in Emails, row[e].status = "none"
  PROVE  Places(jobs, e) = {} /\ Holding(worker, e) = {}
BY DEF IInv, StartsClean, Places, Holding

\* A row changes its status or its age, not the attempts made of it.
LEMMA RowSet ==
  ASSUME TypeOK, NEW f, NEW s, NEW e \in Emails,
         \/ row' = [row EXCEPT ![f].status = s]
         \/ row' = [row EXCEPT ![f].last = s]
         \/ row' = [row EXCEPT ![f].last = s, ![f].old = TRUE]
         \/ row' = [row EXCEPT ![f].old = TRUE]
  PROVE  row'[e].attempts = row[e].attempts
<1>1. row \in [Emails -> [status : Statuses, attempts : Nat, last : Ages, old : BOOLEAN]]
  BY DEF TypeOK
<1>2. CASE row' = [row EXCEPT ![f].status = s]
  BY <1>1, <1>2
<1>3. CASE row' = [row EXCEPT ![f].last = s]
  BY <1>1, <1>3
<1>4. CASE row' = [row EXCEPT ![f].last = s, ![f].old = TRUE]
  BY <1>1, <1>4
<1>5. CASE row' = [row EXCEPT ![f].old = TRUE]
  BY <1>1, <1>5
<1>. QED  BY <1>2, <1>3, <1>4, <1>5

\* Time and a retry by hand change its age only.
LEMMA RowAged ==
  ASSUME TypeOK, NEW f, NEW s, NEW e \in Emails,
         \/ row' = [row EXCEPT ![f].last = s]
         \/ row' = [row EXCEPT ![f].last = s, ![f].old = TRUE]
         \/ row' = [row EXCEPT ![f].old = TRUE]
         \/ row' = row
  PROVE  row'[e].status = row[e].status
<1>1. row \in [Emails -> [status : Statuses, attempts : Nat, last : Ages, old : BOOLEAN]]
  BY DEF TypeOK
<1>2. CASE row' = [row EXCEPT ![f].last = s]
  BY <1>1, <1>2
<1>3. CASE row' = [row EXCEPT ![f].last = s, ![f].old = TRUE]
  BY <1>1, <1>3
<1>4. CASE row' = [row EXCEPT ![f].old = TRUE] \/ row' = row
  BY <1>1, <1>4
<1>. QED  BY <1>2, <1>3, <1>4

\* Writing a row, and each way to queue a job of it.
LEMMA AttemptsQueueing ==
  ASSUME IInv, Attempts, NEW e \in Emails,
         \/ \E f \in Emails : Deliver(f) \/ Retry(f) \/ RetryJob(f)
         \/ RetryDue \/ RetryFailed
  PROVE  row'[e].attempts = row[e].attempts /\ Within(e, row'[e].attempts, jobs', worker', surplus'[e])
<1>1. TypeOK /\ AttemptsAccounted
  BY DEF IInv, Attempts
<1>. DEFINE a == row[e].attempts
            n == Cardinality(Places(jobs, e))
            k == Cardinality(Holding(worker, e))
            m == surplus[e]
<1>2. /\ a \in Nat /\ n \in Nat /\ k \in Nat /\ m \in Nat /\ jobs \in Seq(Emails)
      /\ a + (n + k) <= MaxAttempts + m
      /\ MaxAttempts \in Nat /\ MaxAttempts > 0 /\ Outstanding(e) = n + k
  BY <1>1, WithinNow, AttemptsTyped, EmailsAssumption DEF Within
<1>3. ASSUME NEW f \in Emails, Deliver(f)
      PROVE  row'[e].attempts = a /\ Within(e, row'[e].attempts, jobs', worker', surplus'[e])
  <2>1. row'[e].attempts = a /\ worker' = worker /\ surplus'[e] = m /\ row[f].status = "none"
    BY <1>1, <1>3 DEF Deliver, history, TypeOK
  <2>2. CASE jobs' = jobs
    BY <1>2, <2>1, <2>2 DEF Within
  <2>3. CASE jobs' = Append(jobs, f) /\ f # e
    <3>1. Cardinality(Places(jobs', e)) = n
      BY <1>2, <2>3, PlacesAppend
    <3>. QED  BY <1>2, <2>1, <3>1 DEF Within
  <2>4. CASE jobs' = Append(jobs, f) /\ f = e
    <3>1. n = 0 /\ k = 0 /\ a = 0
      BY <2>1, <2>4, NothingBefore, FS_EmptySet DEF Attempts
    <3>2. Cardinality(Places(jobs', e)) = 1
      BY <1>2, <2>4, <3>1, PlacesAppend
    <3>. QED  BY <1>2, <2>1, <3>1, <3>2 DEF Within
  <2>. QED  BY <1>3, <2>2, <2>3, <2>4 DEF Deliver
<1>4. ASSUME NEW f \in Emails, Retry(f) \/ RetryJob(f)
      PROVE  row'[e].attempts = a /\ Within(e, row'[e].attempts, jobs', worker', surplus'[e])
  <2>1. /\ row'[e].attempts = a /\ worker' = worker /\ jobs' = Append(jobs, f)
        /\ surplus'[e] = IF e = f THEN m + 1 ELSE m
    <3>1. CASE Retry(f)
      <4>1. row' = [row EXCEPT ![f].last = "never"]
        BY <3>1 DEF Retry
      <4>2. row'[e].attempts = a
        BY <1>1, <4>1, RowSet
      <4>3. surplus'[e] = IF e = f THEN m + 1 ELSE m
        BY <1>1, <3>1 DEF Retry, TypeOK
      <4>. QED  BY <3>1, <4>2, <4>3 DEF Retry
    <3>2. CASE RetryJob(f)
      BY <1>1, <3>2 DEF RetryJob, TypeOK
    <3>. QED  BY <1>4, <3>1, <3>2
  <2>2. Cardinality(Places(jobs', e)) = IF e = f THEN n + 1 ELSE n
    BY <1>2, <2>1, PlacesAppend
  <2>. HIDE DEF n, k, a, m
  <2>. QED  BY <1>2, <2>1, <2>2 DEF Within, k
<1>5. ASSUME RetryDue
      PROVE  row'[e].attempts = a /\ Within(e, row'[e].attempts, jobs', worker', surplus'[e])
  <2>. DEFINE S == DueRows(FALSE)
  <2>1. /\ row' = row /\ worker' = worker /\ S \in SUBSET Emails
        /\ surplus'[e] = m + (IF e \in S /\ Outstanding(e) > 0 THEN 1 ELSE 0)
    BY <1>1, <1>5 DEF RetryDue, DueRows
  <2>2. PICK q \in Orderings(S) : jobs' = jobs \o q
    BY <1>5 DEF RetryDue, QueueAll
  <2>3. Cardinality(Places(jobs', e)) <= n + (IF e \in S THEN 1 ELSE 0)
    BY <1>2, <2>1, <2>2, PlacesQueueAll
  <2>4. e \in S => a < MaxAttempts
    BY DEF DueRows, Due
  <2>5. Cardinality(Places(jobs', e)) \in Nat
    <3>1. \A x \in Seq(Emails) : Cardinality(Places(x, e)) \in Nat
      BY PlacesCounted
    <3>2. q \in Seq(Emails)
      BY <2>1, OrderingTyped
    <3>3. jobs \o q \in Seq(Emails)
      BY <1>2, <3>2, ConcatProperties
    <3>. QED  BY <2>2, <3>1, <3>3
  <2>. HIDE DEF n, k, a, m, S
  <2>. QED  BY <1>2, <2>1, <2>3, <2>4, <2>5 DEF Within, k, a
<1>6. ASSUME RetryFailed
      PROVE  row'[e].attempts = a /\ Within(e, row'[e].attempts, jobs', worker', surplus'[e])
  <2>. DEFINE S == DueRows(TRUE)
  <2>1. /\ row' = row /\ worker' = worker /\ S \in SUBSET Emails
        /\ surplus'[e] = m + (IF e \in S THEN 1 ELSE 0)
    BY <1>1, <1>6 DEF RetryFailed, DueRows
  <2>2. PICK q \in Orderings(S) : jobs' = jobs \o q
    BY <1>6 DEF RetryFailed, QueueAll
  <2>3. Cardinality(Places(jobs', e)) <= n + (IF e \in S THEN 1 ELSE 0)
    BY <1>2, <2>1, <2>2, PlacesQueueAll
  <2>5. Cardinality(Places(jobs', e)) \in Nat
    <3>1. \A x \in Seq(Emails) : Cardinality(Places(x, e)) \in Nat
      BY PlacesCounted
    <3>2. q \in Seq(Emails)
      BY <2>1, OrderingTyped
    <3>3. jobs \o q \in Seq(Emails)
      BY <1>2, <3>2, ConcatProperties
    <3>. QED  BY <2>2, <3>1, <3>3
  <2>. HIDE DEF n, k, a, m, S
  <2>. QED  BY <1>2, <2>1, <2>3, <2>5 DEF Within, k, a
<1>. QED  BY <1>3, <1>4, <1>5, <1>6

\* A worker takes a job, claims its row with it, or dies.
LEMMA AttemptsWorking ==
  ASSUME IInv, Attempts, NEW e \in Emails, NEW w \in Workers, Work(w) \/ Die(w)
  PROVE  /\ Within(e, row'[e].attempts, jobs', worker', surplus'[e])
         /\ row[e].status = "none" => row'[e].attempts = row[e].attempts
<1>1. TypeOK /\ AttemptsAccounted /\ StartsClean
  BY DEF IInv, Attempts
<1>. DEFINE a == row[e].attempts
            n == Cardinality(Places(jobs, e))
            H == Holding(worker, e)
            k == Cardinality(H)
            m == surplus[e]
            n2 == Cardinality(Places(jobs', e))
            H2 == Holding(worker', e)
            k2 == Cardinality(H2)
            a2 == row'[e].attempts
<1>2. /\ a \in Nat /\ n \in Nat /\ k \in Nat /\ m \in Nat /\ jobs \in Seq(Emails)
      /\ a + (n + k) <= MaxAttempts + m
      /\ MaxAttempts \in Nat /\ IsFiniteSet(H) /\ IsFiniteSet(H2) /\ k2 \in Nat
  BY <1>1, WithinNow, AttemptsTyped, HoldingCounted, EmailsAssumption DEF Within
<1>3. surplus' = surplus
  BY DEF Work, Take, Claim, Read, Mail, Save, Die, history
<1>4. CASE Take(w)
  <2>1. jobs # <<>> /\ jobs' = Tail(jobs) /\ a2 = a
    BY <1>4 DEF Take
  <2>2. n2 + (IF e = Head(jobs) THEN 1 ELSE 0) <= n
    BY <1>2, <2>1, PlacesTail
  <2>3. n2 \in Nat
    <3>1. Tail(jobs) \in Seq(Emails)
      BY <1>2, <2>1, HeadTailProperties
    <3>. QED  BY <2>1, <3>1, PlacesCounted
  <2>4. \A x \in Workers : worker'[x] = IF x = w THEN [Idle EXCEPT !.at = "taken", !.mail = Head(jobs)]
                                        ELSE worker[x]
    BY <1>1, <1>4 DEF Take, TypeOK
  <2>5. worker[w].at = "idle" /\ w \notin H
    BY <1>4 DEF Take, Holding
  <2>6. H2 = IF e = Head(jobs) THEN H \union {w} ELSE H
    BY <2>4, <2>5 DEF Holding, Idle
  <2>7. k2 = IF e = Head(jobs) THEN k + 1 ELSE k
    <3>. HIDE DEF H, H2
    <3>. QED  BY <1>2, <2>5, <2>6, FS_AddElement
  <2>. HIDE DEF a, n, k, m, a2, n2, k2
  <2>8. a2 + (n2 + k2) <= MaxAttempts + m
    BY <1>2, <2>1, <2>2, <2>3, <2>7
  <2>. QED  BY <1>3, <2>1, <2>8 DEF Within, a, m, a2, n2, k2
<1>5. CASE Claim(w)
  <2>1. jobs' = jobs /\ worker[w].at = "taken" /\ worker'[w].at # "taken"
        /\ \A x \in Workers : x # w => worker'[x] = worker[x]
    BY <1>1, <1>5 DEF Claim, Idle, TypeOK
  <2>2. n2 = n /\ H2 = H \ {w}
    BY <2>1 DEF Holding
  <2>3. CASE worker[w].mail = e
    <3>1. w \in H /\ row[e].status # "none"
      BY <1>1, <2>1, <2>3 DEF Holding, StartsClean
    <3>2. k2 = k - 1
      <4>. HIDE DEF H, H2
      <4>. QED  BY <1>2, <2>2, <3>1, FS_RemoveElement
    <3>3. a2 \in {a, a + 1}
      BY <1>1, <1>5, <2>3 DEF Claim, TypeOK
    <3>4. a2 + (n2 + k2) <= MaxAttempts + m
      <4>. HIDE DEF a, n, k, m, a2, n2, k2
      <4>. QED  BY <1>2, <2>2, <3>2, <3>3
    <3>. QED  BY <1>3, <3>1, <3>4 DEF Within
  <2>4. CASE worker[w].mail # e
    <3>1. H2 = H
      BY <2>2, <2>4 DEF Holding
    <3>2. a2 = a
      BY <1>1, <1>5, <2>4 DEF Claim, TypeOK
    <3>. QED  BY <1>2, <1>3, <2>2, <3>1, <3>2 DEF Within
  <2>. QED  BY <2>3, <2>4
<1>6. CASE Read(w) \/ Mail(w) \/ Save(w) \/ Die(w)
  <2>1. jobs' = jobs /\ a2 = a
    <3>1. CASE Save(w)
      BY <1>1, <3>1, RowSet DEF Save
    <3>2. CASE Read(w) \/ Mail(w) \/ Die(w)
      BY <3>2 DEF Read, Mail, Die, history
    <3>. QED  BY <1>6, <3>1, <3>2
  <2>2. \A x \in Workers : x # w => worker'[x] = worker[x]
    BY <1>1, <1>6 DEF Read, Mail, Save, Die, TypeOK
  <2>3. worker'[w].at # "taken"
    BY <1>1, <1>6 DEF Read, Mail, Save, Die, Idle, TypeOK
  <2>4. H2 \subseteq H
    BY <2>2, <2>3 DEF Holding
  <2>5. k2 <= k
    <3>. HIDE DEF H, H2
    <3>. QED  BY <1>2, <2>4, FS_Subset
  <2>6. a2 + (n2 + k2) <= MaxAttempts + m
    <3>1. n2 = n
      BY <2>1
    <3>. HIDE DEF a, n, k, m, a2, n2, k2
    <3>. QED  BY <1>2, <2>1, <2>5, <3>1
  <2>. QED  BY <1>3, <2>1, <2>6 DEF Within
<1>. QED  BY <1>4, <1>5, <1>6 DEF Work

\* No step attempts a row more often than its jobs account for.
LEMMA AttemptsKept == IInv /\ Attempts /\ [Next]_vars => Attempts'
<1>. SUFFICES ASSUME IInv, Attempts, [Next]_vars, NEW e \in Emails
     PROVE  /\ row'[e].attempts + Outstanding(e)' <= MaxAttempts + surplus'[e]
            /\ row'[e].status = "none" => row'[e].attempts = 0
  BY DEF Attempts, AttemptsAccounted
<1>1. TypeOK /\ StartsClean
  BY DEF IInv
<1>2. /\ Within(e, row'[e].attempts, jobs', worker', surplus'[e])
      /\ row[e].status = "none" => row'[e].attempts = row[e].attempts
  <2>1. CASE \/ \E f \in Emails : Deliver(f) \/ Retry(f) \/ RetryJob(f)
             \/ RetryDue \/ RetryFailed
    BY <2>1, AttemptsQueueing
  <2>2. CASE \E w \in Workers : Work(w) \/ Die(w)
    BY <2>2, AttemptsWorking
  <2>3. ASSUME NEW f \in Emails, Prune(f) \/ Pass(f)
        PROVE  row'[e].attempts = row[e].attempts /\ UNCHANGED <<jobs, worker, surplus>>
    <3>1. UNCHANGED <<jobs, worker, surplus>>
      BY <2>3 DEF Prune, Pass, history
    <3>2. \E s : \/ row' = [row EXCEPT ![f].status = s]
                 \/ row' = [row EXCEPT ![f].last = s]
                 \/ row' = [row EXCEPT ![f].last = s, ![f].old = TRUE]
                 \/ row' = [row EXCEPT ![f].old = TRUE]
      BY <2>3, Zenon DEF Prune, Pass
    <3>. QED  BY <1>1, <3>1, <3>2, RowSet
  <2>4. CASE UNCHANGED vars
    BY <2>4, WithinNow DEF vars, Attempts
  <2>. QED  BY <2>1, <2>2, <2>3, <2>4, WithinNow DEF Next, Attempts
<1>3. row'[e].status = "none" => row[e].status = "none"
  <2>1. CASE \E f \in Emails : Deliver(f) \/ Retry(f) \/ RetryJob(f) \/ Prune(f) \/ Pass(f)
    <3>1. ASSUME NEW f \in Emails, Deliver(f)
          PROVE  row'[e].status = "none" => row[e].status = "none"
      BY <1>1, <3>1 DEF Deliver, TypeOK
    <3>2. ASSUME NEW f \in Emails, Prune(f)
          PROVE  row'[e].status = "none" => row[e].status = "none"
      BY <1>1, <3>2 DEF Prune, TypeOK
    <3>3. ASSUME NEW f \in Emails, Retry(f) \/ RetryJob(f) \/ Pass(f)
          PROVE  row'[e].status = row[e].status
      <4>1. \E s : \/ row' = [row EXCEPT ![f].last = s]
                   \/ row' = [row EXCEPT ![f].last = s, ![f].old = TRUE]
                   \/ row' = [row EXCEPT ![f].old = TRUE]
                   \/ row' = row
        BY <3>3, Zenon DEF Retry, RetryJob, Pass
      <4>. QED  BY <1>1, <4>1, RowAged
    <3>. QED  BY <2>1, <3>1, <3>2, <3>3
  <2>2. ASSUME NEW w \in Workers, Work(w) \/ Die(w)
        PROVE  row'[e].status = "none" => row[e].status = "none"
    <3>1. CASE Save(w)
      <4>1. PICK s : s = Saved(worker[w].mail, worker[w].read, Outcome(w)) /\ row' = [row EXCEPT ![worker[w].mail].status = s]
        BY <3>1 DEF Save
      <4>2. s # "none" \/ s = row[worker[w].mail].status
        BY <4>1 DEF Saved, Outcome
      <4>. QED  BY <1>1, <4>1, <4>2 DEF TypeOK
    <3>2. CASE Take(w) \/ Claim(w) \/ Read(w) \/ Mail(w) \/ Die(w)
      <4>1. CASE Claim(w)
        <5>1. CASE row' = row
          BY <5>1
        <5>2. CASE row' = [row EXCEPT ![worker[w].mail].attempts = @ + 1, ![worker[w].mail].last = "fresh"]
          BY <1>1, <5>2 DEF TypeOK
        <5>. QED  BY <4>1, <5>1, <5>2 DEF Claim
      <4>2. CASE Take(w) \/ Read(w) \/ Mail(w) \/ Die(w)
        BY <4>2 DEF Take, Read, Mail, Die, history
      <4>. QED  BY <3>2, <4>1, <4>2
    <3>. QED  BY <2>2, <3>1, <3>2 DEF Work
  <2>3. CASE RetryDue \/ RetryFailed \/ UNCHANGED vars
    BY <2>3 DEF RetryDue, RetryFailed, vars
  <2>. QED  BY <2>1, <2>2, <2>3 DEF Next
<1>4. Outstanding(e)' = Cardinality(Places(jobs', e)) + Cardinality(Holding(worker', e))
  BY DEF Outstanding, Places, Holding
<1>. QED  BY <1>2, <1>3, <1>4 DEF Within, Attempts

\* Beyond the automatic attempts a row is attempted only by the jobs somebody
\* queued by hand, or that the maintenance run queued while one was waiting.
THEOREM AttemptsCounted == Spec => []AttemptsAccounted
<1>1. Init => Attempts
  <2>. SUFFICES ASSUME Init, NEW e \in Emails PROVE row[e].attempts = 0 /\ surplus[e] = 0 /\ Outstanding(e) = 0
    BY EmailsAssumption DEF Attempts, AttemptsAccounted
  <2>1. IInv /\ row[e].status = "none" /\ row[e].attempts = 0 /\ surplus[e] = 0
    BY InitHolds DEF Init
  <2>2. Places(jobs, e) = {} /\ Holding(worker, e) = {}
    BY <2>1, NothingBefore
  <2>3. Outstanding(e) = Cardinality(Places(jobs, e)) + Cardinality(Holding(worker, e))
    BY DEF Outstanding, Places, Holding
  <2>. QED  BY <2>1, <2>2, <2>3, FS_EmptySet
<1>2. Attempts => AttemptsAccounted
  BY DEF Attempts
<1>. QED  BY <1>1, <1>2, AttemptsKept, Invariance, PTL DEF Spec

\* With no worker dead over it and none let in twice, an e-mail that left has
\* nothing in flight but a worker about to say so.
LEMMA NothingLeft ==
  ASSUME IInv, NEW e \in Emails, copies[e] > 0, twins[e] = 0
  PROVE  /\ \A w \in HoldersOf(e) : worker[w].at = "accepted"
         /\ Unsent(e) => HoldersOf(e) # {}
<1>1. copies[e] \in Nat /\ Accounted(e)
  BY DEF IInv, TypeOK, CopiesAccounted
<1>2. IsFiniteSet(Sending(e)) /\ Cardinality(Sending(e)) \in Nat
  BY SendingCounted
<1>3. Slack(e) = 0 /\ Cardinality(Sending(e)) = 0
  <2>1. Slack(e) = 1 + 0 - copies[e] - Cardinality(Sending(e)) /\ Slack(e) >= 0
    BY <1>1 DEF Slack, Accounted
  <2>. QED  BY <1>1, <1>2, <2>1
<1>4. Sending(e) = {}
  BY <1>2, <1>3, FS_EmptySet
<1>5. \A w \in HoldersOf(e) : worker[w].at \in {"claimed", "sending", "accepted", "refused"}
  <2>. SUFFICES ASSUME NEW w \in HoldersOf(e)
                PROVE  worker[w].at \in {"claimed", "sending", "accepted", "refused"}
    OBVIOUS
  <2>1. w \in Workers /\ worker[w].mail = e /\ worker[w].at # "taken" /\ e # None
    BY EmailsAssumption DEF HoldersOf
  <2>2. worker[w].at # "idle"
    BY <2>1 DEF IInv, StartsClean
  <2>. QED  BY <2>1, <2>2 DEF IInv, TypeOK
<1>. QED  BY <1>1, <1>3, <1>4, <1>5 DEF Accounted, Sending, HoldersOf

\* What the mail server took is said to be sent, or a worker is about to say
\* so, unless one died over it or a second one was let in.
THEOREM Said == Spec => []TakenIsSaid
<1>1. IInv => TakenIsSaid
  <2>. SUFFICES ASSUME IInv, NEW e \in Emails, copies[e] > 0, twins[e] = 0,
                       row[e].status \notin {"sent", "pruned"}
                PROVE  \E w \in Workers : worker[w].mail = e /\ worker[w].at = "accepted"
    BY DEF TakenIsSaid
  <2>1. copies[e] \in Nat /\ row[e].status \in Statuses
    BY DEF IInv, TypeOK
  <2>2. Unsent(e)
    BY <2>1 DEF IInv, StartsClean, Unsent, Statuses
  <2>. QED  BY <2>2, NothingLeft DEF HoldersOf
<1>. QED  BY <1>1, Invariance, PTL

\* "Sent" is taken back only when a worker died over it, or a second one was
\* let in.
THEOREM SentStays == Spec => SentStands
<1>1. ASSUME IInv, [Next]_vars, NEW e \in Emails, row[e].status = "sent", twins[e] = 0
      PROVE  row'[e].status \in {"sent", "pruned"}
  <2>1. TypeOK /\ copies[e] > 0
    BY <1>1 DEF IInv, SentIsTrue
  <2>2. ASSUME NEW f \in Emails, Deliver(f) \/ Prune(f) PROVE row'[e].status \in {"sent", "pruned"}
    BY <1>1, <2>1, <2>2 DEF Deliver, Prune, TypeOK
  <2>3. ASSUME NEW f \in Emails, Retry(f) \/ RetryJob(f) \/ Pass(f) PROVE row'[e].status = row[e].status
    <3>1. \E s : \/ row' = [row EXCEPT ![f].last = s]
                 \/ row' = [row EXCEPT ![f].last = s, ![f].old = TRUE]
                 \/ row' = [row EXCEPT ![f].old = TRUE]
                 \/ row' = row
      BY <2>3, Zenon DEF Retry, RetryJob, Pass
    <3>. QED  BY <2>1, <3>1, RowAged
  <2>4. ASSUME NEW w \in Workers, Save(w) PROVE row'[e].status \in {"sent", "pruned"}
    <3>1. row' = [row EXCEPT ![worker[w].mail].status = Saved(worker[w].mail, worker[w].read, Outcome(w))]
      BY <2>4 DEF Save
    <3>2. CASE worker[w].mail = e
      <4>1. w \in HoldersOf(e)
        BY <2>4, <3>2 DEF Save, HoldersOf
      <4>2. Outcome(w) = "sent"
        BY <1>1, <2>1, <4>1, NothingLeft DEF Outcome
      <4>3. Saved(e, worker[w].read, Outcome(w)) = "sent"
        BY <1>1, <4>2 DEF Saved
      <4>. QED  BY <2>1, <3>1, <3>2, <4>3 DEF TypeOK
    <3>3. CASE worker[w].mail # e
      BY <1>1, <2>1, <3>1, <3>3 DEF TypeOK
    <3>. QED  BY <3>2, <3>3
  <2>5. ASSUME NEW w \in Workers, Claim(w) PROVE row'[e].status = row[e].status
    <3>1. CASE row' = [row EXCEPT ![worker[w].mail].attempts = @ + 1, ![worker[w].mail].last = "fresh"]
      BY <2>1, <3>1 DEF TypeOK
    <3>. QED  BY <2>5, <3>1 DEF Claim
  <2>6. ASSUME NEW w \in Workers, Take(w) \/ Read(w) \/ Mail(w) \/ Die(w) PROVE row' = row
    BY <2>6 DEF Take, Read, Mail, Die, history
  <2>7. ASSUME RetryDue \/ RetryFailed \/ UNCHANGED vars PROVE row' = row
    BY <2>7 DEF RetryDue, RetryFailed, vars
  <2>. QED  BY <1>1, <2>2, <2>3, <2>4, <2>5, <2>6, <2>7 DEF Next, Work
<1>2. IInv /\ [Next]_vars =>
        [\A e \in Emails : row[e].status = "sent" /\ twins[e] = 0 => row'[e].status \in {"sent", "pruned"}]_vars
  BY <1>1
<1>. QED  BY <1>2, Invariance, PTL DEF Spec, SentStands
=============================================================================
