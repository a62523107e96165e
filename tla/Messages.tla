------------------------------ MODULE Messages ------------------------------
(***************************************************************************)
(* Outgoing WhatsApp messages: the composer of the inbox                   *)
(* (whatsapp-inbox.tsx), the outbox rows WhatsAppMessaging reserves and    *)
(* dispatches, the minutely run that works the outbox off and turns paid   *)
(* orders into confirmations, and Meta's status events.                    *)
(*                                                                         *)
(* A dispatch is two transactions with a call to Meta between them.  Meta  *)
(* may take the message and its answer be lost, and the events about a     *)
(* message may arrive before the second transaction, twice, in any order.  *)
(* A process that dies is one that takes no further step: its row stays as *)
(* it is, and the lock of the outbox run keeps the next runs away.         *)
(*                                                                         *)
(* Left out: test sends, media, the inbound half of a conversation beyond  *)
(* the reply window and STOP, and changes of the daily limit.              *)
(***************************************************************************)
EXTENDS Integers, Sequences, FiniteSets

CONSTANTS
  Contacts,   \* wa_contacts; a contact has at most one order here
  Slots,      \* requests of the composer at the server
  Outbox,     \* the minutely run
  Reports,    \* the statuses Meta reports
  Limit,      \* wa_settings.daily_limit
  BatchSize,  \* --max of whatsapp:dispatch
  MaxRows,    \* bound: rows of wa_messages
  MaxDrafts,  \* bound: drafts of the composer
  MaxChanges, \* bound: changes of settings, consent, reply window and payment,
              \* messages sent elsewhere and reports that are dropped
  None

ASSUME MessagesAssumption ==
  /\ IsFiniteSet(Contacts) /\ IsFiniteSet(Slots)
  /\ Reports \subseteq {"sent", "delivered", "read", "failed"}
  /\ {Limit, BatchSize, MaxRows, MaxDrafts, MaxChanges} \subseteq Nat
  /\ BatchSize > 0
  /\ Outbox \notin Slots
  /\ None \notin Contacts \union Slots \union Nat \union (Nat \X Nat)

VARIABLES
  settings,  \* "off", "on", or "campaign": connected, and campaigns enabled
  approved,  \* Meta approved the confirmation template
  contact,   \* opt_in, opt_out, and a message of theirs in the last 24 hours
  order,     \* paid, and its row of wa_order_confirmations
  rows,      \* wa_messages, outbound
  process,   \* what each request, and the outbox run, does
  composer,  \* the inbox: its chat, draft and sendKey, and what it waits for
  meta,      \* the messages Meta took, and who they went to
  events,    \* wa_status_events
  dropped,   \* history: the events that were stored and led to nothing else
  changes    \* how often somebody changed something around the messages

around == <<settings, approved, contact, order, changes>>
server == <<around, meta, events, dropped>>
vars   == <<server, rows, process, composer>>

Processes == Slots \union {Outbox}
Ids       == DOMAIN rows

Idle == [at |-> "idle", to |-> None, mode |-> "reply", key |-> None, row |-> 0, answer |-> "none"]

\* What is left of a process that is through: an answer, if somebody waits.
Done(p, answer) ==
  IF composer.waits = p THEN [Idle EXCEPT !.at = "done", !.answer = answer] ELSE Idle

Init ==
  /\ settings = "campaign"
  /\ approved = TRUE
  /\ contact = [c \in Contacts |-> [optIn |-> TRUE, optOut |-> FALSE, window |-> TRUE]]
  /\ order = [c \in Contacts |-> [paid |-> FALSE, request |-> "none"]]
  /\ rows = <<>>
  /\ process = [p \in Processes |-> Idle]
  /\ composer \in [chat : Contacts, draft : {1}, draws : {0}, key : {None}, waits : {None}]
  /\ meta = {}
  /\ events = {}
  /\ dropped = {}
  /\ changes = 0

(***************************************************************************)
(* Reserving a row: each is one transaction under the lock of wa_settings. *)
(***************************************************************************)
Metered == {"campaign", "manual", "confirmation"}

\* Mutant: only completed rows use the allowance.
UsesAllowanceOnceDone(i) ==
  rows[i].status # "deleted" /\ rows[i].mode \in Metered /\ rows[i].done = "recent"

\* A row uses the allowance until a day after it is completed; one that is
\* still queued, or whose fate is unknown, uses it until it is.
UsesAllowance(i) ==
  rows[i].status # "deleted" /\ rows[i].mode \in Metered /\ rows[i].done # "aged"

Used == Cardinality({i \in Ids : UsesAllowance(i)})

Quota == IF Used < Limit THEN Limit - Used ELSE 0

Campaigned(c) ==
  \E i \in Ids : rows[i].status # "deleted" /\ rows[i].to = c /\ rows[i].mode = "campaign"

\* Mutant: the campaign looks at consent only.
EligibleAgain(c) == contact[c].optIn /\ ~contact[c].optOut

Eligible(c) == contact[c].optIn /\ ~contact[c].optOut /\ ~Campaigned(c)

NewRow(c, mode, key) ==
  [to |-> c, mode |-> mode, own |-> TRUE, key |-> key, status |-> "queued",
   waId |-> None, done |-> "no", handed |-> 0]

\* reserve() for a message of the inbox: a reply, or the template by hand.
MayReserve(c, mode) ==
  /\ settings # "off" /\ ~contact[c].optOut
  /\ mode = "manual" => contact[c].optIn /\ Quota > 0
  /\ mode = "reply" => contact[c].window

KeyRow(key) == {i \in Ids : rows[i].key = key}

Reserve(s) ==
  LET q == process[s] IN
  /\ q.at = "posted"
  /\ \/ \E i \in KeyRow(q.key) :
          /\ process' = [process EXCEPT ![s] = IF rows[i].to = q.to
                                                THEN [@ EXCEPT !.at = "reserved", !.row = i]
                                                ELSE Done(s, "refused")]
          /\ UNCHANGED rows
     \/ /\ KeyRow(q.key) = {} /\ MayReserve(q.to, q.mode) /\ Len(rows) < MaxRows
        /\ rows' = Append(rows, NewRow(q.to, q.mode, q.key))
        /\ process' = [process EXCEPT ![s].at = "reserved", ![s].row = Len(rows) + 1]
     \/ /\ KeyRow(q.key) = {} /\ ~MayReserve(q.to, q.mode)
        /\ process' = [process EXCEPT ![s] = Done(s, "refused")]
        /\ UNCHANGED rows
  /\ UNCHANGED <<server, composer>>

\* campaign(): a row for each eligible contact picked, while the allowance
\* lasts.
Distinct(q) == \A i, j \in DOMAIN q : q[i] = q[j] => i = j

Campaign ==
  /\ settings = "campaign"
  /\ \E n \in 1..Quota : \E q \in [1..n -> {c \in Contacts : Eligible(c)}] :
       /\ Distinct(q) /\ Len(rows) + n <= MaxRows
       /\ rows' = rows \o [i \in 1..n |-> NewRow(q[i], "campaign", None)]
  /\ UNCHANGED <<server, process, composer>>

\* WhatsAppOrderConfirmation::process, one pending request: skipped, left for
\* later, or reserved and dispatched by the same run.
Consented(c) == contact[c].optIn /\ ~contact[c].optOut

ConfirmOrder(c) ==
  /\ process[Outbox].at = "idle" /\ approved /\ order[c].request = "pending"
  /\ \/ /\ ~order[c].paid \/ ~Consented(c)
        /\ order' = [order EXCEPT ![c].request = "skipped"]
        /\ UNCHANGED <<rows, process>>
     \/ /\ order[c].paid /\ Consented(c) /\ settings # "off" /\ Quota > 0 /\ Len(rows) < MaxRows
        /\ rows' = Append(rows, NewRow(c, "confirmation", None))
        /\ order' = [order EXCEPT ![c].request = "reserved"]
        /\ process' = [process EXCEPT ![Outbox].at = "reserved", ![Outbox].row = Len(rows) + 1]
  /\ UNCHANGED <<settings, approved, contact, changes, meta, events, dropped, composer>>

(***************************************************************************)
(* dispatch().                                                             *)
(***************************************************************************)
\* Mutant: a row found "sending" is taken for one whose process died.
ClaimableStuck(i) == rows[i].status \in {"queued", "sending"}

Claimable(i) == rows[i].status = "queued"

\* Left in the queue for another time.
Waits(i) ==
  \/ settings = "off"
  \/ rows[i].mode = "campaign" /\ settings # "campaign"
  \/ rows[i].mode = "confirmation" /\ ~approved

\* Consent, the reply window or the order changed since it was reserved.
Stale(i) ==
  LET c == rows[i].to IN
  \/ contact[c].optOut
  \/ rows[i].mode \in {"manual", "campaign"} /\ ~contact[c].optIn
  \/ rows[i].mode = "reply" /\ ~contact[c].window
  \/ rows[i].mode = "confirmation" /\ ~(order[c].paid /\ contact[c].optIn)

\* The first transaction, by process p on row i.
Claim(p, i) ==
  /\ IF Claimable(i) /\ ~Waits(i)
       THEN IF Stale(i)
              THEN /\ rows' = [rows EXCEPT ![i].status = "cancelled", ![i].done = "recent"]
                   /\ process' = [process EXCEPT ![p] = Done(p, "cancelled")]
              ELSE /\ rows' = [rows EXCEPT ![i].status = "sending"]
                   /\ process' = [process EXCEPT ![p].at = "sending", ![p].row = i]
       ELSE /\ process' = [process EXCEPT ![p] = Done(p, rows[i].status)]
            /\ UNCHANGED rows
  /\ UNCHANGED <<server, composer>>

ClaimReserved(p) == process[p].at = "reserved" /\ Claim(p, process[p].row)

\* The outbox run takes the oldest queued rows, BatchSize of them.
Queued == {i \in Ids : rows[i].status = "queued"}
\* Mutant: the outbox run takes the oldest rows, queued or not.
BatchOfAll == {i \in Ids : Cardinality({j \in Ids : j < i}) < BatchSize}

Batch == {i \in Queued : Cardinality({j \in Queued : j < i}) < BatchSize}
WorkOff == process[Outbox].at = "idle" /\ \E i \in Batch : Claim(Outbox, i)

\* The call to Meta.  "lost": Meta took the message and the answer did not
\* come in time; "refused": Meta did not take it, or was not reached.
MetaTakes(p, outcome) ==
  LET i  == process[p].row
      id == <<i, rows[i].handed + 1>>
  IN
  /\ process[p].at = "sending"
  /\ process' = [process EXCEPT ![p].at = "called", ![p].answer = outcome]
  /\ IF outcome = "refused"
       THEN UNCHANGED <<rows, meta>>
       ELSE /\ rows' = [rows EXCEPT ![i].handed = @ + 1]
            /\ meta' = meta \union {[id |-> id, to |-> rows[i].to]}
  /\ UNCHANGED <<around, events, dropped, composer>>

\* Mutant: the second transaction does not look for a row that came first.
NoEarlyRow(id) == {}

\* The second transaction.  A status event that came first has made a row of
\* its own for the message: its status is taken over and it is deleted.
EarlyRow(id) == {j \in Ids : rows[j].waId = id /\ ~rows[j].own}

Reported == {"sent", "delivered", "read", "failed"}

Early(i) == EarlyRow(<<i, rows[i].handed>>)

Known(i) ==
  IF Early(i) # {} THEN rows[CHOOSE j \in Early(i) : TRUE].status ELSE "accepted"

AfterCall(p) ==
  LET i == process[p].row IN
  IF rows[i].status \in Reported THEN rows[i].status
  ELSE IF process[p].answer = "accepted" THEN Known(i) ELSE "uncertain"

Settle(p) ==
  LET i == process[p].row IN
  /\ process[p].at = "called"
  /\ rows' = IF process[p].answer = "accepted"
               THEN [j \in Ids |->
                      IF j = i THEN [rows[i] EXCEPT !.status = AfterCall(p),
                                       !.waId = <<i, rows[i].handed>>, !.done = "recent"]
                      ELSE IF j \in Early(i) THEN [rows[j] EXCEPT !.status = "deleted", !.waId = None]
                      ELSE rows[j]]
               ELSE [rows EXCEPT ![i].status = AfterCall(p)]
  /\ process' = [process EXCEPT ![p] = Done(p, AfterCall(p))]
  /\ UNCHANGED <<server, composer>>

(***************************************************************************)
(* The composer: one tab of the inbox.                                     *)
(***************************************************************************)
\* Send reply, or Send template: the first press draws the draft's key.  The
\* buttons go by what the inbox was last told, the checks are the server's.
Keyed ==
  IF composer.key # None THEN composer
  ELSE [composer EXCEPT !.key = <<composer.draft, composer.draws + 1>>, !.draws = @ + 1]

Press(s, mode) ==
  /\ composer.waits = None /\ process[s].at = "idle"
  /\ composer' = [Keyed EXCEPT !.waits = s]
  /\ process' = [process EXCEPT ![s] = [Idle EXCEPT !.at = "posted", !.to = composer.chat,
                                          !.mode = mode, !.key = Keyed.key]]
  /\ UNCHANGED <<server, rows>>

\* The draft is done with and a new one begun.
NewDraft == [composer EXCEPT !.draft = @ + 1, !.draws = 0, !.key = None]

\* The answer: a row whose fate is unknown keeps the draft and its key.
KeepsDraft(answer) == answer \in {"refused", "uncertain", "sending"}

Receive(s) ==
  /\ composer.waits = s /\ process[s].at = "done"
  /\ IF KeepsDraft(process[s].answer)
       THEN composer' = [composer EXCEPT !.waits = None]
       ELSE composer' = [NewDraft EXCEPT !.waits = None] /\ composer.draft < MaxDrafts
  /\ process' = [process EXCEPT ![s] = Idle]
  /\ UNCHANGED <<server, rows>>

\* Mutant: the error path of the composer clears the key.
DropForgetsKey ==
  LET s == composer.waits IN
  /\ s # None
  /\ composer' = [composer EXCEPT !.waits = None, !.key = None]
  /\ process' = [process EXCEPT ![s] = IF @.at = "done" THEN Idle ELSE @]
  /\ UNCHANGED <<server, rows>>

\* The connection drops, or the process behind it is gone.
Drop ==
  LET s == composer.waits IN
  /\ s # None
  /\ composer' = [composer EXCEPT !.waits = None]
  /\ process' = [process EXCEPT ![s] = IF @.at = "done" THEN Idle ELSE @]
  /\ UNCHANGED <<server, rows>>

\* Another chat: a contact in the list starts over; "Open chat" in the
\* contacts tab leaves the draft and its key as they are.
GoTo(c) ==
  /\ composer' \in {[NewDraft EXCEPT !.chat = c], [composer EXCEPT !.chat = c]}
  /\ composer'.draft <= MaxDrafts
  /\ UNCHANGED <<server, rows, process>>

messages == <<rows, process, composer, meta, events, dropped>>

Change == changes < MaxChanges /\ changes' = changes + 1

(***************************************************************************)
(* Meta's webhook.                                                         *)
(***************************************************************************)
Rank == [queued |-> 0, sending |-> 0, uncertain |-> 0, cancelled |-> 0,
         accepted |-> 1, sent |-> 2, failed |-> 2, delivered |-> 3, read |-> 4]

RowOf(id) == {i \in Ids : rows[i].waId = id}

\* A message nobody here knows of: sent elsewhere, or its answer is not in.
ExternalRow(m, status) ==
  [to |-> m.to, mode |-> "campaign", own |-> FALSE, key |-> None, status |-> status,
   waId |-> m.id, done |-> "recent", handed |-> 1]

\* Mutant: a report is written as it comes.
NotOlderUnasked(i, status) == TRUE

NotOlder(i, status) == Rank[status] >= Rank[rows[i].status]

\* A report is written to the row of its message.  A message without a row
\* gets one, if the report says for which Bangladeshi mobile it was.
Status(m, status) ==
  /\ m \in meta /\ <<m.id, status>> \notin events
  /\ events' = events \union {<<m.id, status>>}
  /\ \/ /\ RowOf(m.id) = {} /\ Len(rows) < MaxRows
        /\ rows' = Append(rows, ExternalRow(m, status))
     \/ \E i \in RowOf(m.id) :
          rows' = IF NotOlder(i, status)
                    THEN [rows EXCEPT ![i].status = status, ![i].done = IF @ = "no" THEN "recent" ELSE @]
                    ELSE rows
  /\ UNCHANGED <<around, process, composer, meta, dropped>>

\* If it does not, the event is stored and that is all; when the report comes
\* again it is taken for known.
StatusDropped(m, status) ==
  /\ Change
  /\ m \in meta /\ <<m.id, status>> \notin events /\ RowOf(m.id) = {}
  /\ events' = events \union {<<m.id, status>>}
  /\ dropped' = dropped \union {<<m.id, status>>}
  /\ UNCHANGED <<settings, approved, contact, order, rows, process, composer, meta>>

\* Somebody writes to a contact past the dashboard.
SentElsewhere(c) ==
  /\ Change
  /\ meta' = meta \union {[id |-> <<0, changes>>, to |-> c]}
  /\ UNCHANGED <<settings, approved, contact, order, rows, process, composer, events, dropped>>

\* A message from the contact opens the reply window; STOP opts out.
Inbound(c) ==
  /\ Change
  /\ \E stop \in BOOLEAN :
       contact' = [contact EXCEPT ![c].window = TRUE, ![c].optOut = @ \/ stop]
  /\ contact' # contact
  /\ UNCHANGED <<settings, approved, order, messages>>

(***************************************************************************)
(* The staff, the shop, and time.                                          *)
(***************************************************************************)
SaveSettings ==
  /\ Change
  /\ settings' \in {"off", "on", "campaign"} \ {settings}
  /\ UNCHANGED <<approved, contact, order, messages>>

TemplateReviewed ==
  /\ Change
  /\ approved' = ~approved
  /\ UNCHANGED <<settings, contact, order, messages>>

SaveContact(c) ==
  /\ Change
  /\ \E in, out \in BOOLEAN : contact' = [contact EXCEPT ![c].optIn = in, ![c].optOut = out]
  /\ contact' # contact
  /\ UNCHANGED <<settings, approved, order, messages>>

\* An order of the contact is paid, and asks for a confirmation once; later
\* it may stop being paid.
OrderPaid(c) ==
  /\ order[c].request = "none"
  /\ order' = [order EXCEPT ![c] = [paid |-> TRUE, request |-> "pending"]]
  /\ UNCHANGED <<settings, approved, contact, changes, messages>>

OrderRefunded(c) ==
  /\ Change
  /\ order[c].paid
  /\ order' = [order EXCEPT ![c].paid = FALSE]
  /\ UNCHANGED <<settings, approved, contact, messages>>

WindowCloses(c) ==
  /\ Change
  /\ contact[c].window
  /\ contact' = [contact EXCEPT ![c].window = FALSE]
  /\ UNCHANGED <<settings, approved, order, messages>>

DayPasses(i) ==
  /\ rows[i].done = "recent"
  /\ rows' = [rows EXCEPT ![i].done = "aged"]
  /\ UNCHANGED <<server, process, composer>>

Dispatch(p) ==
  \/ ClaimReserved(p)
  \/ \E outcome \in {"accepted", "lost", "refused"} : MetaTakes(p, outcome)
  \/ Settle(p)

Next ==
  \/ \E s \in Slots : Reserve(s) \/ Receive(s) \/ \E mode \in {"reply", "manual"} : Press(s, mode)
  \/ \E p \in Processes : Dispatch(p)
  \/ Campaign \/ WorkOff \/ Drop
  \/ \E c \in Contacts :
       \/ ConfirmOrder(c) \/ GoTo(c) \/ Inbound(c) \/ SentElsewhere(c)
       \/ SaveContact(c) \/ OrderPaid(c) \/ OrderRefunded(c) \/ WindowCloses(c)
  \/ \E m \in meta, status \in Reports : Status(m, status) \/ StatusDropped(m, status)
  \/ \E i \in Ids : DayPasses(i)
  \/ SaveSettings \/ TemplateReviewed

Spec == Init /\ [][Next]_vars

\* The schedule runs every minute, and a call to Meta ends, by its timeout if
\* by nothing else.
Fairness == WF_vars(WorkOff) /\ WF_vars(Dispatch(Outbox))

FairSpec == Spec /\ Fairness

(***************************************************************************)
(* Properties.                                                             *)
(***************************************************************************)
\* Types.  A message Meta named is known by the row it was sent from and the
\* time it was handed over; <<0, n>> was sent elsewhere.
Keys     == (Nat \X Nat)
Statuses == {"queued", "sending", "uncertain", "cancelled", "accepted", "deleted"} \union Reported
Modes    == {"reply"} \union Metered

RowType ==
  [to : Contacts, mode : Modes, own : BOOLEAN, key : Keys \union {None}, status : Statuses,
   waId : (Nat \X Nat) \union {None}, done : {"no", "recent", "aged"}, handed : Nat]

TypeOK ==
  /\ settings \in {"off", "on", "campaign"}
  /\ approved \in BOOLEAN
  /\ contact \in [Contacts -> [optIn : BOOLEAN, optOut : BOOLEAN, window : BOOLEAN]]
  /\ order \in [Contacts -> [paid : BOOLEAN, request : {"none", "pending", "reserved", "skipped"}]]
  /\ rows \in Seq(RowType)
  /\ process \in [Processes ->
       [at : {"idle", "posted", "reserved", "sending", "called", "done"}, to : Contacts \union {None},
        mode : {"reply", "manual"}, key : Keys \union {None}, row : Nat,
        answer : {"none", "lost", "refused"} \union Statuses]]
  /\ composer \in [chat : Contacts, draft : Nat, draws : Nat, key : Keys \union {None},
                    waits : Slots \union {None}]
  /\ meta \subseteq [id : Nat \X Nat, to : Contacts]
  /\ events \subseteq (Nat \X Nat) \X Reported /\ dropped \subseteq events
  /\ changes \in Nat

\* A row in a process's hands is in no other's, and was not handed over
\* before; one that waits in the queue was not either.
InHand == {"sending", "called"}

OneHand ==
  /\ \A p \in Processes : process[p].at \in InHand \union {"reserved"} => process[p].row \in Ids
  /\ \A p \in Processes : process[p].at \in InHand =>
       LET r == rows[process[p].row] IN
         r.own /\ r.status = "sending" /\ r.waId = None /\ r.done = "no"
  /\ \A p, q \in Processes :
       process[p].at \in InHand /\ process[q].at \in InHand /\ process[p].row = process[q].row => p = q
  /\ \A p \in Processes : process[p].at = "sending" => rows[process[p].row].handed = 0
  /\ \A p \in Processes : process[p].at = "called" =>
       /\ process[p].answer \in {"accepted", "lost", "refused"}
       /\ process[p].answer = "accepted" => rows[process[p].row].handed = 1

\* What a row of our own, one made for a report, one that waits and one that
\* Meta named look like.
InOrder(i, r) ==
  /\ r.handed <= 1
  /\ r.status = "queued" => r.own /\ r.handed = 0 /\ r.waId = None /\ r.done = "no"
  /\ r.own => r.status # "deleted" /\ r.waId \in {None, <<i, 1>>}
  /\ ~r.own => r.key = None
  /\ r.waId # None => r.status \in Reported \union {"accepted"}

RowsInOrder == \A i \in Ids : InOrder(i, rows[i])

\* Keys are drawn once for a draft, and only for drafts begun.
Drawn(k) ==
  /\ k[2] = 1 /\ k[1] <= composer.draft
  /\ k[1] = composer.draft => composer.draws = 1

OneDraw ==
  /\ composer.key = None => composer.draws = 0
  /\ composer.key # None => composer.key = <<composer.draft, 1>> /\ composer.draws = 1
  /\ \A i \in Ids : rows[i].key # None => Drawn(rows[i].key)
  /\ \A s \in Slots : process[s].at = "posted" =>
       process[s].to # None /\ process[s].key # None /\ Drawn(process[s].key)

\* The same row is never handed to Meta twice, whoever works on it: the
\* request that reserved it, its repetition, the outbox run, or a process
\* after one that died.
HandedOnce == \A i \in Ids : rows[i].handed <= 1

\* One draft of the composer is at most one message: pressing Send again,
\* after a lost answer or an uncertain one, sends nothing a second time.
DraftSentOnce ==
  \A i, j \in Ids :
    rows[i].key # None /\ rows[j].key # None /\ rows[i].key[1] = rows[j].key[1] => i = j

OwnUses == {i \in Ids : rows[i].own /\ UsesAllowance(i)}

\* The messages sent from here that need the allowance stay within it,
\* however inbox, campaign and confirmations compete for it.
WithinAllowance == Cardinality(OwnUses) <= Limit

\* A contact gets one campaign message.
OneCampaign ==
  \A i, j \in Ids :
    rows[i].own /\ rows[j].own /\ rows[i].mode = "campaign" /\ rows[j].mode = "campaign"
    /\ rows[i].to = rows[j].to => i = j

\* Whatever order Meta's reports arrive in, and on whichever side of the
\* dispatch's second transaction, the log knows at least what was reported,
\* but for reports that came before any row named their message and did not
\* say for which Bangladeshi mobile it was: those status() stores and drops.
ReportsKept ==
  \A e \in events \ dropped : \E i \in RowOf(e[1]) : Rank[rows[i].status] >= Rank[e[2]]

\* The log keeps one row of a message Meta named.
OneRowPerMessage ==
  \A i, j \in Ids : rows[i].waId # None /\ rows[i].waId = rows[j].waId => i = j

\* What the log says of a message is so.  A row that is still queued, or was
\* cancelled, was never handed to Meta; one that Meta is said to have accepted
\* or reported on names a message Meta has, and one to the row's own contact;
\* and a row stays "sending" only in the hands of a process, so only the death
\* of that process leaves it there.
TellsTrue(r) ==
  /\ r.status \in {"queued", "cancelled"} => r.handed = 0
  /\ r.status \in {"accepted"} \union Reported => r.waId # None
  /\ r.waId # None => [id |-> r.waId, to |-> r.to] \in meta

LogIsTrue ==
  \A i \in Ids :
    /\ TellsTrue(rows[i])
    /\ rows[i].status = "sending" =>
         \E p \in Processes : process[p].at \in InHand /\ process[p].row = i

\* An answer of Meta's that is still to be written is about a message it has.
AnswersTrue ==
  \A p \in Processes : process[p].at = "called" /\ process[p].answer = "accepted" =>
    [id |-> <<process[p].row, 1>>, to |-> rows[process[p].row].to] \in meta

\* A paid order is confirmed once: its request is taken up by one run only.
OneConfirmation ==
  /\ \A i, j \in Ids :
       rows[i].mode = "confirmation" /\ rows[j].mode = "confirmation"
       /\ rows[i].to = rows[j].to => i = j
  /\ \A i \in Ids : rows[i].mode = "confirmation" => order[rows[i].to].request = "reserved"

\* The inductive invariant.
IInv ==
  /\ TypeOK
  /\ OneHand
  /\ RowsInOrder
  /\ OneDraw
  /\ DraftSentOnce
  /\ WithinAllowance
  /\ OneCampaign
  /\ ReportsKept
  /\ OneRowPerMessage

\* The queue is worked off: again and again it is empty, unless the connection
\* or the campaign is switched off or the template has lost its approval.
QueueDrains == []<>(Queued = {} \/ settings # "campaign" \/ ~approved)
=============================================================================
