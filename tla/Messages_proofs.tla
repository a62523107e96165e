--------------------------- MODULE Messages_proofs ---------------------------
(***************************************************************************)
(* The outbox for any number of contacts, requests and rows, any limit and *)
(* any batch: no row is handed over twice, no draft becomes two messages,  *)
(* the allowance and the campaign are kept, and no report that reached a row  *)
(* is forgotten.                                                           *)
(***************************************************************************)
EXTENDS Messages, FiniteSetTheorems, SequenceTheorems, TLAPS

\* The order of the statuses a row of Meta's may have.
LEMMA Ranked ==
  /\ Rank["accepted"] = 1 /\ Rank["sent"] = 2 /\ Rank["failed"] = 2
  /\ Rank["delivered"] = 3 /\ Rank["read"] = 4
  /\ \A s \in Reported \union {"accepted"} : Rank[s] \in Nat
  /\ \A s \in Reported : Rank[s] >= 1
  BY DEF Rank, Reported

\* A process that is through holds no row and waits for nothing.
LEMMA DoneTyped ==
  ASSUME NEW p \in Processes, NEW a \in {"none", "lost", "refused"} \union Statuses
  PROVE  /\ Done(p, a).at \in {"idle", "done"} /\ Done(p, a).row = 0
         /\ Done(p, a) \in
              [at : {"idle", "posted", "reserved", "sending", "called", "done"}, to : Contacts \union {None},
               mode : {"reply", "manual"}, key : Keys \union {None}, row : Nat,
               answer : {"none", "lost", "refused"} \union Statuses]
         /\ Idle.at = "idle" /\ Idle.row = 0
         /\ Idle \in
              [at : {"idle", "posted", "reserved", "sending", "called", "done"}, to : Contacts \union {None},
               mode : {"reply", "manual"}, key : Keys \union {None}, row : Nat,
               answer : {"none", "lost", "refused"} \union Statuses]
  BY DEF Done, Idle, Statuses

\* Meta's names of messages are names, and "None" is not.
LEMMA Named ==
  /\ None \notin Nat \X Nat /\ None \notin Keys /\ None \notin Contacts /\ None \notin Slots
  /\ \A i \in Nat : <<i, 1>> \in Nat \X Nat /\ <<i, 1>> # None
  BY MessagesAssumption DEF Keys

\* The rows are a finite sequence.
LEMMA RowsTyped ==
  ASSUME TypeOK
  PROVE  /\ Len(rows) \in Nat /\ Ids = 1..Len(rows) /\ IsFiniteSet(Ids)
         /\ \A i \in Ids : rows[i] \in RowType /\ i \in Nat
<1>1. rows \in Seq(RowType)
  BY DEF TypeOK
<1>2. Ids = 1..Len(rows)
  BY <1>1 DEF Ids
<1>. QED  BY <1>1, <1>2, FS_Interval

\* A row that is rewritten stays typed.
LEMMA RowWritten ==
  ASSUME TypeOK, NEW i \in Ids, NEW r \in RowType
  PROVE  /\ [rows EXCEPT ![i] = r] \in Seq(RowType)
         /\ DOMAIN [rows EXCEPT ![i] = r] = Ids
         /\ \A j \in Ids : [rows EXCEPT ![i] = r][j] = IF j = i THEN r ELSE rows[j]
<1>1. rows \in Seq(RowType) /\ i \in 1..Len(rows)
  BY RowsTyped DEF TypeOK
<1>. QED  BY <1>1, ExceptSeq, RowsTyped DEF Ids

\* A row that is added comes last.
LEMMA RowAdded ==
  ASSUME TypeOK, NEW r \in RowType
  PROVE  /\ Append(rows, r) \in Seq(RowType)
         /\ DOMAIN Append(rows, r) = Ids \union {Len(rows) + 1} /\ Len(rows) + 1 \notin Ids
         /\ Append(rows, r)[Len(rows) + 1] = r
         /\ \A j \in Ids : Append(rows, r)[j] = rows[j]
<1>1. rows \in Seq(RowType)
  BY DEF TypeOK
<1>2. /\ Append(rows, r) \in Seq(RowType) /\ Len(Append(rows, r)) = Len(rows) + 1
      /\ \A j \in 1..Len(rows) : Append(rows, r)[j] = rows[j]
      /\ Append(rows, r)[Len(rows) + 1] = r
  BY <1>1, AppendProperties
<1>3. DOMAIN Append(rows, r) = 1..(Len(rows) + 1)
  BY <1>2
<1>. QED  BY <1>1, <1>2, <1>3, RowsTyped

\* Rows that only move on: none of our own is withdrawn, taken over or made
\* anew, and a row once a day old stays so.
MovedOn ==
  /\ Ids \subseteq Ids'
  /\ \A i \in Ids :
       /\ rows'[i].own = rows[i].own /\ rows'[i].key = rows[i].key
       /\ rows'[i].to = rows[i].to /\ rows'[i].mode = rows[i].mode
       /\ rows[i].done = "aged" => rows'[i].done = "aged"
  /\ \A i \in Ids' \ Ids : ~rows'[i].own /\ rows'[i].key = None

\* Rows Meta named are left alone, and no row becomes one.
NamedKept ==
  /\ \A i \in Ids : rows[i].waId # None => i \in Ids' /\ rows'[i].waId = rows[i].waId /\ rows'[i].status = rows[i].status
  /\ \A i \in Ids' : rows'[i].waId # None => i \in Ids /\ rows[i].waId = rows'[i].waId

\* A step that rewrites one row.
LEMMA OneRowMoves ==
  ASSUME NEW i \in Ids, NEW r, Ids' = Ids, \A j \in Ids : rows'[j] = IF j = i THEN r ELSE rows[j]
  PROVE  /\ r.own = rows[i].own /\ r.key = rows[i].key /\ r.to = rows[i].to /\ r.mode = rows[i].mode
            /\ (rows[i].done = "aged" => r.done = "aged") => MovedOn
         /\ RowsInOrder /\ InOrder(i, r) => RowsInOrder'
         /\ rows[i].waId = None /\ r.waId = None => NamedKept
<1>1. ASSUME r.own = rows[i].own, r.key = rows[i].key, r.to = rows[i].to, r.mode = rows[i].mode,
             rows[i].done = "aged" => r.done = "aged"
      PROVE  MovedOn
  BY <1>1 DEF MovedOn
<1>2. ASSUME RowsInOrder, InOrder(i, r) PROVE RowsInOrder'
  <2>. SUFFICES ASSUME NEW j \in Ids PROVE InOrder(j, rows'[j])
    BY DEF RowsInOrder, InOrder, InOrder
  <2>. QED  BY <1>2 DEF RowsInOrder
<1>3. ASSUME rows[i].waId = None, r.waId = None PROVE NamedKept
  BY <1>3 DEF NamedKept
<1>. QED  BY <1>1, <1>2, <1>3

\* Such steps keep what the drafts, the allowance and the campaign promise.
LEMMA MovedOnKeeps ==
  ASSUME IInv, RowsInOrder', MovedOn
  PROVE  DraftSentOnce' /\ WithinAllowance' /\ OneCampaign'
<1>. USE DEF MovedOn
<1>1. DraftSentOnce'
  BY DEF IInv, DraftSentOnce
<1>2. OneCampaign'
  BY DEF IInv, OneCampaign
<1>3. WithinAllowance'
  <2>1. OwnUses' \subseteq OwnUses
    BY DEF OwnUses, UsesAllowance, IInv, RowsInOrder, InOrder
  <2>2. IsFiniteSet(OwnUses)
    BY RowsTyped, FS_Subset DEF OwnUses, IInv
  <2>3. Cardinality(OwnUses') <= Cardinality(OwnUses) /\ Cardinality(OwnUses') \in Nat /\ Cardinality(OwnUses) \in Nat
    BY <2>1, <2>2, FS_Subset, FS_CardinalityType
  <2>. QED  BY <2>3, MessagesAssumption DEF WithinAllowance, IInv
<1>. QED  BY <1>1, <1>2, <1>3

\* Such steps keep what was reported.
LEMMA NamedKeptKeeps ==
  ASSUME IInv, NamedKept, UNCHANGED <<events, dropped>>
  PROVE  ReportsKept' /\ OneRowPerMessage'
<1>. USE DEF NamedKept
<1>1. OneRowPerMessage'
  BY DEF IInv, OneRowPerMessage
<1>2. ReportsKept'
  <2>. SUFFICES ASSUME NEW e \in events \ dropped
                PROVE  \E i \in RowOf(e[1])' : Rank[rows'[i].status] >= Rank[e[2]]
    BY DEF ReportsKept
  <2>1. e[1] # None
    BY Named DEF IInv, TypeOK
  <2>2. PICK i \in RowOf(e[1]) : Rank[rows[i].status] >= Rank[e[2]]
    BY DEF IInv, ReportsKept
  <2>. QED  BY <2>1, <2>2 DEF RowOf
<1>. QED  BY <1>1, <1>2

\* The initial states satisfy the invariant.
LEMMA InitHolds == Init => IInv
<1>. SUFFICES ASSUME Init PROVE IInv
  OBVIOUS
<1>. USE MessagesAssumption
<1>1. rows = <<>> /\ Ids = {}
  BY DEF Init, Ids
<1>2. TypeOK
  <2>1. <<>> \in Seq(RowType)
    OBVIOUS
  <2>. QED  BY <2>1 DEF Init, TypeOK, Idle, Keys, Statuses
<1>3. OneHand /\ RowsInOrder /\ OneDraw
  BY <1>1 DEF Init, OneHand, RowsInOrder, OneDraw, Idle, InHand, Processes
<1>4. WithinAllowance
  <2>1. OwnUses = {}
    BY <1>1 DEF OwnUses
  <2>. QED  BY <2>1, FS_EmptySet DEF WithinAllowance
<1>5. DraftSentOnce /\ OneCampaign /\ ReportsKept /\ OneRowPerMessage
  BY <1>1 DEF Init, DraftSentOnce, OneCampaign, ReportsKept, OneRowPerMessage
<1>. QED  BY <1>2, <1>3, <1>4, <1>5 DEF IInv

\* Steps around the messages keep the invariant.
LEMMA AroundKeeps ==
  ASSUME IInv, TypeOK', UNCHANGED <<rows, process, composer>>, events' \ dropped' = events \ dropped
  PROVE  IInv'
<1>. USE DEF Ids
<1>1. OneHand' /\ RowsInOrder' /\ OneDraw'
  BY DEF IInv, OneHand, RowsInOrder, OneDraw, Drawn
<1>2. WithinAllowance'
  <2>1. OwnUses' = OwnUses
    BY DEF OwnUses, UsesAllowance
  <2>. QED  BY <2>1 DEF IInv, WithinAllowance
<1>3. DraftSentOnce' /\ OneCampaign' /\ ReportsKept' /\ OneRowPerMessage'
  BY DEF IInv, DraftSentOnce, OneCampaign, ReportsKept, OneRowPerMessage, RowOf
<1>. QED  BY <1>1, <1>2, <1>3 DEF IInv

\* Somebody changes consent, the reply window or an order, or writes elsewhere.
LEMMA AroundSteps ==
  ASSUME IInv, NEW c \in Contacts,
         \/ Inbound(c) \/ SentElsewhere(c) \/ SaveContact(c) \/ OrderPaid(c) \/ OrderRefunded(c)
         \/ WindowCloses(c)
  PROVE  IInv'
<1>1. TypeOK
  BY DEF IInv
<1>2. contact[c] \in [optIn : BOOLEAN, optOut : BOOLEAN, window : BOOLEAN]
      /\ order[c] \in [paid : BOOLEAN, request : {"none", "pending", "reserved", "skipped"}] /\ changes + 1 \in Nat
  BY <1>1 DEF TypeOK
<1>. USE DEF messages, Change
<1>3. CASE Inbound(c)
  <2>1. TypeOK'
    <3>1. PICK stop \in BOOLEAN : contact' = [contact EXCEPT ![c].window = TRUE, ![c].optOut = @ \/ stop]
      BY <1>3 DEF Inbound
    <3>2. contact' = [contact EXCEPT ![c] = [contact[c] EXCEPT !.window = TRUE, !.optOut = contact[c].optOut \/ stop]]
      BY <1>1, <3>1 DEF TypeOK
    <3>3. (contact[c].optOut \/ stop) \in BOOLEAN
      BY <1>2
    <3>4. [contact[c] EXCEPT !.window = TRUE, !.optOut = contact[c].optOut \/ stop] \in [optIn : BOOLEAN, optOut : BOOLEAN, window : BOOLEAN]
      BY <1>2, <3>3
    <3>5. contact' \in [Contacts -> [optIn : BOOLEAN, optOut : BOOLEAN, window : BOOLEAN]]
      BY <1>1, <3>2, <3>4 DEF TypeOK
    <3>. QED  BY <1>1, <1>2, <1>3, <3>5 DEF Inbound, TypeOK
  <2>. QED  BY <1>3, <2>1, AroundKeeps DEF Inbound
<1>4. CASE SentElsewhere(c)
  <2>1. TypeOK'
    BY <1>1, <1>2, <1>4 DEF SentElsewhere, TypeOK
  <2>. QED  BY <1>4, <2>1, AroundKeeps DEF SentElsewhere
<1>5. CASE SaveContact(c)
  <2>1. TypeOK'
    <3>1. PICK in, out \in BOOLEAN : contact' = [contact EXCEPT ![c].optIn = in, ![c].optOut = out]
      BY <1>5 DEF SaveContact
    <3>2. contact' = [contact EXCEPT ![c] = [contact[c] EXCEPT !.optIn = in, !.optOut = out]]
      BY <1>1, <3>1 DEF TypeOK
    <3>3. contact' \in [Contacts -> [optIn : BOOLEAN, optOut : BOOLEAN, window : BOOLEAN]]
      BY <1>1, <1>2, <3>2 DEF TypeOK
    <3>. QED  BY <1>1, <1>2, <1>5, <3>3 DEF SaveContact, TypeOK
  <2>. QED  BY <1>5, <2>1, AroundKeeps DEF SaveContact
<1>6. CASE OrderPaid(c)
  <2>1. TypeOK'
    BY <1>1, <1>2, <1>6 DEF OrderPaid, TypeOK
  <2>. QED  BY <1>6, <2>1, AroundKeeps DEF OrderPaid
<1>7. CASE OrderRefunded(c)
  <2>1. TypeOK'
    BY <1>1, <1>2, <1>7 DEF OrderRefunded, TypeOK
  <2>. QED  BY <1>7, <2>1, AroundKeeps DEF OrderRefunded
<1>8. CASE WindowCloses(c)
  <2>1. TypeOK'
    BY <1>1, <1>2, <1>8 DEF WindowCloses, TypeOK
  <2>. QED  BY <1>8, <2>1, AroundKeeps DEF WindowCloses
<1>. QED  BY <1>3, <1>4, <1>5, <1>6, <1>7, <1>8

ProcessType ==
  [at : {"idle", "posted", "reserved", "sending", "called", "done"}, to : Contacts \union {None},
   mode : {"reply", "manual"}, key : Keys \union {None}, row : Nat,
   answer : {"none", "lost", "refused"} \union Statuses]

\* The processes, and one that is rewritten, are typed.
LEMMA ProcessWritten ==
  ASSUME TypeOK, NEW p \in Processes, NEW q \in ProcessType
  PROVE  /\ [process EXCEPT ![p] = q] \in [Processes -> ProcessType]
         /\ \A x \in Processes : [process EXCEPT ![p] = q][x] = IF x = p THEN q ELSE process[x]
  BY DEF TypeOK, ProcessType

\* A step in which no process takes a row in hand, and no row changes.
LEMMA HandsOffKeeps ==
  ASSUME IInv, TypeOK', OneDraw', UNCHANGED <<rows, events, dropped>>,
         \A p \in Processes : process'[p].at \in InHand \union {"reserved"} => process'[p] = process[p]
  PROVE  IInv'
<1>. USE DEF Ids
<1>1. OneHand'
  <2>1. OneHand
    BY DEF IInv
  <2>. QED  BY <2>1 DEF OneHand, InHand
<1>2. RowsInOrder' /\ DraftSentOnce' /\ OneCampaign' /\ ReportsKept' /\ OneRowPerMessage'
  BY DEF IInv, RowsInOrder, DraftSentOnce, OneCampaign, ReportsKept, OneRowPerMessage, RowOf
<1>3. WithinAllowance'
  <2>1. OwnUses' = OwnUses
    BY DEF OwnUses, UsesAllowance
  <2>. QED  BY <2>1 DEF IInv, WithinAllowance
<1>. QED  BY <1>1, <1>2, <1>3 DEF IInv

\* Keys stay drawn when the composer rests and no new one is posted or kept.
LEMMA OneDrawKept ==
  ASSUME IInv, UNCHANGED composer,
         \A i \in Ids' : rows'[i].key # None =>
            \/ i \in Ids /\ rows'[i].key = rows[i].key
            \/ \E s \in Slots : process[s].at = "posted" /\ rows'[i].key = process[s].key,
         \A s \in Slots : process'[s].at = "posted" => process'[s] = process[s]
  PROVE  OneDraw'
<1>1. OneDraw
  BY DEF IInv
<1>. QED  BY <1>1 DEF OneDraw, Drawn

\* Drawn, of the composer's next state.
DrawnNext(k) ==
  /\ k[2] = 1 /\ k[1] <= composer'.draft
  /\ k[1] = composer'.draft => composer'.draws = 1

\* The composer as it is, and after a first press.
LEMMA ComposerTyped ==
  ASSUME IInv
  PROVE  /\ composer \in [chat : Contacts, draft : Nat, draws : Nat, key : Keys \union {None}, waits : Slots \union {None}]
         /\ Keyed \in [chat : Contacts, draft : Nat, draws : Nat, key : Keys \union {None}, waits : Slots \union {None}]
         /\ Keyed.key = <<composer.draft, 1>> /\ Keyed.draws = 1 /\ Keyed.draft = composer.draft
         /\ NewDraft \in [chat : Contacts, draft : Nat, draws : Nat, key : Keys \union {None}, waits : Slots \union {None}]
         /\ NewDraft.draft = composer.draft + 1 /\ NewDraft.draws = 0 /\ NewDraft.key = None
<1>1. composer \in [chat : Contacts, draft : Nat, draws : Nat, key : Keys \union {None}, waits : Slots \union {None}]
  BY DEF IInv, TypeOK
<1>2. NewDraft \in [chat : Contacts, draft : Nat, draws : Nat, key : Keys \union {None}, waits : Slots \union {None}]
      /\ NewDraft.draft = composer.draft + 1 /\ NewDraft.draws = 0 /\ NewDraft.key = None
  <2>1. composer.draft + 1 \in Nat /\ 0 \in Nat
    BY <1>1
  <2>2. NewDraft = [composer EXCEPT !.draft = composer.draft + 1, !.draws = 0, !.key = None]
    BY <1>1 DEF NewDraft
  <2>. QED  BY <1>1, <2>1, <2>2
<1>3. CASE composer.key # None
  BY <1>1, <1>2, <1>3 DEF Keyed, IInv, OneDraw
<1>4. CASE composer.key = None
  <2>1. composer.draws = 0
    BY <1>4 DEF IInv, OneDraw
  <2>2. Keyed = [composer EXCEPT !.key = <<composer.draft, 1>>, !.draws = 1]
    BY <1>1, <1>4, <2>1 DEF Keyed
  <2>3. <<composer.draft, 1>> \in Keys
    BY <1>1 DEF Keys
  <2>. QED  BY <1>1, <1>2, <2>2, <2>3
<1>. QED  BY <1>3, <1>4

LEMMA PressStep ==
  ASSUME IInv, NEW s \in Slots, NEW mode \in {"reply", "manual"}, Press(s, mode)
  PROVE  IInv'
<1>. DEFINE q == [Idle EXCEPT !.at = "posted", !.to = composer.chat, !.mode = mode, !.key = Keyed.key]
<1>1. TypeOK /\ OneDraw /\ s \in Processes
  BY DEF IInv, Processes
<1>2. process' = [process EXCEPT ![s] = q] /\ composer' = [Keyed EXCEPT !.waits = s]
      /\ UNCHANGED <<server, rows>>
  BY DEF Press
<1>3. q \in ProcessType /\ q.at = "posted" /\ q.to = composer.chat /\ q.key = <<composer.draft, 1>> /\ q.key # None
  BY ComposerTyped, Named DEF Idle, ProcessType, Statuses
<1>. HIDE DEF q
<1>4. \A x \in Processes : process'[x] = IF x = s THEN q ELSE process[x]
  BY <1>1, <1>2, <1>3, ProcessWritten
<1>5. composer' \in [chat : Contacts, draft : Nat, draws : Nat, key : Keys \union {None}, waits : Slots \union {None}]
      /\ composer'.key = <<composer.draft, 1>> /\ composer'.draws = 1 /\ composer'.draft = composer.draft
  BY <1>2, ComposerTyped
<1>6. TypeOK'
  <2>1. process' \in [Processes -> ProcessType]
    BY <1>1, <1>2, <1>3, ProcessWritten
  <2>. QED  BY <1>1, <1>2, <1>5, <2>1 DEF TypeOK, ProcessType, server, around
<1>7. OneDraw'
  <2>1. composer.draft \in Nat /\ composer.chat \in Contacts
    BY ComposerTyped
  <2>2. \A k : Drawn(k) => DrawnNext(k)
    BY <1>5 DEF Drawn, DrawnNext
  <2>3. DrawnNext(<<composer.draft, 1>>)
    BY <1>5, <2>1 DEF DrawnNext
  <2>4. \A x \in Slots : x \in Processes
    BY DEF Processes
  <2>5. <<composer.draft, 1>> # None /\ composer.chat # None
    BY <2>1, Named
  <2>6. composer'.key # None /\ composer'.key = <<composer'.draft, 1>> /\ composer'.draws = 1
    BY <1>5, <2>5
  <2>7. \A i \in Ids' : rows'[i].key # None => DrawnNext(rows'[i].key)
    BY <1>1, <1>2, <2>2 DEF OneDraw, Ids
  <2>8. \A x \in Slots : process'[x].at = "posted" =>
          process'[x].to # None /\ process'[x].key # None /\ DrawnNext(process'[x].key)
    BY <1>1, <1>3, <1>4, <2>2, <2>3, <2>4, <2>5 DEF OneDraw
  <2>. QED  BY <2>6, <2>7, <2>8 DEF OneDraw, Drawn, DrawnNext
<1>8. \A p \in Processes : process'[p].at \in InHand \union {"reserved"} => process'[p] = process[p]
  BY <1>3, <1>4 DEF InHand
<1>. QED  BY <1>2, <1>6, <1>7, <1>8, HandsOffKeeps DEF server

\* A composer that rests on its draft or begins a new one, while a process at
\* most becomes idle.
LEMMA RestingKeeps ==
  ASSUME IInv, UNCHANGED <<rows, server>>,
         composer' \in [chat : Contacts, draft : Nat, draws : Nat, key : Keys \union {None}, waits : Slots \union {None}],
         \/ composer'.draft = composer.draft /\ composer'.draws = composer.draws /\ composer'.key = composer.key
         \/ composer'.draft = composer.draft + 1 /\ composer'.draws = 0 /\ composer'.key = None,
         process' \in [Processes -> ProcessType],
         \A p \in Processes : process'[p] = process[p] \/ process'[p] = Idle
  PROVE  IInv'
<1>1. TypeOK /\ OneDraw
  BY DEF IInv
<1>2. TypeOK'
  BY <1>1 DEF TypeOK, ProcessType, server, around
<1>3. OneDraw'
  <2>1. composer.draft \in Nat
    BY ComposerTyped
  <2>2. \A k \in Keys : Drawn(k) => DrawnNext(k)
    BY <2>1 DEF Drawn, DrawnNext, Keys
  <2>3. \A x \in Slots : x \in Processes
    BY DEF Processes
  <2>4. \A i \in Ids : rows[i].key \in Keys \union {None}
    BY <1>1, RowsTyped DEF RowType
  <2>5. \A x \in Slots : process[x].key \in Keys \union {None}
    BY <1>1, <2>3 DEF TypeOK
  <2>6. \A i \in Ids' : rows'[i].key # None => DrawnNext(rows'[i].key)
    BY <1>1, <2>2, <2>4 DEF OneDraw, Ids
  <2>7. \A x \in Slots : process'[x].at = "posted" =>
          process'[x].to # None /\ process'[x].key # None /\ DrawnNext(process'[x].key)
    BY <1>1, <2>2, <2>3, <2>5 DEF OneDraw, Idle
  <2>8. /\ composer'.key = None => composer'.draws = 0
        /\ composer'.key # None => composer'.key = <<composer'.draft, 1>> /\ composer'.draws = 1
    BY <1>1 DEF OneDraw
  <2>. QED  BY <2>6, <2>7, <2>8 DEF OneDraw, Drawn, DrawnNext
<1>4. \A p \in Processes : process'[p].at \in InHand \union {"reserved"} => process'[p] = process[p]
  BY DEF InHand, Idle
<1>. QED  BY <1>2, <1>3, <1>4, HandsOffKeeps DEF server

LEMMA ReceiveStep == ASSUME IInv, NEW s \in Slots, Receive(s) PROVE IInv'
<1>1. TypeOK /\ s \in Processes
  BY DEF IInv, Processes
<1>2. composer' \in [chat : Contacts, draft : Nat, draws : Nat, key : Keys \union {None}, waits : Slots \union {None}]
      /\ \/ composer'.draft = composer.draft /\ composer'.draws = composer.draws /\ composer'.key = composer.key
         \/ composer'.draft = composer.draft + 1 /\ composer'.draws = 0 /\ composer'.key = None
  BY ComposerTyped DEF Receive
<1>3. process' = [process EXCEPT ![s] = Idle] /\ UNCHANGED <<rows, server>> /\ Idle \in ProcessType
  BY DoneTyped, <1>1 DEF Receive, ProcessType, Idle, Statuses
<1>. QED  BY <1>1, <1>2, <1>3, ProcessWritten, RestingKeeps

LEMMA DropStep == ASSUME IInv, Drop PROVE IInv'
<1>1. TypeOK
  BY DEF IInv
<1>2. composer' \in [chat : Contacts, draft : Nat, draws : Nat, key : Keys \union {None}, waits : Slots \union {None}]
      /\ composer'.draft = composer.draft /\ composer'.draws = composer.draws /\ composer'.key = composer.key
  BY ComposerTyped DEF Drop
<1>3. composer.waits \in Processes
  BY ComposerTyped DEF Drop, Processes
<1>4. process' = [process EXCEPT ![composer.waits] = IF @.at = "done" THEN Idle ELSE @] /\ UNCHANGED <<rows, server>>
      /\ Idle \in ProcessType
  BY DEF Drop, ProcessType, Idle, Statuses
<1>5. process' \in [Processes -> ProcessType] /\ \A p \in Processes : process'[p] = process[p] \/ process'[p] = Idle
  BY <1>1, <1>3, <1>4 DEF TypeOK, ProcessType
<1>. QED  BY <1>2, <1>4, <1>5, RestingKeeps

LEMMA GoToStep == ASSUME IInv, NEW c \in Contacts, GoTo(c) PROVE IInv'
<1>1. TypeOK
  BY DEF IInv
<1>2. composer' \in [chat : Contacts, draft : Nat, draws : Nat, key : Keys \union {None}, waits : Slots \union {None}]
      /\ \/ composer'.draft = composer.draft /\ composer'.draws = composer.draws /\ composer'.key = composer.key
         \/ composer'.draft = composer.draft + 1 /\ composer'.draws = 0 /\ composer'.key = None
  BY ComposerTyped DEF GoTo
<1>3. process' \in [Processes -> ProcessType] /\ process' = process /\ UNCHANGED <<rows, server>>
  BY <1>1 DEF GoTo, TypeOK, ProcessType
<1>. QED  BY <1>2, <1>3, RestingKeeps

\* Steps that change rows of the log and one process.
LEMMA RowStepKeeps ==
  ASSUME IInv, TypeOK', OneHand', RowsInOrder', MovedOn, NamedKept,
         UNCHANGED <<composer, events, dropped>>,
         \A s \in Slots : process'[s].at = "posted" => process'[s] = process[s]
  PROVE  IInv'
<1>1. OneDraw'
  BY OneDrawKept DEF MovedOn
<1>. QED  BY <1>1, MovedOnKeeps, NamedKeptKeeps DEF IInv

LEMMA ClaimStep ==
  ASSUME IInv, NEW p \in Processes, NEW i \in Ids, process[p].at \in {"idle", "reserved"}, Claim(p, i)
  PROVE  IInv'
<1>1. TypeOK /\ OneHand /\ RowsInOrder /\ OneDraw
  BY DEF IInv
<1>2. rows[i] \in RowType /\ i \in Nat /\ process[p] \in ProcessType
  BY <1>1, RowsTyped DEF TypeOK, ProcessType
<1>3. UNCHANGED <<server, composer>>
  BY DEF Claim
<1>4. CASE ~(Claimable(i) /\ ~Waits(i))
  <2>. DEFINE q == Done(p, rows[i].status)
  <2>1. q.at \in {"idle", "done"} /\ q \in ProcessType
    BY <1>2, DoneTyped DEF RowType, ProcessType
  <2>2. process' = [process EXCEPT ![p] = q] /\ UNCHANGED rows
    BY <1>4 DEF Claim
  <2>. HIDE DEF q
  <2>3. process' \in [Processes -> ProcessType] /\ \A x \in Processes : process'[x] = IF x = p THEN q ELSE process[x]
    BY <1>1, <2>1, <2>2, ProcessWritten
  <2>4. TypeOK'
    BY <1>1, <1>3, <2>2, <2>3 DEF TypeOK, ProcessType, server, around
  <2>5. OneDraw'
    <3>1. \A x \in Slots : x \in Processes
      BY DEF Processes
    <3>2. \A x \in Slots : process'[x].at = "posted" => process'[x] = process[x]
      BY <2>1, <2>3, <3>1
    <3>. QED  BY <1>3, <2>2, <3>2, OneDrawKept DEF Ids
  <2>. QED  BY <1>3, <2>1, <2>2, <2>3, <2>4, <2>5, HandsOffKeeps DEF server, InHand
<1>5. CASE Claimable(i) /\ ~Waits(i)
  <2>. DEFINE q == IF Stale(i) THEN Done(p, "cancelled") ELSE [process[p] EXCEPT !.at = "sending", !.row = i]
              r == IF Stale(i) THEN [rows[i] EXCEPT !.status = "cancelled", !.done = "recent"]
                               ELSE [rows[i] EXCEPT !.status = "sending"]
  <2>1. process' = [process EXCEPT ![p] = q] /\ rows' = [rows EXCEPT ![i] = r]
    BY <1>1, <1>2, <1>5 DEF Claim, TypeOK
  <2>2. rows[i].own /\ rows[i].handed = 0 /\ rows[i].waId = None /\ rows[i].status = "queued" /\ rows[i].done = "no"
    BY <1>1, <1>5 DEF RowsInOrder, InOrder, Claimable
  <2>3. /\ r \in RowType /\ r.own = rows[i].own /\ r.key = rows[i].key /\ r.to = rows[i].to /\ r.mode = rows[i].mode
        /\ r.handed = 0 /\ r.waId = None /\ r.status = (IF Stale(i) THEN "cancelled" ELSE "sending")
        /\ (~Stale(i) => r.done = rows[i].done)
    <3>1. "cancelled" \in Statuses /\ "sending" \in Statuses
      BY DEF Statuses
    <3>. QED  BY <1>2, <2>2, <3>1 DEF RowType
  <2>4. /\ q \in ProcessType /\ q.at \in {"idle", "done", "sending"}
        /\ Stale(i) => q.at \in {"idle", "done"}
        /\ ~Stale(i) => q.at = "sending" /\ q.row = i
    <3>1. CASE Stale(i)
      <4>1. "cancelled" \in {"none", "lost", "refused"} \union Statuses
        BY DEF Statuses
      <4>. QED  BY <3>1, <4>1, DoneTyped DEF ProcessType
    <3>2. CASE ~Stale(i)
      BY <1>2, <3>2 DEF ProcessType
    <3>. QED  BY <3>1, <3>2
  <2>. HIDE DEF q, r
  <2>5. process' \in [Processes -> ProcessType] /\ \A x \in Processes : process'[x] = IF x = p THEN q ELSE process[x]
    BY <1>1, <2>1, <2>4, ProcessWritten
  <2>6. rows' \in Seq(RowType) /\ Ids' = Ids /\ \A j \in Ids : rows'[j] = IF j = i THEN r ELSE rows[j]
    BY <1>1, <2>1, <2>3, RowWritten DEF Ids
  <2>7. TypeOK'
    BY <1>1, <1>3, <2>5, <2>6 DEF TypeOK, ProcessType, server, around
  <2>8. OneHand'
    <3>1. \A x \in Processes : process[x].at \in InHand => process[x].row # i
      BY <1>1, <2>2 DEF OneHand
    <3>2. \A x \in Processes : process'[x].at \in InHand \union {"reserved"} =>
            \/ x # p /\ process'[x] = process[x]
            \/ x = p /\ ~Stale(i) /\ process'[x].at = "sending" /\ process'[x].row = i
      BY <2>4, <2>5 DEF InHand
    <3>3. \A x \in Processes : process'[x].at \in InHand \union {"reserved"} => process'[x].row \in Ids'
      BY <1>1, <2>6, <3>2 DEF OneHand
    <3>4. ASSUME NEW x \in Processes, process'[x].at \in InHand
          PROVE  LET z == rows'[process'[x].row] IN z.own /\ z.status = "sending" /\ z.waId = None /\ z.done = "no"
      <4>1. CASE x # p
        <5>1. process'[x] = process[x] /\ process[x].at \in InHand /\ process[x].row \in Ids /\ process[x].row # i
          BY <1>1, <3>1, <3>2, <3>4, <4>1 DEF OneHand
        <5>. QED  BY <1>1, <2>6, <5>1 DEF OneHand
      <4>2. CASE x = p
        <5>1. process'[x].row = i /\ ~Stale(i)
          BY <3>2, <3>4, <4>2
        <5>. QED  BY <2>2, <2>3, <2>6, <5>1
      <4>. QED  BY <4>1, <4>2
    <3>5. ASSUME NEW x \in Processes, NEW y \in Processes,
                 process'[x].at \in InHand, process'[y].at \in InHand, process'[x].row = process'[y].row
          PROVE  x = y
      BY <1>1, <3>1, <3>2, <3>5 DEF OneHand
    <3>6. ASSUME NEW x \in Processes, process'[x].at = "sending" PROVE rows'[process'[x].row].handed = 0
      BY <1>1, <2>3, <2>6, <3>1, <3>2, <3>6 DEF OneHand, InHand
    <3>7. ASSUME NEW x \in Processes, process'[x].at = "called"
          PROVE  /\ process'[x].answer \in {"accepted", "lost", "refused"}
                 /\ process'[x].answer = "accepted" => rows'[process'[x].row].handed = 1
      BY <1>1, <2>6, <3>1, <3>2, <3>7 DEF OneHand, InHand
    <3>. QED  BY <3>3, <3>4, <3>5, <3>6, <3>7 DEF OneHand
  <2>9. RowsInOrder'
    <3>1. r.status # "queued" /\ r.status # "deleted"
      BY <2>3
    <3>2. InOrder(i, r)
      BY <2>2, <2>3, <3>1 DEF InOrder
    <3>. QED  BY <1>1, <2>6, <3>2, OneRowMoves
  <2>10. MovedOn
    BY <2>2, <2>3, <2>6, OneRowMoves
  <2>11. NamedKept
    BY <2>2, <2>3, <2>6, OneRowMoves
  <2>12. \A s \in Slots : process'[s].at = "posted" => process'[s] = process[s]
    BY <2>4, <2>5 DEF Processes
  <2>. QED  BY <1>3, <2>7, <2>8, <2>9, <2>10, <2>11, <2>12, RowStepKeeps DEF server
<1>. QED  BY <1>4, <1>5

LEMMA MetaTakesStep ==
  ASSUME IInv, NEW p \in Processes, NEW outcome \in {"accepted", "lost", "refused"}, MetaTakes(p, outcome)
  PROVE  IInv'
<1>1. TypeOK /\ OneHand /\ RowsInOrder
  BY DEF IInv
<1>2. PICK i \in Ids : i = process[p].row
  BY <1>1 DEF OneHand, MetaTakes, InHand
<1>3. /\ process[p].at = "sending" /\ rows[i].own /\ rows[i].status = "sending" /\ rows[i].waId = None
      /\ rows[i].done = "no"
      /\ rows[i].handed = 0 /\ rows[i] \in RowType /\ process[p] \in ProcessType /\ i \in Nat
  BY <1>1, <1>2, RowsTyped DEF OneHand, MetaTakes, InHand, TypeOK, ProcessType
<1>. DEFINE q == [process[p] EXCEPT !.at = "called", !.answer = outcome]
            r == IF outcome = "refused" THEN rows[i] ELSE [rows[i] EXCEPT !.handed = 1]
<1>4. process' = [process EXCEPT ![p] = q] /\ rows' = [rows EXCEPT ![i] = r] /\ UNCHANGED <<around, events, dropped, composer>>
  <2>1. process' = [process EXCEPT ![p] = q]
    BY <1>1 DEF MetaTakes, TypeOK
  <2>2. rows' = [rows EXCEPT ![i] = r]
    BY <1>1, <1>2, <1>3, RowsTyped DEF MetaTakes, TypeOK, Ids
  <2>. QED  BY <2>1, <2>2 DEF MetaTakes
<1>5. r \in RowType /\ r.own /\ r.key = rows[i].key /\ r.to = rows[i].to /\ r.mode = rows[i].mode /\ r.done = rows[i].done
      /\ r.handed \in {0, 1} /\ (outcome = "accepted" => r.handed = 1) /\ r.waId = None /\ r.status = "sending"
  BY <1>3 DEF RowType
<1>6. q \in ProcessType /\ q.at = "called" /\ q.answer = outcome /\ q.row = i
  BY <1>2, <1>3 DEF ProcessType, Statuses
<1>7. meta' \subseteq [id : Nat \X Nat, to : Contacts]
  <2>1. rows[i].handed + 1 \in Nat /\ rows[i].to \in Contacts
    BY <1>3 DEF RowType
  <2>2. [id |-> <<i, rows[i].handed + 1>>, to |-> rows[i].to] \in [id : Nat \X Nat, to : Contacts]
    BY <1>3, <2>1
  <2>. QED  BY <1>1, <1>2, <2>2 DEF MetaTakes, TypeOK
<1>. HIDE DEF q, r
<1>8. process' \in [Processes -> ProcessType] /\ \A x \in Processes : process'[x] = IF x = p THEN q ELSE process[x]
  BY <1>1, <1>4, <1>6, ProcessWritten
<1>9. rows' \in Seq(RowType) /\ Ids' = Ids /\ \A j \in Ids : rows'[j] = IF j = i THEN r ELSE rows[j]
  BY <1>1, <1>4, <1>5, RowWritten DEF Ids
<1>10. TypeOK'
  BY <1>1, <1>4, <1>7, <1>8, <1>9 DEF TypeOK, ProcessType, around
<1>11. OneHand'
  <2>1. \A x \in Processes : process[x].at \in InHand /\ x # p => process[x].row # i
    BY <1>1, <1>2, <1>3 DEF OneHand, InHand
  <2>2. \A x \in Processes : process'[x].at \in InHand \union {"reserved"} =>
          \/ x # p /\ process'[x] = process[x]
          \/ x = p /\ process'[x].at = "called" /\ process'[x].row = i /\ process'[x].answer = outcome
    BY <1>6, <1>8 DEF InHand
  <2>3. \A x \in Processes : process'[x].at \in InHand \union {"reserved"} => process'[x].row \in Ids'
    BY <1>1, <1>9, <2>2 DEF OneHand
  <2>4. ASSUME NEW x \in Processes, process'[x].at \in InHand
        PROVE  LET z == rows'[process'[x].row] IN z.own /\ z.status = "sending" /\ z.waId = None /\ z.done = "no"
    <3>1. CASE x # p
      <4>1. process'[x] = process[x] /\ process[x].at \in InHand /\ process[x].row \in Ids /\ process[x].row # i
        BY <1>1, <2>1, <2>2, <2>4, <3>1 DEF OneHand
      <4>. QED  BY <1>1, <1>9, <4>1 DEF OneHand
    <3>2. CASE x = p
      <4>1. process'[x].row = i
        BY <2>2, <2>4, <3>2
      <4>. QED  BY <1>3, <1>5, <1>9, <4>1
    <3>. QED  BY <3>1, <3>2
  <2>5. ASSUME NEW x \in Processes, NEW y \in Processes,
               process'[x].at \in InHand, process'[y].at \in InHand, process'[x].row = process'[y].row
        PROVE  x = y
    BY <1>1, <2>1, <2>2, <2>5 DEF OneHand
  <2>6. ASSUME NEW x \in Processes, process'[x].at = "sending" PROVE rows'[process'[x].row].handed = 0
    BY <1>1, <1>9, <2>1, <2>2, <2>6 DEF OneHand, InHand
  <2>7. ASSUME NEW x \in Processes, process'[x].at = "called"
        PROVE  /\ process'[x].answer \in {"accepted", "lost", "refused"}
               /\ process'[x].answer = "accepted" => rows'[process'[x].row].handed = 1
    BY <1>1, <1>5, <1>9, <2>1, <2>2, <2>7 DEF OneHand, InHand
  <2>. QED  BY <2>3, <2>4, <2>5, <2>6, <2>7 DEF OneHand
<1>12. RowsInOrder'
  <2>1. InOrder(i, r)
    BY <1>3, <1>5 DEF InOrder
  <2>. QED  BY <1>1, <1>9, <2>1, OneRowMoves
<1>13. MovedOn /\ NamedKept
  <2>1. MovedOn
    BY <1>3, <1>5, <1>9, OneRowMoves
  <2>2. NamedKept
    BY <1>3, <1>5, <1>9, OneRowMoves
  <2>. QED  BY <2>1, <2>2
<1>14. \A s \in Slots : process'[s].at = "posted" => process'[s] = process[s]
  BY <1>6, <1>8 DEF Processes
<1>. QED  BY <1>4, <1>10, <1>11, <1>12, <1>13, <1>14, RowStepKeeps

\* The status a dispatch ends in is one a row of ours may have; and a row made
\* early for its message is the only one there is.
LEMMA SettleStatus ==
  ASSUME IInv, NEW p \in Processes, NEW i \in Ids, i = process[p].row, process[p].at = "called"
  PROVE  /\ process[p].answer # "accepted" => AfterCall(p) = "uncertain"
         /\ process[p].answer = "accepted" =>
              /\ rows[i].handed = 1 /\ AfterCall(p) \in Reported \union {"accepted"}
              /\ Early(i) = RowOf(<<i, 1>>)
              /\ \A j \in Early(i) :
                   j \in Ids /\ ~rows[j].own /\ rows[j].waId = <<i, 1>> /\ AfterCall(p) = rows[j].status
<1>1. OneHand /\ RowsInOrder /\ OneRowPerMessage /\ i \in Nat
  BY RowsTyped DEF IInv
<1>2. rows[i].status = "sending" /\ rows[i].own /\ rows[i].waId = None
      /\ (process[p].answer = "accepted" => rows[i].handed = 1)
  BY <1>1 DEF OneHand, InHand
<1>3. AfterCall(p) = IF process[p].answer = "accepted" THEN Known(i) ELSE "uncertain"
  BY <1>2 DEF Reported, AfterCall
<1>4. ASSUME process[p].answer = "accepted"
      PROVE  /\ AfterCall(p) \in Reported \union {"accepted"} /\ Early(i) = RowOf(<<i, 1>>)
             /\ \A j \in Early(i) : j \in Ids /\ ~rows[j].own /\ rows[j].waId = <<i, 1>> /\ AfterCall(p) = rows[j].status
  <2>1. AfterCall(p) = Known(i) /\ Early(i) = EarlyRow(<<i, 1>>)
    BY <1>2, <1>3, <1>4 DEF Early
  <2>2. Early(i) \subseteq RowOf(<<i, 1>>) /\ <<i, 1>> # None
    BY <1>1, <2>1, Named DEF EarlyRow, RowOf
  <2>3. \A j \in RowOf(<<i, 1>>) : ~rows[j].own
    <3>. SUFFICES ASSUME NEW j \in RowOf(<<i, 1>>), rows[j].own PROVE FALSE
      OBVIOUS
    <3>1. j \in Ids /\ rows[j].waId = <<i, 1>> /\ rows[j].waId \in {None, <<j, 1>>}
      BY <1>1 DEF RowOf, RowsInOrder, InOrder
    <3>2. j = i
      BY <2>2, <3>1
    <3>. QED  BY <1>2, <2>2, <3>1, <3>2
  <2>4. Early(i) = RowOf(<<i, 1>>)
    BY <2>1, <2>3 DEF EarlyRow, RowOf
  <2>5. \A j, k \in Early(i) : j = k
    <3>1. \A j \in Early(i) : j \in Ids /\ rows[j].waId = <<i, 1>>
      BY <2>2 DEF RowOf
    <3>2. ASSUME NEW j \in Early(i), NEW k \in Early(i) PROVE j = k
      <4>1. j \in Ids /\ k \in Ids /\ rows[j].waId = rows[k].waId /\ rows[j].waId # None
        BY <2>2, <3>1
      <4>. QED  BY <1>1, <4>1 DEF OneRowPerMessage
    <3>. QED  BY <3>2
  <2>6. CASE Early(i) = {}
    BY <2>1, <2>4, <2>6 DEF Known
  <2>7. CASE Early(i) # {}
    <3>. DEFINE e == CHOOSE j \in Early(i) : TRUE
    <3>1. e \in Early(i)
      BY <2>7
    <3>. HIDE DEF e
    <3>2. AfterCall(p) = rows[e].status
      BY <2>1, <2>7 DEF e, Known
    <3>3. rows[e].status \in Reported \union {"accepted"}
      BY <1>1, <2>2, <3>1 DEF RowOf, RowsInOrder, InOrder
    <3>. QED  BY <2>1, <2>3, <2>4, <2>5, <3>1, <3>2, <3>3 DEF RowOf
  <2>. QED  BY <2>6, <2>7
<1>. QED  BY <1>2, <1>3, <1>4

\* No process takes a row in hand, and no row in hand changes.
LEMMA HandsKept ==
  ASSUME IInv, Ids \subseteq Ids',
         \A x \in Processes : process'[x].at \in InHand => process'[x] = process[x],
         \A x \in Processes : process'[x].at = "reserved" => process'[x] = process[x] \/ process'[x].row \in Ids',
         \A x \in Processes : process'[x].at \in InHand => rows'[process[x].row] = rows[process[x].row]
  PROVE  OneHand'
<1>1. OneHand
  BY DEF IInv
<1>2. \A x \in Processes : process'[x].at \in InHand \union {"reserved"} => process'[x].row \in Ids'
  BY <1>1 DEF OneHand
<1>3. ASSUME NEW x \in Processes, process'[x].at \in InHand
      PROVE  LET z == rows'[process'[x].row] IN z.own /\ z.status = "sending" /\ z.waId = None /\ z.done = "no"
  BY <1>1, <1>3 DEF OneHand
<1>4. ASSUME NEW x \in Processes, NEW y \in Processes,
             process'[x].at \in InHand, process'[y].at \in InHand, process'[x].row = process'[y].row
      PROVE  x = y
  BY <1>1, <1>4 DEF OneHand
<1>5. ASSUME NEW x \in Processes, process'[x].at = "sending" PROVE rows'[process'[x].row].handed = 0
  BY <1>1, <1>5 DEF OneHand, InHand
<1>6. ASSUME NEW x \in Processes, process'[x].at = "called"
      PROVE  /\ process'[x].answer \in {"accepted", "lost", "refused"}
             /\ process'[x].answer = "accepted" => rows'[process'[x].row].handed = 1
  BY <1>1, <1>6 DEF OneHand, InHand
<1>. QED  BY <1>2, <1>3, <1>4, <1>5, <1>6 DEF OneHand

\* A process lets go of its row, and no other row in hand changes.
LEMMA LettingGo ==
  ASSUME IInv, NEW p \in Processes, Ids \subseteq Ids',
         process'[p].at \in {"idle", "done"},
         \A x \in Processes : x # p => process'[x] = process[x],
         \A x \in Processes : x # p /\ process[x].at \in InHand =>
            rows'[process[x].row] = rows[process[x].row]
  PROVE  OneHand'
<1>1. \A x \in Processes : process'[x].at \in InHand \union {"reserved"} => x # p /\ process'[x] = process[x]
  BY DEF InHand
<1>. QED  BY <1>1, HandsKept

LEMMA SettleStep == ASSUME IInv, NEW p \in Processes, Settle(p) PROVE IInv'
<1>1. TypeOK /\ OneHand /\ RowsInOrder /\ ReportsKept /\ OneRowPerMessage
  BY DEF IInv
<1>2. PICK i \in Ids : i = process[p].row
  BY <1>1 DEF OneHand, Settle, InHand
<1>3. /\ process[p].at = "called" /\ rows[i].own /\ rows[i].status = "sending" /\ rows[i].waId = None /\ rows[i].done = "no"
      /\ rows[i] \in RowType /\ i \in Nat /\ rows[i].handed <= 1
  BY <1>1, <1>2, RowsTyped DEF OneHand, RowsInOrder, InOrder, Settle, InHand
<1>4. /\ rows' = IF process[p].answer = "accepted"
                     THEN [j \in Ids |->
                            IF j = i THEN [rows[i] EXCEPT !.status = AfterCall(p), !.waId = <<i, rows[i].handed>>, !.done = "recent"]
                            ELSE IF j \in Early(i) THEN [rows[j] EXCEPT !.status = "deleted", !.waId = None]
                            ELSE rows[j]]
                     ELSE [rows EXCEPT ![i].status = AfterCall(p)]
      /\ process' = [process EXCEPT ![p] = Done(p, AfterCall(p))]
      /\ UNCHANGED <<server, composer>>
  BY <1>2 DEF Settle
<1>. DEFINE kept  == AfterCall(p)
            early == Early(i)
<1>5. /\ process[p].answer # "accepted" => kept = "uncertain"
      /\ process[p].answer = "accepted" =>
           /\ rows[i].handed = 1 /\ kept \in Reported \union {"accepted"}
           /\ early = RowOf(<<i, 1>>)
           /\ \A j \in early : j \in Ids /\ ~rows[j].own /\ rows[j].waId = <<i, 1>> /\ kept = rows[j].status
  BY <1>2, <1>3, SettleStatus
<1>6. kept \in Statuses
  BY <1>5 DEF Statuses
<1>. DEFINE q == Done(p, kept)
<1>7. process' = [process EXCEPT ![p] = q]
  BY <1>4
<1>8. q.at \in {"idle", "done"} /\ q \in ProcessType
  BY <1>6, DoneTyped DEF ProcessType
<1>. HIDE DEF q
<1>9. process' \in [Processes -> ProcessType] /\ \A x \in Processes : process'[x] = IF x = p THEN q ELSE process[x]
  BY <1>1, <1>7, <1>8, ProcessWritten
<1>10. \A s \in Slots : process'[s].at = "posted" => process'[s] = process[s]
  BY <1>8, <1>9 DEF Processes
<1>11. \A x \in Processes : x # p /\ process[x].at \in InHand =>
         process[x].row \in Ids /\ process[x].row # i /\ rows[process[x].row].own
  BY <1>1, <1>2, <1>3 DEF OneHand, InHand
<1>12. CASE process[p].answer # "accepted"
  <2>. DEFINE r == [rows[i] EXCEPT !.status = "uncertain"]
  <2>1. rows' = [rows EXCEPT ![i] = r]
    BY <1>1, <1>4, <1>5, <1>12, RowsTyped DEF TypeOK, Ids
  <2>2. r \in RowType /\ r.own /\ r.key = rows[i].key /\ r.to = rows[i].to /\ r.mode = rows[i].mode /\ r.done = rows[i].done
        /\ r.handed = rows[i].handed /\ r.waId = None /\ r.status = "uncertain"
    BY <1>3 DEF RowType, Statuses
  <2>. HIDE DEF r
  <2>3. rows' \in Seq(RowType) /\ Ids' = Ids /\ \A j \in Ids : rows'[j] = IF j = i THEN r ELSE rows[j]
    BY <1>1, <2>1, <2>2, RowWritten DEF Ids
  <2>4. TypeOK'
    BY <1>1, <1>4, <1>9, <2>3 DEF TypeOK, ProcessType, server, around
  <2>5. OneHand'
    BY <1>8, <1>9, <1>11, <2>3, LettingGo
  <2>6. RowsInOrder'
    <3>1. InOrder(i, r)
      BY <1>3, <2>2 DEF InOrder
    <3>. QED  BY <1>1, <2>3, <3>1, OneRowMoves
  <2>7. MovedOn
    BY <1>3, <2>2, <2>3, OneRowMoves
  <2>8. NamedKept
    BY <1>3, <2>2, <2>3, OneRowMoves
  <2>. QED  BY <1>4, <1>10, <2>4, <2>5, <2>6, <2>7, <2>8, RowStepKeeps DEF server
<1>13. CASE process[p].answer = "accepted"
  <2>. DEFINE r == [rows[i] EXCEPT !.status = kept, !.waId = <<i, 1>>, !.done = "recent"]
              d(j) == [rows[j] EXCEPT !.status = "deleted", !.waId = None]
  <2>1. rows' = [j \in Ids |-> IF j = i THEN r ELSE IF j \in early THEN d(j) ELSE rows[j]]
    BY <1>4, <1>5, <1>13
  <2>2. r \in RowType /\ r.own /\ r.key = rows[i].key /\ r.to = rows[i].to /\ r.mode = rows[i].mode
        /\ r.handed = 1 /\ r.waId = <<i, 1>> /\ r.status = kept /\ r.done = "recent" /\ <<i, 1>> # None
    BY <1>3, <1>5, <1>6, <1>13, Named DEF RowType
  <2>3. \A j \in Ids : /\ d(j) \in RowType /\ d(j).own = rows[j].own /\ d(j).key = rows[j].key /\ d(j).to = rows[j].to
                        /\ d(j).mode = rows[j].mode /\ d(j).done = rows[j].done /\ d(j).handed = rows[j].handed
                        /\ d(j).waId = None /\ d(j).status = "deleted"
    BY <1>1, RowsTyped DEF RowType, Statuses
  <2>. HIDE DEF r, d
  <2>4. rows' \in Seq(RowType) /\ Ids' = Ids
        /\ \A j \in Ids : rows'[j] = IF j = i THEN r ELSE IF j \in early THEN d(j) ELSE rows[j]
    <3>1. \A j \in Ids : (IF j = i THEN r ELSE IF j \in early THEN d(j) ELSE rows[j]) \in RowType
      BY <1>1, <2>2, <2>3, RowsTyped
    <3>2. rows' \in [1..Len(rows) -> RowType] /\ Len(rows) \in Nat
      BY <1>1, <2>1, <3>1, RowsTyped
    <3>. QED  BY <1>1, <2>1, <3>2, RowsTyped, IsASeq DEF Ids
  <2>5. i \notin early /\ \A j \in early : j \in Ids /\ ~rows[j].own
    BY <1>3, <1>5, <1>13
  <2>6. TypeOK'
    BY <1>1, <1>4, <1>9, <2>4 DEF TypeOK, ProcessType, server, around
  <2>7. OneHand'
    <3>1. \A x \in Processes : x # p /\ process[x].at \in InHand => rows'[process[x].row] = rows[process[x].row]
      BY <1>11, <2>4, <2>5
    <3>. QED  BY <1>8, <1>9, <2>4, <3>1, LettingGo
  <2>8. RowsInOrder'
    <3>1. kept # "deleted" /\ kept # "queued" /\ kept \in Reported \union {"accepted"}
      BY <1>5, <1>13 DEF Reported
    <3>2. InOrder(i, r)
      BY <2>2, <3>1 DEF InOrder
    <3>3. \A j \in early : InOrder(j, d(j))
      BY <1>1, <2>3, <2>5 DEF RowsInOrder, InOrder
    <3>4. \A j \in Ids : InOrder(j, rows'[j])
      BY <1>1, <2>4, <3>2, <3>3 DEF RowsInOrder
    <3>. QED  BY <2>4, <3>4 DEF RowsInOrder, InOrder
  <2>9. MovedOn
    <3>1. ASSUME NEW j \in Ids
          PROVE  /\ rows'[j].own = rows[j].own /\ rows'[j].key = rows[j].key
                 /\ rows'[j].to = rows[j].to /\ rows'[j].mode = rows[j].mode
                 /\ rows[j].done = "aged" => rows'[j].done = "aged"
      <4>1. CASE j = i
        BY <1>3, <2>2, <2>4, <4>1
      <4>2. CASE j # i /\ j \in early
        BY <2>3, <2>4, <4>2
      <4>3. CASE j # i /\ j \notin early
        BY <2>4, <4>3
      <4>. QED  BY <4>1, <4>2, <4>3
    <3>. QED  BY <2>4, <3>1 DEF MovedOn
  <2>10. OneRowPerMessage'
    <3>1. \A j \in Ids : j # i /\ rows'[j].waId # None => rows'[j].waId = rows[j].waId /\ rows[j].waId # <<i, 1>>
      BY <1>5, <1>13, <2>3, <2>4 DEF RowOf
    <3>2. rows'[i].waId = <<i, 1>>
      BY <2>2, <2>4
    <3>. QED  BY <1>1, <2>4, <3>1, <3>2 DEF OneRowPerMessage
  <2>11. ReportsKept'
    <3>. SUFFICES ASSUME NEW e \in events \ dropped
                  PROVE  \E j \in Ids' : rows'[j].waId = e[1] /\ Rank[rows'[j].status] >= Rank[e[2]]
      BY <1>4 DEF ReportsKept, RowOf, server
    <3>1. PICK j \in Ids : rows[j].waId = e[1] /\ Rank[rows[j].status] >= Rank[e[2]]
      BY <1>1 DEF ReportsKept, RowOf
    <3>2. CASE j \in early
      <4>1. rows'[i].waId = e[1] /\ rows'[i].status = rows[j].status
        BY <1>5, <1>13, <2>2, <2>4, <3>1, <3>2
      <4>. QED  BY <2>4, <3>1, <4>1
    <3>3. CASE j \notin early
      <4>1. e[1] # None
        BY <1>1, Named DEF TypeOK
      <4>2. j # i
        BY <1>3, <3>1, <4>1
      <4>. QED  BY <2>4, <3>1, <3>3, <4>2
    <3>. QED  BY <3>2, <3>3
  <2>12. OneDraw'
    BY <1>4, <1>10, <2>9, OneDrawKept DEF MovedOn
  <2>. QED  BY <2>6, <2>7, <2>8, <2>9, <2>10, <2>11, <2>12, MovedOnKeeps DEF IInv
<1>. QED  BY <1>12, <1>13

LEMMA DayPassesStep == ASSUME IInv, NEW i \in Ids, DayPasses(i) PROVE IInv'
<1>1. TypeOK /\ OneHand /\ RowsInOrder
  BY DEF IInv
<1>. DEFINE r == [rows[i] EXCEPT !.done = "aged"]
<1>2. rows' = [rows EXCEPT ![i] = r] /\ UNCHANGED <<server, process, composer>> /\ rows[i].done = "recent"
  BY <1>1, RowsTyped DEF DayPasses, TypeOK, Ids
<1>3. rows[i] \in RowType
  BY <1>1, RowsTyped
<1>4. r \in RowType /\ r.own = rows[i].own /\ r.key = rows[i].key /\ r.to = rows[i].to /\ r.mode = rows[i].mode
      /\ r.done = "aged" /\ r.handed = rows[i].handed /\ r.waId = rows[i].waId /\ r.status = rows[i].status
  BY <1>3 DEF RowType
<1>. HIDE DEF r
<1>5. rows' \in Seq(RowType) /\ Ids' = Ids /\ \A j \in Ids : rows'[j] = IF j = i THEN r ELSE rows[j]
  BY <1>1, <1>2, <1>4, RowWritten DEF Ids
<1>6. TypeOK'
  BY <1>1, <1>2, <1>5 DEF TypeOK, server, around
<1>7. OneHand'
  <2>1. \A x \in Processes : process[x].at \in InHand => process[x].row # i
    BY <1>1, <1>2 DEF OneHand
  <2>2. \A x \in Processes : process[x].at \in InHand => rows'[process[x].row] = rows[process[x].row]
    BY <1>1, <1>5, <2>1 DEF OneHand
  <2>. QED  BY <1>1, <1>2, <1>5, <2>2 DEF OneHand, InHand
<1>8. RowsInOrder'
  <2>1. InOrder(i, r)
    BY <1>1, <1>2, <1>4 DEF RowsInOrder, InOrder
  <2>. QED  BY <1>1, <1>5, <2>1, OneRowMoves
<1>9. MovedOn
  BY <1>4, <1>5, OneRowMoves
<1>10. NamedKept
  BY <1>4, <1>5 DEF NamedKept
<1>. QED  BY <1>2, <1>6, <1>7, <1>8, <1>9, <1>10, RowStepKeeps DEF server

LEMMA StatusStep ==
  ASSUME IInv, Reports \subseteq Reported, NEW m \in meta, NEW status \in Reports, Status(m, status)
  PROVE  IInv'
<1>1. TypeOK /\ OneHand /\ RowsInOrder /\ ReportsKept /\ OneRowPerMessage
  BY DEF IInv
<1>2. m \in [id : Nat \X Nat, to : Contacts] /\ status \in Reported /\ m.id # None
  BY <1>1, Named DEF TypeOK
<1>3. UNCHANGED <<around, process, composer, meta, dropped>> /\ events' = events \union {<<m.id, status>>}
  BY DEF Status
<1>4. events' \subseteq (Nat \X Nat) \X Reported /\ dropped' \subseteq events'
  BY <1>1, <1>2, <1>3 DEF TypeOK
<1>5. \A e \in events : e[1] # None /\ e[2] \in Reported
  BY <1>1, Named DEF TypeOK
<1>6. CASE RowOf(m.id) = {} /\ Len(rows) < MaxRows /\ rows' = Append(rows, ExternalRow(m, status))
  <2>. DEFINE r == ExternalRow(m, status)
              n == Len(rows) + 1
  <2>1. r \in RowType /\ ~r.own /\ r.key = None /\ r.status = status /\ r.waId = m.id /\ r.handed = 1
    BY <1>2 DEF ExternalRow, RowType, Modes, Metered, Statuses
  <2>. HIDE DEF r
  <2>2. rows' \in Seq(RowType) /\ Ids' = Ids \union {n} /\ n \notin Ids /\ rows'[n] = r
        /\ \A j \in Ids : rows'[j] = rows[j]
    BY <1>1, <1>6, <2>1, RowAdded DEF Ids, r
  <2>. HIDE DEF n
  <2>3. TypeOK'
    BY <1>1, <1>3, <1>4, <2>2 DEF TypeOK, around
  <2>4. OneHand'
    BY <1>1, <1>3, <2>2 DEF OneHand, InHand
  <2>5. RowsInOrder'
    <3>1. InOrder(n, r)
      BY <1>2, <2>1 DEF InOrder, Reported
    <3>2. \A j \in Ids' : InOrder(j, rows'[j])
      BY <1>1, <2>2, <3>1 DEF RowsInOrder
    <3>. QED  BY <3>2 DEF RowsInOrder, InOrder
  <2>6. MovedOn
    BY <2>1, <2>2 DEF MovedOn
  <2>7. OneDraw'
    BY <1>3, <2>6, OneDrawKept DEF MovedOn
  <2>8. OneRowPerMessage'
    <3>1. \A j \in Ids : rows[j].waId # m.id
      BY <1>6 DEF RowOf
    <3>. QED  BY <1>1, <2>1, <2>2, <3>1 DEF OneRowPerMessage
  <2>9. ReportsKept'
    <3>. SUFFICES ASSUME NEW e \in events', e \notin dropped'
                  PROVE  \E j \in Ids' : rows'[j].waId = e[1] /\ Rank[rows'[j].status] >= Rank[e[2]]
      BY DEF ReportsKept, RowOf
    <3>1. CASE e \in events
      <4>1. PICK j \in Ids : rows[j].waId = e[1] /\ Rank[rows[j].status] >= Rank[e[2]]
        BY <1>1, <1>3, <3>1 DEF ReportsKept, RowOf
      <4>. QED  BY <2>2, <4>1
    <3>2. CASE e = <<m.id, status>>
      <4>1. Rank[status] \in Nat
        BY <1>2, Ranked
      <4>2. rows'[n].waId = e[1] /\ rows'[n].status = e[2]
        BY <2>1, <2>2, <3>2
      <4>. QED  BY <2>2, <3>2, <4>1, <4>2
    <3>. QED  BY <1>3, <3>1, <3>2
  <2>. QED  BY <2>3, <2>4, <2>5, <2>6, <2>7, <2>8, <2>9, MovedOnKeeps DEF IInv
<1>7. ASSUME NEW i \in RowOf(m.id),
             rows' = IF NotOlder(i, status)
                       THEN [rows EXCEPT ![i].status = status, ![i].done = IF @ = "no" THEN "recent" ELSE @]
                       ELSE rows
      PROVE  IInv'
  <2>. DEFINE r == IF NotOlder(i, status)
                     THEN [rows[i] EXCEPT !.status = status, !.done = IF rows[i].done = "no" THEN "recent" ELSE rows[i].done]
                     ELSE rows[i]
  <2>1. i \in Ids /\ rows[i] \in RowType /\ rows[i].waId = m.id /\ rows[i].status \in Reported \union {"accepted"}
    BY <1>1, <1>2, RowsTyped DEF RowOf, RowsInOrder, InOrder
  <2>2. rows' = [rows EXCEPT ![i] = r]
    <3>1. rows \in [1..Len(rows) -> RowType] /\ i \in 1..Len(rows)
      BY <1>1, <2>1, RowsTyped DEF TypeOK
    <3>2. CASE NotOlder(i, status)
      <4>1. rows' = [rows EXCEPT ![i].status = status, ![i].done = IF @ = "no" THEN "recent" ELSE @]
        BY <1>7, <3>2
      <4>. QED  BY <3>1, <3>2, <4>1
    <3>3. CASE ~NotOlder(i, status)
      BY <1>7, <3>1, <3>3
    <3>. QED  BY <3>2, <3>3
  <2>3. r \in RowType /\ r.own = rows[i].own /\ r.key = rows[i].key /\ r.to = rows[i].to /\ r.mode = rows[i].mode
        /\ (rows[i].done = "aged" => r.done = "aged") /\ r.handed = rows[i].handed /\ r.waId = rows[i].waId
        /\ r.status = IF NotOlder(i, status) THEN status ELSE rows[i].status
    BY <1>2, <2>1 DEF RowType, Statuses
  <2>. HIDE DEF r
  <2>4. rows' \in Seq(RowType) /\ Ids' = Ids /\ \A j \in Ids : rows'[j] = IF j = i THEN r ELSE rows[j]
    BY <1>1, <2>1, <2>2, <2>3, RowWritten DEF Ids
  <2>5. TypeOK'
    BY <1>1, <1>3, <1>4, <2>4 DEF TypeOK, around
  <2>6. OneHand'
    <3>1. \A x \in Processes : process[x].at \in InHand => process[x].row \in Ids /\ process[x].row # i
      BY <1>1, <1>2, <2>1 DEF OneHand
    <3>2. \A x \in Processes : process[x].at \in InHand => rows'[process[x].row] = rows[process[x].row]
      BY <2>4, <3>1
    <3>. QED  BY <1>1, <1>3, <2>4, <3>2 DEF OneHand, InHand
  <2>7. r.status \in Reported \union {"accepted"}
    BY <1>2, <2>1, <2>3
  <2>8. RowsInOrder'
    <3>1. r.status # "queued" /\ r.status # "deleted"
      BY <2>7 DEF Reported
    <3>2. InOrder(i, r)
      BY <1>1, <2>1, <2>3, <2>7, <3>1 DEF RowsInOrder, InOrder
    <3>. QED  BY <1>1, <2>1, <2>4, <3>2, OneRowMoves
  <2>9. MovedOn
    BY <2>1, <2>3, <2>4, OneRowMoves
  <2>10. OneDraw'
    BY <1>3, <2>9, OneDrawKept DEF MovedOn
  <2>11. OneRowPerMessage'
    BY <1>1, <2>1, <2>3, <2>4 DEF OneRowPerMessage
  <2>12. Rank[r.status] >= Rank[rows[i].status] /\ Rank[r.status] >= Rank[status]
         /\ Rank[r.status] \in Nat /\ Rank[rows[i].status] \in Nat
    BY <1>2, <2>1, <2>3, <2>7, Ranked DEF NotOlder
  <2>13. ReportsKept'
    <3>. SUFFICES ASSUME NEW e \in events', e \notin dropped'
                  PROVE  \E j \in Ids' : rows'[j].waId = e[1] /\ Rank[rows'[j].status] >= Rank[e[2]]
      BY DEF ReportsKept, RowOf
    <3>1. CASE e \in events
      <4>1. PICK j \in Ids : rows[j].waId = e[1] /\ Rank[rows[j].status] >= Rank[e[2]]
        BY <1>1, <1>3, <3>1 DEF ReportsKept, RowOf
      <4>2. CASE j # i
        BY <2>4, <4>1, <4>2
      <4>3. CASE j = i
        <5>1. Rank[e[2]] \in Nat
          BY <1>5, <3>1, Ranked
        <5>2. Rank[r.status] >= Rank[e[2]]
          BY <2>12, <4>1, <4>3, <5>1
        <5>. QED  BY <2>1, <2>3, <2>4, <4>1, <4>3, <5>2
      <4>. QED  BY <4>2, <4>3
    <3>2. CASE e = <<m.id, status>>
      BY <2>1, <2>3, <2>4, <2>12, <3>2
    <3>. QED  BY <1>3, <3>1, <3>2
  <2>. QED  BY <2>5, <2>6, <2>8, <2>9, <2>10, <2>11, <2>13, MovedOnKeeps DEF IInv
<1>. QED  BY <1>6, <1>7 DEF Status

\* A report that is stored and leads to nothing else touches no row.
LEMMA StatusDroppedStep ==
  ASSUME IInv, Reports \subseteq Reported, NEW m \in meta, NEW status \in Reports, StatusDropped(m, status)
  PROVE  IInv'
<1>1. TypeOK /\ changes + 1 \in Nat
  BY DEF IInv, TypeOK
<1>2. m.id \in Nat \X Nat /\ status \in Reported
  BY <1>1 DEF TypeOK
<1>3. events' = events \union {<<m.id, status>>} /\ dropped' = dropped \union {<<m.id, status>>}
      /\ changes' = changes + 1 /\ UNCHANGED <<settings, approved, contact, order, rows, process, composer, meta>>
  BY DEF StatusDropped, Change
<1>4. TypeOK'
  <2>1. events' \subseteq (Nat \X Nat) \X Reported /\ dropped' \subseteq events'
    BY <1>1, <1>2, <1>3 DEF TypeOK
  <2>. QED  BY <1>1, <1>3, <2>1 DEF TypeOK
<1>5. events' \ dropped' = events \ dropped
  BY <1>3 DEF StatusDropped
<1>. QED  BY <1>3, <1>4, <1>5, AroundKeeps

\* New rows of our own take no more of the allowance than is left.
LEMMA AllowanceGrows ==
  ASSUME IInv, NEW n \in Nat, n <= Quota,
         OwnUses' \subseteq OwnUses \union ((Len(rows) + 1)..(Len(rows) + n))
  PROVE  WithinAllowance'
<1>. DEFINE new == (Len(rows) + 1)..(Len(rows) + n)
            uses == {i \in Ids : UsesAllowance(i)}
<1>1. Len(rows) \in Nat /\ IsFiniteSet(Ids) /\ Limit \in Nat
  BY RowsTyped, MessagesAssumption DEF IInv
<1>2. IsFiniteSet(new) /\ Cardinality(new) = n
  <2>1. Len(rows) + 1 \in Int /\ Len(rows) + n \in Int
    BY <1>1
  <2>2. IsFiniteSet(new) /\ Cardinality(new) = IF Len(rows) + 1 > Len(rows) + n THEN 0 ELSE (Len(rows) + n) - (Len(rows) + 1) + 1
    BY <2>1, FS_Interval
  <2>. HIDE DEF new
  <2>. QED  BY <1>1, <2>2
<1>3. IsFiniteSet(uses) /\ Cardinality(uses) \in Nat /\ Used = Cardinality(uses)
  BY <1>1, FS_Subset, FS_CardinalityType DEF Used
<1>4. IsFiniteSet(OwnUses) /\ Cardinality(OwnUses) <= Cardinality(uses) /\ Cardinality(OwnUses) \in Nat
  BY <1>3, FS_Subset, FS_CardinalityType DEF OwnUses
<1>5. IsFiniteSet(OwnUses \union new) /\ Cardinality(OwnUses \union new) <= Cardinality(OwnUses) + n
      /\ Cardinality(OwnUses \union new) \in Nat
  <2>1. IsFiniteSet(OwnUses \union new)
        /\ Cardinality(OwnUses \union new) = Cardinality(OwnUses) + Cardinality(new) - Cardinality(OwnUses \cap new)
    BY <1>2, <1>4, FS_Union
  <2>2. Cardinality(OwnUses \cap new) \in Nat
    BY <1>4, FS_Intersection, FS_CardinalityType
  <2>3. Cardinality(OwnUses \union new) \in Nat
    BY <2>1, FS_CardinalityType
  <2>. QED  BY <1>2, <1>4, <2>1, <2>2, <2>3
<1>6. Cardinality(OwnUses') <= Cardinality(OwnUses \union new) /\ Cardinality(OwnUses') \in Nat
  BY <1>5, FS_Subset, FS_CardinalityType
<1>7. CASE n = 0
  <2>1. Cardinality(OwnUses) <= Limit
    BY DEF IInv, WithinAllowance
  <2>. QED  BY <1>1, <1>4, <1>5, <1>6, <1>7, <2>1 DEF WithinAllowance
<1>8. CASE n > 0
  <2>1. Used < Limit /\ n <= Limit - Used
    BY <1>1, <1>3, <1>8 DEF Quota
  <2>. HIDE DEF new, uses
  <2>2. Cardinality(OwnUses') <= Limit
    BY <1>1, <1>3, <1>4, <1>5, <1>6, <2>1
  <2>. QED  BY <2>2 DEF WithinAllowance
<1>. QED  BY <1>7, <1>8

\* Rows of our own are added at the end, each queued and new.
LEMMA AddedKeeps ==
  ASSUME IInv, TypeOK', UNCHANGED <<events, dropped>>,
         Ids \subseteq Ids', \A j \in Ids : rows'[j] = rows[j],
         \A j \in Ids' \ Ids : /\ rows'[j].own /\ rows'[j].status = "queued" /\ rows'[j].handed = 0
                                /\ rows'[j].waId = None /\ rows'[j].done = "no"
  PROVE  RowsInOrder' /\ ReportsKept' /\ OneRowPerMessage'
<1>1. RowsInOrder'
  <2>1. \A j \in Ids' \ Ids : InOrder(j, rows'[j])
    BY DEF InOrder
  <2>2. \A j \in Ids : InOrder(j, rows[j])
    BY DEF IInv, RowsInOrder
  <2>3. \A j \in Ids' : InOrder(j, rows'[j])
    BY <2>1, <2>2
  <2>. QED  BY <2>3 DEF RowsInOrder, InOrder
<1>2. NamedKept
  BY DEF NamedKept
<1>. QED  BY <1>1, <1>2, NamedKeptKeeps

\* One row is reserved, by process p, for a contact.
LEMMA ReservedKeeps ==
  ASSUME IInv, TypeOK', NEW p \in Processes, NEW c \in Contacts, NEW mode \in Modes \ {"campaign"},
         NEW key \in Keys \union {None}, NEW r, NEW n, r = NewRow(c, mode, key), n = Len(rows) + 1,
         Ids' = Ids \union {n}, n \notin Ids, rows'[n] = r, \A j \in Ids : rows'[j] = rows[j],
         mode \in Metered => Quota > 0,
         key # None => KeyRow(key) = {} /\ \E s \in Slots : process[s].at = "posted" /\ process[s].key = key,
         process'[p].at = "reserved", process'[p].row = n, process[p].at \notin InHand,
         \A x \in Processes : x # p => process'[x] = process[x],
         UNCHANGED <<composer, events, dropped>>
  PROVE  IInv'
<1>1. TypeOK /\ OneHand /\ RowsInOrder /\ OneDraw /\ DraftSentOnce /\ OneCampaign
  BY DEF IInv
<1>2. r.own /\ r.key = key /\ r.to = c /\ r.mode = mode /\ r.status = "queued"
      /\ r.waId = None /\ r.done = "no" /\ r.handed = 0
  BY DEF NewRow
<1>3. Ids' = Ids \union {n} /\ n \notin Ids /\ rows'[n] = r /\ \A j \in Ids : rows'[j] = rows[j]
  OBVIOUS
<1>4. process'[p].at = "reserved" /\ process'[p].row = n
  OBVIOUS
<1>5. RowsInOrder' /\ ReportsKept' /\ OneRowPerMessage'
  BY <1>2, <1>3, AddedKeeps
<1>6. OneHand'
  <2>1. \A x \in Processes : process'[x].at \in InHand => x # p /\ process'[x] = process[x]
    BY <1>4 DEF InHand
  <2>2. \A x \in Processes : process'[x].at \in InHand \union {"reserved"} => process'[x].row \in Ids'
    BY <1>1, <1>3, <1>4 DEF OneHand
  <2>3. \A x \in Processes : process[x].at \in InHand => rows'[process[x].row] = rows[process[x].row]
    BY <1>1, <1>3 DEF OneHand
  <2>. QED  BY <1>3, <1>4, <2>1, <2>2, <2>3, HandsKept
<1>7. OneDraw'
  <2>1. \A s \in Slots : process'[s].at = "posted" => process'[s] = process[s]
    BY <1>4 DEF Processes
  <2>2. \A i \in Ids' : rows'[i].key # None =>
          \/ i \in Ids /\ rows'[i].key = rows[i].key
          \/ \E s \in Slots : process[s].at = "posted" /\ rows'[i].key = process[s].key
    <3>1. ASSUME key # None PROVE \E s \in Slots : process[s].at = "posted" /\ key = process[s].key
      BY <3>1
    <3>. QED  BY <1>2, <1>3, <3>1
  <2>. QED  BY <2>1, <2>2, OneDrawKept
<1>8. DraftSentOnce'
  <2>1. ASSUME NEW j \in Ids, key # None, rows[j].key # None, rows[j].key[1] = key[1] PROVE FALSE
    <3>1. rows[j].key[2] = 1 /\ key[2] = 1
      BY <1>1, <2>1 DEF OneDraw, Drawn
    <3>2. rows[j].key \in Keys /\ key \in Keys
      BY <1>1, <2>1, RowsTyped DEF RowType
    <3>3. rows[j].key = key
      BY <2>1, <3>1, <3>2 DEF Keys
    <3>. QED  BY <2>1, <3>3 DEF KeyRow
  <2>2. ASSUME NEW i \in Ids', NEW j \in Ids', rows'[i].key # None, rows'[j].key # None, rows'[i].key[1] = rows'[j].key[1]
        PROVE  i = j
    <3>1. CASE i \in Ids /\ j \in Ids
      BY <1>1, <1>3, <2>2, <3>1 DEF DraftSentOnce
    <3>2. CASE i = n /\ j \in Ids
      BY <1>2, <1>3, <2>1, <2>2, <3>2
    <3>3. CASE i \in Ids /\ j = n
      BY <1>2, <1>3, <2>1, <2>2, <3>3
    <3>. QED  BY <1>3, <3>1, <3>2, <3>3
  <2>. QED  BY <2>2 DEF DraftSentOnce
<1>9. OneCampaign'
  <2>1. rows'[n].mode # "campaign"
    BY <1>2, <1>3
  <2>2. \A i \in Ids' : (i \in Ids /\ rows'[i] = rows[i]) \/ i = n
    BY <1>3
  <2>. QED  BY <1>1, <2>1, <2>2 DEF OneCampaign
<1>10. WithinAllowance'
  <2>1. Len(rows) \in Nat /\ n = Len(rows) + 1
    BY <1>1, RowsTyped
  <2>2. OwnUses' \subseteq OwnUses \union (IF mode \in Metered THEN {n} ELSE {})
    BY <1>2, <1>3 DEF OwnUses, UsesAllowance
  <2>3. Quota \in Nat
    <3>1. Used \in Nat
      BY <1>1, RowsTyped, FS_Subset, FS_CardinalityType DEF Used
    <3>. QED  BY <3>1, MessagesAssumption DEF Quota
  <2>4. CASE mode \in Metered
    <3>1. OwnUses' \subseteq OwnUses \union ((Len(rows) + 1)..(Len(rows) + 1))
      BY <2>1, <2>2, <2>4
    <3>2. 1 \in Nat /\ 1 <= Quota
      BY <2>3, <2>4
    <3>. QED  BY <3>1, <3>2, AllowanceGrows
  <2>5. CASE mode \notin Metered
    <3>1. OwnUses' \subseteq OwnUses \union ((Len(rows) + 1)..(Len(rows) + 0))
      BY <2>2, <2>5
    <3>. QED  BY <2>3, <3>1, AllowanceGrows
  <2>. QED  BY <2>4, <2>5
<1>. QED  BY <1>5, <1>6, <1>7, <1>8, <1>9, <1>10 DEF IInv

LEMMA ReserveStep == ASSUME IInv, NEW s \in Slots, Reserve(s) PROVE IInv'
<1>. DEFINE q == process[s]
<1>1. TypeOK /\ OneHand /\ OneDraw /\ s \in Processes
  BY DEF IInv, Processes
<1>2. q \in ProcessType /\ q.at = "posted" /\ q.to \in Contacts /\ q.key # None /\ q.key \in Keys
  BY <1>1 DEF Reserve, OneDraw, TypeOK, ProcessType
<1>3. UNCHANGED <<server, composer>> /\ \A x \in Slots : x \in Processes
  BY DEF Reserve, Processes
<1>4. ASSUME UNCHANGED rows, NEW r \in ProcessType, process' = [process EXCEPT ![s] = r],
             r.at \in {"idle", "done"} \/ (r.at = "reserved" /\ r.row \in Ids)
      PROVE  IInv'
  <2>1. process' \in [Processes -> ProcessType] /\ \A x \in Processes : process'[x] = IF x = s THEN r ELSE process[x]
    BY <1>1, <1>4, ProcessWritten
  <2>2. TypeOK'
    BY <1>1, <1>3, <1>4, <2>1 DEF TypeOK, ProcessType, server, around
  <2>3. OneHand'
    <3>1. \A x \in Processes : process'[x].at \in InHand => x # s /\ process'[x] = process[x]
      BY <1>4, <2>1 DEF InHand
    <3>2. \A x \in Processes : process'[x].at \in InHand \union {"reserved"} => process'[x].row \in Ids
      BY <1>1, <1>4, <2>1 DEF OneHand, InHand
    <3>. QED  BY <1>1, <1>4, <3>1, <3>2 DEF OneHand, InHand, Ids
  <2>4. \A x \in Slots : process'[x].at = "posted" => process'[x] = process[x]
    BY <1>3, <1>4, <2>1
  <2>5. RowsInOrder' /\ MovedOn /\ NamedKept
    <3>1. RowsInOrder
      BY DEF IInv
    <3>. QED  BY <1>4, <3>1 DEF RowsInOrder, InOrder, MovedOn, NamedKept, Ids
  <2>. QED  BY <1>3, <2>2, <2>3, <2>4, <2>5, RowStepKeeps DEF server
<1>5. Done(s, "refused") \in ProcessType /\ Done(s, "refused").at \in {"idle", "done"}
  BY <1>1, DoneTyped DEF ProcessType
<1>6. ASSUME NEW i \in KeyRow(q.key), UNCHANGED rows,
             process' = [process EXCEPT ![s] = IF rows[i].to = q.to THEN [@ EXCEPT !.at = "reserved", !.row = i] ELSE Done(s, "refused")]
      PROVE  IInv'
  <2>1. i \in Ids /\ i \in Nat
    BY <1>1, RowsTyped DEF KeyRow
  <2>2. CASE rows[i].to = q.to
    <3>1. [q EXCEPT !.at = "reserved", !.row = i] \in ProcessType
      BY <1>2, <2>1 DEF ProcessType
    <3>2. process' = [process EXCEPT ![s] = [q EXCEPT !.at = "reserved", !.row = i]]
      BY <1>1, <1>6, <2>2 DEF TypeOK
    <3>3. [q EXCEPT !.at = "reserved", !.row = i].at = "reserved" /\ [q EXCEPT !.at = "reserved", !.row = i].row = i
      BY <1>2 DEF ProcessType
    <3>. QED  BY <1>4, <1>6, <2>1, <3>1, <3>2, <3>3
  <2>3. CASE rows[i].to # q.to
    <3>1. process' = [process EXCEPT ![s] = Done(s, "refused")]
      BY <1>6, <2>3
    <3>. QED  BY <1>4, <1>5, <1>6, <3>1
  <2>. QED  BY <2>2, <2>3
<1>7. CASE /\ KeyRow(q.key) = {} /\ MayReserve(q.to, q.mode)
           /\ rows' = Append(rows, NewRow(q.to, q.mode, q.key))
           /\ process' = [process EXCEPT ![s].at = "reserved", ![s].row = Len(rows) + 1]
  <2>. DEFINE r == [q EXCEPT !.at = "reserved", !.row = Len(rows) + 1]
  <2>1. Len(rows) + 1 \in Nat /\ q.mode \in {"reply", "manual"}
    BY <1>1, <1>2, RowsTyped DEF ProcessType
  <2>2. r \in ProcessType /\ r.at = "reserved" /\ r.row = Len(rows) + 1
    BY <1>2, <2>1 DEF ProcessType
  <2>3. process' = [process EXCEPT ![s] = r]
    BY <1>1, <1>7 DEF TypeOK
  <2>. HIDE DEF r
  <2>4. process' \in [Processes -> ProcessType] /\ \A x \in Processes : process'[x] = IF x = s THEN r ELSE process[x]
    BY <1>1, <2>2, <2>3, ProcessWritten
  <2>5. NewRow(q.to, q.mode, q.key) \in RowType
    <3>1. q.mode \in Modes /\ "queued" \in Statuses
      BY <2>1 DEF Modes, Metered, Statuses
    <3>. QED  BY <1>2, <3>1 DEF NewRow, RowType
  <2>. DEFINE w == NewRow(q.to, q.mode, q.key)
              n == Len(rows) + 1
  <2>6. rows' \in Seq(RowType) /\ Ids' = Ids \union {n} /\ n \notin Ids /\ rows'[n] = w
        /\ \A j \in Ids : rows'[j] = rows[j]
    BY <1>1, <1>7, <2>5, RowAdded DEF Ids
  <2>. HIDE DEF w
  <2>7. TypeOK'
    BY <1>1, <1>3, <2>4, <2>6 DEF TypeOK, ProcessType, server, around
  <2>8. q.mode \in Modes \ {"campaign"} /\ (q.mode \in Metered => Quota > 0)
    BY <1>7, <2>1 DEF Modes, Metered, MayReserve
  <2>9. q.at \notin InHand
    BY <1>2 DEF InHand
  <2>10. process'[s].at = "reserved" /\ process'[s].row = n /\ \A x \in Processes : x # s => process'[x] = process[x]
    BY <1>1, <2>2, <2>4
  <2>11. KeyRow(q.key) = {} /\ \E x \in Slots : process[x].at = "posted" /\ process[x].key = q.key
    BY <1>2, <1>7
  <2>12. w = NewRow(q.to, q.mode, q.key) /\ n = Len(rows) + 1
    BY DEF w
  <2>. HIDE DEF n
  <2>. QED  BY <1>1, <1>2, <1>3, <2>6, <2>7, <2>8, <2>9, <2>10, <2>11, <2>12, ReservedKeeps DEF server
<1>8. CASE UNCHANGED rows /\ process' = [process EXCEPT ![s] = Done(s, "refused")]
  BY <1>4, <1>5, <1>8
<1>. QED  BY <1>6, <1>7, <1>8 DEF Reserve

LEMMA ConfirmOrderStep == ASSUME IInv, NEW c \in Contacts, ConfirmOrder(c) PROVE IInv'
<1>1. TypeOK /\ Outbox \in Processes
  BY DEF IInv, Processes
<1>2. order[c] \in [paid : BOOLEAN, request : {"none", "pending", "reserved", "skipped"}]
      /\ process[Outbox] \in ProcessType /\ process[Outbox].at = "idle"
  BY <1>1 DEF TypeOK, ConfirmOrder, ProcessType
<1>3. UNCHANGED <<settings, approved, contact, changes, meta, events, dropped, composer>>
  BY DEF ConfirmOrder
<1>4. CASE order' = [order EXCEPT ![c].request = "skipped"] /\ UNCHANGED <<rows, process>>
  <2>1. order' \in [Contacts -> [paid : BOOLEAN, request : {"none", "pending", "reserved", "skipped"}]]
    BY <1>1, <1>2, <1>4 DEF TypeOK
  <2>2. TypeOK'
    BY <1>1, <1>3, <1>4, <2>1 DEF TypeOK
  <2>. QED  BY <1>3, <1>4, <2>2, AroundKeeps
<1>5. CASE /\ Quota > 0 /\ rows' = Append(rows, NewRow(c, "confirmation", None))
           /\ order' = [order EXCEPT ![c].request = "reserved"]
           /\ process' = [process EXCEPT ![Outbox].at = "reserved", ![Outbox].row = Len(rows) + 1]
  <2>. DEFINE w == NewRow(c, "confirmation", None)
              n == Len(rows) + 1
              r == [process[Outbox] EXCEPT !.at = "reserved", !.row = n]
  <2>1. n \in Nat
    BY <1>1, RowsTyped
  <2>2. r \in ProcessType /\ r.at = "reserved" /\ r.row = n
    BY <1>2, <2>1 DEF ProcessType
  <2>3. process' = [process EXCEPT ![Outbox] = r]
    BY <1>1, <1>5 DEF TypeOK
  <2>4. process' \in [Processes -> ProcessType] /\ \A x \in Processes : process'[x] = IF x = Outbox THEN r ELSE process[x]
    BY <1>1, <2>2, <2>3, ProcessWritten
  <2>5. w \in RowType
    <3>1. "confirmation" \in Modes /\ "queued" \in Statuses
      BY DEF Modes, Metered, Statuses
    <3>. QED  BY <3>1 DEF NewRow, RowType
  <2>6. rows' \in Seq(RowType) /\ Ids' = Ids \union {n} /\ n \notin Ids /\ rows'[n] = w
        /\ \A j \in Ids : rows'[j] = rows[j]
    BY <1>1, <1>5, <2>5, RowAdded DEF Ids
  <2>7. order' \in [Contacts -> [paid : BOOLEAN, request : {"none", "pending", "reserved", "skipped"}]]
    BY <1>1, <1>2, <1>5 DEF TypeOK
  <2>8. TypeOK'
    BY <1>1, <1>3, <2>4, <2>6, <2>7 DEF TypeOK, ProcessType
  <2>9. process'[Outbox].at = "reserved" /\ process'[Outbox].row = n
        /\ \A x \in Processes : x # Outbox => process'[x] = process[x]
    BY <1>1, <2>2, <2>4
  <2>10. "confirmation" \in Modes \ {"campaign"} /\ process[Outbox].at \notin InHand
    BY <1>2 DEF Modes, Metered, InHand
  <2>11. w = NewRow(c, "confirmation", None) /\ n = Len(rows) + 1
    OBVIOUS
  <2>12. Quota > 0 /\ None \in Keys \union {None} /\ Ids' = Ids \union {n} /\ n \notin Ids /\ rows'[n] = w
         /\ \A j \in Ids : rows'[j] = rows[j]
    BY <1>5, <2>6
  <2>. HIDE DEF w, n, r
  <2>. QED  BY <1>1, <1>3, <2>8, <2>9, <2>10, <2>11, <2>12, ReservedKeeps
<1>. QED  BY <1>4, <1>5 DEF ConfirmOrder

\* What a new row says.
LEMMA NewRowSays ==
  \A c, mode, key : LET r == NewRow(c, mode, key) IN
    /\ r.to = c /\ r.mode = mode /\ r.key = key /\ r.own
    /\ r.status = "queued" /\ r.handed = 0 /\ r.waId = None /\ r.done = "no"
BY DEF NewRow

\* n rows of a campaign are added, each for another contact that had none.
LEMMA CampaignKeeps ==
  ASSUME IInv, TypeOK', NEW n \in Nat, n <= Quota, NEW l, l = Len(rows),
         NEW q \in [1..n -> {c \in Contacts : Eligible(c)}], Distinct(q),
         Ids' = 1..(l + n), \A j \in Ids : rows'[j] = rows[j],
         \A k \in 1..n : rows'[l + k] = NewRow(q[k], "campaign", None),
         UNCHANGED <<process, composer, events, dropped>>
  PROVE  IInv'
<1>1. TypeOK /\ OneHand /\ OneDraw /\ DraftSentOnce /\ OneCampaign /\ RowsInOrder
  BY DEF IInv
<1>2. l \in Nat /\ Ids = 1..l
  BY <1>1, RowsTyped
<1>3. \A j \in Ids' \ Ids : j - l \in 1..n /\ j = l + (j - l)
  BY <1>2
<1>4. \A j \in Ids' \ Ids : rows'[j] = NewRow(q[j - l], "campaign", None)
  BY <1>3
<1>5. \A j \in Ids' \ Ids : /\ rows'[j].own /\ rows'[j].status = "queued" /\ rows'[j].handed = 0
                             /\ rows'[j].waId = None /\ rows'[j].done = "no" /\ rows'[j].key = None
                             /\ rows'[j].to = q[j - l]
  BY <1>4, NewRowSays
<1>6. Ids \subseteq Ids'
  BY <1>2
<1>7. RowsInOrder' /\ ReportsKept' /\ OneRowPerMessage'
  BY <1>5, <1>6, AddedKeeps
<1>8. OneHand'
  <2>1. \A x \in Processes : process[x].at \in InHand => rows'[process[x].row] = rows[process[x].row]
    BY <1>1 DEF OneHand
  <2>. QED  BY <1>6, <2>1, HandsKept
<1>9. OneDraw'
  <2>1. \A i \in Ids' : rows'[i].key # None => i \in Ids /\ rows'[i].key = rows[i].key
    BY <1>5
  <2>. QED  BY <2>1, OneDrawKept
<1>10. DraftSentOnce'
  <2>1. \A i \in Ids' : rows'[i].key # None => i \in Ids /\ rows'[i].key = rows[i].key
    BY <1>5
  <2>. QED  BY <1>1, <2>1 DEF DraftSentOnce
<1>11. OneCampaign'
  <2>1. \A c \in Contacts : Eligible(c) => \A i \in Ids : rows[i].own /\ rows[i].mode = "campaign" => rows[i].to # c
    BY <1>1 DEF Eligible, Campaigned, RowsInOrder, InOrder
  <2>2. ASSUME NEW i \in Ids', NEW j \in Ids', rows'[i].own, rows'[j].own,
               rows'[i].mode = "campaign", rows'[j].mode = "campaign", rows'[i].to = rows'[j].to
        PROVE  i = j
    <3>1. CASE i \in Ids /\ j \in Ids
      BY <1>1, <2>2, <3>1 DEF OneCampaign
    <3>2. CASE i \in Ids /\ j \notin Ids
      <4>1. rows'[j].to = q[j - l] /\ q[j - l] \in Contacts /\ Eligible(q[j - l])
        BY <1>3, <1>5, <3>2
      <4>. QED  BY <2>1, <2>2, <3>2, <4>1
    <3>3. CASE i \notin Ids /\ j \in Ids
      <4>1. rows'[i].to = q[i - l] /\ q[i - l] \in Contacts /\ Eligible(q[i - l])
        BY <1>3, <1>5, <3>3
      <4>. QED  BY <2>1, <2>2, <3>3, <4>1
    <3>4. CASE i \notin Ids /\ j \notin Ids
      <4>1. q[i - l] = q[j - l] /\ i - l \in DOMAIN q /\ j - l \in DOMAIN q
        BY <1>3, <1>5, <2>2, <3>4
      <4>2. i - l = j - l
        BY <4>1 DEF Distinct
      <4>. QED  BY <1>3, <3>4, <4>2
    <3>. QED  BY <3>1, <3>2, <3>3, <3>4
  <2>. QED  BY <2>2 DEF OneCampaign
<1>12. WithinAllowance'
  <2>1. OwnUses' \subseteq OwnUses \union ((l + 1)..(l + n))
    <3>1. \A j \in Ids' : j \in Ids \/ j \in (l + 1)..(l + n)
      BY <1>2
    <3>. QED  BY <3>1 DEF OwnUses, UsesAllowance
  <2>. QED  BY <2>1, AllowanceGrows
<1>. QED  BY <1>7, <1>8, <1>9, <1>10, <1>11, <1>12 DEF IInv

LEMMA CampaignStep == ASSUME IInv, Campaign PROVE IInv'
<1>1. TypeOK
  BY DEF IInv
<1>0. PICK n \in 1..Quota : \E q \in [1..n -> {c \in Contacts : Eligible(c)}] :
        Distinct(q) /\ rows' = rows \o [i \in 1..n |-> NewRow(q[i], "campaign", None)]
  BY DEF Campaign
<1>2. PICK q \in [1..n -> {c \in Contacts : Eligible(c)}] :
        Distinct(q) /\ rows' = rows \o [i \in 1..n |-> NewRow(q[i], "campaign", None)]
  BY <1>0
<1>3. UNCHANGED <<server, process, composer>>
  BY DEF Campaign
<1>4. n \in Nat /\ n <= Quota
  <2>1. Used \in Nat
    BY <1>1, RowsTyped, FS_Subset, FS_CardinalityType DEF Used
  <2>. QED  BY <2>1, MessagesAssumption DEF Quota
<1>. DEFINE new == [i \in 1..n |-> NewRow(q[i], "campaign", None)]
            l   == Len(rows)
<1>5. new \in Seq(RowType) /\ Len(new) = n /\ \A k \in 1..n : new[k] = NewRow(q[k], "campaign", None)
  <2>1. "campaign" \in Modes /\ "queued" \in Statuses
    BY DEF Modes, Metered, Statuses
  <2>2. \A k \in 1..n : NewRow(q[k], "campaign", None) \in RowType
    BY <2>1 DEF NewRow, RowType
  <2>. QED  BY <1>4, <2>2, IsASeq
<1>. HIDE DEF new
<1>6. rows' \in Seq(RowType) /\ Len(rows') = l + n
      /\ \A j \in 1..(l + n) : rows'[j] = IF j <= l THEN rows[j] ELSE new[j - l]
  <2>1. rows \in Seq(RowType) /\ rows' = rows \o new
    BY <1>1, <1>2 DEF TypeOK, new
  <2>. QED  BY <1>5, <2>1, ConcatProperties
<1>7. l \in Nat /\ Ids = 1..l
  BY <1>1, RowsTyped
<1>8. Ids' = 1..(l + n)
  BY <1>6 DEF Ids
<1>9. \A j \in Ids : rows'[j] = rows[j]
  BY <1>4, <1>6, <1>7
<1>10. \A k \in 1..n : rows'[l + k] = NewRow(q[k], "campaign", None)
  <2>. SUFFICES ASSUME NEW k \in 1..n PROVE rows'[l + k] = NewRow(q[k], "campaign", None)
    OBVIOUS
  <2>1. l + k \in 1..(l + n) /\ ~(l + k <= l) /\ (l + k) - l = k
    BY <1>4, <1>7
  <2>. QED  BY <1>5, <1>6, <2>1
<1>11. TypeOK'
  BY <1>1, <1>3, <1>6 DEF TypeOK, server, around
<1>12. l = Len(rows)
  OBVIOUS
<1>. HIDE DEF l
<1>. QED  BY <1>2, <1>3, <1>4, <1>8, <1>9, <1>10, <1>11, <1>12, CampaignKeeps DEF server

\* The invariant survives every step.
LEMMA StepKeepsIInv == IInv /\ [Next]_vars => IInv'
<1>. SUFFICES ASSUME IInv, [Next]_vars PROVE IInv'
  OBVIOUS
<1>1. Reports \subseteq Reported
  BY MessagesAssumption DEF Reported
<1>2. CASE \E s \in Slots : Reserve(s) \/ Receive(s) \/ \E mode \in {"reply", "manual"} : Press(s, mode)
  BY <1>2, ReserveStep, ReceiveStep, PressStep
<1>3. CASE \E p \in Processes : Dispatch(p)
  <2>1. PICK p \in Processes : Dispatch(p)
    BY <1>3
  <2>2. CASE ClaimReserved(p)
    <3>1. process[p].at \in {"idle", "reserved"} /\ process[p].row \in Ids
      BY <2>2 DEF ClaimReserved, IInv, OneHand
    <3>. QED  BY <2>2, <3>1, ClaimStep DEF ClaimReserved
  <2>. QED  BY <2>1, <2>2, MetaTakesStep, SettleStep DEF Dispatch
<1>4. CASE Campaign \/ WorkOff \/ Drop
  <2>1. CASE WorkOff
    <3>1. Outbox \in Processes
      BY DEF Processes
    <3>2. PICK i \in Ids : Claim(Outbox, i)
      BY <2>1 DEF WorkOff, Batch, Queued
    <3>. QED  BY <2>1, <3>1, <3>2, ClaimStep DEF WorkOff
  <2>. QED  BY <1>4, <2>1, CampaignStep, DropStep
<1>5. CASE \E c \in Contacts :
              \/ ConfirmOrder(c) \/ GoTo(c) \/ Inbound(c) \/ SentElsewhere(c)
              \/ SaveContact(c) \/ OrderPaid(c) \/ OrderRefunded(c) \/ WindowCloses(c)
  BY <1>5, ConfirmOrderStep, GoToStep, AroundSteps
<1>6. CASE \E m \in meta, status \in Reports : Status(m, status) \/ StatusDropped(m, status)
  BY <1>1, <1>6, StatusStep, StatusDroppedStep
<1>7. CASE \E i \in Ids : DayPasses(i)
  BY <1>7, DayPassesStep
<1>8. CASE SaveSettings \/ TemplateReviewed
  <2>1. TypeOK'
    <3>1. TypeOK /\ changes + 1 \in Nat /\ (~approved) \in BOOLEAN
      BY DEF IInv, TypeOK
    <3>2. CASE SaveSettings
      BY <3>1, <3>2 DEF SaveSettings, Change, messages, TypeOK
    <3>3. CASE TemplateReviewed
      BY <3>1, <3>3 DEF TemplateReviewed, Change, messages, TypeOK
    <3>. QED  BY <1>8, <3>2, <3>3
  <2>. QED  BY <1>8, <2>1, AroundKeeps DEF SaveSettings, TemplateReviewed, messages
<1>9. CASE UNCHANGED vars
  <2>1. TypeOK'
    BY <1>9 DEF vars, server, around, IInv, TypeOK
  <2>. QED  BY <1>9, <2>1, AroundKeeps DEF vars, server
<1>. QED  BY <1>2, <1>3, <1>4, <1>5, <1>6, <1>7, <1>8, <1>9 DEF Next

\* The inductive invariant of the outbox holds in every reachable state.
THEOREM Invariance == Spec => []IInv
<1>. QED  BY InitHolds, StepKeepsIInv, PTL DEF Spec

\* No row is handed to Meta twice, whichever processes work on it.
THEOREM OncePerRow == Spec => []HandedOnce
<1>1. IInv => HandedOnce
  BY DEF IInv, RowsInOrder, InOrder, HandedOnce
<1>. QED  BY <1>1, Invariance, PTL

\* One draft of the composer is at most one message.
THEOREM OncePerDraft == Spec => []DraftSentOnce
<1>1. IInv => DraftSentOnce
  BY DEF IInv
<1>. QED  BY <1>1, Invariance, PTL

\* The daily allowance and the one campaign message of a contact are kept,
\* however inbox, campaign and confirmations compete.
THEOREM WithinTheRules == Spec => [](WithinAllowance /\ OneCampaign)
<1>1. IInv => WithinAllowance /\ OneCampaign
  BY DEF IInv
<1>. QED  BY <1>1, Invariance, PTL

\* Whatever order Meta's reports arrive in, none that led to a row or found one
\* is forgotten, and a message has one row.  The reports outside it are those
\* of a message without a row that name no mobile of the country.
THEOREM Reporting == Spec => [](ReportsKept /\ OneRowPerMessage)
<1>1. IInv => ReportsKept /\ OneRowPerMessage
  BY DEF IInv
<1>. QED  BY <1>1, Invariance, PTL

-----------------------------------------------------------------------------
(* What the log says is so.                                                *)

\* TellsTrue, of what Meta has after the step.
TrueNext(r) ==
  /\ r.status \in {"queued", "cancelled"} => r.handed = 0
  /\ r.status \in {"accepted"} \union Reported => r.waId # None
  /\ r.waId # None => [id |-> r.waId, to |-> r.to] \in meta'

\* Whatever is appended, the rows before it stay.
LEMMA Appended ==
  ASSUME TypeOK, NEW r, rows' = Append(rows, r)
  PROVE  /\ Ids' = Ids \union {Len(rows) + 1} /\ Len(rows) + 1 \notin Ids
         /\ rows'[Len(rows) + 1] = r /\ \A j \in Ids : rows'[j] = rows[j]
<1>. DEFINE S == RowType \union {r}
<1>1. rows \in Seq(S)
  <2>1. rows \in Seq(RowType)
    BY DEF TypeOK
  <2>. QED  BY <2>1
<1>2. /\ Len(Append(rows, r)) = Len(rows) + 1
      /\ \A j \in 1..Len(rows) : Append(rows, r)[j] = rows[j]
      /\ Append(rows, r)[Len(rows) + 1] = r /\ Append(rows, r) \in Seq(S)
  BY <1>1, AppendProperties
<1>3. DOMAIN Append(rows, r) = 1..(Len(rows) + 1)
  BY <1>2
<1>. QED  BY <1>2, <1>3, RowsTyped DEF Ids

\* A campaign adds rows of contacts it may write to, and changes none.
LEMMA CampaignRows ==
  ASSUME IInv, Campaign
  PROVE  /\ Ids \subseteq Ids' /\ \A j \in Ids : rows'[j] = rows[j]
         /\ \A j \in Ids' \ Ids : \E c \in Contacts : rows'[j] = NewRow(c, "campaign", None)
<1>1. rows \in Seq(RowType) /\ Len(rows) \in Nat /\ Ids = 1..Len(rows)
  BY RowsTyped DEF IInv, TypeOK
<1>2. PICK n \in 1..Quota : \E q \in [1..n -> {c \in Contacts : Eligible(c)}] :
        rows' = rows \o [i \in 1..n |-> NewRow(q[i], "campaign", None)]
  BY DEF Campaign
<1>3. PICK q \in [1..n -> {c \in Contacts : Eligible(c)}] :
        rows' = rows \o [i \in 1..n |-> NewRow(q[i], "campaign", None)]
  BY <1>2
<1>4. Quota \in Nat
  <2>1. Used \in Nat
    BY RowsTyped, FS_Subset, FS_CardinalityType DEF Used, IInv
  <2>. QED  BY <2>1, MessagesAssumption DEF Quota
<1>5. n \in Nat
  BY <1>4
<1>. DEFINE new == [i \in 1..n |-> NewRow(q[i], "campaign", None)]
<1>6. new \in Seq(RowType) /\ Len(new) = n /\ \A k \in 1..n : new[k] = NewRow(q[k], "campaign", None)
  <2>1. "campaign" \in Modes /\ "queued" \in Statuses
    BY DEF Modes, Metered, Statuses
  <2>2. \A k \in 1..n : NewRow(q[k], "campaign", None) \in RowType
    BY <2>1 DEF NewRow, RowType
  <2>. QED  BY <1>5, <2>2, IsASeq
<1>. HIDE DEF new
<1>7. rows' = rows \o new
  BY <1>3 DEF new
<1>8. rows' \in Seq(RowType) /\ Len(rows') = Len(rows) + n
      /\ \A j \in 1..(Len(rows) + n) : rows'[j] = IF j <= Len(rows) THEN rows[j] ELSE new[j - Len(rows)]
  BY <1>1, <1>6, <1>7, ConcatProperties
<1>9. Ids' = 1..(Len(rows) + n)
  BY <1>8 DEF Ids
<1>10. ASSUME NEW j \in Ids' \ Ids
       PROVE  \E c \in Contacts : rows'[j] = NewRow(c, "campaign", None)
  <2>1. j - Len(rows) \in 1..n /\ ~(j <= Len(rows)) /\ j \in 1..(Len(rows) + n)
    BY <1>1, <1>5, <1>9
  <2>2. rows'[j] = NewRow(q[j - Len(rows)], "campaign", None)
    BY <1>6, <1>8, <2>1
  <2>. QED  BY <2>1, <2>2
<1>. QED  BY <1>1, <1>5, <1>8, <1>9, <1>10

\* A step that hands nothing over and settles nothing keeps the log true.
LEMMA LogKeeps ==
  ASSUME IInv, LogIsTrue, AnswersTrue, meta \subseteq meta',
         Ids \subseteq Ids', \A i \in Ids : rows'[i].to = rows[i].to,
         \A i \in Ids' : \/ i \in Ids /\ rows'[i] = rows[i]
                         \/ TrueNext(rows'[i]) /\ rows'[i].status # "sending",
         \A p \in Processes :
           process[p].at \in InHand \/ process'[p].at \in InHand => process'[p] = process[p]
  PROVE  LogIsTrue' /\ AnswersTrue'
<1>1. LogIsTrue'
  <2>. SUFFICES ASSUME NEW i \in Ids'
                PROVE  /\ TrueNext(rows'[i])
                       /\ rows'[i].status = "sending" =>
                            \E p \in Processes : process'[p].at \in InHand /\ process'[p].row = i
    BY DEF LogIsTrue, TellsTrue, TrueNext, InHand
  <2>1. CASE i \in Ids /\ rows'[i] = rows[i]
    <3>1. TrueNext(rows'[i])
      BY <2>1 DEF LogIsTrue, TellsTrue, TrueNext
    <3>2. ASSUME rows[i].status = "sending"
          PROVE  \E p \in Processes : process'[p].at \in InHand /\ process'[p].row = i
      BY <2>1, <3>2 DEF LogIsTrue
    <3>. QED  BY <2>1, <3>1, <3>2
  <2>. QED  BY <2>1
<1>2. AnswersTrue'
  <2>. SUFFICES ASSUME NEW p \in Processes, process'[p].at = "called", process'[p].answer = "accepted"
                PROVE  [id |-> <<process'[p].row, 1>>, to |-> rows'[process'[p].row].to] \in meta'
    BY DEF AnswersTrue
  <2>1. process'[p] = process[p]
    BY DEF InHand
  <2>2. process[p].row \in Ids
    BY <2>1 DEF IInv, OneHand, InHand
  <2>. QED  BY <2>1, <2>2 DEF AnswersTrue
<1>. QED  BY <1>1, <1>2

\* Row i is rewritten, and what it says then is so.
LEMMA OneRowTold ==
  ASSUME IInv, LogIsTrue, AnswersTrue, meta \subseteq meta', NEW i \in Ids, NEW r,
         Ids' = Ids, \A j \in Ids : rows'[j] = IF j = i THEN r ELSE rows[j],
         r.to = rows[i].to, TrueNext(r), r.status # "sending",
         \A p \in Processes :
           process[p].at \in InHand \/ process'[p].at \in InHand => process'[p] = process[p]
  PROVE  LogIsTrue' /\ AnswersTrue'
BY LogKeeps

\* The composer, the reservations and the campaign.
LEMMA AddingTold ==
  ASSUME IInv, LogIsTrue, AnswersTrue,
         \/ \E s \in Slots : Reserve(s) \/ Receive(s) \/ \E mode \in {"reply", "manual"} : Press(s, mode)
         \/ Campaign \/ Drop \/ \E c \in Contacts : ConfirmOrder(c)
  PROVE  LogIsTrue' /\ AnswersTrue'
<1>1. TypeOK
  BY DEF IInv
<1>2. UNCHANGED meta
  BY DEF Reserve, Receive, Press, Campaign, Drop, ConfirmOrder, server, around
<1>. DEFINE Resting == \A p \in Processes :
               process[p].at \in InHand \/ process'[p].at \in InHand => process'[p] = process[p]
<1>a. ASSUME NEW s \in Processes, NEW q, process' = [process EXCEPT ![s] = q],
             process[s].at \notin InHand, q.at \notin InHand
      PROVE  Resting
  <2>1. \A x \in Processes : process'[x] = IF x = s THEN q ELSE process[x]
    BY <1>1, <1>a DEF TypeOK
  <2>. QED  BY <1>a, <2>1
<1>b. \A s \in Processes : \A n : LET q == [process[s] EXCEPT !.at = "reserved", !.row = n] IN q.at = "reserved"
  BY <1>1 DEF TypeOK
<1>c. \A p \in Processes : \A answer : Done(p, answer).at \notin InHand
  BY DEF Done, Idle, InHand
<1>3. Resting
  <2>1. ASSUME NEW s \in Slots, Reserve(s) PROVE Resting
    <3>1. s \in Processes /\ process[s].at \notin InHand
      BY <2>1 DEF Reserve, Processes, InHand
    <3>2. \/ \E n : process' = [process EXCEPT ![s] = [process[s] EXCEPT !.at = "reserved", !.row = n]]
          \/ process' = [process EXCEPT ![s] = Done(s, "refused")]
      <4>1. ASSUME NEW i \in KeyRow(process[s].key),
                   process' = [process EXCEPT ![s] = IF rows[i].to = process[s].to
                                                        THEN [@ EXCEPT !.at = "reserved", !.row = i]
                                                        ELSE Done(s, "refused")]
            PROVE  \/ \E n : process' = [process EXCEPT ![s] = [process[s] EXCEPT !.at = "reserved", !.row = n]]
                   \/ process' = [process EXCEPT ![s] = Done(s, "refused")]
        BY <1>1, <3>1, <4>1 DEF TypeOK
      <4>2. ASSUME process' = [process EXCEPT ![s].at = "reserved", ![s].row = Len(rows) + 1]
            PROVE  process' = [process EXCEPT ![s] = [process[s] EXCEPT !.at = "reserved", !.row = Len(rows) + 1]]
        BY <1>1, <3>1, <4>2 DEF TypeOK
      <4>. QED  BY <2>1, <4>1, <4>2 DEF Reserve
    <3>. QED  BY <1>a, <1>b, <1>c, <3>1, <3>2 DEF InHand
  <2>2. ASSUME NEW s \in Slots, Receive(s) PROVE Resting
    BY <1>a, <2>2 DEF Receive, Idle, Processes, InHand
  <2>3. ASSUME NEW s \in Slots, NEW mode \in {"reply", "manual"}, Press(s, mode) PROVE Resting
    <3>1. [Idle EXCEPT !.at = "posted", !.to = composer.chat, !.mode = mode, !.key = Keyed.key].at \notin InHand
      BY DEF Idle, InHand
    <3>. QED  BY <1>a, <2>3, <3>1 DEF Press, Processes, InHand
  <2>4. ASSUME Drop PROVE Resting
    BY <1>1, <2>4 DEF Drop, Idle, TypeOK, Processes, InHand
  <2>5. ASSUME NEW c \in Contacts, ConfirmOrder(c) PROVE Resting
    <3>1. Outbox \in Processes /\ process[Outbox].at \notin InHand
      BY <2>5 DEF ConfirmOrder, Processes, InHand
    <3>2. CASE UNCHANGED process
      BY <3>2
    <3>3. ASSUME process' = [process EXCEPT ![Outbox].at = "reserved", ![Outbox].row = Len(rows) + 1]
          PROVE  process' = [process EXCEPT ![Outbox] = [process[Outbox] EXCEPT !.at = "reserved", !.row = Len(rows) + 1]]
      BY <1>1, <3>1, <3>3 DEF TypeOK
    <3>. QED  BY <1>a, <1>b, <2>5, <3>1, <3>2, <3>3 DEF ConfirmOrder, InHand
  <2>6. ASSUME Campaign PROVE Resting
    BY <2>6 DEF Campaign
  <2>. QED  BY <2>1, <2>2, <2>3, <2>4, <2>5, <2>6
<1>4. CASE UNCHANGED rows
  BY <1>2, <1>3, <1>4, LogKeeps DEF Ids
<1>5. ASSUME NEW c, NEW mode, NEW key, rows' = Append(rows, NewRow(c, mode, key))
      PROVE  LogIsTrue' /\ AnswersTrue'
  <2>. DEFINE r == NewRow(c, mode, key)
              n == Len(rows) + 1
  <2>1. TrueNext(r) /\ r.status # "sending"
    BY NewRowSays DEF TrueNext, Reported
  <2>. HIDE DEF r
  <2>2. Ids' = Ids \union {n} /\ rows'[n] = r /\ \A j \in Ids : rows'[j] = rows[j]
    BY <1>1, <1>5, Appended DEF r
  <2>. HIDE DEF n
  <2>. QED  BY <1>2, <1>3, <2>1, <2>2, LogKeeps
<1>6. CASE Campaign
  <2>1. \A j \in Ids' \ Ids : TrueNext(rows'[j]) /\ rows'[j].status # "sending"
    BY <1>6, CampaignRows, NewRowSays DEF TrueNext, Reported
  <2>2. Ids \subseteq Ids' /\ \A j \in Ids : rows'[j] = rows[j]
    BY <1>6, CampaignRows
  <2>. QED  BY <1>2, <1>3, <2>1, <2>2, LogKeeps
<1>7. ASSUME NEW s \in Slots, Reserve(s) PROVE LogIsTrue' /\ AnswersTrue'
  BY <1>4, <1>5, <1>7 DEF Reserve
<1>8. ASSUME NEW c \in Contacts, ConfirmOrder(c) PROVE LogIsTrue' /\ AnswersTrue'
  BY <1>4, <1>5, <1>8 DEF ConfirmOrder
<1>9. CASE Drop \/ \E s \in Slots : Receive(s) \/ \E mode \in {"reply", "manual"} : Press(s, mode)
  BY <1>4, <1>9 DEF Receive, Press, Drop
<1>. QED  BY <1>6, <1>7, <1>8, <1>9

\* A claim: the row is cancelled, or it is in the claimer's hands.
LEMMA ClaimTold ==
  ASSUME IInv, LogIsTrue, AnswersTrue, NEW p \in Processes, NEW i \in Ids, Claim(p, i),
         process[p].at \notin InHand
  PROVE  LogIsTrue' /\ AnswersTrue'
<1>1. TypeOK /\ i \in 1..Len(rows) /\ rows[i] \in RowType
  BY RowsTyped DEF IInv
<1>2. UNCHANGED meta
  BY DEF Claim, server
<1>3. \A a : Done(p, a).at \notin InHand
  BY DEF Done, Idle, InHand
<1>4. ASSUME UNCHANGED rows, NEW a, process' = [process EXCEPT ![p] = Done(p, a)]
      PROVE  LogIsTrue' /\ AnswersTrue'
  <2>1. \A x \in Processes : process'[x] = IF x = p THEN Done(p, a) ELSE process[x]
    BY <1>1, <1>4 DEF TypeOK
  <2>. QED  BY <1>2, <1>3, <1>4, <2>1, LogKeeps DEF Ids
<1>5. ASSUME Claimable(i), rows' = [rows EXCEPT ![i].status = "cancelled", ![i].done = "recent"],
             process' = [process EXCEPT ![p] = Done(p, "cancelled")]
      PROVE  LogIsTrue' /\ AnswersTrue'
  <2>. DEFINE r == [rows[i] EXCEPT !.status = "cancelled", !.done = "recent"]
  <2>1. \A x \in Processes : process'[x] = IF x = p THEN Done(p, "cancelled") ELSE process[x]
    BY <1>1, <1>5 DEF TypeOK
  <2>2. r \in RowType /\ r.to = rows[i].to /\ r.status = "cancelled" /\ r.handed = rows[i].handed /\ r.waId = rows[i].waId
    BY <1>1 DEF RowType, Statuses
  <2>3. rows' = [rows EXCEPT ![i] = r]
    BY <1>1, <1>5 DEF TypeOK, Ids
  <2>. HIDE DEF r
  <2>4. Ids' = Ids /\ \A j \in Ids : rows'[j] = IF j = i THEN r ELSE rows[j]
    BY <1>1, <2>2, <2>3, RowWritten DEF Ids
  <2>5. TrueNext(r) /\ r.status # "sending"
    BY <1>2, <1>5, <2>2 DEF TrueNext, LogIsTrue, TellsTrue, Claimable, Reported
  <2>. QED  BY <1>2, <1>3, <2>1, <2>2, <2>4, <2>5, OneRowTold
<1>6. ASSUME Claimable(i), rows' = [rows EXCEPT ![i].status = "sending"],
             process' = [process EXCEPT ![p].at = "sending", ![p].row = i]
      PROVE  LogIsTrue' /\ AnswersTrue'
  <2>. DEFINE r == [rows[i] EXCEPT !.status = "sending"]
              q == [process[p] EXCEPT !.at = "sending", !.row = i]
  <2>1. process' = [process EXCEPT ![p] = q]
    BY <1>1, <1>6 DEF TypeOK
  <2>2. q.at = "sending" /\ q.row = i
    BY <1>1 DEF TypeOK
  <2>3. r \in RowType /\ r.to = rows[i].to /\ r.status = "sending" /\ r.handed = rows[i].handed /\ r.waId = rows[i].waId
    BY <1>1 DEF RowType, Statuses
  <2>4. rows' = [rows EXCEPT ![i] = r]
    BY <1>1, <1>6 DEF TypeOK, Ids
  <2>. HIDE DEF r, q
  <2>5. \A x \in Processes : process'[x] = IF x = p THEN q ELSE process[x]
    BY <1>1, <2>1 DEF TypeOK
  <2>6. Ids' = Ids /\ \A j \in Ids : rows'[j] = IF j = i THEN r ELSE rows[j]
    BY <1>1, <2>3, <2>4, RowWritten DEF Ids
  <2>7. TrueNext(r)
    BY <1>2, <2>3 DEF TrueNext, LogIsTrue, TellsTrue, Reported
  <2>8. \A x \in Processes : process[x].at \in InHand => process[x].row # i
    BY <1>6 DEF IInv, OneHand, Claimable
  <2>9. LogIsTrue'
    <3>1. \A j \in Ids : TrueNext(rows'[j])
      BY <1>2, <2>6, <2>7 DEF LogIsTrue, TellsTrue, TrueNext
    <3>2. process'[p].at \in InHand /\ process'[p].row = i
      BY <2>2, <2>5 DEF InHand
    <3>3. \A j \in Ids : rows'[j].status = "sending" =>
            \E x \in Processes : process'[x].at \in InHand /\ process'[x].row = j
      BY <2>5, <2>6, <3>2 DEF LogIsTrue
    <3>. QED  BY <2>6, <3>1, <3>3 DEF LogIsTrue, TellsTrue, TrueNext, InHand
  <2>10. AnswersTrue'
    <3>. SUFFICES ASSUME NEW x \in Processes, process'[x].at = "called", process'[x].answer = "accepted"
                  PROVE  [id |-> <<process'[x].row, 1>>, to |-> rows'[process'[x].row].to] \in meta
      BY <1>2 DEF AnswersTrue
    <3>1. process'[x] = process[x] /\ process[x].row \in Ids /\ process[x].row # i
      BY <2>2, <2>5, <2>8 DEF IInv, OneHand, InHand
    <3>. QED  BY <2>6, <3>1 DEF AnswersTrue
  <2>. QED  BY <2>9, <2>10
<1>. QED  BY <1>4, <1>5, <1>6 DEF Claim

\* Meta takes the message, whether or not its answer comes back, or does not.
LEMMA MetaTakesTold ==
  ASSUME IInv, LogIsTrue, AnswersTrue, NEW p \in Processes,
         NEW outcome \in {"accepted", "lost", "refused"}, MetaTakes(p, outcome)
  PROVE  LogIsTrue' /\ AnswersTrue'
<1>. DEFINE i == process[p].row
            q == [process[p] EXCEPT !.at = "called", !.answer = outcome]
<1>1. TypeOK /\ i \in Ids /\ process[p].at = "sending" /\ rows[i].handed = 0 /\ rows[i].status = "sending"
      /\ rows[i].waId = None /\ rows[i] \in RowType
  BY RowsTyped DEF IInv, OneHand, MetaTakes, InHand
<1>2. process' = [process EXCEPT ![p] = q]
  BY <1>1 DEF MetaTakes, TypeOK
<1>3. q.at = "called" /\ q.row = i /\ q.answer = outcome
  BY <1>1 DEF TypeOK
<1>4. \A x \in Processes : process'[x] = IF x = p THEN q ELSE process[x]
  BY <1>1, <1>2 DEF TypeOK
<1>5. \/ outcome = "refused" /\ UNCHANGED <<rows, meta>>
      \/ /\ outcome # "refused"
         /\ rows' = [rows EXCEPT ![i].handed = @ + 1]
         /\ meta' = meta \union {[id |-> <<i, rows[i].handed + 1>>, to |-> rows[i].to]}
  BY DEF MetaTakes
<1>6. /\ Ids' = Ids /\ meta \subseteq meta'
      /\ \A j \in Ids : rows'[j].to = rows[j].to /\ rows'[j].status = rows[j].status /\ rows'[j].waId = rows[j].waId
      /\ \A j \in Ids : j # i => rows'[j] = rows[j]
  <2>1. CASE outcome = "refused"
    BY <1>5, <2>1 DEF Ids
  <2>2. CASE outcome # "refused"
    <3>. DEFINE r == [rows[i] EXCEPT !.handed = rows[i].handed + 1]
    <3>1. r \in RowType /\ r.to = rows[i].to /\ r.status = rows[i].status /\ r.waId = rows[i].waId
      BY <1>1 DEF RowType
    <3>2. rows' = [rows EXCEPT ![i] = r]
      BY <1>1, <1>5, <2>2 DEF TypeOK, Ids
    <3>. HIDE DEF r
    <3>3. Ids' = Ids /\ \A j \in Ids : rows'[j] = IF j = i THEN r ELSE rows[j]
      BY <1>1, <3>1, <3>2, RowWritten DEF Ids
    <3>. QED  BY <1>5, <2>2, <3>1, <3>3
  <2>. QED  BY <2>1, <2>2
<1>7. outcome = "accepted" => [id |-> <<i, 1>>, to |-> rows[i].to] \in meta'
  <2>1. rows[i].handed + 1 = 1
    BY <1>1
  <2>. QED  BY <1>5, <2>1
<1>. HIDE DEF q
<1>8. LogIsTrue'
  <2>1. ASSUME NEW j \in Ids PROVE TrueNext(rows'[j])
    <3>1. TellsTrue(rows[j])
      BY DEF LogIsTrue
    <3>2. CASE j = i
      BY <1>1, <1>6, <3>2 DEF TrueNext, Reported
    <3>3. CASE j # i
      BY <1>6, <3>1, <3>3 DEF TrueNext, TellsTrue
    <3>. QED  BY <3>2, <3>3
  <2>2. ASSUME NEW j \in Ids, rows'[j].status = "sending"
        PROVE  \E x \in Processes : process'[x].at \in InHand /\ process'[x].row = j
    <3>1. PICK x \in Processes : process[x].at \in InHand /\ process[x].row = j
      BY <1>6, <2>2 DEF LogIsTrue
    <3>2. process'[x].at \in InHand /\ process'[x].row = j
      BY <1>3, <1>4, <3>1 DEF InHand
    <3>. QED  BY <3>2
  <2>. QED  BY <1>6, <2>1, <2>2 DEF LogIsTrue, TellsTrue, TrueNext, InHand
<1>9. AnswersTrue'
  <2>. SUFFICES ASSUME NEW x \in Processes, process'[x].at = "called", process'[x].answer = "accepted"
                PROVE  [id |-> <<process'[x].row, 1>>, to |-> rows'[process'[x].row].to] \in meta'
    BY DEF AnswersTrue
  <2>1. CASE x = p
    BY <1>1, <1>3, <1>4, <1>6, <1>7, <2>1
  <2>2. CASE x # p
    <3>1. process'[x] = process[x] /\ process[x].row \in Ids
      BY <1>4, <2>2 DEF IInv, OneHand, InHand
    <3>. QED  BY <1>6, <3>1 DEF AnswersTrue
  <2>. QED  BY <2>1, <2>2
<1>. QED  BY <1>8, <1>9

\* A process lets go of its row: that one and others are rewritten, and what
\* they say then is so.
LEMMA LettingGoTold ==
  ASSUME IInv, LogIsTrue, AnswersTrue, meta \subseteq meta', NEW p \in Processes,
         Ids' = Ids, \A j \in Ids : rows'[j].to = rows[j].to,
         \A j \in Ids : \/ j # process[p].row /\ rows'[j] = rows[j]
                        \/ TrueNext(rows'[j]) /\ rows'[j].status # "sending",
         process'[p].at \notin InHand, \A x \in Processes : x # p => process'[x] = process[x]
  PROVE  LogIsTrue' /\ AnswersTrue'
<1>1. ASSUME NEW j \in Ids PROVE TrueNext(rows'[j])
  <2>1. CASE rows'[j] = rows[j]
    BY <2>1 DEF LogIsTrue, TellsTrue, TrueNext
  <2>. QED  BY <2>1
<1>2. ASSUME NEW j \in Ids, rows'[j].status = "sending"
      PROVE  \E x \in Processes : process'[x].at \in InHand /\ process'[x].row = j
  <2>1. j # process[p].row /\ rows'[j] = rows[j]
    BY <1>2
  <2>2. PICK x \in Processes : process[x].at \in InHand /\ process[x].row = j
    BY <1>2, <2>1 DEF LogIsTrue
  <2>3. process'[x] = process[x]
    BY <2>1, <2>2
  <2>. QED  BY <2>2, <2>3
<1>3. LogIsTrue'
  BY <1>1, <1>2 DEF LogIsTrue, TellsTrue, TrueNext, InHand
<1>4. AnswersTrue'
  <2>. SUFFICES ASSUME NEW x \in Processes, process'[x].at = "called", process'[x].answer = "accepted"
                PROVE  [id |-> <<process'[x].row, 1>>, to |-> rows'[process'[x].row].to] \in meta'
    BY DEF AnswersTrue
  <2>1. process'[x] = process[x] /\ process[x].row \in Ids
    BY DEF IInv, OneHand, InHand
  <2>. QED  BY <2>1 DEF AnswersTrue
<1>. QED  BY <1>3, <1>4

\* The second transaction.
LEMMA SettleTold ==
  ASSUME IInv, LogIsTrue, AnswersTrue, NEW p \in Processes, Settle(p)
  PROVE  LogIsTrue' /\ AnswersTrue'
<1>. DEFINE i == process[p].row
            kept == AfterCall(p)
            early == Early(i)
<1>1. TypeOK /\ i \in Ids /\ process[p].at = "called" /\ rows[i].waId = None /\ rows[i] \in RowType /\ i \in Nat
  BY RowsTyped DEF IInv, OneHand, Settle, InHand
<1>2. /\ process[p].answer # "accepted" => kept = "uncertain"
      /\ process[p].answer = "accepted" =>
           /\ rows[i].handed = 1 /\ kept \in Reported \union {"accepted"}
           /\ \A j \in early : j \in Ids /\ ~rows[j].own
  BY <1>1, SettleStatus
<1>3. UNCHANGED meta /\ process' = [process EXCEPT ![p] = Done(p, kept)]
  BY DEF Settle, server
<1>4. process'[p].at \notin InHand /\ \A x \in Processes : x # p => process'[x] = process[x]
  BY <1>1, <1>3 DEF TypeOK, Done, Idle, InHand
<1>5. CASE process[p].answer # "accepted"
  <2>. DEFINE r == [rows[i] EXCEPT !.status = "uncertain"]
  <2>1. rows' = [rows EXCEPT ![i] = r]
    BY <1>1, <1>2, <1>5 DEF Settle, TypeOK, Ids
  <2>2. r \in RowType /\ r.to = rows[i].to /\ r.waId = None /\ r.status = "uncertain"
    BY <1>1 DEF RowType, Statuses
  <2>. HIDE DEF r
  <2>3. Ids' = Ids /\ \A j \in Ids : rows'[j] = IF j = i THEN r ELSE rows[j]
    BY <1>1, <2>1, <2>2, RowWritten DEF Ids
  <2>4. TrueNext(r) /\ r.status # "sending"
    BY <2>2 DEF TrueNext, Reported
  <2>. QED  BY <1>1, <1>3, <1>4, <2>2, <2>3, <2>4, LettingGoTold
<1>6. CASE process[p].answer = "accepted"
  <2>. DEFINE r == [rows[i] EXCEPT !.status = kept, !.waId = <<i, 1>>, !.done = "recent"]
              d(j) == [rows[j] EXCEPT !.status = "deleted", !.waId = None]
  <2>1. rows' = [j \in Ids |-> IF j = i THEN r ELSE IF j \in early THEN d(j) ELSE rows[j]]
    BY <1>2, <1>6 DEF Settle
  <2>2. r.to = rows[i].to /\ r.waId = <<i, 1>> /\ r.status = kept
    BY <1>1 DEF RowType
  <2>3. \A j \in Ids : d(j).to = rows[j].to /\ d(j).waId = None /\ d(j).status = "deleted"
    BY <1>1, RowsTyped DEF RowType
  <2>. HIDE DEF r, d
  <2>4. Ids' = Ids /\ \A j \in Ids : rows'[j] = IF j = i THEN r ELSE IF j \in early THEN d(j) ELSE rows[j]
    BY <2>1 DEF Ids
  <2>5. [id |-> <<i, 1>>, to |-> rows[i].to] \in meta
    BY <1>1, <1>6 DEF AnswersTrue
  <2>6. TrueNext(r) /\ r.status # "sending"
    BY <1>2, <1>3, <1>6, <2>2, <2>5, Named, <1>1 DEF TrueNext, Reported
  <2>7. \A j \in Ids : TrueNext(d(j)) /\ d(j).status # "sending"
    BY <2>3 DEF TrueNext, Reported
  <2>8. \A j \in Ids : rows'[j].to = rows[j].to
    BY <2>2, <2>3, <2>4
  <2>9. \A j \in Ids : \/ j # i /\ rows'[j] = rows[j]
                       \/ TrueNext(rows'[j]) /\ rows'[j].status # "sending"
    BY <2>4, <2>6, <2>7
  <2>. QED  BY <1>1, <1>3, <1>4, <2>4, <2>8, <2>9, LettingGoTold
<1>. QED  BY <1>5, <1>6

\* A report: a row for it, or the row of the message Meta named.
LEMMA StatusTold ==
  ASSUME IInv, LogIsTrue, AnswersTrue, NEW m \in meta, NEW status \in Reports, Status(m, status)
  PROVE  LogIsTrue' /\ AnswersTrue'
<1>1. TypeOK /\ status \in Reported /\ m.id # None /\ m \in [id : Nat \X Nat, to : Contacts]
  BY MessagesAssumption, Named DEF IInv, TypeOK, Reported
<1>2. UNCHANGED <<process, meta>>
  BY DEF Status
<1>3. CASE rows' = Append(rows, ExternalRow(m, status))
  <2>. DEFINE r == ExternalRow(m, status)
              n == Len(rows) + 1
  <2>1. r.waId = m.id /\ r.to = m.to /\ r.status = status
    BY DEF ExternalRow
  <2>. HIDE DEF r
  <2>2. m = [id |-> m.id, to |-> m.to]
    BY <1>1
  <2>3. TrueNext(r) /\ r.status # "sending"
    BY <1>1, <1>2, <2>1, <2>2 DEF TrueNext, Reported
  <2>4. Ids' = Ids \union {n} /\ rows'[n] = r /\ \A j \in Ids : rows'[j] = rows[j]
    BY <1>1, <1>3, Appended DEF r
  <2>. HIDE DEF n
  <2>. QED  BY <1>2, <2>3, <2>4, LogKeeps
<1>4. CASE rows' = rows
  BY <1>2, <1>4, LogKeeps DEF Ids
<1>5. ASSUME NEW i \in RowOf(m.id),
             rows' = [rows EXCEPT ![i].status = status, ![i].done = IF @ = "no" THEN "recent" ELSE @]
      PROVE  LogIsTrue' /\ AnswersTrue'
  <2>. DEFINE r == [rows[i] EXCEPT !.status = status, !.done = IF rows[i].done = "no" THEN "recent" ELSE rows[i].done]
  <2>1. i \in Ids /\ rows[i] \in RowType /\ rows[i].waId = m.id /\ i \in 1..Len(rows)
    BY <1>1, RowsTyped DEF RowOf
  <2>2. rows' = [rows EXCEPT ![i] = r]
    BY <1>1, <1>5, <2>1 DEF TypeOK
  <2>3. r \in RowType /\ r.to = rows[i].to /\ r.waId = m.id /\ r.status = status
    BY <1>1, <2>1 DEF RowType, Statuses
  <2>. HIDE DEF r
  <2>4. Ids' = Ids /\ \A j \in Ids : rows'[j] = IF j = i THEN r ELSE rows[j]
    BY <1>1, <2>1, <2>2, <2>3, RowWritten DEF Ids
  <2>5. [id |-> rows[i].waId, to |-> rows[i].to] \in meta
    BY <1>1, <2>1 DEF LogIsTrue, TellsTrue
  <2>6. TrueNext(r) /\ r.status # "sending"
    BY <1>1, <1>2, <2>1, <2>3, <2>5 DEF TrueNext, Reported
  <2>. QED  BY <1>2, <2>1, <2>3, <2>4, <2>6, OneRowTold
<1>. QED  BY <1>3, <1>4, <1>5 DEF Status

\* A day after it was completed.
LEMMA DayPassesTold ==
  ASSUME IInv, LogIsTrue, AnswersTrue, NEW i \in Ids, DayPasses(i)
  PROVE  LogIsTrue' /\ AnswersTrue'
<1>. DEFINE r == [rows[i] EXCEPT !.done = "aged"]
<1>1. TypeOK /\ rows[i] \in RowType /\ i \in 1..Len(rows) /\ UNCHANGED <<meta, process>> /\ rows[i].done = "recent"
  BY RowsTyped DEF IInv, DayPasses, server
<1>2. rows' = [rows EXCEPT ![i] = r]
  BY <1>1 DEF DayPasses, TypeOK
<1>3. r \in RowType /\ r.to = rows[i].to /\ r.status = rows[i].status /\ r.handed = rows[i].handed /\ r.waId = rows[i].waId
  BY <1>1 DEF RowType
<1>. HIDE DEF r
<1>4. Ids' = Ids /\ \A j \in Ids : rows'[j] = IF j = i THEN r ELSE rows[j]
  BY <1>1, <1>2, <1>3, RowWritten DEF Ids
<1>5. rows[i].status # "sending"
  BY <1>1 DEF LogIsTrue, IInv, OneHand
<1>6. TrueNext(r)
  BY <1>1, <1>3 DEF TrueNext, LogIsTrue, TellsTrue
<1>. QED  BY <1>1, <1>3, <1>4, <1>5, <1>6, OneRowTold

\* Every step keeps the log true, and the answers still to be written.
LEMMA StepKeepsTold ==
  IInv /\ LogIsTrue /\ AnswersTrue /\ [Next]_vars => LogIsTrue' /\ AnswersTrue'
<1>. SUFFICES ASSUME IInv, LogIsTrue, AnswersTrue, [Next]_vars PROVE LogIsTrue' /\ AnswersTrue'
  OBVIOUS
<1>1. ASSUME UNCHANGED <<rows, process>>, meta \subseteq meta' PROVE LogIsTrue' /\ AnswersTrue'
  BY <1>1, LogKeeps DEF Ids
<1>2. CASE \/ \E s \in Slots : Reserve(s) \/ Receive(s) \/ \E mode \in {"reply", "manual"} : Press(s, mode)
           \/ Campaign \/ Drop \/ \E c \in Contacts : ConfirmOrder(c)
  BY <1>2, AddingTold
<1>3. ASSUME NEW p \in Processes, Dispatch(p) PROVE LogIsTrue' /\ AnswersTrue'
  <2>1. CASE ClaimReserved(p)
    <3>1. process[p].at \notin InHand /\ process[p].row \in Ids
      BY <2>1 DEF ClaimReserved, IInv, OneHand, InHand
    <3>. QED  BY <2>1, <3>1, ClaimTold DEF ClaimReserved
  <2>. QED  BY <1>3, <2>1, MetaTakesTold, SettleTold DEF Dispatch
<1>4. CASE WorkOff
  <2>1. Outbox \in Processes /\ process[Outbox].at \notin InHand
    BY <1>4 DEF WorkOff, Processes, InHand
  <2>2. PICK i \in Ids : Claim(Outbox, i)
    BY <1>4 DEF WorkOff, Batch, Queued
  <2>. QED  BY <2>1, <2>2, ClaimTold
<1>5. ASSUME NEW c \in Contacts,
             \/ GoTo(c) \/ Inbound(c) \/ SentElsewhere(c) \/ SaveContact(c) \/ OrderPaid(c)
             \/ OrderRefunded(c) \/ WindowCloses(c)
      PROVE  LogIsTrue' /\ AnswersTrue'
  BY <1>1, <1>5 DEF GoTo, Inbound, SentElsewhere, SaveContact, OrderPaid, OrderRefunded, WindowCloses,
                    messages, server
<1>6. CASE \E m \in meta, status \in Reports : Status(m, status) \/ StatusDropped(m, status)
  BY <1>1, <1>6, StatusTold DEF StatusDropped
<1>7. CASE \E i \in Ids : DayPasses(i)
  BY <1>7, DayPassesTold
<1>8. CASE SaveSettings \/ TemplateReviewed \/ UNCHANGED vars
  BY <1>1, <1>8 DEF SaveSettings, TemplateReviewed, messages, vars, server
<1>. QED  BY <1>2, <1>3, <1>4, <1>5, <1>6, <1>7, <1>8 DEF Next

\* What the log says of a message is so: one that waits or was cancelled never
\* left, one said to be accepted or reported on is a message Meta has, to the
\* contact of its row, and one "sending" is in a process's hands.
THEOREM LogTellsTheTruth == Spec => []LogIsTrue
<1>1. Init => LogIsTrue /\ AnswersTrue
  BY DEF Init, LogIsTrue, AnswersTrue, Idle, Ids
<1>. QED  BY <1>1, InitHolds, StepKeepsIInv, StepKeepsTold, PTL DEF Spec

-----------------------------------------------------------------------------
(* An order is confirmed once.                                             *)

\* A step that adds no confirmation, and takes back no reservation.
LEMMA NoConfirmation ==
  ASSUME OneConfirmation, TypeOK,
         \A c \in Contacts : order[c].request = "reserved" => order'[c].request = "reserved",
         \A i \in Ids' : \/ i \in Ids /\ rows'[i].mode = rows[i].mode /\ rows'[i].to = rows[i].to
                         \/ rows'[i].mode # "confirmation"
  PROVE  OneConfirmation'
<1>1. \A i \in Ids : rows[i].to \in Contacts
  BY RowsTyped DEF RowType
<1>. QED  BY <1>1 DEF OneConfirmation

\* One that does, for an order whose request waited.
LEMMA Confirms == ASSUME OneConfirmation, IInv, NEW c \in Contacts, ConfirmOrder(c) PROVE OneConfirmation'
<1>1. TypeOK /\ order[c].request = "pending"
  BY DEF IInv, ConfirmOrder
<1>2. CASE UNCHANGED rows /\ order' = [order EXCEPT ![c].request = "skipped"]
  BY <1>1, <1>2, NoConfirmation DEF TypeOK, Ids
<1>3. CASE rows' = Append(rows, NewRow(c, "confirmation", None)) /\ order' = [order EXCEPT ![c].request = "reserved"]
  <2>. DEFINE r == NewRow(c, "confirmation", None)
              n == Len(rows) + 1
  <2>1. r.to = c
    BY NewRowSays
  <2>. HIDE DEF r
  <2>2. Ids' = Ids \union {n} /\ n \notin Ids /\ rows'[n] = r /\ \A j \in Ids : rows'[j] = rows[j]
    BY <1>1, <1>3, Appended DEF r
  <2>. HIDE DEF n
  <2>3. \A i \in Ids : rows[i].mode = "confirmation" => rows[i].to # c /\ rows[i].to \in Contacts
    BY <1>1, RowsTyped DEF OneConfirmation, RowType
  <2>4. \A d \in Contacts : order'[d].request = IF d = c THEN "reserved" ELSE order[d].request
    BY <1>1, <1>3 DEF TypeOK
  <2>5. ASSUME NEW i \in Ids', NEW j \in Ids', rows'[i].mode = "confirmation", rows'[j].mode = "confirmation",
               rows'[i].to = rows'[j].to
        PROVE  i = j
    <3>1. CASE i \in Ids /\ j \in Ids
      BY <2>2, <2>5, <3>1 DEF OneConfirmation
    <3>2. CASE i = n /\ j \in Ids
      BY <2>1, <2>2, <2>3, <2>5, <3>2
    <3>3. CASE i \in Ids /\ j = n
      BY <2>1, <2>2, <2>3, <2>5, <3>3
    <3>. QED  BY <2>2, <3>1, <3>2, <3>3
  <2>6. ASSUME NEW i \in Ids', rows'[i].mode = "confirmation" PROVE order'[rows'[i].to].request = "reserved"
    <3>1. CASE i \in Ids
      BY <2>2, <2>3, <2>4, <2>6, <3>1 DEF OneConfirmation
    <3>2. CASE i = n
      BY <2>1, <2>2, <2>4, <3>2
    <3>. QED  BY <2>2, <3>1, <3>2
  <2>. QED  BY <2>5, <2>6 DEF OneConfirmation
<1>. QED  BY <1>2, <1>3 DEF ConfirmOrder

\* The rows that are there keep whom they are to and what they are for.
SameRows == Ids' = Ids /\ \A j \in Ids : rows'[j].mode = rows[j].mode /\ rows'[j].to = rows[j].to

LEMMA Rewritten ==
  ASSUME TypeOK
  PROVE  /\ \A i \in Ids : \A a : rows' = [rows EXCEPT ![i].status = a] => SameRows
         /\ \A i \in Ids : \A a : rows' = [rows EXCEPT ![i].done = a] => SameRows
         /\ \A i \in Ids : \A a : rows' = [rows EXCEPT ![i].handed = a] => SameRows
         /\ \A i \in Ids : \A a, b : rows' = [rows EXCEPT ![i].status = a, ![i].done = b] => SameRows
<1>1. rows \in [1..Len(rows) -> RowType] /\ Ids = 1..Len(rows)
  BY RowsTyped DEF TypeOK
<1>2. ASSUME NEW i \in Ids, NEW r, rows' = [rows EXCEPT ![i] = r], r.mode = rows[i].mode, r.to = rows[i].to
      PROVE  SameRows
  BY <1>1, <1>2 DEF SameRows, Ids
<1>3. ASSUME NEW i \in Ids, NEW a, rows' = [rows EXCEPT ![i].status = a] PROVE SameRows
  <2>1. rows' = [rows EXCEPT ![i] = [rows[i] EXCEPT !.status = a]] /\ rows[i] \in RowType
    BY <1>1, <1>3
  <2>. QED  BY <1>2, <2>1 DEF RowType
<1>4. ASSUME NEW i \in Ids, NEW a, rows' = [rows EXCEPT ![i].done = a] PROVE SameRows
  <2>1. rows' = [rows EXCEPT ![i] = [rows[i] EXCEPT !.done = a]] /\ rows[i] \in RowType
    BY <1>1, <1>4
  <2>. QED  BY <1>2, <2>1 DEF RowType
<1>5. ASSUME NEW i \in Ids, NEW a, rows' = [rows EXCEPT ![i].handed = a] PROVE SameRows
  <2>1. rows' = [rows EXCEPT ![i] = [rows[i] EXCEPT !.handed = a]] /\ rows[i] \in RowType
    BY <1>1, <1>5
  <2>. QED  BY <1>2, <2>1 DEF RowType
<1>6. ASSUME NEW i \in Ids, NEW a, NEW b, rows' = [rows EXCEPT ![i].status = a, ![i].done = b] PROVE SameRows
  <2>1. rows' = [rows EXCEPT ![i] = [rows[i] EXCEPT !.status = a, !.done = b]] /\ rows[i] \in RowType
    BY <1>1, <1>6
  <2>. QED  BY <1>2, <2>1 DEF RowType
<1>. QED  BY <1>3, <1>4, <1>5, <1>6

\* Whatever is done with a row that is there, it is for what it was for.
LEMMA WorkKeepsRows ==
  ASSUME IInv,
         \/ \E p \in Processes, i \in Ids : Claim(p, i)
         \/ \E p \in Processes, o \in {"accepted", "lost", "refused"} : MetaTakes(p, o)
         \/ \E p \in Processes : Settle(p)
         \/ \E i \in Ids : DayPasses(i)
  PROVE  SameRows /\ order' = order
<1>1. TypeOK
  BY DEF IInv
<1>2. order' = order
  BY DEF Claim, MetaTakes, Settle, DayPasses, server, around
<1>3. CASE UNCHANGED rows
  BY <1>2, <1>3 DEF SameRows, Ids
<1>4. ASSUME NEW p \in Processes, NEW i \in Ids, Claim(p, i) PROVE SameRows
  <2>1. \/ UNCHANGED rows
        \/ rows' = [rows EXCEPT ![i].status = "cancelled", ![i].done = "recent"]
        \/ rows' = [rows EXCEPT ![i].status = "sending"]
    BY <1>4 DEF Claim
  <2>2. CASE UNCHANGED rows
    BY <2>2 DEF SameRows, Ids
  <2>3. CASE rows' = [rows EXCEPT ![i].status = "cancelled", ![i].done = "recent"]
    BY <1>1, <2>3, Rewritten
  <2>4. CASE rows' = [rows EXCEPT ![i].status = "sending"]
    BY <1>1, <2>4, Rewritten
  <2>. QED  BY <2>1, <2>2, <2>3, <2>4
<1>5. ASSUME NEW p \in Processes, NEW o \in {"accepted", "lost", "refused"}, MetaTakes(p, o) PROVE SameRows
  <2>1. process[p].row \in Ids
    BY <1>5 DEF MetaTakes, IInv, OneHand, InHand
  <2>2. CASE o # "refused"
    <3>1. rows' = [rows EXCEPT ![process[p].row].handed = rows[process[p].row].handed + 1]
      BY <1>5, <2>2 DEF MetaTakes
    <3>. QED  BY <1>1, <2>1, <3>1, Rewritten
  <2>. QED  BY <1>3, <1>5, <2>2 DEF MetaTakes, SameRows, Ids
<1>6. ASSUME NEW p \in Processes, Settle(p) PROVE SameRows
  <2>. DEFINE i == process[p].row
  <2>1. i \in Ids
    BY <1>6 DEF Settle, IInv, OneHand, InHand
  <2>2. CASE process[p].answer # "accepted"
    BY <1>1, <1>6, <2>1, <2>2, Rewritten DEF Settle
  <2>3. CASE process[p].answer = "accepted"
    <3>. DEFINE r == [rows[i] EXCEPT !.status = AfterCall(p), !.waId = <<i, rows[i].handed>>, !.done = "recent"]
                d(j) == [rows[j] EXCEPT !.status = "deleted", !.waId = None]
    <3>1. rows' = [j \in Ids |-> IF j = i THEN r ELSE IF j \in Early(i) THEN d(j) ELSE rows[j]]
      BY <1>6, <2>3 DEF Settle
    <3>2. r.mode = rows[i].mode /\ r.to = rows[i].to /\ \A j \in Ids : d(j).mode = rows[j].mode /\ d(j).to = rows[j].to
      BY <1>1, <2>1, RowsTyped DEF RowType
    <3>. HIDE DEF r, d
    <3>. QED  BY <3>1, <3>2 DEF SameRows, Ids
  <2>. QED  BY <2>2, <2>3
<1>7. ASSUME NEW i \in Ids, DayPasses(i) PROVE SameRows
  BY <1>1, <1>7, Rewritten DEF DayPasses
<1>. QED  BY <1>2, <1>4, <1>5, <1>6, <1>7

\* A report rewrites a row, or adds one that confirms nothing.
LEMMA StatusConfirmsNothing ==
  ASSUME IInv, NEW m \in meta, NEW status \in Reports, Status(m, status)
  PROVE  /\ order' = order
         /\ \A i \in Ids' : \/ i \in Ids /\ rows'[i].mode = rows[i].mode /\ rows'[i].to = rows[i].to
                            \/ rows'[i].mode # "confirmation"
<1>1. TypeOK /\ order' = order
  BY DEF IInv, Status, around
<1>2. CASE rows' = Append(rows, ExternalRow(m, status))
  <2>1. ExternalRow(m, status).mode = "campaign"
    BY DEF ExternalRow
  <2>. QED  BY <1>1, <1>2, <2>1, Appended
<1>3. CASE rows' = rows
  BY <1>1, <1>3 DEF Ids
<1>4. ASSUME NEW i \in RowOf(m.id),
             rows' = [rows EXCEPT ![i].status = status, ![i].done = IF @ = "no" THEN "recent" ELSE @]
      PROVE  SameRows
  <2>1. i \in Ids
    BY DEF RowOf
  <2>2. rows' = [rows EXCEPT ![i].status = status, ![i].done = IF rows[i].done = "no" THEN "recent" ELSE rows[i].done]
    BY <1>4
  <2>. QED  BY <1>1, <2>1, <2>2, Rewritten
<1>. QED  BY <1>1, <1>2, <1>3, <1>4 DEF Status, SameRows

LEMMA StepKeepsConfirmed == IInv /\ OneConfirmation /\ [Next]_vars => OneConfirmation'
<1>. SUFFICES ASSUME IInv, OneConfirmation, [Next]_vars PROVE OneConfirmation'
  OBVIOUS
<1>1. TypeOK
  BY DEF IInv
<1>2. ASSUME UNCHANGED order,
             \A i \in Ids' : \/ i \in Ids /\ rows'[i].mode = rows[i].mode /\ rows'[i].to = rows[i].to
                             \/ rows'[i].mode # "confirmation"
      PROVE  OneConfirmation'
  BY <1>1, <1>2, NoConfirmation
<1>3. ASSUME UNCHANGED <<rows, order>> PROVE OneConfirmation'
  BY <1>2, <1>3 DEF Ids
<1>4. ASSUME SameRows, UNCHANGED order PROVE OneConfirmation'
  BY <1>2, <1>4 DEF SameRows
<1>5. ASSUME NEW s \in Slots, Reserve(s) PROVE OneConfirmation'
  <2>1. process[s].mode # "confirmation" /\ UNCHANGED order
    BY <1>1, <1>5 DEF TypeOK, Processes, Reserve, server, around
  <2>2. CASE rows' = Append(rows, NewRow(process[s].to, process[s].mode, process[s].key))
    <3>1. NewRow(process[s].to, process[s].mode, process[s].key).mode # "confirmation"
      BY <2>1, NewRowSays
    <3>. QED  BY <1>1, <1>2, <2>1, <2>2, <3>1, Appended
  <2>. QED  BY <1>3, <1>5, <2>1, <2>2 DEF Reserve
<1>6. CASE Campaign
  <2>1. \A i \in Ids' \ Ids : rows'[i].mode # "confirmation"
    BY <1>6, CampaignRows, NewRowSays
  <2>. QED  BY <1>2, <1>6, <2>1, CampaignRows DEF Campaign, server, around
<1>7. CASE Drop \/ \E s \in Slots : Receive(s) \/ \E mode \in {"reply", "manual"} : Press(s, mode)
  BY <1>3, <1>7 DEF Drop, Receive, Press, server, around
<1>8. ASSUME NEW p \in Processes, Dispatch(p) PROVE OneConfirmation'
  <2>1. CASE ClaimReserved(p)
    <3>1. process[p].row \in Ids
      BY <2>1 DEF ClaimReserved, IInv, OneHand, InHand
    <3>. QED  BY <1>4, <2>1, <3>1, WorkKeepsRows DEF ClaimReserved
  <2>. QED  BY <1>4, <1>8, <2>1, WorkKeepsRows DEF Dispatch
<1>9. CASE WorkOff
  <2>1. Outbox \in Processes
    BY DEF Processes
  <2>2. PICK i \in Ids : Claim(Outbox, i)
    BY <1>9 DEF WorkOff, Batch, Queued
  <2>. QED  BY <1>4, <2>1, <2>2, WorkKeepsRows
<1>10. ASSUME NEW c \in Contacts, ConfirmOrder(c) PROVE OneConfirmation'
  BY <1>10, Confirms
<1>11. ASSUME NEW c \in Contacts, GoTo(c) \/ Inbound(c) \/ SentElsewhere(c) \/ SaveContact(c) \/ WindowCloses(c)
       PROVE  OneConfirmation'
  BY <1>3, <1>11 DEF GoTo, Inbound, SentElsewhere, SaveContact, WindowCloses, messages, server, around
<1>12. ASSUME NEW c \in Contacts, OrderPaid(c) \/ OrderRefunded(c) PROVE OneConfirmation'
  <2>1. UNCHANGED rows
    BY <1>12 DEF OrderPaid, OrderRefunded, messages
  <2>2. \A d \in Contacts : order[d].request = "reserved" => order'[d].request = "reserved"
    BY <1>1, <1>12 DEF OrderPaid, OrderRefunded, TypeOK
  <2>. QED  BY <1>1, <2>1, <2>2, NoConfirmation DEF Ids
<1>13. ASSUME NEW m \in meta, NEW status \in Reports, Status(m, status) \/ StatusDropped(m, status)
       PROVE  OneConfirmation'
  BY <1>2, <1>3, <1>13, StatusConfirmsNothing DEF StatusDropped
<1>14. CASE \E i \in Ids : DayPasses(i)
  BY <1>4, <1>14, WorkKeepsRows
<1>15. CASE SaveSettings \/ TemplateReviewed \/ UNCHANGED vars
  BY <1>3, <1>15 DEF SaveSettings, TemplateReviewed, messages, vars, server, around
<1>. QED  BY <1>5, <1>6, <1>7, <1>8, <1>9, <1>10, <1>11, <1>12, <1>13, <1>14, <1>15 DEF Next

\* A paid order is confirmed once, however often the outbox run starts.
THEOREM ConfirmedOnce == Spec => []OneConfirmation
<1>1. Init => OneConfirmation
  BY DEF Init, OneConfirmation, Ids
<1>. QED  BY <1>1, InitHolds, StepKeepsIInv, StepKeepsConfirmed, PTL DEF Spec
=============================================================================
