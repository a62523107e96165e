------------------------------- MODULE Calls -------------------------------
(***************************************************************************)
(* WhatsApp voice calls.  Operators answer and place calls in panels (one  *)
(* mounted WhatsAppCalls component in one browser tab); the API keeps one  *)
(* row per call (WhatsAppCallController, WhatsAppCalling::ingest); Meta    *)
(* carries the call and reports on it by webhooks, late, repeatedly and in *)
(* any order.                                                              *)
(*                                                                         *)
(* A panel's operation is cut at each await.  Every request but connect    *)
(* holds the wa_settings row lock from its first read to its commit, the   *)
(* call to Meta included, and is one step.  The lists a panel shows may be *)
(* old, so a button is offered for every call that some earlier load could *)
(* have shown it for.                                                      *)
(***************************************************************************)
EXTENDS Naturals, FiniteSets

CONSTANTS
  Panels,     \* mounted panels, each with its own session_key
  Operators,  \* users
  OperatorOf, \* the user signed in at each panel
  Inbound,    \* calls a contact may place
  Outbound,   \* wa_calls rows the operators may create
  Nobody      \* actor_id IS NULL, and no active call

Calls == Inbound \union Outbound

ASSUME CallsAssumption ==
  /\ Inbound \cap Outbound = {}
  /\ Nobody \notin Panels \union Calls
  /\ OperatorOf \in [Panels -> Operators]

VARIABLES
  status,   \* wa_calls.status: "absent" without a row, "over" for every word
            \* a call may end with
  ended,    \* wa_calls.ended_at IS NOT NULL
  waId,     \* wa_calls.wa_id IS NOT NULL
  owner,    \* wa_calls.actor_id and session_key: a panel, or Nobody
  line,     \* external: the call at Meta
  page,     \* "open", "unmounted" (its code still runs), "closed"
  op,       \* what run() is doing in each panel
  active,   \* activeRef
  mic,      \* the microphone stream: "off", "silent", "live"
  muted,    \* what the Mute button shows
  late,     \* history: panels that were given the microphone after they went
  parting   \* terminate requests sent without waiting for an answer

rows   == <<status, ended, waId, owner>>
media  == <<active, mic, muted, late>>
panels == <<page, op, active, mic, muted, late>>
vars   == <<status, ended, waId, owner, line, page, op, active, mic, muted, late,
            parting>>

Idle == [kind |-> "idle", step |-> "none", call |-> Nobody]

Init ==
  /\ status = [c \in Calls |-> "absent"]
  /\ ended  = [c \in Calls |-> FALSE]
  /\ waId   = [c \in Calls |-> FALSE]
  /\ owner  = [c \in Calls |-> Nobody]
  /\ line   = [c \in Calls |-> "none"]
  /\ page   = [p \in Panels |-> "open"]
  /\ op     = [p \in Panels |-> Idle]
  /\ active = [p \in Panels |-> Nobody]
  /\ mic    = [p \in Panels |-> "off"]
  /\ muted  = [p \in Panels |-> FALSE]
  /\ late   = {}
  /\ parting = {}

\* The calls that keep an operator from another one.
OwnedBy(o) == {c \in Calls : owner[c] # Nobody /\ OperatorOf[owner[c]] = o}
OpenOf(o)  == {c \in OwnedBy(o) : ~ended[c]}

Goto(p, step) == op' = [op EXCEPT ![p].step = step]
Done(p)       == op' = [op EXCEPT ![p] = Idle]

\* Mutant: only the connection is closed.
CloseConnectionOnly(p) ==
  /\ active' = [active EXCEPT ![p] = Nobody]
  /\ muted' = [muted EXCEPT ![p] = FALSE]
  /\ UNCHANGED <<mic, late>>

closeAudio(p) ==
  /\ mic' = [mic EXCEPT ![p] = "off"]
  /\ active' = [active EXCEPT ![p] = Nobody]
  /\ muted' = [muted EXCEPT ![p] = FALSE]
  /\ UNCHANGED late

-----------------------------------------------------------------------------
(* The panel: buttons, continuations of awaits, timers.                    *)

\* run() lets one operation in at a time; the buttons of a gone panel are gone.
Free(p) == page[p] = "open" /\ op[p] = Idle

Runs(p) == page[p] # "closed"   \* an unmounted panel's awaits continue

Press(p, kind, step, c) ==
  /\ Free(p)
  /\ op' = [op EXCEPT ![p] = [kind |-> kind, step |-> step, call |-> c]]
  /\ UNCHANGED <<rows, line, page, media, parting>>

\* start() once Meta confirmed the contact's permission.
start(p) == active[p] = Nobody /\ Press(p, "start", "mic", Nobody)

answer(p, c) ==
  /\ active[p] = Nobody /\ c \in Inbound /\ status[c] # "absent"
  /\ Press(p, "answer", "mic", c)

reject(p, c) ==
  /\ active[p] = Nobody /\ c \in Inbound /\ status[c] # "absent"
  /\ Press(p, "reject", "claim", c)

\* Hang up: offered for every call of the operator, from any of their tabs.
end(p, c) ==
  /\ c = active[p] \/ c \in OwnedBy(OperatorOf[p])
  /\ Press(p, "end", "end", c)

\* prepare(): getUserMedia may be answered long after, or refused.
prepare(p) ==
  /\ Runs(p) /\ op[p].step = "mic"
  /\ mic' = [mic EXCEPT ![p] = "silent"]
  /\ late' = IF page[p] = "open" THEN late ELSE late \union {p}
  /\ Goto(p, IF op[p].kind = "start" THEN "posting" ELSE "claim")
  /\ UNCHANGED <<rows, line, page, active, muted, parting>>

prepareFails(p) ==
  /\ Runs(p) /\ op[p].step = "mic"
  /\ closeAudio(p) /\ Done(p)
  /\ UNCHANGED <<rows, line, page, parting>>

\* The tracks are enabled; those of a closed stream are gone.
Enabled(p) == [mic EXCEPT ![p] = IF @ = "off" THEN "off" ELSE "live"]

Connected(p) ==
  /\ Runs(p) /\ op[p].step = "connected"
  /\ active' = [active EXCEPT ![p] = op[p].call]
  /\ mic' = Enabled(p)
  /\ Done(p)
  /\ UNCHANGED <<rows, line, page, muted, late, parting>>

Claimed(p) ==
  /\ Runs(p) /\ op[p].step = "claimed"
  /\ IF op[p].kind = "answer"
       THEN Goto(p, "pre_accept") /\ active' = [active EXCEPT ![p] = op[p].call]
       ELSE Goto(p, "reject") /\ UNCHANGED active
  /\ UNCHANGED <<rows, line, page, mic, muted, late, parting>>

\* Mutant: a failed start leaves the microphone prepared.
FailsOpen(p) ==
  /\ Runs(p) /\ op[p].step = "refused"
  /\ Done(p) /\ UNCHANGED media
  /\ UNCHANGED <<rows, line, page, parting>>

\* The catch blocks: an answer that holds the call ends it first; reject and
\* hang up only show the error.
Fails(p) ==
  /\ Runs(p) /\ op[p].step = "refused"
  /\ CASE op[p].kind \in {"reject", "end"} -> Done(p) /\ UNCHANGED media
       [] op[p].kind = "answer" /\ active[p] = op[p].call ->
            Goto(p, "cleanup") /\ UNCHANGED media
       [] OTHER -> closeAudio(p) /\ Done(p)
  /\ UNCHANGED <<rows, line, page, parting>>

Mute(p) ==
  /\ page[p] = "open" /\ active[p] # Nobody /\ mic[p] # "off"
  /\ mic' = [mic EXCEPT ![p] = IF muted[p] THEN "live" ELSE "silent"]
  /\ muted' = [muted EXCEPT ![p] = ~@]
  /\ UNCHANGED <<rows, line, page, op, active, late, parting>>

\* load(), every three seconds: the answer shows the panel's call has ended.
load(p) ==
  /\ page[p] = "open" /\ active[p] # Nobody /\ ended[active[p]]
  /\ closeAudio(p)
  /\ UNCHANGED <<rows, line, page, op, parting>>

Terminates(p) ==
  parting' = IF active[p] = Nobody THEN parting
             ELSE parting \union {<<OperatorOf[p], active[p]>>}

\* connectionState "failed"; whether audio was up yet is not distinguished.
PeerFails(p) ==
  /\ page[p] = "open" /\ active[p] # Nobody /\ mic[p] # "off"
  /\ Terminates(p) /\ closeAudio(p)
  /\ UNCHANGED <<rows, line, page, op>>

\* Mutant: the effect's cleanup leaves the tracks running.
UnmountKeepsTracks(p) ==
  /\ page[p] = "open"
  /\ page' = [page EXCEPT ![p] = "unmounted"]
  /\ Terminates(p)
  /\ UNCHANGED <<rows, line, op, media>>

\* The effect's cleanup; activeRef keeps its value.
Unmount(p) ==
  /\ page[p] = "open"
  /\ page' = [page EXCEPT ![p] = "unmounted"]
  /\ mic' = [mic EXCEPT ![p] = "off"]
  /\ Terminates(p)
  /\ UNCHANGED <<rows, line, op, active, muted, late>>

\* leave() on pagehide.  A request on its way is served before or never, but
\* a connect that is at Meta goes on without its page.
Leave(p) ==
  /\ page[p] # "closed"
  /\ page' = [page EXCEPT ![p] = "closed"]
  /\ IF page[p] = "open" THEN Terminates(p) ELSE UNCHANGED parting
  /\ closeAudio(p)
  /\ IF op[p].step = "calling" THEN UNCHANGED op ELSE Done(p)
  /\ UNCHANGED <<rows, line>>

-----------------------------------------------------------------------------
(* WhatsAppCallController.                                                 *)

\* A request that never arrives, is refused (sign-in, a call older than a
\* minute, sending disabled), or whose answer is lost.
Refused(p) ==
  /\ Runs(p)
  /\ op[p].step \in {"posting", "connected", "claim", "claimed", "pre_accept",
                     "accept", "reject", "end"}
  /\ Goto(p, "refused")
  /\ UNCHANGED <<rows, line, page, media, parting>>

CleanupLost(p) ==
  /\ op[p].step = "cleanup"
  /\ closeAudio(p) /\ Done(p)
  /\ UNCHANGED <<rows, line, page, parting>>

\* Mutant: the operator's open calls are not looked at.
InsertUnchecked(p, c) ==
  /\ op[p].step = "posting" /\ c \in Outbound /\ status[c] = "absent"
  /\ status' = [status EXCEPT ![c] = "connecting"]
  /\ owner' = [owner EXCEPT ![c] = p]
  /\ op' = [op EXCEPT ![p] = [kind |-> "start", step |-> "calling", call |-> c]]
  /\ UNCHANGED <<ended, waId, line, page, media, parting>>

\* ::connect up to its first commit.  Every start draws a new client_key.
Insert(p, c) ==
  /\ op[p].step = "posting" /\ c \in Outbound /\ status[c] = "absent"
  /\ OpenOf(OperatorOf[p]) = {}
  /\ status' = [status EXCEPT ![c] = "connecting"]
  /\ owner' = [owner EXCEPT ![c] = p]
  /\ op' = [op EXCEPT ![p] = [kind |-> "start", step |-> "calling", call |-> c]]
  /\ UNCHANGED <<ended, waId, line, page, media, parting>>

\* Meta takes the call; its webhooks may overtake its answer.
MetaTakes(p) ==
  LET c == op[p].call IN
  /\ op[p].step = "calling" /\ line[c] = "none"
  /\ line' = [line EXCEPT ![c] = "live"]
  /\ UNCHANGED <<rows, panels, parting>>

MetaStarted(p) ==
  LET c == op[p].call IN
  /\ op[p].step = "calling" /\ line[c] # "none"
  /\ waId' = [waId EXCEPT ![c] = TRUE]
  /\ Goto(p, "connected")
  /\ UNCHANGED <<status, ended, owner, line, page, media, parting>>

MetaRefused(p) ==
  LET c == op[p].call IN
  /\ op[p].step = "calling" /\ line[c] = "none"
  /\ status' = [status EXCEPT ![c] = "over"]
  /\ ended' = [ended EXCEPT ![c] = TRUE]
  /\ Goto(p, "refused")
  /\ UNCHANGED <<waId, owner, line, page, media, parting>>

\* ConnectionException, or the process dies before it can note even that.
MetaUnknown(p, noted) ==
  LET c == op[p].call IN
  /\ op[p].step = "calling"
  /\ status' = IF noted THEN [status EXCEPT ![c] = "uncertain"] ELSE status
  /\ Goto(p, "refused")
  /\ UNCHANGED <<ended, waId, owner, line, page, media, parting>>

\* Mutant: any tab of the operator may claim a claimed call.
MayClaimAnyTab(p, c) ==
  /\ c \in Inbound /\ ~ended[c]
  /\ owner[c] \in {Nobody} \union {q \in Panels : OperatorOf[q] = OperatorOf[p]}
  /\ OpenOf(OperatorOf[p]) \subseteq {c}

\* Mutant: the operator's other calls are not looked at.
MayClaimBusy(p, c) == c \in Inbound /\ ~ended[c] /\ owner[c] \in {Nobody, p}

MayClaim(p, c) ==
  /\ c \in Inbound /\ ~ended[c]
  /\ owner[c] \in {Nobody, p}
  /\ OpenOf(OperatorOf[p]) \subseteq {c}

\* ::action, claim.
Claim(p) ==
  LET c == op[p].call IN
  /\ op[p].step = "claim" /\ MayClaim(p, c)
  /\ owner' = [owner EXCEPT ![c] = p]
  /\ Goto(p, "claimed")
  /\ UNCHANGED <<status, ended, waId, line, page, media, parting>>

\* ::action, the others: the call is open, the operator's, known to Meta.
Actable(o, c) == c \in OpenOf(o) /\ waId[c]

\* What ::action writes once Meta agreed.
Written(c, act) ==
  LET ends == act \in {"reject", "end", "cleanup"} IN
  /\ status' = [status EXCEPT ![c] = IF ends THEN "over"
                                     ELSE IF act = "accept" THEN "active"
                                     ELSE "connecting"]
  /\ ended' = [ended EXCEPT ![c] = ends]
  /\ line' = [line EXCEPT ![c] = IF ends THEN "over" ELSE @]

\* What the panel does next when it hears of success.
Heard(p, act) ==
  CASE act = "pre_accept" -> Goto(p, "accept") /\ UNCHANGED media
    [] act = "accept" -> Done(p) /\ mic' = Enabled(p) /\ UNCHANGED <<active, muted, late>>
    [] act = "reject" -> Done(p) /\ UNCHANGED media
    [] OTHER -> closeAudio(p) /\ Done(p)

Act(p) ==
  LET act == op[p].step
      c == op[p].call IN
  /\ act \in {"pre_accept", "accept", "reject", "end", "cleanup"}
  /\ Actable(OperatorOf[p], c)
  /\ act \in {"pre_accept", "accept", "reject"} => owner[c] = p
  /\ act \in {"pre_accept", "accept"} => c \in Inbound
  /\ line[c] = "live"                    \* else Meta answers with an error
  /\ Written(c, act)
  /\ \/ Runs(p) /\ Heard(p, act)
     \/ act # "cleanup" /\ Goto(p, "refused") /\ UNCHANGED media
  /\ UNCHANGED <<waId, owner, page, parting>>

\* Meta ends the call, its answer is lost, the transaction is rolled back.
ActUnknown(p) ==
  LET c == op[p].call IN
  /\ op[p].step \in {"reject", "end"}
  /\ Actable(OperatorOf[p], c) /\ line[c] = "live"
  /\ line' = [line EXCEPT ![c] = "over"]
  /\ Goto(p, "refused")
  /\ UNCHANGED <<rows, page, media, parting>>

\* The terminate of leave(), of the cleanup or of a failed connection.
ServeParting(o, c) ==
  /\ <<o, c>> \in parting
  /\ IF Actable(o, c) /\ line[c] = "live" THEN Written(c, "end")
     ELSE UNCHANGED <<status, ended, line>>
  /\ parting' = parting \ {<<o, c>>}
  /\ UNCHANGED <<waId, owner, panels>>

LoseParting(o, c) ==
  /\ <<o, c>> \in parting
  /\ parting' = parting \ {<<o, c>>}
  /\ UNCHANGED <<rows, line, panels>>

-----------------------------------------------------------------------------
(* Meta and its webhooks (WhatsAppCalling::ingest).                        *)

ContactCalls(c) ==
  /\ c \in Inbound /\ line[c] = "none"
  /\ line' = [line EXCEPT ![c] = "live"]
  /\ UNCHANGED <<rows, panels, parting>>

ContactEnds(c) ==
  /\ line[c] = "live"
  /\ line' = [line EXCEPT ![c] = "over"]
  /\ UNCHANGED <<rows, panels, parting>>

\* event connect: found by its id or by our key, or inserted as ringing.
HookConnect(c) ==
  /\ line[c] # "none"
  /\ status' = [status EXCEPT ![c] = IF @ = "absent" THEN "ringing" ELSE @]
  /\ waId' = [waId EXCEPT ![c] = TRUE]
  /\ UNCHANGED <<ended, owner, line, panels, parting>>

\* event terminate, also for a call not heard of before.
HookTerminate(c) ==
  /\ line[c] = "over"
  /\ status' = [status EXCEPT ![c] = "over"]
  /\ ended' = [ended EXCEPT ![c] = TRUE]
  /\ waId' = [waId EXCEPT ![c] = TRUE]
  /\ UNCHANGED <<owner, line, panels, parting>>

\* Mutant: a late "ringing" is believed.
BelievesAnything(c, s) == TRUE

Believes(c, s) == s = "ringing" => status[c] \notin {"accepted", "active"}

\* statuses of outgoing calls.
HookStatus(c, s) ==
  /\ c \in Outbound /\ line[c] # "none" /\ waId[c] /\ ~ended[c]
  /\ s = "rejected" => line[c] = "over"
  /\ Believes(c, s)
  /\ status' = [status EXCEPT ![c] = IF s = "rejected" THEN "over" ELSE s]
  /\ ended' = [ended EXCEPT ![c] = s = "rejected"]
  /\ UNCHANGED <<waId, owner, line, panels, parting>>

-----------------------------------------------------------------------------
Panel(p) ==
  \/ start(p) \/ \E c \in Calls : answer(p, c) \/ reject(p, c) \/ end(p, c)
  \/ prepare(p) \/ prepareFails(p) \/ Connected(p) \/ Claimed(p) \/ Fails(p)
  \/ Mute(p) \/ load(p) \/ PeerFails(p) \/ Unmount(p) \/ Leave(p)

Served(p) ==
  \/ \E c \in Calls : Insert(p, c)
  \/ MetaTakes(p) \/ MetaStarted(p) \/ MetaRefused(p)
  \/ \E noted \in BOOLEAN : MetaUnknown(p, noted)
  \/ Claim(p) \/ Act(p) \/ ActUnknown(p) \/ Refused(p) \/ CleanupLost(p)

Parting(o, c) == ServeParting(o, c) \/ LoseParting(o, c)

Meta(c) ==
  \/ ContactCalls(c) \/ ContactEnds(c) \/ HookConnect(c) \/ HookTerminate(c)
  \/ \E s \in {"ringing", "accepted", "rejected"} : HookStatus(c, s)

Next ==
  \/ \E p \in Panels : Panel(p) \/ Served(p)
  \/ \E o \in Operators, c \in Calls : Parting(o, c)
  \/ \E c \in Calls : Meta(c)

Spec == Init /\ [][Next]_vars

-----------------------------------------------------------------------------
(* Properties.                                                             *)

Steps == {"none", "mic", "posting", "calling", "connected", "claim", "claimed",
          "pre_accept", "accept", "reject", "end", "cleanup", "refused"}

StatusWords == {"absent", "ringing", "connecting", "accepted", "active", "uncertain", "over"}

Operation == [kind : {"idle", "start", "answer", "reject", "end"},
              step : Steps, call : Calls \union {Nobody}]

TypeOK ==
  /\ status \in [Calls -> StatusWords]
  /\ ended \in [Calls -> BOOLEAN] /\ waId \in [Calls -> BOOLEAN]
  /\ owner \in [Calls -> Panels \union {Nobody}]
  /\ line \in [Calls -> {"none", "live", "over"}]
  /\ page \in [Panels -> {"open", "unmounted", "closed"}]
  /\ op \in [Panels -> Operation]
  /\ active \in [Panels -> Calls \union {Nobody}]
  /\ mic \in [Panels -> {"off", "silent", "live"}] /\ muted \in [Panels -> BOOLEAN]
  /\ late \subseteq Panels
  /\ parting \subseteq Operators \X Calls

(***************************************************************************)
(* An operator has at most one call that is not over, however many tabs    *)
(* answer, call and claim at once ("End your previous call first").        *)
(***************************************************************************)
OneOpenCall ==
  \A c, d \in Calls :
    /\ owner[c] # Nobody /\ owner[d] # Nobody
    /\ OperatorOf[owner[c]] = OperatorOf[owner[d]]
    /\ ~ended[c] /\ ~ended[d]
    => c = d

(***************************************************************************)
(* A panel is on a call only if the server gave that call to this very     *)
(* tab, so no two tabs are ever on one call, closed tabs included.         *)
(***************************************************************************)
ActiveIsOwned == \A p \in Panels : active[p] # Nobody => owner[active[p]] = p

(***************************************************************************)
(* An open panel that runs nothing and is on no call has released the      *)
(* microphone, whichever await failed or was overtaken by a poll.          *)
(***************************************************************************)
QuietIsSilent ==
  \A p \in Panels :
    page[p] = "open" /\ op[p] = Idle /\ active[p] = Nobody => mic[p] = "off"

(***************************************************************************)
(* An open panel is heard only while it is on a call: the microphone       *)
(* prepared while a call is set up sends nothing, and what closes a call   *)
(* closes the microphone.  A panel that went away is not heard at all,     *)
(* however its operation goes on, but for one whose browser gave it the    *)
(* microphone after it had gone: no poll closes that one any more.         *)
(***************************************************************************)
HeardOnlyOnACall ==
  \A p \in Panels : mic[p] = "live" =>
    active[p] # Nobody /\ (page[p] # "open" => p \in late)

(***************************************************************************)
(* A call that is over stays over, and stays with the tab it was given to: *)
(* no late webhook, retried request or second operator reopens or moves it.*)
(***************************************************************************)
OverAndOwnedStay ==
  [][\A c \in Calls : /\ ended[c] => ended'[c]
                      /\ owner[c] # Nobody => owner'[c] = owner[c]]_vars

(***************************************************************************)
(* An outgoing call that was answered stays so until it is over, in        *)
(* whatever order the status webhooks arrive, unless the request that      *)
(* placed it then loses its answer: it writes "uncertain" over what the    *)
(* webhooks said, and a late "ringing" is believed again.                  *)
(***************************************************************************)
AnsweredStays ==
  [][\A c \in Outbound :
       status[c] = "accepted" /\ status'[c] # status[c] =>
         \/ status'[c] = "over"
         \/ \E p \in Panels : MetaUnknown(p, TRUE) /\ op[p].call = c]_vars

\* What a panel's operation already holds at the server ...
Held ==
  \A p \in Panels :
    /\ op[p].step \in {"calling", "connected", "claimed", "pre_accept", "accept", "cleanup"}
         => op[p].call \in Calls /\ owner[op[p].call] = p
    /\ op[p].kind \in {"answer", "reject", "end"}
         => op[p].call \in Calls /\ status[op[p].call] # "absent"
    /\ op[p].step \in {"claim", "claimed"} => op[p].kind \in {"answer", "reject"}
    /\ op[p].step \in {"reject", "end"} => op[p].kind \in {"reject", "end"}
    /\ op[p].step \in {"pre_accept", "accept", "cleanup"} => op[p].kind = "answer"
    /\ op[p].step = "calling" => op[p].kind = "start"
    /\ op[p].kind = "idle" => op[p] = Idle

AbsentUnowned == \A c \in Calls : status[c] = "absent" => owner[c] = Nobody

\* ... and where its microphone is.
MicAccounted ==
  \A p \in Panels :
    /\ mic[p] # "off" /\ page[p] # "open" => p \in late
    /\ mic[p] # "off" /\ op[p].kind \in {"idle", "reject", "end"} => active[p] # Nobody
    /\ op[p].step \in {"pre_accept", "accept"} /\ mic[p] # "off" => active[p] # Nobody
    /\ op[p].step \in {"mic", "posting", "calling", "connected"} => op[p].kind \in {"start", "answer"}

IInv ==
  /\ TypeOK /\ OneOpenCall /\ ActiveIsOwned /\ Held /\ AbsentUnowned
  /\ HeardOnlyOnACall /\ MicAccounted
=============================================================================
