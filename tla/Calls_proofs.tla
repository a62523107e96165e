---------------------------- MODULE Calls_proofs ----------------------------
(***************************************************************************)
(* The call desk for any number of panels, operators and calls: typing,    *)
(* one open call per operator, a panel's call is the server's, microphones *)
(* are accounted for, and calls that are over stay over.                   *)
(***************************************************************************)
EXTENDS Calls, TLAPS

LEMMA InitHolds == Init => IInv
<1>. USE CallsAssumption
<1>1. Init => TypeOK
  BY DEF Init, TypeOK, Idle, Steps, StatusWords, Operation
<1>2. Init => OneOpenCall /\ ActiveIsOwned /\ Held /\ AbsentUnowned /\ HeardOnlyOnACall /\ MicAccounted
  BY DEF Init, OneOpenCall, ActiveIsOwned, Held, AbsentUnowned, HeardOnlyOnACall, MicAccounted, Idle
<1>. QED  BY <1>1, <1>2 DEF IInv

\* A step of an operation is typed when its word is.
LEMMA Retarget ==
  ASSUME TypeOK, NEW p \in Panels, NEW s \in Steps,
         op' = [op EXCEPT ![p].step = s]
  PROVE  op' \in [Panels -> Operation]
<1>1. op[p] \in Operation
  BY DEF TypeOK
<1>2. [op[p] EXCEPT !.step = s] \in Operation
  BY <1>1 DEF Operation
<1>. QED  BY <1>2 DEF TypeOK

\* What a panel does by itself.
LEMMA PanelKeeps ==
  ASSUME IInv, NEW p \in Panels, Panel(p)
  PROVE  IInv'
<1>. USE CallsAssumption
<1>. TypeOK /\ OneOpenCall /\ ActiveIsOwned /\ Held /\ AbsentUnowned /\ HeardOnlyOnACall /\ MicAccounted
  BY DEF IInv
<1>1. CASE start(p)
  <2>1. TypeOK'
    <3>1. /\ status' \in [Calls -> StatusWords] /\ ended' \in [Calls -> BOOLEAN]
          /\ waId' \in [Calls -> BOOLEAN] /\ owner' \in [Calls -> Panels \union {Nobody}]
          /\ line' \in [Calls -> {"none", "live", "over"}]
          /\ parting' \subseteq Operators \X Calls
      BY <1>1 DEF StatusWords, Held, ActiveIsOwned, start, Press, Free, TypeOK, Steps, StatusWords, Operation, Idle, rows, media
    <3>2. op' \in [Panels -> Operation]
      BY <1>1 DEF Operation, Held, start, Press, Free, TypeOK, Steps, StatusWords, Operation, Idle, rows, media
    <3>3. /\ active' \in [Panels -> Calls \union {Nobody}]
          /\ mic' \in [Panels -> {"off", "silent", "live"}]
          /\ muted' \in [Panels -> BOOLEAN] /\ late' \subseteq Panels
          /\ page' \in [Panels -> {"open", "unmounted", "closed"}]
      BY <1>1 DEF start, Press, Free, TypeOK, Steps, StatusWords, Operation, Idle, rows, media
    <3>. QED  BY <3>1, <3>2, <3>3 DEF TypeOK
  <2>2. OneOpenCall'
    BY <1>1 DEF OneOpenCall, TypeOK, rows, media, start, Press, Free
  <2>3. ActiveIsOwned'
    BY <1>1 DEF ActiveIsOwned, TypeOK, Held, rows, media, start, Press, Free
  <2>4. Held'
    BY <1>1 DEF Held, TypeOK, ActiveIsOwned, MicAccounted, AbsentUnowned, Idle, rows, media, start, Press, Free
  <2>5. AbsentUnowned'
    BY <1>1 DEF AbsentUnowned, TypeOK, Held, rows, media, start, Press, Free
  <2>6. HeardOnlyOnACall'
    BY <1>1 DEF HeardOnlyOnACall, TypeOK, Held, MicAccounted, rows, media, start, Press, Free
  <2>7. MicAccounted'
    BY <1>1 DEF MicAccounted, TypeOK, Held, Idle, rows, media, start, Press, Free
  <2>. QED  BY <2>1, <2>2, <2>3, <2>4, <2>5, <2>6, <2>7 DEF IInv
<1>2. CASE \E c \in Calls : answer(p, c) \/ reject(p, c)
  <2>. PICK c \in Calls : answer(p, c) \/ reject(p, c)
    BY <1>2
  <2>. PICK kind \in {"answer", "reject"}, step \in {"mic", "claim"} :
         /\ op' = [op EXCEPT ![p] = [kind |-> kind, step |-> step, call |-> c]]
         /\ kind = "reject" => step = "claim"
    BY DEF answer, reject, Press
  <2>. /\ op[p] = Idle /\ status[c] # "absent" /\ active[p] = Nobody
       /\ UNCHANGED <<status, ended, waId, owner, line, page, active, mic, muted, late, parting>>
    BY DEF answer, reject, Press, Free, rows, media
  <2>0. op' \in [Panels -> Operation]
    BY DEF TypeOK, Operation, Steps, Idle
  <2>1. TypeOK'
    BY <2>0 DEF TypeOK, StatusWords
  <2>2. OneOpenCall'
    BY DEF OneOpenCall, TypeOK
  <2>3. ActiveIsOwned'
    BY DEF ActiveIsOwned, TypeOK, Held
  <2>4. Held'
    BY DEF Held, TypeOK, ActiveIsOwned, MicAccounted, AbsentUnowned, Idle
  <2>5. AbsentUnowned'
    BY DEF AbsentUnowned, TypeOK, Held
  <2>6. HeardOnlyOnACall'
    BY DEF HeardOnlyOnACall, TypeOK, Held, MicAccounted
  <2>7. MicAccounted'
    BY DEF MicAccounted, TypeOK, Held, Idle
  <2>. QED  BY <2>1, <2>2, <2>3, <2>4, <2>5, <2>6, <2>7 DEF IInv
<1>3. CASE \E c \in Calls : end(p, c)
  <2>1. TypeOK'
    <3>1. /\ status' \in [Calls -> StatusWords] /\ ended' \in [Calls -> BOOLEAN]
          /\ waId' \in [Calls -> BOOLEAN] /\ owner' \in [Calls -> Panels \union {Nobody}]
          /\ line' \in [Calls -> {"none", "live", "over"}]
          /\ parting' \subseteq Operators \X Calls
      BY <1>3 DEF StatusWords, Held, ActiveIsOwned, end, Press, Free, OwnedBy, TypeOK, Steps, StatusWords, Operation, Idle, rows, media
    <3>2. op' \in [Panels -> Operation]
      BY <1>3 DEF Operation, Held, end, Press, Free, OwnedBy, TypeOK, Steps, StatusWords, Operation, Idle, rows, media
    <3>3. /\ active' \in [Panels -> Calls \union {Nobody}]
          /\ mic' \in [Panels -> {"off", "silent", "live"}]
          /\ muted' \in [Panels -> BOOLEAN] /\ late' \subseteq Panels
          /\ page' \in [Panels -> {"open", "unmounted", "closed"}]
      BY <1>3 DEF end, Press, Free, OwnedBy, TypeOK, Steps, StatusWords, Operation, Idle, rows, media
    <3>. QED  BY <3>1, <3>2, <3>3 DEF TypeOK
  <2>2. OneOpenCall'
    BY <1>3 DEF OneOpenCall, TypeOK, rows, media, end, Press, Free, OwnedBy
  <2>3. ActiveIsOwned'
    BY <1>3 DEF ActiveIsOwned, TypeOK, Held, rows, media, end, Press, Free, OwnedBy
  <2>4. Held'
    BY <1>3 DEF Held, TypeOK, ActiveIsOwned, MicAccounted, AbsentUnowned, Idle, rows, media, end, Press, Free, OwnedBy
  <2>5. AbsentUnowned'
    BY <1>3 DEF AbsentUnowned, TypeOK, Held, rows, media, end, Press, Free, OwnedBy
  <2>6. HeardOnlyOnACall'
    BY <1>3 DEF HeardOnlyOnACall, TypeOK, Held, MicAccounted, rows, media, end, Press, Free, OwnedBy
  <2>7. MicAccounted'
    BY <1>3 DEF MicAccounted, TypeOK, Held, Idle, rows, media, end, Press, Free, OwnedBy
  <2>. QED  BY <2>1, <2>2, <2>3, <2>4, <2>5, <2>6, <2>7 DEF IInv
<1>4. CASE prepare(p)
  <2>1. TypeOK'
    <3>1. /\ status' \in [Calls -> StatusWords] /\ ended' \in [Calls -> BOOLEAN]
          /\ waId' \in [Calls -> BOOLEAN] /\ owner' \in [Calls -> Panels \union {Nobody}]
          /\ line' \in [Calls -> {"none", "live", "over"}]
          /\ parting' \subseteq Operators \X Calls
      BY <1>4 DEF StatusWords, Held, ActiveIsOwned, prepare, Goto, TypeOK, Steps, StatusWords, Operation, Idle, rows, media
    <3>2. op' \in [Panels -> Operation]
      BY <1>4 DEF Operation, Held, prepare, Goto, TypeOK, Steps, StatusWords, Operation, Idle, rows, media
    <3>3. /\ active' \in [Panels -> Calls \union {Nobody}]
          /\ mic' \in [Panels -> {"off", "silent", "live"}]
          /\ muted' \in [Panels -> BOOLEAN] /\ late' \subseteq Panels
          /\ page' \in [Panels -> {"open", "unmounted", "closed"}]
      BY <1>4 DEF prepare, Goto, TypeOK, Steps, StatusWords, Operation, Idle, rows, media
    <3>. QED  BY <3>1, <3>2, <3>3 DEF TypeOK
  <2>2. OneOpenCall'
    BY <1>4 DEF OneOpenCall, TypeOK, rows, media, prepare, Goto
  <2>3. ActiveIsOwned'
    BY <1>4 DEF ActiveIsOwned, TypeOK, Held, rows, media, prepare, Goto
  <2>4. Held'
    BY <1>4 DEF Held, TypeOK, ActiveIsOwned, MicAccounted, AbsentUnowned, Idle, rows, media, prepare, Goto
  <2>5. AbsentUnowned'
    BY <1>4 DEF AbsentUnowned, TypeOK, Held, rows, media, prepare, Goto
  <2>6. HeardOnlyOnACall'
    BY <1>4 DEF HeardOnlyOnACall, TypeOK, Held, MicAccounted, rows, media, prepare, Goto
  <2>7. MicAccounted'
    BY <1>4 DEF MicAccounted, TypeOK, Held, Idle, rows, media, prepare, Goto
  <2>. QED  BY <2>1, <2>2, <2>3, <2>4, <2>5, <2>6, <2>7 DEF IInv
<1>5. CASE prepareFails(p)
  <2>1. TypeOK'
    <3>1. /\ status' \in [Calls -> StatusWords] /\ ended' \in [Calls -> BOOLEAN]
          /\ waId' \in [Calls -> BOOLEAN] /\ owner' \in [Calls -> Panels \union {Nobody}]
          /\ line' \in [Calls -> {"none", "live", "over"}]
          /\ parting' \subseteq Operators \X Calls
      BY <1>5 DEF StatusWords, Held, ActiveIsOwned, prepareFails, closeAudio, Done, TypeOK, Steps, StatusWords, Operation, Idle, rows, media
    <3>2. op' \in [Panels -> Operation]
      BY <1>5 DEF Operation, Held, prepareFails, closeAudio, Done, TypeOK, Steps, StatusWords, Operation, Idle, rows, media
    <3>3. /\ active' \in [Panels -> Calls \union {Nobody}]
          /\ mic' \in [Panels -> {"off", "silent", "live"}]
          /\ muted' \in [Panels -> BOOLEAN] /\ late' \subseteq Panels
          /\ page' \in [Panels -> {"open", "unmounted", "closed"}]
      BY <1>5 DEF prepareFails, closeAudio, Done, TypeOK, Steps, StatusWords, Operation, Idle, rows, media
    <3>. QED  BY <3>1, <3>2, <3>3 DEF TypeOK
  <2>2. OneOpenCall'
    BY <1>5 DEF OneOpenCall, TypeOK, rows, media, prepareFails, closeAudio, Done
  <2>3. ActiveIsOwned'
    BY <1>5 DEF ActiveIsOwned, TypeOK, Held, rows, media, prepareFails, closeAudio, Done
  <2>4. Held'
    BY <1>5 DEF Held, TypeOK, ActiveIsOwned, MicAccounted, AbsentUnowned, Idle, rows, media, prepareFails, closeAudio, Done
  <2>5. AbsentUnowned'
    BY <1>5 DEF AbsentUnowned, TypeOK, Held, rows, media, prepareFails, closeAudio, Done
  <2>6. HeardOnlyOnACall'
    BY <1>5 DEF HeardOnlyOnACall, TypeOK, Held, MicAccounted, rows, media, prepareFails, closeAudio, Done
  <2>7. MicAccounted'
    BY <1>5 DEF MicAccounted, TypeOK, Held, Idle, rows, media, prepareFails, closeAudio, Done
  <2>. QED  BY <2>1, <2>2, <2>3, <2>4, <2>5, <2>6, <2>7 DEF IInv
<1>6. CASE Connected(p)
  <2>1. TypeOK'
    <3>1. /\ status' \in [Calls -> StatusWords] /\ ended' \in [Calls -> BOOLEAN]
          /\ waId' \in [Calls -> BOOLEAN] /\ owner' \in [Calls -> Panels \union {Nobody}]
          /\ line' \in [Calls -> {"none", "live", "over"}]
          /\ parting' \subseteq Operators \X Calls
      BY <1>6 DEF StatusWords, Held, ActiveIsOwned, Connected, Enabled, Done, TypeOK, Steps, StatusWords, Operation, Idle, rows, media
    <3>2. op' \in [Panels -> Operation]
      BY <1>6 DEF Operation, Held, Connected, Enabled, Done, TypeOK, Steps, StatusWords, Operation, Idle, rows, media
    <3>3. /\ active' \in [Panels -> Calls \union {Nobody}]
          /\ mic' \in [Panels -> {"off", "silent", "live"}]
          /\ muted' \in [Panels -> BOOLEAN] /\ late' \subseteq Panels
          /\ page' \in [Panels -> {"open", "unmounted", "closed"}]
      BY <1>6 DEF Connected, Enabled, Done, TypeOK, Steps, StatusWords, Operation, Idle, rows, media
    <3>. QED  BY <3>1, <3>2, <3>3 DEF TypeOK
  <2>2. OneOpenCall'
    BY <1>6 DEF OneOpenCall, TypeOK, rows, media, Connected, Enabled, Done
  <2>3. ActiveIsOwned'
    BY <1>6 DEF ActiveIsOwned, TypeOK, Held, rows, media, Connected, Enabled, Done
  <2>4. Held'
    BY <1>6 DEF Held, TypeOK, ActiveIsOwned, MicAccounted, AbsentUnowned, Idle, rows, media, Connected, Enabled, Done
  <2>5. AbsentUnowned'
    BY <1>6 DEF AbsentUnowned, TypeOK, Held, rows, media, Connected, Enabled, Done
  <2>6. HeardOnlyOnACall'
    BY <1>6 DEF HeardOnlyOnACall, TypeOK, Held, MicAccounted, rows, media, Connected, Enabled, Done
  <2>7. MicAccounted'
    BY <1>6 DEF MicAccounted, TypeOK, Held, Idle, rows, media, Connected, Enabled, Done
  <2>. QED  BY <2>1, <2>2, <2>3, <2>4, <2>5, <2>6, <2>7 DEF IInv
<1>7. CASE Claimed(p)
  <2>. /\ op[p].step = "claimed" /\ op[p].call \in Calls /\ op[p].kind \in {"answer", "reject"}
       /\ UNCHANGED <<status, ended, waId, owner, line, page, mic, muted, late, parting>>
    BY <1>7 DEF Claimed, rows, Held
  <2>a. CASE op[p].kind = "answer"
    <3>. op' = [op EXCEPT ![p].step = "pre_accept"] /\ active' = [active EXCEPT ![p] = op[p].call]
      BY <1>7, <2>a DEF Claimed, Goto
    <3>0. op' \in [Panels -> Operation]
      BY <2>a, Retarget DEF TypeOK, Steps, Idle, Operation
    <3>1. TypeOK'
      BY <3>0, <2>a DEF TypeOK, StatusWords
    <3>2. OneOpenCall'
      BY <2>a DEF OneOpenCall, TypeOK
    <3>3. ActiveIsOwned'
      BY <2>a DEF ActiveIsOwned, TypeOK, Held
    <3>4. Held'
      BY <2>a DEF Held, TypeOK, ActiveIsOwned, MicAccounted, AbsentUnowned, Idle
    <3>5. AbsentUnowned'
      BY <2>a DEF AbsentUnowned, TypeOK, Held
    <3>6. HeardOnlyOnACall'
      BY <2>a DEF HeardOnlyOnACall, TypeOK, Held, MicAccounted
    <3>7. MicAccounted'
      BY <2>a DEF MicAccounted, TypeOK, Held, Idle
    <3>. QED  BY <3>1, <3>2, <3>3, <3>4, <3>5, <3>6, <3>7 DEF IInv
  <2>b. CASE op[p].kind = "reject"
    <3>. op' = [op EXCEPT ![p].step = "reject"] /\ UNCHANGED active
      BY <1>7, <2>b DEF Claimed, Goto
    <3>0. op' \in [Panels -> Operation]
      BY <2>b, Retarget DEF TypeOK, Steps, Idle, Operation
    <3>1. TypeOK'
      BY <3>0, <2>b DEF TypeOK, StatusWords
    <3>2. OneOpenCall'
      BY <2>b DEF OneOpenCall, TypeOK
    <3>3. ActiveIsOwned'
      BY <2>b DEF ActiveIsOwned, TypeOK, Held
    <3>4. Held'
      BY <2>b DEF Held, TypeOK, ActiveIsOwned, MicAccounted, AbsentUnowned, Idle
    <3>5. AbsentUnowned'
      BY <2>b DEF AbsentUnowned, TypeOK, Held
    <3>6. HeardOnlyOnACall'
      BY <2>b DEF HeardOnlyOnACall, TypeOK, Held, MicAccounted
    <3>7. MicAccounted'
      BY <2>b DEF MicAccounted, TypeOK, Held, Idle
    <3>. QED  BY <3>1, <3>2, <3>3, <3>4, <3>5, <3>6, <3>7 DEF IInv
  <2>. QED  BY <2>a, <2>b
<1>8. CASE Fails(p)
  <2>. /\ op[p].step = "refused" /\ Runs(p)
       /\ UNCHANGED <<status, ended, waId, owner, line, page, parting>>
    BY <1>8 DEF Fails, rows
  <2>a. CASE op[p].kind \in {"reject", "end"}
    <3>. op' = [op EXCEPT ![p] = Idle] /\ UNCHANGED <<active, mic, muted, late>>
      BY <1>8, <2>a DEF Fails, Done, media
    <3>0. op' \in [Panels -> Operation]
      BY <2>a, Retarget DEF TypeOK, Steps, Idle, Operation
    <3>1. TypeOK'
      BY <3>0, <2>a DEF TypeOK, StatusWords
    <3>2. OneOpenCall'
      BY <2>a DEF OneOpenCall, TypeOK
    <3>3. ActiveIsOwned'
      BY <2>a DEF ActiveIsOwned, TypeOK, Held
    <3>4. Held'
      BY <2>a DEF Held, TypeOK, ActiveIsOwned, MicAccounted, AbsentUnowned, Idle
    <3>5. AbsentUnowned'
      BY <2>a DEF AbsentUnowned, TypeOK, Held
    <3>6. HeardOnlyOnACall'
      BY <2>a DEF HeardOnlyOnACall, TypeOK, Held, MicAccounted
    <3>7. MicAccounted'
      BY <2>a DEF MicAccounted, TypeOK, Held, Idle
    <3>. QED  BY <3>1, <3>2, <3>3, <3>4, <3>5, <3>6, <3>7 DEF IInv
  <2>b. CASE op[p].kind = "answer" /\ active[p] = op[p].call
    <3>. op' = [op EXCEPT ![p].step = "cleanup"] /\ UNCHANGED <<active, mic, muted, late>>
      BY <1>8, <2>b DEF Fails, Goto, media
    <3>0. op' \in [Panels -> Operation]
      BY <2>b, Retarget DEF TypeOK, Steps, Idle, Operation
    <3>1. TypeOK'
      BY <3>0, <2>b DEF TypeOK, StatusWords
    <3>2. OneOpenCall'
      BY <2>b DEF OneOpenCall, TypeOK
    <3>3. ActiveIsOwned'
      BY <2>b DEF ActiveIsOwned, TypeOK, Held
    <3>4. Held'
      BY <2>b DEF Held, TypeOK, ActiveIsOwned, MicAccounted, AbsentUnowned, Idle
    <3>5. AbsentUnowned'
      BY <2>b DEF AbsentUnowned, TypeOK, Held
    <3>6. HeardOnlyOnACall'
      BY <2>b DEF HeardOnlyOnACall, TypeOK, Held, MicAccounted
    <3>7. MicAccounted'
      BY <2>b DEF MicAccounted, TypeOK, Held, Idle
    <3>. QED  BY <3>1, <3>2, <3>3, <3>4, <3>5, <3>6, <3>7 DEF IInv
  <2>c. CASE op[p].kind \notin {"reject", "end"} /\ ~(op[p].kind = "answer" /\ active[p] = op[p].call)
    <3>. /\ op' = [op EXCEPT ![p] = Idle] /\ active' = [active EXCEPT ![p] = Nobody]
         /\ mic' = [mic EXCEPT ![p] = "off"] /\ muted' = [muted EXCEPT ![p] = FALSE]
         /\ UNCHANGED late
      BY <1>8, <2>c DEF Fails, Done, closeAudio
    <3>0. op' \in [Panels -> Operation]
      BY <2>c DEF TypeOK, Operation, Steps, Idle
    <3>1. TypeOK'
      BY <3>0, <2>c DEF TypeOK, StatusWords
    <3>2. OneOpenCall'
      BY <2>c DEF OneOpenCall, TypeOK
    <3>3. ActiveIsOwned'
      BY <2>c DEF ActiveIsOwned, TypeOK, Held
    <3>4. Held'
      BY <2>c DEF Held, TypeOK, ActiveIsOwned, MicAccounted, AbsentUnowned, Idle
    <3>5. AbsentUnowned'
      BY <2>c DEF AbsentUnowned, TypeOK, Held
    <3>6. HeardOnlyOnACall'
      BY <2>c DEF HeardOnlyOnACall, TypeOK, Held, MicAccounted
    <3>7. MicAccounted'
      BY <2>c DEF MicAccounted, TypeOK, Held, Idle
    <3>. QED  BY <3>1, <3>2, <3>3, <3>4, <3>5, <3>6, <3>7 DEF IInv
  <2>. QED  BY <2>a, <2>b, <2>c
<1>9. CASE Mute(p)
  <2>1. TypeOK'
    <3>1. /\ status' \in [Calls -> StatusWords] /\ ended' \in [Calls -> BOOLEAN]
          /\ waId' \in [Calls -> BOOLEAN] /\ owner' \in [Calls -> Panels \union {Nobody}]
          /\ line' \in [Calls -> {"none", "live", "over"}]
          /\ parting' \subseteq Operators \X Calls
      BY <1>9 DEF StatusWords, Held, ActiveIsOwned, Mute, TypeOK, Steps, StatusWords, Operation, Idle, rows, media
    <3>2. op' \in [Panels -> Operation]
      BY <1>9 DEF Operation, Held, Mute, TypeOK, Steps, StatusWords, Operation, Idle, rows, media
    <3>3. /\ active' \in [Panels -> Calls \union {Nobody}]
          /\ mic' \in [Panels -> {"off", "silent", "live"}]
          /\ muted' \in [Panels -> BOOLEAN] /\ late' \subseteq Panels
          /\ page' \in [Panels -> {"open", "unmounted", "closed"}]
      BY <1>9 DEF Mute, TypeOK, Steps, StatusWords, Operation, Idle, rows, media
    <3>. QED  BY <3>1, <3>2, <3>3 DEF TypeOK
  <2>2. OneOpenCall'
    BY <1>9 DEF OneOpenCall, TypeOK, rows, media, Mute
  <2>3. ActiveIsOwned'
    BY <1>9 DEF ActiveIsOwned, TypeOK, Held, rows, media, Mute
  <2>4. Held'
    BY <1>9 DEF Held, TypeOK, ActiveIsOwned, MicAccounted, AbsentUnowned, Idle, rows, media, Mute
  <2>5. AbsentUnowned'
    BY <1>9 DEF AbsentUnowned, TypeOK, Held, rows, media, Mute
  <2>6. HeardOnlyOnACall'
    BY <1>9 DEF HeardOnlyOnACall, TypeOK, Held, MicAccounted, rows, media, Mute
  <2>7. MicAccounted'
    BY <1>9 DEF MicAccounted, TypeOK, Held, Idle, rows, media, Mute
  <2>. QED  BY <2>1, <2>2, <2>3, <2>4, <2>5, <2>6, <2>7 DEF IInv
<1>10. CASE load(p)
  <2>1. TypeOK'
    <3>1. /\ status' \in [Calls -> StatusWords] /\ ended' \in [Calls -> BOOLEAN]
          /\ waId' \in [Calls -> BOOLEAN] /\ owner' \in [Calls -> Panels \union {Nobody}]
          /\ line' \in [Calls -> {"none", "live", "over"}]
          /\ parting' \subseteq Operators \X Calls
      BY <1>10 DEF StatusWords, Held, ActiveIsOwned, load, closeAudio, TypeOK, Steps, StatusWords, Operation, Idle, rows, media
    <3>2. op' \in [Panels -> Operation]
      BY <1>10 DEF Operation, Held, load, closeAudio, TypeOK, Steps, StatusWords, Operation, Idle, rows, media
    <3>3. /\ active' \in [Panels -> Calls \union {Nobody}]
          /\ mic' \in [Panels -> {"off", "silent", "live"}]
          /\ muted' \in [Panels -> BOOLEAN] /\ late' \subseteq Panels
          /\ page' \in [Panels -> {"open", "unmounted", "closed"}]
      BY <1>10 DEF load, closeAudio, TypeOK, Steps, StatusWords, Operation, Idle, rows, media
    <3>. QED  BY <3>1, <3>2, <3>3 DEF TypeOK
  <2>2. OneOpenCall'
    BY <1>10 DEF OneOpenCall, TypeOK, rows, media, load, closeAudio
  <2>3. ActiveIsOwned'
    BY <1>10 DEF ActiveIsOwned, TypeOK, Held, rows, media, load, closeAudio
  <2>4. Held'
    BY <1>10 DEF Held, TypeOK, ActiveIsOwned, MicAccounted, AbsentUnowned, Idle, rows, media, load, closeAudio
  <2>5. AbsentUnowned'
    BY <1>10 DEF AbsentUnowned, TypeOK, Held, rows, media, load, closeAudio
  <2>6. HeardOnlyOnACall'
    BY <1>10 DEF HeardOnlyOnACall, TypeOK, Held, MicAccounted, rows, media, load, closeAudio
  <2>7. MicAccounted'
    BY <1>10 DEF MicAccounted, TypeOK, Held, Idle, rows, media, load, closeAudio
  <2>. QED  BY <2>1, <2>2, <2>3, <2>4, <2>5, <2>6, <2>7 DEF IInv
<1>11. CASE PeerFails(p)
  <2>1. TypeOK'
    <3>1. /\ status' \in [Calls -> StatusWords] /\ ended' \in [Calls -> BOOLEAN]
          /\ waId' \in [Calls -> BOOLEAN] /\ owner' \in [Calls -> Panels \union {Nobody}]
          /\ line' \in [Calls -> {"none", "live", "over"}]
          /\ parting' \subseteq Operators \X Calls
      BY <1>11 DEF StatusWords, Held, ActiveIsOwned, PeerFails, Terminates, closeAudio, TypeOK, Steps, StatusWords, Operation, Idle, rows, media
    <3>2. op' \in [Panels -> Operation]
      BY <1>11 DEF Operation, Held, PeerFails, Terminates, closeAudio, TypeOK, Steps, StatusWords, Operation, Idle, rows, media
    <3>3. /\ active' \in [Panels -> Calls \union {Nobody}]
          /\ mic' \in [Panels -> {"off", "silent", "live"}]
          /\ muted' \in [Panels -> BOOLEAN] /\ late' \subseteq Panels
          /\ page' \in [Panels -> {"open", "unmounted", "closed"}]
      BY <1>11 DEF PeerFails, Terminates, closeAudio, TypeOK, Steps, StatusWords, Operation, Idle, rows, media
    <3>. QED  BY <3>1, <3>2, <3>3 DEF TypeOK
  <2>2. OneOpenCall'
    BY <1>11 DEF OneOpenCall, TypeOK, rows, media, PeerFails, Terminates, closeAudio
  <2>3. ActiveIsOwned'
    BY <1>11 DEF ActiveIsOwned, TypeOK, Held, rows, media, PeerFails, Terminates, closeAudio
  <2>4. Held'
    BY <1>11 DEF Held, TypeOK, ActiveIsOwned, MicAccounted, AbsentUnowned, Idle, rows, media, PeerFails, Terminates, closeAudio
  <2>5. AbsentUnowned'
    BY <1>11 DEF AbsentUnowned, TypeOK, Held, rows, media, PeerFails, Terminates, closeAudio
  <2>6. HeardOnlyOnACall'
    BY <1>11 DEF HeardOnlyOnACall, TypeOK, Held, MicAccounted, rows, media, PeerFails, Terminates, closeAudio
  <2>7. MicAccounted'
    BY <1>11 DEF MicAccounted, TypeOK, Held, Idle, rows, media, PeerFails, Terminates, closeAudio
  <2>. QED  BY <2>1, <2>2, <2>3, <2>4, <2>5, <2>6, <2>7 DEF IInv
<1>12. CASE Unmount(p)
  <2>1. TypeOK'
    <3>1. /\ status' \in [Calls -> StatusWords] /\ ended' \in [Calls -> BOOLEAN]
          /\ waId' \in [Calls -> BOOLEAN] /\ owner' \in [Calls -> Panels \union {Nobody}]
          /\ line' \in [Calls -> {"none", "live", "over"}]
          /\ parting' \subseteq Operators \X Calls
      BY <1>12 DEF StatusWords, Held, ActiveIsOwned, Unmount, Terminates, TypeOK, Steps, StatusWords, Operation, Idle, rows, media
    <3>2. op' \in [Panels -> Operation]
      BY <1>12 DEF Operation, Held, Unmount, Terminates, TypeOK, Steps, StatusWords, Operation, Idle, rows, media
    <3>3. /\ active' \in [Panels -> Calls \union {Nobody}]
          /\ mic' \in [Panels -> {"off", "silent", "live"}]
          /\ muted' \in [Panels -> BOOLEAN] /\ late' \subseteq Panels
          /\ page' \in [Panels -> {"open", "unmounted", "closed"}]
      BY <1>12 DEF Unmount, Terminates, TypeOK, Steps, StatusWords, Operation, Idle, rows, media
    <3>. QED  BY <3>1, <3>2, <3>3 DEF TypeOK
  <2>2. OneOpenCall'
    BY <1>12 DEF OneOpenCall, TypeOK, rows, media, Unmount, Terminates
  <2>3. ActiveIsOwned'
    BY <1>12 DEF ActiveIsOwned, TypeOK, Held, rows, media, Unmount, Terminates
  <2>4. Held'
    BY <1>12 DEF Held, TypeOK, ActiveIsOwned, MicAccounted, AbsentUnowned, Idle, rows, media, Unmount, Terminates
  <2>5. AbsentUnowned'
    BY <1>12 DEF AbsentUnowned, TypeOK, Held, rows, media, Unmount, Terminates
  <2>6. HeardOnlyOnACall'
    BY <1>12 DEF HeardOnlyOnACall, TypeOK, Held, MicAccounted, rows, media, Unmount, Terminates
  <2>7. MicAccounted'
    BY <1>12 DEF MicAccounted, TypeOK, Held, Idle, rows, media, Unmount, Terminates
  <2>. QED  BY <2>1, <2>2, <2>3, <2>4, <2>5, <2>6, <2>7 DEF IInv
<1>13. CASE Leave(p)
  <2>1. TypeOK'
    <3>1. /\ status' \in [Calls -> StatusWords] /\ ended' \in [Calls -> BOOLEAN]
          /\ waId' \in [Calls -> BOOLEAN] /\ owner' \in [Calls -> Panels \union {Nobody}]
          /\ line' \in [Calls -> {"none", "live", "over"}]
          /\ parting' \subseteq Operators \X Calls
      BY <1>13 DEF StatusWords, Held, ActiveIsOwned, Leave, Terminates, closeAudio, Done, TypeOK, Steps, StatusWords, Operation, Idle, rows, media
    <3>2. op' \in [Panels -> Operation]
      BY <1>13 DEF Operation, Held, Leave, Terminates, closeAudio, Done, TypeOK, Steps, StatusWords, Operation, Idle, rows, media
    <3>3. /\ active' \in [Panels -> Calls \union {Nobody}]
          /\ mic' \in [Panels -> {"off", "silent", "live"}]
          /\ muted' \in [Panels -> BOOLEAN] /\ late' \subseteq Panels
          /\ page' \in [Panels -> {"open", "unmounted", "closed"}]
      BY <1>13 DEF Leave, Terminates, closeAudio, Done, TypeOK, Steps, StatusWords, Operation, Idle, rows, media
    <3>. QED  BY <3>1, <3>2, <3>3 DEF TypeOK
  <2>2. OneOpenCall'
    BY <1>13 DEF OneOpenCall, TypeOK, rows, media, Leave, Terminates, closeAudio, Done
  <2>3. ActiveIsOwned'
    BY <1>13 DEF ActiveIsOwned, TypeOK, Held, rows, media, Leave, Terminates, closeAudio, Done
  <2>4. Held'
    BY <1>13 DEF Held, TypeOK, ActiveIsOwned, MicAccounted, AbsentUnowned, Idle, rows, media, Leave, Terminates, closeAudio, Done
  <2>5. AbsentUnowned'
    BY <1>13 DEF AbsentUnowned, TypeOK, Held, rows, media, Leave, Terminates, closeAudio, Done
  <2>6. HeardOnlyOnACall'
    BY <1>13 DEF HeardOnlyOnACall, TypeOK, Held, MicAccounted, rows, media, Leave, Terminates, closeAudio, Done
  <2>7. MicAccounted'
    BY <1>13 DEF MicAccounted, TypeOK, Held, Idle, rows, media, Leave, Terminates, closeAudio, Done
  <2>. QED  BY <2>1, <2>2, <2>3, <2>4, <2>5, <2>6, <2>7 DEF IInv
<1>. QED  BY <1>1, <1>2, <1>3, <1>4, <1>5, <1>6, <1>7, <1>8, <1>9, <1>10, <1>11, <1>12, <1>13 DEF Panel

\* What the API does for a request of a panel.
LEMMA ServedKeeps ==
  ASSUME IInv, NEW p \in Panels, Served(p)
  PROVE  IInv'
<1>. USE CallsAssumption
<1>. TypeOK /\ OneOpenCall /\ ActiveIsOwned /\ Held /\ AbsentUnowned /\ HeardOnlyOnACall /\ MicAccounted
  BY DEF IInv
<1>1. CASE \E c \in Calls : Insert(p, c)
  <2>. PICK c \in Calls : Insert(p, c)
    BY <1>1
  <2>. /\ op[p].step = "posting" /\ OpenOf(OperatorOf[p]) = {} /\ status[c] = "absent"
       /\ status' = [status EXCEPT ![c] = "connecting"]
       /\ owner' = [owner EXCEPT ![c] = p]
       /\ op' = [op EXCEPT ![p] = [kind |-> "start", step |-> "calling", call |-> c]]
       /\ UNCHANGED <<ended, waId, line, page, active, mic, muted, late, parting>>
    BY DEF Insert, media
  <2>. \A d \in Calls : owner[d] # Nobody /\ OperatorOf[owner[d]] = OperatorOf[p] => ended[d]
    BY DEF OpenOf, OwnedBy
  <2>. owner[c] = Nobody
    BY DEF AbsentUnowned
  <2>0. op' \in [Panels -> Operation]
    BY DEF TypeOK, Operation, Steps, Idle
  <2>1. TypeOK'
    BY <2>0 DEF TypeOK, StatusWords
  <2>2. OneOpenCall'
    BY DEF OneOpenCall, TypeOK
  <2>3. ActiveIsOwned'
    BY DEF ActiveIsOwned, TypeOK, Held
  <2>4. Held'
    BY DEF Held, TypeOK, ActiveIsOwned, MicAccounted, AbsentUnowned, Idle
  <2>5. AbsentUnowned'
    BY DEF AbsentUnowned, TypeOK, Held
  <2>6. HeardOnlyOnACall'
    BY DEF HeardOnlyOnACall, TypeOK, Held, MicAccounted
  <2>7. MicAccounted'
    BY DEF MicAccounted, TypeOK, Held, Idle
  <2>. QED  BY <2>1, <2>2, <2>3, <2>4, <2>5, <2>6, <2>7 DEF IInv
<1>2. CASE MetaTakes(p)
  <2>1. TypeOK'
    <3>1. /\ status' \in [Calls -> StatusWords] /\ ended' \in [Calls -> BOOLEAN]
          /\ waId' \in [Calls -> BOOLEAN] /\ owner' \in [Calls -> Panels \union {Nobody}]
          /\ line' \in [Calls -> {"none", "live", "over"}]
          /\ parting' \subseteq Operators \X Calls
      BY <1>2 DEF StatusWords, Held, ActiveIsOwned, MetaTakes, panels, TypeOK, Steps, StatusWords, Operation, Idle, rows, media
    <3>2. op' \in [Panels -> Operation]
      BY <1>2 DEF Operation, Held, MetaTakes, panels, TypeOK, Steps, StatusWords, Operation, Idle, rows, media
    <3>3. /\ active' \in [Panels -> Calls \union {Nobody}]
          /\ mic' \in [Panels -> {"off", "silent", "live"}]
          /\ muted' \in [Panels -> BOOLEAN] /\ late' \subseteq Panels
          /\ page' \in [Panels -> {"open", "unmounted", "closed"}]
      BY <1>2 DEF MetaTakes, panels, TypeOK, Steps, StatusWords, Operation, Idle, rows, media
    <3>. QED  BY <3>1, <3>2, <3>3 DEF TypeOK
  <2>2. OneOpenCall'
    BY <1>2 DEF OneOpenCall, TypeOK, rows, media, MetaTakes, panels
  <2>3. ActiveIsOwned'
    BY <1>2 DEF ActiveIsOwned, TypeOK, Held, rows, media, MetaTakes, panels
  <2>4. Held'
    BY <1>2 DEF Held, TypeOK, ActiveIsOwned, MicAccounted, AbsentUnowned, Idle, rows, media, MetaTakes, panels
  <2>5. AbsentUnowned'
    BY <1>2 DEF AbsentUnowned, TypeOK, Held, rows, media, MetaTakes, panels
  <2>6. HeardOnlyOnACall'
    BY <1>2 DEF HeardOnlyOnACall, TypeOK, Held, MicAccounted, rows, media, MetaTakes, panels
  <2>7. MicAccounted'
    BY <1>2 DEF MicAccounted, TypeOK, Held, Idle, rows, media, MetaTakes, panels
  <2>. QED  BY <2>1, <2>2, <2>3, <2>4, <2>5, <2>6, <2>7 DEF IInv
<1>3. CASE MetaStarted(p)
  <2>1. TypeOK'
    <3>1. /\ status' \in [Calls -> StatusWords] /\ ended' \in [Calls -> BOOLEAN]
          /\ waId' \in [Calls -> BOOLEAN] /\ owner' \in [Calls -> Panels \union {Nobody}]
          /\ line' \in [Calls -> {"none", "live", "over"}]
          /\ parting' \subseteq Operators \X Calls
      BY <1>3 DEF StatusWords, Held, ActiveIsOwned, MetaStarted, Goto, TypeOK, Steps, StatusWords, Operation, Idle, rows, media
    <3>2. op' \in [Panels -> Operation]
      BY <1>3 DEF Operation, Held, MetaStarted, Goto, TypeOK, Steps, StatusWords, Operation, Idle, rows, media
    <3>3. /\ active' \in [Panels -> Calls \union {Nobody}]
          /\ mic' \in [Panels -> {"off", "silent", "live"}]
          /\ muted' \in [Panels -> BOOLEAN] /\ late' \subseteq Panels
          /\ page' \in [Panels -> {"open", "unmounted", "closed"}]
      BY <1>3 DEF MetaStarted, Goto, TypeOK, Steps, StatusWords, Operation, Idle, rows, media
    <3>. QED  BY <3>1, <3>2, <3>3 DEF TypeOK
  <2>2. OneOpenCall'
    BY <1>3 DEF OneOpenCall, TypeOK, rows, media, MetaStarted, Goto
  <2>3. ActiveIsOwned'
    BY <1>3 DEF ActiveIsOwned, TypeOK, Held, rows, media, MetaStarted, Goto
  <2>4. Held'
    BY <1>3 DEF Held, TypeOK, ActiveIsOwned, MicAccounted, AbsentUnowned, Idle, rows, media, MetaStarted, Goto
  <2>5. AbsentUnowned'
    BY <1>3 DEF AbsentUnowned, TypeOK, Held, rows, media, MetaStarted, Goto
  <2>6. HeardOnlyOnACall'
    BY <1>3 DEF HeardOnlyOnACall, TypeOK, Held, MicAccounted, rows, media, MetaStarted, Goto
  <2>7. MicAccounted'
    BY <1>3 DEF MicAccounted, TypeOK, Held, Idle, rows, media, MetaStarted, Goto
  <2>. QED  BY <2>1, <2>2, <2>3, <2>4, <2>5, <2>6, <2>7 DEF IInv
<1>4. CASE MetaRefused(p)
  <2>1. TypeOK'
    <3>1. /\ status' \in [Calls -> StatusWords] /\ ended' \in [Calls -> BOOLEAN]
          /\ waId' \in [Calls -> BOOLEAN] /\ owner' \in [Calls -> Panels \union {Nobody}]
          /\ line' \in [Calls -> {"none", "live", "over"}]
          /\ parting' \subseteq Operators \X Calls
      BY <1>4 DEF StatusWords, Held, ActiveIsOwned, MetaRefused, Goto, TypeOK, Steps, StatusWords, Operation, Idle, rows, media
    <3>2. op' \in [Panels -> Operation]
      BY <1>4 DEF Operation, Held, MetaRefused, Goto, TypeOK, Steps, StatusWords, Operation, Idle, rows, media
    <3>3. /\ active' \in [Panels -> Calls \union {Nobody}]
          /\ mic' \in [Panels -> {"off", "silent", "live"}]
          /\ muted' \in [Panels -> BOOLEAN] /\ late' \subseteq Panels
          /\ page' \in [Panels -> {"open", "unmounted", "closed"}]
      BY <1>4 DEF MetaRefused, Goto, TypeOK, Steps, StatusWords, Operation, Idle, rows, media
    <3>. QED  BY <3>1, <3>2, <3>3 DEF TypeOK
  <2>2. OneOpenCall'
    BY <1>4 DEF OneOpenCall, TypeOK, rows, media, MetaRefused, Goto
  <2>3. ActiveIsOwned'
    BY <1>4 DEF ActiveIsOwned, TypeOK, Held, rows, media, MetaRefused, Goto
  <2>4. Held'
    BY <1>4 DEF Held, TypeOK, ActiveIsOwned, MicAccounted, AbsentUnowned, Idle, rows, media, MetaRefused, Goto
  <2>5. AbsentUnowned'
    BY <1>4 DEF AbsentUnowned, TypeOK, Held, rows, media, MetaRefused, Goto
  <2>6. HeardOnlyOnACall'
    BY <1>4 DEF HeardOnlyOnACall, TypeOK, Held, MicAccounted, rows, media, MetaRefused, Goto
  <2>7. MicAccounted'
    BY <1>4 DEF MicAccounted, TypeOK, Held, Idle, rows, media, MetaRefused, Goto
  <2>. QED  BY <2>1, <2>2, <2>3, <2>4, <2>5, <2>6, <2>7 DEF IInv
<1>5. CASE \E noted \in BOOLEAN : MetaUnknown(p, noted)
  <2>1. TypeOK'
    <3>1. /\ status' \in [Calls -> StatusWords] /\ ended' \in [Calls -> BOOLEAN]
          /\ waId' \in [Calls -> BOOLEAN] /\ owner' \in [Calls -> Panels \union {Nobody}]
          /\ line' \in [Calls -> {"none", "live", "over"}]
          /\ parting' \subseteq Operators \X Calls
      BY <1>5 DEF StatusWords, Held, ActiveIsOwned, MetaUnknown, Goto, TypeOK, Steps, StatusWords, Operation, Idle, rows, media
    <3>2. op' \in [Panels -> Operation]
      BY <1>5 DEF Operation, Held, MetaUnknown, Goto, TypeOK, Steps, StatusWords, Operation, Idle, rows, media
    <3>3. /\ active' \in [Panels -> Calls \union {Nobody}]
          /\ mic' \in [Panels -> {"off", "silent", "live"}]
          /\ muted' \in [Panels -> BOOLEAN] /\ late' \subseteq Panels
          /\ page' \in [Panels -> {"open", "unmounted", "closed"}]
      BY <1>5 DEF MetaUnknown, Goto, TypeOK, Steps, StatusWords, Operation, Idle, rows, media
    <3>. QED  BY <3>1, <3>2, <3>3 DEF TypeOK
  <2>2. OneOpenCall'
    BY <1>5 DEF OneOpenCall, TypeOK, rows, media, MetaUnknown, Goto
  <2>3. ActiveIsOwned'
    BY <1>5 DEF ActiveIsOwned, TypeOK, Held, rows, media, MetaUnknown, Goto
  <2>4. Held'
    BY <1>5 DEF Held, TypeOK, ActiveIsOwned, MicAccounted, AbsentUnowned, Idle, rows, media, MetaUnknown, Goto
  <2>5. AbsentUnowned'
    BY <1>5 DEF AbsentUnowned, TypeOK, Held, rows, media, MetaUnknown, Goto
  <2>6. HeardOnlyOnACall'
    BY <1>5 DEF HeardOnlyOnACall, TypeOK, Held, MicAccounted, rows, media, MetaUnknown, Goto
  <2>7. MicAccounted'
    BY <1>5 DEF MicAccounted, TypeOK, Held, Idle, rows, media, MetaUnknown, Goto
  <2>. QED  BY <2>1, <2>2, <2>3, <2>4, <2>5, <2>6, <2>7 DEF IInv
<1>6. CASE Claim(p)
  <2>1. TypeOK'
    <3>1. /\ status' \in [Calls -> StatusWords] /\ ended' \in [Calls -> BOOLEAN]
          /\ waId' \in [Calls -> BOOLEAN] /\ owner' \in [Calls -> Panels \union {Nobody}]
          /\ line' \in [Calls -> {"none", "live", "over"}]
          /\ parting' \subseteq Operators \X Calls
      BY <1>6 DEF StatusWords, Held, ActiveIsOwned, Claim, MayClaim, OpenOf, OwnedBy, Goto, Calls, TypeOK, Steps, StatusWords, Operation, Idle, rows, media
    <3>2. op' \in [Panels -> Operation]
      BY <1>6 DEF Operation, Held, Claim, MayClaim, OpenOf, OwnedBy, Goto, Calls, TypeOK, Steps, StatusWords, Operation, Idle, rows, media
    <3>3. /\ active' \in [Panels -> Calls \union {Nobody}]
          /\ mic' \in [Panels -> {"off", "silent", "live"}]
          /\ muted' \in [Panels -> BOOLEAN] /\ late' \subseteq Panels
          /\ page' \in [Panels -> {"open", "unmounted", "closed"}]
      BY <1>6 DEF Claim, MayClaim, OpenOf, OwnedBy, Goto, Calls, TypeOK, Steps, StatusWords, Operation, Idle, rows, media
    <3>. QED  BY <3>1, <3>2, <3>3 DEF TypeOK
  <2>2. OneOpenCall'
    BY <1>6 DEF OneOpenCall, TypeOK, rows, media, Claim, MayClaim, OpenOf, OwnedBy, Goto, Calls
  <2>3. ActiveIsOwned'
    BY <1>6 DEF ActiveIsOwned, TypeOK, Held, rows, media, Claim, MayClaim, OpenOf, OwnedBy, Goto, Calls
  <2>4. Held'
    BY <1>6 DEF Held, TypeOK, ActiveIsOwned, MicAccounted, AbsentUnowned, Idle, rows, media, Claim, MayClaim, OpenOf, OwnedBy, Goto, Calls
  <2>5. AbsentUnowned'
    BY <1>6 DEF AbsentUnowned, TypeOK, Held, rows, media, Claim, MayClaim, OpenOf, OwnedBy, Goto, Calls
  <2>6. HeardOnlyOnACall'
    BY <1>6 DEF HeardOnlyOnACall, TypeOK, Held, MicAccounted, rows, media, Claim, MayClaim, OpenOf, OwnedBy, Goto, Calls
  <2>7. MicAccounted'
    BY <1>6 DEF MicAccounted, TypeOK, Held, Idle, rows, media, Claim, MayClaim, OpenOf, OwnedBy, Goto, Calls
  <2>. QED  BY <2>1, <2>2, <2>3, <2>4, <2>5, <2>6, <2>7 DEF IInv
<1>7. CASE Act(p)
  <2>. DEFINE c == op[p].call
              act == op[p].step
  <2>. /\ c \in Calls /\ act \in {"pre_accept", "accept", "reject", "end", "cleanup"}
       /\ Written(c, act) /\ ~ended[c]
       /\ UNCHANGED <<waId, owner, page, parting>>
    BY <1>7 DEF Act, Actable, OpenOf, OwnedBy
  <2>. /\ status' \in [Calls -> StatusWords] /\ ended' \in [Calls -> BOOLEAN]
       /\ line' \in [Calls -> {"none", "live", "over"}]
       /\ \A d \in Calls : (ended[d] => ended'[d]) /\ (status[d] # "absent" => status'[d] # "absent")
       /\ \A d \in Calls : status'[d] = "absent" => status[d] = "absent"
    BY DEF Written, TypeOK, StatusWords
  <2>a. CASE Runs(p) /\ Heard(p, act) /\ act = "pre_accept"
    <3>. op' = [op EXCEPT ![p].step = "accept"] /\ UNCHANGED <<active, mic, muted, late>>
      BY <2>a DEF Heard, Goto, media
    <3>0. op' \in [Panels -> Operation]
      BY <2>a, Retarget DEF TypeOK, Steps, Idle, Operation
    <3>1. TypeOK'
      BY <3>0, <2>a DEF TypeOK, StatusWords
    <3>2. OneOpenCall'
      BY <2>a DEF OneOpenCall, TypeOK
    <3>3. ActiveIsOwned'
      BY <2>a DEF ActiveIsOwned, TypeOK, Held
    <3>4. Held'
      BY <2>a DEF Held, TypeOK, ActiveIsOwned, MicAccounted, AbsentUnowned, Idle
    <3>5. AbsentUnowned'
      BY <2>a DEF AbsentUnowned, TypeOK, Held
    <3>6. HeardOnlyOnACall'
      BY <2>a DEF HeardOnlyOnACall, TypeOK, Held, MicAccounted
    <3>7. MicAccounted'
      BY <2>a DEF MicAccounted, TypeOK, Held, Idle
    <3>. QED  BY <3>1, <3>2, <3>3, <3>4, <3>5, <3>6, <3>7 DEF IInv
  <2>b. CASE Runs(p) /\ Heard(p, act) /\ act = "accept"
    <3>. op' = [op EXCEPT ![p] = Idle] /\ UNCHANGED <<active, muted, late>>
         /\ mic' = [mic EXCEPT ![p] = IF @ = "off" THEN "off" ELSE "live"]
      BY <2>b DEF Heard, Done, Enabled
    <3>0. op' \in [Panels -> Operation]
      BY <2>b, Retarget DEF TypeOK, Steps, Idle, Operation
    <3>1. TypeOK'
      BY <3>0, <2>b DEF TypeOK, StatusWords
    <3>2. OneOpenCall'
      BY <2>b DEF OneOpenCall, TypeOK
    <3>3. ActiveIsOwned'
      BY <2>b DEF ActiveIsOwned, TypeOK, Held
    <3>4. Held'
      BY <2>b DEF Held, TypeOK, ActiveIsOwned, MicAccounted, AbsentUnowned, Idle
    <3>5. AbsentUnowned'
      BY <2>b DEF AbsentUnowned, TypeOK, Held
    <3>6. HeardOnlyOnACall'
      BY <2>b DEF HeardOnlyOnACall, TypeOK, Held, MicAccounted
    <3>7. MicAccounted'
      BY <2>b DEF MicAccounted, TypeOK, Held, Idle
    <3>. QED  BY <3>1, <3>2, <3>3, <3>4, <3>5, <3>6, <3>7 DEF IInv
  <2>c. CASE Runs(p) /\ Heard(p, act) /\ act = "reject"
    <3>. op[p].kind \in {"reject", "end"}
      BY <2>c DEF Held
    <3>. op' = [op EXCEPT ![p] = Idle] /\ UNCHANGED <<active, mic, muted, late>>
      BY <2>c DEF Heard, Done, media
    <3>0. op' \in [Panels -> Operation]
      BY <2>c DEF TypeOK, Operation, Steps, Idle
    <3>1. TypeOK'
      BY <3>0, <2>c DEF TypeOK, StatusWords
    <3>2. OneOpenCall'
      BY <2>c DEF OneOpenCall, TypeOK
    <3>3. ActiveIsOwned'
      BY <2>c DEF ActiveIsOwned, TypeOK, Held
    <3>4. Held'
      BY <2>c DEF Held, TypeOK, ActiveIsOwned, MicAccounted, AbsentUnowned, Idle
    <3>5. AbsentUnowned'
      BY <2>c DEF AbsentUnowned, TypeOK, Held
    <3>6. HeardOnlyOnACall'
      BY <2>c DEF HeardOnlyOnACall, TypeOK, Held, MicAccounted
    <3>7. MicAccounted'
      BY <2>c DEF MicAccounted, TypeOK, Held, Idle
    <3>. QED  BY <3>1, <3>2, <3>3, <3>4, <3>5, <3>6, <3>7 DEF IInv
  <2>d. CASE Runs(p) /\ Heard(p, act) /\ act \in {"end", "cleanup"}
    <3>. /\ op' = [op EXCEPT ![p] = Idle] /\ active' = [active EXCEPT ![p] = Nobody]
         /\ mic' = [mic EXCEPT ![p] = "off"] /\ muted' = [muted EXCEPT ![p] = FALSE]
         /\ UNCHANGED late
      BY <2>d DEF Heard, Done, closeAudio
    <3>0. op' \in [Panels -> Operation]
      BY <2>d DEF TypeOK, Operation, Steps, Idle
    <3>1. TypeOK'
      BY <3>0, <2>d DEF TypeOK, StatusWords
    <3>2. OneOpenCall'
      BY <2>d DEF OneOpenCall, TypeOK
    <3>3. ActiveIsOwned'
      BY <2>d DEF ActiveIsOwned, TypeOK, Held
    <3>4. Held'
      BY <2>d DEF Held, TypeOK, ActiveIsOwned, MicAccounted, AbsentUnowned, Idle
    <3>5. AbsentUnowned'
      BY <2>d DEF AbsentUnowned, TypeOK, Held
    <3>6. HeardOnlyOnACall'
      BY <2>d DEF HeardOnlyOnACall, TypeOK, Held, MicAccounted
    <3>7. MicAccounted'
      BY <2>d DEF MicAccounted, TypeOK, Held, Idle
    <3>. QED  BY <3>1, <3>2, <3>3, <3>4, <3>5, <3>6, <3>7 DEF IInv
  <2>e. CASE act # "cleanup" /\ Goto(p, "refused") /\ UNCHANGED media
    <3>. op' = [op EXCEPT ![p].step = "refused"] /\ UNCHANGED <<active, mic, muted, late>>
      BY <2>e DEF Goto, media
    <3>0. op' \in [Panels -> Operation]
      BY <2>e, Retarget DEF TypeOK, Steps, Idle, Operation
    <3>1. TypeOK'
      BY <3>0, <2>e DEF TypeOK, StatusWords
    <3>2. OneOpenCall'
      BY <2>e DEF OneOpenCall, TypeOK
    <3>3. ActiveIsOwned'
      BY <2>e DEF ActiveIsOwned, TypeOK, Held
    <3>4. Held'
      BY <2>e DEF Held, TypeOK, ActiveIsOwned, MicAccounted, AbsentUnowned, Idle
    <3>5. AbsentUnowned'
      BY <2>e DEF AbsentUnowned, TypeOK, Held
    <3>6. HeardOnlyOnACall'
      BY <2>e DEF HeardOnlyOnACall, TypeOK, Held, MicAccounted
    <3>7. MicAccounted'
      BY <2>e DEF MicAccounted, TypeOK, Held, Idle
    <3>. QED  BY <3>1, <3>2, <3>3, <3>4, <3>5, <3>6, <3>7 DEF IInv
  <2>. QED  BY <1>7, <2>a, <2>b, <2>c, <2>d, <2>e DEF Act
<1>8. CASE ActUnknown(p)
  <2>1. TypeOK'
    <3>1. /\ status' \in [Calls -> StatusWords] /\ ended' \in [Calls -> BOOLEAN]
          /\ waId' \in [Calls -> BOOLEAN] /\ owner' \in [Calls -> Panels \union {Nobody}]
          /\ line' \in [Calls -> {"none", "live", "over"}]
          /\ parting' \subseteq Operators \X Calls
      BY <1>8 DEF StatusWords, Held, ActiveIsOwned, ActUnknown, Actable, OpenOf, OwnedBy, Goto, TypeOK, Steps, StatusWords, Operation, Idle, rows, media
    <3>2. op' \in [Panels -> Operation]
      BY <1>8 DEF Operation, Held, ActUnknown, Actable, OpenOf, OwnedBy, Goto, TypeOK, Steps, StatusWords, Operation, Idle, rows, media
    <3>3. /\ active' \in [Panels -> Calls \union {Nobody}]
          /\ mic' \in [Panels -> {"off", "silent", "live"}]
          /\ muted' \in [Panels -> BOOLEAN] /\ late' \subseteq Panels
          /\ page' \in [Panels -> {"open", "unmounted", "closed"}]
      BY <1>8 DEF ActUnknown, Actable, OpenOf, OwnedBy, Goto, TypeOK, Steps, StatusWords, Operation, Idle, rows, media
    <3>. QED  BY <3>1, <3>2, <3>3 DEF TypeOK
  <2>2. OneOpenCall'
    BY <1>8 DEF OneOpenCall, TypeOK, rows, media, ActUnknown, Actable, OpenOf, OwnedBy, Goto
  <2>3. ActiveIsOwned'
    BY <1>8 DEF ActiveIsOwned, TypeOK, Held, rows, media, ActUnknown, Actable, OpenOf, OwnedBy, Goto
  <2>4. Held'
    BY <1>8 DEF Held, TypeOK, ActiveIsOwned, MicAccounted, AbsentUnowned, Idle, rows, media, ActUnknown, Actable, OpenOf, OwnedBy, Goto
  <2>5. AbsentUnowned'
    BY <1>8 DEF AbsentUnowned, TypeOK, Held, rows, media, ActUnknown, Actable, OpenOf, OwnedBy, Goto
  <2>6. HeardOnlyOnACall'
    BY <1>8 DEF HeardOnlyOnACall, TypeOK, Held, MicAccounted, rows, media, ActUnknown, Actable, OpenOf, OwnedBy, Goto
  <2>7. MicAccounted'
    BY <1>8 DEF MicAccounted, TypeOK, Held, Idle, rows, media, ActUnknown, Actable, OpenOf, OwnedBy, Goto
  <2>. QED  BY <2>1, <2>2, <2>3, <2>4, <2>5, <2>6, <2>7 DEF IInv
<1>9. CASE Refused(p)
  <2>1. TypeOK'
    <3>1. /\ status' \in [Calls -> StatusWords] /\ ended' \in [Calls -> BOOLEAN]
          /\ waId' \in [Calls -> BOOLEAN] /\ owner' \in [Calls -> Panels \union {Nobody}]
          /\ line' \in [Calls -> {"none", "live", "over"}]
          /\ parting' \subseteq Operators \X Calls
      BY <1>9 DEF StatusWords, Held, ActiveIsOwned, Refused, Runs, Goto, TypeOK, Steps, StatusWords, Operation, Idle, rows, media
    <3>2. op' \in [Panels -> Operation]
      BY <1>9 DEF Operation, Held, Refused, Runs, Goto, TypeOK, Steps, StatusWords, Operation, Idle, rows, media
    <3>3. /\ active' \in [Panels -> Calls \union {Nobody}]
          /\ mic' \in [Panels -> {"off", "silent", "live"}]
          /\ muted' \in [Panels -> BOOLEAN] /\ late' \subseteq Panels
          /\ page' \in [Panels -> {"open", "unmounted", "closed"}]
      BY <1>9 DEF Refused, Runs, Goto, TypeOK, Steps, StatusWords, Operation, Idle, rows, media
    <3>. QED  BY <3>1, <3>2, <3>3 DEF TypeOK
  <2>2. OneOpenCall'
    BY <1>9 DEF OneOpenCall, TypeOK, rows, media, Refused, Runs, Goto
  <2>3. ActiveIsOwned'
    BY <1>9 DEF ActiveIsOwned, TypeOK, Held, rows, media, Refused, Runs, Goto
  <2>4. Held'
    BY <1>9 DEF Held, TypeOK, ActiveIsOwned, MicAccounted, AbsentUnowned, Idle, rows, media, Refused, Runs, Goto
  <2>5. AbsentUnowned'
    BY <1>9 DEF AbsentUnowned, TypeOK, Held, rows, media, Refused, Runs, Goto
  <2>6. HeardOnlyOnACall'
    BY <1>9 DEF HeardOnlyOnACall, TypeOK, Held, MicAccounted, rows, media, Refused, Runs, Goto
  <2>7. MicAccounted'
    BY <1>9 DEF MicAccounted, TypeOK, Held, Idle, rows, media, Refused, Runs, Goto
  <2>. QED  BY <2>1, <2>2, <2>3, <2>4, <2>5, <2>6, <2>7 DEF IInv
<1>10. CASE CleanupLost(p)
  <2>1. TypeOK'
    <3>1. /\ status' \in [Calls -> StatusWords] /\ ended' \in [Calls -> BOOLEAN]
          /\ waId' \in [Calls -> BOOLEAN] /\ owner' \in [Calls -> Panels \union {Nobody}]
          /\ line' \in [Calls -> {"none", "live", "over"}]
          /\ parting' \subseteq Operators \X Calls
      BY <1>10 DEF StatusWords, Held, ActiveIsOwned, CleanupLost, closeAudio, Done, TypeOK, Steps, StatusWords, Operation, Idle, rows, media
    <3>2. op' \in [Panels -> Operation]
      BY <1>10 DEF Operation, Held, CleanupLost, closeAudio, Done, TypeOK, Steps, StatusWords, Operation, Idle, rows, media
    <3>3. /\ active' \in [Panels -> Calls \union {Nobody}]
          /\ mic' \in [Panels -> {"off", "silent", "live"}]
          /\ muted' \in [Panels -> BOOLEAN] /\ late' \subseteq Panels
          /\ page' \in [Panels -> {"open", "unmounted", "closed"}]
      BY <1>10 DEF CleanupLost, closeAudio, Done, TypeOK, Steps, StatusWords, Operation, Idle, rows, media
    <3>. QED  BY <3>1, <3>2, <3>3 DEF TypeOK
  <2>2. OneOpenCall'
    BY <1>10 DEF OneOpenCall, TypeOK, rows, media, CleanupLost, closeAudio, Done
  <2>3. ActiveIsOwned'
    BY <1>10 DEF ActiveIsOwned, TypeOK, Held, rows, media, CleanupLost, closeAudio, Done
  <2>4. Held'
    BY <1>10 DEF Held, TypeOK, ActiveIsOwned, MicAccounted, AbsentUnowned, Idle, rows, media, CleanupLost, closeAudio, Done
  <2>5. AbsentUnowned'
    BY <1>10 DEF AbsentUnowned, TypeOK, Held, rows, media, CleanupLost, closeAudio, Done
  <2>6. HeardOnlyOnACall'
    BY <1>10 DEF HeardOnlyOnACall, TypeOK, Held, MicAccounted, rows, media, CleanupLost, closeAudio, Done
  <2>7. MicAccounted'
    BY <1>10 DEF MicAccounted, TypeOK, Held, Idle, rows, media, CleanupLost, closeAudio, Done
  <2>. QED  BY <2>1, <2>2, <2>3, <2>4, <2>5, <2>6, <2>7 DEF IInv
<1>. QED  BY <1>1, <1>2, <1>3, <1>4, <1>5, <1>6, <1>7, <1>8, <1>9, <1>10 DEF Served

\* What a terminate sent without waiting for its answer does.
LEMMA PartingKeeps ==
  ASSUME IInv, NEW o \in Operators, NEW c \in Calls, Parting(o, c)
  PROVE  IInv'
<1>. USE CallsAssumption
<1>. TypeOK /\ OneOpenCall /\ ActiveIsOwned /\ Held /\ AbsentUnowned /\ HeardOnlyOnACall /\ MicAccounted
  BY DEF IInv
<1>1. CASE ServeParting(o, c)
  <2>1. TypeOK'
    <3>1. /\ status' \in [Calls -> StatusWords] /\ ended' \in [Calls -> BOOLEAN]
          /\ line' \in [Calls -> {"none", "live", "over"}]
      <4>1. CASE Written(c, "end")
        BY <4>1 DEF TypeOK, StatusWords, Written
      <4>2. CASE UNCHANGED <<status, ended, line>>
        BY <4>2 DEF TypeOK
      <4>. QED  BY <1>1, <4>1, <4>2 DEF ServeParting
    <3>2. parting' \subseteq Operators \X Calls
      BY <1>1 DEF TypeOK, ServeParting
    <3>3. UNCHANGED <<waId, owner, page, op, active, mic, muted, late>>
      BY <1>1 DEF ServeParting, panels
    <3>. QED  BY <3>1, <3>2, <3>3 DEF TypeOK
  <2>2. OneOpenCall'
    BY <1>1 DEF OneOpenCall, TypeOK, rows, media, ServeParting, Actable, OpenOf, OwnedBy, Written, panels
  <2>3. ActiveIsOwned'
    BY <1>1 DEF ActiveIsOwned, TypeOK, Held, rows, media, ServeParting, Actable, OpenOf, OwnedBy, Written, panels
  <2>4. Held'
    BY <1>1 DEF Held, TypeOK, ActiveIsOwned, MicAccounted, AbsentUnowned, Idle, rows, media, ServeParting, Actable, OpenOf, OwnedBy, Written, panels
  <2>5. AbsentUnowned'
    BY <1>1 DEF AbsentUnowned, TypeOK, Held, rows, media, ServeParting, Actable, OpenOf, OwnedBy, Written, panels
  <2>6. HeardOnlyOnACall'
    BY <1>1 DEF HeardOnlyOnACall, TypeOK, Held, MicAccounted, rows, media, ServeParting, Actable, OpenOf, OwnedBy, Written, panels
  <2>7. MicAccounted'
    BY <1>1 DEF MicAccounted, TypeOK, Held, Idle, rows, media, ServeParting, Actable, OpenOf, OwnedBy, Written, panels
  <2>. QED  BY <2>1, <2>2, <2>3, <2>4, <2>5, <2>6, <2>7 DEF IInv
<1>2. CASE LoseParting(o, c)
  <2>1. TypeOK'
    BY <1>2 DEF TypeOK, Steps, Idle, StatusWords, Operation, rows, media, LoseParting, panels
  <2>2. OneOpenCall'
    BY <1>2 DEF OneOpenCall, TypeOK, rows, media, LoseParting, panels
  <2>3. ActiveIsOwned'
    BY <1>2 DEF ActiveIsOwned, TypeOK, Held, rows, media, LoseParting, panels
  <2>4. Held'
    BY <1>2 DEF Held, TypeOK, ActiveIsOwned, MicAccounted, AbsentUnowned, Idle, rows, media, LoseParting, panels
  <2>5. AbsentUnowned'
    BY <1>2 DEF AbsentUnowned, TypeOK, Held, rows, media, LoseParting, panels
  <2>6. HeardOnlyOnACall'
    BY <1>2 DEF HeardOnlyOnACall, TypeOK, Held, MicAccounted, rows, media, LoseParting, panels
  <2>7. MicAccounted'
    BY <1>2 DEF MicAccounted, TypeOK, Held, Idle, rows, media, LoseParting, panels
  <2>. QED  BY <2>1, <2>2, <2>3, <2>4, <2>5, <2>6, <2>7 DEF IInv
<1>. QED  BY <1>1, <1>2 DEF Parting

\* What Meta and its webhooks do.
LEMMA MetaKeeps ==
  ASSUME IInv, NEW c \in Calls, Meta(c)
  PROVE  IInv'
<1>. USE CallsAssumption
<1>. TypeOK /\ OneOpenCall /\ ActiveIsOwned /\ Held /\ AbsentUnowned /\ HeardOnlyOnACall /\ MicAccounted
  BY DEF IInv
<1>1. CASE ContactCalls(c)
  <2>1. TypeOK'
    BY <1>1 DEF TypeOK, Steps, Idle, StatusWords, Operation, rows, media, ContactCalls, panels
  <2>2. OneOpenCall'
    BY <1>1 DEF OneOpenCall, TypeOK, rows, media, ContactCalls, panels
  <2>3. ActiveIsOwned'
    BY <1>1 DEF ActiveIsOwned, TypeOK, Held, rows, media, ContactCalls, panels
  <2>4. Held'
    BY <1>1 DEF Held, TypeOK, ActiveIsOwned, MicAccounted, AbsentUnowned, Idle, rows, media, ContactCalls, panels
  <2>5. AbsentUnowned'
    BY <1>1 DEF AbsentUnowned, TypeOK, Held, rows, media, ContactCalls, panels
  <2>6. HeardOnlyOnACall'
    BY <1>1 DEF HeardOnlyOnACall, TypeOK, Held, MicAccounted, rows, media, ContactCalls, panels
  <2>7. MicAccounted'
    BY <1>1 DEF MicAccounted, TypeOK, Held, Idle, rows, media, ContactCalls, panels
  <2>. QED  BY <2>1, <2>2, <2>3, <2>4, <2>5, <2>6, <2>7 DEF IInv
<1>2. CASE ContactEnds(c)
  <2>1. TypeOK'
    BY <1>2 DEF TypeOK, Steps, Idle, StatusWords, Operation, rows, media, ContactEnds, panels
  <2>2. OneOpenCall'
    BY <1>2 DEF OneOpenCall, TypeOK, rows, media, ContactEnds, panels
  <2>3. ActiveIsOwned'
    BY <1>2 DEF ActiveIsOwned, TypeOK, Held, rows, media, ContactEnds, panels
  <2>4. Held'
    BY <1>2 DEF Held, TypeOK, ActiveIsOwned, MicAccounted, AbsentUnowned, Idle, rows, media, ContactEnds, panels
  <2>5. AbsentUnowned'
    BY <1>2 DEF AbsentUnowned, TypeOK, Held, rows, media, ContactEnds, panels
  <2>6. HeardOnlyOnACall'
    BY <1>2 DEF HeardOnlyOnACall, TypeOK, Held, MicAccounted, rows, media, ContactEnds, panels
  <2>7. MicAccounted'
    BY <1>2 DEF MicAccounted, TypeOK, Held, Idle, rows, media, ContactEnds, panels
  <2>. QED  BY <2>1, <2>2, <2>3, <2>4, <2>5, <2>6, <2>7 DEF IInv
<1>3. CASE HookConnect(c)
  <2>1. TypeOK'
    BY <1>3 DEF TypeOK, Steps, Idle, StatusWords, Operation, rows, media, HookConnect, panels
  <2>2. OneOpenCall'
    BY <1>3 DEF OneOpenCall, TypeOK, rows, media, HookConnect, panels
  <2>3. ActiveIsOwned'
    BY <1>3 DEF ActiveIsOwned, TypeOK, Held, rows, media, HookConnect, panels
  <2>4. Held'
    BY <1>3 DEF Held, TypeOK, ActiveIsOwned, MicAccounted, AbsentUnowned, Idle, rows, media, HookConnect, panels
  <2>5. AbsentUnowned'
    BY <1>3 DEF AbsentUnowned, TypeOK, Held, rows, media, HookConnect, panels
  <2>6. HeardOnlyOnACall'
    BY <1>3 DEF HeardOnlyOnACall, TypeOK, Held, MicAccounted, rows, media, HookConnect, panels
  <2>7. MicAccounted'
    BY <1>3 DEF MicAccounted, TypeOK, Held, Idle, rows, media, HookConnect, panels
  <2>. QED  BY <2>1, <2>2, <2>3, <2>4, <2>5, <2>6, <2>7 DEF IInv
<1>4. CASE HookTerminate(c)
  <2>1. TypeOK'
    BY <1>4 DEF TypeOK, Steps, Idle, StatusWords, Operation, rows, media, HookTerminate, panels
  <2>2. OneOpenCall'
    BY <1>4 DEF OneOpenCall, TypeOK, rows, media, HookTerminate, panels
  <2>3. ActiveIsOwned'
    BY <1>4 DEF ActiveIsOwned, TypeOK, Held, rows, media, HookTerminate, panels
  <2>4. Held'
    BY <1>4 DEF Held, TypeOK, ActiveIsOwned, MicAccounted, AbsentUnowned, Idle, rows, media, HookTerminate, panels
  <2>5. AbsentUnowned'
    BY <1>4 DEF AbsentUnowned, TypeOK, Held, rows, media, HookTerminate, panels
  <2>6. HeardOnlyOnACall'
    BY <1>4 DEF HeardOnlyOnACall, TypeOK, Held, MicAccounted, rows, media, HookTerminate, panels
  <2>7. MicAccounted'
    BY <1>4 DEF MicAccounted, TypeOK, Held, Idle, rows, media, HookTerminate, panels
  <2>. QED  BY <2>1, <2>2, <2>3, <2>4, <2>5, <2>6, <2>7 DEF IInv
<1>5. CASE \E s \in {"ringing", "accepted", "rejected"} : HookStatus(c, s)
  <2>1. TypeOK'
    BY <1>5 DEF TypeOK, Steps, Idle, StatusWords, Operation, rows, media, HookStatus, panels
  <2>2. OneOpenCall'
    BY <1>5 DEF OneOpenCall, TypeOK, rows, media, HookStatus, panels
  <2>3. ActiveIsOwned'
    BY <1>5 DEF ActiveIsOwned, TypeOK, Held, rows, media, HookStatus, panels
  <2>4. Held'
    BY <1>5 DEF Held, TypeOK, ActiveIsOwned, MicAccounted, AbsentUnowned, Idle, rows, media, HookStatus, panels
  <2>5. AbsentUnowned'
    BY <1>5 DEF AbsentUnowned, TypeOK, Held, rows, media, HookStatus, panels
  <2>6. HeardOnlyOnACall'
    BY <1>5 DEF HeardOnlyOnACall, TypeOK, Held, MicAccounted, rows, media, HookStatus, panels
  <2>7. MicAccounted'
    BY <1>5 DEF MicAccounted, TypeOK, Held, Idle, rows, media, HookStatus, panels
  <2>. QED  BY <2>1, <2>2, <2>3, <2>4, <2>5, <2>6, <2>7 DEF IInv
<1>. QED  BY <1>1, <1>2, <1>3, <1>4, <1>5 DEF Meta

(***************************************************************************)
(* For every number of panels, operators and calls: types, one open call   *)
(* per operator, a panel's call is the server's, and the microphones.      *)
(***************************************************************************)
THEOREM Invariance == Spec => []IInv
<1>1. IInv /\ [Next]_vars => IInv'
  <2>. SUFFICES ASSUME IInv, [Next]_vars  PROVE IInv'
    OBVIOUS
  <2>1. ASSUME NEW p \in Panels, Panel(p)  PROVE IInv'
    BY <2>1, PanelKeeps
  <2>2. ASSUME NEW p \in Panels, Served(p)  PROVE IInv'
    BY <2>2, ServedKeeps
  <2>3. ASSUME NEW o \in Operators, NEW c \in Calls, Parting(o, c)  PROVE IInv'
    BY <2>3, PartingKeeps
  <2>4. ASSUME NEW c \in Calls, Meta(c)  PROVE IInv'
    BY <2>4, MetaKeeps
  <2>5. CASE UNCHANGED vars
    BY <2>5 DEF vars, IInv, TypeOK, OneOpenCall, ActiveIsOwned, Held, AbsentUnowned,
                HeardOnlyOnACall, MicAccounted
  <2>. QED  BY <2>1, <2>2, <2>3, <2>4, <2>5 DEF Next
<1>. QED  BY <1>1, InitHolds, PTL DEF Spec

(***************************************************************************)
(* An operator never has two calls that are not over.                      *)
(***************************************************************************)
THEOREM OneCallAtATime == Spec => []OneOpenCall
BY Invariance, PTL DEF IInv

(***************************************************************************)
(* A panel is on a call only if the server gave it to that tab.            *)
(***************************************************************************)
THEOREM PanelsAgreeWithServer == Spec => []ActiveIsOwned
BY Invariance, PTL DEF IInv

(***************************************************************************)
(* An open panel is heard only while it is on a call, one that went away   *)
(* only if its browser gave it the microphone afterwards, and an open and  *)
(* quiet panel has let go of it.                                           *)
(***************************************************************************)
THEOREM Microphones == Spec => []HeardOnlyOnACall /\ []QuietIsSilent
<1>1. IInv => HeardOnlyOnACall /\ QuietIsSilent
  BY DEF IInv, HeardOnlyOnACall, QuietIsSilent, MicAccounted, Idle
<1>. QED  BY <1>1, Invariance, PTL

\* What a step may do to the rows of calls that are over or taken.
LEMMA StepsStay ==
  ASSUME IInv, Next, NEW c \in Calls
  PROVE  (ended[c] => ended'[c]) /\ (owner[c] # Nobody => owner'[c] = owner[c])
<1>. TypeOK /\ Held /\ AbsentUnowned
  BY DEF IInv
<1>1. ASSUME NEW p \in Panels, Panel(p)  PROVE UNCHANGED rows
  BY <1>1 DEF Panel, start, answer, reject, end, Press, prepare, prepareFails, Connected,
              Claimed, Fails, Mute, load, PeerFails, Unmount, Leave, rows
<1>2. ASSUME NEW p \in Panels, Served(p)
      PROVE  (ended[c] => ended'[c]) /\ (owner[c] # Nobody => owner'[c] = owner[c])
  <2>1. ASSUME NEW d \in Calls, Insert(p, d)  PROVE UNCHANGED ended /\ owner[d] = Nobody
    BY <2>1 DEF Insert, AbsentUnowned
  <2>2. CASE \E d \in Calls : Insert(p, d)
    BY <2>1, <2>2 DEF Insert, TypeOK
  <2>3. CASE Claim(p)
    BY <2>3 DEF Claim, MayClaim, TypeOK
  <2>4. CASE MetaRefused(p)
    BY <2>4 DEF MetaRefused, TypeOK
  <2>5. CASE Act(p)
    <3>1. ~ended[op[p].call] /\ Written(op[p].call, op[p].step) /\ UNCHANGED owner
      BY <2>5 DEF Act, Actable, OpenOf
    <3>. QED  BY <3>1 DEF Written, TypeOK
  <2>6. CASE MetaTakes(p) \/ MetaStarted(p) \/ (\E noted \in BOOLEAN : MetaUnknown(p, noted))
    BY <2>6 DEF MetaTakes, MetaStarted, MetaUnknown, rows
  <2>7. CASE ActUnknown(p) \/ Refused(p) \/ CleanupLost(p)
    BY <2>7 DEF ActUnknown, Refused, CleanupLost, rows
  <2>. QED  BY <1>2, <2>2, <2>3, <2>4, <2>5, <2>6, <2>7 DEF Served
<1>3. ASSUME NEW o \in Operators, NEW d \in Calls, Parting(o, d)
      PROVE  (ended[c] => ended'[c]) /\ UNCHANGED owner
  BY <1>3 DEF Parting, ServeParting, LoseParting, Actable, OpenOf, Written, TypeOK, rows
<1>4. ASSUME NEW d \in Calls, Meta(d)
      PROVE  (ended[c] => ended'[c]) /\ UNCHANGED owner
  BY <1>4 DEF Meta, ContactCalls, ContactEnds, HookConnect, HookTerminate, HookStatus, TypeOK, rows
<1>. QED  BY <1>1, <1>2, <1>3, <1>4 DEF Next, rows

(***************************************************************************)
(* A call that is over stays over, and stays with the tab it was given to. *)
(***************************************************************************)
THEOREM OverAndOwned == Spec => OverAndOwnedStay
<1>1. IInv /\ [Next]_vars =>
        [\A c \in Calls : /\ ended[c] => ended'[c]
                          /\ owner[c] # Nobody => owner'[c] = owner[c]]_vars
  BY StepsStay
<1>. QED  BY <1>1, Invariance, PTL DEF Spec, OverAndOwnedStay

\* What a step may write over the status of an outgoing call that was answered.
LEMMA StepsAnswered ==
  ASSUME IInv, Next, NEW c \in Outbound, status[c] = "accepted"
  PROVE  \/ status'[c] \in {"accepted", "over"}
         \/ \E p \in Panels : MetaUnknown(p, TRUE) /\ op[p].call = c
<1>. TypeOK /\ Held /\ AbsentUnowned /\ c \in Calls /\ c \notin Inbound
  BY CallsAssumption DEF IInv, Calls
<1>1. ASSUME NEW p \in Panels, Panel(p)  PROVE UNCHANGED rows
  BY <1>1 DEF Panel, start, answer, reject, end, Press, prepare, prepareFails, Connected,
              Claimed, Fails, Mute, load, PeerFails, Unmount, Leave, rows
<1>2. ASSUME NEW p \in Panels, Served(p)
      PROVE  status'[c] \in {"accepted", "over"} \/ (MetaUnknown(p, TRUE) /\ op[p].call = c)
  <2>1. ASSUME NEW d \in Calls, Insert(p, d)  PROVE status'[c] = "accepted"
    BY <2>1 DEF Insert, TypeOK
  <2>2. CASE MetaRefused(p)
    BY <2>2 DEF MetaRefused, TypeOK
  <2>6. ASSUME NEW noted \in BOOLEAN, MetaUnknown(p, noted)
        PROVE  status'[c] = "accepted" \/ (MetaUnknown(p, TRUE) /\ op[p].call = c)
    <3>1. CASE noted = FALSE
      BY <2>6, <3>1 DEF MetaUnknown
    <3>2. CASE noted = TRUE
      <4>1. status' = [status EXCEPT ![op[p].call] = "uncertain"]
        BY <2>6, <3>2 DEF MetaUnknown
      <4> QED BY <2>6, <3>2, <4>1 DEF TypeOK
    <3> QED BY <3>1, <3>2
  <2>3. CASE Act(p)
    <3>1. op[p].call \in Calls /\ Written(op[p].call, op[p].step)
      BY <2>3 DEF Act, Actable, OpenOf, OwnedBy
    <3>2. CASE op[p].call = c
      <4>1. op[p].step \in {"reject", "end", "cleanup"}
        BY <2>3, <3>2 DEF Act, Held
      <4>. QED  BY <3>1, <3>2, <4>1 DEF Written, TypeOK
    <3>3. CASE op[p].call # c
      BY <3>1, <3>3 DEF Written, TypeOK
    <3>. QED  BY <3>2, <3>3
  <2>4. CASE MetaTakes(p) \/ MetaStarted(p) \/ Claim(p)
    BY <2>4 DEF MetaTakes, MetaStarted, Claim, rows
  <2>5. CASE ActUnknown(p) \/ Refused(p) \/ CleanupLost(p)
    BY <2>5 DEF ActUnknown, Refused, CleanupLost, rows
  <2>. QED  BY <1>2, <2>1, <2>2, <2>3, <2>4, <2>5, <2>6 DEF Served
<1>3. ASSUME NEW o \in Operators, NEW d \in Calls, Parting(o, d)
      PROVE  status'[c] \in {"accepted", "over"}
  BY <1>3 DEF Parting, ServeParting, LoseParting, Written, TypeOK, rows
<1>4. ASSUME NEW d \in Calls, Meta(d)  PROVE status'[c] \in {"accepted", "over"}
  <2>1. CASE \E s \in {"ringing", "accepted", "rejected"} : HookStatus(d, s)
    BY <2>1 DEF HookStatus, Believes, TypeOK
  <2>2. CASE ContactCalls(d) \/ ContactEnds(d) \/ HookConnect(d) \/ HookTerminate(d)
    BY <2>2 DEF ContactCalls, ContactEnds, HookConnect, HookTerminate, TypeOK, rows
  <2>. QED  BY <1>4, <2>1, <2>2 DEF Meta
<1>. QED  BY <1>1, <1>2, <1>3, <1>4 DEF Next, rows

(***************************************************************************)
(* An outgoing call that was answered stays so until it is over, in        *)
(* whatever order the status webhooks arrive (WhatsAppCalling::ingest), or *)
(* until the request that placed it loses its answer and writes            *)
(* "uncertain" over it (WhatsAppCallController::connect).                  *)
(***************************************************************************)
THEOREM Answered == Spec => AnsweredStays
<1>1. IInv /\ [Next]_vars =>
        [\A c \in Outbound :
           status[c] = "accepted" /\ status'[c] # status[c] =>
             \/ status'[c] = "over"
             \/ \E p \in Panels : MetaUnknown(p, TRUE) /\ op[p].call = c]_vars
  BY StepsAnswered
<1>. QED  BY <1>1, Invariance, PTL DEF Spec, AnsweredStays
=============================================================================
