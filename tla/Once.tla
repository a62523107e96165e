-------------------------------- MODULE Once --------------------------------
(***************************************************************************)
(* What EnforceIdempotency promises the requests that carry a key: the     *)
(* work behind a key is done at most once, and whoever is told a result is *)
(* told that one.                                                          *)
(***************************************************************************)
CONSTANTS Keys, Results, None

VARIABLES made, told

Init ==
  /\ made = [k \in Keys |-> None]
  /\ told = [k \in Keys |-> None]

Make(k, r) ==
  /\ made[k] = None
  /\ made' = [made EXCEPT ![k] = r]
  /\ UNCHANGED told

Tell(k) ==
  /\ made[k] # None
  /\ told' = [told EXCEPT ![k] = made[k]]
  /\ UNCHANGED made

Next == \E k \in Keys : Tell(k) \/ \E r \in Results : Make(k, r)

Spec == Init /\ [][Next]_<<made, told>>
=============================================================================
