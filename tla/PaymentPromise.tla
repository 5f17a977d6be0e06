--------------------------- MODULE PaymentPromise ---------------------------
(***************************************************************************)
(* What an online payment promises, whatever provider takes it: money that *)
(* was taken either buys the room, once and for good, or goes back.        *)
(***************************************************************************)

VARIABLES
  room,         \* "none", "held", "booked", "gone"
  money         \* "none", "taken", "kept", "owed", "returned"

vars == <<room, money>>

Init == room = "none" /\ money = "none"

Hold == room = "none" /\ room' = "held" /\ UNCHANGED money

(* The guest pays; this may be at any time, also when the room is gone.    *)
Take == money = "none" /\ money' = "taken" /\ UNCHANGED room

(* The money buys the room in one step with recording it.                  *)
Keep ==
  /\ room = "held" /\ money = "taken"
  /\ room' = "booked" /\ money' = "kept"

(* It came too late: the room is given up and the money is owed back.      *)
Owe ==
  /\ room \in {"held", "gone"} /\ money = "taken"
  /\ room' = "gone" /\ money' = "owed"

Return == money = "owed" /\ money' = "returned" /\ UNCHANGED room

(* A hold ends with nothing recorded; a booked stay ends and stays paid.   *)
Leave == room \in {"held", "booked"} /\ room' = "gone" /\ UNCHANGED money

Next == Hold \/ Take \/ Keep \/ Owe \/ Return \/ Leave

Spec == Init /\ [][Next]_vars

=============================================================================
