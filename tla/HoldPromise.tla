---------------------------- MODULE HoldPromise ----------------------------
(***************************************************************************)
(* What the website promises the guest, and the next guest, about every    *)
(* booking.  A reservation withholds a room (held), its withholding can be *)
(* renewed once, for the payment; from there it is booked or it is gone.   *)
(* Once it has lapsed, others may have been told the room is free, so      *)
(* nothing that happens later - money, a retry, a late answer - may bring  *)
(* it back.                                                                *)
(***************************************************************************)
EXTENDS Naturals

CONSTANT Ids
VARIABLES
  promise,    \* what the hotel owes each booking
  deadline    \* until when an unpaid booking is owed a room

vars == <<promise, deadline>>

Promises == {"none", "held", "renewed", "lapsed", "booked", "ended"}

(* none to booked is a sale at the hotel's own desk; none to lapsed is a   *)
(* reservation whose transaction outlasted the hold it was writing.        *)
Moves ==
  ({"none"} \X {"held", "lapsed", "booked"}) \cup {<<"held", "renewed">>}
    \cup ({"held", "renewed"} \X {"booked", "lapsed", "ended"})
    \cup ({"lapsed", "booked"} \X {"ended"})

Init ==
  /\ promise = [b \in Ids |-> "none"]
  /\ deadline = [b \in Ids |-> 0]

(* One transaction may move several bookings: a reservation grants its own *)
(* hold and ends the lapsed ones.  A deadline is final once it is renewed. *)
Next ==
  /\ promise' \in [Ids -> Promises]
  /\ deadline' \in [Ids -> Nat]
  /\ \A b \in Ids :
       /\ \/ promise'[b] = promise[b]
          \/ <<promise[b], promise'[b]>> \in Moves
       /\ \/ deadline'[b] = deadline[b]
          \/ promise[b] \in {"none", "held"} /\ promise'[b] # promise[b]

Spec == Init /\ [][Next]_vars

=============================================================================
