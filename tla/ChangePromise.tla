--------------------------- MODULE ChangePromise ---------------------------
(***************************************************************************)
(* What booking management promises a guest.  An offer takes the booking   *)
(* from the version the guest was looking at to another one; it is taken   *)
(* up at most once, only while the booking still is that version, and then *)
(* the booking becomes exactly what was offered.  A cancellation is of the *)
(* revision the guest was looking at.  A key stands for one operation: to  *)
(* repeat it is to be told of that operation, and to ask for another one   *)
(* under it is to be told nothing.                                         *)
(***************************************************************************)
EXTENDS Naturals, FiniteSets

CONSTANTS Keys, Offers, Plans, Totals, None

VARIABLES
  version,    \* what the booking is
  offers,     \* what each offer takes it from and to
  done,       \* the operation of each key
  told        \* the operations guests were told had been done

vars == <<version, offers, done, told>>

Versions == [plan : Plans, total : Totals,
             status : {"CONFIRMED", "CHECKED_IN", "CHECKED_OUT", "CANCELLED"}]

Init ==
  /\ version \in {v \in Versions : v.status = "CONFIRMED"}
  /\ offers = [u \in Offers |-> None]
  /\ done = [k \in Keys |-> None]
  /\ told = {}

Offer(u) ==
  /\ version.status = "CONFIRMED" /\ offers[u] = None
  /\ \E P \in Plans, n \in Totals :
       offers' = [offers EXCEPT ![u] =
         [from |-> version, to |-> [version EXCEPT !.plan = P, !.total = n]]]
  /\ UNCHANGED <<version, done, told>>

Operate(k, request, v) ==
  /\ done[k] = None /\ \A j \in Keys : done[j] # request
  /\ version.status = "CONFIRMED" /\ version' = v
  /\ done' = [done EXCEPT ![k] = request]
  /\ told' = told \cup {<<k, request>>}
  /\ UNCHANGED offers

TakeUp(k, u) ==
  /\ offers[u] # None /\ offers[u].from = version
  /\ Operate(k, [kind |-> "MODIFIED", of |-> u], offers[u].to)

Withdraw(k) ==
  Operate(k, [kind |-> "CANCELLED", of |-> Cardinality({j \in Keys : done[j] # None})],
          [version EXCEPT !.status = "CANCELLED"])

Repeat(k) ==
  /\ done[k] # None
  /\ told' = told \cup {<<k, done[k]>>}
  /\ UNCHANGED <<version, offers, done>>

Stay ==
  /\ \/ version.status = "CONFIRMED" /\ version' = [version EXCEPT !.status = "CHECKED_IN"]
     \/ version.status = "CHECKED_IN" /\ version' = [version EXCEPT !.status = "CHECKED_OUT"]
  /\ UNCHANGED <<offers, done, told>>

Next ==
  \/ \E u \in Offers : Offer(u) \/ \E k \in Keys : TakeUp(k, u)
  \/ \E k \in Keys : Withdraw(k) \/ Repeat(k)
  \/ Stay

Spec == Init /\ [][Next]_vars

=============================================================================
