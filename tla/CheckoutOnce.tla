---------------------------- MODULE CheckoutOnce ----------------------------
(***************************************************************************)
(* What an Idempotency-Key promises one guest.  A key stands for one       *)
(* checkout: the first request that succeeds under it grants a booking for *)
(* one quote at the price of that quote, no other key is ever granted that *)
(* quote, and every later success under the key is told the same booking,  *)
(* and only when it asks for the same thing.                               *)
(***************************************************************************)
CONSTANTS Keys, Asks, Quotes, QuoteOf(_), Ids, Prices, NoGrant

VARIABLES
  granted,    \* the booking of each key
  told        \* the successful answers given so far

vars == <<granted, told>>

Grants == [id : Ids, ask : Asks, price : Prices]

Init == granted = [k \in Keys |-> NoGrant] /\ told = {}

Grant(k) ==
  /\ granted[k] = NoGrant
  /\ \E g \in Grants :
       /\ told' = told \cup {[key |-> k, ask |-> g.ask, id |-> g.id]}
       /\ granted' = [granted EXCEPT ![k] = g]
       /\ \A j \in Keys : granted[j] # NoGrant =>
            granted[j].id # g.id /\ QuoteOf(granted[j].ask) # QuoteOf(g.ask)

Repeat(k) ==
  /\ granted[k] # NoGrant
  /\ told' = told \cup {[key |-> k, ask |-> granted[k].ask, id |-> granted[k].id]}
  /\ UNCHANGED granted

Next == \E k \in Keys : Grant(k) \/ Repeat(k)

Spec == Init /\ [][Next]_vars

=============================================================================
