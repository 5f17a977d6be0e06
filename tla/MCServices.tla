---------------------------- MODULE MCServices -----------------------------
(* The components beside the payment by PayHere, one in each behaviour:    *)
(* "at" says which.  Prices, payments by Stripe, PayHere's token, accounts,*)
(* the panel, a search, the rate limit and the contact form each have the  *)
(* variables of their modules; the two looks at My Bookings share v1 .. v6.*)
EXTENDS
  Pricing, StripeCheckout, PayHereToken, GuestAccounts, ManagementPanel, RoomSearch,
  Enquiries, TLC

VARIABLES at, v1, v2, v3, v4, v5, v6

slots == <<v1, v2, v3, v4, v5, v6>>
rest == <<searchVars, tokenVars, accountVars, panelVars, limitVars, formVars>>
all == <<at, priceVars, vars, rest, slots>>

(* One guest over three days, and two guests who share a browser on one.   *)
Pages == INSTANCE Dashboard WITH
  Guests <- {"g1"}, Bookings <- {1, 2}, Owner <- <<"g1", "g1">>, Days <- {1},
  PageSize <- 1, HoldTime <- 1, DayLength <- 1, MaxTime <- 2,
  now <- v1, rows <- v2, session <- v3, query <- v4, view <- v5, walk <- v6

Guests == INSTANCE Dashboard WITH
  Guests <- {"g1", "g2"}, Bookings <- {1, 2}, Owner <- <<"g1", "g2">>, Days <- {0},
  PageSize <- 1, HoldTime <- 1, DayLength <- 1, MaxTime <- 0,
  now <- v1, rows <- v2, session <- v3, query <- v4, view <- v5, walk <- v6

-----------------------------------------------------------------------------
(* The sizes of Pricing: an amount column holds 2000.                      *)

MCStays == [nights : {0, 1, 3, 5, 6}, guests : {2, 3}, past : {FALSE}]
             \cup [nights : {3}, guests : {2}, past : {TRUE}]

MCRooms == [rate : {0, 1, 33, 125, 399}, capacity : {2}]

Charge(c, p, b) == [code |-> c, points |-> p, base |-> b]

MCPolicies ==
  [basis : {"EXCLUSIVE"},
   charges : {<<>>} \cup
     {<<Charge("SERVICE", p, "ROOM_SUBTOTAL"), Charge(c, r, b)>> :
        p \in {0, 1000, 10000}, c \in {"VAT", "SERVICE"}, r \in {1, 1800, 10001},
        b \in {"ROOM_SUBTOTAL", "RUNNING_TOTAL"}}]
  \cup [basis : {"INCLUSIVE"}, charges : {<<>>, <<Charge("VAT", 1800, "RUNNING_TOTAL")>>}]

(* Rooms for four, asked for by three and by five.                         *)
MCCapacity == [t \in Types |-> 4]

(* Two visitors who share an email.                                        *)
MCEmail == [b \in Browsers |-> "e"]

-----------------------------------------------------------------------------
(* Elsewhere a price was asked for and no more, a search page is open, and *)
(* nothing is paid.                                                        *)
Unpriced ==
  /\ stay = CHOOSE s \in Stays : TRUE
  /\ room = CHOOSE r \in Rooms : TRUE
  /\ policy = CHOOSE p \in Policies : TRUE
  /\ PriceInit

Unsearched ==
  /\ search = CHOOSE s \in Forms : TRUE
  /\ free = [q \in Types \X Dates |-> 0]
  /\ SearchInit

Unsent == setting = "send" /\ FormInit

RestInit == Init /\ TokenInit /\ AccountsInit /\ PanelInit /\ LimitInit
Aside == Unpriced /\ Unsearched /\ Unsent /\ RestInit

Free ==
  v1 = None /\ v2 = None /\ v3 = None /\ v4 = None /\ v5 = None /\ v6 = None

MCInit ==
  \/ at = "price" /\ PriceInit /\ Unsearched /\ Unsent /\ RestInit /\ Free
  \/ at = "search" /\ SearchInit /\ Unpriced /\ Unsent /\ RestInit /\ Free
  \/ at = "form" /\ FormInit /\ Unpriced /\ Unsearched /\ RestInit /\ Free
  \/ at \in {"stripe", "token", "accounts", "panel", "limit"} /\ Aside /\ Free
  \/ at = "pages" /\ Pages!Init /\ Aside
  \/ at = "guests" /\ Guests!Init /\ Aside

Beside ==
  \/ at = "pages" /\ Pages!Next
  \/ at = "guests" /\ Guests!Next

MCNext ==
  /\ UNCHANGED at
  /\ \/ at = "price" /\ PriceNext /\ UNCHANGED <<vars, rest, slots>>
     \/ at = "stripe" /\ Next /\ UNCHANGED <<priceVars, rest, slots>>
     \/ at = "search" /\ SearchNext /\ UNCHANGED <<priceVars, vars, slots>>
          /\ UNCHANGED <<tokenVars, accountVars, panelVars, limitVars, formVars>>
     \/ at = "token" /\ TokenNext /\ UNCHANGED <<priceVars, vars, slots>>
          /\ UNCHANGED <<searchVars, accountVars, panelVars, limitVars, formVars>>
     \/ at = "accounts" /\ AccountsNext /\ UNCHANGED <<priceVars, vars, slots>>
          /\ UNCHANGED <<searchVars, tokenVars, panelVars, limitVars, formVars>>
     \/ at = "panel" /\ PanelNext /\ UNCHANGED <<priceVars, vars, slots>>
          /\ UNCHANGED <<searchVars, tokenVars, accountVars, limitVars, formVars>>
     \/ at = "limit" /\ LimitNext /\ UNCHANGED <<priceVars, vars, slots>>
          /\ UNCHANGED <<searchVars, tokenVars, accountVars, panelVars, formVars>>
     \/ at = "form" /\ FormNext /\ UNCHANGED <<priceVars, vars, slots>>
          /\ UNCHANGED <<searchVars, tokenVars, accountVars, panelVars, limitVars>>
     \/ Beside /\ UNCHANGED <<priceVars, vars, rest>>

MCSpec == MCInit /\ [][MCNext]_all

(* Requests, retrievals and keys are the same model values, in different   *)
(* behaviours.                                                             *)
MCSymmetry == Permutations(Sessions) \cup Permutations(Requests)

-----------------------------------------------------------------------------
(* My Bookings adds up, reaches every booking, loses none from one look to *)
(* the next, and shows each guest her own.                                 *)
DashboardComplete ==
  /\ [](at = "pages" => /\ Pages!TypeOK /\ Pages!AnswersReadable
                        /\ Pages!ShownIsCounted /\ Pages!NextReachesAll)
  /\ [](at = "guests" => Guests!OwnOnly)
  /\ [][at = "pages" => Pages!NothingVanishes]_all

=============================================================================
