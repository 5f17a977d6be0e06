----------------------------- MODULE MCProgress -----------------------------
(* What must eventually happen, in one part of the system at a time: "at"  *)
(* says which.  The parts share the variables v1 .. v12, whose meaning is  *)
(* the part's.                                                             *)
EXTENDS Integers

CONSTANTS
  Workers,      \* requests being served
  Charges, Order, Sessions,
  Presses,      \* keys of the management panel
  All, None, Unknown, Waiting

VARIABLES at, v1, v2, v3, v4, v5, v6, v7, v8, v9, v10, v11, v12

slots == <<v1, v2, v3, v4, v5, v6, v7, v8, v9, v10, v11, v12>>
all == <<at, slots>>

PayHere == INSTANCE PayHereCheckout WITH
  Requests <- Workers,
  status <- v1, live <- v2, payment <- v3, recorded <- v4, rowOf <- v5, rows <- v6,
  withdrawn <- v7, email <- v8, cooled <- v9, charges <- v10, accepted <- v11,
  request <- v12

Stripe == INSTANCE StripeCheckout WITH
  Requests <- Workers, RefundEnds <- {"succeeded"}, MaxFailures <- 1,
  status <- v1, live <- v2, meta <- v3, row <- v4, email <- v5, session <- v6,
  refund <- v7, owed <- v8, request <- v9, failures <- v10

(* Of two types the first sleeps two guests and the second four.           *)
Search == INSTANCE RoomSearch WITH
  Types <- {1, 2}, Capacity <- <<2, 4>>, Dates <- {1}, Parties <- {3}, MaxFree <- 0,
  MaxPresses <- 2, Nil <- None,
  search <- v1, submitted <- v2, retry <- v3, result <- v4, load <- v5, free <- v6,
  had <- v7

Nights == INSTANCE StayCalendar WITH
  LastMonth <- 2, First <- <<1, 3, 5>>, MaxNights <- 5, Reach <- 3,
  Unsure <- {}, Closed <- {1}, MaxRetries <- 1,
  month <- v1, anchor <- v2, attempt <- v3, failed <- v4, result <- v5, load <- v6,
  late <- v7, full <- v8, seen <- v9, stay <- v10

Panel == INSTANCE ManagementPanel WITH
  Keys <- Presses, Nothing <- None, SessionEnds <- TRUE, MaxVersion <- 3, MaxSends <- 2,
  book <- v1, saved <- v2, sent <- v3, panel <- v4, waits <- v5, used <- v6,
  shown <- v7, doubt <- v8

Token == INSTANCE PayHereToken WITH
  Retrievals <- Workers, Tokens <- 1 .. 7, Lifetimes <- {3}, Margin <- 2, Timeout <- 1,
  MaxTroubles <- 1, MaxTime <- 3,
  now <- v1, token <- v2, req <- v3, issued <- v4, withdrawn <- v5, refused <- v6,
  troubles <- v7

Accounts == INSTANCE GuestAccounts WITH
  Browsers <- {1}, EmailOf <- <<"e">>, Registrations <- 1 .. 3, Unique <- FALSE,
  Origins <- {"booking", "detail", "profile"}, Allowed <- {"booking", "profile"},
  Profile <- "profile", MaxOutside <- 0, MaxLost <- 2, Nobody <- 0,
  guests <- v1, locked <- v2, register <- v3, visitor <- v4, lost <- v5

-----------------------------------------------------------------------------
Free11 == v11 = None /\ v12 = None
Free8 == v8 = None /\ v9 = None /\ v10 = None /\ Free11

MCInit ==
  \/ at = "payhere" /\ PayHere!Init
  \/ at = "stripe" /\ Stripe!Init /\ Free11
  \/ at = "search" /\ Search!SearchInit /\ Free8
  \/ at = "nights" /\ Nights!Init /\ Free11
  \/ at = "panel" /\ Panel!PanelInit /\ v9 = None /\ v10 = None /\ Free11
  \/ at = "token" /\ Token!TokenInit /\ Free8
  \/ at = "accounts" /\ Accounts!AccountsInit /\ v6 = None /\ v7 = None /\ Free8

MCNext ==
  /\ UNCHANGED at
  /\ \/ at = "payhere" /\ PayHere!Next
     \/ at = "stripe" /\ Stripe!Next /\ UNCHANGED <<v11, v12>>
     \/ at = "search" /\ Search!SearchNext /\ UNCHANGED <<v8, v9, v10, v11, v12>>
     \/ at = "nights" /\ Nights!Next /\ UNCHANGED <<v11, v12>>
     \/ at = "panel" /\ Panel!PanelNext /\ UNCHANGED <<v9, v10, v11, v12>>
     \/ at = "token" /\ Token!TokenNext /\ UNCHANGED <<v8, v9, v10, v11, v12>>
     \/ at = "accounts" /\ Accounts!AccountsNext /\ UNCHANGED <<v6, v7, v8, v9, v10, v11, v12>>

MCSpec == MCInit /\ [][MCNext]_all

(***************************************************************************)
(* Fairness, of each part in its behaviours.                               *)
(*                                                                         *)
(* Payments: every await of a request ends by its time-out, so a request   *)
(* ends.  A provider repeats its message until it is answered 200, and     *)
(* PayHere's guest can always ask again: retrieving and settling are tried *)
(* for ever, and no outage lasts for ever.  What Stripe started to refund  *)
(* comes to an end.  Of Stripe's guest nothing is assumed.                 *)
(*                                                                         *)
(* Pages: every request of a browser is answered, fails or times out, and  *)
(* a delayed retrieval is asked for again.  Registrations are worked off,  *)
(* and a visitor who was sent to sign in goes on trying what he is offered. *)
(***************************************************************************)
Serves(w) ==
  \/ at = "payhere" /\ PayHere!Serve(w)
  \/ at = "stripe" /\ Stripe!Serve(w) /\ UNCHANGED <<v11, v12>>
  \/ at = "token" /\ Token!Start(w) /\ UNCHANGED <<v8, v9, v10, v11, v12>>

Hears(w) == at = "token" /\ Token!Answered(w) /\ UNCHANGED <<v8, v9, v10, v11, v12>>

Asks ==
  \/ at = "payhere" /\ \E w \in Workers, o \in {"refresh", "cancel"} : PayHere!Retrieve(w, o)
  \/ at = "stripe" /\ Stripe!Hook /\ UNCHANGED <<v11, v12>>
  \/ at = "accounts" /\ Accounts!SignIn(1) /\ UNCHANGED <<v6, v7, v8, v9, v10, v11, v12>>

Tries ==
  \/ at = "payhere" /\ \E w \in Workers : PayHere!Settle(w)
  \/ at = "accounts" /\ Accounts!SignUp(1) /\ UNCHANGED <<v6, v7, v8, v9, v10, v11, v12>>

Loads(n) ==
  \/ at = "search" /\ Search!Show(n) /\ UNCHANGED <<v8, v9, v10, v11, v12>>
  \/ /\ at = "accounts" /\ (Accounts!Lock(n + 1) \/ Accounts!Check(n + 1) \/ Accounts!Insert(n + 1))
     /\ UNCHANGED <<v6, v7, v8, v9, v10, v11, v12>>

Counts(n, t) == at = "search" /\ Search!AnswerCount(n, t) /\ UNCHANGED <<v8, v9, v10, v11, v12>>

Answers ==
  \/ at = "stripe" /\ (\E s \in Sessions : Stripe!RefundEnd(s)) /\ UNCHANGED <<v11, v12>>
  \/ at = "nights" /\ Nights!Answer /\ UNCHANGED <<v11, v12>>
  \/ at = "panel" /\ Panel!Previewed /\ UNCHANGED <<v9, v10, v11, v12>>
  \/ /\ at = "accounts" /\ (Accounts!SignedUp(1) \/ Accounts!LostAnswer(1))
     /\ UNCHANGED <<v6, v7, v8, v9, v10, v11, v12>>

Shows ==
  \/ at = "nights" /\ Nights!Show /\ UNCHANGED <<v11, v12>>
  \/ at = "panel" /\ (Panel!GiveUp \/ Panel!Learn) /\ UNCHANGED <<v9, v10, v11, v12>>
  \/ at = "accounts" /\ Accounts!ToSignUp(1) /\ UNCHANGED <<v6, v7, v8, v9, v10, v11, v12>>

Refreshes ==
  \/ at = "panel" /\ Panel!Refresh /\ UNCHANGED <<v9, v10, v11, v12>>
  \/ at = "accounts" /\ Accounts!ToSignIn(1) /\ UNCHANGED <<v6, v7, v8, v9, v10, v11, v12>>

Fairness ==
  /\ \A w \in Workers : WF_slots(Serves(w)) /\ WF_slots(Hears(w))
  /\ SF_slots(Asks) /\ SF_slots(Tries)
  /\ \A n \in 0 .. 2 : WF_slots(Loads(n)) /\ \A t \in {1, 2} : WF_slots(Counts(n, t))
  /\ WF_slots(Answers) /\ WF_slots(Shows) /\ WF_slots(Refreshes)

FairSpec == MCSpec /\ Fairness

-----------------------------------------------------------------------------
(* Money that was taken, by either provider and however late, is in the    *)
(* end recorded, given back or up for review; and a payment that failed    *)
(* gives its room back.                                                    *)
MoneyEnds ==
  /\ []<>(/\ at = "payhere" => PayHere!ChargesRecorded
          /\ at = "stripe" => Stripe!MoneySettled)
  /\ []<>(/\ at = "payhere" => PayHere!LateMoneyReviewed
          /\ at = "stripe" => Stripe!RoomReleased)

(* No page waits for ever: a search, the calendar, the management panel, a *)
(* retrieval and the way through registration come to an end, unless the   *)
(* guest goes on to something else.                                        *)
PagesSettle ==
  /\ []<>(/\ at = "search" => Search!SearchEnds
          /\ at = "panel" => Panel!Still
          /\ at = "token" => Token!Recovers
          /\ at = "accounts" => Accounts!GetsIn)
  /\ []<>(at = "panel" => Panel!PanelFrees)
  /\ \/ []<>(at = "nights" => Nights!CalendarSettles)
     \/ []<><<Nights!Key' # Nights!Key>>_slots

=============================================================================
