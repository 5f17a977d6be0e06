----------------------------- MODULE MCWebsite ------------------------------
(* The reservation interface, and the parts of the website around it, one  *)
(* in each behaviour: "at" says which.  The reservations have the variables *)
(* of Checkout; the others share the variables v1 .. v11, whose meaning is *)
(* the part's.                                                             *)
EXTENDS Checkout, TLC

CONSTANTS
  None,         \* no stay, no text
  Visits        \* stays the guest of the booking flow may ask for

VARIABLES at, v1, v2, v3, v4, v5, v6, v7, v8, v9, v10, v11

slots == <<v1, v2, v3, v4, v5, v6, v7, v8, v9, v10, v11>>
all == <<at, vars, slots>>

Flow == INSTANCE BookingFlow WITH
  Stays <- Visits, Texts <- Remarks, MaxQuotes <- 2,
  url <- v1, visited <- v2, form <- v3, dirty <- v4, preview <- v5, reviewed <- v6,
  text <- v7, loading <- v8, issued <- v9, agreed <- v10, paying <- v11

(* Months of two days with the limits scaled down with them, and the       *)
(* months of a year with the limits of the code, where a check-in is       *)
(* possible on the days a limit would first be passed.                     *)
Nights == INSTANCE StayCalendar WITH
  LastMonth <- 3, First <- <<1, 3, 5, 7>>, MaxNights <- 5, Reach <- 3,
  Unsure <- {3}, Closed <- {2, 5}, MaxRetries <- 0,
  month <- v1, anchor <- v2, attempt <- v3, failed <- v4, result <- v5, load <- v6,
  late <- v7, full <- v8, seen <- v9, stay <- v10

Year == INSTANCE StayCalendar WITH
  LastMonth <- 4, First <- <<1, 32, 60, 91, 121, 152>>, MaxNights <- 90, Reach <- 58,
  Unsure <- {}, Closed <- (1..151) \ {1, 2, 3, 33}, MaxRetries <- 0,
  month <- v1, anchor <- v2, attempt <- v3, failed <- v4, result <- v5, load <- v6,
  late <- v7, full <- v8, seen <- v9, stay <- v10

-----------------------------------------------------------------------------
(* Elsewhere nobody has a quote or a reservation.                          *)
NoCheckout == price = NoQuoteYet.price /\ Init

Free11 == v11 = None
Unused ==
  /\ v1 = None /\ v2 = None /\ v3 = None /\ v4 = None /\ v5 = None /\ v6 = None
  /\ v7 = None /\ v8 = None /\ v9 = None /\ v10 = None /\ Free11

MCInit ==
  \/ at = "checkout" /\ Init /\ Unused
  \/ at = "flow" /\ Flow!Init /\ NoCheckout
  \/ at = "nights" /\ Nights!Init /\ NoCheckout /\ Free11
  \/ at = "year" /\ Year!Init /\ NoCheckout /\ Free11

MCNext ==
  /\ UNCHANGED at
  /\ \/ at = "checkout" /\ Next /\ UNCHANGED slots
     \/ at = "flow" /\ Flow!Next /\ UNCHANGED vars
     \/ at = "nights" /\ Nights!Next /\ UNCHANGED <<vars, v11>>
     \/ at = "year" /\ Year!Next /\ UNCHANGED <<vars, v11>>

MCSpec == MCInit /\ [][MCNext]_all

MCSymmetry ==
  Permutations(Ids) \cup Permutations(Keys) \cup Permutations(Quotes)
    \cup Permutations(Requests)

-----------------------------------------------------------------------------
(* What is paid for is what the guest agreed to, and a late quote moves    *)
(* nobody who went elsewhere.                                              *)
PaysAsAgreed ==
  /\ [](at = "flow" => Flow!TypeOK)
  /\ [][at = "flow" => Flow!PaysAgreed /\ Flow!StaleMoves]_all

(* The calendar asks for no more nights than the server counts, and a stay *)
(* picked on it spans only nights that were seen free since its check-in   *)
(* was picked.                                                             *)
PicksOpenNights ==
  /\ [](at = "nights" => Nights!TypeOK /\ Nights!WithinLimit)
  /\ [](at = "year" => Year!WithinLimit)
  /\ [][/\ at = "nights" => Nights!PicksOpen
        /\ at = "year" => Year!PicksOpen]_all

=============================================================================
