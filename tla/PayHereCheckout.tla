-------------------------- MODULE PayHereCheckout --------------------------
(***************************************************************************)
(* One booking paid through PayHere.  Every request that learns about its  *)
(* money - the provider's notification, the guest's status page, a resume, *)
(* a cancel - first retrieves the list of charges and only later, in a     *)
(* transaction of its own, settles what it retrieved.  Requests overlap,   *)
(* so a settled list can be older than what is already recorded.  The      *)
(* hosted form cannot be withdrawn: it can be paid twice, or after the     *)
(* booking is gone.                                                        *)
(*                                                                         *)
(* A settling transaction holds the booking's row from its clock to its    *)
(* commit (module Inventory opens it up), so it is one step here.          *)
(***************************************************************************)
EXTENDS Naturals

CONSTANTS
  Charges,      \* provider payment ids the form may produce
  Requests,     \* requests being served
  Order         \* the payment row inserted when the checkout is prepared

ASSUME CheckoutAssumption == Order \notin Charges

VARIABLES
  status,       \* bookings.status, NONE before the reservation
  live,         \* hold_expires_at > clock_timestamp()
  payment,      \* price_snapshot.payment, without its receipts
  recorded,     \* the receipts of price_snapshot.payment: status of each charge
  rowOf,        \* the payments row of each recorded charge
  rows,         \* payment_status of each payments row
  withdrawn,    \* cancelled through booking management
  email,        \* price_snapshot.confirmationEmail.state
  cooled,       \* the last attempt is over a minute old
  charges,      \* the provider's own state of each charge
  accepted,     \* confirmation emails the mail provider took
  request       \* what each request is doing

booking == <<status, live, payment, withdrawn>>
receipts == <<recorded, rowOf, rows>>
mail == <<email, cooled, accepted>>
vars == <<booking, receipts, mail, charges, request>>

ChargeStates == {"none", "RECEIVED", "REFUND REQUESTED", "REFUND PROCESSING",
                 "REFUNDED", "CHARGEBACKED"}

NoPayment == [prepared |-> FALSE, refundRequired |-> FALSE,
              reviewRequired |-> FALSE, refundStatus |-> "none"]

Idle == [pc |-> "idle", op |-> "none", list |-> [c \in Charges |-> "none"],
         outcome |-> "none"]

Init ==
  /\ status = "NONE" /\ live = FALSE /\ withdrawn = FALSE
  /\ payment = NoPayment
  /\ recorded = [c \in Charges |-> "none"]
  /\ rowOf = [c \in Charges |-> Order]
  /\ rows = [r \in Charges \cup {Order} |-> "none"]
  /\ email = "none" /\ cooled = FALSE /\ accepted = 0
  /\ charges = [c \in Charges |-> "none"]
  /\ request = [q \in Requests |-> Idle]

-----------------------------------------------------------------------------
(* start: reserve, then in a second transaction prepare the checkout.      *)

Reserve ==
  /\ status = "NONE"
  /\ status' = "PENDING" /\ live' = TRUE
  /\ UNCHANGED <<payment, withdrawn, receipts, mail, charges, request>>

Prepare ==
  /\ status = "PENDING" /\ live /\ ~payment.prepared
  /\ payment' = [payment EXCEPT !.prepared = TRUE]
  /\ rows' = [rows EXCEPT ![Order] = "PENDING"]
  /\ UNCHANGED <<status, live, withdrawn, recorded, rowOf, mail, charges, request>>

(* The hold runs out, which only a pending booking is ever asked about, and *)
(* the next reservation of the type may sweep it.                          *)
Lapse ==
  /\ status = "PENDING" /\ live
  /\ live' = FALSE
  /\ UNCHANGED <<status, payment, withdrawn, receipts, mail, charges, request>>

Sweep ==
  /\ status = "PENDING" /\ ~live
  /\ status' = "CANCELLED"
  /\ UNCHANGED <<live, payment, withdrawn, receipts, mail, charges, request>>

-----------------------------------------------------------------------------
(* The provider.                                                           *)

Charge(c) ==
  /\ payment.prepared /\ charges[c] = "none"
  /\ charges' = [charges EXCEPT ![c] = "RECEIVED"]
  /\ UNCHANGED <<booking, receipts, mail, request>>

Later(s) ==
  CASE s = "RECEIVED" -> {"REFUND REQUESTED", "REFUNDED", "CHARGEBACKED"}
    [] s = "REFUND REQUESTED" -> {"REFUND PROCESSING"}
    [] s = "REFUND PROCESSING" -> {"REFUNDED"}
    [] OTHER -> {}

Refund(c) ==
  /\ \E s \in Later(charges[c]) : charges' = [charges EXCEPT ![c] = s]
  /\ UNCHANGED <<booking, receipts, mail, request>>

-----------------------------------------------------------------------------
(* Requests: retrieve, settle, send the email, and for a cancel, cancel.   *)

At(q, pc) == request[q].pc = pc

Goto(q, pc) == request' = [request EXCEPT ![q].pc = pc]

Done(q) == request' = [request EXCEPT ![q] = Idle]

(* notify, status and resume; and cancel.  Without a payment there is      *)
(* nothing to retrieve, and only a cancel goes on.                         *)
Retrieve(q, o) ==
  /\ At(q, "idle") /\ status # "NONE"
  /\ payment.prepared \/ o = "cancel"
  /\ request' = [request EXCEPT ![q] =
       [pc |-> IF payment.prepared THEN "settle" ELSE "cancel", op |-> o,
        list |-> charges, outcome |-> "none"]]
  /\ UNCHANGED <<booking, receipts, mail, charges>>

Listed(q) == {c \in Charges : request[q].list[c] # "none"}

(* Never let a stale RECEIVED reverse a refund or a chargeback.            *)
Skipped(q, c) ==
  recorded[c] \in {"REFUNDED", "CHARGEBACKED"} /\ request[q].list[c] = "RECEIVED"

Recorded(q) ==
  [c \in Charges |-> IF c \in Listed(q) /\ ~Skipped(q, c)
                       THEN request[q].list[c] ELSE recorded[c]]

(* A likely slip: the first charge of each list takes the order's row.     *)
RowOf_EachList(q, first) ==
  [c \in Charges |->
     IF c \notin Listed(q) \/ recorded[c] # "none" THEN rowOf[c]
     ELSE IF c = first THEN Order ELSE c]

(* The first charge ever recorded takes the row of the order.              *)
RowOf(q, first) ==
  [c \in Charges |->
     IF c \notin Listed(q) \/ recorded[c] # "none" THEN rowOf[c]
     ELSE IF c = first /\ \A d \in Charges : recorded[d] = "none"
          THEN Order ELSE c]

RowState(s) ==
  IF s = "REFUNDED" THEN "REFUNDED"
  ELSE IF s = "CHARGEBACKED" THEN "FAILED" ELSE "COMPLETED"

Rows(q, place) ==
  [r \in Charges \cup {Order} |->
     LET W == {c \in Listed(q) : place[c] = r /\ ~Skipped(q, c)}
     IN  IF W = {} THEN rows[r]
         ELSE RowState(request[q].list[CHOOSE c \in W : TRUE])]

Received(rec) == {c \in Charges : rec[c] = "RECEIVED"}
Known(rec) == {c \in Charges : rec[c] # "none"}

Several(S) == \E c, d \in S : c # d

(* Likely slips: confirming a lapsed hold, or one that was paid twice.     *)
CanConfirm_Lapsed(rec) ==
  status = "PENDING" /\ \E c \in Received(rec) : Known(rec) = {c}

CanConfirm_Several(rec) ==
  status = "PENDING" /\ live /\ Received(rec) # {}

CanConfirm(rec) ==
  /\ status = "PENDING" /\ live
  /\ \E c \in Received(rec) : Known(rec) = {c}

(* A likely slip: taking a second charge for a replay of the first.        *)
RefundRequired_Single(rec, st) ==
  \/ \E c \in Charges : rec[c] \in {"REFUND REQUESTED", "REFUND PROCESSING"}
  \/ /\ Received(rec) # {}
     /\ st \notin {"CONFIRMED", "CHECKED_IN", "CHECKED_OUT"}

RefundRequired(rec, st) ==
  \/ Several(Received(rec))
  \/ \E c \in Charges : rec[c] \in {"REFUND REQUESTED", "REFUND PROCESSING"}
  \/ /\ Received(rec) # {}
     /\ st \notin {"CONFIRMED", "CHECKED_IN", "CHECKED_OUT"}

Flags(rec, refund) ==
  [prepared |-> TRUE,
   refundRequired |-> refund,
   reviewRequired |->
     \/ refund
     \/ \E c \in Charges : rec[c] = "CHARGEBACKED"
     \/ Known(rec) # {} /\ Received(rec) = {},
   refundStatus |->
     IF refund THEN "PENDING"
     ELSE IF Received(rec) = {} /\ \E c \in Charges : rec[c] = "REFUNDED"
          THEN "REFUNDED" ELSE "none"]

Settle(q) ==
  /\ At(q, "settle")
  /\ LET rec == Recorded(q)
         st == IF CanConfirm(rec) THEN "CONFIRMED" ELSE status
         refund == RefundRequired(rec, st)
     IN  /\ recorded' = rec
         /\ payment' = Flags(rec, refund)
         /\ status' = IF refund /\ st = "PENDING" THEN "CANCELLED" ELSE st
         /\ \E first \in Charges :
              /\ Listed(q) # {} => first \in Listed(q)
              /\ rowOf' = RowOf(q, first)
              /\ rows' = Rows(q, RowOf(q, first))
  /\ request' = [request EXCEPT ![q].pc = "claim", ![q].list = Idle.list]
  /\ UNCHANGED <<live, withdrawn, mail, charges>>

AfterEmail(q) ==
  IF request[q].op = "cancel" THEN Goto(q, "cancel") ELSE Done(q)

(* A likely slip: an unclear outcome is tried again like a failed one.     *)
Claimable_Unknown ==
  /\ status = "CONFIRMED" /\ ~payment.refundRequired /\ ~payment.reviewRequired
  /\ \E r \in DOMAIN rows : rows[r] = "COMPLETED"
  /\ email \in {"none", "UNKNOWN"} \/ (email = "FAILED" /\ cooled)

(* One durable claim; an ambiguous send is never claimed again.            *)
Claimable ==
  /\ status = "CONFIRMED" /\ ~payment.refundRequired /\ ~payment.reviewRequired
  /\ \E r \in DOMAIN rows : rows[r] = "COMPLETED"
  /\ email = "none" \/ (email = "FAILED" /\ cooled)

Claim(q) ==
  /\ At(q, "claim") /\ Claimable
  /\ email' = "SENDING" /\ cooled' = FALSE
  /\ Goto(q, "deliver")
  /\ UNCHANGED <<booking, receipts, accepted, charges>>

(* Refused means FAILED; a lost or unreadable answer means UNKNOWN, and    *)
(* the mail may have been taken all the same.                              *)
Deliver(q) ==
  /\ At(q, "deliver")
  /\ \E outcome \in {"ACCEPTED", "FAILED", "UNKNOWN"}, taken \in {0, 1} :
       /\ outcome = "ACCEPTED" => taken = 1
       /\ outcome = "FAILED" => taken = 0
       /\ accepted' = accepted + taken
       /\ request' = [request EXCEPT ![q].pc = "finish", ![q].outcome = outcome]
  /\ UNCHANGED <<booking, receipts, email, cooled, charges>>

Finish(q) ==
  /\ At(q, "finish")
  /\ email' = IF email = "SENDING" THEN request[q].outcome ELSE email
  /\ AfterEmail(q)
  /\ UNCHANGED <<booking, receipts, cooled, accepted, charges>>

(* Nothing to claim; or any error of the email, which is swallowed.        *)
NoEmail(q) ==
  /\ \/ At(q, "claim") \/ At(q, "deliver") \/ At(q, "finish")
  /\ AfterEmail(q)
  /\ UNCHANGED <<booking, receipts, mail, charges>>

CancelCheckout(q) ==
  /\ At(q, "cancel") /\ status = "PENDING"
  /\ status' = "CANCELLED"
  /\ Done(q)
  /\ UNCHANGED <<live, payment, withdrawn, receipts, mail, charges>>

(* Any other error, a timeout, a refused cancel, or the server stopping.   *)
Fail(q) ==
  /\ ~At(q, "idle")
  /\ Done(q)
  /\ UNCHANGED <<booking, receipts, mail, charges>>

Minute ==
  /\ email = "FAILED" /\ ~cooled
  /\ cooled' = TRUE
  /\ UNCHANGED <<booking, receipts, email, accepted, charges, request>>

-----------------------------------------------------------------------------
(* Elsewhere: booking management cancels a confirmed booking; the Front    *)
(* Desk checks the guest in and out.                                       *)

Withdraw ==
  /\ status = "CONFIRMED" /\ ~payment.refundRequired /\ ~payment.reviewRequired
  /\ status' = "CANCELLED" /\ withdrawn' = TRUE
  /\ UNCHANGED <<live, payment, receipts, mail, charges, request>>

Desk ==
  /\ \/ status = "CONFIRMED" /\ status' = "CHECKED_IN"
     \/ status = "CHECKED_IN" /\ status' = "CHECKED_OUT"
  /\ UNCHANGED <<live, payment, withdrawn, receipts, mail, charges, request>>

Serve(q) ==
  \/ Settle(q) \/ Claim(q) \/ Deliver(q) \/ Finish(q) \/ NoEmail(q)
  \/ CancelCheckout(q) \/ Fail(q)

Next ==
  \/ Reserve \/ Prepare \/ Lapse \/ Sweep \/ Minute \/ Withdraw \/ Desk
  \/ \E c \in Charges : Charge(c) \/ Refund(c)
  \/ \E q \in Requests : Serve(q) \/ \E o \in {"refresh", "cancel"} : Retrieve(q, o)

Spec == Init /\ [][Next]_vars

-----------------------------------------------------------------------------
(* Properties.                                                             *)

(* The booking row, its payment metadata, the payments table and the       *)
(* requests hold what their columns and fields may hold.                   *)
TypeOK ==
  /\ status \in {"NONE", "PENDING", "CONFIRMED", "CHECKED_IN", "CHECKED_OUT",
                 "CANCELLED"}
  /\ live \in BOOLEAN /\ withdrawn \in BOOLEAN /\ cooled \in BOOLEAN
  /\ payment \in [prepared : BOOLEAN, refundRequired : BOOLEAN,
                  reviewRequired : BOOLEAN,
                  refundStatus : {"none", "PENDING", "REFUNDED"}]
  /\ recorded \in [Charges -> ChargeStates]
  /\ rowOf \in [Charges -> Charges \cup {Order}]
  /\ rows \in [Charges \cup {Order} ->
               {"none", "PENDING", "COMPLETED", "REFUNDED", "FAILED"}]
  /\ email \in {"none", "SENDING", "ACCEPTED", "FAILED", "UNKNOWN"}
  /\ accepted \in Nat
  /\ charges \in [Charges -> ChargeStates]
  /\ request \in [Requests ->
       [pc : {"idle", "settle", "claim", "deliver", "finish", "cancel"},
        op : {"none", "refresh", "cancel"}, list : [Charges -> ChargeStates],
        outcome : {"none", "ACCEPTED", "FAILED", "UNKNOWN"}]]

(* Each real charge is one payments row, whatever is replayed, retrieved   *)
(* twice or settled late, and the row says what was recorded of it.        *)
EachChargeOnce ==
  /\ \A c, d \in Known(recorded) : c # d => rowOf[c] # rowOf[d]
  /\ \A c \in Known(recorded) : rows[rowOf[c]] = RowState(recorded[c])
  /\ \A r \in DOMAIN rows : rows[r] \notin {"none", "PENDING"} =>
       \E c \in Known(recorded) : rowOf[c] = r

(* A booking that is still pending has no money recorded, so the cancel    *)
(* that follows the cancel request's own retrieval, or another's, and the  *)
(* sweep of lapsed holds never take a booking that was paid.               *)
PendingIsUnpaid == status = "PENDING" => Received(recorded) = {}

(* What the status page and the review log go by.                          *)
ReviewShown ==
  \/ payment.reviewRequired
  \/ withdrawn /\ \E r \in DOMAIN rows : rows[r] = "COMPLETED"

(* Money the hotel recorded and did not earn is always up for review: a    *)
(* second charge, or any charge of a booking that is cancelled.            *)
UnearnedIsReviewed ==
  \/ Several(Received(recorded))
  \/ status = "CANCELLED" /\ Received(recorded) # {}
  => ReviewShown

(* The guest gets at most one confirmation email, although sends are       *)
(* retried, requests overlap and any of them may stop half way.            *)
OneEmail == accepted <= 1

(* The booking's promise: renewed once by its checkout, never confirmed    *)
(* after it lapsed or ended.                                               *)
Promise == INSTANCE HoldPromise WITH
  Ids <- {1},
  promise <- [b \in {1} |->
    CASE status = "NONE" -> "none"
      [] status \in {"CONFIRMED", "CHECKED_IN"} -> "booked"
      [] status \in {"CANCELLED", "CHECKED_OUT"} -> "ended"
      [] OTHER -> IF ~live THEN "lapsed"
                  ELSE IF payment.prepared THEN "renewed" ELSE "held"],
  deadline <- [b \in {1} |->
    IF status = "NONE" THEN 0 ELSE IF payment.prepared THEN 2 ELSE 1]

KeepsPromise == Promise!Spec

(* A confirmed booking was paid, and nothing but a charge confirms one:    *)
(* when a request confirms it, the only charge it knows of is received and *)
(* that money was really taken.                                            *)
ConfirmedByCharge ==
  [][status = "PENDING" /\ status' = "CONFIRMED" =>
       \E c \in Charges : Known(recorded') = {c} /\ charges[c] # "none"]_vars

(* Eventually: every charge is recorded, even one that is made after the   *)
(* hold lapsed or while the guest cancels.                                 *)
ChargesRecorded ==
  \A c \in Charges : charges[c] # "none" => recorded[c] # "none"

(* Eventually: money taken for a booking that is gone is under review, or  *)
(* back.                                                                   *)
LateMoneyReviewed ==
  status = "CANCELLED" /\ (\E c \in Charges : charges[c] = "RECEIVED") => ReviewShown

(* documents/api/payhere-checkout.md: "stale RECEIVED results cannot       *)
(* reverse that state" of a refund that retrieval verified.                *)
RefundIsFinal ==
  \A c \in Charges : [](recorded[c] = "REFUNDED" => [](recorded[c] # "RECEIVED"))

=============================================================================
