----------------------------- MODULE StatusPage -----------------------------
(***************************************************************************)
(* What the guest is told of a booking while its checkout runs (module     *)
(* PayHereCheckout).  The status handler reads the booking's row and its   *)
(* payments in one query and the payment metadata in a second one, lays    *)
(* the second over the first, and the website refuses the answer unless    *)
(* its amounts fit its states.  My Bookings tells the same booking by a    *)
(* query of its own.                                                       *)
(***************************************************************************)
EXTENDS PayHereCheckout, Integers, FiniteSets

CONSTANTS
  Total,        \* bookings.total_amount
  Amount        \* price_snapshot.payment.amount: all of it, or a deposit

ASSUME AmountAssumption ==
  /\ Total \in Nat /\ Amount \in Nat /\ 0 < Amount /\ Amount <= Total
  /\ IsFiniteSet(Charges)

VARIABLE
  page          \* the answer being put together, and what the guest last saw

allVars == <<vars, page>>

Headings == {"none", "unavailable", "review", "refunded", "refund pending",
             "confirmed", "closed", "pending"}

Nobody == [status |-> "none", charged |-> FALSE, payable |-> FALSE,
           heading |-> "none"]

NoRow == [status |-> "none", charged |-> FALSE, paid |-> 0, balance |-> 0,
          refundStatus |-> "none", paymentState |-> "none"]

-----------------------------------------------------------------------------
(* The backend's account of the booking.                                   *)

Above(a, b) == IF a > b THEN a - b ELSE 0

Sum(state) == Amount * Cardinality({r \in DOMAIN rows : rows[r] = state})

Paid == Sum("COMPLETED")
Refunded == Sum("REFUNDED")

Kept == status \in {"CONFIRMED", "CHECKED_IN", "CHECKED_OUT"}

(* What booking management owes back; only a managed booking is settled so. *)
RefundAmount ==
  IF withdrawn THEN Above(Paid, IF status = "CANCELLED" THEN 0 ELSE Total) ELSE 0

ManagementReview ==
  withdrawn /\ (RefundAmount > 0 \/ (status # "CANCELLED" /\ Paid < Total))

RefundStatus ==
  CASE RefundAmount > 0 -> "PENDING"
    [] RefundAmount = 0 /\ withdrawn /\ Refunded > 0 -> "REFUNDED"
    [] OTHER -> payment.refundStatus

PaymentState ==
  IF ManagementReview THEN "REVIEW_REQUIRED"
  ELSE IF payment.refundStatus # "none" THEN payment.refundStatus
  ELSE IF Kept THEN "PAID"
  ELSE IF status = "CANCELLED" THEN "CANCELLED"
  ELSE IF ~live THEN "EXPIRED" ELSE "PENDING"

Balance ==
  IF status = "CANCELLED" \/ (status = "PENDING" /\ ~live)
  THEN 0 ELSE Above(Total, Paid)

(* "charged" is no field of the answer: it keeps, for the properties, that *)
(* a charge was on record when the row was read.  The website treats a     *)
(* guest who is in, or has left, like one who is expected.                 *)
Row ==
  [status |-> IF Kept THEN "CONFIRMED" ELSE status, charged |-> Known(recorded) # {},
   paid |-> Paid, balance |-> Balance, refundStatus |-> RefundStatus,
   paymentState |-> PaymentState]

(* The second query: the verdict of the last settlement comes first.       *)
Overlay(row) ==
  [row EXCEPT !.paymentState =
     IF payment.reviewRequired THEN "REVIEW_REQUIRED" ELSE @]

-----------------------------------------------------------------------------
(* The website's reading of the answer.                                    *)

(* A likely slip: a cancelled booking is expected to show its balance.     *)
Accepts_Open(row) ==
  row.balance = IF row.paymentState = "EXPIRED"
                THEN 0 ELSE Above(Total, row.paid)

Accepts(row) ==
  row.balance = IF row.status = "CANCELLED" \/ row.paymentState = "EXPIRED"
                THEN 0 ELSE Above(Total, row.paid)

Heading(row) ==
  IF row.paymentState = "REVIEW_REQUIRED" THEN "review"
  ELSE IF row.refundStatus = "REFUNDED" THEN "refunded"
  ELSE IF row.refundStatus = "PENDING" THEN "refund pending"
  ELSE IF row.status = "CONFIRMED" /\ row.paid > 0 THEN "confirmed"
  ELSE IF row.status = "CANCELLED" \/ row.paymentState = "EXPIRED" THEN "closed"
  ELSE "pending"

Payable(row) == row.status = "PENDING" /\ row.paymentState = "PENDING"

Seen(row) ==
  [status |-> row.status, charged |-> row.charged,
   payable |-> Accepts(row) /\ Payable(row),
   heading |-> IF Accepts(row) THEN Heading(row) ELSE "unavailable"]

-----------------------------------------------------------------------------
(* My Bookings: the same booking by the dashboard's query.                 *)

HoldExpired == status = "PENDING" /\ ~live

(* A likely slip: an expired hold is listed with its balance.              *)
DashboardBalance_Hold ==
  IF status = "CANCELLED" THEN 0 ELSE Above(Total, Paid)

DashboardBalance ==
  IF status = "CANCELLED" \/ HoldExpired THEN 0 ELSE Above(Total, Paid)

Badge ==
  IF HoldExpired THEN "Expired"
  ELSE CASE status = "PENDING" -> "Payment pending"
         [] status = "CANCELLED" -> "Cancelled"
         [] OTHER -> "Confirmed"   \* or that the guest is in, or has left

-----------------------------------------------------------------------------
StatusInit == Init /\ page = [pc |-> "idle", row |-> NoRow, seen |-> Nobody]

(* The page is opened or refreshed: the handler's own retrieval and        *)
(* settlement are a request of PayHereCheckout, which may fail and delay   *)
(* nothing but the money; then it reads the row.                           *)
ReadRow ==
  /\ page.pc = "idle" /\ status # "NONE"
  /\ page' = [page EXCEPT !.pc = "metadata", !.row = Row]
  /\ UNCHANGED vars

(* A likely slip: a booking that is kept needs no second look.             *)
ReadMetadata_Kept ==
  /\ page.pc = "metadata"
  /\ page' = [pc |-> "idle", row |-> NoRow,
              seen |-> Seen(IF page.row.status = "CONFIRMED" THEN page.row
                            ELSE Overlay(page.row))]
  /\ UNCHANGED vars

ReadMetadata ==
  /\ page.pc = "metadata"
  /\ page' = [pc |-> "idle", row |-> NoRow, seen |-> Seen(Overlay(page.row))]
  /\ UNCHANGED vars

(* Signed out, a time-out, an error: the page only keeps the reference.    *)
ReadFails ==
  /\ page.pc = "metadata"
  /\ page' = [pc |-> "idle", row |-> NoRow,
              seen |-> [Nobody EXCEPT !.heading = "unavailable"]]
  /\ UNCHANGED vars

StatusNext == \/ Next /\ UNCHANGED page
              \/ ReadRow \/ ReadMetadata \/ ReadFails

StatusSpec == StatusInit /\ [][StatusNext]_allVars

-----------------------------------------------------------------------------
(* Properties.                                                             *)

(* The page's answer and what is shown of it are of their kinds.           *)
PageTypeOK ==
  /\ page.pc \in {"idle", "metadata"}
  /\ page.row.paymentState \in
       {"none", "REVIEW_REQUIRED", "REFUNDED", "PAID", "CANCELLED", "EXPIRED",
        "PENDING"}
  /\ page.row.paid \in 0 .. (Cardinality(Charges) + 1) * Amount
  /\ page.row.balance \in 0 .. Total
  /\ page.seen.heading \in Headings

(* An answer put together from two reads is still one the website accepts, *)
(* once the booking is no longer pending: a guest whose booking was        *)
(* settled, kept, cancelled or refunded is never told that its status is   *)
(* unavailable for want of matching amounts.                               *)
PageLoads ==
  page.seen.heading = "unavailable" => page.seen.status \in {"none", "PENDING"}

(* A guest whose charge was on record is never told that the checkout was  *)
(* merely cancelled or expired.                                            *)
ClosedIsUncharged == page.seen.heading = "closed" => ~page.seen.charged

(* Paying is only offered while no charge is on record.                    *)
PayableIsUncharged == page.seen.payable => ~page.seen.charged

(* The page always loads once the booking is settled, and neither calls a  *)
(* paid checkout closed nor offers to pay it again; nothing pending is     *)
(* paid.                                                                   *)
PageTells ==
  /\ TypeOK /\ PageTypeOK /\ PendingIsUnpaid
  /\ PageLoads /\ ClosedIsUncharged /\ PayableIsUncharged

(* "Your stay is confirmed" is never taken back without a word of the      *)
(* money: whatever is settled, cancelled or refunded between two reads.    *)
ConfirmedNotForgotten ==
  [][page.seen.heading = "confirmed" =>
       page'.seen.heading \notin {"pending", "closed"}]_allVars

(* The two accounts of a booking agree, at whatever moment they are read.  *)
SameStory ==
  status # "NONE" =>
    /\ DashboardBalance = Balance
    /\ Badge = "Confirmed" => Heading(Overlay(Row)) \notin {"closed", "pending"}
    /\ Badge \in {"Expired", "Cancelled"} =>
         Heading(Overlay(Row)) \notin {"confirmed", "pending"}

=============================================================================
