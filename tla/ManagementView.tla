--------------------------- MODULE ManagementView ---------------------------
(***************************************************************************)
(* What the guest is shown of a managed booking (module BookingManagement): *)
(* the management panel's state, the answer to an operation and the preview*)
(* of a change, each with sums the website computes again and refuses if   *)
(* they differ; and the heading of the status page, which another endpoint *)
(* derives from the same rows.                                             *)
(***************************************************************************)
EXTENDS BookingManagement

Above(a, b) == IF a > b THEN a - b ELSE 0

-----------------------------------------------------------------------------
(* The backend's answers.                                                  *)

(* Of the booking as it is: in the state of the panel, and in the answer to*)
(* an operation, when it is recorded and whenever it is repeated later.    *)
Summary ==
  [status |-> booking.status, total |-> booking.total, paid |-> Paid,
   balance |-> Balance(booking), refund |-> RefundDue(booking)]

LogFull == Len(events) >= MaxEvents

Unsettled == Revision > 0 /\ (RefundDue(booking) > 0 \/ Balance(booking) > 0)

(* The first reason not to offer a change, in the order of the checks.     *)
Refusal ==
  IF booking.status # "CONFIRMED" THEN "BOOKING_NOT_ELIGIBLE"
  ELSE IF review \/ LogFull \/ Unsettled THEN "SETTLEMENT_REVIEW_REQUIRED"
  ELSE IF ~BeforeCutoff(booking.plan.place) THEN "CHANGE_CUTOFF_PASSED"
  ELSE "none"

Preview(u) ==
  LET t == quotes[u] IN
  [total |-> t.total, paid |-> t.binding.paid,
   balance |-> Above(t.total, t.binding.paid),
   refund |-> Above(t.binding.paid, t.total)]

(* The status page: review by management, or by the checkout's settlement. *)
ManagementReview ==
  /\ Revision > 0
  /\ \/ RefundDue(booking) > 0
     \/ booking.status # "CANCELLED" /\ Paid < booking.total

(* A likely slip: only the checkout's own verdict is told.                 *)
Heading_Checkout ==
  IF review THEN "review"
  ELSE IF booking.status # "CANCELLED" /\ Paid > 0 THEN "confirmed" ELSE "closed"

Heading ==
  IF review \/ ManagementReview THEN "review"
  ELSE IF booking.status # "CANCELLED" /\ Paid > 0 THEN "confirmed" ELSE "closed"

-----------------------------------------------------------------------------
(* The website's reading.                                                  *)

SumsFit(s) ==
  LET owed == IF s.status = "CANCELLED" THEN 0 ELSE s.total IN
  s.balance = Above(owed, s.paid) /\ s.refund = Above(s.paid, owed)

AcceptsState(s, reason) == SumsFit(s) /\ (reason = "none" => s.status = "CONFIRMED")

AcceptsPreview(p) ==
  /\ p.total >= 1
  /\ p.balance = Above(p.total, p.paid) /\ p.refund = Above(p.paid, p.total)

-----------------------------------------------------------------------------
(* Properties.                                                             *)

(* Whatever was changed, charged again, given back or cancelled, and       *)
(* however late a preview is shown or an operation repeated, the website   *)
(* accepts the answer and shows it.                                        *)
AnswersAccepted ==
  /\ AcceptsState(Summary, Refusal)
  /\ \A u \in Quotes : quotes[u] # None => AcceptsPreview(Preview(u))

(* The two pages tell one story: a stay the status page calls confirmed    *)
(* can be managed until its cutoff, unless its log is full, and one that   *)
(* is up for review cannot.                                                *)
ConfirmedIsManageable ==
  booking.status = "CONFIRMED" =>
    /\ Heading = "confirmed" =>
         LogFull \/ Refusal \in {"none", "CHANGE_CUTOFF_PASSED"}
    /\ Heading = "review" => Refusal = "SETTLEMENT_REVIEW_REQUIRED"

(* What the guest is shown is accepted, and one story on both pages.       *)
ViewHolds == AnswersAccepted /\ ConfirmedIsManageable

=============================================================================
