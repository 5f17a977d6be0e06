--------------------------- MODULE StripeCheckout ---------------------------
(***************************************************************************)
(* One booking paid through a Stripe Checkout session.  The page of the    *)
(* session is Stripe's: it may be paid, expire or fail at any time, and    *)
(* Stripe repeats its webhook until it is answered 200.  Webhooks, the     *)
(* guest's status page, a resume and a cancel overlap; each of their calls *)
(* to Stripe and each of their transactions is a step of its own, and the  *)
(* server may stop, or the call fail, between any two.                     *)
(***************************************************************************)
EXTENDS Naturals

CONSTANTS
  Sessions,     \* Checkout Session ids that Stripe may hand out
  Requests,     \* requests being served
  RefundEnds,   \* how a refund may end at Stripe
  MaxFailures,  \* bound on calls that fail and on stops of the server
  None          \* no session

(* A refund ends done or failed.                                           *)
ASSUME StripeAssumption ==
  RefundEnds \subseteq {"succeeded", "failed"} /\ MaxFailures \in Nat

VARIABLES
  status,       \* bookings.status, NONE before the reservation
  live,         \* hold_expires_at > clock_timestamp()
  meta,         \* price_snapshot.payment
  row,          \* payments.payment_status, "none" before it is inserted
  email,        \* price_snapshot.confirmationEmail.state
  session,      \* Stripe's state of each session
  refund,       \* Stripe's refund of each session's payment intent
  owed,         \* webhook events not answered with 200 yet
  request,      \* what each request is doing
  failures      \* calls that failed and stops of the server so far

booking == <<status, live, meta, row, email>>
stripe == <<session, refund>>
vars == <<booking, stripe, owed, request, failures>>

NoMeta == [prepared |-> FALSE, session |-> None, refundRequired |-> FALSE,
           refundStatus |-> "none"]

Idle == [pc |-> "idle", op |-> "none", id |-> None, seen |-> "absent"]

Init ==
  /\ status = "NONE" /\ live = FALSE /\ meta = NoMeta
  /\ row = "none" /\ email = "none"
  /\ session = [s \in Sessions |-> "absent"]
  /\ refund = [s \in Sessions |-> "none"]
  /\ owed = {}
  /\ request = [q \in Requests |-> Idle]
  /\ failures = 0

-----------------------------------------------------------------------------
(* The booking outside its payment.                                        *)

Reserve ==
  /\ status = "NONE"
  /\ status' = "PENDING" /\ live' = TRUE
  /\ UNCHANGED <<meta, row, email, stripe, owed, request, failures>>

(* The hold runs out, which only a pending booking is ever asked about.    *)
Lapse ==
  /\ status = "PENDING" /\ live
  /\ live' = FALSE
  /\ UNCHANGED <<status, meta, row, email, stripe, owed, request, failures>>

(* Swept with the lapsed holds, or cancelled by another route.             *)
Drop ==
  /\ status \in {"PENDING", "CONFIRMED"}
  /\ status' = "CANCELLED"
  /\ UNCHANGED <<live, meta, row, email, stripe, owed, request, failures>>

-----------------------------------------------------------------------------
(* Stripe: a session is open until it is paid, at once or after a delay,   *)
(* or expires; each of these ends owes an event.                           *)

Becomes(s, state, event) ==
  /\ session' = [session EXCEPT ![s] = state]
  /\ owed' = owed \cup {<<s, event>>}
  /\ UNCHANGED <<booking, refund, request, failures>>

Guest(s) ==
  \/ session[s] = "open" /\ \/ Becomes(s, "paid", "completed")
                            \/ Becomes(s, "processing", "completed")
                            \/ Becomes(s, "expired", "expired")
  \/ session[s] = "processing" /\ \/ Becomes(s, "paid", "async_succeeded")
                                  \/ Becomes(s, "unpaid", "async_failed")

RefundEnd(s) ==
  /\ refund[s] = "pending"
  /\ \E e \in RefundEnds : refund' = [refund EXCEPT ![s] = e]
  /\ UNCHANGED <<booking, session, owed, request, failures>>

-----------------------------------------------------------------------------
(* Requests.                                                               *)

At(q, pc) == request[q].pc = pc

Goto(q, pc) == request' = [request EXCEPT ![q].pc = pc]

Done(q) == request' = [request EXCEPT ![q] = Idle]

(* A webhook names its session; status and cancel ask for the attached one *)
(* and end at once without it; start and resume begin at the hold.         *)
Webhook(q, s, e) ==
  /\ At(q, "idle") /\ <<s, e>> \in owed
  /\ request' = [request EXCEPT ![q] =
       [pc |-> "retrieve", op |-> e, id |-> s, seen |-> "absent"]]
  /\ UNCHANGED <<booking, stripe, owed, failures>>

Ask(q, o) ==
  /\ At(q, "idle") /\ meta.session # None
  /\ request' = [request EXCEPT ![q] =
       [pc |-> IF o = "cancel" THEN "expire" ELSE "retrieve", op |-> o,
        id |-> meta.session, seen |-> "absent"]]
  /\ UNCHANGED <<booking, stripe, owed, failures>>

(* prepare: the row of the payment is inserted once, while the hold lives. *)
Prepare(q) ==
  /\ At(q, "idle") /\ status = "PENDING" /\ live
  /\ meta' = [meta EXCEPT !.prepared = TRUE]
  /\ row' = IF meta.prepared THEN row ELSE "PENDING"
  /\ request' = [request EXCEPT ![q] =
       [pc |-> IF meta.session = None THEN "create" ELSE "look",
        op |-> "resume", id |-> meta.session, seen |-> "absent"]]
  /\ UNCHANGED <<status, live, email, stripe, owed, failures>>

Opened == {s \in Sessions : session[s] # "absent"}

(* The key of the call is the payment's: a repeated call gets the answer   *)
(* of the first, which may have been lost.                                 *)
Created(s) == IF Opened = {} THEN TRUE ELSE s \in Opened

Create(q, s) ==
  /\ At(q, "create") /\ Created(s)
  /\ session' = IF s \in Opened THEN session ELSE [session EXCEPT ![s] = "open"]
  /\ request' = [request EXCEPT ![q].pc = "attach", ![q].id = s,
                                ![q].seen = "open"]
  /\ UNCHANGED <<booking, refund, owed, failures>>

Look(q) ==
  /\ At(q, "look")
  /\ request' = [request EXCEPT ![q].pc = "attach",
                                ![q].seen = session[request[q].id]]
  /\ UNCHANGED <<booking, stripe, owed, failures>>

(* One session per payment: another one is a conflict.                     *)
Attach(q) ==
  /\ At(q, "attach") /\ meta.session \in {None, request[q].id}
  /\ meta' = [meta EXCEPT !.session = request[q].id]
  /\ IF request[q].seen = "open" THEN Done(q) ELSE Goto(q, "retrieve")
  /\ UNCHANGED <<status, live, row, email, stripe, owed, failures>>

(* cancel: an open session is expired first.  Errors are ignored, since    *)
(* the guest may have paid meanwhile.                                      *)
Expire(q) ==
  /\ At(q, "expire")
  /\ LET s == request[q].id
     IN  \/ /\ session[s] = "open"
            /\ session' = [session EXCEPT ![s] = "expired"]
            /\ owed' = owed \cup {<<s, "expired">>}
         \/ UNCHANGED <<session, owed>>
  /\ Goto(q, "retrieve")
  /\ UNCHANGED <<booking, refund, failures>>

Retrieve(q) ==
  /\ At(q, "retrieve")
  /\ request' = [request EXCEPT ![q].pc = "settle",
                                ![q].seen = session[request[q].id]]
  /\ UNCHANGED <<booking, stripe, owed, failures>>

Confirms == status = "PENDING" /\ live

(* A likely slip: money for a booking that is gone is only recorded.       *)
TooLate_Lapsed == status = "PENDING" /\ ~live

TooLate == ~Confirms

(* Paid: recorded once, in one transaction with what it means for the room. *)
SettlePaid(q) ==
  /\ request[q].seen = "paid"
  /\ LET first == row # "COMPLETED"
         late == first /\ TooLate
     IN  /\ row' = "COMPLETED"
         /\ status' = IF ~first THEN status
                      ELSE IF Confirms THEN "CONFIRMED"
                      ELSE IF status = "PENDING" THEN "CANCELLED" ELSE status
         /\ meta' = [meta EXCEPT
                       !.session = request[q].id,
                       !.refundRequired = late \/ @,
                       !.refundStatus = IF late THEN "PENDING" ELSE @]
  /\ Goto(q, IF meta'.refundRequired THEN "refund" ELSE "email")

Failed(q) ==
  /\ request[q].seen = "expired" \/ request[q].op = "async_failed"
  /\ request[q].seen # "paid"

SettleUnpaid(q) ==
  /\ Failed(q) /\ row # "COMPLETED"
  /\ row' = "FAILED"
  /\ status' = IF status = "PENDING" THEN "CANCELLED" ELSE status
  /\ meta' = [meta EXCEPT !.session = request[q].id]
  /\ Goto(q, "email")

Final == row = "REFUNDED"

(* Nothing to record yet, or nothing that could change any more.           *)
SettleNothing(q) ==
  /\ \/ Final
     \/ request[q].seen # "paid" /\ (Failed(q) => row = "COMPLETED")
  /\ Goto(q, "email")
  /\ UNCHANGED <<status, meta, row>>

Settle(q) ==
  /\ At(q, "settle")
  /\ meta.prepared /\ meta.session \in {None, request[q].id}
  /\ \/ SettleNothing(q)
     \/ ~Final /\ (SettlePaid(q) \/ SettleUnpaid(q))
  /\ UNCHANGED <<live, email, stripe, owed, failures>>

(* A likely slip: the word of the call that made the refund is taken, and  *)
(* not what is retrieved of it.                                            *)
Seen_Created(q) == "succeeded"

Seen(q) == refund'[request[q].id]

(* The refund is made under the key of the payment, and then retrieved.    *)
GiveBack(q) ==
  /\ At(q, "refund")
  /\ \E now \in {"pending"} \cup RefundEnds :
       refund' = [refund EXCEPT ![request[q].id] = IF @ = "none" THEN now ELSE @]
  /\ request' = [request EXCEPT ![q].pc = "refunded", ![q].seen = Seen(q)]
  /\ UNCHANGED <<booking, session, owed, failures>>

RefundKnown == meta.refundStatus = "REFUNDED"

Succeeded(q) == request[q].seen = "succeeded"

RecordRefund(q) ==
  /\ At(q, "refunded") /\ (meta.refundRequired \/ RefundKnown)
  /\ IF RefundKnown THEN UNCHANGED <<row, meta>>
     ELSE /\ row' = IF Succeeded(q) THEN "REFUNDED" ELSE row
          /\ meta' = [meta EXCEPT
               !.refundRequired = ~Succeeded(q),
               !.refundStatus = IF Succeeded(q) THEN "REFUNDED" ELSE "PENDING"]
  /\ Goto(q, IF Succeeded(q) THEN "email" ELSE "unavailable")
  /\ UNCHANGED <<status, live, email, stripe, owed, failures>>

(* confirmationEmail.send: one durable claim, then the send and its        *)
(* outcome (module PayHereCheckout opens it up).                           *)
Claimable ==
  /\ status = "CONFIRMED" /\ ~meta.refundRequired /\ row = "COMPLETED"
  /\ email \in {"none", "FAILED"}

Send(q) ==
  /\ At(q, "email")
  /\ \/ Claimable /\ email' \in {"SENDING", "ACCEPTED", "FAILED", "UNKNOWN"}
     \/ UNCHANGED email
  /\ Goto(q, "answer")
  /\ UNCHANGED <<status, live, meta, row, stripe, owed, failures>>

(* A likely slip: the webhook is answered 200 although the refund is not   *)
(* done.                                                                   *)
Answers_Any(q) == At(q, "answer") \/ At(q, "unavailable")

Answers(q) == At(q, "answer")

(* 200: Stripe does not repeat this event.                                 *)
Answer(q) ==
  /\ Answers(q)
  /\ owed' = owed \ {<<request[q].id, request[q].op>>}
  /\ Done(q)
  /\ UNCHANGED <<booking, stripe, failures>>

(* 503 while the refund is pending; 409 when the session or the refund is  *)
(* not the booking's.                                                      *)
Refuse(q) ==
  /\ \/ At(q, "unavailable")
     \/ At(q, "attach") /\ meta.session \notin {None, request[q].id}
     \/ At(q, "settle") /\ meta.session \notin {None, request[q].id}
     \/ At(q, "refunded") /\ ~meta.refundRequired /\ ~RefundKnown
  /\ Done(q)
  /\ UNCHANGED <<booking, stripe, owed, failures>>

(* A call fails or times out, or the server stops.                         *)
Fail(q) ==
  /\ ~At(q, "idle") /\ failures < MaxFailures
  /\ failures' = failures + 1
  /\ Done(q)
  /\ UNCHANGED <<booking, stripe, owed>>

-----------------------------------------------------------------------------
Serve(q) ==
  \/ Look(q) \/ Attach(q) \/ Expire(q) \/ Retrieve(q) \/ Settle(q)
  \/ GiveBack(q) \/ RecordRefund(q) \/ Send(q) \/ Answer(q) \/ Refuse(q)
  \/ \E s \in Sessions : Create(q, s)

Events == {"completed", "expired", "async_succeeded", "async_failed"}

Hook == \E q \in Requests, s \in Sessions, e \in Events : Webhook(q, s, e)

Next ==
  \/ Reserve \/ Lapse \/ Drop \/ Hook
  \/ \E s \in Sessions : Guest(s) \/ RefundEnd(s)
  \/ \E q \in Requests :
       \/ Serve(q) \/ Fail(q) \/ Prepare(q)
       \/ \E o \in {"status", "cancel"} : Ask(q, o)

Spec == Init /\ [][Next]_vars

-----------------------------------------------------------------------------
(* Properties.                                                             *)

SessionStates == {"absent", "open", "processing", "paid", "unpaid", "expired"}

(* The booking, its payment metadata, Stripe's objects and the requests    *)
(* hold what their columns and fields may hold.                            *)
TypeOK ==
  /\ status \in {"NONE", "PENDING", "CONFIRMED", "CANCELLED"}
  /\ live \in BOOLEAN
  /\ meta \in [prepared : BOOLEAN, session : Sessions \cup {None},
               refundRequired : BOOLEAN,
               refundStatus : {"none", "PENDING", "REFUNDED"}]
  /\ row \in {"none", "PENDING", "COMPLETED", "FAILED", "REFUNDED"}
  /\ email \in {"none", "SENDING", "ACCEPTED", "FAILED", "UNKNOWN"}
  /\ session \in [Sessions -> SessionStates]
  /\ refund \in [Sessions -> {"none", "pending", "succeeded", "failed"}]
  /\ owed \subseteq Sessions \X Events
  /\ request \in [Requests ->
       [pc : {"idle", "create", "look", "attach", "expire", "retrieve", "settle",
              "refund", "refunded", "email", "answer", "unavailable"},
        op : Events \cup {"none", "status", "cancel", "resume"},
        id : Sessions \cup {None},
        seen : SessionStates \cup {"none", "pending", "succeeded", "failed"}]]
  /\ failures \in 0..MaxFailures

(* A guest is offered one session however often a start or resume is       *)
(* repeated or its answer lost, so a stay is never charged twice.          *)
OneSession == \A s, t \in Opened : s = t

(* The payments row says REFUNDED only of money Stripe really returned,    *)
(* and whatever is returned or being returned bought nothing.              *)
RefundIsReal ==
  /\ row = "REFUNDED" =>
       /\ meta.refundStatus = "REFUNDED" /\ ~meta.refundRequired
       /\ \E s \in Sessions : refund[s] = "succeeded"
  /\ \A s \in Sessions : refund[s] # "none" =>
       session[s] = "paid" /\ status = "CANCELLED" /\ meta.refundStatus # "none"

(* A confirmation email is sent, or about to be, only for money that was   *)
(* kept: never for a payment that is, or will be, returned.                *)
MailOnlyIfKept ==
  email # "none" => row = "COMPLETED" /\ ~meta.refundRequired

(* A stay is offered through one Stripe session, money that is returned    *)
(* bought nothing, and no email confirms a stay whose money goes back.     *)
StripeSafe == TypeOK /\ OneSession /\ RefundIsReal /\ MailOnlyIfKept

(* The money's and the room's promise: nothing else ever happens to them.  *)
Paid == {s \in Sessions : session[s] = "paid"}

Promise == INSTANCE PaymentPromise WITH
  room <- CASE status = "NONE" -> "none"
            [] status = "PENDING" -> "held"
            [] status = "CONFIRMED" -> "booked"
            [] OTHER -> "gone",
  money <- CASE Paid = {} -> "none"
             [] Paid # {} /\ row = "REFUNDED" -> "returned"
             [] Paid # {} /\ row \notin {"REFUNDED", "COMPLETED"} -> "taken"
             [] OTHER -> IF meta.refundRequired THEN "owed" ELSE "kept"

KeepsPromise == Promise!Spec

(* Eventually: money taken is recorded as the payment of the booking or    *)
(* returned, though every process that handles it may stop half way and    *)
(* no guest ever looks again.                                              *)
MoneySettled ==
  \A s \in Paid :
    \/ row = "COMPLETED" /\ ~meta.refundRequired
    \/ row = "REFUNDED" /\ refund[s] = "succeeded"

(* Eventually: a payment that failed or a session that expired has given   *)
(* the room back, without waiting for the hold to lapse.                   *)
RoomReleased ==
  (\E s \in Sessions : session[s] \in {"unpaid", "expired"})
    => status \notin {"PENDING", "CONFIRMED"}

=============================================================================
