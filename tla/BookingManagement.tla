------------------------- MODULE BookingManagement -------------------------
(***************************************************************************)
(* One confirmed booking that its guest changes or cancels online: signed  *)
(* change quotes, revisions, request keys, the 24-hour cutoff, unsettled   *)
(* money, and the email each operation sends after its transaction.        *)
(*                                                                         *)
(* A management transaction holds the booking's row and its payments from  *)
(* its first look at them to its commit, and the locks of module Inventory *)
(* before that, so it is one step here; whether a room is free is decided  *)
(* in Inventory and may go either way.  Between the steps act payment      *)
(* settlements, the Front Desk, a change of the hotel's policy, the clock, *)
(* and other requests of the guest.                                        *)
(***************************************************************************)
EXTENDS Integers, Sequences

CONSTANTS
  Places,       \* room type and dates
  Wishes,       \* number of guests and special requests
  CheckInAt,    \* the instant of check-in of each place
  Totals,       \* totals the pricing policy yields, in minor units
  Keys,         \* Idempotency-Keys
  Quotes,       \* change quotes that may be signed
  Requests,     \* requests being served
  MaxEvents,    \* fifty in the code
  Notice,       \* the 24 hours of the cutoff
  QuoteLife,    \* the ten minutes of a quote
  MaxTime,      \* bound on the clock
  MaxCharges,   \* bound on the charges of one order
  Outcomes,     \* how an attempt to send an email may end
  None

ASSUME ManagementAssumption ==
  /\ CheckInAt \in [Places -> Int]
  /\ Totals \subseteq Nat \ {0} /\ MaxEvents \in Nat
  /\ Outcomes \subseteq {"ACCEPTED", "FAILED", "UNKNOWN"}
  /\ Notice \in Nat /\ QuoteLife \in Nat \ {0} /\ MaxTime \in Nat
  /\ MaxCharges \in Nat \ {0}

VARIABLES
  now,
  booking,      \* the columns of the row that management reads and writes
  price,        \* the amount of the booking's provider order, frozen
  received,     \* charges of that order that are recorded as received
  desk,         \* what the hotel took or gave back by hand
  review,       \* price_snapshot.payment.refundRequired or reviewRequired
  events,       \* price_snapshot.management.events
  policy,       \* modificationSettlement of the policy in force
  quotes,       \* the signed change quotes the guest holds
  request,      \* the email each request is at
  told          \* the operations answered with

money == <<price, received, desk, review>>
vars == <<now, booking, money, events, policy, quotes, request, told>>

Plans == [place : Places, wish : Wishes]
Settlements == {"SAME_TOTAL_ONLY", "MANUAL_REVIEW"}

Row == [status : {"CONFIRMED", "CHECKED_IN", "CHECKED_OUT", "CANCELLED"},
        plan : Plans, total : Totals, assigned : BOOLEAN]

Version == [plan : Plans, total : Totals, status : {"CONFIRMED", "CHECKED_IN",
                                                    "CHECKED_OUT", "CANCELLED"}]

Signed ==
  [plan : Plans, total : Totals, policy : Settlements, expires : Nat,
   binding : [row : Row, paid : Int, revision : 0 .. MaxEvents]]

Op == [kind : {"MODIFIED"}, of : Quotes] \cup [kind : {"CANCELLED"}, of : 0 .. MaxEvents]

ASSUME NoneAssumption ==
  None \notin Signed /\ None \notin Op /\ None \notin [from : Version, to : Version]

Idle == [pc |-> "idle", event |-> 0, outcome |-> "none"]

Init ==
  /\ now = 0
  /\ booking \in [status : {"CONFIRMED"}, plan : Plans, total : Totals,
                  assigned : {FALSE}]
  /\ price = booking.total /\ received = 1 /\ desk = 0 /\ review = FALSE
  /\ events = <<>>
  /\ policy \in Settlements
  /\ quotes = [u \in Quotes |-> None]
  /\ request = [q \in Requests |-> Idle]
  /\ told = {}

-----------------------------------------------------------------------------
(* What a transaction derives from the rows it has locked.                 *)

Revision == Len(events)

Paid == received * price + desk

Owed(b) == IF b.status = "CANCELLED" THEN 0 ELSE b.total

RefundDue(b) == IF Paid > Owed(b) THEN Paid - Owed(b) ELSE 0

Balance(b) == IF Paid < Owed(b) THEN Owed(b) - Paid ELSE 0

BeforeCutoff(place) == now < CheckInAt[place] - Notice

(* Likely slips: what an earlier change left owing is not waited for; only *)
(* the new dates are held against the cutoff; the guest may be here.       *)
Eligible_AnyStatus ==
  /\ ~review /\ Len(events) < MaxEvents
  /\ Revision > 0 => RefundDue(booking) = 0 /\ Balance(booking) = 0
  /\ BeforeCutoff(booking.plan.place)

Eligible_Unsettled ==
  /\ booking.status = "CONFIRMED" /\ ~review /\ Len(events) < MaxEvents
  /\ BeforeCutoff(booking.plan.place)

Eligible_NewDates ==
  /\ booking.status = "CONFIRMED" /\ ~review /\ Len(events) < MaxEvents
  /\ Revision > 0 => RefundDue(booking) = 0 /\ Balance(booking) = 0

Eligible ==
  /\ booking.status = "CONFIRMED" /\ ~review /\ Len(events) < MaxEvents
  /\ Revision > 0 => RefundDue(booking) = 0 /\ Balance(booking) = 0
  /\ BeforeCutoff(booking.plan.place)

SettlementAllowed(total) == policy = "SAME_TOTAL_ONLY" => total = booking.total

(* A likely slip: what the guest sees is all a quote is bound to.          *)
Binding_Seen == [row |-> booking, paid |-> Paid, revision |-> 0]

Binding == [row |-> booking, paid |-> Paid, revision |-> Revision]

-----------------------------------------------------------------------------
(* quote: price the change at today's rates and sign it, with what it is   *)
(* a change of.  Nothing is written.                                       *)

Quote(u) ==
  /\ quotes[u] = None
  /\ Eligible
  /\ \E P \in Plans, n \in Totals :
       /\ BeforeCutoff(P.place) /\ SettlementAllowed(n)
       /\ quotes' = [quotes EXCEPT ![u] =
            [plan |-> P, total |-> n, binding |-> Binding, policy |-> policy,
             expires |-> now + QuoteLife]]
  /\ UNCHANGED <<now, booking, money, events, policy, request, told>>

-----------------------------------------------------------------------------
(* modify and cancel.                                                      *)

EventOf(k) == {i \in DOMAIN events : events[i].key = k}

Answer(q, k, op, i) ==
  /\ told' = told \cup {<<k, op>>}
  /\ request' = [request EXCEPT ![q] = [Idle EXCEPT !.pc = "claim", !.event = i]]

Replay(q, k, op) ==
  /\ request[q].pc = "idle"
  /\ \E i \in EventOf(k) : events[i].op = op /\ Answer(q, k, op, i)
  /\ UNCHANGED <<now, booking, money, events, policy, quotes>>

Receipt(b) ==
  [status |-> b.status, plan |-> b.plan, total |-> b.total,
   paid |-> Paid, balance |-> Balance(b), refund |-> RefundDue(b)]

Record(q, k, op, b) ==
  /\ request[q].pc = "idle"
  /\ EventOf(k) = {} /\ Eligible
  /\ booking' = b
  /\ events' = Append(events, [key |-> k, op |-> op, at |-> now,
                               receipt |-> Receipt(b), email |-> "PENDING",
                               cooled |-> FALSE, accepted |-> 0])
  /\ Answer(q, k, op, Len(events) + 1)
  /\ UNCHANGED <<now, money, policy, quotes>>

(* A room assigned for the old dates is given up with them.                *)
Changed(P, n) ==
  [booking EXCEPT !.plan = P, !.total = n,
                  !.assigned = booking.assigned /\ booking.plan.place = P.place]

Modify(q, k, u) ==
  /\ quotes[u] # None
  /\ quotes[u].binding = Binding /\ quotes[u].policy = policy
  /\ quotes[u].expires > now
  /\ BeforeCutoff(quotes[u].plan.place)
  /\ SettlementAllowed(quotes[u].total)
  /\ Record(q, k, [kind |-> "MODIFIED", of |-> u],
            Changed(quotes[u].plan, quotes[u].total))

Cancel(q, k, expected) ==
  /\ Revision = expected
  /\ Record(q, k, [kind |-> "CANCELLED", of |-> expected],
            [booking EXCEPT !.status = "CANCELLED"])

-----------------------------------------------------------------------------
(* The email of an operation, after its commit, also on a replay.          *)

(* A likely slip: sending what may have been sent.                         *)
Claimable_Sending(e) ==
  e.email \in {"PENDING", "SENDING"} \/ (e.email = "FAILED" /\ e.cooled)

Claimable(e) == e.email = "PENDING" \/ (e.email = "FAILED" /\ e.cooled)

Claim(q) ==
  LET i == request[q].event IN
  /\ request[q].pc = "claim" /\ Claimable(events[i])
  /\ events' = [events EXCEPT ![i].email = "SENDING", ![i].cooled = FALSE]
  /\ request' = [request EXCEPT ![q].pc = "deliver"]
  /\ UNCHANGED <<now, booking, money, policy, quotes, told>>

Deliver(q) ==
  /\ request[q].pc = "deliver"
  /\ \E outcome \in Outcomes, taken \in {0, 1} :
       /\ outcome = "ACCEPTED" => taken = 1
       /\ outcome = "FAILED" => taken = 0
       /\ events' = [events EXCEPT ![request[q].event].accepted = @ + taken]
       /\ request' = [request EXCEPT ![q].pc = "finish", ![q].outcome = outcome]
  /\ UNCHANGED <<now, booking, money, policy, quotes, told>>

Finish(q) ==
  LET i == request[q].event IN
  /\ request[q].pc = "finish"
  /\ events' = IF events[i].email = "SENDING"
                 THEN [events EXCEPT ![i].email = request[q].outcome] ELSE events
  /\ request' = [request EXCEPT ![q] = Idle]
  /\ UNCHANGED <<now, booking, money, policy, quotes, told>>

(* Nothing to send, an error of the email, or the server stopping.         *)
NoEmail(q) ==
  /\ request[q].pc # "idle"
  /\ request' = [request EXCEPT ![q] = Idle]
  /\ UNCHANGED <<now, booking, money, events, policy, quotes, told>>

Minute(i) ==
  /\ events[i].email = "FAILED" /\ ~events[i].cooled
  /\ events' = [events EXCEPT ![i].cooled = TRUE]
  /\ UNCHANGED <<now, booking, money, policy, quotes, request, told>>

-----------------------------------------------------------------------------
(* Everybody else.                                                         *)

Tick ==
  /\ now < MaxTime /\ now' = now + 1
  /\ UNCHANGED <<booking, money, events, policy, quotes, request, told>>

(* A settlement of the provider's charges: a second one, a refund, or one  *)
(* that is under way (module PayHereCheckout opens it up).                 *)
Settle(n) ==
  /\ received' = n
  /\ \/ review' = TRUE
     \/ review' = (n # 1 \/ booking.status = "CANCELLED")
  /\ UNCHANGED <<now, booking, price, desk, events, policy, quotes, request, told>>

(* Staff reconcile what a change left owing.                               *)
Reconcile ==
  /\ Revision > 0 /\ Paid # Owed(booking)
  /\ desk' = Owed(booking) - received * price
  /\ UNCHANGED <<now, booking, price, received, review, events, policy, quotes,
                 request, told>>

Assign ==
  /\ booking.status = "CONFIRMED"
  /\ booking' = [booking EXCEPT !.assigned = ~booking.assigned]
  /\ UNCHANGED <<now, money, events, policy, quotes, request, told>>

CheckInOut ==
  /\ \/ booking.status = "CONFIRMED" /\ booking' = [booking EXCEPT !.status = "CHECKED_IN"]
     \/ booking.status = "CHECKED_IN" /\ booking' = [booking EXCEPT !.status = "CHECKED_OUT"]
  /\ UNCHANGED <<now, money, events, policy, quotes, request, told>>

NewPolicy ==
  /\ policy' \in Settlements
  /\ UNCHANGED <<now, booking, money, events, quotes, request, told>>

-----------------------------------------------------------------------------
Operation(q, k) ==
  \/ \E u \in Quotes : Modify(q, k, u) \/ Replay(q, k, [kind |-> "MODIFIED", of |-> u])
  \/ \E r \in 0 .. MaxEvents :
       Cancel(q, k, r) \/ Replay(q, k, [kind |-> "CANCELLED", of |-> r])

Email(q) == Claim(q) \/ Deliver(q) \/ Finish(q) \/ NoEmail(q)

Elsewhere ==
  \/ Tick \/ Reconcile \/ Assign \/ CheckInOut \/ NewPolicy
  \/ \E n \in 0 .. MaxCharges : Settle(n)
  \/ \E i \in DOMAIN events : Minute(i)

Next ==
  \/ \E u \in Quotes : Quote(u)
  \/ \E q \in Requests : Email(q) \/ \E k \in Keys : Operation(q, k)
  \/ Elsewhere

Spec == Init /\ [][Next]_vars

-----------------------------------------------------------------------------
(* Properties.                                                             *)

Sums ==
  [status : {"CONFIRMED", "CANCELLED"}, plan : Plans, total : Totals,
   paid : Int, balance : Nat, refund : Nat]

Event ==
  [key : Keys, op : Op, at : 0 .. MaxTime, receipt : Sums, cooled : BOOLEAN,
   email : {"PENDING", "SENDING", "ACCEPTED", "FAILED", "UNKNOWN"}, accepted : Nat]

(* The row, its payments, the log of operations, tokens and requests hold  *)
(* what their columns and fields may hold; the log has at most MaxEvents.  *)
TypeOK ==
  /\ now \in 0 .. MaxTime /\ booking \in Row
  /\ price \in Totals /\ received \in 0 .. MaxCharges /\ desk \in Int /\ review \in BOOLEAN
  /\ events \in Seq(Event) /\ Len(events) <= MaxEvents
  /\ policy \in Settlements
  /\ quotes \in [Quotes -> Signed \cup {None}]
  /\ request \in [Requests ->
       [pc : {"idle", "claim", "deliver", "finish"}, event : 0 .. MaxEvents,
        outcome : {"none", "ACCEPTED", "FAILED", "UNKNOWN"}]]
  /\ told \subseteq Keys \X Op

(* The receipt of the last operation, which is what the guest is emailed,  *)
(* is what the booking now is, and its sums are those of that booking,     *)
(* although payments and staff went on writing around it.                  *)
ReceiptIsBooking ==
  events # <<>> =>
    LET r == events[Len(events)].receipt IN
    /\ r.plan = booking.plan /\ r.total = booking.total
    /\ \/ r.status = booking.status
       \/ r.status = "CONFIRMED" /\ booking.status \in {"CHECKED_IN", "CHECKED_OUT"}
    /\ r.balance - r.refund = (IF r.status = "CANCELLED" THEN 0 ELSE r.total) - r.paid
    /\ r.balance = 0 \/ r.refund = 0

(* Money never piles up: whatever a change left owing, to the hotel or to  *)
(* the guest, was settled before the next operation was accepted, and none *)
(* is accepted after a cancellation.                                       *)
SettledBetween ==
  \A i \in 1 .. Len(events) - 1 :
    /\ events[i].receipt.status = "CONFIRMED"
    /\ events[i + 1].receipt.paid = events[i].receipt.total

(* What a change left owing, to the hotel or to the guest, is what the     *)
(* receipt says and is settled before the next operation is accepted.      *)
MoneySettled == ReceiptIsBooking /\ SettledBetween

(* Every operation was accepted more than the notice before the check-in   *)
(* it gave up, and before the one it moved to, so no sequence of changes   *)
(* escapes the cutoff; and no change is made with an expired quote.        *)
AcceptedInTime ==
  \A i \in DOMAIN events :
    LET e == events[i] IN
    /\ e.at < CheckInAt[e.receipt.plan.place] - Notice
    /\ e.op.kind = "MODIFIED" =>
         LET u == quotes[e.op.of] IN
         e.at < CheckInAt[u.binding.row.plan.place] - Notice /\ e.at < u.expires

(* Each operation is emailed at most once, although replays, overlapping   *)
(* requests and later operations write to the same log.                    *)
OneChangeEmail == \A i \in DOMAIN events : events[i].accepted <= 1

(* Booking management keeps its promise: each change takes the booking     *)
(* from the version the guest was shown to the one that was quoted, once,  *)
(* and a key always stands for one operation.                              *)
VersionOf(row) == [plan |-> row.plan, total |-> row.total, status |-> row.status]

OfferOf(u) ==
  IF quotes[u] = None THEN None
  ELSE [from |-> VersionOf(quotes[u].binding.row),
        to |-> [plan |-> quotes[u].plan, total |-> quotes[u].total,
                status |-> "CONFIRMED"]]

OperationOf(k) ==
  IF EventOf(k) = {} THEN None ELSE events[CHOOSE i \in EventOf(k) : TRUE].op

Promise == INSTANCE ChangePromise WITH
  Offers <- Quotes,
  version <- VersionOf(booking),
  offers <- [u \in Quotes |-> OfferOf(u)],
  done <- [k \in Keys |-> OperationOf(k)]

KeepsChanges == Promise!Spec

=============================================================================
