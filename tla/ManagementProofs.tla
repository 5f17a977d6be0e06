-------------------------- MODULE ManagementProofs --------------------------
(***************************************************************************)
(* Whatever the guest's requests, the staff, the payments and the clock do *)
(* between two of them, every change of a booking is accepted in time, is  *)
(* settled before the next, is emailed at most once, is the change that    *)
(* was quoted, and is shown to the guest in sums the website accepts: for  *)
(* every booking, policy and number of requests.                           *)
(***************************************************************************)
EXTENDS ManagementView, FiniteSetTheorems, SequenceTheorems, TLAPS

(* The log has one operation per key, and each was accepted at the         *)
(* revision it was quoted, or asked, for.                                  *)
LogInOrder ==
  /\ \A i, j \in DOMAIN events : events[i].key = events[j].key => i = j
  /\ \A i \in DOMAIN events :
       IF events[i].op.kind = "MODIFIED"
       THEN /\ quotes[events[i].op.of] # None
            /\ quotes[events[i].op.of].binding.revision = i - 1
       ELSE events[i].op.of = i - 1

UsedKeys == {k \in Keys : EventOf(k) # {}}

KeysCount == IsFiniteSet(UsedKeys) /\ Cardinality(UsedKeys) = Len(events)

(* A request that works on the email of an operation works on one that is  *)
(* there.                                                                  *)
WorksOn(q, i) == request[q].pc \in {"deliver", "finish"} /\ request[q].event = i

RequestsKnow ==
  \A q \in Requests : request[q].pc # "idle" => request[q].event \in DOMAIN events

(* One request at a time is between its claim of an operation's email and  *)
(* its finish, and nothing was sent as long as a claim is possible.        *)
OneClaim(i) ==
  /\ \A q \in Requests : WorksOn(q, i) =>
       /\ events[i].email = "SENDING"
       /\ request[q].pc = "deliver" => events[i].accepted = 0
       /\ request[q].pc = "finish" =>
            /\ request[q].outcome # "none"
            /\ request[q].outcome = "FAILED" => events[i].accepted = 0
  /\ \A q, r \in Requests : WorksOn(q, i) /\ WorksOn(r, i) => q = r
  /\ events[i].email \in {"PENDING", "FAILED"} => events[i].accepted = 0
  /\ events[i].accepted <= 1

EmailInv == RequestsKnow /\ \A i \in DOMAIN events : OneClaim(i)

MInv ==
  /\ TypeOK /\ LogInOrder /\ KeysCount /\ EmailInv
  /\ AcceptedInTime /\ ReceiptIsBooking /\ SettledBetween

LEMMA NoneApart ==
  /\ None \notin Signed /\ None \notin Op /\ None \notin [from : Version, to : Version]
BY NoneAssumption

LEMMA Bounds ==
  /\ MaxEvents \in Nat /\ MaxTime \in Nat /\ QuoteLife \in Nat /\ Notice \in Nat
  /\ MaxCharges \in Nat /\ (\A n \in Totals : n \in Nat) /\ CheckInAt \in [Places -> Int]
<1> QED
  BY ManagementAssumption

-----------------------------------------------------------------------------
(* The log grows by an operation, or its operations stay what they are.    *)

SameOp(e, f) ==
  e.key = f.key /\ e.op = f.op /\ e.at = f.at /\ e.receipt = f.receipt

NewEvent(k, op, b) ==
  [key |-> k, op |-> op, at |-> now, receipt |-> Receipt(b), email |-> "PENDING",
   cooled |-> FALSE, accepted |-> 0]

LEMMA SumsAre ==
  ASSUME TypeOK, NEW b \in Row, b.status \in {"CONFIRMED", "CANCELLED"}
  PROVE  /\ Paid \in Int /\ Owed(b) \in Int /\ Receipt(b) \in Sums
         /\ Balance(b) - RefundDue(b) = Owed(b) - Paid
         /\ Balance(b) = 0 \/ RefundDue(b) = 0
<1>1. received \in Int /\ price \in Int /\ desk \in Int /\ b.total \in Int
  <2>1. received \in 0 .. MaxCharges /\ price \in Totals /\ desk \in Int
    BY DEF TypeOK
  <2>2. b.total \in Totals
    BY DEF Row
  <2>3. received \in Nat
    BY <2>1, Bounds
  <2>4. price \in Nat /\ b.total \in Nat
    BY <2>1, <2>2, Bounds, Zenon
  <2> QED
    BY <2>1, <2>3, <2>4
<1>2. Paid \in Int
  BY <1>1 DEF Paid
<1>3. Owed(b) \in Int
  BY <1>1 DEF Owed
<1> HIDE DEF Paid, Owed
<1>4. /\ Balance(b) \in Nat /\ RefundDue(b) \in Nat
      /\ Balance(b) - RefundDue(b) = Owed(b) - Paid
      /\ Balance(b) = 0 \/ RefundDue(b) = 0
  BY <1>2, <1>3 DEF Balance, RefundDue
<1>5. Receipt(b) \in Sums
  BY <1>2, <1>4 DEF Receipt, Sums, Row
<1> QED
  BY <1>2, <1>3, <1>4, <1>5

(* What an accepted operation writes.                                      *)
Recorded(q, k, op, b) ==
  /\ k \in Keys /\ op \in Op /\ b \in Row /\ b.status \in {"CONFIRMED", "CANCELLED"}
  /\ EventOf(k) = {} /\ Eligible /\ request[q].pc = "idle"
  /\ booking' = b /\ events' = Append(events, NewEvent(k, op, b))
  /\ told' = told \cup {<<k, op>>}
  /\ request' = [request EXCEPT ![q] = [Idle EXCEPT !.pc = "claim", !.event = Len(events) + 1]]
  /\ UNCHANGED <<now, money, policy, quotes>>

LEMMA ModifyRecords ==
  ASSUME TypeOK, NEW q \in Requests, NEW k \in Keys, NEW u \in Quotes, Modify(q, k, u)
  PROVE  /\ Recorded(q, k, [kind |-> "MODIFIED", of |-> u],
                      Changed(quotes[u].plan, quotes[u].total))
         /\ quotes[u] \in Signed
<1>1. quotes[u] \in Signed
  BY DEF Modify, TypeOK
<1>2. Changed(quotes[u].plan, quotes[u].total) \in Row
  <2>1. quotes[u].plan \in Plans /\ quotes[u].total \in Totals
    BY <1>1 DEF Signed
  <2>2. booking \in Row
    BY DEF TypeOK
  <2> QED
    BY <2>1, <2>2 DEF Changed, Row
<1>3. Eligible => booking.status = "CONFIRMED"
  BY DEF Eligible
<1>4. Changed(quotes[u].plan, quotes[u].total).status = booking.status
  BY DEF Changed, TypeOK, Row
<1>5. [kind |-> "MODIFIED", of |-> u] \in Op
  BY DEF Op
<1>6. Record(q, k, [kind |-> "MODIFIED", of |-> u], Changed(quotes[u].plan, quotes[u].total))
  BY DEF Modify
<1> HIDE DEF Changed
<1> QED
  BY <1>1, <1>2, <1>3, <1>4, <1>5, <1>6
     DEF Record, Recorded, Answer, NewEvent

LEMMA CancelRecords ==
  ASSUME TypeOK, NEW q \in Requests, NEW k \in Keys, NEW r \in 0 .. MaxEvents, Cancel(q, k, r)
  PROVE  /\ Recorded(q, k, [kind |-> "CANCELLED", of |-> r],
                      [booking EXCEPT !.status = "CANCELLED"])
         /\ r = Len(events)
<1> DEFINE gone == [booking EXCEPT !.status = "CANCELLED"]
<1>1. gone \in Row /\ gone.status = "CANCELLED"
  BY DEF TypeOK, Row
<1>2. [kind |-> "CANCELLED", of |-> r] \in Op
  BY DEF Op
<1>3. Record(q, k, [kind |-> "CANCELLED", of |-> r], gone) /\ r = Len(events)
  BY DEF Cancel, Revision
<1> HIDE DEF gone
<1>4. Recorded(q, k, [kind |-> "CANCELLED", of |-> r], gone)
  BY <1>1, <1>2, <1>3 DEF Record, Recorded, Answer, NewEvent
<1> QED
  BY <1>3, <1>4 DEF gone

LEMMA LogGrows ==
  ASSUME TypeOK, NEW q \in Requests, NEW k, NEW op, NEW b, Recorded(q, k, op, b)
  PROVE  /\ NewEvent(k, op, b) \in Event
         /\ events' \in Seq(Event) /\ Len(events') = Len(events) + 1
         /\ Len(events) \in Nat /\ Len(events) < MaxEvents
         /\ DOMAIN events = 1 .. Len(events) /\ DOMAIN events' = 1 .. (Len(events) + 1)
         /\ \A i \in 1 .. Len(events) : events'[i] = events[i]
         /\ events'[Len(events) + 1] = NewEvent(k, op, b)
<1>1. now \in 0 .. MaxTime /\ events \in Seq(Event)
  BY DEF TypeOK
<1>2. Receipt(b) \in Sums
  BY SumsAre DEF Recorded
<1>3. NewEvent(k, op, b) \in Event
  BY <1>1, <1>2 DEF NewEvent, Event, Recorded
<1>4. events' = Append(events, NewEvent(k, op, b)) /\ Len(events) < MaxEvents
  BY DEF Recorded, Eligible
<1> HIDE DEF NewEvent
<1>5. /\ events' \in Seq(Event) /\ Len(events') = Len(events) + 1
      /\ \A i \in 1 .. Len(events) : events'[i] = events[i]
      /\ events'[Len(events) + 1] = NewEvent(k, op, b)
  BY <1>1, <1>3, <1>4, AppendProperties
<1>6. /\ Len(events) \in Nat /\ DOMAIN events = 1 .. Len(events)
      /\ DOMAIN events' = 1 .. Len(events')
  BY <1>1, <1>5, LenProperties
<1> QED
  BY <1>3, <1>4, <1>5, <1>6

(* Every other step leaves the operations of the log as they are.          *)
LogKept ==
  /\ events' \in Seq(Event) /\ Len(events') = Len(events)
  /\ DOMAIN events = 1 .. Len(events) /\ DOMAIN events' = 1 .. Len(events)
  /\ Len(events) \in Nat
  /\ \A j \in 1 .. Len(events) : events[j] \in Event /\ SameOp(events'[j], events[j])

LEMMA LogStays == ASSUME TypeOK, events' = events PROVE LogKept
<1>1. events \in Seq(Event)
  BY DEF TypeOK
<1> QED
  BY <1>1, LenProperties, ElementOfSeq DEF LogKept, SameOp

LEMMA LogChanges ==
  ASSUME TypeOK, NEW i \in 1 .. Len(events), NEW e \in Event,
         events' = [events EXCEPT ![i] = e], SameOp(e, events[i])
  PROVE  /\ LogKept /\ events'[i] = e
         /\ \A j \in 1 .. Len(events) : j # i => events'[j] = events[j]
<1>1. events \in Seq(Event)
  BY DEF TypeOK
<1>2. /\ events' \in Seq(Event) /\ Len(events') = Len(events)
      /\ \A j \in 1 .. Len(events) : events'[j] = IF j = i THEN e ELSE events[j]
  BY <1>1, ExceptSeq
<1>3. /\ DOMAIN events = 1 .. Len(events) /\ DOMAIN events' = 1 .. Len(events')
      /\ Len(events) \in Nat
  BY <1>1, <1>2, LenProperties
<1>4. \A j \in 1 .. Len(events) : events[j] \in Event
  BY <1>1, ElementOfSeq
<1> QED
  BY <1>2, <1>3, <1>4 DEF LogKept, SameOp

Req == [pc : {"idle", "claim", "deliver", "finish"}, event : 0 .. MaxEvents,
        outcome : {"none", "ACCEPTED", "FAILED", "UNKNOWN"}]

LEMMA ClaimMoves ==
  ASSUME TypeOK, RequestsKnow, NEW q \in Requests, Claim(q), NEW i, i = request[q].event
  PROVE  /\ i \in 1 .. Len(events) /\ events[i].email \in {"PENDING", "FAILED"}
         /\ \E e \in Event :
              /\ events' = [events EXCEPT ![i] = e] /\ SameOp(e, events[i])
              /\ e.email = "SENDING" /\ e.accepted = events[i].accepted
         /\ \E x \in Req : /\ request' = [request EXCEPT ![q] = x]
                           /\ x.pc = "deliver" /\ x.event = i
<1>1. events \in Seq(Event) /\ request[q] \in Req
  BY DEF TypeOK, Req
<1>2. i \in 1 .. Len(events) /\ events[i].email \in {"PENDING", "FAILED"}
  BY <1>1, LenProperties DEF Claim, RequestsKnow, Claimable
<1>3. events[i] \in Event
  BY <1>1, <1>2, ElementOfSeq
<1>4. PICK e : e = [events[i] EXCEPT !.email = "SENDING", !.cooled = FALSE]
  OBVIOUS
<1>5. e \in Event /\ SameOp(e, events[i]) /\ e.email = "SENDING"
      /\ e.accepted = events[i].accepted
  BY <1>3, <1>4 DEF Event, SameOp
<1>6. events' = [events EXCEPT ![i] = e]
  BY <1>4 DEF Claim
<1>7. PICK x : x = [request[q] EXCEPT !.pc = "deliver"]
  OBVIOUS
<1>8. x \in Req /\ x.pc = "deliver" /\ x.event = i
  BY <1>1, <1>7 DEF Req
<1>9. request' = [request EXCEPT ![q] = x]
  BY <1>7 DEF Claim
<1> QED
  BY <1>2, <1>5, <1>6, <1>8, <1>9

LEMMA DeliverMoves ==
  ASSUME TypeOK, RequestsKnow, NEW q \in Requests, Deliver(q), NEW i, i = request[q].event
  PROVE  /\ i \in 1 .. Len(events)
         /\ \E e \in Event, x \in Req :
              /\ events' = [events EXCEPT ![i] = e] /\ SameOp(e, events[i])
              /\ e.email = events[i].email
              /\ e.accepted \in {events[i].accepted, events[i].accepted + 1}
              /\ request' = [request EXCEPT ![q] = x]
              /\ x.pc = "finish" /\ x.event = i /\ x.outcome # "none"
              /\ x.outcome = "FAILED" => e.accepted = events[i].accepted
<1>1. events \in Seq(Event) /\ request[q] \in Req
  BY DEF TypeOK, Req
<1>2. i \in 1 .. Len(events)
  BY <1>1, LenProperties DEF Deliver, RequestsKnow
<1>3. events[i] \in Event
  BY <1>1, <1>2, ElementOfSeq
<1>4. PICK outcome \in Outcomes, taken \in {0, 1} :
        /\ outcome = "FAILED" => taken = 0
        /\ events' = [events EXCEPT ![i].accepted = @ + taken]
        /\ request' = [request EXCEPT ![q].pc = "finish", ![q].outcome = outcome]
  BY DEF Deliver
<1>5. outcome \in {"ACCEPTED", "FAILED", "UNKNOWN"}
  BY <1>4, ManagementAssumption
<1>6. PICK e : e = [events[i] EXCEPT !.accepted = @ + taken]
  OBVIOUS
<1>7. /\ e \in Event /\ SameOp(e, events[i]) /\ e.email = events[i].email
      /\ e.accepted = events[i].accepted + taken
  BY <1>3, <1>6 DEF Event, SameOp
<1>8. e.accepted \in {events[i].accepted, events[i].accepted + 1}
      /\ (taken = 0 => e.accepted = events[i].accepted)
  BY <1>3, <1>7 DEF Event
<1>9. events' = [events EXCEPT ![i] = e]
  BY <1>4, <1>6
<1>10. PICK x : x = [request[q] EXCEPT !.pc = "finish", !.outcome = outcome]
  OBVIOUS
<1>11. x \in Req /\ x.pc = "finish" /\ x.event = i /\ x.outcome = outcome
  BY <1>1, <1>5, <1>10 DEF Req
<1>12. request' = [request EXCEPT ![q] = x]
  BY <1>4, <1>10
<1> QED
  BY <1>2, <1>4, <1>5, <1>7, <1>8, <1>9, <1>11, <1>12

LEMMA IdleIs == Idle \in Req /\ Idle.pc = "idle"
BY Bounds DEF Idle, Req

LEMMA FinishMoves ==
  ASSUME TypeOK, RequestsKnow, NEW q \in Requests, Finish(q), NEW i, i = request[q].event
  PROVE  /\ i \in 1 .. Len(events) /\ request' = [request EXCEPT ![q] = Idle]
         /\ request[q].pc = "finish"
         /\ \/ events' = events
            \/ /\ events[i].email = "SENDING"
               /\ request[q].outcome # "none" =>
                    \E e \in Event :
                      /\ events' = [events EXCEPT ![i] = e] /\ SameOp(e, events[i])
                      /\ e.email = request[q].outcome /\ e.accepted = events[i].accepted
<1>1. events \in Seq(Event) /\ request[q] \in Req
  BY DEF TypeOK, Req
<1>2. i \in 1 .. Len(events) /\ request' = [request EXCEPT ![q] = Idle]
      /\ request[q].pc = "finish"
  BY <1>1, LenProperties DEF Finish, RequestsKnow
<1>3. events[i] \in Event
  BY <1>1, <1>2, ElementOfSeq
<1>4. CASE events[i].email = "SENDING" /\ request[q].outcome # "none"
  <2>1. PICK e : e = [events[i] EXCEPT !.email = request[q].outcome]
    OBVIOUS
  <2>2. request[q].outcome \in {"ACCEPTED", "FAILED", "UNKNOWN"}
    BY <1>1, <1>4 DEF Req
  <2>3. /\ e \in Event /\ SameOp(e, events[i]) /\ e.email = request[q].outcome
        /\ e.accepted = events[i].accepted
    BY <1>3, <2>1, <2>2 DEF Event, SameOp
  <2>4. events' = [events EXCEPT ![i] = e]
    BY <1>4, <2>1 DEF Finish
  <2> QED
    BY <1>2, <1>4, <2>3, <2>4
<1>5. CASE events[i].email # "SENDING"
  BY <1>2, <1>5 DEF Finish
<1> QED
  BY <1>2, <1>4, <1>5

LEMMA MinuteMoves ==
  ASSUME TypeOK, NEW i \in DOMAIN events, Minute(i)
  PROVE  /\ i \in 1 .. Len(events)
         /\ \E e \in Event :
              /\ events' = [events EXCEPT ![i] = e] /\ SameOp(e, events[i])
              /\ e.email = events[i].email /\ e.accepted = events[i].accepted
<1>1. events \in Seq(Event)
  BY DEF TypeOK
<1>2. i \in 1 .. Len(events)
  BY <1>1, LenProperties
<1>3. events[i] \in Event
  BY <1>1, <1>2, ElementOfSeq
<1>4. PICK e : e = [events[i] EXCEPT !.cooled = TRUE]
  OBVIOUS
<1>5. e \in Event /\ SameOp(e, events[i])
      /\ e.email = events[i].email /\ e.accepted = events[i].accepted
  BY <1>3, <1>4 DEF Event, SameOp
<1>6. events' = [events EXCEPT ![i] = e]
  BY <1>4 DEF Minute
<1> QED
  BY <1>2, <1>5, <1>6

-----------------------------------------------------------------------------
(* Types.                                                                  *)

Operates(q, k) ==
  \/ \E u \in Quotes : Modify(q, k, u)
  \/ \E r \in 0 .. MaxEvents : Cancel(q, k, r)

LEMMA OperatesRecords ==
  ASSUME TypeOK, NEW q \in Requests, NEW k \in Keys, Operates(q, k)
  PROVE  \E op, b : Recorded(q, k, op, b)
BY ModifyRecords, CancelRecords DEF Operates

LEMMA ReplayAnswers ==
  ASSUME TypeOK, NEW q \in Requests, NEW k \in Keys, NEW op \in Op, Replay(q, k, op)
  PROVE  /\ UNCHANGED <<now, booking, money, events, policy, quotes>>
         /\ \E i \in EventOf(k) :
              /\ i \in 1 .. Len(events) /\ events[i].op = op /\ events[i].key = k
              /\ told' = told \cup {<<k, op>>}
              /\ \E x \in Req : /\ request' = [request EXCEPT ![q] = x]
                                /\ x.pc = "claim" /\ x.event = i
<1>1. PICK i \in EventOf(k) : events[i].op = op /\ Answer(q, k, op, i)
  BY DEF Replay
<1>2. events \in Seq(Event) /\ Len(events) <= MaxEvents
  BY DEF TypeOK
<1>3. i \in 1 .. Len(events) /\ events[i].key = k
  BY <1>2, LenProperties DEF EventOf
<1>4. Len(events) \in Nat
  BY <1>2, LenProperties
<1>5. i \in 0 .. MaxEvents
  BY <1>2, <1>3, <1>4, Bounds
<1>6. PICK x : x = [Idle EXCEPT !.pc = "claim", !.event = i]
  OBVIOUS
<1>7. x \in Req /\ x.pc = "claim" /\ x.event = i
  BY <1>5, <1>6 DEF Idle, Req
<1> QED
  BY <1>1, <1>3, <1>6, <1>7 DEF Answer, Replay

(* The steps that leave the log alone, and what they do to the requests.   *)
Aside ==
  \/ UNCHANGED vars \/ Tick \/ Reconcile \/ Assign \/ CheckInOut \/ NewPolicy
  \/ \E n \in 0 .. MaxCharges : Settle(n)
  \/ \E u \in Quotes : Quote(u)
  \/ \E q \in Requests : NoEmail(q) \/ \E k \in Keys, op \in Op : Replay(q, k, op)

LEMMA AsideStays == Aside => events' = events
BY DEF Aside, vars, Tick, Reconcile, Assign, CheckInOut, NewPolicy, Settle, Quote, NoEmail,
       Replay

Mails ==
  \/ \E i \in DOMAIN events : Minute(i)
  \/ \E q \in Requests : Claim(q) \/ Deliver(q) \/ Finish(q)

LEMMA StepKinds ==
  ASSUME [Next]_vars
  PROVE  Aside \/ Mails \/ \E q \in Requests, k \in Keys : Operates(q, k)
<1>1. \A u \in Quotes : [kind |-> "MODIFIED", of |-> u] \in Op
  BY DEF Op
<1>2. \A r \in 0 .. MaxEvents : [kind |-> "CANCELLED", of |-> r] \in Op
  BY DEF Op
<1>3. ASSUME NEW q \in Requests, NEW k \in Keys, Operation(q, k)
      PROVE  Operates(q, k) \/ \E op \in Op : Replay(q, k, op)
  BY <1>1, <1>2, <1>3 DEF Operation, Operates
<1> QED
  BY <1>3 DEF Next, Email, Elsewhere, Aside, Mails

LEMMA MailsKeep ==
  ASSUME TypeOK, EmailInv, Mails
  PROVE  LogKept /\ UNCHANGED <<now, booking, money, policy, quotes, told>>
<1>1. UNCHANGED <<now, booking, money, policy, quotes, told>>
  BY DEF Mails, Minute, Claim, Deliver, Finish
<1>2. ASSUME NEW i \in DOMAIN events, Minute(i) PROVE LogKept
  BY <1>2, MinuteMoves, LogChanges
<1>3. ASSUME NEW q \in Requests, Claim(q) PROVE LogKept
  BY <1>3, ClaimMoves, LogChanges DEF EmailInv
<1>4. ASSUME NEW q \in Requests, Deliver(q) PROVE LogKept
  BY <1>4, DeliverMoves, LogChanges DEF EmailInv
<1>5. ASSUME NEW q \in Requests, Finish(q) PROVE LogKept
  <2> DEFINE i == request[q].event
  <2>1. request[q].pc = "finish" /\ i \in DOMAIN events
    BY <1>5 DEF Finish, EmailInv, RequestsKnow
  <2>2. request[q].outcome # "none"
    BY <2>1 DEF EmailInv, OneClaim, WorksOn
  <2> HIDE DEF i
  <2>3. i \in 1 .. Len(events)
        /\ (events' = events \/
            \E e \in Event : events' = [events EXCEPT ![i] = e] /\ SameOp(e, events[i]))
    BY <1>5, <2>2, FinishMoves DEF EmailInv, i
  <2> QED
    BY <2>3, LogStays, LogChanges
<1> QED
  BY <1>1, <1>2, <1>3, <1>4, <1>5 DEF Mails

LEMMA MailsRequests ==
  ASSUME TypeOK, EmailInv, Mails
  PROVE  request' \in [Requests -> Req]
<1>1. request \in [Requests -> Req]
  BY DEF TypeOK, Req
<1>2. ASSUME NEW i \in DOMAIN events, Minute(i) PROVE request' = request
  BY <1>2 DEF Minute
<1>3. ASSUME NEW q \in Requests, Claim(q) \/ Deliver(q) \/ Finish(q)
      PROVE  \E x \in Req : request' = [request EXCEPT ![q] = x]
  BY <1>3, ClaimMoves, DeliverMoves, FinishMoves, IdleIs DEF EmailInv
<1> QED
  BY <1>1, <1>2, <1>3 DEF Mails

LEMMA AsideRequests ==
  ASSUME TypeOK, Aside
  PROVE  \/ request' = request /\ told' = told
         \/ \E q \in Requests : request' = [request EXCEPT ![q] = Idle] /\ told' = told
         \/ \E q \in Requests, x \in Req, k \in Keys :
              /\ request' = [request EXCEPT ![q] = x]
              /\ x.pc = "claim" /\ x.event \in 1 .. Len(events)
              /\ events[x.event].key = k
              /\ told' = told \cup {<<k, events[x.event].op>>}
              /\ events[x.event].op \in Op
              /\ UNCHANGED <<now, booking, money, events, policy, quotes>>
<1>1. ASSUME NEW q \in Requests, NEW k \in Keys, NEW op \in Op, Replay(q, k, op)
      PROVE  \E x \in Req :
              /\ request' = [request EXCEPT ![q] = x]
              /\ x.pc = "claim" /\ x.event \in 1 .. Len(events)
              /\ events[x.event].key = k
              /\ told' = told \cup {<<k, events[x.event].op>>}
              /\ events[x.event].op \in Op
              /\ UNCHANGED <<now, booking, money, events, policy, quotes>>
  BY <1>1, ReplayAnswers
<1> QED
  BY <1>1 DEF Aside, vars, Tick, Reconcile, Assign, CheckInOut, NewPolicy, Settle, Quote, NoEmail

(* What a quote signs.                                                     *)
LEMMA QuoteSigns ==
  ASSUME TypeOK, NEW u \in Quotes, Quote(u)
  PROVE  /\ quotes[u] = None /\ booking.status = "CONFIRMED"
         /\ UNCHANGED <<now, booking, money, events, policy, request, told>>
         /\ \E P \in Plans, n \in Totals, s \in Signed :
              /\ quotes' = [quotes EXCEPT ![u] = s]
              /\ s.plan = P /\ s.total = n /\ s.binding.row = booking
<1>1. PICK P \in Plans, n \in Totals :
        quotes' = [quotes EXCEPT ![u] =
            [plan |-> P, total |-> n, binding |-> Binding, policy |-> policy,
             expires |-> now + QuoteLife]]
  BY DEF Quote
<1> DEFINE s == [plan |-> P, total |-> n, binding |-> Binding, policy |-> policy,
                 expires |-> now + QuoteLife]
<1>2. booking \in Row /\ policy \in Settlements /\ now \in 0 .. MaxTime
      /\ events \in Seq(Event) /\ Len(events) <= MaxEvents
  BY DEF TypeOK
<1>3. Paid \in Int
  <2>1. received \in 0 .. MaxCharges /\ price \in Totals /\ desk \in Int
    BY DEF TypeOK
  <2>2. price \in Nat
    BY <2>1, Bounds, Zenon
  <2> QED
    BY <2>1, <2>2, Bounds DEF Paid
<1>4. Len(events) \in 0 .. MaxEvents
  BY <1>2, LenProperties, Bounds
<1>5. Binding \in [row : Row, paid : Int, revision : 0 .. MaxEvents] /\ Binding.row = booking
  BY <1>2, <1>3, <1>4 DEF Binding, Revision
<1>6. now + QuoteLife \in Nat
  BY <1>2, Bounds
<1> HIDE DEF Binding
<1>7. s \in Signed /\ s.plan = P /\ s.total = n /\ s.binding.row = booking
  BY <1>2, <1>5, <1>6 DEF Signed
<1> QED
  BY <1>1, <1>7 DEF Quote, Eligible

(* A signed quote stays what it is.                                        *)
LEMMA QuotesStay ==
  ASSUME TypeOK, [Next]_vars
  PROVE  /\ quotes' \in [Quotes -> Signed \cup {None}]
         /\ \A u \in Quotes : quotes[u] # None => quotes'[u] = quotes[u]
<1>1. quotes \in [Quotes -> Signed \cup {None}]
  BY DEF TypeOK
<1>2. CASE quotes' = quotes
  BY <1>1, <1>2
<1>3. ASSUME NEW u \in Quotes, Quote(u)
      PROVE  /\ quotes' \in [Quotes -> Signed \cup {None}]
             /\ \A v \in Quotes : quotes[v] # None => quotes'[v] = quotes[v]
  BY <1>1, <1>3, QuoteSigns
<1>4. quotes' = quotes \/ \E u \in Quotes : Quote(u)
  <2>1. CASE Aside
    BY <2>1 DEF Aside, vars, Tick, Reconcile, Assign, CheckInOut, NewPolicy, Settle, NoEmail,
               Replay
  <2>2. CASE Mails
    BY <2>2 DEF Mails, Minute, Claim, Deliver, Finish
  <2>3. ASSUME NEW q \in Requests, NEW k \in Keys, Operates(q, k) PROVE quotes' = quotes
    BY <2>3 DEF Operates, Modify, Cancel, Record
  <2> QED
    BY <2>1, <2>2, <2>3, StepKinds
<1> QED
  BY <1>2, <1>3, <1>4

LEMMA TypeNext ==
  ASSUME TypeOK, EmailInv, [Next]_vars
  PROVE  TypeOK'
<1>0. /\ now \in 0 .. MaxTime /\ booking \in Row /\ price \in Totals
      /\ received \in 0 .. MaxCharges /\ desk \in Int /\ review \in BOOLEAN
      /\ events \in Seq(Event) /\ Len(events) <= MaxEvents /\ policy \in Settlements
      /\ request \in [Requests -> Req] /\ told \subseteq Keys \X Op
  BY DEF TypeOK, Req
<1>1. quotes' \in [Quotes -> Signed \cup {None}]
  BY QuotesStay
<1>2. CASE Mails
  BY <1>0, <1>1, <1>2, MailsKeep, MailsRequests DEF TypeOK, LogKept, Req, money
<1>3. CASE Aside
  <2>1. events' \in Seq(Event) /\ Len(events') <= MaxEvents
    BY <1>0, <1>3, AsideStays
  <2>2. request' \in [Requests -> Req] /\ told' \subseteq Keys \X Op
    BY <1>0, <1>3, AsideRequests, IdleIs
  <2>3. now' \in 0 .. MaxTime /\ policy' \in Settlements /\ price' = price
    BY <1>0, <1>3, Bounds DEF Aside, vars, money, Tick, Reconcile, Assign, CheckInOut, NewPolicy,
       Settle, Quote, NoEmail, Replay
  <2>4. booking' \in Row
    BY <1>0, <1>3 DEF Aside, vars, Tick, Reconcile, Assign, CheckInOut, NewPolicy, Settle, Quote,
       NoEmail, Replay, Row
  <2>5. received' \in 0 .. MaxCharges /\ review' \in BOOLEAN
    BY <1>0, <1>3 DEF Aside, vars, money, Tick, Reconcile, Assign, CheckInOut, NewPolicy, Settle,
       Quote, NoEmail, Replay
  <2>6. desk' \in Int
    <3>1. desk' = desk \/ Reconcile
      BY <1>3 DEF Aside, vars, money, Tick, Assign, CheckInOut, NewPolicy, Settle, Quote,
         NoEmail, Replay
    <3>2. ASSUME Reconcile PROVE desk' \in Int
      <4>1. price \in Int /\ received \in Int /\ booking.total \in Int
        <5>1. booking.total \in Totals
          BY <1>0 DEF Row
        <5>2. price \in Nat /\ booking.total \in Nat
          BY <1>0, <5>1, Bounds, Zenon
        <5> QED
          BY <1>0, <5>2, Bounds
      <4>2. Owed(booking) \in Int
        BY <4>1 DEF Owed
      <4>3. received * price \in Int
        BY <4>1
      <4> QED
        BY <3>2, <4>2, <4>3 DEF Reconcile
    <3> QED
      BY <1>0, <3>1, <3>2
  <2> QED
    BY <1>0, <1>1, <2>1, <2>2, <2>3, <2>4, <2>5, <2>6 DEF TypeOK, Req
<1>4. ASSUME NEW q \in Requests, NEW k \in Keys, Operates(q, k) PROVE TypeOK'
  <2>1. PICK op, b : Recorded(q, k, op, b)
    BY <1>4, OperatesRecords
  <2>2. events' \in Seq(Event) /\ Len(events') = Len(events) + 1 /\ Len(events) < MaxEvents
        /\ Len(events) \in Nat
    BY <2>1, LogGrows
  <2>3. PICK n \in 0 .. MaxEvents : n = Len(events) + 1
    BY <2>2, Bounds
  <2>4. [Idle EXCEPT !.pc = "claim", !.event = n] \in Req
    BY DEF Idle, Req
  <2>5. request' = [request EXCEPT ![q] = [Idle EXCEPT !.pc = "claim", !.event = n]]
    BY <2>1, <2>3 DEF Recorded
  <2>6. request' \in [Requests -> Req]
    BY <1>0, <2>4, <2>5
  <2>7. booking' \in Row /\ told' \subseteq Keys \X Op
        /\ UNCHANGED <<now, money, policy, quotes>>
    BY <1>0, <2>1 DEF Recorded
  <2>8. Len(events') <= MaxEvents
    BY <2>2, Bounds
  <2> QED
    BY <1>0, <1>1, <2>2, <2>6, <2>7, <2>8 DEF TypeOK, Req, money
<1> QED
  BY <1>2, <1>3, <1>4, StepKinds

-----------------------------------------------------------------------------
(* What every step keeps.                                                  *)

LEMMA OfIsQuote ==
  ASSUME NEW op \in Op, op.kind = "MODIFIED"
  PROVE  op.of \in Quotes
BY DEF Op

LEMMA KeptOrRecorded ==
  ASSUME TypeOK, EmailInv, [Next]_vars
  PROVE  LogKept \/ \E q \in Requests, k \in Keys : Operates(q, k)
BY StepKinds, MailsKeep, AsideStays, LogStays

LEMMA LogInOrderNext ==
  ASSUME TypeOK, EmailInv, LogInOrder, [Next]_vars
  PROVE  LogInOrder'
<1>1. CASE LogKept
  <2>1. /\ DOMAIN events' = DOMAIN events
        /\ \A i \in DOMAIN events : /\ events'[i].key = events[i].key
                                    /\ events'[i].op = events[i].op /\ events[i].op \in Op
    BY <1>1 DEF LogKept, SameOp, Event
  <2>2. \A u \in Quotes : quotes[u] # None => quotes'[u] = quotes[u]
    BY QuotesStay
  <2> QED
    BY <2>1, <2>2, OfIsQuote DEF LogInOrder
<1>2. ASSUME NEW q \in Requests, NEW k \in Keys, Operates(q, k) PROVE LogInOrder'
  <2> DEFINE InTurn(op) ==
               IF op.kind = "MODIFIED"
               THEN quotes[op.of] # None /\ quotes[op.of].binding.revision = Len(events)
               ELSE op.of = Len(events)
  <2>1. PICK op, b : Recorded(q, k, op, b) /\ InTurn(op)
    <3>1. ASSUME NEW u \in Quotes, Modify(q, k, u) PROVE InTurn([kind |-> "MODIFIED", of |-> u])
      BY <3>1 DEF Modify, Binding, Revision
    <3>2. ASSUME NEW r \in 0 .. MaxEvents, Cancel(q, k, r)
          PROVE  InTurn([kind |-> "CANCELLED", of |-> r])
      BY <3>2, CancelRecords
    <3> HIDE DEF InTurn
    <3> QED
      BY <1>2, <3>1, <3>2, ModifyRecords, CancelRecords, Zenon DEF Operates
  <2> DEFINE n == Len(events) + 1
  <2>2. /\ DOMAIN events = 1 .. Len(events) /\ DOMAIN events' = 1 .. n
        /\ \A i \in 1 .. Len(events) : events'[i] = events[i]
        /\ events'[n] = NewEvent(k, op, b) /\ Len(events) \in Nat
    BY <2>1, LogGrows
  <2>3. events'[n].key = k /\ events'[n].op = op /\ quotes' = quotes
    BY <2>1, <2>2 DEF NewEvent, Recorded
  <2>4. \A i \in 1 .. Len(events) : events[i].key # k
    BY <2>1, <2>2 DEF Recorded, EventOf
  <2>5. n - 1 = Len(events) /\ \A i \in 1 .. n : i # n => i \in 1 .. Len(events)
    BY <2>2
  <2> HIDE DEF n
  <2> QED
    BY <2>1, <2>2, <2>3, <2>4, <2>5 DEF LogInOrder
<1> QED
  BY <1>1, <1>2, KeptOrRecorded

(* A key has been used, and by which operation.                            *)
LEMMA UsedStay ==
  ASSUME LogKept
  PROVE  \A k : EventOf(k)' = EventOf(k)
BY DEF LogKept, SameOp, EventOf

LEMMA UsedGrow ==
  ASSUME TypeOK, NEW q \in Requests, NEW k, NEW op, NEW b, Recorded(q, k, op, b)
  PROVE  /\ EventOf(k) = {} /\ EventOf(k)' = {Len(events) + 1}
         /\ \A j : j # k => EventOf(j)' = EventOf(j)
<1>1. /\ DOMAIN events = 1 .. Len(events) /\ DOMAIN events' = 1 .. (Len(events) + 1)
      /\ \A i \in 1 .. Len(events) : events'[i] = events[i]
      /\ events'[Len(events) + 1] = NewEvent(k, op, b) /\ Len(events) \in Nat
  BY LogGrows
<1>2. events'[Len(events) + 1].key = k
  BY <1>1 DEF NewEvent
<1>3. EventOf(k) = {}
  BY DEF Recorded
<1>4. EventOf(k)' = {Len(events) + 1}
  BY <1>1, <1>2, <1>3 DEF EventOf
<1>5. ASSUME NEW j, j # k PROVE EventOf(j)' = EventOf(j)
  BY <1>1, <1>2, <1>5 DEF EventOf
<1> QED
  BY <1>3, <1>4, <1>5

LEMMA KeysCountNext ==
  ASSUME TypeOK, EmailInv, KeysCount, [Next]_vars
  PROVE  KeysCount'
<1>1. CASE LogKept
  <2>1. UsedKeys' = UsedKeys
    BY <1>1, UsedStay DEF UsedKeys
  <2>2. Len(events') = Len(events)
    BY <1>1 DEF LogKept
  <2> QED
    BY <2>1, <2>2 DEF KeysCount
<1>2. ASSUME NEW q \in Requests, NEW k \in Keys, Operates(q, k) PROVE KeysCount'
  <2>1. PICK op, b : Recorded(q, k, op, b)
    BY <1>2, OperatesRecords
  <2>2. k \notin UsedKeys /\ UsedKeys' = UsedKeys \cup {k}
    BY <2>1, UsedGrow DEF UsedKeys
  <2>3. Len(events') = Len(events) + 1 /\ Len(events) \in Nat
    BY <2>1, LogGrows
  <2> HIDE DEF UsedKeys
  <2> QED
    <3>1. IsFiniteSet(UsedKeys) /\ Cardinality(UsedKeys) = Len(events)
      BY DEF KeysCount
    <3>2. /\ IsFiniteSet(UsedKeys \cup {k})
          /\ Cardinality(UsedKeys \cup {k}) = Cardinality(UsedKeys) + 1
      BY <2>2, <3>1, FS_AddElement
    <3> QED
      BY <2>2, <2>3, <3>1, <3>2 DEF KeysCount
<1> QED
  BY <1>1, <1>2, KeptOrRecorded

LEMMA AcceptedInTimeNext ==
  ASSUME TypeOK, EmailInv, LogInOrder, AcceptedInTime, [Next]_vars
  PROVE  AcceptedInTime'
<1>1. CASE LogKept
  <2>1. /\ DOMAIN events' = DOMAIN events
        /\ \A i \in DOMAIN events : /\ events'[i].at = events[i].at
                                    /\ events'[i].receipt = events[i].receipt
                                    /\ events'[i].op = events[i].op /\ events[i].op \in Op
    BY <1>1 DEF LogKept, SameOp, Event
  <2>2. \A u \in Quotes : quotes[u] # None => quotes'[u] = quotes[u]
    BY QuotesStay
  <2>3. \A i \in DOMAIN events : events[i].op.kind = "MODIFIED" =>
          quotes'[events[i].op.of] = quotes[events[i].op.of]
    BY <2>1, <2>2, OfIsQuote DEF LogInOrder
  <2>4. SUFFICES ASSUME NEW i \in DOMAIN events
                 PROVE  /\ events'[i].at < CheckInAt[events'[i].receipt.plan.place] - Notice
                        /\ events'[i].op.kind = "MODIFIED" =>
                             LET u == quotes'[events'[i].op.of] IN
                             /\ events'[i].at < CheckInAt[u.binding.row.plan.place] - Notice
                             /\ events'[i].at < u.expires
    BY <2>1 DEF AcceptedInTime
  <2>5. /\ events'[i].at = events[i].at /\ events'[i].receipt = events[i].receipt
        /\ events'[i].op = events[i].op
    BY <2>1
  <2>6. /\ events[i].at < CheckInAt[events[i].receipt.plan.place] - Notice
        /\ events[i].op.kind = "MODIFIED" =>
             LET u == quotes[events[i].op.of] IN
             /\ events[i].at < CheckInAt[u.binding.row.plan.place] - Notice
             /\ events[i].at < u.expires
    BY DEF AcceptedInTime
  <2> QED
    BY <2>3, <2>5, <2>6
<1>2. ASSUME NEW q \in Requests, NEW k \in Keys, Operates(q, k) PROVE AcceptedInTime'
  <2> DEFINE InTime(op, b) ==
               /\ now < CheckInAt[b.plan.place] - Notice
               /\ op.kind = "MODIFIED" =>
                    /\ now < CheckInAt[quotes[op.of].binding.row.plan.place] - Notice
                    /\ now < quotes[op.of].expires
  <2>1. PICK op, b : Recorded(q, k, op, b) /\ InTime(op, b)
    <3>0. now \in Nat
      BY DEF TypeOK
    <3>1. ASSUME NEW u \in Quotes, Modify(q, k, u)
          PROVE  InTime([kind |-> "MODIFIED", of |-> u],
                        Changed(quotes[u].plan, quotes[u].total))
      <4>1. /\ quotes[u].binding.row = booking /\ quotes[u].expires > now
            /\ BeforeCutoff(quotes[u].plan.place) /\ BeforeCutoff(booking.plan.place)
        BY <3>1 DEF Modify, Binding, Record, Eligible
      <4>2. Changed(quotes[u].plan, quotes[u].total).plan = quotes[u].plan
        BY DEF Changed, TypeOK, Row
      <4>3. quotes[u].expires \in Nat
        BY <3>1, ModifyRecords DEF Signed
      <4> QED
        BY <3>0, <4>1, <4>2, <4>3 DEF BeforeCutoff
    <3>2. ASSUME NEW r \in 0 .. MaxEvents, Cancel(q, k, r)
          PROVE  InTime([kind |-> "CANCELLED", of |-> r],
                        [booking EXCEPT !.status = "CANCELLED"])
      BY <3>2 DEF Cancel, Record, Eligible, BeforeCutoff, TypeOK, Row
    <3> HIDE DEF InTime
    <3> QED
      BY <1>2, <3>1, <3>2, ModifyRecords, CancelRecords, Zenon DEF Operates
  <2> DEFINE n == Len(events) + 1
  <2>2. /\ DOMAIN events = 1 .. Len(events) /\ DOMAIN events' = 1 .. n
        /\ \A i \in 1 .. Len(events) : events'[i] = events[i]
        /\ events'[n] = NewEvent(k, op, b) /\ Len(events) \in Nat
    BY <2>1, LogGrows
  <2>3. /\ events'[n].at = now /\ events'[n].op = op /\ quotes' = quotes
        /\ events'[n].receipt.plan = b.plan
    BY <2>1, <2>2 DEF NewEvent, Recorded, Receipt
  <2>4. \A i \in 1 .. n : i # n => i \in 1 .. Len(events)
    BY <2>2
  <2> HIDE DEF n
  <2> QED
    BY <2>1, <2>2, <2>3, <2>4 DEF AcceptedInTime
<1> QED
  BY <1>1, <1>2, KeptOrRecorded

(* A step that gives no request an email to work on.                       *)
LEMMA EmailInvAside ==
  ASSUME TypeOK, EmailInv, NEW q \in Requests, NEW x \in Req,
         request' = [request EXCEPT ![q] = x], x.pc \in {"idle", "claim"},
         DOMAIN events \subseteq DOMAIN events', x.pc = "claim" => x.event \in DOMAIN events',
         \A i \in DOMAIN events : events'[i] = events[i],
         \A i \in DOMAIN events' \ DOMAIN events :
           events'[i].email = "PENDING" /\ events'[i].accepted = 0
  PROVE  EmailInv'
<1>1. /\ request'[q] = x
      /\ \A p \in Requests : p # q => request'[p] = request[p]
  BY DEF TypeOK
<1>2. RequestsKnow'
  BY <1>1 DEF EmailInv, RequestsKnow
<1>3. \A p \in Requests : \A i :
        WorksOn(p, i)' => /\ WorksOn(p, i) /\ p # q /\ i \in DOMAIN events
                          /\ request'[p] = request[p]
  BY <1>1 DEF WorksOn, EmailInv, RequestsKnow
<1>4. ASSUME NEW i \in DOMAIN events' PROVE OneClaim(i)'
  <2>1. CASE i \in DOMAIN events
    BY <1>3, <2>1 DEF EmailInv, OneClaim
  <2>2. CASE i \notin DOMAIN events
    BY <1>3, <2>2 DEF OneClaim
  <2> QED
    BY <2>1, <2>2
<1> QED
  BY <1>2, <1>4 DEF EmailInv

(* A step that changes the email of one operation, and its request.        *)
LEMMA OthersKnow ==
  ASSUME TypeOK, EmailInv, NEW i \in 1 .. Len(events), NEW e \in Event,
         NEW q \in Requests, NEW x \in Req,
         events' = [events EXCEPT ![i] = e], SameOp(e, events[i]),
         request' = [request EXCEPT ![q] = x], x.pc = "idle" \/ x.event = i,
         request[q].pc # "idle", request[q].event = i
  PROVE  /\ events'[i] = e /\ request'[q] = x /\ RequestsKnow'
         /\ DOMAIN events' = DOMAIN events
         /\ \A p \in Requests : p # q => request'[p] = request[p]
         /\ \A j \in DOMAIN events : j # i => OneClaim(j)'
<1>1. LogKept /\ events'[i] = e /\ \A j \in 1 .. Len(events) : j # i => events'[j] = events[j]
  BY LogChanges
<1>2. DOMAIN events = 1 .. Len(events) /\ DOMAIN events' = DOMAIN events
  BY <1>1 DEF LogKept
<1>3. request'[q] = x /\ \A p \in Requests : p # q => request'[p] = request[p]
  BY DEF TypeOK
<1>4. RequestsKnow'
  BY <1>2, <1>3 DEF EmailInv, RequestsKnow
<1>5. ASSUME NEW j \in DOMAIN events, j # i PROVE OneClaim(j)'
  <2>1. \A p \in Requests : WorksOn(p, j)' => WorksOn(p, j) /\ request'[p] = request[p]
    BY <1>3, <1>5 DEF WorksOn
  <2> QED
    BY <1>1, <1>2, <1>5, <2>1 DEF EmailInv, OneClaim
<1> QED
  BY <1>1, <1>2, <1>3, <1>4, <1>5

LEMMA EmailInvNext ==
  ASSUME TypeOK, EmailInv, [Next]_vars
  PROVE  EmailInv'
<1>0. DOMAIN events = 1 .. Len(events) /\ Len(events) \in Nat
  BY LenProperties DEF TypeOK
<1>1. CASE Aside
  <2>1. events' = events
    BY <1>1, AsideStays
  <2>2. CASE request' = request
    BY <2>1, <2>2 DEF EmailInv, RequestsKnow, OneClaim, WorksOn
  <2>3. CASE request' # request
    BY <1>0, <1>1, <2>1, <2>3, AsideRequests, IdleIs, EmailInvAside
  <2> QED
    BY <2>2, <2>3
<1>2. ASSUME NEW q \in Requests, NEW k \in Keys, Operates(q, k) PROVE EmailInv'
  <2>1. PICK op, b : Recorded(q, k, op, b)
    BY <1>2, OperatesRecords
  <2>2. /\ Len(events) < MaxEvents /\ DOMAIN events' = 1 .. (Len(events) + 1)
        /\ \A i \in 1 .. Len(events) : events'[i] = events[i]
        /\ events'[Len(events) + 1] = NewEvent(k, op, b)
    BY <2>1, LogGrows
  <2>3. PICK n \in 0 .. MaxEvents : n = Len(events) + 1
    BY <1>0, <2>2, Bounds
  <2>4. PICK x : x = [Idle EXCEPT !.pc = "claim", !.event = n]
    OBVIOUS
  <2>5. x \in Req /\ x.pc = "claim" /\ x.event = n
    BY <2>4 DEF Idle, Req
  <2>6. request' = [request EXCEPT ![q] = x]
    BY <2>1, <2>3, <2>4 DEF Recorded
  <2>7. events'[n].email = "PENDING" /\ events'[n].accepted = 0
    BY <2>2, <2>3 DEF NewEvent
  <2>8. \A i \in DOMAIN events' \ DOMAIN events : i = n
    BY <1>0, <2>2, <2>3
  <2>9. n \in DOMAIN events' /\ DOMAIN events \subseteq DOMAIN events'
    BY <1>0, <2>2, <2>3
  <2> QED
    BY <1>0, <2>2, <2>5, <2>6, <2>7, <2>8, <2>9, EmailInvAside
<1>3. ASSUME NEW i \in DOMAIN events, Minute(i) PROVE EmailInv'
  <2>1. PICK e \in Event :
          /\ events' = [events EXCEPT ![i] = e] /\ SameOp(e, events[i])
          /\ e.email = events[i].email /\ e.accepted = events[i].accepted
    BY <1>3, MinuteMoves
  <2>2. /\ LogKept /\ events'[i] = e
        /\ \A j \in 1 .. Len(events) : j # i => events'[j] = events[j]
    BY <1>0, <2>1, LogChanges
  <2>3. request' = request /\ DOMAIN events' = DOMAIN events
    BY <1>3, <2>2 DEF Minute, LogKept
  <2>4. \A j \in DOMAIN events : /\ events'[j].email = events[j].email
                                /\ events'[j].accepted = events[j].accepted
    BY <1>0, <2>1, <2>2
  <2> QED
    BY <2>3, <2>4 DEF EmailInv, RequestsKnow, OneClaim, WorksOn
<1>4. ASSUME NEW q \in Requests, Claim(q) PROVE EmailInv'
  <2>1. PICK i : i = request[q].event
    OBVIOUS
  <2>2. request[q].pc = "claim" /\ i \in 1 .. Len(events)
        /\ events[i].email \in {"PENDING", "FAILED"}
    BY <1>4, <2>1, ClaimMoves DEF EmailInv, Claim
  <2>3. PICK e \in Event, x \in Req :
          /\ events' = [events EXCEPT ![i] = e] /\ SameOp(e, events[i])
          /\ e.email = "SENDING" /\ e.accepted = events[i].accepted
          /\ request' = [request EXCEPT ![q] = x] /\ x.pc = "deliver" /\ x.event = i
    BY <1>4, <2>1, ClaimMoves DEF EmailInv
  <2>4. /\ events'[i] = e /\ request'[q] = x /\ RequestsKnow'
        /\ DOMAIN events' = DOMAIN events
        /\ \A p \in Requests : p # q => request'[p] = request[p]
        /\ \A j \in DOMAIN events : j # i => OneClaim(j)'
    BY <2>1, <2>2, <2>3, OthersKnow
  <2>5. \A p \in Requests : ~WorksOn(p, i)
    BY <1>0, <2>2 DEF EmailInv, OneClaim
  <2>6. \A p \in Requests : WorksOn(p, i)' => p = q
    BY <2>4, <2>5 DEF WorksOn
  <2>7. OneClaim(i)'
    BY <1>0, <2>2, <2>3, <2>4, <2>6 DEF EmailInv, OneClaim
  <2> QED
    BY <1>0, <2>2, <2>4, <2>7 DEF EmailInv
<1>5. ASSUME NEW q \in Requests, Deliver(q) PROVE EmailInv'
  <2>1. PICK i : i = request[q].event
    OBVIOUS
  <2>2. request[q].pc = "deliver" /\ i \in 1 .. Len(events)
    BY <1>5, <2>1, DeliverMoves DEF EmailInv, Deliver
  <2>3. PICK e \in Event, x \in Req :
          /\ events' = [events EXCEPT ![i] = e] /\ SameOp(e, events[i])
          /\ e.email = events[i].email
          /\ e.accepted \in {events[i].accepted, events[i].accepted + 1}
          /\ request' = [request EXCEPT ![q] = x]
          /\ x.pc = "finish" /\ x.event = i /\ x.outcome # "none"
          /\ x.outcome = "FAILED" => e.accepted = events[i].accepted
    BY <1>5, <2>1, DeliverMoves DEF EmailInv
  <2>4. /\ events'[i] = e /\ request'[q] = x /\ RequestsKnow'
        /\ DOMAIN events' = DOMAIN events
        /\ \A p \in Requests : p # q => request'[p] = request[p]
        /\ \A j \in DOMAIN events : j # i => OneClaim(j)'
    BY <2>1, <2>2, <2>3, OthersKnow
  <2>5. WorksOn(q, i)
    BY <2>1, <2>2 DEF WorksOn
  <2>6. events[i].email = "SENDING" /\ events[i].accepted = 0
        /\ \A p \in Requests : WorksOn(p, i) => p = q
    BY <1>0, <2>2, <2>5 DEF EmailInv, OneClaim
  <2>7. \A p \in Requests : WorksOn(p, i)' => p = q
    BY <2>4, <2>6 DEF WorksOn
  <2>8. OneClaim(i)'
    BY <1>0, <2>2, <2>3, <2>4, <2>6, <2>7 DEF OneClaim
  <2> QED
    BY <1>0, <2>2, <2>4, <2>8 DEF EmailInv
<1>6. ASSUME NEW q \in Requests, Finish(q) PROVE EmailInv'
  <2>1. PICK i : i = request[q].event
    OBVIOUS
  <2>2. /\ request[q].pc = "finish" /\ i \in 1 .. Len(events)
        /\ request' = [request EXCEPT ![q] = Idle]
    BY <1>6, <2>1, FinishMoves DEF EmailInv
  <2>3. WorksOn(q, i)
    BY <2>1, <2>2 DEF WorksOn
  <2>4. /\ request[q].outcome # "none"
        /\ request[q].outcome = "FAILED" => events[i].accepted = 0
        /\ \A p \in Requests : WorksOn(p, i) => p = q
        /\ events[i].accepted <= 1
    BY <1>0, <2>2, <2>3 DEF EmailInv, OneClaim
  <2>5. CASE events' = events
    BY <1>0, <2>2, <2>5, IdleIs, EmailInvAside
  <2>6. CASE events' # events
    <3>1. PICK e \in Event :
            /\ events' = [events EXCEPT ![i] = e] /\ SameOp(e, events[i])
            /\ e.email = request[q].outcome /\ e.accepted = events[i].accepted
      BY <1>6, <2>1, <2>4, <2>6, FinishMoves DEF EmailInv
    <3>2. /\ events'[i] = e /\ request'[q] = Idle /\ RequestsKnow'
          /\ DOMAIN events' = DOMAIN events
          /\ \A p \in Requests : p # q => request'[p] = request[p]
          /\ \A j \in DOMAIN events : j # i => OneClaim(j)'
      BY <2>1, <2>2, <3>1, IdleIs, OthersKnow
    <3>3. \A p \in Requests : ~WorksOn(p, i)'
      BY <2>4, <3>2, IdleIs DEF WorksOn
    <3>4. request[q].outcome # "PENDING"
      BY DEF TypeOK
    <3>5. OneClaim(i)'
      BY <2>4, <3>1, <3>2, <3>3, <3>4 DEF OneClaim
    <3> QED
      BY <1>0, <2>2, <3>2, <3>5 DEF EmailInv
  <2> QED
    BY <2>5, <2>6
<1> QED
  BY <1>1, <1>2, <1>3, <1>4, <1>5, <1>6, StepKinds DEF Mails

(* A receipt says what its operation left the booking at.                  *)
LEMMA ReceiptNext ==
  ASSUME TypeOK, EmailInv, ReceiptIsBooking, [Next]_vars
  PROVE  ReceiptIsBooking'
<1>1. CASE LogKept
  <2>1. /\ events' \in Seq(Event) /\ events \in Seq(Event) /\ Len(events') = Len(events)
        /\ Len(events) \in Nat
        /\ \A j \in 1 .. Len(events) : events'[j].receipt = events[j].receipt
    BY <1>1 DEF LogKept, SameOp, TypeOK
  <2>2. events' # <<>> => events # <<>> /\ Len(events) \in 1 .. Len(events)
    BY <2>1, EmptySeq
  <2>3. /\ booking'.plan = booking.plan /\ booking'.total = booking.total
        /\ \/ booking'.status = booking.status
           \/ booking.status = "CONFIRMED" /\ booking'.status = "CHECKED_IN"
           \/ booking.status = "CHECKED_IN" /\ booking'.status = "CHECKED_OUT"
    <3>1. booking' = booking \/ Assign \/ CheckInOut
            \/ \E q \in Requests, k \in Keys : Operates(q, k)
      BY StepKinds, MailsKeep
         DEF Aside, vars, Tick, Reconcile, NewPolicy, Settle, Quote, NoEmail, Replay
    <3>2. ASSUME NEW q \in Requests, NEW k \in Keys, Operates(q, k) PROVE FALSE
      <4>1. Len(events') = Len(events) + 1
        BY <3>2, OperatesRecords, LogGrows
      <4> QED
        BY <2>1, <4>1
    <3> QED
      BY <3>1, <3>2 DEF Assign, CheckInOut, TypeOK, Row
  <2> DEFINE r == events[Len(events)].receipt
  <2>4. events' # <<>> => events'[Len(events')].receipt = r
    BY <2>1, <2>2
  <2> HIDE DEF r
  <2>5. events' # <<>> =>
          /\ r.plan = booking.plan /\ r.total = booking.total
          /\ \/ r.status = booking.status
             \/ r.status = "CONFIRMED" /\ booking.status \in {"CHECKED_IN", "CHECKED_OUT"}
          /\ r.balance - r.refund = (IF r.status = "CANCELLED" THEN 0 ELSE r.total) - r.paid
          /\ r.balance = 0 \/ r.refund = 0
    BY <2>2 DEF ReceiptIsBooking, r
  <2>6. events' # <<>> => r.status \in {"CONFIRMED", "CANCELLED"}
    <3>1. events' # <<>> => events[Len(events)] \in Event
      BY <2>1, <2>2, ElementOfSeq
    <3> QED
      BY <3>1 DEF Event, Sums, r
  <2> QED
    BY <2>3, <2>4, <2>5, <2>6 DEF ReceiptIsBooking
<1>2. ASSUME NEW q \in Requests, NEW k \in Keys, Operates(q, k) PROVE ReceiptIsBooking'
  <2>1. PICK op, b : Recorded(q, k, op, b)
    BY <1>2, OperatesRecords
  <2>2. /\ Len(events') = Len(events) + 1
        /\ events'[Len(events) + 1] = NewEvent(k, op, b) /\ booking' = b
        /\ b \in Row /\ b.status \in {"CONFIRMED", "CANCELLED"}
    BY <2>1, LogGrows DEF Recorded
  <2>3. events'[Len(events')].receipt = Receipt(b)
    BY <2>2 DEF NewEvent
  <2>4. /\ Receipt(b).plan = b.plan /\ Receipt(b).total = b.total
        /\ Receipt(b).status = b.status /\ Receipt(b).paid = Paid
        /\ Receipt(b).balance = Balance(b) /\ Receipt(b).refund = RefundDue(b)
    BY DEF Receipt
  <2>5. /\ Balance(b) - RefundDue(b) = Owed(b) - Paid
        /\ Balance(b) = 0 \/ RefundDue(b) = 0
    BY <2>2, SumsAre
  <2> QED
    BY <2>2, <2>3, <2>4, <2>5 DEF ReceiptIsBooking, Owed
<1> QED
  BY <1>1, <1>2, KeptOrRecorded

(* A second operation is accepted only when nothing is owed either way.    *)
LEMMA SettledNext ==
  ASSUME TypeOK, EmailInv, ReceiptIsBooking, SettledBetween, [Next]_vars
  PROVE  SettledBetween'
<1>0. events \in Seq(Event) /\ Len(events) \in Nat
  BY LenProperties DEF TypeOK
<1>1. CASE LogKept
  <2>1. Len(events') = Len(events)
        /\ \A j \in 1 .. Len(events) : events'[j].receipt = events[j].receipt
    BY <1>1 DEF LogKept, SameOp
  <2>2. \A i \in 1 .. Len(events) - 1 : i \in 1 .. Len(events) /\ i + 1 \in 1 .. Len(events)
    BY <1>0
  <2> QED
    BY <2>1, <2>2 DEF SettledBetween
<1>2. ASSUME NEW q \in Requests, NEW k \in Keys, Operates(q, k) PROVE SettledBetween'
  <2>1. PICK op, b : Recorded(q, k, op, b)
    BY <1>2, OperatesRecords
  <2> DEFINE n == Len(events)
  <2>2. /\ Len(events') = n + 1 /\ n \in Nat
        /\ \A i \in 1 .. n : events'[i] = events[i]
        /\ events'[n + 1].receipt.paid = Paid
    <3>1. /\ Len(events') = Len(events) + 1
          /\ \A i \in 1 .. Len(events) : events'[i] = events[i]
          /\ events'[Len(events) + 1] = NewEvent(k, op, b)
      BY <2>1, LogGrows
    <3>2. NewEvent(k, op, b).receipt.paid = Paid
      BY DEF NewEvent, Receipt
    <3> QED
      BY <1>0, <3>1, <3>2
  <2>3. Eligible /\ booking.status = "CONFIRMED"
    BY <2>1 DEF Recorded, Eligible
  <2>4. ASSUME n > 0
        PROVE  events[n].receipt.status = "CONFIRMED" /\ Paid = events[n].receipt.total
    <3>1. events # <<>>
      BY <1>0, <2>4, EmptySeq
    <3>2. /\ events[n].receipt.total = booking.total
          /\ events[n].receipt.status = "CONFIRMED"
      BY <2>3, <3>1 DEF ReceiptIsBooking
    <3>3. RefundDue(booking) = 0 /\ Balance(booking) = 0
      BY <2>3, <2>4 DEF Eligible, Revision
    <3>4. booking \in Row
      BY DEF TypeOK
    <3>5. Paid \in Int /\ Owed(booking) \in Int
          /\ Balance(booking) - RefundDue(booking) = Owed(booking) - Paid
      BY <2>3, <3>4, SumsAre
    <3>6. Owed(booking) = booking.total
      BY <2>3 DEF Owed
    <3> QED
      BY <3>2, <3>3, <3>5, <3>6
  <2> HIDE DEF n
  <2>5. ASSUME NEW i \in 1 .. Len(events') - 1
        PROVE  /\ events'[i].receipt.status = "CONFIRMED"
               /\ events'[i + 1].receipt.paid = events'[i].receipt.total
    <3>1. CASE i = n
      BY <2>2, <2>4, <2>5, <3>1
    <3>2. CASE i # n
      <4>1. i \in 1 .. n - 1 /\ i \in 1 .. n /\ i + 1 \in 1 .. n
        BY <2>2, <2>5, <3>2
      <4> QED
        BY <2>2, <4>1 DEF SettledBetween, n
    <3> QED
      BY <3>1, <3>2
  <2> QED
    BY <2>5 DEF SettledBetween
<1> QED
  BY <1>1, <1>2, KeptOrRecorded

LEMMA InitMInv == Init => MInv
<1> SUFFICES ASSUME Init PROVE MInv
  OBVIOUS
<1>1. events = <<>> /\ events \in Seq(Event) /\ Len(events) = 0 /\ DOMAIN events = {}
  <2>1. events = <<>>
    BY DEF Init
  <2>2. \A S : <<>> \in Seq(S)
    OBVIOUS
  <2> QED
    BY <2>1, <2>2
<1>2. TypeOK
  <2>1. booking \in Row
    BY DEF Init, Row
  <2>2. price \in Totals
    BY <2>1 DEF Init, Row
  <2>3. now \in 0 .. MaxTime /\ received \in 0 .. MaxCharges /\ desk \in Int
        /\ review \in BOOLEAN /\ policy \in Settlements /\ Len(events) <= MaxEvents
    <3>1. MaxTime >= 0 /\ MaxCharges >= 1 /\ MaxEvents >= 0
          /\ MaxTime \in Nat /\ MaxCharges \in Nat /\ MaxEvents \in Nat
      BY ManagementAssumption
    <3>2. now = 0 /\ received = 1 /\ desk = 0 /\ review = FALSE /\ policy \in Settlements
      BY DEF Init
    <3>3. 0 \in 0 .. MaxTime /\ 1 \in 0 .. MaxCharges /\ 0 <= MaxEvents
      BY <3>1
    <3>4. 0 \in Int
      OBVIOUS
    <3>5. Len(events) <= MaxEvents
      BY <1>1, <3>3
    <3> QED
      BY <3>2, <3>3, <3>4, <3>5, Zenon
  <2>4. quotes \in [Quotes -> Signed \cup {None}] /\ told = {}
    BY DEF Init
  <2>5. request \in [Requests -> Req]
    BY IdleIs DEF Init
  <2> QED
    BY <1>1, <2>1, <2>2, <2>3, <2>4, <2>5 DEF TypeOK, Req
<1>3. LogInOrder /\ AcceptedInTime
  BY <1>1 DEF LogInOrder, AcceptedInTime
<1>4. KeysCount
  <2>1. UsedKeys = {}
    BY <1>1 DEF UsedKeys, EventOf
  <2> QED
    BY <1>1, <2>1, FS_EmptySet DEF KeysCount
<1>5. EmailInv
  BY <1>1, IdleIs DEF EmailInv, RequestsKnow, Init
<1>6. ReceiptIsBooking /\ SettledBetween
  BY <1>1 DEF ReceiptIsBooking, SettledBetween
<1> QED
  BY <1>2, <1>3, <1>4, <1>5, <1>6 DEF MInv

LEMMA NextMInv == MInv /\ [Next]_vars => MInv'
BY TypeNext, LogInOrderNext, KeysCountNext, EmailInvNext, AcceptedInTimeNext, ReceiptNext,
   SettledNext DEF MInv

LEMMA SpecMInv == Spec => []MInv
BY InitMInv, NextMInv, PTL DEF Spec

-----------------------------------------------------------------------------
(* What follows.                                                           *)

(* The row, the log, the tokens and the requests are of their kinds.       *)
THEOREM ManagementTypes == Spec => []TypeOK
<1>1. MInv => TypeOK
  BY DEF MInv
<1> QED
  BY <1>1, SpecMInv, PTL

(* No sequence of changes escapes the cutoff, and none is made with an     *)
(* expired quote.                                                          *)
THEOREM ChangesAreInTime == Spec => []AcceptedInTime
<1>1. MInv => AcceptedInTime
  BY DEF MInv
<1> QED
  BY <1>1, SpecMInv, PTL

(* Each operation is emailed at most once.                                 *)
THEOREM ChangesMailedOnce == Spec => []OneChangeEmail
<1>1. MInv => OneChangeEmail
  BY DEF MInv, EmailInv, OneClaim, OneChangeEmail
<1> QED
  BY <1>1, SpecMInv, PTL

(* A receipt is what the booking now is, and what it left owing is settled *)
(* before the next operation.                                              *)
THEOREM ChangesAreSettled == Spec => []MoneySettled
<1>1. MInv => MoneySettled
  BY DEF MInv, MoneySettled
<1> QED
  BY <1>1, SpecMInv, PTL

-----------------------------------------------------------------------------
(* What the guest is shown.                                                *)

(* The state and the previews are acceptable whatever is in the rows.      *)
LEMMA StateAccepted == ASSUME TypeOK PROVE AcceptsState(Summary, Refusal)
<1>1. booking \in Row
  BY DEF TypeOK
<1>2. /\ Summary.status = booking.status /\ Summary.total = booking.total
      /\ Summary.paid = Paid
      /\ Summary.balance = Balance(booking) /\ Summary.refund = RefundDue(booking)
  BY DEF Summary
<1>3. Owed(booking) = IF Summary.status = "CANCELLED" THEN 0 ELSE Summary.total
  BY <1>2 DEF Owed
<1>4. Paid \in Int /\ Owed(booking) \in Int
  <2>1. price \in Totals /\ received \in 0 .. MaxCharges /\ desk \in Int
    BY DEF TypeOK
  <2>2. received \in Int /\ price \in Int /\ booking.total \in Int
    BY <1>1, <2>1, Bounds DEF Row
  <2> QED
    BY <2>1, <2>2 DEF Paid, Owed
<1>5. SumsFit(Summary)
  <2> HIDE DEF Paid, Owed, Summary
  <2>1. Balance(booking) = Above(Owed(booking), Paid)
        /\ RefundDue(booking) = Above(Paid, Owed(booking))
    BY <1>4 DEF Balance, RefundDue, Above
  <2> QED
    BY <1>2, <1>3, <2>1 DEF SumsFit
<1>6. Refusal = "none" => booking.status = "CONFIRMED"
  BY DEF Refusal
<1> QED
  BY <1>2, <1>5, <1>6 DEF AcceptsState

LEMMA PreviewsAccepted ==
  ASSUME TypeOK, NEW u \in Quotes, quotes[u] # None
  PROVE  AcceptsPreview(Preview(u))
<1>1. quotes[u].total \in Totals
  BY DEF TypeOK, Signed
<1>2. quotes[u].total >= 1
  BY <1>1, ManagementAssumption
<1> QED
  BY <1>2 DEF AcceptsPreview, Preview

(* A booking that the two pages tell of is unsettled for both or neither.  *)
LEMMA PagesAgree == ASSUME TypeOK PROVE ConfirmedIsManageable
<1> SUFFICES ASSUME booking.status = "CONFIRMED"
             PROVE  /\ Heading = "confirmed" =>
                         LogFull \/ Refusal \in {"none", "CHANGE_CUTOFF_PASSED"}
                    /\ Heading = "review" => Refusal = "SETTLEMENT_REVIEW_REQUIRED"
  BY DEF ConfirmedIsManageable
<1>1. booking \in Row /\ Owed(booking) = booking.total
  BY DEF TypeOK, Owed
<1>2. Paid \in Int /\ Owed(booking) \in Int
  BY <1>1, SumsAre
<1>3. Balance(booking) > 0 <=> Paid < booking.total
  <2> HIDE DEF Paid, Owed
  <2> QED
    BY <1>1, <1>2 DEF Balance
<1>4. ManagementReview <=> Unsettled
  BY <1>3 DEF ManagementReview, Unsettled
<1>5. Heading = "review" <=> review \/ Unsettled
  BY <1>4 DEF Heading
<1>6. Heading = "confirmed" => ~review /\ ~Unsettled
  BY <1>4 DEF Heading
<1> HIDE DEF Heading
<1> QED
  BY <1>5, <1>6 DEF Refusal

(* Every state, preview and answer is one the website accepts, and what    *)
(* its pages say of a booking agrees.                                      *)
THEOREM ShownAsItIs == Spec => []ViewHolds
<1>1. MInv => ViewHolds
  BY StateAccepted, PreviewsAccepted, PagesAgree DEF MInv, ViewHolds, AnswersAccepted
<1> QED
  BY <1>1, SpecMInv, PTL

-----------------------------------------------------------------------------
(* Every step is one that management promises, or none.                    *)

LEMMA NoneDone ==
  ASSUME TypeOK, NEW k \in Keys
  PROVE  /\ OperationOf(k) = None <=> EventOf(k) = {}
         /\ EventOf(k) # {} => OperationOf(k) \in Op
<1>1. ASSUME EventOf(k) # {} PROVE OperationOf(k) \in Op
  <2>1. PICK i : i = CHOOSE j \in EventOf(k) : TRUE
    OBVIOUS
  <2>2. i \in EventOf(k)
    BY <1>1, <2>1
  <2>3. events[i] \in Event
    BY <2>2, LenProperties, ElementOfSeq DEF TypeOK, EventOf
  <2> QED
    BY <1>1, <2>1, <2>3 DEF OperationOf, Event
<1>2. None \notin Op
  BY NoneApart
<1> QED
  BY <1>1, <1>2 DEF OperationOf

LEMMA OperationIs ==
  ASSUME TypeOK, LogInOrder, NEW k \in Keys, NEW i \in EventOf(k)
  PROVE  OperationOf(k) = events[i].op
<1>1. \A j \in EventOf(k) : j = i
  BY DEF EventOf, LogInOrder
<1>2. (CHOOSE j \in EventOf(k) : TRUE) = i
  BY <1>1
<1> QED
  BY <1>2 DEF OperationOf

LEMMA DoneStays ==
  ASSUME LogKept
  PROVE  [k \in Keys |-> OperationOf(k)]' = [k \in Keys |-> OperationOf(k)]
<1>1. ASSUME NEW k \in Keys PROVE OperationOf(k)' = OperationOf(k)
  <2>1. EventOf(k)' = EventOf(k)
    BY UsedStay
  <2>2. CASE EventOf(k) = {}
    BY <2>1, <2>2 DEF OperationOf
  <2>3. CASE EventOf(k) # {}
    <3>1. PICK i : i = CHOOSE j \in EventOf(k) : TRUE
      OBVIOUS
    <3>2. i \in 1 .. Len(events)
      BY <2>3, <3>1 DEF EventOf, LogKept
    <3>3. events'[i].op = events[i].op
      BY <3>2 DEF LogKept, SameOp
    <3>4. (CHOOSE j \in EventOf(k) : TRUE)' = i
      BY <2>1, <3>1
    <3> QED
      BY <2>1, <2>3, <3>1, <3>3, <3>4 DEF OperationOf
  <2> QED
    BY <2>2, <2>3
<1> QED
  BY <1>1

LEMMA DoneGrows ==
  ASSUME MInv, MInv', NEW q \in Requests, NEW k \in Keys, NEW op, NEW b, Recorded(q, k, op, b)
  PROVE  /\ [j \in Keys |-> OperationOf(j)]' = [[j \in Keys |-> OperationOf(j)] EXCEPT ![k] = op]
         /\ OperationOf(k) = None
<1>1. TypeOK /\ TypeOK' /\ LogInOrder'
  BY DEF MInv
<1>2. /\ EventOf(k) = {} /\ EventOf(k)' = {Len(events) + 1}
      /\ \A j : j # k => EventOf(j)' = EventOf(j)
  BY <1>1, UsedGrow
<1>3. /\ events'[Len(events) + 1].op = op /\ DOMAIN events = 1 .. Len(events)
      /\ \A i \in 1 .. Len(events) : events'[i] = events[i]
  <2>1. NewEvent(k, op, b).op = op
    BY DEF NewEvent
  <2> QED
    BY <1>1, <2>1, LogGrows
<1>4. OperationOf(k)' = op
  BY <1>2, <1>3 DEF OperationOf
<1>5. ASSUME NEW j \in Keys, j # k PROVE OperationOf(j)' = OperationOf(j)
  <2>1. EventOf(j)' = EventOf(j)
    BY <1>2, <1>5
  <2>2. CASE EventOf(j) = {}
    BY <2>1, <2>2 DEF OperationOf
  <2>3. CASE EventOf(j) # {}
    <3>1. PICK i : i = CHOOSE n \in EventOf(j) : TRUE
      OBVIOUS
    <3>2. events'[i] = events[i]
      BY <1>3, <2>3, <3>1 DEF EventOf
    <3>3. (CHOOSE n \in EventOf(j) : TRUE)' = i
      BY <2>1, <3>1
    <3> QED
      BY <2>1, <2>3, <3>1, <3>2, <3>3 DEF OperationOf
  <2> QED
    BY <2>2, <2>3
<1>6. [j \in Keys |-> OperationOf(j)'] = [[j \in Keys |-> OperationOf(j)] EXCEPT ![k] = op]
  BY <1>4, <1>5
<1>7. OperationOf(k) = None
  BY <1>2 DEF OperationOf
<1> QED
  BY <1>6, <1>7

LEMMA OffersStay ==
  ASSUME quotes' = quotes
  PROVE  [u \in Quotes |-> OfferOf(u)]' = [u \in Quotes |-> OfferOf(u)]
BY DEF OfferOf

LEMMA QuoteOffers ==
  ASSUME TypeOK, NEW u \in Quotes, Quote(u)
  PROVE  Promise!Offer(u)
<1> DEFINE offers == [v \in Quotes |-> OfferOf(v)]
<1>1. quotes[u] = None /\ booking.status = "CONFIRMED"
      /\ UNCHANGED <<now, booking, money, events, policy, request, told>>
  BY QuoteSigns
<1>2. PICK P \in Plans, n \in Totals, s \in Signed :
        /\ quotes' = [quotes EXCEPT ![u] = s]
        /\ s.plan = P /\ s.total = n /\ s.binding.row = booking
  BY QuoteSigns
<1>3. s # None /\ quotes'[u] = s /\ \A v \in Quotes : v # u => quotes'[v] = quotes[v]
  BY <1>2, NoneApart DEF TypeOK
<1> DEFINE version == VersionOf(booking)
           g == [from |-> version, to |-> [version EXCEPT !.plan = P, !.total = n]]
<1>4. [version EXCEPT !.plan = P, !.total = n]
        = [plan |-> P, total |-> n, status |-> "CONFIRMED"]
  <2>1. version = [plan |-> booking.plan, total |-> booking.total, status |-> "CONFIRMED"]
    BY <1>1 DEF VersionOf
  <2> HIDE DEF version
  <2>2. PICK w : w = [version EXCEPT !.plan = P]
    OBVIOUS
  <2>3. w = [plan |-> P, total |-> booking.total, status |-> "CONFIRMED"]
    BY <2>1, <2>2
  <2>4. [w EXCEPT !.total = n] = [plan |-> P, total |-> n, status |-> "CONFIRMED"]
    BY <2>3
  <2> QED
    BY <2>2, <2>4
<1>5. OfferOf(u)' = g
  <2>1. OfferOf(u)' = [from |-> VersionOf(s.binding.row),
                       to |-> [plan |-> s.plan, total |-> s.total, status |-> "CONFIRMED"]]
    BY <1>3 DEF OfferOf, VersionOf
  <2> QED
    BY <1>2, <1>4, <2>1
<1>6. \A v \in Quotes : v # u => OfferOf(v)' = OfferOf(v)
  BY <1>3 DEF OfferOf
<1>7. offers' = [offers EXCEPT ![u] = g]
  <2> HIDE DEF g
  <2>1. [v \in Quotes |-> OfferOf(v)'] = [offers EXCEPT ![u] = g]
    BY <1>5, <1>6
  <2> QED
    BY <2>1
<1>8. offers[u] = None /\ version.status = "CONFIRMED"
  BY <1>1 DEF OfferOf, VersionOf
<1>9. UNCHANGED <<VersionOf(booking), [k \in Keys |-> OperationOf(k)], told>>
  BY <1>1 DEF OperationOf, EventOf
<1> QED
  BY <1>2, <1>7, <1>8, <1>9 DEF Promise!Offer

(* No key stands for an operation that is only now accepted.               *)
LEMMA OpsOnce ==
  ASSUME MInv, MInv', NEW q \in Requests, NEW k \in Keys, NEW op, NEW b, Recorded(q, k, op, b),
         IF op.kind = "MODIFIED" THEN quotes[op.of].binding.revision = Len(events)
                                 ELSE op.of = Len(events)
  PROVE  \A j \in Keys : OperationOf(j) # op
<1>1. /\ TypeOK /\ LogInOrder /\ op \in Op /\ Len(events) \in Nat
      /\ DOMAIN events = 1 .. Len(events)
  BY LogGrows DEF MInv, Recorded
<1>2. SUFFICES ASSUME NEW j \in Keys, OperationOf(j) = op PROVE FALSE
  OBVIOUS
<1>3. PICK i : i \in EventOf(j)
  BY <1>1, <1>2, NoneApart DEF OperationOf
<1>4. i \in 1 .. Len(events) /\ events[i].op = op
  BY <1>1, <1>2, <1>3, OperationIs DEF EventOf
<1>5. i - 1 = Len(events)
  BY <1>1, <1>4 DEF LogInOrder
<1> QED
  BY <1>1, <1>4, <1>5

LEMMA ModifyTakesUp ==
  ASSUME MInv, MInv', NEW q \in Requests, NEW k \in Keys, NEW u \in Quotes, Modify(q, k, u)
  PROVE  Promise!TakeUp(k, u)
<1> DEFINE op == [kind |-> "MODIFIED", of |-> u]
           b == Changed(quotes[u].plan, quotes[u].total)
           done == [j \in Keys |-> OperationOf(j)]
           offers == [v \in Quotes |-> OfferOf(v)]
<1>1. TypeOK /\ Recorded(q, k, op, b) /\ quotes[u] \in Signed
  BY ModifyRecords DEF MInv
<1>2. quotes[u] # None /\ quotes[u].binding.row = booking
      /\ quotes[u].binding.revision = Len(events)
  BY DEF Modify, Binding, Revision
<1>3. offers[u] = [from |-> VersionOf(booking),
                   to |-> [plan |-> quotes[u].plan, total |-> quotes[u].total,
                           status |-> "CONFIRMED"]]
  BY <1>2 DEF OfferOf
<1>4. offers[u] # None
  <2>1. quotes[u].plan \in Plans /\ quotes[u].total \in Totals
    BY <1>1 DEF Signed
  <2>2. VersionOf(booking) \in Version
    BY <1>1 DEF TypeOK, Row, VersionOf, Version
  <2>3. offers[u] \in [from : Version, to : Version]
    BY <1>3, <2>1, <2>2 DEF Version
  <2> QED
    BY <2>3, NoneApart
<1>5. booking.status = "CONFIRMED" /\ booking' = b /\ quotes' = quotes
      /\ told' = told \cup {<<k, op>>}
  BY <1>1 DEF Recorded, Eligible
<1>6. VersionOf(b) = offers[u].to
  BY <1>1, <1>3, <1>5 DEF Changed, VersionOf, TypeOK, Row
<1>7. \A j \in Keys : OperationOf(j) # op
  BY <1>1, <1>2, OpsOnce
<1>8. done' = [done EXCEPT ![k] = op] /\ OperationOf(k) = None
  BY <1>1, DoneGrows
<1>9. offers' = offers
  BY <1>5, OffersStay
<1>10. offers[u].from = VersionOf(booking) /\ VersionOf(booking).status = "CONFIRMED"
       /\ VersionOf(booking)' = offers[u].to
  BY <1>3, <1>5, <1>6 DEF VersionOf
<1> HIDE DEF b
<1> QED
  BY <1>4, <1>5, <1>7, <1>8, <1>9, <1>10 DEF Promise!TakeUp, Promise!Operate

LEMMA SameCardinality == \A S : Promise!Cardinality(S) = Cardinality(S)
BY DEF Promise!Cardinality, Cardinality

LEMMA CancelWithdraws ==
  ASSUME MInv, MInv', NEW q \in Requests, NEW k \in Keys, NEW r \in 0 .. MaxEvents,
         Cancel(q, k, r)
  PROVE  Promise!Withdraw(k)
<1> DEFINE op == [kind |-> "CANCELLED", of |-> r]
           b == [booking EXCEPT !.status = "CANCELLED"]
           done == [j \in Keys |-> OperationOf(j)]
<1>1. TypeOK /\ Recorded(q, k, op, b) /\ r = Len(events)
  BY CancelRecords DEF MInv
<1>2. booking.status = "CONFIRMED" /\ booking' = b /\ quotes' = quotes
      /\ told' = told \cup {<<k, op>>}
  BY <1>1 DEF Recorded, Eligible
<1>3. {j \in Keys : done[j] # None} = UsedKeys
  BY <1>1, NoneDone DEF UsedKeys
<1>4. Cardinality({j \in Keys : done[j] # None}) = r
  BY <1>1, <1>3 DEF MInv, KeysCount
<1>5. VersionOf(booking)' = [VersionOf(booking) EXCEPT !.status = "CANCELLED"]
      /\ VersionOf(booking).status = "CONFIRMED"
  BY <1>1, <1>2 DEF VersionOf, TypeOK, Row
<1>6. \A j \in Keys : OperationOf(j) # op
  BY <1>1, OpsOnce
<1>7. done' = [done EXCEPT ![k] = op] /\ OperationOf(k) = None
  BY <1>1, DoneGrows
<1>8. UNCHANGED [u \in Quotes |-> OfferOf(u)]
  BY <1>2, OffersStay
<1>9. \A j \in Keys : done[j] # op
  BY <1>6
<1>10. done[k] = None
  BY <1>7
<1> DEFINE asked == [kind |-> "CANCELLED",
                     of |-> Promise!Cardinality({j \in Keys : done[j] # None})]
<1>11. asked = op
  BY <1>4, SameCardinality
<1>12. Promise!Operate(k, asked, [VersionOf(booking) EXCEPT !.status = "CANCELLED"])
  <2> HIDE DEF op, asked
  <2> QED
    BY <1>2, <1>5, <1>7, <1>8, <1>9, <1>10, <1>11 DEF Promise!Operate
<1> QED
  BY <1>12 DEF Promise!Withdraw

LEMMA ReplayRepeatsIt ==
  ASSUME MInv, NEW q \in Requests, NEW k \in Keys, NEW op \in Op, Replay(q, k, op)
  PROVE  Promise!Repeat(k)
<1> DEFINE done == [j \in Keys |-> OperationOf(j)]
<1>1. TypeOK /\ LogInOrder
  BY DEF MInv
<1>2. PICK i \in EventOf(k) : events[i].op = op /\ told' = told \cup {<<k, op>>}
  BY <1>1, ReplayAnswers
<1>3. booking' = booking /\ quotes' = quotes /\ events' = events
  BY <1>1, ReplayAnswers
<1>4. done[k] = op /\ op # None
  BY <1>1, <1>2, OperationIs, NoneApart
<1>5. UNCHANGED done
  BY <1>1, <1>3, LogStays, DoneStays
<1>6. UNCHANGED <<VersionOf(booking), [u \in Quotes |-> OfferOf(u)]>>
  BY <1>3, OffersStay
<1> QED
  BY <1>2, <1>4, <1>5, <1>6 DEF Promise!Repeat

LEMMA CheckInOutStays ==
  ASSUME TypeOK, CheckInOut
  PROVE  Promise!Stay
<1>1. UNCHANGED <<[u \in Quotes |-> OfferOf(u)], [k \in Keys |-> OperationOf(k)], told>>
  BY LogStays, DoneStays, OffersStay DEF CheckInOut
<1>2. \/ /\ VersionOf(booking).status = "CONFIRMED"
         /\ VersionOf(booking)' = [VersionOf(booking) EXCEPT !.status = "CHECKED_IN"]
      \/ /\ VersionOf(booking).status = "CHECKED_IN"
         /\ VersionOf(booking)' = [VersionOf(booking) EXCEPT !.status = "CHECKED_OUT"]
  BY DEF CheckInOut, VersionOf, TypeOK, Row
<1> QED
  BY <1>1, <1>2 DEF Promise!Stay

LEMMA PromiseInit == Init => Promise!Init
<1> SUFFICES ASSUME Init PROVE Promise!Init
  OBVIOUS
<1>1. VersionOf(booking) \in {v \in Promise!Versions : v.status = "CONFIRMED"}
  BY DEF Init, VersionOf, Promise!Versions
<1>2. \A u \in Quotes : OfferOf(u) = None
  BY DEF Init, OfferOf
<1>3. \A k \in Keys : OperationOf(k) = None
  <2>1. events = <<>> /\ DOMAIN events = {}
    BY DEF Init
  <2> QED
    BY <2>1 DEF OperationOf, EventOf
<1>4. told = {}
  BY DEF Init
<1> QED
  BY <1>1, <1>2, <1>3, <1>4 DEF Promise!Init

LEMMA PromiseNext ==
  ASSUME MInv, MInv', [Next]_vars
  PROVE  [Promise!Next]_(Promise!vars)
<1>0. TypeOK /\ EmailInv
  BY DEF MInv
<1> DEFINE Kept == Promise!Next \/ UNCHANGED Promise!vars
<1>1. ASSUME NEW q \in Requests, NEW k \in Keys, Operates(q, k) PROVE Kept
  BY <1>1, ModifyTakesUp, CancelWithdraws DEF Operates, Promise!Next
<1>2. ASSUME NEW q \in Requests, NEW k \in Keys, NEW op \in Op, Replay(q, k, op)
      PROVE  Kept
  BY <1>2, ReplayRepeatsIt DEF Promise!Next
<1>3. ASSUME NEW u \in Quotes, Quote(u) PROVE Kept
  BY <1>0, <1>3, QuoteOffers DEF Promise!Next
<1>4. ASSUME CheckInOut PROVE Kept
  BY <1>0, <1>4, CheckInOutStays DEF Promise!Next
<1>5. ASSUME LogKept, VersionOf(booking)' = VersionOf(booking), quotes' = quotes, told' = told
      PROVE  Kept
  BY <1>5, DoneStays, OffersStay DEF Promise!vars
<1> HIDE DEF Kept
<1>6. ASSUME Mails PROVE Kept
  BY <1>0, <1>5, <1>6, MailsKeep
<1> DEFINE Apart == \/ UNCHANGED vars \/ Tick \/ Reconcile \/ NewPolicy
                    \/ \E n \in 0 .. MaxCharges : Settle(n)
                    \/ \E q \in Requests : NoEmail(q)
<1>7. ASSUME Apart PROVE Kept
  <2>1. booking' = booking /\ events' = events /\ quotes' = quotes /\ told' = told
    BY <1>7 DEF vars, Tick, Reconcile, NewPolicy, Settle, NoEmail
  <2> QED
    BY <1>0, <1>5, <2>1, LogStays
<1>8. ASSUME Assign PROVE Kept
  <2>1. events' = events /\ quotes' = quotes /\ told' = told
    BY <1>8 DEF Assign
  <2>2. VersionOf(booking)' = VersionOf(booking)
    BY <1>0, <1>8 DEF Assign, VersionOf, TypeOK, Row
  <2> QED
    BY <1>0, <1>5, <1>8, <2>1, <2>2, LogStays
<1>9. ASSUME Aside PROVE Kept
  <2>1. Apart \/ Assign \/ CheckInOut \/ (\E u \in Quotes : Quote(u))
          \/ \E q \in Requests, k \in Keys, op \in Op : Replay(q, k, op)
    BY <1>9 DEF Aside
  <2>2. CASE \E q \in Requests, k \in Keys, op \in Op : Replay(q, k, op)
    BY <1>2, <2>2
  <2>3. CASE \E u \in Quotes : Quote(u)
    BY <1>3, <2>3
  <2> HIDE DEF Apart
  <2> QED
    BY <1>4, <1>7, <1>8, <2>1, <2>2, <2>3
<1>10. Kept
  <2>1. Aside \/ Mails \/ \E q \in Requests, k \in Keys : Operates(q, k)
    BY StepKinds
  <2> QED
    BY <1>1, <1>6, <1>9, <2>1
<1> QED
  BY <1>10 DEF Kept

(* Each change takes the booking from the version the guest was shown to   *)
(* the one that was quoted, once, and a key stands for one operation.      *)
THEOREM ManagementKeepsChanges == Spec => KeepsChanges
<1>1. MInv /\ MInv' /\ [Next]_vars => [Promise!Next]_(Promise!vars)
  BY PromiseNext
<1> QED
  BY <1>1, PromiseInit, SpecMInv, PTL DEF Spec, KeepsChanges, Promise!Spec

=============================================================================
