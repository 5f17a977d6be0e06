---------------------------- MODULE StripeProofs ----------------------------
(***************************************************************************)
(* The safety of a payment by Stripe, for any number of requests, of       *)
(* session ids and of failures: one session, no refund of money that       *)
(* bought the room, no email for money that goes back, and the promise of  *)
(* an online payment.                                                      *)
(***************************************************************************)
EXTENDS StripeCheckout, TLAPS

(* A request that has come to a session, the booking and the events owed   *)
(* name one that Stripe made.                                              *)
Named ==
  /\ \A q \in Requests : request[q].pc \notin {"idle", "create"} => request[q].id \in Opened
  /\ meta.session # None => meta.session \in Opened
  /\ \A p \in owed : p[1] \in Opened

(* What a request saw of Stripe that it is yet to act on is still so.      *)
StillSo ==
  \A q \in Requests :
    /\ At(q, "settle") /\ request[q].seen = "paid" => session[request[q].id] = "paid"
    /\ At(q, "refund") =>
         session[request[q].id] = "paid" /\ meta.refundStatus # "none"
    /\ At(q, "refunded") /\ request[q].seen = "succeeded" =>
         refund[request[q].id] = "succeeded"

(* The row and the metadata of the payment tell one story, and what they   *)
(* say was paid was paid.                                                  *)
Agreed ==
  /\ status = "NONE" => ~meta.prepared
  /\ ~meta.prepared => row = "none"
  /\ status = "CONFIRMED" => row = "COMPLETED"
  /\ row \in {"COMPLETED", "REFUNDED"} => Paid # {}
  /\ meta.refundRequired => row = "COMPLETED"
  /\ meta.refundStatus = "PENDING" <=> meta.refundRequired
  /\ meta.refundStatus = "REFUNDED" <=> row = "REFUNDED"
  /\ meta.refundStatus # "none" => status = "CANCELLED"

(* What a request may be doing.                                            *)
ReqKind ==
  [pc : {"idle", "create", "look", "attach", "expire", "retrieve", "settle",
         "refund", "refunded", "email", "answer", "unavailable"},
   op : Events \cup {"none", "status", "cancel", "resume"},
   id : Sessions \cup {None},
   seen : SessionStates \cup {"none", "pending", "succeeded", "failed"}]

RInv ==
  /\ TypeOK /\ Named /\ StillSo /\ Agreed
  /\ OneSession /\ RefundIsReal /\ MailOnlyIfKept

LEMMA InitRInv == Init => RInv
<1> SUFFICES ASSUME Init PROVE RInv
  OBVIOUS
<1>1. TypeOK
  <2>1. meta \in [prepared : BOOLEAN, session : Sessions \cup {None},
                 refundRequired : BOOLEAN,
                 refundStatus : {"none", "PENDING", "REFUNDED"}]
    BY DEF Init, NoMeta
  <2>2. request \in [Requests -> ReqKind]
    BY DEF Init, Idle, ReqKind, SessionStates
  <2>3. /\ session \in [Sessions -> SessionStates]
        /\ refund \in [Sessions -> {"none", "pending", "succeeded", "failed"}]
    BY DEF Init, SessionStates
  <2>4. failures \in 0 .. MaxFailures
    BY StripeAssumption DEF Init
  <2> QED
    BY <2>1, <2>2, <2>3, <2>4 DEF Init, TypeOK, ReqKind
<1>2. Opened = {} /\ meta = NoMeta /\ row = "none"
  BY DEF Init, Opened
<1>3. \A q \in Requests : request[q].pc = "idle"
  BY DEF Init, Idle
<1>4. Named /\ StillSo
  BY <1>2, <1>3 DEF Init, Named, StillSo, At, NoMeta
<1>5. Agreed
  BY <1>2 DEF Init, Agreed, NoMeta
<1>6. OneSession /\ RefundIsReal /\ MailOnlyIfKept
  BY <1>2 DEF Init, OneSession, RefundIsReal, MailOnlyIfKept
<1> QED
  BY <1>1, <1>4, <1>5, <1>6 DEF RInv

-----------------------------------------------------------------------------
(* Requests.                                                               *)

NamedAt(x) == x.pc \notin {"idle", "create"} => x.id \in Opened

SoAt(x) ==
  /\ x.pc = "settle" /\ x.seen = "paid" => session[x.id] = "paid"
  /\ x.pc = "refund" => session[x.id] = "paid" /\ meta.refundStatus # "none"
  /\ x.pc = "refunded" /\ x.seen = "succeeded" => refund[x.id] = "succeeded"

(* What Stripe made or settled stays, and so does a refund's record.       *)
Grows ==
  /\ \A s \in Sessions :
       /\ session[s] # "absent" => session'[s] # "absent"
       /\ session[s] = "paid" => session'[s] = "paid"
       /\ refund[s] = "succeeded" => refund'[s] = "succeeded"
  /\ meta.refundStatus # "none" => meta'.refundStatus # "none"

LEMMA RequestsKeep ==
  ASSUME RInv, Grows, NEW q \in Requests, NEW x \in ReqKind,
         request' = [request EXCEPT ![q] = x], NamedAt(x)', SoAt(x)'
  PROVE  /\ request' \in [Requests -> ReqKind]
         /\ StillSo'
         /\ \A p \in Requests : request'[p].pc \notin {"idle", "create"} =>
              request'[p].id \in Opened'
<1>1. request \in [Requests -> ReqKind]
  BY DEF RInv, TypeOK, ReqKind
<1>2. /\ request' \in [Requests -> ReqKind]
      /\ \A p \in Requests : request'[p] = IF p = q THEN x ELSE request[p]
  BY <1>1
<1>3. Opened \subseteq Opened' /\ Opened \subseteq Sessions
  BY DEF Opened, Grows
<1>4. \A p \in Requests : NamedAt(request[p]) /\ SoAt(request[p])
  BY DEF RInv, Named, StillSo, At, NamedAt, SoAt
<1>5. ASSUME NEW p \in Requests PROVE NamedAt(request[p])' /\ SoAt(request[p])'
  <2>1. CASE p = q
    <3>1. request'[p] = x
      BY <1>2, <2>1
    <3> QED
      BY <3>1 DEF NamedAt, SoAt
  <2>2. CASE p # q
    <3>1. request'[p] = request[p]
      BY <1>2, <2>2
    <3>2. NamedAt(request[p])'
      BY <1>3, <1>4, <3>1 DEF NamedAt
    <3>3. SoAt(request[p])'
      BY <1>3, <1>4, <3>1 DEF SoAt, NamedAt, Grows
    <3> QED
      BY <3>2, <3>3
  <2> QED
    BY <2>1, <2>2
<1> QED
  BY <1>2, <1>5 DEF NamedAt, SoAt, StillSo, At

(* The same when no request moves.                                         *)
LEMMA RequestsStay ==
  ASSUME RInv, Grows, request' = request
  PROVE  /\ StillSo'
         /\ \A p \in Requests : request'[p].pc \notin {"idle", "create"} =>
              request'[p].id \in Opened'
<1>1. Opened \subseteq Opened' /\ Opened \subseteq Sessions
  BY DEF Opened, Grows
<1>2. \A p \in Requests : NamedAt(request[p]) /\ SoAt(request[p])
  BY DEF RInv, Named, StillSo, At, NamedAt, SoAt
<1>3. \A p \in Requests : NamedAt(request[p])'
  BY <1>1, <1>2 DEF NamedAt
<1>4. \A p \in Requests : SoAt(request[p])'
  BY <1>1, <1>2 DEF SoAt, NamedAt, Grows
<1> QED
  BY <1>3, <1>4 DEF NamedAt, SoAt, StillSo, At

-----------------------------------------------------------------------------
(* The booking outside its payment, and Stripe.                            *)

LEMMA OutsideKeeps ==
  ASSUME RInv, Reserve \/ Lapse \/ Drop
  PROVE  RInv'
<1>1. UNCHANGED <<meta, row, email, session, refund, owed, request, failures>>
  BY DEF Reserve, Lapse, Drop, stripe
<1>2. Grows /\ Opened' = Opened /\ Paid' = Paid
  BY <1>1 DEF Grows, Opened, Paid
<1>3. TypeOK'
  <2>1. live' \in {live, TRUE, FALSE} /\ status' \in {status, "PENDING", "CANCELLED"}
    BY DEF Reserve, Lapse, Drop
  <2>2. live' \in BOOLEAN /\ status' \in {"NONE", "PENDING", "CONFIRMED", "CANCELLED"}
    BY <2>1 DEF RInv, TypeOK
  <2> QED
    BY <1>1, <2>2 DEF RInv, TypeOK
<1>4. /\ status' # "NONE" /\ (status' = "CONFIRMED" => status = "CONFIRMED")
      /\ status = "CANCELLED" => status' = "CANCELLED"
  BY DEF Reserve, Lapse, Drop
<1>5. Named' /\ StillSo'
  BY <1>1, <1>2, RequestsStay DEF RInv, Named
<1>6. Agreed'
  BY <1>1, <1>2, <1>4 DEF RInv, Agreed
<1>7. OneSession' /\ RefundIsReal' /\ MailOnlyIfKept'
  BY <1>1, <1>2, <1>4 DEF RInv, OneSession, RefundIsReal, MailOnlyIfKept
<1> QED
  BY <1>3, <1>5, <1>6, <1>7 DEF RInv

LEMMA GuestKeeps ==
  ASSUME RInv, NEW s \in Sessions, Guest(s)
  PROVE  RInv'
<1>1. PICK state \in SessionStates \ {"absent"}, e \in Events :
        /\ session[s] \in {"open", "processing"}
        /\ session' = [session EXCEPT ![s] = state]
        /\ owed' = owed \cup {<<s, e>>}
        /\ UNCHANGED <<booking, refund, request, failures>>
  BY DEF Guest, Becomes, SessionStates, Events
<1>2. UNCHANGED <<status, live, meta, row, email, refund, request, failures>>
  BY <1>1 DEF booking
<1>3. \A t \in Sessions : session'[t] = IF t = s THEN state ELSE session[t]
  BY <1>1 DEF RInv, TypeOK
<1>4. Grows /\ Opened' = Opened /\ Paid \subseteq Paid'
  BY <1>1, <1>2, <1>3 DEF Grows, Opened, Paid
<1>5. TypeOK'
  BY <1>1, <1>2 DEF RInv, TypeOK
<1>6. Named' /\ StillSo'
  <2>1. s \in Opened
    BY <1>1 DEF Opened
  <2>2. \A p \in owed' : p[1] \in Opened'
    BY <1>1, <1>4, <2>1 DEF RInv, Named
  <2> QED
    BY <1>2, <1>4, <2>2, RequestsStay DEF RInv, Named
<1>7. Agreed'
  BY <1>2, <1>4 DEF RInv, Agreed
<1>8. OneSession' /\ RefundIsReal' /\ MailOnlyIfKept'
  BY <1>2, <1>4 DEF RInv, OneSession, RefundIsReal, MailOnlyIfKept, Grows
<1> QED
  BY <1>5, <1>6, <1>7, <1>8 DEF RInv

LEMMA RefundEndKeeps ==
  ASSUME RInv, NEW s \in Sessions, RefundEnd(s)
  PROVE  RInv'
<1>1. PICK e \in {"succeeded", "failed"} : refund' = [refund EXCEPT ![s] = e]
  BY StripeAssumption DEF RefundEnd
<1>2. UNCHANGED <<status, live, meta, row, email, session, owed, request, failures>>
      /\ refund[s] = "pending"
  BY DEF RefundEnd, booking
<1>3. \A t \in Sessions : refund'[t] = IF t = s THEN e ELSE refund[t]
  BY <1>1 DEF RInv, TypeOK
<1>4. Grows /\ Opened' = Opened /\ Paid' = Paid
  BY <1>2, <1>3 DEF Grows, Opened, Paid
<1>5. TypeOK'
  BY <1>1, <1>2 DEF RInv, TypeOK
<1>6. Named' /\ StillSo'
  BY <1>2, <1>4, RequestsStay DEF RInv, Named
<1>7. Agreed' /\ OneSession' /\ MailOnlyIfKept'
  BY <1>2, <1>4 DEF RInv, Agreed, OneSession, MailOnlyIfKept
<1>8. RefundIsReal'
  BY <1>2, <1>3, <1>4 DEF RInv, RefundIsReal, Grows
<1> QED
  BY <1>5, <1>6, <1>7, <1>8 DEF RInv

-----------------------------------------------------------------------------
(* Steps of a request that change nothing but itself.                      *)

LEMMA MovesKeep ==
  ASSUME RInv, NEW q \in Requests, NEW x \in ReqKind,
         request' = [request EXCEPT ![q] = x],
         UNCHANGED <<booking, stripe, owed>>, failures' \in 0 .. MaxFailures,
         NamedAt(x), SoAt(x)
  PROVE  RInv'
<1>1. UNCHANGED <<status, live, meta, row, email, session, refund, owed>>
  BY DEF booking, stripe
<1>2. Grows /\ Opened' = Opened /\ Paid' = Paid
  BY <1>1 DEF Grows, Opened, Paid
<1>3. NamedAt(x)' /\ SoAt(x)'
  BY <1>1, <1>2 DEF NamedAt, SoAt
<1>4. /\ request' \in [Requests -> ReqKind] /\ StillSo'
      /\ \A p \in Requests : request'[p].pc \notin {"idle", "create"} =>
           request'[p].id \in Opened'
  BY <1>2, <1>3, RequestsKeep
<1>5. TypeOK' /\ Named'
  BY <1>1, <1>2, <1>4 DEF RInv, TypeOK, ReqKind, Named
<1>6. Agreed' /\ OneSession' /\ RefundIsReal' /\ MailOnlyIfKept'
  BY <1>1, <1>2 DEF RInv, Agreed, OneSession, RefundIsReal, MailOnlyIfKept
<1> QED
  BY <1>4, <1>5, <1>6 DEF RInv

LEMMA IdleIsFine ==
  ASSUME RInv
  PROVE  Idle \in ReqKind /\ NamedAt(Idle) /\ SoAt(Idle)
BY DEF Idle, ReqKind, NamedAt, SoAt, SessionStates

LEMMA AsksKeep ==
  ASSUME RInv, NEW q \in Requests,
         \/ \E s \in Sessions, e \in Events : Webhook(q, s, e)
         \/ \E o \in {"status", "cancel"} : Ask(q, o)
         \/ Look(q) \/ Retrieve(q) \/ Refuse(q) \/ Fail(q)
  PROVE  RInv'
<1>1. UNCHANGED <<booking, stripe, owed>>
  BY DEF Webhook, Ask, Look, Retrieve, Refuse, Fail
<1>2. failures' \in 0 .. MaxFailures
  <2>1. failures' = failures \/ (failures < MaxFailures /\ failures' = failures + 1)
    BY DEF Webhook, Ask, Look, Retrieve, Refuse, Fail
  <2> QED
    BY <2>1, StripeAssumption DEF RInv, TypeOK
<1>3. Opened \subseteq Sessions /\ \A s \in Opened : session[s] \in SessionStates
  BY DEF Opened, RInv, TypeOK
<1>4. ASSUME NEW s \in Sessions, NEW e \in Events, Webhook(q, s, e)
      PROVE  \E x \in ReqKind : /\ request' = [request EXCEPT ![q] = x]
                                /\ NamedAt(x) /\ SoAt(x)
  <2>1. s \in Opened
    BY <1>4 DEF Webhook, RInv, Named
  <2>2. PICK x : x = [pc |-> "retrieve", op |-> e, id |-> s, seen |-> "absent"]
    OBVIOUS
  <2>3. request' = [request EXCEPT ![q] = x]
    BY <1>4, <2>2 DEF Webhook
  <2>4. x \in ReqKind
    BY <2>2 DEF ReqKind, SessionStates
  <2>5. NamedAt(x) /\ SoAt(x)
    BY <2>1, <2>2 DEF NamedAt, SoAt
  <2> QED
    BY <2>3, <2>4, <2>5
<1>5. ASSUME NEW o \in {"status", "cancel"}, Ask(q, o)
      PROVE  \E x \in ReqKind : /\ request' = [request EXCEPT ![q] = x]
                                /\ NamedAt(x) /\ SoAt(x)
  <2>1. meta.session \in Opened
    BY <1>5 DEF Ask, RInv, Named
  <2>2. PICK x : x = [pc |-> IF o = "cancel" THEN "expire" ELSE "retrieve", op |-> o,
                      id |-> meta.session, seen |-> "absent"]
    OBVIOUS
  <2>3. request' = [request EXCEPT ![q] = x]
    BY <1>5, <2>2 DEF Ask
  <2>4. x \in ReqKind
    BY <1>3, <2>1, <2>2 DEF ReqKind, SessionStates
  <2>5. NamedAt(x) /\ SoAt(x)
    BY <2>1, <2>2 DEF NamedAt, SoAt
  <2> QED
    BY <2>3, <2>4, <2>5
<1>6. CASE Look(q) \/ Retrieve(q)
  <2>1. PICK pc \in {"attach", "settle"} :
          request' = [request EXCEPT ![q].pc = pc, ![q].seen = session[request[q].id]]
    BY <1>6 DEF Look, Retrieve
  <2>2. request[q].id \in Opened /\ request[q] \in ReqKind
    BY <1>6 DEF Look, Retrieve, At, RInv, Named, TypeOK, ReqKind
  <2>3. PICK x : x = [request[q] EXCEPT !.pc = pc, !.seen = session[request[q].id]]
    OBVIOUS
  <2>4. request' = [request EXCEPT ![q] = x]
    BY <2>1, <2>3
  <2>5. session[request[q].id] \in SessionStates
    BY <1>3, <2>2
  <2>6. /\ x \in ReqKind /\ x.pc = pc /\ x.id = request[q].id
        /\ x.seen = session[request[q].id]
    BY <2>2, <2>3, <2>5 DEF ReqKind
  <2>7. NamedAt(x) /\ SoAt(x)
    BY <2>2, <2>6 DEF NamedAt, SoAt
  <2> QED
    BY <1>1, <1>2, <2>4, <2>6, <2>7, MovesKeep
<1>7. CASE Refuse(q) \/ Fail(q)
  <2>1. request' = [request EXCEPT ![q] = Idle]
    BY <1>7 DEF Refuse, Fail, Done
  <2> QED
    BY <1>1, <1>2, <2>1, IdleIsFine, MovesKeep
<1> QED
  BY <1>1, <1>2, <1>4, <1>5, <1>6, <1>7, MovesKeep

-----------------------------------------------------------------------------
(* Steps of a request that change the booking or Stripe.                   *)

(* A request that goes on with the session it has.                         *)
LEMMA OnIsKind ==
  ASSUME RInv, NEW q \in Requests, NEW pc,
         pc \in {"idle", "create", "look", "attach", "expire", "retrieve", "settle",
                 "refund", "refunded", "email", "answer", "unavailable"}
  PROVE  LET x == [request[q] EXCEPT !.pc = pc]
         IN  /\ x \in ReqKind /\ x.pc = pc
             /\ x.id = request[q].id /\ x.seen = request[q].seen
<1>1. request[q] \in ReqKind
  BY DEF RInv, TypeOK, ReqKind
<1> QED
  BY <1>1 DEF ReqKind

LEMMA PrepareKeeps ==
  ASSUME RInv, NEW q \in Requests, Prepare(q)
  PROVE  RInv'
<1>1. /\ status = "PENDING" /\ meta' = [meta EXCEPT !.prepared = TRUE]
      /\ row' = IF meta.prepared THEN row ELSE "PENDING"
      /\ UNCHANGED <<status, live, email, session, refund, owed, failures>>
  BY DEF Prepare, stripe
<1>2. /\ meta'.session = meta.session /\ meta'.refundRequired = meta.refundRequired
      /\ meta'.refundStatus = meta.refundStatus
  BY <1>1 DEF RInv, TypeOK
<1>3. Grows /\ Opened' = Opened /\ Paid' = Paid
  BY <1>1, <1>2 DEF Grows, Opened, Paid
<1>4. PICK x : x = [pc |-> IF meta.session = None THEN "create" ELSE "look",
                    op |-> "resume", id |-> meta.session, seen |-> "absent"]
  OBVIOUS
<1>5. request' = [request EXCEPT ![q] = x]
  BY <1>4 DEF Prepare
<1>6. x \in ReqKind
  <2>1. meta.session \in Sessions \cup {None}
    BY DEF RInv, TypeOK
  <2> QED
    BY <1>4, <2>1 DEF ReqKind, SessionStates
<1>7. NamedAt(x)' /\ SoAt(x)'
  <2>1. x.pc \notin {"idle", "create"} => x.id \in Opened
    BY <1>4 DEF RInv, Named
  <2>2. x.pc \in {"create", "look"}
    BY <1>4
  <2> QED
    BY <1>3, <2>1, <2>2 DEF NamedAt, SoAt
<1>8. TypeOK'
  <2>1. request' \in [Requests -> ReqKind]
    BY <1>3, <1>5, <1>6, <1>7, RequestsKeep
  <2>2. meta' \in [prepared : BOOLEAN, session : Sessions \cup {None},
                 refundRequired : BOOLEAN,
                 refundStatus : {"none", "PENDING", "REFUNDED"}]
    BY <1>1 DEF RInv, TypeOK
  <2>3. row' \in {"none", "PENDING", "COMPLETED", "FAILED", "REFUNDED"}
    BY <1>1 DEF RInv, TypeOK
  <2> QED
    BY <1>1, <2>1, <2>2, <2>3 DEF RInv, TypeOK, ReqKind
<1>9. Named' /\ StillSo'
  <2>1. /\ StillSo'
        /\ \A p \in Requests : request'[p].pc \notin {"idle", "create"} =>
             request'[p].id \in Opened'
    BY <1>3, <1>5, <1>6, <1>7, RequestsKeep
  <2>2. owed' = owed
    BY DEF Prepare
  <2> QED
    BY <1>2, <1>3, <2>1, <2>2 DEF RInv, Named
<1>10. meta'.prepared /\ (row' = row \/ (row = "none" /\ row' = "PENDING"))
  BY <1>1 DEF RInv, TypeOK, Agreed
<1>11. Agreed'
  BY <1>1, <1>2, <1>3, <1>10 DEF RInv, Agreed
<1>12. OneSession' /\ RefundIsReal' /\ MailOnlyIfKept'
  BY <1>1, <1>2, <1>3, <1>10 DEF RInv, OneSession, RefundIsReal, MailOnlyIfKept
<1> QED
  BY <1>8, <1>9, <1>11, <1>12 DEF RInv

LEMMA CreateKeeps ==
  ASSUME RInv, NEW q \in Requests, NEW s \in Sessions, Create(q, s)
  PROVE  RInv'
<1>1. /\ Created(s)
      /\ session' = IF s \in Opened THEN session ELSE [session EXCEPT ![s] = "open"]
      /\ request' = [request EXCEPT ![q].pc = "attach", ![q].id = s, ![q].seen = "open"]
      /\ UNCHANGED <<status, live, meta, row, email, refund, owed, failures>>
  BY DEF Create, booking
<1>2. session \in [Sessions -> SessionStates]
  BY DEF RInv, TypeOK
<1>3. \A t \in Sessions :
        session'[t] = IF t = s /\ s \notin Opened THEN "open" ELSE session[t]
  BY <1>1, <1>2
<1>4. /\ s \notin Opened => session[s] = "absent"
      /\ Opened' = Opened \cup {s} /\ Paid' = Paid
  BY <1>3 DEF Opened, Paid
<1>5. Grows
  BY <1>1, <1>3, <1>4 DEF Grows
<1>6. PICK x : x = [request[q] EXCEPT !.pc = "attach", !.id = s, !.seen = "open"]
  OBVIOUS
<1>7. request' = [request EXCEPT ![q] = x]
  BY <1>1, <1>6
<1>8. x \in ReqKind /\ x.pc = "attach" /\ x.id = s
  <2>1. request[q] \in ReqKind
    BY DEF RInv, TypeOK, ReqKind
  <2> QED
    BY <1>6, <2>1 DEF ReqKind, SessionStates
<1>9. NamedAt(x)' /\ SoAt(x)'
  BY <1>4, <1>8 DEF NamedAt, SoAt
<1>10. /\ request' \in [Requests -> ReqKind] /\ StillSo'
       /\ \A p \in Requests : request'[p].pc \notin {"idle", "create"} =>
            request'[p].id \in Opened'
  BY <1>5, <1>7, <1>8, <1>9, RequestsKeep
<1>11. TypeOK'
  <2>1. session' \in [Sessions -> SessionStates]
    BY <1>1, <1>2 DEF SessionStates
  <2> QED
    BY <1>1, <1>10, <2>1 DEF RInv, TypeOK, ReqKind
<1>12. Named'
  BY <1>1, <1>4, <1>10 DEF RInv, Named
<1>13. OneSession'
  BY <1>1, <1>4 DEF RInv, OneSession, Created
<1>14. Agreed' /\ MailOnlyIfKept'
  BY <1>1, <1>4 DEF RInv, Agreed, MailOnlyIfKept
<1>15. RefundIsReal'
  BY <1>1, <1>5 DEF RInv, RefundIsReal, Grows
<1> QED
  BY <1>10, <1>11, <1>12, <1>13, <1>14, <1>15 DEF RInv

LEMMA AttachKeeps ==
  ASSUME RInv, NEW q \in Requests, Attach(q)
  PROVE  RInv'
<1>1. /\ At(q, "attach")
      /\ meta' = [meta EXCEPT !.session = request[q].id]
      /\ UNCHANGED <<status, live, row, email, session, refund, owed, failures>>
  BY DEF Attach, stripe
<1>2. request[q].id \in Opened /\ Opened \subseteq Sessions
  BY <1>1 DEF RInv, Named, At, Opened
<1>3. /\ meta'.session = request[q].id /\ meta'.refundRequired = meta.refundRequired
      /\ meta'.refundStatus = meta.refundStatus /\ meta'.prepared = meta.prepared
  BY <1>1 DEF RInv, TypeOK
<1>4. Grows /\ Opened' = Opened /\ Paid' = Paid
  BY <1>1, <1>3 DEF Grows, Opened, Paid
<1>5. PICK x \in ReqKind : /\ request' = [request EXCEPT ![q] = x]
                           /\ NamedAt(x)' /\ SoAt(x)'
  <2>1. CASE request' = [request EXCEPT ![q] = Idle]
    BY <2>1, <1>4, IdleIsFine DEF NamedAt, SoAt, Idle
  <2>2. CASE request' = [request EXCEPT ![q].pc = "retrieve"]
    <3>1. PICK x : x = [request[q] EXCEPT !.pc = "retrieve"]
      OBVIOUS
    <3>2. request' = [request EXCEPT ![q] = x]
      BY <2>2, <3>1
    <3>3. x \in ReqKind /\ x.pc = "retrieve" /\ x.id = request[q].id
      BY <3>1, OnIsKind
    <3>4. NamedAt(x)' /\ SoAt(x)'
      BY <1>2, <1>4, <3>3 DEF NamedAt, SoAt
    <3> QED
      BY <3>2, <3>3, <3>4
  <2> QED
    BY <2>1, <2>2 DEF Attach, Done, Goto
<1>6. /\ request' \in [Requests -> ReqKind] /\ StillSo'
      /\ \A p \in Requests : request'[p].pc \notin {"idle", "create"} =>
           request'[p].id \in Opened'
  BY <1>4, <1>5, RequestsKeep
<1>7. TypeOK'
  <2>1. meta' \in [prepared : BOOLEAN, session : Sessions \cup {None},
                 refundRequired : BOOLEAN,
                 refundStatus : {"none", "PENDING", "REFUNDED"}]
    BY <1>1, <1>2 DEF RInv, TypeOK
  <2> QED
    BY <1>1, <1>6, <2>1 DEF RInv, TypeOK, ReqKind
<1>8. Named'
  BY <1>1, <1>2, <1>3, <1>4, <1>6 DEF RInv, Named
<1>9. Agreed' /\ OneSession' /\ RefundIsReal' /\ MailOnlyIfKept'
  BY <1>1, <1>3, <1>4 DEF RInv, Agreed, OneSession, RefundIsReal, MailOnlyIfKept
<1> QED
  BY <1>6, <1>7, <1>8, <1>9 DEF RInv

LEMMA ExpireKeeps ==
  ASSUME RInv, NEW q \in Requests, Expire(q)
  PROVE  RInv'
<1>1. /\ At(q, "expire")
      /\ request' = [request EXCEPT ![q].pc = "retrieve"]
      /\ UNCHANGED <<status, live, meta, row, email, refund, failures>>
  BY DEF Expire, booking, Goto
<1>2. PICK s \in Sessions : s = request[q].id /\ s \in Opened
  BY <1>1 DEF RInv, Named, At, Opened
<1>3. /\ session \in [Sessions -> SessionStates] /\ owed \subseteq Sessions \X Events
  BY DEF RInv, TypeOK
<1>4. \/ /\ session[s] = "open" /\ session' = [session EXCEPT ![s] = "expired"]
         /\ owed' = owed \cup {<<s, "expired">>}
      \/ session' = session /\ owed' = owed
  BY <1>2 DEF Expire
<1>5. /\ session' \in [Sessions -> SessionStates]
      /\ owed' \subseteq Sessions \X Events
      /\ \A p \in owed' : p \in owed \/ p[1] = s
  BY <1>3, <1>4 DEF SessionStates, Events
<1>6. \A t \in Sessions :
        session'[t] = session[t]
        \/ (session[t] = "open" /\ session'[t] = "expired")
  BY <1>3, <1>4
<1>7. Grows /\ Opened' = Opened /\ Paid' = Paid
  BY <1>1, <1>6 DEF Grows, Opened, Paid
<1>8. PICK x : x = [request[q] EXCEPT !.pc = "retrieve"]
  OBVIOUS
<1>9. request' = [request EXCEPT ![q] = x]
  BY <1>1, <1>8
<1>10. x \in ReqKind /\ x.pc = "retrieve" /\ x.id = s
  BY <1>2, <1>8, OnIsKind
<1>11. NamedAt(x)' /\ SoAt(x)'
  BY <1>2, <1>7, <1>10 DEF NamedAt, SoAt
<1>12. /\ request' \in [Requests -> ReqKind] /\ StillSo'
       /\ \A p \in Requests : request'[p].pc \notin {"idle", "create"} =>
            request'[p].id \in Opened'
  BY <1>7, <1>9, <1>10, <1>11, RequestsKeep
<1>13. TypeOK'
  BY <1>1, <1>5, <1>12 DEF RInv, TypeOK, ReqKind
<1>14. Named'
  BY <1>1, <1>2, <1>5, <1>7, <1>12 DEF RInv, Named
<1>15. Agreed' /\ OneSession' /\ MailOnlyIfKept'
  BY <1>1, <1>7 DEF RInv, Agreed, OneSession, MailOnlyIfKept
<1>16. RefundIsReal'
  BY <1>1, <1>7 DEF RInv, RefundIsReal, Grows
<1> QED
  BY <1>12, <1>13, <1>14, <1>15, <1>16 DEF RInv

LEMMA GiveBackKeeps ==
  ASSUME RInv, NEW q \in Requests, GiveBack(q)
  PROVE  RInv'
<1>1. At(q, "refund") /\ UNCHANGED <<status, live, meta, row, email, session, owed, failures>>
  BY DEF GiveBack, booking
<1>2. PICK s \in Sessions : s = request[q].id /\ session[s] = "paid" /\ s \in Opened
  BY <1>1 DEF RInv, Named, StillSo, At, Opened
<1>3. meta.refundStatus # "none" /\ status = "CANCELLED"
  BY <1>1 DEF RInv, StillSo, At, Agreed
<1>4. PICK now \in {"pending", "succeeded", "failed"} :
        refund' = [refund EXCEPT ![s] = IF @ = "none" THEN now ELSE @]
  BY <1>2, StripeAssumption DEF GiveBack
<1>5. refund \in [Sessions -> {"none", "pending", "succeeded", "failed"}]
  BY DEF RInv, TypeOK
<1>6. /\ refund' \in [Sessions -> {"none", "pending", "succeeded", "failed"}]
      /\ \A t \in Sessions : refund'[t] = refund[t] \/ (t = s /\ refund[t] = "none")
  BY <1>4, <1>5
<1>7. Grows /\ Opened' = Opened /\ Paid' = Paid
  BY <1>1, <1>6 DEF Grows, Opened, Paid
<1>8. PICK x : x = [request[q] EXCEPT !.pc = "refunded", !.seen = refund'[s]]
  OBVIOUS
<1>9. request' = [request EXCEPT ![q] = x]
  <2>1. request' = [request EXCEPT ![q].pc = "refunded", ![q].seen = refund'[s]]
    BY <1>2 DEF GiveBack, Seen
  <2> QED
    BY <1>8, <2>1
<1>10. /\ x \in ReqKind /\ x.pc = "refunded" /\ x.id = s /\ x.seen = refund'[s]
  <2>1. request[q] \in ReqKind
    BY DEF RInv, TypeOK, ReqKind
  <2>2. refund'[s] \in {"none", "pending", "succeeded", "failed"}
    BY <1>6
  <2> QED
    BY <1>2, <1>8, <2>1, <2>2 DEF ReqKind
<1>11. NamedAt(x)' /\ SoAt(x)'
  BY <1>2, <1>7, <1>10 DEF NamedAt, SoAt
<1>12. /\ request' \in [Requests -> ReqKind] /\ StillSo'
       /\ \A p \in Requests : request'[p].pc \notin {"idle", "create"} =>
            request'[p].id \in Opened'
  BY <1>7, <1>9, <1>10, <1>11, RequestsKeep
<1>13. TypeOK'
  BY <1>1, <1>6, <1>12 DEF RInv, TypeOK, ReqKind
<1>14. Named'
  BY <1>1, <1>7, <1>12 DEF RInv, Named
<1>15. Agreed' /\ OneSession' /\ MailOnlyIfKept'
  BY <1>1, <1>7 DEF RInv, Agreed, OneSession, MailOnlyIfKept
<1>16. RefundIsReal'
  BY <1>1, <1>2, <1>3, <1>6, <1>7 DEF RInv, RefundIsReal, Grows
<1> QED
  BY <1>12, <1>13, <1>14, <1>15, <1>16 DEF RInv

LEMMA SendAnswerKeep ==
  ASSUME RInv, NEW q \in Requests, Send(q) \/ Answer(q)
  PROVE  RInv'
<1>1. UNCHANGED <<status, live, meta, row, session, refund, failures>>
  BY DEF Send, Answer, stripe, booking
<1>2. /\ owed' \subseteq owed
      /\ \/ email' = email
         \/ Claimable /\ email' \in {"SENDING", "ACCEPTED", "FAILED", "UNKNOWN"}
  BY DEF Send, Answer, booking
<1>3. Grows /\ Opened' = Opened /\ Paid' = Paid
  BY <1>1 DEF Grows, Opened, Paid
<1>4. PICK x \in ReqKind : /\ request' = [request EXCEPT ![q] = x]
                           /\ NamedAt(x)' /\ SoAt(x)'
  <2>1. CASE Answer(q)
    <3>1. request' = [request EXCEPT ![q] = Idle]
      BY <2>1 DEF Answer, Done
    <3> QED
      BY <1>3, <3>1, IdleIsFine DEF NamedAt, SoAt, Idle
  <2>2. CASE Send(q)
    <3>1. request' = [request EXCEPT ![q].pc = "answer"] /\ request[q].id \in Opened
      BY <2>2 DEF Send, Goto, At, RInv, Named
    <3>2. PICK x : x = [request[q] EXCEPT !.pc = "answer"]
      OBVIOUS
    <3>3. request' = [request EXCEPT ![q] = x]
      BY <3>1, <3>2
    <3>4. x \in ReqKind /\ x.pc = "answer" /\ x.id = request[q].id
      BY <3>2, OnIsKind
    <3>5. NamedAt(x)' /\ SoAt(x)'
      BY <1>3, <3>1, <3>4 DEF NamedAt, SoAt
    <3> QED
      BY <3>3, <3>4, <3>5
  <2> QED
    BY <2>1, <2>2
<1>5. /\ request' \in [Requests -> ReqKind] /\ StillSo'
      /\ \A p \in Requests : request'[p].pc \notin {"idle", "create"} =>
           request'[p].id \in Opened'
  BY <1>3, <1>4, RequestsKeep
<1>6. TypeOK'
  BY <1>1, <1>2, <1>5 DEF RInv, TypeOK, ReqKind
<1>7. Named'
  BY <1>1, <1>2, <1>3, <1>5 DEF RInv, Named
<1>8. Agreed' /\ OneSession' /\ RefundIsReal'
  BY <1>1, <1>3 DEF RInv, Agreed, OneSession, RefundIsReal
<1>9. MailOnlyIfKept'
  BY <1>1, <1>2 DEF RInv, MailOnlyIfKept, Claimable
<1> QED
  BY <1>5, <1>6, <1>7, <1>8, <1>9 DEF RInv

(* A settling transaction, by what it does to the payment.                 *)
LEMMA SettleMoves ==
  ASSUME RInv, NEW q \in Requests, Settle(q)
  PROVE  /\ meta.prepared /\ meta'.prepared
         /\ meta'.session \in {meta.session, request[q].id}
         /\ \/ /\ UNCHANGED <<status, row>>
               /\ meta'.refundRequired = meta.refundRequired
               /\ meta'.refundStatus = meta.refundStatus
            \/ /\ row \notin {"COMPLETED", "REFUNDED"} /\ row' = "COMPLETED"
               /\ session[request[q].id] = "paid"
               /\ status = "PENDING" /\ live /\ status' = "CONFIRMED"
               /\ meta'.refundRequired = FALSE /\ meta'.refundStatus = "none"
            \/ /\ row \notin {"COMPLETED", "REFUNDED"} /\ row' = "COMPLETED"
               /\ session[request[q].id] = "paid"
               /\ status \in {"PENDING", "CANCELLED"} /\ status' = "CANCELLED"
               /\ meta'.refundRequired = TRUE /\ meta'.refundStatus = "PENDING"
            \/ /\ row \notin {"COMPLETED", "REFUNDED"} /\ row' = "FAILED"
               /\ status \in {"PENDING", "CANCELLED"} /\ status' = "CANCELLED"
               /\ meta'.refundRequired = meta.refundRequired
               /\ meta'.refundStatus = meta.refundStatus
         /\ meta' \in [prepared : BOOLEAN, session : Sessions \cup {None},
                       refundRequired : BOOLEAN,
                       refundStatus : {"none", "PENDING", "REFUNDED"}]
         /\ \/ request' = [request EXCEPT ![q].pc = "email"]
            \/ /\ request' = [request EXCEPT ![q].pc = "refund"]
               /\ session[request[q].id] = "paid" /\ meta'.refundRequired
<1>1. /\ At(q, "settle") /\ meta.prepared /\ Agreed /\ TypeOK
      /\ meta \in [prepared : BOOLEAN, session : Sessions \cup {None},
                   refundRequired : BOOLEAN,
                   refundStatus : {"none", "PENDING", "REFUNDED"}]
  BY DEF Settle, RInv, TypeOK
<1>2. request[q].id \in Sessions
  BY <1>1 DEF RInv, Named, At, Opened
<1>3. request[q].seen = "paid" => session[request[q].id] = "paid"
  BY <1>1 DEF RInv, StillSo
<1>4. row \notin {"COMPLETED", "REFUNDED"} =>
        /\ status \in {"PENDING", "CANCELLED"}
        /\ meta.refundRequired = FALSE /\ meta.refundStatus = "none"
  BY <1>1 DEF Agreed, TypeOK
<1>5. CASE SettleNothing(q)
  <2>1. UNCHANGED <<status, meta, row>> /\ request' = [request EXCEPT ![q].pc = "email"]
    BY <1>5 DEF SettleNothing, Goto
  <2> QED
    BY <1>1, <2>1
<1>6. CASE SettleUnpaid(q) /\ ~Final
  <2>1. /\ row \notin {"COMPLETED", "REFUNDED"} /\ row' = "FAILED"
        /\ status' = IF status = "PENDING" THEN "CANCELLED" ELSE status
        /\ meta' = [meta EXCEPT !.session = request[q].id]
        /\ request' = [request EXCEPT ![q].pc = "email"]
    BY <1>6 DEF SettleUnpaid, Goto, Final
  <2>2. status' = "CANCELLED"
    BY <1>4, <2>1
  <2>3. /\ meta'.prepared /\ meta'.session = request[q].id
        /\ meta'.refundRequired = meta.refundRequired
        /\ meta'.refundStatus = meta.refundStatus
        /\ meta' \in [prepared : BOOLEAN, session : Sessions \cup {None},
                      refundRequired : BOOLEAN,
                      refundStatus : {"none", "PENDING", "REFUNDED"}]
    BY <1>1, <1>2, <2>1
  <2> QED
    BY <1>1, <1>4, <2>1, <2>2, <2>3
<1>7. CASE SettlePaid(q) /\ ~Final
  <2>1. session[request[q].id] = "paid" /\ row # "REFUNDED"
    BY <1>3, <1>7 DEF SettlePaid, Final
  <2>2. CASE row = "COMPLETED"
    <3>1. /\ row' = row /\ status' = status
          /\ meta' = [meta EXCEPT !.session = request[q].id,
                                  !.refundRequired = FALSE \/ @, !.refundStatus = @]
          /\ request' = [request EXCEPT ![q].pc =
                           IF meta'.refundRequired THEN "refund" ELSE "email"]
      BY <1>7, <2>2 DEF SettlePaid, Goto
    <3>2. /\ meta'.prepared /\ meta'.session = request[q].id
          /\ meta'.refundRequired = meta.refundRequired
          /\ meta'.refundStatus = meta.refundStatus
          /\ meta' \in [prepared : BOOLEAN, session : Sessions \cup {None},
                        refundRequired : BOOLEAN,
                        refundStatus : {"none", "PENDING", "REFUNDED"}]
      BY <1>1, <1>2, <3>1
    <3> QED
      BY <1>1, <2>1, <3>1, <3>2
  <2>3. CASE row # "COMPLETED"
    <3>1. PICK late \in BOOLEAN : late <=> TooLate
      OBVIOUS
    <3>2. /\ row' = "COMPLETED"
          /\ status' = IF Confirms THEN "CONFIRMED"
                       ELSE IF status = "PENDING" THEN "CANCELLED" ELSE status
          /\ meta' = [meta EXCEPT !.session = request[q].id,
                                  !.refundRequired = late \/ @,
                                  !.refundStatus = IF late THEN "PENDING" ELSE @]
          /\ request' = [request EXCEPT ![q].pc =
                           IF meta'.refundRequired THEN "refund" ELSE "email"]
      BY <1>7, <2>3, <3>1 DEF SettlePaid, Goto
    <3>3. /\ meta'.prepared /\ meta'.session = request[q].id
          /\ meta'.refundRequired = late
          /\ meta'.refundStatus = IF late THEN "PENDING" ELSE "none"
          /\ meta' \in [prepared : BOOLEAN, session : Sessions \cup {None},
                        refundRequired : BOOLEAN,
                        refundStatus : {"none", "PENDING", "REFUNDED"}]
      BY <1>1, <1>2, <1>4, <2>1, <2>3, <3>2
    <3>4. CASE late
      <4>1. status' = "CANCELLED"
        BY <1>4, <2>1, <2>3, <3>1, <3>2, <3>4 DEF TooLate
      <4> QED
        BY <1>1, <1>4, <2>1, <2>3, <3>2, <3>3, <3>4, <4>1
    <3>5. CASE ~late
      BY <1>1, <2>1, <2>3, <3>1, <3>2, <3>3, <3>5 DEF TooLate, Confirms
    <3> QED
      BY <3>4, <3>5
  <2> QED
    BY <2>2, <2>3
<1> QED
  BY <1>5, <1>6, <1>7 DEF Settle

LEMMA SettleKeeps ==
  ASSUME RInv, NEW q \in Requests, Settle(q)
  PROVE  RInv'
<1>1. At(q, "settle") /\ UNCHANGED <<live, email, session, refund, owed, failures>>
  BY DEF Settle, stripe
<1>2. request[q].id \in Opened
  BY <1>1 DEF RInv, Named, At
<1> DEFINE Nothing ==
             /\ UNCHANGED <<status, row>>
             /\ meta'.refundRequired = meta.refundRequired
             /\ meta'.refundStatus = meta.refundStatus
           First ==
             /\ row \notin {"COMPLETED", "REFUNDED"}
             /\ status \in {"PENDING", "CANCELLED"}
             /\ \/ /\ row' = "COMPLETED" /\ session[request[q].id] = "paid"
                   /\ \/ /\ status' = "CONFIRMED"
                         /\ meta'.refundRequired = FALSE /\ meta'.refundStatus = "none"
                         /\ status = "PENDING"
                      \/ /\ status' = "CANCELLED"
                         /\ meta'.refundRequired = TRUE /\ meta'.refundStatus = "PENDING"
                \/ /\ row' = "FAILED" /\ status' = "CANCELLED"
                   /\ meta'.refundRequired = meta.refundRequired
                   /\ meta'.refundStatus = meta.refundStatus
<1>3. Nothing \/ First
  BY SettleMoves
<1>4. /\ meta.prepared /\ meta'.prepared
      /\ meta'.session \in {meta.session, request[q].id}
      /\ meta' \in [prepared : BOOLEAN, session : Sessions \cup {None},
                    refundRequired : BOOLEAN,
                    refundStatus : {"none", "PENDING", "REFUNDED"}]
      /\ \/ request' = [request EXCEPT ![q].pc = "email"]
         \/ /\ request' = [request EXCEPT ![q].pc = "refund"]
            /\ session[request[q].id] = "paid" /\ meta'.refundRequired
  BY SettleMoves
<1>5. TypeOK /\ Agreed /\ RefundIsReal /\ MailOnlyIfKept
  BY DEF RInv
<1>6. First => meta.refundRequired = FALSE /\ meta.refundStatus = "none"
  BY <1>5 DEF Agreed, TypeOK
<1>7. Grows /\ Opened' = Opened /\ Paid' = Paid
  <2>1. meta.refundStatus # "none" => meta'.refundStatus # "none"
    BY <1>3, <1>6
  <2> QED
    BY <1>1, <2>1 DEF Grows, Opened, Paid
<1>8. Agreed'
  <2>1. CASE Nothing
    BY <1>1, <1>4, <1>5, <1>7, <2>1 DEF Agreed
  <2>2. CASE First
    <3>1. session[request[q].id] = "paid" => Paid # {}
      BY <1>2 DEF Opened, Paid
    <3> QED
      BY <1>1, <1>4, <1>5, <1>6, <1>7, <2>2, <3>1 DEF Agreed
  <2> QED
    BY <1>3, <2>1, <2>2
<1>9. PICK x \in ReqKind : /\ request' = [request EXCEPT ![q] = x]
                           /\ NamedAt(x)' /\ SoAt(x)'
  <2>1. PICK pc \in {"email", "refund"} :
          /\ request' = [request EXCEPT ![q].pc = pc]
          /\ pc = "refund" => session[request[q].id] = "paid" /\ meta'.refundRequired
    BY <1>4
  <2>2. PICK x : x = [request[q] EXCEPT !.pc = pc]
    OBVIOUS
  <2>3. request' = [request EXCEPT ![q] = x]
    BY <2>1, <2>2
  <2>4. x \in ReqKind /\ x.pc = pc /\ x.id = request[q].id
    BY <2>2, OnIsKind
  <2>5. meta'.refundRequired => meta'.refundStatus # "none"
    BY <1>8 DEF Agreed
  <2>6. NamedAt(x)' /\ SoAt(x)'
    BY <1>1, <1>2, <1>7, <2>1, <2>4, <2>5 DEF NamedAt, SoAt
  <2> QED
    BY <2>3, <2>4, <2>6
<1>10. /\ request' \in [Requests -> ReqKind] /\ StillSo'
       /\ \A p \in Requests : request'[p].pc \notin {"idle", "create"} =>
            request'[p].id \in Opened'
  BY <1>7, <1>9, RequestsKeep
<1>11. TypeOK'
  <2>1. /\ status' \in {"NONE", "PENDING", "CONFIRMED", "CANCELLED"}
        /\ row' \in {"none", "PENDING", "COMPLETED", "FAILED", "REFUNDED"}
    BY <1>3, <1>5 DEF TypeOK
  <2> HIDE DEF Nothing, First
  <2> QED
    BY <1>1, <1>4, <1>5, <1>10, <2>1 DEF TypeOK, ReqKind
<1>12. Named'
  <2>1. meta.session # None => meta.session \in Opened
    BY DEF RInv, Named
  <2>2. \A p \in owed : p[1] \in Opened
    BY DEF RInv, Named
  <2> HIDE DEF Nothing, First
  <2> QED
    BY <1>1, <1>2, <1>4, <1>7, <1>10, <2>1, <2>2 DEF Named
<1>13. RefundIsReal' /\ MailOnlyIfKept'
  <2>1. CASE Nothing
    BY <1>1, <1>5, <2>1 DEF RefundIsReal, MailOnlyIfKept
  <2>2. CASE First
    BY <1>1, <1>5, <1>6, <2>2 DEF RefundIsReal, MailOnlyIfKept
  <2> QED
    BY <1>3, <2>1, <2>2
<1>14. OneSession'
  BY <1>7 DEF RInv, OneSession
<1> QED
  BY <1>8, <1>10, <1>11, <1>12, <1>13, <1>14 DEF RInv

LEMMA RecordRefundKeeps ==
  ASSUME RInv, NEW q \in Requests, RecordRefund(q)
  PROVE  RInv'
<1>1. /\ At(q, "refunded") /\ (meta.refundRequired \/ RefundKnown)
      /\ UNCHANGED <<status, live, email, session, refund, owed, failures>>
  BY DEF RecordRefund, stripe
<1>2. request[q].id \in Opened /\ request[q].id \in Sessions
  BY <1>1 DEF RInv, Named, At, Opened
<1>3. TypeOK /\ Agreed /\ RefundIsReal /\ MailOnlyIfKept
  BY DEF RInv
<1> DEFINE Same == UNCHANGED <<row, meta>>
           Told ==
             /\ meta.refundRequired /\ row = "COMPLETED" /\ status = "CANCELLED"
             /\ \/ /\ refund[request[q].id] = "succeeded" /\ row' = "REFUNDED"
                   /\ meta'.refundRequired = FALSE /\ meta'.refundStatus = "REFUNDED"
                \/ /\ row' = row
                   /\ meta'.refundRequired = TRUE /\ meta'.refundStatus = "PENDING"
             /\ meta'.prepared = meta.prepared /\ meta'.session = meta.session
             /\ meta' \in [prepared : BOOLEAN, session : Sessions \cup {None},
                           refundRequired : BOOLEAN,
                           refundStatus : {"none", "PENDING", "REFUNDED"}]
<1>4. Same \/ Told
  <2>1. CASE RefundKnown
    BY <2>1 DEF RecordRefund
  <2>2. CASE ~RefundKnown
    <3>1. meta.refundRequired /\ row = "COMPLETED" /\ status = "CANCELLED"
      BY <1>1, <1>3, <2>2 DEF Agreed
    <3>2. PICK done \in BOOLEAN : done <=> Succeeded(q)
      OBVIOUS
    <3>3. /\ row' = IF done THEN "REFUNDED" ELSE row
          /\ meta' = [meta EXCEPT !.refundRequired = ~done,
                        !.refundStatus = IF done THEN "REFUNDED" ELSE "PENDING"]
      BY <2>2, <3>2 DEF RecordRefund
    <3>4. /\ meta'.refundRequired = ~done
          /\ meta'.refundStatus = IF done THEN "REFUNDED" ELSE "PENDING"
          /\ meta'.prepared = meta.prepared /\ meta'.session = meta.session
          /\ meta' \in [prepared : BOOLEAN, session : Sessions \cup {None},
                        refundRequired : BOOLEAN,
                        refundStatus : {"none", "PENDING", "REFUNDED"}]
      BY <1>3, <3>3 DEF TypeOK
    <3>5. done => refund[request[q].id] = "succeeded"
      BY <1>1, <3>2 DEF Succeeded, RInv, StillSo
    <3> QED
      BY <3>1, <3>3, <3>4, <3>5
  <2> QED
    BY <2>1, <2>2
<1>5. Grows /\ Opened' = Opened /\ Paid' = Paid
  <2>1. meta.refundStatus # "none" => meta'.refundStatus # "none"
    BY <1>4
  <2> QED
    BY <1>1, <2>1 DEF Grows, Opened, Paid
<1>6. PICK x \in ReqKind : /\ request' = [request EXCEPT ![q] = x]
                           /\ NamedAt(x)' /\ SoAt(x)'
  <2>1. PICK pc \in {"email", "unavailable"} : request' = [request EXCEPT ![q].pc = pc]
    BY DEF RecordRefund, Goto
  <2>2. PICK x : x = [request[q] EXCEPT !.pc = pc]
    OBVIOUS
  <2>3. request' = [request EXCEPT ![q] = x]
    BY <2>1, <2>2
  <2>4. x \in ReqKind /\ x.pc = pc /\ x.id = request[q].id
    BY <2>2, OnIsKind
  <2>5. NamedAt(x)' /\ SoAt(x)'
    BY <1>2, <1>5, <2>4 DEF NamedAt, SoAt
  <2> QED
    BY <2>3, <2>4, <2>5
<1>7. /\ request' \in [Requests -> ReqKind] /\ StillSo'
      /\ \A p \in Requests : request'[p].pc \notin {"idle", "create"} =>
           request'[p].id \in Opened'
  BY <1>5, <1>6, RequestsKeep
<1>8. TypeOK'
  <2>1. /\ row' \in {"none", "PENDING", "COMPLETED", "FAILED", "REFUNDED"}
        /\ meta' \in [prepared : BOOLEAN, session : Sessions \cup {None},
                      refundRequired : BOOLEAN,
                      refundStatus : {"none", "PENDING", "REFUNDED"}]
    BY <1>3, <1>4 DEF TypeOK
  <2> HIDE DEF Same, Told
  <2> QED
    BY <1>1, <1>3, <1>7, <2>1 DEF TypeOK, ReqKind
<1>9. Named'
  <2>1. meta'.session = meta.session
    BY <1>4
  <2>2. /\ meta.session # None => meta.session \in Opened
        /\ \A p \in owed : p[1] \in Opened
    BY DEF RInv, Named
  <2> HIDE DEF Same, Told
  <2> QED
    BY <1>1, <1>5, <1>7, <2>1, <2>2 DEF Named
<1>10. Agreed' /\ RefundIsReal' /\ MailOnlyIfKept'
  <2>1. CASE Same
    BY <1>1, <1>3, <1>5, <2>1 DEF Agreed, RefundIsReal, MailOnlyIfKept
  <2>2. CASE Told
    <3>1. Agreed'
      BY <1>1, <1>3, <1>5, <2>2 DEF Agreed
    <3>2. MailOnlyIfKept'
      BY <1>1, <1>3, <2>2 DEF MailOnlyIfKept
    <3>3. RefundIsReal'
      BY <1>1, <1>2, <1>3, <2>2 DEF RefundIsReal
    <3> QED
      BY <3>1, <3>2, <3>3
  <2> QED
    BY <1>4, <2>1, <2>2
<1>11. OneSession'
  BY <1>5 DEF RInv, OneSession
<1> QED
  BY <1>7, <1>8, <1>9, <1>10, <1>11 DEF RInv

LEMMA NextRInv == RInv /\ [Next]_vars => RInv'
<1> SUFFICES ASSUME RInv, [Next]_vars PROVE RInv'
  OBVIOUS
<1>1. CASE UNCHANGED vars
  BY <1>1 DEF vars, booking, stripe, RInv, TypeOK, Named, StillSo, Agreed, OneSession,
     RefundIsReal, MailOnlyIfKept, Opened, Paid, At
<1>2. CASE Next
  BY <1>2, OutsideKeeps, GuestKeeps, RefundEndKeeps, AsksKeep, PrepareKeeps, CreateKeeps,
     AttachKeeps, ExpireKeeps, SettleKeeps, GiveBackKeeps, RecordRefundKeeps, SendAnswerKeep
     DEF Next, Serve, Hook
<1> QED
  BY <1>1, <1>2

LEMMA SpecRInv == Spec => []RInv
<1>1. Init => RInv
  BY InitRInv
<1>2. RInv /\ [Next]_vars => RInv'
  BY NextRInv
<1> QED
  BY <1>1, <1>2, PTL DEF Spec

-----------------------------------------------------------------------------
(* What follows.                                                           *)

(* The booking, the payment, Stripe's objects and the requests are always  *)
(* of their kinds.                                                         *)
THEOREM StripeTypes == Spec => []TypeOK
<1>1. RInv => TypeOK
  BY DEF RInv
<1> QED
  BY <1>1, SpecRInv, PTL

(* One Checkout Session per stay, however often its start or resume is     *)
(* repeated, overlaps or loses its answer.                                 *)
THEOREM OneSessionEver == Spec => []OneSession
<1>1. RInv => OneSession
  BY DEF RInv
<1> QED
  BY <1>1, SpecRInv, PTL

(* Money is recorded as returned only when Stripe returned it, and none    *)
(* that bought the room is.                                                *)
THEOREM RefundsAreReal == Spec => []RefundIsReal
<1>1. RInv => RefundIsReal
  BY DEF RInv
<1> QED
  BY <1>1, SpecRInv, PTL

(* No confirmation email is sent for money that goes back.                 *)
THEOREM MailsAreOfKept == Spec => []MailOnlyIfKept
<1>1. RInv => MailOnlyIfKept
  BY DEF RInv
<1> QED
  BY <1>1, SpecRInv, PTL

(* A stay is offered through one Stripe session, money that is returned    *)
(* bought nothing, and no email confirms a stay whose money goes back.     *)
THEOREM StripeIsSafe == Spec => []StripeSafe
<1>1. RInv => StripeSafe
  BY DEF RInv, StripeSafe
<1> QED
  BY <1>1, SpecRInv, PTL

-----------------------------------------------------------------------------
(* The promise of an online payment.                                       *)

SameMoney == Paid' = Paid /\ row' = row /\ meta'.refundRequired = meta.refundRequired

Unrecorded(r) == r \notin {"COMPLETED", "REFUNDED"}

(* What each step does to the room and the money.                          *)
Rests == status' = status /\ SameMoney
Holds == status = "NONE" /\ status' = "PENDING" /\ SameMoney
Leaves == status \in {"PENDING", "CONFIRMED"} /\ status' = "CANCELLED" /\ SameMoney

Takes ==
  /\ Paid = {} /\ Paid' # {} /\ status' = status /\ row' = row
  /\ meta'.refundRequired = meta.refundRequired

(* The row is inserted, or marked as failed, while no money is on record.  *)
Fails ==
  /\ Unrecorded(row) /\ Unrecorded(row') /\ Paid' = Paid
  /\ status' = status \/ (status = "PENDING" /\ status' = "CANCELLED")

Keeps ==
  /\ Unrecorded(row) /\ row' = "COMPLETED" /\ Paid # {} /\ Paid' = Paid
  /\ status = "PENDING" /\ status' = "CONFIRMED" /\ ~meta'.refundRequired

Owes ==
  /\ Unrecorded(row) /\ row' = "COMPLETED" /\ Paid # {} /\ Paid' = Paid
  /\ status \in {"PENDING", "CANCELLED"} /\ status' = "CANCELLED"
  /\ meta'.refundRequired

Returns ==
  /\ row = "COMPLETED" /\ meta.refundRequired /\ row' = "REFUNDED"
  /\ Paid # {} /\ Paid' = Paid /\ status' = status

PromiseMoves ==
  \/ Rests \/ Holds \/ Leaves \/ Takes \/ Fails \/ Keeps \/ Owes \/ Returns

LEMMA StripeMoves ==
  ASSUME RInv, [Next]_vars
  PROVE  PromiseMoves
<1> DEFINE Goal == PromiseMoves
<1>1. TypeOK /\ Agreed
  BY DEF RInv
<1>2. ASSUME Reserve PROVE Goal
  BY <1>2 DEF Reserve, stripe, Holds, SameMoney, PromiseMoves, Paid
<1>3. ASSUME Drop PROVE Goal
  BY <1>3 DEF Drop, stripe, Leaves, SameMoney, PromiseMoves, Paid
<1>4. ASSUME NEW s \in Sessions, Guest(s) PROVE Goal
  <2>1. PICK state \in SessionStates :
          /\ session[s] \in {"open", "processing"}
          /\ session' = [session EXCEPT ![s] = state]
          /\ UNCHANGED booking
    BY <1>4 DEF Guest, Becomes, SessionStates
  <2>2. \A t \in Sessions : session'[t] = IF t = s THEN state ELSE session[t]
    BY <1>1, <2>1 DEF TypeOK
  <2>3. Paid = {}
    BY <2>1 DEF Paid, Opened, RInv, OneSession
  <2>4. UNCHANGED <<status, row, meta>>
    BY <2>1 DEF booking
  <2> QED
    BY <2>3, <2>4 DEF Rests, Takes, SameMoney, PromiseMoves
<1>5. ASSUME NEW q \in Requests, Prepare(q) PROVE Goal
  <2>1. /\ meta' = [meta EXCEPT !.prepared = TRUE] /\ status' = status
        /\ row' = IF meta.prepared THEN row ELSE "PENDING"
        /\ session' = session
    BY <1>5 DEF Prepare, stripe
  <2>2. meta'.refundRequired = meta.refundRequired /\ Paid' = Paid
    BY <1>1, <2>1 DEF TypeOK, Paid
  <2>3. row' = row \/ (row = "none" /\ row' = "PENDING")
    BY <1>1, <2>1 DEF Agreed
  <2> QED
    BY <2>1, <2>2, <2>3 DEF Rests, Fails, Unrecorded, SameMoney, PromiseMoves
<1>6. ASSUME NEW q \in Requests, NEW s \in Sessions, Create(q, s) PROVE Goal
  <2>1. /\ session' = IF s \in Opened THEN session ELSE [session EXCEPT ![s] = "open"]
        /\ UNCHANGED <<status, row, meta>>
    BY <1>6 DEF Create, booking
  <2>2. Paid' = Paid
    BY <1>1, <2>1 DEF TypeOK, Paid, Opened
  <2> QED
    BY <2>1, <2>2 DEF Rests, SameMoney, PromiseMoves
<1>7. ASSUME NEW q \in Requests, Expire(q) PROVE Goal
  <2>1. UNCHANGED <<status, row, meta>>
    BY <1>7 DEF Expire, booking
  <2>2. PICK s : \/ session[s] = "open" /\ session' = [session EXCEPT ![s] = "expired"]
                 \/ session' = session
    BY <1>7 DEF Expire
  <2>3. Paid' = Paid
    BY <1>1, <2>2 DEF TypeOK, Paid
  <2> QED
    BY <2>1, <2>3 DEF Rests, SameMoney, PromiseMoves
<1>8. ASSUME NEW q \in Requests, Attach(q) PROVE Goal
  <2>1. /\ meta' = [meta EXCEPT !.session = request[q].id]
        /\ UNCHANGED <<status, row, session>>
    BY <1>8 DEF Attach, stripe
  <2>2. meta'.refundRequired = meta.refundRequired /\ Paid' = Paid
    BY <1>1, <2>1 DEF TypeOK, Paid
  <2> QED
    BY <2>1, <2>2 DEF Rests, SameMoney, PromiseMoves
<1>9. ASSUME NEW q \in Requests, Settle(q) PROVE Goal
  <2>1. Paid' = Paid /\ request[q].id \in Opened
    BY <1>9 DEF Settle, stripe, Paid, RInv, Named, At
  <2>2. session[request[q].id] = "paid" => Paid # {}
    BY <2>1 DEF Opened, Paid
  <2>3. \/ Rests \/ Keeps \/ Owes \/ Fails
    BY <1>9, <2>1, <2>2, SettleMoves DEF Rests, SameMoney, Keeps, Owes, Fails, Unrecorded
  <2> QED
    BY <2>3 DEF PromiseMoves
<1>10. ASSUME NEW q \in Requests, RecordRefund(q) PROVE Goal
  <2>1. Paid' = Paid /\ status' = status
    BY <1>10 DEF RecordRefund, stripe, Paid
  <2>2. CASE RefundKnown
    BY <1>10, <2>1, <2>2 DEF RecordRefund, Rests, SameMoney, PromiseMoves
  <2>3. CASE ~RefundKnown
    <3>1. meta.refundRequired /\ row = "COMPLETED" /\ Paid # {}
      BY <1>1, <1>10, <2>3 DEF RecordRefund, Agreed
    <3>2. PICK done \in BOOLEAN : done <=> Succeeded(q)
      OBVIOUS
    <3>3. /\ row' = IF done THEN "REFUNDED" ELSE row
          /\ meta' = [meta EXCEPT !.refundRequired = ~done,
                        !.refundStatus = IF done THEN "REFUNDED" ELSE "PENDING"]
      BY <1>10, <2>3, <3>2 DEF RecordRefund
    <3>4. meta'.refundRequired = ~done /\ meta.refundRequired = TRUE
      BY <1>1, <3>1, <3>3 DEF TypeOK
    <3> QED
      BY <2>1, <3>1, <3>3, <3>4 DEF Rests, Returns, SameMoney, PromiseMoves
  <2> QED
    BY <2>2, <2>3
<1>11. ASSUME UNCHANGED <<status, row, meta, session>> PROVE Goal
  BY <1>11 DEF Rests, SameMoney, Paid, PromiseMoves
<1> HIDE DEF Goal
<1>12. \/ UNCHANGED <<status, row, meta, session>> \/ Reserve \/ Drop
       \/ \E s \in Sessions : Guest(s)
       \/ \E q \in Requests :
            \/ Prepare(q) \/ Expire(q) \/ Attach(q) \/ Settle(q) \/ RecordRefund(q)
            \/ \E s \in Sessions : Create(q, s)
  BY DEF Next, Serve, Hook, vars, booking, stripe, Lapse, RefundEnd, Webhook, Ask, Look,
     Retrieve, GiveBack, Send, Answer, Refuse, Fail
<1>13. Goal
  BY <1>2, <1>3, <1>4, <1>5, <1>6, <1>7, <1>8, <1>9, <1>10, <1>11, <1>12
<1> QED
  BY <1>13 DEF Goal

RoomNow ==
  CASE status = "NONE" -> "none"
    [] status = "PENDING" -> "held"
    [] status = "CONFIRMED" -> "booked"
    [] OTHER -> "gone"

MoneyNow ==
  CASE Paid = {} -> "none"
    [] Paid # {} /\ row = "REFUNDED" -> "returned"
    [] Paid # {} /\ row \notin {"REFUNDED", "COMPLETED"} -> "taken"
    [] OTHER -> IF meta.refundRequired THEN "owed" ELSE "kept"

RoomIs(s, r) ==
  /\ s = "NONE" => r = "none"
  /\ s = "PENDING" => r = "held"
  /\ s = "CONFIRMED" => r = "booked"
  /\ s = "CANCELLED" => r = "gone"

MoneyIs(paid, r, back, m) ==
  /\ paid = {} => m = "none"
  /\ paid # {} /\ r = "REFUNDED" => m = "returned"
  /\ paid # {} /\ Unrecorded(r) => m = "taken"
  /\ paid # {} /\ r = "COMPLETED" => m = IF back THEN "owed" ELSE "kept"

LEMMA NowReads ==
  /\ RoomIs(status, RoomNow) /\ RoomIs(status', RoomNow')
  /\ MoneyIs(Paid, row, meta.refundRequired, MoneyNow)
  /\ MoneyIs(Paid', row', meta'.refundRequired, MoneyNow')
BY DEF RoomIs, RoomNow, MoneyIs, MoneyNow, Unrecorded

LEMMA PromiseStep ==
  RInv /\ [Next]_vars => [Promise!Next]_(Promise!vars)
<1> SUFFICES ASSUME RInv, [Next]_vars
             PROVE  \/ UNCHANGED <<RoomNow, MoneyNow>>
                    \/ RoomNow = "none" /\ RoomNow' = "held" /\ MoneyNow' = MoneyNow
                    \/ MoneyNow = "none" /\ MoneyNow' = "taken" /\ RoomNow' = RoomNow
                    \/ /\ RoomNow = "held" /\ MoneyNow = "taken"
                       /\ RoomNow' = "booked" /\ MoneyNow' = "kept"
                    \/ /\ RoomNow \in {"held", "gone"} /\ MoneyNow = "taken"
                       /\ RoomNow' = "gone" /\ MoneyNow' = "owed"
                    \/ MoneyNow = "owed" /\ MoneyNow' = "returned" /\ RoomNow' = RoomNow
                    \/ /\ RoomNow \in {"held", "booked"} /\ RoomNow' = "gone"
                       /\ MoneyNow' = MoneyNow
  BY DEF Promise!Next, Promise!vars, Promise!Hold, Promise!Take, Promise!Keep, Promise!Owe,
     Promise!Return, Promise!Leave, RoomNow, MoneyNow
<1>1. RoomIs(status, RoomNow) /\ RoomIs(status', RoomNow')
  BY NowReads
<1>2. /\ MoneyIs(Paid, row, meta.refundRequired, MoneyNow)
      /\ MoneyIs(Paid', row', meta'.refundRequired, MoneyNow')
  BY NowReads
<1>3. status' = status => RoomNow' = RoomNow
  BY DEF RoomNow
<1>4. SameMoney => MoneyNow' = MoneyNow
  BY DEF SameMoney, MoneyNow
<1>5. CASE Rests
  BY <1>3, <1>4, <1>5 DEF Rests
<1>6. CASE Holds
  BY <1>1, <1>4, <1>6 DEF Holds, RoomIs
<1>7. CASE Leaves
  BY <1>1, <1>4, <1>7 DEF Leaves, RoomIs
<1>8. CASE Takes
  <2>1. Unrecorded(row)
    BY <1>8 DEF Takes, Unrecorded, RInv, Agreed
  <2> QED
    BY <1>2, <1>3, <1>8, <2>1 DEF Takes, MoneyIs, Unrecorded
<1>9. CASE Fails
  <2>1. MoneyNow' = MoneyNow
    BY <1>2, <1>9 DEF Fails, MoneyIs
  <2> QED
    BY <1>1, <1>3, <1>9, <2>1 DEF Fails, RoomIs
<1>10. CASE Keeps
  BY <1>1, <1>2, <1>10 DEF Keeps, RoomIs, MoneyIs
<1>11. CASE Owes
  BY <1>1, <1>2, <1>11 DEF Owes, RoomIs, MoneyIs
<1>12. CASE Returns
  BY <1>2, <1>3, <1>12 DEF Returns, MoneyIs
<1> QED
  BY <1>5, <1>6, <1>7, <1>8, <1>9, <1>10, <1>11, <1>12, StripeMoves DEF PromiseMoves

LEMMA PromiseStart == RInv /\ Init => Promise!Init
BY DEF Init, Promise!Init, Paid

(* A payment by Stripe implements PaymentPromise: money that was taken     *)
(* buys the room, once and for good, or goes back.                         *)
THEOREM StripeKeepsPromise == Spec => KeepsPromise
<1>1. Spec => []RInv
  BY SpecRInv
<1>2. RInv /\ Init => Promise!Init
  BY PromiseStart
<1>3. RInv /\ [Next]_vars => [Promise!Next]_(Promise!vars)
  BY PromiseStep
<1> QED
  BY <1>1, <1>2, <1>3, PTL DEF Spec, KeepsPromise, Promise!Spec

=============================================================================
