--------------------------- MODULE PayHereProofs ----------------------------
(***************************************************************************)
(* However many requests settle what they retrieved, and however late,     *)
(* each charge is recorded once, money that was not earned is up for       *)
(* review, the guest gets one confirmation email, and the booking keeps    *)
(* its promise.  And what the guest is told of her booking is never worse  *)
(* than the truth, although it is put together from two reads with         *)
(* settlements, refunds and chargebacks between them.  For every number of *)
(* charges and requests and every deposit.                                 *)
(***************************************************************************)
EXTENDS StatusPage, FiniteSetTheorems, TLAPS

(* No money is recorded before the checkout was prepared, and what was     *)
(* recorded, or retrieved by a request that has yet to settle it, the      *)
(* provider took.                                                          *)
MoneyIsReal ==
  /\ ~payment.prepared => Known(recorded) = {}
  /\ status = "NONE" => ~payment.prepared
  /\ \A q \in Requests : At(q, "settle") => payment.prepared
  /\ \A c \in Charges : recorded[c] # "none" => charges[c] # "none"
  /\ \A q \in Requests, c \in Charges :
       request[q].list[c] # "none" => charges[c] # "none"

(* The row of the order goes to one charge, every other to its own.        *)
OwnRows ==
  /\ \A c \in Known(recorded) : rowOf[c] \in {Order, c}
  /\ \A c, d \in Known(recorded) : rowOf[c] = Order /\ rowOf[d] = Order => c = d

(* One request at a time is between its claim of the email and its finish, *)
(* and nothing was sent as long as a claim is possible.                    *)
Sending(q) == At(q, "deliver") \/ At(q, "finish")

OneClaim ==
  /\ \A q \in Requests : Sending(q) => email = "SENDING"
  /\ \A q, r \in Requests : Sending(q) /\ Sending(r) => q = r
  /\ email \in {"none", "FAILED"} => accepted = 0
  /\ \A q \in Requests : At(q, "deliver") => accepted = 0
  /\ \A q \in Requests : At(q, "finish") =>
       /\ request[q].outcome # "none"
       /\ request[q].outcome = "FAILED" => accepted = 0
  /\ OneEmail

PInv ==
  /\ TypeOK /\ MoneyIsReal /\ OwnRows /\ OneClaim
  /\ EachChargeOnce /\ PendingIsUnpaid /\ UnearnedIsReviewed

LEMMA InitPInv == Init => PInv
<1> SUFFICES ASSUME Init PROVE PInv
  OBVIOUS
<1>1. TypeOK
  BY DEF Init, TypeOK, NoPayment, Idle, ChargeStates
<1>2. Known(recorded) = {} /\ Received(recorded) = {}
  BY DEF Init, Known, Received
<1>3. \A q \in Requests : At(q, "idle") /\ \A c \in Charges : request[q].list[c] = "none"
  BY DEF Init, At, Idle
<1>4. MoneyIsReal
  BY <1>2, <1>3 DEF Init, MoneyIsReal, NoPayment, At
<1>5. OneClaim
  BY <1>3 DEF Init, OneClaim, OneEmail, At, Sending
<1>6. EachChargeOnce /\ OwnRows
  BY <1>2 DEF Init, EachChargeOnce, OwnRows
<1>7. PendingIsUnpaid /\ UnearnedIsReviewed
  BY <1>2 DEF PendingIsUnpaid, UnearnedIsReviewed, Several
<1> QED
  BY <1>1, <1>4, <1>5, <1>6, <1>7 DEF PInv

-----------------------------------------------------------------------------
(* Settling.                                                               *)

LEMMA RecordedKinds ==
  ASSUME TypeOK, NEW q \in Requests
  PROVE  /\ Recorded(q) \in [Charges -> ChargeStates]
         /\ \A c \in Charges : Recorded(q)[c] \in {recorded[c], request[q].list[c]}
         /\ Known(Recorded(q)) = Known(recorded) \cup Listed(q)
         /\ Listed(q) \subseteq Charges
<1>1. request[q].list \in [Charges -> ChargeStates]
  BY DEF TypeOK
<1>2. Recorded(q) \in [Charges -> ChargeStates]
  BY <1>1 DEF Recorded, TypeOK
<1>3. \A c \in Charges : Recorded(q)[c] \in {recorded[c], request[q].list[c]}
  BY DEF Recorded
<1>4. Listed(q) \subseteq Charges
  BY DEF Listed
<1>5. Known(Recorded(q)) = Known(recorded) \cup Listed(q)
  BY DEF Known, Recorded, Listed, Skipped
<1> QED
  BY <1>2, <1>3, <1>4, <1>5

(* The places the settled charges get are their own.                       *)
LEMMA PlacesOwn ==
  ASSUME TypeOK, OwnRows, NEW q \in Requests, NEW first \in Charges
  PROVE  LET place == RowOf(q, first)
             known == Known(recorded) \cup Listed(q)
         IN  /\ place \in [Charges -> Charges \cup {Order}]
             /\ \A c \in Known(recorded) : place[c] = rowOf[c]
             /\ \A c \in known : place[c] \in {Order, c}
             /\ \A c, d \in known : place[c] = Order /\ place[d] = Order => c = d
             /\ \A c, d \in known : c # d => place[c] # place[d]
<1> DEFINE place == RowOf(q, first)
           known == Known(recorded) \cup Listed(q)
<1>1. place \in [Charges -> Charges \cup {Order}]
  BY DEF RowOf, TypeOK
<1>2. known \subseteq Charges
  BY DEF Known, Listed
<1>3. \A c \in Known(recorded) : place[c] = rowOf[c]
  BY DEF RowOf, Known
<1>4. \A c \in known \ Known(recorded) :
        place[c] = IF c = first /\ Known(recorded) = {} THEN Order ELSE c
  BY DEF RowOf, Known, Listed
<1> HIDE DEF place, known
<1>5. \A c \in known : place[c] \in {Order, c}
  BY <1>3, <1>4 DEF OwnRows
<1>6. \A c, d \in known : place[c] = Order /\ place[d] = Order => c = d
  BY <1>2, <1>3, <1>4, CheckoutAssumption DEF OwnRows
<1>7. \A c, d \in known : c # d => place[c] # place[d]
  BY <1>2, <1>5, <1>6, CheckoutAssumption
<1> QED
  BY <1>1, <1>3, <1>5, <1>6, <1>7 DEF place, known

(* The rows that are written say what was recorded, and no other row is.   *)
LEMMA RowsSay ==
  ASSUME TypeOK, OwnRows, EachChargeOnce, NEW q \in Requests, NEW first \in Charges
  PROVE  LET place == RowOf(q, first)
             written == Rows(q, place)
             rec == Recorded(q)
         IN  /\ written \in [Charges \cup {Order} ->
                             {"none", "PENDING", "COMPLETED", "REFUNDED", "FAILED"}]
             /\ \A c \in Known(rec) : written[place[c]] = RowState(rec[c])
             /\ \A r \in Charges \cup {Order} : written[r] \notin {"none", "PENDING"} =>
                  \E c \in Known(rec) : place[c] = r
<1> DEFINE place == RowOf(q, first)
           written == Rows(q, place)
           rec == Recorded(q)
           W(r) == {c \in Listed(q) : place[c] = r /\ ~Skipped(q, c)}
<1>1. written = [r \in Charges \cup {Order} |->
                   IF W(r) = {} THEN rows[r]
                   ELSE RowState(request[q].list[CHOOSE c \in W(r) : TRUE])]
  BY DEF Rows
<1>2. \A s : RowState(s) \in {"COMPLETED", "REFUNDED", "FAILED"}
  BY DEF RowState
<1>3. /\ Known(rec) = Known(recorded) \cup Listed(q)
      /\ Listed(q) \subseteq Charges
  BY RecordedKinds
<1>4. /\ place \in [Charges -> Charges \cup {Order}]
      /\ \A c \in Known(recorded) : place[c] = rowOf[c]
      /\ \A c, d \in Known(rec) : c # d => place[c] # place[d]
  BY <1>3, PlacesOwn
<1>5. \A c \in Charges : rec[c] = IF c \in Listed(q) /\ ~Skipped(q, c)
                                  THEN request[q].list[c] ELSE recorded[c]
  BY DEF Recorded
<1>6. \A c \in Listed(q) : Skipped(q, c) => c \in Known(recorded)
  BY <1>3 DEF Skipped, Known
<1>7. Known(rec) \subseteq Charges
  BY DEF Known
<1> HIDE DEF place, written, rec
<1>8. written \in [Charges \cup {Order} ->
                    {"none", "PENDING", "COMPLETED", "REFUNDED", "FAILED"}]
  BY <1>1, <1>2 DEF TypeOK
<1>9. ASSUME NEW c \in Known(rec) PROVE written[place[c]] = RowState(rec[c])
  <2>1. W(place[c]) \subseteq {c}
    BY <1>3, <1>4
  <2>2. place[c] \in Charges \cup {Order}
    BY <1>4, <1>7
  <2>3. CASE c \in Listed(q) /\ ~Skipped(q, c)
    <3>1. W(place[c]) = {c}
      BY <2>1, <2>3
    <3> QED
      BY <1>1, <1>5, <1>7, <2>2, <2>3, <3>1
  <2>4. CASE ~(c \in Listed(q) /\ ~Skipped(q, c))
    <3>1. c \in Known(recorded) /\ rec[c] = recorded[c] /\ W(place[c]) = {}
      BY <1>3, <1>5, <1>6, <1>7, <2>1, <2>4
    <3>2. written[place[c]] = rows[rowOf[c]]
      BY <1>1, <1>4, <2>2, <3>1
    <3> QED
      BY <3>1, <3>2 DEF EachChargeOnce
  <2> QED
    BY <2>3, <2>4
<1>10. ASSUME NEW r \in Charges \cup {Order}, written[r] \notin {"none", "PENDING"}
       PROVE  \E c \in Known(rec) : place[c] = r
  <2>1. CASE W(r) = {}
    <3>1. written[r] = rows[r] /\ r \in DOMAIN rows
      BY <1>1, <2>1 DEF TypeOK
    <3> QED
      BY <1>3, <1>4, <1>10, <3>1 DEF EachChargeOnce
  <2>2. CASE W(r) # {}
    BY <1>3, <2>2
  <2> QED
    BY <2>1, <2>2
<1> QED
  BY <1>8, <1>9, <1>10 DEF place, written, rec


(* What a settling transaction leaves behind.                              *)
LEMMA SettleKeeps ==
  ASSUME PInv, NEW q \in Requests, Settle(q)
  PROVE  PInv'
<1> DEFINE rec == Recorded(q)
           st == IF CanConfirm(rec) THEN "CONFIRMED" ELSE status
           refund == RefundRequired(rec, st)
<1>1. PICK first \in Charges :
        rowOf' = RowOf(q, first) /\ rows' = Rows(q, RowOf(q, first))
  BY DEF Settle
<1>2. /\ recorded' = rec /\ payment' = Flags(rec, refund)
      /\ status' = IF refund /\ st = "PENDING" THEN "CANCELLED" ELSE st
      /\ request' = [request EXCEPT ![q].pc = "claim", ![q].list = Idle.list]
      /\ UNCHANGED <<live, withdrawn, mail, charges>>
      /\ request[q].pc = "settle"
  BY DEF Settle, At
<1>3. /\ rec \in [Charges -> ChargeStates]
      /\ \A c \in Charges : rec[c] \in {recorded[c], request[q].list[c]}
  BY RecordedKinds DEF PInv
<1>4. /\ rowOf' \in [Charges -> Charges \cup {Order}]
      /\ \A c \in Known(rec) : rowOf'[c] \in {Order, c}
      /\ \A c, d \in Known(rec) : rowOf'[c] = Order /\ rowOf'[d] = Order => c = d
      /\ \A c, d \in Known(rec) : c # d => rowOf'[c] # rowOf'[d]
  BY <1>1, RecordedKinds, PlacesOwn DEF PInv
<1>5. /\ rows' \in [Charges \cup {Order} ->
                    {"none", "PENDING", "COMPLETED", "REFUNDED", "FAILED"}]
      /\ \A c \in Known(rec) : rows'[rowOf'[c]] = RowState(rec[c])
      /\ \A r \in Charges \cup {Order} : rows'[r] \notin {"none", "PENDING"} =>
           \E c \in Known(rec) : rowOf'[c] = r
  <2>1. TypeOK /\ OwnRows /\ EachChargeOnce
    BY DEF PInv
  <2> DEFINE place == RowOf(q, first)
             written == Rows(q, place)
  <2>2. /\ written \in [Charges \cup {Order} ->
                       {"none", "PENDING", "COMPLETED", "REFUNDED", "FAILED"}]
        /\ \A c \in Known(rec) : written[place[c]] = RowState(rec[c])
        /\ \A r \in Charges \cup {Order} : written[r] \notin {"none", "PENDING"} =>
             \E c \in Known(rec) : place[c] = r
    BY <2>1, RowsSay
  <2>3. rowOf' = place /\ rows' = written
    BY <1>1
  <2> HIDE DEF place, written, rec
  <2> QED
    BY <2>2, <2>3
<1>6. /\ status' \in {"NONE", "PENDING", "CONFIRMED", "CHECKED_IN", "CHECKED_OUT",
                      "CANCELLED"}
      /\ status' = "NONE" => status = "NONE"
  BY <1>2 DEF PInv, TypeOK
<1>7. /\ payment' \in [prepared : BOOLEAN, refundRequired : BOOLEAN,
                       reviewRequired : BOOLEAN,
                       refundStatus : {"none", "PENDING", "REFUNDED"}]
      /\ payment'.prepared
      /\ refund => payment'.reviewRequired
  <2>1. refund \in BOOLEAN
    BY DEF RefundRequired
  <2> HIDE DEF refund, rec
  <2> QED
    BY <1>2, <2>1 DEF Flags
<1>8. /\ \A p \in Requests : p # q => request'[p] = request[p]
      /\ request'[q] = [request[q] EXCEPT !.pc = "claim", !.list = Idle.list]
      /\ request' \in [Requests ->
           [pc : {"idle", "settle", "claim", "deliver", "finish", "cancel"},
            op : {"none", "refresh", "cancel"}, list : [Charges -> ChargeStates],
            outcome : {"none", "ACCEPTED", "FAILED", "UNKNOWN"}]]
  <2>1. request[q] \in [pc : {"idle", "settle", "claim", "deliver", "finish", "cancel"},
            op : {"none", "refresh", "cancel"}, list : [Charges -> ChargeStates],
            outcome : {"none", "ACCEPTED", "FAILED", "UNKNOWN"}]
    BY DEF PInv, TypeOK
  <2>2. Idle.list \in [Charges -> ChargeStates]
    BY DEF Idle, ChargeStates
  <2>3. PICK x : x = [request[q] EXCEPT !.pc = "claim", !.list = Idle.list]
    OBVIOUS
  <2>4. request' = [request EXCEPT ![q] = x]
    BY <1>2, <2>3
  <2>5. x \in [pc : {"idle", "settle", "claim", "deliver", "finish", "cancel"},
            op : {"none", "refresh", "cancel"}, list : [Charges -> ChargeStates],
            outcome : {"none", "ACCEPTED", "FAILED", "UNKNOWN"}]
    BY <2>1, <2>2, <2>3
  <2> QED
    BY <2>3, <2>4, <2>5 DEF PInv, TypeOK
<1>9. TypeOK'
  BY <1>2, <1>3, <1>4, <1>5, <1>6, <1>7, <1>8 DEF PInv, TypeOK, mail
<1>10. \A c \in Charges : request'[q].list[c] = "none"
  BY <1>8 DEF Idle, PInv, TypeOK
<1>11. status # "NONE"
  BY <1>2 DEF PInv, MoneyIsReal, At
<1>12. MoneyIsReal'
  <2>1. \A c \in Charges : rec[c] # "none" => charges[c] # "none"
    BY <1>3 DEF PInv, MoneyIsReal
  <2> QED
    BY <1>2, <1>6, <1>7, <1>8, <1>10, <1>11, <2>1 DEF PInv, MoneyIsReal, At
<1>13. OwnRows'
  BY <1>2, <1>4 DEF OwnRows
<1>14. EachChargeOnce'
  <2>1. DOMAIN rows' = Charges \cup {Order}
    BY <1>5
  <2> HIDE DEF rec
  <2> QED
    BY <1>2, <1>4, <1>5, <2>1 DEF EachChargeOnce
<1>15. OneClaim'
  <2>1. \A p \in Requests : /\ Sending(p)' => Sending(p) /\ p # q
                            /\ At(p, "deliver")' => At(p, "deliver")
                            /\ At(p, "finish")' => /\ At(p, "finish")
                                                   /\ request'[p] = request[p]
    <3>1. request'[q].pc = "claim"
      BY <1>8 DEF PInv, TypeOK
    <3> QED
      BY <1>8, <3>1 DEF Sending, At
  <2> QED
    BY <1>2, <2>1 DEF PInv, OneClaim, OneEmail, mail
<1>16. PendingIsUnpaid'
  BY <1>2 DEF PendingIsUnpaid, RefundRequired
<1>17. UnearnedIsReviewed'
  <2>1. Several(Received(rec)) => refund
    BY DEF RefundRequired
  <2>2. status' = "CANCELLED" /\ Received(rec) # {} => refund
    BY <1>2 DEF RefundRequired
  <2> QED
    BY <1>2, <1>7, <2>1, <2>2 DEF UnearnedIsReviewed, ReviewShown
<1> QED
  BY <1>9, <1>12, <1>13, <1>14, <1>15, <1>16, <1>17 DEF PInv

-----------------------------------------------------------------------------
(* Every other step.                                                       *)

(* What a request may be doing.                                            *)
Req == [pc : {"idle", "settle", "claim", "deliver", "finish", "cancel"},
        op : {"none", "refresh", "cancel"}, list : [Charges -> ChargeStates],
        outcome : {"none", "ACCEPTED", "FAILED", "UNKNOWN"}]

EmailMoves(q, x) ==
  \/ /\ x.pc \notin {"deliver", "finish"} /\ accepted' = accepted
     /\ \/ email' = email
        \/ At(q, "finish") /\ email = "SENDING" /\ email' = request[q].outcome
  \/ /\ At(q, "claim") /\ x.pc = "deliver" /\ email \in {"none", "FAILED"}
     /\ email' = "SENDING" /\ accepted' = accepted
  \/ /\ At(q, "deliver") /\ x.pc = "finish" /\ email' = email
     /\ accepted' \in {accepted, accepted + 1} /\ x.outcome # "none"
     /\ x.outcome = "FAILED" => accepted' = accepted

(* How a request that neither settles nor cancels moves on, and what it    *)
(* does to the email.                                                      *)
LEMMA ServeMoves ==
  ASSUME TypeOK, NEW q \in Requests,
         \/ Claim(q) \/ Deliver(q) \/ Finish(q) \/ NoEmail(q) \/ Fail(q)
         \/ \E o \in {"refresh", "cancel"} : Retrieve(q, o)
  PROVE  \E x \in Req :
        /\ request' = [request EXCEPT ![q] = x]
        /\ x.pc = "settle" => payment.prepared
        /\ x.list \in {request[q].list, charges, [c \in Charges |-> "none"]}
        /\ cooled' \in BOOLEAN
        /\ EmailMoves(q, x)
<1>1. request[q] \in Req /\ charges \in [Charges -> ChargeStates] /\ cooled \in BOOLEAN
  BY DEF TypeOK, Req
<1>2. Idle \in Req /\ Idle.pc = "idle" /\ Idle.list = [c \in Charges |-> "none"]
  BY DEF Idle, Req, ChargeStates
<1> DEFINE on(pc) == [request[q] EXCEPT !.pc = pc]
<1>3. \A pc \in {"idle", "settle", "claim", "deliver", "finish", "cancel"} :
        on(pc) \in Req /\ on(pc).pc = pc /\ on(pc).list = request[q].list
  BY <1>1 DEF Req
<1>4. AfterEmail(q) => \/ request' = [request EXCEPT ![q] = Idle]
                       \/ request' = [request EXCEPT ![q] = on("cancel")]
  BY DEF AfterEmail, Goto, Done
<1>5. CASE Claim(q)
  <2>1. request' = [request EXCEPT ![q] = on("deliver")]
    BY <1>5 DEF Claim, Goto
  <2> HIDE DEF on
  <2> QED
    BY <1>3, <1>5, <2>1 DEF Claim, Claimable, EmailMoves
<1>6. CASE Deliver(q)
  <2>1. PICK outcome \in {"ACCEPTED", "FAILED", "UNKNOWN"}, taken \in {0, 1} :
          /\ outcome = "FAILED" => taken = 0
          /\ accepted' = accepted + taken
          /\ request' = [request EXCEPT ![q].pc = "finish", ![q].outcome = outcome]
          /\ UNCHANGED <<email, cooled>>
    BY <1>6 DEF Deliver
  <2>2. PICK x : x = [request[q] EXCEPT !.pc = "finish", !.outcome = outcome]
    OBVIOUS
  <2>3. x \in Req /\ x.pc = "finish" /\ x.outcome = outcome /\ x.list = request[q].list
    BY <1>1, <2>2 DEF Req
  <2>4. request' = [request EXCEPT ![q] = x]
    BY <2>1, <2>2
  <2>5. accepted' \in {accepted, accepted + 1} /\ (outcome = "FAILED" => accepted' = accepted)
    BY <2>1 DEF TypeOK
  <2>6. At(q, "deliver")
    BY <1>6 DEF Deliver
  <2> QED
    BY <1>1, <2>1, <2>3, <2>4, <2>5, <2>6 DEF EmailMoves
<1>7. CASE Finish(q)
  <2>1. /\ At(q, "finish") /\ cooled' = cooled /\ accepted' = accepted
        /\ \/ email' = email
           \/ email = "SENDING" /\ email' = request[q].outcome
    BY <1>7 DEF Finish
  <2>2. AfterEmail(q)
    BY <1>7 DEF Finish
  <2> HIDE DEF on
  <2> QED
    BY <1>1, <1>2, <1>3, <1>4, <2>1, <2>2 DEF EmailMoves
<1>8. CASE NoEmail(q)
  <2>1. AfterEmail(q) /\ UNCHANGED <<email, cooled, accepted>>
    BY <1>8 DEF NoEmail, mail
  <2> HIDE DEF on
  <2> QED
    BY <1>1, <1>2, <1>3, <1>4, <2>1 DEF EmailMoves
<1>9. CASE Fail(q)
  <2>1. request' = [request EXCEPT ![q] = Idle] /\ UNCHANGED <<email, cooled, accepted>>
    BY <1>9 DEF Fail, Done, mail
  <2> QED
    BY <1>1, <1>2, <2>1 DEF EmailMoves
<1>10. ASSUME NEW o \in {"refresh", "cancel"}, Retrieve(q, o)
       PROVE  \E x \in Req :
                /\ request' = [request EXCEPT ![q] = x]
                /\ x.pc \in {"settle", "cancel"} /\ (x.pc = "settle" => payment.prepared)
                /\ x.list = charges
                /\ UNCHANGED <<email, cooled, accepted>>
  <2> DEFINE x == [pc |-> IF payment.prepared THEN "settle" ELSE "cancel", op |-> o,
                   list |-> charges, outcome |-> "none"]
  <2>1. request' = [request EXCEPT ![q] = x] /\ UNCHANGED <<email, cooled, accepted>>
    BY <1>10 DEF Retrieve, mail
  <2>2. x \in Req /\ x.list = charges /\ x.pc = IF payment.prepared THEN "settle" ELSE "cancel"
    BY <1>1 DEF Req
  <2> HIDE DEF x
  <2> QED
    BY <2>1, <2>2
<1> QED
  BY <1>1, <1>5, <1>6, <1>7, <1>8, <1>9, <1>10 DEF EmailMoves

(* Any other step that is not of the booking, its money or the provider    *)
(* moves one request, or lets a minute pass.                               *)
LEMMA ServeKeeps ==
  ASSUME PInv, NEW q \in Requests,
         \/ Claim(q) \/ Deliver(q) \/ Finish(q) \/ NoEmail(q) \/ Fail(q)
         \/ \E o \in {"refresh", "cancel"} : Retrieve(q, o)
  PROVE  PInv'
<1>1. UNCHANGED <<booking, receipts, charges>>
  <2>1. CASE Claim(q) \/ Deliver(q) \/ Finish(q)
    BY <2>1 DEF Claim, Deliver, Finish
  <2>2. CASE NoEmail(q) \/ Fail(q) \/ \E o \in {"refresh", "cancel"} : Retrieve(q, o)
    BY <2>2 DEF NoEmail, Fail, Retrieve
  <2> QED
    BY <2>1, <2>2
<1>2. PICK x \in Req :
        /\ request' = [request EXCEPT ![q] = x]
        /\ x.pc = "settle" => payment.prepared
        /\ x.list \in {request[q].list, charges, [c \in Charges |-> "none"]}
        /\ cooled' \in BOOLEAN
        /\ EmailMoves(q, x)
  BY ServeMoves DEF PInv
<1>3. request' \in [Requests -> Req] /\ request'[q] = x
      /\ \A p \in Requests : p # q => request'[p] = request[p]
  BY <1>2 DEF PInv, TypeOK, Req
<1>4. TypeOK'
  BY <1>1, <1>2, <1>3 DEF EmailMoves, PInv, TypeOK, booking, receipts, Req
<1>5. MoneyIsReal'
  BY <1>1, <1>2, <1>3 DEF PInv, MoneyIsReal, booking, receipts, At
<1>7. OneClaim'
  <2>1. CASE x.pc \notin {"deliver", "finish"}
    BY <1>2, <1>3, <2>1 DEF EmailMoves, PInv, TypeOK, OneClaim, OneEmail, Sending, At, Req
  <2>2. CASE x.pc \in {"deliver", "finish"}
    BY <1>2, <1>3, <2>2 DEF EmailMoves, PInv, TypeOK, OneClaim, OneEmail, Sending, At, Req
  <2> QED
    BY <1>2, <2>1, <2>2 DEF EmailMoves
<1>8. OwnRows' /\ EachChargeOnce' /\ PendingIsUnpaid' /\ UnearnedIsReviewed'
  BY <1>1 DEF PInv, OwnRows, EachChargeOnce, PendingIsUnpaid, UnearnedIsReviewed, ReviewShown,
     booking, receipts
<1> QED
  BY <1>4, <1>5, <1>7, <1>8 DEF PInv

(* The booking, the provider and the Front Desk.                           *)
LEMMA OthersKeep ==
  ASSUME PInv,
         \/ Reserve \/ Prepare \/ Lapse \/ Sweep \/ Minute \/ Withdraw \/ Desk
         \/ \E c \in Charges : Charge(c) \/ Refund(c)
         \/ \E q \in Requests : CancelCheckout(q)
  PROVE  PInv'
<1> USE DEF PInv
<1>1. CASE Reserve \/ Lapse \/ Sweep \/ Withdraw \/ Desk
  <2>1. UNCHANGED <<payment, receipts, mail, charges, request>>
    BY <1>1 DEF Reserve, Lapse, Sweep, Withdraw, Desk
  <2>2. /\ TypeOK'
        /\ status' # "NONE" /\ (status' = "PENDING" => status \in {"NONE", "PENDING"})
    <3>1. live' \in {live, TRUE, FALSE} /\ withdrawn' \in {withdrawn, TRUE}
      BY <1>1 DEF Reserve, Lapse, Sweep, Withdraw, Desk
    <3>2. status' \in {status, "PENDING", "CANCELLED", "CHECKED_IN", "CHECKED_OUT"}
      BY <1>1 DEF Reserve, Lapse, Sweep, Withdraw, Desk
    <3>3. /\ status' # "NONE"
          /\ status' = "PENDING" => status \in {"NONE", "PENDING"}
      BY <1>1 DEF Reserve, Lapse, Sweep, Withdraw, Desk
    <3>4. /\ status' \in {"NONE", "PENDING", "CONFIRMED", "CHECKED_IN", "CHECKED_OUT",
                          "CANCELLED"}
          /\ live' \in BOOLEAN /\ withdrawn' \in BOOLEAN
      BY <3>1, <3>2 DEF TypeOK
    <3>5. TypeOK'
      BY <2>1, <3>4 DEF TypeOK, receipts, mail
    <3> QED
      BY <3>3, <3>5
  <2>3. MoneyIsReal' /\ OwnRows' /\ OneClaim' /\ EachChargeOnce'
    BY <2>1, <2>2 DEF MoneyIsReal, OwnRows, OneClaim, OneEmail, EachChargeOnce, Sending, At,
       receipts, mail
  <2>4. PendingIsUnpaid'
    BY <2>1, <2>2 DEF PendingIsUnpaid, MoneyIsReal, Known, Received, receipts
  <2>5. UnearnedIsReviewed'
    <3>1. Received(recorded) # {} => \E r \in DOMAIN rows : rows[r] = "COMPLETED"
      <4> SUFFICES ASSUME NEW c \in Received(recorded)
                   PROVE  \E r \in DOMAIN rows : rows[r] = "COMPLETED"
        OBVIOUS
      <4>1. c \in Known(recorded) /\ recorded[c] = "RECEIVED" /\ c \in Charges
        BY DEF Received, Known
      <4>2. rows[rowOf[c]] = "COMPLETED" /\ rowOf[c] \in DOMAIN rows
        BY <4>1 DEF EachChargeOnce, RowState, TypeOK
      <4> QED
        BY <4>2
    <3>2. Several(Received(recorded)) => Received(recorded) # {}
      BY DEF Several
    <3>3. CASE status' = "CANCELLED" /\ status # "CANCELLED"
      <4>1. status = "PENDING" \/ withdrawn'
        BY <1>1, <3>3 DEF Reserve, Lapse, Sweep, Withdraw, Desk
      <4> QED
        BY <2>1, <3>1, <3>2, <4>1
           DEF UnearnedIsReviewed, PendingIsUnpaid, ReviewShown, receipts
    <3>4. CASE ~(status' = "CANCELLED" /\ status # "CANCELLED")
      <4>1. withdrawn => withdrawn'
        BY <1>1 DEF Reserve, Lapse, Sweep, Withdraw, Desk
      <4> QED
        BY <2>1, <3>4, <4>1 DEF UnearnedIsReviewed, ReviewShown, receipts
    <3> QED
      BY <3>3, <3>4
  <2> QED
    BY <2>2, <2>3, <2>4, <2>5
<1>2. CASE Prepare
  <2>1. /\ status = "PENDING" /\ ~payment.prepared /\ Known(recorded) = {}
        /\ payment' = [payment EXCEPT !.prepared = TRUE]
        /\ rows' = [rows EXCEPT ![Order] = "PENDING"]
        /\ UNCHANGED <<status, live, withdrawn, recorded, rowOf, mail, charges, request>>
    BY <1>2 DEF Prepare, MoneyIsReal
  <2>2. TypeOK'
    BY <2>1 DEF TypeOK, mail
  <2>3. payment'.prepared /\ payment'.reviewRequired = payment.reviewRequired
    BY <2>1 DEF TypeOK
  <2>4. MoneyIsReal' /\ OwnRows' /\ OneClaim' /\ PendingIsUnpaid'
    BY <2>1, <2>3 DEF MoneyIsReal, OwnRows, OneClaim, OneEmail, Sending, At, PendingIsUnpaid,
       mail
  <2>5. DOMAIN rows = Charges \cup {Order}
        /\ \A r \in Charges \cup {Order} : rows'[r] \in {rows[r], "PENDING"}
    BY <2>1 DEF TypeOK
  <2>6. EachChargeOnce' /\ UnearnedIsReviewed'
    <3>1. Received(recorded) = {}
      BY <2>1 DEF Known, Received
    <3>2. DOMAIN rows' = Charges \cup {Order}
      BY <2>2 DEF TypeOK
    <3> QED
      BY <2>1, <2>5, <3>1, <3>2 DEF EachChargeOnce, UnearnedIsReviewed, Several
  <2> QED
    BY <2>2, <2>4, <2>6
<1>3. CASE Minute
  <2>1. UNCHANGED <<booking, receipts, email, accepted, charges, request>>
    BY <1>3 DEF Minute
  <2>2. TypeOK'
    BY <1>3, <2>1 DEF Minute, TypeOK, booking, receipts
  <2> QED
    BY <2>1, <2>2 DEF MoneyIsReal, OwnRows, OneClaim, OneEmail, EachChargeOnce, PendingIsUnpaid,
       UnearnedIsReviewed, ReviewShown, Sending, At, booking, receipts
<1>4. ASSUME NEW c \in Charges, Charge(c) \/ Refund(c) PROVE PInv'
  <2>1. UNCHANGED <<booking, receipts, mail, request>>
    BY <1>4 DEF Charge, Refund
  <2>2. PICK s \in ChargeStates \ {"none"} : charges' = [charges EXCEPT ![c] = s]
    <3>1. \A s : Later(s) \subseteq ChargeStates \ {"none"}
      BY DEF Later, ChargeStates
    <3>2. CASE Charge(c)
      BY <3>2 DEF Charge, ChargeStates
    <3>3. CASE Refund(c)
      BY <3>1, <3>3 DEF Refund
    <3> QED
      BY <1>4, <3>2, <3>3
  <2>3. \A d \in Charges : charges[d] # "none" => charges'[d] # "none"
    BY <2>2 DEF TypeOK
  <2>4. TypeOK'
    BY <2>1, <2>2 DEF TypeOK, booking, receipts, mail
  <2> QED
    BY <2>1, <2>3, <2>4 DEF MoneyIsReal, OwnRows, OneClaim, OneEmail, EachChargeOnce,
       PendingIsUnpaid, UnearnedIsReviewed, ReviewShown, Sending, At, booking, receipts, mail
<1>5. ASSUME NEW q \in Requests, CancelCheckout(q) PROVE PInv'
  <2>1. /\ status = "PENDING" /\ status' = "CANCELLED"
        /\ request' = [request EXCEPT ![q] = Idle]
        /\ UNCHANGED <<live, payment, withdrawn, receipts, mail, charges>>
    BY <1>5 DEF CancelCheckout, Done
  <2>2. TypeOK'
    BY <2>1 DEF TypeOK, receipts, mail, Idle, ChargeStates
  <2>3. \A p \in Requests : \/ request'[p] = request[p]
                            \/ /\ request'[p].pc = "idle"
                               /\ \A c \in Charges : request'[p].list[c] = "none"
    BY <2>1 DEF TypeOK, Idle
  <2>4. MoneyIsReal'
    BY <2>1, <2>3 DEF MoneyIsReal, At, receipts
  <2>5. OneClaim'
    BY <2>1, <2>3 DEF OneClaim, OneEmail, Sending, At, mail
  <2>6. OwnRows' /\ EachChargeOnce' /\ PendingIsUnpaid'
    BY <2>1 DEF OwnRows, EachChargeOnce, PendingIsUnpaid, receipts
  <2>7. UnearnedIsReviewed'
    BY <2>1 DEF UnearnedIsReviewed, PendingIsUnpaid, ReviewShown, Several, receipts
  <2> QED
    BY <2>2, <2>4, <2>5, <2>6, <2>7
<1> QED
  BY <1>1, <1>2, <1>3, <1>4, <1>5

LEMMA NextPInv == PInv /\ [Next]_vars => PInv'
<1> SUFFICES ASSUME PInv, [Next]_vars PROVE PInv'
  OBVIOUS
<1>1. CASE UNCHANGED vars
  BY <1>1 DEF vars, booking, receipts, mail, PInv, TypeOK, MoneyIsReal, OwnRows, OneClaim,
     OneEmail, EachChargeOnce, PendingIsUnpaid, UnearnedIsReviewed, ReviewShown, Sending, At
<1>2. CASE Next
  BY <1>2, SettleKeeps, ServeKeeps, OthersKeep DEF Next, Serve
<1> QED
  BY <1>1, <1>2

LEMMA SpecPInv == Spec => []PInv
BY InitPInv, NextPInv, PTL DEF Spec

-----------------------------------------------------------------------------
(* What follows.                                                           *)

(* Each real charge is one row of the payments table, whatever is replayed *)
(* or settled late, for every number of charges and requests.              *)
THEOREM ChargesAreRows == Spec => []EachChargeOnce
<1>1. PInv => EachChargeOnce
  BY DEF PInv
<1> QED
  BY <1>1, SpecPInv, PTL

(* Money recorded and not earned is always up for review.                  *)
THEOREM UnearnedIsShown == Spec => []UnearnedIsReviewed
<1>1. PInv => UnearnedIsReviewed
  BY DEF PInv
<1> QED
  BY <1>1, SpecPInv, PTL

(* The guest gets at most one confirmation email.                          *)
THEOREM AtMostOneEmail == Spec => []OneEmail
<1>1. PInv => OneEmail
  BY DEF PInv, OneClaim
<1> QED
  BY <1>1, SpecPInv, PTL

(* Only a settling request confirms, and only while the hold is alive.     *)
LEMMA Confirms ==
  ASSUME PInv, NEW q \in Requests, Settle(q), status = "PENDING", status' = "CONFIRMED"
  PROVE  live /\ \E c \in Charges : Known(recorded') = {c} /\ charges[c] # "none"
<1> DEFINE rec == Recorded(q)
<1>1. CanConfirm(rec) /\ recorded' = rec
  BY DEF Settle
<1>2. PICK c \in Received(rec) : Known(rec) = {c}
  BY <1>1 DEF CanConfirm
<1>3. c \in Charges /\ rec[c] = "RECEIVED"
  BY <1>2 DEF Received
<1>4. rec[c] \in {recorded[c], request[q].list[c]}
  BY <1>3, RecordedKinds DEF PInv
<1>5. charges[c] # "none"
  BY <1>3, <1>4 DEF PInv, MoneyIsReal
<1> QED
  BY <1>1, <1>2, <1>3, <1>5 DEF CanConfirm

(* A booking is confirmed by one charge that was really taken.             *)
THEOREM ChargesConfirm == Spec => ConfirmedByCharge
<1>1. PInv /\ [Next]_vars =>
        [status = "PENDING" /\ status' = "CONFIRMED" =>
           \E c \in Charges : Known(recorded') = {c} /\ charges[c] # "none"]_vars
  <2> SUFFICES ASSUME PInv, [Next]_vars, status = "PENDING", status' = "CONFIRMED"
               PROVE  \E c \in Charges : Known(recorded') = {c} /\ charges[c] # "none"
    OBVIOUS
  <2>1. \E q \in Requests : Settle(q)
    BY DEF Next, Serve, vars, booking, Reserve, Prepare, Lapse, Sweep, Minute, Withdraw, Desk,
       Charge, Refund, Retrieve, Claim, Deliver, Finish, NoEmail, CancelCheckout, Fail
  <2> QED
    BY <2>1, Confirms
<1> QED
  BY <1>1, SpecPInv, PTL DEF Spec, ConfirmedByCharge

(* The promise, as the refinement reads it off the row.                    *)
PromiseNow ==
  CASE status = "NONE" -> "none"
    [] status \in {"CONFIRMED", "CHECKED_IN"} -> "booked"
    [] status \in {"CANCELLED", "CHECKED_OUT"} -> "ended"
    [] OTHER -> IF ~live THEN "lapsed"
                ELSE IF payment.prepared THEN "renewed" ELSE "held"

DeadlineNow == IF status = "NONE" THEN 0 ELSE IF payment.prepared THEN 2 ELSE 1

PromiseIs(s, alive, renewed, p) ==
  /\ s = "NONE" => p = "none"
  /\ s \in {"CONFIRMED", "CHECKED_IN"} => p = "booked"
  /\ s \in {"CANCELLED", "CHECKED_OUT"} => p = "ended"
  /\ s = "PENDING" => p = IF ~alive THEN "lapsed" ELSE IF renewed THEN "renewed" ELSE "held"

LEMMA PromiseReads ==
  /\ PromiseIs(status, live, payment.prepared, PromiseNow)
  /\ PromiseIs(status, live, payment.prepared, PromiseNow)'
BY DEF PromiseIs, PromiseNow

(* What each step does to the row: nothing the promise depends on, or one  *)
(* of its moves.                                                           *)
SamePrepared == payment'.prepared = payment.prepared

RowStays == UNCHANGED <<status, live>> /\ SamePrepared

RowHeld ==
  /\ status = "NONE" /\ status' = "PENDING" /\ live' = TRUE
  /\ payment.prepared = FALSE /\ payment'.prepared = FALSE

RowRenewed ==
  /\ status = "PENDING" /\ live /\ UNCHANGED <<status, live>>
  /\ payment.prepared = FALSE /\ payment'.prepared = TRUE

RowLapses ==
  /\ status = "PENDING" /\ live /\ status' = "PENDING" /\ live' = FALSE
  /\ SamePrepared

RowDecided ==
  /\ status = "PENDING" /\ status' \in {"CANCELLED", "CONFIRMED"}
  /\ status' = "CONFIRMED" => live
  /\ SamePrepared

RowLeaves ==
  /\ \/ status = "CONFIRMED" /\ status' \in {"CANCELLED", "CHECKED_IN"}
     \/ status = "CHECKED_IN" /\ status' = "CHECKED_OUT"
  /\ SamePrepared

LEMMA RowMoves ==
  ASSUME PInv, [Next]_vars
  PROVE  RowStays \/ RowHeld \/ RowRenewed \/ RowLapses \/ RowDecided \/ RowLeaves
<1>1. payment.prepared \in BOOLEAN
  BY DEF PInv, TypeOK
<1>2. CASE Reserve
  BY <1>1, <1>2 DEF Reserve, PInv, MoneyIsReal, RowHeld
<1>3. CASE Prepare
  BY <1>3 DEF Prepare, PInv, TypeOK, RowRenewed
<1>4. CASE Lapse \/ Sweep \/ Withdraw \/ Desk
  BY <1>4 DEF Lapse, Sweep, Withdraw, Desk, RowLapses, RowDecided, RowLeaves, SamePrepared
<1>5. ASSUME NEW q \in Requests, Settle(q)
      PROVE  /\ UNCHANGED live /\ payment'.prepared = payment.prepared
             /\ \/ status' = status
                \/ status = "PENDING" /\ status' \in {"CANCELLED", "CONFIRMED"}
             /\ status = "PENDING" /\ status' = "CONFIRMED" => live
  <2> DEFINE rec == Recorded(q)
             st == IF CanConfirm(rec) THEN "CONFIRMED" ELSE status
             refund == RefundRequired(rec, st)
  <2>1. /\ payment' = Flags(rec, refund) /\ live' = live
        /\ status' = IF refund /\ st = "PENDING" THEN "CANCELLED" ELSE st
    BY <1>5 DEF Settle
  <2>2. payment.prepared
    BY <1>5 DEF Settle, PInv, MoneyIsReal
  <2>3. payment'.prepared
    BY <2>1 DEF Flags
  <2>4. CanConfirm(rec) => status = "PENDING" /\ live
    BY DEF CanConfirm
  <2> QED
    BY <1>1, <2>1, <2>2, <2>3, <2>4
<1>6. ASSUME NEW q \in Requests, CancelCheckout(q)
      PROVE  /\ status = "PENDING" /\ status' = "CANCELLED"
             /\ payment' = payment
  BY <1>6 DEF CancelCheckout
<1>7. CASE UNCHANGED booking
  BY <1>7 DEF booking, RowStays, SamePrepared
<1>8. UNCHANGED booking \/ Reserve \/ Prepare \/ Lapse \/ Sweep \/ Withdraw \/ Desk
      \/ \E q \in Requests : Settle(q) \/ CancelCheckout(q)
  BY DEF Next, Serve, vars, Minute, Charge, Refund, Retrieve, Claim, Deliver, Finish, NoEmail,
     Fail
<1> QED
  BY <1>2, <1>3, <1>4, <1>5, <1>6, <1>7, <1>8 DEF RowStays, RowDecided, SamePrepared

LEMMA PromiseNext ==
  PInv /\ PInv' /\ [Next]_vars => [Promise!Next]_(Promise!vars)
<1> SUFFICES ASSUME PInv, PInv', [Next]_vars PROVE Promise!Next
  OBVIOUS
<1>1. /\ PromiseNow' \in Promise!Promises /\ DeadlineNow' \in Nat
  BY DEF PromiseNow, DeadlineNow, Promise!Promises, PInv, TypeOK
<1>2. /\ PromiseNow' = PromiseNow \/ <<PromiseNow, PromiseNow'>> \in Promise!Moves
      /\ \/ DeadlineNow' = DeadlineNow
         \/ PromiseNow \in {"none", "held"} /\ PromiseNow' # PromiseNow
  <2>1. /\ <<"none", "held">> \in Promise!Moves /\ <<"held", "renewed">> \in Promise!Moves
        /\ \A p \in {"held", "renewed"}, n \in {"booked", "lapsed", "ended"} :
             <<p, n>> \in Promise!Moves
        /\ \A p \in {"lapsed", "booked"} : <<p, "ended">> \in Promise!Moves
    BY DEF Promise!Moves
  <2>2. PromiseIs(status, live, payment.prepared, PromiseNow)
    BY PromiseReads
  <2>3. PromiseIs(status', live', payment'.prepared, PromiseNow')
    BY PromiseReads
  <2>4. CASE RowStays
    BY <2>4 DEF RowStays, SamePrepared, PromiseNow, DeadlineNow
  <2>5. CASE RowHeld
    BY <2>1, <2>2, <2>3, <2>5 DEF RowHeld, PromiseIs
  <2>6. CASE RowRenewed
    BY <2>1, <2>2, <2>3, <2>6 DEF RowRenewed, PromiseIs
  <2>7. CASE RowLapses
    BY <2>1, <2>2, <2>3, <2>7 DEF RowLapses, PromiseIs, SamePrepared, DeadlineNow
  <2>8. CASE RowDecided
    BY <2>1, <2>2, <2>3, <2>8 DEF RowDecided, PromiseIs, SamePrepared, DeadlineNow
  <2>9. CASE RowLeaves
    BY <2>1, <2>2, <2>3, <2>9 DEF RowLeaves, PromiseIs, SamePrepared, DeadlineNow
  <2> QED
    BY RowMoves, <2>4, <2>5, <2>6, <2>7, <2>8, <2>9
<1> QED
  BY <1>1, <1>2 DEF Promise!Next, PromiseNow, DeadlineNow

LEMMA PromiseInit == Init => Promise!Init
BY DEF Init, Promise!Init

(* A booking that is paid online implements HoldPromise: no request, late  *)
(* charge or cancel confirms it once its hold has lapsed or it has ended.  *)
THEOREM PaidBookingKeepsPromise == Spec => KeepsPromise
<1>1. PInv /\ [Next]_vars => [Promise!Next]_(Promise!vars)
  BY NextPInv, PromiseNext
<1> QED
  BY <1>1, PromiseInit, SpecPInv, PTL DEF Spec, KeepsPromise, Promise!Spec

-----------------------------------------------------------------------------
(* What the pages tell.                                                    *)

(* A charge only moves on: what was recorded, or is in a request's hands,  *)
(* is a state it was in.                                                   *)
Older(x, s) ==
  /\ s = "none" => x = "none"
  /\ s = "RECEIVED" => x \in {"none", "RECEIVED"}
  /\ s = "CHARGEBACKED" => x \in {"none", "RECEIVED", "CHARGEBACKED"}
  /\ x = "CHARGEBACKED" => s = "CHARGEBACKED"

History ==
  /\ \A c \in Charges : Older(recorded[c], charges[c])
  /\ \A q \in Requests, c \in Charges : Older(request[q].list[c], charges[c])

Refunding == \E c \in Charges : recorded[c] \in {"REFUND REQUESTED", "REFUND PROCESSING"}

(* A booking that is kept was charged, and the metadata of the payment     *)
(* says what the receipts in it amount to.                                 *)
MoneyTells ==
  /\ Kept => Known(recorded) # {}
  /\ withdrawn => status = "CANCELLED"
  /\ payment = IF payment.prepared THEN Flags(recorded, payment.refundRequired)
               ELSE NoPayment
  /\ status = "PENDING" => ~payment.refundRequired
  /\ Refunding => payment.refundRequired
  /\ status = "CANCELLED" /\ ~withdrawn /\ Received(recorded) # {} =>
       payment.refundRequired

(* A charge that was charged back stays so, and is up for review for good. *)
ChargedBack == \E c \in Charges : recorded[c] = "CHARGEBACKED"

SInv == PInv /\ History /\ MoneyTells

-----------------------------------------------------------------------------
(* The page.                                                               *)

RowKind ==
  [status : {"none", "PENDING", "CONFIRMED", "CANCELLED"}, charged : BOOLEAN,
   paid : 0 .. (Cardinality(Charges) + 1) * Amount, balance : 0 .. Total,
   refundStatus : {"none", "PENDING", "REFUNDED"},
   paymentState : {"none", "REVIEW_REQUIRED", "REFUNDED", "PAID", "CANCELLED",
                   "EXPIRED", "PENDING"}]

SeenKind ==
  [status : {"none", "PENDING", "CONFIRMED", "CANCELLED"}, charged : BOOLEAN,
   payable : BOOLEAN, heading : Headings]

(* A row whose money can be told from it, whatever the metadata says: the  *)
(* rest is left to the review flag.                                        *)
Telling(r) ==
  \/ r.refundStatus # "none"
  \/ r.status = "CONFIRMED" /\ r.paid > 0

RowHolds(r) ==
  /\ r.status # "none"
  /\ r.status = "CANCELLED" => r.balance = 0
  /\ r.status = "CONFIRMED" =>
       r.charged /\ r.paymentState # "EXPIRED" /\ r.balance = Above(Total, r.paid)
  /\ r.status = "PENDING" /\ r.paymentState = "PENDING" => r.refundStatus = "none"
  /\ r.charged => Known(recorded) # {} /\ (Telling(r) \/ ChargedBack)

SeenHolds(s) ==
  /\ s.heading = "unavailable" => s.status \in {"none", "PENDING"}
  /\ s.heading \in {"closed", "pending"} => ~s.charged
  /\ s.payable => ~s.charged
  /\ s.heading = "confirmed" =>
       Known(recorded) # {} /\ (page.pc = "metadata" => page.row.charged)

PageInv ==
  /\ page \in [pc : {"idle", "metadata"}, row : RowKind, seen : SeenKind]
  /\ page.pc = "metadata" => RowHolds(page.row)
  /\ SeenHolds(page.seen)

-----------------------------------------------------------------------------
(* Sums over the payments table.                                           *)

LEMMA Products ==
  ASSUME NEW a \in Nat, NEW m \in Nat, NEW n \in Nat, m <= n
  PROVE  /\ a * m \in 0 .. n * a
         /\ 0 < a /\ 0 < m => 0 < a * m
<1>1. PICK d \in Nat : n = m + d
  BY n - m \in Nat, n = m + (n - m)
<1>2. n * a = a * m + a * d /\ a * m \in Nat /\ a * d \in Nat
  BY <1>1
<1>3. 0 < a /\ 0 < m => 0 < a * m
  OBVIOUS
<1> QED
  BY <1>2, <1>3

LEMMA SumKinds ==
  ASSUME TypeOK, NEW s
  PROVE  /\ Sum(s) \in 0 .. (Cardinality(Charges) + 1) * Amount
         /\ Sum(s) > 0 <=> \E r \in DOMAIN rows : rows[r] = s
<1> DEFINE D == {r \in DOMAIN rows : rows[r] = s}
<1>1. DOMAIN rows = Charges \cup {Order}
  BY DEF TypeOK
<1>2. /\ IsFiniteSet(DOMAIN rows) /\ Cardinality(Charges) \in Nat
      /\ Cardinality(DOMAIN rows) = Cardinality(Charges) + 1
  BY <1>1, FS_AddElement, FS_CardinalityType, AmountAssumption, CheckoutAssumption
<1>3. IsFiniteSet(D) /\ Cardinality(D) <= Cardinality(Charges) + 1
  BY <1>2, FS_Subset, D \in SUBSET DOMAIN rows
<1>4. Cardinality(D) \in Nat /\ (Cardinality(D) = 0 <=> D = {})
  BY <1>3, FS_EmptySet, FS_CardinalityType
<1>5. Sum(s) = Amount * Cardinality(D)
  BY DEF Sum
<1>6. D # {} <=> \E r \in DOMAIN rows : rows[r] = s
  OBVIOUS
<1> HIDE DEF D
<1>7. Amount * Cardinality(D) \in 0 .. (Cardinality(Charges) + 1) * Amount
  BY <1>2, <1>3, <1>4, Products, AmountAssumption
<1>8. Cardinality(D) > 0 <=> Amount * Cardinality(D) > 0
  <2>1. CASE Cardinality(D) = 0
    BY <2>1, AmountAssumption
  <2>2. CASE Cardinality(D) > 0
    BY <1>2, <1>3, <1>4, <2>2, Products, AmountAssumption
  <2> QED
    BY <1>4, <2>1, <2>2
<1> QED
  BY <1>4, <1>5, <1>6, <1>7, <1>8

LEMMA AboveKinds ==
  ASSUME NEW a \in Nat, NEW b \in Nat
  PROVE  Above(a, b) \in 0 .. a /\ Above(a, 0) = a
BY DEF Above

-----------------------------------------------------------------------------
(* The booking's money, step by step.                                      *)

LEMMA InitSInv == Init => SInv
<1> SUFFICES ASSUME Init PROVE SInv
  OBVIOUS
<1>1. PInv
  BY InitPInv
<1>2. History
  BY DEF Init, History, Older, Idle
<1>3. MoneyTells
  BY DEF Init, MoneyTells, Kept, Known, Received, Refunding, NoPayment
<1> QED
  BY <1>1, <1>2, <1>3 DEF SInv

(* Charges only move on.                                                   *)
LEMMA HistoryGoesOn == SInv /\ [Next]_vars => History'
<1> SUFFICES ASSUME SInv, [Next]_vars PROVE History'
  OBVIOUS
<1> USE DEF SInv
<1>1. TypeOK /\ History /\ \A t : Older("none", t)
  BY DEF PInv, Older
<1>2. ASSUME NEW q \in Requests, Settle(q) PROVE History'
  <2>1. /\ charges' = charges
        /\ recorded' = Recorded(q)
        /\ request' = [request EXCEPT ![q].pc = "claim", ![q].list = Idle.list]
    BY <1>2 DEF Settle
  <2>2. \A c \in Charges : recorded'[c] \in {recorded[c], request[q].list[c]}
    BY <1>1, <2>1, RecordedKinds
  <2>3. \A p \in Requests : \A c \in Charges : request'[p].list[c] \in {request[p].list[c], "none"}
    BY <1>1, <2>1 DEF TypeOK, Idle
  <2> QED
    BY <1>1, <2>1, <2>2, <2>3 DEF History
<1>3. ASSUME NEW q \in Requests,
             \/ Claim(q) \/ Deliver(q) \/ Finish(q) \/ NoEmail(q) \/ Fail(q)
             \/ \E o \in {"refresh", "cancel"} : Retrieve(q, o)
      PROVE  History'
  <2>1. UNCHANGED <<recorded, charges>>
    BY <1>3 DEF Claim, Deliver, Finish, NoEmail, Fail, Retrieve, receipts
  <2>2. PICK x \in Req :
          /\ request' = [request EXCEPT ![q] = x]
          /\ x.list \in {request[q].list, charges, [c \in Charges |-> "none"]}
    BY <1>1, <1>3, ServeMoves
  <2>3. \A p \in Requests : \A c \in Charges :
          request'[p].list[c] \in {request[p].list[c], charges[c], "none"}
    BY <1>1, <2>2 DEF TypeOK
  <2> QED
    BY <1>1, <2>1, <2>3 DEF History, Older
<1>4. ASSUME NEW q \in Requests, CancelCheckout(q) PROVE History'
  <2>1. UNCHANGED <<recorded, charges>> /\ request' = [request EXCEPT ![q] = Idle]
    BY <1>4 DEF CancelCheckout, Done, receipts
  <2>2. \A p \in Requests : \A c \in Charges : request'[p].list[c] \in {request[p].list[c], "none"}
    BY <1>1, <2>1 DEF TypeOK, Idle
  <2> QED
    BY <1>1, <2>1, <2>2 DEF History, Older
<1>5. ASSUME NEW c \in Charges, Charge(c) \/ Refund(c) PROVE History'
  <2>1. UNCHANGED <<recorded, request>>
    BY <1>5 DEF Charge, Refund, receipts
  <2>2. PICK s : /\ charges' = [charges EXCEPT ![c] = s]
                 /\ charges[c] = "none" => s = "RECEIVED"
                 /\ charges[c] # "none" => s \in Later(charges[c])
    <3>1. CASE Charge(c)
      BY <3>1 DEF Charge
    <3>2. CASE Refund(c)
      BY <3>2 DEF Refund, Later
    <3> QED
      BY <1>5, <3>1, <3>2
  <2>3. \A x : Older(x, charges[c]) => Older(x, s)
    <3>1. charges[c] \in ChargeStates
      BY <1>1 DEF TypeOK
    <3> QED
      BY <2>2, <3>1 DEF Later, Older, ChargeStates
  <2>4. \A d \in Charges : charges'[d] = IF d = c THEN s ELSE charges[d]
    BY <1>1, <2>2 DEF TypeOK
  <2> QED
    BY <1>1, <2>1, <2>3, <2>4 DEF History
<1>6. CASE UNCHANGED <<recorded, charges, request>>
  BY <1>1, <1>6 DEF History
<1>7. Reserve \/ Prepare \/ Lapse \/ Sweep \/ Minute \/ Withdraw \/ Desk \/ UNCHANGED vars =>
        UNCHANGED <<recorded, charges, request>>
  BY DEF Reserve, Prepare, Lapse, Sweep, Minute, Withdraw, Desk, vars, receipts
<1> QED
  BY <1>2, <1>3, <1>4, <1>5, <1>6, <1>7 DEF Next, Serve

(* What is recorded stays recorded, and a chargeback stays one.            *)
LEMMA MoneyStays ==
  ASSUME SInv, [Next]_vars
  PROVE  /\ Known(recorded) # {} => Known(recorded') # {}
         /\ ChargedBack => ChargedBack'
<1>1. ASSUME NEW q \in Requests, Settle(q)
      PROVE  /\ Known(recorded) # {} => Known(recorded') # {}
             /\ ChargedBack => ChargedBack'
  <2>1. recorded' = Recorded(q)
    BY <1>1 DEF Settle
  <2>2. Known(recorded) \subseteq Known(recorded')
    BY <2>1, RecordedKinds DEF SInv, PInv
  <2>3. ASSUME NEW c \in Charges, recorded[c] = "CHARGEBACKED"
        PROVE  recorded'[c] = "CHARGEBACKED"
    <3>1. charges[c] = "CHARGEBACKED"
      BY <2>3 DEF SInv, History, Older
    <3>2. request[q].list[c] \in {"none", "RECEIVED", "CHARGEBACKED"}
      BY <3>1 DEF SInv, History, Older
    <3> QED
      BY <2>1, <2>3, <3>2 DEF Recorded, Listed, Skipped
  <2> QED
    BY <2>2, <2>3 DEF ChargedBack
<1>2. recorded' = recorded \/ \E q \in Requests : Settle(q)
  BY DEF Next, Serve, vars, receipts, Reserve, Prepare, Lapse, Sweep, Minute, Withdraw, Desk,
     Charge, Refund, Retrieve, Claim, Deliver, Finish, NoEmail, CancelCheckout, Fail
<1> QED
  BY <1>1, <1>2 DEF ChargedBack

(* What a settlement writes tells of its money.                            *)
LEMMA SettleTells ==
  ASSUME SInv, NEW q \in Requests, Settle(q)
  PROVE  MoneyTells'
<1> DEFINE rec == Recorded(q)
           st == IF CanConfirm(rec) THEN "CONFIRMED" ELSE status
           refund == RefundRequired(rec, st)
<1>1. /\ recorded' = rec /\ payment' = Flags(rec, refund) /\ withdrawn' = withdrawn
      /\ status' = IF refund /\ st = "PENDING" THEN "CANCELLED" ELSE st
  BY DEF Settle
<1>2. refund \in BOOLEAN
  BY DEF RefundRequired
<1>3. payment'.prepared /\ payment'.refundRequired = refund
  BY <1>1 DEF Flags
<1>4. Known(recorded) # {} => Known(rec) # {}
  BY RecordedKinds DEF SInv, PInv
<1>5. CanConfirm(rec) => status = "PENDING" /\ Known(rec) # {}
  BY DEF CanConfirm
<1>6. Kept' => Known(recorded') # {}
  BY <1>1, <1>4, <1>5 DEF Kept, SInv, MoneyTells
<1>7. withdrawn' => status' = "CANCELLED"
  BY <1>1, <1>5 DEF SInv, MoneyTells
<1>8. payment' = Flags(recorded', payment'.refundRequired)
  BY <1>1, <1>3
<1>9. status' = "PENDING" => ~refund
  BY <1>1
<1>10. Refunding' => refund
  BY <1>1 DEF Refunding, RefundRequired
<1>11. status' = "CANCELLED" /\ Received(rec) # {} => refund
  BY <1>1 DEF RefundRequired
<1> QED
  BY <1>1, <1>3, <1>6, <1>7, <1>8, <1>9, <1>10, <1>11 DEF MoneyTells

LEMMA MoneyStillTells == SInv /\ [Next]_vars => MoneyTells'
<1> SUFFICES ASSUME SInv, [Next]_vars PROVE MoneyTells'
  OBVIOUS
<1>1. MoneyTells /\ PendingIsUnpaid /\ MoneyIsReal /\ payment.prepared \in BOOLEAN
  BY DEF SInv, PInv, TypeOK
<1>2. CASE Reserve
  <2>1. status = "NONE" /\ ~payment.prepared /\ payment.refundRequired = FALSE
    BY <1>1, <1>2 DEF Reserve, MoneyIsReal, MoneyTells, NoPayment
  <2>2. status' = "PENDING" /\ UNCHANGED <<payment, withdrawn, recorded>>
    BY <1>2 DEF Reserve, receipts
  <2> QED
    BY <1>1, <2>1, <2>2 DEF MoneyTells, Kept, Refunding
<1>3. CASE Prepare
  <2>1. /\ ~payment.prepared /\ payment = NoPayment /\ Known(recorded) = {}
        /\ payment' = [payment EXCEPT !.prepared = TRUE]
        /\ UNCHANGED <<status, withdrawn, recorded>>
    BY <1>1, <1>3 DEF Prepare, MoneyIsReal, MoneyTells
  <2>2. payment' = [NoPayment EXCEPT !.prepared = TRUE]
    BY <2>1
  <2>3. payment'.prepared /\ payment'.refundRequired = FALSE
    BY <2>2 DEF NoPayment
  <2>4. \A c \in Charges : recorded[c] = "none"
    BY <2>1 DEF Known
  <2>5. payment' = Flags(recorded', FALSE)
    <3>1. Received(recorded) = {}
      BY <2>4 DEF Received
    <3> QED
      BY <2>1, <2>2, <2>4, <3>1 DEF Flags, NoPayment
  <2>6. payment' = Flags(recorded', payment'.refundRequired)
    BY <2>3, <2>5
  <2> QED
    BY <1>1, <2>1, <2>3, <2>4, <2>6 DEF MoneyTells, Kept, Refunding, Received
<1>4. CASE Sweep \/ \E q \in Requests : CancelCheckout(q)
  <2>1. /\ status = "PENDING" /\ status' = "CANCELLED"
        /\ UNCHANGED <<payment, withdrawn, recorded>>
    BY <1>4 DEF Sweep, CancelCheckout, receipts
  <2> QED
    BY <1>1, <2>1 DEF MoneyTells, PendingIsUnpaid, Kept, Refunding
<1>5. CASE Withdraw \/ Desk
  <2>1. UNCHANGED <<payment, recorded>>
    BY <1>5 DEF Withdraw, Desk, receipts
  <2>2. \/ Kept /\ status' = "CANCELLED" /\ withdrawn'
        \/ /\ Kept /\ status # "CANCELLED" /\ status' \in {"CHECKED_IN", "CHECKED_OUT"}
           /\ withdrawn' = withdrawn
    BY <1>5 DEF Withdraw, Desk, Kept
  <2>3. status # "CANCELLED" /\ ~withdrawn
    BY <1>1, <2>2 DEF MoneyTells, Kept
  <2>4. CASE status' = "CANCELLED" /\ withdrawn'
    BY <1>1, <2>1, <2>4 DEF MoneyTells, Kept, Refunding
  <2>5. CASE status' \in {"CHECKED_IN", "CHECKED_OUT"} /\ withdrawn' = withdrawn
    BY <1>1, <2>1, <2>2, <2>3, <2>5 DEF MoneyTells, Kept, Refunding
  <2> QED
    BY <2>2, <2>4, <2>5
<1>6. CASE UNCHANGED <<status, withdrawn, payment, recorded>>
  BY <1>1, <1>6 DEF MoneyTells, Kept, Refunding
<1>7. \/ UNCHANGED <<status, withdrawn, payment, recorded>>
      \/ Reserve \/ Prepare \/ Sweep \/ Withdraw \/ Desk
      \/ \E q \in Requests : Settle(q) \/ CancelCheckout(q)
  BY DEF Next, Serve, vars, booking, receipts, Lapse, Minute, Charge, Refund, Retrieve, Claim,
     Deliver, Finish, NoEmail, Fail
<1> QED
  BY <1>2, <1>3, <1>4, <1>5, <1>6, <1>7, SettleTells

LEMMA NextSInv == SInv /\ [Next]_vars => SInv'
BY NextPInv, HistoryGoesOn, MoneyStillTells DEF SInv

-----------------------------------------------------------------------------
(* Reading the row.                                                        *)

(* Money on record that the row says nothing of was charged back.          *)
LEMMA UntoldIsChargedBack ==
  ASSUME SInv, Known(recorded) # {}, RefundStatus = "none", ~(Kept /\ Paid > 0),
         status # "NONE"
  PROVE  ChargedBack
<1>1. TypeOK /\ MoneyTells /\ PendingIsUnpaid /\ EachChargeOnce /\ payment.prepared
  BY DEF SInv, PInv, MoneyIsReal
<1>2. Paid \in Nat /\ Refunded \in Nat
  BY <1>1, SumKinds DEF Paid, Refunded
<1>3. \A c \in Known(recorded) :
        /\ RowState(recorded[c]) = "COMPLETED" => Paid > 0
        /\ RowState(recorded[c]) = "REFUNDED" => Refunded > 0
  <2>1. TypeOK
    BY <1>1
  <2>2. \A c \in Known(recorded) :
          rowOf[c] \in DOMAIN rows /\ rows[rowOf[c]] = RowState(recorded[c])
    BY <1>1 DEF EachChargeOnce, TypeOK, Known
  <2>3. (\E r \in DOMAIN rows : rows[r] = "COMPLETED") => Paid > 0
    BY <2>1, SumKinds DEF Paid
  <2>4. (\E r \in DOMAIN rows : rows[r] = "REFUNDED") => Refunded > 0
    BY <2>1, SumKinds DEF Refunded
  <2> QED
    BY <2>2, <2>3, <2>4
<1>4. PICK c \in Charges : recorded[c] # "none"
  BY DEF Known
<1>5. recorded[c] \in ChargeStates
  BY <1>1 DEF TypeOK
<1>6. CASE withdrawn
  <2>1. RefundAmount = Paid /\ RefundAmount = 0 /\ ~(Refunded > 0)
    BY <1>1, <1>2, <1>6, AboveKinds DEF MoneyTells, RefundAmount, RefundStatus
  <2>2. RowState(recorded[c]) = "FAILED"
    BY <1>2, <1>3, <1>4, <2>1 DEF RowState, Known
  <2> QED
    BY <1>4, <1>5, <2>2 DEF RowState, ChargedBack
<1>7. CASE ~withdrawn
  <2>1. payment.refundStatus = "none"
    BY <1>7 DEF RefundStatus, RefundAmount
  <2>2. payment = Flags(recorded, payment.refundRequired)
    BY <1>1 DEF MoneyTells
  <2>3. /\ ~payment.refundRequired
        /\ Received(recorded) = {} => \A d \in Charges : recorded[d] # "REFUNDED"
    <3>1. PICK flag : flag = payment.refundRequired
      OBVIOUS
    <3>2. Flags(recorded, flag).refundStatus = "none"
      BY <2>1, <2>2, <3>1
    <3> QED
      BY <3>1, <3>2 DEF Flags
  <2>4. ~Refunding
    BY <1>1, <2>3 DEF MoneyTells
  <2>5. Received(recorded) = {}
    <3>1. CASE Kept
      <4> SUFFICES ASSUME NEW d \in Received(recorded) PROVE FALSE
        OBVIOUS
      <4>1. d \in Known(recorded) /\ RowState(recorded[d]) = "COMPLETED"
        BY DEF Received, Known, RowState
      <4> QED
        BY <1>3, <3>1, <4>1
    <3>2. CASE ~Kept
      <4>1. status \in {"PENDING", "CANCELLED"}
        BY <1>1, <3>2 DEF TypeOK, Kept
      <4> QED
        BY <1>1, <1>7, <2>3, <4>1 DEF PendingIsUnpaid, MoneyTells
    <3> QED
      BY <3>1, <3>2
  <2>6. recorded[c] \notin {"RECEIVED", "REFUNDED", "REFUND REQUESTED", "REFUND PROCESSING"}
    BY <2>3, <2>4, <2>5 DEF Received, Refunding
  <2> QED
    BY <1>4, <1>5, <2>6 DEF ChargeStates, ChargedBack
<1> QED
  BY <1>6, <1>7

(* A row as it is read.                                                    *)
LEMMA RowReads ==
  ASSUME SInv, status # "NONE"
  PROVE  Row \in RowKind /\ RowHolds(Row)
<1>1. TypeOK /\ MoneyTells
  BY DEF SInv, PInv
<1>2. Paid \in 0 .. (Cardinality(Charges) + 1) * Amount /\ Paid \in Nat /\ Refunded \in Nat
  BY <1>1, SumKinds DEF Paid, Refunded
<1>3. Balance \in 0 .. Total /\ (status = "CANCELLED" => Balance = 0)
      /\ (Kept => Balance = Above(Total, Paid))
  <2>1. Above(Total, Paid) \in 0 .. Total /\ 0 \in 0 .. Total
    <3>1. Total \in Nat /\ Paid \in Nat
      BY <1>2, AmountAssumption
    <3> QED
      BY <3>1, AboveKinds
  <2>2. Balance \in {0, Above(Total, Paid)}
    BY DEF Balance
  <2>3. Kept => Balance = Above(Total, Paid)
    BY DEF Balance, Kept
  <2>4. status = "CANCELLED" => Balance = 0
    BY DEF Balance
  <2> QED
    BY <2>1, <2>2, <2>3, <2>4
<1>4. payment.refundStatus \in {"none", "PENDING", "REFUNDED"}
  BY <1>1 DEF TypeOK
<1>5. RefundStatus \in {"none", "PENDING", "REFUNDED"}
  BY <1>4 DEF RefundStatus
<1>6. /\ PaymentState \in {"REVIEW_REQUIRED", "REFUNDED", "PAID", "CANCELLED", "EXPIRED",
                           "PENDING"}
      /\ Kept => PaymentState # "EXPIRED"
  BY <1>4 DEF PaymentState
<1>7. ASSUME status = "PENDING", PaymentState = "PENDING"
      PROVE  RefundStatus = "none"
  <2>1. ~withdrawn /\ ~payment.refundRequired
    BY <1>1, <1>7 DEF MoneyTells
  <2>2. payment.refundStatus # "PENDING"
    <3>1. PICK flag : flag = payment.refundRequired
      OBVIOUS
    <3>2. CASE payment.prepared
      <4>1. payment = Flags(recorded, flag)
        BY <1>1, <3>1, <3>2 DEF MoneyTells
      <4>2. ~flag
        BY <2>1, <3>1
      <4> QED
        BY <4>1, <4>2 DEF Flags
    <3>3. CASE ~payment.prepared
      BY <1>1, <3>3 DEF MoneyTells, NoPayment
    <3> QED
      BY <3>2, <3>3
  <2>3. payment.refundStatus = "none"
    BY <1>4, <1>7, <2>1, <2>2 DEF PaymentState, ManagementReview
  <2> QED
    BY <2>1, <2>3 DEF RefundStatus, RefundAmount
<1>8. PICK told : told = (Known(recorded) # {}) /\ told \in BOOLEAN
  OBVIOUS
<1>9. PICK st \in {"PENDING", "CONFIRMED", "CANCELLED"} :
        /\ st = IF Kept THEN "CONFIRMED" ELSE status
        /\ Kept <=> st = "CONFIRMED"
  BY <1>1 DEF TypeOK, Kept
<1>10. Row = [status |-> st, charged |-> told, paid |-> Paid, balance |-> Balance,
              refundStatus |-> RefundStatus, paymentState |-> PaymentState]
  BY <1>8, <1>9 DEF Row
<1>11. Row \in RowKind
  BY <1>2, <1>3, <1>5, <1>6, <1>8, <1>9, <1>10 DEF RowKind
<1>12. st = "CONFIRMED" => told
  BY <1>1, <1>8, <1>9 DEF MoneyTells
<1>13. told => Known(recorded) # {} /\ (Telling(Row) \/ ChargedBack)
  BY <1>8, <1>9, <1>10, UntoldIsChargedBack DEF Telling
<1>14. st = "PENDING" /\ PaymentState = "PENDING" => RefundStatus = "none"
  BY <1>7, <1>9
<1>15. st = "CANCELLED" => Balance = 0
  BY <1>3, <1>9
<1>16. st = "CONFIRMED" => Balance = Above(Total, Paid) /\ PaymentState # "EXPIRED"
  BY <1>3, <1>6, <1>9
<1> QED
  BY <1>9, <1>10, <1>11, <1>12, <1>13, <1>14, <1>15, <1>16 DEF RowHolds

(* The flags that come second: they can only add a review, and say so of   *)
(* a charge that was charged back.                                         *)
LEMMA SeenReads ==
  ASSUME SInv, page \in [pc : {"idle", "metadata"}, row : RowKind, seen : SeenKind],
         page.pc = "metadata", RowHolds(page.row),
         NEW s, s = Seen(Overlay(page.row))
  PROVE  /\ s \in SeenKind
         /\ s.heading = "unavailable" => s.status \in {"none", "PENDING"}
         /\ s.heading \in {"closed", "pending"} => ~page.row.charged
         /\ s.charged = page.row.charged
         /\ s.payable => ~page.row.charged
         /\ s.heading = "confirmed" => page.row.charged
<1> DEFINE r == page.row
<1>1. r \in RowKind
  OBVIOUS
<1>2. PICK state : state = IF payment.reviewRequired THEN "REVIEW_REQUIRED" ELSE r.paymentState
  OBVIOUS
<1>3. PICK o : o = Overlay(r)
  OBVIOUS
<1>4. /\ o.status = r.status /\ o.charged = r.charged /\ o.paid = r.paid
      /\ o.balance = r.balance /\ o.refundStatus = r.refundStatus
      /\ o.paymentState = state
  BY <1>1, <1>2, <1>3 DEF Overlay, RowKind
<1>5. ChargedBack => state = "REVIEW_REQUIRED"
  <2> SUFFICES ASSUME ChargedBack PROVE payment.reviewRequired
    BY <1>2
  <2>1. Known(recorded) # {}
    BY DEF ChargedBack, Known
  <2>2. payment = Flags(recorded, payment.refundRequired)
    BY <2>1 DEF SInv, PInv, MoneyIsReal, MoneyTells
  <2>3. PICK flag : flag = payment.refundRequired
    OBVIOUS
  <2>4. Flags(recorded, flag).reviewRequired
    BY DEF Flags, ChargedBack
  <2> QED
    BY <2>2, <2>3, <2>4
<1>6. PICK ok : ok = Accepts(o) /\ ok \in BOOLEAN
  BY DEF Accepts
<1>7. PICK pays : pays = (Accepts(o) /\ Payable(o)) /\ pays \in BOOLEAN
  BY DEF Payable
<1>8. PICK h : h = IF ok THEN Heading(o) ELSE "unavailable"
  OBVIOUS
<1>9. s = [status |-> r.status, charged |-> r.charged, payable |-> pays, heading |-> h]
  BY <1>3, <1>4, <1>6, <1>7, <1>8 DEF Seen
<1>10. h \in Headings
  BY <1>8 DEF Heading, Headings
<1>11. s \in SeenKind
  BY <1>1, <1>7, <1>9, <1>10 DEF SeenKind, RowKind
<1>12. r.status \in {"CONFIRMED", "CANCELLED"} => ok
  <2>1. r.status = "CANCELLED" => Accepts(o)
    BY <1>4 DEF Accepts, RowHolds
  <2>2. r.status = "CONFIRMED" => Accepts(o)
    <3>1. r.status = "CONFIRMED" => state # "EXPIRED"
      BY <1>2 DEF RowHolds
    <3> QED
      BY <1>4, <3>1 DEF Accepts, RowHolds
  <2> QED
    BY <1>6, <2>1, <2>2
<1>13. h = "unavailable" => ~ok
  BY <1>8 DEF Heading
<1>14. h = "unavailable" => r.status \in {"none", "PENDING"}
  BY <1>1, <1>12, <1>13 DEF RowKind
<1>15. r.refundStatus \in {"none", "PENDING", "REFUNDED"}
  BY <1>1 DEF RowKind
<1>16. h \in {"closed", "pending"} => ~r.charged
  <2>1. h \in {"closed", "pending"} => ~Telling(r) /\ state # "REVIEW_REQUIRED"
    BY <1>4, <1>8, <1>15 DEF Heading, Telling
  <2> QED
    BY <1>5, <2>1 DEF RowHolds
<1>17. pays => ~r.charged
  <2>1. pays => r.status = "PENDING" /\ state = "PENDING"
    BY <1>4, <1>7 DEF Payable
  <2>2. pays => r.paymentState = "PENDING"
    BY <1>2, <2>1
  <2>3. pays => ~Telling(r)
    BY <2>1, <2>2 DEF RowHolds, Telling
  <2> QED
    BY <1>5, <2>1, <2>3 DEF RowHolds
<1>18. h = "confirmed" => r.charged
  <2>1. h = "confirmed" => r.status = "CONFIRMED"
    BY <1>4, <1>8 DEF Heading
  <2> QED
    BY <2>1 DEF RowHolds
<1> QED
  BY <1>9, <1>11, <1>14, <1>16, <1>17, <1>18

-----------------------------------------------------------------------------
(* The page keeps its invariant.                                           *)

LEMMA InitPageInv == StatusInit => SInv /\ PageInv
<1> SUFFICES ASSUME StatusInit PROVE SInv /\ PageInv
  OBVIOUS
<1>1. SInv
  BY InitSInv DEF StatusInit
<1>2. page = [pc |-> "idle", row |-> NoRow, seen |-> Nobody]
  BY DEF StatusInit
<1>3. Cardinality(Charges) \in Nat
  BY FS_CardinalityType, AmountAssumption
<1>4. (Cardinality(Charges) + 1) * Amount \in Nat
  BY <1>3, AmountAssumption
<1>5. 0 \in 0 .. (Cardinality(Charges) + 1) * Amount /\ 0 \in 0 .. Total
  BY <1>4, AmountAssumption
<1>6. NoRow \in RowKind /\ Nobody \in SeenKind
  BY <1>5 DEF NoRow, Nobody, RowKind, SeenKind, Headings
<1>7. SeenHolds(page.seen)
  BY <1>2 DEF SeenHolds, Nobody
<1> QED
  BY <1>1, <1>2, <1>6, <1>7 DEF PageInv

LEMMA NextPageInv == SInv /\ PageInv /\ [StatusNext]_allVars => SInv' /\ PageInv'
<1> SUFFICES ASSUME SInv, PageInv, [StatusNext]_allVars PROVE SInv' /\ PageInv'
  OBVIOUS
<1>1. [Next]_vars
  BY DEF StatusNext, allVars, ReadRow, ReadMetadata, ReadFails
<1>2. SInv'
  BY <1>1, NextSInv
<1>3. /\ Known(recorded) # {} => Known(recorded') # {}
      /\ ChargedBack => ChargedBack'
  BY <1>1, MoneyStays
<1>4. /\ page \in [pc : {"idle", "metadata"}, row : RowKind, seen : SeenKind]
      /\ page.pc = "metadata" => RowHolds(page.row)
      /\ SeenHolds(page.seen)
  BY DEF PageInv
<1>5. NoRow \in RowKind /\ Nobody \in SeenKind
  <2>1. Cardinality(Charges) \in Nat
    BY FS_CardinalityType, AmountAssumption
  <2>2. (Cardinality(Charges) + 1) * Amount \in Nat
    BY <2>1, AmountAssumption
  <2>3. 0 \in 0 .. (Cardinality(Charges) + 1) * Amount /\ 0 \in 0 .. Total
    BY <2>2, AmountAssumption
  <2> QED
    BY <2>3 DEF NoRow, Nobody, RowKind, SeenKind, Headings
<1>6. CASE UNCHANGED page
  <2>1. page.pc = "metadata" => RowHolds(page.row)'
    BY <1>3, <1>4, <1>6 DEF RowHolds, Telling
  <2>2. SeenHolds(page.seen)'
    BY <1>3, <1>4, <1>6 DEF SeenHolds
  <2> QED
    BY <1>2, <1>4, <1>6, <2>1, <2>2 DEF PageInv
<1>7. CASE ReadRow
  <2>1. UNCHANGED recorded /\ status # "NONE"
    BY <1>7 DEF ReadRow, vars, receipts
  <2>2. Row \in RowKind /\ RowHolds(Row)
    BY <2>1, RowReads
  <2>3. PICK r : r = Row
    OBVIOUS
  <2>4. /\ page' = [pc |-> "metadata", row |-> r, seen |-> page.seen]
        /\ r \in RowKind /\ RowHolds(r)
    <3>1. page' = [page EXCEPT !.pc = "metadata", !.row = r]
      BY <1>7, <2>3 DEF ReadRow
    <3> QED
      BY <1>4, <2>2, <2>3, <3>1
  <2>5. RowHolds(page.row)'
    <3>1. page'.row = r /\ Known(recorded') = Known(recorded)
      BY <2>1, <2>4
    <3>2. ChargedBack => ChargedBack'
      BY <2>1 DEF ChargedBack
    <3> QED
      BY <2>4, <3>1, <3>2 DEF RowHolds, Telling
  <2>6. page.seen.heading = "confirmed" => r.charged
    <3>1. Known(recorded) # {} => r.charged
      BY <2>3, <1>4 DEF Row
    <3> QED
      BY <1>4, <3>1 DEF SeenHolds
  <2>7. SeenHolds(page.seen)'
    <3>1. page'.seen = page.seen /\ page'.row = r /\ Known(recorded') = Known(recorded)
      BY <2>1, <2>4
    <3> QED
      BY <1>4, <2>6, <3>1 DEF SeenHolds
  <2> QED
    BY <1>2, <1>4, <2>4, <2>5, <2>7 DEF PageInv
<1>8. CASE ReadMetadata
  <2>1. PICK s : s = Seen(Overlay(page.row))
    OBVIOUS
  <2>2. /\ page.pc = "metadata" /\ UNCHANGED recorded
        /\ page' = [pc |-> "idle", row |-> NoRow, seen |-> s]
    BY <1>8, <2>1 DEF ReadMetadata, vars, receipts
  <2>3. /\ s \in SeenKind
        /\ s.heading = "unavailable" => s.status \in {"none", "PENDING"}
        /\ s.heading \in {"closed", "pending"} => ~page.row.charged
        /\ s.charged = page.row.charged
        /\ s.payable => ~page.row.charged
        /\ s.heading = "confirmed" => page.row.charged
    BY <1>4, <2>1, <2>2, SeenReads
  <2>4. SeenHolds(page.seen)'
    BY <1>4, <2>2, <2>3 DEF SeenHolds, RowHolds
  <2> QED
    BY <1>2, <1>5, <2>2, <2>3, <2>4 DEF PageInv
<1>9. CASE ReadFails
  <2>1. PICK s : s = [Nobody EXCEPT !.heading = "unavailable"]
    OBVIOUS
  <2>2. page' = [pc |-> "idle", row |-> NoRow, seen |-> s]
    BY <1>9, <2>1 DEF ReadFails
  <2>3. /\ s \in SeenKind /\ s.heading = "unavailable" /\ s.status = "none"
        /\ ~s.payable
    BY <2>1 DEF Nobody, SeenKind, Headings
  <2>4. SeenHolds(page.seen)'
    BY <2>2, <2>3 DEF SeenHolds
  <2> QED
    BY <1>2, <1>5, <2>2, <2>3, <2>4 DEF PageInv
<1>10. UNCHANGED page \/ ReadRow \/ ReadMetadata \/ ReadFails
  BY DEF StatusNext, allVars
<1> QED
  BY <1>6, <1>7, <1>8, <1>9, <1>10

LEMMA SpecPageInv == StatusSpec => [](SInv /\ PageInv)
BY InitPageInv, NextPageInv, PTL DEF StatusSpec

-----------------------------------------------------------------------------
(* What follows.                                                           *)

(* The status page loads for every settled booking, and neither calls a    *)
(* charged checkout closed nor offers to pay it again, however settlements *)
(* come between its two reads.                                             *)
THEOREM PageNeverMisleads == StatusSpec => []PageTells
<1>1. SInv /\ PageInv => PageTells
  <2> SUFFICES ASSUME SInv, PageInv PROVE PageTells
    OBVIOUS
  <2>1. TypeOK /\ PendingIsUnpaid
    BY DEF SInv, PInv
  <2>2. /\ page \in [pc : {"idle", "metadata"}, row : RowKind, seen : SeenKind]
        /\ SeenHolds(page.seen)
    BY DEF PageInv
  <2>3. PageTypeOK
    BY <2>2 DEF PageTypeOK, RowKind, SeenKind
  <2>4. PageLoads /\ ClosedIsUncharged /\ PayableIsUncharged
    BY <2>2 DEF SeenHolds, PageLoads, ClosedIsUncharged, PayableIsUncharged
  <2> QED
    BY <2>1, <2>3, <2>4 DEF PageTells
<1> QED
  BY <1>1, SpecPageInv, PTL

(* "Your stay is confirmed" is never followed by a page that has forgotten *)
(* the money.                                                              *)
THEOREM ConfirmationStands == StatusSpec => ConfirmedNotForgotten
<1>1. SInv /\ PageInv /\ [StatusNext]_allVars =>
        [page.seen.heading = "confirmed" =>
           page'.seen.heading \notin {"pending", "closed"}]_allVars
  <2> SUFFICES ASSUME SInv, PageInv, [StatusNext]_allVars,
                      page.seen.heading = "confirmed"
               PROVE  page'.seen.heading \notin {"pending", "closed"}
    OBVIOUS
  <2>1. CASE UNCHANGED page
    BY <2>1
  <2>2. CASE ReadRow
    <3>1. page'.seen = page.seen
      BY <2>2 DEF ReadRow, PageInv
    <3> QED
      BY <3>1
  <2>3. CASE ReadMetadata
    <3>1. PICK s : s = Seen(Overlay(page.row))
      OBVIOUS
    <3>2. page.pc = "metadata" /\ page' = [pc |-> "idle", row |-> NoRow, seen |-> s]
      BY <2>3, <3>1 DEF ReadMetadata
    <3>3. page.row.charged
      BY <3>2 DEF PageInv, SeenHolds
    <3>4. s.heading \in {"closed", "pending"} => ~page.row.charged
      BY <3>1, <3>2, SeenReads DEF PageInv
    <3> QED
      BY <3>2, <3>3, <3>4
  <2>4. CASE ReadFails
    BY <2>4 DEF ReadFails, Nobody
  <2> QED
    BY <2>1, <2>2, <2>3, <2>4 DEF StatusNext, allVars
<1> QED
  BY <1>1, SpecPageInv, PTL DEF StatusSpec, ConfirmedNotForgotten

(* The status page and My Bookings tell one story of the booking.          *)
THEOREM StoriesAgree == StatusSpec => []SameStory
<1>1. SInv => SameStory
  <2> SUFFICES ASSUME SInv, status # "NONE"
               PROVE  /\ DashboardBalance = Balance
                      /\ Badge = "Confirmed" => Heading(Overlay(Row)) \notin {"closed", "pending"}
                      /\ Badge \in {"Expired", "Cancelled"} =>
                           Heading(Overlay(Row)) \notin {"confirmed", "pending"}
    BY DEF SameStory
  <2>1. DashboardBalance = Balance
    BY DEF DashboardBalance, Balance, HoldExpired
  <2>2. PICK r : r = Row
    OBVIOUS
  <2>3. r \in RowKind /\ RowHolds(r)
    BY <2>2, RowReads
  <2>4. PICK state :
          state = IF payment.reviewRequired THEN "REVIEW_REQUIRED" ELSE r.paymentState
    OBVIOUS
  <2>5. PICK o : o = Overlay(r)
    OBVIOUS
  <2>6. /\ o.status = r.status /\ o.paid = r.paid /\ o.refundStatus = r.refundStatus
        /\ o.paymentState = state
    BY <2>3, <2>4, <2>5 DEF Overlay, RowKind
  <2>7. /\ Kept => r.status = "CONFIRMED"
        /\ ~Kept => r.status = status
        /\ r.paymentState = PaymentState /\ r.refundStatus = RefundStatus
    BY <2>2 DEF Row
  <2>8. Badge = "Confirmed" => Heading(o) \notin {"closed", "pending"}
    <3> SUFFICES ASSUME Badge = "Confirmed" PROVE Heading(o) \notin {"closed", "pending"}
      OBVIOUS
    <3>1. Kept
      BY DEF Badge, HoldExpired, SInv, PInv, TypeOK, Kept
    <3>2. Telling(r) \/ ChargedBack
      BY <2>3, <2>7, <3>1 DEF RowHolds
    <3>3. CASE Telling(r)
      BY <2>3, <2>6, <3>3 DEF Telling, Heading, RowKind
    <3>4. CASE ChargedBack
      <4>1. payment = Flags(recorded, payment.refundRequired)
        <5>1. Known(recorded) # {}
          BY <3>4 DEF ChargedBack, Known
        <5> QED
          BY <5>1 DEF SInv, PInv, MoneyIsReal, MoneyTells
      <4>2. PICK flag : flag = payment.refundRequired
        OBVIOUS
      <4>3. Flags(recorded, flag).reviewRequired
        BY <3>4 DEF Flags, ChargedBack
      <4>4. payment.reviewRequired
        BY <4>1, <4>2, <4>3
      <4> QED
        BY <2>4, <2>6, <4>4 DEF Heading
    <3> QED
      BY <3>2, <3>3, <3>4
  <2>9. Badge \in {"Expired", "Cancelled"} => Heading(o) \notin {"confirmed", "pending"}
    <3> SUFFICES ASSUME Badge \in {"Expired", "Cancelled"}
                 PROVE  Heading(o) \notin {"confirmed", "pending"}
      OBVIOUS
    <3>1. ~Kept /\ r.status # "CONFIRMED" /\ (status = "CANCELLED" \/ HoldExpired)
      BY <2>7 DEF Badge, HoldExpired, Kept
    <3>2. CASE status = "CANCELLED"
      BY <2>6, <2>7, <3>1, <3>2 DEF Heading
    <3>3. CASE HoldExpired
      <4>1. ~withdrawn
        BY <3>3 DEF HoldExpired, SInv, MoneyTells
      <4>2. \/ PaymentState = "EXPIRED" /\ payment.refundStatus = "none"
            \/ payment.refundStatus # "none"
        BY <3>1, <3>3, <4>1 DEF PaymentState, ManagementReview, HoldExpired
      <4>3. RefundStatus = payment.refundStatus
        BY <4>1 DEF RefundStatus, RefundAmount
      <4>4. payment.refundStatus \in {"none", "PENDING", "REFUNDED"}
        BY DEF SInv, PInv, TypeOK
      <4> QED
        BY <2>4, <2>6, <2>7, <3>1, <4>2, <4>3, <4>4 DEF Heading
    <3> QED
      BY <3>1, <3>2, <3>3
  <2> QED
    BY <2>1, <2>2, <2>5, <2>8, <2>9
<1> QED
  BY <1>1, SpecPageInv, PTL

=============================================================================
