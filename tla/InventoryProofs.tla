-------------------------- MODULE InventoryProofs --------------------------
(***************************************************************************)
(* Proofs about Inventory, for every set of bookings, rooms, types, stays  *)
(* and connections and all durations.  First the types and how long a hold *)
(* lasts; then the protocol: what the locks guarantee about the            *)
(* transactions that are open; then the plan of rooms, how each step turns *)
(* one plan into the next: no overbooking, for every instance.  The        *)
(* protocol also gives that a count stays true until it is used, that      *)
(* rooms are sold under their lock, that every booking keeps HoldPromise,  *)
(* and that the searches show what checkout would sell.                    *)
(***************************************************************************)
EXTENDS Inventory, FiniteSetTheorems, TLAPS

(* The row standing for a missing booking, and the record of a connection  *)
(* with no transaction open, are well typed.                               *)
LEMMA NoBookingType == NoBooking \in Booking
<1>1. (CHOOSE t \in Types : TRUE) \in Types
  BY InventoryAssumption
<1>2. (CHOOSE s \in Stays : TRUE) \in Stays
  BY InventoryAssumption
<1> QED
  BY <1>1, <1>2 DEF NoBooking, Booking, Statuses

LEMMA NoTxnType == NoTxn \in Txn /\ NoTxn.pc = "idle"
<1>1. (CHOOSE t \in Types : TRUE) \in Types
  BY InventoryAssumption
<1>2. (CHOOSE s \in Stays : TRUE) \in Stays
  BY InventoryAssumption
<1> QED
  BY <1>1, <1>2 DEF NoTxn, Txn

(* Ending a transaction gives a table of locks back to itself.             *)
LEMMA WithoutType ==
  ASSUME NEW S, NEW lock \in [S -> Procs \cup {NoProc}], NEW p
  PROVE  /\ Without(lock, p) \in [S -> Procs \cup {NoProc}]
         /\ \A x \in S : \A q : q # NoProc =>
              (Without(lock, p)[x] = q <=> (q # p /\ lock[x] = q))
BY DEF Without

LEMMA EndType ==
  ASSUME TypeOK, NEW p \in Procs, End(p)
  PROVE  /\ now' \in Nat
         /\ typeLock' \in [Types -> Procs \cup {NoProc}]
         /\ rowLock' \in [Ids -> Procs \cup {NoProc}]
         /\ txn' \in [Procs -> Txn]
         /\ txn'[p] = NoTxn
         /\ \A q \in Procs : q # p => txn'[q] = txn[q]
BY WithoutType, NoTxnType DEF TypeOK, End

LEMMA DecideType ==
  ASSUME TypeOK, NEW p \in Procs, Decide(p)
  PROVE  /\ TypeOK'
         /\ txn'[p] = [txn[p] EXCEPT !.pc = "commit", !.seen = now]
         /\ \A q \in Procs : q # p => txn'[q] = txn[q]
<1>1. txn[p] \in Txn
  BY DEF TypeOK
<1>2. txn'[p] = [txn[p] EXCEPT !.pc = "commit", !.seen = now]
  BY DEF Decide, TypeOK
<1>3. txn'[p] \in Txn
  BY <1>1, <1>2 DEF Txn, TypeOK
<1>4. rowLock' \in [Ids -> Procs \cup {NoProc}]
  BY <1>1 DEF Decide, TypeOK, Txn
<1> QED
  BY <1>2, <1>3, <1>4 DEF Decide, TypeOK

LEMMA ChangedType ==
  ASSUME NEW b \in Booking, NEW T \in Types, NEW S \in Stays
  PROVE  Changed(b, T, S) \in Booking
<1> DEFINE r == IF b.type # T \/ b.stay # S THEN NoRoom ELSE b.room
<1>1. r \in Rooms \cup {NoRoom}
  BY DEF Booking
<1>2. Changed(b, T, S) = [b EXCEPT !.type = T, !.stay = S, !.room = r]
  BY DEF Changed
<1> HIDE DEF r
<1> QED
  BY <1>1, <1>2 DEF Booking

LEMMA TypeInit == Init => TypeOK
BY NoBookingType, NoTxnType DEF Init, TypeOK

LEMMA TypeNext == TypeOK /\ [Next]_vars => TypeOK'
<1> SUFFICES ASSUME TypeOK, [Next]_vars PROVE TypeOK'
  OBVIOUS
<1>1. CASE UNCHANGED vars
  BY <1>1 DEF vars, TypeOK
<1>2. CASE Tick
  BY <1>2 DEF Tick, TypeOK
<1>3. ASSUME NEW p \in Procs, BeginReserve(p) PROVE TypeOK'
  BY <1>3 DEF BeginReserve, TypeOK, Txn, Ops
<1>4. ASSUME NEW p \in Procs, BeginPayment(p) PROVE TypeOK'
  BY <1>4 DEF BeginPayment, TypeOK, Txn, Ops, Booking
<1>5. ASSUME NEW p \in Procs, BeginManagement(p) PROVE TypeOK'
  BY <1>5 DEF BeginManagement, TypeOK, Txn, Ops, Booking
<1>6. ASSUME NEW p \in Procs, LockType(p) PROVE TypeOK'
  BY <1>6 DEF LockType, TypeOK, Txn, Need
<1>7. ASSUME NEW p \in Procs, Rollback(p) PROVE TypeOK'
  BY <1>7, EndType DEF Rollback, TypeOK
<1>8. ASSUME NEW p \in Procs,
             \/ ReserveCheck(p) \/ PrepareCheck(p)
             \/ SettleCheck(p) \/ ModifyCheck(p)
      PROVE  TypeOK'
  BY <1>8, DecideType DEF ReserveCheck, PrepareCheck, SettleCheck, ModifyCheck
<1>9. ASSUME NEW p \in Procs, Reserve(p) PROVE TypeOK'
  <2>1. txn[p] \in Txn
    BY DEF TypeOK
  <2>2. PICK n \in Ids, clock \in txn[p].seen .. now :
          bookings' = [b \in Ids |->
            IF b = n THEN NewHold(p, clock + Hold)
            ELSE IF Swept(b, txn[p].type)
                 THEN [bookings[b] EXCEPT !.status = "CANCELLED"]
                 ELSE bookings[b]]
    BY <1>9 DEF Reserve
  <2>3. clock \in Nat
    BY <2>1, <2>2 DEF Txn, TypeOK
  <2>4. NewHold(p, clock + Hold) \in Booking
    BY <2>1, <2>3, TransactionAssumption
    DEF NewHold, Booking, Txn, Statuses, ActiveStatuses
  <2>5. \A b \in Ids : [bookings[b] EXCEPT !.status = "CANCELLED"] \in Booking
    BY DEF TypeOK, Booking, Statuses
  <2>6. bookings' \in [Ids -> Booking]
    BY <2>2, <2>4, <2>5 DEF TypeOK
  <2> QED
    BY <1>9, <2>6, EndType DEF Reserve, TypeOK
<1>10. ASSUME NEW p \in Procs, Prepare(p) PROVE TypeOK'
  <2>1. txn[p] \in Txn
    BY DEF TypeOK
  <2>2. txn[p].seen + PayHold \in Nat
    BY <2>1, TransactionAssumption DEF Txn
  <2>3. bookings' \in [Ids -> Booking]
    <3>1. bookings' = [bookings EXCEPT ![txn[p].id].hold = txn[p].seen + PayHold,
                                       ![txn[p].id].renewed = TRUE]
      BY <1>10 DEF Prepare
    <3>2. bookings \in [Ids -> Booking]
      BY DEF TypeOK
    <3>3. /\ DOMAIN bookings' = Ids /\ bookings' = [b \in Ids |-> bookings'[b]]
          /\ \A b \in Ids : bookings'[b] =
               IF b = txn[p].id
               THEN [bookings[b] EXCEPT !.hold = txn[p].seen + PayHold, !.renewed = TRUE]
               ELSE bookings[b]
      BY <3>1, <3>2
    <3>4. ASSUME NEW b \in Ids PROVE bookings'[b] \in Booking
      <4>1. bookings[b] \in Booking
        BY <3>2
      <4>2. [bookings[b] EXCEPT !.hold = txn[p].seen + PayHold, !.renewed = TRUE] \in Booking
        BY <2>2, <4>1 DEF Booking
      <4> QED
        BY <3>3, <4>1, <4>2
    <3> QED
      BY <3>3, <3>4
  <2> QED
    BY <1>10, <2>3, EndType DEF Prepare, TypeOK
<1>11. ASSUME NEW p \in Procs,
              \/ Settle(p) \/ SettleLate(p) \/ CancelHold(p) \/ Withdraw(p)
       PROVE  TypeOK'
  <2>1. bookings' \in [Ids -> Booking]
    BY <1>11 DEF Settle, SettleLate, CancelHold, Withdraw, Cancelled,
                 TypeOK, Booking, Statuses, ActiveStatuses
  <2> QED
    BY <1>11, <2>1, EndType
    DEF Settle, SettleLate, CancelHold, Withdraw, TypeOK
<1>12. ASSUME NEW p \in Procs, Modify(p) PROVE TypeOK'
  <2>1. txn[p] \in Txn
    BY DEF TypeOK
  <2>2. \A b \in Ids :
          Changed(bookings[b], txn[p].type, txn[p].stay) \in Booking
    BY <2>1, ChangedType DEF TypeOK, Txn
  <2>3. bookings' \in [Ids -> Booking]
    BY <1>12, <2>2 DEF Modify, TypeOK
  <2> QED
    BY <1>12, <2>3, EndType DEF Modify, TypeOK
<1>13. ASSUME NEW b \in Ids, FrontDesk(b) PROVE TypeOK'
  <2>1. ASSUME NEW nb \in Booking, DeskWrites(b, nb) PROVE TypeOK'
    BY <2>1 DEF DeskWrites, TypeOK
  <2>2. CASE WalkIn(b)
    BY <2>1, <2>2 DEF WalkIn, Booking, Statuses, ActiveStatuses
  <2>3. CASE CheckIn(b)
    <3>1. PICK r \in Rooms :
            \/ DeskWrites(b, [bookings[b] EXCEPT !.status = "CHECKED_IN",
                                                 !.room = r])
            \/ DeskWrites(b, [bookings[b] EXCEPT !.room = r])
      BY <2>3 DEF CheckIn
    <3>2. /\ [bookings[b] EXCEPT !.status = "CHECKED_IN", !.room = r]
               \in Booking
          /\ [bookings[b] EXCEPT !.room = r] \in Booking
      BY DEF TypeOK, Booking, Statuses, ActiveStatuses
    <3> QED
      BY <2>1, <3>1, <3>2
  <2>4. CASE CheckOut(b)
    <3>1. [bookings[b] EXCEPT !.status = "CHECKED_OUT"] \in Booking
      BY DEF TypeOK, Booking, Statuses
    <3> QED
      BY <2>1, <2>4, <3>1 DEF CheckOut
  <2> QED
    BY <1>13, <2>2, <2>3, <2>4 DEF FrontDesk
<1> QED
  BY <1>1, <1>2, <1>3, <1>4, <1>5, <1>6, <1>7, <1>8, <1>9, <1>10, <1>11,
     <1>12, <1>13 DEF Next, Website

(* Every reachable state is one of the schema and of the protocol.         *)
THEOREM TypeCorrect == Spec => []TypeOK
BY TypeInit, TypeNext, PTL DEF Spec

-----------------------------------------------------------------------------
(* The clock a decision was made at is never ahead of the clock.           *)
SeenPast == \A p \in Procs : txn[p].seen <= now

LEMMA SeenNext == TypeOK /\ SeenPast /\ [Next]_vars => SeenPast'
<1> SUFFICES ASSUME TypeOK, SeenPast, [Next]_vars PROVE SeenPast'
  OBVIOUS
<1>1. CASE UNCHANGED vars
  BY <1>1 DEF vars, SeenPast
<1>2. CASE Tick
  <2>1. \A p \in Procs : txn[p].seen \in Nat
    BY DEF TypeOK, Txn
  <2> QED
    BY <1>2, <2>1 DEF Tick, SeenPast, TypeOK
<1>3. ASSUME NEW p \in Procs,
             BeginReserve(p) \/ BeginPayment(p) \/ BeginManagement(p) \/ LockType(p)
      PROVE  SeenPast'
  BY <1>3
  DEF BeginReserve, BeginPayment, BeginManagement, LockType, SeenPast, TypeOK, Txn
<1>4. ASSUME NEW p \in Procs, End(p) PROVE SeenPast'
  <2>1. NoTxn.seen = 0
    BY DEF NoTxn
  <2> QED
    BY <1>4, <2>1, EndType DEF SeenPast, TypeOK, End
<1>5. ASSUME NEW p \in Procs, Decide(p) PROVE SeenPast'
  <2>1. txn[p] \in Txn /\ now \in Nat
    BY DEF TypeOK
  <2>2. txn'[p].seen = now
    BY <2>1, <1>5, DecideType DEF Txn
  <2>3. now' = now
    BY <1>5 DEF Decide
  <2>4. \A q \in Procs \ {p} : txn'[q].seen <= now'
    BY <1>5, <2>3, DecideType DEF SeenPast
  <2> QED
    BY <2>1, <2>2, <2>3, <2>4 DEF SeenPast
<1>6. ASSUME NEW b \in Ids, FrontDesk(b) PROVE SeenPast'
  BY <1>6 DEF FrontDesk, WalkIn, CheckIn, CheckOut, DeskWrites, SeenPast
<1> QED
  BY <1>1, <1>2, <1>3, <1>4, <1>5, <1>6
  DEF Next, Website, Rollback, ReserveCheck, PrepareCheck, SettleCheck,
      ModifyCheck, Reserve, Prepare, Settle, SettleLate, CancelHold, Modify,
      Withdraw

(* A row that a step leaves alone, or ends, stays within its bound.        *)
LEMMA BoundKept ==
  ASSUME TypeOK, HoldBounded, now' \in Nat, now' >= now, NEW b \in Ids,
         \/ bookings'[b] = bookings[b]
         \/ bookings'[b].status # "PENDING"
         \/ bookings'[b].web = FALSE
  PROVE  bookings'[b].status = "PENDING" /\ bookings'[b].web =>
           bookings'[b].hold <=
             now' + IF bookings'[b].renewed THEN PayHold ELSE Hold
<1>1. bookings[b] \in Booking /\ now \in Nat
  BY DEF TypeOK
<1> QED
  BY <1>1, TransactionAssumption DEF HoldBounded, Booking

LEMMA HoldNext ==
  TypeOK /\ SeenPast /\ HoldBounded /\ [Next]_vars => HoldBounded'
<1> SUFFICES ASSUME TypeOK, SeenPast, HoldBounded, [Next]_vars
             PROVE  HoldBounded'
  OBVIOUS
<1>0. now \in Nat /\ now' \in Nat /\ TypeOK'
  BY TypeNext DEF TypeOK
<1>1. CASE UNCHANGED bookings /\ now' >= now
  BY <1>0, <1>1, BoundKept DEF HoldBounded
<1>2. ASSUME NEW p \in Procs, Reserve(p) PROVE HoldBounded'
  <2>1. PICK n \in Ids, clock \in txn[p].seen .. now :
          bookings' = [b \in Ids |->
            IF b = n THEN NewHold(p, clock + Hold)
            ELSE IF Swept(b, txn[p].type)
                 THEN [bookings[b] EXCEPT !.status = "CANCELLED"]
                 ELSE bookings[b]]
    BY <1>2 DEF Reserve
  <2>2. now' = now /\ txn[p].seen \in Nat /\ clock \in Nat /\ clock <= now
    BY <1>0, <1>2, <2>1 DEF Reserve, End, TypeOK, Txn
  <2>3. /\ bookings'[n].hold = clock + Hold /\ bookings'[n].renewed = FALSE
    BY <2>1 DEF NewHold
  <2>4. \A b \in Ids \ {n} : \/ bookings'[b] = bookings[b]
                            \/ bookings'[b].status # "PENDING"
    BY <2>1 DEF TypeOK, Booking
  <2>5. bookings'[n].hold <= now' + Hold
    BY <1>0, <2>2, <2>3, TransactionAssumption
  <2>6. \A b \in Ids \ {n} :
          bookings'[b].status = "PENDING" /\ bookings'[b].web =>
            bookings'[b].hold <=
              now' + IF bookings'[b].renewed THEN PayHold ELSE Hold
    <3>1. now' >= now
      BY <1>0, <2>2
    <3> QED
      BY <1>0, <2>4, <3>1, BoundKept
  <2> QED
    BY <2>3, <2>5, <2>6 DEF HoldBounded
<1>3. ASSUME NEW p \in Procs, Prepare(p) PROVE HoldBounded'
  <2>1. txn[p].seen \in Nat /\ txn[p].seen <= now /\ now' = now
    BY <1>3 DEF TypeOK, Txn, SeenPast, Prepare, End
  <2>2. \A b \in Ids : bookings'[b] = bookings[b] \/
          /\ bookings'[b].hold = txn[p].seen + PayHold
          /\ bookings'[b].renewed = TRUE
    BY <1>3 DEF Prepare, TypeOK, Booking
  <2>3. \A b \in Ids : bookings'[b] = bookings[b] \/
          /\ bookings'[b].hold <= now' + PayHold
          /\ bookings'[b].renewed = TRUE
    BY <1>0, <2>1, <2>2, TransactionAssumption
  <2> QED
    BY <1>0, <2>1, <2>3, BoundKept DEF HoldBounded
<1>4. ASSUME NEW p \in Procs,
             \/ Settle(p) \/ SettleLate(p) \/ CancelHold(p) \/ Withdraw(p)
      PROVE  HoldBounded'
  <2>1. now' = now /\ \A b \in Ids : \/ bookings'[b] = bookings[b]
                                   \/ bookings'[b].status # "PENDING"
    BY <1>4 DEF Settle, SettleLate, CancelHold, Withdraw, Cancelled, End,
                TypeOK, Booking
  <2> QED
    BY <1>0, <2>1, BoundKept DEF HoldBounded
<1>5. ASSUME NEW p \in Procs, Modify(p) PROVE HoldBounded'
  <2>1. now' = now /\ \A b \in Ids :
          /\ bookings'[b].status = bookings[b].status
          /\ bookings'[b].web = bookings[b].web
          /\ bookings'[b].hold = bookings[b].hold
          /\ bookings'[b].renewed = bookings[b].renewed
    BY <1>5 DEF Modify, Changed, End, TypeOK, Booking
  <2> QED
    BY <2>1 DEF HoldBounded
<1>6. ASSUME NEW b \in Ids, FrontDesk(b) PROVE HoldBounded'
  <2>1. PICK nb : /\ bookings' = [bookings EXCEPT ![b] = nb]
                  /\ nb.status # "PENDING" \/ nb.web = FALSE
                  /\ now' = now
    <3>1. CASE WalkIn(b)
      BY <3>1 DEF WalkIn, DeskWrites
    <3>2. CASE CheckIn(b)
      <4>1. PICK r \in Rooms :
              \/ DeskWrites(b, [bookings[b] EXCEPT !.status = "CHECKED_IN",
                                                   !.room = r])
              \/ DeskWrites(b, [bookings[b] EXCEPT !.room = r])
        BY <3>2 DEF CheckIn
      <4>2. PICK nb \in {[bookings[b] EXCEPT !.status = "CHECKED_IN", !.room = r],
                        [bookings[b] EXCEPT !.room = r]} : DeskWrites(b, nb)
        BY <4>1
      <4>3. bookings[b] \in Booking
        BY DEF TypeOK
      <4>4. bookings[b].status = "CONFIRMED" \/ bookings[b].web = FALSE
        BY <3>2, <4>3 DEF CheckIn, Booking
      <4>5. nb.status # "PENDING" \/ nb.web = FALSE
        BY <4>2, <4>3, <4>4 DEF Booking
      <4> QED
        BY <4>2, <4>5 DEF DeskWrites
    <3>3. CASE CheckOut(b)
      BY <3>3 DEF CheckOut, DeskWrites, TypeOK, Booking
    <3> QED
      BY <1>6, <3>1, <3>2, <3>3 DEF FrontDesk
  <2>2. \A c \in Ids : \/ bookings'[c] = bookings[c]
                     \/ bookings'[c].status # "PENDING"
                     \/ bookings'[c].web = FALSE
    BY <2>1 DEF TypeOK
  <2> QED
    BY <1>0, <2>1, <2>2, BoundKept DEF HoldBounded
<1>7. CASE UNCHANGED vars \/ Tick
  BY <1>0, <1>1, <1>7 DEF vars, Tick
<1>8. ASSUME NEW p \in Procs, Website(p) PROVE HoldBounded'
  <2>1. \/ Reserve(p) \/ Prepare(p) \/ Settle(p) \/ SettleLate(p)
        \/ CancelHold(p) \/ Withdraw(p) \/ Modify(p)
        \/ (bookings' = bookings /\ now' = now)
    BY <1>8
    DEF Website, BeginReserve, BeginPayment, BeginManagement, LockType,
        Rollback, End, ReserveCheck, PrepareCheck, SettleCheck, ModifyCheck,
        Decide
  <2> QED
    BY <1>0, <1>1, <1>2, <1>3, <1>4, <1>5, <2>1
<1> QED
  BY <1>6, <1>7, <1>8 DEF Next

(* However slow a transaction is between its clock and its commit, and     *)
(* whatever is retried, no unpaid hold outlives the hold it was given.     *)
THEOREM HoldsEnd == Spec => []HoldBounded
<1>1. Init => TypeOK /\ SeenPast /\ HoldBounded
  <2>1. Init => SeenPast
    BY DEF Init, SeenPast, NoTxn
  <2>2. Init => HoldBounded
    BY DEF Init, HoldBounded, NoBooking
  <2> QED
    BY <2>1, <2>2, TypeInit
<1>2. TypeOK /\ SeenPast /\ HoldBounded /\ [Next]_vars
        => TypeOK' /\ SeenPast' /\ HoldBounded'
  BY TypeNext, SeenNext, HoldNext
<1> QED
  BY <1>1, <1>2, PTL DEF Spec

-----------------------------------------------------------------------------
(* What a step leaves to the others.                                       *)

(* A transaction's step changes no other transaction and takes away none   *)
(* of its locks.                                                           *)
LeavesOthers(p) ==
  /\ \A q \in Procs \ {p} : txn'[q] = txn[q]
  /\ \A q \in Procs \ {p}, T \in Types : typeLock[T] = q => typeLock'[T] = q
  /\ \A q \in Procs \ {p}, b \in Ids : rowLock[b] = q => rowLock'[b] = q

(* A row is written by whoever holds its lock, or finds it free,           *)
(* unless it is a new row.                                                 *)
WritesUnlocked(p) ==
  \A b \in Ids :
    bookings'[b] = bookings[b] \/ bookings[b].status = "NONE"
      \/ rowLock[b] \in {NoProc, p}

(* No write makes a booking pending again, gives it another type while it  *)
(* is pending, or turns a website booking into anything else.              *)
WebKept ==
  \A b \in Ids : bookings[b].status # "NONE" =>
    /\ bookings'[b].web = bookings[b].web
    /\ bookings'[b].status # "NONE"
    /\ bookings'[b].status = "PENDING" =>
         bookings[b].status = "PENDING" /\ bookings'[b].type = bookings[b].type

LEMMA EndLeaves ==
  ASSUME TypeOK, NEW p \in Procs, End(p)
  PROVE  LeavesOthers(p)
<1>1. \A q \in Procs \ {p} : txn'[q] = txn[q]
  BY EndType
<1>2. \A q \in Procs \ {p}, T \in Types : typeLock[T] = q => typeLock'[T] = q
  BY DEF End, Without, TypeOK
<1>3. \A q \in Procs \ {p}, b \in Ids : rowLock[b] = q => rowLock'[b] = q
  BY DEF End, Without, TypeOK
<1> QED
  BY <1>1, <1>2, <1>3 DEF LeavesOthers

LEMMA DecideLeaves ==
  ASSUME TypeOK, NEW p \in Procs, Decide(p),
         txn[p].id # NoId => rowLock[txn[p].id] = NoProc
  PROVE  LeavesOthers(p) /\ WritesUnlocked(p) /\ WebKept
<1>1. txn[p] \in Txn
  BY DEF TypeOK
<1> QED
  BY <1>1, TransactionAssumption
  DEF Decide, LeavesOthers, WritesUnlocked, WebKept, TypeOK, Txn

LEMMA WebsiteLeaves ==
  ASSUME Protocol, NEW p \in Procs, Website(p)
  PROVE  LeavesOthers(p) /\ WritesUnlocked(p) /\ WebKept
<1>0. TypeOK /\ txn[p] \in Txn
  BY DEF Protocol, TypeOK
<1>1. CASE BeginReserve(p) \/ BeginPayment(p) \/ BeginManagement(p) \/ LockType(p)
  BY <1>0, <1>1, TransactionAssumption
  DEF BeginReserve, BeginPayment, BeginManagement, LockType, LeavesOthers,
      WritesUnlocked, WebKept, TypeOK, Need
<1>2. CASE Rollback(p)
  BY <1>0, <1>2, EndLeaves DEF Rollback, WritesUnlocked, WebKept
<1>3. CASE ReserveCheck(p) \/ PrepareCheck(p) \/ SettleCheck(p) \/ ModifyCheck(p)
  BY <1>0, <1>3, DecideLeaves
  DEF ReserveCheck, PrepareCheck, SettleCheck, ModifyCheck, Reading
<1>4. CASE Reserve(p)
  <2>1. PICK n \in Ids, clock \in txn[p].seen .. now :
          /\ bookings[n].status = "NONE"
          /\ bookings' = [b \in Ids |->
               IF b = n THEN NewHold(p, clock + Hold)
               ELSE IF Swept(b, txn[p].type)
                    THEN [bookings[b] EXCEPT !.status = "CANCELLED"]
                    ELSE bookings[b]]
    BY <1>4 DEF Reserve
  <2>2. \A b \in Ids \ {n} : bookings'[b] = bookings[b] \/
          /\ Swept(b, txn[p].type)
          /\ bookings'[b] = [bookings[b] EXCEPT !.status = "CANCELLED"]
    BY <2>1
  <2>3. WritesUnlocked(p)
    BY <1>4, <2>1, <2>2 DEF Reserve, WritesUnlocked
  <2>4. WebKept
    BY <1>0, <2>1, <2>2 DEF WebKept, TypeOK, Booking
  <2> QED
    BY <1>0, <1>4, <2>3, <2>4, EndLeaves DEF Reserve
<1>5. CASE Prepare(p) \/ Settle(p) \/ Modify(p)
  <2> DEFINE i == txn[p].id
             x == bookings[i]
  <2>1. i \in Ids /\ rowLock[i] = p
    BY <1>0, <1>5 DEF Protocol, Prepare, Settle, Modify, Committing, Shape,
                      LocksHeld, Txn
  <2>2. txn[p].op = "modify" => x.status = "CONFIRMED"
    BY <1>0, <1>5, <2>1, TransactionAssumption
    DEF Protocol, Decided, Manageable, Prepare, Settle, Modify, Committing
  <2>3. x \in Booking
    BY <1>0, <2>1 DEF TypeOK
  <2>4. \A b \in Ids \ {i} : bookings'[b] = bookings[b]
    BY <1>0, <1>5 DEF Prepare, Settle, Modify, TypeOK
  <2>5. /\ bookings'[i].web = x.web
        /\ bookings'[i].status \in {x.status, "CONFIRMED"}
        /\ bookings'[i].status = "PENDING" => bookings'[i].type = x.type
    <3>1. CASE Prepare(p)
      BY <1>0, <2>1, <2>3, <3>1 DEF Prepare, TypeOK, Booking
    <3>2. CASE Settle(p)
      BY <1>0, <2>1, <2>3, <3>2 DEF Settle, TypeOK, Booking
    <3>3. CASE Modify(p)
      BY <1>0, <2>1, <2>2, <2>3, <3>3
      DEF Modify, Committing, Changed, TypeOK, Booking
    <3> QED
      BY <1>5, <3>1, <3>2, <3>3
  <2> HIDE DEF i, x
  <2>6. WritesUnlocked(p) /\ WebKept
    BY <2>1, <2>4, <2>5 DEF WritesUnlocked, WebKept, x
  <2> QED
    BY <1>0, <1>5, <2>6, EndLeaves DEF Prepare, Settle, Modify
<1>6. CASE SettleLate(p) \/ CancelHold(p) \/ Withdraw(p)
  <2>1. txn[p].id \in Ids /\ rowLock[txn[p].id] = NoProc
    BY <1>0, <1>6 DEF Protocol, SettleLate, CancelHold, Withdraw, Reading,
                      Shape, Txn
  <2> QED
    BY <1>0, <1>6, <2>1, EndLeaves
    DEF SettleLate, CancelHold, Withdraw, Cancelled, WritesUnlocked, WebKept,
        TypeOK, Booking
<1> QED
  BY <1>1, <1>2, <1>3, <1>4, <1>5, <1>6 DEF Website

-----------------------------------------------------------------------------
(* The protocol is inductive.                                              *)

LEMMA ProtocolInit == Init => Protocol
<1> SUFFICES ASSUME Init PROVE Protocol
  OBVIOUS
<1>1. \A p \in Procs : txn[p].pc = "idle"
  BY NoTxnType DEF Init
<1>2. NoRoomYet
  BY DEF NoRoomYet, Init, NoBooking
<1> QED
  BY <1>1, <1>2, TypeInit DEF Protocol, Shape, LocksHeld, RefFresh, Decided

(* The others' transactions stay as the protocol wants them.               *)
LEMMA OthersKeep ==
  ASSUME Protocol, TypeOK', NEW p \in Procs, LeavesOthers(p),
         WritesUnlocked(p), WebKept, NEW q \in Procs \ {p}
  PROVE  Shape(q)' /\ LocksHeld(q)' /\ RefFresh(q)' /\ Decided(q)'
<1>1. Shape(q) /\ LocksHeld(q) /\ RefFresh(q) /\ Decided(q) /\ TypeOK
  BY DEF Protocol
<1>2. txn'[q] = txn[q] /\ txn[q] \in Txn
  BY <1>1 DEF LeavesOthers, TypeOK
<1>3. Shape(q)' /\ LocksHeld(q)'
  BY <1>1, <1>2 DEF Shape, LocksHeld, Need, LeavesOthers, Txn
<1>4. txn[q].pc # "idle" /\ txn[q].op \in {"prepare", "settle"}
        => txn[q].id \in Ids
  BY <1>1, <1>2 DEF Shape, Txn
<1>5. RefFresh(q)'
  BY <1>1, <1>2, <1>4 DEF RefFresh, WebKept
<1>6. txn[q].pc = "commit" /\ txn[q].id # NoId =>
        bookings'[txn[q].id] = bookings[txn[q].id]
  BY <1>1, <1>2, TransactionAssumption
  DEF LocksHeld, Decided, Manageable, WritesUnlocked, Txn
<1>7. Decided(q)'
  BY <1>1, <1>2, <1>6 DEF Decided, Manageable
<1> QED
  BY <1>3, <1>5, <1>7

(* So does the transaction that takes the step.                            *)
LEMMA OwnKeeps ==
  ASSUME Protocol, NEW p \in Procs, Website(p)
  PROVE  Shape(p)' /\ LocksHeld(p)' /\ RefFresh(p)' /\ Decided(p)'
<1>0. /\ TypeOK /\ txn[p] \in Txn
      /\ Shape(p) /\ LocksHeld(p) /\ RefFresh(p) /\ Decided(p)
  BY DEF Protocol, TypeOK
<1>1. CASE BeginReserve(p)
  BY <1>0, <1>1, TransactionAssumption
  DEF BeginReserve, Shape, LocksHeld, RefFresh, Decided, TypeOK, Txn, Ops, Need
<1>2. CASE BeginPayment(p)
  BY <1>0, <1>2, TransactionAssumption
  DEF BeginPayment, Shape, LocksHeld, RefFresh, Decided, TypeOK, Txn, Ops
<1>3. CASE BeginManagement(p)
  BY <1>0, <1>3, TransactionAssumption
  DEF BeginManagement, Shape, LocksHeld, RefFresh, Decided, TypeOK, Txn, Ops
<1>4. CASE LockType(p)
  <2>1. PICK T \in Need(p) :
          /\ typeLock' = [typeLock EXCEPT ![T] = p]
          /\ txn' = [txn EXCEPT ![p].pc =
                       IF \A U \in Need(p) : U = T \/ typeLock[U] = p
                         THEN "read" ELSE "lock"]
    BY <1>4 DEF LockType
  <2>2. /\ txn'[p].pc \in {"read", "lock"}
        /\ txn'[p].pc = "read" => \A U \in Need(p) : typeLock'[U] = p
    BY <1>0, <2>1 DEF TypeOK, Txn, Need
  <2>3. /\ txn'[p].op = txn[p].op /\ txn'[p].id = txn[p].id
        /\ txn'[p].ref = txn[p].ref /\ txn'[p].type = txn[p].type
    BY <1>0, <2>1 DEF TypeOK, Txn
  <2> QED
    BY <1>0, <1>4, <2>2, <2>3
    DEF LockType, Shape, LocksHeld, RefFresh, Decided, Need
<1>5. CASE End(p)
  BY <1>0, <1>5, EndType, NoTxnType DEF Shape, LocksHeld, RefFresh, Decided
<1>6. ASSUME NEW o \in {"reserve", "prepare", "settle", "modify"},
             Reading(p, o), Decide(p),
             o \in {"prepare", "settle"} => bookings[txn[p].id].status = "PENDING",
             o = "modify" => Manageable(p)
      PROVE  Shape(p)' /\ LocksHeld(p)' /\ RefFresh(p)' /\ Decided(p)'
  <2>1. /\ txn'[p].pc = "commit" /\ txn'[p].op = o /\ txn'[p].id = txn[p].id
        /\ txn'[p].ref = txn[p].ref /\ txn'[p].type = txn[p].type
    BY <1>0, <1>6, DecideType DEF Txn, Reading
  <2>2. bookings' = bookings /\ typeLock' = typeLock
    BY <1>6 DEF Decide
  <2>3. txn[p].id # NoId => txn[p].id \in Ids /\ rowLock'[txn[p].id] = p
    BY <1>0, <1>6 DEF Decide, TypeOK, Txn
  <2> QED
    BY <1>0, <1>6, <2>1, <2>2, <2>3
    DEF Shape, LocksHeld, RefFresh, Decided, Need, Reading, Manageable, Ops
<1> QED
  BY <1>1, <1>2, <1>3, <1>4, <1>5, <1>6
  DEF Website, Rollback, ReserveCheck, PrepareCheck, SettleCheck, ModifyCheck,
      Reserve, Prepare, Settle, Modify, SettleLate, CancelHold, Withdraw,
      Payable

(* The room number of a website booking is never written before it is paid.*)
LEMMA NoRoomYetKept ==
  ASSUME Protocol, NEW p \in Procs, Website(p)
  PROVE  NoRoomYet'
<1>0. TypeOK /\ NoRoomYet /\ txn[p] \in Txn
  BY DEF Protocol, TypeOK
<1>1. CASE UNCHANGED bookings
  BY <1>0, <1>1 DEF NoRoomYet
<1>2. CASE Reserve(p)
  BY <1>0, <1>2 DEF Reserve, NewHold, NoRoomYet, TypeOK, Booking
<1>3. CASE \/ Prepare(p) \/ Settle(p) \/ SettleLate(p) \/ CancelHold(p)
           \/ Withdraw(p)
  BY <1>0, <1>3 DEF Prepare, Settle, SettleLate, CancelHold, Withdraw,
                    Cancelled, NoRoomYet, TypeOK, Booking
<1>4. CASE Modify(p)
  <2>1. \A b \in Ids : bookings'[b].web = bookings[b].web
                      /\ bookings'[b].status = bookings[b].status
                      /\ bookings'[b].room \in {bookings[b].room, NoRoom}
    BY <1>0, <1>4 DEF Modify, Changed, TypeOK, Booking
  <2> QED
    BY <1>0, <2>1 DEF NoRoomYet
<1> QED
  BY <1>1, <1>2, <1>3, <1>4
  DEF Website, BeginReserve, BeginPayment, BeginManagement, LockType, Rollback,
      ReserveCheck, PrepareCheck, SettleCheck, ModifyCheck, Decide

(* What the Front Desk writes: one row that nobody holds, never back to an *)
(* unpaid website hold and never the type of a hold that still is one.     *)
DeskRow(b, nb) ==
  /\ DeskWrites(b, nb)
  /\ nb \in Booking /\ nb.status # "NONE"
  /\ \/ bookings[b].status = "NONE" /\ ~nb.web
     \/ /\ nb.web = bookings[b].web /\ bookings[b].status # "NONE"
        /\ nb.web => nb.status # "PENDING"

LEMMA DeskWritesRow ==
  ASSUME Protocol, NEW b \in Ids, FrontDesk(b)
  PROVE  \E nb : DeskRow(b, nb)
<1>0. TypeOK /\ bookings[b] \in Booking
  BY DEF Protocol, TypeOK
<1>1. CASE WalkIn(b)
  <2>1. PICK T \in Types, S \in Stays :
          DeskWrites(b, [status |-> "PENDING", web |-> FALSE, type |-> T,
                         stay |-> S, room |-> NoRoom, hold |-> 0,
                         renewed |-> FALSE])
    BY <1>1 DEF WalkIn
  <2> DEFINE nb == [status |-> "PENDING", web |-> FALSE, type |-> T,
                    stay |-> S, room |-> NoRoom, hold |-> 0, renewed |-> FALSE]
  <2>2. /\ nb \in Booking
        /\ nb.status # "NONE" /\ nb.web = FALSE
    BY DEF Booking, Statuses, ActiveStatuses
  <2>3. DeskWrites(b, nb) /\ bookings[b].status = "NONE"
    BY <1>1, <2>1 DEF WalkIn
  <2> HIDE DEF nb
  <2>4. DeskRow(b, nb)
    BY <2>2, <2>3 DEF DeskRow
  <2> QED
    BY <2>4
<1>2. CASE CheckIn(b)
  <2>1. PICK r \in Rooms :
          \/ DeskWrites(b, [bookings[b] EXCEPT !.status = "CHECKED_IN",
                                               !.room = r])
          \/ DeskWrites(b, [bookings[b] EXCEPT !.room = r])
    BY <1>2 DEF CheckIn
  <2>2. \/ bookings[b].status = "CONFIRMED"
        \/ bookings[b].status = "PENDING" /\ bookings[b].web = FALSE
    BY <1>0, <1>2 DEF CheckIn, Booking
  <2>3. PICK nb \in {[bookings[b] EXCEPT !.status = "CHECKED_IN", !.room = r],
                    [bookings[b] EXCEPT !.room = r]} : DeskWrites(b, nb)
    BY <2>1
  <2>4. nb \in Booking /\ nb.status \in {bookings[b].status, "CHECKED_IN"}
        /\ nb.web = bookings[b].web
    BY <1>0, <2>3 DEF Booking, Statuses, ActiveStatuses
  <2>5. DeskRow(b, nb)
    BY <2>2, <2>3, <2>4 DEF DeskRow
  <2> QED
    BY <2>5
<1>3. CASE CheckOut(b)
  BY <1>0, <1>3 DEF CheckOut, DeskRow, Booking, Statuses, ActiveStatuses
<1> QED
  BY <1>1, <1>2, <1>3 DEF FrontDesk

LEMMA DeskKeepsProtocol ==
  ASSUME Protocol, NEW b \in Ids, NEW nb, DeskRow(b, nb)
  PROVE  Protocol'
<1>0. /\ TypeOK /\ NoRoomYet
      /\ bookings' = [bookings EXCEPT ![b] = nb] /\ rowLock[b] = NoProc
      /\ nb \in Booking
      /\ UNCHANGED <<now, typeLock, rowLock, txn>>
  BY DEF Protocol, DeskRow, DeskWrites, DeskLocks
<1>1. TypeOK'
  BY <1>0 DEF TypeOK
<1>2. NoRoomYet'
  BY <1>0 DEF NoRoomYet, TypeOK, DeskRow
<1>3. ASSUME NEW p \in Procs
      PROVE  Shape(p)' /\ LocksHeld(p)' /\ RefFresh(p)' /\ Decided(p)'
  <2>0. /\ txn[p] \in Txn
        /\ Shape(p) /\ LocksHeld(p) /\ RefFresh(p) /\ Decided(p)
    BY <1>0 DEF Protocol, TypeOK
  <2>1. Shape(p)' /\ LocksHeld(p)'
    BY <1>0, <2>0 DEF Shape, LocksHeld, Need
  <2>2. RefFresh(p)'
    BY <1>0, <2>0, TransactionAssumption
    DEF RefFresh, TypeOK, DeskRow, Booking, Shape, Txn
  <2>3. txn[p].pc = "commit" /\ txn[p].id # NoId => txn[p].id # b
    BY <1>0, <2>0, TransactionAssumption DEF LocksHeld
  <2>4. Decided(p)'
    BY <1>0, <2>0, <2>3 DEF Decided, Manageable, TypeOK, Txn
  <2> QED
    BY <2>1, <2>2, <2>4
<1> QED
  BY <1>1, <1>2, <1>3 DEF Protocol

(* What the locks guarantee stays true along every behaviour.              *)
LEMMA ProtocolNext == Protocol /\ [Next]_vars => Protocol'
<1> SUFFICES ASSUME Protocol, [Next]_vars PROVE Protocol'
  OBVIOUS
<1>0. TypeOK'
  BY TypeNext DEF Protocol
<1>1. CASE UNCHANGED vars \/ Tick
  BY <1>0, <1>1
  DEF vars, Tick, Protocol, NoRoomYet, Shape, LocksHeld, RefFresh, Decided,
      Manageable, Need
<1>2. ASSUME NEW p \in Procs, Website(p) PROVE Protocol'
  BY <1>0, <1>2, WebsiteLeaves, OthersKeep, OwnKeeps, NoRoomYetKept DEF Protocol
<1>3. ASSUME NEW b \in Ids, FrontDesk(b) PROVE Protocol'
  BY <1>3, DeskWritesRow, DeskKeepsProtocol
<1> QED
  BY <1>1, <1>2, <1>3 DEF Next

-----------------------------------------------------------------------------
(* The plan of rooms.                                                      *)

(* A count of at least one is a room: the bookings without a room number   *)
(* cannot fill, in any plan f, all the rooms the query found free.         *)
LEMMA RoomLeft ==
  ASSUME NEW bk, NEW t, NEW T, NEW S, NEW exclude,
         NEW f \in [Ids -> Rooms],
         Available(bk, t, T, S, exclude) >= 1
  PROVE  \E r \in FreeRooms(bk, t, T, S, exclude) :
           \A b \in Unassigned(bk, t, T, S, exclude) : f[b] # r
<1> DEFINE F == FreeRooms(bk, t, T, S, exclude)
           U == Unassigned(bk, t, T, S, exclude)
           h == [b \in U |-> f[b]]
           G == {f[b] : b \in U}
<1>1. IsFiniteSet(F)
  BY InventoryAssumption, FS_Subset DEF FreeRooms, SellableOf
<1>2. IsFiniteSet(U)
  BY InventoryAssumption, FS_Subset DEF Unassigned
<1>3. Cardinality(F) \in Nat /\ Cardinality(U) \in Nat
  BY <1>1, <1>2, FS_CardinalityType
<1>4. Cardinality(F) > Cardinality(U)
  BY <1>3 DEF Available, Clamp
<1> HIDE DEF F, U
<1>5. h \in Surjection(U, G)
  BY DEF Surjection
<1>6. IsFiniteSet(G) /\ Cardinality(G) <= Cardinality(U)
  BY <1>2, <1>5, FS_Surjection
<1>7. ~ F \subseteq G
  <2>1. Cardinality(G) \in Nat
    BY <1>6, FS_CardinalityType
  <2>2. F \subseteq G => Cardinality(F) <= Cardinality(G)
    BY <1>6, FS_Subset
  <2> QED
    BY <1>3, <1>4, <1>6, <2>1, <2>2
<1> QED
  BY <1>7 DEF F, U

(* A plan for some bookings and transactions is one for fewer of them.     *)
LEMMA PlanShrinks ==
  ASSUME NEW f, NEW g, Plan(f, g),
         \A b \in Ids : Withholds(b)' =>
           /\ Withholds(b)
           /\ bookings'[b].type = bookings[b].type
           /\ bookings'[b].stay = bookings[b].stay
           /\ bookings'[b].room = bookings[b].room,
         \A p \in Procs : Takes(p)' =>
           /\ Takes(p)
           /\ txn'[p].type = txn[p].type
           /\ txn'[p].stay = txn[p].stay
           /\ txn'[p].id = txn[p].id
  PROVE  Plan(f, g)'
BY DEF Plan, Houses, Fits, Overlap

(* Two transactions that took a room hold the locks of different types, so *)
(* their rooms differ.                                                     *)
LEMMA TakersApart ==
  ASSUME Protocol, NEW f, NEW g, Plan(f, g),
         NEW p \in Procs, NEW q \in Procs, p # q, Takes(p), Takes(q)
  PROVE  txn[p].type # txn[q].type /\ g[p] # g[q]
<1>1. typeLock[txn[p].type] = p /\ typeLock[txn[q].type] = q
  BY DEF Protocol, LocksHeld, Takes, Need
<1> QED
  BY <1>1 DEF Plan, SellableOf

(* A booking whose payment is under way is still without a room, and its   *)
(* type is locked by that payment.                                         *)
LEMMA InFlightLocked ==
  ASSUME Protocol, NEW b \in Ids, InFlight(b)
  PROVE  /\ bookings[b].status = "PENDING" /\ bookings[b].room = NoRoom
         /\ \E q \in Procs : /\ typeLock[bookings[b].type] = q /\ rowLock[b] = q
                             /\ txn[q].pc = "commit" /\ txn[q].id = b
                             /\ txn[q].op \in {"prepare", "settle"}
<1>1. PICK q \in Procs : /\ txn[q].id = b /\ txn[q].pc = "commit"
                        /\ txn[q].op \in {"prepare", "settle"}
  BY DEF InFlight
<1>2. Shape(q) /\ LocksHeld(q) /\ RefFresh(q) /\ Decided(q) /\ NoRoomYet
  BY DEF Protocol
<1>3. bookings[b].status = "PENDING" /\ bookings[b].web
  BY <1>1, <1>2, TransactionAssumption DEF Decided, RefFresh
<1> QED
  BY <1>1, <1>2, <1>3, TransactionAssumption
  DEF NoRoomYet, RefFresh, LocksHeld, Need

(* No step ends a transaction at commit but the four checks, and those     *)
(* leave the rows alone.                                                   *)
LEMMA CommitOnlyByCheck ==
  ASSUME Protocol, NEW p \in Procs, Website(p)
  PROVE  /\ now' = now
         /\ \A q \in Procs \ {p} : txn'[q] = txn[q]
         /\ txn'[p].pc = "commit" =>
              /\ \/ ReserveCheck(p) \/ PrepareCheck(p)
                 \/ SettleCheck(p) \/ ModifyCheck(p)
              /\ bookings' = bookings
              /\ txn'[p] = [txn[p] EXCEPT !.pc = "commit", !.seen = now]
<1>0. TypeOK /\ txn[p] \in Txn
  BY DEF Protocol, TypeOK
<1>1. now' = now
  BY DEF Website, BeginReserve, BeginPayment, BeginManagement, LockType,
         Rollback, ReserveCheck, PrepareCheck, SettleCheck, ModifyCheck,
         Reserve, Prepare, Settle, Modify, SettleLate, CancelHold, Withdraw,
         Decide, End
<1>2. \A q \in Procs \ {p} : txn'[q] = txn[q]
  BY WebsiteLeaves DEF LeavesOthers
<1>3. CASE BeginReserve(p) \/ BeginPayment(p) \/ BeginManagement(p) \/ LockType(p)
  BY <1>0, <1>1, <1>2, <1>3
  DEF BeginReserve, BeginPayment, BeginManagement, LockType, TypeOK, Txn
<1>4. CASE End(p)
  BY <1>0, <1>1, <1>2, <1>4, EndType, NoTxnType
<1>5. CASE ReserveCheck(p) \/ PrepareCheck(p) \/ SettleCheck(p) \/ ModifyCheck(p)
  BY <1>0, <1>1, <1>2, <1>5, DecideType
  DEF ReserveCheck, PrepareCheck, SettleCheck, ModifyCheck, Decide
<1> QED
  BY <1>3, <1>4, <1>5
  DEF Website, Rollback, Reserve, Prepare, Settle, Modify, SettleLate,
      CancelHold, Withdraw

(* Time passing only releases rooms.                                       *)
LEMMA TickPlan ==
  ASSUME Protocol, Planned, Tick
  PROVE  Planned'
<1>1. PICK f \in [Ids -> Rooms], g \in [Procs -> Rooms] : Plan(f, g)
  BY DEF Planned
<1>2. \A b \in Ids : Withholds(b)' => Withholds(b)
  BY DEF Withholds, Tick, Blocks, Lapsed, InFlight, Protocol, TypeOK, Booking
<1>3. Plan(f, g)'
  BY <1>1, <1>2, PlanShrinks DEF Tick, Takes
<1> QED
  BY <1>3 DEF Planned

(* Waiting, giving up, paying and cancelling take no further room.         *)
LEMMA QuietPlan ==
  ASSUME Protocol, Planned, NEW p \in Procs, Website(p),
         ~ReserveCheck(p), ~Reserve(p), ~ModifyCheck(p), ~Modify(p)
  PROVE  Planned'
<1>0. TypeOK /\ txn[p] \in Txn
  BY DEF Protocol, TypeOK
<1>1. PICK f \in [Ids -> Rooms], g \in [Procs -> Rooms] : Plan(f, g)
  BY DEF Planned
<1>2. \A q \in Procs : Takes(q)' =>
        Takes(q) /\ txn'[q] = txn[q]
  <2>1. ~ Takes(p)'
    BY <1>0, CommitOnlyByCheck
    DEF Takes, PrepareCheck, SettleCheck, Reading, Txn
  <2> QED
    BY <2>1, CommitOnlyByCheck DEF Takes
<1>3. \A b \in Ids : InFlight(b)' => Withholds(b)
  <2> SUFFICES ASSUME NEW b \in Ids, InFlight(b)' PROVE Withholds(b)
    OBVIOUS
  <2>1. PICK q \in Procs : /\ txn'[q].id = b /\ txn'[q].pc = "commit"
                          /\ txn'[q].op \in {"prepare", "settle"}
    BY DEF InFlight
  <2>2. CASE q # p
    BY <2>1, <2>2, CommitOnlyByCheck DEF Withholds, InFlight
  <2>3. CASE q = p
    <3>1. Payable(b)
      BY <1>0, <2>1, <2>3, CommitOnlyByCheck
      DEF PrepareCheck, SettleCheck, Txn
    <3> QED
      BY <1>0, <3>1
      DEF Payable, Withholds, Blocks, Lapsed, ActiveStatuses, TypeOK, Booking
  <2> QED
    BY <2>2, <2>3
<1>4. \A b \in Ids :
        /\ Blocks(bookings'[b], now') => Withholds(b)
        /\ Blocks(bookings'[b], now') =>
             /\ bookings'[b].type = bookings[b].type
             /\ bookings'[b].stay = bookings[b].stay
             /\ bookings'[b].room = bookings[b].room
  <2>0. now' = now
    BY CommitOnlyByCheck
  <2>1. CASE bookings' = bookings
    BY <2>0, <2>1 DEF Withholds
  <2>2. CASE Prepare(p) \/ Settle(p)
    <3>1. txn[p].id \in Ids /\ InFlight(txn[p].id)
      BY <1>0, <2>2
      DEF Prepare, Settle, Committing, Protocol, Shape, InFlight, Txn
    <3>2. \A b \in Ids : /\ b # txn[p].id => bookings'[b] = bookings[b]
                        /\ bookings'[b].type = bookings[b].type
                        /\ bookings'[b].stay = bookings[b].stay
                        /\ bookings'[b].room = bookings[b].room
      BY <1>0, <2>2 DEF Prepare, Settle, TypeOK, Booking
    <3> QED
      BY <2>0, <3>1, <3>2 DEF Withholds
  <2>3. CASE SettleLate(p) \/ CancelHold(p) \/ Withdraw(p)
    <3>1. \A b \in Ids : \/ bookings'[b] = bookings[b]
                        \/ bookings'[b].status = "CANCELLED"
      BY <1>0, <2>3
      DEF SettleLate, CancelHold, Withdraw, Cancelled, TypeOK, Booking
    <3> QED
      BY <2>0, <3>1 DEF Withholds, Blocks, ActiveStatuses
  <2> QED
    BY <2>1, <2>2, <2>3
    DEF Website, BeginReserve, BeginPayment, BeginManagement, LockType,
        Rollback, PrepareCheck, SettleCheck, Decide
<1>5. \A b \in Ids : InFlight(b)' =>
        /\ bookings'[b].type = bookings[b].type
        /\ bookings'[b].stay = bookings[b].stay
        /\ bookings'[b].room = bookings[b].room
  <2> SUFFICES ASSUME NEW b \in Ids, InFlight(b)'
               PROVE  bookings'[b] = bookings[b]
    OBVIOUS
  <2>1. PICK q \in Procs : /\ txn'[q].id = b /\ txn'[q].pc = "commit"
                          /\ txn'[q].op \in {"prepare", "settle"}
    BY DEF InFlight
  <2>2. CASE q # p
    <3>0. txn[q].id = b /\ txn[q].pc = "commit" /\ txn[q].op # "modify"
      BY <2>1, <2>2, CommitOnlyByCheck
    <3>1. rowLock[b] = q /\ bookings[b].status = "PENDING"
      BY <3>0, TransactionAssumption DEF Protocol, LocksHeld, Decided
    <3> QED
      BY <2>2, <3>1, WebsiteLeaves, TransactionAssumption DEF WritesUnlocked
  <2>3. CASE q = p
    BY <2>1, <2>3, CommitOnlyByCheck
  <2> QED
    BY <2>2, <2>3
<1>6. Plan(f, g)'
  <2>1. \A b \in Ids : Withholds(b)' =>
          /\ Withholds(b)
          /\ bookings'[b].type = bookings[b].type
          /\ bookings'[b].stay = bookings[b].stay
          /\ bookings'[b].room = bookings[b].room
    BY <1>3, <1>4, <1>5 DEF Withholds
  <2> QED
    BY <1>1, <1>2, <2>1, PlanShrinks
<1> QED
  BY <1>6 DEF Planned

(* Counting at least one free room under the lock of its type finds a room *)
(* that no plan has given away: not to a booking that withholds one, not   *)
(* to a payment in flight, not to another transaction.                     *)
LEMMA CheckFindsRoom ==
  ASSUME Protocol, NEW f \in [Ids -> Rooms], NEW g, Plan(f, g),
         NEW p \in Procs, txn[p].pc = "read",
         Available(bookings, now, txn[p].type, txn[p].stay, {txn[p].id}) >= 1
  PROVE  \E r \in SellableOf(txn[p].type) : \A b \in Ids :
           /\ Withholds(b) /\ b # txn[p].id
           /\ Overlap(bookings[b].stay, txn[p].stay)
           => f[b] # r
<1> DEFINE T == txn[p].type
           S == txn[p].stay
           x == {txn[p].id}
<1>1. PICK r \in FreeRooms(bookings, now, T, S, x) :
        \A b \in Unassigned(bookings, now, T, S, x) : f[b] # r
  <2>1. Available(bookings, now, T, S, x) >= 1
    OBVIOUS
  <2> HIDE DEF T, S, x
  <2> QED
    BY <2>1, RoomLeft
<1>2. r \in SellableOf(T) /\ RoomType[r] = T
  BY DEF FreeRooms, SellableOf
<1>3. ASSUME NEW b \in Ids, Withholds(b), b # txn[p].id,
             Overlap(bookings[b].stay, S)
      PROVE  f[b] # r
  <2>1. Fits(bookings[b], f[b])
    BY <1>3 DEF Plan, Houses
  <2>2. CASE bookings[b].type # T /\ bookings[b].room = NoRoom
    <3>1. RoomType[f[b]] = bookings[b].type
      BY <2>1, <2>2 DEF Fits, SellableOf
    <3> QED
      BY <1>2, <2>2, <3>1
  <2>3. CASE Blocks(bookings[b], now) /\ bookings[b].room # NoRoom
    BY <1>3, <2>1, <2>3 DEF Fits, FreeRooms
  <2>4. CASE /\ Blocks(bookings[b], now) /\ bookings[b].room = NoRoom
             /\ bookings[b].type = T
    BY <1>1, <1>3, <2>4 DEF Unassigned
  <2>5. CASE InFlight(b)
    <3>1. typeLock[T] = p
      BY DEF Protocol, LocksHeld, Need
    <3>2. bookings[b].type # T /\ bookings[b].room = NoRoom
      BY <2>5, <3>1, InFlightLocked
    <3> QED
      BY <2>2, <3>2
  <2> QED
    BY <1>3, <2>2, <2>3, <2>4, <2>5 DEF Withholds
<1> QED
  BY <1>2, <1>3

(* So the check of a reservation or of a change can take that room.        *)
LEMMA CheckPlan ==
  ASSUME Protocol, Planned, NEW p \in Procs, Website(p),
         ReserveCheck(p) \/ ModifyCheck(p)
  PROVE  Planned'
<1>0. TypeOK /\ txn[p] \in Txn /\ Shape(p)
  BY DEF Protocol, TypeOK
<1>1. PICK f \in [Ids -> Rooms], g \in [Procs -> Rooms] : Plan(f, g)
  BY DEF Planned
<1>2. /\ txn[p].pc = "read" /\ txn[p].op \in {"reserve", "modify"}
      /\ Available(bookings, now, txn[p].type, txn[p].stay, {txn[p].id}) >= 1
  <2>1. CASE ReserveCheck(p)
    <3>1. txn[p].id = NoId
      BY <1>0, <2>1 DEF ReserveCheck, Reading, Shape
    <3>2. Ids \ {NoId} = Ids \ {}
      BY TransactionAssumption
    <3> QED
      BY <2>1, <3>1, <3>2
      DEF ReserveCheck, Reading, Available, FreeRooms, Unassigned
  <2>2. CASE ModifyCheck(p)
    BY <2>2 DEF ModifyCheck, Reading
  <2> QED
    BY <2>1, <2>2
<1>3. PICK r \in SellableOf(txn[p].type) : \A b \in Ids :
           /\ Withholds(b) /\ b # txn[p].id
           /\ Overlap(bookings[b].stay, txn[p].stay)
           => f[b] # r
  BY <1>1, <1>2, CheckFindsRoom
<1>4. r \in Rooms
  BY InventoryAssumption DEF SellableOf
<1>5. /\ txn' = [txn EXCEPT ![p].pc = "commit", ![p].seen = now]
      /\ now' = now /\ bookings' = bookings
  BY DEF ReserveCheck, ModifyCheck, Decide
<1>6. /\ \A q \in Procs \ {p} : txn'[q] = txn[q]
      /\ txn'[p].op = txn[p].op /\ txn'[p].id = txn[p].id
      /\ txn'[p].type = txn[p].type /\ txn'[p].stay = txn[p].stay
  BY <1>0, <1>5 DEF TypeOK, Txn
<1>7. \A b \in Ids : Withholds(b)' => Withholds(b)
  BY <1>2, <1>5, <1>6 DEF Withholds, InFlight
<1> DEFINE h == [g EXCEPT ![p] = r]
<1>8. h \in [Procs -> Rooms] /\ h[p] = r /\ \A q \in Procs \ {p} : h[q] = g[q]
  BY <1>4
<1> HIDE DEF h
<1>9. Plan(f, h)'
  <2>1. Houses(f, bookings, {b \in Ids : Withholds(b)})'
    BY <1>1, <1>5, <1>7 DEF Plan, Houses
  <2>2. ASSUME NEW q \in Procs, Takes(q)'
        PROVE  /\ h[q] \in SellableOf(txn'[q].type)
               /\ \A b \in Ids :
                    /\ Withholds(b)' /\ b # txn'[q].id
                    /\ Overlap(bookings'[b].stay, txn'[q].stay)
                    => f[b] # h[q]
    <3>1. CASE q = p
      <4>1. h[q] = r /\ txn'[q].type = txn[p].type /\ txn'[q].stay = txn[p].stay
            /\ txn'[q].id = txn[p].id
        BY <1>6, <1>8, <3>1
      <4>2. \A b \in Ids :
              /\ Withholds(b)' /\ b # txn[p].id
              /\ Overlap(bookings'[b].stay, txn[p].stay)
              => f[b] # r
        BY <1>3, <1>5, <1>7
      <4> QED
        BY <1>3, <4>1, <4>2
    <3>2. CASE q # p
      <4>1. h[q] = g[q] /\ txn'[q] = txn[q] /\ Takes(q)
        BY <1>6, <1>8, <2>2, <3>2 DEF Takes
      <4>2. /\ g[q] \in SellableOf(txn[q].type)
            /\ \A b \in Ids :
                 /\ Withholds(b) /\ b # txn[q].id
                 /\ Overlap(bookings[b].stay, txn[q].stay)
                 => f[b] # g[q]
        BY <1>1, <4>1 DEF Plan
      <4> QED
        BY <1>5, <1>7, <4>1, <4>2
    <3> QED
      BY <3>1, <3>2
  <2> QED
    BY <2>1, <2>2 DEF Plan
<1> QED
  BY <1>8, <1>9 DEF Planned

(* A transaction that commits gives its room to the row it writes.         *)
LEMMA CommitPlan ==
  ASSUME Protocol, Planned, NEW p \in Procs, Website(p), Takes(p), End(p),
         NEW n \in Ids, txn[p].id \in {n, NoId},
         bookings'[n].type = txn[p].type,
         bookings'[n].stay = txn[p].stay,
         bookings'[n].room = NoRoom,
         \A b \in Ids \ {n} : Withholds(b)' =>
           /\ Withholds(b)
           /\ bookings'[b].type = bookings[b].type
           /\ bookings'[b].stay = bookings[b].stay
           /\ bookings'[b].room = bookings[b].room
  PROVE  Planned'
<1>1. PICK f \in [Ids -> Rooms], g \in [Procs -> Rooms] : Plan(f, g)
  BY DEF Planned
<1> DEFINE h == [f EXCEPT ![n] = g[p]]
<1>2. h \in [Ids -> Rooms] /\ h[n] = g[p] /\ \A b \in Ids \ {n} : h[b] = f[b]
  OBVIOUS
<1> HIDE DEF h
<1>3. \A q \in Procs : Takes(q)' => q # p /\ Takes(q) /\ txn'[q] = txn[q]
  BY EndType, NoTxnType DEF Takes, Protocol
<1>4. \A b \in Ids \ {n} : Withholds(b)' /\ Overlap(bookings'[b].stay, txn[p].stay)
        => f[b] # g[p]
  BY <1>1, TransactionAssumption DEF Plan, Overlap
<1>5. \A b \in Ids : Withholds(b)' => Fits(bookings'[b], h[b])
  BY <1>1, <1>2 DEF Plan, Houses, Fits
<1>6. ASSUME NEW b \in Ids, NEW c \in Ids, Withholds(b)', Withholds(c)',
             b # c, Overlap(bookings'[b].stay, bookings'[c].stay)
      PROVE  h[b] # h[c]
  <2>1. CASE b # n /\ c # n
    BY <1>1, <1>2, <1>6, <2>1 DEF Plan, Houses, Overlap
  <2>2. CASE b = n
    <3>1. Overlap(bookings'[c].stay, txn[p].stay)
      BY <1>6, <2>2 DEF Overlap
    <3> QED
      BY <1>2, <1>4, <1>6, <2>2, <3>1
  <2>3. CASE c = n
    BY <1>2, <1>4, <1>6, <2>3
  <2> QED
    BY <2>1, <2>2, <2>3
<1>7. ASSUME NEW q \in Procs, Takes(q)'
      PROVE  /\ g[q] \in SellableOf(txn'[q].type)
             /\ \A b \in Ids :
                  /\ Withholds(b)' /\ b # txn'[q].id
                  /\ Overlap(bookings'[b].stay, txn'[q].stay)
                  => h[b] # g[q]
  <2>1. q # p /\ Takes(q) /\ txn'[q] = txn[q]
    BY <1>3, <1>7
  <2>2. g[p] # g[q]
    BY <1>1, <2>1, TakersApart
  <2> QED
    BY <1>1, <1>2, <2>1, <2>2 DEF Plan, Overlap
<1>8. Plan(h, g)'
  BY <1>5, <1>6, <1>7 DEF Plan, Houses
<1> QED
  BY <1>2, <1>8 DEF Planned

(* A transaction that ends leaves only the other payments in flight.       *)
LEMMA EndInFlight ==
  ASSUME Protocol, NEW p \in Procs, End(p)
  PROVE  \A b \in Ids : InFlight(b)' => InFlight(b)
BY EndType, NoTxnType DEF Protocol, InFlight

LEMMA ReservePlan ==
  ASSUME Protocol, Planned, NEW p \in Procs, Reserve(p)
  PROVE  Planned'
<1>0. TypeOK /\ txn[p] \in Txn /\ End(p) /\ now' = now /\ Takes(p) /\ Website(p)
  BY DEF Protocol, TypeOK, Reserve, End, Committing, Takes, Website
<1>1. txn[p].id = NoId
  BY DEF Reserve, Committing, Protocol, Shape
<1>2. PICK n \in Ids, clock \in txn[p].seen .. now :
        /\ bookings[n].status = "NONE"
        /\ bookings' = [b \in Ids |->
             IF b = n THEN NewHold(p, clock + Hold)
             ELSE IF Swept(b, txn[p].type)
                  THEN [bookings[b] EXCEPT !.status = "CANCELLED"]
                  ELSE bookings[b]]
  BY DEF Reserve
<1>3. /\ bookings'[n].type = txn[p].type
      /\ bookings'[n].stay = txn[p].stay
      /\ bookings'[n].room = NoRoom
  BY <1>2 DEF NewHold
<1>4. ASSUME NEW b \in Ids \ {n}
      PROVE  /\ bookings'[b].type = bookings[b].type
             /\ bookings'[b].stay = bookings[b].stay
             /\ bookings'[b].room = bookings[b].room
             /\ Blocks(bookings'[b], now') => Blocks(bookings[b], now)
  BY <1>0, <1>2 DEF TypeOK, Booking, Blocks, ActiveStatuses
<1>5. \A b \in Ids \ {n} : Withholds(b)' => Withholds(b)
  BY <1>0, <1>4, EndInFlight DEF Withholds
<1> QED
  BY <1>0, <1>1, <1>3, <1>4, <1>5, CommitPlan

LEMMA ModifyPlan ==
  ASSUME Protocol, Planned, NEW p \in Procs, Modify(p)
  PROVE  Planned'
<1>0. TypeOK /\ txn[p] \in Txn /\ End(p) /\ now' = now /\ Takes(p) /\ Website(p)
  BY DEF Protocol, TypeOK, Modify, End, Committing, Takes, Website
<1> DEFINE n == txn[p].id
           x == bookings[n]
<1>1. n \in Ids /\ x.status = "CONFIRMED"
  BY <1>0 DEF Modify, Committing, Protocol, Shape, Decided, Manageable, Txn
<1>2. x \in Booking
  BY <1>0, <1>1 DEF TypeOK
<1>3. bookings'[n] = Changed(x, txn[p].type, txn[p].stay)
      /\ \A b \in Ids \ {n} : bookings'[b] = bookings[b]
  BY <1>0, <1>1 DEF Modify, TypeOK
<1>4. /\ bookings'[n].type = txn[p].type /\ bookings'[n].stay = txn[p].stay
      /\ bookings'[n].room =
           IF x.type # txn[p].type \/ x.stay # txn[p].stay THEN NoRoom ELSE x.room
  BY <1>2, <1>3 DEF Changed, Booking
<1>5. Withholds(n)
  BY <1>1 DEF Withholds, Blocks, Lapsed, ActiveStatuses
<1> HIDE DEF n, x
<1>6. \A b \in Ids \ {n} : Withholds(b)' => Withholds(b)
  BY <1>0, <1>3, EndInFlight DEF Withholds
<1>7. CASE bookings'[n].room = NoRoom
  BY <1>0, <1>1, <1>3, <1>4, <1>6, <1>7, CommitPlan DEF n
<1>8. CASE bookings'[n].room # NoRoom
  <2>1. PICK f \in [Ids -> Rooms], g \in [Procs -> Rooms] : Plan(f, g)
    BY DEF Planned
  <2>2. \A q \in Procs : Takes(q)' => Takes(q) /\ txn'[q] = txn[q]
    BY <1>0, EndType, NoTxnType DEF Takes
  <2>3. /\ bookings'[n].type = x.type /\ bookings'[n].stay = x.stay
        /\ bookings'[n].room = x.room
    BY <1>4, <1>8
  <2>4. \A b \in Ids : Withholds(b)' =>
          /\ Withholds(b)
          /\ bookings'[b].type = bookings[b].type
          /\ bookings'[b].stay = bookings[b].stay
          /\ bookings'[b].room = bookings[b].room
    BY <1>3, <1>5, <1>6, <2>3 DEF x
  <2>5. Plan(f, g)'
    BY <2>1, <2>2, <2>4, PlanShrinks
  <2> QED
    BY <2>1, <2>5 DEF Planned
<1> QED
  BY <1>7, <1>8

(* The Front Desk may rearrange the guests of every type that no open      *)
(* transaction has locked; the guests and rooms of a locked type stay as   *)
(* the plan has them, and the two do not share a room.                     *)
Class(b) == IF b.room = NoRoom THEN b.type ELSE RoomType[b.room]

LEMMA FitsClass ==
  ASSUME NEW b \in Booking, NEW r, Fits(b, r)
  PROVE  RoomType[r] = Class(b)
BY DEF Fits, Class, SellableOf, Booking

LEMMA DeskPlan ==
  ASSUME Protocol, Planned, NEW b \in Ids, NEW nb, DeskRow(b, nb)
  PROVE  Planned'
<1>0. /\ TypeOK /\ TypeOK'
      /\ bookings' = [bookings EXCEPT ![b] = nb] /\ rowLock[b] = NoProc
      /\ UNCHANGED <<now, typeLock, rowLock, txn>>
      /\ CanHouse(bookings', now)
  BY DeskKeepsProtocol DEF Protocol, DeskRow, DeskWrites, DeskLocks
<1>1. PICK f \in [Ids -> Rooms], g \in [Procs -> Rooms] : Plan(f, g)
  BY DEF Planned
<1>2. PICK d \in [Ids -> Rooms] :
        Houses(d, bookings', {c \in Ids : Blocks(bookings'[c], now)})
  BY <1>0 DEF CanHouse
<1> DEFINE Open(c) == typeLock[Class(bookings'[c])] = NoProc
<1>3. PICK h \in [Ids -> Rooms] :
        \A c \in Ids : h[c] = IF Open(c) THEN d[c] ELSE f[c]
  <2> DEFINE k == [c \in Ids |-> IF Open(c) THEN d[c] ELSE f[c]]
  <2>1. k \in [Ids -> Rooms] /\ \A c \in Ids : k[c] = IF Open(c) THEN d[c] ELSE f[c]
    OBVIOUS
  <2> QED
    BY <2>1
<1>4. Open(b)
  BY <1>0 DEF DeskRow, DeskWrites, DeskLocks, Class, TypeOK
<1>5. \A c \in Ids : InFlight(c)' <=> InFlight(c)
  BY <1>0 DEF InFlight
<1>6. ASSUME NEW c \in Ids, InFlight(c) PROVE c # b /\ ~Open(c)
  <2>1. c # b
    BY <1>0, <1>6, InFlightLocked, TransactionAssumption
  <2>2. bookings'[c] = bookings[c]
    BY <1>0, <2>1 DEF TypeOK
  <2> QED
    BY <1>6, <2>1, <2>2, InFlightLocked, TransactionAssumption DEF Class
<1> HIDE DEF Open
<1>7. ASSUME NEW c \in Ids, Withholds(c)', ~Open(c)
      PROVE  bookings'[c] = bookings[c] /\ Withholds(c) /\ h[c] = f[c]
  <2>1. bookings'[c] = bookings[c]
    BY <1>0, <1>4, <1>7 DEF TypeOK
  <2> QED
    BY <1>0, <1>3, <1>5, <1>7, <2>1 DEF Withholds
<1>8. ASSUME NEW c \in Ids, Withholds(c)', Open(c)
      PROVE  Blocks(bookings'[c], now) /\ h[c] = d[c]
  BY <1>0, <1>3, <1>5, <1>6, <1>8 DEF Withholds
<1>9. ASSUME NEW c \in Ids, Withholds(c)'
      PROVE  Fits(bookings'[c], h[c]) /\ RoomType[h[c]] = Class(bookings'[c])
  <2>1. bookings'[c] \in Booking
    BY <1>0 DEF TypeOK
  <2>2. Fits(bookings'[c], h[c])
    BY <1>1, <1>2, <1>7, <1>8, <1>9 DEF Plan, Houses
  <2> QED
    BY <2>1, <2>2, FitsClass
<1>10. ASSUME NEW c \in Ids, NEW e \in Ids, Withholds(c)', Withholds(e)',
              c # e, Overlap(bookings'[c].stay, bookings'[e].stay)
       PROVE  h[c] # h[e]
  <2>1. CASE Class(bookings'[c]) # Class(bookings'[e])
    BY <1>9, <1>10, <2>1
  <2>2. CASE Open(c) /\ Open(e)
    BY <1>2, <1>8, <1>10, <2>2 DEF Houses
  <2>3. CASE ~Open(c) /\ ~Open(e)
    BY <1>1, <1>7, <1>10, <2>3 DEF Plan, Houses
  <2> QED
    BY <2>1, <2>2, <2>3 DEF Open
<1>11. ASSUME NEW q \in Procs, Takes(q)'
       PROVE  /\ g[q] \in SellableOf(txn'[q].type)
              /\ \A c \in Ids :
                   /\ Withholds(c)' /\ c # txn'[q].id
                   /\ Overlap(bookings'[c].stay, txn'[q].stay)
                   => h[c] # g[q]
  <2>1. txn' = txn /\ Takes(q)
    BY <1>0, <1>11 DEF Takes
  <2>2. g[q] \in SellableOf(txn[q].type) /\ RoomType[g[q]] = txn[q].type
    BY <1>1, <2>1 DEF Plan, SellableOf
  <2>3. typeLock[txn[q].type] # NoProc
    BY <2>1, TransactionAssumption DEF Protocol, LocksHeld, Takes, Need
  <2>4. ASSUME NEW c \in Ids, Withholds(c)', c # txn[q].id,
               Overlap(bookings'[c].stay, txn[q].stay)
        PROVE  h[c] # g[q]
    <3>1. CASE Open(c)
      BY <1>9, <2>2, <2>3, <2>4, <3>1 DEF Open
    <3>2. CASE ~Open(c)
      BY <1>1, <1>7, <2>1, <2>4, <3>2 DEF Plan
    <3> QED
      BY <3>1, <3>2
  <2> QED
    BY <2>1, <2>2, <2>4
<1>12. Plan(h, g)'
  BY <1>9, <1>10, <1>11 DEF Plan, Houses
<1> QED
  BY <1>12 DEF Planned

-----------------------------------------------------------------------------
LEMMA PlanInit == Init => Planned
<1> SUFFICES ASSUME Init PROVE Planned
  OBVIOUS
<1>1. \A p \in Procs : txn[p].pc = "idle"
  BY NoTxnType DEF Init
<1>2. \A b \in Ids : ~Withholds(b)
  BY <1>1 DEF Init, Withholds, InFlight, Blocks, NoBooking, ActiveStatuses
<1>3. PICK r \in Rooms : TRUE
  BY InventoryAssumption
<1>4. Plan([b \in Ids |-> r], [p \in Procs |-> r])
  BY <1>1, <1>2 DEF Plan, Houses, Takes
<1> QED
  BY <1>3, <1>4 DEF Planned

LEMMA IInvInit == Init => IInv
BY ProtocolInit, PlanInit DEF IInv

LEMMA IInvNext == IInv /\ [Next]_vars => IInv'
<1> SUFFICES ASSUME Protocol, Planned, [Next]_vars PROVE Planned'
  BY ProtocolNext DEF IInv
<1>1. CASE UNCHANGED vars
  <2>1. PICK f \in [Ids -> Rooms], g \in [Procs -> Rooms] : Plan(f, g)
    BY DEF Planned
  <2>2. Plan(f, g)'
    BY <1>1, <2>1, PlanShrinks DEF vars, Withholds, InFlight, Takes
  <2> QED
    BY <2>2 DEF Planned
<1>2. CASE Tick
  BY <1>2, TickPlan
<1>3. ASSUME NEW p \in Procs, Website(p) PROVE Planned'
  BY <1>3, QuietPlan, CheckPlan, ReservePlan, ModifyPlan
<1>4. ASSUME NEW b \in Ids, FrontDesk(b) PROVE Planned'
  BY <1>4, DeskWritesRow, DeskPlan
<1> QED
  BY <1>1, <1>2, <1>3, <1>4 DEF Next

LEMMA PlannedAccommodates == Planned => Accommodated
BY DEF Planned, Plan, Houses, Withholds, Accommodated, CanHouse

(* The hotel can always give every booking that withholds a room one of    *)
(* its own, however many bookings, rooms, types, connections and stays     *)
(* there are and however their transactions interleave.                    *)
THEOREM NoOverbooking == Spec => []Accommodated
<1>1. Spec => []IInv
  BY IInvInit, IInvNext, PTL DEF Spec
<1>2. IInv => Accommodated
  BY PlannedAccommodates DEF IInv
<1> QED
  BY <1>1, <1>2, PTL

-----------------------------------------------------------------------------
(* Counts and locks.                                                       *)

(* More free rooms and fewer bookings that wait for one count for more.    *)
LEMMA MoreIsMore ==
  ASSUME NEW F, NEW U, NEW F2, NEW U2, IsFiniteSet(F2), IsFiniteSet(U),
         F \subseteq F2, U2 \subseteq U
  PROVE  /\ Clamp(Cardinality(F) - Cardinality(U)) \in Nat
         /\ Clamp(Cardinality(F2) - Cardinality(U2)) \in Nat
         /\ Clamp(Cardinality(F2) - Cardinality(U2))
              >= Clamp(Cardinality(F) - Cardinality(U))
<1>1. /\ IsFiniteSet(F) /\ Cardinality(F) <= Cardinality(F2)
      /\ IsFiniteSet(U2) /\ Cardinality(U2) <= Cardinality(U)
  BY FS_Subset
<1>2. /\ Cardinality(F) \in Nat /\ Cardinality(F2) \in Nat
      /\ Cardinality(U) \in Nat /\ Cardinality(U2) \in Nat
  BY <1>1, FS_CardinalityType
<1> QED
  BY <1>1, <1>2 DEF Clamp

(* A step takes no room of type T for booking b: whatever b withholds then *)
(* it withheld before, or it is of another type.                           *)
TakesNone(b, T) ==
  Blocks(bookings'[b], now') =>
    \/ /\ Blocks(bookings[b], now)
       /\ bookings'[b].type = bookings[b].type
       /\ bookings'[b].stay = bookings[b].stay
       /\ bookings'[b].room = bookings[b].room
    \/ bookings'[b].room = NoRoom /\ bookings'[b].type # T
    \/ bookings'[b].room # NoRoom /\ RoomType[bookings'[b].room] # T

LEMMA CountKept ==
  ASSUME NEW T, NEW S, NEW x, \A b \in Ids : TakesNone(b, T),
         Available(bookings, now, T, S, x) >= 1
  PROVE  Available(bookings', now', T, S, x) >= 1
<1> DEFINE F == FreeRooms(bookings, now, T, S, x)
           G == FreeRooms(bookings', now', T, S, x)
           U == Unassigned(bookings, now, T, S, x)
           V == Unassigned(bookings', now', T, S, x)
<1>1. F \subseteq G
  BY InventoryAssumption DEF FreeRooms, SellableOf, TakesNone
<1>2. V \subseteq U
  BY DEF Unassigned, TakesNone
<1>3. IsFiniteSet(G)
  BY InventoryAssumption, FS_Subset DEF FreeRooms, SellableOf
<1>4. IsFiniteSet(U)
  BY InventoryAssumption, FS_Subset DEF Unassigned
<1>5. Clamp(Cardinality(F) - Cardinality(U)) >= 1
  BY DEF Available
<1> HIDE DEF F, G, U, V
<1>6. Clamp(Cardinality(G) - Cardinality(V)) >= 1
  BY <1>1, <1>2, <1>3, <1>4, <1>5, MoreIsMore
<1> QED
  BY <1>6 DEF Available, G, V

(* Only a holder of its lock takes a room of a type.                       *)
LEMMA OthersTakeNone ==
  ASSUME Protocol, NEW p \in Procs, NEW T \in Types, typeLock[T] = p,
         \/ \E q \in Procs \ {p} : Website(q)
         \/ \E b \in Ids : \E nb : DeskRow(b, nb)
  PROVE  \A b \in Ids : TakesNone(b, T)
<1>0. TypeOK /\ NoRoomYet
  BY DEF Protocol
<1>1. ASSUME NEW q \in Procs \ {p}, Website(q) PROVE \A b \in Ids : TakesNone(b, T)
  <2>0. /\ txn[q] \in Txn /\ Shape(q) /\ LocksHeld(q) /\ RefFresh(q) /\ Decided(q)
        /\ now' = now
    BY <1>0, <1>1, CommitOnlyByCheck DEF Protocol, TypeOK
  <2>1. CASE UNCHANGED bookings
    BY <2>0, <2>1 DEF TakesNone
  <2>2. CASE Reserve(q)
    <3>1. PICK n \in Ids, clock \in txn[q].seen .. now :
            bookings' = [b \in Ids |->
                 IF b = n THEN NewHold(q, clock + Hold)
                 ELSE IF Swept(b, txn[q].type)
                      THEN [bookings[b] EXCEPT !.status = "CANCELLED"]
                      ELSE bookings[b]]
      BY <2>2 DEF Reserve
    <3>2. txn[q].type # T
      BY <2>0, <2>2 DEF Reserve, Committing, LocksHeld, Need
    <3>3. bookings'[n].room = NoRoom /\ bookings'[n].type = txn[q].type
      BY <3>1 DEF NewHold
    <3>4. \A b \in Ids \ {n} : \/ bookings'[b] = bookings[b]
                            \/ bookings'[b].status = "CANCELLED"
      BY <1>0, <3>1 DEF TypeOK, Booking
    <3> QED
      BY <2>0, <3>2, <3>3, <3>4 DEF TakesNone, Blocks, ActiveStatuses
  <2>3. CASE Prepare(q) \/ Settle(q)
    <3> DEFINE i == txn[q].id
    <3>1. i \in Ids /\ bookings[i] \in Booking
      BY <1>0, <2>0, <2>3 DEF Prepare, Settle, Committing, Shape, Txn, TypeOK
    <3>2. /\ bookings[i].status = "PENDING" /\ bookings[i].web
          /\ bookings[i].type # T
      BY <2>0, <2>3, <3>1, TransactionAssumption
      DEF Prepare, Settle, Committing, Decided, RefFresh, LocksHeld, Need
    <3>3. bookings[i].room = NoRoom
      BY <1>0, <3>1, <3>2 DEF NoRoomYet
    <3>4. /\ \A b \in Ids \ {i} : bookings'[b] = bookings[b]
          /\ bookings'[i].room = bookings[i].room /\ bookings'[i].type = bookings[i].type
      BY <1>0, <2>3, <3>1 DEF Prepare, Settle, TypeOK, Booking
    <3> QED
      BY <2>0, <3>1, <3>2, <3>3, <3>4 DEF TakesNone
  <2>4. CASE SettleLate(q) \/ CancelHold(q) \/ Withdraw(q)
    BY <1>0, <2>0, <2>4
    DEF SettleLate, CancelHold, Withdraw, Cancelled, TakesNone, Blocks,
        ActiveStatuses, TypeOK, Booking
  <2>5. CASE Modify(q)
    <3> DEFINE i == txn[q].id
    <3>1. i \in Ids /\ bookings[i] \in Booking
      BY <1>0, <2>0, <2>5 DEF Modify, Committing, Shape, Txn, TypeOK
    <3>2. txn[q].type # T
      BY <2>0, <2>5 DEF Modify, Committing, LocksHeld, Need
    <3>3. /\ \A b \in Ids \ {i} : bookings'[b] = bookings[b]
          /\ bookings'[i] = Changed(bookings[i], txn[q].type, txn[q].stay)
      BY <1>0, <2>5, <3>1 DEF Modify, TypeOK
    <3>4. bookings[i].status = "CONFIRMED"
      BY <2>0, <2>5, <3>1, TransactionAssumption
      DEF Modify, Committing, Decided, Manageable
    <3>5. \/ bookings'[i].room = NoRoom /\ bookings'[i].type = txn[q].type
          \/ /\ bookings'[i].type = bookings[i].type
             /\ bookings'[i].stay = bookings[i].stay
             /\ bookings'[i].room = bookings[i].room
      BY <3>1, <3>3 DEF Changed, Booking
    <3>6. Blocks(bookings[i], now)
      BY <3>4 DEF Blocks, Lapsed, ActiveStatuses
    <3> QED
      BY <2>0, <3>2, <3>3, <3>5, <3>6 DEF TakesNone
  <2> QED
    BY <1>1, <2>1, <2>2, <2>3, <2>4, <2>5
    DEF Website, BeginReserve, BeginPayment, BeginManagement, LockType,
        Rollback, ReserveCheck, PrepareCheck, SettleCheck, ModifyCheck, Decide
<1>2. ASSUME NEW b \in Ids, NEW nb, DeskRow(b, nb) PROVE \A c \in Ids : TakesNone(c, T)
  <2>1. /\ bookings'[b] = nb /\ \A c \in Ids \ {b} : bookings'[c] = bookings[c]
        /\ nb.type # T
        /\ nb.room # NoRoom => RoomType[nb.room] # T
        /\ now' = now
    BY <1>0, <1>2, TransactionAssumption DEF DeskRow, DeskWrites, DeskLocks, TypeOK
  <2> QED
    BY <2>1 DEF TakesNone
<1> QED
  BY <1>1, <1>2

(* What the two checks counted.                                            *)
LEMMA CheckCounts ==
  ASSUME Protocol, NEW p \in Procs, ReserveCheck(p) \/ ModifyCheck(p)
  PROVE  Available(bookings, now, txn[p].type, txn[p].stay, {txn[p].id}) >= 1
<1>1. CASE ReserveCheck(p)
  <2>1. txn[p].id = NoId
    BY <1>1 DEF Protocol, ReserveCheck, Reading, Shape
  <2>2. Ids \ {NoId} = Ids \ {}
    BY TransactionAssumption
  <2> QED
    BY <1>1, <2>1, <2>2 DEF ReserveCheck, Available, FreeRooms, Unassigned
<1>2. CASE ModifyCheck(p)
  BY <1>2 DEF ModifyCheck
<1> QED
  BY <1>1, <1>2

LEMMA StillFreeNext == Protocol /\ StillFree /\ [Next]_vars => StillFree'
<1> SUFFICES ASSUME Protocol, StillFree, [Next]_vars PROVE StillFree'
  OBVIOUS
<1>0. TypeOK
  BY DEF Protocol
<1> SUFFICES ASSUME NEW p \in Procs, Takes(p)'
             PROVE  Available(bookings', now', txn'[p].type, txn'[p].stay,
                              {txn'[p].id}) >= 1
  BY DEF StillFree, Takes
<1>1. ASSUME Takes(p), txn'[p] = txn[p],
             \A b \in Ids : TakesNone(b, txn[p].type)
      PROVE  Available(bookings', now', txn'[p].type, txn'[p].stay,
                       {txn'[p].id}) >= 1
  BY <1>1, CountKept DEF StillFree, Takes
<1>2. Takes(p) => txn[p].type \in Types /\ typeLock[txn[p].type] = p
  BY <1>0 DEF Protocol, LocksHeld, Takes, Need, TypeOK, Txn
<1>3. CASE UNCHANGED vars \/ Tick
  <2>1. Takes(p) /\ txn'[p] = txn[p]
    BY <1>3 DEF vars, Tick, Takes
  <2>2. \A b \in Ids : TakesNone(b, txn[p].type)
    BY <1>0, <1>3 DEF vars, Tick, TakesNone, Blocks, Lapsed, TypeOK, Booking
  <2> QED
    BY <1>1, <2>1, <2>2
<1>4. ASSUME NEW q \in Procs \ {p}, Website(q)
      PROVE  Available(bookings', now', txn'[p].type, txn'[p].stay,
                       {txn'[p].id}) >= 1
  <2>1. Takes(p) /\ txn'[p] = txn[p]
    BY <1>4, CommitOnlyByCheck DEF Takes
  <2> QED
    BY <1>1, <1>2, <1>4, <2>1, OthersTakeNone
<1>5. CASE Website(p)
  <2>1. /\ ReserveCheck(p) \/ ModifyCheck(p)
        /\ bookings' = bookings /\ now' = now
        /\ txn'[p].type = txn[p].type /\ txn'[p].stay = txn[p].stay
        /\ txn'[p].id = txn[p].id
    <3>1. txn[p] \in Txn
      BY <1>0 DEF TypeOK
    <3> QED
      BY <1>5, <3>1, CommitOnlyByCheck
      DEF Takes, PrepareCheck, SettleCheck, Reading, Txn
  <2> QED
    BY <2>1, CheckCounts
<1>6. ASSUME NEW b \in Ids, FrontDesk(b)
      PROVE  Available(bookings', now', txn'[p].type, txn'[p].stay,
                       {txn'[p].id}) >= 1
  <2>1. PICK nb : DeskRow(b, nb)
    BY <1>6, DeskWritesRow
  <2>2. Takes(p) /\ txn'[p] = txn[p]
    BY <2>1 DEF DeskRow, DeskWrites, Takes
  <2> QED
    BY <1>1, <1>2, <2>1, <2>2, OthersTakeNone
<1> QED
  BY <1>3, <1>4, <1>5, <1>6 DEF Next

(* A room count is only used while it is still true: between the count and *)
(* the row, no other transaction takes the room the count stood for.       *)
THEOREM CountsStayTrue == Spec => []StillFree
<1>1. Init => StillFree
  BY NoTxnType DEF Init, StillFree
<1> QED
  BY <1>1, ProtocolInit, ProtocolNext, StillFreeNext, PTL DEF Spec

-----------------------------------------------------------------------------
(* Every website write that makes a booking withhold a room, or longer, or *)
(* elsewhere, is made by a transaction that holds the lock of the type the *)
(* booking then has.                                                       *)
THEOREM SalesAreLocked == Spec => SoldUnderLock
<1>1. ASSUME Protocol, [Next]_vars, NEW b \in Ids, Extends(bookings[b], bookings'[b])
      PROVE  \E p \in Procs : typeLock[bookings'[b].type] = p /\ txn'[p] = NoTxn
  <2>0. TypeOK
    BY <1>1 DEF Protocol
  <2>1. ~(bookings'[b] = bookings[b])
    BY <1>1 DEF Extends
  <2>2. ASSUME NEW p \in Procs, Website(p)
        PROVE  typeLock[bookings'[b].type] = p /\ txn'[p] = NoTxn
    <3>0. /\ txn[p] \in Txn /\ Shape(p) /\ LocksHeld(p) /\ RefFresh(p) /\ Decided(p)
      BY <1>1, <2>0 DEF Protocol, TypeOK
    <3>1. CASE Reserve(p)
      <4>1. bookings'[b].type = txn[p].type
        BY <1>1, <2>0, <2>1, <3>1
        DEF Reserve, NewHold, Extends, TypeOK, Booking
      <4> QED
        BY <2>0, <3>0, <3>1, <4>1, EndType DEF Reserve, Committing, LocksHeld, Need
    <3>2. CASE Prepare(p) \/ Settle(p)
      <4>1. b = txn[p].id /\ bookings'[b].type = bookings[b].type
        BY <2>0, <2>1, <3>2 DEF Prepare, Settle, TypeOK, Booking
      <4>2. bookings[b].type = txn[p].ref
        BY <3>0, <3>2, <4>1, TransactionAssumption
        DEF Prepare, Settle, Committing, Decided, RefFresh
      <4> QED
        BY <2>0, <3>0, <3>2, <4>1, <4>2, EndType
        DEF Prepare, Settle, Committing, LocksHeld, Need
    <3>3. CASE Modify(p)
      <4>1. b = txn[p].id /\ bookings'[b].type = txn[p].type
        BY <2>0, <2>1, <3>3 DEF Modify, Changed, TypeOK, Booking
      <4> QED
        BY <2>0, <3>0, <3>3, <4>1, EndType DEF Modify, Committing, LocksHeld, Need
    <3>4. CASE SettleLate(p) \/ CancelHold(p) \/ Withdraw(p)
      BY <1>1, <2>0, <2>1, <3>4
      DEF SettleLate, CancelHold, Withdraw, Cancelled, Extends, TypeOK, Booking
    <3> QED
      BY <2>1, <2>2, <3>1, <3>2, <3>3, <3>4
      DEF Website, BeginReserve, BeginPayment, BeginManagement, LockType,
          Rollback, ReserveCheck, PrepareCheck, SettleCheck, ModifyCheck, Decide
  <2>3. ~ \E c \in Ids : FrontDesk(c)
    <3> SUFFICES ASSUME NEW c \in Ids, FrontDesk(c) PROVE FALSE
      OBVIOUS
    <3>1. c = b /\ bookings[b] \in Booking
      BY <2>0, <2>1 DEF FrontDesk, WalkIn, CheckIn, CheckOut, DeskWrites, TypeOK
    <3>2. PICK nb : /\ bookings'[b] = nb
                    /\ \/ nb.web = FALSE
                       \/ nb.status \in {"CHECKED_IN", "CHECKED_OUT"}
                       \/ \E r \in Rooms : nb = [bookings[b] EXCEPT !.room = r]
      <4>1. CASE WalkIn(b)
        BY <2>0, <4>1 DEF WalkIn, DeskWrites, TypeOK
      <4>2. CASE CheckIn(b)
        <5>1. PICK r \in Rooms :
                \/ DeskWrites(b, [bookings[b] EXCEPT !.status = "CHECKED_IN",
                                                     !.room = r])
                \/ DeskWrites(b, [bookings[b] EXCEPT !.room = r])
          BY <4>2 DEF CheckIn
        <5>2. \/ bookings'[b] = [bookings[b] EXCEPT !.status = "CHECKED_IN",
                                                    !.room = r]
              \/ bookings'[b] = [bookings[b] EXCEPT !.room = r]
          BY <2>0, <5>1 DEF DeskWrites, TypeOK
        <5>3. [bookings[b] EXCEPT !.status = "CHECKED_IN", !.room = r].status
                = "CHECKED_IN"
          BY <3>1 DEF Booking
        <5> QED
          BY <5>2, <5>3
      <4>3. CASE CheckOut(b)
        BY <2>0, <3>1, <4>3 DEF CheckOut, DeskWrites, TypeOK, Booking
      <4> QED
        BY <3>1, <4>1, <4>2, <4>3 DEF FrontDesk
    <3> QED
      BY <1>1, <3>1, <3>2 DEF Extends, Booking
  <2> QED
    BY <1>1, <2>1, <2>2, <2>3 DEF Next, vars, Tick
<1>2. Protocol /\ [Next]_vars =>
        [\A b \in Ids : Extends(bookings[b], bookings'[b]) =>
           \E p \in Procs : typeLock[bookings'[b].type] = p /\ txn'[p] = NoTxn]_vars
  BY <1>1
<1> QED
  BY <1>2, ProtocolInit, ProtocolNext, PTL DEF Spec, SoldUnderLock

-----------------------------------------------------------------------------
(* The refinement: every step of the inventory keeps the promise of every  *)
(* booking.                                                                *)

(* A payment is prepared for a hold that had none, and the row stays as it *)
(* was found until it is written.                                          *)
PrepareFresh ==
  \A p \in Procs : txn[p].pc = "commit" /\ txn[p].op = "prepare" =>
    bookings[txn[p].id].renewed = FALSE

LEMMA PrepareFreshNext == Protocol /\ PrepareFresh /\ [Next]_vars => PrepareFresh'
<1> SUFFICES ASSUME Protocol, PrepareFresh, [Next]_vars,
                    NEW p \in Procs, txn'[p].pc = "commit", txn'[p].op = "prepare"
             PROVE  bookings'[txn'[p].id].renewed = FALSE
  BY DEF PrepareFresh
<1>0. TypeOK
  BY DEF Protocol
<1>1. ASSUME txn'[p] = txn[p] PROVE txn[p].id \in Ids /\ rowLock[txn[p].id] = p
                               /\ bookings[txn[p].id].status = "PENDING"
                               /\ bookings[txn[p].id].renewed = FALSE
  <2>1. txn[p] \in Txn /\ Shape(p) /\ LocksHeld(p) /\ Decided(p)
    BY <1>0 DEF Protocol, TypeOK
  <2> QED
    BY <1>1, <2>1, TransactionAssumption
    DEF Shape, LocksHeld, Decided, PrepareFresh, Txn
<1>2. CASE UNCHANGED vars \/ Tick
  BY <1>1, <1>2 DEF vars, Tick
<1>3. ASSUME NEW q \in Procs \ {p}, Website(q)
      PROVE  bookings'[txn'[p].id].renewed = FALSE
  <2>1. txn'[p] = txn[p]
    BY <1>3, CommitOnlyByCheck
  <2> QED
    <3>1. /\ txn[p].id \in Ids /\ rowLock[txn[p].id] = p
          /\ bookings[txn[p].id].status = "PENDING"
          /\ bookings[txn[p].id].renewed = FALSE
      BY <1>1, <2>1
    <3>2. p # q /\ p # NoProc
      BY TransactionAssumption
    <3>3. WritesUnlocked(q)
      BY <1>3, WebsiteLeaves
    <3>4. bookings'[txn[p].id] = bookings[txn[p].id]
      BY <3>1, <3>2, <3>3 DEF WritesUnlocked
    <3> QED
      BY <2>1, <3>1, <3>4
<1>4. CASE Website(p)
  <2>0. txn[p] \in Txn /\ Shape(p)
    BY <1>0 DEF Protocol, TypeOK
  <2>1. /\ PrepareCheck(p) /\ bookings' = bookings /\ txn'[p].id = txn[p].id
    <3>1. /\ \/ ReserveCheck(p) \/ PrepareCheck(p) \/ SettleCheck(p) \/ ModifyCheck(p)
          /\ bookings' = bookings
          /\ txn'[p] = [txn[p] EXCEPT !.pc = "commit", !.seen = now]
      BY <1>4, CommitOnlyByCheck
    <3>2. txn'[p].id = txn[p].id /\ txn[p].op = "prepare"
      BY <2>0, <3>1 DEF Txn
    <3>3. ~ReserveCheck(p) /\ ~SettleCheck(p) /\ ~ModifyCheck(p)
      BY <3>2 DEF ReserveCheck, SettleCheck, ModifyCheck, Reading
    <3> QED
      BY <3>1, <3>2, <3>3
  <2>2. txn[p].id \in Ids
    <3>1. txn[p].pc = "read" /\ txn[p].op = "prepare"
      BY <2>1 DEF PrepareCheck, Reading
    <3> QED
      BY <2>0, <3>1 DEF Shape, Txn
  <2>3. bookings[txn[p].id].renewed \in BOOLEAN /\ ~bookings[txn[p].id].renewed
    <3>1. bookings[txn[p].id] \in Booking
      BY <1>0, <2>2 DEF TypeOK
    <3>2. bookings[txn[p].id].renewed \in BOOLEAN
      BY <3>1 DEF Booking
    <3> QED
      BY <2>1, <3>2 DEF PrepareCheck
  <2> QED
    BY <2>1, <2>3
<1>5. ASSUME NEW b \in Ids, FrontDesk(b) PROVE bookings'[txn'[p].id].renewed = FALSE
  <2>1. PICK nb : DeskRow(b, nb)
    BY <1>5, DeskWritesRow
  <2>2. /\ txn' = txn /\ rowLock[b] = NoProc
        /\ \A c \in Ids \ {b} : bookings'[c] = bookings[c]
    BY <1>0, <2>1 DEF DeskRow, DeskWrites, DeskLocks, TypeOK
  <2> QED
    BY <1>1, <2>2, TransactionAssumption
<1> QED
  BY <1>2, <1>3, <1>4, <1>5 DEF Next

(* What a booking may do in one step of HoldPromise.                       *)
Moved(b) ==
  /\ \/ PromiseOf(b)' = PromiseOf(b)
     \/ <<PromiseOf(b), PromiseOf(b)'>> \in Promise!Moves
  /\ \/ bookings'[b].hold = bookings[b].hold
     \/ PromiseOf(b) \in {"none", "held"} /\ PromiseOf(b)' # PromiseOf(b)

(* A hold is only said to be paid for while it is live.                    *)
LEMMA FlightIsLive ==
  ASSUME Protocol, NEW p \in Procs, Website(p), NEW b \in Ids, InFlight(b)'
  PROVE  InFlight(b) \/ ~Lapsed(bookings[b], now)
<1>0. TypeOK /\ txn[p] \in Txn
  BY DEF Protocol, TypeOK
<1>1. PICK q \in Procs : /\ txn'[q].id = b /\ txn'[q].pc = "commit"
                        /\ txn'[q].op \in {"prepare", "settle"}
  BY DEF InFlight
<1>2. CASE q # p
  <2>1. txn'[q] = txn[q]
    BY <1>2, CommitOnlyByCheck
  <2> QED
    BY <1>1, <2>1 DEF InFlight
<1>3. CASE q = p
  <2>1. Payable(b)
    BY <1>0, <1>1, <1>3, CommitOnlyByCheck
    DEF ReserveCheck, ModifyCheck, PrepareCheck, SettleCheck, Reading, Txn
  <2> QED
    BY <1>0, <2>1 DEF Payable, Lapsed, TypeOK, Booking
<1> QED
  BY <1>2, <1>3

(* A row that is not written keeps its promise or lapses.                  *)
LEMMA RowStays ==
  ASSUME TypeOK, TypeOK', NEW b \in Ids, now' >= now, bookings'[b] = bookings[b],
         InFlight(b)' => InFlight(b) \/ ~Lapsed(bookings[b], now)
  PROVE  Moved(b)
<1>1. bookings[b] \in Booking /\ now \in Nat /\ now' \in Nat
  BY DEF TypeOK
<1>2. Lapsed(bookings[b], now) => Lapsed(bookings'[b], now')
  BY <1>1 DEF Lapsed, Booking
<1> QED
  BY <1>1, <1>2
  DEF Moved, PromiseOf, Promise!Moves, Booking, Statuses, ActiveStatuses

(* A booking that withheld a room, whatever for, may end.                  *)
LEMMA RowEnds ==
  ASSUME TypeOK, NEW b \in Ids, bookings[b].status \in {"PENDING", "CONFIRMED", "CHECKED_IN"},
         bookings'[b].status \in {"CANCELLED", "CHECKED_OUT"},
         bookings'[b].hold = bookings[b].hold
  PROVE  Moved(b)
<1>1. bookings[b] \in Booking
  BY DEF TypeOK
<1>2. PromiseOf(b)' = "ended"
  BY DEF PromiseOf, Lapsed
<1>3. PromiseOf(b) \in {"booked", "lapsed", "held", "renewed"}
  BY <1>1 DEF PromiseOf, Booking
<1> QED
  BY <1>2, <1>3 DEF Moved, Promise!Moves

(* A booking that was sold stays sold.                                     *)
LEMMA RowSold ==
  ASSUME NEW b \in Ids,
         \/ bookings[b].status \in {"CONFIRMED", "CHECKED_IN"}
         \/ bookings[b].status = "PENDING" /\ bookings[b].web = FALSE,
         \/ bookings'[b].status \in {"CONFIRMED", "CHECKED_IN"}
         \/ bookings'[b].status = "PENDING" /\ bookings'[b].web = FALSE,
         bookings'[b].hold = bookings[b].hold
  PROVE  Moved(b)
BY DEF Moved, PromiseOf, Lapsed

LEMMA WebsiteMoves ==
  ASSUME Protocol, PrepareFresh, TypeOK', NEW p \in Procs, Website(p), NEW b \in Ids
  PROVE  Moved(b)
<1>0. /\ TypeOK /\ txn[p] \in Txn /\ bookings[b] \in Booking
      /\ Shape(p) /\ RefFresh(p) /\ Decided(p)
      /\ now \in Nat /\ now' = now
  BY CommitOnlyByCheck DEF Protocol, TypeOK
<1>1. CASE bookings'[b] = bookings[b]
  BY <1>0, <1>1, FlightIsLive, RowStays
<1>2. CASE Reserve(p)
  <2>1. PICK n \in Ids, clock \in txn[p].seen .. now :
          /\ bookings[n].status = "NONE"
          /\ bookings' = [c \in Ids |->
               IF c = n THEN NewHold(p, clock + Hold)
               ELSE IF Swept(c, txn[p].type)
                    THEN [bookings[c] EXCEPT !.status = "CANCELLED"]
                    ELSE bookings[c]]
    BY <1>2 DEF Reserve
  <2>2. CASE b = n
    <3>1. PromiseOf(b) = "none"
      BY <2>1, <2>2 DEF PromiseOf, Lapsed
    <3>2. /\ bookings'[b].status = "PENDING" /\ bookings'[b].web = TRUE
          /\ bookings'[b].renewed = FALSE
      BY <2>1, <2>2 DEF NewHold
    <3>3. PromiseOf(b)' \in {"held", "lapsed"}
      BY <3>2 DEF PromiseOf
    <3> QED
      BY <3>1, <3>3 DEF Moved, Promise!Moves
  <2>3. CASE b # n /\ Swept(b, txn[p].type)
    <3>1. /\ bookings[b].status = "PENDING" /\ bookings'[b].status = "CANCELLED"
          /\ bookings'[b].hold = bookings[b].hold
      BY <1>0, <2>1, <2>3 DEF Swept, Lapsed, Booking
    <3> QED
      BY <1>0, <3>1, RowEnds
  <2> QED
    BY <1>1, <2>1, <2>2, <2>3
<1>3. CASE (Prepare(p) \/ Settle(p)) /\ b = txn[p].id
  <2>1. bookings[b].status = "PENDING" /\ bookings[b].web
    BY <1>0, <1>3, TransactionAssumption
    DEF Prepare, Settle, Committing, Decided, RefFresh
  <2>2. PromiseOf(b) = IF bookings[b].renewed THEN "renewed" ELSE "held"
    BY <1>0, <1>3, <2>1 DEF PromiseOf, InFlight, Prepare, Settle, Committing
  <2>3. CASE Prepare(p)
    <3>1. bookings[b].renewed = FALSE
      BY <1>3, <2>3 DEF Prepare, Committing, PrepareFresh
    <3>2. /\ bookings'[b].status = "PENDING" /\ bookings'[b].web
          /\ bookings'[b].renewed = TRUE
      BY <1>0, <1>3, <2>1, <2>3 DEF Prepare, TypeOK, Booking
    <3>3. PromiseOf(b)' \in {"renewed", "lapsed"}
      BY <3>2 DEF PromiseOf
    <3> QED
      BY <2>2, <3>1, <3>3 DEF Moved, Promise!Moves
  <2>4. CASE Settle(p)
    <3>1. bookings'[b].status = "CONFIRMED" /\ bookings'[b].hold = bookings[b].hold
      BY <1>0, <1>3, <2>4 DEF Settle, TypeOK, Booking
    <3>2. PromiseOf(b)' = "booked"
      BY <3>1 DEF PromiseOf, Lapsed
    <3> QED
      BY <2>2, <3>1, <3>2 DEF Moved, Promise!Moves
  <2> QED
    BY <1>3, <2>3, <2>4
<1>4. CASE (SettleLate(p) \/ CancelHold(p) \/ Withdraw(p)) /\ b = txn[p].id
  <2>1. /\ bookings[b].status \in {"PENDING", "CONFIRMED"}
        /\ bookings'[b].status = "CANCELLED"
        /\ bookings'[b].hold = bookings[b].hold
    BY <1>0, <1>4 DEF SettleLate, CancelHold, Withdraw, Manageable, Cancelled,
                      TypeOK, Booking
  <2> QED
    BY <1>0, <2>1, RowEnds
<1>5. CASE Modify(p) /\ b = txn[p].id
  <2>1. bookings[b].status = "CONFIRMED"
    BY <1>0, <1>5, TransactionAssumption
    DEF Modify, Committing, Decided, Manageable
  <2>2. bookings'[b].status = bookings[b].status /\ bookings'[b].hold = bookings[b].hold
    BY <1>0, <1>5 DEF Modify, Changed, TypeOK, Booking
  <2> QED
    BY <2>1, <2>2, RowSold
<1>6. CASE UNCHANGED bookings
  BY <1>1, <1>6
<1>7. CASE /\ b # txn[p].id
           /\ \/ Prepare(p) \/ Settle(p) \/ SettleLate(p) \/ CancelHold(p)
              \/ Withdraw(p) \/ Modify(p)
  BY <1>0, <1>1, <1>7
  DEF Prepare, Settle, SettleLate, CancelHold, Withdraw, Modify, Cancelled, TypeOK
<1> QED
  BY <1>2, <1>3, <1>4, <1>5, <1>6, <1>7
  DEF Website, BeginReserve, BeginPayment, BeginManagement, LockType, Rollback,
      ReserveCheck, PrepareCheck, SettleCheck, ModifyCheck, Decide

LEMMA DeskMoves ==
  ASSUME Protocol, TypeOK', NEW c \in Ids, FrontDesk(c), NEW b \in Ids
  PROVE  Moved(b)
<1>0. TypeOK /\ bookings[b] \in Booking /\ now \in Nat
  BY DEF Protocol, TypeOK
<1>1. /\ now' = now /\ txn' = txn
      /\ b # c => bookings'[b] = bookings[b]
  BY <1>0 DEF FrontDesk, WalkIn, CheckIn, CheckOut, DeskWrites, TypeOK
<1>2. CASE b # c
  BY <1>0, <1>1, <1>2, RowStays DEF InFlight
<1>3. CASE b = c /\ WalkIn(c)
  <2>1. /\ bookings[b].status = "NONE" /\ bookings'[b].status = "PENDING"
        /\ bookings'[b].web = FALSE
    BY <1>0, <1>3 DEF WalkIn, DeskWrites, TypeOK
  <2>2. PromiseOf(b) = "none" /\ PromiseOf(b)' = "booked"
    BY <2>1 DEF PromiseOf, Lapsed
  <2> QED
    BY <2>2 DEF Moved, Promise!Moves
<1>4. CASE b = c /\ CheckIn(c)
  <2>1. PICK r \in Rooms :
          \/ DeskWrites(b, [bookings[b] EXCEPT !.status = "CHECKED_IN", !.room = r])
          \/ DeskWrites(b, [bookings[b] EXCEPT !.room = r])
    BY <1>4 DEF CheckIn
  <2>2. \/ bookings'[b] = [bookings[b] EXCEPT !.status = "CHECKED_IN", !.room = r]
        \/ bookings'[b] = [bookings[b] EXCEPT !.room = r]
    BY <1>0, <2>1 DEF DeskWrites, TypeOK
  <2>3. /\ bookings'[b].status \in {bookings[b].status, "CHECKED_IN"}
        /\ bookings'[b].web = bookings[b].web
        /\ bookings'[b].hold = bookings[b].hold
    BY <1>0, <2>2 DEF Booking
  <2>4. \/ bookings[b].status = "CONFIRMED"
        \/ bookings[b].status = "PENDING" /\ bookings[b].web = FALSE
    BY <1>0, <1>4 DEF CheckIn, Booking
  <2> QED
    BY <2>3, <2>4, RowSold
<1>5. CASE b = c /\ CheckOut(c)
  <2>1. /\ bookings[b].status = "CHECKED_IN" /\ bookings'[b].status = "CHECKED_OUT"
        /\ bookings'[b].hold = bookings[b].hold
    BY <1>0, <1>5 DEF CheckOut, DeskWrites, TypeOK, Booking
  <2> QED
    BY <1>0, <2>1, RowEnds
<1> QED
  BY <1>2, <1>3, <1>4, <1>5 DEF FrontDesk

LEMMA AllMove ==
  ASSUME Protocol, PrepareFresh, [Next]_vars, NEW b \in Ids
  PROVE  Moved(b)
<1>0. TypeOK /\ TypeOK' /\ now \in Nat
  BY TypeNext DEF Protocol, TypeOK
<1>1. CASE UNCHANGED vars \/ Tick
  <2>1. now' >= now /\ bookings' = bookings /\ txn' = txn
    BY <1>0, <1>1 DEF vars, Tick
  <2> QED
    BY <1>0, <2>1, RowStays DEF InFlight
<1>2. ASSUME NEW p \in Procs, Website(p) PROVE Moved(b)
  BY <1>0, <1>2, WebsiteMoves
<1>3. ASSUME NEW c \in Ids, FrontDesk(c) PROVE Moved(b)
  BY <1>0, <1>3, DeskMoves
<1> QED
  BY <1>1, <1>2, <1>3 DEF Next

LEMMA PromiseNext ==
  Protocol /\ PrepareFresh /\ [Next]_vars => Promise!Next
<1> SUFFICES ASSUME Protocol, PrepareFresh, [Next]_vars PROVE Promise!Next
  OBVIOUS
<1>0. TypeOK'
  BY TypeNext DEF Protocol
<1>1. \A b \in Ids : PromiseOf(b)' \in Promise!Promises
  BY DEF PromiseOf, Promise!Promises
<1>2. \A b \in Ids : bookings'[b].hold \in Nat
  BY <1>0 DEF TypeOK, Booking
<1>3. \A b \in Ids : Moved(b)
  BY AllMove
<1> QED
  BY <1>1, <1>2, <1>3 DEF Promise!Next, Moved

LEMMA PromiseInit == Init => Promise!Init
BY DEF Init, Promise!Init, PromiseOf, NoBooking, Lapsed

(* The inventory implements HoldPromise: whatever its transactions, the    *)
(* clock and the Front Desk do, and however late a commit is, no hold is   *)
(* renewed twice, none that lapsed is paid for, and none that ended is     *)
(* revived.                                                                *)
THEOREM InventoryKeepsPromise == Spec => KeepsPromise
<1>1. Init => PrepareFresh
  BY NoTxnType DEF Init, PrepareFresh
<1>2. Spec => [](Protocol /\ PrepareFresh)
  BY <1>1, ProtocolInit, ProtocolNext, PrepareFreshNext, PTL DEF Spec
<1> QED
  BY <1>2, PromiseInit, PromiseNext, PTL DEF Spec, KeepsPromise, Promise!Spec

-----------------------------------------------------------------------------
(* The public search.                                                      *)

(* The search counts at least the rooms that the checkout would: it looks  *)
(* at fewer bookings for the rooms, and at the same ones without a room.   *)
LEMMA SearchCounts == SearchShowsAvailable
<1> SUFFICES ASSUME NEW T \in Types, NEW S \in Stays
             PROVE  AdvisoryCount(bookings, now, T, S)
                      >= Available(bookings, now, T, S, {})
  BY DEF SearchShowsAvailable
<1> DEFINE F == FreeRooms(bookings, now, T, S, {})
           G == AdvisoryFree(bookings, now, T, S)
           U == Unassigned(bookings, now, T, S, {})
           V == {b \in Snapshot(bookings, now, T, S) : bookings[b].room = NoRoom}
<1>1. F \subseteq G /\ V \subseteq U
  BY DEF FreeRooms, AdvisoryFree, Unassigned, Snapshot
<1>2. IsFiniteSet(G) /\ IsFiniteSet(U)
  BY InventoryAssumption, FS_Subset DEF AdvisoryFree, Unassigned, SellableOf
<1> HIDE DEF F, G, U, V
<1>3. Clamp(Cardinality(G) - Cardinality(V)) >= Clamp(Cardinality(F) - Cardinality(U))
  BY <1>1, <1>2, MoreIsMore
<1> QED
  BY <1>3 DEF AdvisoryCount, Available, F, G, U, V

(* Every booking that is counted on a night of the stay is in the snapshot *)
(* of the stay, whatever range was loaded for the calendar.                *)
LEMMA CalendarCounts == TypeOK => CalendarShowsSearch
<1> SUFFICES ASSUME TypeOK, NEW T \in Types, NEW R \in Stays, NEW S \in Stays,
                    R.checkIn <= S.checkIn, S.checkOut <= R.checkOut,
                    NEW n \in S.checkIn..(S.checkOut - 1)
             PROVE  CalendarCount(bookings, now, T, R, n)
                      >= AdvisoryCount(bookings, now, T, S)
  BY DEF CalendarShowsSearch
<1> DEFINE counted == CountedOn(bookings, now, T, R, n)
           F == AdvisoryFree(bookings, now, T, S)
           G == SellableOf(T) \ {bookings[b].room : b \in counted}
           U == {b \in Snapshot(bookings, now, T, S) : bookings[b].room = NoRoom}
           V == {b \in counted : bookings[b].room = NoRoom}
<1>1. counted \subseteq Snapshot(bookings, now, T, S)
  <2> SUFFICES ASSUME NEW b \in counted PROVE b \in Snapshot(bookings, now, T, S)
    OBVIOUS
  <2>1. /\ b \in Ids /\ bookings[b].type = T /\ Blocks(bookings[b], now)
        /\ Overlap(bookings[b].stay, Night(n))
    BY DEF CountedOn, Snapshot
  <2>2. bookings[b].stay \in Stays
    BY <2>1 DEF TypeOK, Booking
  <2>3. /\ bookings[b].stay.checkIn \in Nat /\ bookings[b].stay.checkOut \in Nat
        /\ S.checkIn \in Nat /\ S.checkOut \in Nat /\ n \in Int
    BY <2>2, InventoryAssumption
  <2>4. Overlap(bookings[b].stay, S)
    BY <2>1, <2>3 DEF Overlap, Night
  <2> QED
    BY <2>1, <2>4 DEF Snapshot
<1>2. F \subseteq G /\ V \subseteq U
  BY <1>1 DEF AdvisoryFree
<1>3. IsFiniteSet(G) /\ IsFiniteSet(U)
  BY InventoryAssumption, FS_Subset DEF SellableOf, Snapshot
<1>4. /\ CalendarCount(bookings, now, T, R, n) = Clamp(Cardinality(G) - Cardinality(V))
      /\ AdvisoryCount(bookings, now, T, S) = Clamp(Cardinality(F) - Cardinality(U))
  BY DEF CalendarCount, AdvisoryCount
<1> HIDE DEF counted, F, G, U, V
<1> QED
  BY <1>2, <1>3, <1>4, MoreIsMore

(* In every reachable state the search and the calendar show the rooms     *)
(* that checkout would sell.                                               *)
THEOREM SearchesShowRooms == Spec => []SearchShowsRooms
BY SearchCounts, CalendarCounts, TypeCorrect, PTL DEF SearchShowsRooms

=============================================================================
