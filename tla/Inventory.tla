----------------------------- MODULE Inventory -----------------------------
(***************************************************************************)
(* Every transaction that sells, keeps or gives back a room, as a process  *)
(* of READ COMMITTED statements between which other transactions and the   *)
(* clock may run.  What keeps two of them from selling one room twice is   *)
(* the FOR UPDATE lock on the room_types row, taken before the booking row *)
(* and held to the end of the transaction; this module takes those locks   *)
(* one at a time, reads the clock where the code reads it, and writes      *)
(* later.                                                                  *)
(*                                                                         *)
(*   reserve   BookingsService.createReservation, from its room-type lock  *)
(*   prepare   PayHereRepository.prepareCheckout, PaymentRepository.prepare*)
(*   settle    the paid branch of settleReceipts and of settle             *)
(*   cancel    cancelCheckout, and settle's expired or failed session      *)
(*   modify    BookingManagementService.modify                             *)
(*   withdraw  BookingManagementService.cancel                             *)
(*                                                                         *)
(* The hotel's Front Desk is another service on the same tables; it is     *)
(* external and assumed to keep the protocol the reservation API document  *)
(* asks of it.                                                             *)
(***************************************************************************)
EXTENDS Stays

CONSTANTS
  Procs,        \* database connections, one transaction at a time each
  NoProc, NoId,
  Hold,         \* reservationHoldSeconds: the hold of a new reservation
  PayHold,      \* minutes a hold is given when its payment is prepared
  MaxTime       \* bound on the clock

ASSUME TransactionAssumption ==
  /\ NoProc \notin Procs /\ NoId \notin Ids
  /\ Hold \in Nat \ {0} /\ PayHold \in Nat \ {0} /\ MaxTime \in Nat

VARIABLES
  now,          \* clock_timestamp()
  bookings,     \* the committed bookings table
  typeLock,     \* who holds the room_types row of each type
  rowLock,      \* who holds each bookings row
  txn           \* the transaction each connection is in

vars == <<now, bookings, typeLock, rowLock, txn>>

Ops == {"reserve", "prepare", "settle", "cancel", "modify", "withdraw"}

(* ref: the row's type as read before the lock; type, stay: what is asked  *)
(* for; seen: the clock the transaction's decision was made at.            *)
Txn == [pc : {"idle", "lock", "read", "commit"}, op : Ops \cup {"none"},
        id : Ids \cup {NoId}, ref : Types, type : Types, stay : Stays,
        seen : Nat]

NoTxn == [pc |-> "idle", op |-> "none", id |-> NoId,
          ref |-> CHOOSE t \in Types : TRUE,
          type |-> CHOOSE t \in Types : TRUE,
          stay |-> CHOOSE s \in Stays : TRUE, seen |-> 0]

Init ==
  /\ now = 0
  /\ bookings = [b \in Ids |-> NoBooking]
  /\ typeLock = [t \in Types |-> NoProc]
  /\ rowLock = [b \in Ids |-> NoProc]
  /\ txn = [p \in Procs |-> NoTxn]

-----------------------------------------------------------------------------
(* Transactions: begin, take the locks, end.                               *)

Tick ==
  /\ now < MaxTime
  /\ now' = now + 1
  /\ UNCHANGED <<bookings, typeLock, rowLock, txn>>

(* A reservation's first statement on inventory is the lock itself.        *)
BeginReserve(p) ==
  /\ txn[p].pc = "idle"
  /\ \E T \in Types, S \in Stays :
       /\ typeLock[T] = NoProc
       /\ typeLock' = [typeLock EXCEPT ![T] = p]
       /\ txn' = [txn EXCEPT ![p] = [pc |-> "read", op |-> "reserve",
                    id |-> NoId, ref |-> T, type |-> T, stay |-> S, seen |-> 0]]
  /\ UNCHANGED <<now, bookings, rowLock>>

(* The row's type is read without a lock, to know which type to lock.      *)
BeginPayment(p) ==
  /\ txn[p].pc = "idle"
  /\ \E b \in Ids, o \in {"prepare", "settle", "cancel"} :
       /\ bookings[b].status # "NONE"
       /\ bookings[b].web \/ o = "cancel"
       /\ txn' = [txn EXCEPT ![p] = [pc |-> "lock", op |-> o, id |-> b,
                    ref |-> bookings[b].type, type |-> bookings[b].type,
                    stay |-> bookings[b].stay, seen |-> 0]]
  /\ UNCHANGED <<now, bookings, typeLock, rowLock>>

BeginManagement(p) ==
  /\ txn[p].pc = "idle"
  /\ \E b \in Ids :
       /\ bookings[b].status # "NONE"
       /\ \/ txn' = [txn EXCEPT ![p] = [pc |-> "lock", op |-> "withdraw",
                       id |-> b, ref |-> bookings[b].type,
                       type |-> bookings[b].type, stay |-> bookings[b].stay,
                       seen |-> 0]]
          \/ \E T \in Types, S \in Stays :
               txn' = [txn EXCEPT ![p] = [pc |-> "lock", op |-> "modify",
                         id |-> b, ref |-> bookings[b].type, type |-> T,
                         stay |-> S, seen |-> 0]]
  /\ UNCHANGED <<now, bookings, typeLock, rowLock>>

(* A likely slip: a change of type locks only the type it leaves.          *)
Need_Left(p) == {txn[p].ref}

Need(p) == {txn[p].ref, txn[p].type}

(* SELECT ... FROM room_types ... FOR UPDATE, in the sorted order of ids.  *)
LockType(p) ==
  /\ txn[p].pc = "lock"
  /\ \E T \in Need(p) :
       /\ typeLock[T] = NoProc
       /\ \A U \in Need(p) : U < T => typeLock[U] = p
       /\ typeLock' = [typeLock EXCEPT ![T] = p]
       /\ txn' = [txn EXCEPT ![p].pc =
                    IF \A U \in Need(p) : U = T \/ typeLock[U] = p
                      THEN "read" ELSE "lock"]
  /\ UNCHANGED <<now, bookings, rowLock>>

Without(lock, p) ==
  [x \in DOMAIN lock |-> IF lock[x] = p THEN NoProc ELSE lock[x]]

(* COMMIT or ROLLBACK: the locks go with the transaction.                  *)
End(p) ==
  /\ txn' = [txn EXCEPT ![p] = NoTxn]
  /\ typeLock' = Without(typeLock, p)
  /\ rowLock' = Without(rowLock, p)
  /\ UNCHANGED now

(* Every exception of the work, and a lost connection or a crash.          *)
Rollback(p) ==
  /\ txn[p].pc # "idle"
  /\ End(p)
  /\ UNCHANGED bookings

(* SELECT ... FROM bookings ... FOR UPDATE, and the decision made on it.   *)
Decide(p) ==
  /\ txn' = [txn EXCEPT ![p].pc = "commit", ![p].seen = now]
  /\ rowLock' = IF txn[p].id = NoId THEN rowLock
                                    ELSE [rowLock EXCEPT ![txn[p].id] = p]
  /\ UNCHANGED <<now, bookings, typeLock>>

Reading(p, o) ==
  /\ txn[p].pc = "read" /\ txn[p].op = o
  /\ txn[p].id # NoId => rowLock[txn[p].id] = NoProc

Committing(p, o) == txn[p].pc = "commit" /\ txn[p].op = o

-----------------------------------------------------------------------------
(* createReservation: count the free rooms, read the clock for the hold,   *)
(* sweep the lapsed holds of the type and insert the row.                  *)

ReserveCheck(p) ==
  /\ Reading(p, "reserve")
  /\ Available(bookings, now, txn[p].type, txn[p].stay, {}) >= 1
  /\ Decide(p)

Swept(b, T) == Lapsed(bookings[b], now) /\ bookings[b].type = T

NewHold(p, until) ==
  [status |-> "PENDING", web |-> TRUE, type |-> txn[p].type,
   stay |-> txn[p].stay, room |-> NoRoom, hold |-> until, renewed |-> FALSE]

Reserve(p) ==
  /\ Committing(p, "reserve")
  /\ \A b \in Ids : Swept(b, txn[p].type) => rowLock[b] = NoProc
  /\ \E n \in Ids, clock \in txn[p].seen .. now :
       /\ bookings[n].status = "NONE"
       /\ bookings' = [b \in Ids |->
            IF b = n THEN NewHold(p, clock + Hold)
            ELSE IF Swept(b, txn[p].type)
                 THEN [bookings[b] EXCEPT !.status = "CANCELLED"]
                 ELSE bookings[b]]
  /\ End(p)

-----------------------------------------------------------------------------
(* Payment transactions.                                                   *)

Payable(b) == bookings[b].status = "PENDING" /\ bookings[b].hold > now

(* A likely slip: every resumed checkout renews the hold.                  *)
PrepareCheck_Again(p) ==
  /\ Reading(p, "prepare")
  /\ Payable(txn[p].id)
  /\ Decide(p)

PrepareCheck(p) ==
  /\ Reading(p, "prepare")
  /\ Payable(txn[p].id) /\ ~bookings[txn[p].id].renewed
  /\ Decide(p)

(* A likely slip: the payment time is added to what is left of the hold.   *)
Prepare_Added(p) ==
  /\ Committing(p, "prepare")
  /\ bookings' = [bookings EXCEPT
       ![txn[p].id].hold = bookings[txn[p].id].hold + PayHold,
       ![txn[p].id].renewed = TRUE]
  /\ End(p)

Prepare(p) ==
  /\ Committing(p, "prepare")
  /\ bookings' = [bookings EXCEPT ![txn[p].id].hold = txn[p].seen + PayHold,
                                  ![txn[p].id].renewed = TRUE]
  /\ End(p)

SettleCheck(p) ==
  /\ Reading(p, "settle")
  /\ Payable(txn[p].id)
  /\ Decide(p)

Settle(p) ==
  /\ Committing(p, "settle")
  /\ bookings' = [bookings EXCEPT ![txn[p].id].status = "CONFIRMED"]
  /\ End(p)

(* A likely slip: a status the enum of the schema does not have.           *)
Cancelled_Spelling(b) == [bookings EXCEPT ![b].status = "CANCELED"]

Cancelled(b) == [bookings EXCEPT ![b].status = "CANCELLED"]

(* Money that arrives after the hold ran out: the booking is released.     *)
SettleLate(p) ==
  /\ Reading(p, "settle")
  /\ bookings[txn[p].id].status = "PENDING" /\ bookings[txn[p].id].hold <= now
  /\ bookings' = Cancelled(txn[p].id)
  /\ End(p)

CancelHold(p) ==
  /\ Reading(p, "cancel")
  /\ bookings[txn[p].id].status = "PENDING"
  /\ bookings' = Cancelled(txn[p].id)
  /\ End(p)

-----------------------------------------------------------------------------
(* Management transactions: only a confirmed website booking, whose type   *)
(* is still the one that was locked.                                       *)

Manageable(p) ==
  LET b == bookings[txn[p].id]
  IN  b.status = "CONFIRMED" /\ b.web /\ b.type = txn[p].ref

ModifyCheck(p) ==
  /\ Reading(p, "modify")
  /\ Manageable(p)
  /\ Available(bookings, now, txn[p].type, txn[p].stay, {txn[p].id}) >= 1
  /\ Decide(p)

(* A likely slip: new dates in the room that was free on the old ones.     *)
Changed_KeepsRoom(b, T, S) ==
  [b EXCEPT !.type = T, !.stay = S,
            !.room = IF b.type # T THEN NoRoom ELSE b.room]

Changed(b, T, S) ==
  [b EXCEPT !.type = T, !.stay = S,
            !.room = IF b.type # T \/ b.stay # S THEN NoRoom ELSE b.room]

Modify(p) ==
  /\ Committing(p, "modify")
  /\ bookings' = [bookings EXCEPT
       ![txn[p].id] = Changed(bookings[txn[p].id], txn[p].type, txn[p].stay)]
  /\ End(p)

Withdraw(p) ==
  /\ Reading(p, "withdraw")
  /\ Manageable(p)
  /\ bookings' = Cancelled(txn[p].id)
  /\ End(p)

-----------------------------------------------------------------------------
(***************************************************************************)
(* What a hotel must be able to do at check-in time: give every booking    *)
(* that withholds a room a room of its own, one it already has if it has   *)
(* one and else one of the type it booked, with no two overlapping stays   *)
(* in a room.                                                              *)
(***************************************************************************)
Fits(b, r) == IF b.room = NoRoom THEN r \in SellableOf(b.type) ELSE r = b.room

Houses(f, bk, claims) ==
  /\ \A b \in claims : Fits(bk[b], f[b])
  /\ \A b, c \in claims :
       b # c /\ Overlap(bk[b].stay, bk[c].stay) => f[b] # f[c]

CanHouse(bk, t) ==
  \E f \in [Ids -> Rooms] : Houses(f, bk, {b \in Ids : Blocks(bk[b], t)})

(***************************************************************************)
(* The Front Desk: sells a room itself (WalkIn), gives a guest a room at   *)
(* check-in, maybe of another type, and checks guests out.  It locks the   *)
(* types whose rooms it hands out and never strands another guest.         *)
(***************************************************************************)
DeskLocks(b, nb) ==
  /\ rowLock[b] = NoProc
  /\ typeLock[nb.type] = NoProc
  /\ \A x \in {bookings[b], nb} :
       x.room # NoRoom => typeLock[RoomType[x.room]] = NoProc

DeskWrites(b, nb) ==
  /\ DeskLocks(b, nb)
  /\ bookings' = [bookings EXCEPT ![b] = nb]
  /\ CanHouse([bookings EXCEPT ![b] = nb], now)
  /\ UNCHANGED <<now, typeLock, rowLock, txn>>

WalkIn(b) ==
  /\ bookings[b].status = "NONE"
  /\ \E T \in Types, S \in Stays :
       DeskWrites(b, [status |-> "PENDING", web |-> FALSE, type |-> T, stay |-> S,
                      room |-> NoRoom, hold |-> 0, renewed |-> FALSE])

CheckIn(b) ==
  /\ \/ bookings[b].status = "CONFIRMED"
     \/ bookings[b].status = "PENDING" /\ ~bookings[b].web
  /\ \E r \in Rooms :
       \/ DeskWrites(b, [bookings[b] EXCEPT !.status = "CHECKED_IN",
                                            !.room = r])
       \/ DeskWrites(b, [bookings[b] EXCEPT !.room = r])

CheckOut(b) ==
  /\ bookings[b].status = "CHECKED_IN"
  /\ DeskWrites(b, [bookings[b] EXCEPT !.status = "CHECKED_OUT"])

-----------------------------------------------------------------------------
Website(p) ==
  \/ BeginReserve(p) \/ BeginPayment(p) \/ BeginManagement(p)
  \/ LockType(p) \/ Rollback(p)
  \/ ReserveCheck(p) \/ Reserve(p)
  \/ PrepareCheck(p) \/ Prepare(p)
  \/ SettleCheck(p) \/ Settle(p) \/ SettleLate(p) \/ CancelHold(p)
  \/ ModifyCheck(p) \/ Modify(p) \/ Withdraw(p)

FrontDesk(b) == WalkIn(b) \/ CheckIn(b) \/ CheckOut(b)

Next ==
  \/ Tick
  \/ \E p \in Procs : Website(p)
  \/ \E b \in Ids : FrontDesk(b)

Spec == Init /\ [][Next]_vars

-----------------------------------------------------------------------------
(* Properties.                                                             *)

(* The tables hold rows of the schema and every transaction is in a state  *)
(* the code can leave it in.                                               *)
TypeOK ==
  /\ now \in Nat
  /\ bookings \in [Ids -> Booking]
  /\ typeLock \in [Types -> Procs \cup {NoProc}]
  /\ rowLock \in [Ids -> Procs \cup {NoProc}]
  /\ txn \in [Procs -> Txn]

(* No overbooking: whatever order checkouts, payments, lapses, changes and *)
(* desk work run in, every booking that withholds a room can be given one. *)
Accommodated == CanHouse(bookings, now)

(* A room count is only ever used while it is still true: between the      *)
(* check and the insert or update, no other transaction takes the room the *)
(* count stood for.                                                        *)
StillFree ==
  \A p \in Procs :
    txn[p].pc = "commit" /\ txn[p].op \in {"reserve", "modify"} =>
      Available(bookings, now, txn[p].type, txn[p].stay, {txn[p].id}) >= 1

(* Every website write that makes a booking withhold a room, or withhold   *)
(* it longer or elsewhere, is made under the lock of the type the booking  *)
(* then has, although payments lock the type they read before they waited. *)
Extends(b, nb) ==
  /\ nb.web /\ nb.status \in {"PENDING", "CONFIRMED"}
  /\ \/ nb.status # b.status \/ nb.hold # b.hold
     \/ nb.type # b.type \/ nb.stay # b.stay

SoldUnderLock ==
  [][\A b \in Ids : Extends(bookings[b], bookings'[b]) =>
       \E p \in Procs : typeLock[bookings'[b].type] = p /\ txn'[p] = NoTxn]_vars

(* An unpaid hold cannot keep a room: at every moment it is at most one    *)
(* reservation hold, or after its one renewal one payment hold, from its   *)
(* end.                                                                    *)
HoldBounded ==
  \A b \in Ids :
    bookings[b].status = "PENDING" /\ bookings[b].web =>
      bookings[b].hold <= now + IF bookings[b].renewed THEN PayHold ELSE Hold

(* The promise a booking is in.  A payment transaction that found its hold *)
(* live keeps it live until it ends: it holds the type's lock, so nobody   *)
(* can look.                                                               *)
InFlight(b) ==
  \E p \in Procs : /\ txn[p].id = b /\ txn[p].pc = "commit"
                   /\ txn[p].op \in {"prepare", "settle"}

PromiseOf(b) ==
  LET x == bookings[b] IN
  CASE x.status = "NONE" -> "none"
    [] x.status \in {"CANCELLED", "CHECKED_OUT"} -> "ended"
    [] \/ x.status \in {"CONFIRMED", "CHECKED_IN"}
       \/ x.status = "PENDING" /\ ~x.web -> "booked"
    [] Lapsed(x, now) /\ ~InFlight(b) -> "lapsed"
    [] OTHER -> IF x.renewed THEN "renewed" ELSE "held"

Promise == INSTANCE HoldPromise
             WITH promise <- [b \in Ids |-> PromiseOf(b)],
                  deadline <- [b \in Ids |-> bookings[b].hold]

(* Each booking keeps the promise: its hold renewed at most once and final *)
(* from then on, never confirmed or renewed after it lapsed, never revived *)
(* after it ended.                                                         *)
KeepsPromise == Promise!Spec

(* The public search never hides a room that checkout would sell: it skips *)
(* lapsed holds by the same rule and reads the same rooms.                 *)
SearchShowsAvailable ==
  \A T \in Types, S \in Stays :
    AdvisoryCount(bookings, now, T, S) >= Available(bookings, now, T, S, {})

(* The calendar marks no night as booked of a stay the search would offer: *)
(* whatever range was loaded for it, each night shows at least as many     *)
(* rooms as the whole stay has.                                            *)
CalendarShowsSearch ==
  \A T \in Types, R \in Stays, S \in Stays :
    R.checkIn <= S.checkIn /\ S.checkOut <= R.checkOut =>
      \A n \in S.checkIn..(S.checkOut - 1) :
         CalendarCount(bookings, now, T, R, n) >= AdvisoryCount(bookings, now, T, S)

SearchShowsRooms == SearchShowsAvailable /\ CalendarShowsSearch

(* What documents/api/availability.md says of the search: a room with an   *)
(* overlapping assigned booking is excluded.  The snapshot only reads the  *)
(* bookings of the searched type, so a guest of another type who was given *)
(* the room at check-in is not seen.                                       *)
SearchExcludesAssigned ==
  \A T \in Types, S \in Stays, b \in Ids :
    Blocks(bookings[b], now) /\ Overlap(bookings[b].stay, S)
      => bookings[b].room \notin AdvisoryFree(bookings, now, T, S)

-----------------------------------------------------------------------------
(***************************************************************************)
(* The strengthening under which Accommodated is inductive.  A room is     *)
(* spoken for from the moment it was counted, not from the moment its row  *)
(* is written, so the plan of rooms also covers the transactions between   *)
(* their check and their commit.                                           *)
(***************************************************************************)
Withholds(b) == Blocks(bookings[b], now) \/ InFlight(b)

Takes(p) == txn[p].pc = "commit" /\ txn[p].op \in {"reserve", "modify"}

Plan(f, g) ==
  /\ Houses(f, bookings, {b \in Ids : Withholds(b)})
  /\ \A p \in Procs : Takes(p) =>
       /\ g[p] \in SellableOf(txn[p].type)
       /\ \A b \in Ids :
            /\ Withholds(b) /\ b # txn[p].id
            /\ Overlap(bookings[b].stay, txn[p].stay)
            => f[b] # g[p]

Planned == \E f \in [Ids -> Rooms], g \in [Procs -> Rooms] : Plan(f, g)

(* What each kind of transaction looks like while it is open.              *)
Shape(p) ==
  txn[p].pc # "idle" =>
    /\ txn[p].op \in Ops
    /\ txn[p].op = "reserve" <=> txn[p].id = NoId
    /\ txn[p].op # "modify" => txn[p].type = txn[p].ref
    /\ txn[p].pc = "commit" => txn[p].op \notin {"cancel", "withdraw"}

LocksHeld(p) ==
  /\ txn[p].pc \in {"read", "commit"} => \A T \in Need(p) : typeLock[T] = p
  /\ txn[p].pc = "commit" /\ txn[p].id # NoId => rowLock[txn[p].id] = p

(* A payment may wait for the lock of a type its booking has left, but     *)
(* then the booking is no longer one that it could sell.                   *)
RefFresh(p) ==
  txn[p].pc # "idle" /\ txn[p].op \in {"prepare", "settle"} =>
    LET b == bookings[txn[p].id] IN
    b.web /\ b.status # "NONE" /\ (b.status = "PENDING" => b.type = txn[p].ref)

Decided(p) ==
  txn[p].pc = "commit" /\ txn[p].id # NoId =>
    IF txn[p].op = "modify" THEN Manageable(p)
                            ELSE bookings[txn[p].id].status = "PENDING"

NoRoomYet ==
  \A b \in Ids : bookings[b].web /\ bookings[b].status = "PENDING" =>
    bookings[b].room = NoRoom

Protocol ==
  /\ TypeOK /\ NoRoomYet
  /\ \A p \in Procs : Shape(p) /\ LocksHeld(p) /\ RefFresh(p) /\ Decided(p)

IInv == Protocol /\ Planned

=============================================================================
