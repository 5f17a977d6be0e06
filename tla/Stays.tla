------------------------------- MODULE Stays -------------------------------
(***************************************************************************)
(* The vocabulary of room inventory: what a booking row is, when it        *)
(* withholds a room, and how the code counts the rooms still free for a    *)
(* stay.  The binding count is the SQL of BookingRepository.available,     *)
(* evaluated by every transaction that sells a room; the advisory count is *)
(* the one the public availability search shows.                           *)
(***************************************************************************)
EXTENDS Integers, FiniteSets

CONSTANTS
  Ids,         \* booking ids: one per row the bookings table may ever hold
  Types,       \* room types, numbered as their ids sort
  Rooms,       \* physical rooms
  RoomType,    \* the type of each room
  Sellable,    \* rooms that are VACANT, OCCUPIED or REQUIRES_CLEANING
  Stays,       \* the date ranges guests ask for
  NoRoom       \* room_number IS NULL

ASSUME InventoryAssumption ==
  /\ IsFiniteSet(Ids)
  /\ Types \subseteq Nat /\ Types # {}
  /\ IsFiniteSet(Rooms) /\ Rooms # {} /\ NoRoom \notin Rooms
  /\ RoomType \in [Rooms -> Types]
  /\ Sellable \subseteq Rooms
  /\ Stays # {} /\ Stays \subseteq [checkIn : Nat, checkOut : Nat]
  /\ \A s \in Stays : s.checkIn < s.checkOut

ActiveStatuses == {"PENDING", "CONFIRMED", "CHECKED_IN"}
Statuses == ActiveStatuses \cup {"NONE", "CHECKED_OUT", "CANCELLED"}

(***************************************************************************)
(* A row of the bookings table, as far as inventory depends on it.  "web"  *)
(* is source = WEBSITE with a checkout key: only such a hold can lapse.    *)
(* "renewed" says the hold already has its payment, and with it the one    *)
(* extension a hold ever gets.  A row that does not exist has status NONE. *)
(***************************************************************************)
Booking == [status : Statuses, web : BOOLEAN, type : Types, stay : Stays,
            room : Rooms \cup {NoRoom}, hold : Nat, renewed : BOOLEAN]

NoBooking == [status |-> "NONE", web |-> FALSE,
              type |-> CHOOSE t \in Types : TRUE,
              stay |-> CHOOSE s \in Stays : TRUE,
              room |-> NoRoom, hold |-> 0, renewed |-> FALSE]

Overlap(s, t) == s.checkIn < t.checkOut /\ s.checkOut > t.checkIn

Lapsed(b, t) == b.status = "PENDING" /\ b.web /\ b.hold <= t

Blocks(b, t) == b.status \in ActiveStatuses /\ ~Lapsed(b, t)

-----------------------------------------------------------------------------
(* BookingRepository.available                                             *)

SellableOf(T) == {r \in Sellable : RoomType[r] = T}

(* A likely slip: looking only at the bookings of the wanted type.         *)
FreeRooms_SameType(bk, t, T, S, exclude) ==
  {r \in SellableOf(T) :
     ~ \E b \in Ids \ exclude :
         /\ bk[b].type = T /\ bk[b].room = r
         /\ Blocks(bk[b], t) /\ Overlap(bk[b].stay, S)}

FreeRooms(bk, t, T, S, exclude) ==
  {r \in SellableOf(T) :
     ~ \E b \in Ids \ exclude :
         bk[b].room = r /\ Blocks(bk[b], t) /\ Overlap(bk[b].stay, S)}

Unassigned(bk, t, T, S, exclude) ==
  {b \in Ids \ exclude :
     /\ bk[b].type = T /\ bk[b].room = NoRoom
     /\ Blocks(bk[b], t) /\ Overlap(bk[b].stay, S)}

Clamp(n) == IF n < 0 THEN 0 ELSE n

Available(bk, t, T, S, exclude) ==
  Clamp(Cardinality(FreeRooms(bk, t, T, S, exclude))
          - Cardinality(Unassigned(bk, t, T, S, exclude)))

-----------------------------------------------------------------------------
(* AvailabilityRepository.snapshot and AvailabilityService.count: the      *)
(* snapshot holds the blocking bookings of the searched type only.         *)

Snapshot(bk, t, T, S) ==
  {b \in Ids : bk[b].type = T /\ Blocks(bk[b], t) /\ Overlap(bk[b].stay, S)}

AdvisoryFree(bk, t, T, S) ==
  SellableOf(T) \ {bk[b].room : b \in Snapshot(bk, t, T, S)}

AdvisoryCount(bk, t, T, S) ==
  Clamp(Cardinality(AdvisoryFree(bk, t, T, S))
          - Cardinality({b \in Snapshot(bk, t, T, S) : bk[b].room = NoRoom}))

-----------------------------------------------------------------------------
(* AvailabilityService.calendar: each night of a range R is counted over   *)
(* the bookings of the snapshot that was loaded for the whole range.       *)

Night(n) == [checkIn |-> n, checkOut |-> n + 1]

(* A likely slip: the day of a check-out is counted as a night.            *)
CountedOn_CheckOut(bk, t, T, R, n) ==
  {b \in Snapshot(bk, t, T, R) :
     bk[b].stay.checkIn <= n /\ bk[b].stay.checkOut >= n}

CountedOn(bk, t, T, R, n) ==
  {b \in Snapshot(bk, t, T, R) : Overlap(bk[b].stay, Night(n))}

CalendarCount(bk, t, T, R, n) ==
  LET counted == CountedOn(bk, t, T, R, n)
      free    == SellableOf(T) \ {bk[b].room : b \in counted}
  IN  Clamp(Cardinality(free)
              - Cardinality({b \in counted : bk[b].room = NoRoom}))

=============================================================================
