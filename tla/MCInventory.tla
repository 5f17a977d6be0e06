---------------------------- MODULE MCInventory ----------------------------
(* Small instances of Inventory: nights 1 and 2, rooms of two types.       *)
EXTENDS Inventory, TLC

CONSTANTS
  r1, r2, r3,
  MaxEnded      \* bound on the bookings that are over

MCStays == {[checkIn |-> 1, checkOut |-> 2], [checkIn |-> 2, checkOut |-> 3],
            [checkIn |-> 1, checkOut |-> 3]}
MCOneNight == {[checkIn |-> 1, checkOut |-> 2]}

MCOneType == [r \in Rooms |-> 1]
MCTwoTypes == [r \in Rooms |-> IF r = r1 THEN 1 ELSE 2]

MCSymmetryRooms ==
  Permutations(Ids) \cup Permutations(Procs) \cup Permutations(Rooms)
MCSymmetry == Permutations(Ids) \cup Permutations(Procs)

(* A booking that is over withholds nothing, and the website writes none   *)
(* whose guest has arrived: TLC goes no further where more of the few ids  *)
(* are used up by such.                                                    *)
EndedIn(statuses) == Cardinality({b \in Ids : bookings[b].status \in statuses})

FewEnded == EndedIn({"CANCELLED", "CHECKED_OUT"}) <= MaxEnded

FewArrived ==
  EndedIn({"CHECKED_OUT"}) = 0 /\ EndedIn({"CANCELLED", "CHECKED_IN"}) <= MaxEnded

=============================================================================
