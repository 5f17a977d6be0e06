------------------------ MODULE MCBookingManagement ------------------------
(* Small instances of ManagementView and BookingManagement: place 1 has the earlier check-in.  *)
EXTENDS ManagementView, TLC

MCCheckIn == [p \in Places |-> p + 1]

MCSymmetry ==
  Permutations(Keys) \cup Permutations(Quotes) \cup Permutations(Requests)

=============================================================================
