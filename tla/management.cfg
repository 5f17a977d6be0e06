SPECIFICATION Spec
CONSTANTS
  None = None
  Places = {1, 2}
  Wishes = {w1}
  CheckInAt <- MCCheckIn
  Totals = {1}
  Keys = {k1, k2}
  Quotes = {u1}
  Requests = {q1, q2}
  MaxEvents = 2
  Notice = 1
  QuoteLife = 1
  Outcomes = {"ACCEPTED", "FAILED", "UNKNOWN"}
  MaxCharges = 1
  MaxTime = 1
SYMMETRY MCSymmetry
INVARIANTS TypeOK AcceptedInTime OneChangeEmail MoneySettled ViewHolds
PROPERTIES KeepsChanges
