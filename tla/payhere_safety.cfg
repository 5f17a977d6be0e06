SPECIFICATION Spec
CONSTANTS
  Order = Order
  Charges = {c1, c2}
  Requests = {q1, q2}
SYMMETRY MCSymmetry
INVARIANTS EachChargeOnce UnearnedIsReviewed OneEmail
PROPERTIES KeepsPromise ConfirmedByCharge
