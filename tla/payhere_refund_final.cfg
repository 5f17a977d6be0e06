SPECIFICATION MCFairSpec
CONSTANTS
  Order = Order
  Charges = {c1}
  Requests = {q1, q2, q3}
PROPERTIES RefundIsFinal
