SPECIFICATION MCSpec
CONSTANTS
  Order = Order
  Charges = {c1, c2}
  Requests = {q1}
  Total = 3
  Amount = 2
  None = None
  Tabs = {t1, t2}
  Offers = {c1, c2}
SYMMETRY MCSymmetry
INVARIANTS PageTells SameStory CheckoutRecovers
PROPERTIES ConfirmedNotForgotten
