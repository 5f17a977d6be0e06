SPECIFICATION FairSpec
CONSTANTS
  Workers = {w1, w2}
  Charges = {c1}
  Order = Order
  Sessions = {s1}
  Presses = {k1, k2}
  All = All
  None = None
  Unknown = Unknown
  Waiting = Waiting
CHECK_DEADLOCK FALSE
PROPERTIES MoneyEnds PagesSettle
