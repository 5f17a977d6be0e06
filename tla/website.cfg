SPECIFICATION MCSpec
CONSTANTS
  NoRequest = NoRequest
  NoKey = NoKey
  NoAsk = NoAsk
  NoGrant = NoGrant
  Ids = {b1, b2}
  Keys = {k1, k2}
  Quotes = {u1, u2}
  Remarks = {m1, m2}
  Requests = {q1, q2}
  Prices = {100, 120}
  None = None
  Visits = {d1, d2}
SYMMETRY MCSymmetry
INVARIANTS BooksOnce LocksHold
PROPERTIES KeysPromise PaysAsAgreed PicksOpenNights
