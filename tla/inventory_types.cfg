SPECIFICATION Spec
CONSTANTS
  r1 = r1
  r2 = r2
  r3 = r3
  NoRoom = NoRoom
  MaxEnded = 1
  NoProc = NoProc
  NoId = NoId
  Ids = {b1, b2}
  Procs = {p1, p2}
  Types = {1, 2}
  Rooms = {r1, r2}
  Sellable = {r1, r2}
  RoomType <- MCTwoTypes
  Stays <- MCOneNight
  Hold = 1
  PayHold = 2
  MaxTime = 1
CONSTRAINT FewArrived
SYMMETRY MCSymmetry
INVARIANTS TypeOK HoldBounded Accommodated StillFree
PROPERTIES SoldUnderLock KeepsPromise
