SPECIFICATION Spec
CONSTANTS
  r1 = r1
  r2 = r2
  r3 = r3
  NoRoom = NoRoom
  MaxEnded = 2
  NoProc = NoProc
  NoId = NoId
  Ids = {b1, b2}
  Procs = {p1}
  Types = {1, 2}
  Rooms = {r1, r2}
  Sellable = {r1, r2}
  RoomType <- MCTwoTypes
  Stays <- MCOneNight
  Hold = 1
  PayHold = 1
  MaxTime = 0
SYMMETRY MCSymmetry
INVARIANTS SearchExcludesAssigned
