SPECIFICATION Spec
CONSTANTS
  r1 = r1
  r2 = r2
  r3 = r3
  NoRoom = NoRoom
  MaxEnded = 0
  NoProc = NoProc
  NoId = NoId
  Ids = {b1, b2, b3}
  Procs = {p1}
  Types = {1}
  Rooms = {r1, r2}
  Sellable = {r1, r2}
  RoomType <- MCOneType
  Stays <- MCStays
  Hold = 1
  PayHold = 1
  MaxTime = 0
CONSTRAINT FewEnded
SYMMETRY MCSymmetryRooms
INVARIANTS Accommodated SearchShowsRooms
