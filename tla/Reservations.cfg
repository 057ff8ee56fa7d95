SPECIFICATION MCSpec
CONSTANTS
  b1 = b1
  b2 = b2
  r1 = r1
  r2 = r2
  g1 = g1
  g2 = g2
  q1 = q1
  q2 = q2
  Bookings = {b1, b2}
  Rooms = {r1, r2}
  Guests = {g1}
  Requests = {q1, q2}
  Keep = Keep
  NoRow = NoRow
  Purged = Purged
  Days <- MCDays
  CreateBodies <- SmallCreateBodies
  UpdateBodies <- SmallUpdateBodies
  TypeIds = {1, 2, 3, 4, 5}
  RoomIds = {1, 2, 3, 4, 5}
  Titles = {"A", "B", "U"}
  Catalogs <- MCCatalogs
  Unassigned = "U"
  Tries = 3
  MaxImports = 2
  MaxEdits = 3
  None = None
SYMMETRY BookingSymmetry
INVARIANTS IInv ImportSound
PROPERTIES PurgeTakesOnlyArchived
CHECK_DEADLOCK FALSE
