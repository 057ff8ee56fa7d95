\* Two requests in flight, their transactions interleaved.
SPECIFICATION Spec
CONSTANTS
  b1 = b1
  b2 = b2
  r1 = r1
  r2 = r2
  g1 = g1
  g2 = g2
  q1 = q1
  q2 = q2
  Bookings = {b1, b2}
  Rooms = {r1, r2}
  Guests = {g1}
  Requests = {q1, q2}
  Keep = Keep
  NoRow = NoRow
  Purged = Purged
  Days <- MCDays
  CreateBodies <- SmallCreateBodies
  UpdateBodies <- SmallUpdateBodies
SYMMETRY BookingSymmetry
INVARIANT NoDoubleBooking
CHECK_DEADLOCK FALSE
