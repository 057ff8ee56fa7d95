\* One request in flight at a time.
SPECIFICATION MCSpec
CONSTANTS
  b1 = b1
  b2 = b2
  r1 = r1
  r2 = r2
  g1 = g1
  g2 = g2
  q1 = q1
  q2 = q2
  Bookings = {b1, b2}
  Rooms = {r1, r2}
  Guests = {g1, g2}
  Requests = {q1}
  Keep = Keep
  NoRow = NoRow
  Purged = Purged
  Days <- MCDays
  CreateBodies <- SerialCreateBodies
  UpdateBodies <- MCUpdateBodies
  Conversations = {"c1", "c2"}
  Nothing = Nothing
  Sender <- MCSender
  Forms <- MCForms
SYMMETRY BookingSymmetry
INVARIANTS NoDoubleBooking PrimaryGuestInJunction DeletedIsCancelled InboxBookingSound
PROPERTIES StatusFollowsMachine ImplementsCalendar
CHECK_DEADLOCK FALSE
