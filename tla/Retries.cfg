SPECIFICATION MCSpec
CONSTANTS
  b1 = b1
  i1 = i1
  i2 = i2
  i3 = i3
  Bookings <- OneBooking
  Payloads <- MCPayloads
  Jobs = {j1, j2, j3}
  Rows = {r1, r2}
  Requests = {q1, q2}
  MaxVersion = 2
  MaxCrashes = 0
  Faults <- DownOrRefusing
  Resync = FALSE
  Attempts = 2
  NoJob = NoJob
  NoBooking = NoBooking
  NoRow = NoRow
  NoObject = NoObject
  NoWork = NoWork
CHECK_DEADLOCK FALSE
INVARIANTS InStepWithServer
PROPERTIES EveryMailPassed EditsReachCalendar
