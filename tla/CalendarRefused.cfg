SPECIFICATION Spec
CONSTANTS
  b1 = b1
  b2 = b2
  Bookings <- OneBooking
  Payloads <- MCPayloads
  Jobs = {j1, j2}
  Rows = {r1}
  Requests = {q1}
  MaxVersion = 1
  MaxCrashes = 0
  Faults <- Refusing
  Resync = FALSE
  Attempts = 2
  NoJob = NoJob
  NoBooking = NoBooking
  NoRow = NoRow
  NoObject = NoObject
  NoWork = NoWork
CHECK_DEADLOCK FALSE
INVARIANTS RefusedIsNotSynced
