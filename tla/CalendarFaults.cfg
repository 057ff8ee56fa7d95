SPECIFICATION MCSpec
CONSTANTS
  b1 = b1
  b2 = b2
  Bookings <- OneBooking
  Payloads <- MCPayloads
  Jobs = {j1, j2}
  Rows = {r1, r2}
  Requests = {q1}
  MaxVersion = 2
  MaxCrashes = 1
  Faults <- AllFaults
  Resync = TRUE
  Attempts = 2
  NoJob = NoJob
  NoBooking = NoBooking
  NoRow = NoRow
  NoObject = NoObject
  NoWork = NoWork
CHECK_DEADLOCK FALSE
SYMMETRY MCSymmetry
INVARIANTS IInv
PROPERTIES SequenceNeverBack
