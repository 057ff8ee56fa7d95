SPECIFICATION MCSpec
CONSTANTS
  m1 = m1  b1 = b1
  Messages <- OneMessage  Payloads <- OneMessage
  Jobs = {j1, j2}
  Drafts = {d1, d2}
  Requests = {q1, q2}
  Attempts = 2
  MaxCrashes = 1
  NoJob = NoJob  NoDraft = NoDraft  NoMessage = NoMessage
  Outbound = Outbound
  Bookings <- OneBooking  Accommodations = {7, 8}  Pushes = {x, y}  MaxVersion = 2  MaxPushes = 3
  NoPush = NoPush  Unmapped = Unmapped
  Runs = {u, v}  Window = 2  MaxMessages = 4  NoAnalysis = NoAnalysis
CHECK_DEADLOCK FALSE
SYMMETRY MCSymmetry
INVARIANTS IInv AtMostOnePending DeadLettersExhausted PushSound AnalysisSound
