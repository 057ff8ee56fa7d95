SPECIFICATION MCSpec
CONSTANTS
  m1 = m1
  Messages <- OneMessage
  Payloads <- OneMessage
  Jobs = {j1, j2}
  Drafts = {d1, d2, d3}
  Requests = {q1}
  Attempts = 2
  MaxCrashes = 0
  NoJob = NoJob
  NoDraft = NoDraft
  NoMessage = NoMessage
  Outbound = Outbound
  Sockets = {s1, s2, s3, s4}
  Rpcs = {r1}
  NoSocket = NoSocket
  MaxDrops = 2
  MaxRefusals = 1
CHECK_DEADLOCK FALSE
INVARIANTS SentOnce ConnectionSound
PROPERTIES ImplementsReview JobsSettle FailureSurfaces ComesBack
