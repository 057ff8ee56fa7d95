SPECIFICATION MailSpec
CONSTANTS
  i1 = i1
  i2 = i2
  i3 = i3
  Ids <- MCIds
  Incoming <- MCEmails
  NoId = NoId
  BatchSize = 2
  MaxUid = 3
  MaxFaults = 1
  MaxCrashes = 0
CHECK_DEADLOCK FALSE
INVARIANT FailedIsRetried
