SPECIFICATION MCSpec
CONSTANTS
  a1 = a1
  a2 = a2
  s1 = s1
  s2 = s2
  c1 = c1
  c2 = c2
  None = None
  Nothing = Nothing
  Actions <- MCActions
  Sessions <- MCSessions
  Calls <- MCCalls
  MaxMessages = 2
  MaxTokens = 3
  MaxDrops = 1
  NoRun = NoRun
  MaxReplyTokens = 2
  MaxSends = 1
  MaxSessions = 4
  MaxToolCalls = 1
  Tools = {t1}
SYMMETRY MCSymmetry
INVARIANTS
  IInv WrittenAsConfirmed ToldTheTruth WholeText ChatSound PreparedIsTaken
PROPERTIES
  ImplementsConfirmedWrite
CHECK_DEADLOCK FALSE
