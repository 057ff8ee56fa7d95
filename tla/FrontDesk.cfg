SPECIFICATION MCSpec
CONSTANTS
  g1 = g1  g2 = g2  g3 = g3  e1 = e1  e2 = e2  x1 = x1  x2 = x2  ann = ann  ANN = ANN  k1 = k1  k2 = k2
  i1 = i1  i2 = i2  i3 = i3
  Ids <- MCIds  Incoming <- MCMail  NoId = None  BatchSize = 2  MaxUid = 3  MaxFaults = 1  MaxCrashes = 1
  Inbox <- MCInbox  MaxDrafts = 2  Nothing = None
  None = None  Gone = Gone
  Guests <- MCGuests
  Events <- MCEvents
  BookingIds <- MCBookingIds
  Emails <- MCEmails
  Folded <- MCFolded
  LinkBodies <- MCLinkBodies
  Conversations = {c1}
  Stays = {s1}
  Registrations = {r1, r2}
  Capacities = {1, 2}
  Requests = {q1, q2}
  MaxRequests = 3
SYMMETRY MCSymmetry
INVARIANTS
  IInv MergedGuestOwnsNothing MailSound InboxSound FormsSound
PROPERTIES
  SeatsWithinCapacity WaitlistedOnlyWhenFull ImplementsLedger
CHECK_DEADLOCK FALSE
