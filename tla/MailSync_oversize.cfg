\* An upload fails in a window that holds a mail over the size limit.
CONSTANTS
  w1 = w1  w2 = w2
  Workers = {}
  MaxMails = 3
  Mailboxes <- LargeMailboxes
  Protocols = {"imap"}
  Batch = 2
  InitialLimit = 2
  SeenMax = 3
  Offsets = {0}
  MaxEpoch = 1
  MaxFaults = 1
SPECIFICATION Spec
INVARIANTS NothingLost
CHECK_DEADLOCK FALSE
