\* Three mails, one worker beside the poll, one fault.
CONSTANTS
  w1 = w1  w2 = w2
  Workers = {w1}
  MaxMails = 3
  Mailboxes <- MixedMailboxes
  Protocols = {"pop3", "auto"}
  Batch = 2
  InitialLimit = 2
  SeenMax = 3
  MaxEpoch = 2
  Offsets = {0}
  MaxFaults = 1
SPECIFICATION FairSpec
INVARIANTS TypeOK PassedOnlyBelowLarge SeenIsHandled
PROPERTIES CatchesUp
CHECK_DEADLOCK FALSE
