\* One mail.
CONSTANTS
  m1 = m1  m2 = m2  c1 = c1  c2 = c2  d1 = d1  d2 = d2
  Mails = {m1}
  MaxParts = 2
  Mailboxes <- OneEach
  Crons = {c1}
  Drains = {d1}
  MaxFaults = 2
SPECIFICATION FairSpec
INVARIANTS TypeOK AttachmentsKept NoOrphan MirrorOwed
PROPERTIES Mirrored Collected
CHECK_DEADLOCK FALSE
