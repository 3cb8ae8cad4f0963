\* One IMAP message, read/unread intents, two requests at a time that
\* may overlap, one agent process at a time.
CONSTANTS
  e1 = e1  e2 = e2  inbox = inbox  archive = archive  c1 = c1  c2 = c2
  h1 = h1  h2 = h2  r1 = r1  r2 = r2  t1 = t1  t2 = t2  acc = acc
  Emails = {e1}
  Providers = {"imap"}
  Account <- OwnAccount
  Purgeable = {}
  Folders = {inbox}
  Uids = {1}
  Ops = {"set_read"}
  Verdicts = {"succeeded", "retry"}
  Endpoints = {"v2"}
  Clients = {c1, c2}
  Claims = {h1}
  Reports = {r1}
  Tokens = {t1, t2}
  Limits = {2}
  Delays = {1}
  Lease = 1
  MaxAttempts = 2
  MaxJobs = 3
  MaxNow = 1
SYMMETRY Symmetry
SPECIFICATION Spec
PROPERTIES NewestIntentShown NoIntentLost StaleReportChangesNothing
