\* Flag, move and delete intents on one IMAP message.
CONSTANTS
  e1 = e1  e2 = e2  inbox = inbox  archive = archive  c1 = c1  c2 = c2
  h1 = h1  h2 = h2  r1 = r1  r2 = r2  t1 = t1  t2 = t2  acc = acc
  Emails = {e1}
  Providers = {"imap", "graph", "native"}
  Account <- OwnAccount
  Purgeable = {acc}
  Folders = {inbox,archive}
  Uids = {1}
  Ops = {"set_read","move","delete"}
  Verdicts = {"succeeded", "retry", "failed"}
  Endpoints = {"v2", "legacy"}
  Clients = {c1}
  Claims = {h1}
  Reports = {r1}
  Tokens = {t1, t2}
  Limits = {2}
  Delays = {1}
  Lease = 1
  MaxAttempts = 2
  MaxJobs = 2
  MaxNow = 1
SYMMETRY Symmetry
SPECIFICATION Spec
INVARIANTS TypeOK OrderingBarrier
PROPERTIES AttemptedLocationKept ImplementsLog MoveReidentifiesOpenJobs
