\* One job, faults of every kind that end, every outcome of a send.
CONSTANTS
  t1 = t1  t2 = t2  t3 = t3
  MaxJobs = 1
  Tokens = {t1, t2, t3}
  Alike <- Distinct
  Limit = 1
  MaxAttempts = 2
  Faults = {"crash", "lapse", "loss", "timeout"}
  MaxFaults = 1
SPECIFICATION FairSpec
INVARIANTS ResentOnlyInDoubt
PROPERTIES EveryMailSettled
