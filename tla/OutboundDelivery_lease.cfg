\* Two jobs in one batch, the second search may find the first mail; one fault
\* other than a lease that runs out in use.
CONSTANTS
  t1 = t1  t2 = t2  t3 = t3
  MaxJobs = 2
  Tokens = {t1, t2, t3}
  Alike <- Contained
  Limit = 2
  MaxAttempts = 2
  Faults = {"crash", "loss", "timeout"}
  MaxFaults = 1
SPECIFICATION Spec
SYMMETRY Symmetric
INVARIANTS TypeOK SucceededMeansDelivered
PROPERTIES SettledNeverResent
