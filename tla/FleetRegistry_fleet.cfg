\* A fleet of three shards on two accounts: every history of at most MaxEpoch commands.
CONSTANTS
  k1 = k1  k2 = k2  k3 = k3  k4 = k4  m1 = m1  m2 = m2  u1 = u1  p = p  s1 = s1  s2 = s2  a1 = a1  a2 = a2
  Keys = {k1,k2,k3,k4}
  Mailboxes = {m1,m2}
  Users = {u1}
  Shards = {p,s1,s2}
  Accounts = {a1,a2}
  Configs <- FleetConfigs
  Batches <- OneImport
  Reports <- Sampled
  Qualifying = 1
  Retention = 0
  PruneBatch = 1
  MaxOperations = 4
  MaxEpoch = 5
  MaxNow = 1
SYMMETRY Symmetric
SPECIFICATION Spec
INVARIANTS TypeOK Servable AppliedOnce OneOwnerTold SamplesMeasureCurrent
PROPERTIES PlacementFits
CHECK_DEADLOCK FALSE
