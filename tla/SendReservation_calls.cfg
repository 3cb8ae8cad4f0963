\* Two calls over two days of a month, an operator and the scheduler.
CONSTANTS
  s1 = s1  s2 = s2  k1 = k1  b1 = b1  b2 = b2  o1 = o1
  Sends = {s1, s2}
  Keys = {k1}
  Bodies = {b1, b2}
  Operators = {o1}
  DailyLimit = 1
  MonthlyLimit = 2
  DaysPerMonth = 2
  StartBalance = 1
  LastDay = 1
  MaxFaults = 1
  MaxCredits = 2
SPECIFICATION FairSpec
INVARIANTS TypeOK CountersExact QuotaHolds KeySendsOnce NoFreeMail OkMeansAccepted
PROPERTIES ReservationsSettle
CHECK_DEADLOCK FALSE
