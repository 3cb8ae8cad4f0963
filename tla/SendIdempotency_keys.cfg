\* Three overlapping calls, one key, two bodies, an ambiguous reservation.
\* At the bound MaxJobs the model stops: a call that would insert one more row
\* stays where it is.
CONSTANTS
  b1 = b1  b2 = b2  c1 = c1  c2 = c2  c3 = c3
  Keys = {"k"}
  Bodies = {b1, b2}
  Calls = {c1, c2, c3}
  Failures = {"reserve"}
  MaxJobs = 3
  MaxFaults = 2
SYMMETRY Symmetric
SPECIFICATION Spec
INVARIANTS TypeOK KeyAnswersOnce
PROPERTIES AnsweredKeySendsNothing
CHECK_DEADLOCK FALSE
