\* Two calls, deaths and failures, a client that goes on retrying.
CONSTANTS
  b1 = b1  b2 = b2  c1 = c1  c2 = c2  c3 = c3
  Keys = {"k"}
  Bodies = {b1, b2}
  Calls = {c1, c2}
  Failures = {"reserve", "insert"}
  MaxJobs = 2
  MaxFaults = 2
SPECIFICATION FairSpec
PROPERTIES UnfinishedKeyResolves
