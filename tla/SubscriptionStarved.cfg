SPECIFICATION FairSpec
CONSTANTS
  S1 = S1
  S2 = S2
  S3 = S3
  None = None
  Subs = {S1, S2, S3}
  StartDay <- MCStart
  EndDay <- MCEnd
  Step <- MCStep
  Blocked = {S1}
  Unpostable = {2}
  MaxCatchup = 1
  Horizon = 3
  Workers = {w1}
CHECK_DEADLOCK FALSE
PROPERTIES
  DueIsBilled
