SPECIFICATION Spec
CONSTANTS
  Callers = {T1}
  T1 = T1
  Per = 1
  Slack = 2
  Horizon = 9
  DefaultWait = 4
  Policies <- AsThrottled
  HeaderStyles <- OneStyle
  Calls = 6
  MaxAttempts = 3
  InitialDelay = 1
  MaxDelay = 4
  MaxOthers = 0
  MaxOutages = 0
CHECK_DEADLOCK FALSE
INVARIANT NeverOverQuota
