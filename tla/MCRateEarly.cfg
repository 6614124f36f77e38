SPECIFICATION Spec
CONSTANTS
  Callers = {T1}
  T1 = T1
  Per = 1
  Slack = 2
  Horizon = 9
  DefaultWait = 4
  Policies <- LongWindow
  HeaderStyles <- OneStyle
  Calls = 2
  MaxAttempts = 3
  InitialDelay = 1
  MaxDelay = 4
  MaxOthers = 2
  MaxOutages = 0
CHECK_DEADLOCK FALSE
INVARIANT RetryAfterReset
