SPECIFICATION Spec
CONSTANTS
  Callers = {T1, T2}
  T1 = T1
  T2 = T2
  Per = 1
  Slack = 1
  Horizon = 5
  DefaultWait = 4
  Policies <- TwoPolicies
  HeaderStyles <- AllStyles
  Calls = 2
  MaxAttempts = 1
  InitialDelay = 1
  MaxDelay = 5
  MaxOthers = 1
  MaxOutages = 1
SYMMETRY Symmetry
CHECK_DEADLOCK FALSE
INVARIANTS TypeOK PermitsAreSpaced RetryAfterReset
PROPERTY RetryIsPrompt
