\* One browser with one slot that is always full: the limit, and liveness.
SPECIFICATION FairSpec
CONSTANTS
  w1 = w1
  w2 = w2
  NoBrowser = NoBrowser
  Instructions = {1, 2}
  Browsers = {w1}
  MaxConcurrent = 1
  PerPoll = 2
  RetryAttempts = 2
  MaxUpsets = 3
INVARIANTS
  ConcurrencyBound
PROPERTIES
  EveryInstructionEnds
  ReinstallsEnd
