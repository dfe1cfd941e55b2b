\* Two browsers with two slots each: safety, with reinstalls and faults.
SPECIFICATION Spec
CONSTANTS
  w1 = w1
  w2 = w2
  NoBrowser = NoBrowser
  Instructions = {1, 2}
  Browsers <- MCBrowsers
  MaxConcurrent = 2
  PerPoll = 2
  RetryAttempts = 2
  MaxUpsets = 2
SYMMETRY Symmetry
INVARIANTS
  RanAtMostOnce
  ResultNamesRunner
  ReloadsOncePerToken
  

  
