\* Three request threads against SQLite: hosted
\* captures, and no claim while a reinstall is pending.
SPECIFICATION Spec
CONSTANTS
  b1 = b1
  b2 = b2
  r1 = r1
  r2 = r2
  r3 = r3
  NoBid = NoBid
  Instructions = {1}
  Bids <- MCBids
  Captures <- MCCaptures
  Requests <- ThreeRequests
  MaxLimit = 1
  MaxReinstalls = 2
  ReadCommitted = FALSE
SYMMETRY SymmetryThree
INVARIANTS
  HostedCaptureExists
  NothingProcessingWhileReinstalling
PROPERTIES
  NoClaimWhileReinstalling
