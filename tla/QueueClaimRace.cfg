\* Two request threads against PostgreSQL: a claim whose snapshot predates
\* a reinstall.
SPECIFICATION Spec
CONSTANTS
  b1 = b1
  b2 = b2
  r1 = r1
  r2 = r2
  r3 = r3
  NoBid = NoBid
  Instructions = {1}
  Bids = {b1}
  Captures <- MCCaptures
  Requests <- TwoRequests
  MaxLimit = 1
  MaxReinstalls = 1
  ReadCommitted = TRUE
SYMMETRY SymmetryTwo
PROPERTIES
  NoClaimWhileReinstalling
