\* Two request threads against PostgreSQL: safety, the
\* refinement, and that every request is answered (no SYMMETRY).
SPECIFICATION FairSpec
CONSTANTS
  b1 = b1
  b2 = b2
  r1 = r1
  r2 = r2
  r3 = r3
  NoBid = NoBid
  Instructions = {1, 2}
  Bids = {b1}
  Captures = {}
  Requests <- TwoRequests
  MaxLimit = 2
  MaxReinstalls = 1
  ReadCommitted = TRUE
INVARIANTS
  TypeOK
  HandedOutOnce
  ReinstallRunsOnce
PROPERTIES
  TerminalRowsSealed
  
  RequestsAnswered
