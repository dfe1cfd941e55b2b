\* One user's save, one failed fetch and one reload, at any point.
SPECIFICATION FairSpec
CONSTANTS
  Slots = {1, 2, 3}
  Saves <- MCSaves
  MaxChain = 2
  MaxFailures = 1
  MaxReloads = 1
INVARIANTS OneOffscreenDocument
PROPERTIES  PollsFollowSettings
