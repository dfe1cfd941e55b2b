\* The documented order on a tab, with batches.
SPECIFICATION Spec
CONSTANTS
  Instructions = {1, 2, 3}
  Tabs = {1, 2}
  Input = 3
  Creation = 4
  Proxy = 5
  NoLane = NoLane
  Plans <- TabPlans
INVARIANTS
  WorkOnATabInClaimOrder
