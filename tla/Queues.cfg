\* Three overlapping instructions on two tabs, with plans that use every lane.
SPECIFICATION FairSpec
CONSTANTS
  Instructions = {1, 2, 3}
  Tabs = {1, 2}
  Input = 3
  Creation = 4
  Proxy = 5
  NoLane = NoLane
  Plans <- AllPlans
INVARIANTS
  MutualExclusion
  SomeoneMoves
  SingleActionsInClaimOrder
PROPERTIES
  
  EveryJobEnds
