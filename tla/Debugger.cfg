SPECIFICATION Spec
CONSTANTS
  t1 = t1
  u1 = u1
  u2 = u2
  u3 = u3
  u4 = u4
  Tabs = {t1}
  Users = {u1, u2, u3, u4}
  TabOf <- OneTab
  None = None
SYMMETRY Symmetry
CHECK_DEADLOCK FALSE
INVARIANTS TypeOK CountsHolders SessionsFollowBrowser
PROPERTIES ImplementsLease
