\* Three calls that take turns on one tab, with a reinstall and restarts.
SPECIFICATION Spec
CONSTANTS
  t1 = t1
  Tabs = {t1}
  Calls = {1, 2, 3}
  TabOf <- OneTab
  Kinds <- MCKinds
  Sizes = {1, 2}
  Budgets = {3, 5}
  MaxLogs = 2
  None = None
INVARIANTS TypeOK NoSilentScripts ShimCanBeUndone 
PROPERTIES NoScriptsBesideReinstall ReinstallStopsScripts
