SPECIFICATION Spec
CONSTANTS
  t1 = t1
  r1 = r1
  r2 = r2
  Tabs = {t1}
  Recordings = {r1, r2}
  TabOf <- OneTab
  ChunksPerVideo = 2
  None = None
CHECK_DEADLOCK FALSE
INVARIANT VideosAreTheirOwn
