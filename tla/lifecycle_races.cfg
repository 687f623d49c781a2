SPECIFICATION Spec
CONSTANTS
  u1 = u1
  u2 = u2
  l1 = l1
  l2 = l2
  r1 = r1
  r2 = r2
  p1 = p1
  p2 = p2
  e1 = e1
  e2 = e2
  reaper = reaper
  None = None
  Users = {u1}
  Labs = {l1, l2}
  Rows = {r1, r2}
  Launchers = {p1, p2}
  Closers = {e1, reaper}
  Reaper = reaper
  PerLabCaps <- NoLabCaps
  GlobalCap = 2
  MaxPerUser = 1
  MaxCrashes = 0
  Perils = {"gns3", "overlap", "endFailed"}
INVARIANTS OneLivePerLab UserCapHolds NoSlotLeak TeardownAfterEnd
 
SYMMETRY FullSymmetry
CHECK_DEADLOCK FALSE
