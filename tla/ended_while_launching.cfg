SPECIFICATION FairSpec
CONSTANTS
  u1 = u1
  u2 = u2
  l1 = l1
  l2 = l2
  r1 = r1
  r2 = r2
  p1 = p1
  p2 = p2
  e1 = e1
  e2 = e2
  reaper = reaper
  None = None
  Users = {u1}
  Labs = {l1}
  Rows = {r1}
  Launchers = {p1}
  Closers = {e1, reaper}
  Reaper = reaper
  PerLabCaps <- NoLabCaps
  GlobalCap = 1
  MaxPerUser = 1
  MaxCrashes = 0
  Perils = {"overlap"}
PROPERTY OverdueFreesTheLab
CHECK_DEADLOCK FALSE
