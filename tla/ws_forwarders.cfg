SPECIFICATION FairSpec
CONSTANTS
  None = None
  Projects = {x1, x2}
  Replicas = {g1, g2}
  Callers = {c1, c2}
  MaxStops = 1
  Perils = {"crash", "late", "overlap", "redis"}
INVARIANTS OneForwarder Forwarded
PROPERTIES DuplicatesEnd
CHECK_DEADLOCK FALSE
