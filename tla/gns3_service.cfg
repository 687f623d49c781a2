SPECIFICATION ServiceSpec
CONSTANTS
  s1 = s1
  s2 = s2
  g1 = g1
  g2 = g2
  x1 = x1
  x2 = x2
  x3 = x3
  x4 = x4
  k1 = k1
  k2 = k2
  w1 = w1
  u1 = u1
  u2 = u2
  NoToken = NoToken
  None = None
  Writers = {s1, s2}
  Replicas = {g1, g2}
  ReplicaOf <- TwoReplicas
  Projects = {x1, x2, x3, x4}
  Workers = {k1, k2}
  Perils = {"account", "copy", "later", "reset", "overlap"}
  GatePerils = {"crash"}
  Desks = {k1, k2}
  Watchers = {w1}
  StreamLen = 2
  PageLimit = 1
  MaxNotices = 2
  MaxEntries = 4
  MaxFaults = 1
  Outputs <- ShortOutputs
  AdminTasks = {k1, k2}
  Tries = 2
  MaxTokens = 3
  MaxTroubles = 1
  Askers = {k1, k2}
  Tenants = {u1, u2}
  Sends = 2
INVARIANTS AccountHasProject StreamSound  AdminSound ToolsSound
PROPERTIES OneAtATime
SYMMETRY ServiceSymmetry
VIEW PartView
CHECK_DEADLOCK FALSE
