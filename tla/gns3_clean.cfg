SPECIFICATION FairSpec
CONSTANTS
  s1 = s1
  s2 = s2
  g1 = g1
  g2 = g2
  x1 = x1
  x2 = x2
  x3 = x3
  x4 = x4
  k1 = k1
  k2 = k2
  NoToken = NoToken
  None = None
  Writers = {s1, s2}
  Replicas = {g1}
  ReplicaOf <- OneReplica
  Projects = {x1, x2, x3}
  Workers = {k1}
  Perils = {"account", "copy", "later", "database", "cleanup"}
  GatePerils = {"redis", "slow", "patience", "crash"}
INVARIANTS NothingLeftBehind ReplicaExclusive
PROPERTIES CreationEnds
CHECK_DEADLOCK FALSE
