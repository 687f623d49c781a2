SPECIFICATION LoopSpec
CONSTANTS
  j1 = j1
  j2 = j2
  None = None
  r1 = r1
  r2 = r2
  Productive = productive
  BadRegimes = {r1, r2}
  Thresholds = {1, 2}
  Cooldown = 2
  EscalationDwell = 1
  MaxTime = 4
  MaxLives = 2
  ActionWindow = 1
  LogWindow = 1
  DedupSize = 2
  RingSize = 2
  MaxHappened = 3
  MaxCollectors = 2
  k1 = k1
  k2 = k2
  w1 = w1
  LabSteps <- TwoSteps
  Faults = {w1}
  MaxObservers = 2
  MaxAnswers = 2
  ProductKinds = {{"observe"}}
  s1 = s1
  s2 = s2
  c1 = c1
  restorer = restorer
  e1 = e1
  e2 = e2
  Sessions = {s1, s2}
  Launchers = {c1}
  Restorer = restorer
  Enders = {e1, e2}
  MaxCrashes = 1
  Perils = {"fails", "overlap", "crash"}
  g1 = g1
  g2 = g2
  Components = {s1, s2}
  Details = {e1, e2}
  IdleGap = 1
  RateWindow = 1
  MinWindows = 2
  RepeatThreshold = 2
  ActualsThreshold = 1
  UnchangedThreshold = 2
  IdleThreshold = 1
  IdleForStuck = 1
  LatencyFloor = 1
  WithheldGap = 1
  MaxEvents = 3
  MaxClock = 3
  Struggles <- TwoStruggles
  Candidates <- Grid
  Pause = 2
  CostStuck = 1
  CostIntervention = 1
  CostFalse = 2
  MaxSamples = 4
  MaxInterval = 2
  Turns = {e1, e2}
  MaxToolRounds = 1
  MaxChunks = 1
  MaxCalls = 1
  ModelCatalog = {g1, g2}
  DefaultModel = g1
  Emails = {s1, s2}
  FirstAdmins = {s1, s2}
  Hits = {k1, k2}
  TokenLife = 1
  MaxAsked = 3
  CardLabs = {j1, j2}
  MaxFacts = 4
  PageSize = 2
  CountCap = 3
  SweepSize = 1
  TableRows = 4
  LastTs = 3
  Sockets = {e1, e2}
  WriteQueue = 2
  FrameQueue = 1
  PruneEvery = 2
  Retention = 1
  MaxEmitted = 4
  MaxHints = 2
INVARIANTS Registered InterventionsLawful TrialSound TakenOnce StoryHolds   TurnSound AccessSound  FeedSound
SYMMETRY LoopSymmetry
VIEW PartView
CHECK_DEADLOCK FALSE
