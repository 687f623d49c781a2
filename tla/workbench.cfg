SPECIFICATION BenchSpec
CONSTANTS
  z3 = z3
  None = None
  v1 = v1
  v2 = v2
  a1 = a1
  a2 = a2
  a3 = a3
  a4 = a4
  h1 = h1
  h2 = h2
  h3 = h3
  n1 = n1
  n2 = n2
  reclaimer = reclaimer
  f1 = f1
  f2 = f2
  f3 = f3
  m1 = m1
  m2 = m2
  t1 = t1
  t2 = t2
  t3 = t3
  t4 = t4
  d1 = d1
  d2 = d2
  Runs = {v1, v2}
  Starters = {t1, t2}
  LabSpec <- TwoSteps
  Attempters = {a1, a2, a3}
  Retries = 2
  Checks = {h1, h2, h3}
  Nodes = {n1, n2}
  Kind <- HandlerOf
  Source <- SourceOf
  Target <- TargetOf
  ConnectAttempts = 2
  ReadAttempts = 2
  Requests = {t1, t2}
  Reclaimer = reclaimer
  MaxEdits = 1
  MaxReclaims = 1
  Frames = {f1, f2, f3}
  Commands = {m1, m2}
  Size <- Sizes
  QueueSize = 3
  MaxBytes = 5
  BatchSize = 2
  MaxHalts = 1
  Inputs <- Typings
  ChunkBytes = 2
  MaxTyped = 6
  MaxRows = 4
  MaxPrompts = 2
  Callers = {t1, t2, t3}
  Credentials = {d1, d2}
  PoolSize = 1
  HotFor = 1
  IdleTtl = 1
  CheckEvery = 1
  PoolTime = 2
  MaxConns = 4
  ToolCalls = {t1, t2}
  Streams <- FourStreams
  Attempts = 2
  u1 = u1
  x1 = x1
  x2 = x2
  Students = {1, 2}
  Concurrency = 1
  SlotCap = 1
  SlotTries = 1
  StepsToDo = 1
  WindowsPerStep = 2
  MaxWindows = 2
  Tasks = 1
  HasPair = TRUE
  Offsets = {0}
  MaxOthers = 1
  Learners = {u1}
  Labs = {x1, x2}
  SkillOf <- OneSkill
  StudyPerils = {"overlap", "unmeasured", "unwatched"}
  MaxSessions = 2
  MaxStudyTime = 1
  Viewers = {t1, t2}
  Tickets = {z3}
  NearTtl = 1
  FarTtl = 1
  TicketTtl = 1
  MaxWait = 1
  MaxChanges = 2
INVARIANTS ProgressSound AttemptsNumbered ConsolesShared  CaptureSound   SimSound DoorSound
SYMMETRY BenchSymmetry
VIEW PartView
CHECK_DEADLOCK FALSE
