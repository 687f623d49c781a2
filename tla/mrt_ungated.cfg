SPECIFICATION MonitorSpec
CONSTANTS
  None = None
  Productive = productive
  BadRegimes = {r1, r2}
  Thresholds = {1, 2}
  Cooldown = 2
  EscalationDwell = 1
  MaxTime = 4
  MaxLives = 1
INVARIANT WithdrawalHeeded
CHECK_DEADLOCK FALSE
