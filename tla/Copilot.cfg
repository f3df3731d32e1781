CONSTANTS
  Users = {u}
  Others = {v}
  Callers = {p, q}
  None = none
  Burst = 1
  Cost = 2
  Second = 2
  Spread = 2
  MaxTime = 6
  MaxCalls = 4
  MaxTasks = 2
  MaxFaults = 1
SPECIFICATION Spec
SYMMETRY CopilotSymmetry
CHECK_DEADLOCK FALSE
INVARIANTS
  RateIsKept
  WaitIsEnough
  TaskIsSettled
  TasksArePrivate
