CONSTANTS
  Managers = {m1, m2}
  Tasks <- MCTasks
  Priority <- MCPriority
  Depends <- MCDepends
  Repeating <- MCRepeating
  MaxRetries = 2
  MaxKills = 0
  MaxCommands = 0
  MaxRuns = 1
SPECIFICATION Spec
INVARIANTS
  MutualExclusion
