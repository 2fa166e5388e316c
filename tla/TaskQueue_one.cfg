CONSTANTS
  Managers = {m1}
  Tasks <- MCTasks
  Priority <- MCPriority
  Depends <- MCDepends
  Repeating <- MCRepeating
  MaxRetries = 2
  MaxKills = 1
  MaxCommands = 1
  MaxRuns = 1
SPECIFICATION FairSpec
INVARIANTS
  TypeOK
  DependenciesFirst
  DoneOnce
  RetriesBounded
PROPERTIES
  TasksFinish
