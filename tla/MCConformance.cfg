SPECIFICATION BothSpec
CONSTANTS
  a1 = a1 a2 = a2 a3 = a3 t1 = t1 t2 = t2 wide = wide narrow = narrow other = other third = third
  NoAgent = NoAgent NoTask = NoTask NoScope = NoScope
  Agents <- MCAgents1
  Tasks <- MCTasks1
  Scopes <- MCScopes
  Overlap <- MCOverlap
  Owners = {}
  SystemOps = {"create", "reap", "handoff", "cancel"}
  Revocable = {}
  LockCap = 0
  AgentOps = {"claim", "release", "handoff", "append"}
  AgentKinds = {"task_completed"}
  GithubKinds = {"branch_pushed", "pr_opened", "merged", "ci_failed"}
  MaxSeq = 6
  MaxKeys = 1
  MaxDeliveries = 3
INVARIANTS
  BoardIsReplay RollupIsRecount StoresAgree
PROPERTIES
  MergedStaysMerged
