SPECIFICATION Spec
CONSTANTS
  a1 = a1 a2 = a2 a3 = a3 t1 = t1 t2 = t2 wide = wide narrow = narrow other = other third = third
  NoAgent = NoAgent NoTask = NoTask NoScope = NoScope
  Agents <- MCAgents2
  Tasks <- MCTasks1
  Scopes <- MCScopes
  Overlap <- MCOverlap
  Owners <- MCAgents2
  SystemOps = {}
  Revocable = {}
  LockCap = 2
  AgentOps = {"acquire", "unscope"}
  AgentKinds = {}
  GithubKinds = {}
  MaxSeq = 4
  MaxKeys = 1
  MaxDeliveries = 1
PROPERTIES
  GrantHoldsLock
