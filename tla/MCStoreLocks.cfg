SPECIFICATION Spec
CONSTANTS
  a1 = a1 a2 = a2 a3 = a3 t1 = t1 t2 = t2 wide = wide narrow = narrow other = other third = third
  NoAgent = NoAgent NoTask = NoTask NoScope = NoScope
  Agents <- MCAgents3
  Tasks <- MCTasks1
  Scopes <- MCScopes4
  Overlap <- MCGlobOverlap
  Owners = {}
  SystemOps = {"unlock"}
  Revocable = {a1}
  LockCap = 1
  AgentOps = {"acquire", "unscope"}
  AgentKinds = {}
  GithubKinds = {}
  MaxSeq = 4
  MaxKeys = 1
  MaxDeliveries = 0
SYMMETRY LockSymmetry
INVARIANTS
  LocksDisjoint LocksMatchLedger LockTableBounded
PROPERTIES
  ImplementsBoard
