SPECIFICATION Spec
CONSTANTS
  a1 = a1 a2 = a2 a3 = a3 t1 = t1 t2 = t2 wide = wide narrow = narrow other = other third = third
  NoAgent = NoAgent NoTask = NoTask NoScope = NoScope
  Agents <- MCAgents2
  Tasks <- MCTasks1
  Scopes <- MCScopes
  Overlap <- MCOverlap
  Owners <- MCAgents2
  SystemOps = {"create", "reap", "handoff", "cancel"}
  Revocable = {}
  LockCap = 2
  AgentOps = {"claim", "release", "handoff", "append"}
  AgentKinds = {"task_blocked", "task_completed"}
  GithubKinds = {"branch_pushed"}
  MaxSeq = 5
  MaxKeys = 1
  MaxDeliveries = 1
SYMMETRY AgentSymmetry2
INVARIANTS
  TypeOK LedgerIntact ClaimMatchesLedger ClaimedCardIsHeld OpenCardIsFree
PROPERTIES
  LedgerSpec ImplementsBoard
