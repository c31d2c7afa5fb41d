SPECIFICATION Spec
CONSTANTS
  a = a b = b t1 = t1 t2 = t2 t3 = t3 server = server client = client f1 = f1 f2 = f2 s1 = s1 m1 = m1 m2 = m2
  NoAgent = NoAgent NoTask = NoTask NoScope = NoScope
  Agents <- MCAgents
  Tasks <- MCTasks
  Filed <- MCFiled
  Files <- MCFiles
  Scopes <- MCScopes
  FilesOf <- MCFilesOf
  Overlap <- MCOverlap
  Declared <- MCDeclared
  Fence <- MCFence
  Roles <- MCRoles
  Role <- MCRole
  Owners <- MCOwners
  MaxAttempts = 2
  MaxRequests = 4
  MaxEdits = 2
  MaxFaults = 1
  Members <- MCMembers
  Suggestions <- MCSuggestions
INVARIANTS
  TypeOK HandoffHoldsWork  AcceptedHasItsTicket
PROPERTIES
  OwnTicketOnly
CHECK_DEADLOCK FALSE
