SPECIFICATION Spec
CONSTANTS
  fresh = fresh late = late flaky = flaky t1 = t1
  NoAgent = NoAgent NoTask = NoTask NoScope = NoScope
  Lease = Lease
  Agents <- MCAgents
  Tasks <- MCTasks
  Scopes = {}
  Overlap = {}
  Steady <- MCSteady
  Fresh <- MCFresh
  Stale = 1
  Timeout = 2
  Bridges <- MCBridges
  Workers <- MCWorkers
  Revocable <- MCRevocable
  Reports = {"task_completed"}
  MaxSweep = 1
  MaxFaults = 1
INVARIANTS
  TypeOK LeaseKept
PROPERTIES
  WorkingAgentKeepsClaim AbandonedClaimFreed
