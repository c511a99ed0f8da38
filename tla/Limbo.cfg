SPECIFICATION Spec
CONSTANTS
  Keys = {1, 2}
  MaxConcurrent = 1
  MaxEnqueued = 3
INVARIANTS RefsAreLimbo SlotsUsed KeysHaveTargets SyncedViewIsServers
PROPERTY LookupsGoOn
CHECK_DEADLOCK FALSE
