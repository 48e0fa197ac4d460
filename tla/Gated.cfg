\* The engine and the handlers that keep the Aegis gate, with overlapping review sessions.
SPECIFICATION GatedSpec
CONSTANTS
  Agents = {a1}
  Unassigned = Unassigned
  Blank = Blank
  Omitted = Omitted
  Tasks = {t1}
  InitialTasks = {t1}
  Targeted = {}
  Registered = {a1}
  AgentStates = {"idle"}
  Runs = {r1}
  Modes = {TRUE, FALSE}
  Dispatchers = {d1}
  Reviewers = {v1, v2}
  Reconcilers = {k1}
  Coordinator = Blank
  Bodies = {"review", "done"}
  Reports = {}
  DispatchRetries = 2
  ReviewRetries = 1
  DispatchBatch = 3
  ReviewBatch = 3
  RouteBatch = 5
  ReconcileBatch = 5
  RouteCapacity = 3
  Capacities = {1}
  MaxAttempts = 3
  NoTask = NoTask
  NoRun = NoRun
INVARIANTS DoneHasApproval
