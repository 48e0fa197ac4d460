\* The engine with a gateway: deferred runs, reconciliation, stale requeues, crashes and
\* queue polls by a registered agent and by one without a row.
SPECIFICATION CrashingSpec
CONSTANTS
  Agents = {a1, a2}
  Unassigned = Unassigned
  Blank = Blank
  Omitted = Omitted
  Tasks = {t1, t2}
  InitialTasks = {t1, t2}
  Targeted = {t1}
  Registered = {a1}
  AgentStates = {"idle", "offline"}
  Runs = {r1, r2}
  Modes = {FALSE}
  Dispatchers = {d1}
  Reviewers = {v1}
  Reconcilers = {k1}
  Coordinator = Blank
  Bodies = {}
  Reports = {}
  DispatchRetries = 2
  ReviewRetries = 2
  DispatchBatch = 3
  ReviewBatch = 3
  RouteBatch = 5
  ReconcileBatch = 5
  RouteCapacity = 3
  Capacities = {1}
  MaxAttempts = 3
  NoTask = NoTask
  NoRun = NoRun
INVARIANTS RunOfOneTask
PROPERTIES StuckIsRecovered
