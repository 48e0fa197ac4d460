\* Two jobs of one tenant with three administrators; one task and one issue with a push and two
\* pulls under way; two agents with three requests and a sync; three skills, two of them an agent's.
SPECIFICATION SpecAll
CONSTANTS
  Tenants = {t1}
  Jobs = {x1, x2}
  Admins = {a1, a2, a3}
  Sessions = {s1, s2}
  PlanLength = 2
  MaxTasks = 1
  MaxIssues = 1
  Contents = {x1, x2}
  Pushes = {1}
  Pulls = {s1, s2}
  Echo = 2
  MaxTime = 2
  Names = {x1, x2}
  Versions = {s1, s2}
  Requests = {a1, a2, a3}
  Syncs = {1}
  MaxWrites = 3
  Skills = {x0, x1, x2}
  AgentSkills = {x1, x2}
  MaxSaves = 3
SYMMETRY Symmetry
INVARIANTS TypesOK TwoPersonRule RunningIsHeldOnce TenantsChangeLive UnseenIsDueOrMissed RowsFollowSources SkillsFollowDisk
CHECK_DEADLOCK FALSE
