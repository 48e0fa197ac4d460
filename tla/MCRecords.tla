------------------------------- MODULE MCRecords -------------------------------
(****************************************************************************)
(* Instances for TLC of four components that share no state: tenants and    *)
(* their jobs, the sync with GitHub, the rows of agents, the rows of        *)
(* skills. They stand side by side, and the first state says which of them  *)
(* moves in a behaviour: every state of each is reached, no product is.     *)
(****************************************************************************)
EXTENDS Provisioning, TLC

CONSTANTS
  MaxTasks, MaxIssues, Contents, Pushes, Pulls, Echo, MaxTime,
  Names, Versions, Requests, Syncs, MaxWrites,
  Skills, AgentSkills, MaxSaves

VARIABLES
  now, task, issue, push, pull, lastSync, unseen, missed,
  agent, file, torn, disk, saving, copy, writes, doubt, unlooked,
  doc, skill, request, saves, behind,
  moves

tenantVars == <<tenant, job, status, execution, allowExec, started, lost>>
githubVars == <<now, task, issue, push, pull, lastSync, unseen, missed>>
agentVars == <<agent, file, torn, disk, saving, copy, writes, doubt, unlooked>>
skillVars == <<doc, skill, request, saves, behind>>
allVars == <<moves, tenantVars, githubVars, agentVars, skillVars>>

G == INSTANCE GitHubSync
A == INSTANCE AgentRecords WITH row <- agent, request <- saving, unseen <- unlooked
S == INSTANCE SkillSync WITH row <- skill

ASSUME ContentsAreText == S!None \notin Contents
ASSUME BoundsAreNumbers == MaxSaves \in Nat /\ MaxWrites \in Nat /\ MaxTime \in Nat

InitAll ==
  /\ moves \in {"tenants", "github", "agents", "skills"}
  /\ Init /\ G!Init /\ A!Init /\ S!Init
  /\ moves # "tenants" => ~allowExec  \* one first state for the others

NextAll ==
  /\ UNCHANGED moves
  /\ \/ moves = "tenants" /\ Next /\ UNCHANGED <<githubVars, agentVars, skillVars>>
     \/ moves = "github" /\ G!Next /\ UNCHANGED <<tenantVars, agentVars, skillVars>>
     \/ moves = "agents" /\ A!Next /\ UNCHANGED <<tenantVars, githubVars, skillVars>>
     \/ moves = "skills" /\ S!Next /\ UNCHANGED <<tenantVars, githubVars, agentVars>>

SpecAll == InitAll /\ [][NextAll]_allVars

(* Administrators are interchangeable, and so are jobs, contents and names, *)
(* executions, pulls and versions, requests. What is in one of these lists  *)
(* has the same names: one permutation renames it all.                      *)
Symmetry == Permutations(Jobs) \cup Permutations(Sessions) \cup Permutations(Admins)

TypesOK == TypeOK /\ G!TypeOK /\ A!TypeOK /\ S!TypeOK

UnseenIsDueOrMissed == G!UnseenIsDueOrMissed
RowsFollowSources == moves = "agents" => A!RowsFollowSources
SkillsFollowDisk == moves = "skills" => S!SkillsFollowDisk
================================================================================
