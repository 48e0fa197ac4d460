------------------------------ MODULE TaskStatus ------------------------------
(****************************************************************************)
(* The status vocabulary of a task (validation.ts) and the pure rules of    *)
(* lib/task-status.ts that keep a task's status and its assignee coherent.  *)
(* The database distinguishes NULL from the empty string in assigned_to:    *)
(* both mean "nobody" to the rules below, and only NULL means it to the SQL *)
(* of the router and the queue, so the two values are kept apart.           *)
(****************************************************************************)

CONSTANTS
  Agents,      \* agent names
  Unassigned,  \* assigned_to IS NULL
  Blank,       \* assigned_to = ''
  Omitted      \* a field the request body does not carry

ASSUME NamesAssumption ==
  /\ Unassigned \notin Agents
  /\ Blank \notin Agents
  /\ Omitted \notin Agents
  /\ Unassigned # Blank
  /\ Omitted \notin {Unassigned, Blank}

Statuses ==
  {"backlog", "inbox", "assigned", "awaiting_owner", "in_progress",
   "review", "quality_review", "done", "failed"}

ASSUME OmittedIsNoStatus == Omitted \notin Statuses

Assignees == Agents \cup {Unassigned, Blank}

HasAssignee(a) == a \in Agents

(* POST /api/tasks: an explicit assignee, else the coordinator if there is one. *)
ResolveTaskAssignee(requested, coordinator) ==
  IF HasAssignee(requested) THEN requested
  ELSE IF HasAssignee(coordinator) THEN coordinator
  ELSE Unassigned

NormalizeTaskCreateStatus(requested, a) ==
  LET s == IF requested = Omitted THEN "inbox" ELSE requested
  IN  IF s = "inbox" /\ HasAssignee(a) THEN "assigned" ELSE s

(* PUT /api/tasks/:id: Omitted when the update leaves the status alone. *)
NormalizeTaskUpdateStatus(current, requested, a) ==
  IF requested # Omitted THEN requested
  ELSE IF a = Omitted THEN Omitted
  ELSE IF HasAssignee(a) /\ current = "inbox" THEN "assigned"
  ELSE IF ~HasAssignee(a) /\ current = "assigned" THEN "inbox"
  ELSE Omitted
===============================================================================
