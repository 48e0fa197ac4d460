------------------------------- MODULE SkillSync -------------------------------
(****************************************************************************)
(* The skills: a SKILL.md in a directory of its own for each, and a row of  *)
(* the database with the hash of it. Saves, installations and deletions     *)
(* (app/api/skills/route.ts, lib/skill-registry.ts) go to the disk first    *)
(* and then to the row, with awaits between; the job (lib/skill-sync.ts)    *)
(* brings the rows in line with the disk.                                   *)
(****************************************************************************)
EXTENDS Naturals

CONSTANTS
  Skills,       \* skills, by their source and name
  AgentSkills,  \* the ones among them of a source workspace-<agent>, which the
                \* job only knows from the skills it finds there
  Contents,     \* what a SKILL.md may say
  Requests,     \* requests of operators
  MaxSaves      \* bound on requests and edits

VARIABLES
  doc,      \* the SKILL.md on the disk
  row,      \* table skills: content_hash, whether it has a registry_slug
  request,  \* the requests under way
  saves,    \* requests and edits so far
  behind    \* history: skills whose row may be behind, until the job looks

vars == <<doc, row, request, saves, behind>>

None == "none"
Partial == "partial"  \* a file that is being written, or half of one
Docs == Contents \cup {None, Partial}

NoRow == [none |-> "row"]
Rows == [hash : Docs \ {None}, slug : BOOLEAN]

(* met: others have touched the directory since the file was opened.         *)
Idle == [none |-> "request"]
Busy == [op : {"save", "install", "delete"}, skill : Skills, to : Contents \cup {None},
         stage : {"opens", "writes", "records", "removes", "forgets"}, met : BOOLEAN]

TypeOK ==
  /\ doc \in [Skills -> Docs]
  /\ row \in [Skills -> Rows \cup {NoRow}]
  /\ request \in [Requests -> Busy \cup {Idle}]
  /\ saves \in 0..MaxSaves
  /\ behind \subseteq Skills

Init ==
  /\ doc = [s \in Skills |-> None]
  /\ row = [s \in Skills |-> NoRow]
  /\ request = [r \in Requests |-> Idle]
  /\ saves = 0
  /\ behind = {}

HasRow(s) == row[s] # NoRow
OnDisk(s) == doc[s] # None
Waiting(r) == request[r] # Idle
At(r, stage) == Waiting(r) /\ request[r].stage = stage
Busied(s) == \E r \in Requests : Waiting(r) /\ request[r].skill = s

Counts == saves < MaxSaves /\ saves' = saves + 1

--------------------------------------------------------------------------------
(* A slip: a definition the code might have had instead of the one below. *)

OnlyFixedSources(s) == s \notin AgentSkills

--------------------------------------------------------------------------------
(* Requests. *)

Await(r, op, s, content, stage) ==
  /\ ~Waiting(r) /\ Counts
  /\ request' = [request EXCEPT ![r] =
       [op |-> op, skill |-> s, to |-> content, stage |-> stage, met |-> FALSE]]
  /\ behind' = IF Busied(s) THEN behind \cup {s} ELSE behind
  /\ UNCHANGED <<doc, row>>

(* POST and PUT /api/skills.                                                 *)
Save(r, s, content) == Await(r, "save", s, content, "opens")

(* installFromRegistry: the registry is asked first, into a fixed source.    *)
Install(r, s, content) == s \notin AgentSkills /\ Await(r, "install", s, content, "opens")

(* DELETE /api/skills.                                                       *)
Delete(r, s) == Await(r, "delete", s, None, "removes")

(* Others at work in a directory, when its content changes, have met that.   *)
Met(s) == [r \in Requests |->
  IF Waiting(r) /\ request[r].skill = s THEN [request[r] EXCEPT !.met = TRUE] ELSE request[r]]

Stage(r, stage) ==
  request' = [Met(request[r].skill) EXCEPT ![r] = [request[r] EXCEPT !.stage = stage]]

(* mkdir, and writeFile opens and truncates the file.                        *)
Opens(r) ==
  /\ At(r, "opens")
  /\ doc' = [doc EXCEPT ![request[r].skill] = Partial]
  /\ Stage(r, "writes")
  /\ UNCHANGED <<row, saves, behind>>

(* The text is written; over, under or between what others write there, or   *)
(* to a file that was removed after it was opened.                           *)
Writes(r) ==
  /\ At(r, "writes")
  /\ \E text \in {request[r].to} \cup
         (IF request[r].met THEN {doc[request[r].skill], Partial} ELSE {}) :
       doc' = [doc EXCEPT ![request[r].skill] = text]
  /\ Stage(r, "records")
  /\ UNCHANGED <<row, saves, behind>>

(* INSERT ... ON CONFLICT DO UPDATE: a save keeps the slug of the registry.  *)
Recorded(s, content, installed) ==
  [hash |-> content, slug |-> installed \/ (HasRow(s) /\ row[s].slug)]

Records(r) ==
  LET s == request[r].skill
  IN /\ At(r, "records")
     /\ row' = [row EXCEPT ![s] = Recorded(s, request[r].to, request[r].op = "install")]
     /\ request' = [request EXCEPT ![r] = Idle]
     /\ UNCHANGED <<doc, saves, behind>>

(* deleteSkill: rm, recursive, and then the row.                             *)
Removes(r) ==
  /\ At(r, "removes")
  /\ doc' = [doc EXCEPT ![request[r].skill] = None]
  /\ Stage(r, "forgets")
  /\ UNCHANGED <<row, saves, behind>>

Forgets(r) ==
  /\ At(r, "forgets")
  /\ row' = [row EXCEPT ![request[r].skill] = NoRow]
  /\ request' = [request EXCEPT ![r] = Idle]
  /\ UNCHANGED <<doc, saves, behind>>

(* What fails ends the request, and it answers so; but when the database     *)
(* fails it answers as if nothing had happened. A directory may be removed   *)
(* in part.                                                                  *)
Fails(r) ==
  LET s == request[r].skill
  IN /\ Waiting(r)
     /\ doc' \in {doc} \cup (IF At(r, "removes") THEN {[doc EXCEPT ![s] = None]} ELSE {})
     /\ request' = [Met(s) EXCEPT ![r] = Idle]
     /\ behind' = IF At(r, "opens") THEN behind ELSE behind \cup {s}
     /\ UNCHANGED <<row, saves>>

--------------------------------------------------------------------------------
(* syncSkillsFromDisk, which has no await: the disk wins. *)

(* Its sources: the fixed ones, and the ones it finds skills in.             *)
Looked(s) == s \in AgentSkills => \E t \in AgentSkills : OnDisk(t)

(* A skill of the registry that vanished keeps its row.                      *)
Vanished(s) == HasRow(s) /\ ~OnDisk(s) /\ ~row[s].slug

DirectoryGone(s) == s \in AgentSkills /\ \A t \in AgentSkills : ~OnDisk(t)

Sync ==
  /\ row' = [s \in Skills |->
       CASE OnDisk(s) -> [hash |-> doc[s], slug |-> HasRow(s) /\ row[s].slug]
         [] Vanished(s) /\ Looked(s) -> NoRow
         [] OTHER -> row[s]]
  /\ behind' = {s \in behind : Busied(s) \/ (Vanished(s) /\ DirectoryGone(s))}
  /\ UNCHANGED <<doc, request, saves>>

--------------------------------------------------------------------------------
(* People who work on the disk, and a process that stops.                    *)

EditDoc(s, content) ==
  /\ Counts
  /\ doc' = [doc EXCEPT ![s] = content]
  /\ request' = Met(s)
  /\ behind' = behind \cup {s}
  /\ UNCHANGED row

Crash ==
  /\ \E r \in Requests : Waiting(r)
  /\ request' = [r \in Requests |-> Idle]
  /\ behind' = behind \cup {s \in Skills : Busied(s)}
  /\ UNCHANGED <<doc, row, saves>>

Next ==
  \/ \E r \in Requests, s \in Skills :
       \/ \E c \in Contents : Save(r, s, c) \/ Install(r, s, c)
       \/ Delete(r, s)
  \/ \E r \in Requests : Opens(r) \/ Writes(r) \/ Records(r) \/ Removes(r) \/ Forgets(r) \/ Fails(r)
  \/ Sync
  \/ \E s \in Skills, c \in Contents \cup {None} : EditDoc(s, c)
  \/ Crash

Spec == Init /\ [][Next]_vars

--------------------------------------------------------------------------------
(* A skill on the disk has a row with the hash of its text, and a row        *)
(* without a skill on the disk is one of the registry, whatever saves,       *)
(* deletions and jobs came between: but for a skill that two requests or a   *)
(* person met on, or whose request failed, until the job has looked. The     *)
(* job does not look into an agent's directory whose last skill is gone.     *)
SkillsFollowDisk ==
  \A s \in Skills \ behind : ~Busied(s) =>
    IF OnDisk(s) THEN HasRow(s) /\ row[s].hash = doc[s]
    ELSE HasRow(s) => row[s].slug
================================================================================
