----------------------------- MODULE AgentRecords -----------------------------
(****************************************************************************)
(* Where the agents of the database come from: the list in openclaw.json    *)
(* (lib/agent-sync.ts), the definitions in local directories                *)
(* (lib/local-agent-sync.ts), and people and agents themselves              *)
(* (app/api/agents). A save goes to the row first and then to the file,     *)
(* which is read, changed and written as a whole with other requests in     *)
(* between; the jobs bring the rows in line with the file and the disk.     *)
(****************************************************************************)
EXTENDS Naturals

CONSTANTS
  Names,     \* agents, by their unique name; each has its own id in the list
  Versions,  \* what a definition of an agent may say
  Requests,  \* requests of operators that await openclaw.json
  Syncs,     \* readings of openclaw.json by the job, a person or the start
  MaxWrites  \* bound on requests and edits

VARIABLES
  row,      \* agents: source = 'local' or not, what role and config say, and
            \* content_hash of the local definition
  file,     \* openclaw.json: agents.list
  torn,     \* openclaw.json is no JSON text: truncated, or a mix of two
  disk,     \* definitions in ~/.agents, ~/.codex/agents, ~/.claude/agents
  request,  \* the requests that have gone on to openclaw.json
  copy,     \* the list as a sync has read it
  writes,   \* requests and edits so far
  doubt,    \* history: agents that file and row may say different things of
  unseen    \* history: agents whose definition on disk no job has looked at

vars == <<row, file, torn, disk, request, copy, writes, doubt, unseen>>

None == "none"
Lists == [Names -> Versions \cup {None}]

NoRow == [none |-> "row"]
Rows == [local : BOOLEAN, config : Versions \cup {None}, hash : Versions \cup {None}]

(* A request: the row's config before it, how far it is with the file, the   *)
(* list it will write, and whether the file was written since it read it.    *)
Idle == [none |-> "request"]
Busy == [op : {"create", "edit", "delete"}, agent : Names, to : Versions \cup {None},
         before : Versions \cup {None}, rowGone : BOOLEAN,
         stage : {"reads", "holds", "writes"}, list : Lists, overtaken : BOOLEAN]

NoCopy == [none |-> "copy"]
Copies == [list : Lists, stale : BOOLEAN]

TypeOK ==
  /\ row \in [Names -> Rows \cup {NoRow}]
  /\ file \in Lists
  /\ torn \in BOOLEAN
  /\ disk \in Lists
  /\ request \in [Requests -> Busy \cup {Idle}]
  /\ copy \in [Syncs -> Copies \cup {NoCopy}]
  /\ writes \in 0..MaxWrites
  /\ doubt \subseteq Names
  /\ unseen \subseteq Names

Empty == [a \in Names |-> None]

Init ==
  /\ row = [a \in Names |-> NoRow]
  /\ file = Empty /\ disk = Empty /\ torn = FALSE
  /\ request = [r \in Requests |-> Idle]
  /\ copy = [s \in Syncs |-> NoCopy]
  /\ writes = 0
  /\ doubt = {} /\ unseen = {}

Exists(a) == row[a] # NoRow
Waiting(r) == request[r] # Idle
Busied(a) == \E r \in Requests : Waiting(r) /\ request[r].agent = a

Counts == writes < MaxWrites /\ writes' = writes + 1

--------------------------------------------------------------------------------
(* A slip: a definition the code might have had instead of the one below. *)

NotReverted(r) == row

--------------------------------------------------------------------------------
(* The database alone. *)

NewRow(local, config, hash) == [local |-> local, config |-> config, hash |-> hash]

(* POST /api/agents/register, and POST /api/agents without the gateway.      *)
Register(a, v) ==
  /\ ~Exists(a) /\ Counts
  /\ row' = [row EXCEPT ![a] = NewRow(FALSE, v, None)]
  /\ doubt' = doubt \cup {a}
  /\ UNCHANGED <<file, torn, disk, request, copy, unseen>>

(* PUT /api/agents with a config, and PUT /api/agents/[id] that writes no    *)
(* file.                                                                     *)
EditRow(a, v) ==
  /\ Exists(a) /\ Counts
  /\ row' = [row EXCEPT ![a].config = v]
  /\ doubt' = doubt \cup {a}
  /\ UNCHANGED <<file, torn, disk, request, copy, unseen>>

--------------------------------------------------------------------------------
(* Requests that go on to the file. *)

Await(r, op, a, v, before) ==
  /\ ~Waiting(r)
  /\ request' = [request EXCEPT ![r] =
       [op |-> op, agent |-> a, to |-> v, before |-> before, rowGone |-> FALSE,
        stage |-> "reads", list |-> Empty, overtaken |-> FALSE]]
  /\ doubt' = IF Busied(a) THEN doubt \cup {a} ELSE doubt

(* POST /api/agents with write_to_gateway.                                   *)
Create(r, a, v) ==
  /\ ~Exists(a) /\ Counts
  /\ row' = [row EXCEPT ![a] = NewRow(FALSE, v, None)]
  /\ Await(r, "create", a, v, None)
  /\ UNCHANGED <<file, torn, disk, copy, unseen>>

(* PUT /api/agents/[id]: the row first, then the file.                       *)
Edit(r, a, v) ==
  /\ Exists(a) /\ Counts
  /\ row' = [row EXCEPT ![a].config = v]
  /\ Await(r, "edit", a, v, row[a].config)
  /\ UNCHANGED <<file, torn, disk, copy, unseen>>

(* DELETE /api/agents/[id]: the entry of the file first, then the row.       *)
Delete(r, a) ==
  /\ Exists(a) /\ Counts
  /\ Await(r, "delete", a, None, row[a].config)
  /\ UNCHANGED <<row, file, torn, disk, copy, unseen>>

(* What is left of a request that ended. A save the file was not written for *)
(* puts back the config it found; UPDATE and DELETE go by the id of the row. *)
Reverted(r) ==
  IF request[r].rowGone THEN row
  ELSE [row EXCEPT ![request[r].agent].config = request[r].before]

RowAfter(r, written) ==
  CASE request[r].op = "delete" /\ ~request[r].rowGone -> [row EXCEPT ![request[r].agent] = NoRow]
    [] request[r].op = "edit" /\ ~written -> Reverted(r)
    [] OTHER -> row

(* The row others have a request about is another one from here on.          *)
WithoutRow(q, a) ==
  IF Waiting(q) /\ request[q].agent = a THEN [request[q] EXCEPT !.rowGone = TRUE] ELSE request[q]

Overtaken(req) == IF req # Idle /\ req.stage # "reads" THEN [req EXCEPT !.overtaken = TRUE] ELSE req

(* r's request is over; the file was written by it or not, or half of it.    *)
Over(r, written) ==
  LET deletes == row # RowAfter(r, written) /\ request[r].op = "delete"
      left == [q \in Requests |-> IF deletes THEN WithoutRow(q, request[r].agent) ELSE request[q]]
      seen == IF request[r].stage = "writes" THEN [q \in Requests |-> Overtaken(left[q])] ELSE left
  IN /\ row' = RowAfter(r, written)
     /\ request' = [seen EXCEPT ![r] = Idle]
     /\ unseen' = IF deletes THEN unseen \cup {request[r].agent} ELSE unseen

(* The file changes: a sync that has read it has read the one before.        *)
FileChanges == copy' = [s \in Syncs |-> IF copy[s] = NoCopy THEN NoCopy ELSE [copy[s] EXCEPT !.stale = TRUE]]

(* writeAgentToConfig and removeAgentFromConfig: readFile, and what they     *)
(* make of the list.                                                         *)
Changed(r) == [file EXCEPT ![request[r].agent] = request[r].to]

Reads(r) ==
  /\ Waiting(r) /\ request[r].stage = "reads" /\ ~torn
  /\ request[r].op = "delete" => file[request[r].agent] # None
  /\ request' = [request EXCEPT ![r].stage = "holds", ![r].list = Changed(r)]
  /\ UNCHANGED <<row, file, torn, disk, copy, writes, doubt, unseen>>

(* A deletion that finds no entry writes no file.                            *)
FindsNoEntry(r) ==
  /\ Waiting(r) /\ request[r].stage = "reads" /\ ~torn
  /\ request[r].op = "delete" /\ file[request[r].agent] = None
  /\ Over(r, FALSE)
  /\ UNCHANGED <<file, torn, disk, copy, writes, doubt>>

(* writeFile truncates the file and then writes it.                          *)
Truncates(r) ==
  /\ Waiting(r) /\ request[r].stage = "holds"
  /\ file' = Empty /\ torn' = TRUE
  /\ request' = [q \in Requests |->
       IF q = r THEN [request[r] EXCEPT !.stage = "writes"] ELSE Overtaken(request[q])]
  /\ FileChanges
  /\ UNCHANGED <<row, disk, writes, doubt, unseen>>

Written(r) ==
  /\ Waiting(r) /\ request[r].stage = "writes"
  /\ torn' \in IF request[r].overtaken THEN BOOLEAN ELSE {FALSE}
  /\ file' = IF torn' THEN Empty ELSE request[r].list
  /\ Over(r, TRUE)
  /\ doubt' = IF request[r].overtaken THEN Names ELSE doubt
  /\ FileChanges
  /\ UNCHANGED <<disk, writes>>

(* A write that ends half-way leaves what it makes of the text.             *)
EndsHalfway(halfway) ==
  /\ torn' \in IF halfway THEN {torn, TRUE} ELSE {torn}
  /\ file' = IF torn' THEN Empty ELSE file

(* A file that cannot be parsed, opened or written. A creation and a         *)
(* deletion go on with a warning.                                            *)
Fails(r) ==
  /\ Waiting(r)
  /\ Over(r, FALSE)
  /\ EndsHalfway(request[r].stage = "writes")
  /\ doubt' = IF request[r].stage = "writes" THEN Names
              ELSE IF request[r].op = "edit" THEN doubt ELSE doubt \cup {request[r].agent}
  /\ IF request[r].stage = "writes" THEN FileChanges ELSE UNCHANGED copy
  /\ UNCHANGED <<disk, writes>>

--------------------------------------------------------------------------------
(* The jobs. *)

(* syncAgentsFromConfig: its await; a text that does not parse ends it.      *)
ReadConfig(s) ==
  /\ copy[s] = NoCopy /\ ~torn
  /\ copy' = [copy EXCEPT ![s] = [list |-> file, stale |-> FALSE]]
  /\ UNCHANGED <<row, file, torn, disk, request, writes, doubt, unseen>>

Listed(a, list) == list[a] # None

SyncConfig(s) ==
  LET list == copy[s].list
      changed == {a \in Names : Listed(a, list) /\ (~Exists(a) \/ row[a].config # list[a])}
  IN /\ copy[s] # NoCopy
     /\ row' = [a \in Names |->
          IF a \notin changed THEN row[a]
          ELSE IF Exists(a) THEN [row[a] EXCEPT !.config = list[a]]
          ELSE NewRow(FALSE, list[a], None)]
     /\ doubt' = IF copy[s].stale THEN doubt \cup changed
                 ELSE {a \in Names : Busied(a) /\ a \in doubt \cup changed}
     /\ copy' = [copy EXCEPT ![s] = NoCopy]
     /\ UNCHANGED <<file, torn, disk, request, writes, unseen>>

(* syncLocalAgents, all of it: no await inside. The name of a row somebody   *)
(* else brought cannot be inserted again, and nothing of the transaction     *)
(* remains. A definition that vanished leaves its row.                       *)
ChangedOnDisk(a) == disk[a] # row[a].hash

SyncLocal ==
  LET new == {a \in Names : Listed(a, disk) /\ ~(Exists(a) /\ row[a].local)}
      changed == {a \in Names : Listed(a, disk) /\ Exists(a) /\ row[a].local /\ ChangedOnDisk(a)}
  IN /\ \A a \in new : ~Exists(a)
     /\ row' = [a \in Names |-> IF a \in new \cup changed THEN NewRow(TRUE, disk[a], disk[a]) ELSE row[a]]
     /\ doubt' = doubt \cup (unseen \cap (new \cup changed))
     /\ unseen' = {}
     /\ UNCHANGED <<file, torn, disk, request, copy, writes>>

--------------------------------------------------------------------------------
(* People and the gateway, which edit the file and the definitions.          *)
EditFile(a, v) ==
  /\ Counts
  /\ file' = [file EXCEPT ![a] = v] /\ torn' = FALSE
  /\ request' = [r \in Requests |-> Overtaken(request[r])]
  /\ doubt' = Names
  /\ FileChanges
  /\ UNCHANGED <<row, disk, unseen>>

EditDisk(a, v) ==
  /\ Counts
  /\ disk' = [disk EXCEPT ![a] = v]
  /\ unseen' = unseen \cup {a}
  /\ UNCHANGED <<row, file, torn, request, copy, doubt>>

(* The process stops: nobody puts a row back.                                *)
Crash ==
  /\ \E r \in Requests : Waiting(r)
  /\ request' = [r \in Requests |-> Idle]
  /\ copy' = [s \in Syncs |-> NoCopy]
  /\ EndsHalfway(\E r \in Requests : Waiting(r) /\ request[r].stage = "writes")
  /\ doubt' = doubt \cup {request[r].agent : r \in {q \in Requests : Waiting(q)}}
  /\ UNCHANGED <<row, disk, writes, unseen>>

Next ==
  \/ \E a \in Names, v \in Versions :
       \/ Register(a, v) \/ EditRow(a, v)
       \/ \E r \in Requests : Create(r, a, v) \/ Edit(r, a, v)
  \/ \E a \in Names, v \in Versions \cup {None} : EditFile(a, v) \/ EditDisk(a, v)
  \/ \E r \in Requests :
       \/ \E a \in Names : Delete(r, a)
       \/ Reads(r) \/ FindsNoEntry(r) \/ Truncates(r) \/ Written(r) \/ Fails(r)
  \/ \E s \in Syncs : ReadConfig(s) \/ SyncConfig(s)
  \/ SyncLocal
  \/ Crash

Spec == Init /\ [][Next]_vars

--------------------------------------------------------------------------------
(* An agent of openclaw.json has a row that says the same, whatever syncs,   *)
(* failed saves and requests about other agents came between, unless its row *)
(* was edited without the file, two writers met, or a warning was given -    *)
(* and then the next sync that meets no writer sets it right. The row of a   *)
(* definition on the disk follows it in the same way.                        *)
RowsFollowSources ==
  /\ ~torn => \A a \in Names \ doubt : Listed(a, file) /\ ~Busied(a) =>
       Exists(a) /\ row[a].config = file[a]
  /\ \A a \in Names \ unseen : Listed(a, disk) => Exists(a) /\ row[a].local /\ row[a].hash = disk[a]
================================================================================
