------------------------------ MODULE Pipelines ------------------------------
(****************************************************************************)
(* Runs of a pipeline (app/api/pipelines): a run goes through the steps of  *)
(* its pipeline; an operator reports the outcome of the current step        *)
(* (advance), which spawns the next one, or cancels the run. A row keeps    *)
(* the whole list of steps as one JSON text, steps_snapshot; start and      *)
(* advance await the spawn of a step with a copy of that list and write the *)
(* copy back, and nothing keeps other requests out meanwhile.               *)
(****************************************************************************)
EXTENDS Naturals

CONSTANTS
  Runs,      \* rows of pipeline_runs that may come to exist
  NumSteps,  \* steps of the pipeline
  Stops,     \* steps with on_failure 'stop', the others have 'continue'
  Sessions   \* requests that await a spawn at the same time

ASSUME PipelineAssumption ==
  /\ NumSteps \in Nat \ {0}
  /\ Stops \subseteq 1..NumSteps

Steps == 1..NumSteps

VARIABLES
  pipeline,   \* the row of workflow_pipelines exists
  status,     \* pipeline_runs.status
  cursor,     \* current_step
  snapshot,   \* steps_snapshot: the status of every step
  spawning,   \* the session between the start of a spawn and its bookkeeping
  reached,    \* history: steps that were spawned, or had no template to spawn
  overlapped  \* history: runs another request wrote during a spawn

rows == <<pipeline, status, cursor, snapshot>>
vars == <<rows, spawning, reached, overlapped>>

NoRow == {"absent", "deleted"}
RunStatuses == {"running", "completed", "failed", "cancelled"}
StepStatuses == {"pending", "running", "completed", "failed", "skipped"}
Snapshots == [Steps -> StepStatuses]
Idle == [none |-> "idle"]

(* moves: the session also writes the cursor (advance), or does not (start). *)
Spawns == [run : Runs, step : Steps, copy : Snapshots, moves : BOOLEAN]

TypeOK ==
  /\ pipeline \in BOOLEAN
  /\ status \in [Runs -> RunStatuses \cup NoRow]
  /\ \A r \in Runs : status[r] \notin NoRow => pipeline
  /\ cursor \in [Runs -> Steps]
  /\ snapshot \in [Runs -> Snapshots]
  /\ spawning \in [Sessions -> Spawns \cup {Idle}]
  /\ reached \in [Runs -> SUBSET Steps]
  /\ overlapped \subseteq Runs

AllPending == [k \in Steps |-> "pending"]

Init ==
  /\ pipeline = TRUE
  /\ status = [r \in Runs |-> "absent"]
  /\ cursor = [r \in Runs |-> 1]
  /\ snapshot = [r \in Runs |-> AllPending]
  /\ spawning = [s \in Sessions |-> Idle]
  /\ reached = [r \in Runs |-> {}]
  /\ overlapped = {}

Exists(r) == status[r] \notin NoRow
Spawning(s) == spawning[s] # Idle
Disturbed(r) == \E s \in Sessions : Spawning(s) /\ spawning[s].run = r

--------------------------------------------------------------------------------
(* Slips: definitions the code might have had instead of the ones below. *)

IsLastToo(k) == k + 1 >= NumSteps
ResumedStatus(r) == IF Exists(r) THEN "running" ELSE status[r]
SkippedAfterNext(copy, k) == [i \in Steps |-> IF i > k + 1 THEN "skipped" ELSE copy[i]]

--------------------------------------------------------------------------------
(* spawnStep. The request awaits the spawn in a free session; whether the     *)
(* spawn succeeded only shows in fields of the step that no decision reads.   *)

Spawn(s, r, k, copy, moves) ==
  /\ ~Spawning(s)
  /\ spawning' = [spawning EXCEPT ![s] = [run |-> r, step |-> k, copy |-> copy, moves |-> moves]]

Reach(r, k) == reached' = [reached EXCEPT ![r] = @ \cup {k}]
Overlap(r) == overlapped' = IF Disturbed(r) THEN overlapped \cup {r} ELSE overlapped

(* startPipeline: the row is inserted before the first step is spawned, if    *)
(* its template still exists.                                                 *)
StartPipeline(r) ==
  LET steps == [AllPending EXCEPT ![1] = "running"]
  IN /\ pipeline
     /\ status[r] = "absent"
     /\ status' = [status EXCEPT ![r] = "running"]
     /\ snapshot' = [snapshot EXCEPT ![r] = steps]
     /\ Reach(r, 1)
     /\ \/ \E s \in Sessions : Spawn(s, r, 1, steps, FALSE)
        \/ UNCHANGED spawning
     /\ UNCHANGED <<pipeline, cursor, overlapped>>

--------------------------------------------------------------------------------
(* advanceRun *)

Reported(r, success) ==
  [snapshot[r] EXCEPT ![cursor[r]] = IF success THEN "completed" ELSE "failed"]

StopsRun(k, success) == ~success /\ k \in Stops
IsLast(k) == k + 1 > NumSteps
SkippedAfter(copy, k) == [i \in Steps |-> IF i > k THEN "skipped" ELSE copy[i]]

(* The run fails, with the remaining steps skipped. *)
AdvanceFails(r) ==
  /\ status[r] = "running"
  /\ StopsRun(cursor[r], FALSE)
  /\ status' = [status EXCEPT ![r] = "failed"]
  /\ snapshot' = [snapshot EXCEPT ![r] = SkippedAfter(Reported(r, FALSE), cursor[r])]
  /\ Overlap(r)
  /\ UNCHANGED <<pipeline, cursor, spawning, reached>>

(* The last step is done: the run is completed, failed steps or not. *)
AdvanceCompletes(r, success) ==
  /\ status[r] = "running"
  /\ ~StopsRun(cursor[r], success)
  /\ IsLast(cursor[r])
  /\ status' = [status EXCEPT ![r] = "completed"]
  /\ snapshot' = [snapshot EXCEPT ![r] = Reported(r, success)]
  /\ Overlap(r)
  /\ UNCHANGED <<pipeline, cursor, spawning, reached>>

(* The next step is spawned, and the cursor moved only after that; without a  *)
(* template there is nothing to await.                                        *)
AdvanceSpawns(r, success) ==
  LET next == cursor[r] + 1
      steps == [Reported(r, success) EXCEPT ![next] = "running"]
  IN /\ status[r] = "running"
     /\ ~StopsRun(cursor[r], success)
     /\ ~IsLast(cursor[r])
     /\ Reach(r, next)
     /\ Overlap(r)
     /\ \/ /\ \E s \in Sessions : Spawn(s, r, next, steps, TRUE)
           /\ UNCHANGED rows
        \/ /\ cursor' = [cursor EXCEPT ![r] = next]
           /\ snapshot' = [snapshot EXCEPT ![r] = steps]
           /\ UNCHANGED <<pipeline, status, spawning>>

(* What the write after a spawn leaves in the status column. *)
StatusAfterSpawn(r) == status[r]

(* After the await: an UPDATE by id, whatever the run has become. spawnStep   *)
(* and advanceRun both write the copy, with no other request between them.    *)
Spawned(s) ==
  LET r == spawning[s].run
  IN /\ Spawning(s)
     /\ status' = [status EXCEPT ![r] = StatusAfterSpawn(r)]
     /\ snapshot' = IF Exists(r) THEN [snapshot EXCEPT ![r] = spawning[s].copy] ELSE snapshot
     /\ cursor' = IF Exists(r) /\ spawning[s].moves
                  THEN [cursor EXCEPT ![r] = spawning[s].step] ELSE cursor
     /\ spawning' = [spawning EXCEPT ![s] = Idle]
     /\ UNCHANGED <<pipeline, reached, overlapped>>

--------------------------------------------------------------------------------
CancelRun(r) ==
  /\ status[r] = "running"
  /\ status' = [status EXCEPT ![r] = "cancelled"]
  /\ snapshot' = [snapshot EXCEPT ![r] =
       [k \in Steps |-> IF @[k] \in {"pending", "running"} THEN "skipped" ELSE @[k]]]
  /\ Overlap(r)
  /\ UNCHANGED <<pipeline, cursor, spawning, reached>>

(* DELETE /api/pipelines takes the runs with it. *)
DeletePipeline ==
  /\ pipeline
  /\ pipeline' = FALSE
  /\ status' = [r \in Runs |-> IF Exists(r) THEN "deleted" ELSE status[r]]
  /\ UNCHANGED <<cursor, snapshot, spawning, reached, overlapped>>

(* The process stops: sessions are lost, rows stay. *)
Crash ==
  /\ \E s \in Sessions : Spawning(s)
  /\ spawning' = [s \in Sessions |-> Idle]
  /\ UNCHANGED <<rows, reached, overlapped>>

Next ==
  \/ \E r \in Runs : StartPipeline(r) \/ AdvanceFails(r) \/ CancelRun(r)
  \/ \E r \in Runs, success \in BOOLEAN : AdvanceCompletes(r, success) \/ AdvanceSpawns(r, success)
  \/ \E s \in Sessions : Spawned(s)
  \/ DeletePipeline
  \/ Crash

Spec == Init /\ [][Next]_vars

--------------------------------------------------------------------------------
(* Properties. *)

(* A late write after a spawn does not bring a run back: what was completed,  *)
(* failed, cancelled or deleted stays so.                                     *)
FinalIsFinal ==
  [][\A r \in Runs : status[r] \in {"completed", "failed", "cancelled", "deleted"} =>
       status'[r] \in {status[r], "deleted"}]_vars

(* However requests overlap, a run never gets past a step that was not        *)
(* reached before, and is completed only when every step was.                 *)
NoStepPassedOver ==
  \A r \in Runs : Exists(r) =>
    /\ 1..cursor[r] \subseteq reached[r]
    /\ status[r] = "completed" => reached[r] = Steps

(* A failed step that should stop the run is found only in a run that failed. *)
FailureStopsRun ==
  \A r \in Runs : Exists(r) /\ status[r] # "failed" =>
    \A k \in Stops : snapshot[r][k] # "failed"

(* The order of the steps and their on_failure are kept, whatever overlaps.   *)
RunsInOrder == NoStepPassedOver /\ FailureStopsRun

(* Unless a request came during a spawn of the same run, the snapshot says    *)
(* where the run is, after crashes too: steps before the cursor are settled,  *)
(* the current one runs, later ones wait; in a final run no step does either. *)
SnapshotTellsTheRun ==
  \A r \in Runs : Exists(r) /\ r \notin overlapped =>
    IF status[r] = "running"
    THEN /\ \A k \in 1..(cursor[r] - 1) : snapshot[r][k] \in {"completed", "failed"}
         /\ snapshot[r][cursor[r]] = "running"
         /\ \A k \in (cursor[r] + 1)..NumSteps : snapshot[r][k] = "pending"
    ELSE \A k \in Steps : snapshot[r][k] \notin {"pending", "running"}
================================================================================
