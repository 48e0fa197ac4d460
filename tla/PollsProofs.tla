------------------------------ MODULE PollsProofs ------------------------------
(****************************************************************************)
(* Pipelines for any number of runs, steps and requests in their spawns,    *)
(* and notifications for any number of rows and calls; with the scheduler   *)
(* and the board beside them, the types of all four. The rows cannot be     *)
(* understood without the copies that are on their way back to them, so     *)
(* each invariant of the rows is strengthened by what it means for a copy.  *)
(****************************************************************************)
EXTENDS MCPolls, Sequences, FiniteSetTheorems, TLAPS

LEMMA IdleIsNoSpawn == Idle \notin Spawns
BY DEF Idle, Spawns

LEMMA StepCases ==
  ASSUME Next
  PROVE  \/ \E r \in Runs : StartPipeline(r)
         \/ \E r \in Runs : AdvanceFails(r)
         \/ \E r \in Runs : CancelRun(r)
         \/ \E r \in Runs, success \in BOOLEAN : AdvanceCompletes(r, success)
         \/ \E r \in Runs, success \in BOOLEAN : AdvanceSpawns(r, success)
         \/ \E s \in Sessions : Spawned(s)
         \/ DeletePipeline
         \/ Crash
BY DEF Next

(* What a new session remembers. *)
LEMMA SpawnType ==
  ASSUME TypeOK, NEW s \in Sessions, NEW r \in Runs, NEW k \in Steps, NEW copy \in Snapshots,
         NEW onward \in BOOLEAN, Spawn(s, r, k, copy, onward)
  PROVE  /\ spawning[s] = Idle
         /\ spawning' \in [Sessions -> Spawns \cup {Idle}]
         /\ spawning'[s] = [run |-> r, step |-> k, copy |-> copy, moves |-> onward]
         /\ spawning'[s] # Idle
         /\ \A q \in Sessions \ {s} : spawning'[q] = spawning[q]
<1>1. [run |-> r, step |-> k, copy |-> copy, moves |-> onward] \in Spawns
  BY DEF Spawns
<1> QED BY <1>1, IdleIsNoSpawn DEF Spawn, Spawning, TypeOK

LEMMA SnapshotTypes ==
  ASSUME TypeOK, NEW r \in Runs, NEW success \in BOOLEAN
  PROVE  /\ Reported(r, success) \in Snapshots
         /\ SkippedAfter(Reported(r, success), cursor[r]) \in Snapshots
         /\ \A k \in Steps : [Reported(r, success) EXCEPT ![k] = "running"] \in Snapshots
         /\ [AllPending EXCEPT ![1] = "running"] \in Snapshots
         /\ [k \in Steps |-> IF snapshot[r][k] \in {"pending", "running"} THEN "skipped"
                             ELSE snapshot[r][k]] \in Snapshots
<1>1. snapshot[r] \in Snapshots /\ cursor[r] \in Steps
  BY DEF TypeOK
<1>2. Reported(r, success) \in Snapshots
  BY <1>1 DEF Reported, Snapshots, StepStatuses
<1>3. SkippedAfter(Reported(r, success), cursor[r]) \in Snapshots
  BY <1>2 DEF SkippedAfter, Snapshots, StepStatuses
<1>4. \A k \in Steps : [Reported(r, success) EXCEPT ![k] = "running"] \in Snapshots
  BY <1>2 DEF Snapshots, StepStatuses
<1>5. [AllPending EXCEPT ![1] = "running"] \in Snapshots
  BY DEF AllPending, Snapshots, StepStatuses
<1>6. [k \in Steps |-> IF snapshot[r][k] \in {"pending", "running"} THEN "skipped"
                       ELSE snapshot[r][k]] \in Snapshots
  BY <1>1 DEF Snapshots, StepStatuses
<1> QED BY <1>2, <1>3, <1>4, <1>5, <1>6

LEMMA FirstAndNext ==
  /\ 1 \in Steps
  /\ \A k \in Steps : ~IsLast(k) => k + 1 \in Steps
  /\ \A k \in Steps : IsLast(k) => k = NumSteps
BY PipelineAssumption DEF Steps, IsLast

LEMMA TypeStep ==
  ASSUME TypeOK, [Next]_vars
  PROVE  TypeOK'
<1>1. CASE UNCHANGED vars
  BY <1>1 DEF TypeOK, vars, rows
<1>2. ASSUME NEW r \in Runs, StartPipeline(r) PROVE TypeOK'
  <2> DEFINE steps == [AllPending EXCEPT ![1] = "running"]
  <2>1. /\ pipeline /\ status' = [status EXCEPT ![r] = "running"]
        /\ snapshot' = [snapshot EXCEPT ![r] = steps]
        /\ reached' = [reached EXCEPT ![r] = @ \cup {1}]
        /\ (\E s \in Sessions : Spawn(s, r, 1, steps, FALSE)) \/ UNCHANGED spawning
        /\ UNCHANGED <<pipeline, cursor, overlapped>>
    BY <1>2 DEF StartPipeline, Reach
  <2>2. spawning' \in [Sessions -> Spawns \cup {Idle}]
    <3>1. CASE UNCHANGED spawning
      BY <3>1 DEF TypeOK
    <3>2. ASSUME NEW s \in Sessions, Spawn(s, r, 1, steps, FALSE)
          PROVE  spawning' \in [Sessions -> Spawns \cup {Idle}]
      BY <3>2, SpawnType, SnapshotTypes, FirstAndNext
    <3> QED BY <2>1, <3>1, <3>2
  <2>3. snapshot' \in [Runs -> Snapshots] /\ reached' \in [Runs -> SUBSET Steps]
    BY <2>1, SnapshotTypes, FirstAndNext DEF TypeOK
  <2> QED BY <2>1, <2>2, <2>3 DEF TypeOK, RunStatuses
<1>3. ASSUME NEW r \in Runs, AdvanceFails(r) PROVE TypeOK'
  BY <1>3, SnapshotTypes DEF AdvanceFails, Overlap, TypeOK, RunStatuses, NoRow
<1>4. ASSUME NEW r \in Runs, CancelRun(r) PROVE TypeOK'
  BY <1>4, SnapshotTypes DEF CancelRun, Overlap, TypeOK, RunStatuses, NoRow
<1>5. ASSUME NEW r \in Runs, NEW success \in BOOLEAN, AdvanceCompletes(r, success) PROVE TypeOK'
  BY <1>5, SnapshotTypes DEF AdvanceCompletes, Overlap, TypeOK, RunStatuses, NoRow
<1>6. ASSUME NEW r \in Runs, NEW success \in BOOLEAN, AdvanceSpawns(r, success) PROVE TypeOK'
  <2> DEFINE next == cursor[r] + 1
             steps == [Reported(r, success) EXCEPT ![next] = "running"]
  <2>1. /\ ~IsLast(cursor[r])
        /\ reached' = [reached EXCEPT ![r] = @ \cup {next}]
        /\ overlapped' \in {overlapped, overlapped \cup {r}}
        /\ UNCHANGED <<pipeline, status>>
        /\ \/ (\E s \in Sessions : Spawn(s, r, next, steps, TRUE)) /\ UNCHANGED <<cursor, snapshot>>
           \/ /\ cursor' = [cursor EXCEPT ![r] = next]
              /\ snapshot' = [snapshot EXCEPT ![r] = steps]
              /\ UNCHANGED spawning
    BY <1>6 DEF AdvanceSpawns, Reach, Overlap, rows
  <2>2. next \in Steps /\ steps \in Snapshots
    BY <2>1, SnapshotTypes, FirstAndNext DEF TypeOK
  <2>3. CASE /\ cursor' = [cursor EXCEPT ![r] = next]
             /\ snapshot' = [snapshot EXCEPT ![r] = steps]
             /\ UNCHANGED spawning
    BY <2>1, <2>2, <2>3 DEF TypeOK
  <2>4. ASSUME NEW s \in Sessions, Spawn(s, r, next, steps, TRUE), UNCHANGED <<cursor, snapshot>>
        PROVE  TypeOK'
    <3>1. spawning' \in [Sessions -> Spawns \cup {Idle}]
      BY <2>2, <2>4, SpawnType
    <3> QED BY <2>1, <2>2, <2>4, <3>1 DEF TypeOK
  <2> QED BY <2>1, <2>3, <2>4
<1>7. ASSUME NEW s \in Sessions, Spawned(s) PROVE TypeOK'
  <2>1. spawning[s] \in Spawns
    BY <1>7 DEF Spawned, Spawning, TypeOK
  <2> QED BY <1>7, <2>1 DEF Spawned, StatusAfterSpawn, Spawns, TypeOK
<1>8. CASE DeletePipeline
  BY <1>8 DEF DeletePipeline, Exists, TypeOK, NoRow
<1>9. CASE Crash
  BY <1>9 DEF Crash, rows, TypeOK
<1> QED BY <1>1, <1>2, <1>3, <1>4, <1>5, <1>6, <1>7, <1>8, <1>9, StepCases

LEMMA InitTypes == Init => TypeOK
BY FirstAndNext DEF Init, TypeOK, AllPending, Snapshots, StepStatuses, NoRow

(* Every handler of pipelines/run keeps rows, copies and the foreign key of   *)
(* the pipeline in their types.                                               *)
THEOREM TypeCorrect == Spec => []TypeOK
BY InitTypes, TypeStep, PTL DEF Spec

--------------------------------------------------------------------------------
(* The late write of advanceRun and startPipeline names no status: a run that *)
(* was completed, failed, cancelled or deleted meanwhile stays so.            *)
LEMMA FinalStep ==
  ASSUME TypeOK, [Next]_vars, NEW r \in Runs,
         status[r] \in {"completed", "failed", "cancelled", "deleted"}
  PROVE  status'[r] \in {status[r], "deleted"}
<1>1. CASE UNCHANGED vars
  BY <1>1 DEF vars, rows
<1>2. CASE Next
  BY <1>2, StepCases
     DEF StartPipeline, AdvanceFails, CancelRun, AdvanceCompletes, AdvanceSpawns, Spawned,
         StatusAfterSpawn, DeletePipeline, Crash, rows, Exists, NoRow, TypeOK
<1> QED BY <1>1, <1>2

THEOREM FinalForGood == Spec => FinalIsFinal
<1>1. TypeOK /\ [Next]_vars =>
        [\A r \in Runs : status[r] \in {"completed", "failed", "cancelled", "deleted"} =>
           status'[r] \in {status[r], "deleted"}]_vars
  BY FinalStep
<1> QED BY <1>1, TypeCorrect, PTL DEF Spec, FinalIsFinal

--------------------------------------------------------------------------------
(* A session moves the cursor to a step that was reached, and so were all the *)
(* ones before; a run that does not exist yet starts at the first.            *)
CopiesReached ==
  /\ \A s \in Sessions : spawning[s] # Idle /\ spawning[s].moves =>
       1..spawning[s].step \subseteq reached[spawning[s].run]
  /\ \A r \in Runs : status[r] = "absent" => cursor[r] = 1

ReachedInv == TypeOK /\ NoStepPassedOver /\ CopiesReached

LEMMA ReachedGrows ==
  ASSUME TypeOK, [Next]_vars, NEW r \in Runs
  PROVE  reached[r] \subseteq reached'[r]
<1>1. ASSUME NEW u \in Runs, NEW k, Reach(u, k) PROVE reached[r] \subseteq reached'[r]
  BY <1>1 DEF Reach, TypeOK
<1>2. \/ \E u \in Runs : \E k \in {1, cursor[u] + 1} : Reach(u, k)
      \/ UNCHANGED reached
  BY StepCases DEF StartPipeline, AdvanceFails, CancelRun, AdvanceCompletes, AdvanceSpawns, Spawned,
                   DeletePipeline, Crash, vars
<1> QED BY <1>1, <1>2

(* A session that was there before, or none. *)
LEMMA OldCopies ==
  ASSUME ReachedInv, [Next]_vars, NEW s \in Sessions,
         spawning'[s] \in {spawning[s], Idle}, spawning'[s] # Idle, spawning'[s].moves
  PROVE  1..spawning'[s].step \subseteq reached'[spawning'[s].run]
<1>1. spawning[s] \in Spawns /\ spawning'[s] = spawning[s]
  BY DEF ReachedInv, TypeOK
<1>2. spawning[s].run \in Runs
  BY <1>1 DEF Spawns
<1> QED BY <1>1, <1>2, ReachedGrows DEF ReachedInv, CopiesReached

LEMMA ReachedStep ==
  ASSUME ReachedInv, [Next]_vars
  PROVE  ReachedInv'
<1> USE DEF ReachedInv
<1>0. TypeOK' /\ \A r \in Runs : reached[r] \subseteq reached'[r] /\ reached'[r] \subseteq Steps
  BY TypeStep, ReachedGrows DEF TypeOK
<1>1. SUFFICES NoStepPassedOver' /\ CopiesReached'
  BY <1>0
<1> DEFINE Passed(r) == Exists(r) => /\ 1..cursor[r] \subseteq reached[r]
                                     /\ status[r] = "completed" => reached[r] = Steps
<1>2. ASSUME NEW r \in Runs, cursor'[r] = cursor[r], status'[r] \in {status[r], "failed", "cancelled", "deleted"},
             Exists(r) \/ status'[r] = status[r]
      PROVE  Passed(r)'
  <2>1. ASSUME Exists(r)' PROVE Exists(r)
    BY <1>2, <2>1 DEF Exists, NoRow
  <2>2. ASSUME Exists(r)' PROVE 1..cursor'[r] \subseteq reached'[r]
    <3>1. 1..cursor[r] \subseteq reached[r]
      BY <2>1, <2>2 DEF NoStepPassedOver
    <3>2. reached[r] \subseteq reached'[r]
      BY <1>0
    <3>3. cursor'[r] = cursor[r]
      BY <1>2
    <3> QED BY <3>1, <3>2, <3>3
  <2>3. ASSUME Exists(r)', status'[r] = "completed" PROVE reached'[r] = Steps
    <3>1. status[r] = "completed"
      BY <1>2, <2>3
    <3>2. reached[r] = Steps
      BY <2>1, <2>3, <3>1 DEF NoStepPassedOver
    <3> QED BY <1>0, <3>2
  <2> QED BY <2>2, <2>3
<1>3. ASSUME spawning' = spawning \/ \E s \in Sessions : spawning' = [spawning EXCEPT ![s] = Idle],
             \A r \in Runs : status'[r] = "absent" => status[r] = "absent" /\ cursor'[r] = cursor[r]
      PROVE  CopiesReached'
  BY <1>3, OldCopies DEF CopiesReached, TypeOK
<1>4. CASE UNCHANGED vars
  BY <1>2, <1>3, <1>4 DEF vars, rows, NoStepPassedOver
<1>5. ASSUME NEW r \in Runs, StartPipeline(r) PROVE NoStepPassedOver' /\ CopiesReached'
  <2> DEFINE steps == [AllPending EXCEPT ![1] = "running"]
  <2>1. /\ status[r] = "absent"
        /\ status' = [status EXCEPT ![r] = "running"]
        /\ reached' = [reached EXCEPT ![r] = @ \cup {1}]
        /\ UNCHANGED cursor
        /\ (\E s \in Sessions : Spawn(s, r, 1, steps, FALSE)) \/ UNCHANGED spawning
    BY <1>5 DEF StartPipeline, Reach
  <2>2. Passed(r)'
    <3>1. cursor'[r] = 1 /\ 1 \in reached'[r] /\ status'[r] = "running"
      BY <2>1 DEF CopiesReached, TypeOK
    <3> QED BY <3>1
  <2>3. \A u \in Runs \ {r} : Passed(u)'
    BY <1>2, <2>1 DEF TypeOK
  <2>4. CopiesReached'
    <3>1. CASE UNCHANGED spawning
      BY <1>3, <2>1, <3>1 DEF TypeOK
    <3>2. ASSUME NEW s \in Sessions, Spawn(s, r, 1, steps, FALSE) PROVE CopiesReached'
      <4>1. spawning'[s].moves = FALSE /\ \A q \in Sessions \ {s} : spawning'[q] = spawning[q]
        <5>1. 1 \in Steps /\ FALSE \in BOOLEAN /\ TypeOK
          BY FirstAndNext
        <5>2. steps \in Snapshots
          BY <5>1, SnapshotTypes
        <5>3. spawning'[s] = [run |-> r, step |-> 1, copy |-> steps, moves |-> FALSE]
          BY <3>2, <5>1, <5>2, SpawnType
        <5>4. \A q \in Sessions \ {s} : spawning'[q] = spawning[q]
          BY <3>2, <5>1, <5>2, SpawnType
        <5> QED BY <5>3, <5>4
      <4>2. \A u \in Runs : status'[u] = "absent" => cursor'[u] = 1
        BY <2>1 DEF CopiesReached, TypeOK
      <4> QED BY <4>1, <4>2, OldCopies DEF CopiesReached
    <3> QED BY <2>1, <3>1, <3>2
  <2> QED BY <2>2, <2>3, <2>4 DEF NoStepPassedOver
<1>6. ASSUME NEW r \in Runs, AdvanceFails(r) \/ CancelRun(r) PROVE NoStepPassedOver' /\ CopiesReached'
  <2>1. /\ status[r] = "running" /\ UNCHANGED <<cursor, spawning>>
        /\ \E new \in {"failed", "cancelled"} : status' = [status EXCEPT ![r] = new]
    BY <1>6 DEF AdvanceFails, CancelRun
  <2>2. /\ Exists(r)
        /\ \A u \in Runs : u # r => status'[u] = status[u]
        /\ status'[r] \in {"failed", "cancelled"}
    BY <2>1 DEF TypeOK, Exists, NoRow
  <2>3. \A u \in Runs : Passed(u)'
    BY <1>2, <2>1, <2>2
  <2>4. CopiesReached'
    BY <1>3, <2>1, <2>2
  <2> QED BY <2>3, <2>4 DEF NoStepPassedOver
<1>7. ASSUME NEW r \in Runs, NEW success \in BOOLEAN, AdvanceCompletes(r, success)
      PROVE  NoStepPassedOver' /\ CopiesReached'
  <2>1. /\ status[r] = "running" /\ IsLast(cursor[r]) /\ UNCHANGED <<cursor, spawning, reached>>
        /\ status' = [status EXCEPT ![r] = "completed"]
    BY <1>7 DEF AdvanceCompletes
  <2>2. cursor[r] = NumSteps /\ 1..cursor[r] \subseteq reached[r]
    BY <2>1, FirstAndNext DEF NoStepPassedOver, Exists, NoRow, TypeOK
  <2>3. Passed(r)'
    BY <1>0, <2>1, <2>2 DEF Steps
  <2>4. \A u \in Runs \ {r} : Passed(u)'
    BY <1>2, <2>1 DEF TypeOK
  <2>5. CopiesReached'
    BY <1>3, <2>1 DEF TypeOK
  <2> QED BY <2>3, <2>4, <2>5 DEF NoStepPassedOver
<1>8. ASSUME NEW r \in Runs, NEW success \in BOOLEAN, AdvanceSpawns(r, success)
      PROVE  NoStepPassedOver' /\ CopiesReached'
  <2> DEFINE next == cursor[r] + 1
             steps == [Reported(r, success) EXCEPT ![next] = "running"]
  <2>1. /\ status[r] = "running" /\ ~IsLast(cursor[r])
        /\ reached' = [reached EXCEPT ![r] = @ \cup {next}]
        /\ UNCHANGED status
        /\ \/ (\E s \in Sessions : Spawn(s, r, next, steps, TRUE)) /\ UNCHANGED cursor
           \/ cursor' = [cursor EXCEPT ![r] = next] /\ UNCHANGED spawning
    BY <1>8 DEF AdvanceSpawns, Reach, rows
  <2>2. next \in Steps /\ steps \in Snapshots /\ cursor[r] \in Nat
    <3>1. cursor[r] \in Steps
      BY DEF TypeOK
    <3>2. next \in Steps
      BY <2>1, <3>1, FirstAndNext
    <3>3. steps \in Snapshots
      BY <3>2, SnapshotTypes
    <3> QED BY <3>1, <3>2, <3>3 DEF Steps
  <2>3. 1..next \subseteq reached'[r]
    <3>1. 1..cursor[r] \subseteq reached[r]
      BY <2>1 DEF NoStepPassedOver, Exists, NoRow
    <3>2. 1..next = 1..cursor[r] \cup {next}
      BY <2>2
    <3> QED BY <2>1, <3>1, <3>2 DEF TypeOK
  <2>4. \A u \in Runs \ {r} : Passed(u)'
    BY <1>2, <2>1 DEF TypeOK
  <2>5. CASE cursor' = [cursor EXCEPT ![r] = next] /\ UNCHANGED spawning
    <3>1. cursor'[r] = next /\ status'[r] = "running"
      BY <2>1, <2>5 DEF TypeOK
    <3>2. Passed(r)'
      BY <2>3, <3>1
    <3>3. CopiesReached'
      BY <1>3, <2>1, <2>5 DEF TypeOK
    <3> QED BY <2>4, <3>2, <3>3 DEF NoStepPassedOver
  <2>6. ASSUME NEW s \in Sessions, Spawn(s, r, next, steps, TRUE), UNCHANGED cursor
        PROVE  NoStepPassedOver' /\ CopiesReached'
    <3>1. Passed(r)'
      BY <1>2, <2>1, <2>6
    <3>2. /\ spawning'[s].step = next /\ spawning'[s].run = r
          /\ \A q \in Sessions \ {s} : spawning'[q] = spawning[q]
      <4> HIDE DEF next, steps
      <4>1. next \in Steps /\ steps \in Snapshots /\ TRUE \in BOOLEAN /\ TypeOK
        BY <2>2
      <4>2. spawning'[s] = [run |-> r, step |-> next, copy |-> steps, moves |-> TRUE]
        BY <2>6, <4>1, SpawnType
      <4>3. \A q \in Sessions \ {s} : spawning'[q] = spawning[q]
        BY <2>6, <4>1, SpawnType
      <4> QED BY <4>2, <4>3
    <3>3. CopiesReached'
      BY <2>1, <2>3, <2>6, <3>2, OldCopies DEF CopiesReached
    <3> QED BY <2>4, <3>1, <3>3 DEF NoStepPassedOver
  <2> QED BY <2>1, <2>5, <2>6
<1>9. ASSUME NEW s \in Sessions, Spawned(s) PROVE NoStepPassedOver' /\ CopiesReached'
  <2>0. PICK r \in Runs : r = spawning[s].run
    BY <1>9 DEF Spawned, Spawning, TypeOK, Spawns
  <2>1. /\ spawning[s] # Idle
        /\ status' = status
        /\ cursor' = IF Exists(r) /\ spawning[s].moves
                     THEN [cursor EXCEPT ![r] = spawning[s].step] ELSE cursor
        /\ spawning' = [spawning EXCEPT ![s] = Idle]
        /\ UNCHANGED reached
    BY <1>9, <2>0 DEF Spawned, Spawning, StatusAfterSpawn, TypeOK
  <2>2. r \in Runs /\ spawning[s].step \in Steps
    BY <2>1 DEF TypeOK, Spawns
  <2>3. CASE Exists(r) /\ spawning[s].moves
    <3>1. cursor' = [cursor EXCEPT ![r] = spawning[s].step]
      BY <2>1, <2>3
    <3>2. Passed(r)'
      <4>1. cursor'[r] = spawning[s].step
        BY <2>2, <3>1 DEF TypeOK
      <4>2. 1..spawning[s].step \subseteq reached[r]
        BY <2>0, <2>1, <2>3 DEF CopiesReached
      <4>3. status[r] = "completed" => reached[r] = Steps
        BY <2>2, <2>3 DEF NoStepPassedOver
      <4>4. status'[r] = status[r] /\ reached'[r] = reached[r]
        BY <2>1
      <4> QED BY <4>1, <4>2, <4>3, <4>4
    <3>3. \A u \in Runs \ {r} : Passed(u)'
      BY <1>2, <2>1, <3>1 DEF TypeOK
    <3>4. \A u \in Runs : status'[u] = "absent" => cursor'[u] = cursor[u]
      <4>1. ASSUME NEW u \in Runs, status'[u] = "absent" PROVE u # r
        BY <2>1, <2>3, <4>1 DEF Exists, NoRow
      <4> QED BY <3>1, <4>1 DEF TypeOK
    <3> QED BY <1>3, <2>1, <3>2, <3>3, <3>4 DEF NoStepPassedOver
  <2>4. CASE ~(Exists(r) /\ spawning[s].moves)
    BY <1>2, <1>3, <2>1, <2>4 DEF NoStepPassedOver
  <2> QED BY <2>3, <2>4
<1>10. CASE DeletePipeline
  BY <1>2, <1>3, <1>10 DEF DeletePipeline, NoStepPassedOver, Exists, NoRow
<1>11. CASE Crash
  <2>1. spawning' = [s \in Sessions |-> Idle] /\ UNCHANGED <<status, cursor, reached>>
    BY <1>11 DEF Crash, rows
  <2>2. CopiesReached'
    BY <2>1 DEF CopiesReached
  <2> QED BY <1>2, <2>1, <2>2 DEF NoStepPassedOver
<1> QED BY <1>4, <1>5, <1>6, <1>7, <1>8, <1>9, <1>10, <1>11, StepCases

(* However advances overlap and copies come back, the cursor only stands on   *)
(* steps that were reached through all the ones before them.                  *)
THEOREM StepsReached == Spec => []NoStepPassedOver
<1>1. Init => ReachedInv
  BY InitTypes DEF Init, ReachedInv, NoStepPassedOver, CopiesReached, Exists, NoRow
<1>2. ReachedInv => NoStepPassedOver
  BY DEF ReachedInv
<1> QED BY <1>1, <1>2, ReachedStep, PTL DEF Spec

--------------------------------------------------------------------------------
(* A copy is only taken by an advance that goes on, or by start: no step of   *)
(* it that stops runs has failed, so its write is harmless whenever it comes. *)
NoStopFailed(steps) == \A k \in Stops : steps[k] # "failed"

CopiesGoOn ==
  /\ \A s \in Sessions : spawning[s] # Idle => NoStopFailed(spawning[s].copy)
  /\ \A r \in Runs : status[r] \notin NoRow \cup {"failed"} => NoStopFailed(snapshot[r])

GoOnInv == TypeOK /\ CopiesGoOn

(* The lists that the handlers compute. *)
LEMMA ListsGoOn ==
  ASSUME TypeOK
  PROVE  /\ NoStopFailed([AllPending EXCEPT ![1] = "running"])
         /\ \A r \in Runs : NoStopFailed(snapshot[r]) =>
              /\ NoStopFailed([k \in Steps |->
                   IF snapshot[r][k] \in {"pending", "running"} THEN "skipped" ELSE snapshot[r][k]])
              /\ \A success \in BOOLEAN : ~StopsRun(cursor[r], success) =>
                   /\ NoStopFailed(Reported(r, success))
                   /\ \A k \in Steps :
                        NoStopFailed([Reported(r, success) EXCEPT ![k] = "running"])
<1>1. \A k \in Stops : k \in Steps
  BY PipelineAssumption DEF Steps
<1>2. NoStopFailed([AllPending EXCEPT ![1] = "running"])
  BY <1>1 DEF NoStopFailed, AllPending
<1>3. ASSUME NEW r \in Runs, NoStopFailed(snapshot[r])
      PROVE  NoStopFailed([k \in Steps |->
               IF snapshot[r][k] \in {"pending", "running"} THEN "skipped" ELSE snapshot[r][k]])
  BY <1>1, <1>3 DEF NoStopFailed
<1>4. ASSUME NEW r \in Runs, NoStopFailed(snapshot[r]),
             NEW success \in BOOLEAN, ~StopsRun(cursor[r], success)
      PROVE  /\ NoStopFailed(Reported(r, success))
             /\ \A k \in Steps : NoStopFailed([Reported(r, success) EXCEPT ![k] = "running"])
  <2>1. snapshot[r] \in Snapshots
    BY DEF TypeOK
  <2>2. NoStopFailed(Reported(r, success))
    BY <1>1, <1>4, <2>1 DEF NoStopFailed, Reported, StopsRun, Snapshots
  <2>3. Reported(r, success) \in Snapshots
    BY SnapshotTypes
  <2> HIDE DEF Reported
  <2> QED BY <1>1, <2>2, <2>3 DEF NoStopFailed, Snapshots
<1> QED BY <1>2, <1>3, <1>4

LEMMA GoOnStep ==
  ASSUME GoOnInv, [Next]_vars
  PROVE  GoOnInv'
<1> USE DEF GoOnInv
<1> DEFINE Goes(r) == status[r] \notin NoRow \cup {"failed"} => NoStopFailed(snapshot[r])
           CopyGoes(s) == spawning[s] # Idle => NoStopFailed(spawning[s].copy)
<1>0. TypeOK'
  BY TypeStep
<1>1. SUFFICES (\A r \in Runs : Goes(r)') /\ (\A s \in Sessions : CopyGoes(s)')
  BY <1>0 DEF CopiesGoOn
<1>2. (\A r \in Runs : Goes(r)) /\ (\A s \in Sessions : CopyGoes(s))
  BY DEF CopiesGoOn
<1>3. ASSUME NEW s \in Sessions, spawning'[s] \in {spawning[s], Idle} PROVE CopyGoes(s)'
  BY <1>2, <1>3
<1>4. ASSUME NEW s \in Sessions, NEW r \in Runs, NEW k \in Steps, NEW steps \in Snapshots,
             NEW onward \in BOOLEAN, Spawn(s, r, k, steps, onward), NoStopFailed(steps)
      PROVE  \A q \in Sessions : CopyGoes(q)'
  <2>0. TypeOK
    OBVIOUS
  <2>1. spawning'[s] = [run |-> r, step |-> k, copy |-> steps, moves |-> onward]
    BY <1>4, <2>0, SpawnType
  <2>2. \A q \in Sessions \ {s} : spawning'[q] = spawning[q]
    BY <1>4, <2>0 DEF Spawn, TypeOK
  <2> QED BY <1>3, <1>4, <2>1, <2>2
<1>5. CASE UNCHANGED vars
  BY <1>2, <1>5 DEF vars, rows
<1>6. ASSUME NEW r \in Runs, StartPipeline(r) PROVE CopiesGoOn'
  <2> DEFINE steps == [AllPending EXCEPT ![1] = "running"]
  <2>1. /\ status' = [status EXCEPT ![r] = "running"]
        /\ snapshot' = [snapshot EXCEPT ![r] = steps]
        /\ (\E s \in Sessions : Spawn(s, r, 1, steps, FALSE)) \/ UNCHANGED spawning
    BY <1>6 DEF StartPipeline
  <2>2. NoStopFailed(steps) /\ steps \in Snapshots /\ 1 \in Steps
    BY ListsGoOn, SnapshotTypes, FirstAndNext
  <2> HIDE DEF steps
  <2>3. \A u \in Runs : Goes(u)'
    BY <1>2, <2>1, <2>2 DEF TypeOK
  <2>4. \A s \in Sessions : CopyGoes(s)'
    BY <1>3, <1>4, <2>1, <2>2
  <2> QED BY <2>3, <2>4 DEF CopiesGoOn
<1>7. ASSUME NEW r \in Runs, AdvanceFails(r) PROVE CopiesGoOn'
  <2>1. \A u \in Runs : Goes(u)'
    BY <1>2, <1>7 DEF AdvanceFails, TypeOK
  <2>2. \A s \in Sessions : CopyGoes(s)'
    BY <1>3, <1>7 DEF AdvanceFails
  <2> QED BY <2>1, <2>2 DEF CopiesGoOn
<1>8. ASSUME NEW r \in Runs, CancelRun(r) PROVE CopiesGoOn'
  <2> DEFINE steps == [k \in Steps |-> IF snapshot[r][k] \in {"pending", "running"}
                                      THEN "skipped" ELSE snapshot[r][k]]
  <2>1. /\ status[r] = "running" /\ UNCHANGED spawning
        /\ status' = [status EXCEPT ![r] = "cancelled"]
        /\ snapshot' = [snapshot EXCEPT ![r] = steps]
    BY <1>8 DEF CancelRun
  <2>2. NoStopFailed(steps)
    BY <1>2, <2>1, ListsGoOn DEF NoRow
  <2> HIDE DEF steps
  <2>3. \A u \in Runs : Goes(u)'
    BY <1>2, <2>1, <2>2 DEF TypeOK
  <2> QED BY <1>3, <2>1, <2>3 DEF CopiesGoOn
<1>9. ASSUME NEW r \in Runs, NEW success \in BOOLEAN, AdvanceCompletes(r, success) PROVE CopiesGoOn'
  <2>1. /\ status[r] = "running" /\ ~StopsRun(cursor[r], success) /\ UNCHANGED spawning
        /\ status' = [status EXCEPT ![r] = "completed"]
        /\ snapshot' = [snapshot EXCEPT ![r] = Reported(r, success)]
    BY <1>9 DEF AdvanceCompletes
  <2>2. NoStopFailed(Reported(r, success))
    BY <1>2, <2>1, ListsGoOn DEF NoRow
  <2>3. \A u \in Runs : Goes(u)'
    BY <1>2, <2>1, <2>2 DEF TypeOK
  <2> QED BY <1>3, <2>1, <2>3 DEF CopiesGoOn
<1>10. ASSUME NEW r \in Runs, NEW success \in BOOLEAN, AdvanceSpawns(r, success) PROVE CopiesGoOn'
  <2> DEFINE next == cursor[r] + 1
             steps == [Reported(r, success) EXCEPT ![next] = "running"]
  <2>1. /\ status[r] = "running" /\ ~StopsRun(cursor[r], success) /\ ~IsLast(cursor[r])
        /\ UNCHANGED status
        /\ \/ (\E s \in Sessions : Spawn(s, r, next, steps, TRUE)) /\ UNCHANGED snapshot
           \/ snapshot' = [snapshot EXCEPT ![r] = steps] /\ UNCHANGED spawning
    BY <1>10 DEF AdvanceSpawns, rows
  <2>2. next \in Steps
    BY <2>1, FirstAndNext DEF TypeOK
  <2>3. NoStopFailed(steps) /\ steps \in Snapshots
    BY <1>2, <2>1, <2>2, ListsGoOn, SnapshotTypes DEF NoRow
  <2> HIDE DEF next, steps
  <2>4. \A u \in Runs : Goes(u)'
    BY <1>2, <2>1, <2>3 DEF TypeOK
  <2>5. \A s \in Sessions : CopyGoes(s)'
    BY <1>3, <1>4, <2>1, <2>2, <2>3
  <2> QED BY <2>4, <2>5 DEF CopiesGoOn
<1>11. ASSUME NEW s \in Sessions, Spawned(s) PROVE CopiesGoOn'
  <2>0. PICK r \in Runs : r = spawning[s].run
    BY <1>11 DEF Spawned, Spawning, TypeOK, Spawns
  <2>1. /\ spawning[s] # Idle
        /\ status' = status
        /\ snapshot' = IF Exists(r) THEN [snapshot EXCEPT ![r] = spawning[s].copy] ELSE snapshot
        /\ spawning' = [spawning EXCEPT ![s] = Idle]
    BY <1>11, <2>0 DEF Spawned, Spawning, StatusAfterSpawn, TypeOK
  <2>2. NoStopFailed(spawning[s].copy)
    BY <1>2, <2>1
  <2>3. \A u \in Runs : Goes(u)'
    BY <1>2, <2>1, <2>2 DEF TypeOK
  <2>4. \A q \in Sessions : CopyGoes(q)'
    BY <1>3, <2>1 DEF TypeOK
  <2> QED BY <2>3, <2>4 DEF CopiesGoOn
<1>12. CASE DeletePipeline
  <2>1. \A u \in Runs : Goes(u)'
    BY <1>2, <1>12 DEF DeletePipeline, NoRow
  <2> QED BY <1>3, <1>12, <2>1 DEF DeletePipeline, CopiesGoOn
<1>13. CASE Crash
  <2>1. \A s \in Sessions : spawning'[s] = Idle
    BY <1>13 DEF Crash
  <2> QED BY <1>2, <1>3, <1>13, <2>1 DEF Crash, rows, CopiesGoOn
<1> QED BY <1>5, <1>6, <1>7, <1>8, <1>9, <1>10, <1>11, <1>12, <1>13, StepCases DEF CopiesGoOn

(* When a step that stops its run fails, the run fails in the same write, and *)
(* no copy that comes back later shows the failure in a run that goes on.     *)
THEOREM FailureStops == Spec => []FailureStopsRun
<1>1. Init => GoOnInv
  BY InitTypes DEF Init, GoOnInv, CopiesGoOn, NoRow
<1>2. GoOnInv => FailureStopsRun
  BY DEF GoOnInv, CopiesGoOn, FailureStopsRun, Exists, NoStopFailed
<1> QED BY <1>1, <1>2, GoOnStep, PTL DEF Spec

(* The order of the steps and their on_failure are kept, whatever overlaps.   *)
THEOREM RunsOrdered == Spec => []RunsInOrder
BY StepsReached, FailureStops, PTL DEF RunsInOrder
--------------------------------------------------------------------------------
(* Where a run stands, said of a list of steps; a run that is not running     *)
(* has no step to come.                                                       *)
Stands(steps, k) ==
  /\ \A i \in 1..(k - 1) : steps[i] \in {"completed", "failed"}
  /\ steps[k] = "running"
  /\ \A i \in (k + 1)..NumSteps : steps[i] = "pending"

Ended(steps) == \A k \in Steps : steps[k] \notin {"pending", "running"}

(* A run without overlaps has at most one copy, which says where the run will *)
(* stand when it comes back; the run goes on until then.                      *)
Calm(r) == Exists(r) /\ r \notin overlapped

RowTells(r) ==
  Calm(r) => IF status[r] = "running" THEN Stands(snapshot[r], cursor[r]) ELSE Ended(snapshot[r])

CopyTells(s) ==
  LET r == spawning[s].run
  IN spawning[s] # Idle =>
       /\ status[r] # "absent"
       /\ Calm(r) =>
            /\ status[r] = "running"
            /\ Stands(spawning[s].copy, spawning[s].step)
            /\ ~spawning[s].moves => cursor[r] = spawning[s].step
            /\ \A q \in Sessions \ {s} : spawning[q] # Idle => spawning[q].run # r

AllTell == (\A r \in Runs : RowTells(r)) /\ (\A s \in Sessions : CopyTells(s))

TellInv == ReachedInv /\ AllTell

(* The lists that the handlers compute from one that tells where the run is.  *)
LEMMA ListsTell ==
  ASSUME TypeOK
  PROVE  /\ Stands([AllPending EXCEPT ![1] = "running"], 1)
         /\ \A r \in Runs : Stands(snapshot[r], cursor[r]) =>
              /\ Ended([k \in Steps |-> IF snapshot[r][k] \in {"pending", "running"} THEN "skipped"
                                        ELSE snapshot[r][k]])
              /\ Ended(SkippedAfter(Reported(r, FALSE), cursor[r]))
              /\ \A success \in BOOLEAN :
                   /\ IsLast(cursor[r]) => Ended(Reported(r, success))
                   /\ ~IsLast(cursor[r]) =>
                        Stands([Reported(r, success) EXCEPT ![cursor[r] + 1] = "running"],
                               cursor[r] + 1)
<1>1. Stands([AllPending EXCEPT ![1] = "running"], 1)
  BY PipelineAssumption DEF Stands, AllPending, Steps
<1>2. ASSUME NEW r \in Runs, Stands(snapshot[r], cursor[r])
      PROVE  /\ Ended([k \in Steps |-> IF snapshot[r][k] \in {"pending", "running"} THEN "skipped"
                                       ELSE snapshot[r][k]])
             /\ Ended(SkippedAfter(Reported(r, FALSE), cursor[r]))
             /\ \A success \in BOOLEAN :
                  /\ IsLast(cursor[r]) => Ended(Reported(r, success))
                  /\ ~IsLast(cursor[r]) =>
                       Stands([Reported(r, success) EXCEPT ![cursor[r] + 1] = "running"],
                              cursor[r] + 1)
  <2>1. /\ cursor[r] \in 1..NumSteps /\ NumSteps \in Nat
        /\ snapshot[r] \in [1..NumSteps -> StepStatuses]
    BY PipelineAssumption DEF TypeOK, Snapshots, Steps
  <2>2. Ended([k \in Steps |-> IF snapshot[r][k] \in {"pending", "running"} THEN "skipped"
                              ELSE snapshot[r][k]])
    BY DEF Ended
  <2>3. ASSUME NEW success \in BOOLEAN
        PROVE  /\ Reported(r, success) \in [1..NumSteps -> StepStatuses]
               /\ \A k \in 1..cursor[r] : Reported(r, success)[k] \in {"completed", "failed"}
               /\ \A k \in (cursor[r] + 1)..NumSteps : Reported(r, success)[k] = "pending"
    BY <1>2, <2>1 DEF Reported, Stands, StepStatuses
  <2> HIDE DEF Reported
  <2>4. Ended(SkippedAfter(Reported(r, FALSE), cursor[r]))
    <3>1. \A k \in 1..cursor[r] : Reported(r, FALSE)[k] \in {"completed", "failed"}
      BY <2>3
    <3>2. SUFFICES ASSUME NEW k \in Steps
                   PROVE  SkippedAfter(Reported(r, FALSE), cursor[r])[k] \notin {"pending", "running"}
      BY DEF Ended
    <3>3. SkippedAfter(Reported(r, FALSE), cursor[r])[k] =
            IF k > cursor[r] THEN "skipped" ELSE Reported(r, FALSE)[k]
      BY DEF SkippedAfter
    <3>4. k > cursor[r] \/ k \in 1..cursor[r]
      BY <2>1 DEF Steps
    <3> QED BY <2>1, <3>1, <3>3, <3>4
  <2>5. ASSUME NEW success \in BOOLEAN, IsLast(cursor[r]) PROVE Ended(Reported(r, success))
    BY <2>1, <2>3, <2>5 DEF Ended, IsLast, Steps
  <2>6. ASSUME NEW success \in BOOLEAN, ~IsLast(cursor[r])
        PROVE  Stands([Reported(r, success) EXCEPT ![cursor[r] + 1] = "running"], cursor[r] + 1)
    BY <2>1, <2>3, <2>6 DEF Stands, IsLast
  <2> QED BY <2>2, <2>4, <2>5, <2>6
<1> QED BY <1>1, <1>2

(* A request that writes one running run, and awaits nothing.                 *)
LEMMA RowWritten ==
  ASSUME TellInv, NEW r \in Runs, status[r] = "running", UNCHANGED spawning, Overlap(r),
         status'[r] \notin NoRow,
         \A u \in Runs \ {r} : /\ status'[u] = status[u] /\ cursor'[u] = cursor[u]
                               /\ snapshot'[u] = snapshot[u],
         Stands(snapshot[r], cursor[r]) =>
           IF status'[r] = "running" THEN Stands(snapshot'[r], cursor'[r]) ELSE Ended(snapshot'[r])
  PROVE  AllTell'
<1>1. /\ overlapped \subseteq overlapped'
      /\ \A u \in Runs \ {r} : u \in overlapped' => u \in overlapped
      /\ Disturbed(r) => r \in overlapped'
  BY DEF Overlap
<1>2. \A u \in Runs \ {r} : Calm(u)' => Calm(u)
  BY <1>1 DEF Calm, Exists
<1>3. Exists(r)
  BY DEF Exists, NoRow
<1>4. \A u \in Runs \ {r} : RowTells(u)'
  BY <1>2 DEF TellInv, AllTell, RowTells
<1>5. RowTells(r)'
  BY <1>1, <1>3 DEF TellInv, AllTell, RowTells, Calm
<1>6. ASSUME NEW s \in Sessions, spawning[s] # Idle PROVE CopyTells(s)'
  <2>1. spawning[s].run \in Runs
    BY <1>6 DEF TellInv, ReachedInv, TypeOK, Spawns
  <2>2. CASE spawning[s].run = r
    <3>1. r \in overlapped'
      BY <1>1, <1>6, <2>2 DEF Disturbed, Spawning
    <3> QED BY <2>2, <3>1 DEF CopyTells, Calm, NoRow
  <2>3. CASE spawning[s].run # r
    BY <1>2, <1>6, <2>1, <2>3 DEF TellInv, AllTell, CopyTells
  <2> QED BY <2>2, <2>3
<1>7. \A s \in Sessions : CopyTells(s)'
  BY <1>6 DEF CopyTells
<1> QED BY <1>4, <1>5, <1>7 DEF AllTell

(* A request that starts to await a spawn for one run.                        *)
LEMMA CopyTaken ==
  ASSUME TellInv, NEW r \in Runs, NEW s \in Sessions, NEW k \in Steps, NEW copy \in Snapshots,
         NEW onward \in BOOLEAN, Spawn(s, r, k, copy, onward),
         status'[r] = "running", overlapped \subseteq overlapped',
         \A u \in Runs \ {r} : /\ status'[u] = status[u] /\ cursor'[u] = cursor[u]
                               /\ snapshot'[u] = snapshot[u]
                               /\ u \in overlapped' => u \in overlapped,
         RowTells(r)', Stands(copy, k), ~onward => cursor'[r] = k,
         Disturbed(r) => r \in overlapped'
  PROVE  AllTell'
<1>1. /\ spawning[s] = Idle
      /\ spawning'[s] = [run |-> r, step |-> k, copy |-> copy, moves |-> onward]
      /\ \A q \in Sessions \ {s} : spawning'[q] = spawning[q]
  BY SpawnType DEF TellInv, ReachedInv
<1>2. \A u \in Runs \ {r} : Calm(u)' => Calm(u)
  BY DEF Calm, Exists
<1>3. \A u \in Runs : RowTells(u)'
  BY <1>2 DEF TellInv, AllTell, RowTells
<1>4. CopyTells(s)'
  <2>1. ASSUME r \notin overlapped', NEW q \in Sessions \ {s}, spawning'[q] # Idle
        PROVE  spawning'[q].run # r
    BY <1>1, <2>1 DEF Disturbed, Spawning
  <2> QED BY <1>1, <2>1 DEF CopyTells, Calm
<1>5. ASSUME NEW q \in Sessions \ {s}, spawning[q] # Idle PROVE CopyTells(q)'
  <2>1. spawning[q].run \in Runs /\ spawning'[q] = spawning[q]
    BY <1>1, <1>5 DEF TellInv, ReachedInv, TypeOK, Spawns
  <2>2. CASE spawning[q].run = r
    <3>1. r \in overlapped'
      BY <1>5, <2>2 DEF Disturbed, Spawning
    <3> QED BY <2>1, <2>2, <3>1 DEF CopyTells, Calm
  <2>3. CASE spawning[q].run # r
    <3>1. CopyTells(q)
      BY DEF TellInv, AllTell
    <3>2. ASSUME NEW p \in Sessions \ {q}, spawning'[p] # Idle,
                 Calm(spawning[q].run)' PROVE spawning'[p].run # spawning[q].run
      BY <1>1, <1>2, <1>5, <2>1, <2>3, <3>1, <3>2 DEF CopyTells
    <3> QED BY <1>2, <1>5, <2>1, <2>3, <3>1, <3>2 DEF CopyTells
  <2> QED BY <2>2, <2>3
<1>6. \A q \in Sessions : CopyTells(q)'
  <2>1. ASSUME NEW q \in Sessions \ {s}, spawning[q] = Idle PROVE CopyTells(q)'
    BY <1>1, <2>1 DEF CopyTells
  <2> QED BY <1>4, <1>5, <2>1
<1> QED BY <1>3, <1>6 DEF AllTell

LEMMA TellStep ==
  ASSUME TellInv, [Next]_vars
  PROVE  TellInv'
<1>0. TypeOK /\ AllTell /\ ReachedInv'
  BY ReachedStep DEF TellInv, ReachedInv
<1>1. SUFFICES AllTell'
  BY <1>0 DEF TellInv
<1>2. CASE UNCHANGED vars
  BY <1>0, <1>2 DEF vars, rows, AllTell, RowTells, CopyTells, Calm, Exists
<1>3. ASSUME NEW r \in Runs, StartPipeline(r) PROVE AllTell'
  <2> DEFINE steps == [AllPending EXCEPT ![1] = "running"]
  <2>1. /\ status[r] = "absent" /\ status' = [status EXCEPT ![r] = "running"]
        /\ snapshot' = [snapshot EXCEPT ![r] = steps]
        /\ (\E s \in Sessions : Spawn(s, r, 1, steps, FALSE)) \/ UNCHANGED spawning
        /\ UNCHANGED <<cursor, overlapped>>
    BY <1>3 DEF StartPipeline
  <2>2. Stands(steps, 1) /\ steps \in Snapshots /\ 1 \in Steps /\ cursor[r] = 1
    BY <1>0, <2>1, ListsTell, SnapshotTypes, FirstAndNext DEF TellInv, ReachedInv, CopiesReached
  <2> HIDE DEF steps
  <2>3. /\ status'[r] = "running" /\ cursor'[r] = 1 /\ snapshot'[r] = steps
        /\ \A u \in Runs \ {r} : /\ status'[u] = status[u] /\ cursor'[u] = cursor[u]
                                /\ snapshot'[u] = snapshot[u]
    BY <1>0, <2>1, <2>2 DEF TypeOK
  <2>4. RowTells(r)'
    BY <2>2, <2>3 DEF RowTells
  <2>5. ~Disturbed(r)
    BY <1>0, <2>1 DEF Disturbed, Spawning, AllTell, CopyTells
  <2>6. CASE UNCHANGED spawning
    <3>1. \A u \in Runs \ {r} : Calm(u)' = Calm(u)
      BY <2>1, <2>3 DEF Calm, Exists
    <3>2. \A u \in Runs : RowTells(u)'
      BY <1>0, <2>3, <2>4, <3>1 DEF AllTell, RowTells
    <3>3. ASSUME NEW s \in Sessions, spawning[s] # Idle PROVE CopyTells(s)'
      <4>1. spawning[s].run \in Runs \ {r}
        BY <1>0, <2>5, <3>3 DEF Disturbed, Spawning, TypeOK, Spawns
      <4> QED BY <1>0, <2>3, <2>6, <3>1, <3>3, <4>1 DEF AllTell, CopyTells
    <3>4. \A s \in Sessions : CopyTells(s)'
      BY <2>6, <3>3 DEF CopyTells
    <3> QED BY <3>2, <3>4 DEF AllTell
  <2>7. ASSUME NEW s \in Sessions, Spawn(s, r, 1, steps, FALSE) PROVE AllTell'
    BY <2>1, <2>2, <2>3, <2>4, <2>5, <2>7, CopyTaken
  <2> QED BY <2>1, <2>6, <2>7
<1>4. ASSUME NEW r \in Runs, AdvanceFails(r) PROVE AllTell'
  <2>1. /\ status[r] = "running" /\ UNCHANGED <<cursor, spawning>> /\ Overlap(r)
        /\ status' = [status EXCEPT ![r] = "failed"]
        /\ snapshot' = [snapshot EXCEPT ![r] = SkippedAfter(Reported(r, FALSE), cursor[r])]
    BY <1>4 DEF AdvanceFails
  <2>2. /\ status'[r] = "failed" /\ snapshot'[r] = SkippedAfter(Reported(r, FALSE), cursor[r])
        /\ \A u \in Runs \ {r} : /\ status'[u] = status[u] /\ cursor'[u] = cursor[u]
                                /\ snapshot'[u] = snapshot[u]
    BY <1>0, <2>1 DEF TypeOK
  <2>3. Stands(snapshot[r], cursor[r]) => Ended(snapshot'[r])
    BY <1>0, <2>2, ListsTell
  <2> QED BY <2>1, <2>2, <2>3, RowWritten DEF NoRow
<1>5. ASSUME NEW r \in Runs, CancelRun(r) PROVE AllTell'
  <2> DEFINE steps == [k \in Steps |-> IF snapshot[r][k] \in {"pending", "running"}
                                      THEN "skipped" ELSE snapshot[r][k]]
  <2>1. /\ status[r] = "running" /\ UNCHANGED <<cursor, spawning>> /\ Overlap(r)
        /\ status' = [status EXCEPT ![r] = "cancelled"]
        /\ snapshot' = [snapshot EXCEPT ![r] = steps]
    BY <1>5 DEF CancelRun
  <2>2. Stands(snapshot[r], cursor[r]) => Ended(steps)
    BY <1>0, ListsTell
  <2> HIDE DEF steps
  <2>3. /\ status'[r] = "cancelled" /\ snapshot'[r] = steps
        /\ \A u \in Runs \ {r} : /\ status'[u] = status[u] /\ cursor'[u] = cursor[u]
                                /\ snapshot'[u] = snapshot[u]
    BY <1>0, <2>1 DEF TypeOK
  <2> QED BY <2>1, <2>2, <2>3, RowWritten DEF NoRow
<1>6. ASSUME NEW r \in Runs, NEW success \in BOOLEAN, AdvanceCompletes(r, success) PROVE AllTell'
  <2>1. /\ status[r] = "running" /\ UNCHANGED <<cursor, spawning>> /\ Overlap(r)
        /\ IsLast(cursor[r])
        /\ status' = [status EXCEPT ![r] = "completed"]
        /\ snapshot' = [snapshot EXCEPT ![r] = Reported(r, success)]
    BY <1>6 DEF AdvanceCompletes
  <2>2. /\ status'[r] = "completed" /\ snapshot'[r] = Reported(r, success)
        /\ \A u \in Runs \ {r} : /\ status'[u] = status[u] /\ cursor'[u] = cursor[u]
                                /\ snapshot'[u] = snapshot[u]
    BY <1>0, <2>1 DEF TypeOK
  <2>3. Stands(snapshot[r], cursor[r]) => Ended(snapshot'[r])
    BY <1>0, <2>1, <2>2, ListsTell
  <2> QED BY <2>1, <2>2, <2>3, RowWritten DEF NoRow
<1>7. ASSUME NEW r \in Runs, NEW success \in BOOLEAN, AdvanceSpawns(r, success) PROVE AllTell'
  <2> DEFINE next == cursor[r] + 1
             steps == [Reported(r, success) EXCEPT ![next] = "running"]
  <2>1. /\ status[r] = "running" /\ ~IsLast(cursor[r]) /\ UNCHANGED status /\ Overlap(r)
        /\ \/ /\ \E s \in Sessions : Spawn(s, r, next, steps, TRUE)
              /\ UNCHANGED <<cursor, snapshot>>
           \/ /\ cursor' = [cursor EXCEPT ![r] = next]
              /\ snapshot' = [snapshot EXCEPT ![r] = steps]
              /\ UNCHANGED spawning
    BY <1>7 DEF AdvanceSpawns, rows
  <2>2. next \in Steps
    BY <1>0, <2>1, FirstAndNext DEF TypeOK
  <2>3. steps \in Snapshots
    BY <1>0, <2>2, SnapshotTypes
  <2>4. Stands(snapshot[r], cursor[r]) => Stands(steps, next)
    BY <1>0, <2>1, ListsTell
  <2> HIDE DEF next, steps
  <2>5. CASE /\ cursor' = [cursor EXCEPT ![r] = next]
             /\ snapshot' = [snapshot EXCEPT ![r] = steps]
             /\ UNCHANGED spawning
    <3>1. /\ cursor'[r] = next /\ snapshot'[r] = steps /\ status'[r] = "running"
          /\ \A u \in Runs \ {r} : /\ status'[u] = status[u] /\ cursor'[u] = cursor[u]
                                  /\ snapshot'[u] = snapshot[u]
      BY <1>0, <2>1, <2>5 DEF TypeOK
    <3> QED BY <2>1, <2>4, <2>5, <3>1, RowWritten DEF NoRow
  <2>6. ASSUME NEW s \in Sessions, Spawn(s, r, next, steps, TRUE), UNCHANGED <<cursor, snapshot>>
        PROVE  AllTell'
    <3>1. /\ overlapped \subseteq overlapped'
          /\ Disturbed(r) => r \in overlapped'
          /\ \A u \in Runs \ {r} : u \in overlapped' => u \in overlapped
      BY <2>1 DEF Overlap
    <3>2. RowTells(r)'
      BY <1>0, <2>1, <2>6, <3>1 DEF AllTell, RowTells, Calm, Exists
    <3>3. CASE r \in overlapped
      <4>1. \A u \in Runs : Calm(u)' => Calm(u) /\ u # r
        BY <2>1, <3>1, <3>3 DEF Calm, Exists
      <4>2. /\ spawning'[s] = [run |-> r, step |-> next, copy |-> steps, moves |-> TRUE]
            /\ \A q \in Sessions \ {s} : spawning'[q] = spawning[q]
        BY <1>0, <2>2, <2>3, <2>6, SpawnType
      <4>3. \A u \in Runs : RowTells(u)'
        BY <1>0, <2>1, <2>6, <4>1 DEF AllTell, RowTells
      <4>4. CopyTells(s)'
        BY <2>1, <4>1, <4>2 DEF CopyTells
      <4>5. ASSUME NEW q \in Sessions \ {s} PROVE CopyTells(q)'
        <5>1. spawning[q] # Idle => spawning[q].run \in Runs
          BY <1>0 DEF TypeOK, Spawns
        <5> QED BY <1>0, <2>1, <2>6, <4>1, <4>2, <5>1 DEF AllTell, CopyTells
      <4> QED BY <4>3, <4>4, <4>5 DEF AllTell
    <3>4. CASE r \notin overlapped
      <4>1. Stands(steps, next)
        BY <1>0, <2>1, <2>4, <3>4 DEF AllTell, RowTells, Calm, Exists, NoRow
      <4> QED BY <2>1, <2>2, <2>3, <2>6, <3>1, <3>2, <4>1, CopyTaken
    <3> QED BY <3>3, <3>4
  <2> QED BY <2>1, <2>5, <2>6
<1>8. ASSUME NEW s \in Sessions, Spawned(s) PROVE AllTell'
  <2>0. PICK r \in Runs : r = spawning[s].run
    BY <1>0, <1>8 DEF Spawned, Spawning, TypeOK, Spawns
  <2>1. /\ spawning[s] # Idle /\ UNCHANGED <<status, overlapped>>
        /\ snapshot' = IF Exists(r) THEN [snapshot EXCEPT ![r] = spawning[s].copy] ELSE snapshot
        /\ cursor' = IF Exists(r) /\ spawning[s].moves
                     THEN [cursor EXCEPT ![r] = spawning[s].step] ELSE cursor
        /\ spawning' = [spawning EXCEPT ![s] = Idle]
    BY <1>0, <1>8, <2>0 DEF Spawned, Spawning, StatusAfterSpawn, TypeOK
  <2>2. CopyTells(s)
    BY <1>0 DEF AllTell
  <2>3. \A u \in Runs : Calm(u)' = Calm(u)
    BY <2>1 DEF Calm, Exists
  <2>4. \A u \in Runs \ {r} : cursor'[u] = cursor[u] /\ snapshot'[u] = snapshot[u]
    BY <1>0, <2>1 DEF TypeOK
  <2>5. \A u \in Runs \ {r} : RowTells(u)'
    BY <1>0, <2>1, <2>3, <2>4 DEF AllTell, RowTells
  <2>6. RowTells(r)'
    <3>1. SUFFICES ASSUME Calm(r) PROVE status[r] = "running" /\ Stands(snapshot'[r], cursor'[r])
      BY <2>1, <2>3 DEF RowTells
    <3>2. Exists(r) /\ snapshot'[r] = spawning[s].copy /\ cursor'[r] = spawning[s].step
      BY <1>0, <2>0, <2>1, <2>2, <3>1 DEF TypeOK, Calm, CopyTells
    <3> QED BY <2>0, <2>1, <2>2, <3>1, <3>2 DEF CopyTells
  <2>7. ASSUME NEW q \in Sessions, spawning'[q] # Idle PROVE CopyTells(q)'
    <3>1. q # s /\ spawning'[q] = spawning[q] /\ spawning[q].run \in Runs
      BY <1>0, <2>1, <2>7 DEF TypeOK, Spawns
    <3>2. CopyTells(q)
      BY <1>0 DEF AllTell
    <3>3. Calm(spawning[q].run) => spawning[q].run # r
      BY <2>0, <2>1, <2>7, <3>1, <3>2 DEF CopyTells
    <3>4. \A p \in Sessions : spawning'[p] # Idle => spawning'[p] = spawning[p]
      BY <1>0, <2>1 DEF TypeOK
    <3> QED BY <2>1, <2>3, <2>4, <2>7, <3>1, <3>2, <3>3, <3>4 DEF CopyTells
  <2>8. \A q \in Sessions : CopyTells(q)'
    BY <2>7 DEF CopyTells
  <2> QED BY <2>5, <2>6, <2>8 DEF AllTell
<1>9. CASE DeletePipeline
  <2>1. /\ \A u \in Runs : ~Calm(u)' /\ (status'[u] = "absent" => status[u] = "absent")
        /\ UNCHANGED spawning
    BY <1>9 DEF DeletePipeline, Calm, Exists, NoRow
  <2>2. \A s \in Sessions : spawning[s] # Idle => spawning[s].run \in Runs
    BY <1>0 DEF TypeOK, Spawns
  <2> QED BY <1>0, <2>1, <2>2 DEF AllTell, RowTells, CopyTells
<1>10. CASE Crash
  BY <1>0, <1>10 DEF Crash, rows, AllTell, RowTells, CopyTells, Calm, Exists
<1> QED BY <1>2, <1>3, <1>4, <1>5, <1>6, <1>7, <1>8, <1>9, <1>10, StepCases

(* A run that no request wrote during one of its spawns is told by its        *)
(* snapshot, after crashes too: the one copy on its way is the next snapshot. *)
THEOREM SnapshotTells == Spec => []SnapshotTellsTheRun
<1>1. Init => TellInv
  BY InitTypes DEF Init, TellInv, AllTell, RowTells, CopyTells, Calm, ReachedInv,
                   NoStepPassedOver, CopiesReached, Exists, NoRow
<1>2. TellInv => SnapshotTellsTheRun
  BY DEF TellInv, AllTell, RowTells, Calm, Stands, Ended, SnapshotTellsTheRun
<1> QED BY <1>1, <1>2, TellStep, PTL DEF Spec
--------------------------------------------------------------------------------
(* The delivery of notifications. *)

(* The senders that have n in their batches. *)
Having(n) == {s \in Senders : n \in batch[s]}

(* While a message waits, each time it was taken is one of which its sender  *)
(* does not know; after that nobody selects it again, and each of those that *)
(* have it in their batches sends it once more at most.                      *)
NoteInv ==
  /\ N!TypeOK
  /\ \A s \in Senders : \A m \in batch[s] : row[m] # N!NoRow
  /\ \A n \in N!Ids :
       /\ N!Waiting(n) \/ row[n] = N!NoRow => received[n] <= doubts[n]
       /\ received[n] + Cardinality(Having(n)) <= doubts[n] + Cardinality(Senders)
       /\ row[n].is = "delivered" => received[n] > 0

LEMMA SameCardinality == \A some : N!Cardinality(some) = Cardinality(some)
BY DEF N!Cardinality, Cardinality, N!IsFiniteSet, IsFiniteSet

LEMMA IdsAreFinite == \A ids \in SUBSET N!Ids : IsFiniteSet(ids)
<1>1. IsFiniteSet(N!Ids)
  <2>1. 1 \in Int /\ MaxRows \in Int
    BY BoundsAreNumbers
  <2>2. QED
    BY <2>1, FS_Interval DEF N!Ids
<1>2. QED
  BY <1>1, FS_Subset

LEMMA SendersAreCounted ==
  \A some \in SUBSET Senders :
    IsFiniteSet(some) /\ Cardinality(some) \in Nat /\ Cardinality(some) <= Cardinality(Senders)
BY SendersAreFinite, FS_Subset, FS_CardinalityType

Fewer(n, ids) == {m \in ids : m < n}

(* A call selects no more than Limit: how many are older tells them apart.   *)
LEMMA FirstAreFew == \A ids \in SUBSET N!Ids : N!First(ids) \in N!Batches
<1> TAKE ids \in SUBSET N!Ids
<1>0. ASSUME NEW n \in ids, NEW m \in ids, n < m
      PROVE  Fewer(n, ids) \subseteq Fewer(m, ids) /\ n \in Fewer(m, ids) /\ n \notin Fewer(n, ids)
  <2>1. \A i \in ids : i \in Nat
    BY BoundsAreNumbers DEF N!Ids
  <2>2. QED
    BY <1>0, <2>1 DEF Fewer
<1> DEFINE first == {n \in ids : Cardinality(Fewer(n, ids)) < Limit}
           rank == [n \in first |-> Cardinality(Fewer(n, ids))]
<1>8. N!First(ids) = first
  BY SameCardinality DEF N!First, Fewer
<1>1. \A n : Fewer(n, ids) \in SUBSET N!Ids /\ Cardinality(Fewer(n, ids)) \in Nat
  <2> TAKE n
  <2>1. Fewer(n, ids) \in SUBSET N!Ids
    BY DEF Fewer
  <2>2. QED
    BY <2>1, IdsAreFinite, FS_CardinalityType
<1>2. rank \in [first -> 0..(Limit - 1)]
  <2>1. \A n \in first : Cardinality(Fewer(n, ids)) \in 0..(Limit - 1)
    BY <1>1, BoundsAreNumbers
  <2>2. QED
    BY <2>1
<1>3. ASSUME NEW n \in first, NEW m \in first, n < m
      PROVE  Cardinality(Fewer(n, ids)) < Cardinality(Fewer(m, ids))
  <2>1. Fewer(n, ids) \subseteq Fewer(m, ids) /\ n \in Fewer(m, ids) /\ n \notin Fewer(n, ids)
    BY <1>0, <1>3
  <2>2. IsFiniteSet(Fewer(m, ids))
    BY <1>1, IdsAreFinite
  <2>3. /\ Cardinality(Fewer(n, ids)) <= Cardinality(Fewer(m, ids))
        /\ Cardinality(Fewer(n, ids)) = Cardinality(Fewer(m, ids)) => Fewer(n, ids) = Fewer(m, ids)
    BY <2>1, <2>2, FS_Subset
  <2>4. QED
    BY <1>1, <2>1, <2>3
<1>4. rank \in Injection(first, 0..(Limit - 1))
  <2>1. ASSUME NEW n \in first, NEW m \in first, n # m PROVE rank[n] # rank[m]
    <3>1. n < m \/ m < n
      BY <2>1, BoundsAreNumbers DEF N!Ids
    <3>2. QED
      BY <1>1, <1>3, <3>1
  <2> HIDE DEF rank
  <2>2. QED
    BY <1>2, <2>1 DEF Injection, IsInjective
<1>5. Cardinality(0..(Limit - 1)) = Limit /\ IsFiniteSet(0..(Limit - 1))
  BY FS_Interval, BoundsAreNumbers
<1>6. Cardinality(first) <= Limit
  BY <1>4, <1>5, FS_Injection
<1>7. QED
  BY <1>8, <1>6, SameCardinality DEF N!Batches

LEMMA NoteInit == N!Init => NoteInv
<1> SUFFICES ASSUME N!Init PROVE NoteInv
  OBVIOUS
<1>1. {} \in N!Batches
  BY FS_EmptySet, SameCardinality, BoundsAreNumbers DEF N!Batches
<1>2. N!TypeOK
  BY <1>1, BoundsAreNumbers DEF N!TypeOK, N!Init
<1>3. \A n : Having(n) = {}
  BY DEF N!Init, Having
<1>4. Cardinality({}) = 0 /\ Cardinality(Senders) \in Nat
  BY FS_EmptySet, SendersAreCounted
<1>5. \A n \in N!Ids : received[n] = 0 /\ doubts[n] = 0 /\ row[n].is # "delivered"
  BY DEF N!Init, N!NoRow
<1>6. QED
  BY <1>2, <1>3, <1>4, <1>5 DEF NoteInv, N!Init

(* Steps that leave the batches and the counters alone, and let nothing wait *)
(* again that did not before.                                                *)
LEMMA NoteRows ==
  ASSUME NoteInv, UNCHANGED <<batch, received, doubts>>, N!TypeOK',
         \A n \in N!Ids :
           /\ row'[n] = N!NoRow => row[n] = N!NoRow
           /\ N!Waiting(n)' => N!Waiting(n) \/ row[n] = N!NoRow
           /\ row'[n].is = "delivered" => row[n].is = "delivered"
  PROVE  NoteInv'
<1>1. \A n : Having(n)' = Having(n)
  BY DEF Having
<1>2. \A s \in Senders : \A m \in batch[s] : m \in N!Ids
  BY DEF NoteInv, N!TypeOK, N!Batches
<1>3. QED
  BY <1>1, <1>2 DEF NoteInv

LEMMA NoteWrites ==
  ASSUME NoteInv,
         \/ \E n \in N!Ids, to \in N!Recipients : N!Create(n, to)
         \/ \E to \in N!Recipients : N!MarkDelivered(to)
         \/ \E n \in N!Ids : N!Delete(n)
  PROVE  NoteInv'
<1>1. UNCHANGED <<batch, received, doubts>>
  BY DEF N!Create, N!MarkDelivered, N!Delete
<1>2. trouble' \in 0..MaxTrouble
  BY BoundsAreNumbers DEF NoteInv, N!TypeOK, N!Create, N!MarkDelivered, N!Delete, N!Troubled
<1>3. \A n \in N!Ids : row[n] \in N!Rows \/ row[n] = N!NoRow
  BY DEF NoteInv, N!TypeOK
<1>4. ASSUME NEW n \in N!Ids, NEW to \in N!Recipients, N!Create(n, to)
      PROVE  NoteInv'
  <2>1. row' = [row EXCEPT ![n] = [to |-> to, is |-> "waiting"]] /\ row[n] = N!NoRow
    BY <1>4 DEF N!Create
  <2>2. row' \in [N!Ids -> N!Rows \cup {N!NoRow}]
    BY <2>1 DEF NoteInv, N!TypeOK, N!Rows
  <2>3. \A m \in N!Ids \ {n} : row'[m] = row[m]
    BY <2>1 DEF NoteInv, N!TypeOK
  <2>4. row'[n].is = "waiting" /\ row'[n] # N!NoRow
    BY <2>1 DEF NoteInv, N!TypeOK, N!NoRow
  <2>5. QED
    BY <1>1, <1>2, <2>1, <2>2, <2>3, <2>4, NoteRows DEF NoteInv, N!TypeOK, N!Waiting
<1>5. ASSUME NEW to \in N!Recipients, N!MarkDelivered(to)
      PROVE  NoteInv'
  <2>1. \A n \in N!Ids : row'[n] = IF N!Waiting(n) /\ row[n].to = to
                                    THEN [row[n] EXCEPT !.is = "dismissed"] ELSE row[n]
    BY <1>5 DEF N!MarkDelivered
  <2>2. \A n \in N!Ids : N!Waiting(n) =>
          /\ [row[n] EXCEPT !.is = "dismissed"] \in N!Rows
          /\ [row[n] EXCEPT !.is = "dismissed"].is = "dismissed"
    BY <1>3 DEF N!Waiting, N!Rows, N!NoRow
  <2>3. \A n \in N!Ids : \/ row'[n] = row[n]
                         \/ row'[n] \in N!Rows /\ row'[n].is = "dismissed"
    BY <2>1, <2>2
  <2>4. row' \in [N!Ids -> N!Rows \cup {N!NoRow}]
    BY <1>3, <1>5, <2>3 DEF N!MarkDelivered
  <2>5. \A n \in N!Ids : row'[n] \in N!Rows /\ row'[n].is = "dismissed" => row'[n] # N!NoRow
    BY DEF N!NoRow
  <2>6. QED
    BY <1>1, <1>2, <2>3, <2>4, <2>5, NoteRows DEF NoteInv, N!TypeOK, N!Waiting
<1>6. ASSUME NEW n \in N!Ids, N!Delete(n)
      PROVE  NoteInv'
  <2> DEFINE gone == [row[n] EXCEPT !.is = "deleted"]
  <2>1. row' = [row EXCEPT ![n] = gone] /\ row[n] \in N!Rows
    BY <1>3, <1>6 DEF N!Delete, N!NoRow
  <2>2. gone \in N!Rows /\ gone.is = "deleted"
    BY <2>1 DEF N!Rows
  <2> HIDE DEF gone
  <2>3. \A m \in N!Ids : row'[m] = row[m] \/ (row'[m] \in N!Rows /\ row'[m].is = "deleted")
    <3>1. row'[n] = gone /\ \A m \in N!Ids \ {n} : row'[m] = row[m]
      BY <2>1 DEF NoteInv, N!TypeOK
    <3>2. QED
      BY <2>2, <3>1
  <2>4. row' \in [N!Ids -> N!Rows \cup {N!NoRow}]
    BY <2>1, <2>2 DEF NoteInv, N!TypeOK
  <2>5. \A m \in N!Ids : row'[m].is = "deleted" => row'[m] # N!NoRow
    BY DEF N!NoRow
  <2>6. QED
    BY <1>1, <1>2, <2>3, <2>4, <2>5, NoteRows DEF NoteInv, N!TypeOK, N!Waiting
<1>7. QED
  BY <1>4, <1>5, <1>6

LEMMA NoteSelect ==
  ASSUME NoteInv, NEW s \in Senders, NEW recipients, N!Select(s, recipients)
  PROVE  NoteInv'
<1> DEFINE selected == N!First(N!Undelivered(recipients))
<1>1. batch' = [batch EXCEPT ![s] = selected] /\ UNCHANGED <<row, received, doubts, trouble>>
  BY DEF N!Select
<1>2. selected \in N!Batches
  BY FirstAreFew DEF N!Undelivered
<1>3. \A n \in selected : n \in N!Ids /\ N!Waiting(n)
  BY DEF N!First, N!Undelivered
<1> HIDE DEF selected
<1>4. N!TypeOK'
  BY <1>1, <1>2 DEF NoteInv, N!TypeOK
<1>5. batch'[s] = selected /\ \A q \in Senders \ {s} : batch'[q] = batch[q]
  BY <1>1 DEF NoteInv, N!TypeOK
<1>6. \A q \in Senders : \A m \in batch'[q] : row'[m] # N!NoRow
  <2>1. \A n \in selected : row[n] # N!NoRow
    BY <1>3 DEF N!Waiting, N!NoRow
  <2>2. QED
    BY <1>1, <1>5, <2>1 DEF NoteInv
<1>7. ASSUME NEW n \in N!Ids
      PROVE  received[n] + Cardinality(Having(n)') <= doubts[n] + Cardinality(Senders)
  <2>1. /\ Having(n)' \in SUBSET Senders /\ Having(n) \in SUBSET Senders
        /\ received[n] \in Nat /\ doubts[n] \in Nat
    BY DEF Having, NoteInv, N!TypeOK
  <2>2. /\ Cardinality(Having(n)') \in Nat /\ Cardinality(Having(n)') <= Cardinality(Senders)
        /\ Cardinality(Senders) \in Nat
    BY <2>1, SendersAreCounted
  <2>3. CASE N!Waiting(n)
    <3>1. received[n] <= doubts[n]
      BY <2>3 DEF NoteInv
    <3>2. QED
      BY <2>1, <2>2, <3>1
  <2>4. CASE ~N!Waiting(n)
    <3>1. Having(n)' \subseteq Having(n)
      BY <1>3, <1>5, <2>4 DEF Having
    <3>2. /\ Cardinality(Having(n)) \in Nat
          /\ Cardinality(Having(n)') <= Cardinality(Having(n))
      BY <2>1, <3>1, SendersAreCounted, FS_Subset
    <3>3. received[n] + Cardinality(Having(n)) <= doubts[n] + Cardinality(Senders)
      BY DEF NoteInv
    <3>4. QED
      BY <2>1, <2>2, <3>2, <3>3
  <2>5. QED
    BY <2>3, <2>4
<1>8. \A n \in N!Ids : N!Waiting(n)' <=> N!Waiting(n)
  BY <1>1 DEF N!Waiting
<1>9. QED
  BY <1>1, <1>4, <1>6, <1>7, <1>8 DEF NoteInv

(* What is sent leaves the batch of its sender, and no other batch. *)
LEMMA OneIsSent ==
  ASSUME NoteInv, NEW s \in Senders, NEW n \in N!Ids, N!Sending(s, n), N!Proceed(s)
  PROVE  /\ batch' \in [Senders -> N!Batches]
         /\ \A q \in Senders : batch'[q] \subseteq batch[q]
         /\ \A m \in N!Ids \ {n} : Having(m)' = Having(m)
         /\ Having(n)' = Having(n) \ {s} /\ s \in Having(n)
<1>1. \A m \in batch[s] : m \in N!Ids /\ (N!Sending(s, m) <=> m = n)
  <2>1. \A m \in batch[s] : m \in N!Ids
    BY DEF NoteInv, N!TypeOK, N!Batches
  <2>2. \A m \in N!Ids : m \in Nat
    BY BoundsAreNumbers DEF N!Ids
  <2>3. QED
    BY <2>1, <2>2 DEF N!Sending
<1>2. batch' = [batch EXCEPT ![s] = batch[s] \ {n}]
  BY <1>1 DEF N!Proceed, N!Rest
<1>3. batch[s] \ {n} \in N!Batches
  <2>1. batch[s] \in SUBSET N!Ids /\ Cardinality(batch[s]) <= Limit
    BY SameCardinality DEF NoteInv, N!TypeOK, N!Batches
  <2>2. IsFiniteSet(batch[s])
    BY <2>1, IdsAreFinite
  <2>3. /\ Cardinality(batch[s] \ {n}) <= Cardinality(batch[s]) /\ Cardinality(batch[s]) \in Nat
        /\ Cardinality(batch[s] \ {n}) \in Nat
    BY <2>2, FS_Subset, FS_CardinalityType
  <2>4. Cardinality(batch[s] \ {n}) <= Limit
    BY <2>1, <2>3, BoundsAreNumbers
  <2>5. QED
    BY <2>1, <2>4, SameCardinality DEF N!Batches
<1>4. batch'[s] = batch[s] \ {n} /\ \A q \in Senders \ {s} : batch'[q] = batch[q]
  BY <1>2 DEF NoteInv, N!TypeOK
<1>5. QED
  BY <1>2, <1>3, <1>4 DEF NoteInv, N!TypeOK, Having, N!Sending

LEMMA NoteAnswer ==
  ASSUME NoteInv, NEW s \in Senders, NEW n \in N!Ids,
         N!Accepted(s, n) \/ N!AnswerLost(s, n) \/ N!Refused(s, n)
  PROVE  NoteInv'
<1>1. /\ batch' \in [Senders -> N!Batches]
      /\ \A q \in Senders : batch'[q] \subseteq batch[q]
      /\ \A m \in N!Ids \ {n} : Having(m)' = Having(m)
      /\ Having(n)' = Having(n) \ {s} /\ s \in Having(n)
  BY OneIsSent DEF N!Accepted, N!AnswerLost, N!Refused
<1>2. /\ received[n] \in Nat /\ doubts[n] \in Nat /\ trouble' \in 0..MaxTrouble
      /\ received' = [received EXCEPT ![n] = received'[n]]
      /\ doubts' = [doubts EXCEPT ![n] = doubts'[n]]
      /\ \/ N!Accepted(s, n) /\ received'[n] = received[n] + 1 /\ doubts'[n] = doubts[n]
         \/ N!AnswerLost(s, n) /\ received'[n] = received[n] + 1 /\ doubts'[n] = doubts[n] + 1
         \/ N!Refused(s, n) /\ received'[n] = received[n] /\ doubts'[n] = doubts[n]
  BY BoundsAreNumbers DEF NoteInv, N!TypeOK, N!Accepted, N!AnswerLost, N!Refused, N!Troubled
<1>3. row[n] \in N!Rows /\ row[n] # N!NoRow
  <2>1. n \in batch[s]
    BY <1>1 DEF Having
  <2>2. QED
    BY <2>1 DEF NoteInv, N!TypeOK
<1>4. /\ row' \in [N!Ids -> N!Rows \cup {N!NoRow}]
      /\ \A m \in N!Ids \ {n} : row'[m] = row[m]
      /\ row'[n] # N!NoRow /\ (row'[n].is = row[n].is \/ (N!Accepted(s, n) /\ row'[n].is = "delivered"))
      /\ N!Accepted(s, n) => row'[n].is # "waiting"
  <2>1. CASE N!Accepted(s, n) /\ row[n].is \in {"waiting", "delivered", "dismissed"}
    <3> DEFINE marked == [row[n] EXCEPT !.is = "delivered"]
    <3>1. row' = [row EXCEPT ![n] = marked]
      BY <2>1 DEF N!Accepted, N!Mark
    <3>2. marked \in N!Rows /\ marked.is = "delivered"
      BY <1>3 DEF N!Rows
    <3> HIDE DEF marked
    <3>3. marked # N!NoRow
      BY <3>2 DEF N!NoRow
    <3>4. QED
      BY <2>1, <3>1, <3>2, <3>3 DEF NoteInv, N!TypeOK
  <2>2. CASE ~(N!Accepted(s, n) /\ row[n].is \in {"waiting", "delivered", "dismissed"})
    <3>1. row' = row
      BY <1>2, <2>2 DEF N!Accepted, N!Mark, N!AnswerLost, N!Refused
    <3>2. QED
      BY <1>3, <2>2, <3>1 DEF NoteInv, N!TypeOK
  <2>3. QED
    BY <2>1, <2>2
<1>5. /\ Cardinality(Having(n)') = Cardinality(Having(n)) - 1 /\ Cardinality(Having(n)) \in Nat
      /\ Cardinality(Senders) \in Nat
  <2>1. Having(n) \in SUBSET Senders
    BY DEF Having
  <2>2. QED
    BY <1>1, <2>1, SendersAreCounted, FS_RemoveElement
<1>6. N!TypeOK'
  <2>1. received'[n] \in Nat /\ doubts'[n] \in Nat
    BY <1>2
  <2>2. received' \in [N!Ids -> Nat] /\ doubts' \in [N!Ids -> Nat]
    BY <1>2, <2>1 DEF NoteInv, N!TypeOK
  <2>3. QED
    BY <1>1, <1>2, <1>4, <2>2 DEF N!TypeOK
<1>7. \A q \in Senders : \A m \in batch'[q] : row'[m] # N!NoRow
  <2>1. \A q \in Senders : \A m \in batch'[q] : m \in N!Ids /\ row[m] # N!NoRow
    BY <1>1 DEF NoteInv, N!TypeOK, N!Batches
  <2>2. QED
    BY <1>4, <2>1
<1>8. /\ N!Waiting(n)' \/ row'[n] = N!NoRow => received'[n] <= doubts'[n]
      /\ received'[n] + Cardinality(Having(n)') <= doubts'[n] + Cardinality(Senders)
      /\ row'[n].is = "delivered" => received'[n] > 0
  <2>1. /\ N!Waiting(n) => received[n] <= doubts[n]
        /\ received[n] + Cardinality(Having(n)) <= doubts[n] + Cardinality(Senders)
        /\ row[n].is = "delivered" => received[n] > 0
    BY DEF NoteInv
  <2>2. N!Waiting(n)' => N!Waiting(n) /\ ~N!Accepted(s, n)
    BY <1>4 DEF N!Waiting
  <2>3. N!Waiting(n)' \/ row'[n] = N!NoRow => received'[n] <= doubts'[n]
    <3> SUFFICES ASSUME N!Waiting(n)' PROVE received'[n] <= doubts'[n]
      BY <1>4
    <3>1. ~N!Accepted(s, n) /\ received[n] <= doubts[n]
      BY <2>1, <2>2
    <3>2. QED
      BY <1>2, <3>1
  <2>4. received'[n] + Cardinality(Having(n)') <= doubts'[n] + Cardinality(Senders)
    BY <1>2, <1>5, <2>1
  <2>5. row'[n].is = "delivered" => received'[n] > 0
    <3>1. CASE N!Accepted(s, n)
      <4>1. received'[n] = received[n] + 1
        BY <3>1 DEF N!Accepted, NoteInv, N!TypeOK
      <4>2. QED
        BY <1>2, <4>1
    <3>2. CASE ~N!Accepted(s, n)
      BY <1>2, <1>4, <2>1, <3>2
    <3>3. QED
      BY <3>1, <3>2
  <2>6. QED
    BY <2>3, <2>4, <2>5
<1>9. ASSUME NEW m \in N!Ids, m # n
      PROVE  /\ N!Waiting(m)' \/ row'[m] = N!NoRow => received'[m] <= doubts'[m]
             /\ received'[m] + Cardinality(Having(m)') <= doubts'[m] + Cardinality(Senders)
             /\ row'[m].is = "delivered" => received'[m] > 0
  <2>1. /\ received'[m] = received[m] /\ doubts'[m] = doubts[m] /\ row'[m] = row[m]
        /\ Having(m)' = Having(m)
    BY <1>1, <1>2, <1>4, <1>9 DEF NoteInv, N!TypeOK
  <2>2. QED
    BY <2>1 DEF NoteInv, N!Waiting
<1>10. QED
  BY <1>6, <1>7, <1>8, <1>9 DEF NoteInv

LEMMA NoteCrash == NoteInv /\ N!Crash => NoteInv'
<1> SUFFICES ASSUME NoteInv, N!Crash PROVE NoteInv'
  OBVIOUS
<1>1. PICK taken \in SUBSET {s \in Senders : \E n \in N!Ids : N!Sending(s, n) /\ row[n].to \in Agents} :
        /\ received' = [n \in N!Ids |-> received[n] + N!Cardinality({s \in taken : N!Sending(s, n)})]
        /\ doubts' = [n \in N!Ids |-> doubts[n] + N!Cardinality({s \in taken : N!Sending(s, n)})]
  BY DEF N!Crash
<1> DEFINE Took(n) == {s \in taken : N!Sending(s, n)}
<1>2. /\ batch' = [s \in Senders |-> {}] /\ row' = row /\ trouble' \in 0..MaxTrouble
  BY BoundsAreNumbers DEF N!Crash, N!Troubled, NoteInv, N!TypeOK
<1>3. {} \in N!Batches
  BY FS_EmptySet, SameCardinality, BoundsAreNumbers DEF N!Batches
<1>4. \A n : Having(n)' = {}
  BY <1>2 DEF Having
<1>5. \A n : Took(n) \in SUBSET Senders
  OBVIOUS
<1>6. \A n : Cardinality(Took(n)) \in Nat /\ N!Cardinality(Took(n)) = Cardinality(Took(n))
  <2> HIDE DEF Took
  <2>1. QED
    BY <1>5, SendersAreCounted, SameCardinality
<1>7. \A n \in N!Ids : /\ received'[n] = received[n] + Cardinality(Took(n))
                       /\ doubts'[n] = doubts[n] + Cardinality(Took(n))
  BY <1>1, <1>6
<1> HIDE DEF Took
<1>8. received' \in [N!Ids -> Nat] /\ doubts' \in [N!Ids -> Nat]
  <2>1. \A n \in N!Ids : received[n] \in Nat /\ doubts[n] \in Nat
    BY DEF NoteInv, N!TypeOK
  <2>2. \A n \in N!Ids : received'[n] \in Nat /\ doubts'[n] \in Nat
    BY <1>6, <1>7, <2>1
  <2>3. received' = [n \in N!Ids |-> received'[n]] /\ doubts' = [n \in N!Ids |-> doubts'[n]]
    BY <1>1
  <2>4. QED
    BY <2>2, <2>3
<1>9. N!TypeOK'
  BY <1>2, <1>3, <1>8 DEF NoteInv, N!TypeOK
<1>10. ASSUME NEW n \in N!Ids
       PROVE  /\ N!Waiting(n)' \/ row'[n] = N!NoRow => received'[n] <= doubts'[n]
              /\ received'[n] + Cardinality(Having(n)') <= doubts'[n] + Cardinality(Senders)
              /\ row'[n].is = "delivered" => received'[n] > 0
  <2>1. /\ N!Waiting(n) \/ row[n] = N!NoRow => received[n] <= doubts[n]
        /\ received[n] + Cardinality(Having(n)) <= doubts[n] + Cardinality(Senders)
        /\ row[n].is = "delivered" => received[n] > 0
        /\ received[n] \in Nat /\ doubts[n] \in Nat
    BY DEF NoteInv, N!TypeOK
  <2>2. Cardinality(Having(n)) \in Nat /\ Cardinality(Senders) \in Nat
    <3>1. Having(n) \in SUBSET Senders
      BY DEF Having
    <3>2. QED
      BY <3>1, SendersAreCounted
  <2>3. Cardinality(Having(n)') = 0
    BY <1>4, FS_EmptySet
  <2>4. /\ received'[n] = received[n] + Cardinality(Took(n)) /\ Cardinality(Took(n)) \in Nat
        /\ doubts'[n] = doubts[n] + Cardinality(Took(n))
    BY <1>6, <1>7
  <2>5. N!Waiting(n)' <=> N!Waiting(n)
    BY <1>2 DEF N!Waiting
  <2>6. QED
    BY <1>2, <2>1, <2>2, <2>3, <2>4, <2>5
<1>11. QED
  BY <1>2, <1>9, <1>10 DEF NoteInv

LEMMA NoteNext == NoteInv /\ N!Next => NoteInv'
<1> SUFFICES ASSUME NoteInv, N!Next PROVE NoteInv'
  OBVIOUS
<1>1. ASSUME NEW s \in Senders, N!SelectAll(s) \/ \E to \in N!Recipients : N!SelectOf(s, to)
      PROVE  NoteInv'
  BY <1>1, NoteSelect DEF N!SelectAll, N!SelectOf
<1>2. QED
  BY <1>1, NoteWrites, NoteAnswer, NoteCrash DEF N!Next

LEMMA NoteKept == NoteInv /\ UNCHANGED notificationVars => NoteInv'
<1> SUFFICES ASSUME NoteInv, UNCHANGED notificationVars PROVE NoteInv'
  OBVIOUS
<1>1. UNCHANGED <<row, batch, received, doubts>> /\ N!TypeOK'
  BY DEF notificationVars, NoteInv, N!TypeOK
<1>2. QED
  BY <1>1, NoteRows DEF N!Waiting

(* For any number of notifications, calls and selected rows, and whatever    *)
(* people do with the rows meanwhile: a message is repeated only for an      *)
(* answer that was lost or a call that overlapped, and what is marked as     *)
(* delivered was taken by the gateway.                                       *)
THEOREM Repeats == SpecAll => []DeliveredForAReason
<1>1. InitAll => NoteInv
  BY NoteInit DEF InitAll
<1>2. NoteInv /\ [NextAll]_allVars => NoteInv'
  BY NoteNext, NoteKept DEF NextAll, allVars
<1>3. NoteInv => DeliveredForAReason
  <2> SUFFICES ASSUME NoteInv PROVE N!RepeatedForAReason /\ N!MarkedIsReceived
    BY DEF DeliveredForAReason, N!DeliveredForAReason
  <2>1. ASSUME NEW n \in N!Ids
        PROVE  received[n] <= N!Cardinality(Senders) + doubts[n]
    <3>1. Having(n) \in SUBSET Senders
      BY DEF Having
    <3>2. Cardinality(Having(n)) \in Nat /\ Cardinality(Senders) \in Nat
      BY <3>1, SendersAreCounted
    <3>3. /\ received[n] \in Nat /\ doubts[n] \in Nat
          /\ received[n] + Cardinality(Having(n)) <= doubts[n] + Cardinality(Senders)
      BY DEF NoteInv, N!TypeOK
    <3>4. received[n] <= Cardinality(Senders) + doubts[n]
      BY <3>2, <3>3
    <3>5. QED
      BY <3>4, SameCardinality
  <2>2. QED
    BY <2>1 DEF N!RepeatedForAReason, N!MarkedIsReceived, NoteInv
<1>4. QED
  BY <1>1, <1>2, <1>3, PTL DEF SpecAll

--------------------------------------------------------------------------------
(* The scheduler, and the types of all four. *)

BP == INSTANCE TaskBoardProofs WITH row <- taskRow

(* A tick that awaits does so for one of the jobs. *)
TickInv ==
  /\ S!TypeOK
  /\ \A i \in Ticks : tick[i].awaits => tick[i].at \in 1..2

LEMMA TwoInOrder == DOMAIN TwoJobs = 1..2 /\ Len(TwoJobs) = 2 /\ S!Jobs = {"a", "b"}
                    /\ \A k \in 1..2 : TwoJobs[k] \in {"a", "b"}
<1>1. DOMAIN TwoJobs = 1..2 /\ Len(TwoJobs) = 2 /\ TwoJobs[1] = "a" /\ TwoJobs[2] = "b"
  BY DEF TwoJobs
<1>2. \A k \in 1..2 : k = 1 \/ k = 2
  OBVIOUS
<1>3. 1 \in 1..2 /\ 2 \in 1..2
  OBVIOUS
<1>4. S!Jobs = {"a", "b"}
  BY <1>1, <1>2, <1>3 DEF S!Jobs
<1>5. QED
  BY <1>1, <1>2, <1>4

TickKind == [age : Nat, at : 0..3, awaits : BOOLEAN]

(* What a tick becomes when it grows older or goes on. *)
LEMMA TickOlder ==
  ASSUME NEW r \in TickKind
  PROVE  /\ [r EXCEPT !.age = r.age + 1] \in TickKind
         /\ [r EXCEPT !.age = r.age + 1].awaits = r.awaits
         /\ [r EXCEPT !.age = r.age + 1].at = r.at
BY DEF TickKind

LEMMA TickOnward ==
  ASSUME NEW r \in TickKind, NEW place \in 0..3
  PROVE  [r EXCEPT !.at = place] \in TickKind /\ [r EXCEPT !.at = place].awaits = r.awaits
BY DEF TickKind

LEMMA TickAwaits ==
  ASSUME NEW r \in TickKind, NEW flag \in BOOLEAN
  PROVE  /\ [r EXCEPT !.awaits = flag] \in TickKind
         /\ [r EXCEPT !.awaits = flag].awaits = flag /\ [r EXCEPT !.awaits = flag].at = r.at
BY DEF TickKind

LEMMA ClockTypes ==
  S!TypeOK <=> /\ clock \in BOOLEAN /\ overdue \in [S!Jobs -> Int]
               /\ running \in [S!Jobs -> BOOLEAN] /\ enabled \in [S!Jobs -> BOOLEAN]
               /\ tick \in [Ticks -> TickKind] /\ changes \in 0..MaxChanges
<1>1. Len(TwoJobs) + 1 = 3
  BY TwoInOrder
<1>2. QED
  BY <1>1 DEF S!TypeOK, TickKind

LEMMA ClockInit == S!Init => TickInv
<1> SUFFICES ASSUME S!Init PROVE TickInv
  OBVIOUS
<1>1. overdue \in [S!Jobs -> Int]
  BY TwoInOrder DEF S!Init, S!AtStart, FirstRuns
<1>2. S!NoTick \in TickKind /\ ~S!NoTick.awaits
  BY DEF S!NoTick, TickKind
<1>3. tick \in [Ticks -> TickKind] /\ \A i \in Ticks : ~tick[i].awaits
  BY <1>2 DEF S!Init
<1>4. changes \in 0..MaxChanges
  BY BoundsAreNumbers DEF S!Init
<1>5. running \in [S!Jobs -> BOOLEAN] /\ enabled \in [S!Jobs -> BOOLEAN] /\ clock \in BOOLEAN
  BY DEF S!Init
<1>6. S!TypeOK <=> /\ clock \in BOOLEAN /\ overdue \in [S!Jobs -> Int]
                   /\ running \in [S!Jobs -> BOOLEAN] /\ enabled \in [S!Jobs -> BOOLEAN]
                   /\ tick \in [Ticks -> TickKind] /\ changes \in 0..MaxChanges
  BY ClockTypes
<1>7. QED
  BY <1>1, <1>3, <1>4, <1>5, <1>6 DEF TickInv

LEMMA ClockNext == TickInv /\ S!Next => TickInv'
<1> SUFFICES ASSUME TickInv, S!Next PROVE TickInv'
  OBVIOUS
<1>1. /\ tick \in [Ticks -> TickKind] /\ overdue \in [S!Jobs -> Int]
      /\ running \in [S!Jobs -> BOOLEAN] /\ enabled \in [S!Jobs -> BOOLEAN]
      /\ clock \in BOOLEAN /\ changes \in 0..MaxChanges
      /\ \A i \in Ticks : tick[i].awaits => tick[i].at \in 1..2
  BY ClockTypes DEF TickInv
<1>2. \A i \in Ticks : tick[i].age \in Nat /\ tick[i].at \in 0..3 /\ tick[i].awaits \in BOOLEAN
  BY <1>1 DEF TickKind
<1>3. S!NoTick \in TickKind /\ ~S!NoTick.awaits
  BY DEF S!NoTick, TickKind
<1>4. S!AtStart \in [S!Jobs -> Int]
  BY TwoInOrder DEF S!AtStart, FirstRuns
<1>5. ASSUME tick' \in [Ticks -> TickKind], overdue' \in [S!Jobs -> Int],
             running' \in [S!Jobs -> BOOLEAN], enabled' \in [S!Jobs -> BOOLEAN],
             clock' \in BOOLEAN, changes' \in 0..MaxChanges,
             \A i \in Ticks : tick'[i].awaits => tick'[i].at \in 1..2
      PROVE  TickInv'
  <2>1. TwoJobs' = TwoJobs /\ Len(TwoJobs) + 1 = 3 /\ S!Jobs' = S!Jobs
    BY TwoInOrder DEF TwoJobs, S!Jobs
  <2>2. QED
    BY <1>5, <2>1 DEF TickInv, S!TypeOK, TickKind
(* One tick changes, to a record that is a tick. *)
<1>6. ASSUME NEW i \in Ticks, NEW new \in TickKind, tick' = [tick EXCEPT ![i] = new],
             new.awaits => new.at \in 1..2
      PROVE  tick' \in [Ticks -> TickKind]
             /\ \A o \in Ticks : tick'[o].awaits => tick'[o].at \in 1..2
  BY <1>1, <1>6
<1>7. ASSUME NEW i \in Ticks, S!Step(i) PROVE TickInv'
  <2>1. CASE S!Fire(i)
    <3> DEFINE fresh == [age |-> 0, at |-> 1, awaits |-> FALSE]
               Older(o) == [tick[o] EXCEPT !.age = tick[o].age + 1]
    <3>1. \A o \in Ticks : tick'[o] = fresh \/ tick'[o] = tick[o] \/ tick'[o] = Older(o)
      BY <2>1 DEF S!Fire
    <3>2. fresh \in TickKind /\ ~fresh.awaits
      BY DEF TickKind
    <3>3. \A o \in Ticks : Older(o) \in TickKind
                             /\ Older(o).awaits = tick[o].awaits /\ Older(o).at = tick[o].at
      <4> TAKE o \in Ticks
      <4>1. tick[o] \in TickKind
        BY <1>1
      <4>2. QED
        BY <4>1, TickOlder
    <3> HIDE DEF fresh, Older
    <3>4. \A o \in Ticks : tick'[o] \in TickKind /\ (tick'[o].awaits => tick'[o].at \in 1..2)
      BY <1>1, <3>1, <3>2, <3>3
    <3>5. tick' \in [Ticks -> TickKind]
      <4>1. tick' = [o \in Ticks |-> tick'[o]]
        BY <2>1 DEF S!Fire
      <4>2. QED
        BY <3>4, <4>1
    <3>6. overdue' \in [S!Jobs -> Int]
      BY <1>1, <2>1 DEF S!Fire
    <3>7. QED
      BY <1>1, <1>5, <2>1, <3>4, <3>5, <3>6 DEF S!Fire
  <2>2. CASE S!Skip(i)
    <3>1. tick[i].at \in 1..2 /\ ~tick[i].awaits /\ S!Place(i) \in 0..3
      BY <1>2, <2>2, TwoInOrder DEF S!Skip, S!Looking, S!Place
    <3> DEFINE new == [tick[i] EXCEPT !.at = S!Place(i)]
    <3>2. new \in TickKind /\ ~new.awaits
      <4>1. tick[i] \in TickKind
        BY <1>1
      <4>2. QED
        BY <3>1, <4>1, TickOnward
    <3>3. tick' = [tick EXCEPT ![i] = new]
      BY <2>2 DEF S!Skip
    <3> HIDE DEF new
    <3>4. QED
      BY <1>1, <1>5, <1>6, <2>2, <3>2, <3>3 DEF S!Skip
  <2>3. CASE S!Start(i)
    <3>1. tick[i].at \in 1..2
      BY <2>3, TwoInOrder DEF S!Start, S!Looking
    <3> DEFINE new == [tick[i] EXCEPT !.awaits = TRUE]
    <3>2. new \in TickKind /\ new.at \in 1..2
      <4>1. tick[i] \in TickKind
        BY <1>1
      <4>2. QED
        BY <3>1, <4>1, TickAwaits
    <3>3. tick' = [tick EXCEPT ![i] = new] /\ running' = [running EXCEPT ![S!JobOf(i)] = TRUE]
      BY <2>3 DEF S!Start
    <3>4. running' \in [S!Jobs -> BOOLEAN]
      BY <1>1, <3>3
    <3> HIDE DEF new
    <3>5. QED
      BY <1>1, <1>5, <1>6, <2>3, <3>2, <3>3, <3>4 DEF S!Start
  <2>4. CASE S!End(i)
    <3>1. tick[i].at \in 1..2 /\ S!Place(i) \in 0..3
      BY <1>1, <2>4 DEF S!End, S!Place
    <3> DEFINE gone == [tick[i] EXCEPT !.awaits = FALSE]
               new == [gone EXCEPT !.at = S!Place(i)]
    <3>2. gone \in TickKind /\ ~gone.awaits
      <4>1. tick[i] \in TickKind
        BY <1>1
      <4>2. QED
        BY <3>1, <4>1, TickAwaits
    <3>3. tick' = [tick EXCEPT ![i] = new]
      BY <2>4 DEF S!End
    <3> HIDE DEF gone
    <3>4. new \in TickKind /\ ~new.awaits
      BY <3>1, <3>2, TickOnward
    <3>5. running' \in [S!Jobs -> BOOLEAN]
      BY <1>1, <2>4 DEF S!End
    <3>6. overdue' \in [S!Jobs -> Int]
      <4>1. S!JobOf(i) \in {"a", "b"}
        BY <3>1, TwoInOrder DEF S!JobOf
      <4>2. Intervals[S!JobOf(i)] \in Int
        BY <4>1 DEF Intervals
      <4>3. tick[i].age - Intervals[S!JobOf(i)] \in Int
        BY <1>2, <4>2
      <4>4. overdue' = [overdue EXCEPT ![S!JobOf(i)] = tick[i].age - Intervals[S!JobOf(i)]]
        BY <2>4 DEF S!End, S!NextRunAfter
      <4>5. QED
        BY <1>1, <4>3, <4>4
    <3> HIDE DEF new
    <3>7. QED
      BY <1>1, <1>5, <1>6, <2>4, <3>3, <3>4, <3>5, <3>6 DEF S!End
  <2>5. CASE S!Finish(i)
    BY <1>1, <1>3, <1>5, <1>6, <2>5 DEF S!Finish
  <2>6. QED
    BY <1>7, <2>1, <2>2, <2>3, <2>4, <2>5 DEF S!Step
<1>8. S!Change => changes' \in 0..MaxChanges
  BY <1>1, BoundsAreNumbers DEF S!Change
<1>9. ASSUME NEW j \in S!Jobs, S!SwitchSetting(j) PROVE TickInv'
  <2>1. enabled' \in [S!Jobs -> BOOLEAN]
    BY <1>1, <1>9 DEF S!SwitchSetting
  <2>2. QED
    BY <1>1, <1>5, <1>8, <1>9, <2>1 DEF S!SwitchSetting
<1>10. CASE S!initScheduler
  <2>1. running' \in [S!Jobs -> BOOLEAN]
    BY <1>10 DEF S!initScheduler
  <2>2. QED
    BY <1>1, <1>4, <1>5, <1>10, <2>1 DEF S!initScheduler
<1>11. CASE S!Stop
  <2>1. running' \in [S!Jobs -> BOOLEAN]
    BY <1>11 DEF S!Stop
  <2>2. tick' \in [Ticks -> TickKind] /\ \A i \in Ticks : ~tick'[i].awaits
    BY <1>3, <1>11 DEF S!Stop
  <2>3. QED
    BY <1>1, <1>4, <1>5, <1>8, <1>11, <2>1, <2>2 DEF S!Stop
<1>12. QED
  BY <1>7, <1>9, <1>10, <1>11 DEF S!Next

LEMMA ClockKept == TickInv /\ UNCHANGED schedulerVars => TickInv'
<1>1. S!Jobs' = S!Jobs /\ TwoJobs' = TwoJobs
  BY DEF S!Jobs, TwoJobs
<1>2. QED
  BY <1>1 DEF TickInv, S!TypeOK, schedulerVars

(* The board, by its own lemmas. *)
LEMMA BoardKept == BP!BoardInv /\ UNCHANGED boardVars => BP!BoardInv'
<1> SUFFICES ASSUME BP!BoardInv, UNCHANGED boardVars PROVE BP!BoardInv'
  OBVIOUS
<1>1. UNCHANGED BP!vars
  BY DEF boardVars, BP!vars, BP!server, BP!channel, BP!moving
<1>2. QED
  BY <1>1, BP!BoardNext

LEMMA SameBoard ==
  /\ B!Parameters <=> BP!Parameters
  /\ B!Init <=> BP!Init
  /\ B!Next <=> BP!Next
  /\ B!TypeOK <=> BP!TypeOK
BY DEF B!server, BP!server, B!channel, BP!channel, B!moving, BP!moving, B!vars, BP!vars,
       B!Absent, BP!Absent, B!Parameters, BP!Parameters, B!NoMove, BP!NoMove, B!NoFetch,
       BP!NoFetch, B!Asked, BP!Asked, B!Rows, BP!Rows, B!Events, BP!Events, B!TypeOK,
       BP!TypeOK, B!Init, BP!Init, B!Present, BP!Present, B!Coming, BP!Coming, B!Shown,
       BP!Shown, B!Under, BP!Under, B!Moved, BP!Moved, B!Broadcast, BP!Broadcast, B!Told,
       BP!Told, B!Write, BP!Write, B!CreateTask, BP!CreateTask, B!ChangeTask, BP!ChangeTask,
       B!DeleteTask, BP!DeleteTask, B!Attach, BP!Attach, B!OnOpen, BP!OnOpen, B!Break,
       BP!Break, B!OnError, BP!OnError, B!Retry, BP!Retry, B!updateTask, BP!updateTask,
       B!After, BP!After, B!OnMessage, BP!OnMessage, B!Mount, BP!Mount, B!fetchData,
       BP!fetchData, B!Paused, BP!Paused, B!Poll, BP!Poll, B!Refresh, BP!Refresh, B!Served,
       BP!Served, B!FetchFails, BP!FetchFails, B!Replaced, BP!Replaced, B!Fetched,
       BP!Fetched, B!Drag, BP!Drag, B!Optimistic, BP!Optimistic, B!Drop, BP!Drop, B!Checked,
       BP!Checked, B!PutApplied, BP!PutApplied, B!OthersLeft, BP!OthersLeft, B!Accepted,
       BP!Accepted, B!TakenBack, BP!TakenBack, B!Next, BP!Next

AllInv == TypeOK /\ TickInv /\ NoteInv /\ BP!BoardInv

(* Every operation of the four keeps rows, copies, ticks, batches, events    *)
(* and answers in their types.                                               *)
THEOREM PollTypes == SpecAll => []TypesOK
<1>1. InitAll => AllInv
  <2> SUFFICES ASSUME InitAll PROVE AllInv
    OBVIOUS
  <2>1. TypeOK /\ TickInv /\ NoteInv
    BY InitTypes, ClockInit, NoteInit DEF InitAll
  <2>2. BP!BoardInv
    BY SameBoard, BoardParameters, BP!BoardInit DEF InitAll
  <2>3. QED
    BY <2>1, <2>2 DEF AllInv
<1>2. AllInv /\ [NextAll]_allVars => AllInv'
  <2> SUFFICES ASSUME AllInv, [NextAll]_allVars PROVE AllInv'
    OBVIOUS
  <2>1. Next \/ UNCHANGED pipelineVars
    BY DEF NextAll, allVars
  <2>2. S!Next \/ UNCHANGED schedulerVars
    BY DEF NextAll, allVars
  <2>3. N!Next \/ UNCHANGED notificationVars
    BY DEF NextAll, allVars
  <2>4. BP!Next \/ UNCHANGED boardVars
    BY SameBoard DEF NextAll, allVars
  <2>5. TypeOK'
    <3>1. [Next]_vars
      BY <2>1 DEF pipelineVars, vars, rows
    <3>2. QED
      BY <3>1, TypeStep DEF AllInv
  <2>6. TickInv' /\ NoteInv'
    BY <2>2, <2>3, ClockNext, ClockKept, NoteNext, NoteKept DEF AllInv
  <2>7. BP!BoardInv'
    BY <2>4, BP!BoardNext, BoardKept DEF AllInv
  <2>8. QED
    BY <2>5, <2>6, <2>7 DEF AllInv
<1>3. AllInv => TypesOK
  BY SameBoard DEF AllInv, TypesOK, TickInv, NoteInv, BP!BoardInv
<1>4. QED
  BY <1>1, <1>2, <1>3, PTL DEF SpecAll
================================================================================
