-------------------------- MODULE TaskLifecycleProofs --------------------------
(****************************************************************************)
(* Theorems about TaskLifecycle, for every value of its constants.          *)
(****************************************************************************)
EXTENDS TaskLifecycle, FiniteSetTheorems, TLAPS

USE DEF Ages, StatusColumn

--------------------------------------------------------------------------------
(* Type correctness. *)

(* An UPDATE keeps the type of a column, whether or not the row exists. *)
LEMMA ColumnType ==
  ASSUME NEW S, NEW f \in [Tasks -> S], NEW t, NEW value, t \in Tasks => value \in S
  PROVE  Column(f, t, value) \in [Tasks -> S]
BY DEF Column

RowType ==
  /\ status \in [Tasks -> StatusColumn \cup NoRow]
  /\ attempts \in [Tasks -> Nat]
  /\ age \in [Tasks -> Ages]

(* The shared update of status, attempts and age keeps their types. *)
LEMMA SetRowSinceType ==
  ASSUME TypeOK, NEW t, NEW s \in StatusColumn, NEW n, t \in Tasks => n \in Nat,
         NEW since \in Ages, SetRowSince(t, s, n, since)
  PROVE  RowType'
<1>1. status \in [Tasks -> StatusColumn \cup NoRow] /\ attempts \in [Tasks -> Nat]
      /\ age \in [Tasks -> Ages]
  BY DEF TypeOK
<1>2. status' = Column(status, t, s) /\ attempts' = Column(attempts, t, n)
      /\ age' = Column(age, t, since)
  BY DEF SetRowSince
<1>3. status' \in [Tasks -> StatusColumn \cup NoRow]
  BY <1>1, <1>2, ColumnType
<1>4. attempts' \in [Tasks -> Nat]
  BY <1>1, <1>2, ColumnType
<1>5. age' \in [Tasks -> Ages]
  BY <1>1, <1>2, ColumnType
<1> QED BY <1>3, <1>4, <1>5 DEF RowType

LEMMA SetRowType ==
  ASSUME TypeOK, NEW t, NEW s \in StatusColumn, NEW n, t \in Tasks => n \in Nat, SetRow(t, s, n)
  PROVE  RowType'
BY SetRowSinceType DEF SetRow

LEMMA SetStatusType ==
  ASSUME TypeOK, NEW t, NEW s \in StatusColumn, SetStatus(t, s)
  PROVE  RowType'
BY SetRowType DEF SetStatus, TypeOK

(* The outcomes of a failure, and the counter they come with. *)
LEMMA RetriedType ==
  ASSUME NEW t, NEW limit
  PROVE  Retried(t, limit) \in StatusColumn
BY DEF Retried, Statuses

LEMMA CountedType ==
  ASSUME NEW n \in Nat
  PROVE  Counted(n) \in Nat
BY DEF Counted

LEMMA InitType == Init => TypeOK
<1> SUFFICES ASSUME Init PROVE TypeOK
  OBVIOUS
<1>1. status \in [Tasks -> StatusColumn \cup NoRow]
  BY DEF Init, NormalizeTaskCreateStatus, Statuses, NoRow
<1>2. assignee \in [Tasks -> Assignees]
  BY SetsAssumption DEF Init, Assignees
<1>3. QED
  BY <1>1, <1>2, SetsAssumption DEF Init, TypeOK, AsyncStates, Calls

(* The routing job, the dispatcher and the requeue job. *)
LEMMA AutomationType ==
  ASSUME TypeOK, RouteInbox \/ RequeueStale
  PROVE  TypeOK'
<1>1. CASE RouteInbox
  <2>0. PICK S \in Selections(InboxTasks, RouteBatch) :
          \E pick \in [S -> Routable] :
            /\ status' = [t \in Tasks |-> IF t \in S THEN "assigned" ELSE status[t]]
            /\ assignee' = [t \in Tasks |-> IF t \in S THEN pick[t] ELSE assignee[t]]
            /\ age' = [t \in Tasks |-> IF t \in S THEN "fresh" ELSE age[t]]
    BY <1>1 DEF RouteInbox
  <2>1. PICK pick \in [S -> Routable] :
          /\ status' = [t \in Tasks |-> IF t \in S THEN "assigned" ELSE status[t]]
          /\ assignee' = [t \in Tasks |-> IF t \in S THEN pick[t] ELSE assignee[t]]
          /\ age' = [t \in Tasks |-> IF t \in S THEN "fresh" ELSE age[t]]
    BY <2>0
  <2>2. \A t \in S : pick[t] \in Agents
    BY SetsAssumption DEF Routable
  <2>3. status' \in [Tasks -> StatusColumn \cup NoRow]
    BY <2>1 DEF TypeOK, Statuses
  <2>4. assignee' \in [Tasks -> Assignees]
    BY <2>1, <2>2 DEF TypeOK, Assignees
  <2>5. age' \in [Tasks -> Ages]
    BY <2>1 DEF TypeOK
  <2> QED BY <1>1, <2>3, <2>4, <2>5
          DEF RouteInbox, TypeOK, metaVars, reviewVars, sessionVars, dispatchVars, world
<1>2. CASE RequeueStale
  <2>1. status' \in [Tasks -> StatusColumn \cup NoRow]
    BY <1>2, RetriedType DEF RequeueStale, TypeOK
  <2>2. attempts' \in [Tasks -> Nat]
    BY <1>2, CountedType DEF RequeueStale, TypeOK
  <2>3. age' \in [Tasks -> Ages]
    BY <1>2 DEF RequeueStale, TypeOK
  <2> QED BY <1>2, <2>1, <2>2, <2>3
          DEF RequeueStale, TypeOK, metaVars, reviewVars, sessionVars, dispatchVars, world
<1> QED BY <1>1, <1>2

LEMMA DispatchType ==
  ASSUME TypeOK, NEW d \in Dispatchers, DispatchStep(d)
  PROVE  TypeOK'
<1> USE DEF TypeOK, metaVars, reviewVars, world
<1>1. CASE DispatchSelect(d)
  <2>1. batch' \in [Dispatchers -> SUBSET Tasks]
    BY <1>1 DEF DispatchSelect, Selections
  <2> QED BY <1>1, <2>1 DEF DispatchSelect, rowVars
<1>2. ASSUME NEW t \in Tasks, DispatchClaim(d, t) PROVE TypeOK'
  <2>1. RowType'
    BY <1>2, SetRowSinceType DEF DispatchClaim, Statuses
  <2>2. call' \in [Dispatchers -> Calls]
    BY <1>2 DEF DispatchClaim, Calls
  <2> QED BY <1>2, <2>1, <2>2 DEF DispatchClaim, RowType
<1>3. ASSUME NEW t \in Tasks, DispatchSkip(d, t) PROVE TypeOK'
  BY <1>3 DEF DispatchSkip, rowVars
<1>4. ASSUME Release(d)
      PROVE  /\ batch' \in [Dispatchers -> SUBSET Tasks]
             /\ claimed' \in [Dispatchers -> Tasks \cup {NoTask}]
             /\ call' \in [Dispatchers -> Calls]
             /\ metaRun' \in [Dispatchers -> Runs \cup {NoRun}]
             /\ UNCHANGED <<started, reviewBatch, reviewing, snapshots>>
  BY <1>4 DEF Release, Calls
<1>5. CASE DispatchAnswered(d)
  <2>1. RowType'
    BY <1>5, SetStatusType DEF DispatchAnswered, Statuses
  <2> QED BY <1>4, <1>5, <2>1 DEF DispatchAnswered, RowType
<1>6. ASSUME NEW r \in Runs \cup {NoRun}, DispatchAccepted(d, r) PROVE TypeOK'
  <2> DEFINE t == claimed[d]
  <2>1. /\ async' = Column(async, t, AsyncState(r))
        /\ run' = Column(run, t, IF r = NoRun THEN metaRun[d] ELSE r)
        /\ target' = Column(target, t, call[d] = "session")
        /\ age' = Column(age, t, "fresh")
    BY <1>6 DEF DispatchAccepted
  <2>2. async' \in [Tasks -> AsyncStates]
    <3>1. AsyncState(r) \in AsyncStates
      BY DEF AsyncState, AsyncStates
    <3> QED BY <2>1, <3>1, ColumnType
  <2>3. run' \in [Tasks -> Runs \cup {NoRun}]
    <3>1. (IF r = NoRun THEN metaRun[d] ELSE r) \in Runs \cup {NoRun}
      OBVIOUS
    <3> HIDE DEF t
    <3> QED BY <2>1, <3>1, ColumnType
  <2>4. target' \in [Tasks -> BOOLEAN]
    <3>1. (call[d] = "session") \in BOOLEAN
      OBVIOUS
    <3> HIDE DEF t
    <3> QED BY <2>1, <3>1, ColumnType
  <2>5. age' \in [Tasks -> Ages]
    BY <2>1, ColumnType
  <2>6. runState' \in [Runs -> {"free", "active", "finished"}]
    BY <1>6 DEF DispatchAccepted
  <2> QED BY <1>4, <1>6, <2>2, <2>3, <2>4, <2>5, <2>6 DEF DispatchAccepted
<1>7. CASE DispatchFailed(d)
  <2>1. RowType'
    BY <1>7, SetRowType, RetriedType, CountedType DEF DispatchFailed
  <2> QED BY <1>4, <1>7, <2>1 DEF DispatchFailed, RowType
<1> QED BY <1>1, <1>2, <1>3, <1>5, <1>6, <1>7 DEF DispatchStep

LEMMA ReviewType ==
  ASSUME TypeOK, NEW v \in Reviewers, ReviewStep(v)
  PROVE  TypeOK'
<1> USE DEF TypeOK, metaVars, dispatchVars, world
<1>1. CASE ReviewSelect(v)
  <2>1. reviewBatch' \in [Reviewers -> SUBSET Tasks]
    BY <1>1 DEF ReviewSelect, Selections, AwaitingReview
  <2> QED BY <1>1, <2>1 DEF ReviewSelect, rowVars, reviewVars
<1>2. ASSUME NEW t \in Tasks, ReviewBegin(v, t) PROVE TypeOK'
  <2>1. RowType'
    BY <1>2, SetStatusType DEF ReviewBegin, Statuses
  <2> QED BY <1>2, <2>1 DEF ReviewBegin, RowType, reviewVars
<1>3. CASE ReviewApproved(v)
  <2>1. RowType'
    BY <1>3, SetStatusType DEF ReviewApproved, Statuses
  <2>2. verdict' \in [Tasks -> {"none", "approved", "rejected"}]
    BY <1>3, ColumnType DEF ReviewApproved
  <2> QED BY <1>3, <2>1, <2>2 DEF ReviewApproved, EndReview, RowType
<1>4. CASE ReviewRejected(v)
  <2>1. RowType'
    BY <1>4, SetRowType, RetriedType, CountedType DEF ReviewRejected
  <2>2. verdict' \in [Tasks -> {"none", "approved", "rejected"}]
    BY <1>4, ColumnType DEF ReviewRejected
  <2>3. rejections' \in [Tasks -> Nat]
    BY <1>4, ColumnType, CountedType DEF ReviewRejected
  <2> QED BY <1>4, <2>1, <2>2, <2>3 DEF ReviewRejected, EndReview, RowType
<1>5. CASE ReviewErred(v)
  <2>1. RowType'
    BY <1>5, SetStatusType DEF ReviewErred, Statuses
  <2> QED BY <1>5, <2>1 DEF ReviewErred, EndReview, RowType, reviewVars
<1> QED BY <1>1, <1>2, <1>3, <1>4, <1>5 DEF ReviewStep

LEMMA ReconcileType ==
  ASSUME TypeOK, NEW k \in Reconcilers, ReconcileStep(k)
  PROVE  TypeOK'
<1> USE DEF TypeOK, reviewVars, dispatchVars, world
<1>1. CASE ReconcileSelect(k)
  <2>1. PICK S \in SUBSET Tasks :
          snapshots' = [snapshots EXCEPT ![k] = {SnapshotOf(t) : t \in {u \in S : run[u] # NoRun}}]
    BY <1>1 DEF ReconcileSelect, Selections
  <2>2. {SnapshotOf(t) : t \in {u \in S : run[u] # NoRun}} \in SUBSET Snapshot
    BY DEF SnapshotOf, Snapshot
  <2>3. snapshots' \in [Reconcilers -> SUBSET Snapshot]
    BY <2>1, <2>2
  <2> QED BY <1>1, <2>3 DEF ReconcileSelect, rowVars, metaVars
<1>2. ASSUME NEW s \in snapshots[k], ReconcileCompleted(k, s) PROVE TypeOK'
  <2>1. s.task \in Tasks /\ s.run \in Runs /\ s.target \in BOOLEAN
    BY DEF Snapshot
  <2>2. RowType'
    BY <1>2, SetStatusType DEF ReconcileCompleted, Statuses
  <2>3. snapshots' \in [Reconcilers -> SUBSET Snapshot]
    BY <1>2 DEF ReconcileCompleted
  <2>4. /\ async' \in [Tasks -> AsyncStates]
        /\ run' \in [Tasks -> Runs \cup {NoRun}]
        /\ target' \in [Tasks -> BOOLEAN]
    BY <1>2, <2>1 DEF ReconcileCompleted, AsyncStates
  <2> QED BY <1>2, <2>2, <2>3, <2>4 DEF ReconcileCompleted, RowType
<1>3. ASSUME NEW s \in snapshots[k], ReconcilePassedOver(k, s) PROVE TypeOK'
  BY <1>3 DEF ReconcilePassedOver, rowVars, metaVars
<1> QED BY <1>1, <1>2, <1>3 DEF ReconcileStep

LEMMA WorldType ==
  ASSUME TypeOK, World \/ Polling \/ Crash
  PROVE  TypeOK'
<1> USE DEF TypeOK, metaVars, reviewVars, sessionVars, dispatchVars, world
<1>1. ASSUME NEW t \in Tasks, Stall(t) PROVE TypeOK'
  BY <1>1 DEF Stall
<1>2. ASSUME NEW a \in Registered, NEW s \in AgentStates, AgentStateChanges(a, s) PROVE TypeOK'
  BY <1>2 DEF AgentStateChanges, rowVars
<1>3. CASE ProvidersChange
  BY <1>3, SetsAssumption DEF ProvidersChange, rowVars
<1>4. ASSUME NEW r \in Runs, RunFinishes(r) PROVE TypeOK'
  BY <1>4 DEF RunFinishes, rowVars
<1>5. ASSUME NEW a \in Agents, NEW c \in Capacities, QueuePoll(a, c) PROVE TypeOK'
  <2>1. PICK t \in Tasks : /\ SetStatus(t, "in_progress")
                          /\ assignee' = [assignee EXCEPT ![t] = a]
    BY <1>5 DEF QueuePoll, Queued
  <2>2. RowType'
    BY <2>1, SetStatusType DEF Statuses
  <2> QED BY <1>5, <2>1, <2>2 DEF QueuePoll, RowType, Assignees
<1>6. CASE Crash
  BY <1>6 DEF Crash, rowVars, Calls
<1>7. ASSUME NEW d \in Dispatchers, SessionAges(d) PROVE TypeOK'
  BY <1>7 DEF SessionAges, rowVars
<1> QED BY <1>1, <1>2, <1>3, <1>4, <1>5, <1>6, <1>7 DEF World, Polling

(* The handlers. *)
LEMMA HandlerType ==
  ASSUME TypeOK, Board \/ Ungated
  PROVE  TypeOK'
<1> USE DEF TypeOK, sessionVars, dispatchVars, world
<1>1. ASSUME NEW t \in Tasks, NEW s \in Bodies \cup {Omitted},
             NEW a \in Agents \cup {Blank, Omitted}, NEW m \in {"plain", "targeted", Omitted},
             PutTask(t, s, a, m)
      PROVE  TypeOK'
  <2> DEFINE ns == NormalizeTaskUpdateStatus(status[t], s, a)
  <2>1. /\ Exists(t)
        /\ SetStatus(t, IF ns = Omitted THEN status[t] ELSE ns)
        /\ assignee' = IF a = Omitted THEN assignee ELSE [assignee EXCEPT ![t] = a]
        /\ IF m = Omitted THEN UNCHANGED metaVars
           ELSE /\ async' = [async EXCEPT ![t] = "none"]
                /\ run' = [run EXCEPT ![t] = NoRun]
                /\ target' = [target EXCEPT ![t] = m = "targeted"]
        /\ UNCHANGED <<reviewVars, sessionVars, world>>
    BY <1>1 DEF PutTask
  <2>2. status[t] \in StatusColumn
    BY <2>1 DEF Exists
  <2>3. ns = Omitted \/ ns \in StatusColumn
    BY SetsAssumption DEF NormalizeTaskUpdateStatus, Statuses
  <2>4. (IF ns = Omitted THEN status[t] ELSE ns) \in StatusColumn
    BY <2>2, <2>3
  <2>5. RowType'
    <3> HIDE DEF ns
    <3> QED BY <2>1, <2>4, SetStatusType
  <2>6. assignee' \in [Tasks -> Assignees]
    BY <2>1 DEF Assignees
  <2>7. /\ async' \in [Tasks -> AsyncStates]
        /\ run' \in [Tasks -> Runs \cup {NoRun}]
        /\ target' \in [Tasks -> BOOLEAN]
    <3>1. CASE m = Omitted
      BY <2>1, <3>1 DEF metaVars
    <3>2. CASE m # Omitted
      <4>1. (m = "targeted") \in BOOLEAN
        OBVIOUS
      <4> QED BY <2>1, <3>2, <4>1 DEF AsyncStates
    <3> QED BY <3>1, <3>2
  <2> QED BY <2>1, <2>5, <2>6, <2>7 DEF RowType, reviewVars
<1>2. ASSUME NEW S \in SUBSET Tasks, NEW wanted \in [S -> Bodies], BulkPut(S, wanted)
      PROVE  TypeOK'
  <2>1. status' \in [Tasks -> StatusColumn \cup NoRow] /\ age' \in [Tasks -> Ages]
    BY <1>2, SetsAssumption DEF BulkPut
  <2> QED BY <1>2, <2>1 DEF BulkPut, metaVars, reviewVars
<1>3. ASSUME NEW t \in Tasks, NEW a \in Registered, MentionAgent(t, a) PROVE TypeOK'
  <2>1. (IF status[t] = "inbox" THEN "assigned" ELSE status[t]) \in StatusColumn
    BY <1>3 DEF MentionAgent, Exists, Statuses
  <2>2. RowType'
    BY <1>3, <2>1, SetStatusType DEF MentionAgent
  <2>3. assignee' \in [Tasks -> Assignees]
    BY <1>3, SetsAssumption DEF MentionAgent, Assignees
  <2> QED BY <1>3, <2>2, <2>3 DEF MentionAgent, RowType, metaVars, reviewVars
<1>4. ASSUME NEW t \in Tasks, NEW reviewer, NEW v \in {"approved", "rejected"},
             PostReview(t, reviewer, v)
      PROVE  TypeOK'
  <2>1. RowType'
    BY <1>4, SetStatusType DEF PostReview, Statuses
  <2>2. verdict' \in [Tasks -> {"none", "approved", "rejected"}]
    BY <1>4 DEF PostReview
  <2> QED BY <1>4, <2>1, <2>2 DEF PostReview, RowType, metaVars
<1>5. ASSUME NEW t \in Tasks, DeleteTask(t) PROVE TypeOK'
  <2>1. status' \in [Tasks -> StatusColumn \cup NoRow]
    BY <1>5 DEF DeleteTask, NoRow
  <2> QED BY <1>5, <2>1 DEF DeleteTask, metaVars
<1>6. ASSUME NEW t \in Tasks, NEW s \in Reports, ReportTask(t, s) PROVE TypeOK'
  <2>1. status' \in [Tasks -> StatusColumn \cup NoRow]
    BY <1>6, SetsAssumption DEF ReportTask
  <2>2. async' \in [Tasks -> AsyncStates]
    BY <1>6 DEF ReportTask, AsyncStates
  <2> QED BY <1>6, <2>1, <2>2 DEF ReportTask, reviewVars
<1>7. ASSUME NEW t \in Tasks, NEW s \in Bodies \cup {Omitted},
             NEW a \in Agents \cup {Blank, Omitted}, NEW targeted \in BOOLEAN,
             CreateTask(t, s, a, targeted)
      PROVE  TypeOK'
  <2> DEFINE b == ResolveTaskAssignee(a, Coordinator)
  <2>1. b \in Assignees
    BY DEF ResolveTaskAssignee, HasAssignee, Assignees
  <2>2. NormalizeTaskCreateStatus(s, b) \in StatusColumn
    BY SetsAssumption DEF NormalizeTaskCreateStatus, Statuses
  <2>3. status' \in [Tasks -> StatusColumn \cup NoRow] /\ assignee' \in [Tasks -> Assignees]
    BY <1>7, <2>1, <2>2 DEF CreateTask
  <2> QED BY <1>7, <2>3 DEF CreateTask, reviewVars
<1> HIDE DEF TypeOK, sessionVars, dispatchVars, world
<1>8. CASE Board
  BY <1>1, <1>2, <1>3, <1>4, <1>5, <1>8 DEF Board
<1>9. CASE Ungated
  BY <1>4, <1>6, <1>7, <1>9 DEF Ungated
<1> QED BY <1>8, <1>9

LEMMA StepType == TypeOK /\ [Next]_vars => TypeOK'
<1> SUFFICES ASSUME TypeOK, [Next]_vars PROVE TypeOK'
  OBVIOUS
<1>1. CASE UNCHANGED vars
  BY <1>1 DEF TypeOK, vars, rowVars, metaVars, reviewVars, sessionVars, dispatchVars, world
<1>2. CASE Next
  BY <1>2, AutomationType, DispatchType, ReviewType, ReconcileType, WorldType, HandlerType
     DEF Next, GatedNext, EngineNext, Automation
<1> QED BY <1>1, <1>2

(* Every variable of the engine keeps its type, whoever writes the tasks: the *)
(* statuses stay in the vocabulary of validation.ts, counters are numbers,    *)
(* sessions hold tasks of the table.                                          *)
THEOREM TypeCorrect == Spec => []TypeOK
<1>1. Init => TypeOK
  BY InitType
<1>2. TypeOK /\ [Next]_vars => TypeOK'
  BY StepType
<1> QED BY <1>1, <1>2, PTL DEF Spec

--------------------------------------------------------------------------------
(* What a step does to a row: nothing where there is none, and an attempt at  *)
(* most where there is one.                                                   *)

NoLateWrite(u) ==
  ~Exists(u) => /\ status[u] = "deleted" => status'[u] = "deleted"
                /\ UNCHANGED <<verdict[u], rejections[u]>>

LeavesNothing(u) ==
  Exists(u) => status'[u] \notin NoRow \/ (verdict'[u] = "none" /\ rejections'[u] = 0)

OneAttempt(u) == attempts'[u] \in {attempts[u], attempts[u] + 1}

RowStep(u) == NoLateWrite(u) /\ LeavesNothing(u) /\ OneAttempt(u)

LEMMA ColumnAt ==
  ASSUME NEW S, NEW f \in [Tasks -> S], NEW t, NEW value, NEW u \in Tasks
  PROVE  Column(f, t, value)[u] = IF u = t /\ Exists(t) THEN value ELSE f[u]
BY DEF Column

LEMMA CountedBy ==
  ASSUME NEW n \in Nat
  PROVE  Counted(n) \in {n, n + 1}
BY DEF Counted

LEMMA RealStatus == \A s \in StatusColumn : s \notin NoRow
BY DEF Statuses, NoRow

LEMMA SetRowSinceStep ==
  ASSUME TypeOK, NEW t, NEW s \in StatusColumn, NEW n, NEW u \in Tasks, NEW since,
         u = t => n \in {attempts[t], attempts[t] + 1}, SetRowSince(t, s, n, since)
  PROVE  /\ ~Exists(u) => status'[u] = status[u]
         /\ Exists(u) => status'[u] \notin NoRow
         /\ OneAttempt(u)
<1>1. status \in [Tasks -> StatusColumn \cup NoRow] /\ attempts \in [Tasks -> Nat]
  BY DEF TypeOK
<1>2. /\ status'[u] = IF u = t /\ Exists(t) THEN s ELSE status[u]
      /\ attempts'[u] = IF u = t /\ Exists(t) THEN n ELSE attempts[u]
  BY <1>1, ColumnAt DEF SetRowSince
<1> QED BY <1>2, RealStatus DEF Exists, OneAttempt

LEMMA SetRowStep ==
  ASSUME TypeOK, NEW t, NEW s \in StatusColumn, NEW n, NEW u \in Tasks,
         u = t => n \in {attempts[t], attempts[t] + 1}, SetRow(t, s, n)
  PROVE  /\ ~Exists(u) => status'[u] = status[u]
         /\ Exists(u) => status'[u] \notin NoRow
         /\ OneAttempt(u)
BY SetRowSinceStep DEF SetRow

LEMMA SetStatusStep ==
  ASSUME TypeOK, NEW t, NEW s \in StatusColumn, NEW u \in Tasks, SetStatus(t, s)
  PROVE  /\ ~Exists(u) => status'[u] = status[u]
         /\ Exists(u) => status'[u] \notin NoRow
         /\ OneAttempt(u)
BY SetRowStep DEF SetStatus

(* A step that writes no reviews and keeps every row that exists. *)
LEMMA RowsKept ==
  ASSUME TypeOK, NEW u \in Tasks, UNCHANGED reviewVars,
         ~Exists(u) => status'[u] = status[u], Exists(u) => status'[u] \notin NoRow,
         OneAttempt(u)
  PROVE  RowStep(u)
BY DEF RowStep, NoLateWrite, LeavesNothing, reviewVars

LEMMA RowsUntouched ==
  ASSUME TypeOK, NEW u \in Tasks, UNCHANGED <<status, attempts, reviewVars>>
  PROVE  RowStep(u)
BY DEF RowStep, NoLateWrite, LeavesNothing, OneAttempt, reviewVars, Exists

LEMMA AutomationRows ==
  ASSUME TypeOK, NEW u \in Tasks, Automation
  PROVE  RowStep(u)
<1>1. CASE RouteInbox
  <2>1. PICK S \in SUBSET InboxTasks :
          /\ status' = [t \in Tasks |-> IF t \in S THEN "assigned" ELSE status[t]]
          /\ UNCHANGED <<attempts, reviewVars>>
    BY <1>1 DEF RouteInbox, Selections
  <2>2. OneAttempt(u)
    BY <2>1 DEF OneAttempt
  <2> QED BY <2>1, <2>2, RowsKept DEF InboxTasks, Exists, NoRow
<1>2. ASSUME NEW d \in Dispatchers, DispatchStep(d) PROVE RowStep(u)
  <2>1. CASE DispatchSelect(d)
    BY <2>1, RowsUntouched DEF DispatchSelect, rowVars
  <2>2. ASSUME NEW t \in Tasks, DispatchClaim(d, t) PROVE RowStep(u)
    BY <2>2, SetRowSinceStep, RowsKept DEF DispatchClaim, Statuses
  <2>3. ASSUME NEW t \in Tasks, DispatchSkip(d, t) PROVE RowStep(u)
    BY <2>3, RowsUntouched DEF DispatchSkip, rowVars
  <2>4. CASE DispatchAnswered(d)
    BY <2>4, SetStatusStep, RowsKept DEF DispatchAnswered, Statuses
  <2>5. ASSUME NEW r \in Runs \cup {NoRun}, DispatchAccepted(d, r) PROVE RowStep(u)
    BY <2>5, RowsUntouched DEF DispatchAccepted
  <2>6. CASE DispatchFailed(d)
    <3>1. /\ SetRow(claimed[d], Retried(claimed[d], DispatchRetries), Counted(attempts[claimed[d]]))
          /\ UNCHANGED reviewVars
      BY <2>6 DEF DispatchFailed
    <3>2. u = claimed[d] => Counted(attempts[claimed[d]])
                              \in {attempts[claimed[d]], attempts[claimed[d]] + 1}
      BY CountedBy DEF TypeOK
    <3> QED BY <3>1, <3>2, SetRowStep, RowsKept, RetriedType
  <2> QED BY <1>2, <2>1, <2>2, <2>3, <2>4, <2>5, <2>6 DEF DispatchStep
<1>3. ASSUME NEW v \in Reviewers, ReviewStep(v) PROVE RowStep(u)
  <2>1. CASE ReviewSelect(v)
    BY <2>1, RowsUntouched DEF ReviewSelect, rowVars
  <2>2. ASSUME NEW t \in Tasks, ReviewBegin(v, t) PROVE RowStep(u)
    BY <2>2, SetStatusStep, RowsKept DEF ReviewBegin, Statuses
  <2>3. CASE ReviewApproved(v)
    <3>0. verdict' = Column(verdict, reviewing[v], "approved") /\ verdict \in [Tasks -> {"none", "approved", "rejected"}]
      BY <2>3 DEF ReviewApproved, TypeOK
    <3>1. ~Exists(u) => verdict'[u] = verdict[u]
      BY <3>0 DEF Column, Exists
    <3>2. /\ ~Exists(u) => status'[u] = status[u]
          /\ Exists(u) => status'[u] \notin NoRow
          /\ OneAttempt(u)
      BY <2>3, SetStatusStep DEF ReviewApproved, Statuses
    <3> QED BY <2>3, <3>1, <3>2 DEF ReviewApproved, RowStep, NoLateWrite, LeavesNothing
  <2>4. CASE ReviewRejected(v)
    <3> DEFINE t == reviewing[v]
    <3>1. /\ SetRow(t, Retried(t, ReviewRetries), Counted(attempts[t]))
          /\ verdict' = Column(verdict, t, "rejected")
          /\ rejections' = Column(rejections, t, Counted(rejections[t]))
      BY <2>4 DEF ReviewRejected
    <3> HIDE DEF t
    <3>2. ~Exists(u) => UNCHANGED <<verdict[u], rejections[u]>>
      <4>1. verdict \in [Tasks -> {"none", "approved", "rejected"}] /\ rejections \in [Tasks -> Nat]
        BY DEF TypeOK
      <4> QED BY <3>1, <4>1 DEF Column, Exists
    <3>3. u = t => Counted(attempts[t]) \in {attempts[t], attempts[t] + 1}
      BY CountedBy DEF TypeOK
    <3>4. /\ ~Exists(u) => status'[u] = status[u]
          /\ Exists(u) => status'[u] \notin NoRow
          /\ OneAttempt(u)
      BY <3>1, <3>3, SetRowStep, RetriedType
    <3> QED BY <3>2, <3>4 DEF RowStep, NoLateWrite, LeavesNothing
  <2>5. CASE ReviewErred(v)
    BY <2>5, SetStatusStep, RowsKept DEF ReviewErred, Statuses
  <2> QED BY <1>3, <2>1, <2>2, <2>3, <2>4, <2>5 DEF ReviewStep
<1>4. ASSUME NEW k \in Reconcilers, ReconcileStep(k) PROVE RowStep(u)
  <2>1. CASE ReconcileSelect(k)
    BY <2>1, RowsUntouched DEF ReconcileSelect, rowVars
  <2>2. ASSUME NEW s \in snapshots[k], ReconcileCompleted(k, s) PROVE RowStep(u)
    BY <2>2, SetStatusStep, RowsKept DEF ReconcileCompleted, Statuses
  <2>3. ASSUME NEW s \in snapshots[k], ReconcilePassedOver(k, s) PROVE RowStep(u)
    BY <2>3, RowsUntouched DEF ReconcilePassedOver, rowVars
  <2> QED BY <1>4, <2>1, <2>2, <2>3 DEF ReconcileStep
<1>5. CASE RequeueStale
  <2>1. status'[u] = IF u \in StaleTasks THEN Retried(u, DispatchRetries) ELSE status[u]
    BY <1>5 DEF RequeueStale
  <2>2. OneAttempt(u)
    BY <1>5, CountedBy DEF RequeueStale, OneAttempt, TypeOK
  <2>3. u \in StaleTasks => Exists(u)
    BY DEF StaleTasks, Exists, NoRow
  <2> QED BY <1>5, <2>1, <2>2, <2>3, RowsKept, RetriedType, RealStatus DEF RequeueStale, Exists
<1> QED BY <1>1, <1>2, <1>3, <1>4, <1>5 DEF Automation

LEMMA WorldRows ==
  ASSUME TypeOK, NEW u \in Tasks, World \/ Polling \/ Crash
  PROVE  RowStep(u)
<1>1. ASSUME NEW t \in Tasks, Stall(t) PROVE RowStep(u)
  BY <1>1, RowsUntouched DEF Stall
<1>2. ASSUME NEW a \in Registered, NEW s \in AgentStates, AgentStateChanges(a, s)
      PROVE  RowStep(u)
  BY <1>2, RowsUntouched DEF AgentStateChanges, rowVars
<1>3. CASE ProvidersChange
  BY <1>3, RowsUntouched DEF ProvidersChange, rowVars
<1>4. ASSUME NEW r \in Runs, RunFinishes(r) PROVE RowStep(u)
  BY <1>4, RowsUntouched DEF RunFinishes, rowVars
<1>5. ASSUME NEW a \in Agents, NEW c \in Capacities, QueuePoll(a, c) PROVE RowStep(u)
  BY <1>5, SetStatusStep, RowsKept DEF QueuePoll, Statuses
<1>6. CASE Crash
  BY <1>6, RowsUntouched DEF Crash, rowVars
<1>7. ASSUME NEW d \in Dispatchers, SessionAges(d) PROVE RowStep(u)
  BY <1>7, RowsUntouched DEF SessionAges, rowVars
<1> QED BY <1>1, <1>2, <1>3, <1>4, <1>5, <1>6, <1>7 DEF World, Polling

(* PUT /api/tasks/:id always finds a status of the vocabulary to write. *)
LEMMA PutTaskWrites ==
  ASSUME TypeOK, NEW t \in Tasks, NEW s \in Bodies \cup {Omitted},
         NEW a \in Agents \cup {Blank, Omitted}, NEW m, PutTask(t, s, a, m)
  PROVE  \E w \in StatusColumn :
           /\ SetStatus(t, w)
           /\ w = "done" => HasAegisApproval(t) \/ status[t] = "done"
<1> DEFINE ns == NormalizeTaskUpdateStatus(status[t], s, a)
<1>1. /\ Exists(t)
      /\ ns = "done" => HasAegisApproval(t)
      /\ SetStatus(t, IF ns = Omitted THEN status[t] ELSE ns)
  BY DEF PutTask
<1>2. status[t] \in StatusColumn
  BY <1>1 DEF Exists, TypeOK
<1>3. ns = Omitted \/ ns \in StatusColumn
  BY SetsAssumption DEF NormalizeTaskUpdateStatus, Statuses
<1> HIDE DEF ns
<1>4. (IF ns = Omitted THEN status[t] ELSE ns) \in StatusColumn
  BY <1>2, <1>3
<1> WITNESS (IF ns = Omitted THEN status[t] ELSE ns) \in StatusColumn
<1> QED BY <1>1

LEMMA HandlerRows ==
  ASSUME TypeOK, NEW u \in Tasks, Board \/ Ungated
  PROVE  RowStep(u)
<1>1. ASSUME NEW t \in Tasks, NEW s \in Bodies \cup {Omitted},
             NEW a \in Agents \cup {Blank, Omitted}, NEW m \in {"plain", "targeted", Omitted},
             PutTask(t, s, a, m)
      PROVE  RowStep(u)
  <2>1. PICK w \in StatusColumn : SetStatus(t, w)
    BY <1>1, PutTaskWrites
  <2> QED BY <1>1, <2>1, SetStatusStep, RowsKept DEF PutTask
<1>2. ASSUME NEW S \in SUBSET Tasks, NEW wanted \in [S -> Bodies], BulkPut(S, wanted)
      PROVE  RowStep(u)
  <2>1. status'[u] = IF u \in S /\ Exists(u) THEN wanted[u] ELSE status[u]
    BY <1>2 DEF BulkPut
  <2>2. u \in S => wanted[u] \in StatusColumn
    BY SetsAssumption
  <2> QED BY <1>2, <2>1, <2>2, RowsKept, RealStatus DEF BulkPut, OneAttempt, Exists
<1>3. ASSUME NEW t \in Tasks, NEW a \in Registered, MentionAgent(t, a) PROVE RowStep(u)
  <2>1. (IF status[t] = "inbox" THEN "assigned" ELSE status[t]) \in StatusColumn
    BY <1>3 DEF MentionAgent, Exists, Statuses, TypeOK
  <2> QED BY <1>3, <2>1, SetStatusStep, RowsKept DEF MentionAgent
<1>4. ASSUME NEW t \in Tasks, NEW reviewer, NEW v \in {"approved", "rejected"},
             PostReview(t, reviewer, v)
      PROVE  RowStep(u)
  <2>1. /\ ~Exists(u) => status'[u] = status[u]
        /\ Exists(u) => status'[u] \notin NoRow
        /\ OneAttempt(u)
    BY <1>4, SetStatusStep DEF PostReview, Statuses
  <2>2. ~Exists(u) => UNCHANGED <<verdict[u], rejections[u]>>
    BY <1>4 DEF PostReview, TypeOK, Exists
  <2> QED BY <2>1, <2>2 DEF RowStep, NoLateWrite, LeavesNothing
<1>5. ASSUME NEW t \in Tasks, DeleteTask(t) PROVE RowStep(u)
  BY <1>5 DEF DeleteTask, RowStep, NoLateWrite, LeavesNothing, OneAttempt, TypeOK, Exists
<1>6. ASSUME NEW t \in Tasks, NEW s \in Reports, ReportTask(t, s) PROVE RowStep(u)
  <2>1. s \notin NoRow
    BY SetsAssumption, RealStatus
  <2> QED BY <1>6, <2>1, RowsKept DEF ReportTask, OneAttempt, TypeOK, Exists
<1>7. ASSUME NEW t \in Tasks, NEW s \in Bodies \cup {Omitted},
             NEW a \in Agents \cup {Blank, Omitted}, NEW targeted \in BOOLEAN,
             CreateTask(t, s, a, targeted)
      PROVE  RowStep(u)
  <2>1. /\ status[t] = "absent"
        /\ status' = [status EXCEPT ![t] =
                        NormalizeTaskCreateStatus(s, ResolveTaskAssignee(a, Coordinator))]
        /\ UNCHANGED <<attempts, reviewVars>>
    BY <1>7 DEF CreateTask
  <2>2. status[u] = "deleted" => status'[u] = "deleted"
    BY <2>1 DEF TypeOK
  <2>3. Exists(u) => status'[u] = status[u]
    BY <2>1 DEF TypeOK, Exists, NoRow
  <2> QED BY <2>1, <2>2, <2>3
          DEF RowStep, NoLateWrite, LeavesNothing, OneAttempt, reviewVars, Exists
<1>8. CASE Board
  BY <1>1, <1>2, <1>3, <1>4, <1>5, <1>8 DEF Board
<1>9. CASE Ungated
  BY <1>4, <1>6, <1>7, <1>9 DEF Ungated
<1> QED BY <1>8, <1>9

LEMMA NextRows ==
  ASSUME TypeOK, NEW u \in Tasks, [Next]_vars
  PROVE  RowStep(u)
<1>1. CASE UNCHANGED vars
  BY <1>1, RowsUntouched DEF vars, rowVars
<1>2. CASE Next
  BY <1>2, AutomationRows, WorldRows, HandlerRows DEF Next, GatedNext, EngineNext
<1> QED BY <1>1, <1>2

(* No review and no rejection of a task outlives its row: the answers that    *)
(* come for a task deleted meanwhile are UPDATEs of no row.                   *)
THEOREM NoOrphans == Spec => []NoOrphanRows
<1>1. Init => NoOrphanRows
  BY DEF Init, NoOrphanRows
<1>2. TypeOK /\ NoOrphanRows /\ [Next]_vars => NoOrphanRows'
  <2> SUFFICES ASSUME TypeOK, NoOrphanRows, [Next]_vars, NEW u \in Tasks, ~Exists(u)'
               PROVE  verdict'[u] = "none" /\ rejections'[u] = 0
    BY DEF NoOrphanRows
  <2>1. NoLateWrite(u) /\ LeavesNothing(u)
    BY NextRows DEF RowStep
  <2>2. CASE Exists(u)
    BY <2>1, <2>2 DEF LeavesNothing, Exists
  <2>3. CASE ~Exists(u)
    BY <2>1, <2>3 DEF NoLateWrite, NoOrphanRows
  <2> QED BY <2>2, <2>3
<1> QED BY <1>1, <1>2, TypeCorrect, PTL DEF Spec

(* A deleted task stays deleted, whatever was under way for it. *)
THEOREM DeletedForGood == Spec => DeletedStaysDeleted
<1>1. TypeOK /\ [Next]_vars => [\A t \in Tasks : status[t] = "deleted" => status'[t] = "deleted"]_vars
  BY NextRows DEF RowStep, NoLateWrite, Exists, NoRow
<1> QED BY <1>1, TypeCorrect, PTL DEF Spec, DeletedStaysDeleted

(* The shared counter of failed dispatches, stale requeues and rejections     *)
(* never loses one and never counts two at a time.                            *)
THEOREM AttemptsCounted == Spec => AttemptsOnlyGrow
<1>1. TypeOK /\ [Next]_vars => [\A t \in Tasks : attempts'[t] \in {attempts[t], attempts[t] + 1}]_vars
  BY NextRows DEF RowStep, OneAttempt
<1> QED BY <1>1, TypeCorrect, PTL DEF Spec, AttemptsOnlyGrow

--------------------------------------------------------------------------------
(* The Aegis gate. Where only the handlers that keep it write, a done task   *)
(* has the approval of Aegis as its latest review. That is inductive next to *)
(* TypeOK: no step of a session that was under way breaks it, for any number *)
(* of sessions.                                                              *)

Gate(t) == status[t] = "done" => verdict[t] = "approved"

LEMMA GatedTypeCorrect == GatedSpec => []TypeOK
<1>1. Init => TypeOK
  BY InitType
<1>2. TypeOK /\ [GatedNext]_vars => TypeOK'
  BY StepType DEF Next
<1> QED BY <1>1, <1>2, PTL DEF GatedSpec

(* A step that completes no task and leaves the reviews alone keeps the gate. *)
LEMMA NothingCompleted ==
  ASSUME NEW u \in Tasks, Gate(u), UNCHANGED verdict, status'[u] = "done" => status[u] = "done"
  PROVE  Gate(u)'
BY DEF Gate

LEMMA SetStatusElsewhere ==
  ASSUME TypeOK, NEW t, NEW s, s # "done", NEW n, NEW u \in Tasks, NEW since,
         SetRowSince(t, s, n, since)
  PROVE  status'[u] = "done" => status[u] = "done"
<1>1. status' = Column(status, t, s) /\ status \in [Tasks -> StatusColumn \cup NoRow]
  BY DEF SetRowSince, TypeOK
<1> QED BY <1>1 DEF Column

LEMMA RetriedIsNotDone ==
  ASSUME NEW t, NEW limit
  PROVE  Retried(t, limit) # "done"
BY DEF Retried

LEMMA AutomationGate ==
  ASSUME TypeOK, NEW u \in Tasks, Gate(u), Automation
  PROVE  Gate(u)'
<1>1. CASE RouteInbox
  BY <1>1, NothingCompleted DEF RouteInbox, reviewVars
<1>2. ASSUME NEW d \in Dispatchers, DispatchStep(d) PROVE Gate(u)'
  <2>1. CASE DispatchSelect(d)
    BY <2>1, NothingCompleted DEF DispatchSelect, rowVars, reviewVars
  <2>2. ASSUME NEW t \in Tasks, DispatchClaim(d, t) PROVE Gate(u)'
    BY <2>2, SetStatusElsewhere, NothingCompleted DEF DispatchClaim, reviewVars
  <2>3. ASSUME NEW t \in Tasks, DispatchSkip(d, t) PROVE Gate(u)'
    BY <2>3, NothingCompleted DEF DispatchSkip, rowVars, reviewVars
  <2>4. CASE DispatchAnswered(d)
    BY <2>4, SetStatusElsewhere, NothingCompleted DEF DispatchAnswered, SetStatus, SetRow, reviewVars
  <2>5. ASSUME NEW r \in Runs \cup {NoRun}, DispatchAccepted(d, r) PROVE Gate(u)'
    BY <2>5, NothingCompleted DEF DispatchAccepted, reviewVars
  <2>6. CASE DispatchFailed(d)
    BY <2>6, SetStatusElsewhere, RetriedIsNotDone, NothingCompleted DEF DispatchFailed, SetRow, reviewVars
  <2> QED BY <1>2, <2>1, <2>2, <2>3, <2>4, <2>5, <2>6 DEF DispatchStep
<1>3. ASSUME NEW v \in Reviewers, ReviewStep(v) PROVE Gate(u)'
  <2>1. CASE ReviewSelect(v)
    BY <2>1, NothingCompleted DEF ReviewSelect, rowVars, reviewVars
  <2>2. ASSUME NEW t \in Tasks, ReviewBegin(v, t) PROVE Gate(u)'
    BY <2>2, SetStatusElsewhere, NothingCompleted DEF ReviewBegin, SetStatus, SetRow, reviewVars
  <2>3. CASE ReviewApproved(v)
    <3>1. /\ status' = Column(status, reviewing[v], "done")
          /\ verdict' = Column(verdict, reviewing[v], "approved")
          /\ status \in [Tasks -> StatusColumn \cup NoRow]
          /\ verdict \in [Tasks -> {"none", "approved", "rejected"}]
      BY <2>3 DEF ReviewApproved, SetStatus, SetRow, SetRowSince, TypeOK
    <3> QED BY <3>1 DEF Column, Gate
  <2>4. CASE ReviewRejected(v)
    <3> DEFINE t == reviewing[v]
    <3>1. /\ status' = Column(status, t, Retried(t, ReviewRetries))
          /\ verdict' = Column(verdict, t, "rejected")
          /\ status \in [Tasks -> StatusColumn \cup NoRow]
          /\ verdict \in [Tasks -> {"none", "approved", "rejected"}]
      BY <2>4 DEF ReviewRejected, SetRow, SetRowSince, TypeOK
    <3> HIDE DEF t
    <3> QED BY <3>1, RetriedIsNotDone DEF Column, Gate
  <2>5. CASE ReviewErred(v)
    BY <2>5, SetStatusElsewhere, NothingCompleted DEF ReviewErred, SetStatus, SetRow, reviewVars
  <2> QED BY <1>3, <2>1, <2>2, <2>3, <2>4, <2>5 DEF ReviewStep
<1>4. ASSUME NEW k \in Reconcilers, ReconcileStep(k) PROVE Gate(u)'
  <2>1. CASE ReconcileSelect(k)
    BY <2>1, NothingCompleted DEF ReconcileSelect, rowVars, reviewVars
  <2>2. ASSUME NEW s \in snapshots[k], ReconcileCompleted(k, s) PROVE Gate(u)'
    BY <2>2, SetStatusElsewhere, NothingCompleted DEF ReconcileCompleted, SetStatus, SetRow, reviewVars
  <2>3. ASSUME NEW s \in snapshots[k], ReconcilePassedOver(k, s) PROVE Gate(u)'
    BY <2>3, NothingCompleted DEF ReconcilePassedOver, rowVars, reviewVars
  <2> QED BY <1>4, <2>1, <2>2, <2>3 DEF ReconcileStep
<1>5. CASE RequeueStale
  BY <1>5, RetriedIsNotDone, NothingCompleted DEF RequeueStale, reviewVars
<1> QED BY <1>1, <1>2, <1>3, <1>4, <1>5 DEF Automation

LEMMA WorldGate ==
  ASSUME TypeOK, NEW u \in Tasks, Gate(u), World \/ Polling \/ Crash
  PROVE  Gate(u)'
<1> USE NothingCompleted DEF reviewVars
<1>1. ASSUME NEW t \in Tasks, Stall(t) PROVE Gate(u)'
  BY <1>1 DEF Stall
<1>2. ASSUME NEW a \in Registered, NEW s \in AgentStates, AgentStateChanges(a, s)
      PROVE  Gate(u)'
  BY <1>2 DEF AgentStateChanges, rowVars
<1>3. CASE ProvidersChange
  BY <1>3 DEF ProvidersChange, rowVars
<1>4. ASSUME NEW r \in Runs, RunFinishes(r) PROVE Gate(u)'
  BY <1>4 DEF RunFinishes, rowVars
<1>5. ASSUME NEW a \in Agents, NEW c \in Capacities, QueuePoll(a, c) PROVE Gate(u)'
  BY <1>5, SetStatusElsewhere DEF QueuePoll, SetStatus, SetRow
<1>6. CASE Crash
  BY <1>6 DEF Crash, rowVars
<1>7. ASSUME NEW d \in Dispatchers, SessionAges(d) PROVE Gate(u)'
  BY <1>7 DEF SessionAges, rowVars
<1> QED BY <1>1, <1>2, <1>3, <1>4, <1>5, <1>6, <1>7 DEF World, Polling

LEMMA BoardGate ==
  ASSUME TypeOK, NEW u \in Tasks, Gate(u), Board
  PROVE  Gate(u)'
<1>1. ASSUME NEW t \in Tasks, NEW s \in Bodies \cup {Omitted},
             NEW a \in Agents \cup {Blank, Omitted}, NEW m \in {"plain", "targeted", Omitted},
             PutTask(t, s, a, m)
      PROVE  Gate(u)'
  <2>1. PICK w \in StatusColumn :
          /\ SetStatus(t, w)
          /\ w = "done" => HasAegisApproval(t) \/ status[t] = "done"
    BY <1>1, PutTaskWrites
  <2>2. status' = Column(status, t, w)
    BY <2>1 DEF SetStatus, SetRow, SetRowSince
  <2>3. UNCHANGED verdict
    BY <1>1 DEF PutTask, reviewVars
  <2>4. status \in [Tasks -> StatusColumn \cup NoRow]
    BY DEF TypeOK
  <2>5. status'[u] = "done" => status[u] = "done" \/ (u = t /\ w = "done")
    BY <2>2, <2>4 DEF Column
  <2> QED BY <2>1, <2>3, <2>5 DEF Gate, HasAegisApproval
<1>2. ASSUME NEW S \in SUBSET Tasks, NEW wanted \in [S -> Bodies], BulkPut(S, wanted)
      PROVE  Gate(u)'
  BY <1>2 DEF BulkPut, Gate, HasAegisApproval, reviewVars
<1>3. ASSUME NEW t \in Tasks, NEW a \in Registered, MentionAgent(t, a) PROVE Gate(u)'
  <2>1. /\ status' = Column(status, t, IF status[t] = "inbox" THEN "assigned" ELSE status[t])
        /\ status \in [Tasks -> StatusColumn \cup NoRow] /\ UNCHANGED verdict
    BY <1>3 DEF MentionAgent, SetStatus, SetRow, SetRowSince, reviewVars, TypeOK
  <2> QED BY <2>1 DEF Column, Gate
<1>4. ASSUME NEW t \in Tasks, NEW v \in {"approved", "rejected"}, PostReview(t, "aegis", v)
      PROVE  Gate(u)'
  <2>1. /\ status' = Column(status, t, IF v = "approved" THEN "done" ELSE "in_progress")
        /\ verdict' = [verdict EXCEPT ![t] = v]
        /\ status \in [Tasks -> StatusColumn \cup NoRow]
        /\ verdict \in [Tasks -> {"none", "approved", "rejected"}]
        /\ Exists(t)
    BY <1>4 DEF PostReview, SetStatus, SetRow, SetRowSince, TypeOK
  <2> QED BY <2>1 DEF Column, Gate
<1>5. ASSUME NEW t \in Tasks, DeleteTask(t) PROVE Gate(u)'
  BY <1>5 DEF DeleteTask, Gate, TypeOK
<1> QED BY <1>1, <1>2, <1>3, <1>4, <1>5 DEF Board

(* With the gated handlers only, no interleaving of review sessions, dispatch *)
(* sessions, operators and crashes completes a task that Aegis has not        *)
(* approved last.                                                             *)
THEOREM GateHolds == GatedSpec => []DoneHasApproval
<1>1. Init => DoneHasApproval
  BY DEF Init, DoneHasApproval, NormalizeTaskCreateStatus
<1>2. TypeOK /\ DoneHasApproval /\ [GatedNext]_vars => DoneHasApproval'
  <2> SUFFICES ASSUME TypeOK, DoneHasApproval, [GatedNext]_vars, NEW u \in Tasks
               PROVE  Gate(u)'
    BY DEF DoneHasApproval, Gate
  <2>1. Gate(u)
    BY DEF DoneHasApproval, Gate
  <2>2. CASE UNCHANGED vars
    BY <2>1, <2>2, NothingCompleted DEF vars, rowVars, reviewVars
  <2>3. CASE GatedNext
    BY <2>1, <2>3, AutomationGate, WorldGate, BoardGate DEF GatedNext, EngineNext
  <2> QED BY <2>2, <2>3
<1> QED BY <1>1, <1>2, GatedTypeCorrect, PTL DEF GatedSpec
===============================================================================
