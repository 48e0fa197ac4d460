--------------------------- MODULE TaskEngineProofs ---------------------------
(****************************************************************************)
(* The engine with direct providers and one review session at a time: its   *)
(* invariants, and that it implements the documented status flow, for any   *)
(* number of tasks, agents and dispatch sessions and for any retry limits.  *)
(*                                                                          *)
(* The four invariants need one another. A late answer moves a task without *)
(* looking at its status, so it is harmless only if the task is still the   *)
(* one that was claimed (HeldIsInProgress); that holds because no other     *)
(* session claims it (HeldOnce) and no job but the reviewer moves what is   *)
(* under review (ReviewIsCurrent); and a task that never has to move from   *)
(* failed or done keeps its budget (RetryBudget). DirectWorld adds what the *)
(* absence of a gateway means for the rest of the state.                    *)
(*                                                                          *)
(* Gateway runs come after that, with every writer and both backends.       *)
(****************************************************************************)
EXTENDS TaskLifecycleProofs

DirectWorld ==
  /\ direct = TRUE
  /\ \A t \in Tasks : Exists(t) /\ target[t] = FALSE /\ async[t] # "pending"
  /\ \A k \in Reconcilers : snapshots[k] = {}
  /\ \A d \in Dispatchers : call[d] = IF claimed[d] = NoTask THEN "none" ELSE "direct"

EngineInv ==
  TypeOK /\ DirectWorld /\ HeldIsInProgress /\ HeldOnce /\ ReviewIsCurrent /\ RetryBudget

(* One step of the status flow for every task. *)
FlowStep == \A u \in Tasks : Flow!TaskStep(u)

Moved(t, s, n) ==
  /\ status' = [status EXCEPT ![t] = s]
  /\ attempts' = [attempts EXCEPT ![t] = n]

LEMMA SetRowSinceMoves ==
  ASSUME DirectWorld, NEW t \in Tasks, NEW s, NEW n, NEW since, SetRowSince(t, s, n, since)
  PROVE  Moved(t, s, n)
BY DEF DirectWorld, SetRowSince, Column, Moved

LEMMA SetRowMoves ==
  ASSUME DirectWorld, NEW t \in Tasks, NEW s, NEW n, SetRow(t, s, n)
  PROVE  Moved(t, s, n)
BY SetRowSinceMoves DEF SetRow

LEMMA SetStatusMoves ==
  ASSUME DirectWorld, NEW t \in Tasks, NEW s, SetStatus(t, s)
  PROVE  Moved(t, s, attempts[t])
BY SetRowMoves DEF SetStatus

(* The type invariant makes every move of one task a step of the flow as soon *)
(* as it is one for that task.                                                *)
LEMMA MoveIsFlow ==
  ASSUME TypeOK, NEW t \in Tasks, NEW s, NEW n, Moved(t, s, n), Flow!TaskStep(t)
  PROVE  FlowStep
<1> SUFFICES ASSUME NEW u \in Tasks PROVE Flow!TaskStep(u)
  BY DEF FlowStep
<1>1. CASE u = t
  BY <1>1
<1>2. CASE u # t
  BY <1>2 DEF Moved, TypeOK, Flow!TaskStep, Flow!Free
<1> QED BY <1>1, <1>2

LEMMA StillIsFlow ==
  ASSUME UNCHANGED <<status, attempts>>
  PROVE  FlowStep
BY DEF FlowStep, Flow!TaskStep, Flow!Free

(* Within the budget the counter does not reach the bound of the model. *)
LEMMA BudgetCounts ==
  ASSUME TypeOK, RetryBudget, NEW t \in Tasks, status[t] # "failed"
  PROVE  /\ Counted(attempts[t]) = attempts[t] + 1
         /\ attempts[t] < DispatchRetries
BY LimitsAssumption DEF TypeOK, RetryBudget, Counted

LEMMA SelectionIsSubset ==
  ASSUME NEW C, NEW limit, NEW S \in Selections(C, limit)
  PROVE  S \subseteq C
BY DEF Selections

LEMMA EngineInit == DirectOnly /\ Init => EngineInv /\ Flow!Init
<1> SUFFICES ASSUME DirectOnly, Init PROVE EngineInv /\ Flow!Init
  OBVIOUS
<1>1. TypeOK
  BY InitType
<1>2. status \in [Tasks -> {"inbox", "assigned"}]
  BY DEF Init, DirectOnly, NormalizeTaskCreateStatus
<1>3. DirectWorld
  <2>1. direct = TRUE /\ \A t \in Tasks : target[t] = FALSE
    <3>1. direct = TRUE
      BY DEF Init, DirectOnly
    <3>2. target = [t \in Tasks |-> FALSE]
      <4>1. target = [t \in Tasks |-> t \in Targeted] /\ Targeted = {}
        BY DEF Init, DirectOnly
      <4>2. \A t \in Tasks : (t \in {}) = FALSE
        OBVIOUS
      <4> QED BY <4>1, <4>2, Zenon
    <3> QED BY <3>1, <3>2
  <2>2. \A t \in Tasks : Exists(t)
    BY <1>2 DEF Exists, NoRow
  <2>3. \A t \in Tasks : async[t] # "pending"
    BY DEF Init
  <2>4. /\ \A k \in Reconcilers : snapshots[k] = {}
        /\ \A d \in Dispatchers : call[d] = IF claimed[d] = NoTask THEN "none" ELSE "direct"
    BY DEF Init
  <2> QED BY <2>1, <2>2, <2>3, <2>4 DEF DirectWorld
<1>4. HeldIsInProgress /\ HeldOnce
  BY DEF Init, HeldIsInProgress, HeldOnce
<1>5. ReviewIsCurrent
  BY DEF Init, ReviewIsCurrent
<1>6. RetryBudget
  BY <1>2, LimitsAssumption DEF Init, RetryBudget
<1> QED BY <1>1, <1>2, <1>3, <1>4, <1>5, <1>6 DEF EngineInv, Flow!Init, Init

(* The dispatcher. *)
LEMMA DispatchKeeps ==
  ASSUME EngineInv, NEW d \in Dispatchers, DispatchStep(d), TypeOK'
  PROVE  EngineInv' /\ FlowStep
<1> USE DEF EngineInv
<1>1. CASE DispatchSelect(d)
  <2>1. UNCHANGED <<status, attempts, age, async, run, target, claimed, call, reviewBatch,
                    reviewing, snapshots, direct>>
    BY <1>1 DEF DispatchSelect, rowVars, metaVars, world
  <2>2. FlowStep
    BY <2>1, StillIsFlow
  <2> QED BY <2>1, <2>2
          DEF DirectWorld, HeldIsInProgress, HeldOnce, ReviewIsCurrent, RetryBudget, Exists
<1>2. ASSUME NEW t \in Tasks, DispatchClaim(d, t) PROVE EngineInv' /\ FlowStep
  <2>1. status[t] = "assigned"
    BY <1>2 DEF DispatchClaim, Claimable
  <2>2. Moved(t, "in_progress", attempts[t])
    BY <1>2, SetRowSinceMoves DEF DispatchClaim
  <2>3. /\ claimed' = [claimed EXCEPT ![d] = t]
        /\ call' = [call EXCEPT ![d] = "direct"]
        /\ UNCHANGED <<async, target, reviewBatch, reviewing, snapshots, direct>>
    BY <1>2 DEF DispatchClaim, DirectWorld, metaVars, world
  <2>4. DirectWorld'
    BY <2>2, <2>3, SetsAssumption DEF DirectWorld, Moved, Exists, NoRow, TypeOK
  <2>5. HeldIsInProgress' /\ HeldOnce'
    BY <2>1, <2>2, <2>3 DEF HeldIsInProgress, HeldOnce, Moved, TypeOK
  <2>6. ReviewIsCurrent'
    BY <2>1, <2>2, <2>3 DEF ReviewIsCurrent, Moved, TypeOK
  <2>7. RetryBudget'
    BY <2>1, <2>2 DEF RetryBudget, Moved, TypeOK
  <2>8. FlowStep
    BY <2>1, <2>2, MoveIsFlow DEF Moved, TypeOK, Flow!TaskStep, Flow!Start, Flow!Moves, Flow!Free
  <2> QED BY <2>4, <2>5, <2>6, <2>7, <2>8
<1>3. ASSUME NEW t \in Tasks, DispatchSkip(d, t) PROVE EngineInv' /\ FlowStep
  <2>1. UNCHANGED <<status, attempts, age, async, run, target, claimed, call, reviewBatch,
                    reviewing, snapshots, direct>>
    BY <1>3 DEF DispatchSkip, rowVars, metaVars, world
  <2>2. FlowStep
    BY <2>1, StillIsFlow
  <2> QED BY <2>1, <2>2
          DEF DirectWorld, HeldIsInProgress, HeldOnce, ReviewIsCurrent, RetryBudget, Exists
<1>4. ASSUME NEW s \in {"review", "assigned", "failed"}, NEW n \in Nat,
             claimed[d] # NoTask, Moved(claimed[d], s, n), Release(d),
             UNCHANGED <<async, target, direct>>
      PROVE  DirectWorld' /\ HeldIsInProgress' /\ HeldOnce' /\ ReviewIsCurrent'
  <2>1. /\ claimed' = [claimed EXCEPT ![d] = NoTask]
        /\ call' = [call EXCEPT ![d] = "none"]
        /\ UNCHANGED <<reviewBatch, reviewing, snapshots>>
    BY <1>4 DEF Release
  <2>2. claimed[d] \in Tasks /\ status[claimed[d]] = "in_progress"
    BY <1>4 DEF TypeOK, HeldIsInProgress
  <2>3. DirectWorld'
    BY <1>4, <2>1, <2>2 DEF DirectWorld, Moved, Exists, NoRow, TypeOK
  <2>4. HeldOnce'
    BY <2>1 DEF HeldOnce, TypeOK
  <2>5. HeldIsInProgress'
    BY <1>4, <2>1, <2>2 DEF HeldIsInProgress, HeldOnce, Moved, TypeOK
  <2>6. ReviewIsCurrent'
    BY <1>4, <2>1, <2>2 DEF ReviewIsCurrent, Moved, TypeOK
  <2> QED BY <2>3, <2>4, <2>5, <2>6
<1>5. CASE DispatchAnswered(d)
  <2> DEFINE t == claimed[d]
  <2>1. t \in Tasks /\ t # NoTask /\ status[t] = "in_progress"
    BY <1>5, SetsAssumption DEF DispatchAnswered, DirectWorld, HeldIsInProgress, TypeOK
  <2>2. Moved(t, "review", attempts[t])
    BY <1>5, <2>1, SetStatusMoves DEF DispatchAnswered
  <2>3. UNCHANGED <<async, target, direct>> /\ Release(d)
    BY <1>5 DEF DispatchAnswered, metaVars, world
  <2>4. attempts[t] \in Nat
    BY <2>1 DEF TypeOK
  <2>5. DirectWorld' /\ HeldIsInProgress' /\ HeldOnce' /\ ReviewIsCurrent'
    BY <1>4, <2>1, <2>2, <2>3, <2>4
  <2>6. RetryBudget'
    BY <2>1, <2>2 DEF RetryBudget, Moved, TypeOK
  <2> HIDE DEF t
  <2>7. Flow!TaskStep(t)
    BY <2>1, <2>2 DEF Moved, TypeOK, Flow!TaskStep, Flow!Complete, Flow!Moves, Flow!Free
  <2>8. FlowStep
    BY <2>1, <2>2, <2>7, MoveIsFlow
  <2> QED BY <2>5, <2>6, <2>8
<1>6. ASSUME NEW r \in Runs \cup {NoRun}, DispatchAccepted(d, r) PROVE FALSE
  BY <1>6 DEF DispatchAccepted, DirectWorld
<1>7. CASE DispatchFailed(d)
  <2> DEFINE t == claimed[d]
             s == Retried(t, DispatchRetries)
  <2>1. t \in Tasks /\ t # NoTask /\ status[t] = "in_progress"
    BY <1>7 DEF DispatchFailed, HeldIsInProgress, TypeOK
  <2>2. Counted(attempts[t]) = attempts[t] + 1 /\ attempts[t] < DispatchRetries
        /\ attempts[t] \in Nat
    BY <2>1, BudgetCounts DEF TypeOK
  <2>3. Moved(t, s, attempts[t] + 1)
    BY <1>7, <2>1, <2>2, SetRowMoves DEF DispatchFailed
  <2>4. s = IF attempts[t] + 1 >= DispatchRetries THEN "failed" ELSE "assigned"
    BY DEF Retried
  <2>5. UNCHANGED <<async, target, direct>> /\ Release(d)
    BY <1>7 DEF DispatchFailed, metaVars, world
  <2> HIDE DEF s, t
  <2>6. DirectWorld' /\ HeldIsInProgress' /\ HeldOnce' /\ ReviewIsCurrent'
    BY <1>4, <2>1, <2>2, <2>3, <2>4, <2>5 DEF t
  <2>7. RetryBudget'
    BY <2>1, <2>2, <2>3, <2>4, LimitsAssumption DEF RetryBudget, Moved, TypeOK
  <2>8. Flow!TaskStep(t)
    BY <2>1, <2>2, <2>3, <2>4, LimitsAssumption
       DEF Moved, TypeOK, Flow!TaskStep, Flow!Retry, Flow!GiveUp, Flow!Moves, Flow!Costly
  <2>9. FlowStep
    BY <2>1, <2>3, <2>8, MoveIsFlow
  <2> QED BY <2>6, <2>7, <2>9
<1> QED BY <1>1, <1>2, <1>3, <1>5, <1>6, <1>7 DEF DispatchStep

(* The reviewer. *)
LEMMA ReviewKeeps ==
  ASSUME EngineInv, OneReviewSession, NEW v \in Reviewers, ReviewStep(v), TypeOK'
  PROVE  EngineInv' /\ FlowStep
<1> USE DEF EngineInv
<1>0. \A w \in Reviewers : w = v
  BY DEF OneReviewSession
<1>1. CASE ReviewSelect(v)
  <2>1. UNCHANGED <<status, attempts, age, async, run, target, claimed, call, reviewing,
                    snapshots, direct>>
    BY <1>1 DEF ReviewSelect, rowVars, metaVars, dispatchVars, world
  <2>2. PICK S \in SUBSET AwaitingReview : reviewBatch' = [reviewBatch EXCEPT ![v] = S]
    BY <1>1 DEF ReviewSelect, Selections
  <2>3. FlowStep
    BY <2>1, StillIsFlow
  <2>4. ReviewIsCurrent'
    BY <1>0, <1>1, <2>1, <2>2, SetsAssumption
       DEF ReviewSelect, ReviewIsCurrent, AwaitingReview, TypeOK
  <2> QED BY <2>1, <2>3, <2>4 DEF DirectWorld, HeldIsInProgress, HeldOnce, RetryBudget, Exists
<1>2. ASSUME NEW t \in Tasks, ReviewBegin(v, t) PROVE EngineInv' /\ FlowStep
  <2>1. status[t] = "review"
    BY <1>2 DEF ReviewBegin, ReviewIsCurrent
  <2>2. Moved(t, "quality_review", attempts[t])
    BY <1>2, SetStatusMoves DEF ReviewBegin
  <2>3. /\ reviewBatch' = [reviewBatch EXCEPT ![v] = @ \ {t}]
        /\ reviewing' = [reviewing EXCEPT ![v] = t]
        /\ UNCHANGED <<async, target, claimed, call, snapshots, direct>>
    BY <1>2 DEF ReviewBegin, metaVars, dispatchVars, world
  <2>4. DirectWorld'
    BY <2>2, <2>3 DEF DirectWorld, Moved, Exists, NoRow, TypeOK
  <2>5. HeldIsInProgress' /\ HeldOnce'
    BY <2>1, <2>2, <2>3 DEF HeldIsInProgress, HeldOnce, Moved, TypeOK
  <2>6. ReviewIsCurrent'
    BY <1>0, <2>1, <2>2, <2>3 DEF ReviewIsCurrent, Moved, TypeOK
  <2>7. RetryBudget'
    BY <2>1, <2>2 DEF RetryBudget, Moved, TypeOK
  <2>8. Flow!TaskStep(t)
    BY <2>1, <2>2 DEF Moved, TypeOK, Flow!TaskStep, Flow!BeginReview, Flow!Moves, Flow!Free
  <2>9. FlowStep
    BY <2>2, <2>8, MoveIsFlow
  <2> QED BY <2>4, <2>5, <2>6, <2>7, <2>9
<1>3. ASSUME NEW s \in {"review", "assigned", "failed", "done"}, NEW n \in Nat,
             EndReview(v), Moved(reviewing[v], s, n)
      PROVE  DirectWorld' /\ HeldIsInProgress' /\ HeldOnce' /\ ReviewIsCurrent'
  <2>1. /\ reviewing' = [reviewing EXCEPT ![v] = NoTask]
        /\ UNCHANGED <<async, target, claimed, call, reviewBatch, snapshots, direct>>
    BY <1>3 DEF EndReview, metaVars, dispatchVars, world
  <2>2. reviewing[v] \in Tasks /\ status[reviewing[v]] = "quality_review"
        /\ reviewing[v] \notin reviewBatch[v]
    BY <1>3 DEF EndReview, TypeOK, ReviewIsCurrent
  <2>3. DirectWorld'
    BY <1>3, <2>1, <2>2 DEF DirectWorld, Moved, Exists, NoRow, TypeOK
  <2>4. HeldIsInProgress' /\ HeldOnce'
    BY <1>3, <2>1, <2>2 DEF HeldIsInProgress, HeldOnce, Moved, TypeOK
  <2>5. ReviewIsCurrent'
    BY <1>0, <1>3, <2>1, <2>2, SetsAssumption DEF ReviewIsCurrent, Moved, TypeOK
  <2> QED BY <2>3, <2>4, <2>5
<1>4. EndReview(v) => /\ reviewing[v] \in Tasks /\ status[reviewing[v]] = "quality_review"
                      /\ attempts[reviewing[v]] \in Nat
  BY DEF EndReview, TypeOK, ReviewIsCurrent
<1>5. ASSUME NEW s \in {"review", "done"}, EndReview(v), SetStatus(reviewing[v], s)
      PROVE  EngineInv' /\ FlowStep
  <2> DEFINE t == reviewing[v]
  <2>1. t \in Tasks /\ status[t] = "quality_review" /\ attempts[t] \in Nat
    BY <1>4, <1>5
  <2>2. Moved(t, s, attempts[t])
    BY <1>5, <2>1, SetStatusMoves
  <2>3. DirectWorld' /\ HeldIsInProgress' /\ HeldOnce' /\ ReviewIsCurrent'
    BY <1>3, <1>5, <2>1, <2>2
  <2> HIDE DEF t
  <2>4. RetryBudget'
    BY <2>1, <2>2 DEF RetryBudget, Moved, TypeOK
  <2>5. Flow!TaskStep(t)
    BY <2>1, <2>2
       DEF Moved, TypeOK, Flow!TaskStep, Flow!ReviewAgain, Flow!Approve, Flow!Moves, Flow!Free
  <2>6. FlowStep
    BY <2>1, <2>2, <2>5, MoveIsFlow
  <2> QED BY <2>3, <2>4, <2>6
<1>6. CASE ReviewApproved(v)
  BY <1>5, <1>6 DEF ReviewApproved
<1>7. CASE ReviewErred(v)
  BY <1>5, <1>7 DEF ReviewErred
<1>8. CASE ReviewRejected(v)
  <2> DEFINE t == reviewing[v]
             s == Retried(t, ReviewRetries)
  <2>1. t \in Tasks /\ status[t] = "quality_review" /\ attempts[t] \in Nat /\ EndReview(v)
    BY <1>4, <1>8 DEF ReviewRejected
  <2>2. Counted(attempts[t]) = attempts[t] + 1 /\ attempts[t] < DispatchRetries
    BY <2>1, BudgetCounts
  <2>3. Moved(t, s, attempts[t] + 1)
    BY <1>8, <2>1, <2>2, SetRowMoves DEF ReviewRejected
  <2>4. s = IF attempts[t] + 1 >= ReviewRetries THEN "failed" ELSE "assigned"
    BY DEF Retried
  <2> HIDE DEF s, t
  <2>5. DirectWorld' /\ HeldIsInProgress' /\ HeldOnce' /\ ReviewIsCurrent'
    BY <1>3, <2>1, <2>3, <2>4 DEF t
  <2>6. RetryBudget'
    BY <2>1, <2>2, <2>3, <2>4, LimitsAssumption DEF RetryBudget, Moved, TypeOK
  <2>7. Flow!TaskStep(t)
    BY <2>1, <2>2, <2>3, <2>4, LimitsAssumption
       DEF Moved, TypeOK, Flow!TaskStep, Flow!Reject, Flow!RejectFinally, Flow!Moves, Flow!Costly
  <2>8. FlowStep
    BY <2>1, <2>3, <2>7, MoveIsFlow
  <2> QED BY <2>5, <2>6, <2>8
<1> QED BY <1>1, <1>2, <1>6, <1>7, <1>8 DEF ReviewStep

(* Nothing to reconcile, nothing to requeue. *)
LEMMA IdleJobs ==
  ASSUME EngineInv
  PROVE  /\ ~RequeueStale
         /\ \A k \in Reconcilers : ~ReconcileStep(k)
<1>1. ~RequeueStale
  BY DEF EngineInv, DirectWorld, RequeueStale, RequeueEnabled
<1>2. ASSUME NEW k \in Reconcilers, ReconcileStep(k) PROVE FALSE
  <2>1. CASE ReconcileSelect(k)
    <3>1. {t \in Tasks : status[t] = "in_progress" /\ async[t] = "pending"} = {}
      BY DEF EngineInv, DirectWorld
    <3>2. PICK S \in SUBSET {} :
            snapshots' = [snapshots EXCEPT ![k] = {SnapshotOf(t) : t \in {u \in S : run[u] # NoRun}}]
      BY <2>1, <3>1 DEF ReconcileSelect, Selections
    <3>3. snapshots' = snapshots
      BY <3>2 DEF EngineInv, TypeOK, DirectWorld
    <3> QED BY <2>1, <3>3 DEF ReconcileSelect
  <2>2. CASE \E s \in snapshots[k] : ReconcileCompleted(k, s) \/ ReconcilePassedOver(k, s)
    BY <2>2 DEF EngineInv, DirectWorld
  <2> QED BY <1>2, <2>1, <2>2 DEF ReconcileStep
<1> QED BY <1>1, <1>2

LEMMA RouteKeeps ==
  ASSUME EngineInv, RouteInbox, TypeOK'
  PROVE  EngineInv' /\ FlowStep
<1> USE DEF EngineInv
<1>1. PICK S \in SUBSET InboxTasks :
        /\ status' = [t \in Tasks |-> IF t \in S THEN "assigned" ELSE status[t]]
        /\ UNCHANGED <<attempts, async, target, claimed, call, reviewBatch, reviewing,
                       snapshots, direct>>
  BY DEF RouteInbox, Selections, metaVars, sessionVars, dispatchVars, world
<1>2. \A t \in S : status[t] = "inbox"
  BY DEF InboxTasks
<1>3. DirectWorld'
  BY <1>1 DEF DirectWorld, Exists, NoRow
<1>4. HeldIsInProgress' /\ HeldOnce'
  BY <1>1, <1>2 DEF HeldIsInProgress, HeldOnce, TypeOK
<1>5. ReviewIsCurrent'
  BY <1>1, <1>2 DEF ReviewIsCurrent, TypeOK
<1>6. RetryBudget'
  BY <1>1, <1>2 DEF RetryBudget, TypeOK
<1>7. FlowStep
  BY <1>1, <1>2 DEF FlowStep, Flow!TaskStep, Flow!Assign, Flow!Moves, Flow!Free
<1> QED BY <1>3, <1>4, <1>5, <1>6, <1>7

LEMMA PollKeeps ==
  ASSUME EngineInv, NEW a \in Agents, NEW c \in Capacities, QueuePoll(a, c), TypeOK'
  PROVE  EngineInv' /\ FlowStep
<1> USE DEF EngineInv
<1>1. PICK t \in Queued(a) : SetStatus(t, "in_progress")
  BY DEF QueuePoll
<1>2. t \in Tasks /\ status[t] \in {"assigned", "inbox"}
  BY DEF Queued
<1>3. Moved(t, "in_progress", attempts[t])
  BY <1>1, <1>2, SetStatusMoves
<1>4. UNCHANGED <<async, target, claimed, call, reviewBatch, reviewing, snapshots, direct>>
  BY DEF QueuePoll, metaVars, sessionVars, dispatchVars, world
<1>5. DirectWorld'
  BY <1>3, <1>4 DEF DirectWorld, Moved, Exists, NoRow, TypeOK
<1>6. HeldIsInProgress' /\ HeldOnce'
  BY <1>2, <1>3, <1>4 DEF HeldIsInProgress, HeldOnce, Moved, TypeOK
<1>7. ReviewIsCurrent'
  BY <1>2, <1>3, <1>4 DEF ReviewIsCurrent, Moved, TypeOK
<1>8. RetryBudget'
  BY <1>2, <1>3 DEF RetryBudget, Moved, TypeOK
<1>9. Flow!TaskStep(t)
  BY <1>2, <1>3 DEF Moved, TypeOK, Flow!TaskStep, Flow!Start, Flow!Moves, Flow!Free
<1>10. FlowStep
  BY <1>2, <1>3, <1>9, MoveIsFlow
<1> QED BY <1>5, <1>6, <1>7, <1>8, <1>10

LEMMA WorldKeeps ==
  ASSUME DirectOnly, EngineInv, World \/ Crash, TypeOK'
  PROVE  EngineInv' /\ FlowStep
<1> USE DEF EngineInv
<1>1. CASE World
  <2>1. UNCHANGED <<status, attempts, async, target, claimed, call, reviewBatch, reviewing,
                    snapshots, direct>>
    BY <1>1 DEF World, Stall, SessionAges, AgentStateChanges, ProvidersChange, RunFinishes, DirectOnly,
                DirectWorld, rowVars, metaVars, sessionVars, dispatchVars, world
  <2>2. FlowStep
    BY <2>1, StillIsFlow
  <2> QED BY <2>1, <2>2
          DEF DirectWorld, HeldIsInProgress, HeldOnce, ReviewIsCurrent, RetryBudget, Exists
<1>2. CASE Crash
  <2>1. /\ UNCHANGED <<status, attempts, async, target, direct>>
        /\ claimed' = [d \in Dispatchers |-> NoTask]
        /\ call' = [d \in Dispatchers |-> "none"]
        /\ reviewBatch' = [v \in Reviewers |-> {}]
        /\ reviewing' = [v \in Reviewers |-> NoTask]
        /\ snapshots' = [k \in Reconcilers |-> {}]
    BY <1>2 DEF Crash, rowVars, metaVars, world
  <2>2. FlowStep
    BY <2>1, StillIsFlow
  <2> QED BY <2>1, <2>2
          DEF DirectWorld, HeldIsInProgress, HeldOnce, ReviewIsCurrent, RetryBudget, Exists
<1> QED BY <1>1, <1>2

LEMMA EngineStep ==
  ASSUME DirectOnly, OneReviewSession, EngineInv, [EngineNext]_vars
  PROVE  EngineInv' /\ [Flow!Next]_(Flow!flow)
<1>1. TypeOK'
  BY StepType DEF EngineInv, Next, GatedNext
<1>2. CASE UNCHANGED vars
  BY <1>1, <1>2 DEF EngineInv, DirectWorld, HeldIsInProgress, HeldOnce, ReviewIsCurrent,
                    RetryBudget, Exists, vars, rowVars, metaVars, sessionVars, dispatchVars,
                    world, Flow!flow
<1>3. CASE EngineNext
  <2>1. EngineInv' /\ FlowStep
    BY <1>1, <1>3, RouteKeeps, DispatchKeeps, ReviewKeeps, IdleJobs, WorldKeeps, PollKeeps
       DEF EngineNext, Automation, Polling
  <2> QED BY <2>1 DEF FlowStep, Flow!Next
<1> QED BY <1>2, <1>3

LEMMA EngineInvariant == DirectOnly /\ OneReviewSession => (EngineSpec => []EngineInv)
<1> SUFFICES ASSUME DirectOnly, OneReviewSession PROVE EngineSpec => []EngineInv
  OBVIOUS
<1>1. Init => EngineInv
  BY EngineInit
<1>2. EngineInv /\ [EngineNext]_vars => EngineInv'
  BY EngineStep
<1> QED BY <1>1, <1>2, PTL DEF EngineSpec

(* An answer a dispatch session waits for still belongs to its task. *)
THEOREM LateAnswersAreCurrent ==
  DirectOnly /\ OneReviewSession => (EngineSpec => []HeldIsInProgress)
<1>1. EngineInv => HeldIsInProgress
  BY DEF EngineInv
<1> QED BY <1>1, EngineInvariant, PTL

(* No two dispatch sessions work on one task. *)
THEOREM ClaimsExclude == DirectOnly /\ OneReviewSession => (EngineSpec => []HeldOnce)
<1>1. EngineInv => HeldOnce
  BY DEF EngineInv
<1> QED BY <1>1, EngineInvariant, PTL

(* What a review session read before its awaits is still so after them. *)
THEOREM ReviewsAreCurrent ==
  DirectOnly /\ OneReviewSession => (EngineSpec => []ReviewIsCurrent)
<1>1. EngineInv => ReviewIsCurrent
  BY DEF EngineInv
<1> QED BY <1>1, EngineInvariant, PTL

(* The retry budget holds across failures, rejections and crashes. *)
THEOREM BudgetHolds == DirectOnly /\ OneReviewSession => (EngineSpec => []RetryBudget)
<1>1. EngineInv => RetryBudget
  BY DEF EngineInv
<1> QED BY <1>1, EngineInvariant, PTL

(* The engine implements the documented status flow: every behaviour of its   *)
(* sessions, jobs, polls and crashes is one of TaskFlow.                      *)
THEOREM EngineImplementsFlow ==
  DirectOnly /\ OneReviewSession => (EngineSpec => ImplementsFlow)
<1> SUFFICES ASSUME DirectOnly, OneReviewSession PROVE EngineSpec => Flow!Spec
  BY DEF ImplementsFlow
<1>1. Init => Flow!Init
  BY EngineInit
<1>2. EngineInv /\ [EngineNext]_vars => [Flow!Next]_(Flow!flow)
  BY EngineStep
<1> QED BY <1>1, <1>2, EngineInvariant, PTL DEF EngineSpec, Flow!Spec

--------------------------------------------------------------------------------
(* Gateway runs. A run id leaves the metadata of a task and comes back to it *)
(* through copies: the metadata a dispatch session read before it called the *)
(* gateway, and the snapshots a reconciliation works through. Holds names    *)
(* all of these places at once; the invariant is that no run id is held for  *)
(* two tasks, in whichever of these places, and that a run held anywhere has *)
(* been started.                                                             *)

Holds(t, r) ==
  \/ run[t] = r
  \/ \E d \in Dispatchers : claimed[d] = t /\ metaRun[d] = r
  \/ \E k \in Reconcilers : \E s \in snapshots[k] : s.task = t /\ s.run = r

HeldByOne == \A r \in Runs : \A t, u \in Tasks : Holds(t, r) /\ Holds(u, r) => t = u

HeldIsStarted == \A r \in Runs : \A t \in Tasks : Holds(t, r) => runState[r] # "free"

PendingHasRun == \A t \in Tasks : async[t] = "pending" => run[t] # NoRun

RunInv == TypeOK /\ HeldByOne /\ HeldIsStarted /\ PendingHasRun

(* What a step may do to the places: copy within a task and drop, or, when a  *)
(* call is accepted, enter one new run for one task.                          *)
CopiesOnly ==
  /\ \A r \in Runs : \A t \in Tasks : Holds(t, r)' => Holds(t, r)
  /\ \A r \in Runs : runState[r] # "free" => runState'[r] # "free"
  /\ PendingHasRun'

EntersOne(u, q) ==
  /\ runState[q] = "free" /\ runState'[q] # "free"
  /\ \A r \in Runs : \A t \in Tasks : Holds(t, r)' => Holds(t, r) \/ (t = u /\ r = q)
  /\ \A r \in Runs : runState[r] # "free" => runState'[r] # "free"
  /\ PendingHasRun'

LEMMA CopiesKeep == RunInv /\ CopiesOnly => HeldByOne' /\ HeldIsStarted' /\ PendingHasRun'
BY DEF RunInv, CopiesOnly, HeldByOne, HeldIsStarted

LEMMA EnteringKeeps ==
  ASSUME RunInv, NEW u \in Tasks, NEW q \in Runs, EntersOne(u, q)
  PROVE  HeldByOne' /\ HeldIsStarted' /\ PendingHasRun'
BY DEF RunInv, EntersOne, HeldByOne, HeldIsStarted

LEMMA Untouched ==
  ASSUME RunInv, UNCHANGED <<async, run, claimed, metaRun, snapshots, runState>>
  PROVE  CopiesOnly
BY DEF RunInv, CopiesOnly, Holds, PendingHasRun

LEMMA ReleaseCopies ==
  ASSUME RunInv, NEW d \in Dispatchers, Release(d), UNCHANGED <<async, run, runState>>
  PROVE  CopiesOnly
<1>1. /\ claimed' = [claimed EXCEPT ![d] = NoTask]
      /\ metaRun' = [metaRun EXCEPT ![d] = NoRun]
      /\ UNCHANGED snapshots
  BY DEF Release
<1>2. \A r \in Runs : \A t \in Tasks : Holds(t, r)' => Holds(t, r)
  BY <1>1, SetsAssumption DEF Holds, RunInv, TypeOK
<1> QED BY <1>2 DEF CopiesOnly, RunInv, PendingHasRun

LEMMA DispatchCopies ==
  ASSUME RunInv, NEW d \in Dispatchers, DispatchStep(d)
  PROVE  CopiesOnly \/ \E u \in Tasks, q \in Runs : EntersOne(u, q)
<1>1. CASE DispatchSelect(d)
  BY <1>1, Untouched DEF DispatchSelect, metaVars, world
<1>2. ASSUME NEW t \in Tasks, DispatchClaim(d, t) PROVE CopiesOnly
  <2>1. /\ claimed' = [claimed EXCEPT ![d] = t]
        /\ metaRun' = [metaRun EXCEPT ![d] = run[t]]
        /\ UNCHANGED <<async, run, snapshots, runState>>
    BY <1>2 DEF DispatchClaim, metaVars, world
  <2>2. \A r \in Runs : \A u \in Tasks : Holds(u, r)' => Holds(u, r)
    BY <2>1 DEF Holds, RunInv, TypeOK
  <2> QED BY <2>1, <2>2 DEF CopiesOnly, RunInv, PendingHasRun
<1>3. ASSUME NEW t \in Tasks, DispatchSkip(d, t) PROVE CopiesOnly
  BY <1>3, Untouched DEF DispatchSkip, metaVars, world
<1>4. CASE DispatchAnswered(d)
  BY <1>4, ReleaseCopies DEF DispatchAnswered, metaVars, world
<1>5. CASE DispatchFailed(d)
  BY <1>5, ReleaseCopies DEF DispatchFailed, metaVars, world
<1>6. ASSUME NEW r \in Runs \cup {NoRun}, DispatchAccepted(d, r)
      PROVE  CopiesOnly \/ \E u \in Tasks, q \in Runs : EntersOne(u, q)
  <2> DEFINE t == claimed[d]
             n == IF r = NoRun THEN metaRun[d] ELSE r
  <2>1. /\ r # NoRun => runState[r] = "free"
        /\ async' = Column(async, t, AsyncState(r))
        /\ run' = Column(run, t, n)
        /\ runState' = [q \in Runs |-> IF q = r THEN "active" ELSE runState[q]]
        /\ claimed' = [claimed EXCEPT ![d] = NoTask]
        /\ metaRun' = [metaRun EXCEPT ![d] = NoRun]
        /\ UNCHANGED snapshots
    BY <1>6 DEF DispatchAccepted, Release, NewRun
  <2>2. t \in Tasks \cup {NoTask} /\ n \in Runs \cup {NoRun}
    BY DEF RunInv, TypeOK
  <2>3. /\ async \in [Tasks -> AsyncStates] /\ run \in [Tasks -> Runs \cup {NoRun}]
        /\ runState \in [Runs -> {"free", "active", "finished"}]
    BY DEF RunInv, TypeOK
  <2>4. \A q \in Runs : runState[q] # "free" => runState'[q] # "free"
    BY <2>1, <2>3
  <2>5. PendingHasRun'
    <3> SUFFICES ASSUME NEW u \in Tasks, async'[u] = "pending" PROVE run'[u] # NoRun
      BY DEF PendingHasRun
    <3>1. CASE u = t /\ Exists(t)
      <4>1. AsyncState(r) = "pending"
        BY <2>1, <2>3, <3>1 DEF Column
      <4>2. r # NoRun
        BY <4>1 DEF AsyncState
      <4> QED BY <2>1, <2>3, <3>1, <4>2 DEF Column
    <3>2. CASE ~(u = t /\ Exists(t))
      <4>1. async'[u] = async[u] /\ run'[u] = run[u]
        BY <2>1, <2>3, <3>2 DEF Column
      <4> QED BY <4>1 DEF RunInv, PendingHasRun
    <3> QED BY <3>1, <3>2
  <2>6. ASSUME NEW q \in Runs, NEW u \in Tasks, Holds(u, q)'
        PROVE  Holds(u, q) \/ (u = t /\ q = r)
    <3>1. CASE run'[u] = q
      <4>1. run'[u] = IF u = t /\ Exists(t) THEN n ELSE run[u]
        BY <2>1, <2>3 DEF Column
      <4>2. CASE run'[u] = run[u]
        BY <3>1, <4>2 DEF Holds
      <4>3. CASE u = t /\ n = q
        BY <4>3, SetsAssumption DEF Holds
      <4> QED BY <3>1, <4>1, <4>2, <4>3
    <3>2. CASE \E e \in Dispatchers : claimed'[e] = u /\ metaRun'[e] = q
      BY <2>1, <3>2, SetsAssumption DEF Holds, RunInv, TypeOK
    <3>3. CASE \E k \in Reconcilers : \E s \in snapshots'[k] : s.task = u /\ s.run = q
      BY <2>1, <3>3 DEF Holds
    <3> QED BY <2>6, <3>1, <3>2, <3>3 DEF Holds
  <2>7. CASE r = NoRun \/ t = NoTask
    <3>1. \A q \in Runs : \A u \in Tasks : Holds(u, q)' => Holds(u, q)
      BY <2>6, <2>7, SetsAssumption
    <3> QED BY <2>4, <2>5, <3>1 DEF CopiesOnly
  <2>8. CASE r # NoRun /\ t # NoTask
    <3>1. r \in Runs /\ t \in Tasks /\ runState[r] = "free" /\ runState'[r] # "free"
      BY <2>1, <2>2, <2>8
    <3>2. EntersOne(t, r)
      BY <2>4, <2>5, <2>6, <3>1 DEF EntersOne
    <3> QED BY <3>1, <3>2
  <2> QED BY <2>7, <2>8
<1> QED BY <1>1, <1>2, <1>3, <1>4, <1>5, <1>6 DEF DispatchStep

LEMMA ReconcileCopies ==
  ASSUME RunInv, NEW k \in Reconcilers, ReconcileStep(k)
  PROVE  CopiesOnly
<1>1. CASE ReconcileSelect(k)
  <2>1. PICK S \in SUBSET Tasks :
          snapshots' = [snapshots EXCEPT ![k] = {SnapshotOf(t) : t \in {u \in S : run[u] # NoRun}}]
    BY <1>1 DEF ReconcileSelect, Selections
  <2>2. UNCHANGED <<async, run, claimed, metaRun, runState>>
    BY <1>1 DEF ReconcileSelect, metaVars, dispatchVars, world
  <2>3. ASSUME NEW r \in Runs, NEW u \in Tasks, Holds(u, r)' PROVE Holds(u, r)
    <3>1. ASSUME NEW j \in Reconcilers, NEW s \in snapshots'[j], s.task = u, s.run = r
          PROVE  Holds(u, r)
      <4>1. CASE j = k
        <5>1. PICK t \in S : s = SnapshotOf(t)
          BY <2>1, <3>1, <4>1 DEF RunInv, TypeOK
        <5> QED BY <3>1, <5>1 DEF SnapshotOf, Holds
      <4>2. CASE j # k
        BY <2>1, <3>1, <4>2 DEF Holds, RunInv, TypeOK
      <4> QED BY <4>1, <4>2
    <3> QED BY <2>2, <2>3, <3>1 DEF Holds
  <2> QED BY <2>2, <2>3 DEF CopiesOnly, RunInv, PendingHasRun
<1>2. ASSUME NEW s \in snapshots[k], ReconcileCompleted(k, s) PROVE CopiesOnly
  <2>1. /\ snapshots' = [snapshots EXCEPT ![k] = @ \ {s}]
        /\ async' = [async EXCEPT ![s.task] = "completed"]
        /\ run' = [run EXCEPT ![s.task] = s.run]
        /\ UNCHANGED <<claimed, metaRun, runState>>
    BY <1>2 DEF ReconcileCompleted, dispatchVars, world
  <2>2. \A r \in Runs : \A u \in Tasks : Holds(u, r)' => Holds(u, r)
    BY <2>1 DEF Holds, RunInv, TypeOK
  <2>3. PendingHasRun'
    BY <2>1 DEF RunInv, PendingHasRun, TypeOK
  <2> QED BY <2>1, <2>2, <2>3 DEF CopiesOnly
<1>3. ASSUME NEW s \in snapshots[k], ReconcilePassedOver(k, s) PROVE CopiesOnly
  <2>1. /\ snapshots' = [snapshots EXCEPT ![k] = @ \ {s}]
        /\ UNCHANGED <<async, run, claimed, metaRun, runState>>
    BY <1>3 DEF ReconcilePassedOver, metaVars, dispatchVars, world
  <2>2. \A r \in Runs : \A u \in Tasks : Holds(u, r)' => Holds(u, r)
    BY <2>1 DEF Holds, RunInv, TypeOK
  <2> QED BY <2>1, <2>2 DEF CopiesOnly, RunInv, PendingHasRun
<1> QED BY <1>1, <1>2, <1>3 DEF ReconcileStep

(* The other jobs, the world and the queue. *)
LEMMA OthersCopy ==
  ASSUME RunInv,
         \/ RouteInbox \/ RequeueStale
         \/ \E v \in Reviewers : ReviewStep(v)
         \/ World \/ Polling \/ Crash
  PROVE  CopiesOnly
<1> USE DEF metaVars, sessionVars, dispatchVars, world
<1>1. CASE RouteInbox
  BY <1>1, Untouched DEF RouteInbox
<1>2. CASE RequeueStale
  BY <1>2, Untouched DEF RequeueStale
<1>3. ASSUME NEW v \in Reviewers, ReviewStep(v) PROVE CopiesOnly
  BY <1>3, Untouched DEF ReviewStep, ReviewSelect, ReviewBegin, ReviewApproved, ReviewRejected,
                         ReviewErred, EndReview
<1>4. CASE World
  <2>1. CASE \E r \in Runs : RunFinishes(r)
    <3>1. /\ UNCHANGED <<async, run, claimed, metaRun, snapshots>>
          /\ \A r \in Runs : runState[r] # "free" => runState'[r] # "free"
      BY <2>1 DEF RunFinishes, RunInv, TypeOK
    <3> QED BY <3>1 DEF CopiesOnly, Holds, RunInv, PendingHasRun
  <2>2. CASE ~\E r \in Runs : RunFinishes(r)
    BY <1>4, <2>2, Untouched DEF World, Stall, SessionAges, AgentStateChanges, ProvidersChange
  <2> QED BY <2>1, <2>2
<1>5. CASE Polling
  BY <1>5, Untouched DEF Polling, QueuePoll
<1>6. CASE Crash
  <2>1. /\ claimed' = [d \in Dispatchers |-> NoTask]
        /\ metaRun' = [d \in Dispatchers |-> NoRun]
        /\ snapshots' = [k \in Reconcilers |-> {}]
        /\ UNCHANGED <<async, run, runState>>
    BY <1>6 DEF Crash
  <2>2. \A r \in Runs : \A u \in Tasks : Holds(u, r)' => Holds(u, r)
    BY <2>1, SetsAssumption DEF Holds
  <2> QED BY <2>1, <2>2 DEF CopiesOnly, RunInv, PendingHasRun
<1> QED BY <1>1, <1>2, <1>3, <1>4, <1>5, <1>6

LEMMA HandlersCopy ==
  ASSUME RunInv, Board \/ Ungated
  PROVE  CopiesOnly
<1>1. ASSUME NEW t \in Tasks, run' = [run EXCEPT ![t] = NoRun],
             async' = [async EXCEPT ![t] = "none"],
             UNCHANGED <<claimed, metaRun, snapshots, runState>>
      PROVE  CopiesOnly
  <2>1. \A r \in Runs : \A u \in Tasks : Holds(u, r)' => Holds(u, r)
    BY <1>1, SetsAssumption DEF Holds, RunInv, TypeOK
  <2>2. PendingHasRun'
    BY <1>1 DEF RunInv, PendingHasRun, TypeOK
  <2> QED BY <1>1, <2>1, <2>2 DEF CopiesOnly
<1> USE DEF metaVars, sessionVars, dispatchVars, world
<1>2. ASSUME NEW t \in Tasks, NEW s, NEW a, NEW m, PutTask(t, s, a, m) PROVE CopiesOnly
  <2>1. CASE m = Omitted
    BY <1>2, <2>1, Untouched DEF PutTask
  <2>2. CASE m # Omitted
    BY <1>1, <1>2, <2>2 DEF PutTask
  <2> QED BY <2>1, <2>2
<1>3. ASSUME NEW t \in Tasks, NEW s, ReportTask(t, s) PROVE CopiesOnly
  BY <1>1, <1>3 DEF ReportTask
<1>4. ASSUME NEW S, NEW wanted, BulkPut(S, wanted) PROVE CopiesOnly
  BY <1>4, Untouched DEF BulkPut
<1>5. ASSUME NEW t, NEW a, MentionAgent(t, a) PROVE CopiesOnly
  BY <1>5, Untouched DEF MentionAgent
<1>6. ASSUME NEW t, NEW reviewer, NEW v, PostReview(t, reviewer, v) PROVE CopiesOnly
  BY <1>6, Untouched DEF PostReview
<1>7. ASSUME NEW t, DeleteTask(t) PROVE CopiesOnly
  BY <1>7, Untouched DEF DeleteTask
<1>8. ASSUME NEW t, NEW s, NEW a, NEW targeted, CreateTask(t, s, a, targeted) PROVE CopiesOnly
  BY <1>8, Untouched DEF CreateTask
<1> HIDE DEF metaVars, sessionVars, dispatchVars, world
<1> QED BY <1>2, <1>3, <1>4, <1>5, <1>6, <1>7, <1>8 DEF Board, Ungated

LEMMA RunInvariant == Spec => []RunInv
<1>1. Init => RunInv
  <2> SUFFICES ASSUME Init PROVE RunInv
    OBVIOUS
  <2>1. TypeOK
    BY InitType
  <2>2. \A r \in Runs : \A t \in Tasks : ~Holds(t, r)
    BY SetsAssumption DEF Init, Holds
  <2>3. PendingHasRun
    BY DEF Init, PendingHasRun
  <2> QED BY <2>1, <2>2, <2>3 DEF RunInv, HeldByOne, HeldIsStarted
<1>2. RunInv /\ [Next]_vars => RunInv'
  <2> SUFFICES ASSUME RunInv, [Next]_vars PROVE RunInv'
    OBVIOUS
  <2>1. TypeOK'
    BY StepType DEF RunInv
  <2>2. CASE UNCHANGED vars
    BY <2>1, <2>2, Untouched, CopiesKeep
       DEF vars, metaVars, sessionVars, dispatchVars, world, RunInv
  <2>3. CASE Next
    <3>1. CopiesOnly \/ \E u \in Tasks, q \in Runs : EntersOne(u, q)
      BY <2>3, DispatchCopies, ReconcileCopies, OthersCopy, HandlersCopy
         DEF Next, GatedNext, EngineNext, Automation
    <3> QED BY <2>1, <3>1, CopiesKeep, EnteringKeeps DEF RunInv
  <2> QED BY <2>2, <2>3
<1> QED BY <1>1, <1>2, PTL DEF Spec

(* A gateway run completes at most one task: with every writer of the tasks   *)
(* table and any number of sessions, no run id crosses from one task to       *)
(* another.                                                                   *)
THEOREM RunsDoNotCross == Spec => []RunOfOneTask
<1>1. RunInv => RunOfOneTask
  BY DEF RunInv, RunOfOneTask, HeldByOne, Holds, TypeOK
<1> QED BY <1>1, RunInvariant, PTL

(* Reconciliation only ever waits for runs the gateway has started.           *)
THEOREM PendingRunsStarted == Spec => []PendingRunStarted
<1>1. RunInv => PendingRunStarted
  BY DEF RunInv, PendingRunStarted, HeldIsStarted, PendingHasRun, Holds, TypeOK
<1> QED BY <1>1, RunInvariant, PTL
===============================================================================
