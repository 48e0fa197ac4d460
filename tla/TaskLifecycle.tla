----------------------------- MODULE TaskLifecycle -----------------------------
(****************************************************************************)
(* The task engine: the scheduler jobs of lib/task-dispatch.ts, the HTTP    *)
(* handlers that write the tasks table, and the agents and providers they   *)
(* talk to.                                                                 *)
(*                                                                          *)
(* The database is synchronous (better-sqlite3), so code between two awaits *)
(* is one step, and what interleaves are the awaits: a dispatch session     *)
(* waits for a provider or for the gateway with one claimed task in hand    *)
(* and the rest of its batch still to do; a review session waits for the    *)
(* Aegis verdict; a reconciliation works through a snapshot of metadata.    *)
(* The scheduler's own job and every manual trigger (POST /api/scheduler)   *)
(* or task read (GET /api/tasks) that starts another one are the members of *)
(* Dispatchers, Reviewers and Reconcilers.                                  *)
(*                                                                          *)
(* Claims are per SQL statement, as the comment at their UPDATE intends     *)
(* ("concurrent scheduler ticks or multiple workers polling"): other steps  *)
(* may come between the SELECT of a batch and each claim.                   *)
(****************************************************************************)
EXTENDS TaskStatus, Naturals, Sequences, FiniteSets

CONSTANTS
  Tasks,           \* rows the tasks table may hold
  InitialTasks,    \* those that exist at the start
  Targeted,        \* those created with metadata.target_session
  Registered,      \* agent names with a row in the agents table
  AgentStates,     \* the agents.status values in play
  Runs,            \* gateway run ids
  Modes,           \* possible values of direct
  Dispatchers, Reviewers, Reconcilers,
  Coordinator,     \* MC_COORDINATOR_AGENT, Blank when not configured
  Bodies,          \* status values HTTP bodies carry in this instance
  Reports,         \* status values adapters report in this instance
  DispatchRetries, ReviewRetries,
  DispatchBatch, ReviewBatch, RouteBatch, ReconcileBatch,
  RouteCapacity,   \* in_progress tasks at which the router skips an agent
  Capacities,      \* max_capacity values agents poll with
  MaxAttempts,     \* bound: counters stop here, above every limit the code compares them with
  NoTask, NoRun

(* What the status column may hold: the API keeps to the vocabulary, adapters *)
(* report "completed" on their own.                                           *)
StatusColumn == Statuses \cup {"completed"}

ASSUME SetsAssumption ==
  /\ InitialTasks \subseteq Tasks
  /\ Targeted \subseteq Tasks
  /\ Registered \subseteq Agents
  /\ AgentStates \subseteq {"idle", "busy", "sleeping", "error", "offline"}
  /\ "idle" \in AgentStates
  /\ Modes \in (SUBSET BOOLEAN) \ {{}}
  /\ Bodies \subseteq Statuses
  /\ Reports \subseteq StatusColumn
  /\ Coordinator \in Agents \cup {Blank}
  /\ NoTask \notin Tasks
  /\ NoRun \notin Runs

ASSUME LimitsAssumption ==
  /\ DispatchRetries \in Nat \ {0}
  /\ ReviewRetries \in Nat \ {0}
  /\ ReviewRetries <= DispatchRetries
  /\ {DispatchBatch, ReviewBatch, RouteBatch, ReconcileBatch} \subseteq Nat \ {0}
  /\ RouteCapacity \in Nat
  /\ Capacities \subseteq 1..20
  /\ MaxAttempts \in Nat
  /\ MaxAttempts > DispatchRetries

VARIABLES
  (* the tasks table *)
  status, assignee,
  attempts,      \* dispatch_attempts
  age,           \* updated_at: fresh, stale (over 10 minutes old), frozen (text: never old)
  async,         \* metadata.async_state
  run,           \* metadata.dispatch_run_id
  target,        \* metadata.target_session is set
  (* quality_reviews and comments *)
  verdict,       \* latest review by aegis
  rejections,    \* rejection comments by aegis
  (* dispatch sessions *)
  batch, claimed, call,
  metaRun,       \* run id in the metadata read before the await
  started,       \* age of the time the session took at its start
  (* review and reconciliation sessions *)
  reviewBatch, reviewing, snapshots,
  (* the world *)
  agentState,
  direct,        \* !isGatewayAvailable() && isDirectDispatchAvailable()
  runState

rowVars == <<status, attempts, age>>
metaVars == <<async, run, target>>
reviewVars == <<verdict, rejections>>
dispatchVars == <<batch, claimed, call, metaRun, started>>
sessionVars == <<dispatchVars, reviewBatch, reviewing, snapshots>>
world == <<agentState, direct, runState>>
vars == <<rowVars, assignee, metaVars, reviewVars, sessionVars, world>>

NoRow == {"absent", "deleted"}
Ages == {"fresh", "stale", "frozen"}
AsyncStates == {"none", "pending", "accepted_without_run_id", "completed"}
Calls == {"none", "direct", "session", "agent"}
Snapshot == [task : Tasks, run : Runs, target : BOOLEAN]

TypeOK ==
  /\ status \in [Tasks -> StatusColumn \cup NoRow]
  /\ assignee \in [Tasks -> Assignees]
  /\ attempts \in [Tasks -> Nat]
  /\ age \in [Tasks -> Ages]
  /\ async \in [Tasks -> AsyncStates]
  /\ run \in [Tasks -> Runs \cup {NoRun}]
  /\ target \in [Tasks -> BOOLEAN]
  /\ verdict \in [Tasks -> {"none", "approved", "rejected"}]
  /\ rejections \in [Tasks -> Nat]
  /\ batch \in [Dispatchers -> SUBSET Tasks]
  /\ claimed \in [Dispatchers -> Tasks \cup {NoTask}]
  /\ call \in [Dispatchers -> Calls]
  /\ metaRun \in [Dispatchers -> Runs \cup {NoRun}]
  /\ started \in [Dispatchers -> {"fresh", "stale"}]
  /\ reviewBatch \in [Reviewers -> SUBSET Tasks]
  /\ reviewing \in [Reviewers -> Tasks \cup {NoTask}]
  /\ snapshots \in [Reconcilers -> SUBSET Snapshot]
  /\ agentState \in [Registered -> AgentStates]
  /\ direct \in BOOLEAN
  /\ runState \in [Runs -> {"free", "active", "finished"}]

Init ==
  /\ assignee \in [Tasks -> Registered \cup {Unassigned}]
  /\ status = [t \in Tasks |-> IF t \in InitialTasks
                               THEN NormalizeTaskCreateStatus("inbox", assignee[t])
                               ELSE "absent"]
  /\ \A t \in Tasks \ InitialTasks : assignee[t] = Unassigned
  /\ attempts = [t \in Tasks |-> 0]
  /\ age = [t \in Tasks |-> "fresh"]
  /\ async = [t \in Tasks |-> "none"]
  /\ run = [t \in Tasks |-> NoRun]
  /\ target = [t \in Tasks |-> t \in Targeted]
  /\ verdict = [t \in Tasks |-> "none"]
  /\ rejections = [t \in Tasks |-> 0]
  /\ batch = [d \in Dispatchers |-> {}]
  /\ claimed = [d \in Dispatchers |-> NoTask]
  /\ call = [d \in Dispatchers |-> "none"]
  /\ metaRun = [d \in Dispatchers |-> NoRun]
  /\ started = [d \in Dispatchers |-> "fresh"]
  /\ reviewBatch = [v \in Reviewers |-> {}]
  /\ reviewing = [v \in Reviewers |-> NoTask]
  /\ snapshots = [k \in Reconcilers |-> {}]
  /\ agentState = [a \in Registered |-> "idle"]
  /\ direct \in Modes
  /\ runState = [r \in Runs |-> "free"]

--------------------------------------------------------------------------------
(* Slips: definitions the code might have had instead of the ones below. Each *)
(* breaks a property; PROJECT.json says which and in which run.               *)

CountedNot(n) == n
RetriedUnknown(t, limit) == IF attempts[t] + 1 >= limit THEN "error" ELSE "assigned"
RetriedOnceMore(t, limit) == IF attempts[t] + 1 > limit THEN "failed" ELSE "assigned"
RetriedForever(t, limit) == "assigned"
AgentOfflineIfKnown(a) == a \in Registered /\ agentState[a] = "offline"
ClaimableAnyway(t) == status[t] \notin {"absent", "deleted"}
RunReused(r) == runState[r] # "finished"
AwaitingReviewToo == {t \in Tasks : status[t] \in {"review", "quality_review"}}
RequeueAlways == TRUE
AnyAegisReview(t) == verdict[t] # "none"

--------------------------------------------------------------------------------
(* Helpers. *)

Exists(t) == status[t] \notin NoRow

(* UPDATE ... WHERE id = ?: no row, no effect. *)
Column(f, t, value) == IF Exists(t) THEN [f EXCEPT ![t] = value] ELSE f

(* UPDATE tasks SET status, dispatch_attempts, updated_at WHERE id = ?. *)
SetRowSince(t, s, n, since) ==
  /\ status' = Column(status, t, s)
  /\ attempts' = Column(attempts, t, n)
  /\ age' = Column(age, t, since)

SetRow(t, s, n) == SetRowSince(t, s, n, "fresh")

SetStatus(t, s) == SetRow(t, s, attempts[t])

(* The outcome of a SELECT over a set of candidates with a LIMIT, for any ORDER BY. *)
Selections(candidates, limit) ==
  {S \in SUBSET candidates :
     Cardinality(S) = IF Cardinality(candidates) <= limit
                      THEN Cardinality(candidates) ELSE limit}

InProgress(a) == {t \in Tasks : status[t] = "in_progress" /\ assignee[t] = a}

(* LEFT JOIN agents: a name without a row has no status at all. *)
AgentOffline(a) == a \notin Registered \/ agentState[a] = "offline"

(* One more, up to the bound. *)
Counted(n) == IF n < MaxAttempts THEN n + 1 ELSE n

Retried(t, limit) == IF attempts[t] + 1 >= limit THEN "failed" ELSE "assigned"

--------------------------------------------------------------------------------
(* autoRouteInboxTasks: no await, so the whole batch is one step. The score   *)
(* ranks the agents by the words of the task, so the best one may be any.     *)

Routable ==
  {a \in Registered :
     /\ agentState[a] \notin {"offline", "error"}
     /\ direct \/ agentState[a] # "sleeping"
     /\ Cardinality(InProgress(a)) < RouteCapacity}

InboxTasks == {t \in Tasks : status[t] = "inbox" /\ assignee[t] = Unassigned}

RouteInbox ==
  \E S \in Selections(InboxTasks, RouteBatch) :
    /\ S # {}
    /\ Routable # {}
    /\ \E pick \in [S -> Routable] :
         /\ status' = [t \in Tasks |-> IF t \in S THEN "assigned" ELSE status[t]]
         /\ assignee' = [t \in Tasks |-> IF t \in S THEN pick[t] ELSE assignee[t]]
         /\ age' = [t \in Tasks |-> IF t \in S THEN "fresh" ELSE age[t]]
    /\ UNCHANGED <<attempts, metaVars, reviewVars, sessionVars, world>>

--------------------------------------------------------------------------------
(* dispatchAssignedTasks, by session d. *)

Idle(d) == batch[d] = {} /\ claimed[d] = NoTask

DispatchSelect(d) ==
  /\ Idle(d)
  /\ \E S \in Selections({t \in Tasks : status[t] = "assigned" /\ assignee[t] \in Registered},
                         DispatchBatch) :
       /\ S # {}
       /\ batch' = [batch EXCEPT ![d] = S]
       /\ started' = [started EXCEPT ![d] = "fresh"]
  /\ UNCHANGED <<rowVars, assignee, metaVars, reviewVars, claimed, call, metaRun,
                 reviewBatch, reviewing, snapshots, world>>

(* UPDATE ... WHERE id = ? AND status = 'assigned': changes = 1. *)
Claimable(t) == status[t] = "assigned"

(* The claim, and the choice of provider up to the await. The claim writes    *)
(* the time the session started at, not the time of the claim.                *)
DispatchClaim(d, t) ==
  /\ claimed[d] = NoTask
  /\ t \in batch[d]
  /\ Claimable(t)
  /\ SetRowSince(t, "in_progress", attempts[t], started[d])
  /\ batch' = [batch EXCEPT ![d] = @ \ {t}]
  /\ claimed' = [claimed EXCEPT ![d] = t]
  /\ call' = [call EXCEPT ![d] = IF target[t] THEN "session"
                                 ELSE IF direct THEN "direct" ELSE "agent"]
  /\ metaRun' = [metaRun EXCEPT ![d] = run[t]]
  /\ UNCHANGED <<started, assignee, metaVars, reviewVars, reviewBatch, reviewing, snapshots,
                 world>>

(* changes = 0: somebody else took the task since the SELECT. *)
DispatchSkip(d, t) ==
  /\ claimed[d] = NoTask
  /\ t \in batch[d]
  /\ ~Claimable(t)
  /\ batch' = [batch EXCEPT ![d] = @ \ {t}]
  /\ UNCHANGED <<rowVars, assignee, metaVars, reviewVars, claimed, call, metaRun, started,
                 reviewBatch, reviewing, snapshots, world>>

(* Back from the await: session d goes on with the rest of its batch. *)
Release(d) ==
  /\ claimed' = [claimed EXCEPT ![d] = NoTask]
  /\ call' = [call EXCEPT ![d] = "none"]
  /\ metaRun' = [metaRun EXCEPT ![d] = NoRun]
  /\ UNCHANGED <<batch, started, reviewBatch, reviewing, snapshots>>

(* The provider answered: the task goes to review whatever became of it meanwhile. *)
DispatchAnswered(d) ==
  /\ call[d] = "direct"
  /\ SetStatus(claimed[d], "review")
  /\ Release(d)
  /\ UNCHANGED <<assignee, metaVars, reviewVars, world>>

(* The idempotency key holds the task and the time: every accepted call       *)
(* starts a run of its own.                                                   *)
NewRun(r) == runState[r] = "free"

AsyncState(r) == IF r = NoRun THEN "accepted_without_run_id" ELSE "pending"

(* The gateway accepted: only the metadata is written, over the copy read     *)
(* before the await. r is NoRun when the answer carries no run id.            *)
DispatchAccepted(d, r) ==
  LET t == claimed[d] IN
  /\ call[d] \in {"session", "agent"}
  /\ r # NoRun => NewRun(r)
  /\ async' = Column(async, t, AsyncState(r))
  /\ run' = Column(run, t, IF r = NoRun THEN metaRun[d] ELSE r)
  /\ target' = Column(target, t, call[d] = "session")
  /\ age' = Column(age, t, "fresh")
  /\ runState' = [q \in Runs |-> IF q = r THEN "active" ELSE runState[q]]
  /\ Release(d)
  /\ UNCHANGED <<status, attempts, assignee, reviewVars, agentState, direct>>

(* An error, a timeout, an empty answer or a bad status. *)
DispatchFailed(d) ==
  LET t == claimed[d] IN
  /\ t # NoTask
  /\ SetRow(t, Retried(t, DispatchRetries), Counted(attempts[t]))
  /\ Release(d)
  /\ UNCHANGED <<assignee, metaVars, reviewVars, world>>

(* The comment runAegisReviews leaves, and the LIKE pattern the dispatcher     *)
(* looks it up with when it builds the prompt.                                *)
RejectionComment == <<"Quality Review Rejected", " (attempt n/3)", ":", "notes">>
FeedbackPattern == <<"Quality Review Rejected", ":">>

RejectionFeedback(t) ==
  IF rejections[t] > 0 /\ SubSeq(RejectionComment, 1, Len(FeedbackPattern)) = FeedbackPattern
  THEN RejectionComment ELSE <<>>

DispatchStep(d) ==
  \/ DispatchSelect(d)
  \/ \E t \in Tasks : DispatchClaim(d, t) \/ DispatchSkip(d, t)
  \/ DispatchAnswered(d)
  \/ \E r \in Runs \cup {NoRun} : DispatchAccepted(d, r)
  \/ DispatchFailed(d)

--------------------------------------------------------------------------------
(* runAegisReviews, by session v. None of its updates looks at the status.    *)

AwaitingReview == {t \in Tasks : status[t] = "review"}

ReviewSelect(v) ==
  /\ reviewBatch[v] = {} /\ reviewing[v] = NoTask
  /\ \E S \in Selections(AwaitingReview, ReviewBatch) :
       /\ S # {}
       /\ reviewBatch' = [reviewBatch EXCEPT ![v] = S]
  /\ UNCHANGED <<rowVars, assignee, metaVars, reviewVars, dispatchVars,
                 reviewing, snapshots, world>>

ReviewBegin(v, t) ==
  /\ reviewing[v] = NoTask
  /\ t \in reviewBatch[v]
  /\ SetStatus(t, "quality_review")
  /\ reviewBatch' = [reviewBatch EXCEPT ![v] = @ \ {t}]
  /\ reviewing' = [reviewing EXCEPT ![v] = t]
  /\ UNCHANGED <<assignee, metaVars, reviewVars, dispatchVars, snapshots, world>>

EndReview(v) ==
  /\ reviewing[v] # NoTask
  /\ reviewing' = [reviewing EXCEPT ![v] = NoTask]
  /\ UNCHANGED <<assignee, metaVars, dispatchVars, reviewBatch, snapshots, world>>

(* A slip: the review is recorded without its foreign key. *)
ReviewApprovedAnyway(v) ==
  LET t == reviewing[v] IN
  /\ EndReview(v)
  /\ verdict' = [verdict EXCEPT ![t] = "approved"]
  /\ SetStatus(t, "done")
  /\ UNCHANGED rejections

ReviewApproved(v) ==
  LET t == reviewing[v] IN
  /\ EndReview(v)
  /\ verdict' = Column(verdict, t, "approved")
  /\ SetStatus(t, "done")
  /\ UNCHANGED rejections

(* The rejection counts against dispatch_attempts, the counter failed         *)
(* dispatches and stale requeues use too, and leaves a comment.               *)
ReviewRejected(v) ==
  LET t == reviewing[v] IN
  /\ EndReview(v)
  /\ verdict' = Column(verdict, t, "rejected")
  /\ rejections' = Column(rejections, t, Counted(rejections[t]))
  /\ SetRow(t, Retried(t, ReviewRetries), Counted(attempts[t]))

(* An error, a timeout or an empty answer, and no limit on how often. *)
ReviewErred(v) ==
  /\ EndReview(v)
  /\ SetStatus(reviewing[v], "review")
  /\ UNCHANGED reviewVars

ReviewStep(v) ==
  \/ ReviewSelect(v)
  \/ \E t \in Tasks : ReviewBegin(v, t)
  \/ ReviewApproved(v) \/ ReviewRejected(v) \/ ReviewErred(v)

--------------------------------------------------------------------------------
(* reconcileDeferredTaskCompletions, by session k: a snapshot of metadata,    *)
(* then one agent.wait after the other.                                       *)

SnapshotOf(t) == [task |-> t, run |-> run[t], target |-> target[t]]

ReconcileSelect(k) ==
  /\ snapshots[k] = {}
  /\ \E S \in Selections({t \in Tasks : status[t] = "in_progress" /\ async[t] = "pending"},
                         ReconcileBatch) :
       snapshots' = [snapshots EXCEPT ![k] = {SnapshotOf(t) : t \in {u \in S : run[u] # NoRun}}]
  /\ snapshots' # snapshots
  /\ UNCHANGED <<rowVars, assignee, metaVars, reviewVars, dispatchVars,
                 reviewBatch, reviewing, world>>

(* The run is over: promote, if the task is still in progress. *)
ReconcileCompleted(k, s) ==
  /\ s \in snapshots[k]
  /\ runState[s.run] = "finished"
  /\ status[s.task] = "in_progress"
  /\ snapshots' = [snapshots EXCEPT ![k] = @ \ {s}]
  /\ SetStatus(s.task, "review")
  /\ async' = [async EXCEPT ![s.task] = "completed"]
  /\ run' = [run EXCEPT ![s.task] = s.run]
  /\ target' = [target EXCEPT ![s.task] = s.target]
  /\ UNCHANGED <<assignee, reviewVars, dispatchVars, reviewBatch, reviewing, world>>

(* Not over, no answer, or the guarded update found the task elsewhere. *)
ReconcilePassedOver(k, s) ==
  /\ s \in snapshots[k]
  /\ snapshots' = [snapshots EXCEPT ![k] = @ \ {s}]
  /\ UNCHANGED <<rowVars, assignee, metaVars, reviewVars, dispatchVars,
                 reviewBatch, reviewing, world>>

ReconcileStep(k) ==
  \/ ReconcileSelect(k)
  \/ \E s \in snapshots[k] : ReconcileCompleted(k, s) \/ ReconcilePassedOver(k, s)

--------------------------------------------------------------------------------
(* requeueStaleTasks: no await either, every stale task in one step. *)

StaleTasks ==
  {t \in Tasks : status[t] = "in_progress" /\ age[t] = "stale" /\ AgentOffline(assignee[t])}

(* In direct mode agents have no heartbeat and are offline by design. *)
RequeueEnabled == ~direct

RequeueStale ==
  /\ RequeueEnabled
  /\ StaleTasks # {}
  /\ status' = [t \in Tasks |-> IF t \in StaleTasks THEN Retried(t, DispatchRetries) ELSE status[t]]
  /\ attempts' = [t \in Tasks |-> IF t \in StaleTasks THEN Counted(attempts[t]) ELSE attempts[t]]
  /\ age' = [t \in Tasks |-> IF t \in StaleTasks THEN "fresh" ELSE age[t]]
  /\ UNCHANGED <<assignee, metaVars, reviewVars, sessionVars, world>>

--------------------------------------------------------------------------------
(* The world around the engine. *)

(* Ten minutes pass without a write. The gateway calls time out sooner        *)
(* (60 and 125 seconds), so a task does not get that old while it waits.      *)
Stall(t) ==
  /\ status[t] = "in_progress"
  /\ age[t] = "fresh"
  /\ ~\E d \in Dispatchers : claimed[d] = t /\ call[d] \in {"session", "agent"}
  /\ age' = [age EXCEPT ![t] = "stale"]
  /\ UNCHANGED <<status, attempts, assignee, metaVars, reviewVars, sessionVars, world>>

(* Direct calls take up to five minutes each: the rest of the batch may be    *)
(* claimed ten minutes after its session started.                             *)
SessionAges(d) ==
  /\ call[d] = "direct"
  /\ batch[d] # {}
  /\ started[d] = "fresh"
  /\ started' = [started EXCEPT ![d] = "stale"]
  /\ UNCHANGED <<rowVars, assignee, metaVars, reviewVars, batch, claimed, call, metaRun,
                 reviewBatch, reviewing, snapshots, world>>

(* Heartbeats, their timeout (runHeartbeatCheck) and the live status sync. *)
AgentStateChanges(a, s) ==
  /\ agentState[a] # s
  /\ agentState' = [agentState EXCEPT ![a] = s]
  /\ UNCHANGED <<rowVars, assignee, metaVars, reviewVars, sessionVars, direct, runState>>

ProvidersChange ==
  /\ direct' \in Modes \ {direct}
  /\ UNCHANGED <<rowVars, assignee, metaVars, reviewVars, sessionVars, agentState, runState>>

RunFinishes(r) ==
  /\ runState[r] = "active"
  /\ runState' = [runState EXCEPT ![r] = "finished"]
  /\ UNCHANGED <<rowVars, assignee, metaVars, reviewVars, sessionVars, agentState, direct>>

(* The server stops and starts again: the database stays, the sessions do not. *)
Crash ==
  /\ batch' = [d \in Dispatchers |-> {}]
  /\ claimed' = [d \in Dispatchers |-> NoTask]
  /\ call' = [d \in Dispatchers |-> "none"]
  /\ metaRun' = [d \in Dispatchers |-> NoRun]
  /\ started' = [d \in Dispatchers |-> "fresh"]
  /\ reviewBatch' = [v \in Reviewers |-> {}]
  /\ reviewing' = [v \in Reviewers |-> NoTask]
  /\ snapshots' = [k \in Reconcilers |-> {}]
  /\ UNCHANGED <<rowVars, assignee, metaVars, reviewVars, world>>

--------------------------------------------------------------------------------
(* GET /api/tasks/queue: agent a, registered or not, polls with max_capacity. *)

Queued(a) ==
  {t \in Tasks : status[t] \in {"assigned", "inbox"} /\ assignee[t] \in {Unassigned, a}}

QueueReason(a, capacity) ==
  IF InProgress(a) # {} THEN "continue_current"
  ELSE IF Cardinality(InProgress(a)) >= capacity THEN "at_capacity"
  ELSE IF Queued(a) # {} THEN "assigned"
  ELSE "no_tasks_available"

QueuePoll(a, capacity) ==
  /\ QueueReason(a, capacity) = "assigned"
  /\ \E t \in Queued(a) :
       /\ SetStatus(t, "in_progress")
       /\ assignee' = [assignee EXCEPT ![t] = a]
  /\ UNCHANGED <<metaVars, reviewVars, sessionVars, world>>

--------------------------------------------------------------------------------
(* The other handlers that write tasks. *)

HasAegisApproval(t) == verdict[t] = "approved"

(* PUT /api/tasks/:id. m is the metadata of the body: replaced as a whole.    *)
(* Everything omitted stands for a body with only a title, a due date, ...    *)
PutTask(t, s, a, m) ==
  LET ns == NormalizeTaskUpdateStatus(status[t], s, a) IN
  /\ Exists(t)
  /\ ns = "done" => HasAegisApproval(t)
  /\ SetStatus(t, IF ns = Omitted THEN status[t] ELSE ns)
  /\ assignee' = IF a = Omitted THEN assignee ELSE [assignee EXCEPT ![t] = a]
  /\ IF m = Omitted THEN UNCHANGED metaVars
     ELSE /\ async' = [async EXCEPT ![t] = "none"]
          /\ run' = [run EXCEPT ![t] = NoRun]
          /\ target' = [target EXCEPT ![t] = m = "targeted"]
  /\ UNCHANGED <<reviewVars, sessionVars, world>>

(* PUT /api/tasks: one transaction, rolled back if one task lacks approval. *)
BulkPut(S, wanted) ==
  /\ \A t \in S : Exists(t) /\ wanted[t] = "done" => HasAegisApproval(t)
  /\ status' = [t \in Tasks |-> IF t \in S /\ Exists(t) THEN wanted[t] ELSE status[t]]
  /\ age' = [t \in Tasks |-> IF t \in S /\ Exists(t) THEN "fresh" ELSE age[t]]
  /\ UNCHANGED <<attempts, assignee, metaVars, reviewVars, sessionVars, world>>

(* POST /api/tasks/:id/comments with a mention of agent a. *)
MentionAgent(t, a) ==
  /\ Exists(t)
  /\ ~HasAssignee(assignee[t])
  /\ SetStatus(t, IF status[t] = "inbox" THEN "assigned" ELSE status[t])
  /\ assignee' = [assignee EXCEPT ![t] = a]
  /\ UNCHANGED <<metaVars, reviewVars, sessionVars, world>>

(* POST /api/quality-review: whatever the status, whoever the reviewer. *)
PostReview(t, reviewer, v) ==
  /\ Exists(t)
  /\ verdict' = IF reviewer = "aegis" THEN [verdict EXCEPT ![t] = v] ELSE verdict
  /\ SetStatus(t, IF v = "approved" THEN "done" ELSE "in_progress")
  /\ UNCHANGED <<assignee, metaVars, rejections, sessionVars, world>>

(* POST /api/tasks: the status of the body is taken as it is. *)
CreateTask(t, s, requested, targeted) ==
  LET a == ResolveTaskAssignee(requested, Coordinator) IN
  /\ status[t] = "absent"
  /\ status' = [status EXCEPT ![t] = NormalizeTaskCreateStatus(s, a)]
  /\ assignee' = [assignee EXCEPT ![t] = a]
  /\ target' = [target EXCEPT ![t] = targeted]
  /\ UNCHANGED <<attempts, age, async, run, reviewVars, sessionVars, world>>

(* DELETE /api/tasks/:id; reviews and comments go by ON DELETE CASCADE. *)
DeleteTask(t) ==
  /\ Exists(t)
  /\ status' = [status EXCEPT ![t] = "deleted"]
  /\ verdict' = [verdict EXCEPT ![t] = "none"]
  /\ rejections' = [rejections EXCEPT ![t] = 0]
  /\ UNCHANGED <<attempts, age, assignee, metaVars, sessionVars, world>>

(* POST /api/adapters, action report: status and metadata overwritten, and    *)
(* updated_at becomes a text, which no integer threshold ever exceeds.        *)
ReportTask(t, s) ==
  /\ Exists(t)
  /\ status' = [status EXCEPT ![t] = s]
  /\ age' = [age EXCEPT ![t] = "frozen"]
  /\ async' = [async EXCEPT ![t] = "none"]
  /\ run' = [run EXCEPT ![t] = NoRun]
  /\ target' = [target EXCEPT ![t] = FALSE]
  /\ UNCHANGED <<attempts, assignee, reviewVars, sessionVars, world>>

--------------------------------------------------------------------------------
(* Next-state relations, from the engine on its own to everything at once. *)

Automation ==
  \/ RouteInbox
  \/ \E d \in Dispatchers : DispatchStep(d)
  \/ \E v \in Reviewers : ReviewStep(v)
  \/ \E k \in Reconcilers : ReconcileStep(k)
  \/ RequeueStale

World ==
  \/ \E t \in Tasks : Stall(t)
  \/ \E d \in Dispatchers : SessionAges(d)
  \/ \E a \in Registered, s \in AgentStates : AgentStateChanges(a, s)
  \/ ProvidersChange
  \/ \E r \in Runs : RunFinishes(r)

Polling == \E a \in Agents, capacity \in Capacities : QueuePoll(a, capacity)

(* The handlers that keep the Aegis gate. *)
Board ==
  \/ \E t \in Tasks, s \in Bodies \cup {Omitted}, a \in Agents \cup {Blank, Omitted},
        m \in {"plain", "targeted", Omitted} : PutTask(t, s, a, m)
  \/ \E S \in (SUBSET Tasks) \ {{}} : \E wanted \in [S -> Bodies] : BulkPut(S, wanted)
  \/ \E t \in Tasks, a \in Registered : MentionAgent(t, a)
  \/ \E t \in Tasks, v \in {"approved", "rejected"} : PostReview(t, "aegis", v)
  \/ \E t \in Tasks : DeleteTask(t)

(* The handlers that can complete a task without it. *)
Ungated ==
  \/ \E t \in Tasks, v \in {"approved", "rejected"} : PostReview(t, "human", v)
  \/ \E t \in Tasks, s \in Reports : ReportTask(t, s)
  \/ \E t \in Tasks, s \in Bodies \cup {Omitted}, a \in Agents \cup {Blank, Omitted},
        targeted \in BOOLEAN : CreateTask(t, s, a, targeted)

EngineNext == Automation \/ World \/ Polling \/ Crash
GatedNext == EngineNext \/ Board
Next == GatedNext \/ Ungated

EngineSpec == Init /\ [][EngineNext]_vars
GatedSpec == Init /\ [][GatedNext]_vars
Spec == Init /\ [][Next]_vars

--------------------------------------------------------------------------------
(* Invariants of every writer together. *)

(* Deleting a task takes its reviews and comments with it, and a late answer  *)
(* for it (a provider, a verdict, a reconciliation) leaves no row behind.     *)
NoOrphanRows ==
  \A t \in Tasks : ~Exists(t) => verdict[t] = "none" /\ rejections[t] = 0

(* A gateway run completes at most one task: run ids never cross between      *)
(* tasks through the metadata copies that sessions carry over their awaits.   *)
RunOfOneTask ==
  \A t, u \in Tasks : run[t] = run[u] /\ run[t] # NoRun => t = u

(* What reconciliation will wait for is a run the gateway did start. *)
PendingRunStarted ==
  \A t \in Tasks : async[t] = "pending" => run[t] # NoRun /\ runState[run[t]] # "free"

(* dispatch_attempts of an existing task never goes down, and one step counts *)
(* one attempt: the shared counter loses no failure to another session.       *)
AttemptsOnlyGrow ==
  [][\A t \in Tasks : attempts'[t] \in {attempts[t], attempts[t] + 1}]_vars

(* A deleted task stays deleted: every late write is an UPDATE of no row. *)
DeletedStaysDeleted ==
  [][\A t \in Tasks : status[t] = "deleted" => status'[t] = "deleted"]_vars

(* Where only the gated handlers write: a finished task has the approval of   *)
(* Aegis as its latest review, whatever sessions overlapped on the way.       *)
DoneHasApproval ==
  \A t \in Tasks : status[t] = "done" => verdict[t] = "approved"

--------------------------------------------------------------------------------
(* Invariants of the engine with direct providers: no gateway, hence no run   *)
(* to reconcile, and no session target; reviews by one session at a time.     *)

DirectOnly == Modes = {TRUE} /\ Targeted = {} /\ InitialTasks = Tasks

OneReviewSession == \A v, w \in Reviewers : v = w

(* The answer a dispatch session waits for still belongs to its task. *)
HeldIsInProgress ==
  \A d \in Dispatchers : claimed[d] # NoTask => status[claimed[d]] = "in_progress"

(* The claim keeps sessions apart: no task is worked on twice at a time. *)
HeldOnce ==
  \A d, e \in Dispatchers : claimed[d] = claimed[e] /\ claimed[d] # NoTask => d = e

(* What a review session has yet to do has not moved on behind its back. *)
ReviewIsCurrent ==
  \A v \in Reviewers :
    /\ \A t \in reviewBatch[v] : status[t] = "review"
    /\ reviewing[v] # NoTask => status[reviewing[v]] = "quality_review"
    /\ reviewing[v] \notin reviewBatch[v]

(* The budget: an unfinished task has attempts left, and only a task that     *)
(* has used up at least the review budget is failed.                          *)
RetryBudget ==
  \A t \in Tasks :
    /\ attempts[t] <= DispatchRetries
    /\ attempts[t] = DispatchRetries => status[t] = "failed"
    /\ status[t] = "failed" => attempts[t] >= ReviewRetries

Flow == INSTANCE TaskFlow WITH
          Tasks <- Tasks, DispatchRetries <- DispatchRetries,
          ReviewRetries <- ReviewRetries, status <- status, attempts <- attempts

(* The engine implements the documented status flow. *)
ImplementsFlow == Flow!Spec

--------------------------------------------------------------------------------
(* Liveness. *)

(* The scheduler keeps ticking, sessions run on, and every call to a provider *)
(* or to the gateway returns or times out.                                    *)
Fairness ==
  /\ WF_vars(RouteInbox)
  /\ \A d \in Dispatchers : WF_vars(DispatchStep(d))
  /\ \A v \in Reviewers : WF_vars(ReviewStep(v))
  /\ \A k \in Reconcilers : WF_vars(ReconcileStep(k))
  /\ WF_vars(RequeueStale)

(* Time passes for a task nobody writes. *)
TimePasses == \A t \in Tasks : WF_vars(Stall(t))

SteadySpec == Init /\ [][Automation \/ World]_vars /\ Fairness
CrashingSpec == EngineSpec /\ Fairness /\ TimePasses

(* An assigned task ends its round of dispatches: it reaches a review or is   *)
(* failed, however the failures and the sessions interleave.                  *)
DispatchSettles ==
  \A t \in Tasks : status[t] = "assigned" ~> status[t] \in {"review", "failed"}

(* An unassigned task in the inbox is routed while some agent can take it. *)
InboxIsRouted ==
  \A t \in Tasks :
    (status[t] = "inbox" /\ ~HasAssignee(assignee[t]) /\ Routable # {})
      ~> (status[t] # "inbox" \/ HasAssignee(assignee[t]) \/ Routable = {})

(* The two queues in front of an agent both move.                             *)
TasksSettle == InboxIsRouted /\ DispatchSettles

(* A task left in progress by an agent that stays offline, or by a crash of   *)
(* the server, is recovered.                                                  *)
Unattended(t) ==
  /\ status[t] = "in_progress"
  /\ assignee[t] \in Registered => agentState[assignee[t]] = "offline"

StuckIsRecovered == \A t \in Tasks : Unattended(t) ~> ~Unattended(t)

--------------------------------------------------------------------------------
(* What the documentation and the comments say, and the code does not do. *)

(* "Rejected tasks are re-dispatched with the feedback included in the        *)
(* prompt" (docs/orchestration.md): the lookup of the dispatcher finds the    *)
(* rejection comment of a task it has claimed again.                          *)
FeedbackReachesAgent ==
  \A d \in Dispatchers :
    claimed[d] # NoTask /\ rejections[claimed[d]] > 0 => RejectionFeedback(claimed[d]) # <<>>

(* The status flow of docs/orchestration.md has no arrow out of done. *)
DoneIsFinal ==
  [][\A t \in Tasks : status[t] = "done" => status'[t] = "done"]_vars

===============================================================================
