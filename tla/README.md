# Mission Control: a verification project

Mission Control (AgentForge) is a Next.js server over one SQLite database. It
keeps a board of tasks, routes them to agents, has them worked on by a gateway
(OpenClaw) or by a model provider called directly, has the results reviewed by
"Aegis", and tells the outside world through webhooks and GitHub. This
directory models its concurrent core in TLA+, checks the models with TLC and
proves the central invariants with TLAPS. Source paths below are relative to
`src/src/` unless they start with `docs/`.

## 1. The system

### How it executes

One Node process. The database driver (better-sqlite3) is synchronous, so the
code between two `await`s is atomic; what interleaves is

* the scheduler (`lib/scheduler.ts`): every minute `tick` runs the jobs that are
  due, one after the other, each guarded by its own `running` flag. The jobs of
  the task engine are `task_dispatch` (route, reconcile, dispatch),
  `aegis_review`, `stale_task_requeue`; others are `webhook_retry`,
  `recurring_task_spawn`, `agent_heartbeat`, syncs, backup and cleanup;
* manual triggers (`POST /api/scheduler`, `triggerTask`), which call the same
  functions **without** looking at the flag, and `GET /api/tasks`, which starts a
  reconciliation: two sessions of one job can overlap;
* HTTP handlers, each a transaction or a few synchronous statements between the
  parse of its body and its answer;
* gateway runs, providers and agents outside the process, whose answers arrive
  while the database has moved on;
* crashes: sessions are lost, rows stay;
* browsers: the stores, timers and sockets of the pages, whose requests, events
  and answers pass each other on the way.

### Components

| Component | State | Operations | Interacts with |
|---|---|---|---|
| Task engine (`lib/task-dispatch.ts`) | `tasks` (status, assigned_to, dispatch_attempts, updated_at, metadata), `quality_reviews`, `comments`; a batch per session | `autoRouteInboxTasks`, `dispatchAssignedTasks`, `reconcileDeferredTaskCompletions`, `runAegisReviews`, `requeueStaleTasks` | scheduler, gateway, providers, agents table, event bus, GitHub push |
| Task status rules (`lib/task-status.ts`, `lib/validation.ts`) | none | normalisation of status and assignee | task handlers |
| Task handlers (`app/api/tasks/**`, `app/api/quality-review`) | `tasks`, `quality_reviews`, `comments` | create, update, bulk update, delete, queue poll, mention, review | board, agents, engine |
| Adapters (`lib/adapters/*`, `app/api/adapters`) | `tasks`, `agents` | register, heartbeat, `reportTask`, assignments | external agent frameworks |
| Scheduler (`lib/scheduler.ts`) | `tasks` map of jobs: running, nextRun | `tick`, `triggerTask`, heartbeat check | every job |
| Webhooks (`lib/webhooks.ts`, `app/api/webhooks`) | `webhooks`, `webhook_deliveries`; calls in flight | fire, deliver, retry, breaker, prune, CRUD, test, manual retry | event bus, scheduler, endpoints |
| Pipelines (`app/api/pipelines`) | `pipeline_runs` (status, current_step, steps_snapshot) | start, advance, cancel | gateway CLI |
| Provisioning (`lib/super-admin.ts`) | `tenants`, `provision_jobs`, steps | create, transition, execute (two-person rule), decommission | provisioner daemon |
| Recurring tasks (`lib/recurring-tasks.ts`, `lib/schedule-parser.ts`) | templates in `tasks.metadata` | `spawnRecurringTasks`, cron matching | scheduler |
| GitHub sync (`lib/github-sync-engine.ts`, poller) | `tasks.github_*`, `github_syncs`, projects | push, pull, poll | GitHub, engine |
| GNAP sync (`lib/gnap-sync.ts`) | files of a git repository | push, pull, status mapping | task handlers |
| Notifications (`app/api/notifications`) | `notifications` (delivered_at); a batch per delivery | create, deliver, mark, delete | gateway CLI, the notification daemon |
| Rate limiter (`lib/rate-limit.ts`) | maps of counters with a reset time | admit, evict, clean | every mutating handler |
| Authentication (`lib/auth.ts`, `app/api/auth`, `app/api/setup`) | `users`, `user_sessions`, `access_requests` | login, logout, accounts, password, requests, first-time setup | every handler |
| Event bus and SSE (`lib/event-bus.ts`, `app/api/events`) | subscribers | broadcast, stream | engine, handlers, UI |
| Gateway client (`lib/openclaw-gateway.ts`, `lib/websocket.ts`) | sockets, handshake, heartbeat, attempts, timers | connect, handshake, ping, fall back, reconnect, disconnect | gateway |
| Task board (`components/panels/task-board-panel.tsx`, `store`, `lib/use-server-events.ts`, `lib/use-smart-poll.ts`) | the cards of one browser; fetches and moves under way | fetch, poll, events, drag and drop | event bus, task handlers |
| Chat (`components/chat`, `store`, `app/api/chat/messages`) | `messages`; the messages and pending texts one browser shows | send, retry, remove, open, load, poll, events; insert, forward, reply, broadcast | gateway, event bus |
| Agent records (`lib/agent-sync.ts`, `lib/local-agent-sync.ts`, `app/api/agents`) | `agents`, `openclaw.json`, definitions in local directories | create, register, edit, delete with a write-back to the file; sync from the file and from the disk | scheduler, gateway, operators |
| Skills (`lib/skill-sync.ts`, `lib/skill-registry.ts`, `app/api/skills`) | `skills`, a `SKILL.md` for each | save, install, delete, sync | scheduler, registries, operators |
| Agent runs and evals (`lib/runs.ts`, `agent-evals.ts`) | `agent_runs` | create, update, evaluate, hash | API |
| Exec approvals, PTY, memory, security scan, sessions of CLIs, the other UI panels, docs | files, processes, browser state | I/O and display | operators |

### What is hard

* an answer that comes back after its task was requeued, reviewed, edited or
  deleted (every `UPDATE tasks ... WHERE id = ?` after an `await`);
* two sessions of one job over the same rows; batches selected before the first
  await and used after several;
* one counter, `dispatch_attempts`, shared by dispatch failures, stale requeues
  and review rejections, each with its own limit;
* metadata read before a gateway call and written back as a whole after it;
* crashes between a claim and its outcome, and who recovers the task then;
* retries that must neither be lost nor run twice;
* a caller identified before an await, and acted for after it;
* state shared by the handlers of several sockets, of which an older one still
  has its end to report;
* three ways by which news reaches a browser (events, fetches, the answers to its
  own calls), each of which may be older than what it overwrites, come twice, or
  not come.

`PROJECT.json` lists the hazards at their lines with the properties that watch them.

### What makes each part correct

* Engine: a task is worked on by one session at a time; its status follows the
  flow of `docs/orchestration.md`; attempts are counted exactly and bounded; an
  assigned task is eventually reviewed or failed; a stuck one is recovered.
* Gate: nothing is done without the approval of Aegis where the handlers that
  check it write.
* Webhooks: an event is on its way at most once at a time, is not lost silently,
  and the breaker counts real consecutive failures.
* Pipelines: no step passed over, a failure stops where it should, final states final.
* Provisioning: nobody executes a live job that a second person has not approved.
* Accounts: a session belongs to an account that exists and to its latest
  password; one first administrator. Limiter: the promised limit, and never more
  than two windows of it.
* Recurring tasks: one task per template and minute. Scheduler: no job is
  stopped by another. Notifications: repeated only for a reason,
  and delivered in the end.
* GitHub: an edit of an issue is not lost silently. Gateway: one socket, shown as
  it is, watched, given up in the end.
* Agents and skills: rows and files say the same, and where a save failed or two
  writers met the next sync sets it right.
* Board: what it shows is what the server says, once the news has arrived.

## 2. The modules

| Module | What it is |
|---|---|
| `TaskStatus` | `lib/task-status.ts` and the status vocabulary, pure operators |
| `TaskLifecycle` | the engine, the handlers that write `tasks`, the world; all properties of them |
| `TaskFlow` | the abstract specification: the documented status flow with its retry limits |
| `MCTaskLifecycle` | the instances of `TaskLifecycle` for TLC |
| `TaskLifecycleProofs` | type correctness, what every writer respects, the Aegis gate |
| `TaskEngineProofs` | the engine with direct providers and its refinement of `TaskFlow`; gateway runs and tasks |
| `Webhooks` | deliveries, retries, circuit breaker |
| `Pipelines` | runs of a pipeline around the await of a spawn |
| `Provisioning` | tenants, their jobs and the executions of these |
| `Access` | accounts, sessions, access requests, first-time setup |
| `RateLimit` | the counters of the limiters |
| `RecurringTasks` | templates, the spawner, the prevention of duplicates |
| `Scheduler` | overlapping ticks of the timer over the jobs |
| `Notifications` | the table and its delivery through the gateway |
| `GitHubSync` | pushes and pulls of tasks and issues |
| `AgentRecords` | `openclaw.json`, the definitions on disk and the rows of agents |
| `SkillSync` | skills on disk and in the table |
| `GatewayClient` | the browser's connection to the gateway |
| `TaskBoard` | one browser's board, its stream, its fetches, its moves of cards |
| `Chat` | the chat of one browser and the table of messages |
| `MCRecords` | `Provisioning`, `GitHubSync`, `AgentRecords`, `SkillSync` for TLC |
| `MCEdges` | `Access`, `RateLimit`, `RecurringTasks`, `TaskBoard`, `Chat` for TLC |
| `MCCalls` | `Webhooks`, `GatewayClient` for TLC |
| `MCPolls` | `Pipelines`, `Scheduler`, `Notifications`, `TaskBoard` for TLC |
| `RecordsProofs`, `CallsProofs`, `PollsProofs`, `EdgesProofs` | the theorems about the components of the MC module of that name |
| `TaskBoardProofs`, `ChatProofs` | the board and the chat alone, from assumptions on their parameters; the modules above take them up |

No two of these state machines share a variable: no handler of one writes a
table or a field of another. What connects them appears in each as a choice of
its surroundings: any event may be fired at any time (`Webhooks`), a writer of
`tasks` may or may not tell the stream (`TaskBoard`), a job of the scheduler may
hang (`Scheduler`, because of a webhook), an edit form may write a template back
(`RecurringTasks`), a refused request is a step that is not taken (`Access`,
`RateLimit`), people and the gateway write the files they share with the server
(`AgentRecords`, `SkillSync`). `TaskFlow` is the exception: `TaskLifecycle` instantiates it and
implements it.

The four MC modules put such components side by side in one run: the first state
says in `moves` which of them moves, and the others stay in their first state.
TLC so explores the states of each and never a product of two. A property of a
component that stands still is checked in one state; where it is a liveness
property it holds there for the component's fair actions are all disabled in its
first state. In `MCEdges` all but `Access` use the same variables in turn, under
the names `v1` to `v14`: a component that does not move has no state there, and
its properties are stated for the behaviours in which it does.

### TaskLifecycle and the code

The rows of `tasks` are functions of the task: `status`, `assignee`, `attempts`
(dispatch_attempts), `age` (what `updated_at` says about the ten-minute
threshold), and three fields of the metadata JSON, `async`, `run`, `target`.
`verdict` is the latest row of `quality_reviews` by Aegis, `rejections` the
number of rejection comments. A dispatch session `d` is `batch[d]` (selected, not
yet claimed), `claimed[d]` and `call[d]` (the task and the call it awaits),
`metaRun[d]` (the run id in the copy of the metadata read before the await) and
`started[d]` (the time it read once, with which it stamps its claims). A review
session is `reviewBatch[v]` and `reviewing[v]`; a reconciliation `snapshots[k]`.
`Dispatchers`, `Reviewers` and `Reconcilers` are the overlapping sessions.

| Action | Code |
|---|---|
| `RouteInbox` | `autoRouteInboxTasks`, all of it: no await inside |
| `DispatchSelect`, `DispatchClaim`, `DispatchSkip` | SELECT; conditional UPDATE with changes 1; with changes 0 |
| `DispatchAnswered`, `DispatchAccepted`, `DispatchFailed` | direct answer; gateway acceptance (metadata only); the catch |
| `ReviewSelect`, `ReviewBegin`, `ReviewApproved`, `ReviewRejected`, `ReviewErred` | `runAegisReviews` around its await |
| `ReconcileSelect`, `ReconcileCompleted`, `ReconcilePassedOver` | `reconcileDeferredTaskCompletions` |
| `RequeueStale` | `requeueStaleTasks`, all of it |
| `QueuePoll` | `GET /api/tasks/queue` |
| `PutTask`, `BulkPut`, `MentionAgent`, `PostReview`, `CreateTask`, `DeleteTask`, `ReportTask` | the handlers |
| `Stall`, `SessionAges`, `AgentStateChanges`, `ProvidersChange`, `RunFinishes`, `Crash` | time, agents, configuration, gateway, process |

Three next-state relations are nested: `EngineNext` (engine, world, queue polls,
crashes), `GatedNext` (plus the handlers that keep the Aegis gate), `Next` (plus
the ones that do not: other reviewers, adapters, creation with a status).

Abstractions, each on the side of more behaviours unless noted:

* the ORDER BY of a SELECT with LIMIT is any choice of that many rows; a batch
  is then worked through in any order;
* claims are steps of their own, so other steps may come between the claims of
  one batch even where the code has no await between them (a skipped task);
* counters stop at `MaxAttempts`, above every limit they are compared with;
* gateway calls time out after 60 and 125 seconds, so a task does not become ten
  minutes old during one (`Stall`); direct calls may last that long in sum;
* `reportTask` writes `updated_at` as a text, which SQLite orders above every
  integer: the age is `frozen`, never stale;
* reviews of the same second have no defined order in the code; the model takes
  the later one as the latest;
* one workspace; agents are never deleted; hidden agents are not told apart;
* "no row" is `absent` (never created) or `deleted`: ids are not reused. A late
  INSERT of a review or comment for a deleted task fails its foreign key and the
  catch block then updates no row; that is a late answer without effect.

### Webhooks and the code

A row of `webhook_deliveries` is a record with its `due` (what `next_retry_at`
says); `inflight` is the set of running `deliverWebhook` calls; `Answered` is the
whole of the bookkeeping after the answer: row, counter, schedule, breaker,
prune. `TakeRetries` is `processWebhookRetries` up to its first await. Ids stand
for the order of `created_at` (rows of the same second have no defined order in
the code). The counter stops at `MaxRetries`, the only number it is compared
with. At most one delivery by hand is in flight at a time, and `MaxRows` bounds
how many there are.

A call is assumed to be answered. Its timer is cleared when the headers are
there, and the body is read after that without one (`lib/webhooks.ts:216-217`):
an endpoint that never ends its body keeps its job in flight for ever, which the
model contains as `Answered` not being taken, but `Fairness`, and so `RoundsEnd`
(the second half of `EventsSettle`), excludes. What such a job does to the others
is a question about the ticks, and `Scheduler` has jobs that hang.

### Pipelines and the code

A row of `pipeline_runs` is `status`, `cursor` (current_step, from 1) and
`snapshot` (the statuses in steps_snapshot). A session in `spawning` is a
request that awaits `runOpenClaw` in `spawnStep`; `copy` is its own list of
steps, parsed before the await and written back after it, and `moves` tells
`advanceRun`, which then also writes the cursor, from `startPipeline`. A spawn
that fails writes the same list with an error text. Without a template there is
no await, and start and advance are one step. `reached` and `overlapped` are
history: which steps a run got to, and whether another request wrote the run
during a spawn. The list of steps is copied into the run at its start, so later
edits of the pipeline do not concern it; `DELETE` takes the runs with it (a
foreign key with cascade). All runs here are of one pipeline: its list only
matters through its length and its `on_failure`.

| Action | Code |
|---|---|
| `StartPipeline` | `startPipeline` up to its await |
| `AdvanceFails`, `AdvanceCompletes`, `AdvanceSpawns` | the three ends of `advanceRun` |
| `Spawned` | after the await, `UPDATE ... WHERE id = ?` with no condition on the status |
| `CancelRun`, `DeletePipeline`, `Crash` | cancel; DELETE; the process |

### Provisioning and the code

`tenant` is `tenants.status`; `job` is what a row of `provision_jobs` says of
its request and its approver, `status` its status. A session in `execution` is
a call of `executeProvisionJob` between its first await and its outcome, with
the status of the tenant it read (`previous`) and the step it is at.
`allowExec` is the environment variable of the running process, which only a
`Restart` changes. `started` and `lost` are history: who ran a job last, which
jobs lost their session with the process.

| Action | Code |
|---|---|
| `CreateTenant`, `RequestDecommission`, `RegisterLocal` | the requests; a tenant of `POST /api/super/os-users` in local mode has no job |
| `Approve`, `Reject`, `Cancel` | `transitionProvisionJobStatus` |
| `Execute`, `ExecuteDisabled` | `executeProvisionJob` up to its first await; a live job without `MC_SUPER_PROVISION_EXEC` fails before it |
| `StepDone`, `LastStepDone`, `StepFailed` | the loop over the plan, the end, the catch |
| `Restart` | the process |

A plan is a number of steps. `ensureProvisionArtifacts` throws before the first
write or writes files no decision reads, so it is no step. Dry runs await too:
in the default mode the daemon is asked about them.

### Access and the code

`account`, `session` and `request` are the three tables. A handler that calls
`requireRole` and then `await request.json()` is two steps, and `pending` is what
it has read in between: the operation and the id of its caller (`Api` is the
global API key). `session` remembers, as history, with which password of its
account it was opened; `changes` counts the passwords.

| Action | Code |
|---|---|
| `Login`, `Logout`, `GoogleSignIn`, `Disconnect` | the synchronous parts of `auth/login`, `auth/logout`, `auth/google`, `auth/google/disconnect` |
| `BeginAdmin`, `BeginPassword`, `BeginSetup`, `Refuse` | a handler up to its await; a body that does not come or is not valid |
| `CreateUser`, `UpdateUser`, `DeleteUser` | `auth/users` after the await |
| `Reject`, `Approve` | `auth/access-requests` |
| `ChangePassword` | `PATCH auth/me`: all sessions of the account end, one is made |
| `Setup` | `setup`, with its second look at the table of users |

Roles are administrator or not. Proxy authentication, agent keys and several
workspaces are left out.

### RateLimit, RecurringTasks, Scheduler, Notifications and the code

`RateLimit`: `store` is the map of a limiter. `Open`, `OpenByEviction` and
`CountMore` are the three ends of its check, `Cleanup` its interval. `passed` (the
times of the requests of one client let through, in their order) and `forgotten` (its counter was
evicted or lost in a restart within its window) are history.

`RecurringTasks`: time is a number of minutes in a calendar whose hours, days,
weeks and years have the lengths the configuration says (`Day` counts the days
from the first). `Spawn` is
`spawnRecurringTasks`, all of it. `ReadMetadata` and `WriteMetadata` are the other
writers of `tasks.metadata` around their awaits; `setBack` is history: such a
writer has taken the latest spawn back. The titles of templates are taken to be
distinct, so a title is its template and its date.

`Scheduler`: a tick under way is its age and its place in the list of jobs; of
times only differences matter, so a job has an `overdue` instead of its
`nextRun`. `Fire` is the timer, `Skip`, `Start`, `End` and `Finish` the turns of
the loop, `SwitchSetting` an operator, `Stop` the end of the process. Jobs in `Hung`
may never end. Ages stop at `MaxAge` for ticks that do not hang.

`Notifications`: `batch` is the set of what a call of `notifications/deliver` has
selected and not sent yet; the smallest of them is the next. A message is sent and
then marked: `Accepted` is both, `AnswerLost` a message that was taken while its
sender learned nothing of it, `Refused` one that was not, `Crash` the process in
the middle. `received` and `doubts` are history. Ids stand for the order of
`created_at`.

### GitHubSync and the code

One project, its tasks and its issues, one clock in seconds (GitHub's is taken to
agree with the server's). A push holds the task as it was when it started and is
`sent`, then `landed` at GitHub, then answered. A pull has read `since`, then got
the issues as they were. `Process` is everything after the answer, the loop over
the issues included. `Echo` stands for the ten seconds within which an issue is
taken for the echo of a push. `unseen` (a person's edit that no pull has looked
at) and `missed` (the ones passed over by a failed pull or taken for an echo) are
history.

| Action | Code |
|---|---|
| `CreateTask`, `ChangeTask` | a task handler and the push nobody waits for |
| `Lands`, `PushAnswered`, `PushFails` | `pushTaskToGitHub` around its await |
| `StartPull`, `Answers`, `Process`, `PullFails` | `pullFromGitHub` |
| `Edit` | a person on GitHub |

### AgentRecords, SkillSync and the code

`AgentRecords`: `row` is the table `agents`, `file` the list in `openclaw.json`,
`disk` the definitions in the local directories. A request that goes on to the
file is in `request`: what it set, the configuration of the row before it
(`before`), how far it is with `readFile` and `writeFile`, and the list it will
write. `writeFile` truncates and then writes, so between the two the file is
`torn`; two writers that overlap leave the text of one of them or no JSON. A sync
is its reading of the file (`copy`) and, after its await, one step. `doubt` (agents
that were edited without the file, on which two writers met, or for which a
warning was given) and `unseen` (definitions no job has looked at) are history.

| Action | Code |
|---|---|
| `Register`, `EditRow` | `agents/register`, `agents` without the gateway: the row alone |
| `Create`, `Edit`, `Delete` | `POST agents`, `PUT` and `DELETE agents/:id` up to their await |
| `Reads`, `FindsNoEntry`, `Truncates`, `Written`, `Fails` | `writeAgentToConfig` and `removeAgentFromConfig` around their awaits, and what the handler does then: the revert of the row, its deletion, the warning |
| `ReadConfig`, `SyncConfig` | `syncAgentsFromConfig` |
| `SyncLocal` | `syncLocalAgents`, all of it |
| `EditFile`, `EditDisk`, `Crash` | people and the gateway; the process |

A version stands for the fields the write-back carries; every name has an id of
its own in the list. The status, the soul and the files of an agent's workspace
are left out.

`SkillSync`: `doc` is the `SKILL.md` on the disk (`Partial` for any half-written
one), `row` the hash and the slug of the table. A request is at one of its awaits
(`stage`), and `met` says that others have touched the directory meanwhile.
`behind` is history: skills on which two requests or a person met, or whose
request failed, until the job has looked at them.

| Action | Code |
|---|---|
| `Save`, `Install`, `Delete` | the handlers of `api/skills` and `installFromRegistry` up to their first write |
| `Opens`, `Writes`, `Records` | `mkdir` and `writeFile` in two steps; the upsert |
| `Removes`, `Forgets` | `rm`; the deletion of the row |
| `Fails` | an exception at any of these |
| `Sync` | `syncSkillsFromDisk`, all of it |
| `EditDoc`, `Crash` | people who work on the disk; the process |

### GatewayClient and the code

The `useRef`s of `lib/websocket.ts` are variables of the module that every handler
of every socket reads and writes; a socket itself is its `readyState`, its URL, how
far its handshake is and whether its network has fallen silent. A timer that the
code can still clear is `timer`; one it has lost the reference to is in `strays`.
`overtaken` is history: an older socket has reported its end after the current
one was opened.

| Action | Code |
|---|---|
| `Connect`, `Disconnect`, `Reconnect` | the hook's functions, called by the page or a person |
| `TimerFires`, `StrayFires` | the callbacks of `setTimeout`, which call `connect` |
| `Opens`, `Challenge`, `Signed`, `Accepted` | `onopen`; the challenge up to its await and after it; the response |
| `DeviceRefused`, `Blocked` | the error frames: once without the device, or never again |
| `HeartbeatTick`, `Pong`, `FallsSilent` | the interval, an answer to a ping, the network |
| `OnClose` | `onclose`: fallback path, next attempt, or nothing |

`Opens` waits for a challenge without a timeout, and no heartbeat runs before the
handshake: a gateway that is silent from the start is not noticed. The properties
speak of connections that are shown.

### TaskBoard and the code

`row` is the table, `pipe` the events on their way to one browser, `cards` what its
store shows. `fetch` is the list requests of the panel, `move` the cards that are
dragged or whose outcome is awaited. `doubt` is history: a task of which the
browser may have missed or overwritten something (a write that broadcasts
nothing, an event lost with the stream, a fetch that passed an event, a move that
was taken back). `crossed` are the tasks with two moves at once.

| Action | Code |
|---|---|
| `CreateTask`, `ChangeTask`, `DeleteTask` | any writer of `tasks`, with its broadcast or without one |
| `Attach`, `Break` | `GET /api/events` |
| `OnOpen`, `OnError`, `Retry`, `OnMessage` | the `EventSource` of `use-server-events.ts` and its dispatch to the store |
| `Mount`, `Poll`, `Refresh`, `Served`, `FetchFails`, `Fetched` | the panel's `fetchData`, polled by `use-smart-poll.ts` unless the stream is open |
| `Drag`, `Drop`, `Checked`, `PutApplied`, `Accepted`, `TakenBack` | `handleDragStart` and `handleDrop` around their awaits |

A hidden tab, the filter by project and the backoff of the polls are left out: a
poll may always be late.

### Chat and the code

`message` is the table in the order of its ids, `post` the sends and retries of one
browser and the handlers that serve them, `shown` its list (`chatMessages`): rows
with their ids, and texts that are being sent or have failed. `events` and
`streaming` are its stream, `load` the loads of a conversation. History: `overtook`
are messages whose event came before the answer to their POST, `unheard` the texts
of which the browser was told a failure, `refused` those answered with 400 or 422,
`unsure` the messages of the open conversation that the stream has lost or a load
has left out.

| Action | Code |
|---|---|
| `Send`, `Retry`, `RemoveFailed` | `handleSend` and `handleRetry` up to their awaits; the button of a failed text |
| `OpenConversation`, `CloseConversation`, `Poll`, `Served`, `Loaded`, `LoadFails` | `loadMessages`, when the conversation changes and by `use-smart-poll.ts` unless the stream is open; `GET /api/chat/messages` |
| `Received`, `Forwarded`, `RunReported` | `POST /api/chat/messages`: the insertion with what needs no gateway, the answer of `chat.send` or `agent`, the end of `agent.wait` |
| `Refused`, `HandlerStops` | the early returns; a handler that throws or stops when nobody hears it any more |
| `Answered`, `AnsweredWithout`, `PostFails` | what `handleSend` and `handleRetry` make of the answer, or of none |
| `OthersSend` | messages of agents and of other browsers |
| `OnOpen`, `OnError`, `OnMessage` | the stream, with both ends in one step: `TaskBoard` has them apart |

`slice(-500)` of the store is `slice` with `ListMax` entries, three in the run; a
message that a full list lets go is in `unsure`. The tool calls that a run reports
are replies like its end, and are left out.

## 3. What TLC checks

Every property of a passing run has a mutant in `PROJECT.json`: a plausible bug
in a mapped definition under which the run fails.

| Run | Instance | Shows |
|---|---|---|
| `engine_direct` | two tasks, two dispatch sessions, one review session, limits 5 and 3 as in the code, crashes, polls | a late answer meets a task still in progress, claims exclude each other, review batches are current, the budget holds, the engine implements `TaskFlow` |
| `engine_gateway` | two tasks (one with a target session), two runs, reconciliation, stale requeues, an agent without a row, crashes; limits 2 | runs do not cross between tasks, stuck tasks are recovered |
| `gated` | one task, two overlapping review sessions, dispatcher, reconciler, every gated handler, both provider modes | done implies that the latest Aegis review approves |
| `everything` | one task from its creation to its deletion, every writer | types; no row outlives its task |
| `settles` | two tasks, two dispatch sessions with batches of two, no crashes, direct providers | an assigned task is eventually in review or failed; an unassigned inbox task is routed |
| `records` | one tenant, two jobs, two executions at a time, three administrators, plans of two steps, restarts; one task and one issue, a push, two overlapping pulls, a person on GitHub; two agents with three requests, a sync, the local sync and three writes; three skills, two of them in one agent's directory, three requests and three saves | two persons stand behind a live job; a running job is executed by one session or was lost in a restart; dry runs take no tenant down; an edit on GitHub is fetched by the next pull unless a failed or skipping pull passed over it; rows of agents and skills follow their files unless writers met, and the next sync sets those right |
| `edges` | two accounts, two tokens, two requests in flight; a limiter with room for two of three clients; two templates in a calendar of two-day years; a board with one card and two moves; a chat with two conversations, a text of the person's and one of another's, three messages, pages of two, a list that keeps three entries | sessions follow accounts and passwords; one first administrator; the limit is kept; duplicates, and nothing else, are withheld; a minute is spawned twice only after a stale write; the board agrees with the table when nothing is under way or in doubt; a refused move does not stay; a message is shown once and missed never, but for what section 2 counts as history, and said twice only after a failure was shown |
| `calls` | one webhook, two events, three attempts, four kept deliveries, batches of one, administrator, crashes; a browser with three sockets, two fallback paths, two attempts | one attempt at a time; the record is true; events settle; one socket, shown as it is; silence is noticed; reconnecting ends |
| `polls` | a run of three steps with two requests in their spawns, cancellation, deletion, crashes; three overlapping ticks over two jobs, one of which may hang; three notifications, two senders, batches of two; a board with two fetches | no step passed over, a failure stops where it should, final is final, the snapshot tells where the run is; other jobs keep running when one hangs; notifications repeat only for a reason and get past a few refused ones; polling catches up |

The runs with several components are explained in section 2 (`moves`).

Violations, where the code does not do what its documentation or comments say
(`findings` in `PROJECT.json` quotes both):

| Run | Counterexample |
|---|---|
| `feedback_lost` | rejection feedback never reaches the next prompt: the LIKE pattern does not match the comment |
| `done_reopened` | an old run is reconciled under the claim of a new dispatch, the task is completed, and the late failure of the dispatch reopens it |
| `board_stale` | a task changes between the first fetch of the panel and the attachment of the stream; nothing fetches while the stream is open, and the board stays wrong |

Other divergences met while modelling, without a run of their own: the queue
never answers `at_capacity` (`app/api/tasks/queue/route.ts:92`, against
`docs/orchestration.md:101`); fewer than three rejections fail a task whose
dispatches failed before (`lib/task-dispatch.ts:1301`, against
`docs/orchestration.md:173`); a task can be completed without Aegis by another
reviewer, a report or its creation (`app/api/quality-review/route.ts:108`,
`lib/adapters/claude-cli.ts:139`, `app/api/tasks/route.ts:218`, against
`docs/orchestration.md:25`); a task unassigned with an empty string is never
routed again (`lib/validation.ts:45`, `lib/task-dispatch.ts:1882`); adapters
store `completed`, a status outside the vocabulary (`lib/adapters/claude-cli.ts:154`);
dispatch failures are logged as activities and not as comments
(`docs/orchestration.md:145`); two overlapping review sessions (a tick and a
manual trigger, `lib/scheduler.ts:530-544`) review the same task, for the move to
`quality_review` has no condition (`lib/task-dispatch.ts:1229-1230`): `ReviewIsCurrent`
is therefore a property of one review session; with direct providers a crash
leaves its tasks in progress for ever, for the requeue job looks only at agents
that are offline (`lib/task-dispatch.ts:1414-1417`, against
`docs/orchestration.md:287`); a disconnected Google account cannot sign in again,
since its password is random and the check for one always passes
(`app/api/auth/google/disconnect/route.ts:17`); day and month of a cron
expression are not looked at (`lib/schedule-parser.ts:166`), and the titles by
which duplicates are recognised have no year (`lib/recurring-tasks.ts:48`, against
the comment at lines 104-106); the fallback paths of the gateway are also tried
after a handshake that was completed, because the flag is reset six lines before
it is read (`lib/websocket.ts:735-741`).

In the chat: a text the server refuses with 400 or 422 stays "sending" for ever,
for `apiFetch` throws at 401, 403, 404 and from 500 on (`lib/api-client.ts:101-117`),
and not "on non-2xx" as `components/chat/chat-workspace.tsx:198` says (`refused`); a
message whose event comes before the answer to its POST is shown twice, since
`replacePendingMessage` looks for no message of the same id, as `addChatMessage`
does (`store/index.ts:1110` and `1122`, `overtook`); a load shows the oldest hundred
messages of a conversation (`app/api/chat/messages/route.ts:284`), and drops what
is being sent or has failed; the polls that are to serve the conversations of
sessions as well (`components/chat/chat-workspace.tsx:121`) only empty the list
(line 100 there); "Coordinator mode should always show visible coordinator
feedback" (`app/api/chat/messages/route.ts:581`), and shows none when the gateway
answers with a status the code does not know.

What the other models show without a statement in the documentation to hold it
against:

* two advances of one run during a spawn spawn the same step twice, and a late
  one moves the cursor back (`app/api/pipelines/run/route.ts:279`); a late write
  also replaces the snapshot of a run that was cancelled or failed meanwhile, so
  "Mark remaining steps as skipped" (line 243 there) need not last. This is why
  `SnapshotTellsTheRun` excepts `overlapped` runs;
* a job that was running at a restart stays so, for a running job is immutable
  and nothing looks for it (`lib/super-admin.ts:566`); the same holds for a job
  whose daemon closes the connection without an answer (`lib/provisioner-client.ts:93`);
* as many notifications to recipients the gateway does not know as a batch takes
  keep all later ones from being delivered
  (`app/api/notifications/deliver/route.ts:42`), which is why `DeliveredBehindFew`
  supposes that fewer of them wait;
* two pushes of one task open two issues, or the older one arrives last
  (`lib/github-sync-engine.ts:71`); a pull reads one page of a hundred issues
  (line 154 there), which the model has as a pull that reads all;
* two administrators can demote or delete each other with calls that were under
  way at the same time (`app/api/auth/users/route.ts:101`), so nothing is stated
  of how many are left;
* a local definition with the name of a row that somebody else brought makes every
  run of the local sync fail as a whole, since names are unique and the
  transaction is one (`lib/local-agent-sync.ts:268`);
* an edit whose file cannot be written puts back the row it found, over what others
  wrote to it meanwhile (`app/api/agents/[id]/route.ts:148`); a deleted agent comes
  back when a writer or a sync had read the file before; an edit of the row alone
  lasts until the next sync of the file;
* a row of a skill whose agent has no skill left on the disk is never removed, for
  the job knows these directories only from the skills it finds
  (`lib/skill-sync.ts:148`); one that came from a registry keeps its row when its
  file vanishes (line 192 there). `SkillsFollowDisk` says so;
* a dry run writes back the tenant's status it read before its steps
  (`lib/super-admin.ts:820`), over what a live job wrote meanwhile: a tenant can
  be left `provisioning` by nobody.

### Bounds

Two tasks and two sessions are what a race needs: one row, two readers, and a
second row to cross wires with. One registered agent suffices where agents only
matter through their state; a second name without a row covers the LEFT JOIN.
`engine_direct` keeps the limits of the code (5 and 3); the runs with more
writers lower them, which keeps every branch (retry, last retry, fail)
reachable with fewer steps. `everything` has one task because its properties are
about one row and its writers; `settles` needs two so that one task's retries
could starve the other's. `Kept = 4` puts the pruning of webhook deliveries
within reach of one round of retries.

A pipeline has three steps because the first is spawned by start and the last
completes the run: the one between is the only one that advance both spawns and
moves past. Two sessions let one write come back after another; a step with
`on_failure` 'continue' before one with 'stop' reaches both branches. One run is
enough for TLC because the theorems about runs hold for any number of them. Three
administrators are the fewest with which a rule about a requester, an approver
and a runner can be kept and broken; two jobs of one tenant make dry runs and live
ones overlap.

Two accounts make a caller and the account it acts on; two tokens and two
requests in flight let a session be opened while another change is under way.
`Kept = 4`, a limiter with two entries for three clients, and batches of two
among three notifications put the limits within reach. The clock of the limiter
runs over two windows and one step more, the calendar over a year and a minute,
which is when a title repeats. A push, two pulls and three seconds with an
echo of two give every order of an edit and the reads around it. Of three requests
about two agents two can be about one of them and the third about the other, in
one file; three writes let each be a different kind. Two of three skills are an
agent's, so that its last one and one before the last can vanish. Three sockets
are a current one, the one it replaced, and the one that replaces it. Two attempts
and two missed pongs reach the limits and the step before them. Three ticks are
one that hangs, one that is under way and one that begins. Three messages are a
text with the two replies of a coordinator, or one said twice and another's; two
to a page leave one of them out; two conversations let news of one arrive while
the other is open. One post and one load at a time: a load that replaces a later
one's list does to it what it does to events, and the next one sets it right.

### Fairness

`Fairness` of `TaskLifecycle`: the router, each session and the requeue job keep
running. The code justifies it: the scheduler ticks every minute for the life of
the process, jobs are enabled by default, a job's flag is cleared in a
`finally`, and every call a session awaits has a timeout. `TimePasses`: ten
minutes go by for a row nobody writes. Nothing is assumed of agents, polls,
operators, gateway runs or crashes. Liveness is checked without crashes in
`settles` (a crash in direct mode does lose tasks), and with them in
`engine_gateway`.

`Webhooks`: calls return or time out, delays pass, the retry job runs
(`webhooks.retry_enabled` is on by default). `Scheduler`: the interval fires, a
tick goes on, jobs outside `Hung` end. `Notifications`: the daemon calls again and
again, calls of the gateway end within their timeout, and a message to a known
agent that is tried again and again is accepted in the end (strong fairness: the
gateway may be down any number of times). `GatewayClient`: the browser's timers
fire and it reports the end of a socket it closed; nothing is assumed of the
gateway. `TaskBoard`: timers fire, requests are answered or fail, and a fetch that
is repeated for ever succeeds again and again; the stream may break for ever.
`Pipelines`, `Provisioning`, `Access`, `RateLimit`, `RecurringTasks`, `GitHubSync`,
`AgentRecords`, `SkillSync` and `Chat` have no fairness and no liveness property:
they move when somebody asks, and a provisioning step may never answer.

## 4. What is proved

For every value of the constants that satisfies the assumptions of the modules
(several modules of proofs have a `TypeCorrect`; the table names it once):

| Theorem | Specification | Statement |
|---|---|---|
| `TypeCorrect` | `Spec` | `TypeOK` |
| `NoOrphans` | `Spec` | `NoOrphanRows` |
| `DeletedForGood` | `Spec` | `DeletedStaysDeleted` |
| `AttemptsCounted` | `Spec` | `AttemptsOnlyGrow` |
| `GateHolds` | `GatedSpec` | `DoneHasApproval` |
| `LateAnswersAreCurrent`, `ClaimsExclude`, `ReviewsAreCurrent`, `BudgetHolds` | `EngineSpec`, direct providers, one review session | the four invariants of `engine_direct` |
| `EngineImplementsFlow` | the same | `EngineSpec` implements `TaskFlow!Spec` |
| `RunsDoNotCross`, `PendingRunsStarted` | `Spec` | the two invariants of `engine_gateway` |
| `FinalForGood`, `StepsReached`, `FailureStops`, `RunsOrdered`, `SnapshotTells` | `Pipelines!Spec` | `FinalIsFinal`, `NoStepPassedOver`, `FailureStopsRun`, `RunsInOrder`, `SnapshotTellsTheRun` |
| `ExecutionsExclude`, `RunningHasSession`, `RunningHeldOnce`, `TwoPersonsBehind`, `TenantsExplained` | `Provisioning!Spec` | `OneExecution`, `RunningIsHeld`, `RunningIsHeldOnce`, `TwoPersonRule`, `TenantsChangeLive` |
| `SessionsFollow`, `SetupMakesOne` | `Access!Spec` | `SessionsAreCurrent`, `OneFirstAdmin` |
| `SentOnceAtATime`, `RecordTellsTruth` | `Webhooks!Spec` | `OneAttemptAtATime`, `RecordIsTrue` |
| `SkillRows`, `EditsAreFetched`, `AgentRows` | `MCRecords!SpecAll` | `SkillsFollowDisk`, `UnseenIsDueOrMissed`, `RowsFollowSources` |
| `Repeats` | `MCPolls!SpecAll` | `DeliveredForAReason` |
| `Connected` | `MCCalls!SpecAll` | `ConnectionIsShown` |
| `LimiterLimits`, `TwinsPrevented` | `MCEdges!SpecAll` | `LimitIsKept`, `TwinsArePrevented` |
| `BoardTrue`, `BoardStaysTrue` | `TaskBoard!Spec`, `MCEdges!SpecAll` | `BoardIsTrue` |
| `ChatTrue`, `ChatStaysTrue` | `Chat!Spec`, `MCEdges!SpecAll` | `ChatIsTrue` |
| `RecordTypes`, `CallTypes`, `PollTypes`, `EdgeTypes` | `SpecAll` of each | `TypesOK`: the types of every component of the module |

A theorem about a `SpecAll` is one about its components. The first state picks the one
that moves, so the behaviours of `SpecAll` are those of the components, each with
the others at rest; its proof is an induction over the steps of the component
alone, and that a component at rest keeps its first state is the smallest part of it.
So every safety invariant and every action property that a run checks and finds
true is also a theorem, for any number of tasks, sessions, agents, sockets and so on.

The arguments:

* `TypeOK`, `NoOrphanRows` and the gate are inductive next to `TypeOK`. The rows
  are handled by one lemma on `Column` (an UPDATE by id changes one existing row
  or nothing), so an action needs only the values it writes.
* The engine's invariants are inductive together and not one by one:
  `EngineInv` is `TypeOK`, `DirectWorld` (no run is ever started, no target
  appears, no snapshot is taken, which closes the reconciler and the gateway
  calls) and the four invariants. That a late answer is current needs the claims
  to exclude each other; that needs the claim's condition on the status; and
  the budget needs both, for otherwise two failures of one dispatch could be counted.
* `EngineImplementsFlow` maps every action to a conjunction of one abstract step
  per task, most of them stutters. `EngineInv` supplies the starting status of
  each late write.
* `RunInv` says that of all the places that hold a run id (the row, the session's
  copy, a reconciler's snapshot) those of one run name the same task, and that
  a held run was started. The invariants of the two rows follow; on their own
  they are not inductive, for a copy may be written back after any delay.
* The rows of a pipeline run are overwritten by copies at any later time, so
  each invariant of the rows is strengthened by the same statement about every
  copy (`CopiesReached`, `CopiesGoOn`): the steps up to the one a session will
  move to were reached, and no copy shows a failure that stops a run. That the
  copies may come back in any order then does not matter. For `SnapshotTellsTheRun`
  it does: there `TellInv` uses that a run nobody wrote during a spawn has at most
  one copy on its way, and says of the copy what it will make of the row.
* `ExecutionInv` joins types, `OneExecution` and `RunningIsHeld`, which need each
  other: a job is executed once because a running one is not runnable, and it
  says running because its session has not ended. The two-person rule adds what
  `started` recorded; that a tenant's status is explained needs the statuses
  remembered in `previous` to be explained too (`CopiesExplained`).
* `Access`: sessions follow accounts because ids are never reused (`Unused`: above
  `nextId` there is no account, no session and no request in flight), which makes
  a new account one without sessions. That one setup succeeds needs the other
  direction: an account made by the setup page exists only below `nextId`, and
  the second look at the table is in the same step as the insert.
* `Webhooks`: `SendInv` says that rows are numbered once each, that what is to come
  of an event (a call in flight or a row with a retry) is one thing, stated without
  counting, and that nothing is to come of one that succeeded; it is inductive
  because a batch is taken off the schedule in the step that puts it in flight.
  `CountInv` adds that rows are finitely many, at most `Kept` of a webhook, and that
  consecutive failures are recorded. Its hard case is the pruning: the lemma
  `OldestGoes` says that of `Kept + 1` rows exactly the oldest goes, so that a
  failure that leaves the record is one before a success or before all others.
* Skills (`SkillsInv`): of a skill that is not in `behind`, a request that works on
  it does so alone, and its stage tells what the disk and the row are: as they
  should be before it opens the file, the new text on the disk before the upsert,
  nothing on the disk before the row goes. The property itself says nothing of a
  skill on which somebody works, and would not survive the last step.
* GitHub (`GitHubInv`, `Fetches`): for an edit no pull has looked at and every pull
  under way, the pull has not got its answer and will ask far enough back, or has
  the issue as it is now, or will record a time that is not later than the edit. The
  third is why the code records the time at which it started and not the end.
* Agents (`AgentsInv`): what a request or a sync has read of `openclaw.json` is what
  the file says until somebody overtakes it, in all but the entry the request is
  about (`ListsAreFresh`, `CopiesAreFresh`); rows agree with the file while it can be
  read (`FileAgrees`), and with the list that the one who is writing will leave
  behind (`WritersAgree`), for between `Truncates` and `Written` there is no file to
  agree with. `Agrees` also says that a request has the row to go back to that the
  file calls for, which is what a failed write needs.
* Notifications (`NoteInv`): while a message waits, each time it was taken is one its
  sender does not know of; later, the times it was taken and the calls that still
  have it in their batches are together no more than its doubts and the senders.
  The sum is inductive where the bound on `received` is not.
* Gateway (`SocketInv`): only the current socket is connecting or open, and before
  the first connection no timer has anything to connect again to. Every way to
  lose a reference (`Connect` over a live socket, a stray timer) is a case.
* Limiter (`LimitInv`): the requests let through can be marked where a window
  opened; marked ones lie more than a window apart, no more than `MaxRequests` come
  from one mark up to the next, and the counter is that of the last mark. A span as
  long as a window meets at most two of them. The marks are quantified, so that no
  variable of history had to be added.
* Recurring tasks (`RecurringInv`): children were made when their cron was due, and in
  the minute in which one is made its template remembers it, unless a stale copy
  set it back, which is all that keeps a template outside a project from a second
  child. Two due minutes with the same title are the same minute or lie a year
  apart: that is arithmetic on the calendar, and on the cardinalities by which the
  code knows a cron that is due once a day.
* Board (`BoardInv`, one task at a time): the events on their way turn the cards into
  what the row says (`Right`: the last one tells its status, one creates the card
  unless it is there, one removes it after a deletion), and what a card shows is a
  status its task has had or one that a move under way would give it (`Guessed`). The
  property speaks of a board nothing is on its way to; the invariant of every board.
* Chat (`ChatInv`): ids on their way are those of rows, and a POST past its insertion is
  of its row (`Known`); a text of which every answer has come has one POST, and no
  row before the server received it (`Heard`); what was not typed is nowhere
  (`Unsaid`). The lemmas about lists come first: what `slice`, `addChatMessage` and
  `removePendingMessage` keep of a list, and that what goes is its first entry or
  the pending one.

What is assumed: the named assumptions of the modules, which the code gives. Limits
and bounds are numbers (`AccessAssumption`, `WebhookAssumption`, `PipelineAssumption`,
`LimitsAssumption`, `BoundsAreNumbers`, `CalendarIsOne`), and those the code divides by or
compares a first request with are not zero. Sets that are counted are finite: clients
of a limiter, templates, sessions that deliver (`KeysAreFinite`, `CalendarIsOne`,
`SendersAreFinite`). What says that something is absent is no text, status or
conversation (`ContentsAreText`, `BoardParameters`, `ChatParameters`, `NamesAssumption`).
And a page of the chat fits into its list: they are 100 and 500 in the code.
TLC evaluates all of them in its runs.

Some values are not parameters: the MC modules give `Scheduler` two jobs, `RecurringTasks`
two cron expressions and `GatewayClient` its fallback paths. The proofs use of the
crons only that their sets of minutes and hours are finite (`CronsAreFinite`), of the
paths nothing, and of the jobs that there are two, for the types of the ticks.

Only model-checked: the liveness properties (`StuckIsRecovered`, `TasksSettle`,
`EventsSettle`, `SilenceIsNoticed`, `GivesUp`, `OthersKeepRunning`, `DeliveredBehindFew`,
`PollingCatchesUp`), which rest on fairness and with it on ENABLED, out of the
reach of the proof system; and the three runs that end in a counterexample.

## 5. Not modelled, and why

* `GNAP sync` writes files of a git repository after a task has changed; nothing
  reads them back into a decision. `Agent runs and evals` store and score one
  record at a time. `PTY` and the sessions of command line tools are processes
  and terminals, of which the server keeps no state that other parts decide on;
  the handler of terminal upgrades is called by nothing at this commit.
* `Exec approvals` reads a file, compares its hash with the caller's and writes it
  back in one handler: the only thing to say of it would repeat that comparison.
  The installations of agent runtimes are a map in memory, one process each.
* The user interface beyond the board, the chat and the connection renders what one handler
  returned, or calls one. It is the larger part of the lines of this repository
  (the panels, the onboarding, the charts), together with the parsing of
  transcripts, configuration and session files and the definitions of tables; the
  models cover the code that keeps state over an await or shares it between
  sessions, and so a small share of all lines.
* Out of scope: file and process I/O, cryptography, and the external services
  themselves, of which only the answers appear.

What could follow: abstract specifications of the connection, the deliveries and the
chat, with proofs that the modules implement them; the labels and comments of the
sync with GitHub; proxy authentication.
