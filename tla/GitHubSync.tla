------------------------------ MODULE GitHubSync ------------------------------
(****************************************************************************)
(* lib/github-sync-engine.ts: the tasks of one project and the issues of    *)
(* its repository. A change of a task starts a push that nobody waits for;  *)
(* a poller, whose ticks may overlap, and operators start pulls. A push     *)
(* works with the task as it was when it started, a pull with the issues as *)
(* they were when GitHub read them. Times are in seconds, all of them read  *)
(* from one clock: GitHub's is taken to agree with ours.                    *)
(*                                                                          *)
(* The content of a task or an issue stands for its title, text, status and *)
(* priority (labels and state on GitHub).                                   *)
(****************************************************************************)
EXTENDS Integers, Functions

CONSTANTS
  MaxTasks,   \* bound: tasks ever inserted
  MaxIssues,  \* bound: issues ever opened
  Contents,
  Pushes,     \* pushes under way
  Pulls,      \* pulls under way
  Echo,       \* how close github_synced_at and updated_at are after a push: 10 s
  MaxTime     \* bound: seconds

Tasks == 1..MaxTasks
Issues == 1..MaxIssues
Times == 0..MaxTime
NoTask == [content |-> "none"]
NoIssue == [content |-> "none"]
Idle == [is |-> "idle"]

VARIABLES
  now,
  task,      \* content, updated_at, github_synced_at, github_issue_number (0: none)
  issue,     \* on GitHub: content and updated_at
  push,
  pull,
  lastSync,  \* the newest row of github_syncs: last_synced_at and created_at
  unseen,    \* history: issues a person has changed and no pull has looked at since
  missed     \* history: of those, the ones a failed or skipping pull passed over

vars == <<now, task, issue, push, pull, lastSync, unseen, missed>>

IssueRows == [content : Contents, at : Times]
TaskRows == [content : Contents, updated : Times, synced : Times \cup {-1},
             number : Issues \cup {0}]
Sent == [is : {"sent", "landed"}, task : Tasks, content : Contents, number : Issues \cup {0}, at : Times]
SyncRows == [at : Times, recorded : Times \cup {-1}]

TypeOK ==
  /\ now \in Times
  /\ task \in [Tasks -> TaskRows \cup {NoTask}]
  /\ issue \in [Issues -> IssueRows \cup {NoIssue}]
  /\ push \in [Pushes -> Sent \cup {Idle}]
  /\ DOMAIN pull = Pulls
  /\ \A q \in Pulls :
       \/ pull[q] = Idle
       \/ /\ DOMAIN pull[q] = {"is", "at", "since", "got"} /\ pull[q].is \in {"asked", "answered"}
          /\ pull[q].at \in Times /\ pull[q].since \in Times
          /\ DOMAIN pull[q].got \subseteq Issues
          /\ \A n \in DOMAIN pull[q].got : pull[q].got[n] \in IssueRows
  /\ lastSync \in SyncRows
  /\ unseen \subseteq Issues /\ missed \subseteq unseen

Init ==
  /\ now = 0
  /\ task = [t \in Tasks |-> NoTask]
  /\ issue = [n \in Issues |-> NoIssue]
  /\ push = [p \in Pushes |-> Idle]
  /\ pull = [q \in Pulls |-> Idle]
  /\ lastSync = [at |-> 0, recorded |-> -1]
  /\ unseen = {} /\ missed = {}

Exists(t) == task[t] # NoTask
Opened(n) == issue[n] # NoIssue

Tick ==
  /\ now < MaxTime
  /\ now' = now + 1
  /\ UNCHANGED <<task, issue, push, pull, lastSync, unseen, missed>>

--------------------------------------------------------------------------------
(* Pushes: syncTaskOutbound and pushTaskToGitHub *)

StartPush(p, t, content, number) ==
  /\ push[p] = Idle
  /\ push' = [push EXCEPT ![p] =
       [is |-> "sent", task |-> t, content |-> content, number |-> number, at |-> now]]

CreateTask(t, content, p) ==
  /\ ~Exists(t)
  /\ task' = [task EXCEPT ![t] =
       [content |-> content, updated |-> now, synced |-> -1, number |-> 0]]
  /\ StartPush(p, t, content, 0)
  /\ UNCHANGED <<now, issue, pull, lastSync, unseen, missed>>

ChangeTask(t, content, p) ==
  /\ Exists(t)
  /\ content # task[t].content
  /\ task' = [task EXCEPT ![t].content = content, ![t].updated = now]
  /\ StartPush(p, t, content, task[t].number)
  /\ UNCHANGED <<now, issue, pull, lastSync, unseen, missed>>

(* GitHub executes the call: the issue is changed, or opened.               *)
Lands(p, n) ==
  /\ push[p].is = "sent"
  /\ IF push[p].number = 0
       THEN ~Opened(n) /\ \A o \in 1..(n - 1) : Opened(o)
       ELSE n = push[p].number
  /\ issue' = [issue EXCEPT ![n] =
       [content |-> push[p].content, at |-> now]]
  /\ push' = [push EXCEPT ![p].is = "landed",
                          ![p].number = IF @ = 0 THEN n ELSE @]
  /\ unseen' = unseen \ {n} /\ missed' = missed \ {n}
  /\ UNCHANGED <<now, task, pull, lastSync>>

Taken(t, n) == \E o \in Tasks \ {t} : Exists(o) /\ task[o].number = n

MarkedInMilliseconds(p) ==  \* mutant: the time is not divided by 1000
  [task EXCEPT ![push[p].task].number = push[p].number,
               ![push[p].task].synced = push[p].at * 1000]

(* The answer: the time at which the push began is the time of its echo. A  *)
(* number that another task has taken meanwhile is refused by the unique    *)
(* index, and the task stays without one.                                   *)
MarkedAfter(p) ==
  IF Taken(push[p].task, push[p].number)
    THEN task
    ELSE [task EXCEPT ![push[p].task].number = push[p].number,
                      ![push[p].task].synced = push[p].at]

PushAnswered(p) ==
  /\ push[p].is = "landed"
  /\ task' = MarkedAfter(p)
  /\ push' = [push EXCEPT ![p] = Idle]
  /\ UNCHANGED <<now, issue, pull, lastSync, unseen, missed>>

(* The call fails, before GitHub executes it or after.                      *)
PushFails(p) ==
  /\ push[p] # Idle
  /\ push' = [push EXCEPT ![p] = Idle]
  /\ UNCHANGED <<now, task, issue, pull, lastSync, unseen, missed>>

--------------------------------------------------------------------------------
(* A person on GitHub *)

Edit(n, content) ==
  /\ Opened(n) \/ \A o \in 1..(n - 1) : Opened(o)
  /\ content # issue[n].content
  /\ issue' = [issue EXCEPT ![n] = [content |-> content, at |-> now]]
  /\ unseen' = unseen \cup {n} /\ missed' = missed \ {n}
  /\ UNCHANGED <<now, task, push, pull, lastSync>>

--------------------------------------------------------------------------------
(* pullFromGitHub *)

StartPull(q) ==
  /\ pull[q] = Idle
  /\ pull' = [pull EXCEPT ![q] =
       [is |-> "asked", at |-> now, since |-> lastSync.at, got |-> <<>>]]
  /\ UNCHANGED <<now, task, issue, push, lastSync, unseen, missed>>

(* GitHub reads the issues updated since.                                   *)
Answers(q) ==
  /\ pull[q].is = "asked"
  /\ pull' = [pull EXCEPT ![q].is = "answered",
       ![q].got = [n \in {i \in Issues : Opened(i) /\ issue[i].at >= pull[q].since} |-> issue[n]]]
  /\ UNCHANGED <<now, task, issue, push, lastSync, unseen, missed>>

JustNow(q) == now  \* mutant: the time is read when the answer is there

SyncedAt(q) == pull[q].at

(* The row that is inserted into github_syncs. Of two of one second, either *)
(* may come first in the order by created_at.                               *)
Record(q) ==
  \/ lastSync' = [at |-> SyncedAt(q), recorded |-> now]
  \/ lastSync.recorded = now /\ UNCHANGED lastSync

Abs(x) == IF x < 0 THEN -x ELSE x

JustPushed(row, read) == row.synced # -1 /\ Abs(row.synced - read.at) < Echo

Updates(row, read) == ~JustPushed(row, read) /\ read.at > row.updated

TaskOf(n) == {t \in Tasks : Exists(t) /\ task[t].number = n}

FromIssue(q, n) ==
  [content |-> pull[q].got[n].content, updated |-> pull[q].at, synced |-> pull[q].at,
   number |-> n]

Got(q) == DOMAIN pull[q].got

(* The issues that are left out although they were read as they are.        *)
SkippedEcho(q) ==
  {n \in Got(q) \cap unseen :
     /\ pull[q].got[n] = issue[n]
     /\ \E t \in TaskOf(n) : JustPushed(task[t], issue[n])}

Seen(q) == {n \in Got(q) \ SkippedEcho(q) : pull[q].got[n] = issue[n]}

New(q) == {n \in Got(q) : TaskOf(n) = {}}

(* A number has one task at most, so the turns of the loop leave each       *)
(* other's rows alone. Rows are names: no turn depends on which one is new. *)
RowsOf(q, row) ==
  [t \in Tasks |->
     IF \E n \in New(q) : row[n] = t THEN FromIssue(q, CHOOSE n \in New(q) : row[n] = t)
     ELSE IF /\ Exists(t) /\ task[t].number \in Got(q)
             /\ Updates(task[t], pull[q].got[task[t].number])
       THEN FromIssue(q, task[t].number)
     ELSE task[t]]

Process(q) ==
  LET rows == Injection(New(q), {t \in Tasks : ~Exists(t)}) IN
  /\ pull[q].is = "answered"
  /\ rows # {}  \* the bound MaxTasks
  /\ task' = RowsOf(q, CHOOSE row \in rows : TRUE)
  /\ Record(q)
  /\ pull' = [pull EXCEPT ![q] = Idle]
  /\ unseen' = unseen \ Seen(q)
  /\ missed' = (missed \ Seen(q)) \cup SkippedEcho(q)
  /\ UNCHANGED <<now, issue, push>>

(* The call fails; the failure is recorded with its time.                   *)
PullFails(q) ==
  /\ pull[q].is \in {"asked", "answered"}
  /\ Record(q)
  /\ pull' = [pull EXCEPT ![q] = Idle]
  /\ missed' = missed \cup {n \in unseen : issue[n].at < SyncedAt(q)}
  /\ UNCHANGED <<now, task, issue, push, unseen>>

--------------------------------------------------------------------------------
Next ==
  \/ Tick
  \/ \E p \in Pushes :
       \/ \E t \in Tasks, content \in Contents : CreateTask(t, content, p) \/ ChangeTask(t, content, p)
       \/ \E n \in Issues : Lands(p, n)
       \/ PushAnswered(p) \/ PushFails(p)
  \/ \E n \in Issues, content \in Contents : Edit(n, content)
  \/ \E q \in Pulls : StartPull(q) \/ Answers(q) \/ Process(q) \/ PullFails(q)

Spec == Init /\ [][Next]_vars

--------------------------------------------------------------------------------
(* What a person has changed on GitHub and no pull has looked at is fetched *)
(* by the next pull, however pulls overlap; except what a failed pull, or   *)
(* one that took the edit for an echo, has passed over.                     *)
UnseenIsDueOrMissed ==
  \A n \in unseen \ missed : issue[n].at >= lastSync.at
===============================================================================
