----------------------------- MODULE RecordsProofs -----------------------------
(****************************************************************************)
(* The components that stand side by side in MCRecords: tenants and their   *)
(* jobs, skills, the sync with GitHub, agents. Each has an inductive        *)
(* invariant of its own. The first state says which of them moves, so each  *)
(* theorem is about every behaviour of its component.                       *)
(*                                                                          *)
(* Tenants: types and executions come first. A session executes a running   *)
(* job of its own, so a running job keeps its approver until its outcome is *)
(* written. That is what the two-person rule needs; the tenant's status is  *)
(* explained by executions together with what the sessions remember of it.  *)
(****************************************************************************)
EXTENDS MCRecords, TLAPS

--------------------------------------------------------------------------------
(* Tenants. *)

(* Who has approved a job is known as soon as it can be executed, and only a  *)
(* job with a row has been.                                                   *)
ApproverKnown ==
  \A j \in Jobs : /\ status[j] = "approved" => job[j].approver \in Admins
                  /\ started[j] # Nobody => status[j] # NoRow

(* A job whose session died stays in running. *)
LostIsRunning == \A j \in lost : status[j] = "running"

ExecutionInv == TypeOK /\ ApproverKnown /\ OneExecution /\ LostIsRunning

LEMMA IdleIsNoExecution == Idle \notin Executions
BY DEF Idle, Executions

LEMMA NobodyIsNoRow == Nobody \notin JobRows /\ Nobody \notin Starts
BY DEF Nobody, JobRows, Starts

(* A step is one of these, for the case analyses below. *)
LEMMA StepCases ==
  ASSUME Next
  PROVE  \/ \E t \in Tenants, j \in Jobs, by \in Admins, dry \in BOOLEAN : CreateTenant(t, j, by, dry)
         \/ \E t \in Tenants, j \in Jobs, by \in Admins, dry \in BOOLEAN : RequestDecommission(t, j, by, dry)
         \/ \E t \in Tenants : RegisterLocal(t)
         \/ \E j \in Jobs, by \in Admins : Approve(j, by)
         \/ \E j \in Jobs : Reject(j)
         \/ \E j \in Jobs : Cancel(j)
         \/ \E s \in Sessions, j \in Jobs, runner \in Admins : Execute(s, j, runner)
         \/ \E j \in Jobs, runner \in Admins : ExecuteDisabled(j, runner)
         \/ \E s \in Sessions : StepDone(s)
         \/ \E s \in Sessions : LastStepDone(s)
         \/ \E s \in Sessions : StepFailed(s)
         \/ Restart
BY DEF Next

LEMMA InitExecutions == Init => ExecutionInv
BY IdleIsNoExecution, NobodyIsNoRow
   DEF Init, ExecutionInv, TypeOK, ApproverKnown, OneExecution, LostIsRunning, NoRow

LEMMA QueueKeeps ==
  ASSUME ExecutionInv, NEW j \in Jobs, NEW kind \in Kinds, NEW t \in Tenants,
         NEW dry \in BOOLEAN, NEW by \in Admins, Queue(j, kind, t, dry, by),
         tenant' \in [Tenants -> TenantStatuses \cup {NoRow}], tenant'[t] # NoRow,
         \A u \in Tenants : tenant[u] # NoRow => tenant'[u] # NoRow
  PROVE  ExecutionInv'
<1>1. /\ status[j] = NoRow
      /\ job' = [job EXCEPT ![j] = [kind |-> kind, tenant |-> t, dry |-> dry,
                                    requester |-> by, approver |-> Nobody]]
      /\ status' = [status EXCEPT ![j] = "queued"]
      /\ UNCHANGED <<execution, allowExec, started, lost>>
  BY DEF Queue
<1>2. [kind |-> kind, tenant |-> t, dry |-> dry, requester |-> by, approver |-> Nobody] \in JobRows
  BY DEF JobRows
<1>3. TypeOK'
  <2>1. job' \in [Jobs -> JobRows \cup {Nobody}] /\ status' \in [Jobs -> JobStatuses \cup {NoRow}]
    BY <1>1, <1>2 DEF ExecutionInv, TypeOK, JobStatuses
  <2>2. \A i \in Jobs : status'[i] # NoRow => job'[i] \in JobRows /\ tenant'[job'[i].tenant] # NoRow
    BY <1>1, <1>2 DEF ExecutionInv, TypeOK, JobRows
  <2>3. \A s \in Sessions : execution'[s] # Idle => status'[execution'[s].job] # NoRow
    BY <1>1 DEF ExecutionInv, TypeOK, Executions, NoRow
  <2> QED BY <1>1, <2>1, <2>2, <2>3 DEF ExecutionInv, TypeOK
<1>4. ApproverKnown' /\ OneExecution' /\ LostIsRunning'
  BY <1>1 DEF ExecutionInv, TypeOK, ApproverKnown, OneExecution, LostIsRunning, NoRow, Executions
<1> QED BY <1>3, <1>4 DEF ExecutionInv

(* A transition of a job that nobody executes. *)
LEMMA TransitionKeeps ==
  ASSUME ExecutionInv, NEW j \in Jobs, NEW new \in JobStatuses \ {"running"},
         status[j] \notin {NoRow, "running"},
         status' = [status EXCEPT ![j] = new],
         job' \in [Jobs -> JobRows \cup {Nobody}],
         \A i \in Jobs \ {j} : job'[i] = job[i],
         job'[j] \in JobRows, job'[j].tenant = job[j].tenant,
         new = "approved" => job'[j].approver \in Admins,
         UNCHANGED <<tenant, execution, allowExec, started, lost>>
  PROVE  ExecutionInv'
<1>1. TypeOK'
  <2>1. status' \in [Jobs -> JobStatuses \cup {NoRow}]
    BY DEF ExecutionInv, TypeOK
  <2>2. \A i \in Jobs : status'[i] # NoRow => job'[i] \in JobRows /\ tenant'[job'[i].tenant] # NoRow
    BY DEF ExecutionInv, TypeOK
  <2>3. \A s \in Sessions : execution'[s] # Idle => status'[execution'[s].job] # NoRow
    BY DEF ExecutionInv, TypeOK, Executions, NoRow, JobStatuses
  <2> QED BY <2>1, <2>2, <2>3 DEF ExecutionInv, TypeOK
<1>2. ApproverKnown'
  BY DEF ExecutionInv, TypeOK, ApproverKnown, NoRow, JobStatuses
<1>3. OneExecution' /\ LostIsRunning'
  BY DEF ExecutionInv, TypeOK, OneExecution, LostIsRunning, Executions
<1> QED BY <1>1, <1>2, <1>3 DEF ExecutionInv

LEMMA ExecuteKeeps ==
  ASSUME ExecutionInv, NEW s \in Sessions, NEW j \in Jobs, NEW runner \in Admins,
         Execute(s, j, runner)
  PROVE  ExecutionInv'
<1> DEFINE t == job[j].tenant
           start == [approver |-> job[j].approver, runner |-> runner]
           e == [job |-> j, previous |-> tenant[t], step |-> 1]
<1>1. /\ execution[s] = Idle /\ status[j] = "approved"
      /\ status' = [status EXCEPT ![j] = "running"]
      /\ tenant' = [tenant EXCEPT ![t] = StartedTenant(j, tenant[t])]
      /\ execution' = [execution EXCEPT ![s] = e]
      /\ started' = [started EXCEPT ![j] = start]
      /\ UNCHANGED <<job, allowExec, lost>>
  BY DEF Execute, Runnable
<1>2. job[j] \in JobRows /\ tenant[t] \in TenantStatuses /\ t \in Tenants
  BY <1>1 DEF ExecutionInv, TypeOK, NoRow, JobRows
<1>3. e \in Executions
  BY <1>2 DEF Executions
<1>4. start \in Starts
  BY <1>1 DEF ExecutionInv, ApproverKnown, Starts
<1>5. j \notin lost
  BY <1>1 DEF ExecutionInv, LostIsRunning
<1>6. tenant' \in [Tenants -> TenantStatuses \cup {NoRow}]
      /\ \A u \in Tenants : tenant[u] # NoRow => tenant'[u] # NoRow
  BY <1>1, <1>2 DEF ExecutionInv, TypeOK, StartedTenant, TenantStatuses, NoRow
<1>7. TypeOK'
  <2>1. status' \in [Jobs -> JobStatuses \cup {NoRow}]
        /\ execution' \in [Sessions -> Executions \cup {Idle}]
        /\ started' \in [Jobs -> Starts \cup {Nobody}]
    BY <1>1, <1>3, <1>4 DEF ExecutionInv, TypeOK, JobStatuses
  <2>2. \A i \in Jobs : status'[i] # NoRow => job'[i] \in JobRows /\ tenant'[job'[i].tenant] # NoRow
    BY <1>1, <1>2, <1>6 DEF ExecutionInv, TypeOK, JobRows, NoRow
  <2>3. \A q \in Sessions : execution'[q] # Idle => status'[execution'[q].job] # NoRow
    BY <1>1 DEF ExecutionInv, TypeOK, Executions, NoRow
  <2> QED BY <1>1, <1>6, <2>1, <2>2, <2>3 DEF ExecutionInv, TypeOK
<1>8. ApproverKnown' /\ LostIsRunning'
  BY <1>1 DEF ExecutionInv, TypeOK, ApproverKnown, LostIsRunning, NoRow
<1>9. OneExecution'
  <2>1. \A q \in Sessions \ {s} : execution'[q] = execution[q]
        /\ (execution[q] # Idle => execution[q].job # j)
    BY <1>1 DEF ExecutionInv, OneExecution, TypeOK
  <2>2. execution'[s].job = j /\ status'[j] = "running"
    BY <1>1 DEF ExecutionInv, TypeOK
  <2>3. \A q \in Sessions : execution[q] # Idle => status'[execution[q].job] = "running"
    BY <1>1 DEF ExecutionInv, OneExecution, TypeOK, Executions
  <2> QED BY <1>1, <1>5, <2>1, <2>2, <2>3 DEF ExecutionInv, OneExecution
<1> QED BY <1>7, <1>8, <1>9 DEF ExecutionInv

LEMMA DisabledKeeps ==
  ASSUME ExecutionInv, NEW j \in Jobs, NEW runner \in Admins, ExecuteDisabled(j, runner)
  PROVE  ExecutionInv'
<1> DEFINE start == [approver |-> job[j].approver, runner |-> runner]
<1>1. /\ status[j] = "approved"
      /\ status' = [status EXCEPT ![j] = "failed"]
      /\ tenant' = [tenant EXCEPT ![job[j].tenant] = "error"]
      /\ started' = [started EXCEPT ![j] = start]
      /\ UNCHANGED <<job, execution, allowExec, lost>>
  BY DEF ExecuteDisabled, Runnable
<1>2. start \in Starts
  BY <1>1 DEF ExecutionInv, ApproverKnown, Starts
<1>3. TypeOK'
  <2>1. /\ status' \in [Jobs -> JobStatuses \cup {NoRow}]
        /\ started' \in [Jobs -> Starts \cup {Nobody}]
        /\ tenant' \in [Tenants -> TenantStatuses \cup {NoRow}]
    BY <1>1, <1>2 DEF ExecutionInv, TypeOK, JobStatuses, TenantStatuses
  <2>2. \A i \in Jobs : status'[i] # NoRow => job'[i] \in JobRows /\ tenant'[job'[i].tenant] # NoRow
    BY <1>1 DEF ExecutionInv, TypeOK, NoRow
  <2>3. \A q \in Sessions : execution'[q] # Idle => status'[execution'[q].job] # NoRow
    BY <1>1 DEF ExecutionInv, TypeOK, Executions, NoRow
  <2> QED BY <1>1, <2>1, <2>2, <2>3 DEF ExecutionInv, TypeOK
<1>4. ApproverKnown' /\ OneExecution' /\ LostIsRunning'
  BY <1>1 DEF ExecutionInv, TypeOK, ApproverKnown, OneExecution, LostIsRunning, Executions, NoRow
<1> QED BY <1>3, <1>4 DEF ExecutionInv

LEMMA FinishKeeps ==
  ASSUME ExecutionInv, NEW s \in Sessions, execution[s] # Idle,
         NEW outcome \in {"completed", "failed"}, NEW st \in TenantStatuses,
         Finish(s, outcome, st)
  PROVE  ExecutionInv'
<1> DEFINE j == execution[s].job
<1>1. /\ status' = [status EXCEPT ![j] = outcome]
      /\ tenant' = [tenant EXCEPT ![job[j].tenant] = st]
      /\ execution' = [execution EXCEPT ![s] = Idle]
      /\ UNCHANGED <<job, allowExec, started, lost>>
  BY DEF Finish, Outcome
<1>2. j \in Jobs /\ status[j] = "running" /\ j \notin lost
  BY DEF ExecutionInv, OneExecution, TypeOK, Executions
<1>3. TypeOK'
  <2>1. /\ status' \in [Jobs -> JobStatuses \cup {NoRow}]
        /\ execution' \in [Sessions -> Executions \cup {Idle}]
        /\ tenant' \in [Tenants -> TenantStatuses \cup {NoRow}]
    BY <1>1 DEF ExecutionInv, TypeOK, JobStatuses
  <2>2. \A i \in Jobs : status'[i] # NoRow => job'[i] \in JobRows /\ tenant'[job'[i].tenant] # NoRow
    BY <1>1, <1>2 DEF ExecutionInv, TypeOK, NoRow, TenantStatuses
  <2>3. \A q \in Sessions : execution'[q] # Idle => status'[execution'[q].job] # NoRow
    BY <1>1 DEF ExecutionInv, TypeOK, Executions, NoRow
  <2> QED BY <1>1, <2>1, <2>2, <2>3 DEF ExecutionInv, TypeOK
<1>4. ApproverKnown' /\ LostIsRunning'
  BY <1>1, <1>2 DEF ExecutionInv, TypeOK, ApproverKnown, LostIsRunning, NoRow
<1>5. OneExecution'
  BY <1>1, <1>2 DEF ExecutionInv, TypeOK, OneExecution, Executions
<1> QED BY <1>3, <1>4, <1>5 DEF ExecutionInv

LEMMA CompletedTenantType ==
  ASSUME ExecutionInv, NEW s \in Sessions, execution[s] # Idle
  PROVE  CompletedTenant(execution[s]) \in TenantStatuses
BY DEF ExecutionInv, TypeOK, Executions, CompletedTenant, TenantStatuses

LEMMA ExecutionStep ==
  ASSUME ExecutionInv, [Next]_vars
  PROVE  ExecutionInv'
<1>1. CASE UNCHANGED vars
  BY <1>1 DEF ExecutionInv, TypeOK, ApproverKnown, OneExecution, LostIsRunning, vars
<1>2. ASSUME NEW t \in Tenants, NEW j \in Jobs, NEW by \in Admins, NEW dry \in BOOLEAN,
             CreateTenant(t, j, by, dry)
      PROVE  ExecutionInv'
  <2>1. tenant' = [tenant EXCEPT ![t] = "pending"] /\ Queue(j, "bootstrap", t, dry, by)
    BY <1>2 DEF CreateTenant
  <2>2. /\ tenant' \in [Tenants -> TenantStatuses \cup {NoRow}]
        /\ tenant'[t] # NoRow
        /\ \A u \in Tenants : tenant[u] # NoRow => tenant'[u] # NoRow
    BY <2>1 DEF ExecutionInv, TypeOK, TenantStatuses, NoRow
  <2> QED BY <2>1, <2>2, QueueKeeps DEF Kinds
<1>3. ASSUME NEW t \in Tenants, NEW j \in Jobs, NEW by \in Admins, NEW dry \in BOOLEAN,
             RequestDecommission(t, j, by, dry)
      PROVE  ExecutionInv'
  <2>1. tenant' = tenant /\ tenant[t] # NoRow /\ Queue(j, "decommission", t, dry, by)
    BY <1>3 DEF RequestDecommission
  <2>2. tenant' \in [Tenants -> TenantStatuses \cup {NoRow}]
    BY <2>1 DEF ExecutionInv, TypeOK
  <2> QED BY <2>1, <2>2, QueueKeeps DEF Kinds
<1>4. ASSUME NEW t \in Tenants, RegisterLocal(t) PROVE ExecutionInv'
  BY <1>4 DEF RegisterLocal, ExecutionInv, TypeOK, ApproverKnown, OneExecution, LostIsRunning,
              TenantStatuses, NoRow
<1>5. ASSUME NEW j \in Jobs, NEW by \in Admins, Approve(j, by) PROVE ExecutionInv'
  <2>1. /\ status[j] \in {"queued", "rejected", "failed"}
        /\ status' = [status EXCEPT ![j] = "approved"]
        /\ job' = [job EXCEPT ![j].approver = by]
        /\ UNCHANGED <<tenant, execution, allowExec, started, lost>>
    BY <1>5 DEF Approve, ApprovableFrom
  <2>2. job[j] \in JobRows
    BY <2>1 DEF ExecutionInv, TypeOK, NoRow
  <2>3. job'[j] = [job[j] EXCEPT !.approver = by] /\ \A i \in Jobs \ {j} : job'[i] = job[i]
    BY <2>1 DEF ExecutionInv, TypeOK
  <2>4. /\ job'[j] \in JobRows
        /\ job'[j].tenant = job[j].tenant
        /\ job'[j].approver = by
    BY <2>2, <2>3 DEF JobRows
  <2>5. job' \in [Jobs -> JobRows \cup {Nobody}]
    BY <2>1, <2>3, <2>4 DEF ExecutionInv, TypeOK
  <2> QED BY <2>1, <2>3, <2>4, <2>5, TransitionKeeps DEF JobStatuses, NoRow
<1>6. ASSUME NEW j \in Jobs, Reject(j) \/ Cancel(j) PROVE ExecutionInv'
  <2>1. /\ status[j] \notin {NoRow, "running"}
        /\ \E new \in {"rejected", "cancelled"} : status' = [status EXCEPT ![j] = new]
        /\ UNCHANGED <<tenant, job, execution, allowExec, started, lost>>
    BY <1>6 DEF Reject, Cancel, RejectableFrom, CancellableFrom, NoRow
  <2>2. job[j] \in JobRows /\ job \in [Jobs -> JobRows \cup {Nobody}]
    BY <2>1 DEF ExecutionInv, TypeOK
  <2> QED BY <2>1, <2>2, TransitionKeeps DEF JobStatuses
<1>7. ASSUME NEW s \in Sessions, StepDone(s) PROVE ExecutionInv'
  <2>1. /\ execution[s] # Idle /\ execution[s].step < PlanLength
        /\ execution' = [execution EXCEPT ![s].step = @ + 1]
        /\ UNCHANGED <<tenant, job, status, allowExec, started, lost>>
    BY <1>7 DEF StepDone
  <2>2. execution[s] \in Executions
    BY <2>1 DEF ExecutionInv, TypeOK
  <2>3. execution'[s] \in Executions /\ execution'[s].job = execution[s].job
    BY <2>1, <2>2 DEF ExecutionInv, TypeOK, Executions
  <2>4. \A q \in Sessions : /\ execution'[q] = Idle <=> execution[q] = Idle
                            /\ execution'[q].job = execution[q].job
                            /\ execution'[q] \in Executions \cup {Idle}
    BY <2>1, <2>3, IdleIsNoExecution DEF ExecutionInv, TypeOK
  <2>5. execution' \in [Sessions -> Executions \cup {Idle}]
    BY <2>1, <2>4 DEF ExecutionInv, TypeOK
  <2>6. TypeOK'
    BY <2>1, <2>4, <2>5 DEF ExecutionInv, TypeOK
  <2> QED BY <2>1, <2>4, <2>6 DEF ExecutionInv, ApproverKnown, OneExecution, LostIsRunning
<1>8. ASSUME NEW s \in Sessions, LastStepDone(s) \/ StepFailed(s) PROVE ExecutionInv'
  BY <1>8, FinishKeeps, CompletedTenantType DEF LastStepDone, StepFailed, TenantStatuses
<1>9. CASE Restart
  <2>1. /\ allowExec' \in BOOLEAN
        /\ lost' = lost \cup {execution[s].job : s \in {q \in Sessions : execution[q] # Idle}}
        /\ execution' = [s \in Sessions |-> Idle]
        /\ UNCHANGED <<tenant, job, status, started>>
    BY <1>9 DEF Restart
  <2>2. \A j \in lost' : j \in Jobs /\ status[j] = "running"
    BY <2>1 DEF ExecutionInv, TypeOK, OneExecution, LostIsRunning, Executions
  <2>3. TypeOK'
    BY <2>1, <2>2 DEF ExecutionInv, TypeOK
  <2> QED BY <2>1, <2>2, <2>3 DEF ExecutionInv, ApproverKnown, OneExecution, LostIsRunning
<1> QED BY <1>1, <1>2, <1>3, <1>4, <1>5, <1>6, <1>7, <1>8, <1>9, ExecuteKeeps, DisabledKeeps, StepCases

(* ExecutionInv is inductive; types and the exclusion of executions follow. *)
THEOREM ExecutionsCorrect == Spec => []ExecutionInv
BY InitExecutions, ExecutionStep, PTL DEF Spec

(* Every action keeps the tenants, jobs and sessions of executeProvisionJob   *)
(* and transitionProvisionJobStatus in their types, and the foreign keys.     *)
THEOREM TypeCorrect == Spec => []TypeOK
<1>1. ExecutionInv => TypeOK
  BY DEF ExecutionInv
<1> QED BY <1>1, ExecutionsCorrect, PTL

(* However many sessions press the button: executeProvisionJob runs a job at  *)
(* most once at a time, and only one that says so.                            *)
THEOREM ExecutionsExclude == Spec => []OneExecution
<1>1. ExecutionInv => OneExecution
  BY DEF ExecutionInv
<1> QED BY <1>1, ExecutionsCorrect, PTL

--------------------------------------------------------------------------------
(* What a step does to one job: it is created, moves between the statuses     *)
(* outside an execution, is executed, or ends.                                *)
Holds(s, j) == execution[s] # Idle /\ execution[s].job = j

Untouched(j) ==
  /\ status'[j] = status[j] /\ job'[j] = job[j] /\ started'[j] = started[j]
  /\ j \in lost => j \in lost'
  /\ \A s \in Sessions : Holds(s, j) => Holds(s, j)' \/ j \in lost'

Rests(j) ==
  /\ status[j] \notin {"running", "completed", "cancelled"}
  /\ status'[j] \notin {"running", "completed"}
  /\ started'[j] # Nobody /\ started[j] = Nobody => status[j] = "approved"

Begins(j) ==
  /\ status[j] = "approved" /\ status'[j] = "running" /\ job'[j] = job[j]
  /\ \E s \in Sessions : Holds(s, j)'
  /\ \E runner \in Admins :
       /\ TwoPersons(j, runner)
       /\ started'[j] = [approver |-> job[j].approver, runner |-> runner]

Ends(j) ==
  /\ status[j] = "running" /\ status'[j] \in {"completed", "failed"}
  /\ job'[j] = job[j] /\ started'[j] = started[j]

LEMMA JobStep ==
  ASSUME ExecutionInv, [Next]_vars, NEW i \in Jobs
  PROVE  Untouched(i) \/ Rests(i) \/ Begins(i) \/ Ends(i)
<1>1. CASE UNCHANGED vars
  BY <1>1 DEF Untouched, Holds, vars
<1>2. ASSUME NEW t \in Tenants, NEW j \in Jobs, NEW by \in Admins, NEW dry \in BOOLEAN,
             CreateTenant(t, j, by, dry) \/ RequestDecommission(t, j, by, dry)
      PROVE  Untouched(i) \/ Rests(i)
  BY <1>2 DEF CreateTenant, RequestDecommission, Queue, Untouched, Rests, Holds, NoRow,
              ExecutionInv, TypeOK
<1>3. ASSUME NEW t \in Tenants, RegisterLocal(t) PROVE Untouched(i)
  BY <1>3 DEF RegisterLocal, Untouched, Holds
<1>4. ASSUME NEW j \in Jobs, NEW by \in Admins, Approve(j, by) PROVE Untouched(i) \/ Rests(i)
  BY <1>4 DEF Approve, ApprovableFrom, Untouched, Rests, Holds, ExecutionInv, TypeOK
<1>5. ASSUME NEW j \in Jobs, Reject(j) \/ Cancel(j) PROVE Untouched(i) \/ Rests(i)
  BY <1>5 DEF Reject, Cancel, RejectableFrom, CancellableFrom, Untouched, Rests, Holds,
              ExecutionInv, TypeOK
<1>6. ASSUME NEW s \in Sessions, NEW j \in Jobs, NEW runner \in Admins, Execute(s, j, runner)
      PROVE  Untouched(i) \/ Begins(i)
  <2>1. /\ execution[s] = Idle /\ status[j] = "approved" /\ TwoPersons(j, runner)
        /\ status' = [status EXCEPT ![j] = "running"]
        /\ execution' = [execution EXCEPT ![s] =
              [job |-> j, previous |-> tenant[job[j].tenant], step |-> 1]]
        /\ started' = [started EXCEPT ![j] = [approver |-> job[j].approver, runner |-> runner]]
        /\ UNCHANGED <<job, allowExec, lost>>
    BY <1>6 DEF Execute, Runnable
  <2>2. [job |-> j, previous |-> tenant[job[j].tenant], step |-> 1] # Idle
    BY DEF Idle
  <2>3. CASE i = j
    <3>1. Holds(s, j)'
      BY <2>1, <2>2 DEF Holds, ExecutionInv, TypeOK
    <3> QED BY <2>1, <2>3, <3>1 DEF Begins, ExecutionInv, TypeOK
  <2>4. CASE i # j
    BY <2>1, <2>4 DEF Untouched, Holds, ExecutionInv, TypeOK
  <2> QED BY <2>3, <2>4
<1>7. ASSUME NEW j \in Jobs, NEW runner \in Admins, ExecuteDisabled(j, runner)
      PROVE  Untouched(i) \/ Rests(i)
  BY <1>7 DEF ExecuteDisabled, Runnable, Untouched, Rests, Holds, ExecutionInv, TypeOK
<1>8. ASSUME NEW s \in Sessions, StepDone(s) PROVE Untouched(i)
  <2>1. /\ execution[s] \in Executions
        /\ execution' = [execution EXCEPT ![s] = [execution[s] EXCEPT !.step = @ + 1]]
        /\ UNCHANGED <<tenant, job, status, allowExec, started, lost>>
    BY <1>8 DEF StepDone, ExecutionInv, TypeOK
  <2>2. /\ [execution[s] EXCEPT !.step = @ + 1] # Idle
        /\ [execution[s] EXCEPT !.step = @ + 1].job = execution[s].job
    BY <2>1 DEF Executions, Idle
  <2> QED BY <2>1, <2>2 DEF Untouched, Holds, ExecutionInv, TypeOK
<1>9. ASSUME NEW s \in Sessions, LastStepDone(s) \/ StepFailed(s) PROVE Untouched(i) \/ Ends(i)
  <2>1. /\ execution[s] # Idle
        /\ \E outcome \in {"completed", "failed"} :
             status' = [status EXCEPT ![execution[s].job] = outcome]
        /\ execution' = [execution EXCEPT ![s] = Idle]
        /\ UNCHANGED <<job, allowExec, started, lost>>
    BY <1>9 DEF LastStepDone, StepFailed, Finish, Outcome
  <2>2. execution[s].job \in Jobs /\ status[execution[s].job] = "running"
    BY <2>1 DEF ExecutionInv, OneExecution, TypeOK, Executions
  <2>3. CASE i = execution[s].job
    BY <2>1, <2>2, <2>3 DEF Ends, ExecutionInv, TypeOK
  <2>4. CASE i # execution[s].job
    BY <2>1, <2>4 DEF Untouched, Holds, ExecutionInv, TypeOK
  <2> QED BY <2>3, <2>4
<1>10. CASE Restart
  BY <1>10 DEF Restart, Untouched, Holds
<1> QED BY <1>1, <1>2, <1>3, <1>4, <1>5, <1>6, <1>7, <1>8, <1>9, <1>10, StepCases

--------------------------------------------------------------------------------
(* A job that says it is running has a session, or lost it in a restart.      *)
THEOREM RunningHasSession == Spec => []RunningIsHeld
<1>1. Init => RunningIsHeld
  BY DEF Init, RunningIsHeld, NoRow
<1>2. ASSUME ExecutionInv, RunningIsHeld, [Next]_vars, NEW j \in Jobs, status'[j] = "running"
      PROVE  j \in lost' \/ \E s \in Sessions : Holds(s, j)'
  <2>1. CASE Untouched(j)
    BY <1>2, <2>1 DEF Untouched, RunningIsHeld, Holds
  <2>2. CASE Begins(j)
    BY <2>2 DEF Begins
  <2> QED BY <1>2, <2>1, <2>2, JobStep DEF Rests, Ends
<1>3. ExecutionInv /\ RunningIsHeld /\ [Next]_vars => RunningIsHeld'
  BY <1>2 DEF RunningIsHeld, Holds
<1> QED BY <1>1, <1>3, ExecutionsCorrect, PTL DEF Spec

(* Two persons stand behind every live execution, whatever approvals,         *)
(* rejections and failures preceded it: the check at its start, and a row     *)
(* that nobody can change until the outcome is written.                       *)
THEOREM TwoPersonsBehind == Spec => []TwoPersonRule
<1> DEFINE Rule(j) == status[j] \in {"running", "completed"} /\ Live(j) =>
              /\ job[j].approver # job[j].requester
              /\ started[j] # Nobody
              /\ started[j].approver = job[j].approver
              /\ started[j].runner # started[j].approver
<1>1. Init => TwoPersonRule
  BY DEF Init, TwoPersonRule, NoRow
<1>2. ASSUME ExecutionInv, TwoPersonRule, [Next]_vars, NEW j \in Jobs PROVE Rule(j)'
  <2>1. Rule(j)
    BY <1>2 DEF TwoPersonRule
  <2>2. CASE Untouched(j)
    BY <2>1, <2>2 DEF Untouched, Live
  <2>3. CASE Rests(j)
    BY <2>3 DEF Rests
  <2>4. CASE Begins(j)
    BY <2>4 DEF Begins, TwoPersons, Live, Nobody
  <2>5. CASE Ends(j)
    BY <2>1, <2>5 DEF Ends, Live
  <2> QED BY <1>2, <2>2, <2>3, <2>4, <2>5, JobStep
<1>3. ExecutionInv /\ TwoPersonRule /\ [Next]_vars => TwoPersonRule'
  BY <1>2 DEF TwoPersonRule
<1> QED BY <1>1, <1>3, ExecutionsCorrect, PTL DEF Spec

--------------------------------------------------------------------------------
(* The status a session will write back is explained as the tenant's is.      *)
CopiesExplained ==
  \A s \in Sessions : execution[s] # Idle =>
    LET j == execution[s].job
    IN started[j] # Nobody /\ Explained(job[j].tenant, execution[s].previous)

TenantInv == ExecutionInv /\ TenantsChangeLive /\ CopiesExplained

(* Executions are not forgotten: neither the history nor what was requested   *)
(* changes for a job that was executed.                                       *)
Remembered ==
  \A j \in Jobs : started[j] # Nobody =>
    /\ started'[j] # Nobody
    /\ job'[j].kind = job[j].kind /\ job'[j].tenant = job[j].tenant /\ job'[j].dry = job[j].dry

LEMMA StepRemembers ==
  ASSUME ExecutionInv, [Next]_vars
  PROVE  Remembered
<1>1. CASE UNCHANGED vars
  BY <1>1 DEF Remembered, vars
<1>2. ASSUME NEW t \in Tenants, NEW j \in Jobs, NEW by \in Admins, NEW dry \in BOOLEAN,
             CreateTenant(t, j, by, dry) \/ RequestDecommission(t, j, by, dry)
      PROVE  Remembered
  BY <1>2 DEF CreateTenant, RequestDecommission, Queue, Remembered, ExecutionInv, TypeOK, ApproverKnown
<1>3. ASSUME NEW j \in Jobs, NEW by \in Admins, Approve(j, by) PROVE Remembered
  <2>1. job[j] \in JobRows
    BY <1>3 DEF Approve, ApprovableFrom, ExecutionInv, TypeOK, NoRow
  <2>2. job' = [job EXCEPT ![j] = [job[j] EXCEPT !.approver = by]] /\ started' = started
    BY <1>3 DEF Approve
  <2> QED BY <2>1, <2>2 DEF Remembered, ExecutionInv, TypeOK, JobRows
<1>4. ASSUME NEW s \in Sessions, NEW j \in Jobs, NEW runner \in Admins, Execute(s, j, runner)
      PROVE  Remembered
  BY <1>4 DEF Execute, Remembered, ExecutionInv, TypeOK, Nobody
<1>5. ASSUME NEW j \in Jobs, NEW runner \in Admins, ExecuteDisabled(j, runner) PROVE Remembered
  BY <1>5 DEF ExecuteDisabled, Remembered, ExecutionInv, TypeOK, Nobody
<1>6. CASE UNCHANGED <<job, started>>
  BY <1>6 DEF Remembered
<1>7. \/ \E t \in Tenants, j \in Jobs, by \in Admins, dry \in BOOLEAN :
           CreateTenant(t, j, by, dry) \/ RequestDecommission(t, j, by, dry)
      \/ \E j \in Jobs, by \in Admins : Approve(j, by)
      \/ \E s \in Sessions, j \in Jobs, runner \in Admins : Execute(s, j, runner)
      \/ \E j \in Jobs, runner \in Admins : ExecuteDisabled(j, runner)
      \/ UNCHANGED <<job, started>>
  BY StepCases
     DEF RegisterLocal, Reject, Cancel, StepDone, LastStepDone, StepFailed, Finish, Restart, vars
<1> QED BY <1>2, <1>3, <1>4, <1>5, <1>6, <1>7

LEMMA ExplainedStays ==
  ASSUME Remembered, NEW t, NEW st, Explained(t, st)
  PROVE  /\ st = "provisioning" => Executed(t, "bootstrap")'
         /\ st \in {"decommissioning", "suspended"} => Executed(t, "decommission")'
<1>1. ASSUME NEW kind, Executed(t, kind) PROVE Executed(t, kind)'
  BY <1>1 DEF Remembered, Executed, Live
<1> QED BY <1>1 DEF Explained

(* What a step writes to a tenant: a status it had, one that needs no         *)
(* explanation, or one a live job stands for.                                 *)
LEMMA TenantStep ==
  ASSUME TenantInv, [Next]_vars, NEW t \in Tenants
  PROVE  Explained(t, tenant[t])'
<1>1. Remembered
  BY StepRemembers DEF TenantInv
<1>2. CASE tenant'[t] = tenant[t]
  BY <1>1, <1>2, ExplainedStays DEF TenantInv, TenantsChangeLive, Explained
<1>3. CASE tenant'[t] \in {"pending", "active", "error"}
  BY <1>3 DEF Explained
<1>4. ASSUME NEW s \in Sessions, NEW j \in Jobs, NEW runner \in Admins, Execute(s, j, runner)
      PROVE  Explained(t, tenant[t])'
  <2>1. /\ tenant' = [tenant EXCEPT ![job[j].tenant] = StartedTenant(j, tenant[job[j].tenant])]
        /\ started' = [started EXCEPT ![j] = [approver |-> job[j].approver, runner |-> runner]]
        /\ status[j] = "approved" /\ UNCHANGED job
    BY <1>4 DEF Execute, Runnable
  <2>2. job[j] \in JobRows /\ started'[j] # Nobody
    BY <2>1 DEF TenantInv, ExecutionInv, TypeOK, NoRow, Nobody
  <2>3. CASE t = job[j].tenant /\ ~job[j].dry
    <3>1. tenant'[t] = IF job[j].kind = "decommission" THEN "decommissioning" ELSE "provisioning"
      BY <2>1, <2>3 DEF StartedTenant, TenantInv, ExecutionInv, TypeOK
    <3>2. ASSUME NEW kind, kind = job[j].kind PROVE Executed(t, kind)'
      BY <2>1, <2>2, <2>3, <3>2 DEF Executed, Live
    <3>3. job[j].kind \in {"bootstrap", "decommission"}
      BY <2>2 DEF JobRows, Kinds
    <3> QED BY <3>1, <3>2, <3>3 DEF Explained
  <2>4. CASE t # job[j].tenant \/ job[j].dry
    BY <1>2, <2>1, <2>4 DEF StartedTenant, TenantInv, ExecutionInv, TypeOK
  <2> QED BY <2>3, <2>4
<1>5. ASSUME NEW s \in Sessions, LastStepDone(s) PROVE Explained(t, tenant[t])'
  <2> DEFINE e == execution[s]
  <2>1. /\ e # Idle
        /\ tenant' = [tenant EXCEPT ![job[e.job].tenant] = CompletedTenant(e)]
        /\ UNCHANGED <<job, started>>
    BY <1>5 DEF LastStepDone, Finish
  <2>2. /\ e.job \in Jobs /\ job[e.job] \in JobRows
        /\ started[e.job] # Nobody /\ Explained(job[e.job].tenant, e.previous)
    BY <2>1 DEF TenantInv, CopiesExplained, ExecutionInv, TypeOK, Executions
  <2>3. CASE t = job[e.job].tenant
    <3>1. tenant'[t] = CompletedTenant(e)
      BY <2>1, <2>3 DEF TenantInv, ExecutionInv, TypeOK
    <3>2. CASE job[e.job].kind = "bootstrap"
      BY <1>3, <3>1, <3>2 DEF CompletedTenant
    <3>3. CASE job[e.job].kind = "decommission" /\ job[e.job].dry
      <4>1. tenant'[t] = e.previous
        BY <3>1, <3>3 DEF CompletedTenant
      <4> QED BY <1>1, <2>2, <2>3, <4>1, ExplainedStays DEF Explained
    <3>4. CASE job[e.job].kind = "decommission" /\ ~job[e.job].dry
      <4>1. tenant'[t] = "suspended"
        BY <3>1, <3>4 DEF CompletedTenant
      <4>2. Executed(t, "decommission")'
        BY <2>1, <2>2, <2>3, <3>4 DEF Executed, Live
      <4> QED BY <4>1, <4>2 DEF Explained
    <3> QED BY <2>2, <3>2, <3>3, <3>4 DEF JobRows, Kinds
  <2>4. CASE t # job[e.job].tenant
    BY <1>2, <2>1, <2>4 DEF TenantInv, ExecutionInv, TypeOK
  <2> QED BY <2>3, <2>4
<1>6. ASSUME ~\E s \in Sessions, j \in Jobs, runner \in Admins : Execute(s, j, runner),
             ~\E s \in Sessions : LastStepDone(s)
      PROVE  tenant'[t] = tenant[t] \/ tenant'[t] \in {"pending", "active", "error"}
  BY <1>6, StepCases
     DEF CreateTenant, RequestDecommission, RegisterLocal, Approve, Reject, Cancel,
         ExecuteDisabled, StepDone, StepFailed, Finish, Restart, vars, TenantInv, ExecutionInv, TypeOK
<1> QED BY <1>2, <1>3, <1>4, <1>5, <1>6

LEMMA CopiesStep ==
  ASSUME TenantInv, [Next]_vars
  PROVE  CopiesExplained'
<1>1. Remembered
  BY StepRemembers DEF TenantInv
<1> DEFINE Copied(q) == started[execution[q].job] # Nobody
                        /\ Explained(job[execution[q].job].tenant, execution[q].previous)
<1>2. ASSUME NEW q \in Sessions, execution[q] # Idle,
             execution'[q].job = execution[q].job, execution'[q].previous = execution[q].previous
      PROVE  Copied(q)'
  <2>1. execution[q].job \in Jobs /\ Copied(q)
    BY <1>2 DEF TenantInv, CopiesExplained, ExecutionInv, TypeOK, Executions
  <2> QED BY <1>1, <1>2, <2>1, ExplainedStays DEF Remembered, Explained
<1>3. ASSUME NEW s \in Sessions, NEW j \in Jobs, NEW runner \in Admins, Execute(s, j, runner),
             NEW q \in Sessions, execution'[q] # Idle
      PROVE  Copied(q)'
  <2> DEFINE e == [job |-> j, previous |-> tenant[job[j].tenant], step |-> 1]
  <2>1. /\ execution' = [execution EXCEPT ![s] = e]
        /\ started' = [started EXCEPT ![j] = [approver |-> job[j].approver, runner |-> runner]]
        /\ status[j] = "approved" /\ UNCHANGED job
    BY <1>3 DEF Execute, Runnable
  <2>2. CASE q = s
    <3>1. execution'[q] = e /\ started'[j] # Nobody
      BY <2>1, <2>2 DEF TenantInv, ExecutionInv, TypeOK, Nobody
    <3>2. job[j] \in JobRows
      BY <2>1 DEF TenantInv, ExecutionInv, TypeOK, NoRow
    <3>3. Explained(job[j].tenant, tenant[job[j].tenant])
      BY <3>2 DEF TenantInv, TenantsChangeLive, JobRows
    <3> QED BY <1>1, <2>1, <3>1, <3>3, ExplainedStays DEF Explained
  <2>3. CASE q # s
    BY <1>2, <1>3, <2>1, <2>3 DEF TenantInv, ExecutionInv, TypeOK
  <2> QED BY <2>2, <2>3
<1>4. ASSUME NEW q \in Sessions, execution'[q] # Idle,
             ~\E s \in Sessions, j \in Jobs, runner \in Admins : Execute(s, j, runner)
      PROVE  Copied(q)'
  <2>1. CASE \E s \in Sessions : StepDone(s)
    <3>1. PICK s \in Sessions : StepDone(s)
      BY <2>1
    <3>2. /\ execution[s] # Idle /\ execution[s] \in Executions
          /\ execution' = [execution EXCEPT ![s] = [execution[s] EXCEPT !.step = @ + 1]]
      BY <3>1 DEF StepDone, TenantInv, ExecutionInv, TypeOK
    <3>3. /\ execution[q] # Idle
          /\ execution'[q].job = execution[q].job
          /\ execution'[q].previous = execution[q].previous
      BY <1>4, <3>2 DEF Executions, TenantInv, ExecutionInv, TypeOK
    <3> QED BY <1>2, <3>3
  <2>2. CASE ~\E s \in Sessions : StepDone(s)
    <3>1. execution'[q] = execution[q]
      BY <1>4, <2>2, StepCases
         DEF CreateTenant, RequestDecommission, Queue, RegisterLocal, Approve, Reject, Cancel,
             ExecuteDisabled, LastStepDone, StepFailed, Finish, Restart, vars,
             TenantInv, ExecutionInv, TypeOK
    <3> QED BY <1>2, <1>4, <3>1
  <2> QED BY <2>1, <2>2
<1> QED BY <1>3, <1>4 DEF CopiesExplained

(* Only live, executed jobs set a tenant up or take it down: a dry run that   *)
(* writes an old status back writes one that was earned before.               *)
THEOREM TenantsExplained == Spec => []TenantsChangeLive
<1>1. Init => TenantInv
  BY InitExecutions
     DEF Init, TenantInv, TenantsChangeLive, CopiesExplained, Explained, NoRow
<1>2. TenantInv /\ [Next]_vars => TenantInv'
  BY ExecutionStep, TenantStep, CopiesStep DEF TenantInv, TenantsChangeLive
<1>3. TenantInv => TenantsChangeLive
  BY DEF TenantInv
<1> QED BY <1>1, <1>2, <1>3, PTL DEF Spec

(* Running and being executed are the same, for one session at a time.        *)
THEOREM RunningHeldOnce == Spec => []RunningIsHeldOnce
BY ExecutionsExclude, RunningHasSession, PTL DEF RunningIsHeldOnce

--------------------------------------------------------------------------------
(* Skills. *)

Follows(s) ==
  IF S!OnDisk(s) THEN S!HasRow(s) /\ skill[s].hash = doc[s]
  ELSE S!HasRow(s) => skill[s].slug

(* Request r works on skill s. *)
On(r, s) == S!Waiting(r) /\ request[r].skill = s

(* What the disk and the row are while r, alone on its skill, is at a stage. *)
Tracked(r, s) ==
  /\ ~request[r].met
  /\ request[r].stage \in {"opens", "removes"} => Follows(s)
  /\ request[r].stage = "records" => doc[s] = request[r].to
  /\ request[r].stage = "forgets" => doc[s] = S!None

Alone(r, s) == \A q \in Requests : On(q, s) => q = r

SkillTracked(s) ==
  /\ ~S!Busied(s) => Follows(s)
  /\ \A r \in Requests : On(r, s) => Alone(r, s) /\ Tracked(r, s)

TextStages == {"opens", "writes", "records"}

SkillsInv ==
  /\ S!TypeOK
  /\ \A r \in Requests : S!Waiting(r) /\ request[r].stage \in TextStages => request[r].to \in Contents
  /\ \A s \in Skills \ behind : SkillTracked(s)

LEMMA SkillsInit == S!Init => SkillsInv
<1> SUFFICES ASSUME S!Init PROVE SkillsInv
  OBVIOUS
<1> USE DEF S!Init, S!Idle, S!Waiting
<1>1. S!TypeOK
  BY BoundsAreNumbers DEF S!TypeOK, S!Docs
<1>2. \A r \in Requests : ~S!Waiting(r)
  OBVIOUS
<1>3. \A s \in Skills : Follows(s)
  BY DEF Follows, S!OnDisk, S!HasRow
<1>4. QED
  BY <1>1, <1>2, <1>3 DEF SkillsInv, SkillTracked, On

LEMMA SkillsAwait ==
  ASSUME SkillsInv, NEW r \in Requests, NEW s \in Skills, NEW op \in {"save", "install", "delete"},
         NEW to \in Contents \cup {S!None}, NEW stage \in {"opens", "removes"},
         stage = "opens" => to \in Contents, S!Await(r, op, s, to, stage)
  PROVE  SkillsInv'
<1> USE DEF S!Await, S!Counts
<1> DEFINE new == [op |-> op, skill |-> s, to |-> to, stage |-> stage, met |-> FALSE]
<1>1. new \in S!Busy /\ new # S!Idle
  BY DEF S!Busy, S!Idle
<1>2. S!TypeOK'
  BY <1>1, BoundsAreNumbers DEF SkillsInv, S!TypeOK, S!Busied
<1>3. request'[r] = new /\ (\A q \in Requests \ {r} : request'[q] = request[q])
  BY DEF SkillsInv, S!TypeOK
<1>4. \A q \in Requests : S!Waiting(q)' /\ request'[q].stage \in TextStages => request'[q].to \in Contents
  BY <1>1, <1>3 DEF SkillsInv, S!Waiting, TextStages
<1>5. ASSUME NEW t \in Skills \ behind'
      PROVE  SkillTracked(t)'
  <2>1. t \notin behind /\ SkillTracked(t)
    BY <1>5 DEF SkillsInv
  <2>2. Follows(t)' = Follows(t)
    BY DEF Follows, S!OnDisk, S!HasRow
  <2>3. CASE t = s
    <3>1. ~S!Busied(s)
      BY <1>5, <2>3
    <3>2. \A q \in Requests : On(q, t)' => q = r
      BY <1>3, <2>3, <3>1 DEF S!Busied, On, S!Waiting
    <3>3. On(r, t)' /\ Follows(t)'
      BY <1>1, <1>3, <2>1, <2>2, <2>3, <3>1 DEF On, S!Waiting, SkillTracked
    <3>4. QED
      BY <1>3, <3>2, <3>3 DEF SkillTracked, Alone, Tracked, S!Busied, On
  <2>4. CASE t # s
    <3>1. \A q \in Requests : On(q, t)' <=> On(q, t)
      BY <1>3, <1>1, <2>4 DEF On, S!Waiting
    <3>2. \A q \in Requests : On(q, t) => request'[q] = request[q]
      BY <1>3, <2>4 DEF On, S!Waiting, S!Await
    <3>3. S!Busied(t)' <=> S!Busied(t)
      BY <3>1 DEF S!Busied, On
    <3>4. QED
      BY <2>1, <2>2, <3>1, <3>2, <3>3 DEF SkillTracked, Alone, Tracked
  <2>5. QED
    BY <2>3, <2>4
<1>6. QED
  BY <1>2, <1>4, <1>5 DEF SkillsInv

(* A stage of r on its skill: others on it have met that, and others are     *)
(* not touched.                                                              *)
LEMMA SkillsOthers ==
  ASSUME SkillsInv, NEW r \in Requests, NEW s \in Skills, On(r, s),
         NEW rest \in S!Busy \cup {S!Idle}, rest = S!Idle \/ rest.skill = s,
         request' = [S!Met(s) EXCEPT ![r] = rest],
         rest # S!Idle /\ rest.stage \in TextStages => rest.to \in Contents,
         \A t \in Skills \ {s} : doc'[t] = doc[t] /\ skill'[t] = skill[t],
         behind \subseteq behind', behind' \subseteq Skills
  PROVE  /\ request' \in [Requests -> S!Busy \cup {S!Idle}]
         /\ \A q \in Requests : S!Waiting(q)' /\ request'[q].stage \in TextStages => request'[q].to \in Contents
         /\ \A t \in Skills \ behind' : t # s => SkillTracked(t)'
         /\ s \notin behind' =>
              /\ SkillTracked(s) /\ Tracked(r, s)
              /\ \A q \in Requests : On(q, s)' => q = r
              /\ request'[r] = rest
<1> DEFINE met(q) == [request[q] EXCEPT !.met = TRUE]
<1> USE DEF SkillsInv, S!TypeOK
<1>1. \A q \in Requests \ {r} : request'[q] = IF On(q, s) THEN met(q) ELSE request[q]
  BY DEF S!Met, On
<1>2. request'[r] = rest
  BY DEF S!Met
<1>3. \A q \in Requests : On(q, s) => met(q) \in S!Busy /\ met(q) # S!Idle
                                   /\ met(q).skill = s /\ met(q).stage = request[q].stage /\ met(q).to = request[q].to
  <2>1. \A q \in Requests : On(q, s) => request[q] \in S!Busy /\ request[q].skill = s
    BY DEF On, S!Waiting
  <2>2. QED
    BY <2>1 DEF S!Busy, S!Idle
<1>4. request' \in [Requests -> S!Busy \cup {S!Idle}]
  <2>1. S!Met(s) \in [Requests -> S!Busy \cup {S!Idle}]
    BY <1>3 DEF S!Met, On
  <2>2. QED
    BY <2>1
<1> HIDE DEF met
<1>5. \A q \in Requests : S!Waiting(q)' /\ request'[q].stage \in TextStages => request'[q].to \in Contents
  BY <1>1, <1>2, <1>3 DEF S!Waiting, On
<1>6. ASSUME NEW t \in Skills \ behind', t # s
      PROVE  SkillTracked(t)'
  <2>1. SkillTracked(t)
    BY <1>6
  <2>2. Follows(t)' <=> Follows(t)
    BY <1>6 DEF Follows, S!OnDisk, S!HasRow
  <2>3. ASSUME NEW q \in Requests
        PROVE  (On(q, t)' <=> On(q, t)) /\ (On(q, t) => request'[q] = request[q])
    <3>1. CASE On(q, s) /\ q # r
      BY <1>1, <1>3, <1>6, <3>1 DEF On, S!Waiting
    <3>2. CASE ~On(q, s) /\ q # r
      BY <1>1, <3>2 DEF On, S!Waiting
    <3>3. CASE q = r
      BY <1>2, <1>6, <3>3 DEF On, S!Waiting
    <3>4. QED
      BY <3>1, <3>2, <3>3
  <2>4. doc'[t] = doc[t] /\ (S!Busied(t)' <=> S!Busied(t))
    BY <1>6, <2>3 DEF S!Busied, On
  <2>5. QED
    BY <2>1, <2>2, <2>3, <2>4 DEF SkillTracked, Alone, Tracked
<1>7. ASSUME s \notin behind'
      PROVE  SkillTracked(s) /\ Tracked(r, s) /\ \A q \in Requests : On(q, s)' => q = r
  <2>1. SkillTracked(s)
    BY <1>7
  <2>2. Alone(r, s) /\ Tracked(r, s)
    BY <2>1 DEF SkillTracked
  <2>3. \A q \in Requests \ {r} : ~On(q, s)
    BY <2>2 DEF Alone
  <2>4. \A q \in Requests \ {r} : request'[q] = request[q]
    BY <1>1, <2>3
  <2>5. QED
    BY <2>1, <2>2, <2>3, <2>4 DEF On, S!Waiting
<1>8. QED
  BY <1>2, <1>4, <1>5, <1>6, <1>7

(* What holds of a skill after its only request has moved on. *)
LEMMA SkillsStage ==
  ASSUME SkillsInv, NEW r \in Requests, NEW s \in Skills, On(r, s), NEW stage, S!Stage(r, stage),
         stage \in {"writes", "records", "removes", "forgets"},
         stage \in TextStages => request[r].to \in Contents,
         \A t \in Skills \ {s} : doc'[t] = doc[t], skill' = skill, saves' = saves, behind' = behind,
         doc' \in [Skills -> S!Docs],
         Tracked(r, s) /\ s \notin behind =>
            /\ stage # "removes"
            /\ stage = "records" => doc'[s] = request[r].to
            /\ stage = "forgets" => doc'[s] = S!None
  PROVE  SkillsInv'
<1> DEFINE rest == [request[r] EXCEPT !.stage = stage]
<1>1. /\ rest \in S!Busy /\ rest # S!Idle /\ rest.skill = s /\ rest.stage = stage
      /\ rest.to = request[r].to /\ rest.met = request[r].met
  BY DEF SkillsInv, S!TypeOK, On, S!Waiting, S!Busy, S!Idle
<1>2. request' = [S!Met(s) EXCEPT ![r] = rest]
  BY DEF S!Stage, On
<1>3. behind' \subseteq Skills
  BY DEF SkillsInv, S!TypeOK
<1> HIDE DEF rest
<1>4. /\ request' \in [Requests -> S!Busy \cup {S!Idle}]
      /\ \A q \in Requests : S!Waiting(q)' /\ request'[q].stage \in TextStages => request'[q].to \in Contents
      /\ \A t \in Skills \ behind' : t # s => SkillTracked(t)'
      /\ s \notin behind' =>
              /\ SkillTracked(s) /\ Tracked(r, s)
              /\ \A q \in Requests : On(q, s)' => q = r
              /\ request'[r] = rest
  BY <1>1, <1>2, <1>3, SkillsOthers, ZenonT(60)
<1>5. S!TypeOK'
  BY <1>4 DEF SkillsInv, S!TypeOK
<1>6. ASSUME s \notin behind'
      PROVE  SkillTracked(s)'
  <2>1. Tracked(r, s) /\ request'[r] = rest /\ \A q \in Requests : On(q, s)' => q = r
    BY <1>4, <1>6
  <2>2. On(r, s)' /\ S!Busied(s)'
    BY <2>1, <1>1 DEF On, S!Waiting, S!Busied
  <2>3. Tracked(r, s)'
    BY <2>1, <1>1, <1>6 DEF Tracked
  <2>4. QED
    BY <2>1, <2>2, <2>3 DEF SkillTracked, Alone
<1>7. QED
  BY <1>4, <1>5, <1>6 DEF SkillsInv

(* What holds of a skill after its only request has ended. *)
LEMMA SkillsEnd ==
  ASSUME SkillsInv, NEW r \in Requests, NEW s \in Skills, On(r, s),
         \/ request' = [S!Met(s) EXCEPT ![r] = S!Idle]
         \/ request' = [request EXCEPT ![r] = S!Idle] /\ behind' = behind,
         \A t \in Skills \ {s} : doc'[t] = doc[t] /\ skill'[t] = skill[t],
         saves' = saves, behind \subseteq behind', behind' \subseteq Skills,
         doc' \in [Skills -> S!Docs], skill' \in [Skills -> S!Rows \cup {S!NoRow}],
         Tracked(r, s) /\ s \notin behind' => Follows(s)'
  PROVE  SkillsInv'
<1>1. CASE request' = [S!Met(s) EXCEPT ![r] = S!Idle]
  <2>1. /\ request' \in [Requests -> S!Busy \cup {S!Idle}]
        /\ \A q \in Requests : S!Waiting(q)' /\ request'[q].stage \in TextStages => request'[q].to \in Contents
        /\ \A t \in Skills \ behind' : t # s => SkillTracked(t)'
        /\ s \notin behind' =>
              /\ SkillTracked(s) /\ Tracked(r, s)
              /\ \A q \in Requests : On(q, s)' => q = r
              /\ request'[r] = S!Idle
    BY <1>1, SkillsOthers
  <2>2. S!TypeOK'
    BY <2>1 DEF SkillsInv, S!TypeOK
  <2>3. s \notin behind' => SkillTracked(s)'
    BY <2>1 DEF SkillTracked, On, S!Waiting, S!Busied
  <2>4. QED
    BY <2>1, <2>2, <2>3 DEF SkillsInv
<1>2. CASE request' = [request EXCEPT ![r] = S!Idle] /\ behind' = behind
  <2> USE <1>2 DEF SkillsInv, S!TypeOK
  <2>1. request'[r] = S!Idle /\ \A q \in Requests \ {r} : request'[q] = request[q]
    OBVIOUS
  <2>2. S!TypeOK'
    OBVIOUS
  <2>3. \A q \in Requests : S!Waiting(q)' /\ request'[q].stage \in TextStages => request'[q].to \in Contents
    BY <2>1 DEF S!Waiting
  <2>4. \A t \in Skills : \A q \in Requests : On(q, t)' <=> (On(q, t) /\ q # r)
    BY <2>1 DEF On, S!Waiting
  <2>5. ASSUME NEW t \in Skills \ behind', t # s
        PROVE  SkillTracked(t)'
    <3>1. SkillTracked(t)
      BY <2>5
    <3>2. \A q \in Requests : On(q, t)' <=> On(q, t)
      BY <2>4, <2>5 DEF On
    <3>3. \A q \in Requests : On(q, t) => request'[q] = request[q]
      BY <2>1, <2>5 DEF On
    <3>4. doc'[t] = doc[t] /\ (Follows(t)' <=> Follows(t)) /\ (S!Busied(t)' <=> S!Busied(t))
      BY <2>5, <3>2 DEF Follows, S!OnDisk, S!HasRow, S!Busied, On
    <3>5. QED
      BY <3>1, <3>2, <3>3, <3>4 DEF SkillTracked, Alone, Tracked
  <2>6. ASSUME s \notin behind'
        PROVE  SkillTracked(s)'
    <3>1. Alone(r, s) /\ Tracked(r, s)
      BY <2>6 DEF SkillTracked
    <3>2. \A q \in Requests : ~On(q, s)'
      BY <2>4, <3>1 DEF Alone
    <3>3. QED
      BY <2>6, <3>1, <3>2 DEF SkillTracked, S!Busied, On
  <2>7. QED
    BY <2>2, <2>3, <2>5, <2>6
<1>3. QED
  BY <1>1, <1>2

LEMMA SkillsRequests ==
  ASSUME SkillsInv, NEW r \in Requests,
         \/ S!Opens(r) \/ S!Writes(r) \/ S!Records(r) \/ S!Removes(r) \/ S!Forgets(r) \/ S!Fails(r)
  PROVE  SkillsInv'
<1> USE DEF S!At
<1>0. PICK s \in Skills : S!Waiting(r) /\ s = request[r].skill
  BY DEF SkillsInv, S!TypeOK, S!Busy, S!Waiting, S!Idle,
         S!Opens, S!Writes, S!Records, S!Removes, S!Forgets, S!Fails
<1>1. /\ S!Waiting(r) /\ request[r] \in S!Busy /\ s \in Skills /\ On(r, s)
      /\ request[r].to \in Contents \cup {S!None}
      /\ request[r].stage \in TextStages => request[r].to \in Contents
  BY <1>0 DEF SkillsInv, S!TypeOK, S!Busy, S!Waiting, S!Idle, On
<1>2. doc \in [Skills -> S!Docs] /\ skill \in [Skills -> S!Rows \cup {S!NoRow}] /\ behind \subseteq Skills
  BY DEF SkillsInv, S!TypeOK
<1>3. CASE S!Opens(r)
  <2>1. doc' = [doc EXCEPT ![s] = S!Partial]
    BY <1>0, <1>3 DEF S!Opens
  <2>2. doc' \in [Skills -> S!Docs] /\ \A t \in Skills \ {s} : doc'[t] = doc[t]
    BY <1>2, <2>1 DEF S!Docs
  <2>3. S!Stage(r, "writes") /\ request[r].stage \in TextStages
    BY <1>3 DEF S!Opens, TextStages
  <2>4. QED
    BY <1>1, <1>3, <2>2, <2>3, SkillsStage DEF S!Opens
<1>4. CASE S!Writes(r)
  <2>1. PICK text \in {request[r].to} \cup (IF request[r].met THEN {doc[s], S!Partial} ELSE {}) :
          doc' = [doc EXCEPT ![s] = text]
    BY <1>0, <1>4 DEF S!Writes
  <2>2. text \in S!Docs
    BY <1>1, <1>2, <2>1 DEF S!Docs
  <2>3. doc' \in [Skills -> S!Docs] /\ \A t \in Skills \ {s} : doc'[t] = doc[t]
    BY <1>2, <2>1, <2>2
  <2>4. Tracked(r, s) => doc'[s] = request[r].to
    BY <1>1, <1>2, <2>1 DEF Tracked
  <2>5. S!Stage(r, "records") /\ request[r].stage \in TextStages
    BY <1>4 DEF S!Writes, TextStages
  <2>6. QED
    BY <1>1, <1>4, <2>3, <2>4, <2>5, SkillsStage DEF S!Writes
<1>5. CASE S!Records(r)
  <2> DEFINE new == S!Recorded(s, request[r].to, request[r].op = "install")
  <2>1. skill' = [skill EXCEPT ![s] = new] /\ UNCHANGED <<doc, saves, behind>>
        /\ request' = [request EXCEPT ![r] = S!Idle]
    BY <1>0, <1>5 DEF S!Records
  <2>2. request[r].to \in Contents
    BY <1>1, <1>5 DEF S!Records, TextStages
  <2>3. new \in S!Rows /\ new # S!NoRow /\ new.hash = request[r].to
    BY <1>1, <1>2, <2>2, ContentsAreText DEF S!Recorded, S!Rows, S!Docs, S!HasRow, S!NoRow
  <2> HIDE DEF new
  <2>4. skill' \in [Skills -> S!Rows \cup {S!NoRow}] /\ skill'[s] = new
        /\ \A t \in Skills \ {s} : skill'[t] = skill[t]
    BY <1>1, <1>2, <2>1, <2>3
  <2>5. Tracked(r, s) => Follows(s)'
    BY <1>5, <2>1, <2>2, <2>3, <2>4, ContentsAreText DEF Tracked, Follows, S!OnDisk, S!HasRow, S!Records
  <2>6. QED
    BY <1>1, <1>2, <2>1, <2>4, <2>5, SkillsEnd
<1>6. CASE S!Removes(r)
  <2>1. doc' = [doc EXCEPT ![s] = S!None]
    BY <1>0, <1>6 DEF S!Removes
  <2>2. doc' \in [Skills -> S!Docs] /\ doc'[s] = S!None /\ \A t \in Skills \ {s} : doc'[t] = doc[t]
    BY <1>1, <1>2, <2>1 DEF S!Docs
  <2>3. S!Stage(r, "forgets") /\ "forgets" \notin TextStages
    BY <1>6 DEF S!Removes, TextStages
  <2>4. QED
    BY <1>1, <1>6, <2>2, <2>3, SkillsStage DEF S!Removes
<1>7. CASE S!Forgets(r)
  <2>1. skill' = [skill EXCEPT ![s] = S!NoRow] /\ UNCHANGED <<doc, saves, behind>>
        /\ request' = [request EXCEPT ![r] = S!Idle]
    BY <1>0, <1>7 DEF S!Forgets
  <2>2. skill' \in [Skills -> S!Rows \cup {S!NoRow}] /\ skill'[s] = S!NoRow
        /\ \A t \in Skills \ {s} : skill'[t] = skill[t]
    BY <1>1, <1>2, <2>1
  <2>3. Tracked(r, s) => Follows(s)'
    BY <1>7, <2>1, <2>2 DEF Tracked, Follows, S!OnDisk, S!HasRow, S!Forgets
  <2>4. QED
    BY <1>1, <1>2, <2>1, <2>2, <2>3, SkillsEnd
<1>8. CASE S!Fails(r)
  <2>1. doc' \in {doc, [doc EXCEPT ![s] = S!None]} /\ (request[r].stage # "removes" => doc' = doc)
    BY <1>0, <1>8 DEF S!Fails
  <2>2. doc' \in [Skills -> S!Docs] /\ \A t \in Skills \ {s} : doc'[t] = doc[t]
    BY <1>1, <1>2, <2>1 DEF S!Docs
  <2>3. behind' = (IF request[r].stage = "opens" THEN behind ELSE behind \cup {s})
    BY <1>0, <1>1, <1>8 DEF S!Fails
  <2>4. request' = [S!Met(s) EXCEPT ![r] = S!Idle] /\ UNCHANGED <<skill, saves>>
    BY <1>0, <1>8 DEF S!Fails
  <2>5. Tracked(r, s) /\ s \notin behind' => Follows(s)'
    BY <2>1, <2>3, <2>4 DEF Tracked, Follows, S!OnDisk, S!HasRow
  <2>6. QED
    BY <1>1, <1>2, <2>2, <2>3, <2>4, <2>5, SkillsEnd
<1>9. QED
  BY <1>3, <1>4, <1>5, <1>6, <1>7, <1>8

LEMMA SkillsJob ==
  ASSUME SkillsInv, S!Sync
  PROVE  SkillsInv'
<1> USE DEF SkillsInv, S!TypeOK
<1>1. \A s \in Skills : skill'[s] =
        IF S!OnDisk(s) THEN [hash |-> doc[s], slug |-> S!HasRow(s) /\ skill[s].slug]
        ELSE IF S!Vanished(s) /\ S!Looked(s) THEN S!NoRow ELSE skill[s]
  BY DEF S!Sync, S!Vanished
<1>2. \A s \in Skills : S!OnDisk(s) =>
        /\ [hash |-> doc[s], slug |-> S!HasRow(s) /\ skill[s].slug] \in S!Rows
        /\ [hash |-> doc[s], slug |-> S!HasRow(s) /\ skill[s].slug] # S!NoRow
  BY DEF S!OnDisk, S!Rows, S!NoRow, S!HasRow
<1>3. skill' \in [Skills -> S!Rows \cup {S!NoRow}]
  <2>1. \A s \in Skills : skill'[s] \in S!Rows \cup {S!NoRow}
    BY <1>1, <1>2
  <2>2. DOMAIN skill' = Skills /\ skill' = [s \in Skills |-> skill'[s]]
    BY DEF S!Sync
  <2>3. QED
    BY <2>1, <2>2
<1>4. UNCHANGED <<doc, request, saves>> /\ behind' = {s \in behind : S!Busied(s) \/ (S!Vanished(s) /\ S!DirectoryGone(s))}
  BY DEF S!Sync
<1>5. S!TypeOK'
  BY <1>3, <1>4
<1>6. \A r \in Requests : S!Waiting(r)' /\ request'[r].stage \in TextStages => request'[r].to \in Contents
  BY <1>4 DEF S!Waiting
<1>7. ASSUME NEW s \in Skills, Follows(s) \/ ~(S!Vanished(s) /\ S!DirectoryGone(s))
      PROVE  Follows(s)'
  <2>1. CASE S!OnDisk(s)
    <3> DEFINE new == [hash |-> doc[s], slug |-> S!HasRow(s) /\ skill[s].slug]
    <3>1. new # S!NoRow /\ new.hash = doc[s] /\ skill'[s] = new
      BY <1>1, <1>2, <2>1
    <3> HIDE DEF new
    <3>2. QED
      BY <1>4, <2>1, <3>1 DEF Follows, S!OnDisk, S!HasRow
  <2>2. CASE ~S!OnDisk(s)
    <3>1. S!Vanished(s) => ~Follows(s)
      BY <2>2 DEF S!Vanished, Follows
    <3>2. S!Vanished(s) => S!Looked(s)
      BY <1>7, <3>1 DEF S!Looked, S!DirectoryGone
    <3>3. CASE S!Vanished(s)
      BY <1>1, <1>4, <2>2, <3>2, <3>3 DEF Follows, S!OnDisk, S!HasRow
    <3>4. CASE ~S!Vanished(s)
      BY <1>1, <1>4, <2>2, <3>4 DEF Follows, S!OnDisk, S!HasRow, S!Vanished
    <3>5. QED
      BY <3>3, <3>4
  <2>3. QED
    BY <2>1, <2>2
<1>8. ASSUME NEW s \in Skills \ behind'
      PROVE  SkillTracked(s)'
  <2>1. /\ S!Busied(s)' <=> S!Busied(s)
        /\ \A r \in Requests : (On(r, s)' <=> On(r, s)) /\ (Alone(r, s)' <=> Alone(r, s))
    BY <1>4 DEF S!Busied, On, S!Waiting, Alone
  <2>2. CASE s \notin behind
    <3>1. SkillTracked(s)
      BY <2>2
    <3>2. Follows(s) => Follows(s)'
      BY <1>7
    <3>3. QED
      BY <1>4, <2>1, <3>1, <3>2 DEF SkillTracked, Tracked
  <2>3. CASE s \in behind
    <3>1. ~S!Busied(s) /\ ~(S!Vanished(s) /\ S!DirectoryGone(s))
      BY <1>4, <1>8, <2>3
    <3>2. Follows(s)'
      BY <1>7, <3>1
    <3>3. QED
      BY <2>1, <3>1, <3>2 DEF SkillTracked, S!Busied, On
  <2>4. QED
    BY <2>2, <2>3
<1>9. QED
  BY <1>5, <1>6, <1>8

LEMMA SkillsEdit ==
  ASSUME SkillsInv, NEW s \in Skills, NEW content \in Contents \cup {S!None}, S!EditDoc(s, content)
  PROVE  SkillsInv'
<1> USE DEF SkillsInv, S!TypeOK
<1> DEFINE met(q) == [request[q] EXCEPT !.met = TRUE]
<1>1. \A q \in Requests : request'[q] = IF On(q, s) THEN met(q) ELSE request[q]
  BY DEF S!EditDoc, S!Met, On
<1>2. \A q \in Requests : On(q, s) => met(q) \in S!Busy /\ met(q) # S!Idle
                                   /\ met(q).skill = s /\ met(q).stage = request[q].stage /\ met(q).to = request[q].to
  BY DEF On, S!Busy, S!Waiting, S!Idle
<1>3. request' \in [Requests -> S!Busy \cup {S!Idle}]
  BY <1>2 DEF S!EditDoc, S!Met, On
<1> HIDE DEF met
<1>4. doc' \in [Skills -> S!Docs] /\ (\A t \in Skills \ {s} : doc'[t] = doc[t])
      /\ skill' = skill /\ behind' = behind \cup {s} /\ saves' \in 0..MaxSaves
  BY BoundsAreNumbers DEF S!EditDoc, S!Docs, S!Counts
<1>5. \A q \in Requests : S!Waiting(q)' /\ request'[q].stage \in TextStages => request'[q].to \in Contents
  BY <1>1, <1>2 DEF S!Waiting, On
<1>6. ASSUME NEW t \in Skills \ behind'
      PROVE  SkillTracked(t)'
  <2>1. SkillTracked(t) /\ t # s
    BY <1>4, <1>6
  <2>2. ASSUME NEW q \in Requests
        PROVE  (On(q, t)' <=> On(q, t)) /\ (On(q, t) => request'[q] = request[q])
    BY <1>1, <1>2, <2>1 DEF On, S!Waiting
  <2>3. (Follows(t)' <=> Follows(t)) /\ (S!Busied(t)' <=> S!Busied(t)) /\ doc'[t] = doc[t]
    BY <1>4, <2>1, <2>2 DEF Follows, S!OnDisk, S!HasRow, S!Busied, On
  <2>4. QED
    BY <2>1, <2>2, <2>3 DEF SkillTracked, Alone, Tracked
<1>7. QED
  BY <1>3, <1>4, <1>5, <1>6

LEMMA SkillsCrash ==
  ASSUME SkillsInv, S!Crash
  PROVE  SkillsInv'
<1> USE DEF SkillsInv, S!TypeOK
<1>1. \A r \in Requests : ~S!Waiting(r)'
  BY DEF S!Crash, S!Waiting
<1>2. S!TypeOK'
  BY DEF S!Crash
<1>3. \A s \in Skills \ behind' : Follows(s) /\ (Follows(s)' <=> Follows(s))
  BY DEF S!Crash, SkillTracked, Follows, S!OnDisk, S!HasRow
<1>4. QED
  BY <1>1, <1>2, <1>3 DEF SkillTracked, S!Busied, On

LEMMA SkillsNext == SkillsInv /\ S!Next => SkillsInv'
<1> SUFFICES ASSUME SkillsInv, S!Next PROVE SkillsInv'
  OBVIOUS
<1>1. ASSUME NEW r \in Requests, NEW s \in Skills, NEW c \in Contents, S!Save(r, s, c) \/ S!Install(r, s, c)
      PROVE  SkillsInv'
  BY <1>1, SkillsAwait DEF S!Save, S!Install
<1>2. ASSUME NEW r \in Requests, NEW s \in Skills, S!Delete(r, s)
      PROVE  SkillsInv'
  BY <1>2, SkillsAwait DEF S!Delete
<1>3. QED
  BY <1>1, <1>2, SkillsRequests, SkillsJob, SkillsEdit, SkillsCrash DEF S!Next

LEMMA SkillsKept == SkillsInv /\ UNCHANGED skillVars => SkillsInv'
BY DEF skillVars, SkillsInv, S!TypeOK, S!Waiting, SkillTracked, Follows, Tracked,
       On, Alone, S!OnDisk, S!HasRow, S!Busied

(* Whatever the order of saves, installations, deletions, edits, jobs and    *)
(* crashes, and for any number of them: a skill on the disk has a row with   *)
(* the hash of its text, but for one that the job has yet to look at.        *)
THEOREM SkillRows == SpecAll => []SkillsFollowDisk
<1> DEFINE IInv == moves = "skills" => SkillsInv
<1>1. InitAll => IInv
  BY SkillsInit DEF InitAll
<1>2. IInv /\ [NextAll]_allVars => IInv'
  <2> SUFFICES ASSUME IInv, [NextAll]_allVars, moves' = "skills" PROVE SkillsInv'
    OBVIOUS
  <2>1. CASE UNCHANGED allVars
    BY <2>1, SkillsKept DEF allVars
  <2>2. CASE NextAll
    <3>1. moves = "skills" /\ S!Next
      BY <2>2 DEF NextAll
    <3>2. QED
      BY <3>1, SkillsNext
  <2>3. QED
    BY <2>1, <2>2
<1>3. IInv => SkillsFollowDisk
  BY DEF SkillsFollowDisk, S!SkillsFollowDisk, SkillsInv, SkillTracked, Follows
<1>4. QED
  BY <1>1, <1>2, <1>3, PTL DEF SpecAll

--------------------------------------------------------------------------------
(* The sync with GitHub. *)

(* A pull has not passed a change of issue n: it will fetch it, it has it as *)
(* it is, or the change is not older than the time that it will record.      *)
Fetches(q, n) ==
  \/ issue[n].at >= pull[q].at
  \/ pull[q].is = "asked" /\ issue[n].at >= pull[q].since
  \/ pull[q].is = "answered" /\ n \in G!Got(q) /\ pull[q].got[n] = issue[n]

GitHubTypes ==
  /\ now \in Nat /\ lastSync.at \in Nat /\ lastSync.at <= now
  /\ DOMAIN pull = Pulls /\ DOMAIN issue = G!Issues /\ unseen \subseteq G!Issues
  /\ \A n \in unseen : G!Opened(n) /\ issue[n].at \in Nat
  /\ \A q \in Pulls : pull[q] # G!Idle =>
       /\ DOMAIN pull[q] = {"is", "at", "since", "got"} /\ pull[q].is \in {"asked", "answered"}
       /\ pull[q].at \in Nat /\ pull[q].at <= now

GitHubInv ==
  /\ GitHubTypes
  /\ \A n \in unseen \ missed :
       /\ issue[n].at >= lastSync.at
       /\ \A q \in Pulls : pull[q] # G!Idle => Fetches(q, n)

LEMMA GitHubInit == G!Init => GitHubInv
  BY DEF G!Init, GitHubInv, GitHubTypes

(* A step that leaves pulls alone: what is unseen after it was unseen, or is *)
(* among the issues that are edited by it.                                   *)
LEMMA GitHubNoPull ==
  ASSUME GitHubInv, pull' = pull, lastSync' = lastSync, now' \in {now, now + 1},
         DOMAIN issue' = G!Issues, unseen' \subseteq G!Issues,
         \A n \in unseen' :
           \/ n \in unseen /\ issue'[n] = issue[n] /\ (n \in missed => n \in missed')
           \/ G!Opened(n)' /\ issue'[n].at = now
  PROVE  GitHubInv'
<1>1. GitHubTypes'
  BY DEF GitHubInv, GitHubTypes, G!Opened
<1>2. ASSUME NEW n \in unseen' \ missed'
      PROVE  /\ issue'[n].at >= lastSync.at
             /\ \A q \in Pulls : pull[q] # G!Idle => Fetches(q, n)'
  <2>1. CASE G!Opened(n)' /\ issue'[n].at = now
    BY <2>1 DEF GitHubInv, GitHubTypes, Fetches
  <2>2. CASE n \in unseen /\ issue'[n] = issue[n] /\ (n \in missed => n \in missed')
    BY <2>2, <1>2 DEF GitHubInv, GitHubTypes, Fetches, G!Got
  <2>3. QED
    BY <2>1, <2>2
<1>3. QED
  BY <1>1, <1>2 DEF GitHubInv

LEMMA GitHubTasks ==
  ASSUME GitHubInv,
         \/ G!Tick
         \/ \E p \in Pushes, t \in G!Tasks, content \in Contents :
              G!CreateTask(t, content, p) \/ G!ChangeTask(t, content, p)
         \/ \E p \in Pushes : G!PushAnswered(p) \/ G!PushFails(p)
  PROVE  GitHubInv'
<1>1. now' \in {now, now + 1} /\ UNCHANGED <<pull, lastSync, issue, unseen, missed>>
  BY DEF G!Tick, G!CreateTask, G!ChangeTask, G!PushAnswered, G!PushFails
<1>2. DOMAIN issue = G!Issues /\ unseen \subseteq G!Issues
  BY DEF GitHubInv, GitHubTypes
<1>3. QED
  BY <1>1, <1>2, GitHubNoPull

LEMMA GitHubLands ==
  ASSUME GitHubInv, NEW p \in Pushes, NEW n \in G!Issues, G!Lands(p, n)
  PROVE  GitHubInv'
<1>1. /\ UNCHANGED <<now, pull, lastSync>> /\ DOMAIN issue' = G!Issues
      /\ unseen' = unseen \ {n} /\ missed' = missed \ {n} /\ unseen' \subseteq G!Issues
      /\ \A m \in unseen' : issue'[m] = issue[m]
  BY DEF G!Lands, GitHubInv, GitHubTypes
<1>2. QED
  BY <1>1, GitHubNoPull

LEMMA GitHubEdit ==
  ASSUME GitHubInv, NEW n \in G!Issues, NEW content \in Contents, G!Edit(n, content)
  PROVE  GitHubInv'
<1>1. /\ UNCHANGED <<now, pull, lastSync>> /\ DOMAIN issue' = G!Issues
      /\ unseen' = unseen \cup {n} /\ missed' = missed \ {n} /\ unseen' \subseteq G!Issues
      /\ \A m \in unseen' \ {n} : issue'[m] = issue[m]
      /\ issue'[n] = [content |-> content, at |-> now]
  BY DEF G!Edit, GitHubInv, GitHubTypes
<1>2. G!Opened(n)' /\ issue'[n].at = now
  BY <1>1 DEF G!Opened, G!NoIssue
<1>3. QED
  BY <1>1, <1>2, GitHubNoPull

LEMMA GitHubStartPull ==
  ASSUME GitHubInv, NEW q \in Pulls, G!StartPull(q)
  PROVE  GitHubInv'
<1> DEFINE asked == [is |-> "asked", at |-> now, since |-> lastSync.at, got |-> <<>>]
<1>1. /\ pull'[q] = asked /\ DOMAIN pull' = Pulls /\ \A p \in Pulls \ {q} : pull'[p] = pull[p]
      /\ UNCHANGED <<now, issue, lastSync, unseen, missed>>
  <2>1. pull' = [pull EXCEPT ![q] = asked] /\ UNCHANGED <<now, issue, lastSync, unseen, missed>>
    BY DEF G!StartPull
  <2>2. DOMAIN pull = Pulls
    BY DEF GitHubInv, GitHubTypes
  <2> HIDE DEF asked
  <2>3. QED
    BY <2>1, <2>2
<1>2. GitHubTypes'
  BY <1>1 DEF GitHubInv, GitHubTypes, G!Opened
<1>3. \A n \in unseen \ missed : Fetches(q, n)'
  BY <1>1 DEF Fetches, GitHubInv
<1>4. \A n, p : p \in Pulls \ {q} => (Fetches(p, n)' <=> Fetches(p, n))
  BY <1>1 DEF Fetches, G!Got
<1>5. QED
  BY <1>1, <1>2, <1>3, <1>4 DEF GitHubInv

LEMMA GitHubAnswers ==
  ASSUME GitHubInv, NEW q \in Pulls, G!Answers(q)
  PROVE  GitHubInv'
<1> DEFINE due == {i \in G!Issues : G!Opened(i) /\ issue[i].at >= pull[q].since}
<1>1. pull[q] # G!Idle
  BY DEF G!Answers, G!Idle
<1>2. /\ DOMAIN pull' = Pulls /\ \A p \in Pulls \ {q} : pull'[p] = pull[p]
      /\ UNCHANGED <<now, issue, lastSync, unseen, missed>>
      /\ DOMAIN pull'[q] = {"is", "at", "since", "got"} /\ pull'[q].is = "answered" /\ pull'[q].at = pull[q].at
      /\ pull'[q].got = [n \in due |-> issue[n]]
  BY <1>1 DEF G!Answers, GitHubInv, GitHubTypes
<1>3. GitHubTypes'
  BY <1>1, <1>2 DEF GitHubInv, GitHubTypes, G!Opened
<1>4. ASSUME NEW n \in unseen \ missed
      PROVE  Fetches(q, n)'
  <2>1. Fetches(q, n) /\ n \in G!Issues /\ G!Opened(n) /\ pull[q].is = "asked"
    BY <1>1 DEF GitHubInv, GitHubTypes, G!Answers
  <2>2. CASE issue[n].at >= pull[q].at
    BY <1>2, <2>2 DEF Fetches
  <2>3. CASE issue[n].at >= pull[q].since
    <3>1. n \in due
      BY <2>1, <2>3
    <3> HIDE DEF due
    <3>2. n \in G!Got(q)' /\ pull'[q].got[n] = issue'[n]
      BY <1>2, <3>1 DEF G!Got
    <3>3. QED
      BY <1>2, <3>2 DEF Fetches
  <2>4. QED
    BY <2>1, <2>2, <2>3 DEF Fetches
<1>5. \A n, p : p \in Pulls \ {q} => (Fetches(p, n)' <=> Fetches(p, n))
  BY <1>2 DEF Fetches, G!Got
<1>6. QED
  BY <1>1, <1>2, <1>3, <1>4, <1>5 DEF GitHubInv

(* The end of a pull: what it has not fetched is not older than its time.    *)
LEMMA GitHubPullEnds ==
  ASSUME GitHubInv, NEW q \in Pulls, G!Process(q) \/ G!PullFails(q)
  PROVE  GitHubInv'
<1>1. /\ pull[q].is \in {"asked", "answered"} /\ G!Record(q) /\ pull' = [pull EXCEPT ![q] = G!Idle]
      /\ UNCHANGED <<now, issue>>
  BY DEF G!Process, G!PullFails
<1>2. pull[q] # G!Idle
  BY <1>1 DEF G!Idle
<1>3. DOMAIN pull' = Pulls /\ pull'[q] = G!Idle /\ \A p \in Pulls \ {q} : pull'[p] = pull[p]
  BY <1>1 DEF GitHubInv, GitHubTypes
<1>4. lastSync'.at \in {pull[q].at, lastSync.at}
  BY <1>1 DEF G!Record, G!SyncedAt
<1>5. unseen' \subseteq unseen /\ (unseen' \ missed') \subseteq (unseen \ missed)
  BY DEF G!Process, G!PullFails, G!Seen, G!SkippedEcho
<1>6. ASSUME NEW n \in unseen' \ missed'
      PROVE  issue[n].at >= pull[q].at
  <2>1. n \in unseen \ missed /\ Fetches(q, n) /\ issue[n].at \in Nat /\ pull[q].at \in Nat
    BY <1>2, <1>5 DEF GitHubInv, GitHubTypes
  <2>2. CASE G!Process(q)
    <3>1. n \notin G!Seen(q) /\ n \notin G!SkippedEcho(q) /\ pull[q].is = "answered"
      BY <1>6, <2>2 DEF G!Process
    <3>2. ~(n \in G!Got(q) /\ pull[q].got[n] = issue[n])
      BY <3>1 DEF G!Seen
    <3>3. QED
      BY <2>1, <3>1, <3>2 DEF Fetches
  <2>3. CASE G!PullFails(q)
    <3>1. ~(issue[n].at < pull[q].at)
      BY <1>6, <2>1, <2>3 DEF G!PullFails, G!SyncedAt
    <3>2. QED
      BY <2>1, <3>1
  <2>4. QED
    BY <2>2, <2>3
<1>7. GitHubTypes'
  BY <1>1, <1>2, <1>3, <1>4, <1>5 DEF GitHubInv, GitHubTypes, G!Opened
<1>8. \A n, p : p \in Pulls \ {q} => (Fetches(p, n)' <=> Fetches(p, n))
  BY <1>1, <1>3 DEF Fetches, G!Got
<1>9. QED
  BY <1>1, <1>3, <1>4, <1>5, <1>6, <1>7, <1>8 DEF GitHubInv

LEMMA GitHubNext == GitHubInv /\ G!Next => GitHubInv'
  BY GitHubTasks, GitHubLands, GitHubEdit, GitHubStartPull, GitHubAnswers, GitHubPullEnds DEF G!Next

(* However pulls overlap and whatever is pushed meanwhile, for any number of *)
(* issues, pulls and pushes: an edit on GitHub that no pull has looked at is *)
(* not older than the time from which the next one will ask, but for those   *)
(* that a failed pull, or one that took them for an echo, has passed over.   *)
THEOREM EditsAreFetched == SpecAll => []UnseenIsDueOrMissed
<1>1. InitAll => GitHubInv
  BY GitHubInit DEF InitAll
<1>2. GitHubInv /\ [NextAll]_allVars => GitHubInv'
  <2> SUFFICES ASSUME GitHubInv, [NextAll]_allVars PROVE GitHubInv'
    OBVIOUS
  <2>1. CASE UNCHANGED githubVars
    <3>1. \A n, p : Fetches(p, n)' <=> Fetches(p, n)
      BY <2>1 DEF githubVars, Fetches, G!Got
    <3>2. QED
      BY <2>1, <3>1 DEF githubVars, GitHubInv, GitHubTypes, G!Opened
  <2>2. CASE G!Next
    BY <2>2, GitHubNext
  <2>3. QED
    BY <2>1, <2>2 DEF NextAll, allVars
<1>3. GitHubInv => UnseenIsDueOrMissed
  BY DEF GitHubInv, UnseenIsDueOrMissed, G!UnseenIsDueOrMissed
<1>4. QED
  BY <1>1, <1>2, <1>3, PTL DEF SpecAll

--------------------------------------------------------------------------------
(* Agents. *)

About(r, a) == A!Waiting(r) /\ saving[r].agent = a

(* The only request about an agent, and its row, which says what was saved.  *)
Steady(a) ==
  \A r \in Requests : About(r, a) =>
    /\ \A q \in Requests : About(q, a) => q = r
    /\ saving[r].op # "delete" =>
         A!Exists(a) /\ agent[a].config = saving[r].to /\ ~saving[r].rowGone

(* The row of an agent beside an openclaw.json that says said of it.         *)
Agrees(a, said) ==
  said # A!None =>
    /\ ~A!Busied(a) => A!Exists(a) /\ agent[a].config = said
    /\ \A r \in Requests : About(r, a) /\ saving[r].op = "edit" /\ saving[r].stage # "writes" =>
         saving[r].before = said

DiskIsFollowed ==
  \A a \in Names \ unlooked : A!Listed(a, disk) =>
    A!Exists(a) /\ agent[a].local /\ agent[a].hash = disk[a]

(* What a request has read is what the file says, until others overtake it.  *)
ListIsFresh(r) ==
  /\ saving[r].list[saving[r].agent] = saving[r].to
  /\ saving[r].stage = "holds" /\ ~saving[r].overtaken =>
       ~torn /\ \A a \in Names : a # saving[r].agent => saving[r].list[a] = file[a]
  /\ saving[r].stage = "writes" /\ ~saving[r].overtaken => torn

ListsAreFresh ==
  \A r \in Requests : A!Waiting(r) /\ saving[r].stage # "reads" => ListIsFresh(r)

CopiesAreFresh ==
  \A s \in Syncs : copy[s] # A!NoCopy /\ ~copy[s].stale => ~torn /\ copy[s].list = file

FileAgrees == ~torn => \A a \in Names \ doubt : Agrees(a, file[a])

(* The file that a writer leaves behind will agree as well. *)
Undisturbed(r) == A!Waiting(r) /\ saving[r].stage = "writes" /\ ~saving[r].overtaken

WritersAgree ==
  \A r \in Requests : Undisturbed(r) =>
    \A a \in Names \ doubt : a # saving[r].agent => Agrees(a, saving[r].list[a])

DeletionsEmpty == \A r \in Requests : A!Waiting(r) /\ saving[r].op = "delete" => saving[r].to = A!None

AgentsInv ==
  /\ A!TypeOK /\ DeletionsEmpty /\ DiskIsFollowed /\ ListsAreFresh /\ CopiesAreFresh
  /\ \A a \in Names \ doubt : Steady(a)
  /\ FileAgrees /\ WritersAgree

LEMMA AgentsInit == A!Init => AgentsInv
<1> SUFFICES ASSUME A!Init PROVE AgentsInv
  OBVIOUS
<1>1. A!TypeOK
  <2>1. file \in A!Lists /\ disk \in A!Lists
    BY DEF A!Init, A!Lists, A!Empty
  <2>2. saving \in [Requests -> {A!Idle}] /\ copy \in [Syncs -> {A!NoCopy}] /\ agent \in [Names -> {A!NoRow}]
    BY DEF A!Init
  <2>3. writes \in 0..MaxWrites /\ torn = FALSE /\ doubt = {} /\ unlooked = {}
    <3>1. writes = 0 /\ torn = FALSE /\ doubt = {} /\ unlooked = {}
      BY DEF A!Init
    <3>2. QED
      BY <3>1, BoundsAreNumbers
  <2>4. QED
    BY <2>1, <2>2, <2>3 DEF A!TypeOK
<1>2. (\A r \in Requests : ~A!Waiting(r)) /\ (\A s \in Syncs : copy[s] = A!NoCopy)
      /\ (\A a \in Names : file[a] = A!None /\ disk[a] = A!None)
  BY DEF A!Init, A!Waiting, A!Empty
<1>3. QED
  BY <1>1, <1>2 DEF AgentsInv, DeletionsEmpty, DiskIsFollowed, A!Listed, ListsAreFresh, CopiesAreFresh,
                    Steady, About, FileAgrees, Agrees, WritersAgree, Undisturbed

(* What a request that others leave where it is keeps. *)
Unmoved(q) ==
  /\ A!Waiting(q)' <=> A!Waiting(q)
  /\ A!Waiting(q) =>
       /\ saving'[q].op = saving[q].op /\ saving'[q].agent = saving[q].agent
       /\ saving'[q].to = saving[q].to /\ saving'[q].before = saving[q].before
       /\ saving'[q].stage = saving[q].stage /\ saving'[q].list = saving[q].list
       /\ saving[q].overtaken => saving'[q].overtaken

(* An agent whose row and requests are left alone. *)
LEMMA AgentKept ==
  ASSUME NEW a \in Names, agent'[a] = agent[a],
         \A q \in Requests : About(q, a)' <=> About(q, a),
         \A q \in Requests : About(q, a) =>
           /\ saving'[q].op = saving[q].op /\ saving'[q].to = saving[q].to
           /\ saving'[q].before = saving[q].before /\ saving'[q].rowGone = saving[q].rowGone
           /\ saving[q].stage = "writes" => saving'[q].stage = "writes"
  PROVE  /\ Steady(a) => Steady(a)'
         /\ \A said : Agrees(a, said) => Agrees(a, said)'
<1>1. (A!Exists(a)' <=> A!Exists(a)) /\ (A!Busied(a)' <=> A!Busied(a))
  BY DEF A!Exists, A!Busied, About
<1>2. Steady(a) => Steady(a)'
  BY <1>1 DEF Steady
<1>3. ASSUME NEW said, Agrees(a, said)
      PROVE  Agrees(a, said)'
  BY <1>1, <1>3 DEF Agrees
<1>4. QED
  BY <1>2, <1>3

(* The invariant again, when the file and its readers are as they were.      *)
LEMMA AgentsRowsOnly ==
  ASSUME AgentsInv, UNCHANGED <<file, torn, saving, copy>>, A!TypeOK', DiskIsFollowed',
         \A a \in Names \ doubt' : a \notin doubt /\ agent'[a] = agent[a]
  PROVE  AgentsInv'
<1>1. DeletionsEmpty' /\ ListsAreFresh' /\ CopiesAreFresh'
  BY DEF AgentsInv, DeletionsEmpty, ListsAreFresh, ListIsFresh, CopiesAreFresh, A!Waiting
<1>2. \A a \in Names \ doubt' : (Steady(a) => Steady(a)') /\ \A said : Agrees(a, said) => Agrees(a, said)'
  BY AgentKept DEF About, A!Waiting
<1>3. \A a \in Names \ doubt' : Steady(a)'
  BY <1>2 DEF AgentsInv
<1>4. FileAgrees'
  <2> SUFFICES ASSUME ~torn, NEW a \in Names \ doubt' PROVE Agrees(a, file[a])'
    BY DEF FileAgrees
  <2>1. Agrees(a, file[a])
    BY DEF AgentsInv, FileAgrees
  <2>2. QED
    BY <1>2, <2>1 DEF Agrees
<1>5. WritersAgree'
  <2> SUFFICES ASSUME NEW r \in Requests, Undisturbed(r), NEW a \in Names \ doubt', a # saving[r].agent
               PROVE  Agrees(a, saving[r].list[a])'
    BY DEF WritersAgree, Undisturbed, A!Waiting
  <2>1. Agrees(a, saving[r].list[a])
    BY DEF AgentsInv, WritersAgree
  <2>2. QED
    BY <1>2, <2>1 DEF Agrees
<1>6. QED
  BY <1>1, <1>3, <1>4, <1>5 DEF AgentsInv

LEMMA DiskKept ==
  ASSUME DiskIsFollowed, disk' = disk, unlooked \subseteq unlooked',
         \A a \in Names \ unlooked' : A!Exists(a) =>
           A!Exists(a)' /\ agent'[a].local = agent[a].local /\ agent'[a].hash = agent[a].hash
  PROVE  DiskIsFollowed'
  BY DEF DiskIsFollowed, A!Listed

LEMMA AgentsDatabase ==
  ASSUME AgentsInv, NEW a \in Names, NEW v \in Versions, A!Register(a, v) \/ A!EditRow(a, v)
  PROVE  AgentsInv'
<1>1. UNCHANGED <<file, torn, disk, saving, copy, unlooked>> /\ doubt' = doubt \cup {a} /\ A!Counts
  BY DEF A!Register, A!EditRow
<1>2. PICK new \in A!Rows : agent' = [agent EXCEPT ![a] = new]
        /\ (A!Exists(a) => new.local = agent[a].local /\ new.hash = agent[a].hash)
  <2>1. CASE A!Register(a, v)
    <3>1. A!NewRow(FALSE, v, A!None) \in A!Rows
      BY DEF A!NewRow, A!Rows
    <3>2. QED
      BY <2>1, <3>1 DEF A!Register
  <2>2. CASE A!EditRow(a, v)
    <3>1. agent[a] \in A!Rows
      BY <2>2 DEF A!EditRow, A!Exists, AgentsInv, A!TypeOK
    <3>2. [agent[a] EXCEPT !.config = v] \in A!Rows
      BY <3>1 DEF A!Rows
    <3>3. QED
      BY <2>2, <3>1, <3>2 DEF A!EditRow, A!Rows
  <2>3. QED
    BY <2>1, <2>2
<1>3. A!TypeOK'
  BY <1>1, <1>2, BoundsAreNumbers DEF AgentsInv, A!TypeOK, A!Counts
<1>4. new # A!NoRow
  BY <1>2 DEF A!Rows, A!NoRow
<1>5. DiskIsFollowed'
  BY <1>1, <1>2, <1>4, DiskKept DEF AgentsInv, A!TypeOK, A!Exists
<1>6. \A t \in Names \ doubt' : t \notin doubt /\ agent'[t] = agent[t]
  BY <1>1, <1>2 DEF AgentsInv, A!TypeOK
<1>7. QED
  BY <1>1, <1>3, <1>5, <1>6, AgentsRowsOnly

LEMMA AgentsLocal ==
  ASSUME AgentsInv, A!SyncLocal
  PROVE  AgentsInv'
<1> DEFINE new == {a \in Names : A!Listed(a, disk) /\ ~(A!Exists(a) /\ agent[a].local)}
           changed == {a \in Names : A!Listed(a, disk) /\ A!Exists(a) /\ agent[a].local /\ A!ChangedOnDisk(a)}
<1>1. /\ \A a \in new : ~A!Exists(a)
      /\ agent' = [a \in Names |-> IF a \in new \cup changed THEN A!NewRow(TRUE, disk[a], disk[a]) ELSE agent[a]]
      /\ doubt' = doubt \cup (unlooked \cap (new \cup changed)) /\ unlooked' = {}
      /\ UNCHANGED <<file, torn, disk, saving, copy, writes>>
  BY DEF A!SyncLocal
<1>2. \A a \in Names : A!NewRow(TRUE, disk[a], disk[a]) \in A!Rows
  BY DEF A!NewRow, A!Rows, AgentsInv, A!TypeOK, A!Lists
<1>3. A!TypeOK'
  BY <1>1, <1>2 DEF AgentsInv, A!TypeOK
<1>4. DiskIsFollowed'
  <2> SUFFICES ASSUME NEW a \in Names, A!Listed(a, disk)
               PROVE  A!Exists(a)' /\ agent'[a].local /\ agent'[a].hash = disk[a]
    BY <1>1 DEF DiskIsFollowed
  <2>1. CASE a \in new \cup changed
    <3>1. agent'[a] = [local |-> TRUE, config |-> disk[a], hash |-> disk[a]]
      BY <1>1, <2>1 DEF A!NewRow
    <3>2. QED
      BY <3>1 DEF A!Exists, A!NoRow
  <2>2. CASE a \notin new \cup changed
    <3>1. agent'[a] = agent[a] /\ A!Exists(a) /\ agent[a].local /\ disk[a] = agent[a].hash
      BY <1>1, <2>2 DEF A!ChangedOnDisk
    <3>2. QED
      BY <3>1 DEF A!Exists
  <2>3. QED
    BY <2>1, <2>2
<1>5. new \cup changed \subseteq unlooked
  BY DEF AgentsInv, DiskIsFollowed, A!ChangedOnDisk
<1>6. \A a \in Names \ doubt' : a \notin doubt /\ agent'[a] = agent[a]
  BY <1>1, <1>5
<1>7. QED
  BY <1>1, <1>3, <1>4, <1>6, AgentsRowsOnly

LEMMA AgentsDisk ==
  ASSUME AgentsInv, NEW a \in Names, NEW v \in Versions \cup {A!None}, A!EditDisk(a, v)
  PROVE  AgentsInv'
<1>1. /\ disk' = [disk EXCEPT ![a] = v] /\ unlooked' = unlooked \cup {a} /\ A!Counts
      /\ UNCHANGED <<agent, file, torn, saving, copy, doubt>>
  BY DEF A!EditDisk
<1>2. A!TypeOK'
  BY <1>1, BoundsAreNumbers DEF AgentsInv, A!TypeOK, A!Counts, A!Lists
<1>3. DiskIsFollowed'
  BY <1>1 DEF AgentsInv, A!TypeOK, A!Lists, DiskIsFollowed, A!Listed, A!Exists
<1>4. QED
  BY <1>1, <1>2, <1>3, AgentsRowsOnly

(* A request has changed a row and awaits the file.                          *)
LEMMA AgentsAwait ==
  ASSUME AgentsInv, NEW r \in Requests, NEW a \in Names, NEW op \in {"create", "edit", "delete"},
         NEW to \in Versions \cup {A!None}, NEW before \in Versions \cup {A!None},
         A!Await(r, op, a, to, before), UNCHANGED <<file, torn, disk, copy, unlooked>>, A!Counts,
         agent' \in [Names -> A!Rows \cup {A!NoRow}], \A t \in Names \ {a} : agent'[t] = agent[t],
         A!Exists(a) => A!Exists(a)' /\ agent'[a].local = agent[a].local /\ agent'[a].hash = agent[a].hash,
         op # "delete" => A!Exists(a)' /\ agent'[a].config = to,
         op = "edit" => A!Exists(a) /\ before = agent[a].config,
         op = "delete" => to = A!None
  PROVE  AgentsInv'
<1> DEFINE new == [op |-> op, agent |-> a, to |-> to, before |-> before, rowGone |-> FALSE,
                   stage |-> "reads", list |-> A!Empty, overtaken |-> FALSE]
<1>1. new \in A!Busy /\ new # A!Idle
  BY DEF A!Busy, A!Idle, A!Lists, A!Empty
<1>2. /\ ~A!Waiting(r) /\ saving' = [saving EXCEPT ![r] = new]
      /\ doubt' = IF A!Busied(a) THEN doubt \cup {a} ELSE doubt
  BY DEF A!Await
<1>3. saving'[r] = new /\ \A q \in Requests \ {r} : saving'[q] = saving[q]
  BY <1>2 DEF AgentsInv, A!TypeOK
<1>4. A!TypeOK'
  BY <1>1, <1>2, BoundsAreNumbers DEF AgentsInv, A!TypeOK, A!Counts
<1>5. new.op = op /\ new.agent = a /\ new.to = to /\ new.before = before /\ ~new.rowGone /\ new.stage = "reads"
  OBVIOUS
<1> HIDE DEF new
<1>6. DeletionsEmpty' /\ ListsAreFresh' /\ CopiesAreFresh'
  <2>1. DeletionsEmpty'
    BY <1>3, <1>5 DEF AgentsInv, DeletionsEmpty, A!Waiting
  <2>2. \A q \in Requests : A!Waiting(q)' /\ saving'[q].stage # "reads" =>
          saving'[q] = saving[q] /\ A!Waiting(q)
    BY <1>3, <1>5 DEF A!Waiting
  <2>3. ListsAreFresh'
    <3> SUFFICES ASSUME NEW q \in Requests, A!Waiting(q)', saving'[q].stage # "reads" PROVE ListIsFresh(q)'
      BY DEF ListsAreFresh
    <3>1. saving'[q] = saving[q] /\ ListIsFresh(q)
      BY <2>2 DEF AgentsInv, ListsAreFresh
    <3>2. QED
      BY <3>1 DEF ListIsFresh
  <2>4. CopiesAreFresh'
    BY DEF AgentsInv, CopiesAreFresh
  <2>5. QED
    BY <2>1, <2>3, <2>4
<1>7. DiskIsFollowed'
  BY DiskKept DEF AgentsInv, A!Exists
<1>8. \A t \in Names \ {a} : (Steady(t) => Steady(t)') /\ \A said : Agrees(t, said) => Agrees(t, said)'
  <2> TAKE t \in Names \ {a}
  <2>1. \A q \in Requests : (About(q, t)' <=> About(q, t)) /\ (About(q, t) => saving'[q] = saving[q])
    BY <1>2, <1>3, <1>5 DEF About, A!Waiting
  <2>2. QED
    BY <2>1, AgentKept
<1>9. ASSUME a \notin doubt'
      PROVE  Steady(a)' /\ \A said : Agrees(a, said) => Agrees(a, said)'
  <2>1. ~A!Busied(a)
    BY <1>2, <1>9
  <2>2. \A q \in Requests : About(q, a)' => q = r
    BY <1>3, <2>1 DEF About, A!Busied, A!Waiting
  <2>3. About(r, a)' /\ A!Busied(a)'
    BY <1>1, <1>3, <1>5 DEF About, A!Busied, A!Waiting
  <2>4. Steady(a)'
    BY <1>3, <1>5, <2>2 DEF Steady
  <2>5. ASSUME NEW said, Agrees(a, said)
        PROVE  Agrees(a, said)'
    BY <1>3, <1>5, <2>1, <2>2, <2>3, <2>5 DEF Agrees
  <2>6. QED
    BY <2>4, <2>5
<1>10. \A t \in Names \ doubt' : t \notin doubt /\ Steady(t)' /\ \A said : Agrees(t, said) => Agrees(t, said)'
  BY <1>2, <1>8, <1>9 DEF AgentsInv
<1>11. FileAgrees'
  <2> SUFFICES ASSUME ~torn, NEW t \in Names \ doubt' PROVE Agrees(t, file[t])'
    BY DEF FileAgrees
  <2>1. Agrees(t, file[t])
    BY <1>10 DEF AgentsInv, FileAgrees
  <2>2. QED
    BY <1>10, <2>1 DEF Agrees
<1>12. WritersAgree'
  <2> SUFFICES ASSUME NEW q \in Requests, Undisturbed(q)', NEW t \in Names \ doubt', t # saving'[q].agent
               PROVE  Agrees(t, saving[q].list[t])'
    BY DEF WritersAgree
  <2>1. saving'[q] = saving[q] /\ Undisturbed(q)
    BY <1>3, <1>5 DEF Undisturbed, A!Waiting
  <2>2. Agrees(t, saving[q].list[t])
    BY <1>10, <2>1 DEF AgentsInv, WritersAgree
  <2>3. \A said : Agrees(t, said) => Agrees(t, said)'
    BY <1>10
  <2>4. QED
    BY <2>1, <2>2, <2>3 DEF Agrees
<1>13. QED
  BY <1>4, <1>6, <1>7, <1>10, <1>11, <1>12 DEF AgentsInv

LEMMA AgentsRequests ==
  ASSUME AgentsInv, NEW r \in Requests, NEW a \in Names,
         \/ A!Delete(r, a)
         \/ \E v \in Versions : A!Create(r, a, v) \/ A!Edit(r, a, v)
  PROVE  AgentsInv'
<1>1. ASSUME NEW v \in Versions, A!Create(r, a, v)
      PROVE  AgentsInv'
  <2>1. /\ ~A!Exists(a) /\ A!Counts /\ A!Await(r, "create", a, v, A!None)
        /\ agent' = [agent EXCEPT ![a] = A!NewRow(FALSE, v, A!None)]
        /\ UNCHANGED <<file, torn, disk, copy, unlooked>>
    BY <1>1 DEF A!Create
  <2>2. A!NewRow(FALSE, v, A!None) \in A!Rows /\ A!NewRow(FALSE, v, A!None).config = v
        /\ A!NewRow(FALSE, v, A!None) # A!NoRow
    BY DEF A!NewRow, A!Rows, A!NoRow
  <2>3. agent \in [Names -> A!Rows \cup {A!NoRow}]
    BY DEF AgentsInv, A!TypeOK
  <2>4. agent' \in [Names -> A!Rows \cup {A!NoRow}] /\ (\A t \in Names \ {a} : agent'[t] = agent[t])
        /\ A!Exists(a)' /\ agent'[a].config = v
    BY <2>1, <2>2, <2>3 DEF A!Exists
  <2>5. QED
    BY <2>1, <2>4, AgentsAwait
<1>2. ASSUME NEW v \in Versions, A!Edit(r, a, v)
      PROVE  AgentsInv'
  <2> DEFINE new == [agent[a] EXCEPT !.config = v]
  <2>1. /\ A!Exists(a) /\ A!Counts /\ A!Await(r, "edit", a, v, agent[a].config)
        /\ agent' = [agent EXCEPT ![a] = new]
        /\ UNCHANGED <<file, torn, disk, copy, unlooked>>
    BY <1>2 DEF A!Edit
  <2>2. agent \in [Names -> A!Rows \cup {A!NoRow}] /\ agent[a] \in A!Rows
    BY <2>1 DEF AgentsInv, A!TypeOK, A!Exists
  <2>3. new \in A!Rows /\ new.config = v /\ new # A!NoRow /\ agent[a].config \in Versions \cup {A!None}
        /\ new.local = agent[a].local /\ new.hash = agent[a].hash
    BY <2>2 DEF A!Rows, A!NoRow
  <2> HIDE DEF new
  <2>4. agent' \in [Names -> A!Rows \cup {A!NoRow}] /\ (\A t \in Names \ {a} : agent'[t] = agent[t])
        /\ A!Exists(a)' /\ agent'[a] = new
    BY <2>1, <2>2, <2>3 DEF A!Exists
  <2>5. QED
    BY <2>1, <2>3, <2>4, AgentsAwait
<1>3. CASE A!Delete(r, a)
  <2>1. /\ A!Exists(a) /\ A!Counts /\ A!Await(r, "delete", a, A!None, agent[a].config)
        /\ UNCHANGED <<agent, file, torn, disk, copy, unlooked>>
    BY <1>3 DEF A!Delete
  <2>2. agent \in [Names -> A!Rows \cup {A!NoRow}] /\ agent[a].config \in Versions \cup {A!None}
    BY <2>1 DEF AgentsInv, A!TypeOK, A!Exists, A!Rows
  <2>3. A!Exists(a)'
    BY <2>1 DEF A!Exists
  <2>4. QED
    BY <2>1, <2>2, <2>3, AgentsAwait
<1>4. QED
  BY <1>1, <1>2, <1>3

LEMMA AgentsReads ==
  ASSUME AgentsInv, NEW r \in Requests, A!Reads(r)
  PROVE  AgentsInv'
<1> DEFINE new == [saving[r] EXCEPT !.stage = "holds", !.list = A!Changed(r)]
<1>1. /\ A!Waiting(r) /\ saving[r].stage = "reads" /\ ~torn /\ saving' = [saving EXCEPT ![r] = new]
      /\ UNCHANGED <<agent, file, torn, disk, copy, writes, doubt, unlooked>>
  BY DEF A!Reads
<1>2. saving[r] \in A!Busy /\ saving[r].agent \in Names /\ file \in A!Lists
  BY <1>1 DEF AgentsInv, A!TypeOK, A!Waiting, A!Busy
<1>3. /\ A!Changed(r) \in A!Lists /\ A!Changed(r)[saving[r].agent] = saving[r].to
      /\ \A a \in Names \ {saving[r].agent} : A!Changed(r)[a] = file[a]
  BY <1>2 DEF A!Changed, A!Lists, A!Busy
<1>4. new \in A!Busy /\ new # A!Idle /\ new.stage = "holds" /\ new.list = A!Changed(r)
      /\ new.op = saving[r].op /\ new.agent = saving[r].agent /\ new.to = saving[r].to
      /\ new.before = saving[r].before /\ new.rowGone = saving[r].rowGone
  BY <1>2, <1>3 DEF A!Busy, A!Idle
<1> HIDE DEF new
<1>5. saving'[r] = new /\ \A q \in Requests \ {r} : saving'[q] = saving[q]
  BY <1>1 DEF AgentsInv, A!TypeOK
<1>6. A!TypeOK'
  BY <1>1, <1>4 DEF AgentsInv, A!TypeOK
<1>7. DeletionsEmpty' /\ CopiesAreFresh'
  <2>1. \A q \in Requests : A!Waiting(q)' =>
          A!Waiting(q) /\ saving'[q].op = saving[q].op /\ saving'[q].to = saving[q].to
    BY <1>1, <1>4, <1>5 DEF A!Waiting
  <2>2. QED
    BY <1>1, <2>1 DEF AgentsInv, DeletionsEmpty, CopiesAreFresh
<1>8. ListsAreFresh'
  <2> SUFFICES ASSUME NEW q \in Requests, A!Waiting(q)', saving'[q].stage # "reads" PROVE ListIsFresh(q)'
    BY DEF ListsAreFresh
  <2>1. CASE q = r
    BY <1>1, <1>3, <1>4, <1>5, <2>1 DEF ListIsFresh
  <2>2. CASE q # r
    <3>1. saving'[q] = saving[q] /\ A!Waiting(q)
      BY <1>5, <2>2 DEF A!Waiting
    <3>2. ListIsFresh(q)
      BY <3>1 DEF AgentsInv, ListsAreFresh
    <3>3. QED
      BY <1>1, <3>1, <3>2 DEF ListIsFresh
  <2>3. QED
    BY <2>1, <2>2
<1>9. DiskIsFollowed'
  BY <1>1 DEF AgentsInv, DiskIsFollowed, A!Listed, A!Exists
<1>10. ASSUME NEW a \in Names \ doubt
       PROVE  Steady(a)' /\ \A said : Agrees(a, said) => Agrees(a, said)'
  <2>1. \A q \in Requests : About(q, a)' <=> About(q, a)
    BY <1>1, <1>4, <1>5 DEF About, A!Waiting
  <2>2. QED
    BY <1>1, <1>4, <1>5, <2>1, AgentKept DEF AgentsInv
<1>11. FileAgrees'
  BY <1>1, <1>10 DEF AgentsInv, FileAgrees, Agrees
<1>12. WritersAgree'
  <2> SUFFICES ASSUME NEW q \in Requests, Undisturbed(q)', NEW t \in Names \ doubt, t # saving'[q].agent
               PROVE  Agrees(t, saving[q].list[t])'
    BY <1>1, <1>4, <1>5 DEF WritersAgree, Undisturbed
  <2>1. saving'[q] = saving[q] /\ Undisturbed(q)
    BY <1>4, <1>5 DEF Undisturbed, A!Waiting
  <2>2. Agrees(t, saving[q].list[t])
    BY <2>1 DEF AgentsInv, WritersAgree
  <2>3. \A said : Agrees(t, said) => Agrees(t, said)'
    BY <1>10
  <2>4. QED
    BY <2>1, <2>2, <2>3 DEF Agrees
<1>13. QED
  BY <1>1, <1>6, <1>7, <1>8, <1>9, <1>10, <1>11, <1>12 DEF AgentsInv

(* Others at a later stage than reading are overtaken. *)
LEMMA OvertakenKeeps ==
  ASSUME NEW req \in A!Busy \cup {A!Idle}
  PROVE  /\ A!Overtaken(req) \in A!Busy \cup {A!Idle}
         /\ A!Overtaken(req) = A!Idle <=> req = A!Idle
         /\ req # A!Idle =>
              /\ A!Overtaken(req).op = req.op /\ A!Overtaken(req).agent = req.agent
              /\ A!Overtaken(req).to = req.to /\ A!Overtaken(req).before = req.before
              /\ A!Overtaken(req).stage = req.stage /\ A!Overtaken(req).list = req.list
              /\ A!Overtaken(req).rowGone = req.rowGone
              /\ req.overtaken => A!Overtaken(req).overtaken
              /\ req.stage # "reads" => A!Overtaken(req).overtaken
  BY DEF A!Overtaken, A!Busy, A!Idle

LEMMA CopiesStale ==
  ASSUME A!TypeOK, A!FileChanges
  PROVE  copy' \in [Syncs -> A!Copies \cup {A!NoCopy}] /\ CopiesAreFresh'
<1>1. \A s \in Syncs : copy[s] # A!NoCopy =>
        [copy[s] EXCEPT !.stale = TRUE] \in A!Copies /\ [copy[s] EXCEPT !.stale = TRUE].stale
  BY DEF A!TypeOK, A!Copies
<1>2. \A s \in Syncs : copy'[s] = IF copy[s] = A!NoCopy THEN A!NoCopy ELSE [copy[s] EXCEPT !.stale = TRUE]
  BY DEF A!FileChanges
<1>3. copy' \in [Syncs -> A!Copies \cup {A!NoCopy}]
  BY <1>1 DEF A!FileChanges
<1>4. QED
  BY <1>1, <1>2, <1>3 DEF CopiesAreFresh

LEMMA AgentsTruncates ==
  ASSUME AgentsInv, NEW r \in Requests, A!Truncates(r)
  PROVE  AgentsInv'
<1> DEFINE new == [saving[r] EXCEPT !.stage = "writes"]
<1>1. /\ A!Waiting(r) /\ saving[r].stage = "holds" /\ file' = A!Empty /\ torn' = TRUE /\ A!FileChanges
      /\ saving' = [q \in Requests |-> IF q = r THEN new ELSE A!Overtaken(saving[q])]
      /\ UNCHANGED <<agent, disk, writes, doubt, unlooked>>
  BY DEF A!Truncates
<1>2. saving[r] \in A!Busy
  BY <1>1 DEF AgentsInv, A!TypeOK, A!Waiting
<1>3. new \in A!Busy /\ new # A!Idle /\ new.stage = "writes" /\ new.list = saving[r].list
      /\ new.op = saving[r].op /\ new.agent = saving[r].agent /\ new.to = saving[r].to
      /\ new.before = saving[r].before /\ new.rowGone = saving[r].rowGone /\ new.overtaken = saving[r].overtaken
  BY <1>2 DEF A!Busy, A!Idle
<1> HIDE DEF new
<1>4. saving'[r] = new /\ \A q \in Requests \ {r} : saving'[q] = A!Overtaken(saving[q])
  BY <1>1
<1>5. A!TypeOK'
  <2>1. saving' \in [Requests -> A!Busy \cup {A!Idle}]
    BY <1>1, <1>3, OvertakenKeeps DEF AgentsInv, A!TypeOK
  <2>2. file' \in A!Lists
    BY <1>1 DEF A!Lists, A!Empty
  <2>3. QED
    BY <1>1, <2>1, <2>2, CopiesStale DEF AgentsInv, A!TypeOK
<1>6. \A q \in Requests \ {r} :
         /\ A!Waiting(q)' <=> A!Waiting(q)
         /\ A!Waiting(q) =>
              /\ saving'[q].op = saving[q].op /\ saving'[q].agent = saving[q].agent
              /\ saving'[q].to = saving[q].to /\ saving'[q].before = saving[q].before
              /\ saving'[q].stage = saving[q].stage /\ saving'[q].list = saving[q].list
              /\ saving'[q].rowGone = saving[q].rowGone
              /\ saving[q].stage # "reads" => saving'[q].overtaken
  BY <1>4, OvertakenKeeps DEF AgentsInv, A!TypeOK, A!Waiting
<1>7. DeletionsEmpty' /\ CopiesAreFresh'
  <2>1. DeletionsEmpty'
    <3>1. \A q \in Requests : A!Waiting(q)' =>
            A!Waiting(q) /\ saving'[q].op = saving[q].op /\ saving'[q].to = saving[q].to
      BY <1>1, <1>3, <1>4, <1>6
    <3>2. QED
      BY <3>1 DEF AgentsInv, DeletionsEmpty
  <2>2. QED
    BY <1>1, <2>1, CopiesStale DEF AgentsInv
<1>8. ListsAreFresh'
  <2> SUFFICES ASSUME NEW q \in Requests, A!Waiting(q)', saving'[q].stage # "reads" PROVE ListIsFresh(q)'
    BY DEF ListsAreFresh
  <2>1. CASE q = r
    <3>1. saving[r].list[saving[r].agent] = saving[r].to
      BY <1>1 DEF AgentsInv, ListsAreFresh, ListIsFresh
    <3>2. QED
      BY <1>1, <1>3, <1>4, <2>1, <3>1 DEF ListIsFresh
  <2>2. CASE q # r
    <3>1. /\ A!Waiting(q) /\ saving[q].stage # "reads" /\ saving'[q].overtaken
          /\ saving'[q].list = saving[q].list /\ saving'[q].agent = saving[q].agent /\ saving'[q].to = saving[q].to
      BY <1>6, <2>2
    <3>2. saving[q].list[saving[q].agent] = saving[q].to
      BY <3>1 DEF AgentsInv, ListsAreFresh, ListIsFresh
    <3>3. QED
      BY <3>1, <3>2 DEF ListIsFresh
  <2>3. QED
    BY <2>1, <2>2
<1>9. DiskIsFollowed'
  BY <1>1 DEF AgentsInv, DiskIsFollowed, A!Listed, A!Exists
<1>10. ASSUME NEW a \in Names \ doubt
       PROVE  Steady(a)' /\ \A said : Agrees(a, said) => Agrees(a, said)'
  <2>1. \A q \in Requests : About(q, a)' <=> About(q, a)
    <3>1. About(r, a)' <=> About(r, a)
      BY <1>1, <1>3, <1>4 DEF About, A!Waiting
    <3>2. QED
      BY <1>6, <3>1 DEF About
  <2>2. \A q \in Requests : About(q, a) =>
           /\ saving'[q].op = saving[q].op /\ saving'[q].to = saving[q].to
           /\ saving'[q].before = saving[q].before /\ saving'[q].rowGone = saving[q].rowGone
           /\ saving[q].stage = "writes" => saving'[q].stage = "writes"
    BY <1>3, <1>4, <1>6 DEF About
  <2>3. QED
    BY <1>1, <2>1, <2>2, AgentKept DEF AgentsInv
<1>11. FileAgrees'
  BY <1>1 DEF FileAgrees
<1>12. WritersAgree'
  <2> SUFFICES ASSUME NEW q \in Requests, Undisturbed(q)', NEW t \in Names \ doubt, t # saving'[q].agent
               PROVE  Agrees(t, saving[q].list[t])'
    BY <1>1 DEF WritersAgree
  <2>1. q = r
    BY <1>6 DEF Undisturbed
  <2>2. ~torn /\ saving'[r].list[t] = file[t]
    <3>1. ~saving[r].overtaken /\ saving'[r].list = saving[r].list /\ t # saving[r].agent
      BY <1>3, <1>4, <2>1 DEF Undisturbed
    <3>2. QED
      BY <1>1, <3>1 DEF AgentsInv, ListsAreFresh, ListIsFresh
  <2>3. Agrees(t, file[t])
    BY <2>2 DEF AgentsInv, FileAgrees
  <2>4. \A said : Agrees(t, said) => Agrees(t, said)'
    BY <1>10
  <2>5. QED
    BY <2>1, <2>2, <2>3, <2>4 DEF Agrees
<1>13. QED
  BY <1>1, <1>5, <1>7, <1>8, <1>9, <1>10, <1>11, <1>12 DEF AgentsInv

(* The end of a request: only the row it is about changes, and only a        *)
(* request about that row learns of it.                                      *)
LEMMA AgentsOver ==
  ASSUME A!TypeOK, NEW r \in Requests, A!Waiting(r), NEW written \in BOOLEAN, A!Over(r, written),
         NEW b \in Names, b = saving[r].agent
  PROVE  /\ agent' \in [Names -> A!Rows \cup {A!NoRow}]
         /\ saving' \in [Requests -> A!Busy \cup {A!Idle}]
         /\ unlooked \subseteq unlooked' /\ unlooked' \subseteq Names
         /\ \A a \in Names \ {b} : agent'[a] = agent[a]
         /\ \A a \in Names \ unlooked' : A!Exists(a) =>
              A!Exists(a)' /\ agent'[a].local = agent[a].local /\ agent'[a].hash = agent[a].hash
         /\ saving[r].op = "create" \/ (saving[r].op = "edit" /\ written) => agent'[b] = agent[b]
         /\ saving[r].op = "edit" /\ ~written /\ ~saving[r].rowGone /\ A!Exists(b) =>
              A!Exists(b)' /\ agent'[b].config = saving[r].before
         /\ ~A!Waiting(r)'
         /\ \A q \in Requests \ {r} : Unmoved(q)
         /\ \A q \in Requests \ {r} : A!Waiting(q) =>
              /\ saving[q].agent # b => saving'[q].rowGone = saving[q].rowGone
              /\ saving[r].stage = "writes" /\ saving[q].stage # "reads" => saving'[q].overtaken
<1> DEFINE deletes == agent # A!RowAfter(r, written) /\ saving[r].op = "delete"
           left == [q \in Requests |-> IF deletes THEN A!WithoutRow(q, b) ELSE saving[q]]
           seen == IF saving[r].stage = "writes" THEN [q \in Requests |-> A!Overtaken(left[q])] ELSE left
<1>1. /\ agent' = A!RowAfter(r, written)
      /\ saving' = [seen EXCEPT ![r] = A!Idle]
      /\ unlooked' = IF deletes THEN unlooked \cup {b} ELSE unlooked
  BY DEF A!Over
<1>2. /\ agent \in [Names -> A!Rows \cup {A!NoRow}] /\ saving \in [Requests -> A!Busy \cup {A!Idle}]
      /\ unlooked \subseteq Names /\ saving[r] \in A!Busy
  BY DEF A!TypeOK, A!Waiting
<1>3. ASSUME NEW q \in Requests, A!Waiting(q)
      PROVE  /\ left[q] \in A!Busy /\ left[q] # A!Idle
             /\ left[q].op = saving[q].op /\ left[q].agent = saving[q].agent
             /\ left[q].to = saving[q].to /\ left[q].before = saving[q].before
             /\ left[q].stage = saving[q].stage /\ left[q].list = saving[q].list
             /\ left[q].overtaken = saving[q].overtaken
             /\ saving[q].agent # b => left[q].rowGone = saving[q].rowGone
  <2>1. saving[q] \in A!Busy
    BY <1>2, <1>3 DEF A!Waiting
  <2>2. left[q] = saving[q] \/ (left[q] = [saving[q] EXCEPT !.rowGone = TRUE] /\ saving[q].agent = b)
    BY <1>3 DEF A!WithoutRow
  <2> HIDE DEF left
  <2>3. saving[q] # A!Idle
    BY <1>3 DEF A!Waiting
  <2> DEFINE told == [saving[q] EXCEPT !.rowGone = TRUE]
  <2>4. /\ told \in A!Busy /\ told # A!Idle /\ told.op = saving[q].op /\ told.agent = saving[q].agent
        /\ told.to = saving[q].to /\ told.before = saving[q].before /\ told.stage = saving[q].stage
        /\ told.list = saving[q].list /\ told.overtaken = saving[q].overtaken
    BY <2>1 DEF A!Busy, A!Idle
  <2>5. left[q] = saving[q] \/ (left[q] = told /\ saving[q].agent = b)
    BY <2>2
  <2> HIDE DEF told
  <2>6. QED
    BY <2>1, <2>3, <2>4, <2>5
<1>4. \A q \in Requests : ~A!Waiting(q) => left[q] = A!Idle
  BY DEF A!WithoutRow, A!Waiting
<1>5. \A q \in Requests : left[q] \in A!Busy \cup {A!Idle}
  BY <1>3, <1>4
<1>6. seen \in [Requests -> A!Busy \cup {A!Idle}]
  <2>1. CASE saving[r].stage = "writes"
    <3>1. \A q \in Requests : A!Overtaken(left[q]) \in A!Busy \cup {A!Idle}
      BY <1>5, OvertakenKeeps
    <3>2. QED
      BY <2>1, <3>1
  <2>2. CASE saving[r].stage # "writes"
    BY <1>5, <2>2
  <2>3. QED
    BY <2>1, <2>2
<1>7. \A q \in Requests : seen[q] = IF saving[r].stage = "writes" THEN A!Overtaken(left[q]) ELSE left[q]
  OBVIOUS
<1> HIDE DEF left, seen
<1>8. saving' \in [Requests -> A!Busy \cup {A!Idle}] /\ saving'[r] = A!Idle
      /\ \A q \in Requests \ {r} : saving'[q] = seen[q]
  BY <1>1, <1>6
<1>9. ASSUME NEW q \in Requests \ {r}
      PROVE  /\ Unmoved(q)
             /\ A!Waiting(q) =>
                  /\ saving[q].agent # b => saving'[q].rowGone = saving[q].rowGone
                  /\ saving[r].stage = "writes" /\ saving[q].stage # "reads" => saving'[q].overtaken
  <2>1. saving'[q] = IF saving[r].stage = "writes" THEN A!Overtaken(left[q]) ELSE left[q]
    BY <1>7, <1>8
  <2>2. CASE A!Waiting(q)
    <3>1. /\ left[q] \in A!Busy /\ left[q] # A!Idle
          /\ left[q].op = saving[q].op /\ left[q].agent = saving[q].agent
          /\ left[q].to = saving[q].to /\ left[q].before = saving[q].before
          /\ left[q].stage = saving[q].stage /\ left[q].list = saving[q].list
          /\ left[q].overtaken = saving[q].overtaken
          /\ saving[q].agent # b => left[q].rowGone = saving[q].rowGone
      BY <1>3, <2>2
    <3>2. CASE saving[r].stage = "writes"
      BY <2>1, <2>2, <3>1, <3>2, OvertakenKeeps DEF Unmoved, A!Waiting
    <3>3. CASE saving[r].stage # "writes"
      BY <2>1, <2>2, <3>1, <3>3 DEF Unmoved, A!Waiting
    <3>4. QED
      BY <3>2, <3>3
  <2>3. CASE ~A!Waiting(q)
    <3>1. saving'[q] = A!Idle
      BY <1>4, <2>1, <2>3 DEF A!Overtaken
    <3>2. QED
      BY <2>3, <3>1 DEF Unmoved, A!Waiting
  <2>4. QED
    BY <2>2, <2>3
<1> DEFINE back == [agent[b] EXCEPT !.config = saving[r].before]
<1>10. /\ agent[b] = A!NoRow => back = A!NoRow
       /\ agent[b] # A!NoRow => back \in A!Rows /\ back # A!NoRow /\ back.config = saving[r].before
                                /\ back.local = agent[b].local /\ back.hash = agent[b].hash
  <2>1. CASE agent[b] = A!NoRow
    BY <2>1 DEF A!NoRow
  <2>2. CASE agent[b] # A!NoRow
    BY <1>2, <2>2 DEF A!Rows, A!NoRow, A!Busy
  <2>3. QED
    BY <2>1, <2>2
<1>11. \/ agent' = agent
       \/ saving[r].op = "delete" /\ agent' = [agent EXCEPT ![b] = A!NoRow]
       \/ saving[r].op = "edit" /\ ~written /\ agent' = [agent EXCEPT ![b] = back]
  BY <1>1 DEF A!RowAfter, A!Reverted
<1>12. saving[r].op = "edit" /\ ~written /\ ~saving[r].rowGone => agent' = [agent EXCEPT ![b] = back]
  BY <1>1 DEF A!RowAfter, A!Reverted
<1>13. saving[r].op = "delete" /\ agent' # agent => b \in unlooked'
  BY <1>1
<1> HIDE DEF back, deletes
<1>14. agent' \in [Names -> A!Rows \cup {A!NoRow}] /\ \A a \in Names \ {b} : agent'[a] = agent[a]
  BY <1>2, <1>10, <1>11
<1>15. \A a \in Names \ unlooked' : A!Exists(a) =>
         A!Exists(a)' /\ agent'[a].local = agent[a].local /\ agent'[a].hash = agent[a].hash
  BY <1>2, <1>10, <1>11, <1>13 DEF A!Exists
<1>16. saving[r].op = "create" \/ (saving[r].op = "edit" /\ written) => agent'[b] = agent[b]
  BY <1>11
<1>17. saving[r].op = "edit" /\ ~written /\ ~saving[r].rowGone /\ A!Exists(b) =>
         A!Exists(b)' /\ agent'[b].config = saving[r].before
  BY <1>2, <1>10, <1>12 DEF A!Exists
<1>18. unlooked \subseteq unlooked' /\ unlooked' \subseteq Names
  BY <1>1, <1>2
<1>19. QED
  BY <1>8, <1>9, <1>14, <1>15, <1>16, <1>17, <1>18 DEF A!Waiting

(* The agents that a request that ended was not about. *)
LEMMA AgentsApart ==
  ASSUME NEW r \in Requests, A!Waiting(r), NEW a \in Names, a # saving[r].agent, agent'[a] = agent[a],
         ~A!Waiting(r)',
         \A q \in Requests \ {r} : Unmoved(q),
         \A q \in Requests \ {r} : A!Waiting(q) /\ saving[q].agent # saving[r].agent =>
           saving'[q].rowGone = saving[q].rowGone
  PROVE  /\ Steady(a) => Steady(a)'
         /\ \A said : Agrees(a, said) => Agrees(a, said)'
<1>1. \A q \in Requests : About(q, a) => q # r
  BY DEF About
<1>2. \A q \in Requests : About(q, a)' <=> About(q, a)
  BY <1>1 DEF About, Unmoved
<1>3. QED
  BY <1>1, <1>2, AgentKept DEF About, Unmoved

(* A request that ends before it has touched the file.                       *)
LEMMA AgentsEnd ==
  ASSUME AgentsInv, NEW r \in Requests, A!Waiting(r), A!Over(r, FALSE), saving[r].stage # "writes",
         UNCHANGED <<disk, writes, copy, torn>>, file' \in A!Lists, ~torn => file' = file,
         doubt' \subseteq Names, doubt \subseteq doubt',
         saving[r].agent \notin doubt' =>
            \/ saving[r].op = "edit"
            \/ ~torn /\ file[saving[r].agent] = A!None
  PROVE  AgentsInv'
<1>1. PICK b \in Names : b = saving[r].agent
  BY DEF AgentsInv, A!TypeOK, A!Waiting, A!Busy
<1>2. /\ agent' \in [Names -> A!Rows \cup {A!NoRow}]
      /\ saving' \in [Requests -> A!Busy \cup {A!Idle}]
      /\ unlooked \subseteq unlooked' /\ unlooked' \subseteq Names
      /\ \A a \in Names \ {b} : agent'[a] = agent[a]
      /\ \A a \in Names \ unlooked' : A!Exists(a) =>
           A!Exists(a)' /\ agent'[a].local = agent[a].local /\ agent'[a].hash = agent[a].hash
      /\ saving[r].op = "edit" /\ ~saving[r].rowGone /\ A!Exists(b) =>
              A!Exists(b)' /\ agent'[b].config = saving[r].before
      /\ ~A!Waiting(r)'
      /\ \A q \in Requests \ {r} : Unmoved(q)
      /\ \A q \in Requests \ {r} : A!Waiting(q) =>
              (saving[q].agent # b => saving'[q].rowGone = saving[q].rowGone)
  BY <1>1, AgentsOver, ZenonT(60) DEF AgentsInv
<1>3. A!TypeOK'
  BY <1>2 DEF AgentsInv, A!TypeOK
<1>4. DiskIsFollowed'
  BY <1>2, DiskKept DEF AgentsInv
<1>5. DeletionsEmpty'
  BY <1>2 DEF AgentsInv, DeletionsEmpty, Unmoved
<1>6. ListsAreFresh'
  <2> SUFFICES ASSUME NEW q \in Requests, A!Waiting(q)', saving'[q].stage # "reads" PROVE ListIsFresh(q)'
    BY DEF ListsAreFresh
  <2>1. q # r /\ Unmoved(q)
    BY <1>2
  <2>2. ListIsFresh(q)
    BY <2>1 DEF AgentsInv, ListsAreFresh, Unmoved
  <2>3. QED
    BY <2>1, <2>2 DEF ListIsFresh, Unmoved
<1>7. CopiesAreFresh'
  BY DEF AgentsInv, CopiesAreFresh
<1>8. \A a \in Names \ {b} : (Steady(a) => Steady(a)') /\ \A said : Agrees(a, said) => Agrees(a, said)'
  BY <1>1, <1>2, AgentsApart
<1>9. ASSUME b \notin doubt'
      PROVE  /\ Steady(b)'
             /\ saving[r].op = "edit" => \A said : Agrees(b, said) => Agrees(b, said)'
             /\ saving[r].op # "edit" => ~torn /\ file[b] = A!None
  <2>1. Steady(b) /\ About(r, b)
    BY <1>1, <1>9 DEF AgentsInv, About
  <2>2. \A q \in Requests : ~About(q, b)'
    BY <1>2, <2>1 DEF Steady, About, Unmoved
  <2>3. Steady(b)'
    BY <2>2 DEF Steady
  <2>4. saving[r].op # "edit" => ~torn /\ file[b] = A!None
    BY <1>1, <1>9
  <2>5. ASSUME saving[r].op = "edit", NEW said, Agrees(b, said)
        PROVE  Agrees(b, said)'
    <3>1. A!Exists(b)' /\ agent'[b].config = saving[r].before
      BY <1>2, <2>1, <2>5 DEF Steady
    <3>2. said # A!None => saving[r].before = said
      BY <2>1, <2>5 DEF Agrees
    <3>3. QED
      BY <2>2, <3>1, <3>2 DEF Agrees
  <2>6. QED
    BY <2>3, <2>4, <2>5
<1>10. \A t \in Names \ doubt' : Steady(t)'
  BY <1>8, <1>9 DEF AgentsInv
<1>11. FileAgrees'
  <2> SUFFICES ASSUME ~torn, NEW t \in Names \ doubt' PROVE Agrees(t, file[t])'
    BY DEF FileAgrees
  <2>1. file' = file /\ Agrees(t, file[t])
    BY DEF AgentsInv, FileAgrees
  <2>2. CASE t # b \/ saving[r].op = "edit"
    <3>1. \A said : Agrees(t, said) => Agrees(t, said)'
      BY <1>8, <1>9, <2>2
    <3>2. QED
      BY <2>1, <3>1 DEF Agrees
  <2>3. CASE t = b /\ saving[r].op # "edit"
    BY <1>9, <2>1, <2>3 DEF Agrees
  <2>4. QED
    BY <2>2, <2>3
<1>12. WritersAgree'
  <2> SUFFICES ASSUME NEW q \in Requests, Undisturbed(q)', NEW t \in Names \ doubt', t # saving'[q].agent
               PROVE  Agrees(t, saving[q].list[t])'
    BY <1>2 DEF WritersAgree, Undisturbed, Unmoved
  <2>1. q # r /\ Unmoved(q) /\ Undisturbed(q) /\ t # saving[q].agent /\ saving'[q].list = saving[q].list
    BY <1>2 DEF Undisturbed, Unmoved
  <2>2. torn /\ Agrees(t, saving[q].list[t])
    BY <2>1 DEF AgentsInv, WritersAgree, ListsAreFresh, ListIsFresh, Undisturbed
  <2>3. \A said : Agrees(t, said) => Agrees(t, said)'
    BY <1>8, <1>9, <2>2
  <2>4. QED
    BY <2>1, <2>2, <2>3 DEF Agrees
<1>13. QED
  BY <1>3, <1>4, <1>5, <1>6, <1>7, <1>10, <1>11, <1>12 DEF AgentsInv

(* A request that ends while it writes: nobody's reading of the file holds   *)
(* any longer; what is in the file is the list it wrote, or in doubt.        *)
LEMMA AgentsWriteEnds ==
  ASSUME AgentsInv, NEW r \in Requests, A!Waiting(r), saving[r].stage = "writes",
         NEW written \in BOOLEAN, A!Over(r, written), A!FileChanges,
         UNCHANGED <<disk, writes>>, file' \in A!Lists, torn' \in BOOLEAN,
         \/ doubt' = Names
         \/ doubt' = doubt /\ written /\ ~saving[r].overtaken /\ ~torn' /\ file' = saving[r].list
  PROVE  AgentsInv'
<1>1. PICK b \in Names : b = saving[r].agent
  BY DEF AgentsInv, A!TypeOK, A!Waiting, A!Busy
<1>2. /\ agent' \in [Names -> A!Rows \cup {A!NoRow}]
      /\ saving' \in [Requests -> A!Busy \cup {A!Idle}]
      /\ unlooked \subseteq unlooked' /\ unlooked' \subseteq Names
      /\ \A a \in Names \ {b} : agent'[a] = agent[a]
      /\ \A a \in Names \ unlooked' : A!Exists(a) =>
           A!Exists(a)' /\ agent'[a].local = agent[a].local /\ agent'[a].hash = agent[a].hash
      /\ saving[r].op = "create" \/ (saving[r].op = "edit" /\ written) => agent'[b] = agent[b]
      /\ ~A!Waiting(r)'
      /\ \A q \in Requests \ {r} : Unmoved(q)
      /\ \A q \in Requests \ {r} : A!Waiting(q) =>
              /\ saving[q].agent # b => saving'[q].rowGone = saving[q].rowGone
              /\ saving[q].stage # "reads" => saving'[q].overtaken
  BY <1>1, AgentsOver DEF AgentsInv
<1>3. A!TypeOK'
  BY <1>2, CopiesStale DEF AgentsInv, A!TypeOK
<1>4. DiskIsFollowed'
  BY <1>2, DiskKept DEF AgentsInv
<1>5. DeletionsEmpty'
  BY <1>2 DEF AgentsInv, DeletionsEmpty, Unmoved
<1>6. ListsAreFresh'
  <2> SUFFICES ASSUME NEW q \in Requests, A!Waiting(q)', saving'[q].stage # "reads" PROVE ListIsFresh(q)'
    BY DEF ListsAreFresh
  <2>1. q # r /\ Unmoved(q) /\ A!Waiting(q) /\ saving[q].stage # "reads" /\ saving'[q].overtaken
    BY <1>2 DEF Unmoved
  <2>2. ListIsFresh(q)
    BY <2>1 DEF AgentsInv, ListsAreFresh
  <2>3. QED
    BY <2>1, <2>2 DEF ListIsFresh, Unmoved
<1>7. CopiesAreFresh'
  BY CopiesStale DEF AgentsInv
<1>8. WritersAgree'
  BY <1>2 DEF WritersAgree, Undisturbed, Unmoved
<1>9. CASE doubt' = Names
  <2>1. (\A t \in Names \ doubt' : Steady(t)') /\ FileAgrees'
    BY <1>9 DEF FileAgrees
  <2>2. doubt' \subseteq Names
    BY <1>9
  <2>3. QED
    BY <1>3, <1>4, <1>5, <1>6, <1>7, <1>8, <2>1 DEF AgentsInv
<1>10. CASE doubt' = doubt /\ written /\ ~saving[r].overtaken /\ ~torn' /\ file' = saving[r].list
  <2>1. \A a \in Names \ {b} : (Steady(a) => Steady(a)') /\ \A said : Agrees(a, said) => Agrees(a, said)'
    BY <1>1, <1>2, AgentsApart
  <2>2. ASSUME b \notin doubt
        PROVE  Steady(b)' /\ \A said : said = saving[r].to => Agrees(b, said)'
    <3>1. Steady(b) /\ About(r, b)
      BY <1>1, <2>2 DEF AgentsInv, About
    <3>2. \A q \in Requests : ~About(q, b)'
      BY <1>2, <3>1 DEF Steady, About, Unmoved
    <3>3. saving[r].op = "delete" => saving[r].to = A!None
      BY DEF AgentsInv, DeletionsEmpty
    <3>4. saving[r].op # "delete" => A!Exists(b)' /\ agent'[b].config = saving[r].to
      BY <1>1, <1>2, <1>10, <3>1 DEF Steady, A!Exists, AgentsInv, A!TypeOK, A!Waiting, A!Busy
    <3>5. \A said : said = saving[r].to => Agrees(b, said)'
      BY <3>2, <3>3, <3>4 DEF Agrees
    <3>6. QED
      BY <3>2, <3>5 DEF Steady
  <2>3. \A t \in Names \ doubt' : Steady(t)'
    BY <1>10, <2>1, <2>2 DEF AgentsInv
  <2>4. FileAgrees'
    <3> SUFFICES ASSUME NEW t \in Names \ doubt PROVE Agrees(t, file[t])'
      BY <1>10 DEF FileAgrees
    <3>1. file'[b] = saving[r].to
      BY <1>1, <1>10 DEF AgentsInv, ListsAreFresh, ListIsFresh
    <3>2. CASE t = b
      BY <2>2, <3>1, <3>2 DEF Agrees
    <3>3. CASE t # b
      <4>1. Agrees(t, saving[r].list[t])
        BY <1>1, <1>10, <3>3 DEF AgentsInv, WritersAgree, Undisturbed
      <4>2. \A said : Agrees(t, said) => Agrees(t, said)'
        BY <2>1, <3>3
      <4>3. QED
        BY <1>10, <4>1, <4>2 DEF Agrees
    <3>4. QED
      BY <3>2, <3>3
  <2>5. QED
    BY <1>3, <1>4, <1>5, <1>6, <1>7, <1>8, <2>3, <2>4 DEF AgentsInv
<1>11. QED
  BY <1>9, <1>10

LEMMA AgentsEnds ==
  ASSUME AgentsInv, NEW r \in Requests, A!FindsNoEntry(r) \/ A!Written(r) \/ A!Fails(r)
  PROVE  AgentsInv'
<1>1. A!TypeOK /\ A!Waiting(r) /\ saving[r] \in A!Busy /\ A!Empty \in A!Lists /\ doubt \subseteq Names
      /\ file \in A!Lists /\ torn \in BOOLEAN
  BY DEF AgentsInv, A!TypeOK, A!Waiting, A!Busy, A!FindsNoEntry, A!Written, A!Fails, A!Empty, A!Lists
<1>2. saving[r].list \in A!Lists /\ saving[r].agent \in Names
  BY <1>1 DEF A!Busy
<1>3. CASE A!FindsNoEntry(r)
  BY <1>1, <1>3, AgentsEnd DEF A!FindsNoEntry
<1>4. CASE A!Written(r)
  <2>1. /\ saving[r].stage = "writes" /\ A!Over(r, TRUE) /\ A!FileChanges /\ UNCHANGED <<disk, writes>>
        /\ torn' \in BOOLEAN /\ (~saving[r].overtaken => torn' = FALSE)
        /\ file' = (IF torn' THEN A!Empty ELSE saving[r].list)
        /\ doubt' = IF saving[r].overtaken THEN Names ELSE doubt
    BY <1>4 DEF A!Written
  <2>2. QED
    BY <1>1, <1>2, <2>1, AgentsWriteEnds
<1>5. CASE A!Fails(r)
  <2>1. A!Over(r, FALSE) /\ UNCHANGED <<disk, writes>>
    BY <1>5 DEF A!Fails
  <2>2. CASE saving[r].stage = "writes"
    <3>1. A!FileChanges /\ doubt' = Names /\ torn' \in {torn, TRUE} /\ file' = IF torn' THEN A!Empty ELSE file
      BY <1>5, <2>2 DEF A!Fails, A!EndsHalfway
    <3>2. QED
      BY <1>1, <2>1, <2>2, <3>1, AgentsWriteEnds
  <2>3. CASE saving[r].stage # "writes"
    <3>1. /\ copy' = copy /\ torn' = torn /\ file' = (IF torn' THEN A!Empty ELSE file)
          /\ doubt' = IF saving[r].op = "edit" THEN doubt ELSE doubt \cup {saving[r].agent}
      BY <1>5, <2>3 DEF A!Fails, A!EndsHalfway
    <3>2. QED
      BY <1>1, <1>2, <2>1, <2>3, <3>1, AgentsEnd
  <2>4. QED
    BY <2>2, <2>3
<1>6. QED
  BY <1>3, <1>4, <1>5

LEMMA AgentsReadConfig ==
  ASSUME AgentsInv, NEW s \in Syncs, A!ReadConfig(s)
  PROVE  AgentsInv'
<1> DEFINE new == [list |-> file, stale |-> FALSE]
<1>1. /\ ~torn /\ copy' = [copy EXCEPT ![s] = new]
      /\ UNCHANGED <<agent, file, torn, disk, saving, writes, doubt, unlooked>>
  BY DEF A!ReadConfig
<1>2. new \in A!Copies /\ new.list = file
  BY DEF AgentsInv, A!TypeOK, A!Copies
<1> HIDE DEF new
<1>3. A!TypeOK'
  BY <1>1, <1>2 DEF AgentsInv, A!TypeOK
<1>4. CopiesAreFresh'
  BY <1>1, <1>2 DEF AgentsInv, A!TypeOK, CopiesAreFresh
<1>5. \A a \in Names : (Steady(a) => Steady(a)') /\ \A said : Agrees(a, said) => Agrees(a, said)'
  BY <1>1, AgentKept DEF About, A!Waiting
<1>6. DeletionsEmpty' /\ DiskIsFollowed' /\ ListsAreFresh'
  BY <1>1 DEF AgentsInv, DeletionsEmpty, DiskIsFollowed, A!Listed, A!Exists, ListsAreFresh, ListIsFresh, A!Waiting
<1>7. FileAgrees'
  BY <1>1, <1>5 DEF AgentsInv, FileAgrees, Agrees
<1>8. WritersAgree'
  <2> SUFFICES ASSUME NEW q \in Requests, Undisturbed(q)', NEW t \in Names \ doubt', t # saving'[q].agent
               PROVE  Agrees(t, saving[q].list[t])'
    BY <1>1 DEF WritersAgree
  <2>1. Agrees(t, saving[q].list[t])
    BY <1>1 DEF AgentsInv, WritersAgree, Undisturbed, A!Waiting
  <2>2. QED
    BY <1>1, <1>5, <2>1 DEF Agrees
<1>9. QED
  BY <1>1, <1>3, <1>4, <1>5, <1>6, <1>7, <1>8 DEF AgentsInv

LEMMA AgentsSync ==
  ASSUME AgentsInv, NEW s \in Syncs, A!SyncConfig(s)
  PROVE  AgentsInv'
<1> DEFINE list == copy[s].list
           changed == {a \in Names : A!Listed(a, list) /\ (~A!Exists(a) \/ agent[a].config # list[a])}
           config(a) == [agent[a] EXCEPT !.config = list[a]]
<1>1. /\ copy[s] # A!NoCopy /\ copy' = [copy EXCEPT ![s] = A!NoCopy]
      /\ agent' = [a \in Names |-> IF a \notin changed THEN agent[a]
                                   ELSE IF A!Exists(a) THEN config(a)
                                   ELSE A!NewRow(FALSE, list[a], A!None)]
      /\ doubt' = IF copy[s].stale THEN doubt \cup changed
                  ELSE {a \in Names : A!Busied(a) /\ a \in doubt \cup changed}
      /\ UNCHANGED <<file, torn, disk, saving, writes, unlooked>>
  BY DEF A!SyncConfig
<1>2. agent \in [Names -> A!Rows \cup {A!NoRow}] /\ copy[s] \in A!Copies /\ list \in A!Lists
  BY <1>1 DEF AgentsInv, A!TypeOK, A!Copies
<1>3. \A a \in Names : A!Exists(a) =>
        /\ config(a) \in A!Rows /\ config(a) # A!NoRow /\ config(a).config = list[a]
        /\ config(a).local = agent[a].local /\ config(a).hash = agent[a].hash
  BY <1>2 DEF A!Rows, A!Lists, A!Exists, A!NoRow
<1>4. \A a \in Names :
        /\ A!NewRow(FALSE, list[a], A!None) \in A!Rows /\ A!NewRow(FALSE, list[a], A!None) # A!NoRow
        /\ A!NewRow(FALSE, list[a], A!None).config = list[a]
  BY <1>2 DEF A!Rows, A!Lists, A!NewRow, A!NoRow
<1> HIDE DEF config
<1>5. A!TypeOK'
  <2>1. agent' \in [Names -> A!Rows \cup {A!NoRow}]
    BY <1>1, <1>2, <1>3, <1>4
  <2>2. doubt' \subseteq Names
    BY <1>1 DEF AgentsInv, A!TypeOK
  <2>3. copy' \in [Syncs -> A!Copies \cup {A!NoCopy}]
    BY <1>1 DEF AgentsInv, A!TypeOK
  <2>4. QED
    BY <1>1, <2>1, <2>2, <2>3 DEF AgentsInv, A!TypeOK
<1>6. \A a \in Names : IF a \in changed THEN A!Exists(a)' /\ agent'[a].config = list[a] ELSE agent'[a] = agent[a]
  BY <1>1, <1>3, <1>4 DEF A!Exists
<1>7. DiskIsFollowed'
  <2>1. \A a \in Names : A!Exists(a) =>
           A!Exists(a)' /\ agent'[a].local = agent[a].local /\ agent'[a].hash = agent[a].hash
    BY <1>1, <1>3 DEF A!Exists
  <2>2. QED
    BY <1>1, <2>1, DiskKept DEF AgentsInv
<1>8. DeletionsEmpty' /\ ListsAreFresh'
  BY <1>1 DEF AgentsInv, DeletionsEmpty, ListsAreFresh, ListIsFresh, A!Waiting
<1>9. CopiesAreFresh'
  BY <1>1 DEF AgentsInv, A!TypeOK, CopiesAreFresh
<1>10. \A a \in Names \ changed : (Steady(a) => Steady(a)') /\ \A said : Agrees(a, said) => Agrees(a, said)'
  BY <1>1, <1>6, AgentKept DEF About, A!Waiting
<1>11. CASE copy[s].stale
  <2>1. \A a \in Names \ doubt' : a \notin doubt /\ a \notin changed
    BY <1>1, <1>11
  <2>2. \A a \in Names \ doubt' : Steady(a)'
    BY <1>10, <2>1 DEF AgentsInv
  <2> HIDE DEF changed
  <2>3. \A a \in Names \ doubt' : \A said : Agrees(a, said) => Agrees(a, said)'
    BY <1>10, <2>1
  <2>4. FileAgrees'
    <3> SUFFICES ASSUME ~torn, NEW t \in Names \ doubt' PROVE Agrees(t, file[t])'
      BY <1>1 DEF FileAgrees
    <3>1. Agrees(t, file[t])
      BY <2>1 DEF AgentsInv, FileAgrees
    <3>2. \A said : Agrees(t, said) => Agrees(t, said)'
      BY <2>3
    <3>3. QED
      BY <1>1, <3>1, <3>2 DEF Agrees
  <2>5. WritersAgree'
    <3> SUFFICES ASSUME NEW q \in Requests, Undisturbed(q)', NEW t \in Names \ doubt', t # saving'[q].agent
                 PROVE  Agrees(t, saving[q].list[t])'
      BY <1>1 DEF WritersAgree
    <3>1. Agrees(t, saving[q].list[t])
      BY <1>1, <2>1 DEF AgentsInv, WritersAgree, Undisturbed, A!Waiting
    <3>2. saving' = saving /\ \A said : Agrees(t, said) => Agrees(t, said)'
      BY <1>1, <2>3
    <3>3. QED
      BY <3>1, <3>2 DEF Agrees
  <2>6. QED
    BY <1>5, <1>7, <1>8, <1>9, <2>2, <2>4, <2>5 DEF AgentsInv
<1>12. CASE ~copy[s].stale
  <2>1. ~torn /\ list = file
    BY <1>1, <1>12 DEF AgentsInv, CopiesAreFresh
  <2>2. ASSUME NEW a \in Names \ doubt'
        PROVE  Steady(a)' /\ \A said : said = file[a] => Agrees(a, said)'
    <3>1. CASE A!Busied(a)
      <4>1. a \notin doubt /\ a \notin changed
        BY <1>1, <1>12, <2>2, <3>1
      <4>2. Steady(a) /\ Agrees(a, file[a])
        BY <2>1, <4>1 DEF AgentsInv, FileAgrees
      <4>3. QED
        BY <1>10, <4>1, <4>2
    <3>2. CASE ~A!Busied(a)
      <4>1. \A q \in Requests : ~About(q, a)'
        BY <1>1, <3>2 DEF About, A!Busied, A!Waiting
      <4>2. file[a] # A!None => A!Exists(a)' /\ agent'[a].config = file[a]
        BY <1>6, <2>1 DEF A!Listed, A!Exists
      <4>3. QED
        BY <4>1, <4>2 DEF Steady, Agrees
    <3>3. QED
      BY <3>1, <3>2
  <2>3. FileAgrees'
    <3> SUFFICES ASSUME NEW t \in Names \ doubt' PROVE Agrees(t, file[t])'
      BY DEF FileAgrees
    <3>1. \A said : said = file[t] => Agrees(t, said)'
      BY <2>2
    <3>2. QED
      BY <1>1, <3>1 DEF Agrees
  <2>4. WritersAgree'
    BY <1>1, <2>1 DEF AgentsInv, WritersAgree, Undisturbed, ListsAreFresh, ListIsFresh, A!Waiting
  <2>5. QED
    BY <1>5, <1>7, <1>8, <1>9, <2>2, <2>3, <2>4 DEF AgentsInv
<1>13. QED
  BY <1>11, <1>12

LEMMA AgentsFile ==
  ASSUME AgentsInv, NEW a \in Names, NEW v \in Versions \cup {A!None}, A!EditFile(a, v)
  PROVE  AgentsInv'
<1>1. /\ file' = [file EXCEPT ![a] = v] /\ torn' = FALSE /\ doubt' = Names /\ A!Counts /\ A!FileChanges
      /\ saving' = [r \in Requests |-> A!Overtaken(saving[r])] /\ UNCHANGED <<agent, disk, unlooked>>
  BY DEF A!EditFile
<1>2. \A q \in Requests :
         /\ A!Waiting(q)' <=> A!Waiting(q)
         /\ A!Waiting(q) =>
              /\ saving'[q].op = saving[q].op /\ saving'[q].agent = saving[q].agent
              /\ saving'[q].to = saving[q].to
              /\ saving'[q].stage = saving[q].stage /\ saving'[q].list = saving[q].list
              /\ saving[q].stage # "reads" => saving'[q].overtaken
  BY <1>1, OvertakenKeeps DEF AgentsInv, A!TypeOK, A!Waiting
<1>3. A!TypeOK'
  <2>1. saving' \in [Requests -> A!Busy \cup {A!Idle}]
    BY <1>1, OvertakenKeeps DEF AgentsInv, A!TypeOK
  <2>2. file' \in A!Lists
    BY <1>1 DEF AgentsInv, A!TypeOK, A!Lists
  <2>3. writes' \in 0..MaxWrites
    BY <1>1, BoundsAreNumbers DEF AgentsInv, A!TypeOK, A!Counts
  <2>4. QED
    BY <1>1, <2>1, <2>2, <2>3, CopiesStale DEF AgentsInv, A!TypeOK
<1>4. DeletionsEmpty'
  BY <1>2 DEF AgentsInv, DeletionsEmpty
<1>5. DiskIsFollowed'
  BY <1>1 DEF AgentsInv, DiskIsFollowed, A!Listed, A!Exists
<1>6. ListsAreFresh'
  BY <1>2 DEF AgentsInv, ListsAreFresh, ListIsFresh
<1>7. WritersAgree'
  BY <1>2 DEF WritersAgree, Undisturbed
<1>8. QED
  BY <1>1, <1>3, <1>4, <1>5, <1>6, <1>7, CopiesStale DEF AgentsInv, FileAgrees

LEMMA AgentsCrash ==
  ASSUME AgentsInv, A!Crash
  PROVE  AgentsInv'
<1>1. /\ saving' = [r \in Requests |-> A!Idle] /\ copy' = [s \in Syncs |-> A!NoCopy]
      /\ torn' \in {torn, TRUE} /\ file' = (IF torn' THEN A!Empty ELSE file)
      /\ doubt' = doubt \cup {saving[r].agent : r \in {q \in Requests : A!Waiting(q)}}
      /\ UNCHANGED <<agent, disk, writes, unlooked>>
  BY DEF A!Crash, A!EndsHalfway
<1>2. \A r \in Requests : ~A!Waiting(r)'
  BY <1>1 DEF A!Waiting
<1>3. A!TypeOK'
  <2>1. doubt' \subseteq Names
    BY <1>1 DEF AgentsInv, A!TypeOK, A!Waiting, A!Busy
  <2>2. file' \in A!Lists
    BY <1>1 DEF AgentsInv, A!TypeOK, A!Empty, A!Lists
  <2>3. QED
    BY <1>1, <2>1, <2>2 DEF AgentsInv, A!TypeOK
<1>4. DiskIsFollowed'
  BY <1>1 DEF AgentsInv, DiskIsFollowed, A!Listed, A!Exists
<1>5. DeletionsEmpty' /\ ListsAreFresh' /\ CopiesAreFresh' /\ WritersAgree' /\ \A a \in Names \ doubt' : Steady(a)'
  BY <1>1, <1>2 DEF DeletionsEmpty, ListsAreFresh, CopiesAreFresh, WritersAgree, Undisturbed, Steady, About
<1>6. FileAgrees'
  <2> SUFFICES ASSUME ~torn', NEW a \in Names \ doubt' PROVE Agrees(a, file[a])'
    BY DEF FileAgrees
  <2>1. ~torn /\ file' = file /\ a \notin doubt /\ ~A!Busied(a)
    BY <1>1 DEF A!Busied, AgentsInv, A!TypeOK
  <2>2. Agrees(a, file[a])
    BY <2>1 DEF AgentsInv, FileAgrees
  <2>3. \A r \in Requests : ~About(r, a)'
    BY <1>2 DEF About
  <2>4. QED
    BY <1>1, <2>1, <2>2, <2>3 DEF Agrees, A!Exists
<1>7. QED
  BY <1>3, <1>4, <1>5, <1>6 DEF AgentsInv

LEMMA AgentsNext == AgentsInv /\ A!Next => AgentsInv'
<1> SUFFICES ASSUME AgentsInv, A!Next PROVE AgentsInv'
  OBVIOUS
<1>1. ASSUME NEW a \in Names, NEW v \in Versions,
             A!Register(a, v) \/ A!EditRow(a, v) \/ \E r \in Requests : A!Create(r, a, v) \/ A!Edit(r, a, v)
      PROVE  AgentsInv'
  BY <1>1, AgentsDatabase, AgentsRequests
<1>2. ASSUME NEW a \in Names, NEW v \in Versions \cup {A!None}, A!EditFile(a, v) \/ A!EditDisk(a, v)
      PROVE  AgentsInv'
  BY <1>2, AgentsFile, AgentsDisk
<1>3. ASSUME NEW r \in Requests,
             \/ \E a \in Names : A!Delete(r, a)
             \/ A!Reads(r) \/ A!FindsNoEntry(r) \/ A!Truncates(r) \/ A!Written(r) \/ A!Fails(r)
      PROVE  AgentsInv'
  BY <1>3, AgentsRequests, AgentsReads, AgentsTruncates, AgentsEnds
<1>4. ASSUME NEW s \in Syncs, A!ReadConfig(s) \/ A!SyncConfig(s)
      PROVE  AgentsInv'
  BY <1>4, AgentsReadConfig, AgentsSync
<1>5. QED
  BY <1>1, <1>2, <1>3, <1>4, AgentsLocal, AgentsCrash DEF A!Next

LEMMA AgentsKept == AgentsInv /\ UNCHANGED agentVars => AgentsInv'
<1> SUFFICES ASSUME AgentsInv, UNCHANGED agentVars PROVE AgentsInv'
  OBVIOUS
<1>1. A!TypeOK' /\ DiskIsFollowed' /\ (\A a \in Names \ doubt' : a \notin doubt /\ agent'[a] = agent[a])
  BY DEF agentVars, AgentsInv, A!TypeOK, DiskIsFollowed, A!Listed, A!Exists
<1>2. QED
  BY <1>1, AgentsRowsOnly DEF agentVars

(* However saves, deletions, syncs, crashes and edits by hand of the one     *)
(* openclaw.json meet, and for any number of agents, requests and syncs: the *)
(* rows say what the file says, but of the agents put in doubt by two        *)
(* writers that met, or by one that failed; and local agents follow the disk *)
(* once a sync has looked.                                                   *)
THEOREM AgentRows == SpecAll => []RowsFollowSources
<1> DEFINE IInv == moves = "agents" => AgentsInv
<1>1. InitAll => IInv
  BY AgentsInit DEF InitAll
<1>2. IInv /\ [NextAll]_allVars => IInv'
  <2> SUFFICES ASSUME IInv, [NextAll]_allVars, moves' = "agents" PROVE AgentsInv'
    OBVIOUS
  <2>1. CASE UNCHANGED allVars
    BY <2>1, AgentsKept DEF allVars
  <2>2. CASE NextAll
    <3>1. moves = "agents" /\ A!Next
      BY <2>2 DEF NextAll
    <3>2. QED
      BY <3>1, AgentsNext
  <2>3. QED
    BY <2>1, <2>2
<1>3. IInv => RowsFollowSources
  <2> SUFFICES ASSUME AgentsInv PROVE A!RowsFollowSources
    BY DEF RowsFollowSources
  <2>1. ASSUME ~torn, NEW a \in Names \ doubt, A!Listed(a, file), ~A!Busied(a)
        PROVE  A!Exists(a) /\ agent[a].config = file[a]
    BY <2>1 DEF AgentsInv, FileAgrees, Agrees, A!Listed
  <2>2. QED
    BY <2>1 DEF A!RowsFollowSources, AgentsInv, DiskIsFollowed
<1>4. QED
  BY <1>1, <1>2, <1>3, PTL DEF SpecAll

--------------------------------------------------------------------------------
(* The types of the four components. *)

LEMMA GitHubTypesInit == G!Init => G!TypeOK
<1> SUFFICES ASSUME G!Init PROVE G!TypeOK
  OBVIOUS
<1>1. now \in G!Times /\ lastSync \in G!SyncRows
  BY BoundsAreNumbers DEF G!Init, G!Times, G!SyncRows
<1>2. QED
  BY <1>1 DEF G!Init, G!TypeOK

(* The clock, what people do on GitHub and what is asked of it.              *)
LEMMA GitHubTypesOthers ==
  ASSUME G!TypeOK,
         \/ G!Tick
         \/ \E p \in Pushes, n \in G!Issues : G!Lands(p, n)
         \/ \E n \in G!Issues, content \in Contents : G!Edit(n, content)
         \/ \E q \in Pulls : G!StartPull(q) \/ G!Answers(q)
  PROVE  G!TypeOK'
<1>1. CASE G!Tick
  BY <1>1, BoundsAreNumbers DEF G!Tick, G!TypeOK, G!Times
<1>2. ASSUME NEW p \in Pushes, NEW n \in G!Issues, G!Lands(p, n)
      PROVE  G!TypeOK'
  <2>1. push[p] \in G!Sent
    BY <1>2 DEF G!TypeOK, G!Lands, G!Idle
  <2>2. issue' \in [G!Issues -> G!IssueRows \cup {G!NoIssue}]
    BY <1>2, <2>1 DEF G!TypeOK, G!Lands, G!IssueRows, G!Sent
  <2>3. push' \in [Pushes -> G!Sent \cup {G!Idle}]
    BY <1>2, <2>1 DEF G!TypeOK, G!Lands, G!Sent
  <2>4. QED
    BY <1>2, <2>2, <2>3 DEF G!TypeOK, G!Lands
<1>3. ASSUME NEW n \in G!Issues, NEW content \in Contents, G!Edit(n, content)
      PROVE  G!TypeOK'
  BY <1>3 DEF G!TypeOK, G!Edit, G!IssueRows
<1>4. ASSUME NEW q \in Pulls, G!StartPull(q)
      PROVE  G!TypeOK'
  <2> DEFINE new == [is |-> "asked", at |-> now, since |-> lastSync.at, got |-> <<>>]
  <2>1. /\ DOMAIN new = {"is", "at", "since", "got"} /\ new.is = "asked" /\ new.at \in G!Times /\ new.since \in G!Times
        /\ DOMAIN new.got = {}
    BY DEF G!TypeOK, G!SyncRows
  <2>2. DOMAIN pull' = Pulls /\ pull'[q] = new /\ \A o \in Pulls \ {q} : pull'[o] = pull[o]
    BY <1>4 DEF G!StartPull, G!TypeOK
  <2>3. QED
    BY <1>4, <2>1, <2>2 DEF G!TypeOK, G!StartPull
<1>5. ASSUME NEW q \in Pulls, G!Answers(q)
      PROVE  G!TypeOK'
  <2> DEFINE got == [n \in {i \in G!Issues : G!Opened(i) /\ issue[i].at >= pull[q].since} |-> issue[n]]
             new == [pull[q] EXCEPT !.is = "answered", !.got = got]
  <2>1. \A n \in DOMAIN got : n \in G!Issues /\ got[n] \in G!IssueRows
    BY DEF G!TypeOK, G!Opened
  <2>2. /\ pull[q].is = "asked" /\ DOMAIN pull[q] = {"is", "at", "since", "got"}
        /\ pull[q].at \in G!Times /\ pull[q].since \in G!Times
    <3>1. pull[q].is = "asked" /\ pull[q] # G!Idle
      BY <1>5 DEF G!Answers, G!Idle
    <3>2. QED
      BY <3>1 DEF G!TypeOK
  <2>3. /\ pull' = [pull EXCEPT ![q] = new]
    BY <1>5 DEF G!Answers
  <2>. HIDE DEF got
  <2>4. DOMAIN new = DOMAIN pull[q] /\ new.is = "answered" /\ new.at = pull[q].at /\ new.since = pull[q].since /\ new.got = got
    BY <2>2
  <2>. HIDE DEF new
  <2>5. DOMAIN pull' = Pulls /\ pull'[q] = new /\ \A o \in Pulls \ {q} : pull'[o] = pull[o]
    BY <2>3 DEF G!TypeOK
  <2>6. QED
    <3>1. /\ DOMAIN new = {"is", "at", "since", "got"} /\ new.is \in {"asked", "answered"}
          /\ new.at \in G!Times /\ new.since \in G!Times /\ DOMAIN new.got \subseteq G!Issues
          /\ \A n \in DOMAIN new.got : new.got[n] \in G!IssueRows
      BY <2>1, <2>2, <2>4
    <3>2. QED
      BY <1>5, <2>5, <3>1 DEF G!TypeOK, G!Answers
<1>6. QED
  BY <1>1, <1>2, <1>3, <1>4, <1>5

LEMMA GitHubTypesPushes ==
  ASSUME G!TypeOK, NEW p \in Pushes,
         \/ \E t \in G!Tasks, content \in Contents : G!CreateTask(t, content, p) \/ G!ChangeTask(t, content, p)
         \/ G!PushAnswered(p) \/ G!PushFails(p)
  PROVE  G!TypeOK'
<1>1. ASSUME NEW t \in G!Tasks, NEW content \in Contents, G!CreateTask(t, content, p) \/ G!ChangeTask(t, content, p)
      PROVE  G!TypeOK'
  <2>1. task' \in [G!Tasks -> G!TaskRows \cup {G!NoTask}]
    BY <1>1 DEF G!TypeOK, G!CreateTask, G!ChangeTask, G!TaskRows, G!Exists
  <2>2. PICK number \in G!Issues \cup {0} : G!StartPush(p, t, content, number)
    BY <1>1 DEF G!TypeOK, G!CreateTask, G!ChangeTask, G!TaskRows, G!Exists
  <2>3. QED
    BY <1>1, <2>1, <2>2 DEF G!TypeOK, G!CreateTask, G!ChangeTask, G!StartPush, G!Sent
<1>2. CASE G!PushAnswered(p)
  <2>1. push[p] \in G!Sent
    BY <1>2 DEF G!TypeOK, G!PushAnswered, G!Idle
  <2>2. task' \in [G!Tasks -> G!TaskRows \cup {G!NoTask}]
    BY <1>2, <2>1 DEF G!TypeOK, G!PushAnswered, G!MarkedAfter, G!TaskRows, G!NoTask, G!Sent
  <2>3. QED
    BY <1>2, <2>2 DEF G!TypeOK, G!PushAnswered
<1>3. CASE G!PushFails(p)
  BY <1>3 DEF G!TypeOK, G!PushFails
<1>4. QED
  BY <1>1, <1>2, <1>3

(* What becomes of the tasks when a pull is back.                            *)
LEMMA GitHubTypesPulls ==
  ASSUME G!TypeOK, NEW q \in Pulls, G!Process(q) \/ G!PullFails(q)
  PROVE  G!TypeOK'
<1>1. /\ pull[q].is \in {"asked", "answered"} /\ pull[q].at \in G!Times
      /\ G!Got(q) \subseteq G!Issues /\ \A n \in G!Got(q) : pull[q].got[n] \in G!IssueRows
  BY DEF G!TypeOK, G!Idle, G!Process, G!PullFails, G!Got
<1>2. lastSync' \in G!SyncRows
  BY <1>1 DEF G!TypeOK, G!Process, G!PullFails, G!Record, G!SyncedAt, G!SyncRows
<1>3. task' \in [G!Tasks -> G!TaskRows \cup {G!NoTask}]
  <2>1. CASE G!PullFails(q)
    BY <2>1 DEF G!PullFails, G!TypeOK
  <2>2. CASE G!Process(q)
    <3>1. PICK row : task' = G!RowsOf(q, row)
      BY <2>2 DEF G!Process
    <3>2. \A n \in G!Got(q) : G!FromIssue(q, n) \in G!TaskRows
      BY <1>1 DEF G!FromIssue, G!TaskRows, G!IssueRows
    <3>3. ASSUME NEW t \in G!Tasks
          PROVE  task'[t] \in G!TaskRows \cup {G!NoTask}
      <4>1. CASE \E n \in G!New(q) : row[n] = t
        <5>1. PICK n \in G!New(q) : n = CHOOSE m \in G!New(q) : row[m] = t
          BY <4>1
        <5>2. QED
          BY <3>1, <3>2, <4>1, <5>1 DEF G!RowsOf, G!New
      <4>2. CASE ~\E n \in G!New(q) : row[n] = t
        BY <3>1, <3>2, <4>2 DEF G!RowsOf, G!TypeOK
      <4>3. QED
        BY <4>1, <4>2
    <3>4. task' = [t \in G!Tasks |-> task'[t]]
      BY <3>1 DEF G!RowsOf
    <3>5. QED
      BY <3>3, <3>4
  <2>3. QED
    BY <2>1, <2>2
<1>4. unseen' \subseteq G!Issues /\ missed' \subseteq unseen'
  BY DEF G!TypeOK, G!Process, G!PullFails, G!Seen, G!SkippedEcho
<1>5. QED
  BY <1>2, <1>3, <1>4 DEF G!TypeOK, G!Process, G!PullFails

LEMMA GitHubTypesStep ==
  ASSUME G!TypeOK, [G!Next]_githubVars
  PROVE  G!TypeOK'
<1>1. CASE UNCHANGED githubVars
  BY <1>1 DEF githubVars, G!TypeOK
<1>2. CASE G!Next
  BY <1>2, GitHubTypesOthers, GitHubTypesPushes, GitHubTypesPulls DEF G!Next
<1>3. QED
  BY <1>1, <1>2

LEMMA SkillTypesKept == S!TypeOK /\ UNCHANGED skillVars => S!TypeOK'
BY DEF skillVars, S!TypeOK

LEMMA AgentTypesKept == A!TypeOK /\ UNCHANGED agentVars => A!TypeOK'
BY DEF agentVars, A!TypeOK

(* Every handler of the four keeps its rows, files and copies in their       *)
(* types, whichever of them moves, and for any number of each.               *)
THEOREM RecordTypes == SpecAll => []TypesOK
<1> DEFINE IInv == /\ ExecutionInv /\ G!TypeOK
                   /\ A!TypeOK /\ (moves = "agents" => AgentsInv)
                   /\ S!TypeOK /\ (moves = "skills" => SkillsInv)
<1>1. InitAll => IInv
  BY InitExecutions, GitHubTypesInit, AgentsInit, SkillsInit DEF InitAll, AgentsInv, SkillsInv
<1>2. IInv /\ [NextAll]_allVars => IInv'
  <2> SUFFICES ASSUME IInv, [NextAll]_allVars PROVE IInv'
    OBVIOUS
  <2>1. [Next]_vars /\ [G!Next]_githubVars
    BY DEF NextAll, allVars, tenantVars, vars
  <2>2. ExecutionInv' /\ G!TypeOK'
    BY <2>1, ExecutionStep, GitHubTypesStep
  <2>3. A!TypeOK' /\ (moves' = "agents" => AgentsInv')
    <3>1. UNCHANGED agentVars \/ (moves = "agents" /\ A!Next)
      BY DEF NextAll, allVars
    <3>2. CASE UNCHANGED agentVars
      BY <3>2, AgentTypesKept, AgentsKept DEF NextAll, allVars
    <3>3. CASE moves = "agents" /\ A!Next
      BY <3>3, AgentsNext DEF AgentsInv
    <3>4. QED
      BY <3>1, <3>2, <3>3
  <2>4. S!TypeOK' /\ (moves' = "skills" => SkillsInv')
    <3>1. UNCHANGED skillVars \/ (moves = "skills" /\ S!Next)
      BY DEF NextAll, allVars
    <3>2. CASE UNCHANGED skillVars
      BY <3>2, SkillTypesKept, SkillsKept DEF NextAll, allVars
    <3>3. CASE moves = "skills" /\ S!Next
      BY <3>3, SkillsNext DEF SkillsInv
    <3>4. QED
      BY <3>1, <3>2, <3>3
  <2>5. QED
    BY <2>2, <2>3, <2>4
<1>3. IInv => TypesOK
  BY DEF TypesOK, ExecutionInv
<1>4. QED
  BY <1>1, <1>2, <1>3, PTL DEF SpecAll
===============================================================================
