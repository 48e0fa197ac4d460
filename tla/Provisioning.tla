----------------------------- MODULE Provisioning -----------------------------
(****************************************************************************)
(* Tenants and the jobs that set them up and take them down                 *)
(* (lib/super-admin.ts). A job is requested, approved and executed by       *)
(* administrators; an execution is one session that runs the steps of the   *)
(* plan, awaits each of them, and writes the outcome to the job and to its  *)
(* tenant. Nothing keeps two jobs of one tenant from being executed at the  *)
(* same time, and a step may never answer: callProvisioner clears its timer *)
(* without settling when the daemon closes the connection without a word.   *)
(****************************************************************************)
EXTENDS Naturals

CONSTANTS
  Tenants,    \* rows of tenants that may come to exist
  Jobs,       \* rows of provision_jobs that may come to exist
  Admins,     \* usernames with the role admin
  Sessions,   \* executions under way at the same time
  PlanLength  \* steps of a plan

VARIABLES
  tenant,    \* tenants.status
  job,       \* provision_jobs: what was requested, by whom, and who approved it
  status,    \* provision_jobs.status
  execution, \* the session between the start of an execution and its outcome
  allowExec, \* MC_SUPER_PROVISION_EXEC of the running process is "true"
  started,   \* history: the people involved in the last execution of a job
  lost       \* history: jobs whose session died with the process

vars == <<tenant, job, status, execution, allowExec, started, lost>>

NoRow == "absent"
Nobody == [none |-> "nobody"]
Idle == [none |-> "idle"]

Kinds == {"bootstrap", "decommission"}
JobStatuses == {"queued", "approved", "rejected", "running", "completed", "failed", "cancelled"}
TenantStatuses == {"pending", "provisioning", "active", "decommissioning", "suspended", "error"}

JobRows == [kind : Kinds, tenant : Tenants, dry : BOOLEAN,
            requester : Admins, approver : Admins \cup {Nobody}]
Executions == [job : Jobs, previous : TenantStatuses, step : Nat \ {0}]
Starts == [approver : Admins, runner : Admins]

TypeOK ==
  /\ tenant \in [Tenants -> TenantStatuses \cup {NoRow}]
  /\ job \in [Jobs -> JobRows \cup {Nobody}]
  /\ status \in [Jobs -> JobStatuses \cup {NoRow}]
  /\ \A j \in Jobs : status[j] # NoRow => /\ job[j] \in JobRows
                                          /\ tenant[job[j].tenant] # NoRow
  /\ execution \in [Sessions -> Executions \cup {Idle}]
  /\ \A s \in Sessions : execution[s] # Idle => status[execution[s].job] # NoRow
  /\ allowExec \in BOOLEAN
  /\ started \in [Jobs -> Starts \cup {Nobody}]
  /\ lost \subseteq Jobs

Init ==
  /\ tenant = [t \in Tenants |-> NoRow]
  /\ job = [j \in Jobs |-> Nobody]
  /\ status = [j \in Jobs |-> NoRow]
  /\ execution = [s \in Sessions |-> Idle]
  /\ allowExec \in BOOLEAN
  /\ started = [j \in Jobs |-> Nobody]
  /\ lost = {}

--------------------------------------------------------------------------------
(* Slips: definitions the code might have had instead of the ones below. *)

RunnableAgain(j) == status[j] \in {"approved", "running"}
OnePersonEnough(j, runner) == job[j].dry \/ job[j].approver # job[j].requester
DryRunsToo(j, previous) ==
  IF job[j].kind = "decommission" THEN "decommissioning" ELSE "provisioning"

--------------------------------------------------------------------------------
(* Requests. *)

Queue(j, kind, t, dry, by) ==
  /\ status[j] = NoRow
  /\ job' = [job EXCEPT ![j] = [kind |-> kind, tenant |-> t, dry |-> dry,
                                requester |-> by, approver |-> Nobody]]
  /\ status' = [status EXCEPT ![j] = "queued"]
  /\ UNCHANGED <<execution, allowExec, started, lost>>

(* createTenantAndBootstrapJob *)
CreateTenant(t, j, by, dry) ==
  /\ tenant[t] = NoRow
  /\ tenant' = [tenant EXCEPT ![t] = "pending"]
  /\ Queue(j, "bootstrap", t, dry, by)

(* POST /api/super/os-users in local mode: a tenant without a job *)
RegisterLocal(t) ==
  /\ tenant[t] = NoRow
  /\ tenant' = [tenant EXCEPT ![t] = "active"]
  /\ UNCHANGED <<job, status, execution, allowExec, started, lost>>

(* createTenantDecommissionJob *)
RequestDecommission(t, j, by, dry) ==
  /\ tenant[t] # NoRow
  /\ Queue(j, "decommission", t, dry, by)
  /\ UNCHANGED tenant

--------------------------------------------------------------------------------
(* transitionProvisionJobStatus. Running, completed and cancelled jobs are in *)
(* none of the sets.                                                          *)

ApprovableFrom == {"queued", "rejected", "failed"}
RejectableFrom == {"queued", "approved", "failed"}
CancellableFrom == {"queued", "approved", "failed", "rejected"}

Approve(j, by) ==
  /\ status[j] \in ApprovableFrom
  /\ status' = [status EXCEPT ![j] = "approved"]
  /\ job' = [job EXCEPT ![j].approver = by]
  /\ UNCHANGED <<tenant, execution, allowExec, started, lost>>

(* The approver stays in the row of a rejected job. *)
Reject(j) ==
  /\ status[j] \in RejectableFrom
  /\ status' = [status EXCEPT ![j] = "rejected"]
  /\ UNCHANGED <<tenant, job, execution, allowExec, started, lost>>

Cancel(j) ==
  /\ status[j] \in CancellableFrom
  /\ status' = [status EXCEPT ![j] = "cancelled"]
  /\ UNCHANGED <<tenant, job, execution, allowExec, started, lost>>

--------------------------------------------------------------------------------
(* executeProvisionJob *)

Runnable(j) == status[j] = "approved"

TwoPersons(j, runner) ==
  job[j].dry \/ (job[j].approver # job[j].requester /\ job[j].approver # runner)

StartedTenant(j, previous) ==
  IF job[j].dry THEN previous
  ELSE IF job[j].kind = "decommission" THEN "decommissioning" ELSE "provisioning"

CompletedTenant(e) ==
  IF job[e.job].kind = "bootstrap" THEN "active"
  ELSE IF job[e.job].dry THEN e.previous ELSE "suspended"

(* Everything up to the await of the first step. *)
Execute(s, j, runner) ==
  LET previous == tenant[job[j].tenant]
  IN /\ execution[s] = Idle
     /\ Runnable(j)
     /\ TwoPersons(j, runner)
     /\ job[j].dry \/ allowExec
     /\ status' = [status EXCEPT ![j] = "running"]
     /\ tenant' = [tenant EXCEPT ![job[j].tenant] = StartedTenant(j, previous)]
     /\ execution' = [execution EXCEPT ![s] = [job |-> j, previous |-> previous, step |-> 1]]
     /\ started' = [started EXCEPT ![j] = [approver |-> job[j].approver, runner |-> runner]]
     /\ UNCHANGED <<job, allowExec, lost>>

(* Without MC_SUPER_PROVISION_EXEC a live job fails before its first await. *)
ExecuteDisabled(j, runner) ==
  /\ Runnable(j)
  /\ TwoPersons(j, runner)
  /\ ~job[j].dry /\ ~allowExec
  /\ status' = [status EXCEPT ![j] = "failed"]
  /\ tenant' = [tenant EXCEPT ![job[j].tenant] = "error"]
  /\ started' = [started EXCEPT ![j] = [approver |-> job[j].approver, runner |-> runner]]
  /\ UNCHANGED <<job, execution, allowExec, lost>>

StepDone(s) ==
  /\ execution[s] # Idle
  /\ execution[s].step < PlanLength
  /\ execution' = [execution EXCEPT ![s].step = @ + 1]
  /\ UNCHANGED <<tenant, job, status, allowExec, started, lost>>

(* What the end of the plan and the catch block write into the job. *)
Outcome(outcome) == outcome

Finish(s, outcome, tenantStatus) ==
  LET j == execution[s].job
  IN /\ status' = [status EXCEPT ![j] = Outcome(outcome)]
     /\ tenant' = [tenant EXCEPT ![job[j].tenant] = tenantStatus]
     /\ execution' = [execution EXCEPT ![s] = Idle]
     /\ UNCHANGED <<job, allowExec, started, lost>>

LastStepDone(s) ==
  /\ execution[s] # Idle
  /\ execution[s].step = PlanLength
  /\ Finish(s, "completed", CompletedTenant(execution[s]))

(* A step throws, in a dry run too: the tenant is in error. *)
StepFailed(s) ==
  /\ execution[s] # Idle
  /\ Finish(s, "failed", "error")

(* The process stops, crashed or not, and starts again, perhaps with another *)
(* configuration: the rows stay as they are.                                 *)
Restart ==
  /\ allowExec' \in BOOLEAN
  /\ lost' = lost \cup {execution[s].job : s \in {q \in Sessions : execution[q] # Idle}}
  /\ execution' = [s \in Sessions |-> Idle]
  /\ UNCHANGED <<tenant, job, status, started>>

Next ==
  \/ \E t \in Tenants, j \in Jobs, by \in Admins, dry \in BOOLEAN :
       CreateTenant(t, j, by, dry) \/ RequestDecommission(t, j, by, dry)
  \/ \E t \in Tenants : RegisterLocal(t)
  \/ \E j \in Jobs, by \in Admins : Approve(j, by)
  \/ \E j \in Jobs : Reject(j) \/ Cancel(j)
  \/ \E s \in Sessions, j \in Jobs, runner \in Admins : Execute(s, j, runner)
  \/ \E j \in Jobs, runner \in Admins : ExecuteDisabled(j, runner)
  \/ \E s \in Sessions : StepDone(s) \/ LastStepDone(s) \/ StepFailed(s)
  \/ Restart

Spec == Init /\ [][Next]_vars

--------------------------------------------------------------------------------
(* Properties. *)

Live(j) == ~job[j].dry

(* The two-person rule, over all the approvals, rejections, failures and      *)
(* further approvals a job may see: a live job that runs or ran was approved  *)
(* by somebody who neither requested nor executed it, and the row still names *)
(* that person.                                                               *)
TwoPersonRule ==
  \A j \in Jobs : status[j] \in {"running", "completed"} /\ Live(j) =>
    /\ job[j].approver # job[j].requester
    /\ started[j] # Nobody
    /\ started[j].approver = job[j].approver
    /\ started[j].runner # started[j].approver

(* However many administrators press the button, before and after a restart:  *)
(* a session executes a job that is running, and no two sessions the same.    *)
OneExecution ==
  \A s \in Sessions : execution[s] # Idle =>
    /\ status[execution[s].job] = "running"
    /\ execution[s].job \notin lost
    /\ \A q \in Sessions \ {s} : execution[q] # Idle => execution[q].job # execution[s].job

(* A job says that it is running only while a session executes it, or when    *)
(* its session died with the process: no other end leaves it immutable.       *)
RunningIsHeld ==
  \A j \in Jobs : status[j] = "running" =>
    j \in lost \/ \E s \in Sessions : execution[s] # Idle /\ execution[s].job = j

(* Running and being executed are the same, for one session at a time.        *)
RunningIsHeldOnce == OneExecution /\ RunningIsHeld

(* A tenant is being set up, taken down or suspended only if a live job of    *)
(* that kind was executed for it, whatever dry runs wrote back in between.    *)
Executed(t, kind) ==
  \E j \in Jobs : started[j] # Nobody /\ Live(j) /\ job[j].kind = kind /\ job[j].tenant = t

Explained(t, tenantStatus) ==
  /\ tenantStatus = "provisioning" => Executed(t, "bootstrap")
  /\ tenantStatus \in {"decommissioning", "suspended"} => Executed(t, "decommission")

TenantsChangeLive == \A t \in Tenants : Explained(t, tenant[t])
================================================================================
