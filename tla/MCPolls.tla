-------------------------------- MODULE MCPolls --------------------------------
(****************************************************************************)
(* Instances for TLC of four components that share no state: the runs of    *)
(* pipelines, the ticks of the scheduler, the delivery of notifications,    *)
(* the polling of the task board. They stand side by side, and the first    *)
(* state says which of them moves in a behaviour; fairness is that          *)
(* component's own.                                                         *)
(****************************************************************************)
EXTENDS Pipelines, FiniteSets

CONSTANTS
  Hung, Ticks, MaxAge, MaxChanges,
  Agents, Others, Senders, Daemon, Limit, MaxRows, MaxTrouble,
  Tasks, Statuses, Fetches, Moves, MaxTries, MaxWrites, MaxDrags

VARIABLES
  clock, overdue, running, enabled, tick, changes,
  row, batch, received, doubts, trouble,
  taskRow, writes, attached, pipe, stream, tries, mounted, cards, fetch, move, drags,
  had, crossed, doubt,
  moves

(* The first of two jobs is due at the start and at every tick, the other   *)
(* one tick later and at every second one.                                  *)
TwoJobs == <<"a", "b">>
Intervals == [j \in {"a", "b"} |-> IF j = "b" THEN 2 ELSE 1]
FirstRuns == [j \in {"a", "b"} |-> IF j = "a" THEN 0 ELSE 1]

S == INSTANCE Scheduler WITH JobOrder <- TwoJobs, Interval <- Intervals, First <- FirstRuns,
                           timer <- clock
N == INSTANCE Notifications WITH Sessions <- Senders
B == INSTANCE TaskBoard WITH row <- taskRow

ASSUME SendersAreFinite == IsFiniteSet(Senders)
ASSUME BoundsAreNumbers ==
  Limit \in Nat /\ MaxRows \in Nat /\ MaxTrouble \in Nat /\ MaxChanges \in Nat
ASSUME BoardParameters == B!Parameters

pipelineVars == <<pipeline, status, cursor, snapshot, spawning, reached, overlapped>>
schedulerVars == <<clock, overdue, running, enabled, tick, changes>>
notificationVars == <<row, batch, received, doubts, trouble>>
boardVars == <<taskRow, writes, attached, pipe, stream, tries, mounted, cards, fetch,
               move, drags, had, crossed, doubt>>
allVars == <<moves, pipelineVars, schedulerVars, notificationVars, boardVars>>

InitAll ==
  /\ moves \in {"pipelines", "scheduler", "notifications", "board"}
  /\ Init /\ S!Init /\ N!Init /\ B!Init

NextAll ==
  /\ UNCHANGED moves
  /\ \/ moves = "pipelines" /\ Next /\ UNCHANGED <<schedulerVars, notificationVars, boardVars>>
     \/ moves = "scheduler" /\ S!Next /\ UNCHANGED <<pipelineVars, notificationVars, boardVars>>
     \/ moves = "notifications" /\ N!Next /\ UNCHANGED <<pipelineVars, schedulerVars, boardVars>>
     \/ moves = "board" /\ B!Next /\ UNCHANGED <<pipelineVars, schedulerVars, notificationVars>>

(* The fair actions of each are disabled in its first state: whoever stands *)
(* still is fair all the same.                                              *)
Fairness == S!Fairness /\ N!Fairness /\ B!Fairness

SpecAll == InitAll /\ [][NextAll]_allVars /\ Fairness

TypesOK == TypeOK /\ S!TypeOK /\ N!TypeOK /\ B!TypeOK

OthersKeepRunning == S!OthersKeepRunning

DeliveredForAReason == N!DeliveredForAReason
DeliveredBehindFew == N!DeliveredBehindFew

PollingCatchesUp == B!PollingCatchesUp
================================================================================
