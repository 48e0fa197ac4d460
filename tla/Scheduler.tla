------------------------------- MODULE Scheduler -------------------------------
(****************************************************************************)
(* lib/scheduler.ts: one interval timer starts a tick every minute; a tick  *)
(* goes through the jobs in order and awaits each one that is due. A tick   *)
(* that waits for a long job does not keep the next one from starting, so   *)
(* several are under way; the running flag keeps two from doing the same    *)
(* job. A tick compares with, and later writes, the time at which it began. *)
(*                                                                          *)
(* Only differences of times matter, so they are kept instead of times:     *)
(* overdue (now - nextRun) and the age of each tick (now - its own now).    *)
(****************************************************************************)
EXTENDS Integers, Sequences

CONSTANTS
  JobOrder,   \* the ids of the tasks map, each once, in the order they were set
  Hung,       \* the jobs that may never end (an answer that never arrives)
  Interval,   \* intervalMs of each job, in ticks
  First,      \* nextRun at the start, from the process start
  Ticks,      \* bound: ticks under way
  MaxAge,     \* bound: how long a tick awaits jobs that end
  MaxChanges  \* bound: restarts and changes of settings

Jobs == {JobOrder[i] : i \in DOMAIN JobOrder}

VARIABLES
  timer,     \* tickInterval is set
  overdue,   \* of each job; negative before nextRun
  running,   \* the flag of each job
  enabled,   \* isSettingEnabled of each job
  tick,      \* ticks under way: age, position, whether a job is awaited
  changes    \* restarts and changes of settings so far

vars == <<timer, overdue, running, enabled, tick, changes>>

NoTick == [age |-> 0, at |-> 0, awaits |-> FALSE]

TypeOK ==
  /\ timer \in BOOLEAN
  /\ overdue \in [Jobs -> Int]
  /\ running \in [Jobs -> BOOLEAN]
  /\ enabled \in [Jobs -> BOOLEAN]
  /\ tick \in [Ticks -> [age : Nat, at : 0..(Len(JobOrder) + 1), awaits : BOOLEAN]]
  /\ changes \in 0..MaxChanges

AtStart == [j \in Jobs |-> 0 - First[j]]

Init ==
  /\ timer = FALSE
  /\ overdue = AtStart
  /\ running = [j \in Jobs |-> FALSE]
  /\ enabled = [j \in Jobs |-> TRUE]
  /\ tick = [i \in Ticks |-> NoTick]
  /\ changes = 0

JobOf(i) == JobOrder[tick[i].at]
Awaits(i, j) == tick[i].awaits /\ JobOf(i) = j

(* A tick that awaits a job that never ends no longer grows older.          *)
Stuck(i) == tick[i].awaits /\ JobOf(i) \in Hung

--------------------------------------------------------------------------------
(* The first use of the database starts it; further calls do nothing.       *)
initScheduler ==
  /\ ~timer
  /\ timer' = TRUE
  /\ overdue' = AtStart
  /\ running' = [j \in Jobs |-> FALSE]
  /\ UNCHANGED <<enabled, tick, changes>>

Startable(i) ==
  LET j == JobOf(i)
  IN  ~running[j] /\ overdue[j] >= tick[i].age /\ enabled[j]

MayBeginAlone == \A i \in Ticks : tick[i] = NoTick  \* mutant: ticks wait for each other

(* The timer looks at nothing.                                              *)
MayBegin == TRUE

(* A minute passes and the timer fires. MaxAge is the bound: jobs that end  *)
(* do so before their tick is older.                                        *)
Fire(i) ==
  /\ timer
  /\ tick[i] = NoTick
  /\ MayBegin
  /\ \A o \in Ticks : tick[o] = NoTick \/ Stuck(o) \/ tick[o].age < MaxAge
  /\ overdue' = [j \in Jobs |-> IF overdue[j] > MaxAge THEN overdue[j] ELSE overdue[j] + 1]
  /\ tick' = [o \in Ticks |->
       IF o = i THEN [age |-> 0, at |-> 1, awaits |-> FALSE]
       ELSE IF tick[o] = NoTick \/ Stuck(o) THEN tick[o]
       ELSE [tick[o] EXCEPT !.age = @ + 1]]
  /\ UNCHANGED <<timer, running, enabled, changes>>

PlaceAfterTwo(i) ==  \* mutant: a job that has ended is counted twice
  IF tick[i].awaits THEN tick[i].at + 2 ELSE tick[i].at + 1

Place(i) == tick[i].at + 1

Looking(i) == tick[i].at \in DOMAIN JobOrder /\ ~tick[i].awaits

Skip(i) ==
  /\ Looking(i)
  /\ ~Startable(i)
  /\ tick' = [tick EXCEPT ![i].at = Place(i)]
  /\ UNCHANGED <<timer, overdue, running, enabled, changes>>

Start(i) ==
  /\ Looking(i)
  /\ Startable(i)
  /\ running' = [running EXCEPT ![JobOf(i)] = TRUE]
  /\ tick' = [tick EXCEPT ![i].awaits = TRUE]
  /\ UNCHANGED <<timer, overdue, enabled, changes>>

(* nextRun = now + intervalMs with the tick's own now.                      *)
NextRunAfter(i) ==
  [overdue EXCEPT ![JobOf(i)] = tick[i].age - Interval[JobOf(i)]]

(* The job ends, well or with an exception: the finally block.              *)
End(i) ==
  /\ tick[i].awaits
  /\ running' = [running EXCEPT ![JobOf(i)] = FALSE]
  /\ overdue' = NextRunAfter(i)
  /\ tick' = [tick EXCEPT ![i].awaits = FALSE, ![i].at = Place(i)]
  /\ UNCHANGED <<timer, enabled, changes>>

Finish(i) ==
  /\ tick[i].at > Len(JobOrder)
  /\ tick' = [tick EXCEPT ![i] = NoTick]
  /\ UNCHANGED <<timer, overdue, running, enabled, changes>>

Change == changes < MaxChanges /\ changes' = changes + 1

SwitchSetting(j) ==
  /\ Change
  /\ enabled' = [enabled EXCEPT ![j] = ~@]
  /\ UNCHANGED <<timer, overdue, running, tick>>

(* The process ends: all of it was in memory. Nothing calls stopScheduler.   *)
Stop ==
  /\ Change
  /\ timer
  /\ timer' = FALSE
  /\ overdue' = AtStart
  /\ running' = [j \in Jobs |-> FALSE]
  /\ tick' = [i \in Ticks |-> NoTick]
  /\ UNCHANGED enabled

Step(i) == Fire(i) \/ Skip(i) \/ Start(i) \/ End(i) \/ Finish(i)

Next ==
  \/ \E i \in Ticks : Step(i)
  \/ \E j \in Jobs : SwitchSetting(j)
  \/ initScheduler \/ Stop

(* The timer fires again and again, a tick goes on, a job that is not hung  *)
(* ends; nothing is promised of the hung ones.                              *)
Fairness ==
  /\ WF_vars(\E i \in Ticks : Fire(i))
  /\ \A i \in Ticks :
       WF_vars(Skip(i) \/ Start(i) \/ (End(i) /\ JobOf(i) \notin Hung) \/ Finish(i))

Spec == Init /\ [][Next]_vars /\ Fairness

--------------------------------------------------------------------------------
(* A job that never ends costs only itself: all the others that stay        *)
(* switched on run again and again, whatever their place in the order (the  *)
(* interval timer does not wait for a tick; lib/webhooks.ts has no timeout  *)
(* for a body, so there is such a job).                                     *)
OthersKeepRunning ==
  \A j \in Jobs \ Hung :
    <>[](timer /\ enabled[j]) => []<>(\E i \in Ticks : Awaits(i, j))
===============================================================================
