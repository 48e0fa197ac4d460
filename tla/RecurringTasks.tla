---------------------------- MODULE RecurringTasks ----------------------------
(****************************************************************************)
(* lib/recurring-tasks.ts with isCronDue of lib/schedule-parser.ts: a       *)
(* recurring task stays as a template, and each run of the spawner that     *)
(* falls into a minute of its schedule makes a dated child of it.           *)
(*                                                                          *)
(* Time is counted in minutes of a small calendar. A cron expression is the *)
(* set of values of each of its five fields ("*", lists, ranges and steps   *)
(* are all sets). The template's metadata, last_spawned_at in it, is also   *)
(* written back whole by whoever read it earlier: a dispatch that awaited   *)
(* its agent, or an edit form (task-dispatch.ts, tasks/[id]/route.ts).      *)
(****************************************************************************)
EXTENDS Integers, FiniteSets

CONSTANTS
  Templates,
  InProject,      \* the templates that have a project_id
  Cron,           \* cron_expr of each template
  Writers,        \* those who hold a copy of a template's metadata
  MinutesPerHour, HoursPerDay, DaysPerWeek, DaysPerYear,
  MaxMinute,      \* bound: the clock
  MaxTwins        \* bound: children of one title

VARIABLES
  now,
  last,      \* metadata.recurrence.last_spawned_at
  enabled,   \* metadata.recurrence.enabled
  child,     \* the spawned tasks: parent and creation time
  copy,      \* metadata held by writers
  setBack    \* history: a stale copy took back the latest spawn

vars == <<now, last, enabled, child, copy, setBack>>

Never == 0  \* last_spawned_at: null; the clock starts at 1

NoCopy == [of |-> "none"]

TypeOK ==
  /\ now \in 1..MaxMinute
  /\ last \in [Templates -> 0..MaxMinute]
  /\ enabled \in [Templates -> BOOLEAN]
  /\ child \subseteq [parent : Templates, at : 1..MaxMinute, copy : 0..MaxTwins]
  /\ copy \in [Writers -> [of : Templates, last : 0..MaxMinute] \cup {NoCopy}]
  /\ setBack \in [Templates -> BOOLEAN]

MinuteOf(t) == t % MinutesPerHour
HourOf(t) == (t \div MinutesPerHour) % HoursPerDay
Day(t) == (t \div MinutesPerHour) \div HoursPerDay
DayOfWeek(t) == Day(t) % DaysPerWeek
DayOfYear(t) == Day(t) % DaysPerYear

(* isCronDue: the fields for the day of the month and the month are split   *)
(* off and not looked at.                                                   *)
Matches(cron, t) ==
  /\ MinuteOf(t) \in cron.minute
  /\ HourOf(t) \in cron.hour
  /\ DayOfWeek(t) \in cron.dow

isCronDue(cron, t, lastSpawn) == Matches(cron, t) /\ lastSpawn # t

(* A single value is written as a number, several in any of the other ways. *)
isSubDailyCron(cron) == Cardinality(cron.minute) # 1 \/ Cardinality(cron.hour) # 1

(* "MMM DD", with the time of day when several fall on a day. No year.      *)
formatDateSuffix(t, subDaily) ==
  [day |-> DayOfYear(t),
   hour |-> IF subDaily THEN HourOf(t) ELSE 0,
   minute |-> IF subDaily THEN MinuteOf(t) ELSE 0]

Title(p, t) == <<p, formatDateSuffix(t, isSubDailyCron(Cron[p]))>>

Init ==
  /\ now = 1
  /\ last = [p \in Templates |-> Never]
  /\ enabled = [p \in Templates |-> TRUE]
  /\ child = {}
  /\ copy = [w \in Writers |-> NoCopy]
  /\ setBack = [p \in Templates |-> FALSE]

--------------------------------------------------------------------------------
Due == {p \in Templates : enabled[p] /\ isCronDue(Cron[p], now, last[p])}

Twins(p) == {c \in child : c.parent = p /\ Title(p, c.at) = Title(p, now)}

NeverWithheld == {}  \* mutant: no duplicate prevention

(* Duplicate prevention: project_id = NULL is not true of any row.          *)
Withheld == {p \in Due \cap InProject : Twins(p) # {}}

NewChild(p) == [parent |-> p, at |-> now, copy |-> Cardinality(Twins(p))]

(* spawnRecurringTasks, by the scheduler or by hand: at any time, so also   *)
(* several times in a minute, and not in every minute.                      *)
Spawn ==
  LET spawned == Due \ Withheld
  IN  /\ \A p \in spawned : Cardinality(Twins(p)) < MaxTwins
      /\ child' = child \cup {NewChild(p) : p \in spawned}
      /\ last' = [p \in Templates |-> IF p \in spawned THEN now ELSE last[p]]
      /\ setBack' = [p \in Templates |-> setBack[p] /\ p \notin spawned]
      /\ UNCHANGED <<now, enabled, copy>>

(* A dispatch or an edit form reads the template's metadata ...             *)
ReadMetadata(w, p) ==
  /\ copy[w] = NoCopy
  /\ copy' = [copy EXCEPT ![w] = [of |-> p, last |-> last[p]]]
  /\ UNCHANGED <<now, last, enabled, child, setBack>>

(* ... and writes all of it later; a form may also switch it on or off.     *)
WriteMetadata(w) ==
  LET p == copy[w].of
  IN  /\ copy[w] # NoCopy
      /\ last' = [last EXCEPT ![p] = copy[w].last]
      /\ \E on \in BOOLEAN : enabled' = [enabled EXCEPT ![p] = on]
      /\ copy' = [copy EXCEPT ![w] = NoCopy]
      /\ setBack' = [setBack EXCEPT ![p] = @ \/ copy[w].last # last[p]]
      /\ UNCHANGED <<now, child>>

Minute ==
  /\ now < MaxMinute
  /\ now' = now + 1
  /\ UNCHANGED <<last, enabled, child, copy, setBack>>

DeleteChild(c) ==
  /\ child' = child \ {c}
  /\ UNCHANGED <<now, last, enabled, copy, setBack>>

Next ==
  \/ Spawn \/ Minute
  \/ \E w \in Writers : WriteMetadata(w) \/ \E p \in Templates : ReadMetadata(w, p)
  \/ \E c \in child : DeleteChild(c)

Spec == Init /\ [][Next]_vars

--------------------------------------------------------------------------------
(* A template with a project has at most one child of a title, also when    *)
(* last_spawned_at was set back by a stale copy and the spawner runs again  *)
(* in the same minute.                                                      *)
OneChildPerTitle ==
  \A c, d \in child :
    c.parent = d.parent /\ c.parent \in InProject
      /\ Title(c.parent, c.at) = Title(d.parent, d.at) => c = d

(* Without a project nothing but last_spawned_at keeps a minute from being  *)
(* spawned twice: it happens only after a stale copy has set it back.       *)
TwiceAfterSetBack ==
  \A c \in child, d \in child' \ child :
    c.parent = d.parent /\ c.at = d.at => setBack[c.parent]

(* When the spawner runs in a due minute and makes no child, there is one   *)
(* of the same minute - or of the same date in an earlier year, whose title *)
(* is the same.                                                             *)
WithheldForATwin ==
  \A p \in Withheld : \E c \in child :
    c.parent = p /\ (c.at = now \/ Day(now) - Day(c.at) >= DaysPerYear)

(* Duplicate prevention prevents duplicates and nothing else, unless a year *)
(* has passed; where it does not work, last_spawned_at does.                *)
TwinsArePrevented == [](OneChildPerTitle /\ WithheldForATwin) /\ [][TwiceAfterSetBack]_vars
===============================================================================
