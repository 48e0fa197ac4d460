------------------------------- MODULE Webhooks -------------------------------
(****************************************************************************)
(* Outbound webhooks (lib/webhooks.ts): events are delivered to the         *)
(* webhooks that are enabled, failed deliveries are retried with a delay,   *)
(* and a webhook whose retries are exhausted is disabled by the circuit     *)
(* breaker.                                                                 *)
(*                                                                          *)
(* Every delivery awaits an HTTP answer (ten seconds at most) and then does *)
(* its bookkeeping in one go, so deliveries are the jobs of a set, in       *)
(* flight together and answered in any order. A retry session delivers its  *)
(* batch one after the other: the rest of the batch is in flight too, for   *)
(* nothing of what the session does depends on which job is being sent.     *)
(* Sessions may overlap (the tick and POST /api/scheduler).                 *)
(****************************************************************************)
EXTENDS Naturals, FiniteSets

CONSTANTS
  Hooks,        \* webhooks rows
  Events,       \* occurrences on the event bus, each of them happens once
  Wanted,       \* <<hook, event>>: the webhook's events list holds the type, or *
  MaxRetries,   \* MC_WEBHOOK_MAX_RETRIES
  RetryBatch,   \* deliveries one retry session takes (50)
  Kept,         \* deliveries kept per webhook (200)
  Ping,         \* the event of a test delivery
  MaxRows       \* bound: deliveries recorded before the last one by hand starts

ASSUME WebhookAssumption ==
  /\ Wanted \subseteq Hooks \X Events
  /\ Ping \notin Events
  /\ {MaxRetries, RetryBatch, Kept} \subseteq Nat \ {0}
  /\ MaxRows \in Nat

VARIABLES
  state,       \* webhooks.enabled, or no row at all
  failures,    \* consecutive_failures, up to MaxRetries
  deliveries,  \* rows of webhook_deliveries
  nextId,      \* their AUTOINCREMENT id, the order of created_at
  inflight,    \* calls of deliverWebhook between their start and their bookkeeping
  fired        \* events that have occurred

vars == <<state, failures, deliveries, nextId, inflight, fired>>

(* auto: allowRetry, which the deliveries of an event and its retries set and *)
(* a test or a manual retry does not.                                         *)
Jobs == [hook : Hooks, event : Events \cup {Ping}, attempt : Nat, auto : BOOLEAN]

(* due: next_retry_at is NULL, in the future, or past. *)
Rows == [id : Nat, hook : Hooks, event : Events \cup {Ping}, attempt : Nat,
         auto : BOOLEAN, ok : BOOLEAN, due : {"never", "later", "now"}]

NoRow == {"absent", "deleted"}

TypeOK ==
  /\ state \in [Hooks -> {"enabled", "disabled"} \cup NoRow]
  /\ failures \in [Hooks -> 0..MaxRetries]
  /\ deliveries \subseteq Rows
  /\ nextId \in Nat
  /\ inflight \subseteq Jobs
  /\ fired \subseteq Events

Init ==
  /\ state = [h \in Hooks |-> "absent"]
  /\ failures = [h \in Hooks |-> 0]
  /\ deliveries = {}
  /\ nextId = 0
  /\ inflight = {}
  /\ fired = {}

--------------------------------------------------------------------------------
(* Slips: definitions the code might have had instead of the ones below. *)

ClearedLater(rows) == deliveries
RetriableShort(j, ok) == j.auto /\ ~ok /\ j.attempt + 2 < MaxRetries
RecordableAlways(j) == TRUE

--------------------------------------------------------------------------------
(* deliverWebhook: what happens once the answer is there. *)

(* The row of a deleted webhook fails its foreign key, and the catch swallows *)
(* the rest of the bookkeeping with it.                                       *)
Recordable(j) == state[j.hook] \notin NoRow

Retriable(j, ok) == j.auto /\ ~ok /\ j.attempt + 1 < MaxRetries

FailuresAfter(j, ok) ==
  IF ~j.auto THEN failures[j.hook]
  ELSE IF ok THEN 0
  ELSE IF failures[j.hook] < MaxRetries THEN failures[j.hook] + 1 ELSE MaxRetries

(* The circuit breaker looks at the counter only when a delivery gives up. *)
Trips(j, ok) ==
  j.auto /\ ~ok /\ ~Retriable(j, ok) /\ FailuresAfter(j, ok) >= MaxRetries

RowOf(j, ok) ==
  [id |-> nextId, hook |-> j.hook, event |-> j.event, attempt |-> j.attempt, auto |-> j.auto,
   ok |-> ok, due |-> IF Retriable(j, ok) THEN "later" ELSE "never"]

(* Only the newest rows of the webhook are kept, retries they wait for or not. *)
Pruned(rows, h) ==
  {r \in rows : r.hook = h => Cardinality({q \in rows : q.hook = h /\ q.id > r.id}) < Kept}

Answered(j, ok) ==
  /\ j \in inflight
  /\ inflight' = inflight \ {j}
  /\ IF Recordable(j)
     THEN /\ deliveries' = Pruned(deliveries \cup {RowOf(j, ok)}, j.hook)
          /\ nextId' = nextId + 1
          /\ failures' = [failures EXCEPT ![j.hook] = FailuresAfter(j, ok)]
          /\ state' = IF Trips(j, ok) THEN [state EXCEPT ![j.hook] = "disabled"] ELSE state
     ELSE UNCHANGED <<deliveries, nextId, failures, state>>
  /\ UNCHANGED fired

--------------------------------------------------------------------------------
(* initWebhookListener, fireWebhooksAsync. *)

Fire(e) ==
  LET matching == {h \in Hooks : state[h] = "enabled" /\ <<h, e>> \in Wanted} IN
  /\ e \notin fired
  /\ fired' = fired \cup {e}
  /\ inflight' = inflight \cup
       {[hook |-> h, event |-> e, attempt |-> 0, auto |-> TRUE] : h \in matching}
  /\ UNCHANGED <<state, failures, deliveries, nextId>>

(* processWebhookRetries up to its first await: take a batch of due rows of   *)
(* enabled webhooks and clear their next_retry_at.                            *)
DueRows == {r \in deliveries : r.due = "now" /\ state[r.hook] = "enabled"}

Cleared(rows) == (deliveries \ rows) \cup {[r EXCEPT !.due = "never"] : r \in rows}

RetryOf(r) == [hook |-> r.hook, event |-> r.event, attempt |-> r.attempt + 1, auto |-> TRUE]

TakeRetries ==
  \E S \in SUBSET DueRows :
    /\ Cardinality(S) = IF Cardinality(DueRows) <= RetryBatch
                        THEN Cardinality(DueRows) ELSE RetryBatch
    /\ S # {}
    /\ deliveries' = Cleared(S)
    /\ inflight' = inflight \cup {RetryOf(r) : r \in S}
    /\ UNCHANGED <<state, failures, nextId, fired>>

(* Thirty seconds to eight hours, by the attempt. *)
DelayPasses(r) ==
  /\ r.due = "later"
  /\ deliveries' = (deliveries \ {r}) \cup {[r EXCEPT !.due = "now"]}
  /\ UNCHANGED <<state, failures, nextId, inflight, fired>>

--------------------------------------------------------------------------------
(* The routes under /api/webhooks. *)

(* At most one delivery by hand is in flight at a time, and MaxRows bounds them. *)
ByHand(j) ==
  /\ nextId < MaxRows
  /\ \A i \in inflight : i.auto
  /\ inflight' = inflight \cup {j}
  /\ UNCHANGED <<state, failures, deliveries, nextId, fired>>

CreateHook(h) ==
  /\ state[h] = "absent"
  /\ state' = [state EXCEPT ![h] = "enabled"]
  /\ UNCHANGED <<failures, deliveries, nextId, inflight, fired>>

TestHook(h) ==
  /\ state[h] \notin NoRow
  /\ ByHand([hook |-> h, event |-> Ping, attempt |-> 0, auto |-> FALSE])

(* Any recorded delivery, a successful one or one whose retry is due included. *)
RetryByHand(r) == ByHand([RetryOf(r) EXCEPT !.auto = FALSE])

SetEnabled(h, wanted) ==
  /\ state[h] \notin NoRow
  /\ state' = [state EXCEPT ![h] = wanted]
  /\ UNCHANGED <<failures, deliveries, nextId, inflight, fired>>

ResetCircuit(h) ==
  /\ state[h] \notin NoRow
  /\ state' = [state EXCEPT ![h] = "enabled"]
  /\ failures' = [failures EXCEPT ![h] = 0]
  /\ UNCHANGED <<deliveries, nextId, inflight, fired>>

DeleteHook(h) ==
  /\ state[h] \notin NoRow
  /\ state' = [state EXCEPT ![h] = "deleted"]
  /\ deliveries' = {r \in deliveries : r.hook # h}
  /\ UNCHANGED <<failures, nextId, inflight, fired>>

(* The server stops: the calls in flight are gone, next_retry_at of a batch   *)
(* taken is cleared already.                                                  *)
Crash ==
  /\ inflight # {}
  /\ inflight' = {}
  /\ UNCHANGED <<state, failures, deliveries, nextId, fired>>

Sending ==
  \/ \E e \in Events : Fire(e)
  \/ \E j \in inflight, ok \in BOOLEAN : Answered(j, ok)
  \/ TakeRetries
  \/ \E r \in deliveries : DelayPasses(r)

Admin ==
  \/ \E h \in Hooks : CreateHook(h) \/ TestHook(h) \/ ResetCircuit(h) \/ DeleteHook(h)
  \/ \E r \in deliveries : RetryByHand(r)
  \/ \E h \in Hooks, wanted \in {"enabled", "disabled"} : SetEnabled(h, wanted)

Next == Sending \/ Admin \/ Crash

Spec == Init /\ [][Next]_vars

(* Calls are answered or time out, delays pass, the webhook_retry job runs. *)
Fairness ==
  /\ \A h \in Hooks, e \in Events, a \in 0..MaxRetries :
       LET j == [hook |-> h, event |-> e, attempt |-> a, auto |-> TRUE] IN
       WF_vars(\E ok \in BOOLEAN : Answered(j, ok))
  /\ \A h \in Hooks : WF_vars(\E r \in deliveries : r.hook = h /\ DelayPasses(r))
  /\ WF_vars(TakeRetries)

FairSpec == Spec /\ Fairness

--------------------------------------------------------------------------------
(* Properties. *)

(* What is still to come of event e for webhook h without anybody's help. *)
Retries(h, e) == {r \in deliveries : r.hook = h /\ r.event = e /\ r.due # "never"}
Calls(h, e) == {j \in inflight : j.hook = h /\ j.event = e /\ j.auto}
Underway(h, e) == Retries(h, e) # {} \/ Calls(h, e) # {}

(* However sessions, breakers and operators overlap, an event is on its way   *)
(* to a webhook at most once at a time, and for one of its MaxRetries         *)
(* attempts: a batch is cleared before the first call of its session.         *)
OneAttemptAtATime ==
  \A h \in Hooks, e \in Events :
    /\ Cardinality(Retries(h, e)) + Cardinality(Calls(h, e)) <= 1
    /\ \A j \in Calls(h, e) : j.attempt < MaxRetries

(* An event that was delivered is not sent again by itself. *)
SuccessIsFinal ==
  \A r \in deliveries : r.auto /\ r.ok => ~Underway(r.hook, r.event)

(* An event on its way stays on its way until it is delivered or all its      *)
(* attempts are used up; a crash, the deletion of the webhook and the limit   *)
(* on recorded deliveries are the only ways to lose it.                       *)
Settled(h, e) ==
  \E r \in deliveries : r.hook = h /\ r.event = e /\ r.auto /\ (r.ok \/ r.attempt + 1 >= MaxRetries)

KeptUntilSettled ==
  [][\A h \in Hooks, e \in Events :
       Underway(h, e) /\ ~Underway(h, e)' =>
         \/ Settled(h, e)'
         \/ state'[h] = "deleted"
         \/ Cardinality({r \in deliveries : r.hook = h}) = Kept
         \/ inflight' = {} /\ deliveries' = deliveries]_vars

(* The breaker never counts more than the record shows: the consecutive       *)
(* failures of a webhook are failed deliveries with no success since, as far  *)
(* as the record goes back.                                                   *)
FailuresInARow(h) ==
  {r \in deliveries :
     /\ r.hook = h /\ r.auto /\ ~r.ok
     /\ \A q \in deliveries : q.hook = h /\ q.auto /\ q.ok => q.id < r.id}

FailuresAreRecorded ==
  \A h \in Hooks :
    \/ state[h] \in NoRow
    \/ Cardinality({r \in deliveries : r.hook = h}) = Kept
       /\ ~\E r \in deliveries : r.hook = h /\ r.auto /\ r.ok
    \/ failures[h] <= Cardinality(FailuresInARow(h))

(* A late answer for a deleted webhook leaves no row. *)
NoRowsOfDeletedHooks == \A r \in deliveries : state[r.hook] \notin NoRow

(* What the rows of the deliveries say is what happened and what is to come:  *)
(* successes, consecutive failures, webhooks that are gone.                   *)
RecordIsTrue == SuccessIsFinal /\ FailuresAreRecorded /\ NoRowsOfDeletedHooks

(* Every event's round of attempts ends while its webhook stays enabled. *)
RoundsEnd ==
  \A h \in Hooks, e \in Events :
    (Underway(h, e) /\ state[h] = "enabled") ~> (~Underway(h, e) \/ state[h] # "enabled")

(* An event is neither given up early nor tried for ever.                     *)
EventsSettle == KeptUntilSettled /\ RoundsEnd
===============================================================================
