------------------------------ MODULE CallsProofs ------------------------------
(****************************************************************************)
(* Proofs about what goes out and comes in over the network. The deliveries *)
(* of webhooks, for every number of webhooks, events, retries, rows kept    *)
(* and calls in flight: the types, that an event is on its way to a webhook *)
(* once at a time and for one of its attempts, and that the record tells    *)
(* what happened. The connection of the browser, for every number of        *)
(* sockets, attempts and missed pongs: the types, that there is one socket  *)
(* and that the connection shown is the one there is.                       *)
(****************************************************************************)
EXTENDS MCCalls, FiniteSetTheorems, WellFoundedInduction, TLAPS

--------------------------------------------------------------------------------
Same(x, y) == x.hook = y.hook /\ x.event = y.event

Waits(r) == r.due # "never"

(* Tests are never automatic, and what is about an event comes after it.      *)
AfterEvent(x) ==
  /\ x.auto => x.event \in Events
  /\ x.event \in fired \cup {Ping}

Numbered ==
  /\ \A r \in deliveries : r.id < nextId
  /\ \A r, q \in deliveries : r.id = q.id => r = q

(* OneAttemptAtATime without counting, and what its steps need to know of the *)
(* rows that wait for a retry.                                                *)
OnItsWayOnce ==
  /\ \A r \in deliveries : Waits(r) => r.auto /\ ~r.ok /\ r.attempt + 1 < MaxRetries
  /\ \A j \in inflight : j.auto => j.attempt < MaxRetries
  /\ \A r, q \in deliveries : Waits(r) /\ Waits(q) /\ Same(r, q) => r = q
  /\ \A i, j \in inflight : i.auto /\ j.auto /\ Same(i, j) => i = j
  /\ \A r \in deliveries, j \in inflight : Waits(r) /\ j.auto => ~Same(r, j)

Final ==
  \A r \in deliveries : r.auto /\ r.ok =>
    /\ \A q \in deliveries : Waits(q) => ~Same(r, q)
    /\ \A j \in inflight : j.auto => ~Same(r, j)

SendInv ==
  /\ TypeOK
  /\ \A r \in deliveries : AfterEvent(r)
  /\ \A j \in inflight : AfterEvent(j)
  /\ Numbered
  /\ OnItsWayOnce
  /\ Final
  /\ NoRowsOfDeletedHooks

--------------------------------------------------------------------------------
(* A row with another due date. *)
LEMMA Redated ==
  ASSUME NEW r \in Rows, NEW d \in {"never", "later", "now"}
  PROVE  /\ [r EXCEPT !.due = d] \in Rows
         /\ [r EXCEPT !.due = d].due = d
         /\ [r EXCEPT !.due = d].id = r.id
         /\ [r EXCEPT !.due = d].hook = r.hook
         /\ [r EXCEPT !.due = d].event = r.event
         /\ [r EXCEPT !.due = d].attempt = r.attempt
         /\ [r EXCEPT !.due = d].auto = r.auto
         /\ [r EXCEPT !.due = d].ok = r.ok
BY DEF Rows

LEMMA RowOfAnswer ==
  ASSUME TypeOK, NEW j \in inflight, NEW ok \in BOOLEAN
  PROVE  /\ j \in Jobs
         /\ RowOf(j, ok) \in Rows
         /\ RowOf(j, ok).id = nextId
         /\ Same(RowOf(j, ok), j)
         /\ RowOf(j, ok).attempt = j.attempt
         /\ RowOf(j, ok).auto = j.auto
         /\ RowOf(j, ok).ok = ok
         /\ Waits(RowOf(j, ok)) <=> Retriable(j, ok)
BY DEF TypeOK, Jobs, Rows, RowOf, Same, Waits

LEMMA RetryOfRow ==
  ASSUME NEW r \in Rows
  PROVE  /\ RetryOf(r) \in Jobs
         /\ Same(RetryOf(r), r)
         /\ RetryOf(r).auto = TRUE
         /\ RetryOf(r).attempt = r.attempt + 1
BY DEF Rows, Jobs, RetryOf, Same

LEMMA SendInit == Init => SendInv
BY WebhookAssumption
   DEF Init, SendInv, TypeOK, Numbered, OnItsWayOnce, Final, NoRowsOfDeletedHooks, NoRow

--------------------------------------------------------------------------------
(* The steps. *)
LEMMA FireKeeps ==
  ASSUME SendInv, NEW e \in Events, Fire(e)
  PROVE  SendInv'
<1> DEFINE job(h) == [hook |-> h, event |-> e, attempt |-> 0, auto |-> TRUE]
           new == {job(h) : h \in {x \in Hooks : state[x] = "enabled" /\ <<x, e>> \in Wanted}}
<1>1. /\ e \notin fired /\ fired' = fired \cup {e} /\ inflight' = inflight \cup new
      /\ UNCHANGED <<state, failures, deliveries, nextId>>
  BY DEF Fire
<1>2. \A j \in new : /\ j \in Jobs /\ j.event = e /\ j.auto = TRUE /\ j.attempt = 0
                     /\ \A i \in new : Same(i, j) => i = j
  <2>1. ASSUME NEW h \in Hooks
        PROVE  /\ job(h) \in Jobs /\ job(h).event = e /\ job(h).hook = h
               /\ job(h).auto = TRUE /\ job(h).attempt = 0
    BY DEF Jobs
  <2>2. \A j \in new : \E h \in Hooks : j = job(h)
    OBVIOUS
  <2> HIDE DEF job
  <2>3. \A j \in new : j \in Jobs /\ j.event = e /\ j.auto = TRUE /\ j.attempt = 0
                        /\ j = job(j.hook)
    <3> TAKE j \in new
    <3>1. PICK h \in Hooks : j = job(h)
      BY <2>2
    <3>2. j.hook = h
      BY <2>1, <3>1
    <3> QED BY <2>1, <3>1, <3>2
  <2> QED BY <2>3 DEF Same
<1>3. e # Ping
  BY WebhookAssumption
<1> HIDE DEF new
<1>4. /\ \A r \in deliveries : r.event # e
      /\ \A j \in inflight : j.event # e
  BY <1>1, <1>3 DEF SendInv, AfterEvent
<1>5. TypeOK'
  BY <1>1, <1>2 DEF SendInv, TypeOK
<1>6. (\A r \in deliveries : AfterEvent(r))' /\ (\A j \in inflight : AfterEvent(j))'
  BY <1>1, <1>2 DEF SendInv, AfterEvent
<1>7. OnItsWayOnce'
  BY <1>1, <1>2, <1>4, WebhookAssumption DEF SendInv, OnItsWayOnce, Waits, Same
<1>8. Final'
  BY <1>1, <1>2, <1>4 DEF SendInv, Final, Waits, Same
<1> QED BY <1>1, <1>5, <1>6, <1>7, <1>8 DEF SendInv, Numbered, NoRowsOfDeletedHooks

LEMMA AnsweredKeeps ==
  ASSUME SendInv, NEW j \in inflight, NEW ok \in BOOLEAN, Answered(j, ok)
  PROVE  SendInv'
<1> DEFINE new == RowOf(j, ok)
<1>1. inflight' = inflight \ {j} /\ UNCHANGED fired
  BY DEF Answered
<1>2. CASE ~Recordable(j)
  <2>1. UNCHANGED <<deliveries, nextId, failures, state>>
    BY <1>2 DEF Answered
  <2> QED
    BY <1>1, <2>1
       DEF SendInv, TypeOK, AfterEvent, Numbered, OnItsWayOnce, Final, NoRowsOfDeletedHooks
<1>3. CASE Recordable(j)
  <2>1. /\ deliveries' \subseteq deliveries \cup {new}
        /\ nextId' = nextId + 1
        /\ failures' = [failures EXCEPT ![j.hook] = FailuresAfter(j, ok)]
        /\ state' = IF Trips(j, ok) THEN [state EXCEPT ![j.hook] = "disabled"] ELSE state
    BY <1>3 DEF Answered, Pruned
  <2>2. /\ j \in Jobs /\ new \in Rows /\ new.id = nextId /\ Same(new, j)
        /\ new.auto = j.auto /\ new.ok = ok /\ new.attempt = j.attempt
        /\ Waits(new) <=> Retriable(j, ok)
    BY RowOfAnswer DEF SendInv
  <2> HIDE DEF new
  <2>3. TypeOK'
    <3>1. FailuresAfter(j, ok) \in 0..MaxRetries
      BY <2>2, WebhookAssumption DEF SendInv, TypeOK, FailuresAfter, Jobs
    <3>2. failures \in [Hooks -> 0..MaxRetries] /\ nextId \in Nat
      BY DEF SendInv, TypeOK
    <3>5. failures' \in [Hooks -> 0..MaxRetries]
      BY <2>1, <3>1, <3>2
    <3>6. nextId' \in Nat
      BY <2>1, <3>2
    <3>3. state' \in [Hooks -> {"enabled", "disabled"} \cup NoRow]
      BY <2>1 DEF SendInv, TypeOK
    <3>4. deliveries' \subseteq Rows /\ inflight' \subseteq Jobs /\ fired' \subseteq Events
      BY <1>1, <2>1, <2>2 DEF SendInv, TypeOK
    <3> QED BY <3>3, <3>4, <3>5, <3>6 DEF TypeOK
  <2>4. /\ Numbered'
        /\ (\A r \in deliveries : AfterEvent(r))'
        /\ (\A i \in inflight : AfterEvent(i))'
    BY <1>1, <2>1, <2>2 DEF SendInv, TypeOK, Numbered, AfterEvent, Same, Rows
  <2>5. Waits(new) => j.auto /\ ~ok /\ j.attempt + 1 < MaxRetries
    BY <2>2 DEF Retriable
  <2>6. j.auto => \A r \in deliveries : Waits(r) => ~Same(r, new)
    BY <2>2 DEF SendInv, OnItsWayOnce, Same
  <2>7. j.auto => \A i \in inflight' : i.auto => ~Same(i, new)
    BY <1>1, <2>2 DEF SendInv, OnItsWayOnce, Same
  <2>8. OnItsWayOnce'
    BY <1>1, <2>1, <2>2, <2>5, <2>6, <2>7 DEF SendInv, OnItsWayOnce, Same
  <2>9. Final'
    BY <1>1, <2>1, <2>2, <2>5, <2>6, <2>7 DEF SendInv, Final, Same
  <2>10. NoRowsOfDeletedHooks'
    BY <1>3, <2>1, <2>2 DEF SendInv, TypeOK, NoRowsOfDeletedHooks, Recordable, NoRow, Same, Rows, Jobs
  <2> QED BY <2>3, <2>4, <2>8, <2>9, <2>10 DEF SendInv
<1> QED BY <1>2, <1>3

(* A batch is taken: its rows no longer wait when their calls begin.          *)
LEMMA ClearedRows ==
  ASSUME TypeOK, NEW S \in SUBSET deliveries, NEW d \in {"never", "later", "now"},
         NEW t \in (deliveries \ S) \cup {[r EXCEPT !.due = d] : r \in S}
  PROVE  \E r \in deliveries :
           /\ t \in Rows /\ t.id = r.id /\ Same(t, r)
           /\ t.attempt = r.attempt /\ t.auto = r.auto /\ t.ok = r.ok
           /\ IF r \in S THEN t = [r EXCEPT !.due = d] /\ t.due = d ELSE t = r
<1>1. CASE t \in deliveries \ S
  BY <1>1 DEF TypeOK, Same
<1>2. ASSUME NEW r \in S, t = [r EXCEPT !.due = d]
      PROVE  /\ t \in Rows /\ t.id = r.id /\ Same(t, r)
             /\ t.attempt = r.attempt /\ t.auto = r.auto /\ t.ok = r.ok
             /\ t.due = d
  <2>1. r \in Rows
    BY DEF TypeOK
  <2> QED BY <1>2, <2>1, Redated DEF Same
<1> QED BY <1>1, <1>2

LEMMA TakeKeeps ==
  ASSUME SendInv, TakeRetries
  PROVE  SendInv'
<1>1. PICK S \in SUBSET DueRows :
        /\ deliveries' = Cleared(S)
        /\ inflight' = inflight \cup {RetryOf(r) : r \in S}
        /\ UNCHANGED <<state, failures, nextId, fired>>
  BY DEF TakeRetries
<1>2. S \in SUBSET deliveries /\ \A r \in S : Waits(r) /\ r \in Rows
  BY DEF DueRows, Waits, SendInv, TypeOK
<1>3. \A t \in deliveries' : \E r \in deliveries :
        /\ t \in Rows /\ t.id = r.id /\ Same(t, r)
        /\ t.attempt = r.attempt /\ t.auto = r.auto /\ t.ok = r.ok
        /\ IF r \in S THEN t = [r EXCEPT !.due = "never"] /\ t.due = "never" ELSE t = r
  BY <1>1, <1>2, ClearedRows DEF Cleared, SendInv
<1>4. \A j \in inflight' :
        \/ j \in inflight
        \/ \E r \in S : j \in Jobs /\ Same(j, r) /\ j.auto = TRUE /\ j.attempt = r.attempt + 1
                       /\ j = RetryOf(r)
  BY <1>1, <1>2, RetryOfRow
<1>5. TypeOK'
  BY <1>1, <1>3, <1>4 DEF SendInv, TypeOK
<1>6. /\ (\A r \in deliveries : AfterEvent(r))'
      /\ (\A i \in inflight : AfterEvent(i))'
  BY <1>1, <1>2, <1>3, <1>4 DEF SendInv, AfterEvent, Same, OnItsWayOnce
<1>7. Numbered'
  <2>1. \A r \in deliveries' : r.id < nextId'
    BY <1>1, <1>3 DEF SendInv, Numbered
  <2>2. ASSUME NEW t \in deliveries', NEW u \in deliveries', t.id = u.id
        PROVE  t = u
    BY <1>3, <2>2 DEF SendInv, Numbered
  <2> QED BY <2>1, <2>2 DEF Numbered
<1>8. \A t \in deliveries' : Waits(t) => t \in deliveries \ S
  BY <1>3 DEF Waits
<1>9. OnItsWayOnce'
  <2>1. \A j \in inflight' : j.auto => j.attempt < MaxRetries
    BY <1>2, <1>4 DEF SendInv, OnItsWayOnce
  <2>2. ASSUME NEW i \in inflight', NEW j \in inflight', i.auto, j.auto, Same(i, j)
        PROVE  i = j
    BY <1>2, <1>4, <2>2 DEF SendInv, OnItsWayOnce, Same
  <2>3. ASSUME NEW r \in deliveries', NEW j \in inflight', Waits(r), j.auto
        PROVE  ~Same(r, j)
    BY <1>2, <1>4, <1>8, <2>3 DEF SendInv, OnItsWayOnce, Same
  <2> QED BY <1>8, <2>1, <2>2, <2>3 DEF SendInv, OnItsWayOnce
<1>10. Final'
  <2>1. ASSUME NEW t \in deliveries', t.auto, t.ok
        PROVE  /\ \A q \in deliveries' : Waits(q) => ~Same(t, q)
               /\ \A j \in inflight' : j.auto => ~Same(t, j)
    BY <1>2, <1>3, <1>4, <1>8, <2>1 DEF SendInv, Final, Same
  <2> QED BY <2>1 DEF Final
<1>11. NoRowsOfDeletedHooks'
  BY <1>1, <1>3 DEF SendInv, NoRowsOfDeletedHooks, Same
<1> QED BY <1>5, <1>6, <1>7, <1>9, <1>10, <1>11 DEF SendInv

LEMMA DelayKeeps ==
  ASSUME SendInv, NEW r \in deliveries, DelayPasses(r)
  PROVE  SendInv'
<1> DEFINE new == [r EXCEPT !.due = "now"]
<1>1. /\ Waits(r)
      /\ deliveries' = (deliveries \ {r}) \cup {new}
      /\ UNCHANGED <<state, failures, nextId, inflight, fired>>
  BY DEF DelayPasses, Waits
<1>2. /\ new \in Rows /\ new.due = "now" /\ new.id = r.id /\ Same(new, r)
      /\ new.attempt = r.attempt /\ new.auto = r.auto /\ new.ok = r.ok
  BY Redated DEF SendInv, TypeOK, Same
<1> HIDE DEF new
<1>3. TypeOK'
  BY <1>1, <1>2 DEF SendInv, TypeOK
<1>4. /\ (\A q \in deliveries : AfterEvent(q))'
      /\ (\A i \in inflight : AfterEvent(i))'
      /\ Numbered'
  BY <1>1, <1>2 DEF SendInv, AfterEvent, Same, Numbered
<1>5. OnItsWayOnce'
  BY <1>1, <1>2 DEF SendInv, OnItsWayOnce, Same, Waits
<1>6. Final'
  BY <1>1, <1>2 DEF SendInv, Final, OnItsWayOnce, Same, Waits
<1>7. NoRowsOfDeletedHooks'
  BY <1>1, <1>2 DEF SendInv, NoRowsOfDeletedHooks, Same
<1> QED BY <1>3, <1>4, <1>5, <1>6, <1>7 DEF SendInv

(* A delivery by hand is none of the attempts of its event.                   *)
LEMMA ByHandKeeps ==
  ASSUME SendInv, NEW j \in Jobs, ~j.auto, AfterEvent(j), ByHand(j)
  PROVE  SendInv'
<1>1. inflight' = inflight \cup {j} /\ UNCHANGED <<state, failures, deliveries, nextId, fired>>
  BY DEF ByHand
<1>2. TypeOK'
  BY <1>1 DEF SendInv, TypeOK
<1>3. OnItsWayOnce'
  BY <1>1 DEF SendInv, OnItsWayOnce, Same, Waits
<1>4. Final' /\ Numbered' /\ NoRowsOfDeletedHooks'
  BY <1>1 DEF SendInv, Final, Numbered, NoRowsOfDeletedHooks, Same, Waits
<1>5. /\ (\A q \in deliveries : AfterEvent(q))'
      /\ (\A i \in inflight : AfterEvent(i))'
  BY <1>1 DEF SendInv, AfterEvent
<1> QED BY <1>2, <1>3, <1>4, <1>5 DEF SendInv

(* A test, or a recorded delivery of whatever outcome once more.              *)
LEMMA HandKeeps ==
  ASSUME SendInv,
         (\E h \in Hooks : TestHook(h)) \/ (\E r \in deliveries : RetryByHand(r))
  PROVE  SendInv'
<1>1. ASSUME NEW h \in Hooks, TestHook(h)
      PROVE  SendInv'
  <2> DEFINE j == [hook |-> h, event |-> Ping, attempt |-> 0, auto |-> FALSE]
  <2>1. j \in Jobs /\ ~j.auto /\ AfterEvent(j)
    BY DEF Jobs, AfterEvent
  <2> QED BY <1>1, <2>1, ByHandKeeps DEF TestHook
<1>2. ASSUME NEW r \in deliveries, RetryByHand(r)
      PROVE  SendInv'
  <2> DEFINE j == [RetryOf(r) EXCEPT !.auto = FALSE]
  <2>1. RetryOf(r) \in Jobs /\ RetryOf(r).event = r.event
    BY RetryOfRow DEF SendInv, TypeOK, Same
  <2>2. j \in Jobs /\ ~j.auto /\ j.event = r.event
    BY <2>1 DEF Jobs
  <2>3. AfterEvent(j)
    BY <2>2 DEF SendInv, AfterEvent
  <2> HIDE DEF j
  <2>4. ByHand(j)
    BY <1>2 DEF RetryByHand, j
  <2> QED BY <2>2, <2>3, <2>4, ByHandKeeps
<1> QED BY <1>1, <1>2

LEMMA StateKeeps ==
  ASSUME SendInv,
         \/ UNCHANGED vars
         \/ Crash
         \/ \E h \in Hooks : CreateHook(h) \/ ResetCircuit(h) \/ DeleteHook(h)
         \/ \E h \in Hooks, wanted \in {"enabled", "disabled"} : SetEnabled(h, wanted)
  PROVE  SendInv'
<1>1. /\ deliveries' \subseteq deliveries
      /\ inflight' \subseteq inflight
      /\ UNCHANGED <<nextId, fired>>
  BY DEF vars, Crash, CreateHook, ResetCircuit, DeleteHook, SetEnabled
<1>2. TypeOK'
  <2>1. state' \in [Hooks -> {"enabled", "disabled"} \cup NoRow]
    BY DEF SendInv, TypeOK, vars, Crash, CreateHook, ResetCircuit, DeleteHook, SetEnabled, NoRow
  <2>2. failures' \in [Hooks -> 0..MaxRetries]
    BY WebhookAssumption
       DEF SendInv, TypeOK, vars, Crash, CreateHook, ResetCircuit, DeleteHook, SetEnabled
  <2> QED BY <1>1, <2>1, <2>2 DEF SendInv, TypeOK
<1>3. /\ (\A r \in deliveries : AfterEvent(r))' /\ (\A i \in inflight : AfterEvent(i))'
      /\ Numbered' /\ OnItsWayOnce' /\ Final'
  BY <1>1 DEF SendInv, AfterEvent, Numbered, OnItsWayOnce, Final, Same, Waits
<1>4. NoRowsOfDeletedHooks'
  <2>1. CASE UNCHANGED <<state, deliveries>>
    BY <2>1 DEF SendInv, NoRowsOfDeletedHooks
  <2>2. ASSUME NEW h \in Hooks, DeleteHook(h)
        PROVE  NoRowsOfDeletedHooks'
    BY <2>2 DEF SendInv, TypeOK, NoRowsOfDeletedHooks, DeleteHook
  <2>3. ASSUME NEW h \in Hooks, NEW new \in {"enabled", "disabled"},
               state' = [state EXCEPT ![h] = new], UNCHANGED deliveries
        PROVE  NoRowsOfDeletedHooks'
    BY <2>3 DEF SendInv, TypeOK, NoRowsOfDeletedHooks, NoRow
  <2> QED BY <2>1, <2>2, <2>3 DEF vars, Crash, CreateHook, ResetCircuit, SetEnabled
<1> QED BY <1>2, <1>3, <1>4 DEF SendInv

LEMMA SendStep == SendInv /\ [Next]_vars => SendInv'
BY FireKeeps, AnsweredKeeps, TakeKeeps, DelayKeeps, HandKeeps, StateKeeps
   DEF Next, Sending, Admin

LEMMA SendInvariant == Spec => []SendInv
BY SendInit, SendStep, PTL DEF Spec

(* Every delivery, retry and administrator keeps rows and calls in their      *)
(* types, whatever order the answers come in.                                 *)
THEOREM TypeCorrect == Spec => []TypeOK
<1>1. SendInv => TypeOK
  BY DEF SendInv
<1> QED BY <1>1, SendInvariant, PTL

LEMMA CountedOnce == SendInv => OneAttemptAtATime
<1> SUFFICES ASSUME SendInv, NEW h \in Hooks, NEW e \in Events
             PROVE  /\ Cardinality(Retries(h, e)) + Cardinality(Calls(h, e)) <= 1
                    /\ \A j \in Calls(h, e) : j.attempt < MaxRetries
  BY DEF OneAttemptAtATime
<1>1. \A j \in Calls(h, e) : j.attempt < MaxRetries
  BY DEF Calls, SendInv, OnItsWayOnce
<1>2. \A r, q \in Retries(h, e) : r = q
  BY DEF Retries, SendInv, OnItsWayOnce, Waits, Same
<1>3. \A i, j \in Calls(h, e) : i = j
  BY DEF Calls, SendInv, OnItsWayOnce, Same
<1>4. Retries(h, e) = {} \/ Calls(h, e) = {}
  BY DEF Calls, Retries, SendInv, OnItsWayOnce, Waits, Same
<1>5. ASSUME NEW S, \A x, y \in S : x = y
      PROVE  (Cardinality(S) = 0 /\ S = {}) \/ Cardinality(S) = 1
  <2>1. CASE S = {}
    BY <2>1, FS_EmptySet, Zenon
  <2>2. CASE S # {}
    <3>1. PICK x \in S : S = {x}
      BY <1>5, <2>2, Zenon
    <3> QED BY <3>1, FS_Singleton, Zenon
  <2> QED BY <2>1, <2>2
<1>6. Cardinality({}) = 0
  BY FS_EmptySet
<1> HIDE DEF Retries, Calls
<1> QED BY <1>1, <1>2, <1>3, <1>4, <1>5, <1>6

(* Overlapping retry sessions, breakers and operators never send one event to *)
(* one webhook twice at a time, nor beyond its attempts.                      *)
THEOREM SentOnceAtATime == Spec => []OneAttemptAtATime
BY CountedOnce, SendInvariant, PTL

--------------------------------------------------------------------------------
(* The newest Kept of Kept + 1 rows are all but the oldest.                   *)
LEMMA OldestGoes ==
  ASSUME NEW R, IsFiniteSet(R), Cardinality(R) <= Kept + 1,
         \A r \in R : r.id \in Nat,
         \A r, q \in R : r.id = q.id => r = q,
         NEW P, P = {r \in R : Cardinality({q \in R : q.id > r.id}) < Kept}
  PROVE  \/ P = R /\ Cardinality(R) <= Kept
         \/ Cardinality(P) = Kept /\ \E old \in R : P = R \ {old} /\ \A r \in P : r.id > old.id
<1> DEFINE newer(r) == {q \in R : q.id > r.id}
<1>1. Kept \in Nat /\ Kept > 0 /\ Cardinality(R) \in Nat
  BY WebhookAssumption, FS_CardinalityType
<1>2. ASSUME NEW r \in R
      PROVE  /\ IsFiniteSet(R \ {r}) /\ Cardinality(R \ {r}) = Cardinality(R) - 1
             /\ newer(r) \in SUBSET (R \ {r})
  BY <1>2, FS_RemoveElement
<1>3. ASSUME NEW r \in R
      PROVE  Cardinality(newer(r)) \in Nat /\ Cardinality(newer(r)) <= Cardinality(R) - 1
  <2> HIDE DEF newer
  <2>1. IsFiniteSet(newer(r)) /\ Cardinality(newer(r)) <= Cardinality(R \ {r})
    BY <1>2, FS_Subset
  <2>2. Cardinality(newer(r)) \in Nat
    BY <2>1, FS_CardinalityType
  <2>3. Cardinality(R \ {r}) = Cardinality(R) - 1
    BY <1>2
  <2> QED BY <2>1, <2>2, <2>3
<1>4. CASE Cardinality(R) <= Kept
  <2>1. \A r \in R : Cardinality(newer(r)) < Kept
    BY <1>1, <1>3, <1>4
  <2> QED BY <1>4, <2>1
<1>5. CASE Cardinality(R) = Kept + 1
  <2>1. R # {}
    BY <1>1, <1>5, FS_EmptySet
  <2>2. \E n \in {r.id : r \in R} : \A m \in {r.id : r \in R} : <<m, n>> \notin OpToRel(<, Nat)
    <3>1. {r.id : r \in R} \subseteq Nat /\ {r.id : r \in R} # {}
      BY <2>1
    <3> QED BY <3>1, WFMin, NatLessThanWellFounded
  <2>3. PICK old \in R : \A r \in R : <<r.id, old.id>> \notin OpToRel(<, Nat)
    BY <2>2
  <2>4. ASSUME NEW r \in R
        PROVE  r.id >= old.id
    <3>1. r.id \in Nat /\ old.id \in Nat /\ <<r.id, old.id>> \in Nat \X Nat
      OBVIOUS
    <3>2. ~(<<r.id, old.id>>[1] < <<r.id, old.id>>[2])
      BY <2>3, <3>1, Zenon DEF OpToRel
    <3> QED BY <3>1, <3>2
  <2>5. newer(old) = R \ {old}
    BY <2>4
  <2>6. Cardinality(newer(old)) = Kept
    BY <1>1, <1>2, <1>5, <2>5, SMTT(30)
  <2>7. ASSUME NEW r \in R, r # old
        PROVE  r.id > old.id /\ Cardinality(newer(r)) < Kept
    <3>1. r.id > old.id
      BY <2>4, <2>7
    <3>2. newer(r) \in SUBSET ((R \ {r}) \ {old})
      BY <3>1
    <3>3. /\ IsFiniteSet((R \ {r}) \ {old})
          /\ Cardinality((R \ {r}) \ {old}) = Cardinality(R) - 2
      <4>1. IsFiniteSet(R \ {r}) /\ Cardinality(R \ {r}) = Cardinality(R) - 1
        BY <1>2
      <4>2. /\ IsFiniteSet((R \ {r}) \ {old})
            /\ Cardinality((R \ {r}) \ {old}) = Cardinality(R \ {r}) - 1
        BY <2>7, <4>1, FS_RemoveElement
      <4> QED BY <1>1, <4>1, <4>2
    <3> HIDE DEF newer
    <3>4. Cardinality(newer(r)) <= Cardinality(R) - 2
      BY <3>2, <3>3, FS_Subset
    <3> QED BY <1>1, <1>3, <1>5, <3>1, <3>4
  <2>8. P = R \ {old}
    BY <1>1, <2>6, <2>7
  <2>9. Cardinality(P) = Kept
    <3>1. Cardinality(R \ {old}) = Cardinality(R) - 1
      BY <1>2
    <3>2. Cardinality(R \ {old}) = Kept
      BY <1>1, <1>5, <3>1
    <3> QED BY <2>8, <3>2, Zenon
  <2> QED BY <2>7, <2>8, <2>9
<1> QED BY <1>1, <1>4, <1>5

(* Sets of rows with the same numbers are as large as each other.             *)
LEMMA CountedById ==
  ASSUME NEW S, IsFiniteSet(S), NEW T,
         \A r, q \in S : r.id = q.id => r = q,
         \A t, u \in T : t.id = u.id => t = u,
         \A r \in S : \E t \in T : t.id = r.id,
         \A t \in T : \E r \in S : t.id = r.id
  PROVE  IsFiniteSet(T) /\ Cardinality(T) = Cardinality(S)
<1> DEFINE f == [r \in S |-> CHOOSE t \in T : t.id = r.id]
<1>1. \A r \in S : f[r] \in T /\ f[r].id = r.id
  OBVIOUS
<1>2. f \in [S -> T]
  BY <1>1
<1> HIDE DEF f
<1>3. \A r, q \in S : f[r] = f[q] => r = q
  BY <1>1
<1>4. \A t \in T : \E r \in S : f[r] = t
  BY <1>1
<1>5. f \in Bijection(S, T)
  <2>1. IsInjective(f)
    BY <1>2, <1>3 DEF IsInjective
  <2> QED BY <1>2, <1>4, <2>1 DEF Bijection, Injection, Surjection
<1> QED BY <1>5, FS_Bijection DEF ExistsBijection

--------------------------------------------------------------------------------
(* The rows of a webhook, and what a full record without a success hides.     *)
Of(h) == {r \in deliveries : r.hook = h}

Success(r) == r.auto /\ r.ok

Forgot(h) == Cardinality(Of(h)) = Kept /\ ~\E r \in Of(h) : Success(r)

Recorded(h) == Forgot(h) \/ failures[h] <= Cardinality(FailuresInARow(h))

CountInv ==
  /\ IsFiniteSet(deliveries)
  /\ \A h \in Hooks : Cardinality(Of(h)) <= Kept
  /\ \A h \in Hooks : state[h] = "absent" => failures[h] = 0
  /\ \A h \in Hooks : state[h] \in NoRow \/ Recorded(h)

LEMMA CountInvMeans == CountInv => FailuresAreRecorded
<1> SUFFICES ASSUME CountInv, NEW h \in Hooks
             PROVE  \/ state[h] \in NoRow
                    \/ Cardinality({r \in deliveries : r.hook = h}) = Kept
                       /\ ~\E r \in deliveries : r.hook = h /\ r.auto /\ r.ok
                    \/ failures[h] <= Cardinality(FailuresInARow(h))
  BY DEF FailuresAreRecorded
<1>1. (\E r \in Of(h) : Success(r)) <=> (\E r \in deliveries : r.hook = h /\ r.auto /\ r.ok)
  BY DEF Of, Success
<1>2. Of(h) = {r \in deliveries : r.hook = h}
  BY DEF Of
<1> QED BY <1>1, <1>2 DEF CountInv, Recorded, Forgot

LEMMA FiniteCounts ==
  ASSUME IsFiniteSet(deliveries), NEW h
  PROVE  /\ IsFiniteSet(Of(h)) /\ Cardinality(Of(h)) \in Nat
         /\ IsFiniteSet(FailuresInARow(h)) /\ Cardinality(FailuresInARow(h)) \in Nat
<1>1. Of(h) \in SUBSET deliveries /\ FailuresInARow(h) \in SUBSET deliveries
  BY DEF Of, FailuresInARow
<1> QED BY <1>1, FS_Subset, FS_CardinalityType

LEMMA CountInit == Init => CountInv
<1> SUFFICES ASSUME Init
             PROVE  CountInv
  OBVIOUS
<1>1. \A h : Of(h) = {}
  BY DEF Init, Of
<1>2. Cardinality({}) = 0 /\ IsFiniteSet({})
  BY FS_EmptySet
<1> QED BY <1>1, <1>2, WebhookAssumption DEF Init, CountInv, NoRow

(* The rows of a webhook are as they were, or only their due dates changed.   *)
LEMMA SameRecord ==
  ASSUME CountInv, NEW h \in Hooks,
         Of(h)' = Of(h), UNCHANGED failures[h]
  PROVE  /\ Cardinality(Of(h)') <= Kept
         /\ Recorded(h) => Recorded(h)'
<1>1. FailuresInARow(h)' = FailuresInARow(h)
  <2>1. FailuresInARow(h) =
          {r \in Of(h) : r.auto /\ ~r.ok
                        /\ \A q \in Of(h) : q.auto /\ q.ok => q.id < r.id}
    BY DEF FailuresInARow, Of
  <2>2. FailuresInARow(h)' =
          {r \in Of(h)' : r.auto /\ ~r.ok
                         /\ \A q \in Of(h)' : q.auto /\ q.ok => q.id < r.id}
    BY DEF FailuresInARow, Of
  <2> QED BY <2>1, <2>2
<1> QED BY <1>1 DEF CountInv, Recorded, Forgot

LEMMA RedatedRecord ==
  ASSUME SendInv, CountInv, SendInv',
         NEW S \in SUBSET deliveries, NEW d \in {"never", "later", "now"},
         deliveries' = (deliveries \ S) \cup {[r EXCEPT !.due = d] : r \in S},
         UNCHANGED <<state, failures>>
  PROVE  CountInv'
<1> DEFINE twin(r) == IF r \in S THEN [r EXCEPT !.due = d] ELSE r
<1>1. \A t \in deliveries' : \E r \in deliveries :
        /\ t.id = r.id /\ t.hook = r.hook /\ t.auto = r.auto /\ t.ok = r.ok
  BY ClearedRows, SMTT(30) DEF SendInv, Same
<1>2. \A r \in deliveries :
        /\ twin(r) \in deliveries' /\ twin(r).id = r.id /\ twin(r).hook = r.hook
        /\ twin(r).auto = r.auto /\ twin(r).ok = r.ok
  <2> TAKE r \in deliveries
  <2>1. r \in Rows
    BY DEF SendInv, TypeOK
  <2>2. CASE r \in S
    <3>1. twin(r) = [r EXCEPT !.due = d]
      BY <2>2
    <3>2. twin(r) \in deliveries'
      BY <2>2, <3>1
    <3>3. /\ [r EXCEPT !.due = d].id = r.id /\ [r EXCEPT !.due = d].hook = r.hook
          /\ [r EXCEPT !.due = d].auto = r.auto /\ [r EXCEPT !.due = d].ok = r.ok
      BY <2>1, Redated
    <3> HIDE DEF twin
    <3> QED BY <3>1, <3>2, <3>3, Zenon
  <2>3. CASE r \notin S
    BY <2>3
  <2> QED BY <2>2, <2>3
<1> HIDE DEF twin
<1>3. \A r \in deliveries : \E t \in deliveries' :
        /\ t.id = r.id /\ t.hook = r.hook /\ t.auto = r.auto /\ t.ok = r.ok
  BY <1>2
<1>4. /\ \A r, q \in deliveries : r.id = q.id => r = q
      /\ \A t, u \in deliveries' : t.id = u.id => t = u
  BY DEF SendInv, Numbered
<1>5. IsFiniteSet(deliveries')
  <2>1. IsFiniteSet(deliveries)
    BY DEF CountInv
  <2>2. /\ \A r \in deliveries : \E t \in deliveries' : t.id = r.id
        /\ \A t \in deliveries' : \E r \in deliveries : t.id = r.id
    BY <1>1, <1>3
  <2> QED BY <1>4, <2>1, <2>2, CountedById
<1>6. ASSUME NEW h \in Hooks
      PROVE  Cardinality(Of(h)') = Cardinality(Of(h))
  <2>1. IsFiniteSet(Of(h))
    BY FiniteCounts DEF CountInv
  <2>2. /\ \A r \in Of(h) : \E t \in Of(h)' : t.id = r.id
        /\ \A t \in Of(h)' : \E r \in Of(h) : t.id = r.id
    <3>1. ASSUME NEW r \in Of(h)
          PROVE  \E t \in Of(h)' : t.id = r.id
      <4>1. r \in deliveries /\ r.hook = h
        BY DEF Of
      <4>2. PICK t \in deliveries' : t.id = r.id /\ t.hook = r.hook
        BY <1>3, <4>1
      <4>3. t \in Of(h)'
        BY <4>1, <4>2 DEF Of
      <4> QED BY <4>2, <4>3
    <3>2. ASSUME NEW t \in Of(h)'
          PROVE  \E r \in Of(h) : t.id = r.id
      BY <1>1 DEF Of
    <3> QED BY <3>1, <3>2
  <2>3. /\ \A r, q \in Of(h) : r.id = q.id => r = q
        /\ \A t, u \in Of(h)' : t.id = u.id => t = u
    BY <1>4 DEF Of
  <2> QED BY <2>1, <2>2, <2>3, CountedById
<1>7. ASSUME NEW h \in Hooks
      PROVE  Cardinality(FailuresInARow(h)') = Cardinality(FailuresInARow(h))
  <2>1. IsFiniteSet(FailuresInARow(h))
    BY FiniteCounts DEF CountInv
  <2>2. \A r \in FailuresInARow(h) : \E t \in FailuresInARow(h)' : t.id = r.id
    <3> TAKE r \in FailuresInARow(h)
    <3>1. PICK t \in deliveries' :
            t.id = r.id /\ t.hook = r.hook /\ t.auto = r.auto /\ t.ok = r.ok
      BY <1>3 DEF FailuresInARow
    <3>2. \A q \in deliveries' : q.hook = h /\ q.auto /\ q.ok => q.id < t.id
      BY <1>1, <3>1 DEF FailuresInARow
    <3>3. t \in FailuresInARow(h)'
      BY <3>1, <3>2 DEF FailuresInARow
    <3> QED BY <3>1, <3>3
  <2>3. \A t \in FailuresInARow(h)' : \E r \in FailuresInARow(h) : t.id = r.id
    <3> TAKE t \in FailuresInARow(h)'
    <3>1. PICK r \in deliveries :
            t.id = r.id /\ t.hook = r.hook /\ t.auto = r.auto /\ t.ok = r.ok
      BY <1>1 DEF FailuresInARow
    <3>2. \A q \in deliveries : q.hook = h /\ q.auto /\ q.ok => q.id < r.id
      <4> SUFFICES ASSUME NEW q \in deliveries, q.hook = h, q.auto, q.ok
                   PROVE  q.id < r.id
        OBVIOUS
      <4>1. PICK u \in deliveries' :
              u.id = q.id /\ u.hook = q.hook /\ u.auto = q.auto /\ u.ok = q.ok
        BY <1>3
      <4>2. u.id < t.id
        BY <4>1 DEF FailuresInARow
      <4> QED BY <3>1, <4>1, <4>2
    <3>3. r \in FailuresInARow(h)
      BY <3>1, <3>2 DEF FailuresInARow
    <3> QED BY <3>1, <3>3
  <2>4. /\ \A r, q \in FailuresInARow(h) : r.id = q.id => r = q
        /\ \A t, u \in FailuresInARow(h)' : t.id = u.id => t = u
    BY <1>4 DEF FailuresInARow
  <2> QED BY <2>1, <2>2, <2>3, <2>4, CountedById
<1>8. ASSUME NEW h \in Hooks, Recorded(h)
      PROVE  Recorded(h)'
  <2>1. (\E t \in Of(h)' : Success(t)) => (\E r \in Of(h) : Success(r))
    BY <1>1 DEF Of, Success
  <2>2. CASE Forgot(h)
    BY <1>6, <2>1, <2>2 DEF Forgot, Recorded
  <2>3. CASE failures[h] <= Cardinality(FailuresInARow(h))
    BY <1>7, <2>3 DEF Recorded
  <2> QED BY <1>8, <2>2, <2>3 DEF Recorded
<1> QED BY <1>5, <1>6, <1>8 DEF CountInv

(* One more delivery of webhook h is recorded and the oldest one goes.        *)
LEMMA AnsweredCounts ==
  ASSUME SendInv, CountInv, NEW j \in inflight, NEW ok \in BOOLEAN, Answered(j, ok),
         Recordable(j)
  PROVE  /\ IsFiniteSet(deliveries')
         /\ \A h \in Hooks : Cardinality(Of(h)') <= Kept
         /\ \A h \in Hooks : state[h] \notin NoRow => Recorded(h)'
<1> DEFINE new == RowOf(j, ok)
           H == j.hook
           R == Of(H) \cup {new}
<1>1. /\ deliveries' = Pruned(deliveries \cup {new}, H)
      /\ failures' = [failures EXCEPT ![H] = FailuresAfter(j, ok)]
  BY DEF Answered
<1>2. /\ H \in Hooks /\ new.hook = H /\ new.id = nextId /\ new.auto = j.auto /\ new.ok = ok
      /\ new \in Rows
  BY RowOfAnswer DEF SendInv, Same, Jobs
<1>3. \A r \in deliveries : r \in Rows /\ r.id \in Nat /\ r.id < nextId
  BY DEF SendInv, TypeOK, Numbered, Rows
<1>4. nextId \in Nat /\ new \notin deliveries
  BY <1>2, <1>3 DEF SendInv, TypeOK
<1> HIDE DEF new
<1>5. IsFiniteSet(deliveries')
  <2>1. IsFiniteSet(deliveries \cup {new})
    BY FS_AddElement DEF CountInv
  <2>2. deliveries' \in SUBSET (deliveries \cup {new})
    BY <1>1 DEF Pruned
  <2> QED BY <2>1, <2>2, FS_Subset
<1>6. ASSUME NEW h \in Hooks, h # H
      PROVE  Of(h)' = Of(h) /\ failures'[h] = failures[h]
  BY <1>1, <1>2, <1>6 DEF Of, Pruned, SendInv, TypeOK
<1>7. /\ IsFiniteSet(Of(H)) /\ Cardinality(Of(H)) \in Nat /\ Cardinality(Of(H)) <= Kept
      /\ IsFiniteSet(R) /\ Cardinality(R) = Cardinality(Of(H)) + 1
  <2>1. IsFiniteSet(Of(H)) /\ Cardinality(Of(H)) \in Nat /\ Cardinality(Of(H)) <= Kept
    BY <1>2, FiniteCounts DEF CountInv
  <2>2. new \notin Of(H)
    BY <1>4 DEF Of
  <2> QED BY <2>1, <2>2, FS_AddElement
<1>8. Of(H)' = {r \in R : Cardinality({q \in R : q.id > r.id}) < Kept}
  <2>1. \A r : {q \in deliveries \cup {new} : q.hook = H /\ q.id > r.id}
              = {q \in R : q.id > r.id}
    BY <1>2 DEF Of
  <2>2. Of(H)' = {r \in R : Cardinality({q \in deliveries \cup {new} :
                                         q.hook = H /\ q.id > r.id}) < Kept}
    BY <1>1, <1>2 DEF Of, Pruned
  <2> QED BY <2>1, <2>2
<1>9. \/ Of(H)' = R /\ Cardinality(R) <= Kept
      \/ Cardinality(Of(H)') = Kept
         /\ \E old \in R : Of(H)' = R \ {old} /\ \A r \in Of(H)' : r.id > old.id
  <2>1. Kept \in Nat
    BY WebhookAssumption
  <2>2. Cardinality(R) <= Kept + 1
    BY <1>7, <2>1
  <2>3. \A r \in R : r.id \in Nat
    BY <1>2, <1>3, <1>4 DEF Of
  <2>4. \A r, q \in R : r.id = q.id => r = q
    <3>1. \A r, q \in Of(H) : r.id = q.id => r = q
      BY DEF SendInv, Numbered, Of
    <3>2. \A r \in Of(H) : r.id # new.id
      BY <1>2, <1>3, <1>4 DEF Of
    <3> QED BY <3>1, <3>2
  <2> HIDE DEF R
  <2> QED BY <1>7, <1>8, <2>2, <2>3, <2>4, OldestGoes
<1>10. Cardinality(Of(H)') <= Kept
  BY <1>9, WebhookAssumption, SMTT(30)
<1>11. IsFiniteSet(FailuresInARow(H)') /\ Cardinality(FailuresInARow(H)') \in Nat
  <2>1. FailuresInARow(H)' \in SUBSET deliveries'
    BY DEF FailuresInARow
  <2> QED BY <1>5, <2>1, FS_Subset, FS_CardinalityType
<1>12. ASSUME state[H] \notin NoRow
       PROVE  Recorded(H)'
  <2> DEFINE F == FailuresInARow(H)
  <2>1. /\ IsFiniteSet(F) /\ Cardinality(F) \in Nat
        /\ failures[H] \in Nat /\ failures'[H] = FailuresAfter(j, ok)
    BY <1>1, <1>2, FiniteCounts DEF CountInv, SendInv, TypeOK
  <2>2. CASE j.auto /\ ok
    BY <1>11, <2>1, <2>2 DEF FailuresAfter, Recorded
  <2>3. CASE ~(j.auto /\ ok)
    <3>1. ~Success(new) /\ F \subseteq Of(H) /\ Recorded(H)
      BY <1>2, <1>12, <2>3 DEF Success, CountInv, FailuresInARow, Of
    <3>2. \/ Forgot(H)'
          \/ new \in Of(H)' /\ F \subseteq Of(H)' /\ failures[H] <= Cardinality(F)
      <4>1. CASE Of(H)' = R /\ Cardinality(R) <= Kept
        <5>1. ~Forgot(H)
          BY <1>7, <4>1, WebhookAssumption DEF Forgot
        <5> QED BY <3>1, <4>1, <5>1 DEF Recorded
      <4>2. ASSUME Cardinality(Of(H)') = Kept, NEW old \in R,
                   Of(H)' = R \ {old}, \A r \in Of(H)' : r.id > old.id,
                   NEW s \in Of(H)', Success(s)
            PROVE  new \in Of(H)' /\ F \subseteq Of(H)' /\ failures[H] <= Cardinality(F)
        <5>1. s \in Of(H) /\ s.auto /\ s.ok /\ s.id > old.id
          BY <3>1, <4>2 DEF Success
        <5>2. ~Forgot(H)
          BY <4>2, <5>1 DEF Forgot
        <5>3. new # old
          BY <1>2, <1>3, <1>4, <5>1 DEF Of
        <5>4. ASSUME NEW r \in F
              PROVE  r # old
          <6>1. s.id < r.id /\ r \in Of(H)
            BY <3>1, <5>1 DEF FailuresInARow, Of
          <6>2. r.id \in Nat /\ s.id \in Nat /\ (r = old => old.id \in Nat)
            BY <1>3, <5>1, <6>1 DEF Of
          <6> QED BY <5>1, <6>1, <6>2
        <5> QED BY <3>1, <4>2, <5>2, <5>3, <5>4 DEF Recorded
      <4>3. CASE Cardinality(Of(H)') = Kept /\ ~\E s \in Of(H)' : Success(s)
        BY <4>3 DEF Forgot, Success
      <4> QED BY <1>9, <4>1, <4>2, <4>3
    <3>3. CASE Forgot(H)'
      BY <3>3 DEF Recorded
    <3>4. CASE new \in Of(H)' /\ F \subseteq Of(H)' /\ failures[H] <= Cardinality(F)
      <4>1. \A q \in deliveries' : q.hook = H /\ q.auto /\ q.ok => q \in deliveries
        BY <1>1, <3>1 DEF Pruned, Success
      <4>2. F \subseteq FailuresInARow(H)'
        BY <3>4, <4>1 DEF FailuresInARow, Of
      <4>3. CASE ~j.auto
        <5>1. Cardinality(F) <= Cardinality(FailuresInARow(H)')
          BY <1>11, <4>2, FS_Subset
        <5> QED BY <1>11, <2>1, <3>4, <4>3, <5>1 DEF FailuresAfter, Recorded
      <4>4. CASE j.auto
        <5>1. ~ok
          BY <2>3, <4>4
        <5>2. new \in FailuresInARow(H)'
          BY <1>2, <1>3, <3>4, <4>1, <4>4, <5>1 DEF FailuresInARow, Of
        <5>3. new \notin F
          BY <1>4, <3>1 DEF Of
        <5>4. Cardinality(F \cup {new}) = Cardinality(F) + 1
          BY <2>1, <5>3, FS_AddElement
        <5>5. Cardinality(F \cup {new}) <= Cardinality(FailuresInARow(H)')
          BY <1>11, <4>2, <5>2, FS_Subset
        <5>6. FailuresAfter(j, ok) \in Nat /\ FailuresAfter(j, ok) <= failures[H] + 1
          BY <2>1, WebhookAssumption, <1>2 DEF FailuresAfter, SendInv, TypeOK
        <5> QED BY <1>11, <2>1, <3>4, <5>4, <5>5, <5>6 DEF Recorded
      <4> QED BY <4>3, <4>4
    <3> QED BY <3>2, <3>3, <3>4
  <2> QED BY <2>2, <2>3
<1>13. ASSUME NEW h \in Hooks, h # H
       PROVE  Cardinality(Of(h)') <= Kept /\ (Recorded(h) => Recorded(h)')
  BY <1>6, <1>13, SameRecord
<1> QED BY <1>2, <1>5, <1>10, <1>12, <1>13 DEF CountInv

LEMMA CountStep == SendInv /\ SendInv' /\ CountInv /\ [Next]_vars => CountInv'
<1> SUFFICES ASSUME SendInv, SendInv', CountInv, [Next]_vars
             PROVE  CountInv'
  OBVIOUS
<1>1. ASSUME UNCHANGED <<deliveries, failures>>,
             \A h \in Hooks : state'[h] = "absent" => state[h] = "absent",
             \A h \in Hooks : state'[h] \notin NoRow =>
               state[h] \notin NoRow \/ failures[h] = 0
      PROVE  CountInv'
  <2>1. \A h \in Hooks : Of(h)' = Of(h) /\ failures'[h] = failures[h]
    BY <1>1 DEF Of
  <2>2. ASSUME NEW h \in Hooks, failures[h] = 0
        PROVE  Recorded(h)
    BY <2>2, FiniteCounts DEF CountInv, Recorded
  <2>3. \A h \in Hooks : Cardinality(Of(h)') <= Kept /\ (Recorded(h) => Recorded(h)')
    BY <2>1, SameRecord
  <2> QED BY <1>1, <2>1, <2>2, <2>3 DEF CountInv
<1>2. ASSUME UNCHANGED <<deliveries, failures, state>>
      PROVE  CountInv'
  BY <1>1, <1>2
<1>3. CASE UNCHANGED vars
  BY <1>2, <1>3 DEF vars
<1>4. ASSUME NEW e \in Events, Fire(e)
      PROVE  CountInv'
  BY <1>2, <1>4 DEF Fire
<1>5. ASSUME NEW j \in inflight, NEW ok \in BOOLEAN, Answered(j, ok)
      PROVE  CountInv'
  <2>1. CASE ~Recordable(j)
    BY <1>2, <1>5, <2>1 DEF Answered
  <2>2. CASE Recordable(j)
    <3>1. /\ j.hook \in Hooks /\ state[j.hook] \notin NoRow
          /\ state' \in {state, [state EXCEPT ![j.hook] = "disabled"]}
          /\ failures' = [failures EXCEPT ![j.hook] = FailuresAfter(j, ok)]
      BY <1>5, <2>2 DEF Answered, Recordable, SendInv, TypeOK, Jobs
    <3>2. \A h \in Hooks :
            /\ state'[h] \in NoRow <=> state[h] \in NoRow
            /\ state'[h] = "absent" => state[h] = "absent" /\ failures'[h] = failures[h]
      BY <3>1 DEF SendInv, TypeOK, NoRow
    <3>3. \A h \in Hooks : state[h] \notin NoRow => Recorded(h)'
      BY <1>5, <2>2, AnsweredCounts
    <3> QED BY <1>5, <2>2, <3>2, <3>3, AnsweredCounts DEF CountInv
  <2> QED BY <2>1, <2>2
<1>6. CASE TakeRetries
  <2>1. PICK S \in SUBSET DueRows : deliveries' = Cleared(S) /\ UNCHANGED <<state, failures>>
    BY <1>6 DEF TakeRetries
  <2>2. S \in SUBSET deliveries
    BY DEF DueRows
  <2> QED BY <2>1, <2>2, RedatedRecord DEF Cleared
<1>7. ASSUME NEW r \in deliveries, DelayPasses(r)
      PROVE  CountInv'
  <2>1. /\ deliveries' = (deliveries \ {r}) \cup {[q EXCEPT !.due = "now"] : q \in {r}}
        /\ UNCHANGED <<state, failures>>
    BY <1>7 DEF DelayPasses
  <2> QED BY <2>1, RedatedRecord
<1>8. ASSUME \/ \E h \in Hooks : TestHook(h)
             \/ \E r \in deliveries : RetryByHand(r)
             \/ Crash
      PROVE  CountInv'
  BY <1>2, <1>8 DEF TestHook, RetryByHand, ByHand, Crash
<1>9. ASSUME NEW h \in Hooks, CreateHook(h)
      PROVE  CountInv'
  <2>1. /\ UNCHANGED <<deliveries, failures>> /\ state[h] = "absent" /\ failures[h] = 0
        /\ state' = [state EXCEPT ![h] = "enabled"]
    BY <1>9 DEF CreateHook, CountInv
  <2> QED BY <1>1, <2>1 DEF SendInv, TypeOK
<1>10. ASSUME NEW h \in Hooks, NEW wanted \in {"enabled", "disabled"}, SetEnabled(h, wanted)
       PROVE  CountInv'
  BY <1>1, <1>10 DEF SetEnabled, SendInv, TypeOK, NoRow
<1>11. ASSUME NEW h \in Hooks, ResetCircuit(h)
       PROVE  CountInv'
  <2>1. /\ state[h] \notin NoRow /\ state' = [state EXCEPT ![h] = "enabled"]
        /\ failures' = [failures EXCEPT ![h] = 0] /\ UNCHANGED deliveries
    BY <1>11 DEF ResetCircuit
  <2>2. \A g \in Hooks : Of(g)' = Of(g) /\ FailuresInARow(g)' = FailuresInARow(g)
    BY <2>1 DEF Of, FailuresInARow
  <2>3. ASSUME NEW g \in Hooks
        PROVE  Cardinality(FailuresInARow(g)') \in Nat
    BY <2>2, FiniteCounts DEF CountInv
  <2>4. ASSUME NEW g \in Hooks
        PROVE  failures'[g] \in {0, failures[g]} /\ (g = h => failures'[g] = 0)
    BY <2>1 DEF SendInv, TypeOK
  <2>5. ASSUME NEW g \in Hooks, state[g] \notin NoRow
        PROVE  Recorded(g)'
    <3>1. Forgot(g) => Forgot(g)'
      BY <2>2 DEF Forgot
    <3>2. failures[g] <= Cardinality(FailuresInARow(g))
            => failures'[g] <= Cardinality(FailuresInARow(g)')
      BY <2>2, <2>3, <2>4
    <3> QED BY <2>5, <3>1, <3>2 DEF CountInv, Recorded
  <2>6. \A g \in Hooks : /\ state'[g] \in NoRow <=> state[g] \in NoRow
                         /\ state'[g] = "absent" => state[g] = "absent"
    BY <2>1 DEF SendInv, TypeOK, NoRow
  <2> QED BY <2>1, <2>2, <2>4, <2>5, <2>6 DEF CountInv
<1>12. ASSUME NEW h \in Hooks, DeleteHook(h)
       PROVE  CountInv'
  <2>1. /\ state' = [state EXCEPT ![h] = "deleted"] /\ UNCHANGED failures
        /\ deliveries' = {r \in deliveries : r.hook # h}
    BY <1>12 DEF DeleteHook
  <2>2. ASSUME NEW g \in Hooks, g # h
        PROVE  Cardinality(Of(g)') <= Kept /\ (Recorded(g) => Recorded(g)')
    <3>1. Of(g)' = Of(g)
      BY <2>1, <2>2 DEF Of
    <3> QED BY <2>1, <3>1, SameRecord
  <2>3. Of(h)' = {}
    BY <2>1 DEF Of
  <2>4. Cardinality(Of(h)') <= Kept
    BY <2>3, FS_EmptySet, WebhookAssumption
  <2>5. IsFiniteSet(deliveries')
    <3>1. deliveries' \in SUBSET deliveries
      BY <2>1
    <3> QED BY <3>1, FS_Subset DEF CountInv
  <2>6. \A g \in Hooks : IF g = h THEN state'[g] = "deleted" ELSE state'[g] = state[g]
    BY <2>1 DEF SendInv, TypeOK
  <2> QED BY <2>1, <2>2, <2>4, <2>5, <2>6 DEF CountInv, NoRow
<1> QED
  BY <1>3, <1>4, <1>5, <1>6, <1>7, <1>8, <1>9, <1>10, <1>11, <1>12 DEF Next, Sending, Admin

(* Successes are final, the failures counted against a webhook are in its     *)
(* record as far as that goes back, and deleted webhooks leave no rows.       *)
THEOREM RecordTellsTruth == Spec => []RecordIsTrue
<1>1. CountInv => FailuresAreRecorded
  BY CountInvMeans
<1>2. SendInv => SuccessIsFinal /\ NoRowsOfDeletedHooks
  BY DEF SendInv, Final, SuccessIsFinal, Underway, Retries, Calls, Waits, Same
<1> QED BY <1>1, <1>2, CountInit, CountStep, SendInvariant, PTL DEF Spec, RecordIsTrue
--------------------------------------------------------------------------------
(* The connection of the browser.                                             *)
SocketKinds ==
  [is : {"connecting", "open", "closing", "gone"}, url : G!Urls,
   step : {"waiting", "signing", "asked", "accepted"}, silent : BOOLEAN]

(* Only the current socket is connecting or open, and it is not finished.     *)
OnlyCurrent ==
  /\ \A s \in G!Sockets : G!Is(s, {"connecting", "open"}) => s = current
  /\ current # G!None => ~G!Is(current, {"gone"})
  /\ \A s \in G!Sockets : G!Is(s, {"connecting"}) => socket[s].step = "waiting"

(* Before the first connection there is nothing to connect again to.          *)
Known ==
  \/ url \in G!Urls
  \/ /\ timer # G!Latest /\ G!Latest \notin strays
     /\ \A s \in G!Sockets : G!Is(s, {"gone"})

SocketInv == G!TypeOK /\ OnlyCurrent /\ Known /\ G!ShownAsItIs

LEMMA SameCardinality == \A some : G!Cardinality(some) = Cardinality(some)
BY DEF G!Cardinality, Cardinality, G!IsFiniteSet, IsFiniteSet

LEMMA SocketBounds ==
  /\ MaxSockets \in Nat /\ MaxAttempts \in Nat /\ MaxMissed \in Nat /\ MaxPresses \in Nat
  /\ G!Sockets \subseteq Nat \ {0} /\ G!None = 0
  /\ Root \in G!Urls
  /\ \A i \in DOMAIN Paths : Paths[i] \in G!Urls /\ Paths[i] \in G!ToSet(Paths)
BY BoundsAreNumbers DEF G!Sockets, G!None, G!Urls, G!ToSet

LEMMA SocketTypes ==
  G!TypeOK <=>
    /\ socket \in [G!Sockets -> SocketKinds]
    /\ current \in G!Sockets \cup {G!None}
    /\ url \in G!Urls \cup {"none"}
    /\ handshake \in BOOLEAN /\ shown \in BOOLEAN /\ heartbeat \in BOOLEAN /\ pings \in BOOLEAN
    /\ manual \in BOOLEAN /\ blocked \in BOOLEAN /\ tokenOnly \in BOOLEAN
    /\ overtaken \in BOOLEAN
    /\ missed \in 0..MaxMissed
    /\ attempts \in 0..MaxAttempts
    /\ tried \subseteq G!ToSet(Paths)
    /\ timer \in G!Urls \cup {G!Latest, "none"} /\ strays \subseteq G!Urls \cup {G!Latest}
    /\ presses \in 0..MaxPresses
BY DEF G!TypeOK, SocketKinds

LEMMA SocketInit == G!Init => SocketInv
<1> SUFFICES ASSUME G!Init PROVE SocketInv
  OBVIOUS
<1>1. G!Gone \in SocketKinds
  BY SocketBounds DEF G!Gone, SocketKinds
<1>2. G!TypeOK
  <2>1. socket \in [G!Sockets -> SocketKinds]
    BY <1>1 DEF G!Init
  <2>2. /\ 0 \in 0..MaxMissed /\ 0 \in 0..MaxAttempts /\ 0 \in 0..MaxPresses
        /\ {} \subseteq G!ToSet(Paths) /\ {} \subseteq G!Urls \cup {G!Latest}
    BY SocketBounds
  <2>3. /\ handshake \in BOOLEAN /\ shown \in BOOLEAN /\ heartbeat \in BOOLEAN /\ pings \in BOOLEAN
        /\ manual \in BOOLEAN /\ blocked \in BOOLEAN /\ tokenOnly \in BOOLEAN
        /\ overtaken \in BOOLEAN
    BY DEF G!Init
  <2>4. /\ current \in G!Sockets \cup {G!None} /\ url \in G!Urls \cup {"none"}
        /\ missed \in 0..MaxMissed /\ attempts \in 0..MaxAttempts /\ presses \in 0..MaxPresses
        /\ tried \subseteq G!ToSet(Paths) /\ timer \in G!Urls \cup {G!Latest, "none"}
        /\ strays \subseteq G!Urls \cup {G!Latest}
    BY <2>2 DEF G!Init
  <2> QED BY <2>1, <2>3, <2>4, SocketTypes
<1>3. \A s \in G!Sockets : socket[s].is = "gone"
  BY DEF G!Init, G!Gone
<1>4. OnlyCurrent /\ Known /\ G!ShownAsItIs
  BY <1>3 DEF G!Init, OnlyCurrent, Known, G!ShownAsItIs, G!Is, G!Latest
<1> QED BY <1>2, <1>4 DEF SocketInv

(* One socket changes, and stays of its kind.                                 *)
LEMMA SocketMarked ==
  ASSUME NEW q \in SocketKinds, NEW is \in {"connecting", "open", "closing", "gone"}
  PROVE  /\ [q EXCEPT !.is = is] \in SocketKinds
         /\ [q EXCEPT !.is = is].step = q.step /\ [q EXCEPT !.is = is].is = is
BY DEF SocketKinds

LEMMA SocketStepped ==
  ASSUME NEW q \in SocketKinds, NEW step \in {"waiting", "signing", "asked", "accepted"}
  PROVE  /\ [q EXCEPT !.step = step] \in SocketKinds
         /\ [q EXCEPT !.step = step].is = q.is /\ [q EXCEPT !.step = step].step = step
BY DEF SocketKinds

LEMMA SocketSilenced ==
  ASSUME NEW q \in SocketKinds
  PROVE  /\ [q EXCEPT !.silent = TRUE] \in SocketKinds
         /\ [q EXCEPT !.silent = TRUE].is = q.is /\ [q EXCEPT !.silent = TRUE].step = q.step
BY DEF SocketKinds

LEMMA SocketGone == G!Gone \in SocketKinds /\ G!Gone.is = "gone"
BY SocketBounds DEF SocketKinds, G!Gone

LEMMA SocketNew ==
  ASSUME NEW to \in G!Urls
  PROVE  /\ [G!Gone EXCEPT !.is = "connecting", !.url = to] \in SocketKinds
         /\ [G!Gone EXCEPT !.is = "connecting", !.url = to].is = "connecting"
         /\ [G!Gone EXCEPT !.is = "connecting", !.url = to].step = "waiting"
BY DEF SocketKinds, G!Gone

(* connect, by whoever asks for it.                                           *)
LEMMA Connecting ==
  ASSUME SocketInv, NEW to \in G!Urls, G!connect(to),
         timer' \in {timer, "none"}, strays' \subseteq strays, presses' \in 0..MaxPresses
  PROVE  SocketInv'
<1>1. CASE UNCHANGED <<G!state, attempts, manual, blocked, tokenOnly, tried, overtaken>>
  <2>1. G!TypeOK'
    BY <1>1, SocketTypes DEF SocketInv, G!TypeOK, G!state
  <2>2. OnlyCurrent' /\ Known' /\ G!ShownAsItIs'
    BY <1>1 DEF SocketInv, OnlyCurrent, Known, G!ShownAsItIs, G!Is, G!state, G!Latest
  <2> QED BY <2>1, <2>2 DEF SocketInv
<1>2. ASSUME ~G!Busy, NEW s \in G!Sockets, G!Is(s, {"gone"}),
             socket' = [socket EXCEPT ![s] = [G!Gone EXCEPT !.is = "connecting", !.url = to]],
             current' = s, url' = to, tried' = IF url = to THEN tried ELSE {},
             handshake' = FALSE, manual' = FALSE, blocked' = FALSE, overtaken' = FALSE,
             UNCHANGED <<shown, heartbeat, missed, pings, attempts, tokenOnly>>
      PROVE  SocketInv'
  <2> DEFINE new == [G!Gone EXCEPT !.is = "connecting", !.url = to]
  <2>1. new \in SocketKinds /\ new.is = "connecting" /\ new.step = "waiting"
    BY SocketNew
  <2> HIDE DEF new
  <2>2. /\ socket \in [G!Sockets -> SocketKinds]
        /\ socket'[s] = new
        /\ \A o \in G!Sockets \ {s} : socket'[o] = socket[o]
    BY <1>2, SocketTypes DEF SocketInv, new
  <2>3. socket' \in [G!Sockets -> SocketKinds]
    BY <1>2, <2>1, <2>2 DEF new
  <2>4. G!TypeOK'
    <3>1. tried' \subseteq G!ToSet(Paths) /\ timer' \in G!Urls \cup {G!Latest, "none"}
      BY <1>2, SocketTypes DEF SocketInv
    <3>2. strays' \subseteq G!Urls \cup {G!Latest}
      BY SocketTypes DEF SocketInv
    <3>3. UNCHANGED <<shown, heartbeat, missed, pings, attempts, tokenOnly>> => 
            /\ shown' \in BOOLEAN /\ heartbeat' \in BOOLEAN /\ pings' \in BOOLEAN
            /\ tokenOnly' \in BOOLEAN /\ missed' \in 0..MaxMissed /\ attempts' \in 0..MaxAttempts
      BY SocketTypes DEF SocketInv
    <3>4. current' \in G!Sockets \cup {G!None} /\ url' \in G!Urls \cup {"none"}
      BY <1>2
    <3>5. /\ handshake' \in BOOLEAN /\ manual' \in BOOLEAN /\ blocked' \in BOOLEAN
          /\ overtaken' \in BOOLEAN
      BY <1>2
    <3> QED BY <1>2, <2>3, <3>1, <3>2, <3>3, <3>4, <3>5 DEF G!TypeOK, SocketKinds
  <2>5. current \in G!Sockets \cup {G!None}
    BY SocketTypes DEF SocketInv
  <2>6. \A o \in G!Sockets \ {s} : ~G!Is(o, {"connecting", "open"})
    BY <1>2, <2>5, SocketBounds DEF SocketInv, OnlyCurrent, G!Busy, G!Is
  <2>7. OnlyCurrent'
    BY <1>2, <2>1, <2>2, <2>6 DEF OnlyCurrent, G!Is
  <2>8. current \in G!Sockets => current # s /\ socket[current].is = "closing"
    BY <1>2, <2>2, <2>5, SocketBounds DEF SocketInv, OnlyCurrent, G!Busy, G!Is, SocketKinds
  <2>9. shown => \E o \in G!Sockets \ {s} : socket[o].is = "closing"
    BY <1>2, <2>5, <2>8, SocketBounds DEF SocketInv, G!ShownAsItIs, G!Is
  <2>10. G!ShownAsItIs'
    BY <1>2, <2>1, <2>2, <2>9 DEF G!ShownAsItIs, G!Is
  <2>11. Known'
    BY <1>2 DEF Known
  <2> QED BY <2>4, <2>7, <2>10, <2>11 DEF SocketInv
<1> QED BY <1>1, <1>2, Zenon DEF G!connect

LEMMA GoalIsUrl ==
  ASSUME SocketInv, NEW which \in G!Urls \cup {G!Latest}, which = timer \/ which \in strays
  PROVE  G!Goal(which) \in G!Urls
BY DEF SocketInv, Known, G!Goal

(* One socket s changes, which was connecting or open: what is left to show.  *)
Changes(s) ==
  /\ socket' \in [G!Sockets -> SocketKinds]
  /\ \A o \in G!Sockets \ {s} : socket'[o] = socket[o]
  /\ socket[s].is \in {"connecting", "open"}
  /\ socket'[s].is # "gone"
  /\ socket'[s].is = "connecting" => socket'[s].step = "waiting"
  /\ UNCHANGED <<current, url, timer, strays, tried, presses, overtaken, manual>>

Flags ==
  /\ handshake \in BOOLEAN /\ shown \in BOOLEAN /\ heartbeat \in BOOLEAN /\ pings \in BOOLEAN
  /\ blocked \in BOOLEAN /\ tokenOnly \in BOOLEAN
  /\ missed \in 0..MaxMissed /\ attempts \in 0..MaxAttempts

LEMMA FlagsNow == SocketInv => Flags
BY SocketTypes DEF SocketInv, Flags

LEMMA Changing ==
  ASSUME SocketInv, NEW s \in G!Sockets, Changes(s), Flags', G!ShownAsItIs'
  PROVE  SocketInv'
<1>1. G!TypeOK'
  <2>1. /\ current' \in G!Sockets \cup {G!None} /\ url' \in G!Urls \cup {"none"}
        /\ tried' \subseteq G!ToSet(Paths) /\ timer' \in G!Urls \cup {G!Latest, "none"}
        /\ strays' \subseteq G!Urls \cup {G!Latest} /\ presses' \in 0..MaxPresses
    BY SocketTypes DEF SocketInv, Changes
  <2>2. overtaken' \in BOOLEAN /\ manual' \in BOOLEAN
    BY SocketTypes DEF SocketInv, Changes
  <2> QED BY <2>1, <2>2 DEF Flags, Changes, G!TypeOK, SocketKinds
<1>2. OnlyCurrent'
  BY SocketBounds DEF SocketInv, OnlyCurrent, Changes, G!Is
<1>3. Known'
  BY DEF SocketInv, Known, Changes, G!Is
<1> QED BY <1>1, <1>2, <1>3 DEF SocketInv

LEMMA Handled ==
  ASSUME SocketInv, NEW s \in G!Sockets,
         G!Opens(s) \/ G!Challenge(s) \/ G!Signed(s) \/ G!Accepted(s) \/ G!DeviceRefused(s)
         \/ G!Blocked(s) \/ G!Pong(s) \/ G!FallsSilent(s)
  PROVE  SocketInv'
<1> DEFINE q == socket[s]
<1>0. socket \in [G!Sockets -> SocketKinds] /\ q \in SocketKinds
  BY SocketTypes DEF SocketInv
<1>1. s = current
  BY DEF SocketInv, OnlyCurrent, G!Is, G!Opens, G!Challenge, G!Signed, G!Accepted,
     G!DeviceRefused, G!Blocked, G!Pong, G!FallsSilent, G!Fails, G!Hears
<1>2. current # G!None
  BY <1>1, SocketBounds
<1>3. CASE G!Opens(s)
  <2>1. Changes(s) /\ socket'[s].step = "waiting"
    <3>1. q.is = "connecting" /\ q.step = "waiting" /\ socket'[s] = [q EXCEPT !.is = "open"]
      BY <1>0, <1>3 DEF G!Opens, G!Is, SocketInv, OnlyCurrent
    <3>2. /\ [q EXCEPT !.is = "open"] \in SocketKinds /\ [q EXCEPT !.is = "open"].is = "open"
          /\ [q EXCEPT !.is = "open"].step = q.step
      BY <1>0, SocketMarked
    <3> QED BY <1>0, <1>3, <3>1, <3>2 DEF G!Opens, Changes
  <2>2. Flags'
    BY <1>3, FlagsNow DEF G!Opens, Flags, G!AttemptsWhenOpen
  <2>3. G!ShownAsItIs'
    BY <1>0, <1>1, <1>2, <1>3, <2>1 DEF G!Opens, G!ShownAsItIs, G!Is, SocketInv, OnlyCurrent, Changes
  <2> QED BY <2>1, <2>2, <2>3, Changing
<1>4. CASE G!Challenge(s)
  <2>1. Changes(s) /\ socket'[s].is = "open" /\ socket'[s].step = "signing" /\ q.step = "waiting"
    BY <1>0, <1>4, SocketStepped DEF G!Challenge, G!Hears, G!Step, Changes, G!Is, G!control
  <2>2. Flags' /\ UNCHANGED <<handshake, shown, heartbeat>>
    BY <1>4, FlagsNow DEF G!Challenge, G!Step, Flags, G!control
  <2>3. G!ShownAsItIs'
    BY <1>1, <1>2, <2>1, <2>2 DEF G!ShownAsItIs, G!Is, SocketInv, Changes
  <2> QED BY <2>1, <2>2, <2>3, Changing
<1>5. CASE G!Signed(s)
  <2>1. Changes(s) /\ socket'[s].is = "open" /\ socket'[s].step = "asked" /\ q.step = "signing"
    BY <1>0, <1>5, SocketStepped DEF G!Signed, G!Step, Changes, G!Is, G!control
  <2>2. Flags' /\ UNCHANGED <<handshake, shown, heartbeat>>
    BY <1>5, FlagsNow DEF G!Signed, G!Step, Flags, G!control
  <2>3. G!ShownAsItIs'
    BY <1>1, <1>2, <2>1, <2>2 DEF G!ShownAsItIs, G!Is, SocketInv, Changes
  <2> QED BY <2>1, <2>2, <2>3, Changing
<1>6. CASE G!Accepted(s)
  <2>1. Changes(s) /\ socket'[s].is = "open" /\ socket'[s].step = "accepted"
    BY <1>0, <1>6, SocketStepped DEF G!Accepted, G!Hears, Changes, G!Is
  <2>2. Flags' /\ handshake' /\ shown' /\ heartbeat'
    BY <1>6, FlagsNow, SocketBounds DEF G!Accepted, Flags
  <2>3. G!ShownAsItIs'
    BY <1>1, <1>2, <2>1, <2>2 DEF G!ShownAsItIs, G!Is, SocketInv, Changes
  <2> QED BY <2>1, <2>2, <2>3, Changing
<1>7. CASE G!DeviceRefused(s) \/ G!Blocked(s)
  <2>1. Changes(s) /\ socket'[s].is = "closing" /\ socket'[s].step = q.step
    <3>1. /\ socket' = [socket EXCEPT ![s].is = "closing"] /\ q.is = "open"
          /\ UNCHANGED <<current, url, timer, strays, tried, presses, overtaken, manual>>
      BY <1>7 DEF G!DeviceRefused, G!Blocked, G!Close, G!Fails, G!Hears, G!Is
    <3>2. socket'[s] = [q EXCEPT !.is = "closing"]
      BY <1>0, <3>1
    <3>3. [q EXCEPT !.is = "closing"] \in SocketKinds /\ [q EXCEPT !.is = "closing"].is = "closing"
          /\ [q EXCEPT !.is = "closing"].step = q.step
      BY <1>0, SocketMarked
    <3> QED BY <1>0, <3>1, <3>2, <3>3 DEF Changes
  <2>2. Flags' /\ UNCHANGED <<handshake, shown>>
    <3>1. /\ heartbeat' = FALSE /\ missed' = 0
          /\ UNCHANGED <<handshake, shown, pings, attempts>>
          /\ blocked' = blocked \/ blocked' = TRUE
          /\ tokenOnly' = tokenOnly \/ tokenOnly' = TRUE
      BY <1>7 DEF G!DeviceRefused, G!Blocked, G!stopHeartbeat
    <3>2. missed' \in 0..MaxMissed /\ attempts' \in 0..MaxAttempts
      BY <3>1, FlagsNow, SocketBounds DEF Flags
    <3> QED BY <3>1, <3>2, FlagsNow, Zenon DEF Flags
  <2>3. G!ShownAsItIs'
    BY <1>1, <1>2, <2>1, <2>2 DEF G!ShownAsItIs, G!Is, SocketInv, Changes
  <2> QED BY <2>1, <2>2, <2>3, Changing
<1>8. CASE G!Pong(s)
  <2>1. Changes(s) /\ UNCHANGED socket
    BY <1>0, <1>8 DEF G!Pong, G!Hears, Changes, G!Is, G!control
  <2>2. Flags' /\ UNCHANGED <<handshake, shown, heartbeat>>
    <3>1. /\ missed' = 0 /\ (pings' = pings \/ pings' = FALSE)
          /\ UNCHANGED <<handshake, shown, heartbeat, blocked, tokenOnly, attempts>>
      BY <1>8 DEF G!Pong, G!control
    <3>2. missed' \in 0..MaxMissed /\ attempts' \in 0..MaxAttempts
      BY <3>1, FlagsNow, SocketBounds DEF Flags
    <3> QED BY <3>1, <3>2, FlagsNow, Zenon DEF Flags
  <2>3. G!ShownAsItIs'
    BY <1>1, <1>2, <2>1, <2>2 DEF G!ShownAsItIs, G!Is, SocketInv, Changes
  <2> QED BY <2>1, <2>2, <2>3, Changing
<1>9. CASE G!FallsSilent(s)
  <2>1. Changes(s) /\ socket'[s].is = q.is /\ socket'[s].step = q.step
    BY <1>0, <1>9, SocketSilenced DEF G!FallsSilent, Changes, G!Is, G!control
  <2>2. Flags' /\ UNCHANGED <<handshake, shown, heartbeat>>
    BY <1>9, FlagsNow DEF G!FallsSilent, Flags, G!control
  <2>3. G!ShownAsItIs'
    BY <1>1, <1>2, <2>1, <2>2 DEF G!ShownAsItIs, G!Is, SocketInv, Changes
  <2> QED BY <2>1, <2>2, <2>3, Changing
<1> QED BY <1>3, <1>4, <1>5, <1>6, <1>7, <1>8, <1>9

LEMMA Ticking ==
  ASSUME SocketInv, G!HeartbeatTick
  PROVE  SocketInv'
<1> DEFINE s == current
           q == socket[s]
<1>0. /\ s \in G!Sockets /\ s # G!None /\ q.is = "open"
      /\ socket \in [G!Sockets -> SocketKinds] /\ q \in SocketKinds
  BY SocketTypes DEF SocketInv, G!HeartbeatTick, G!Beats, G!Is
<1>1. UNCHANGED <<current, url, handshake, shown, heartbeat, pings, G!control, presses, overtaken>>
  BY DEF G!HeartbeatTick
<1>2. CASE missed >= MaxMissed
  <2>1. Changes(s) /\ socket'[s].is = "closing" /\ socket'[s].step = q.step
    <3>1. socket' = [socket EXCEPT ![s].is = "closing"]
      BY <1>2 DEF G!HeartbeatTick, G!Close
    <3>2. socket'[s] = [q EXCEPT !.is = "closing"]
      BY <1>0, <3>1
    <3>3. [q EXCEPT !.is = "closing"] \in SocketKinds /\ [q EXCEPT !.is = "closing"].is = "closing"
          /\ [q EXCEPT !.is = "closing"].step = q.step
      BY <1>0, SocketMarked
    <3> QED BY <1>0, <1>1, <3>1, <3>2, <3>3 DEF Changes, G!control
  <2>2. Flags'
    BY <1>1, <1>2, FlagsNow DEF G!HeartbeatTick, Flags, G!control
  <2>3. G!ShownAsItIs'
    BY <1>0, <1>1, <2>1 DEF G!ShownAsItIs, G!Is, SocketInv, Changes
  <2> QED BY <1>0, <2>1, <2>2, <2>3, Changing
<1>3. CASE ~(missed >= MaxMissed)
  <2>1. Changes(s) /\ UNCHANGED socket
    BY <1>0, <1>1, <1>3 DEF G!HeartbeatTick, Changes, G!control
  <2>2. missed' \in 0..MaxMissed
    BY <1>3, FlagsNow, SocketBounds DEF G!HeartbeatTick, Flags, G!Counted
  <2>3. Flags'
    BY <1>1, <2>2, FlagsNow DEF Flags, G!control
  <2>4. G!ShownAsItIs'
    BY <1>0, <1>1, <2>1 DEF G!ShownAsItIs, G!Is, SocketInv, Changes
  <2> QED BY <1>0, <2>1, <2>3, <2>4, Changing
<1> QED BY <1>2, <1>3

(* The end of a socket, and the buttons.                                      *)
LEMMA Ending ==
  ASSUME SocketInv, NEW s \in G!Sockets, G!OnClose(s)
  PROVE  SocketInv'
<1>0. /\ socket \in [G!Sockets -> SocketKinds] /\ socket[s].is # "gone"
      /\ url \in G!Urls
      /\ socket' = [socket EXCEPT ![s] = G!Gone]
  BY SocketTypes DEF SocketInv, Known, G!OnClose, G!Is
<1>1. socket' \in [G!Sockets -> SocketKinds] /\ socket'[s].is = "gone"
      /\ \A o \in G!Sockets \ {s} : socket'[o] = socket[o]
  BY <1>0, SocketGone
<1>2. current \in G!Sockets \cup {G!None} /\ current' = IF current = s THEN G!None ELSE current
  BY SocketTypes DEF SocketInv, G!OnClose
<1>3. OnlyCurrent'
  BY <1>1, <1>2, SocketBounds DEF SocketInv, OnlyCurrent, G!Is
<1>4. /\ url' \in G!Urls /\ tried' \subseteq G!ToSet(Paths) /\ attempts' \in 0..MaxAttempts
      /\ timer' \in G!Urls \cup {G!Latest, "none"} /\ strays' \subseteq G!Urls \cup {G!Latest}
  <2>1. /\ tried \subseteq G!ToSet(Paths) /\ attempts \in 0..MaxAttempts
        /\ timer \in G!Urls \cup {G!Latest, "none"} /\ strays \subseteq G!Urls \cup {G!Latest}
    BY SocketTypes DEF SocketInv
  <2>2. G!AfterClose(s)
    BY DEF G!OnClose
  <2>3. \/ UNCHANGED <<url, tried, timer, strays, attempts>>
        \/ \E first \in DOMAIN Paths :
             /\ tried' = tried \cup {Paths[first]} /\ url' = Paths[first]
             /\ G!Schedule(Paths[first]) /\ UNCHANGED attempts
        \/ /\ G!MayTryAgain /\ attempts' = attempts + 1
           /\ G!Schedule(G!Latest) /\ UNCHANGED <<url, tried>>
    BY <2>2 DEF G!AfterClose, G!Untried
  <2>4. CASE UNCHANGED <<url, tried, timer, strays, attempts>>
    BY <1>0, <2>1, <2>4
  <2>5. ASSUME NEW first \in DOMAIN Paths,
               tried' = tried \cup {Paths[first]}, url' = Paths[first],
               G!Schedule(Paths[first]), UNCHANGED attempts
        PROVE  /\ url' \in G!Urls /\ tried' \subseteq G!ToSet(Paths) /\ attempts' \in 0..MaxAttempts
               /\ timer' \in G!Urls \cup {G!Latest, "none"}
               /\ strays' \subseteq G!Urls \cup {G!Latest}
    BY <2>1, <2>5, SocketBounds DEF G!Schedule
  <2>6. CASE /\ G!MayTryAgain /\ attempts' = attempts + 1
             /\ G!Schedule(G!Latest) /\ UNCHANGED <<url, tried>>
    BY <1>0, <2>1, <2>6, SocketBounds DEF G!Schedule, G!MayTryAgain
  <2> QED BY <2>3, <2>4, <2>5, <2>6
<1>5. G!TypeOK'
  <2>1. /\ handshake' = FALSE /\ shown' = FALSE /\ heartbeat' = FALSE /\ missed' = 0
        /\ UNCHANGED <<pings, manual, blocked, tokenOnly, presses>>
        /\ overtaken' = overtaken \/ overtaken' = TRUE
    <3>1. overtaken' = (overtaken \/ (current \notin {s, G!None})) /\ overtaken \in BOOLEAN
      BY SocketTypes, Zenon DEF SocketInv, G!OnClose
    <3>2. overtaken' = overtaken \/ overtaken' = TRUE
      BY <3>1
    <3> QED BY <3>2 DEF G!OnClose, G!stopHeartbeat
  <2>2. Flags' /\ manual' \in BOOLEAN /\ overtaken' \in BOOLEAN /\ presses' \in 0..MaxPresses
    <3>1. missed' \in 0..MaxMissed /\ presses' \in 0..MaxPresses
      BY <2>1, SocketTypes, SocketBounds DEF SocketInv
    <3>2. /\ handshake' \in BOOLEAN /\ shown' \in BOOLEAN /\ heartbeat' \in BOOLEAN
          /\ overtaken \in BOOLEAN /\ manual \in BOOLEAN
      BY <2>1, SocketTypes DEF SocketInv
    <3> QED BY <1>4, <2>1, <3>1, <3>2, FlagsNow, Zenon DEF Flags
  <2>3. current' \in G!Sockets \cup {G!None}
    BY <1>2
  <2> QED BY <1>1, <1>4, <2>2, <2>3 DEF G!TypeOK, Flags, SocketKinds
<1>6. Known'
  BY <1>4 DEF Known
<1>7. G!ShownAsItIs'
  <2>1. ~shown' /\ overtaken' = (overtaken \/ (current \notin {s, G!None}))
    BY DEF G!OnClose
  <2>2. CASE current = s \/ current = G!None
    BY <1>2, <2>1, <2>2 DEF G!ShownAsItIs
  <2>3. CASE current \notin {s, G!None}
    BY <2>1, <2>3 DEF G!ShownAsItIs
  <2> QED BY <2>2, <2>3
<1> QED BY <1>3, <1>5, <1>6, <1>7 DEF SocketInv

LEMMA Disconnecting ==
  ASSUME SocketInv, G!Press, G!disconnect,
         strays' = strays \/ (url # "none" /\ strays' = strays \cup {G!Latest})
  PROVE  SocketInv'
<1>0. socket \in [G!Sockets -> SocketKinds] /\ current \in G!Sockets \cup {G!None}
  BY SocketTypes DEF SocketInv
<1>1. /\ current' = G!None /\ ~shown' /\ timer' = "none" /\ UNCHANGED url
      /\ handshake' = FALSE /\ shown' = FALSE /\ heartbeat' = FALSE /\ missed' = 0
      /\ manual' = TRUE /\ attempts' = 0 /\ tried' = {}
      /\ UNCHANGED <<pings, blocked, tokenOnly, overtaken>>
  BY DEF G!disconnect, G!stopHeartbeat
<1>2. socket' \in [G!Sockets -> SocketKinds]
      /\ \A o \in G!Sockets :
           \/ socket'[o] = socket[o] /\ o # current
           \/ o = current /\ socket'[o].is = "closing"
  <2>1. CASE current = G!None
    BY <1>0, <2>1, SocketBounds DEF G!disconnect
  <2>2. CASE current # G!None
    <3>1. socket' = [socket EXCEPT ![current].is = "closing"] /\ current \in G!Sockets
      BY <1>0, <2>2 DEF G!disconnect, G!Close
    <3>2. socket' = [socket EXCEPT ![current] = [socket[current] EXCEPT !.is = "closing"]]
      BY <1>0, <3>1
    <3>3. /\ [socket[current] EXCEPT !.is = "closing"] \in SocketKinds
          /\ [socket[current] EXCEPT !.is = "closing"].is = "closing"
      BY <1>0, <3>1, SocketMarked
    <3> QED BY <1>0, <3>1, <3>2, <3>3
  <2> QED BY <2>1, <2>2
<1>3. OnlyCurrent'
  BY <1>1, <1>2 DEF SocketInv, OnlyCurrent, G!Is
<1>4. G!ShownAsItIs'
  BY <1>1 DEF G!ShownAsItIs
<1>5. Known'
  <2>1. CASE url \in G!Urls
    BY <1>1, <2>1 DEF Known
  <2>2. CASE url \notin G!Urls
    <3>1. url = "none" /\ strays' = strays
      BY <2>2, SocketTypes DEF SocketInv
    <3>2. G!Latest \notin strays /\ \A o \in G!Sockets : G!Is(o, {"gone"})
      BY <2>2 DEF SocketInv, Known
    <3>3. current = G!None
      BY <1>0, <3>2 DEF SocketInv, OnlyCurrent
    <3>4. timer' # G!Latest
      BY <1>1 DEF G!Latest
    <3>5. \A o \in G!Sockets : socket'[o] = socket[o]
      BY <1>2, <3>3, SocketBounds
    <3> QED BY <3>1, <3>2, <3>4, <3>5 DEF Known, G!Is
  <2> QED BY <2>1, <2>2
<1>6. G!TypeOK'
  <2>1. Flags' /\ manual' \in BOOLEAN /\ overtaken' \in BOOLEAN
    <3>1. missed' \in 0..MaxMissed /\ attempts' \in 0..MaxAttempts
      BY <1>1, SocketBounds
    <3>2. /\ handshake' \in BOOLEAN /\ shown' \in BOOLEAN /\ heartbeat' \in BOOLEAN
          /\ overtaken \in BOOLEAN /\ manual' \in BOOLEAN
      BY <1>1, SocketTypes DEF SocketInv
    <3> QED BY <1>1, <3>1, <3>2, FlagsNow, Zenon DEF Flags
  <2>2. presses' \in 0..MaxPresses
    BY SocketTypes, SocketBounds DEF SocketInv, G!Press
  <2>3. strays' \subseteq G!Urls \cup {G!Latest} /\ url' \in G!Urls \cup {"none"}
        /\ timer' \in G!Urls \cup {G!Latest, "none"} /\ tried' \subseteq G!ToSet(Paths)
        /\ current' \in G!Sockets \cup {G!None}
    BY <1>1, SocketTypes DEF SocketInv
  <2> QED BY <1>2, <2>1, <2>2, <2>3 DEF G!TypeOK, Flags, SocketKinds
<1> QED BY <1>3, <1>4, <1>5, <1>6 DEF SocketInv

LEMMA SocketStep == SocketInv /\ [G!Next]_gatewayVars => SocketInv'
<1> SUFFICES ASSUME SocketInv, [G!Next]_gatewayVars PROVE SocketInv'
  OBVIOUS
<1>1. CASE UNCHANGED gatewayVars
  <2>1. G!TypeOK'
    BY <1>1, Zenon DEF SocketInv, gatewayVars, G!TypeOK
  <2> QED BY <1>1, <2>1 DEF SocketInv, gatewayVars, OnlyCurrent, Known, G!ShownAsItIs, G!Is, G!Latest
<1>2. presses \in 0..MaxPresses /\ timer \in G!Urls \cup {G!Latest, "none"}
      /\ strays \subseteq G!Urls \cup {G!Latest}
  BY SocketTypes DEF SocketInv
<1>3. CASE G!Connect
  <2>1. presses' \in 0..MaxPresses
    BY <1>2, <1>3, SocketBounds DEF G!Connect, G!Press
  <2> QED BY <1>3, <2>1, Connecting, SocketBounds DEF G!Connect
<1>4. CASE G!TimerFires
  BY <1>2, <1>4, Connecting, GoalIsUrl DEF G!TimerFires
<1>5. ASSUME NEW which \in strays, G!StrayFires(which) PROVE SocketInv'
  BY <1>2, <1>5, Connecting, GoalIsUrl DEF G!StrayFires
<1>6. CASE G!Disconnect
  BY <1>6, Disconnecting DEF G!Disconnect
<1>7. CASE G!Reconnect
  BY <1>7, Disconnecting DEF G!Reconnect
<1> QED
  BY <1>1, <1>3, <1>4, <1>5, <1>6, <1>7, Ticking, Handled, Ending DEF G!Next

(* One socket, and what is shown of it.                                       *)
LEMMA SocketSafe == SocketInv => G!TypeOK /\ G!ConnectionIsShown
<1> SUFFICES ASSUME SocketInv PROVE G!OneSocket
  BY DEF SocketInv, G!ConnectionIsShown
<1> DEFINE live == {s \in G!Sockets : G!Is(s, {"connecting", "open"})}
<1>1. live \in SUBSET {current}
  BY DEF SocketInv, OnlyCurrent
<1>2. IsFiniteSet({current}) /\ Cardinality({current}) = 1
  BY FS_Singleton
<1>3. Cardinality(live) <= 1
  <2> HIDE DEF live
  <2> QED BY <1>1, <1>2, FS_Subset
<1> QED BY <1>3, SameCardinality DEF G!OneSocket

--------------------------------------------------------------------------------
(* Side by side: the one that does not move stays as it was.                  *)
CallsInv == SendInv /\ SocketInv

LEMMA CallsInit == InitAll => CallsInv
BY SendInit, SocketInit DEF InitAll, CallsInv

LEMMA CallsStep == CallsInv /\ [NextAll]_allVars => CallsInv'
<1> SUFFICES ASSUME CallsInv, [NextAll]_allVars PROVE CallsInv'
  OBVIOUS
<1>1. CASE UNCHANGED allVars
  <2>1. UNCHANGED vars /\ UNCHANGED gatewayVars
    BY <1>1 DEF allVars, webhookVars, vars
  <2> QED BY <2>1, SendStep, SocketStep DEF CallsInv
<1>2. CASE Next /\ UNCHANGED gatewayVars
  BY <1>2, SendStep, SocketStep DEF CallsInv
<1>3. CASE G!Next /\ UNCHANGED webhookVars
  BY <1>3, SendStep, SocketStep DEF CallsInv, webhookVars, vars
<1> QED BY <1>1, <1>2, <1>3 DEF NextAll

LEMMA CallsInvariant == SpecAll => []CallsInv
BY CallsInit, CallsStep, PTL DEF SpecAll

(* Every delivery, retry, administrator, socket, timer and button keeps what  *)
(* the server and the browser remember in its types.                          *)
THEOREM CallTypes == SpecAll => []TypesOK
<1>1. CallsInv => TypesOK
  BY SocketSafe DEF CallsInv, SendInv, TypesOK
<1> QED BY <1>1, CallsInvariant, PTL

(* However many sockets close late and timers fire, one at most is connecting *)
(* or open; the connection that works is shown, used and watched unless an    *)
(* older socket reported its end after it was opened, and none is shown that  *)
(* does not work unless an older socket is still to report.                   *)
THEOREM Connected == SpecAll => []ConnectionIsShown
<1>1. CallsInv => ConnectionIsShown
  BY SocketSafe DEF CallsInv, ConnectionIsShown
<1> QED BY <1>1, CallsInvariant, PTL
================================================================================
