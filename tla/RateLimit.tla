------------------------------ MODULE RateLimit ------------------------------
(****************************************************************************)
(* The counters of lib/rate-limit.ts: createRateLimiter, its twin for       *)
(* agents and the keyed one, which differ only in the key they count by.    *)
(* A counter covers a fixed window from its first request; at capacity the  *)
(* counter that ends first makes room; all are lost when the process ends.  *)
(****************************************************************************)
EXTENDS Naturals, Sequences, FiniteSets

CONSTANTS
  Keys,         \* client addresses, agents or users
  Watched,      \* the key whose admitted requests are recorded
  MaxRequests,
  Window,       \* windowMs
  MaxEntries,
  MaxTime       \* bound: the clock

VARIABLES
  now,
  store,      \* counters, by key
  passed,     \* history: when the requests of Watched let through came, in their order
  forgotten   \* history: Watched lost its counter within its window

vars == <<now, store, passed, forgotten>>

NoEntry == [count |-> 0, resetAt |-> 0]

TypeOK ==
  /\ now \in 0..MaxTime
  /\ store \in [Keys -> [count : Nat, resetAt : 0..(MaxTime + Window)]]
  /\ Cardinality({k \in Keys : store[k] # NoEntry}) <= MaxEntries
  /\ passed \in Seq(0..MaxTime)
  /\ forgotten \in BOOLEAN

Init ==
  /\ now = 0
  /\ store = [k \in Keys |-> NoEntry]
  /\ passed = <<>>
  /\ forgotten = FALSE

Counted(k) == store[k] # NoEntry
Stored == {k \in Keys : Counted(k)}
Running(k) == Counted(k) /\ now <= store[k].resetAt

(* evictOldest: who may be chosen; the code takes the first in the map. *)
Oldest == {k \in Stored : \A o \in Stored : store[k].resetAt <= store[o].resetAt}

Admitted(k) ==
  passed' = IF k = Watched /\ ~forgotten THEN Append(passed, now) ELSE passed

Dropped(k) == forgotten' = (forgotten \/ (k = Watched /\ Running(k)))

FirstOfWindow == [count |-> 1, resetAt |-> now + Window]

(* The first request of a window, with room for its counter. *)
OpenUnbounded(k) ==  \* mutant: no counter makes room
  /\ ~Running(k)
  /\ store' = [store EXCEPT ![k] = FirstOfWindow]
  /\ Admitted(k)
  /\ UNCHANGED <<now, forgotten>>

Open(k) ==
  /\ ~Running(k)
  /\ Counted(k) \/ Cardinality(Stored) < MaxEntries
  /\ store' = [store EXCEPT ![k] = FirstOfWindow]
  /\ Admitted(k)
  /\ UNCHANGED <<now, forgotten>>

(* The same at capacity. *)
OpenByEviction(k) ==
  /\ ~Counted(k)
  /\ Cardinality(Stored) >= MaxEntries
  /\ \E old \in Oldest :
       /\ store' = [store EXCEPT ![old] = NoEntry, ![k] = FirstOfWindow]
       /\ Dropped(old)
  /\ Admitted(k)
  /\ UNCHANGED now

(* A further request: refused above the limit, counted in any case. Counts  *)
(* above the limit behave alike and are not told apart.                     *)
CountMoreThanAllowed(k) ==  \* mutant: the limit is exceeded by one
  /\ Running(k)
  /\ store' = [store EXCEPT ![k].count = IF @ > MaxRequests THEN @ ELSE @ + 1]
  /\ IF store[k].count > MaxRequests THEN UNCHANGED passed ELSE Admitted(k)
  /\ UNCHANGED <<now, forgotten>>

CountMore(k) ==
  /\ Running(k)
  /\ store' = [store EXCEPT ![k].count = IF @ > MaxRequests THEN @ ELSE @ + 1]
  /\ IF store[k].count + 1 > MaxRequests THEN UNCHANGED passed ELSE Admitted(k)
  /\ UNCHANGED <<now, forgotten>>

(* The interval that removes counters of past windows. *)
Cleanup ==
  /\ store' = [k \in Keys |-> IF now > store[k].resetAt THEN NoEntry ELSE store[k]]
  /\ UNCHANGED <<now, passed, forgotten>>

Restart ==
  /\ store' = [k \in Keys |-> NoEntry]
  /\ forgotten' = (forgotten \/ Running(Watched))
  /\ UNCHANGED <<now, passed>>

Tick ==
  /\ now < MaxTime
  /\ now' = now + 1
  /\ UNCHANGED <<store, passed, forgotten>>

Next ==
  \/ \E k \in Keys : Open(k) \/ OpenByEviction(k) \/ CountMore(k)
  \/ Cleanup \/ Restart \/ Tick

Spec == Init /\ [][Next]_vars

--------------------------------------------------------------------------------
PassedWithin(from, to) == Cardinality({i \in DOMAIN passed : passed[i] \in from..to})

(* Windows are aligned to the first request, not to the clock: as long as a *)
(* key keeps its counter, any stretch of time as long as a window sees at   *)
(* most twice the limit (two windows can meet in it), never more.           *)
AtMostTwice ==
  forgotten \/ \A t \in 0..(MaxTime - Window) :
                 PassedWithin(t, t + Window) <= 2 * MaxRequests

(* A request that is refused has used up its limit: nobody is turned away   *)
(* in a window in which fewer than MaxRequests requests were let through.   *)
RefusedOnlyWhenSpent ==
  ~forgotten /\ Running(Watched) /\ store[Watched].count > MaxRequests =>
    PassedWithin(store[Watched].resetAt - Window, now) >= MaxRequests

(* However its requests fall, a client gets the limit it was promised: no   *)
(* less, and no more than two windows of it.                                *)
LimitIsKept == AtMostTwice /\ RefusedOnlyWhenSpent
==============================================================================
