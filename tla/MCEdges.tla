-------------------------------- MODULE MCEdges --------------------------------
(****************************************************************************)
(* Instances for TLC of five components that share no state: accounts and   *)
(* sessions, the rate limiter, recurring tasks, the task board and the chat *)
(* of a browser. The first state says which of them moves in a behaviour:   *)
(* every state of each is reached, no product is. The last four take turns  *)
(* with the same variables, which spares TLC those that would stand still.  *)
(****************************************************************************)
EXTENDS Access, TLC

CONSTANTS
  Keys, Watched, MaxRequests, Window, MaxEntries, MaxClock,
  Templates, InProject, Writers, MinutesPerHour, HoursPerDay, DaysPerWeek,
  DaysPerYear, MaxMinute, MaxTwins,
  Tasks, Statuses, Fetches, Moves, MaxTries, MaxWrites, MaxDrags,
  Conversations, Coordinated, Texts, OtherTexts, Posts, Loads, Page, ListMax, MaxMessages

VARIABLES
  moves,
  v1, v2, v3, v4, v5, v6, v7, v8, v9, v10, v11, v12, v13, v14

accessVars == <<account, nextId, session, request, pending>>
from13 == <<v13, v14>>
from7 == <<v7, v8, v9, v10, v11, v12, from13>>
from5 == <<v5, v6, from7>>
from1 == <<v1, v2, v3, v4, from5>>
allVars == <<moves, accessVars, from1>>

(* What an administrator fills in: a local account with an e-mail address.  *)
OneForm == {[email |-> TRUE, provider |-> "local", admin |-> TRUE]}

(* One template is due once a day, the other every minute.                *)
Daily == [minute |-> {0}, hour |-> {0}, dow |-> {0, 1}]
Crons == [p \in Templates |-> IF p = "daily" THEN Daily ELSE [Daily EXCEPT !.minute = {0, 1}]]

L == INSTANCE RateLimit WITH
       MaxTime <- MaxClock, now <- v1, store <- v2, passed <- v3, forgotten <- v4
R == INSTANCE RecurringTasks WITH
       Cron <- Crons, now <- v1, last <- v2, enabled <- v3, child <- v4, copy <- v5, setBack <- v6
C == INSTANCE Chat WITH
       message <- v1, post <- v2, streaming <- v3, events <- v4, active <- v5, shown <- v6,
       load <- v7, typed <- v8, overtook <- v9, unheard <- v10, refused <- v11, unsure <- v12
B == INSTANCE TaskBoard WITH
       row <- v1, writes <- v2, attached <- v3, pipe <- v4, stream <- v5, tries <- v6,
       mounted <- v7, cards <- v8, fetch <- v9, move <- v10, drags <- v11, had <- v12,
       crossed <- v13, doubt <- v14

ASSUME KeysAreFinite == IsFiniteSet(Keys) /\ Watched \in Keys
ASSUME BoundsAreNumbers ==
  /\ MaxRequests \in Nat \ {0} /\ Window \in Nat /\ MaxEntries \in Nat /\ MaxClock \in Nat
ASSUME CalendarIsOne ==
  /\ MinutesPerHour \in Nat \ {0} /\ HoursPerDay \in Nat \ {0} /\ DaysPerWeek \in Nat \ {0}
  /\ DaysPerYear \in Nat \ {0} /\ MaxMinute \in Nat \ {0} /\ MaxTwins \in Nat
  /\ IsFiniteSet(Templates)
ASSUME BoardParameters == B!Parameters
ASSUME ChatParameters == C!Parameters

Unused13 == v13 = 0 /\ v14 = 0
Unused7 == v7 = 0 /\ v8 = 0 /\ v9 = 0 /\ v10 = 0 /\ v11 = 0 /\ v12 = 0 /\ Unused13
Unused5 == v5 = 0 /\ v6 = 0 /\ Unused7
Unused1 == v1 = 0 /\ v2 = 0 /\ v3 = 0 /\ v4 = 0 /\ Unused5

InitAll ==
  /\ Init
  /\ \/ moves = "access" /\ Unused1
     \/ moves = "limiter" /\ L!Init /\ Unused5
     \/ moves = "recurring" /\ R!Init /\ Unused7
     \/ moves = "chat" /\ C!Init /\ Unused13
     \/ moves = "board" /\ B!Init

NextAll ==
  /\ UNCHANGED moves
  /\ \/ moves = "access" /\ Next /\ UNCHANGED from1
     \/ moves = "limiter" /\ L!Next /\ UNCHANGED <<accessVars, from5>>
     \/ moves = "recurring" /\ R!Next /\ UNCHANGED <<accessVars, from7>>
     \/ moves = "chat" /\ C!Next /\ UNCHANGED <<accessVars, from13>>
     \/ moves = "board" /\ B!Next /\ UNCHANGED accessVars

SpecAll == InitAll /\ [][NextAll]_allVars

(* Tokens and requests are interchangeable, and so are the keys but the     *)
(* watched one, and the moves of cards, which have the names of the tokens. *)
Symmetry == Permutations(Tokens) \cup Permutations(Clients)

TypesOK ==
  /\ TypeOK
  /\ moves = "limiter" => L!TypeOK
  /\ moves = "recurring" => R!TypeOK
  /\ moves = "chat" => C!TypeOK
  /\ moves = "board" => B!TypeOK

LimitIsKept == moves = "limiter" => L!LimitIsKept
TwinsArePrevented ==
  /\ [](moves = "recurring" => R!OneChildPerTitle /\ R!WithheldForATwin)
  /\ [][moves = "recurring" => R!TwiceAfterSetBack]_allVars
BoardIsTrue == moves = "board" => B!BoardIsTrue
ChatIsTrue == moves = "chat" => C!ChatIsTrue
================================================================================
