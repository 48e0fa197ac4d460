---------------------------- MODULE TaskBoardProofs ----------------------------
(****************************************************************************)
(* The task board for any number of tasks, columns, fetches, moves and      *)
(* events: what keeps a card right while events, answers and guesses are on *)
(* their way. The modules that run the board beside other components take   *)
(* these lemmas with the parameters they give it.                           *)
(****************************************************************************)
EXTENDS TaskBoard, TLAPS

--------------------------------------------------------------------------------
(* What sequences do. *)

LEMMA Appended ==
  ASSUME NEW Kind, NEW queue \in Seq(Kind), NEW e \in Kind
  PROVE  /\ Append(queue, e) \in Seq(Kind)
         /\ DOMAIN Append(queue, e) = 1..(Len(queue) + 1)
         /\ DOMAIN queue = 1..Len(queue) /\ Len(queue) \in Nat
         /\ \A i \in DOMAIN queue : Append(queue, e)[i] = queue[i]
         /\ Append(queue, e)[Len(queue) + 1] = e
OBVIOUS

LEMMA Taken ==
  ASSUME NEW Kind, NEW queue \in Seq(Kind), queue # <<>>
  PROVE  /\ Head(queue) \in Kind /\ Head(queue) = queue[1]
         /\ Tail(queue) \in Seq(Kind)
         /\ DOMAIN queue = 1..Len(queue) /\ Len(queue) \in Nat /\ Len(queue) >= 1
         /\ DOMAIN Tail(queue) = 1..(Len(queue) - 1)
         /\ \A i \in DOMAIN Tail(queue) : Tail(queue)[i] = queue[i + 1]
OBVIOUS

LEMMA SameEverywhere ==
  ASSUME NEW Kind, NEW queue \in Seq(Kind), NEW e \in Kind
  PROVE  /\ [i \in DOMAIN queue |-> e] \in Seq(Kind)
         /\ Len([i \in DOMAIN queue |-> e]) = Len(queue)
         /\ queue = <<>> => [i \in DOMAIN queue |-> e] = <<>>
OBVIOUS

LEMMA OneIsAll ==
  ASSUME NEW Kind, NEW queue \in Seq(Kind), Len(queue) = 1
  PROVE  queue = <<queue[1]>> /\ 1 \in DOMAIN queue
OBVIOUS

--------------------------------------------------------------------------------
(* Types *)

(* The cards after an update: of its task all the same, of the others as     *)
(* they were.                                                                *)
LEMMA Updated ==
  ASSUME TypeOK, NEW t \in Tasks, NEW status \in Statuses
  PROVE  /\ updateTask(t, status) \in [Tasks -> Seq(Statuses)]
         /\ \A o \in Tasks \ {t} : updateTask(t, status)[o] = cards[o]
         /\ Len(updateTask(t, status)[t]) = Len(cards[t])
         /\ DOMAIN updateTask(t, status)[t] = DOMAIN cards[t]
         /\ cards[t] = <<>> => updateTask(t, status)[t] = <<>>
         /\ \A i \in DOMAIN cards[t] : updateTask(t, status)[t][i] = status
         /\ Len(cards[t]) = 1 => updateTask(t, status)[t] = <<status>>
<1> DEFINE all == [i \in DOMAIN cards[t] |-> status]
<1>1. cards \in [Tasks -> Seq(Statuses)] /\ cards[t] \in Seq(Statuses)
  BY DEF TypeOK
<1>2. all \in Seq(Statuses) /\ Len(all) = Len(cards[t]) /\ (cards[t] = <<>> => all = <<>>)
  BY <1>1, SameEverywhere
<1>3. DOMAIN all = DOMAIN cards[t] /\ \A i \in DOMAIN cards[t] : all[i] = status
  OBVIOUS
<1>4. ASSUME Len(cards[t]) = 1 PROVE all = <<status>>
  BY <1>1, <1>2, <1>3, <1>4, OneIsAll
<1>5. updateTask(t, status) = [cards EXCEPT ![t] = all]
  BY DEF updateTask
<1> HIDE DEF all
<1>6. QED
  BY <1>1, <1>2, <1>3, <1>4, <1>5

(* What an event is. *)
LEMMA EventTypes ==
  ASSUME NEW e \in Events
  PROVE  /\ e.task \in Tasks
         /\ \/ e.kind \in {"created", "changed"} /\ e.status \in Statuses
            \/ e.kind = "deleted" /\ e.status = "deleted"
BY DEF Events

LEMMA BroadcastTypes ==
  ASSUME TypeOK, NEW t \in Tasks, NEW kind, NEW status, Broadcast(t, kind, status),
         \/ kind \in {"created", "changed"} /\ status \in Statuses
         \/ kind = "deleted" /\ status = "deleted"
  PROVE  pipe' \in Seq(Events) /\ doubt' \subseteq Tasks
<1> DEFINE e == [task |-> t, kind |-> kind, status |-> status]
<1>1. e \in Events
  BY DEF Events
<1>2. pipe \in Seq(Events) /\ doubt \subseteq Tasks
  BY DEF TypeOK
<1>3. pipe' = (IF attached THEN Append(pipe, e) ELSE pipe) /\ (doubt' = doubt \/ doubt' = doubt \cup {t})
  BY DEF Broadcast
<1> HIDE DEF e
<1>4. Append(pipe, e) \in Seq(Events)
  BY <1>1, <1>2, Appended
<1>5. QED
  BY <1>2, <1>3, <1>4

LEMMA InitTypes == Parameters /\ Init => TypeOK
<1> SUFFICES ASSUME Parameters, Init PROVE TypeOK
  OBVIOUS
<1>1. row \in Rows /\ had \in [Tasks -> SUBSET Statuses]
  BY DEF Init, Rows, Absent
<1>2. 0 \in 0..MaxWrites /\ 0 \in 0..MaxTries /\ 0 \in 0..MaxDrags
  BY DEF Parameters
<1>3. cards \in [Tasks -> Seq(Statuses)] /\ pipe \in Seq(Events)
  BY DEF Init
<1>4. QED
  BY <1>1, <1>2, <1>3 DEF Init, TypeOK

RowTypes ==
  row \in Rows /\ writes \in 0..MaxWrites /\ had \in [Tasks -> SUBSET Statuses]
StreamTypes ==
  /\ attached \in BOOLEAN /\ stream \in {"none", "waiting", "opening", "open"}
  /\ tries \in 0..MaxTries /\ mounted \in BOOLEAN
MoveTypes ==
  /\ move \in [Moves -> {NoMove} \cup
       [is : {"dragged", "checking", "sent", "applied"}, task : Tasks,
        from : Statuses, to : Statuses]]
  /\ drags \in 0..MaxDrags

LEMMA WriteTypes ==
  ASSUME Parameters, TypeOK, NEW t \in Tasks, NEW kind, NEW status, Write(t, kind, status),
         \/ kind \in {"created", "changed"} /\ status \in Statuses
         \/ kind = "deleted" /\ status = "deleted"
  PROVE  TypeOK'
<1>1. row' \in Rows
  BY DEF TypeOK, Rows, Absent, Write
<1>2. had' \in [Tasks -> SUBSET Statuses]
  BY DEF TypeOK, Write
<1>3. writes' \in 0..MaxWrites
  BY DEF TypeOK, Write, Parameters
<1>4. pipe' \in Seq(Events) /\ doubt' \subseteq Tasks
  <2>1. CASE Broadcast(t, kind, status)
    BY <2>1, BroadcastTypes
  <2>2. CASE UNCHANGED pipe /\ doubt' = doubt \cup {t}
    BY <2>2 DEF TypeOK
  <2>3. QED
    BY <2>1, <2>2 DEF Write, Told
<1>5. QED
  BY <1>1, <1>2, <1>3, <1>4 DEF TypeOK, Write, moving

(* A move that is under way or dragged has a task, where it came from and    *)
(* where it goes.                                                            *)
LEMMA MoveParts ==
  ASSUME TypeOK, NEW m \in Moves
  PROVE  /\ move[m].is \in {"none", "dragged", "checking", "sent", "applied"}
         /\ move[m].is = "none" <=> move[m] = NoMove
         /\ move[m].is # "none" =>
              /\ move[m].task \in Tasks /\ move[m].from \in Statuses /\ move[m].to \in Statuses
              /\ move[m] = [is |-> move[m].is, task |-> move[m].task, from |-> move[m].from,
                            to |-> move[m].to]
<1>1. CASE move[m] = NoMove
  BY <1>1 DEF NoMove
<1>2. CASE move[m] \in [is : {"dragged", "checking", "sent", "applied"}, task : Tasks,
                        from : Statuses, to : Statuses]
  BY <1>2 DEF NoMove
<1>3. QED
  BY <1>1, <1>2 DEF TypeOK

LEMMA FetchParts ==
  ASSUME TypeOK, NEW f \in Fetches
  PROVE  /\ fetch[f].is \in {"none", "asked", "answered"}
         /\ fetch[f].is = "none" <=> fetch[f] = NoFetch
         /\ fetch[f].is = "answered" => fetch[f].rows \in Rows
<1>1. CASE fetch[f] \in {NoFetch, Asked}
  BY <1>1 DEF NoFetch, Asked
<1>2. CASE fetch[f] \in [is : {"answered"}, rows : Rows]
  BY <1>2 DEF NoFetch
<1>3. QED
  BY <1>1, <1>2 DEF TypeOK

LEMMA StreamStep ==
  ASSUME Parameters, TypeOK, Attach \/ OnOpen \/ Break \/ OnError \/ Retry \/ Mount
  PROVE  TypeOK'
<1>1. CASE Attach \/ OnOpen \/ Break \/ Retry
  <2>1. tries' \in 0..MaxTries /\ attached' \in BOOLEAN
        /\ stream' \in {"none", "waiting", "opening", "open"}
    <3>1. 0 \in 0..MaxTries /\ tries \in 0..MaxTries /\ attached \in BOOLEAN
          /\ stream \in {"none", "waiting", "opening", "open"}
      BY DEF TypeOK, Parameters
    <3>2. tries' \in {tries, 0} /\ attached' \in {attached, TRUE, FALSE}
          /\ stream' \in {stream, "opening", "open"}
      BY <1>1 DEF Attach, OnOpen, Break, Retry
    <3>3. QED
      BY <3>1, <3>2
  <2>2. UNCHANGED <<row, writes, had, pipe, mounted, cards, fetch, move, drags, crossed, doubt>>
    BY <1>1 DEF Attach, OnOpen, Break, Retry, server, moving
  <2>3. QED
    BY <2>1, <2>2 DEF TypeOK
<1>4. CASE Mount
  <2>1. fetch' \in [Fetches -> [is : {"answered"}, rows : Rows] \cup {NoFetch, Asked}]
    BY <1>4 DEF Mount
  <2>2. UNCHANGED <<row, writes, had, attached, pipe, tries, cards, move, drags, crossed, doubt>>
    BY <1>4 DEF Mount, server, moving
  <2>3. stream' = "opening" /\ mounted' = TRUE
    BY <1>4 DEF Mount
  <2>4. QED
    BY <2>1, <2>2, <2>3 DEF TypeOK
<1>2. CASE OnError
  <2>1. tries' \in 0..MaxTries /\ stream' \in {"none", "waiting", "opening", "open"}
    BY <1>2 DEF OnError, TypeOK, Parameters
  <2>2. pipe' = <<>> /\ attached' = FALSE /\ doubt' = doubt \cup {t \in Tasks : Coming(t)}
    BY <1>2 DEF OnError
  <2>3. pipe' \in Seq(Events) /\ doubt' \subseteq Tasks /\ attached' \in BOOLEAN
    <3>1. pipe' \in Seq(Events)
      BY <2>2
    <3>2. QED
      BY <2>2, <3>1 DEF TypeOK
  <2>4. UNCHANGED <<row, writes, had, mounted, cards, fetch, move, drags, crossed>>
    BY <1>2 DEF OnError, server, moving
  <2>5. QED
    BY <2>1, <2>3, <2>4 DEF TypeOK
<1>3. QED
  BY <1>1, <1>2, <1>4

(* What a message does to the cards. *)
LEMMA MessageCards ==
  ASSUME TypeOK, NEW e \in Events
  PROVE  /\ After(e) \in [Tasks -> Seq(Statuses)]
         /\ \A o \in Tasks \ {e.task} : After(e)[o] = cards[o]
         /\ e.kind = "created" => After(e)[e.task] = <<e.status>> \o cards[e.task]
         /\ e.kind = "changed" => After(e) = updateTask(e.task, e.status)
         /\ e.kind = "deleted" => After(e)[e.task] = <<>>
<1>1. cards \in [Tasks -> Seq(Statuses)] /\ e.task \in Tasks /\ cards[e.task] \in Seq(Statuses)
  BY EventTypes DEF TypeOK
<1>2. CASE e.kind = "created"
  <2>1. e.status \in Statuses
    BY <1>2, EventTypes
  <2> DEFINE longer == <<e.status>> \o cards[e.task]
  <2>2. longer \in Seq(Statuses)
    BY <1>1, <2>1
  <2>3. After(e) = [cards EXCEPT ![e.task] = longer]
    BY <1>2 DEF After
  <2> HIDE DEF longer
  <2>4. /\ After(e) \in [Tasks -> Seq(Statuses)]
        /\ \A o \in Tasks \ {e.task} : After(e)[o] = cards[o]
        /\ After(e)[e.task] = longer
    BY <1>1, <2>2, <2>3
  <2>5. QED
    BY <1>2, <2>4 DEF longer
<1>3. CASE e.kind = "changed"
  <2>1. e.status \in Statuses
    BY <1>3, EventTypes
  <2>2. After(e) = updateTask(e.task, e.status)
    BY <1>3 DEF After
  <2>3. QED
    BY <1>1, <1>3, <2>1, <2>2, Updated
<1>4. CASE e.kind = "deleted"
  <2>1. After(e) = [cards EXCEPT ![e.task] = <<>>]
    BY <1>4 DEF After
  <2>2. QED
    BY <1>1, <1>4, <2>1
<1>5. QED
  BY <1>2, <1>3, <1>4, EventTypes

LEMMA MessageTypes ==
  ASSUME TypeOK, OnMessage
  PROVE  TypeOK'
<1>1. pipe \in Seq(Events) /\ pipe # <<>>
  BY DEF TypeOK, OnMessage
<1>2. Head(pipe) \in Events /\ Tail(pipe) \in Seq(Events)
  BY <1>1, Taken
<1>3. After(Head(pipe)) \in [Tasks -> Seq(Statuses)]
  BY <1>2, MessageCards
<1>4. QED
  BY <1>2, <1>3 DEF TypeOK, OnMessage, server, moving

LEMMA FetchTypes ==
  ASSUME TypeOK, NEW f \in Fetches,
         fetchData(f) \/ Served(f) \/ FetchFails(f) \/ Fetched(f)
  PROVE  TypeOK'
<1> DEFINE Kinds == [is : {"answered"}, rows : Rows] \cup {NoFetch, Asked}
<1>1. fetch \in [Fetches -> Kinds] /\ row \in Rows
  BY DEF TypeOK
<1>2. CASE fetchData(f) \/ FetchFails(f)
  <2>1. fetch' \in [Fetches -> Kinds]
    <3>1. Asked \in Kinds /\ NoFetch \in Kinds
      OBVIOUS
    <3> HIDE DEF Kinds
    <3>2. QED
      BY <1>1, <1>2, <3>1 DEF fetchData, FetchFails
  <2>2. QED
    BY <1>2, <2>1 DEF TypeOK, fetchData, FetchFails, server, channel, moving
<1>3. CASE Served(f)
  <2>1. fetch' \in [Fetches -> Kinds]
    <3>1. [is |-> "answered", rows |-> row] \in Kinds
      BY <1>1
    <3> HIDE DEF Kinds
    <3>2. QED
      BY <1>1, <1>3, <3>1 DEF Served
  <2>2. QED
    BY <1>3, <2>1 DEF TypeOK, Served, server, channel, moving
<1>4. CASE Fetched(f)
  <2>1. fetch' \in [Fetches -> Kinds]
    <3>1. NoFetch \in Kinds
      OBVIOUS
    <3> HIDE DEF Kinds
    <3>2. QED
      BY <1>1, <1>4, <3>1 DEF Fetched
  <2>2. cards' \in [Tasks -> Seq(Statuses)]
    <3>1. \A s : Shown(s) \in Seq(Statuses)
      BY DEF Shown
    <3>2. QED
      BY <1>4, <3>1 DEF Fetched, Replaced
  <2>3. doubt' \subseteq Tasks
    BY <1>4 DEF Fetched
  <2>4. QED
    BY <1>4, <2>1, <2>2, <2>3 DEF TypeOK, Fetched, server, channel, moving
<1>5. QED
  BY <1>2, <1>3, <1>4

(* What a move becomes. *)
LEMMA MovesStay ==
  ASSUME TypeOK, NEW m \in Moves
  PROVE  OthersLeft(m) \in [Moves -> {NoMove} \cup
           [is : {"dragged", "checking", "sent", "applied"}, task : Tasks,
            from : Statuses, to : Statuses]]
BY DEF TypeOK, OthersLeft

LEMMA MoveStep ==
  ASSUME Parameters, TypeOK, NEW m \in Moves,
         \/ \E t \in Tasks : Drag(m, t)
         \/ \E to \in Statuses : Drop(m, to)
         \/ Checked(m) \/ PutApplied(m) \/ Accepted(m) \/ TakenBack(m)
  PROVE  TypeOK'
<1> DEFINE Kinds == {NoMove} \cup
             [is : {"dragged", "checking", "sent", "applied"}, task : Tasks,
              from : Statuses, to : Statuses]
<1>1. move \in [Moves -> Kinds] /\ cards \in [Tasks -> Seq(Statuses)]
  BY DEF TypeOK
<1>2. \A k \in {"dragged", "checking", "sent", "applied"}, t \in Tasks,
         from \in Statuses, to \in Statuses :
        [is |-> k, task |-> t, from |-> from, to |-> to] \in Kinds
  OBVIOUS
<1>3. NoMove \in Kinds
  OBVIOUS
<1> HIDE DEF Kinds
<1>4. ASSUME NEW t \in Tasks, Drag(m, t) PROVE TypeOK'
  <2>1. PICK i \in DOMAIN cards[t] :
          move' = [o \in Moves |->
            IF o = m THEN [is |-> "dragged", task |-> t, from |-> cards[t][i], to |-> cards[t][i]]
            ELSE IF move[o].is = "dragged" THEN NoMove ELSE move[o]]
    BY <1>4 DEF Drag
  <2>2. cards[t][i] \in Statuses
    BY <1>1
  <2>3. move' \in [Moves -> Kinds]
    BY <1>1, <1>2, <1>3, <2>1, <2>2
  <2>4. drags' \in 0..MaxDrags
    BY <1>4 DEF Drag, TypeOK, Parameters
  <2>5. QED
    BY <1>4, <2>3, <2>4 DEF TypeOK, Drag, server, channel, Kinds
<1>5. ASSUME NEW to \in Statuses, Drop(m, to) PROVE TypeOK'
  <2>1. move[m].task \in Tasks /\ move[m].from \in Statuses
    BY <1>5, MoveParts DEF Drop
  <2>2. move[m] = [is |-> move[m].is, task |-> move[m].task, from |-> move[m].from,
                   to |-> move[m].to]
    BY <1>5, MoveParts DEF Drop
  <2>3. PICK k \in {"checking", "sent"} : move' = [move EXCEPT ![m].to = to, ![m].is = k]
    BY <1>5 DEF Drop
  <2> DEFINE new == [move[m] EXCEPT !.to = to, !.is = k]
             gone == [move[m] EXCEPT !.to = to]
  <2>4. new = [is |-> k, task |-> move[m].task, from |-> move[m].from, to |-> to]
    <3>1. gone = [is |-> move[m].is, task |-> move[m].task, from |-> move[m].from, to |-> to]
      BY <2>2
    <3>2. new = [gone EXCEPT !.is = k]
      OBVIOUS
    <3> HIDE DEF gone
    <3>3. QED
      BY <3>1, <3>2
  <2>5. move' = [move EXCEPT ![m] = new]
    BY <2>3
  <2>6. new \in Kinds
    BY <1>2, <2>1, <2>4
  <2> HIDE DEF new
  <2>7. move' \in [Moves -> Kinds]
    BY <1>1, <2>5, <2>6
  <2>8. cards' \in [Tasks -> Seq(Statuses)]
    BY <1>1, <1>5, <2>1, Updated DEF Drop
  <2>9. crossed' \subseteq Tasks
    BY <1>5, <2>1 DEF Drop, TypeOK
  <2>10. QED
    BY <1>5, <2>7, <2>8, <2>9 DEF TypeOK, Drop, server, channel, Kinds
<1>6. ASSUME NEW k \in {"sent", "applied"}, move[m].is # "none",
             move' = [move EXCEPT ![m].is = k]
      PROVE  move' \in [Moves -> Kinds]
  <2>1. move[m].task \in Tasks /\ move[m].from \in Statuses /\ move[m].to \in Statuses
    BY <1>6, MoveParts
  <2>2. move[m] = [is |-> move[m].is, task |-> move[m].task, from |-> move[m].from,
                   to |-> move[m].to]
    BY <1>6, MoveParts
  <2> DEFINE new == [move[m] EXCEPT !.is = k]
  <2>3. new = [is |-> k, task |-> move[m].task, from |-> move[m].from, to |-> move[m].to]
    BY <2>2
  <2>4. move' = [move EXCEPT ![m] = new]
    BY <1>6
  <2>5. new \in Kinds
    BY <1>2, <2>1, <2>3
  <2> HIDE DEF new
  <2>6. QED
    BY <1>1, <2>4, <2>5
<1>7. CASE Checked(m)
  <2>1. move[m].task \in Tasks /\ move[m].to \in Statuses
    BY <1>7, MoveParts DEF Checked
  <2>2. move' \in [Moves -> Kinds]
    BY <1>6, <1>7 DEF Checked
  <2>3. cards' \in [Tasks -> Seq(Statuses)]
    BY <1>7, <2>1, Updated DEF Checked, Optimistic
  <2>4. QED
    BY <1>7, <2>2, <2>3 DEF TypeOK, Checked, server, channel, Kinds
<1>8. CASE PutApplied(m)
  <2>1. move[m].task \in Tasks /\ move[m].to \in Statuses
    BY <1>8, MoveParts DEF PutApplied
  <2>2. move' \in [Moves -> Kinds]
    BY <1>6, <1>8 DEF PutApplied
  <2>3. pipe' \in Seq(Events) /\ doubt' \subseteq Tasks
    BY <1>8, <2>1, BroadcastTypes DEF PutApplied
  <2>4. row' \in Rows /\ had' \in [Tasks -> SUBSET Statuses]
    <3>1. \/ row' = [row EXCEPT ![move[m].task] = move[m].to]
             /\ had' = [had EXCEPT ![move[m].task] = @ \cup {move[m].to}]
          \/ UNCHANGED <<row, had>>
      BY <1>8 DEF PutApplied
    <3>2. row \in [Tasks -> Statuses \cup Absent] /\ had \in [Tasks -> SUBSET Statuses]
      BY DEF TypeOK, Rows
    <3>3. QED
      BY <2>1, <3>1, <3>2 DEF Rows
  <2>5. QED
    BY <1>8, <2>2, <2>3, <2>4 DEF TypeOK, PutApplied, Kinds
<1>9. CASE Accepted(m)
  <2>1. move' \in [Moves -> Kinds]
    BY <1>9, MovesStay DEF Accepted, Kinds
  <2>2. QED
    BY <1>9, <2>1 DEF TypeOK, Accepted, server, channel, Kinds
<1>10. CASE TakenBack(m)
  <2>1. move[m].task \in Tasks /\ move[m].from \in Statuses
    BY <1>10, MoveParts DEF TakenBack, Under
  <2>2. move' \in [Moves -> Kinds]
    BY <1>10, MovesStay DEF TakenBack, Kinds
  <2>3. cards' \in [Tasks -> Seq(Statuses)] /\ doubt' \subseteq Tasks
    BY <1>10, <2>1, Updated DEF TypeOK, TakenBack
  <2>4. QED
    BY <1>10, <2>2, <2>3 DEF TypeOK, TakenBack, server, channel, Kinds
<1>11. QED
  BY <1>4, <1>5, <1>7, <1>8, <1>9, <1>10

LEMMA TypeStep == Parameters /\ TypeOK /\ [Next]_vars => TypeOK'
<1> SUFFICES ASSUME Parameters, TypeOK, [Next]_vars PROVE TypeOK'
  OBVIOUS
<1>1. ASSUME NEW t \in Tasks, NEW status \in Statuses,
             CreateTask(t, status) \/ ChangeTask(t, status) \/ DeleteTask(t)
      PROVE  TypeOK'
  BY <1>1, WriteTypes DEF CreateTask, ChangeTask, DeleteTask
<1>2. ASSUME NEW t \in Tasks, DeleteTask(t) PROVE TypeOK'
  BY <1>2, WriteTypes DEF DeleteTask
<1>3. ASSUME NEW f \in Fetches,
             Poll(f) \/ Refresh(f) \/ Served(f) \/ FetchFails(f) \/ Fetched(f)
      PROVE  TypeOK'
  BY <1>3, FetchTypes DEF Poll, Refresh
<1>4. CASE UNCHANGED vars
  BY <1>4 DEF TypeOK, vars, server, channel, moving
<1>5. QED
  BY <1>1, <1>2, <1>3, <1>4, StreamStep, MessageTypes, MoveStep DEF Next

--------------------------------------------------------------------------------
(* What the board knows of a task. *)

Of(t) == {i \in DOMAIN pipe : pipe[i].task = t}

(* What the table never held is not known anywhere. *)
NoneKnown(t) ==
  row[t] = "none" =>
    /\ cards[t] = <<>> /\ Of(t) = {}
    /\ \A m \in Moves : move[m] # NoMove => move[m].task # t
    /\ \A f \in Fetches : fetch[f].is = "answered" => fetch[f].rows[t] = "none"

(* While a task is there, whatever is on its way to the browser is true or   *)
(* was.                                                                      *)
Known(t) ==
  Present(t) =>
    /\ row[t] \in had[t]
    /\ \A i \in Of(t) : pipe[i].kind # "deleted" => pipe[i].status \in had[t]
    /\ \A f \in Fetches :
         fetch[f].is = "answered" /\ fetch[f].rows[t] \in Statuses =>
           fetch[f].rows[t] \in had[t]

Sent(t) == \E m \in Moves : move[m].is = "sent" /\ move[m].task = t

(* The events on their way bring a card to what the row says: the last one   *)
(* tells its status; one of them creates the card, unless it is there; one   *)
(* removes it, unless it is gone.                                            *)
OneComes(t) ==
  cards[t] = <<>> /\ \E i \in Of(t) : \A j \in Of(t) : pipe[j].kind = "created" <=> j = i
NoneComes(t) == \A j \in Of(t) : pipe[j].kind # "created"
OneGoes(t) ==
  \E i \in Of(t) : pipe[i].kind = "deleted" /\ \A j \in Of(t) : pipe[j].kind = "created" => j < i

Right(t) ==
  t \notin doubt =>
    /\ \A i \in Of(t) : Present(t) /\ (\A j \in Of(t) : j <= i) => pipe[i].status = row[t]
    /\ Of(t) = {} /\ ~Sent(t) => cards[t] = Shown(row[t])
    /\ Present(t) =>
         /\ \A i \in Of(t) : pipe[i].kind # "deleted"
         /\ OneComes(t) \/ (Len(cards[t]) = 1 /\ NoneComes(t))
    /\ row[t] = "deleted" => OneGoes(t) \/ (cards[t] = <<>> /\ NoneComes(t))

(* A card shows what its task has had or what its move would make of it.     *)
Guess(t, status) == \E m \in Moves : Under(m) /\ move[m].task = t /\ move[m].to = status

Guessed(t) ==
  t \notin crossed /\ Present(t) =>
    /\ \A i \in DOMAIN cards[t] : cards[t][i] \in had[t] \/ Guess(t, cards[t][i])
    /\ \A m \in Moves : move[m] # NoMove /\ move[m].task = t =>
         /\ Under(m) => /\ move[m].from \in had[t]
                        /\ \A o \in Moves : Under(o) /\ move[o].task = t => o = m
         /\ move[m].is = "applied" => move[m].to \in had[t]
         /\ move[m].is = "dragged" => move[m].from \in had[t] \/ Moved(t)

BoardInv ==
  /\ Parameters /\ TypeOK
  /\ \A t \in Tasks : NoneKnown(t) /\ Known(t) /\ Right(t) /\ Guessed(t)

--------------------------------------------------------------------------------
(* What leaves a task as it was leaves these as they were. *)

(* Events on their way to the browser were on their way before. *)
NoNews(t) == \A i \in Of(t)' : \E j \in Of(t) : pipe'[i] = pipe[j]
SameNews(t) == Of(t)' = Of(t) /\ \A i \in Of(t) : pipe'[i] = pipe[i]

(* Answers under way are old, or what the table says now. *)
FreshRows(t) ==
  \A f \in Fetches :
    fetch'[f].is = "answered" =>
      \/ fetch[f].is = "answered" /\ fetch'[f].rows[t] = fetch[f].rows[t]
      \/ fetch'[f].rows[t] = row[t]

LEMMA NoneKept ==
  ASSUME NEW t \in Tasks, NoneKnown(t), row'[t] = "none" => row[t] = "none",
         cards[t] = <<>> => cards'[t] = <<>>, NoNews(t), FreshRows(t),
         \A m \in Moves : move'[m] # NoMove /\ move'[m].task = t =>
           cards[t] # <<>> \/ \E o \in Moves : move[o] # NoMove /\ move[o].task = t
  PROVE  NoneKnown(t)'
BY DEF NoneKnown, NoNews, FreshRows

LEMMA KnownKept ==
  ASSUME NEW t \in Tasks, Known(t), row'[t] = row[t], had'[t] = had[t], NoNews(t), FreshRows(t)
  PROVE  Known(t)'
BY DEF Known, Present, NoNews, FreshRows

LEMMA RightUpdated ==
  ASSUME NEW t \in Tasks, Right(t), t \in doubt => t \in doubt', row'[t] = row[t],
         SameNews(t), Len(cards'[t]) = Len(cards[t]), cards[t] = <<>> => cards'[t] = <<>>,
         t \notin doubt' /\ Of(t) = {} /\ ~Sent(t)' => cards'[t] = Shown(row[t])
  PROVE  Right(t)'
<1> SUFFICES ASSUME t \notin doubt' PROVE Right(t)'
  BY DEF Right
<1>1. t \notin doubt
  OBVIOUS
<1>2. (OneComes(t) => OneComes(t)') /\ (NoneComes(t) => NoneComes(t)') /\ (OneGoes(t) => OneGoes(t)')
  BY DEF OneComes, NoneComes, OneGoes, SameNews
<1>3. Present(t)' = Present(t)
  BY DEF Present
<1>4. \A i \in Of(t)' : Present(t)' /\ (\A j \in Of(t)' : j <= i) => pipe'[i].status = row'[t]
  BY <1>1, <1>3 DEF Right, SameNews
<1>5. Of(t)' = {} /\ ~Sent(t)' => cards'[t] = Shown(row'[t])
  BY DEF SameNews
<1>6. Present(t)' =>
         /\ \A i \in Of(t)' : pipe'[i].kind # "deleted"
         /\ OneComes(t)' \/ (Len(cards'[t]) = 1 /\ NoneComes(t)')
  BY <1>1, <1>2, <1>3 DEF Right, SameNews
<1>7. row'[t] = "deleted" => OneGoes(t)' \/ (cards'[t] = <<>> /\ NoneComes(t)')
  BY <1>1, <1>2 DEF Right
<1>8. QED
  BY <1>4, <1>5, <1>6, <1>7 DEF Right

LEMMA RightKept ==
  ASSUME NEW t \in Tasks, Right(t), t \in doubt => t \in doubt', row'[t] = row[t],
         SameNews(t), cards'[t] = cards[t], Of(t) = {} /\ Sent(t) => Sent(t)'
  PROVE  Right(t)'
<1>1. t \notin doubt' /\ Of(t) = {} /\ ~Sent(t)' => cards'[t] = Shown(row[t])
  BY DEF Right
<1>2. QED
  BY <1>1, RightUpdated

(* The card of t is as it was or shows what it has had; its moves are as     *)
(* they were, but for dragged ones that are let go.                          *)
SameMoves(t) ==
  \A m \in Moves :
    /\ move'[m] # NoMove /\ move'[m].task = t => move'[m] = move[m]
    /\ Under(m) /\ move[m].task = t => move'[m] = move[m]
Honest(t) ==
  \A i \in DOMAIN cards'[t] :
    cards'[t][i] \in had[t] \/ \E j \in DOMAIN cards[t] : cards'[t][i] = cards[t][j]

LEMMA GuessedKept ==
  ASSUME NEW t \in Tasks, Guessed(t), row'[t] = row[t], had'[t] = had[t], Honest(t),
         t \in crossed => t \in crossed', SameMoves(t)
  PROVE  Guessed(t)'
<1> SUFFICES ASSUME t \notin crossed', Present(t)' PROVE Guessed(t)'
  BY DEF Guessed
<1>1. t \notin crossed /\ Present(t)
  BY DEF Present
<1>2. \A m \in Moves : Under(m)' /\ move'[m].task = t => Under(m) /\ move'[m] = move[m]
  BY DEF Under, SameMoves, NoMove
<1>3. Moved(t) => Moved(t)'
  BY DEF Moved, SameMoves, Under
<1>4. \A i \in DOMAIN cards'[t] : cards'[t][i] \in had'[t] \/ Guess(t, cards[t][i])'
  <2> TAKE i \in DOMAIN cards'[t]
  <2>1. cards'[t][i] \in had[t] \/ Guess(t, cards'[t][i])
    BY <1>1 DEF Guessed, Honest
  <2>2. Guess(t, cards'[t][i]) => Guess(t, cards[t][i])'
    BY DEF Guess, SameMoves, Under
  <2>3. QED
    BY <2>1, <2>2
<1>5. \A m \in Moves : move'[m] # NoMove /\ move'[m].task = t =>
         /\ Under(m)' => /\ move'[m].from \in had'[t]
                         /\ \A o \in Moves : Under(o)' /\ move'[o].task = t => o = m
         /\ move'[m].is = "applied" => move'[m].to \in had'[t]
         /\ move'[m].is = "dragged" => move'[m].from \in had'[t] \/ Moved(t)'
  BY <1>1, <1>2, <1>3 DEF Guessed, SameMoves
<1>6. QED
  BY <1>4, <1>5 DEF Guessed

LEMMA ComingIsOf ==
  ASSUME NEW t
  PROVE  Coming(t) <=> Of(t) # {}
BY DEF Coming, Of

LEMMA Unfold ==
  ASSUME BoardInv, NEW t \in Tasks
  PROVE  /\ Parameters /\ TypeOK
         /\ NoneKnown(t) /\ Known(t) /\ Right(t) /\ Guessed(t)
BY DEF BoardInv

(* A row has a status of the board or shows nothing. *)
LEMMA StatusOrGone ==
  ASSUME BoardInv, NEW t \in Tasks
  PROVE  /\ row[t] \in Statuses \/ row[t] = "none" \/ row[t] = "deleted"
         /\ row[t] \in Statuses => row[t] # "none" /\ row[t] # "deleted"
         /\ row[t] \notin Statuses => Shown(row[t]) = <<>>
BY Unfold DEF TypeOK, Rows, Parameters, Absent, Shown

Fine(t) == NoneKnown(t) /\ Known(t) /\ Right(t) /\ Guessed(t)

(* Neither rows, events, cards nor moves change.                             *)
LEMMA PlainStep ==
  ASSUME BoardInv, NEW t \in Tasks, FreshRows(t),
         UNCHANGED <<row, had, pipe, cards, move, crossed, doubt>>
  PROVE  Fine(t)'
<1>1. SameNews(t) /\ NoNews(t)
  BY DEF SameNews, NoNews, Of
<1>2. Honest(t) /\ (Sent(t) => Sent(t)') /\ SameMoves(t)
  BY DEF Honest, Sent, SameMoves
<1>3. NoneKnown(t)'
  BY <1>1, Unfold, NoneKept
<1>4. Known(t)'
  BY <1>1, Unfold, KnownKept
<1>5. Right(t)'
  BY <1>1, <1>2, Unfold, RightKept
<1>6. Guessed(t)'
  BY <1>2, Unfold, GuessedKept
<1>7. QED
  BY <1>3, <1>4, <1>5, <1>6 DEF Fine

LEMMA PlainActions ==
  ASSUME BoardInv, NEW t \in Tasks,
         \/ UNCHANGED vars
         \/ Attach \/ OnOpen \/ Break \/ Retry \/ Mount
         \/ \E f \in Fetches : fetchData(f) \/ Served(f) \/ FetchFails(f)
  PROVE  Fine(t)'
<1>1. UNCHANGED <<row, had, pipe, cards, move, crossed, doubt>>
  BY DEF vars, server, channel, moving, Attach, OnOpen, Break, Retry, Mount, fetchData, Served,
         FetchFails
<1>2. FreshRows(t)
  <2>1. CASE UNCHANGED vars \/ Attach \/ OnOpen \/ Break \/ Retry
    <3>1. UNCHANGED fetch
      BY <2>1 DEF vars, Attach, OnOpen, Break, Retry
    <3>2. QED
      BY <3>1 DEF FreshRows
  <2>2. CASE Mount
    BY <2>2 DEF FreshRows, Mount, Asked
  <2>3. ASSUME NEW f \in Fetches, fetchData(f) \/ FetchFails(f) PROVE FreshRows(t)
    <3>1. fetch \in [Fetches -> [is : {"answered"}, rows : Rows] \cup {NoFetch, Asked}]
      BY Unfold DEF TypeOK
    <3>2. \A o \in Fetches : fetch'[o] = fetch[o] \/ fetch'[o].is # "answered"
      BY <2>3, <3>1 DEF fetchData, FetchFails, NoFetch, Asked
    <3>3. QED
      BY <3>2 DEF FreshRows
  <2>4. ASSUME NEW f \in Fetches, Served(f) PROVE FreshRows(t)
    <3>1. fetch \in [Fetches -> [is : {"answered"}, rows : Rows] \cup {NoFetch, Asked}]
      BY Unfold DEF TypeOK
    <3>2. \A o \in Fetches : fetch'[o] = fetch[o] \/ fetch'[o] = [is |-> "answered", rows |-> row]
      BY <2>4, <3>1 DEF Served
    <3>3. QED
      BY <3>2 DEF FreshRows
  <2>5. QED
    BY <2>1, <2>2, <2>3, <2>4
<1>3. QED
  BY <1>1, <1>2, PlainStep

(* The stream ends: what had not arrived is in doubt.                        *)
LEMMA ErrorStep ==
  ASSUME BoardInv, NEW t \in Tasks, OnError
  PROVE  Fine(t)'
<1>1. UNCHANGED <<row, had, cards, fetch, move, crossed>>
  BY DEF OnError, server, moving
<1>2. pipe' = <<>> /\ doubt' = doubt \cup {o \in Tasks : Coming(o)}
  BY DEF OnError
<1>3. Of(t)' = {}
  BY <1>2 DEF Of
<1>4. NoNews(t) /\ FreshRows(t) /\ Honest(t)
  BY <1>1, <1>3 DEF NoNews, FreshRows, Honest
<1>5. Right(t)'
  <2>1. CASE t \in doubt'
    BY <2>1 DEF Right
  <2>2. CASE t \notin doubt'
    <3>1. Of(t) = {}
      BY <1>2, <2>2, ComingIsOf
    <3>2. SameNews(t) /\ (Sent(t) => Sent(t)')
      BY <1>1, <1>3, <3>1 DEF SameNews, Sent
    <3>3. QED
      BY <1>1, <2>2, <1>2, <3>2, Unfold, RightKept
  <2>3. QED
    BY <2>1, <2>2
<1>6. NoneKnown(t)'
  BY <1>1, <1>4, Unfold, NoneKept
<1>7. Known(t)'
  BY <1>1, <1>4, Unfold, KnownKept
<1>8. Guessed(t)'
  BY <1>1, <1>4, Unfold, GuessedKept DEF SameMoves
<1>9. QED
  BY <1>5, <1>6, <1>7, <1>8 DEF Fine

(* The answer of a fetch replaces the cards.                                 *)
LEMMA FetchedStep ==
  ASSUME BoardInv, NEW t \in Tasks, NEW f \in Fetches, Fetched(f)
  PROVE  Fine(t)'
<1>1. UNCHANGED <<row, had, pipe, move, crossed>>
  BY DEF Fetched, server, channel, moving
<1> DEFINE told == fetch[f].rows[t]
<1>2. /\ cards'[t] = Shown(told)
      /\ t \notin doubt' => told = row[t] /\ ~Coming(t)
      /\ fetch[f].is = "answered" /\ fetch' = [fetch EXCEPT ![f] = NoFetch]
  BY DEF Fetched, Replaced
<1>3. TypeOK /\ fetch \in [Fetches -> [is : {"answered"}, rows : Rows] \cup {NoFetch, Asked}]
  BY Unfold DEF TypeOK
<1>4. told \in Statuses \cup Absent
  BY <1>2, <1>3, FetchParts DEF Rows
<1>5. Statuses \cap Absent = {}
  BY Unfold DEF Parameters
<1>6. NoNews(t) /\ SameNews(t)
  BY <1>1 DEF NoNews, SameNews, Of
<1>7. FreshRows(t)
  <2>1. \A o \in Fetches : fetch'[o] = fetch[o] \/ fetch'[o].is # "answered"
    BY <1>2, <1>3 DEF NoFetch
  <2>2. QED
    BY <2>1 DEF FreshRows
<1>8. NoneKnown(t)'
  <2>1. row[t] = "none" => cards'[t] = <<>>
    BY <1>2, <1>5, Unfold DEF NoneKnown, Shown, Absent
  <2>2. QED
    BY <1>1, <1>6, <1>7, <2>1, Unfold DEF NoneKnown, NoNews, FreshRows
<1>9. Known(t)'
  BY <1>1, <1>6, <1>7, Unfold, KnownKept
<1>10. Right(t)'
  <2> SUFFICES ASSUME t \notin doubt' PROVE Right(t)'
    BY DEF Right
  <2>1. Of(t)' = {} /\ cards'[t] = Shown(row'[t])
    BY <1>1, <1>2, ComingIsOf DEF Of
  <2>2. NoneComes(t)'
    BY <2>1 DEF NoneComes
  <2>3. Present(t)' => Len(cards'[t]) = 1
    BY <2>1 DEF Present, Shown
  <2>4. row'[t] = "deleted" => cards'[t] = <<>>
    BY <1>5, <2>1 DEF Shown, Absent
  <2>5. QED
    BY <2>1, <2>2, <2>3, <2>4 DEF Right
<1>11. Guessed(t)'
  <2>1. CASE Present(t)
    <3>1. told \in Statuses => told \in had[t]
      BY <1>2, <2>1, Unfold DEF Known
    <3>2. Honest(t)
      BY <1>2, <3>1 DEF Honest, Shown
    <3>3. QED
      BY <1>1, <3>2, Unfold, GuessedKept DEF SameMoves
  <2>2. CASE ~Present(t)
    BY <1>1, <2>2 DEF Guessed, Present
  <2>3. QED
    BY <2>1, <2>2
<1>12. QED
  BY <1>8, <1>9, <1>10, <1>11 DEF Fine

--------------------------------------------------------------------------------
(* Events *)

(* What a broadcast does to the events of each task. *)
LEMMA EventAdded ==
  ASSUME TypeOK, NEW u \in Tasks, NEW kind, NEW status,
         \/ kind \in {"created", "changed"} /\ status \in Statuses
         \/ kind = "deleted" /\ status = "deleted",
         pipe' = Append(pipe, [task |-> u, kind |-> kind, status |-> status])
  PROVE  /\ \A t \in Tasks : \A i \in Of(t) : pipe'[i] = pipe[i] /\ i < Len(pipe) + 1
         /\ \A t \in Tasks \ {u} : Of(t)' = Of(t)
         /\ Of(u)' = Of(u) \cup {Len(pipe) + 1}
         /\ pipe'[Len(pipe) + 1] = [task |-> u, kind |-> kind, status |-> status]
<1> DEFINE e == [task |-> u, kind |-> kind, status |-> status]
<1>1. e \in Events /\ pipe \in Seq(Events) /\ e.task = u
  BY DEF Events, TypeOK
<1>2. pipe' = Append(pipe, e)
  OBVIOUS
<1> HIDE DEF e
<1>3. /\ DOMAIN pipe' = 1..(Len(pipe) + 1) /\ DOMAIN pipe = 1..Len(pipe) /\ Len(pipe) \in Nat
      /\ \A i \in DOMAIN pipe : pipe'[i] = pipe[i]
      /\ pipe'[Len(pipe) + 1] = e
  BY <1>1, <1>2, Appended
<1>4. \A t \in Tasks : \A i \in Of(t) : pipe'[i] = pipe[i] /\ i < Len(pipe) + 1
  BY <1>3 DEF Of
<1>5. \A t \in Tasks \ {u} : Of(t)' = Of(t)
  BY <1>1, <1>3 DEF Of
<1>6. Of(u)' = Of(u) \cup {Len(pipe) + 1}
  BY <1>1, <1>3 DEF Of
<1>7. QED
  BY <1>3, <1>4, <1>5, <1>6 DEF e

(* The first event is taken: those behind move up.                           *)
LEMMA EventTaken ==
  ASSUME TypeOK, OnMessage
  PROVE  /\ Head(pipe) \in Events /\ 1 \in Of(Head(pipe).task) /\ pipe[1] = Head(pipe)
         /\ \A t \in Tasks : Of(t) \subseteq Nat \ {0} /\ Of(t)' \subseteq Nat \ {0}
         /\ \A t \in Tasks : 1 \in Of(t) => t = Head(pipe).task
         /\ \A t \in Tasks : \A i \in Of(t)' : i + 1 \in Of(t) /\ i > 0 /\ pipe'[i] = pipe[i + 1]
         /\ \A t \in Tasks : \A i \in Of(t) \ {1} : i - 1 \in Of(t)' /\ pipe'[i - 1] = pipe[i]
<1>1. pipe \in Seq(Events) /\ pipe # <<>> /\ pipe' = Tail(pipe)
  BY DEF TypeOK, OnMessage
<1>2. /\ Head(pipe) \in Events /\ Head(pipe) = pipe[1]
      /\ DOMAIN pipe = 1..Len(pipe) /\ Len(pipe) \in Nat /\ Len(pipe) >= 1
      /\ DOMAIN pipe' = 1..(Len(pipe) - 1)
      /\ \A i \in DOMAIN pipe' : pipe'[i] = pipe[i + 1]
  BY <1>1, Taken
<1>3. 1 \in Of(Head(pipe).task) /\ \A t \in Tasks : 1 \in Of(t) => t = Head(pipe).task
  BY <1>2 DEF Of
<1>4. \A t \in Tasks : Of(t) \subseteq Nat \ {0} /\ Of(t)' \subseteq Nat \ {0}
  BY <1>2 DEF Of
<1>5. \A t \in Tasks : \A i \in Of(t)' : i + 1 \in Of(t) /\ i > 0 /\ pipe'[i] = pipe[i + 1]
  BY <1>2 DEF Of
<1>6. \A t \in Tasks : \A i \in Of(t) \ {1} : i - 1 \in Of(t)' /\ pipe'[i - 1] = pipe[i]
  <2> TAKE t \in Tasks
  <2> TAKE i \in Of(t) \ {1}
  <2>1. i \in 2..Len(pipe) /\ pipe[i].task = t
    BY <1>2 DEF Of
  <2>2. i - 1 \in DOMAIN pipe' /\ (i - 1) + 1 = i
    BY <1>2, <2>1
  <2>3. pipe'[i - 1] = pipe[i]
    BY <1>2, <2>2
  <2>4. QED
    BY <2>1, <2>2, <2>3 DEF Of
<1>7. QED
  BY <1>2, <1>3, <1>4, <1>5, <1>6

(* A write or a move that is applied concerns one task.                      *)
LEMMA OthersRest ==
  ASSUME BoardInv, NEW u \in Tasks, NEW kind, NEW status, NEW t \in Tasks \ {u},
         \/ kind \in {"created", "changed"} /\ status \in Statuses
         \/ kind = "deleted" /\ status = "deleted",
         Told(u, kind, status)
  PROVE  SameNews(t) /\ NoNews(t) /\ (t \in doubt' <=> t \in doubt)
<1>1. t \in doubt' <=> t \in doubt
  BY DEF Told, Broadcast
<1>2. CASE pipe' = pipe
  BY <1>1, <1>2 DEF SameNews, NoNews, Of
<1>3. CASE pipe' = Append(pipe, [task |-> u, kind |-> kind, status |-> status])
  <2>1. TypeOK
    BY Unfold
  <2>2. Of(t)' = Of(t) /\ \A i \in Of(t) : pipe'[i] = pipe[i]
    BY <1>3, <2>1, EventAdded
  <2>3. QED
    BY <1>1, <2>2 DEF SameNews, NoNews
<1>4. QED
  BY <1>2, <1>3 DEF Told, Broadcast

LEMMA MessageOther ==
  ASSUME BoardInv, OnMessage, NEW t \in Tasks \ {Head(pipe).task}
  PROVE  Fine(t)'
<1>1. TypeOK /\ UNCHANGED <<row, had, fetch, move, crossed, doubt>>
  BY Unfold DEF OnMessage, server, moving
<1>2. cards'[t] = cards[t]
  BY <1>1, EventTaken, MessageCards DEF OnMessage
<1>3. NoNews(t) /\ FreshRows(t) /\ Honest(t)
  BY <1>1, <1>2, EventTaken DEF NoNews, FreshRows, Honest
<1>4. Sent(t)' = Sent(t) /\ Present(t)' = Present(t)
  BY <1>1 DEF Sent, Present
<1>5. /\ \A i \in Of(t)' : i + 1 \in Of(t) /\ i > 0 /\ pipe'[i] = pipe[i + 1]
      /\ \A i \in Of(t) : i - 1 \in Of(t)' /\ pipe'[i - 1] = pipe[i]
      /\ Of(t) \subseteq Nat \ {0} /\ Of(t)' \subseteq Nat \ {0}
  BY <1>1, EventTaken
<1>6. Right(t)'
  <2> SUFFICES ASSUME t \notin doubt' PROVE Right(t)'
    BY DEF Right
  <2>1. Right(t) /\ t \notin doubt
    BY <1>1, Unfold
  <2>2. \A i \in Of(t)' : Present(t)' /\ (\A j \in Of(t)' : j <= i) => pipe'[i].status = row'[t]
    <3> SUFFICES ASSUME NEW i \in Of(t)', Present(t), \A j \in Of(t)' : j <= i
                 PROVE  pipe'[i].status = row[t]
      BY <1>1, <1>4
    <3>1. i + 1 \in Of(t) /\ i \in Nat
      BY <1>5
    <3>2. ASSUME NEW j \in Of(t) PROVE j <= i + 1
      <4>1. j - 1 <= i /\ j \in Nat
        BY <1>5
      <4>2. QED
        BY <3>1, <4>1
    <3>3. QED
      BY <1>5, <2>1, <3>1, <3>2 DEF Right
  <2>3. Of(t)' = {} => Of(t) = {}
    BY <1>5
  <2>4. OneComes(t) => OneComes(t)'
    <3> SUFFICES ASSUME OneComes(t) PROVE OneComes(t)'
      OBVIOUS
    <3>1. PICK i \in Of(t) : \A j \in Of(t) : pipe[j].kind = "created" <=> j = i
      BY DEF OneComes
    <3>2. i - 1 \in Of(t)'
      BY <1>5
    <3>3. ASSUME NEW j \in Of(t)' PROVE pipe'[j].kind = "created" <=> j = i - 1
      <4>1. j + 1 \in Of(t) /\ j \in Nat /\ i \in Nat /\ pipe'[j] = pipe[j + 1]
        BY <1>5
      <4>2. QED
        BY <3>1, <4>1
    <3>4. cards'[t] = <<>>
      BY <1>2 DEF OneComes
    <3>5. QED
      BY <3>2, <3>3, <3>4 DEF OneComes
  <2>5. NoneComes(t) => NoneComes(t)'
    BY <1>5 DEF NoneComes
  <2>6. OneGoes(t) => OneGoes(t)'
    <3> SUFFICES ASSUME OneGoes(t) PROVE OneGoes(t)'
      OBVIOUS
    <3>1. PICK i \in Of(t) : pipe[i].kind = "deleted" /\ \A j \in Of(t) : pipe[j].kind = "created" => j < i
      BY DEF OneGoes
    <3>2. i - 1 \in Of(t)' /\ pipe'[i - 1].kind = "deleted"
      BY <1>5, <3>1
    <3>3. ASSUME NEW j \in Of(t)', pipe'[j].kind = "created" PROVE j < i - 1
      <4>1. j + 1 \in Of(t) /\ j \in Nat /\ i \in Nat /\ pipe'[j] = pipe[j + 1]
        BY <1>5
      <4>2. QED
        BY <3>1, <3>3, <4>1
    <3>4. QED
      BY <3>2, <3>3 DEF OneGoes
  <2>7. \A i \in Of(t)' : Present(t)' => pipe'[i].kind # "deleted"
    BY <1>4, <1>5, <2>1 DEF Right
  <2>8. QED
    BY <1>1, <1>2, <1>4, <2>1, <2>2, <2>3, <2>4, <2>5, <2>6, <2>7 DEF Right
<1>7. NoneKnown(t)'
  BY <1>1, <1>2, <1>3, Unfold, NoneKept
<1>8. Known(t)'
  BY <1>1, <1>3, Unfold, KnownKept
<1>9. Guessed(t)'
  BY <1>1, <1>3, Unfold, GuessedKept DEF SameMoves
<1>10. QED
  BY <1>6, <1>7, <1>8, <1>9 DEF Fine

(* The task whose event is taken. *)
LEMMA MessageOwn ==
  ASSUME BoardInv, OnMessage, NEW t \in Tasks, t = Head(pipe).task
  PROVE  Fine(t)'
<1> DEFINE e == Head(pipe)
<1>1. TypeOK /\ UNCHANGED <<row, had, fetch, move, crossed, doubt>> /\ cards' = After(e)
  BY Unfold DEF OnMessage, server, moving
<1>2. e \in Events /\ 1 \in Of(t) /\ pipe[1] = e /\ e.task = t
  BY <1>1, EventTaken
<1>3. /\ \A i \in Of(t)' : i + 1 \in Of(t) /\ pipe'[i] = pipe[i + 1]
      /\ \A i \in Of(t) \ {1} : i - 1 \in Of(t)' /\ pipe'[i - 1] = pipe[i]
      /\ Of(t) \subseteq Nat \ {0} /\ Of(t)' \subseteq Nat \ {0}
  BY <1>1, EventTaken
<1>4. cards[t] \in Seq(Statuses)
  BY <1>1 DEF TypeOK
<1>5. \/ e.kind = "created" /\ e.status \in Statuses /\ cards'[t] = <<e.status>> \o cards[t]
      \/ /\ e.kind = "changed" /\ e.status \in Statuses
         /\ Len(cards'[t]) = Len(cards[t]) /\ DOMAIN cards'[t] = DOMAIN cards[t]
         /\ cards[t] = <<>> => cards'[t] = <<>>
         /\ \A i \in DOMAIN cards[t] : cards'[t][i] = e.status
         /\ Len(cards[t]) = 1 => cards'[t] = <<e.status>>
      \/ e.kind = "deleted" /\ cards'[t] = <<>>
  <2>1. CASE e.kind = "created"
    BY <1>1, <1>2, <2>1, EventTypes, MessageCards
  <2>2. CASE e.kind = "changed"
    <3>1. e.status \in Statuses /\ cards' = updateTask(t, e.status)
      BY <1>1, <1>2, <2>2, EventTypes, MessageCards
    <3> HIDE DEF e
    <3>2. QED
      BY <1>1, <2>2, <3>1, Updated
  <2>3. CASE e.kind = "deleted"
    BY <1>1, <1>2, <2>3, MessageCards
  <2>4. QED
    BY <1>2, <2>1, <2>2, <2>3, EventTypes
<1> HIDE DEF e
<1>6. NoNews(t) /\ FreshRows(t) /\ SameMoves(t)
  BY <1>1, <1>3 DEF NoNews, FreshRows, SameMoves
<1>7. row[t] # "none"
  BY <1>2, Unfold DEF NoneKnown
<1>8. Known(t)'
  BY <1>1, <1>6, Unfold, KnownKept
<1>9. Guessed(t)'
  <2>1. CASE ~Present(t)
    BY <1>1, <2>1 DEF Guessed, Present
  <2>2. CASE Present(t)
    <3>1. e.kind # "deleted" => e.status \in had[t]
      BY <1>2, <2>2, Unfold DEF Known
    <3>2. Honest(t)
      <4>1. CASE e.kind = "created"
        <5>1. cards'[t] = <<e.status>> \o cards[t]
          BY <1>5, <4>1
        <5>2. \A i \in DOMAIN cards'[t] :
                cards'[t][i] = e.status \/ \E j \in DOMAIN cards[t] : cards'[t][i] = cards[t][j]
          <6> TAKE i \in DOMAIN cards'[t]
          <6>1. CASE i = 1
            BY <1>4, <5>1, <6>1
          <6>2. CASE i # 1
            <7>1. i - 1 \in DOMAIN cards[t] /\ cards'[t][i] = cards[t][i - 1]
              BY <1>4, <5>1, <6>2
            <7>2. QED
              BY <7>1
          <6>3. QED
            BY <6>1, <6>2
        <5>3. QED
          BY <3>1, <4>1, <5>2 DEF Honest
      <4>2. CASE e.kind = "changed"
        BY <1>5, <3>1, <4>2 DEF Honest
      <4>3. CASE e.kind = "deleted"
        BY <1>5, <4>3 DEF Honest
      <4>4. QED
        BY <1>5, <4>1, <4>2, <4>3
    <3>3. QED
      BY <1>1, <1>6, <3>2, Unfold, GuessedKept
  <2>3. QED
    BY <2>1, <2>2
<1>10. Right(t)'
  <2> SUFFICES ASSUME t \notin doubt' PROVE Right(t)'
    BY DEF Right
  <2>1. Right(t) /\ t \notin doubt /\ Present(t)' = Present(t)
    BY <1>1, Unfold DEF Present
  <2>2. \A i \in Of(t)' : Present(t)' /\ (\A j \in Of(t)' : j <= i) => pipe'[i].status = row'[t]
    <3> SUFFICES ASSUME NEW i \in Of(t)', Present(t), \A j \in Of(t)' : j <= i
                 PROVE  pipe'[i].status = row[t]
      BY <1>1, <2>1
    <3>1. i + 1 \in Of(t) /\ i \in Nat
      BY <1>3
    <3>2. ASSUME NEW j \in Of(t) PROVE j <= i + 1
      <4>1. j \in Nat /\ (j # 1 => j - 1 <= i)
        BY <1>3
      <4>2. QED
        BY <3>1, <4>1
    <3>3. QED
      BY <1>3, <2>1, <3>1, <3>2 DEF Right
  <2>3. CASE Present(t)
    <3>1. \A i \in Of(t)' : pipe'[i].kind # "deleted"
      BY <1>3, <2>1, <2>3 DEF Right
    <3>2. e.kind # "deleted"
      BY <1>2, <2>1, <2>3 DEF Right
    <3>3. CASE e.kind = "created"
      <4>1. OneComes(t)
        BY <1>2, <2>1, <2>3, <3>3 DEF Right, NoneComes
      <4>2. cards[t] = <<>> /\ \A j \in Of(t) : pipe[j].kind = "created" => j = 1
        BY <1>2, <3>3, <4>1 DEF OneComes
      <4>3. cards'[t] = <<e.status>>
        BY <1>5, <3>3, <4>2
      <4>4. NoneComes(t)'
        <5>1. \A j \in Of(t)' : j + 1 # 1
          BY <1>3
        <5>2. QED
          BY <1>3, <4>2, <5>1 DEF NoneComes
      <4>5. Of(t)' = {} => e.status = row[t]
        <5>1. Of(t)' = {} => \A j \in Of(t) : j <= 1
          BY <1>3
        <5>2. QED
          BY <1>2, <2>1, <2>3, <5>1 DEF Right
      <4>6. QED
        BY <1>1, <2>1, <2>2, <2>3, <3>1, <4>3, <4>4, <4>5, StatusOrGone DEF Right, Shown, Present
    <3>4. CASE e.kind = "changed"
      <4>1. OneComes(t) => OneComes(t)'
        <5> SUFFICES ASSUME OneComes(t) PROVE OneComes(t)'
          OBVIOUS
        <5>1. PICK i \in Of(t) : \A j \in Of(t) : pipe[j].kind = "created" <=> j = i
          BY DEF OneComes
        <5>2. i # 1 /\ i - 1 \in Of(t)'
          BY <1>2, <1>3, <3>4, <5>1
        <5>3. ASSUME NEW j \in Of(t)' PROVE pipe'[j].kind = "created" <=> j = i - 1
          <6>1. j + 1 \in Of(t) /\ j \in Nat /\ i \in Nat /\ pipe'[j] = pipe[j + 1]
            BY <1>3
          <6>2. QED
            BY <5>1, <6>1
        <5>4. cards'[t] = <<>>
          BY <1>5, <3>4 DEF OneComes
        <5>5. QED
          BY <5>2, <5>3, <5>4 DEF OneComes
      <4>2. NoneComes(t) => NoneComes(t)'
        BY <1>3 DEF NoneComes
      <4>3. Of(t)' = {} => cards'[t] = <<row[t]>>
        <5> SUFFICES ASSUME Of(t)' = {} PROVE cards'[t] = <<row[t]>>
          OBVIOUS
        <5>1. \A j \in Of(t) : j = 1
          BY <1>3
        <5>2. e.status = row[t]
          BY <1>2, <2>1, <2>3, <5>1 DEF Right
        <5>3. ~OneComes(t)
          BY <1>2, <3>4, <5>1 DEF OneComes
        <5>4. QED
          BY <1>5, <2>1, <2>3, <3>4, <5>2, <5>3 DEF Right
      <4>4. OneComes(t)' \/ (Len(cards'[t]) = 1 /\ NoneComes(t)')
        BY <1>5, <2>1, <2>3, <3>4, <4>1, <4>2 DEF Right
      <4>5. QED
        BY <1>1, <2>1, <2>2, <2>3, <3>1, <4>3, <4>4, StatusOrGone DEF Right, Shown, Present
    <3>5. QED
      BY <1>5, <3>2, <3>3, <3>4
  <2>4. CASE ~Present(t)
    <3>1. row[t] = "deleted" /\ Shown(row[t]) = <<>>
      BY <1>1, <1>7, <2>4 DEF TypeOK, Rows, Absent, Present, Shown
    <3>2. OneGoes(t)' \/ (cards'[t] = <<>> /\ NoneComes(t)')
      <4>1. CASE OneGoes(t)
        <5>1. PICK i \in Of(t) :
                pipe[i].kind = "deleted" /\ \A j \in Of(t) : pipe[j].kind = "created" => j < i
          BY <4>1 DEF OneGoes
        <5>2. CASE i = 1
          <6>1. cards'[t] = <<>>
            BY <1>2, <1>5, <5>1, <5>2
          <6>2. NoneComes(t)'
            <7>1. \A j \in Of(t) : pipe[j].kind # "created"
              BY <1>3, <5>1, <5>2
            <7>2. QED
              BY <1>3, <7>1 DEF NoneComes
          <6>3. QED
            BY <6>1, <6>2
        <5>3. CASE i # 1
          <6>1. i - 1 \in Of(t)' /\ pipe'[i - 1].kind = "deleted"
            BY <1>3, <5>1, <5>3
          <6>2. ASSUME NEW j \in Of(t)', pipe'[j].kind = "created" PROVE j < i - 1
            <7>1. j + 1 \in Of(t) /\ j \in Nat /\ i \in Nat /\ pipe'[j] = pipe[j + 1]
              BY <1>3
            <7>2. QED
              BY <5>1, <6>2, <7>1
          <6>3. QED
            BY <6>1, <6>2 DEF OneGoes
        <5>4. QED
          BY <5>2, <5>3
      <4>2. CASE cards[t] = <<>> /\ NoneComes(t)
        <5>1. NoneComes(t)' /\ e.kind # "created"
          BY <1>2, <1>3, <4>2 DEF NoneComes
        <5>2. QED
          BY <1>5, <4>2, <5>1
      <4>3. QED
        BY <2>1, <3>1, <4>1, <4>2 DEF Right
    <3>3. Of(t)' = {} => cards'[t] = <<>>
      BY <3>2 DEF OneGoes
    <3>4. QED
      BY <1>1, <2>1, <2>2, <2>4, <3>1, <3>2, <3>3 DEF Right
  <2>5. QED
    BY <2>3, <2>4
<1>11. NoneKnown(t)'
  BY <1>1, <1>7 DEF NoneKnown
<1>12. QED
  BY <1>8, <1>9, <1>10, <1>11 DEF Fine

--------------------------------------------------------------------------------
(* Writes *)

LEMMA WriteOther ==
  ASSUME BoardInv, NEW u \in Tasks, NEW kind, NEW status, NEW t \in Tasks \ {u},
         \/ kind \in {"created", "changed"} /\ status \in Statuses
         \/ kind = "deleted" /\ status = "deleted",
         Write(u, kind, status)
  PROVE  Fine(t)'
<1>1. row'[t] = row[t] /\ had'[t] = had[t]
  BY Unfold DEF Write, TypeOK, Rows
<1>2. UNCHANGED <<cards, fetch, move, crossed>> /\ Told(u, kind, status)
  BY DEF Write, moving
<1>3. SameNews(t) /\ NoNews(t) /\ (t \in doubt' <=> t \in doubt)
  BY <1>2, OthersRest
<1>4. FreshRows(t) /\ Honest(t) /\ SameMoves(t) /\ Sent(t)' = Sent(t)
  BY <1>2 DEF FreshRows, Honest, SameMoves, Sent
<1>5. NoneKnown(t)'
  BY <1>1, <1>2, <1>3, <1>4, Unfold, NoneKept
<1>6. Known(t)'
  BY <1>1, <1>3, <1>4, Unfold, KnownKept
<1>7. Right(t)'
  BY <1>1, <1>2, <1>3, <1>4, Unfold, RightKept
<1>8. Guessed(t)'
  BY <1>1, <1>2, <1>4, Unfold, GuessedKept
<1>9. QED
  BY <1>5, <1>6, <1>7, <1>8 DEF Fine

(* What is told to the task of the write itself: it is in doubt, or its      *)
(* event is the last.                                                        *)
LEMMA ToldOwn ==
  ASSUME TypeOK, NEW t \in Tasks, NEW kind, NEW status, Told(t, kind, status),
         \/ kind \in {"created", "changed"} /\ status \in Statuses
         \/ kind = "deleted" /\ status = "deleted"
  PROVE  \/ t \in doubt' /\ pipe' = pipe
         \/ /\ doubt' = doubt
            /\ Len(pipe) \in Nat
            /\ \A i \in Of(t) : pipe'[i] = pipe[i] /\ i < Len(pipe) + 1
            /\ Of(t)' = Of(t) \cup {Len(pipe) + 1}
            /\ pipe'[Len(pipe) + 1].kind = kind /\ pipe'[Len(pipe) + 1].status = status
<1>1. Len(pipe) \in Nat
  BY DEF TypeOK
<1>2. CASE attached /\ Broadcast(t, kind, status)
  <2>1. pipe' = Append(pipe, [task |-> t, kind |-> kind, status |-> status]) /\ doubt' = doubt
    BY <1>2 DEF Broadcast
  <2>2. /\ \A i \in Of(t) : pipe'[i] = pipe[i] /\ i < Len(pipe) + 1
        /\ Of(t)' = Of(t) \cup {Len(pipe) + 1}
        /\ pipe'[Len(pipe) + 1] = [task |-> t, kind |-> kind, status |-> status]
    <3>1. \A o \in Tasks : \A i \in Of(o) : pipe'[i] = pipe[i] /\ i < Len(pipe) + 1
      BY <2>1, EventAdded
    <3>2. Of(t)' = Of(t) \cup {Len(pipe) + 1}
      BY <2>1, EventAdded
    <3>3. pipe'[Len(pipe) + 1] = [task |-> t, kind |-> kind, status |-> status]
      BY <2>1, EventAdded
    <3>4. QED
      BY <3>1, <3>2, <3>3
  <2>3. pipe'[Len(pipe) + 1].kind = kind /\ pipe'[Len(pipe) + 1].status = status
    BY <2>2
  <2>4. QED
    BY <1>1, <2>1, <2>2, <2>3
<1>3. CASE ~attached \/ ~Broadcast(t, kind, status)
  BY <1>3 DEF Told, Broadcast
<1>4. QED
  BY <1>2, <1>3

(* The event of a change neither makes a card nor removes it. *)
LEMMA ChangeTold ==
  ASSUME NEW t \in Tasks, NEW n \in Nat, Of(t) \subseteq Nat,
         \A i \in Of(t) : pipe'[i] = pipe[i] /\ i < n,
         Of(t)' = Of(t) \cup {n}, pipe'[n].kind = "changed", cards'[t] = cards[t]
  PROVE  /\ OneComes(t) => OneComes(t)'
         /\ NoneComes(t) => NoneComes(t)'
         /\ OneGoes(t) => OneGoes(t)'
<1>1. n \notin Of(t)
  OBVIOUS
<1>2. ASSUME OneComes(t) PROVE OneComes(t)'
  <2>1. PICK i \in Of(t) : \A j \in Of(t) : pipe[j].kind = "created" <=> j = i
    BY <1>2 DEF OneComes
  <2>2. \A j \in Of(t)' : pipe'[j].kind = "created" <=> j = i
    BY <1>1, <2>1
  <2>3. QED
    BY <1>2, <2>1, <2>2 DEF OneComes
<1>3. ASSUME NoneComes(t) PROVE NoneComes(t)'
  BY <1>3 DEF NoneComes
<1>4. ASSUME OneGoes(t) PROVE OneGoes(t)'
  <2>1. PICK i \in Of(t) :
          pipe[i].kind = "deleted" /\ \A j \in Of(t) : pipe[j].kind = "created" => j < i
    BY <1>4 DEF OneGoes
  <2>2. i \in Of(t)' /\ pipe'[i].kind = "deleted"
    BY <2>1
  <2>3. \A j \in Of(t)' : pipe'[j].kind = "created" => j < i
    BY <1>1, <2>1
  <2>4. QED
    BY <2>2, <2>3 DEF OneGoes
<1>5. QED
  BY <1>2, <1>3, <1>4

LEMMA OfIsNat == ASSUME TypeOK, NEW t PROVE Of(t) \subseteq Nat
BY DEF TypeOK, Of

LEMMA WriteOwn ==
  ASSUME BoardInv, NEW t \in Tasks, NEW status \in Statuses,
         CreateTask(t, status) \/ ChangeTask(t, status) \/ DeleteTask(t)
  PROVE  Fine(t)'
<1>1. PICK kind \in {"created", "changed", "deleted"} :
        \/ kind = "created" /\ row[t] = "none" /\ Write(t, kind, status)
        \/ kind = "changed" /\ Present(t) /\ Write(t, kind, status)
        \/ kind = "deleted" /\ Present(t) /\ Write(t, kind, "deleted")
  BY DEF CreateTask, ChangeTask, DeleteTask
<1> DEFINE new == IF kind = "deleted" THEN "deleted" ELSE status
<1>2. Write(t, kind, new)
  BY <1>1
<1>3. TypeOK /\ Statuses \cap Absent = {} /\ Of(t) \subseteq Nat
  BY Unfold, OfIsNat DEF Parameters
<1>4. UNCHANGED <<cards, fetch, move, crossed>>
  BY <1>2 DEF Write, moving
<1>5. row'[t] = new /\ had[t] \subseteq had'[t] /\ (kind # "deleted" => status \in had'[t])
  BY <1>2, <1>3 DEF Write, TypeOK, Rows
<1>6. \/ t \in doubt' /\ pipe' = pipe
      \/ /\ doubt' = doubt
         /\ Len(pipe) \in Nat
         /\ \A i \in Of(t) : pipe'[i] = pipe[i] /\ i < Len(pipe) + 1
         /\ Of(t)' = Of(t) \cup {Len(pipe) + 1}
         /\ pipe'[Len(pipe) + 1].kind = kind /\ pipe'[Len(pipe) + 1].status = new
  <2>1. Told(t, kind, new)
    BY <1>2 DEF Write
  <2>2. \/ kind \in {"created", "changed"} /\ new \in Statuses
        \/ kind = "deleted" /\ new = "deleted"
    BY <1>1
  <2> HIDE DEF new
  <2>3. QED
    BY <1>3, <2>1, <2>2, ToldOwn
<1>7. NoneKnown(t) /\ Known(t) /\ Right(t) /\ Guessed(t)
  BY Unfold
<1>8. NoneKnown(t)'
  <2>1. row'[t] # "none"
    BY <1>3, <1>5 DEF Absent
  <2>2. QED
    BY <2>1 DEF NoneKnown
<1>9. kind = "created" => cards[t] = <<>> /\ Of(t) = {} /\ ~Present(t)
  BY <1>1, <1>3, <1>7 DEF NoneKnown, Present, Absent
<1>10. kind = "deleted" => ~Present(t)'
  BY <1>3, <1>5 DEF Present, Absent
<1>11. Known(t)'
  <2>1. CASE kind = "deleted"
    BY <1>10, <2>1 DEF Known
  <2>2. CASE kind = "changed"
    <3>1. Present(t)
      BY <1>1, <2>2
    <3>2. \A i \in Of(t)' : pipe'[i].kind # "deleted" => pipe'[i].status \in had'[t]
      BY <1>5, <1>6, <1>7, <2>2, <3>1 DEF Known, Of
    <3>3. QED
      BY <1>4, <1>5, <1>7, <2>2, <3>1, <3>2 DEF Known
  <2>3. CASE kind = "created"
    <3>1. \A i \in Of(t)' : pipe'[i].kind # "deleted" => pipe'[i].status \in had'[t]
      BY <1>5, <1>6, <1>9, <2>3 DEF Of
    <3>2. \A f \in Fetches : fetch'[f].is = "answered" => fetch'[f].rows[t] \notin Statuses
      BY <1>1, <1>3, <1>4, <1>7, <2>3 DEF NoneKnown, Absent, Present
    <3>3. QED
      BY <1>5, <2>3, <3>1, <3>2 DEF Known
  <2>4. QED
    BY <1>1, <2>1, <2>2, <2>3
<1>12. Guessed(t)'
  <2>1. CASE kind = "deleted"
    BY <1>10, <2>1 DEF Guessed
  <2>2. CASE kind = "changed"
    <3>1. Present(t)
      BY <1>1, <2>2
    <3>2. \A i \in DOMAIN cards[t] : Guess(t, cards[t][i]) => Guess(t, cards[t][i])'
      BY <1>4 DEF Guess, Under
    <3>3. Moved(t)' = Moved(t) /\ \A m \in Moves : Under(m)' = Under(m)
      BY <1>4 DEF Moved, Under
    <3>4. QED
      BY <1>4, <1>5, <1>7, <3>1, <3>2, <3>3 DEF Guessed
  <2>3. CASE kind = "created"
    <3>1. cards'[t] = <<>> /\ \A m \in Moves : move'[m] # NoMove => move'[m].task # t
      BY <1>1, <1>4, <1>7, <1>9, <2>3 DEF NoneKnown, Present
    <3>2. QED
      BY <3>1 DEF Guessed
  <2>4. QED
    BY <1>1, <2>1, <2>2, <2>3
<1>13. Right(t)'
  <2> SUFFICES ASSUME t \notin doubt' PROVE Right(t)'
    BY DEF Right
  <2> DEFINE n == Len(pipe) + 1
  <2>1. /\ doubt' = doubt /\ n \in Nat
        /\ \A i \in Of(t) : pipe'[i] = pipe[i] /\ i < n
        /\ Of(t)' = Of(t) \cup {n}
        /\ pipe'[n].kind = kind /\ pipe'[n].status = row'[t]
    BY <1>5, <1>6
  <2> HIDE DEF n, new
  <2>2. n \in Of(t)' /\ n \notin Of(t)
    BY <2>1
  <2>3. \A i \in Of(t)' : (\A j \in Of(t)' : j <= i) => pipe'[i].status = row'[t]
    <3> SUFFICES ASSUME NEW i \in Of(t)', n <= i PROVE i = n
      BY <2>1, <2>2
    <3>1. QED
      BY <1>3, <2>1
  <2>4. CASE kind = "created"
    <3>1. OneComes(t)'
      BY <1>4, <1>9, <2>1, <2>4 DEF OneComes
    <3>2. row'[t] # "deleted" /\ \A i \in Of(t)' : pipe'[i].kind # "deleted"
      BY <1>3, <1>5, <1>9, <2>1, <2>4 DEF new, Absent
    <3>3. QED
      BY <2>2, <2>3, <3>1, <3>2 DEF Right
  <2>5. CASE kind = "changed"
    <3>1. Present(t) /\ t \notin doubt
      BY <1>1, <2>1, <2>5
    <3>2. (OneComes(t) => OneComes(t)') /\ (NoneComes(t) => NoneComes(t)')
      BY <1>3, <1>4, <2>1, <2>5, ChangeTold
    <3>3. OneComes(t)' \/ (Len(cards'[t]) = 1 /\ NoneComes(t)')
      BY <1>4, <1>7, <3>1, <3>2 DEF Right
    <3>4. row'[t] # "deleted" /\ \A i \in Of(t)' : pipe'[i].kind # "deleted"
      BY <1>3, <1>5, <1>7, <2>1, <2>5, <3>1 DEF new, Absent, Right
    <3>5. QED
      BY <2>2, <2>3, <3>3, <3>4 DEF Right
  <2>6. CASE kind = "deleted"
    <3>1. OneGoes(t)'
      <4>1. \A j \in Of(t)' : pipe'[j].kind = "created" => j < n
        BY <2>1, <2>6
      <4>2. QED
        BY <2>1, <2>2, <2>6, <4>1 DEF OneGoes
    <3>2. QED
      BY <1>10, <2>2, <2>3, <2>6, <3>1 DEF Right
  <2>7. QED
    BY <1>1, <2>4, <2>5, <2>6
<1>14. QED
  BY <1>8, <1>11, <1>12, <1>13 DEF Fine

LEMMA WriteStep ==
  ASSUME BoardInv, NEW t \in Tasks, NEW u \in Tasks, NEW status \in Statuses,
         CreateTask(u, status) \/ ChangeTask(u, status) \/ DeleteTask(u)
  PROVE  Fine(t)'
<1>1. CASE t = u
  BY <1>1, WriteOwn
<1>2. CASE t # u
  BY <1>2, WriteOther DEF CreateTask, ChangeTask, DeleteTask
<1>3. QED
  BY <1>1, <1>2

--------------------------------------------------------------------------------
(* Moves *)

LEMMA UnderIs ==
  ASSUME TypeOK, NEW m \in Moves
  PROVE  /\ Under(m) <=> move[m].is \in {"checking", "sent", "applied"}
         /\ Under(m) => move[m] # NoMove
         /\ move[m] # NoMove => Under(m) \/ move[m].is = "dragged"
BY MoveParts DEF Under

(* A task with a move, or with a card, was in the table. *)
LEMMA MovedIsKnown ==
  ASSUME BoardInv, NEW t \in Tasks,
         cards[t] # <<>> \/ \E m \in Moves : move[m] # NoMove /\ move[m].task = t
  PROVE  row[t] # "none" /\ (row'[t] = row[t] => NoneKnown(t)')
BY Unfold DEF NoneKnown

LEMMA DragStep ==
  ASSUME BoardInv, NEW t \in Tasks, NEW m \in Moves, NEW u \in Tasks, Drag(m, u)
  PROVE  Fine(t)'
<1>1. TypeOK /\ UNCHANGED <<row, had, pipe, cards, fetch, crossed, doubt>>
  BY Unfold DEF Drag, server, channel
<1>2. PICK i \in DOMAIN cards[u] :
        move' = [o \in Moves |->
          IF o = m THEN [is |-> "dragged", task |-> u, from |-> cards[u][i], to |-> cards[u][i]]
          ELSE IF move[o].is = "dragged" THEN NoMove ELSE move[o]]
  BY DEF Drag
<1>3. move[m] = NoMove /\ cards[u] # <<>>
  BY DEF Drag
<1>4. \A o \in Moves \ {m} :
        IF move[o].is = "dragged" THEN move'[o] = NoMove ELSE move'[o] = move[o]
  BY <1>2
<1>5. move'[m] = [is |-> "dragged", task |-> u, from |-> cards[u][i], to |-> cards[u][i]]
  BY <1>2
<1>6. \A o \in Moves : (Under(o) => move'[o] = move[o]) /\ (Under(o)' => Under(o))
  BY <1>1, <1>3, <1>4, <1>5, UnderIs DEF Under, NoMove
<1>7. Sent(t) => Sent(t)'
  BY <1>6 DEF Sent, Under
<1>8. SameNews(t) /\ NoNews(t) /\ FreshRows(t) /\ Honest(t)
  BY <1>1 DEF SameNews, NoNews, FreshRows, Honest, Of
<1>9. Known(t)'
  BY <1>1, <1>8, Unfold, KnownKept
<1>10. Right(t)'
  BY <1>1, <1>7, <1>8, Unfold, RightKept
<1>11. CASE t # u
  <2>1. SameMoves(t)
    BY <1>1, <1>4, <1>5, <1>6, <1>11 DEF SameMoves
  <2>2. Guessed(t)'
    BY <1>1, <1>8, <2>1, Unfold, GuessedKept
  <2>3. \A o \in Moves : move'[o] # NoMove /\ move'[o].task = t => move'[o] = move[o]
    BY <2>1 DEF SameMoves
  <2>4. NoneKnown(t)'
    BY <1>1, <1>8, <2>3, Unfold, NoneKept
  <2>5. QED
    BY <1>9, <1>10, <2>2, <2>4 DEF Fine
<1>12. CASE t = u
  <2>1. NoneKnown(t)'
    BY <1>1, <1>3, <1>12, MovedIsKnown
  <2>2. Guessed(t)'
    <3> SUFFICES ASSUME t \notin crossed, Present(t) PROVE Guessed(t)'
      BY <1>1 DEF Guessed, Present
    <3>1. Guessed(t)
      BY Unfold
    <3>2. \A s : Guess(t, s) => \E o \in Moves : Under(o)' /\ move'[o].task = t /\ move'[o].to = s
      BY <1>6 DEF Guess, Under
    <3>3. \A k \in DOMAIN cards[t] : cards[t][k] \in had[t] \/ Guess(t, cards[t][k])'
      <4> TAKE k \in DOMAIN cards[t]
      <4>1. cards[t][k] \in had[t] \/ Guess(t, cards[t][k])
        BY <3>1 DEF Guessed
      <4>2. QED
        BY <1>1, <3>2, <4>1 DEF Guess
    <3>4. Moved(t) => Moved(t)'
      BY <1>6 DEF Moved, Under
    <3>5. cards[t][i] \in had[t] \/ Moved(t)
      BY <1>2, <1>12, <3>1 DEF Guessed, Guess, Moved
    <3>6. ASSUME NEW o \in Moves, move'[o] # NoMove, move'[o].task = t
          PROVE  /\ Under(o)' => /\ move'[o].from \in had'[t]
                                 /\ \A p \in Moves : Under(p)' /\ move'[p].task = t => p = o
                 /\ move'[o].is = "applied" => move'[o].to \in had'[t]
                 /\ move'[o].is = "dragged" => move'[o].from \in had'[t] \/ Moved(t)'
      <4>1. CASE o = m
        <5>1. move'[o].is = "dragged" /\ move'[o].from = cards[t][i]
          BY <1>5, <1>12, <4>1
        <5>2. ~Under(o)'
          BY <5>1 DEF Under
        <5>3. QED
          BY <1>1, <3>4, <3>5, <5>1, <5>2
      <4>2. CASE o # m
        <5>1. move'[o] = move[o] /\ move[o].is # "dragged"
          BY <1>4, <3>6, <4>2
        <5>2. Under(o) /\ move[o].task = t /\ move[o] # NoMove
          BY <1>1, <3>6, <5>1, UnderIs
        <5>3. \A p \in Moves : Under(p)' => Under(p) /\ move'[p] = move[p]
          BY <1>6
        <5>4. QED
          BY <1>1, <3>1, <5>1, <5>2, <5>3 DEF Guessed
      <4>3. QED
        BY <4>1, <4>2
    <3>7. QED
      BY <1>1, <3>3, <3>6 DEF Guessed
  <2>3. QED
    BY <1>9, <1>10, <2>1, <2>2 DEF Fine
<1>13. QED
  BY <1>11, <1>12

(* The card shows what the person wants, by the drop or when the approval is *)
(* known: nobody knows what it is going to be.                               *)
LEMMA ShowStep ==
  ASSUME BoardInv, NEW t \in Tasks, NEW m \in Moves, NEW u \in Tasks, NEW to \in Statuses,
         NEW k \in {"checking", "sent"},
         move[m].is \in {"dragged", "checking"}, move[m].task = u,
         move'[m] = [is |-> k, task |-> u, from |-> move[m].from, to |-> to],
         \A o \in Moves \ {m} : move'[o] = move[o],
         UNCHANGED <<row, had, pipe, fetch, doubt>>,
         cards' = (IF k = "sent" THEN updateTask(u, to) ELSE cards),
         \/ /\ move[m].is = "dragged"
            /\ crossed' = (IF Moved(u) THEN crossed \cup {u} ELSE crossed)
         \/ move[m].is = "checking" /\ move[m].to = to /\ crossed' = crossed
  PROVE  Fine(t)'
<1>1. TypeOK /\ move[m] # NoMove
  BY Unfold DEF NoMove
<1>2. SameNews(t) /\ NoNews(t) /\ FreshRows(t)
  BY DEF SameNews, NoNews, FreshRows, Of
<1>3. Known(t)'
  BY <1>2, Unfold, KnownKept
<1>4. CASE t # u
  <2>1. cards'[t] = cards[t] /\ (t \in crossed => t \in crossed')
    BY <1>1, <1>4, Updated
  <2>2. SameMoves(t) /\ Honest(t) /\ (Sent(t) => Sent(t)')
    BY <1>4, <2>1 DEF SameMoves, Honest, Sent
  <2>3. Guessed(t)'
    BY <2>1, <2>2, Unfold, GuessedKept
  <2>4. Right(t)'
    BY <1>2, <2>1, <2>2, Unfold, RightKept
  <2>5. \A o \in Moves : move'[o] # NoMove /\ move'[o].task = t => move'[o] = move[o]
    BY <2>2 DEF SameMoves
  <2>6. NoneKnown(t)'
    BY <1>2, <2>1, <2>5, Unfold, NoneKept
  <2>7. QED
    BY <1>3, <2>3, <2>4, <2>6 DEF Fine
<1>5. CASE t = u
  <2>1. NoneKnown(t)'
    BY <1>1, <1>5, MovedIsKnown
  <2>2. /\ Len(cards'[t]) = Len(cards[t]) /\ (cards[t] = <<>> => cards'[t] = <<>>)
        /\ k = "checking" => cards'[t] = cards[t]
        /\ k = "sent" => \A i \in DOMAIN cards'[t] : cards'[t][i] = to
    BY <1>1, <1>5, Updated
  <2>3. Right(t)'
    <3>1. CASE k = "sent"
      <4>1. Sent(t)'
        BY <1>5, <3>1 DEF Sent
      <4>2. QED
        BY <1>2, <2>2, <4>1, Unfold, RightUpdated
    <3>2. CASE k = "checking"
      <4>1. Sent(t) => Sent(t)'
        BY DEF Sent
      <4>2. cards'[t] = cards[t]
        BY <2>2, <3>2
      <4>3. QED
        BY <1>2, <4>1, <4>2, Unfold, RightKept
    <3>3. QED
      BY <3>1, <3>2
  <2>4. Guessed(t)'
    <3> SUFFICES ASSUME t \notin crossed', Present(t) PROVE Guessed(t)'
      BY DEF Guessed, Present
    <3>1. Guessed(t) /\ t \notin crossed
      BY Unfold
    <3>2. \A o \in Moves : Under(o) /\ move[o].task = t => o = m
      <4>1. CASE move[m].is = "dragged"
        <5>1. ~Moved(t)
          BY <1>5, <4>1
        <5>2. QED
          BY <5>1 DEF Moved
      <4>2. CASE move[m].is = "checking"
        <5>1. Under(m)
          BY <4>2 DEF Under
        <5>2. QED
          BY <1>1, <1>5, <3>1, <5>1 DEF Guessed
      <4>3. QED
        BY <4>1, <4>2
    <3>3. move[m].from \in had[t]
      <4>1. CASE move[m].is = "dragged"
        <5>1. ~Moved(t)
          BY <1>5, <4>1
        <5>2. QED
          BY <1>1, <1>5, <3>1, <4>1, <5>1 DEF Guessed
      <4>2. CASE move[m].is = "checking"
        <5>1. Under(m)
          BY <4>2 DEF Under
        <5>2. QED
          BY <1>1, <1>5, <3>1, <5>1 DEF Guessed
      <4>3. QED
        BY <4>1, <4>2
    <3>4. Under(m)' /\ move'[m].task = t /\ move'[m].to = to /\ move'[m].from = move[m].from
          /\ move'[m].is \notin {"applied", "dragged"}
      BY <1>5 DEF Under
    <3>5. \A o \in Moves : Under(o)' /\ move'[o].task = t => o = m
      BY <3>2 DEF Under
    <3>6. Moved(t)'
      BY <3>4 DEF Moved
    <3>7. \A i \in DOMAIN cards'[t] : cards'[t][i] \in had'[t] \/ Guess(t, cards[t][i])'
      <4>1. CASE k = "sent"
        BY <2>2, <3>4, <4>1 DEF Guess
      <4>2. CASE k = "checking"
        <5> TAKE i \in DOMAIN cards'[t]
        <5>1. cards'[t] = cards[t] /\ (cards[t][i] \in had[t] \/ Guess(t, cards[t][i]))
          BY <2>2, <3>1, <4>2 DEF Guessed
        <5>2. Guess(t, cards[t][i]) => move[m].is = "checking" /\ move[m].to = cards[t][i]
          BY <3>2 DEF Guess, Under
        <5>3. Guess(t, cards[t][i]) => cards[t][i] = to
          BY <5>2
        <5>4. QED
          BY <3>4, <5>1, <5>3 DEF Guess
      <4>3. QED
        BY <4>1, <4>2
    <3>8. ASSUME NEW o \in Moves, move'[o] # NoMove, move'[o].task = t
          PROVE  /\ Under(o)' => /\ move'[o].from \in had'[t]
                                 /\ \A p \in Moves : Under(p)' /\ move'[p].task = t => p = o
                 /\ move'[o].is = "applied" => move'[o].to \in had'[t]
                 /\ move'[o].is = "dragged" => move'[o].from \in had'[t] \/ Moved(t)'
      <4>1. CASE o = m
        BY <3>3, <3>4, <3>5, <4>1
      <4>2. CASE o # m
        <5>1. ~Under(o)' /\ move'[o] = move[o]
          BY <3>5, <3>8, <4>2
        <5>2. move[o].is # "applied"
          BY <5>1 DEF Under
        <5>3. QED
          BY <3>6, <5>1, <5>2
      <4>3. QED
        BY <4>1, <4>2
    <3>9. QED
      BY <3>7, <3>8 DEF Guessed
  <2>5. QED
    BY <1>3, <2>1, <2>3, <2>4 DEF Fine
<1>6. QED
  BY <1>4, <1>5

LEMMA DropStep ==
  ASSUME BoardInv, NEW t \in Tasks, NEW m \in Moves, NEW to \in Statuses, Drop(m, to)
  PROVE  Fine(t)'
<1>1. TypeOK /\ move[m].is = "dragged"
  BY Unfold DEF Drop
<1> DEFINE u == move[m].task
           k == IF to = "done" THEN "checking" ELSE "sent"
<1>2. u \in Tasks /\ move[m] = [is |-> "dragged", task |-> u, from |-> move[m].from,
                                to |-> move[m].to]
  BY <1>1, MoveParts
<1>3. move' = [move EXCEPT ![m].to = to, ![m].is = k]
      /\ cards' = (IF k = "sent" THEN updateTask(u, to) ELSE cards)
      /\ crossed' = (IF Moved(u) THEN crossed \cup {u} ELSE crossed)
      /\ UNCHANGED <<row, had, pipe, fetch, doubt>>
  BY DEF Drop, server, channel
<1> DEFINE new == [move[m] EXCEPT !.to = to, !.is = k]
           gone == [move[m] EXCEPT !.to = to]
<1>4. new = [is |-> k, task |-> u, from |-> move[m].from, to |-> to]
  <2>1. gone = [is |-> "dragged", task |-> u, from |-> move[m].from, to |-> to]
    BY <1>2
  <2>2. new = [gone EXCEPT !.is = k]
    OBVIOUS
  <2> HIDE DEF gone, k
  <2>3. QED
    BY <2>1, <2>2
<1>5. move' = [move EXCEPT ![m] = new]
  BY <1>3
<1>6. k \in {"checking", "sent"}
  OBVIOUS
<1> HIDE DEF new, k
<1>7. move'[m] = new /\ \A o \in Moves \ {m} : move'[o] = move[o]
  BY <1>1, <1>5 DEF TypeOK
<1>8. move'[m] = [is |-> k, task |-> u, from |-> move[m].from, to |-> to]
  BY <1>4, <1>7
<1> HIDE DEF u
<1>9. \A o \in Moves \ {m} : move'[o] = move[o]
  BY <1>7
<1>10. QED
  BY <1>1, <1>2, <1>3, <1>6, <1>8, <1>9, ShowStep DEF u

LEMMA CheckedStep ==
  ASSUME BoardInv, NEW t \in Tasks, NEW m \in Moves, Checked(m)
  PROVE  Fine(t)'
<1>1. TypeOK /\ move[m].is = "checking"
  BY Unfold DEF Checked
<1> DEFINE u == move[m].task
           to == move[m].to
           new == [move[m] EXCEPT !.is = "sent"]
<1>2. u \in Tasks /\ to \in Statuses
      /\ move[m] = [is |-> "checking", task |-> u, from |-> move[m].from, to |-> to]
  BY <1>1, MoveParts
<1>3. move' = [move EXCEPT ![m] = new] /\ cards' = updateTask(u, to)
      /\ UNCHANGED <<row, had, pipe, fetch, doubt, crossed>>
  BY DEF Checked, Optimistic, server, channel
<1>4. new = [is |-> "sent", task |-> u, from |-> move[m].from, to |-> to]
  BY <1>2
<1> HIDE DEF new
<1>5. move'[m] = new /\ \A o \in Moves \ {m} : move'[o] = move[o]
  BY <1>1, <1>3 DEF TypeOK
<1>6. QED
  BY <1>1, <1>2, <1>3, <1>4, <1>5, ShowStep

(* The server applies a move and tells it. *)
LEMMA PutStep ==
  ASSUME BoardInv, NEW t \in Tasks, NEW m \in Moves, PutApplied(m)
  PROVE  Fine(t)'
<1> DEFINE u == move[m].task
           to == move[m].to
           new == [move[m] EXCEPT !.is = "applied"]
<1>1. TypeOK /\ move[m].is = "sent" /\ Statuses \cap Absent = {}
  BY Unfold DEF PutApplied, Parameters
<1>2. u \in Tasks /\ to \in Statuses /\ move[m] # NoMove
      /\ move[m] = [is |-> "sent", task |-> u, from |-> move[m].from, to |-> to]
  BY <1>1, MoveParts
<1>3. /\ move' = [move EXCEPT ![m] = new] /\ Broadcast(u, "changed", to)
      /\ UNCHANGED <<cards, fetch, crossed>>
      /\ \/ Present(u) /\ row' = [row EXCEPT ![u] = to] /\ had' = [had EXCEPT ![u] = @ \cup {to}]
         \/ ~Present(u) /\ UNCHANGED <<row, had>>
  BY DEF PutApplied
<1>4. new = [is |-> "applied", task |-> u, from |-> move[m].from, to |-> to]
  BY <1>2
<1> HIDE DEF new
<1>5. move'[m] = new /\ \A o \in Moves \ {m} : move'[o] = move[o]
  BY <1>1, <1>3 DEF TypeOK
<1>6. \A o \in Moves : Under(o)' = Under(o) /\ move'[o].task = move[o].task
                       /\ move'[o].to = move[o].to /\ move'[o].from = move[o].from
                       /\ (move'[o] # NoMove => move[o] # NoMove)
  BY <1>1, <1>2, <1>4, <1>5 DEF Under
<1>7. Told(u, "changed", to)
  BY <1>3 DEF Told
<1>8. CASE t # u
  <2>1. row'[t] = row[t] /\ had'[t] = had[t] /\ cards'[t] = cards[t]
    BY <1>1, <1>2, <1>3, <1>8 DEF TypeOK, Rows
  <2>2. SameNews(t) /\ NoNews(t) /\ (t \in doubt' <=> t \in doubt)
    BY <1>2, <1>7, <1>8, OthersRest
  <2>3. FreshRows(t) /\ Honest(t)
    BY <1>3 DEF FreshRows, Honest
  <2>4. SameMoves(t)
    BY <1>4, <1>5, <1>8 DEF SameMoves
  <2>5. Sent(t) => Sent(t)'
    BY <1>5, <1>8 DEF Sent
  <2>6. NoneKnown(t)'
    BY <1>6, <2>1, <2>2, <2>3, Unfold, NoneKept
  <2>7. Known(t)'
    BY <2>1, <2>2, <2>3, Unfold, KnownKept
  <2>8. Right(t)'
    BY <2>1, <2>2, <2>5, Unfold, RightKept
  <2>9. Guessed(t)'
    BY <1>3, <2>1, <2>3, <2>4, Unfold, GuessedKept
  <2>10. QED
    BY <2>6, <2>7, <2>8, <2>9 DEF Fine
<1>9. CASE t = u
  <2>1. NoneKnown(t) /\ Known(t) /\ Right(t) /\ Guessed(t) /\ row[t] # "none"
    BY <1>2, <1>9, Unfold, MovedIsKnown
  <2>2. \/ t \in doubt' /\ pipe' = pipe
        \/ /\ doubt' = doubt
           /\ Len(pipe) \in Nat
           /\ \A i \in Of(t) : pipe'[i] = pipe[i] /\ i < Len(pipe) + 1
           /\ Of(t)' = Of(t) \cup {Len(pipe) + 1}
           /\ pipe'[Len(pipe) + 1].kind = "changed" /\ pipe'[Len(pipe) + 1].status = to
    <3> HIDE DEF to
    <3>1. QED
      BY <1>1, <1>2, <1>7, <1>9, ToldOwn
  <2>3. /\ Present(t) => row'[t] = to /\ had'[t] = had[t] \cup {to}
        /\ ~Present(t) => row'[t] = row[t] /\ had'[t] = had[t]
        /\ Present(t)' = Present(t)
    BY <1>1, <1>2, <1>3, <1>9 DEF TypeOK, Rows, Present
  <2>4. NoneKnown(t)'
    <3>1. row'[t] # "none"
      BY <1>1, <1>2, <2>1, <2>3 DEF Absent
    <3>2. QED
      BY <3>1 DEF NoneKnown
  <2>5. CASE ~Present(t)
    <3>1. Known(t)' /\ Guessed(t)'
      BY <2>3, <2>5 DEF Known, Guessed
    <3>2. Right(t)'
      <4> SUFFICES ASSUME t \notin doubt' PROVE Right(t)'
        BY DEF Right
      <4> DEFINE n == Len(pipe) + 1
      <4>1. /\ t \notin doubt /\ n \in Nat
            /\ \A i \in Of(t) : pipe'[i] = pipe[i] /\ i < n
            /\ Of(t)' = Of(t) \cup {n} /\ pipe'[n].kind = "changed"
        BY <2>2
      <4> HIDE DEF n
      <4>2. (NoneComes(t) => NoneComes(t)') /\ (OneGoes(t) => OneGoes(t)')
        BY <1>1, <1>3, <4>1, OfIsNat, ChangeTold
      <4>3. row'[t] = "deleted" => OneGoes(t)' \/ (cards'[t] = <<>> /\ NoneComes(t)')
        BY <1>3, <2>1, <2>3, <2>5, <4>1, <4>2 DEF Right
      <4>4. Of(t)' # {}
        BY <4>1
      <4>5. QED
        BY <2>3, <2>5, <4>3, <4>4 DEF Right
    <3>3. QED
      BY <2>4, <3>1, <3>2 DEF Fine
  <2>6. CASE Present(t)
    <3>1. Known(t)'
      <4>1. \A i \in Of(t)' : pipe'[i].kind # "deleted" => pipe'[i].status \in had'[t]
        BY <2>1, <2>2, <2>3, <2>6 DEF Known, Of
      <4>2. QED
        BY <1>3, <2>1, <2>3, <2>6, <4>1 DEF Known
    <3>2. Right(t)'
      <4> SUFFICES ASSUME t \notin doubt' PROVE Right(t)'
        BY DEF Right
      <4> DEFINE n == Len(pipe) + 1
      <4>1. /\ t \notin doubt /\ n \in Nat /\ Of(t) \subseteq Nat
            /\ \A i \in Of(t) : pipe'[i] = pipe[i] /\ i < n
            /\ Of(t)' = Of(t) \cup {n} /\ pipe'[n].kind = "changed" /\ pipe'[n].status = row'[t]
        BY <1>1, <2>2, <2>3, <2>6, OfIsNat
      <4> HIDE DEF n
      <4>2. (OneComes(t) => OneComes(t)') /\ (NoneComes(t) => NoneComes(t)')
        BY <1>3, <4>1, ChangeTold
      <4>3. OneComes(t)' \/ (Len(cards'[t]) = 1 /\ NoneComes(t)')
        BY <1>3, <2>1, <2>6, <4>1, <4>2 DEF Right
      <4>4. row'[t] # "deleted" /\ \A i \in Of(t)' : pipe'[i].kind # "deleted"
        BY <1>1, <1>2, <2>1, <2>3, <2>6, <4>1 DEF Absent, Right
      <4>5. \A i \in Of(t)' : (\A j \in Of(t)' : j <= i) => pipe'[i].status = row'[t]
        <5> SUFFICES ASSUME NEW i \in Of(t)', n <= i PROVE i = n
          BY <4>1
        <5>1. QED
          BY <4>1
      <4>6. Of(t)' # {}
        BY <4>1
      <4>7. QED
        BY <4>3, <4>4, <4>5, <4>6 DEF Right
    <3>3. Guessed(t)'
      <4> SUFFICES ASSUME t \notin crossed PROVE Guessed(t)'
        BY <1>3 DEF Guessed
      <4>1. \A i \in DOMAIN cards[t] : Guess(t, cards[t][i]) => Guess(t, cards[t][i])'
        BY <1>3, <1>6 DEF Guess
      <4>2. Moved(t)' = Moved(t)
        BY <1>6 DEF Moved
      <4>3. ASSUME NEW o \in Moves, move'[o] # NoMove, move'[o].task = t
            PROVE  /\ Under(o)' => /\ move'[o].from \in had'[t]
                                   /\ \A p \in Moves : Under(p)' /\ move'[p].task = t => p = o
                   /\ move'[o].is = "applied" => move'[o].to \in had'[t]
                   /\ move'[o].is = "dragged" => move'[o].from \in had'[t] \/ Moved(t)'
        <5>1. move[o] # NoMove /\ move[o].task = t
          BY <1>6, <4>3
        <5>2. Under(o) => /\ move[o].from \in had[t]
                          /\ \A p \in Moves : Under(p) /\ move[p].task = t => p = o
          BY <2>1, <2>6, <5>1 DEF Guessed
        <5>3. move'[o].is = "applied" => move[o].to \in had'[t]
          BY <1>5, <2>1, <2>3, <2>6, <5>1 DEF Guessed
        <5>4. move'[o].is = "dragged" => move[o].from \in had[t] \/ Moved(t)
          BY <1>4, <1>5, <2>1, <2>6, <5>1 DEF Guessed
        <5>5. QED
          BY <1>6, <2>3, <2>6, <4>2, <5>2, <5>3, <5>4
      <4>4. \A i \in DOMAIN cards'[t] : cards'[t][i] \in had'[t] \/ Guess(t, cards[t][i])'
        BY <1>3, <2>1, <2>3, <2>6, <4>1 DEF Guessed
      <4>5. QED
        BY <4>3, <4>4 DEF Guessed
    <3>4. QED
      BY <2>4, <3>1, <3>2, <3>3 DEF Fine
  <2>7. QED
    BY <2>5, <2>6
<1>10. QED
  BY <1>8, <1>9

(* A move ends, and with it whatever is being dragged. *)
LEMMA MovesLeft ==
  ASSUME BoardInv, NEW m \in Moves, Under(m), move' = OthersLeft(m)
  PROVE  /\ \A o \in Moves : move'[o] # NoMove => move'[o] = move[o] /\ Under(o) /\ o # m
         /\ \A o \in Moves \ {m} : Under(o) => move'[o] = move[o]
<1>1. \A o \in Moves : move'[o] = (IF o = m \/ move[o].is = "dragged" THEN NoMove ELSE move[o])
  BY DEF OthersLeft
<1>2. TypeOK
  BY DEF BoardInv
<1>3. QED
  BY <1>1, <1>2, UnderIs

LEMMA EndOther ==
  ASSUME BoardInv, NEW m \in Moves, Under(m), move' = OthersLeft(m),
         NEW t \in Tasks \ {move[m].task},
         UNCHANGED <<row, had, pipe, fetch, crossed>>, cards'[t] = cards[t],
         t \in doubt' <=> t \in doubt
  PROVE  Fine(t)'
<1>1. SameNews(t) /\ NoNews(t) /\ FreshRows(t) /\ Honest(t)
  BY DEF SameNews, NoNews, FreshRows, Honest, Of
<1>2. SameMoves(t)
  BY MovesLeft DEF SameMoves
<1>3. Sent(t) => Sent(t)'
  BY MovesLeft DEF Sent, Under
<1>4. \A o \in Moves : move'[o] # NoMove /\ move'[o].task = t => move'[o] = move[o]
  BY <1>2 DEF SameMoves
<1>5. NoneKnown(t)'
  BY <1>1, <1>4, Unfold, NoneKept
<1>6. Known(t)'
  BY <1>1, Unfold, KnownKept
<1>7. Right(t)'
  BY <1>1, <1>3, Unfold, RightKept
<1>8. Guessed(t)'
  BY <1>1, <1>2, Unfold, GuessedKept
<1>9. QED
  BY <1>5, <1>6, <1>7, <1>8 DEF Fine

LEMMA EndStep ==
  ASSUME BoardInv, NEW t \in Tasks, NEW m \in Moves, Accepted(m) \/ TakenBack(m)
  PROVE  Fine(t)'
<1> DEFINE u == move[m].task
<1>1. TypeOK /\ Under(m) /\ move' = OthersLeft(m) /\ UNCHANGED <<row, had, pipe, fetch, crossed>>
  BY Unfold DEF Accepted, TakenBack, Under, server, channel
<1>2. u \in Tasks /\ move[m].from \in Statuses /\ move[m] # NoMove
  BY <1>1, MoveParts, UnderIs
<1>3. CASE t # u
  <2>1. cards'[t] = cards[t] /\ (t \in doubt' <=> t \in doubt)
    BY <1>1, <1>2, <1>3, Updated DEF Accepted, TakenBack
  <2>2. QED
    BY <1>1, <1>3, <2>1, EndOther
<1>4. CASE t = u
  <2>1. NoneKnown(t)'
    BY <1>1, <1>2, <1>4, MovedIsKnown
  <2>2. SameNews(t) /\ NoNews(t) /\ FreshRows(t)
    BY <1>1 DEF SameNews, NoNews, FreshRows, Of
  <2>3. Known(t)'
    BY <1>1, <2>2, Unfold, KnownKept
  <2>4. Right(t)'
    <3>1. CASE Accepted(m)
      <4>1. cards' = cards /\ doubt' = doubt /\ move[m].is = "applied"
        BY <3>1 DEF Accepted, channel
      <4>2. Sent(t) => Sent(t)'
        BY <1>1, <4>1, MovesLeft DEF Sent, Under
      <4>3. QED
        BY <1>1, <2>2, <4>1, <4>2, Unfold, RightKept
    <3>2. CASE TakenBack(m)
      <4>1. cards' = updateTask(t, move[m].from)
            /\ (t \notin doubt' => t \notin doubt /\ move[m].from = row[t] /\ ~Coming(t))
            /\ (t \in doubt => t \in doubt')
        BY <1>4, <3>2 DEF TakenBack
      <4>2. Len(cards'[t]) = Len(cards[t]) /\ (cards[t] = <<>> => cards'[t] = <<>>)
            /\ (Len(cards[t]) = 1 => cards'[t] = <<move[m].from>>)
        BY <1>1, <1>2, <4>1, Updated
      <4>3. ASSUME t \notin doubt' PROVE cards'[t] = Shown(row[t])
        <5>1. Present(t) /\ Of(t) = {} /\ t \notin doubt
          BY <1>2, <4>1, <4>3, ComingIsOf DEF Present
        <5>2. Len(cards[t]) = 1
          BY <5>1, Unfold DEF Right, OneComes
        <5>3. QED
          BY <4>1, <4>2, <4>3, <5>1, <5>2 DEF Shown, Present
      <4>4. QED
        BY <1>1, <2>2, <4>1, <4>2, <4>3, Unfold, RightUpdated
    <3>3. QED
      BY <3>1, <3>2
  <2>5. Guessed(t)'
    <3> SUFFICES ASSUME t \notin crossed, Present(t) PROVE Guessed(t)'
      BY <1>1 DEF Guessed, Present
    <3>1. Guessed(t)
      BY Unfold
    <3>2. /\ move[m].from \in had[t] /\ (move[m].is = "applied" => move[m].to \in had[t])
          /\ \A o \in Moves : Under(o) /\ move[o].task = t => o = m
      BY <1>1, <1>2, <1>4, <3>1 DEF Guessed
    <3>3. \A o \in Moves : move'[o] # NoMove => move'[o].task # t
      BY <1>1, <3>2, MovesLeft
    <3>4. \A i \in DOMAIN cards'[t] : cards'[t][i] \in had'[t]
      <4>1. CASE Accepted(m)
        <5>1. cards' = cards /\ move[m].is = "applied"
          BY <4>1 DEF Accepted
        <5>2. QED
          BY <1>1, <3>1, <3>2, <5>1 DEF Guessed, Guess
      <4>2. CASE TakenBack(m)
        <5>1. cards' = updateTask(t, move[m].from)
          BY <1>4, <4>2 DEF TakenBack
        <5>2. /\ DOMAIN updateTask(t, move[m].from)[t] = DOMAIN cards[t]
              /\ \A i \in DOMAIN cards[t] : updateTask(t, move[m].from)[t][i] = move[m].from
          BY <1>1, <1>2, Updated
        <5>3. QED
          BY <1>1, <3>2, <5>1, <5>2
      <4>3. QED
        BY <4>1, <4>2
    <3>5. QED
      BY <3>3, <3>4 DEF Guessed
  <2>6. QED
    BY <2>1, <2>3, <2>4, <2>5 DEF Fine
<1>5. QED
  BY <1>3, <1>4

--------------------------------------------------------------------------------
LEMMA BoardInit == Parameters /\ Init => BoardInv
<1> SUFFICES ASSUME Parameters, Init PROVE BoardInv
  OBVIOUS
<1>1. TypeOK
  BY InitTypes
<1>2. ASSUME NEW t \in Tasks PROVE NoneKnown(t) /\ Known(t) /\ Right(t) /\ Guessed(t)
  <2>1. row[t] = "none" /\ cards[t] = <<>> /\ Of(t) = {} /\ "none" \notin Statuses
    BY DEF Init, Of, Parameters, Absent
  <2>2. (\A m \in Moves : move[m] = NoMove) /\ \A f \in Fetches : fetch[f].is # "answered"
    BY DEF Init, NoFetch
  <2>3. QED
    BY <2>1, <2>2 DEF NoneKnown, Known, Right, Guessed, Present, Shown
<1>3. QED
  BY <1>1, <1>2 DEF BoardInv

LEMMA BoardNext == BoardInv /\ [Next]_vars => BoardInv'
<1> SUFFICES ASSUME BoardInv, [Next]_vars PROVE BoardInv'
  OBVIOUS
<1>1. Parameters' /\ TypeOK'
  BY TypeStep DEF BoardInv, Parameters
<1>2. ASSUME NEW t \in Tasks PROVE Fine(t)'
  <2>1. ASSUME NEW u \in Tasks, NEW status \in Statuses, CreateTask(u, status) \/ ChangeTask(u, status)
        PROVE  Fine(t)'
    BY <2>1, WriteStep
  <2>2. ASSUME NEW u \in Tasks, DeleteTask(u) PROVE Fine(t)'
    <3>1. row[u] \in Statuses
      BY <2>2 DEF DeleteTask, Present
    <3>2. QED
      BY <2>2, <3>1, WriteStep
  <2>3. ASSUME NEW f \in Fetches,
               Poll(f) \/ Refresh(f) \/ Served(f) \/ FetchFails(f)
        PROVE  Fine(t)'
    BY <2>3, PlainActions DEF Poll, Refresh
  <2>4. CASE OnMessage
    BY <2>4, MessageOwn, MessageOther
  <2>5. ASSUME NEW m \in Moves, NEW u \in Tasks, Drag(m, u) PROVE Fine(t)'
    BY <2>5, DragStep
  <2>6. ASSUME NEW m \in Moves, NEW to \in Statuses, Drop(m, to) PROVE Fine(t)'
    BY <2>6, DropStep
  <2>7. ASSUME NEW m \in Moves, Checked(m) \/ PutApplied(m) \/ Accepted(m) \/ TakenBack(m)
        PROVE  Fine(t)'
    BY <2>7, CheckedStep, PutStep, EndStep
  <2>8. CASE UNCHANGED vars \/ Attach \/ OnOpen \/ Break \/ Retry \/ Mount
    BY <2>8, PlainActions
  <2>9. ASSUME NEW f \in Fetches, Fetched(f) PROVE Fine(t)'
    BY <2>9, FetchedStep
  <2>10. QED
    BY <2>1, <2>2, <2>3, <2>4, <2>5, <2>6, <2>7, <2>8, <2>9, ErrorStep DEF Next
<1>3. QED
  BY <1>1, <1>2 DEF BoardInv, Fine

LEMMA BoardSafe == BoardInv => TypeOK /\ BoardIsTrue
<1> SUFFICES ASSUME BoardInv PROVE TypeOK /\ BoardIsTrue
  OBVIOUS
<1>1. ASSUME NEW t \in Tasks \ doubt, ~Coming(t), ~Moved(t) PROVE cards[t] = Shown(row[t])
  <2>1. ~Sent(t) /\ Of(t) = {}
    BY <1>1, ComingIsOf DEF Sent, Moved, Under
  <2>2. QED
    BY <2>1, Unfold DEF Right
<1>2. ASSUME NEW t \in Tasks \ crossed, Present(t), ~Moved(t), NEW i \in DOMAIN cards[t]
      PROVE  cards[t][i] \in had[t]
  BY <1>2, Unfold DEF Guessed, Guess, Moved
<1>3. QED
  BY <1>1, <1>2 DEF BoardInv, BoardIsTrue, InStep, ShownWasTrue

(* For any number of tasks, columns, requests and events: what an event, a   *)
(* fetch or a move leaves on the board is true as soon as nothing is on its  *)
(* way, unless something put it in doubt.                                    *)
THEOREM BoardTrue == Parameters /\ Spec => [](TypeOK /\ BoardIsTrue)
<1>1. QED
  BY BoardInit, BoardNext, BoardSafe, PTL DEF Spec
================================================================================
