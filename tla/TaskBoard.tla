------------------------------- MODULE TaskBoard -------------------------------
(****************************************************************************)
(* The task board of one browser and what keeps it in step with the server: *)
(* the stream of server-sent events (lib/event-bus.ts, api/events,          *)
(* lib/use-server-events.ts), the fetches of the panel and their polling    *)
(* (task-board-panel.tsx, lib/use-smart-poll.ts), and the moves of cards,   *)
(* which show their outcome before the server has answered and take it back *)
(* when it refuses. Stream, fetches and moves are requests of their own:    *)
(* their answers come in any order.                                         *)
(****************************************************************************)
EXTENDS Naturals, Sequences

CONSTANTS
  Tasks,
  Statuses,   \* columns of the board; "done" asks for the approval of Aegis first
  Fetches,    \* fetches under way at the same time
  Moves,      \* cards being dragged or moved at the same time
  MaxTries,   \* SSE_MAX_RECONNECT_ATTEMPTS
  MaxWrites,  \* bound: what others write to the tasks table
  MaxDrags    \* bound: cards the person takes up

VARIABLES
  row,      \* the tasks table: status of each task
  writes,   \* what others have written so far
  attached, \* the handler of the stream listens on the event bus
  pipe,     \* events on their way to the browser
  stream,   \* the EventSource; sseConnected is stream = "open"
  tries,    \* sseReconnectAttemptsRef
  mounted,  \* the panel has been opened
  cards,    \* store.tasks: the statuses shown for each task, one per card
  fetch,    \* of each fetch: nothing, asked, or the answer on its way
  move,     \* of each move: the card's status at its start, its goal, how far it is
  drags,    \* cards taken up so far
  had,      \* history: the statuses each task has had
  crossed,  \* history: tasks with two moves at the same time
  doubt     \* history: tasks whose card may be wrong, and nothing on its way to correct it

server == <<row, writes, had>>
channel == <<attached, pipe, stream, tries>>
moving == <<move, drags, crossed>>
vars == <<server, channel, mounted, cards, fetch, moving, doubt>>

Absent == {"none", "deleted"}

Parameters ==
  /\ Statuses \cap Absent = {}
  /\ MaxTries \in Nat /\ MaxWrites \in Nat /\ MaxDrags \in Nat

NoMove == [is |-> "none"]
NoFetch == [is |-> "none"]
Asked == [is |-> "asked"]
Rows == [Tasks -> Statuses \cup Absent]
Events == [task : Tasks, kind : {"created", "changed"}, status : Statuses]
            \cup [task : Tasks, kind : {"deleted"}, status : {"deleted"}]

TypeOK ==
  /\ row \in Rows /\ writes \in 0..MaxWrites /\ had \in [Tasks -> SUBSET Statuses]
  /\ attached \in BOOLEAN /\ pipe \in Seq(Events)
  /\ stream \in {"none", "waiting", "opening", "open"} /\ tries \in 0..MaxTries
  /\ mounted \in BOOLEAN
  /\ cards \in [Tasks -> Seq(Statuses)]
  /\ fetch \in [Fetches -> [is : {"answered"}, rows : Rows] \cup {NoFetch, Asked}]
  /\ move \in [Moves -> {NoMove} \cup
       [is : {"dragged", "checking", "sent", "applied"}, task : Tasks,
        from : Statuses, to : Statuses]]
  /\ drags \in 0..MaxDrags
  /\ crossed \subseteq Tasks /\ doubt \subseteq Tasks

Init ==
  /\ row = [t \in Tasks |-> "none"] /\ writes = 0 /\ had = [t \in Tasks |-> {}]
  /\ attached = FALSE /\ pipe = <<>> /\ stream = "none" /\ tries = 0
  /\ mounted = FALSE
  /\ cards = [t \in Tasks |-> <<>>]
  /\ fetch = [f \in Fetches |-> NoFetch]
  /\ move = [m \in Moves |-> NoMove] /\ drags = 0
  /\ crossed = {} /\ doubt = {}

Present(t) == row[t] \in Statuses
Coming(t) == \E i \in DOMAIN pipe : pipe[i].task = t
Shown(status) == IF status \in Statuses THEN <<status>> ELSE <<>>
Under(m) == move[m].is \notin {"none", "dragged"}
Moved(t) == \E m \in Moves : Under(m) /\ move[m].task = t

--------------------------------------------------------------------------------
(* The server *)

(* eventBus.broadcast *)
Broadcast(t, kind, status) ==
  /\ pipe' = IF attached THEN Append(pipe, [task |-> t, kind |-> kind, status |-> status])
             ELSE pipe
  /\ doubt' = IF attached THEN doubt ELSE doubt \cup {t}

(* Some writers tell nobody: the queue poll that claims a task              *)
(* (tasks/queue/route.ts:116), spawned tasks, pulls from GitHub.            *)
Told(t, kind, status) ==
  \/ Broadcast(t, kind, status)
  \/ kind # "deleted" /\ UNCHANGED pipe /\ doubt' = doubt \cup {t}

Write(t, kind, status) ==
  /\ writes < MaxWrites
  /\ writes' = writes + 1
  /\ row' = [row EXCEPT ![t] = status]
  /\ had' = [had EXCEPT ![t] = @ \cup (Statuses \cap {status})]
  /\ Told(t, kind, status)
  /\ UNCHANGED <<attached, stream, tries, mounted, cards, fetch, moving>>

CreateTask(t, status) == row[t] = "none" /\ Write(t, "created", status)
ChangeTask(t, status) == Present(t) /\ Write(t, "changed", status)
DeleteTask(t) == Present(t) /\ Write(t, "deleted", "deleted")

--------------------------------------------------------------------------------
(* The stream *)

(* The GET of api/events is answered: its handler listens.                  *)
Attach ==
  /\ stream = "opening" /\ ~attached
  /\ attached' = TRUE
  /\ UNCHANGED <<server, pipe, stream, tries, mounted, cards, fetch, moving, doubt>>

OnOpen ==
  /\ stream = "opening" /\ attached
  /\ stream' = "open" /\ tries' = 0
  /\ UNCHANGED <<server, attached, pipe, mounted, cards, fetch, moving, doubt>>

(* The connection ends and the browser has not noticed yet.                 *)
Break ==
  /\ attached
  /\ attached' = FALSE
  /\ UNCHANGED <<server, pipe, stream, tries, mounted, cards, fetch, moving, doubt>>

OnError ==
  /\ stream \in {"opening", "open"}
  /\ attached' = FALSE /\ pipe' = <<>>
  /\ doubt' = doubt \cup {t \in Tasks : Coming(t)}
  /\ IF tries < MaxTries
       THEN stream' = "waiting" /\ tries' = tries + 1
       ELSE stream' = "none" /\ UNCHANGED tries
  /\ UNCHANGED <<server, mounted, cards, fetch, moving>>

Retry ==
  /\ stream = "waiting"
  /\ stream' = "opening"
  /\ UNCHANGED <<server, attached, pipe, tries, mounted, cards, fetch, moving, doubt>>

(* store.updateTask: every card of the task. *)
updateTask(t, status) == [cards EXCEPT ![t] = [i \in DOMAIN @ |-> status]]

(* dispatch: addTask, updateTask, deleteTask *)
After(e) ==
  CASE e.kind = "created" -> [cards EXCEPT ![e.task] = <<e.status>> \o @]
    [] e.kind = "changed" -> updateTask(e.task, e.status)
    [] e.kind = "deleted" -> [cards EXCEPT ![e.task] = <<>>]

OnMessage ==
  /\ stream = "open" /\ pipe # <<>>
  /\ cards' = After(Head(pipe))
  /\ pipe' = Tail(pipe)
  /\ UNCHANGED <<server, attached, stream, tries, mounted, fetch, moving, doubt>>

--------------------------------------------------------------------------------
(* The fetches *)

(* The page opens its stream and the panel fetches.                         *)
Mount ==
  /\ ~mounted
  /\ mounted' = TRUE
  /\ stream' = "opening"
  /\ fetch' = [f \in Fetches |-> Asked]
  /\ UNCHANGED <<server, attached, pipe, tries, cards, moving, doubt>>

fetchData(f) ==
  /\ mounted
  /\ fetch[f] = NoFetch
  /\ fetch' = [fetch EXCEPT ![f] = Asked]
  /\ UNCHANGED <<server, channel, mounted, cards, moving, doubt>>

PausedWhileTrying == stream # "none"  \* mutant: no polls until the stream is given up

(* useSmartPoll with pauseWhenSseConnected                                  *)
Paused == stream = "open"

Poll(f) == ~Paused /\ fetchData(f)

(* The button, and the dialogs that call fetchData when they are done.      *)
Refresh(f) == fetchData(f)

Served(f) ==
  /\ fetch[f] = Asked
  /\ fetch' = [fetch EXCEPT ![f] = [is |-> "answered", rows |-> row]]
  /\ UNCHANGED <<server, channel, mounted, cards, moving, doubt>>

FetchFails(f) ==
  /\ fetch[f] # NoFetch
  /\ fetch' = [fetch EXCEPT ![f] = NoFetch]
  /\ UNCHANGED <<server, channel, mounted, cards, moving, doubt>>

(* setTasks *)
Replaced(rows) == [t \in Tasks |-> Shown(rows[t])]

Fetched(f) ==
  /\ fetch[f].is = "answered"
  /\ cards' = Replaced(fetch[f].rows)
  /\ doubt' = {t \in Tasks : fetch[f].rows[t] # row[t] \/ Coming(t)}
  /\ fetch' = [fetch EXCEPT ![f] = NoFetch]
  /\ UNCHANGED <<server, channel, mounted, moving>>

--------------------------------------------------------------------------------
(* Moving a card: handleDragStart and handleDrop *)

Drag(m, t) ==
  /\ drags < MaxDrags
  /\ move[m] = NoMove
  /\ cards[t] # <<>>
  /\ \E i \in DOMAIN cards[t] :
       move' = [o \in Moves |->
         IF o = m THEN [is |-> "dragged", task |-> t, from |-> cards[t][i], to |-> cards[t][i]]
         ELSE IF move[o].is = "dragged" THEN NoMove ELSE move[o]]
  /\ drags' = drags + 1
  /\ UNCHANGED <<server, channel, mounted, cards, fetch, crossed, doubt>>

Optimistic(m) == cards' = updateTask(move[m].task, move[m].to)

Drop(m, to) ==
  /\ move[m].is = "dragged"
  /\ move[m].from # to
  /\ crossed' = IF Moved(move[m].task) THEN crossed \cup {move[m].task} ELSE crossed
  /\ IF to = "done"
       THEN move' = [move EXCEPT ![m].to = to, ![m].is = "checking"] /\ UNCHANGED cards
       ELSE /\ move' = [move EXCEPT ![m].to = to, ![m].is = "sent"]
            /\ cards' = updateTask(move[m].task, to)
  /\ UNCHANGED <<server, channel, mounted, fetch, drags, doubt>>

(* The latest review of Aegis approves. *)
Checked(m) ==
  /\ move[m].is = "checking"
  /\ move' = [move EXCEPT ![m].is = "sent"]
  /\ Optimistic(m)
  /\ UNCHANGED <<server, channel, mounted, fetch, drags, crossed, doubt>>

(* PUT /api/tasks: a task that is gone is passed over, and told all the same. *)
PutApplied(m) ==
  LET t == move[m].task
  IN  /\ move[m].is = "sent"
      /\ move' = [move EXCEPT ![m].is = "applied"]
      /\ IF Present(t)
           THEN /\ row' = [row EXCEPT ![t] = move[m].to]
                /\ had' = [had EXCEPT ![t] = @ \cup {move[m].to}]
           ELSE UNCHANGED <<row, had>>
      /\ Broadcast(t, "changed", move[m].to)
      /\ UNCHANGED <<writes, attached, stream, tries, mounted, cards, fetch, drags, crossed>>

OthersStay(m) == [move EXCEPT ![m] = NoMove]  \* mutant: a card being dragged stays so

(* finally { setDraggedTask(null) }: also of the card that is dragged now.  *)
OthersLeft(m) ==
  [o \in Moves |-> IF o = m \/ move[o].is = "dragged" THEN NoMove ELSE move[o]]

Accepted(m) ==
  /\ move[m].is = "applied"
  /\ move' = OthersLeft(m)
  /\ UNCHANGED <<server, channel, mounted, cards, fetch, drags, crossed, doubt>>

(* Aegis has not approved, the server refuses, or there is no answer: back  *)
(* to the status the card had when it was taken up.                         *)
TakenBack(m) ==
  LET t == move[m].task
  IN  /\ Under(m)
      /\ move' = OthersLeft(m)
      /\ cards' = updateTask(t, move[m].from)
      /\ doubt' = IF move[m].from # row[t] \/ Coming(t) THEN doubt \cup {t} ELSE doubt
      /\ UNCHANGED <<server, channel, mounted, fetch, drags, crossed>>

--------------------------------------------------------------------------------
Next ==
  \/ \E t \in Tasks, status \in Statuses : CreateTask(t, status) \/ ChangeTask(t, status)
  \/ \E t \in Tasks : DeleteTask(t)
  \/ Attach \/ OnOpen \/ Break \/ OnError \/ Retry \/ OnMessage
  \/ Mount
  \/ \E f \in Fetches : Poll(f) \/ Refresh(f) \/ Served(f) \/ FetchFails(f) \/ Fetched(f)
  \/ \E m \in Moves :
       \/ \E t \in Tasks : Drag(m, t)
       \/ \E to \in Statuses : Drop(m, to)
       \/ Checked(m) \/ PutApplied(m) \/ Accepted(m) \/ TakenBack(m)

Spec == Init /\ [][Next]_vars

(* The browser's timers fire, requests are answered or fail, and a fetch    *)
(* that is tried again and again succeeds. The stream may break for ever.   *)
Fairness ==
  /\ WF_vars(Retry) /\ WF_vars(OnMessage)
  /\ \A f \in Fetches :
       WF_vars(Poll(f)) /\ SF_vars(Served(f)) /\ SF_vars(Fetched(f))
  /\ \A m \in Moves : WF_vars(Accepted(m)) /\ WF_vars(TakenBack(m))

FairSpec == Spec /\ Fairness

--------------------------------------------------------------------------------
Agrees == \A t \in Tasks : cards[t] = Shown(row[t])

(* What the board shows is what the server says, for every task that has    *)
(* no event on its way and no move under way, unless a write was not told   *)
(* to this browser, a fetch brought an answer older or newer than what the  *)
(* events had made of it, or a move was taken back over a newer status.     *)
InStep ==
  \A t \in Tasks \ doubt :
    mounted /\ stream = "open" /\ ~Coming(t) /\ ~Moved(t) => cards[t] = Shown(row[t])

(* A card shows a status its task has had, as soon as its moves have ended: *)
(* the guess of a move that was refused does not stay, unless two moves of  *)
(* the task were under way at once (handleDrop takes back to what the card  *)
(* showed when it was taken up, which may be the other's guess), or the     *)
(* task is gone (PUT /api/tasks passes over it and answers success).        *)
ShownWasTrue ==
  \A t \in Tasks \ crossed :
    Present(t) /\ ~Moved(t) => \A i \in DOMAIN cards[t] : cards[t][i] \in had[t]

(* Nothing that an event, a fetch or a move leaves on the board is wrong for *)
(* longer than it takes the news to arrive.                                  *)
BoardIsTrue == InStep /\ ShownWasTrue

(* Without the stream the polls keep the board right: when nothing is       *)
(* written any more it ends up showing what the server says.                *)
PollingCatchesUp == <>[](mounted /\ stream # "open") => <>[]Agrees

(* use-server-events.ts:19 "SSE provides instant updates for all local-DB   *)
(* data", so that polling is off while the stream is open                   *)
(* (use-smart-poll.ts:13): the board ends up right with a stream that stays *)
(* open and connected, too.                                                 *)
StreamCatchesUp == <>[](mounted /\ stream = "open" /\ attached) => <>[]Agrees
================================================================================
