--------------------------------- MODULE Chat ---------------------------------
(****************************************************************************)
(* The chat of one browser (components/chat, store) and the messages of the *)
(* server (api/chat/messages). A message is shown before the server has it; *)
(* the server inserts it, asks the gateway, and only then tells the stream  *)
(* and answers. The stream, the answer and the loads of a conversation all  *)
(* bring the same message, and each may come first or not at all.           *)
(****************************************************************************)
EXTENDS Naturals, Sequences, FiniteSets

CONSTANTS
  Conversations,
  Coordinated,    \* those whose name begins with coord: - the others are agent_<name>
  Texts,          \* what the person types, each of them once
  OtherTexts,     \* what others say, each of them once
  Posts,          \* POSTs of messages under way at the same time
  Loads,          \* loads of a conversation under way at the same time
  Page,           \* messages a load asks for: 100
  ListMax,        \* entries the store keeps: 500
  MaxMessages     \* bound: rows of the table

VARIABLES
  message,    \* the table, in the order of its ids
  post,
  streaming,  \* sseConnected, and the handler of the stream listens
  events,     \* ids of messages on their way through the stream
  active,     \* activeConversation
  shown,      \* chatMessages
  load,
  typed,      \* the conversation a text was typed into
  overtook,   \* history: messages whose event came before the answer to their POST
  unheard,    \* history: texts of which an answer was lost
  refused,    \* history: texts the server has refused
  unsure      \* history: messages of the active conversation the browser may not show

Answer == "answer"  \* the text of a reply
None == "none"

(* Nothing typed is what somebody else says, and a page fits into the list. *)
Parameters ==
  /\ MaxMessages \in Nat /\ Page \in Nat /\ ListMax \in Nat \ {0} /\ Page <= ListMax
  /\ None \notin Conversations
  /\ Texts \cap OtherTexts = {} /\ Answer \notin Texts

server == <<message, post>>
stream == <<streaming, events>>
person == <<active, typed>>
history == <<overtook, unheard, refused, unsure>>
vars == <<server, stream, person, shown, load, history>>

Said == Texts \cup OtherTexts \cup {Answer}
Ids == 1..MaxMessages

Idle == [is |-> None]
NoLoad == [is |-> None]

(* An entry of chatMessages: a message with its id, or with a negative one,  *)
(* here 0, and a pendingStatus.                                              *)
Entries == [id : Ids, text : Said, is : {"here"}]
           \cup [id : {0}, text : Texts, is : {"sending", "failed"}]

TypeOK ==
  /\ message \in Seq([conversation : Conversations, text : Said])
  /\ Len(message) <= MaxMessages
  /\ post \in [Posts -> {Idle} \cup
       [is : {"asked", "forwards", "waits", "answered", "refused"}, text : Texts,
        conversation : Conversations, id : Ids \cup {0}, heard : BOOLEAN, retry : BOOLEAN]]
  /\ streaming \in BOOLEAN /\ events \in Seq(Ids)
  /\ active \in Conversations \cup {None} /\ typed \in [Texts -> Conversations \cup {None}]
  /\ shown \in Seq(Entries)
  /\ load \in [Loads -> {NoLoad} \cup [is : {"asked", "answered"},
                                       of : Conversations, ids : SUBSET Ids]]
  /\ overtook \subseteq Ids /\ unsure \subseteq Ids
  /\ unheard \subseteq Texts /\ refused \subseteq Texts

Init ==
  /\ message = <<>> /\ post = [p \in Posts |-> Idle]
  /\ streaming = FALSE /\ events = <<>>
  /\ active = None /\ typed = [t \in Texts |-> None]
  /\ shown = <<>> /\ load = [l \in Loads |-> NoLoad]
  /\ overtook = {} /\ unheard = {} /\ refused = {} /\ unsure = {}

Here(id) == [id |-> id, text |-> message[id].text, is |-> "here"]
Temp(t, is) == [id |-> 0, text |-> t, is |-> is]
Shows(entries, id) == \E i \in DOMAIN entries : entries[i].id = id
Elements(ids) == {ids[i] : i \in DOMAIN ids}
Coming(id) == id \in Elements(events)
Untold(id) == \E p \in Posts : post[p] # Idle /\ post[p].id = id /\ post[p].is \in {"forwards", "waits"}

Of(c, ids) == {id \in ids : message[id].conversation = c}

(* Messages of a conversation the browser has no news of, with these entries.*)
Missing(c, entries) ==
  {id \in Of(c, DOMAIN message) : ~Shows(entries, id) /\ ~Coming(id) /\ ~Untold(id)}

--------------------------------------------------------------------------------
(* The store *)

(* The numbers of S, the smallest first.                                     *)
InOrder(S) ==
  [k \in 1..Cardinality(S) |-> CHOOSE i \in S : Cardinality({j \in S : j < i}) = k - 1]

(* chatMessages keeps the last of its entries: slice(-500). One is added at  *)
(* a time.                                                                   *)
slice(entries) == IF Len(entries) > ListMax THEN Tail(entries) ELSE entries

(* A slip: a message of which an entry is pending is taken for shown.        *)
AddUnlessPending(entries, entry) ==
  IF Shows(entries, entry.id)
     \/ \E i \in DOMAIN entries : entries[i].id = 0 /\ entries[i].text = entry.text
  THEN entries ELSE slice(Append(entries, entry))

(* addChatMessage: skipped if a message with the same id is there.           *)
addChatMessage(entries, entry) ==
  IF entry.id # 0 /\ Shows(entries, entry.id) THEN entries ELSE slice(Append(entries, entry))

(* What this pushes out of a full list.                                      *)
PushedOut(entries, entry) ==
  IF addChatMessage(entries, entry) # entries /\ Len(entries) >= ListMax
  THEN {entries[1].id} \ {0} ELSE {}

IsTemp(entry, t) == entry.id = 0 /\ entry.text = t

(* replacePendingMessage, updatePendingMessage: every entry with its id.     *)
replacePendingMessage(t, entry) ==
  [i \in DOMAIN shown |-> IF IsTemp(shown[i], t) THEN entry ELSE shown[i]]

updatePendingMessage(t, is) == replacePendingMessage(t, Temp(t, is))

removePendingMessage(t) ==
  LET kept == InOrder({i \in DOMAIN shown : ~IsTemp(shown[i], t)})
  IN  [k \in DOMAIN kept |-> shown[kept[k]]]

--------------------------------------------------------------------------------
(* The person *)

StartPost(p, t, retry) ==
  /\ post[p] = Idle
  /\ post' = [post EXCEPT ![p] =
       [is |-> "asked", text |-> t, conversation |-> active, id |-> 0, heard |-> TRUE, retry |-> retry]]

(* handleSend                                                                *)
Send(p, t) ==
  /\ active # None /\ typed[t] = None
  /\ typed' = [typed EXCEPT ![t] = active]
  /\ shown' = addChatMessage(shown, Temp(t, "sending"))
  /\ unsure' = unsure \cup PushedOut(shown, Temp(t, "sending"))
  /\ StartPost(p, t, FALSE)
  /\ UNCHANGED <<message, stream, active, load, overtook, unheard, refused>>

(* The list only shows the entries of the active conversation.               *)
Failed(t) ==
  typed[t] = active /\ \E i \in DOMAIN shown : shown[i] = Temp(t, "failed")

(* handleRetry                                                               *)
Retry(p, t) ==
  /\ Failed(t)
  /\ shown' = updatePendingMessage(t, "sending")
  /\ StartPost(p, t, TRUE)
  /\ UNCHANGED <<message, stream, person, load, history>>

RemoveFailed(t) ==
  /\ Failed(t)
  /\ shown' = removePendingMessage(t)
  /\ UNCHANGED <<server, stream, person, load, history>>

AskFor(l, c) ==
  /\ load[l] = NoLoad
  /\ load' = [load EXCEPT ![l] = [is |-> "asked", of |-> c, ids |-> {}]]

OpenConversation(l, c) ==
  /\ c # active
  /\ active' = c
  /\ AskFor(l, c)
  /\ unsure' = Missing(c, shown)
  /\ UNCHANGED <<server, stream, typed, shown, overtook, unheard, refused>>

(* A session instead, which empties the list, or none.                       *)
CloseConversation ==
  /\ active # None
  /\ active' = None
  /\ shown' \in {shown, <<>>}
  /\ unsure' = {}
  /\ UNCHANGED <<server, stream, typed, load, overtook, unheard, refused>>

--------------------------------------------------------------------------------
(* The server: POST /api/chat/messages *)

Row(c, text) == [conversation |-> c, text |-> text]
Reply(c) == Row(c, Answer)

(* Rows are inserted, and some of the messages are broadcast.                *)
Insert(rows) ==
  /\ Len(message) + Len(rows) <= MaxMessages
  /\ message' = message \o rows

Broadcast(c, ids) ==
  /\ events' = IF streaming THEN events \o ids ELSE events
  /\ unsure' = IF streaming \/ c # active THEN unsure ELSE unsure \cup Elements(ids)
  /\ UNCHANGED <<streaming, person, shown, load, overtook, unheard, refused>>

Goes(p, id, is) ==
  post' = [post EXCEPT ![p] =
    IF is = "answered" /\ ~post[p].heard THEN Idle ELSE [post[p] EXCEPT !.id = id, !.is = is]]

(* The message is inserted. Whoever it is for has a session, then the        *)
(* gateway is asked first; or has none, and a reply says so; or it is for    *)
(* nobody.                                                                   *)
Received(p) ==
  LET id == Len(message) + 1
      c == post[p].conversation
      row == Row(c, post[p].text)
  IN  /\ post[p].is = "asked"
      /\ \/ Insert(<<row>>) /\ Goes(p, id, "forwards") /\ Broadcast(c, <<>>)
         \/ Insert(<<row, Reply(c)>>) /\ Goes(p, id, "answered") /\ Broadcast(c, <<id + 1, id>>)
         \/ Insert(<<row>>) /\ Goes(p, id, "answered") /\ Broadcast(c, <<id>>)

(* The gateway has taken it or not. A coordinator says either, unless the    *)
(* answer of the gateway is no error and none of the words the code knows;   *)
(* when there is a run it is waited for.                                     *)
Forwarded(p) ==
  LET id == post[p].id
      c == post[p].conversation
      next == Len(message) + 1
  IN  /\ post[p].is = "forwards"
      /\ \/ Insert(<<>>) /\ Goes(p, id, "answered") /\ Broadcast(c, <<id>>)
         \/ /\ c \in Coordinated /\ Insert(<<Reply(c)>>)
            /\ \/ Goes(p, id, "answered") /\ Broadcast(c, <<next, id>>)
               \/ Goes(p, id, "waits") /\ Broadcast(c, <<next>>)

(* Its end, its error or that it goes on; its tools would be more of these.  *)
RunReported(p) ==
  LET c == post[p].conversation
  IN  /\ post[p].is = "waits"
      /\ Insert(<<Reply(c)>>)
      /\ Goes(p, post[p].id, "answered")
      /\ Broadcast(c, <<Len(message) + 1, post[p].id>>)

(* Agents and other browsers. One of theirs that is told later is like one   *)
(* of ours of which the answer was lost.                                     *)
OthersSend(t, c) ==
  /\ \A id \in DOMAIN message : message[id].text # t
  /\ Insert(<<Row(c, t)>>) /\ Broadcast(c, <<Len(message) + 1>>)
  /\ UNCHANGED post

(* 400, or 422 for what looks like an injection.                             *)
Refused(p) ==
  /\ post[p].is = "asked"
  /\ post' = [post EXCEPT ![p] = IF post[p].heard THEN [post[p] EXCEPT !.is = "refused"] ELSE Idle]
  /\ UNCHANGED <<message, stream, person, shown, load, history>>

--------------------------------------------------------------------------------
(* The answers *)

(* A retry removes the entry that was pending and adds the message.          *)
Answered(p) ==
  LET t == post[p].text
      id == post[p].id
  IN  /\ post[p].is = "answered"
      /\ IF post[p].retry
         THEN /\ shown' = addChatMessage(removePendingMessage(t), Here(id))
              /\ unsure' = unsure \cup PushedOut(removePendingMessage(t), Here(id))
         ELSE shown' = replacePendingMessage(t, Here(id)) /\ UNCHANGED unsure
      /\ overtook' = IF Shows(shown, id) /\ ~post[p].retry THEN overtook \cup {id} ELSE overtook
      /\ post' = [post EXCEPT ![p] = Idle]
      /\ UNCHANGED <<message, stream, person, load, unheard, refused>>

(* apiFetch only throws at 401, 403, 404 and 5xx; an answer with another     *)
(* status has no message, and nothing happens.                               *)
AnsweredWithout(p) ==
  /\ post[p].is = "refused"
  /\ refused' = refused \cup {post[p].text}
  /\ post' = [post EXCEPT ![p] = Idle]
  /\ UNCHANGED <<message, stream, person, shown, load, overtook, unheard, unsure>>

(* The server fails, or the connection does and the handler goes on.         *)
PostFails(p) ==
  LET t == post[p].text
      unknown == {id \in Of(active, DOMAIN message) : post[p].id = id /\ Untold(id)}
  IN  /\ post[p] # Idle /\ post[p].heard
      /\ shown' = updatePendingMessage(t, "failed")
      /\ \/ /\ post' = [post EXCEPT ![p] = Idle]
            /\ unsure' = unsure \cup unknown
         \/ /\ post[p].is \in {"asked", "forwards", "waits"}
            /\ post' = [post EXCEPT ![p].heard = FALSE]
            /\ UNCHANGED unsure
      /\ unheard' = unheard \cup {t}
      /\ UNCHANGED <<message, stream, person, load, overtook, refused>>

(* Nobody waits for the answer any more and the handler throws, or the       *)
(* process is stopped: a message it has inserted is told to no one.          *)
HandlerStops(p) ==
  /\ post[p] # Idle /\ ~post[p].heard
  /\ unsure' = unsure \cup {id \in Of(active, DOMAIN message) : post[p].id = id}
  /\ post' = [post EXCEPT ![p] = Idle]
  /\ UNCHANGED <<message, stream, person, shown, load, overtook, unheard, refused>>

--------------------------------------------------------------------------------
(* The stream: api/events and use-server-events.ts. That the two ends notice *)
(* an opening and a break at different times is modelled by TaskBoard.       *)

OnOpen ==
  /\ ~streaming
  /\ streaming' = TRUE
  /\ UNCHANGED <<server, events, person, shown, load, history>>

OnError ==
  /\ streaming
  /\ streaming' = FALSE /\ events' = <<>>
  /\ unsure' = unsure \cup Of(active, Elements(events))
  /\ UNCHANGED <<server, person, shown, load, overtook, unheard, refused>>

OnMessage ==
  /\ events # <<>>
  /\ shown' = addChatMessage(shown, Here(Head(events)))
  /\ unsure' = unsure \cup PushedOut(shown, Here(Head(events)))
  /\ events' = Tail(events)
  /\ UNCHANGED <<server, streaming, person, load, overtook, unheard, refused>>

--------------------------------------------------------------------------------
(* The loads: loadMessages and GET /api/chat/messages *)

Poll(l) ==
  /\ active # None /\ ~streaming
  /\ AskFor(l, active)
  /\ UNCHANGED <<server, stream, person, shown, history>>

(* ORDER BY created_at ASC LIMIT 100: the first of the conversation.         *)
FirstPage(c) ==
  {id \in Of(c, DOMAIN message) : Cardinality(Of(c, 1..(id - 1))) < Page}

Served(l) ==
  /\ load[l].is = "asked"
  /\ load' = [load EXCEPT ![l].is = "answered", ![l].ids = FirstPage(load[l].of)]
  /\ UNCHANGED <<server, stream, person, shown, history>>

(* setChatMessages: whatever is pending goes, whichever conversation is      *)
(* active by now.                                                            *)
Loaded(l) ==
  /\ load[l].is = "answered"
  /\ shown' = [i \in DOMAIN InOrder(load[l].ids) |-> Here(InOrder(load[l].ids)[i])]
  /\ unsure' = Missing(active, shown')
  /\ overtook' = {} /\ refused' = {}
  /\ load' = [load EXCEPT ![l] = NoLoad]
  /\ UNCHANGED <<server, stream, person, unheard>>

LoadFails(l) ==
  /\ load[l] # NoLoad
  /\ load' = [load EXCEPT ![l] = NoLoad]
  /\ UNCHANGED <<server, stream, person, shown, history>>

--------------------------------------------------------------------------------
Next ==
  \/ \E p \in Posts :
       \/ \E t \in Texts : Send(p, t) \/ Retry(p, t)
       \/ Received(p) \/ Forwarded(p) \/ RunReported(p) \/ Refused(p)
       \/ Answered(p) \/ AnsweredWithout(p)
       \/ PostFails(p) \/ HandlerStops(p)
  \/ \E t \in Texts : RemoveFailed(t)
  \/ \E t \in OtherTexts, c \in Conversations : OthersSend(t, c)
  \/ \E l \in Loads :
       \/ \E c \in Conversations : OpenConversation(l, c)
       \/ Poll(l) \/ Served(l) \/ Loaded(l) \/ LoadFails(l)
  \/ CloseConversation
  \/ OnOpen \/ OnError \/ OnMessage

Spec == Init /\ [][Next]_vars

--------------------------------------------------------------------------------
(* No message is shown twice, unless its event came before the answer to     *)
(* its POST, which replaces the pending entry without looking for another.   *)
ShownOnce ==
  /\ \A id \in DOMAIN message \ overtook, i, j \in DOMAIN shown :
       shown[i].id = id /\ shown[j].id = id => i = j
  /\ \A t \in Texts, i, j \in DOMAIN shown :
       IsTemp(shown[i], t) /\ IsTemp(shown[j], t) => i = j

(* A message that is shown as being sent is being sent, unless the server    *)
(* has refused it with an answer the browser does not take for a failure.    *)
SendingIsSent ==
  \A t \in Texts \ refused : (\E i \in DOMAIN shown : shown[i] = Temp(t, "sending")) =>
    \E p \in Posts : post[p] # Idle /\ post[p].heard /\ post[p].text = t

(* A text is in the table once, unless the browser was told that it failed.  *)
SaidOnce ==
  \A t \in Texts \ unheard, id, other \in DOMAIN message :
    message[id].text = t /\ message[other].text = t => id = other

(* A message of the conversation that is open is shown, or on its way, but   *)
(* for what the stream lost, a load left out or a full list has let go.      *)
NothingMissed ==
  \A id \in DOMAIN message \ unsure : message[id].conversation = active =>
    Shows(shown, id) \/ Coming(id) \/ Untold(id)

(* What the person reads is what was said, whichever of the stream, the      *)
(* answers and the loads came first.                                         *)
ChatIsTrue == ShownOnce /\ SendingIsSent /\ SaidOnce /\ NothingMissed
================================================================================
