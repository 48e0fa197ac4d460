----------------------------- MODULE Notifications -----------------------------
(****************************************************************************)
(* The notifications table and its delivery: api/notifications/deliver,     *)
(* which a daemon calls again and again and anybody may call beside it,     *)
(* api/notifications and the cleanup job. A call selects a batch, then      *)
(* sends one message after the other through the gateway and marks each     *)
(* after its answer; between selection and answer everything else may       *)
(* happen to the row.                                                       *)
(****************************************************************************)
EXTENDS Naturals, FiniteSets

CONSTANTS
  Agents,     \* recipients the gateway knows
  Others,     \* recipients it does not know: an alert without one goes to "system"
  Sessions,   \* calls of the handler at the same time
  Daemon,     \* the session of the daemon, which delivers to everybody
  Limit,      \* how many a call selects
  MaxRows,    \* bound: rows ever inserted
  MaxTrouble  \* bound: lost answers, crashes and what people do

Ids == 1..MaxRows

VARIABLES
  row,        \* the table: recipient and state of each row
  batch,      \* of each session, what is left of its selection; the oldest is being sent
  received,   \* history: how often a message was accepted
  doubts,     \* history: how often its sender did not learn that it was accepted
  trouble     \* lost answers, crashes and what people have done so far

vars == <<row, batch, received, doubts, trouble>>

NoRow == [to |-> "none", is |-> "none"]

Recipients == Agents \cup Others
Rows == [to : Recipients, is : {"waiting", "delivered", "dismissed", "deleted"}]

Batches == {ids \in SUBSET Ids : Cardinality(ids) <= Limit}

TypeOK ==
  /\ row \in [Ids -> Rows \cup {NoRow}]
  /\ batch \in [Sessions -> Batches]
  /\ received \in [Ids -> Nat] /\ doubts \in [Ids -> Nat]
  /\ trouble \in 0..MaxTrouble

Init ==
  /\ row = [n \in Ids |-> NoRow]
  /\ batch = [s \in Sessions |-> {}]
  /\ received = [n \in Ids |-> 0]
  /\ doubts = [n \in Ids |-> 0]
  /\ trouble = 0

Troubled == trouble < MaxTrouble /\ trouble' = trouble + 1

Waiting(n) == row[n].is = "waiting"
Sending(s, n) == n \in batch[s] /\ \A m \in batch[s] : n <= m

--------------------------------------------------------------------------------
(* db_helpers.createNotification, and the INSERT of an alert rule.          *)
Create(n, to) ==
  /\ row[n] = NoRow
  /\ \A o \in 1..(n - 1) : row[o] # NoRow
  /\ row' = [row EXCEPT ![n] = [to |-> to, is |-> "waiting"]]
  /\ UNCHANGED <<batch, received, doubts, trouble>>

(* The oldest of them: rows are inserted in the order of their ids.         *)
First(ids) == {n \in ids : Cardinality({m \in ids : m < n}) < Limit}

UndeliveredOrNot(recipients) ==  \* mutant: delivered_at is not looked at
  {n \in Ids : row[n].is \in {"waiting", "delivered"} /\ row[n].to \in recipients}

Undelivered(recipients) == {n \in Ids : Waiting(n) /\ row[n].to \in recipients}

(* SELECT ... WHERE delivered_at IS NULL [AND recipient = ?]                *)
(* ORDER BY created_at LIMIT ?                                              *)
Select(s, recipients) ==
  LET selected == First(Undelivered(recipients))
  IN  /\ batch[s] = {}
      /\ selected # {}
      /\ batch' = [batch EXCEPT ![s] = selected]
      /\ UNCHANGED <<row, received, doubts, trouble>>

SelectAll(s) == Select(s, Recipients)
SelectOf(s, to) == s # Daemon /\ Select(s, {to})

(* UPDATE notifications SET delivered_at: nothing when the row is gone.     *)
Mark(n) ==
  IF row[n].is \in {"waiting", "delivered", "dismissed"}
    THEN [row EXCEPT ![n].is = "delivered"]
    ELSE row

RestLost(s) == {}  \* mutant: the loop ends

Rest(s) == {m \in batch[s] : ~Sending(s, m)}

Proceed(s) == batch' = [batch EXCEPT ![s] = Rest(s)]

(* The gateway takes the message and says so.                               *)
Accepted(s, n) ==
  /\ Sending(s, n)
  /\ row[n].to \in Agents
  /\ received' = [received EXCEPT ![n] = @ + 1]
  /\ row' = Mark(n)
  /\ Proceed(s)
  /\ UNCHANGED <<doubts, trouble>>

(* The gateway takes it, the call times out or ends with an error.          *)
AnswerLost(s, n) ==
  /\ Sending(s, n)
  /\ row[n].to \in Agents
  /\ Troubled
  /\ received' = [received EXCEPT ![n] = @ + 1]
  /\ doubts' = [doubts EXCEPT ![n] = @ + 1]
  /\ Proceed(s)
  /\ UNCHANGED row

(* Not taken: the gateway is down, or does not know the recipient.          *)
Refused(s, n) ==
  /\ Sending(s, n)
  /\ Proceed(s)
  /\ UNCHANGED <<row, received, doubts, trouble>>

(* The process stops in the middle of its calls: each message may have been *)
(* taken or not.                                                            *)
Crash ==
  /\ Troubled
  /\ \E taken \in SUBSET {s \in Sessions : \E n \in Ids : Sending(s, n) /\ row[n].to \in Agents} :
       LET Taken(n) == Cardinality({s \in taken : Sending(s, n)})
       IN  /\ received' = [n \in Ids |-> received[n] + Taken(n)]
           /\ doubts' = [n \in Ids |-> doubts[n] + Taken(n)]
  /\ batch' = [s \in Sessions |-> {}]
  /\ UNCHANGED <<row>>

(* POST api/notifications { action: "mark-delivered" } *)
MarkDelivered(to) ==
  /\ \E n \in Ids : Waiting(n) /\ row[n].to = to
  /\ row' = [n \in Ids |->
       IF Waiting(n) /\ row[n].to = to THEN [row[n] EXCEPT !.is = "dismissed"] ELSE row[n]]
  /\ Troubled
  /\ UNCHANGED <<batch, received, doubts>>

(* DELETE api/notifications by id, or the cleanup of old rows.              *)
Delete(n) ==
  /\ row[n].is \in {"waiting", "delivered", "dismissed"}
  /\ row' = [row EXCEPT ![n].is = "deleted"]
  /\ Troubled
  /\ UNCHANGED <<batch, received, doubts>>

--------------------------------------------------------------------------------
Next ==
  \/ \E n \in Ids, to \in Recipients : Create(n, to)
  \/ \E s \in Sessions : SelectAll(s) \/ \E to \in Recipients : SelectOf(s, to)
  \/ \E s \in Sessions, n \in Ids : Accepted(s, n) \/ AnswerLost(s, n) \/ Refused(s, n)
  \/ Crash
  \/ \E to \in Recipients : MarkDelivered(to)
  \/ \E n \in Ids : Delete(n)

Spec == Init /\ [][Next]_vars

(* The daemon goes on for ever; every call through the gateway ends within  *)
(* its timeout; a message to a known agent that is sent again and again is  *)
(* accepted in the end.                                                     *)
Fairness ==
  /\ WF_vars(SelectAll(Daemon))
  /\ \A s \in Sessions : WF_vars(\E n \in Ids : Accepted(s, n) \/ AnswerLost(s, n) \/ Refused(s, n))
  /\ \A n \in Ids : SF_vars(Accepted(Daemon, n))

FairSpec == Spec /\ Fairness

--------------------------------------------------------------------------------
(* A message is taken at most once by each of the calls that overlap, and   *)
(* again only when a sender did not learn that it was taken                 *)
(* (deliver/route.ts:90: sent before it is marked).                         *)
RepeatedForAReason ==
  \A n \in Ids : received[n] <= Cardinality(Sessions) + doubts[n]

(* What is marked as delivered was taken by the gateway.                    *)
MarkedIsReceived == \A n \in Ids : row[n].is = "delivered" => received[n] > 0

(* What the gateway took and what the rows say of it.                       *)
DeliveredForAReason == RepeatedForAReason /\ MarkedIsReceived

(* As long as fewer messages to unknown recipients wait than a call         *)
(* selects, every other message is delivered, or dismissed or deleted by    *)
(* somebody.                                                                *)
DeliveredBehindFew ==
  [](Cardinality({n \in Ids : Waiting(n) /\ row[n].to \in Others}) < Limit)
  => \A n \in Ids : (Waiting(n) /\ row[n].to \in Agents) ~> ~Waiting(n)
===============================================================================
