------------------------------- MODULE TaskFlow -------------------------------
(****************************************************************************)
(* What the task engine promises: the status flow of docs/orchestration.md  *)
(* ("Task Lifecycle", Patterns 3 and 4) with its two retry limits, and      *)
(* nothing about sessions, batches, gateways or who calls what. A failed    *)
(* dispatch or a rejected review costs one attempt; a task that has used up *)
(* its budget goes to "failed" instead of back to "assigned"; "done" and    *)
(* "failed" are final.                                                      *)
(****************************************************************************)
EXTENDS Naturals

CONSTANTS
  Tasks,
  DispatchRetries,  \* maxDispatchRetries
  ReviewRetries     \* maxAegisRetries

VARIABLES status, attempts

flow == <<status, attempts>>

Init ==
  /\ status \in [Tasks -> {"inbox", "assigned"}]
  /\ attempts = [t \in Tasks |-> 0]

Moves(t, from, to) == status[t] \in from /\ status'[t] = to

Free(t) == attempts'[t] = attempts[t]

Costly(t) == attempts'[t] = attempts[t] + 1

Assign(t)   == Moves(t, {"inbox"}, "assigned") /\ Free(t)
Start(t)    == Moves(t, {"inbox", "assigned"}, "in_progress") /\ Free(t)
Complete(t) == Moves(t, {"in_progress"}, "review") /\ Free(t)
Retry(t)    == Moves(t, {"in_progress"}, "assigned") /\ Costly(t)
               /\ attempts'[t] < DispatchRetries
GiveUp(t)   == Moves(t, {"in_progress"}, "failed") /\ Costly(t)
               /\ attempts'[t] >= DispatchRetries
BeginReview(t) == Moves(t, {"review"}, "quality_review") /\ Free(t)
ReviewAgain(t) == Moves(t, {"quality_review"}, "review") /\ Free(t)
Approve(t)  == Moves(t, {"quality_review"}, "done") /\ Free(t)
Reject(t)   == Moves(t, {"quality_review"}, "assigned") /\ Costly(t)
               /\ attempts'[t] < ReviewRetries
RejectFinally(t) == Moves(t, {"quality_review"}, "failed") /\ Costly(t)
                    /\ attempts'[t] >= ReviewRetries

TaskStep(t) ==
  \/ status'[t] = status[t] /\ Free(t)
  \/ Assign(t) \/ Start(t) \/ Complete(t) \/ Retry(t) \/ GiveUp(t)
  \/ BeginReview(t) \/ ReviewAgain(t) \/ Approve(t)
  \/ Reject(t) \/ RejectFinally(t)

(* The router and the requeue job move several tasks in one step. *)
Next == \A t \in Tasks : TaskStep(t)

Spec == Init /\ [][Next]_flow
===============================================================================
