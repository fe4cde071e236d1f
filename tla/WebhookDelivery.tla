--------------------------- MODULE WebhookDelivery ---------------------------
(***************************************************************************)
(* backend/src/services/webhook_service.py and routes/webhooks.py: the     *)
(* webhooks of one user, and the background tasks that tell them of        *)
(* events.  A task is a thread of its own: webhooks are updated and        *)
(* deleted, and workers restarted, while it posts, waits or records.       *)
(*                                                                         *)
(* Active stands for active and subscribed to the event.  The endpoint's   *)
(* answer is what classify_delivery_failure tells apart: accepted (2xx),   *)
(* refused (other 4xx), busy (408, 429, 5xx, 1xx and 3xx), or silent: no   *)
(* answer within the time limit, although the post may have arrived.       *)
(***************************************************************************)
EXTENDS Naturals

CONSTANTS Hooks, Events, NoHook,
          webhook_max_retries

ASSUME WebhookAssumption ==
  /\ NoHook \notin Hooks
  /\ webhook_max_retries \in Nat \ {0}

Answers == {"accepted", "refused", "busy", "silent"}
Final == {"delivered", "dead_letter"}

NoRow == [status |-> "none", attempts |-> 0]

VARIABLE hooks
\* registered    per webhook: unused, active, inactive or deleted
\* rows          webhook_deliveries, per event and webhook
\* task          per event, the background task
\* acknowledged  what endpoints have answered 2xx to

Task(step) ==
  [step |-> step, matching |-> {}, left |-> {}, hook |-> NoHook, answer |-> "none"]

HooksDeployed ==
  [registered |-> [h \in Hooks |-> "unused"],
   rows |-> [x \in Events \X Hooks |-> NoRow],
   task |-> [e \in Events |-> Task("none")],
   acknowledged |-> {}]

-----------------------------------------------------------------------------
(* routes/webhooks.py                                                      *)

CreateWebhook(h) ==
  /\ hooks.registered[h] = "unused"
  /\ hooks' = [hooks EXCEPT !.registered[h] = "active"]

\* update_webhook: is_active or the subscriptions.
UpdateWebhook(h) ==
  /\ hooks.registered[h] \in {"active", "inactive"}
  /\ \E state \in {"active", "inactive"} :
       hooks' = [hooks EXCEPT !.registered[h] = state]

\* delete_webhook, with all its deliveries.
DeleteWebhook(h) ==
  /\ hooks.registered[h] \in {"active", "inactive"}
  /\ hooks' = [hooks EXCEPT !.registered[h] = "deleted",
                            !.rows = [x \in Events \X Hooks |->
                                        IF x[2] = h THEN NoRow ELSE hooks.rows[x]]]

-----------------------------------------------------------------------------
(* dispatch_webhook_event and _deliver_single                              *)

\* A handler has committed what the event tells of and adds the task.
AddTask(e) ==
  /\ hooks.task[e].step = "none"
  /\ hooks' = [hooks EXCEPT !.task[e] = Task("added")]

Matching == {h \in Hooks : hooks.registered[h] = "active"}

Dispatch(e) ==
  /\ hooks.task[e].step = "added"
  /\ hooks' = [hooks EXCEPT !.task[e] = [Task("choosing") EXCEPT !.matching = Matching,
                                                                 !.left = Matching]]

\* The next webhook gets a row; if it is gone, the error ends the whole task.
Start(e, h) ==
  /\ hooks.task[e].step = "choosing"
  /\ h \in hooks.task[e].left
  /\ hooks' =
       IF hooks.registered[h] = "deleted"
       THEN [hooks EXCEPT !.task[e].step = "lost"]
       ELSE [hooks EXCEPT !.rows[<<e, h>>] = [status |-> "pending", attempts |-> 0],
                          !.task[e].step = "posting",
                          !.task[e].hook = h,
                          !.task[e].left = hooks.task[e].left \ {h}]

Post(e) ==
  /\ hooks.task[e].step = "posting"
  /\ \E answer \in Answers :
       hooks' = [hooks EXCEPT
                   !.task[e].step = "answered",
                   !.task[e].answer = answer,
                   !.acknowledged = IF answer = "accepted"
                                    THEN hooks.acknowledged \cup {<<e, hooks.task[e].hook>>}
                                    ELSE hooks.acknowledged]

\* The status and the next step after an attempt, the last one or not.
BadDeliveryStatus(answer) ==
  CASE answer \in {"accepted", "silent"} -> "delivered"
    [] answer = "refused" -> "dead_letter"
    [] OTHER -> "pending"
DeliveryStatus(answer) ==
  CASE answer = "accepted" -> "delivered"
    [] answer = "refused" -> "dead_letter"
    [] OTHER -> "pending"

After(answer, attempt) ==
  IF DeliveryStatus(answer) \in Final THEN "choosing"
  ELSE IF attempt < webhook_max_retries THEN "sleeping" ELSE "exhausted"

Gone(e) == hooks.registered[hooks.task[e].hook] = "deleted"

\* The number of the attempt that a row's delivery is at.
BadAttempt(row) == row.attempts
Attempt(row) == row.attempts + 1

\* The commit after an attempt.
RecordAttempt(e) ==
  LET t == hooks.task[e]
      attempt == Attempt(hooks.rows[<<e, t.hook>>])
  IN /\ t.step = "answered" /\ ~Gone(e)
     /\ hooks' = [hooks EXCEPT
                    !.rows[<<e, t.hook>>] = [status |-> DeliveryStatus(t.answer),
                                             attempts |-> attempt],
                    !.task[e].step = After(t.answer, attempt)]

\* The commit after the last attempt, which the one of the attempt precedes.
GiveUp(e) ==
  /\ hooks.task[e].step = "exhausted" /\ ~Gone(e)
  /\ hooks' = [hooks EXCEPT !.rows[<<e, hooks.task[e].hook>>].status = "dead_letter",
                            !.task[e].step = "choosing"]

\* The backoff is over.
Retry(e) ==
  /\ hooks.task[e].step = "sleeping" /\ ~Gone(e)
  /\ hooks' = [hooks EXCEPT !.task[e].step = "posting"]

\* The webhook was deleted and its row with it: reading the one or committing
\* the other raises, and nobody catches it.
Aborted(e) ==
  /\ hooks.task[e].step \in {"posting", "answered", "sleeping", "exhausted"} /\ Gone(e)
  /\ hooks' = [hooks EXCEPT !.task[e].step = "lost"]

Done(e) ==
  /\ hooks.task[e].step = "choosing" /\ hooks.task[e].left = {}
  /\ hooks' = [hooks EXCEPT !.task[e].step = "done"]

\* The worker stops: tasks are kept in memory only.
Stopped(e) ==
  /\ hooks.task[e].step \notin {"none", "done", "lost"}
  /\ hooks' = [hooks EXCEPT !.task[e].step = "lost"]

TaskStep(e) ==
  \/ Dispatch(e)
  \/ \E h \in Hooks : Start(e, h)
  \/ Post(e)
  \/ RecordAttempt(e)
  \/ GiveUp(e)
  \/ Retry(e)
  \/ Aborted(e)
  \/ Done(e)

HooksNext ==
  \/ \E h \in Hooks : CreateWebhook(h) \/ UpdateWebhook(h) \/ DeleteWebhook(h)
  \/ \E e \in Events : AddTask(e) \/ TaskStep(e) \/ Stopped(e)

-----------------------------------------------------------------------------
\* What a delivery's status says is so: delivered means that the endpoint said
\* so, given up that it never did; a row is pending only while its task is at it
\* or after the task was lost; and a task that came to its end has left none out.
OutcomeAsReceived ==
  \A e \in Events, h \in Hooks :
    LET row == hooks.rows[<<e, h>>] IN
      /\ row.attempts <= webhook_max_retries
      /\ row.status = "delivered" => <<e, h>> \in hooks.acknowledged
      /\ row.status = "dead_letter" => <<e, h>> \notin hooks.acknowledged
      /\ row.status = "pending" => hooks.task[e].hook = h /\ hooks.task[e].step # "done"
      /\ hooks.task[e].step = "done" /\ h \in hooks.task[e].matching
           => row.status \in Final \/ hooks.registered[h] = "deleted"

\* Every event that was committed is told to all who matched, or its task is
\* lost with its worker or with a webhook: no endpoint's silence holds it up
\* for ever.
TasksConclude ==
  \A e \in Events :
    hooks.task[e].step = "added" ~> hooks.task[e].step \in {"done", "lost"}
=============================================================================
