------------------------------ MODULE Backend ------------------------------
(***************************************************************************)
(* The backend: one user's policies and their cached lists, the payments   *)
(* they record, and the webhooks that are told of events.  The three share *)
(* no state (a task for the webhooks carries what it tells with it), so    *)
(* that a behaviour is that of the part that is in use.                    *)
(*                                                                         *)
(* Fair are the tasks that tell of events: a post ends with its time limit *)
(* (webhook_delivery_timeout) and a backoff with its sleep.                *)
(***************************************************************************)
EXTENDS PolicyCache, PaymentRecords, WebhookDelivery

VARIABLE inUse

vars == <<inUse, policyVars, payments, hooks>>

BackendInit ==
  /\ inUse \in {"policies", "payments", "webhooks"}
  /\ PoliciesDeployed
  /\ payments = PaymentsDeployed
  /\ hooks = HooksDeployed

UsingPolicies == inUse = "policies" /\ UNCHANGED <<inUse, payments, hooks>>
UsingPayments == inUse = "payments" /\ UNCHANGED <<inUse, policyVars, hooks>>
UsingWebhooks == inUse = "webhooks" /\ UNCHANGED <<inUse, policyVars, payments>>

BackendNext ==
  \/ UsingPolicies /\ PoliciesNext
  \/ UsingPayments /\ PaymentsNext
  \/ UsingWebhooks /\ HooksNext

BackendSpec ==
  /\ BackendInit /\ [][BackendNext]_vars
  /\ \A e \in Events : WF_vars(UsingWebhooks /\ TaskStep(e))
=============================================================================
