---------------------------- MODULE PolicyDetail ----------------------------
(***************************************************************************)
(* The page of one policy (app/policies/[policyId]/policy-detail-page-     *)
(* client.tsx): its loading, the support form with its list of errors, and *)
(* the dialog that pays a premium (components/transaction-modal.tsx).      *)
(*                                                                         *)
(* A field of the form is right or wrong for validateForm; its text is     *)
(* left out.  A parameter of the route that changes mounts the page anew.  *)
(***************************************************************************)
EXTENDS Naturals

CONSTANTS
  Fields,     \* the validated fields of the form
  MaxPackets  \* bound: packets saved in one visit

ASSUME DetailAssumption == MaxPackets \in Nat

VARIABLE detail

\* The error of a field: the key is absent, has a message, or is present with
\* `undefined', as setField leaves it.
ErrorState == {"absent", "shown", "cleared"}

\* packets: 420 ms timers; payments: promises of onConfirm not settled.
DetailState ==
  [loading : BOOLEAN, record : {"none", "error", "policy"},
   right : SUBSET Fields, errors : [Fields -> ErrorState],
   submit : {"idle", "submitting", "success"}, packets : Nat, claims : 0..MaxPackets,
   payOpen : BOOLEAN, payStatus : {"idle", "loading", "success", "error"}, payments : Nat]

DetailMounted ==
  [loading |-> TRUE, record |-> "none",
   right |-> {}, errors |-> [f \in Fields |-> "absent"],
   submit |-> "idle", packets |-> 0, claims |-> 0,
   payOpen |-> FALSE, payStatus |-> "idle", payments |-> 0]

PolicyShown == ~detail.loading /\ detail.record = "policy"

\* The 240 ms timer: getPolicyRecord finds a policy, an error, or nothing.
DetailLoaded ==
  /\ detail.loading
  /\ \E r \in {"none", "error", "policy"} :
       detail' = [detail EXCEPT !.loading = FALSE, !.record = r]

\* setField.
FieldSet(page, f, isRight) ==
  [page EXCEPT !.right = IF isRight THEN @ \cup {f} ELSE @ \ {f},
               !.errors[f] = "cleared"]

EditDetail(f, isRight) ==
  /\ PolicyShown
  /\ detail' = FieldSet(detail, f, isRight)

\* validateForm.
Validated == [f \in Fields |-> IF f \in detail.right THEN "absent" ELSE "shown"]

\* Not disabled while a packet is being prepared.
BadSubmitPacket ==
  /\ PolicyShown /\ detail.claims + detail.packets < MaxPackets
  /\ detail' = IF detail.right # Fields
               THEN [detail EXCEPT !.errors = Validated]
               ELSE [detail EXCEPT !.errors = Validated, !.submit = "submitting",
                                   !.packets = @ + 1]

\* handleSubmit, by the button or by Enter, both disabled meanwhile.
SubmitPacket ==
  /\ PolicyShown /\ detail.submit # "submitting"
  /\ detail.claims + detail.packets < MaxPackets
  /\ detail' = IF detail.right # Fields
               THEN [detail EXCEPT !.errors = Validated]
               ELSE [detail EXCEPT !.errors = Validated, !.submit = "submitting",
                                   !.packets = @ + 1]

\* The claim comes from the form as it was submitted; the form that is reset
\* is the one that is there now.
PacketSaved(page) ==
  [page EXCEPT !.packets = @ - 1, !.claims = @ + 1, !.submit = "success", !.right = {}]

PacketTimer == detail.packets > 0 /\ detail' = PacketSaved(detail)

-----------------------------------------------------------------------------
(* The dialog.                                                             *)

\* Opening resets it.
OpenPayment ==
  /\ PolicyShown /\ ~detail.payOpen
  /\ detail' = [detail EXCEPT !.payOpen = TRUE, !.payStatus = "idle"]

\* Close, Cancel, Done and Escape.
ClosePayment ==
  /\ detail.payOpen /\ detail.payStatus # "loading"
  /\ detail' = [detail EXCEPT !.payOpen = FALSE]

ConfirmPayment ==
  /\ detail.payOpen /\ detail.payStatus = "idle"
  /\ detail' = [detail EXCEPT !.payStatus = "loading", !.payments = @ + 1]

\* The promise of onConfirm settles.  (The page passes one that resolves
\* after 1500 ms; the dialog is written for one that may reject.)
PaymentSettled ==
  /\ detail.payments > 0
  /\ \E result \in {"success", "error"} :
       detail' = [detail EXCEPT !.payments = @ - 1, !.payStatus = result]

PayAgain ==
  /\ detail.payOpen /\ detail.payStatus = "error"
  /\ detail' = [detail EXCEPT !.payStatus = "idle"]

-----------------------------------------------------------------------------
DetailInit == detail = DetailMounted

DetailNext ==
  \/ DetailLoaded
  \/ \E f \in Fields, isRight \in BOOLEAN : EditDetail(f, isRight)
  \/ SubmitPacket
  \/ PacketTimer
  \/ OpenPayment
  \/ ClosePayment
  \/ ConfirmPayment
  \/ PaymentSettled
  \/ PayAgain

-----------------------------------------------------------------------------
DetailTypeOK == detail \in DetailState

\* An error in the list is one the form still has: validation, edits and the
\* reset after a packet are applied to the form and to its errors apart.
ListedErrorsAreTrue ==
  \A f \in Fields : detail.errors[f] = "shown" => f \notin detail.right

\* A form is sent once: one timer runs exactly while the button says so.
OnePacketAtATime ==
  detail.packets = IF detail.submit = "submitting" THEN 1 ELSE 0

\* A packet that is being prepared is submitted: the page does not stay
\* `submitting' for ever.
PacketsConclude == detail.submit = "submitting" ~> detail.submit = "success"

\* A payment is seen through: while it is being made the dialog stays open
\* and says so, and no second one can be started.
PaymentSeenThrough ==
  detail.payments = IF detail.payOpen /\ detail.payStatus = "loading" THEN 1 ELSE 0
=============================================================================
