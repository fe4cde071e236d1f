------------------------------ MODULE ClaimForm ------------------------------
(***************************************************************************)
(* The form that submits a claim (components/claim-submission-form.tsx)    *)
(* and the check of eligibility inside it (claim-eligibility-checker.tsx). *)
(*                                                                         *)
(* The texts of the form are abstracted to the policy it names and to      *)
(* whether the rest is complete.  The documents attached are in            *)
(* DocumentUpload: nothing here reads them, handleSubmit included.         *)
(***************************************************************************)
EXTENDS Naturals, Sequences, SequencesExt

CONSTANTS
  PolicyIds,    \* what the user enters as policy
  ClaimTypes,
  ReadyTypes,   \* those of them whose conditions are all met
  FirstType,    \* flight_delay, the default
  MaxEvidence,  \* bound: rows of evidence
  MaxChecks     \* bound: eligibility checks under way

ASSUME ClaimAssumption ==
  /\ FirstType \in ClaimTypes /\ ReadyTypes \subseteq ClaimTypes
  /\ "no checks" \notin ClaimTypes
  /\ MaxEvidence \in Nat \ {0} /\ MaxChecks \in Nat

VARIABLE claim

NoPolicy == "no policy"
NoChecks == "no checks"

\* complete: date, description and loss are valid.  checks: the claim type the
\* conditions on screen are those of; timers: the types whose checks run, the
\* eldest first; requests: promises of onSubmit, each with the policy it names.
ClaimState ==
  [policy : PolicyIds \cup {NoPolicy}, type : ClaimTypes, complete : BOOLEAN,
   evidence : 1..MaxEvidence, preview : BOOLEAN,
   status : {"idle", "loading", "success"}, failed : BOOLEAN, requests : Nat,
   checks : ClaimTypes \cup {NoChecks}, checking : BOOLEAN,
   timers : SeqOf(ClaimTypes, MaxChecks)]

ClaimMounted ==
  [policy |-> NoPolicy, type |-> FirstType, complete |-> FALSE, evidence |-> 1,
   preview |-> FALSE, status |-> "idle", failed |-> FALSE, requests |-> 0,
   checks |-> NoChecks, checking |-> TRUE, timers |-> <<>>]

FormShown == claim.status # "success"
CheckerShown(form) == form.policy # NoPolicy

\* The checker's effect runs when its policy or its type has changed; without
\* a policy it is unmounted, and its timers find nothing to update.
Checked(form) ==
  IF CheckerShown(form)
  THEN [form EXCEPT !.checking = TRUE, !.timers = Append(@, form.type)]
  ELSE [form EXCEPT !.checks = NoChecks, !.checking = TRUE, !.timers = <<>>]

EnterPolicy(policy) ==
  /\ FormShown /\ policy # claim.policy /\ Len(claim.timers) < MaxChecks
  /\ claim' = Checked([claim EXCEPT !.policy = policy])

ChooseType(type) ==
  /\ FormShown /\ type # claim.type /\ Len(claim.timers) < MaxChecks
  /\ claim' = IF CheckerShown(claim) THEN Checked([claim EXCEPT !.type = type])
                                     ELSE [claim EXCEPT !.type = type]

\* The 800 ms timers end in the order they were started in.  The first to end
\* clears `loading' for the others too.  (The first form lacks the `finally'.)
BadChecksAnswered ==
  /\ claim.timers # <<>>
  /\ claim' = [claim EXCEPT !.timers = Tail(@), !.checks = Head(claim.timers)]

ChecksAnswered ==
  /\ claim.timers # <<>>
  /\ claim' = [claim EXCEPT !.timers = Tail(@), !.checks = Head(claim.timers),
                            !.checking = FALSE]

\* What the checker says of a claim of the type, and what is on screen of it.
VerdictOf(type) == IF type \in ReadyTypes THEN "ready" ELSE "pending"
Verdict ==
  IF claim.checking THEN "verifying"
  ELSE IF claim.checks = NoChecks THEN "no information" ELSE VerdictOf(claim.checks)

\* setField for the other fields, which stay enabled while the form is sent.
CompleteFields(complete) == FormShown /\ claim' = [claim EXCEPT !.complete = complete]

AddEvidence ==
  /\ FormShown /\ claim.evidence < MaxEvidence
  /\ claim' = [claim EXCEPT !.evidence = @ + 1]

\* The only row has no button.
RemoveEvidence ==
  /\ FormShown /\ claim.evidence > 1
  /\ claim' = [claim EXCEPT !.evidence = @ - 1]

TogglePreview == FormShown /\ claim' = [claim EXCEPT !.preview = ~@]

IsValid == claim.policy # NoPolicy /\ claim.complete

\* handleSubmit, up to the await.
SubmitClaim ==
  /\ FormShown /\ IsValid /\ claim.status # "loading"
  /\ claim' = [claim EXCEPT !.status = "loading", !.failed = FALSE, !.requests = @ + 1]

\* The promise of onSubmit settles.  The answer replaces the form, with the
\* checker in it, by a message.
ClaimAccepted ==
  /\ claim.requests > 0
  /\ claim' = [claim EXCEPT !.status = "success", !.requests = @ - 1,
                            !.checks = NoChecks, !.checking = TRUE, !.timers = <<>>]

ClaimRejected ==
  /\ claim.requests > 0
  /\ claim' = [claim EXCEPT !.status = "idle", !.failed = TRUE, !.requests = @ - 1]

ClaimNext ==
  \/ \E policy \in PolicyIds \cup {NoPolicy} : EnterPolicy(policy)
  \/ \E type \in ClaimTypes : ChooseType(type)
  \/ ChecksAnswered
  \/ \E complete \in BOOLEAN : CompleteFields(complete)
  \/ AddEvidence
  \/ RemoveEvidence
  \/ TogglePreview
  \/ SubmitClaim
  \/ ClaimAccepted
  \/ ClaimRejected

-----------------------------------------------------------------------------
ClaimTypeOK == claim \in ClaimState

\* Checks that were started for one type of claim may answer after the user
\* has chosen another, and nothing cancels them; yet once none is under way
\* the conditions on screen, and `Ready to submit' above them, are those of the
\* type that is to be submitted.
ChecksComeRight ==
  FormShown /\ CheckerShown(claim) =>
    IF claim.timers = <<>> THEN claim.checks = claim.type /\ Verdict = VerdictOf(claim.type)
                           ELSE Last(claim.timers) = claim.type

\* A claim is submitted once: the form waits for exactly one answer while it
\* says so, by whatever way it is submitted, and for none otherwise, so that
\* no answer can come to a form that has moved on.
OneClaimAtATime ==
  claim.requests = IF claim.status = "loading" THEN 1 ELSE 0

\* The conditions come: the checker does not say for ever that it is checking.
ChecksConclude ==
  (FormShown /\ CheckerShown(claim) /\ claim.checking)
    ~> (~FormShown \/ ~CheckerShown(claim) \/ ~claim.checking)
=============================================================================
