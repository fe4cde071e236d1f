---------------------------- MODULE CreatePolicy ----------------------------
(***************************************************************************)
(* The page that creates a policy (app/create/create-page-client.tsx): its *)
(* steps, the oracle providers it loads for the type of policy, and the    *)
(* submission, with the wallet it signs by and the autosaved draft.        *)
(*                                                                         *)
(* Of a draft the model keeps its type, its oracle provider and how far    *)
(* the form is filled in.  The draft's tabs and times are in Autosave;     *)
(* here another tab's draft may be adopted at any moment, and a draft is   *)
(* stored at once, the half second's delay being left to that module.      *)
(* The fields' `touched' marks and the spinner of the premium estimate are *)
(* left out.                                                               *)
(***************************************************************************)
EXTENDS WalletProvider, Sequences

CONSTANTS
  PolicyTypes,  \* types of policy
  ProvidersOf,  \* ORACLE_PROVIDER_MAP: the providers of each type, in order
  OtherDrafts,  \* drafts another tab may bring in
  NoType, NoOracle,
  MaxRequests   \* bound: submissions under way, those of left pages included

VARIABLES
  create,       \* the page
  stored,       \* the draft in localStorage
  kept,         \* the backup of a cleared draft
  late          \* callbacks of pages that were left: signatures, timers

createVars == <<create, stored, kept, late, wallet>>

-----------------------------------------------------------------------------
(* Drafts.                                                                 *)

\* form: "open" until the coverage and the trigger are given; "covered" with
\* these two given, a value missing or out of range; "valid" with all right.
ProvidersFor(type) ==
  IF type \in PolicyTypes THEN {ProvidersOf[type][i] : i \in 1..Len(ProvidersOf[type])} ELSE {}
Oracles == UNION {ProvidersFor(p) : p \in PolicyTypes}
Draft == [policyType : PolicyTypes \cup {NoType}, form : {"open", "covered", "valid"},
          oracleProvider : Oracles \cup {NoOracle}]
InitialDraft == [policyType |-> NoType, form |-> "open", oracleProvider |-> NoOracle]
NoDraft == [policyType |-> NoType, form |-> "none", oracleProvider |-> NoOracle]

ASSUME CreateAssumption ==
  /\ NoType \notin PolicyTypes /\ NoOracle \notin Oracles
  /\ ProvidersOf \in [PolicyTypes -> Seq(Oracles)]
  /\ OtherDrafts \subseteq Draft /\ MaxRequests \in Nat

\* The step a draft is resumed at.
StepOf(d) ==
  IF d.policyType = NoType THEN 0 ELSE IF d.form = "open" THEN 1 ELSE 2

-----------------------------------------------------------------------------
(* The page.                                                               *)

DefaultSteps == <<"pending", "pending", "pending">>
SigningSteps == <<"active", "pending", "pending">>
SentSteps == <<"completed", "active", "pending">>
ConfirmingSteps == <<"completed", "completed", "active">>
CompletedSteps == <<"completed", "completed", "completed">>
FailedSteps == <<"failed", "pending", "pending">>

\* providersOf: the type whose providers are listed.  loading: the 650 ms
\* timer.  requests: signatures asked for.  sending: 1200 ms timers.
\* confirming: 2000 ms timers.  undoable: nothing was stored when the page
\* was opened, and nothing edited since, so that `Undo discard' is not
\* refused for being older.
CreatePage == [open : BOOLEAN, step : 0..3, draft : Draft,
               oracleState : {"loading", "ready", "empty", "error"},
               providersOf : PolicyTypes \cup {NoType}, loading : BOOLEAN,
               txSteps : {DefaultSteps, SigningSteps, SentSteps, ConfirmingSteps,
                          CompletedSteps, FailedSteps},
               requests : 0..MaxRequests, sending : 0..MaxRequests,
               confirming : 0..MaxRequests, submitted : Draft \cup {NoDraft},
               receipt : Draft \cup {NoDraft}, failed : BOOLEAN, undoable : BOOLEAN]

CreateMounted(d, undoable) ==
  [open |-> TRUE, step |-> StepOf(d), draft |-> d,
   oracleState |-> "loading", providersOf |-> NoType, loading |-> d.policyType # NoType,
   txSteps |-> DefaultSteps, requests |-> 0, sending |-> 0, confirming |-> 0,
   submitted |-> NoDraft, receipt |-> NoDraft, failed |-> FALSE, undoable |-> undoable]

CreateLeft == [CreateMounted(InitialDraft, FALSE) EXCEPT !.open = FALSE]

ReceiptShown == create.txSteps = CompletedSteps /\ create.receipt # NoDraft
\* isConfigValid.
ConfigValid ==
  /\ create.draft.form = "valid" /\ create.oracleState = "ready"
  /\ create.draft.oracleProvider # NoOracle
\* isWalletReady.
WalletReady == IsConnected

\* The effect that loads providers: the type has changed from p.
OraclesFor(page, p) ==
  IF page.draft.policyType = p THEN page
  ELSE [page EXCEPT !.oracleState = "loading",
                    !.loading = page.draft.policyType # NoType,
                    !.providersOf = IF page.draft.policyType = NoType THEN NoType ELSE @]

\* The effect that selects the first provider when none is selected.
AutoSelected(page) ==
  IF /\ page.oracleState = "ready" /\ page.draft.oracleProvider = NoOracle
     /\ ProvidersOf[page.providersOf] # <<>>
  THEN [page EXCEPT !.draft.oracleProvider = Head(ProvidersOf[page.providersOf]),
                    !.undoable = FALSE]
  ELSE page

\* A draft is set: both effects run after the render, and the second one
\* still sees the providers of the type before.
Redrafted(page, d) ==
  OraclesFor(AutoSelected([page EXCEPT !.draft = d, !.undoable = FALSE]),
             page.draft.policyType)

-----------------------------------------------------------------------------
(* Opening, leaving, saving, other tabs.                                   *)

\* The debounced save of the hook.
Saved == stored' = create'.draft

OpenCreate ==
  /\ ~create.open
  /\ create' = IF stored = NoDraft THEN CreateMounted(InitialDraft, kept # NoDraft)
                                   ELSE CreateMounted(stored, FALSE)
  /\ Saved
  /\ UNCHANGED <<kept, late, wallet>>

\* The effects' timers are cleared; what the submission waits for is not.
LeaveCreate ==
  /\ create.open
  /\ create' = CreateLeft
  /\ late' = [signatures |-> late.signatures + create.requests,
              timers |-> late.timers + create.confirming]
  /\ UNCHANGED <<stored, kept, wallet>>

AdoptDraft(d) ==
  /\ create.open
  /\ create' = Redrafted(create, d)
  /\ Saved
  /\ UNCHANGED <<kept, late, wallet>>

-----------------------------------------------------------------------------
(* Choosing and configuring.                                               *)

\* The provider of the type before is kept.
BadSelectType(p) ==
  /\ create.open /\ create.step = 0
  /\ create' = [Redrafted(create, [create.draft EXCEPT !.policyType = p])
                EXCEPT !.step = 1, !.receipt = NoDraft]
  /\ Saved
  /\ UNCHANGED <<kept, late, wallet>>

\* handleTypeSelect.
SelectType(p) ==
  /\ create.open /\ create.step = 0
  /\ create' = [Redrafted(create, [create.draft EXCEPT !.policyType = p,
                                                       !.oracleProvider = NoOracle])
                EXCEPT !.step = 1, !.receipt = NoDraft]
  /\ Saved
  /\ UNCHANGED <<kept, late, wallet>>

\* The fields of the configure step, through updateDraft.
FillIn(form) ==
  /\ create.open /\ create.step = 1
  /\ create' = Redrafted(create, [create.draft EXCEPT !.form = form])
  /\ Saved
  /\ UNCHANGED <<kept, late, wallet>>

\* What the 650 ms timer finds; navigator.onLine may be anything then.
ProvidersFound(page, offline) ==
  LET type == page.draft.policyType
      found == ~offline /\ ProvidersOf[type] # <<>>
  IN AutoSelected([page EXCEPT !.loading = FALSE,
       !.providersOf = IF offline THEN NoType ELSE type,
       !.oracleState = IF offline THEN "error" ELSE IF found THEN "ready" ELSE "empty"])

OraclesLoaded ==
  /\ create.open /\ create.loading
  /\ \E offline \in BOOLEAN : create' = ProvidersFound(create, offline)
  /\ stored' = (IF create'.draft = create.draft THEN stored ELSE create'.draft)
  /\ UNCHANGED <<kept, late, wallet>>

RetryOracles ==
  /\ create.open /\ create.step = 1 /\ create.oracleState = "error"
  /\ create' = [create EXCEPT !.oracleState = "loading", !.loading = TRUE]
  /\ UNCHANGED <<stored, kept, late, wallet>>

SelectOracle(o) ==
  /\ create.open /\ create.step = 1 /\ create.oracleState = "ready"
  /\ o \in ProvidersFor(create.providersOf)
  /\ create' = Redrafted(create, [create.draft EXCEPT !.oracleProvider = o])
  /\ Saved
  /\ UNCHANGED <<kept, late, wallet>>

\* handleConfigureNext: the button is enabled only when there is nothing for
\* the list of errors.
ConfigureNext ==
  /\ create.open /\ create.step = 1 /\ ConfigValid
  /\ create' = [create EXCEPT !.step = 2]
  /\ UNCHANGED <<stored, kept, late, wallet>>

\* handleBack.
Back ==
  /\ create.open /\ create.step \in {1, 2}
  /\ create' = [create EXCEPT !.step = @ - 1]
  /\ UNCHANGED <<stored, kept, late, wallet>>

\* clearDraft, by the page.
Cleared(page) == Redrafted(page, InitialDraft)
BackedUp == kept' = IF stored = NoDraft THEN kept ELSE stored

Discard ==
  /\ create.open /\ create.step = 2
  /\ create' = [Cleared(create) EXCEPT !.step = 0]
  /\ BackedUp /\ Saved
  /\ UNCHANGED <<late, wallet>>

\* The banner's button, when it is not refused.
UndoDiscardedDraft ==
  /\ create.open /\ create.undoable /\ kept # NoDraft
  /\ create' = [Redrafted(create, kept) EXCEPT !.step = StepOf(kept)]
  /\ kept' = NoDraft /\ Saved
  /\ UNCHANGED <<late, wallet>>

-----------------------------------------------------------------------------
(* Submitting: simulateSubmit and the callbacks it leaves behind.          *)

\* Up to the await.
Submitting(page) ==
  [page EXCEPT !.step = 3, !.receipt = NoDraft, !.failed = FALSE,
               !.txSteps = SigningSteps, !.requests = @ + 1, !.sending = @ + 1,
               !.submitted = page.draft]

UnderWay == create.requests + create.confirming + late.signatures + late.timers

SignAndSubmit ==
  /\ create.open /\ create.step = 2 /\ WalletReady /\ UnderWay < MaxRequests
  /\ create.sending < MaxRequests
  /\ create' = Submitting(create)
  /\ UNCHANGED <<stored, kept, late, wallet>>

\* The page's own button, next to the notice that the wallet is not ready.
ConnectFromReview ==
  /\ create.open /\ create.step = 2 /\ wallet.status \in {"disconnected", "error"}
  /\ wallet' = Connecting
  /\ UNCHANGED <<create, stored, kept, late>>

\* The wallet signs.
SignatureGiven ==
  /\ create.requests > 0
  /\ create' = [create EXCEPT !.requests = @ - 1, !.confirming = @ + 1,
                              !.txSteps = ConfirmingSteps]
  /\ UNCHANGED <<stored, kept, late, wallet>>

Refused(page) ==
  [page EXCEPT !.requests = @ - 1, !.txSteps = FailedSteps, !.failed = TRUE,
               !.submitted = NoDraft]

SignatureRefused ==
  /\ create.requests > 0
  /\ create' = Refused(create)
  /\ UNCHANGED <<stored, kept, late, wallet>>

\* The 1200 ms timer: nobody clears it when the signature is there, or
\* refused, before.
SendingTimer ==
  /\ create.sending > 0
  /\ create' = [create EXCEPT !.sending = @ - 1, !.txSteps = SentSteps]
  /\ UNCHANGED <<stored, kept, late, wallet>>

\* Without the receipt.
BadConfirmed(page) ==
  [Cleared(page) EXCEPT !.confirming = @ - 1, !.txSteps = CompletedSteps]

Confirmed(page) ==
  [Cleared(page) EXCEPT !.confirming = @ - 1, !.txSteps = CompletedSteps,
                        !.receipt = page.submitted, !.submitted = NoDraft]

\* The 2000 ms timer, set later than the other and due later.
ConfirmingTimer ==
  /\ create.confirming > 0 /\ create.sending = 0
  /\ create' = Confirmed(create)
  /\ BackedUp /\ Saved
  /\ UNCHANGED <<late, wallet>>

\* `Retry', where the submission failed.  It is not disabled without a
\* wallet: simulateSubmit returns at once.
RetrySubmission ==
  /\ create.open /\ create.step = 3 /\ create.failed
  /\ WalletReady => UnderWay < MaxRequests /\ create.sending < MaxRequests
  /\ create' = IF WalletReady THEN Submitting(create)
               ELSE [create EXCEPT !.txSteps = DefaultSteps]
  /\ UNCHANGED <<stored, kept, late, wallet>>

\* Offered before the submission has failed.
BadBackToReview ==
  /\ create.open /\ create.step = 3 /\ ~ReceiptShown
  /\ create' = [create EXCEPT !.failed = FALSE, !.txSteps = DefaultSteps, !.step = 2]
  /\ UNCHANGED <<stored, kept, late, wallet>>

BackToReview ==
  /\ create.open /\ create.step = 3 /\ create.failed
  /\ create' = [create EXCEPT !.failed = FALSE, !.txSteps = DefaultSteps, !.step = 2]
  /\ UNCHANGED <<stored, kept, late, wallet>>

CreateAnother ==
  /\ create.open /\ create.step = 3 /\ ReceiptShown
  /\ create' = [create EXCEPT !.step = 0, !.txSteps = DefaultSteps, !.receipt = NoDraft]
  /\ UNCHANGED <<stored, kept, late, wallet>>

\* What a page that was left had asked for: its wallet may still sign, and
\* its timer still clears the draft that is stored then.
LateSignature ==
  /\ late.signatures > 0
  /\ \E signed \in {0, 1} :
       late' = [signatures |-> late.signatures - 1, timers |-> late.timers + signed]
  /\ UNCHANGED <<create, stored, kept, wallet>>

LateTimer ==
  /\ late.timers > 0
  /\ late' = [late EXCEPT !.timers = @ - 1]
  /\ BackedUp /\ stored' = NoDraft
  /\ UNCHANGED <<create, wallet>>

-----------------------------------------------------------------------------
CreateInit ==
  /\ create = CreateLeft /\ stored = NoDraft /\ kept = NoDraft
  /\ late = [signatures |-> 0, timers |-> 0]
  /\ WalletInit

CreateNext ==
  \/ OpenCreate
  \/ LeaveCreate
  \/ \E d \in OtherDrafts : AdoptDraft(d)
  \/ \E p \in PolicyTypes : SelectType(p)
  \/ \E form \in {"open", "covered", "valid"} : FillIn(form)
  \/ OraclesLoaded
  \/ RetryOracles
  \/ \E o \in Oracles : SelectOracle(o)
  \/ ConfigureNext
  \/ Back
  \/ Discard
  \/ UndoDiscardedDraft
  \/ SignAndSubmit
  \/ ConnectFromReview
  \/ SignatureGiven
  \/ SignatureRefused
  \/ SendingTimer
  \/ ConfirmingTimer
  \/ RetrySubmission
  \/ BackToReview
  \/ CreateAnother
  \/ LateSignature
  \/ LateTimer
  \/ WalletNext /\ UNCHANGED <<create, stored, kept, late>>

\* Timers fire; the user and the wallet's user owe nothing.
CreateFairness ==
  /\ WF_createVars(OraclesLoaded)
  /\ WF_createVars(SendingTimer)
  /\ WF_createVars(ConfirmingTimer)

CreateSpec == CreateInit /\ [][CreateNext]_createVars /\ CreateFairness

-----------------------------------------------------------------------------
(* Properties.                                                             *)

\* Types of the page, of what is stored and of what is left behind.
CreateTypeOK ==
  /\ create \in CreatePage /\ wallet \in WalletState
  /\ stored \in Draft \cup {NoDraft} /\ kept \in Draft \cup {NoDraft}
  /\ late \in [signatures : 0..MaxRequests, timers : 0..MaxRequests]

\* However types are changed and drafts brought in while a load is under way:
\* providers that are there to choose from are those of the draft's own type,
\* and one is selected, by the user, by the effect or in the draft.
ReadyForType ==
  create.oracleState = "ready" =>
    /\ create.providersOf = create.draft.policyType
    /\ ProvidersFor(create.draft.policyType) # {}
    /\ create.draft.oracleProvider # NoOracle

\* The one selected need not be one of them.
Selection(d) == <<d.policyType, d.oracleProvider>>
IsForeign(d) == d.oracleProvider \notin ProvidersFor(d.policyType) \cup {NoOracle}

\* A draft has the provider of another type in two ways only.  It was brought
\* in so, from storage, the backup or another tab; or its type was changed, or
\* the draft replaced by one with no provider, while providers were on the
\* page: then the effect (create-page-client.tsx:398-408) has selected the
\* first of the old ones before they were replaced.  Neither a late load nor a
\* choice of the user's ever makes one.
ForeignOnlyFromBefore ==
  [][IsForeign(create'.draft) /\ Selection(create'.draft) # Selection(create.draft) =>
       \/ create'.draft \in OtherDrafts \cup {stored, kept}
       \/ /\ create.oracleState = "ready"
          /\ create'.draft.policyType # create.draft.policyType
          /\ create'.draft.oracleProvider = Head(ProvidersOf[create.draft.policyType])
    ]_create

\* From asking for a signature to the receipt or the failure the page offers
\* no way back: one visit never has two submissions under way, so that the
\* draft on the receipt is the one that was signed.
OneSubmissionAtATime ==
  /\ create.requests + create.confirming <= 1
  /\ create.requests + create.confirming = 1 => create.step = 3 /\ ~create.failed

\* The last step has no buttons of its own: it always waits for something,
\* shows the failure with its buttons, or shows the receipt with its own.
NeverStuckSubmitting ==
  create.step = 3 =>
    create.requests + create.confirming > 0 \/ create.failed \/ ReceiptShown

\* What is signed gets its receipt, unless the page is left before.
SignedGetsReceipt ==
  (create.confirming > 0) ~> (ReceiptShown \/ ~create.open)

\* The providers of a chosen type, or the reason there are none, are shown
\* in the end.
OraclesComeIn ==
  (create.open /\ create.draft.policyType # NoType)
    ~> (~create.open \/ create.draft.policyType = NoType \/ create.oracleState # "loading")

\* The page is in a state that its steps are written for: typed, with a
\* provider selected once those of its type are there, and with a way on from
\* the last step; and a provider of another type has come in a known way.
PageSound ==
  [](CreateTypeOK /\ ReadyForType /\ NeverStuckSubmitting) /\ ForeignOnlyFromBefore

\* What the page waits for of itself comes: providers and receipts.
AwaitedArrives == SignedGetsReceipt /\ OraclesComeIn
=============================================================================
