------------------------- MODULE CreatePolicyProofs -------------------------
(***************************************************************************)
(* Proofs about the page that creates a policy.  CreatePolicy: whatever    *)
(* types and providers there are, the wallet and the page agree about the  *)
(* one request that may be open, a visit has one submission under way at   *)
(* most, and the last step is never left without a way on.  Autosave: in   *)
(* whatever tabs the draft is edited, the time of an edit tells its        *)
(* content, and what counts as saved is stored.                            *)
(***************************************************************************)
EXTENDS CreatePolicy, Autosave, TLAPS

-----------------------------------------------------------------------------
(* The wallet.                                                             *)

\* There is an extension.
HasApi(api) == api = TRUE

\* What every step of the wallet preserves.  An account, and a request for one,
\* mean that the extension is there: where a request finds the wallet
\* unsupported, nothing would take an account away.
WalletInv ==
  /\ wallet \in WalletState
  /\ WalletConsistent
  /\ wallet.account = "address" \/ wallet.status = "connecting" => HasApi(wallet.api)

\* The wallet with these fields.
Wallet(status, account, requests, api) ==
  [status |-> status, account |-> account, requests |-> requests, api |-> api]

\* The invariant, field by field.
LEMMA WalletFields ==
  ASSUME WalletInv
  PROVE  /\ wallet = Wallet(wallet.status, wallet.account, wallet.requests, wallet.api)
         /\ wallet.status \in WalletStatus /\ wallet.api \in BOOLEAN
         /\ wallet.requests = IF wallet.status = "connecting" THEN 1 ELSE 0
         /\ wallet.account \in {"null", "address"}
         /\ wallet.status = "connected" => wallet.account = "address"
         /\ wallet.account = "address" => wallet.status \in {"connected", "connecting", "error"}
         /\ wallet.account = "address" => HasApi(wallet.api)
         /\ wallet.status = "connecting" => HasApi(wallet.api)
BY DEF WalletInv, WalletState, WalletConsistent, Wallet

\* And back.
LEMMA FieldsWallet ==
  ASSUME NEW s \in WalletStatus, NEW a \in {"null", "address"}, NEW n \in {0, 1}, NEW p \in BOOLEAN,
         (n = 1) <=> (s = "connecting"), s = "connected" => a = "address",
         a = "address" => s \in {"connected", "connecting", "error"},
         a = "address" => HasApi(p), s = "connecting" => HasApi(p),
         wallet' = Wallet(s, a, n, p)
  PROVE  WalletInv'
<1>1. wallet'.status = s /\ wallet'.account = a /\ wallet'.requests = n /\ wallet'.api = p
  BY DEF Wallet
<1>2. wallet' \in WalletState BY DEF Wallet, WalletState
<1> QED BY <1>1, <1>2 DEF WalletInv, WalletConsistent

\* connect is called only while nothing is awaited, and leaves one request; the
\* account that an error may have left stays.
LEMMA ConnectingKeeps ==
  ASSUME WalletInv, ~WalletBusy, ~IsConnected, wallet' = Connecting
  PROVE  WalletInv'
<1> DEFINE n == wallet.requests + 1
           a == wallet.account
           p == wallet.api
<1>1. /\ wallet = Wallet(wallet.status, a, 0, p) /\ n = 1
      /\ a \in {"null", "address"} /\ p \in BOOLEAN /\ (a = "address" => HasApi(p))
  BY WalletFields DEF WalletBusy
<1>2. CASE HasApi(p)
  <2>1. wallet' = [wallet EXCEPT !.status = "connecting", !.requests = n]
    BY <1>2 DEF Connecting, HasApi
  <2> HIDE DEF n, a, p
  <2>2. wallet' = [Wallet(wallet.status, a, 0, p) EXCEPT !.status = "connecting",
                                                        !.requests = 1]
    BY <1>1, <2>1
  <2>3. wallet' = Wallet("connecting", a, 1, p) BY <2>2 DEF Wallet
  <2> QED BY <1>1, <1>2, <2>3, FieldsWallet DEF WalletStatus
<1>3. CASE ~HasApi(p) /\ p = FALSE
  <2>1. wallet' = [wallet EXCEPT !.status = "unsupported"] BY <1>3 DEF Connecting
  <2> HIDE DEF n, a, p
  <2>2. a = "null" BY <1>1, <1>3
  <2>3. wallet' = Wallet("unsupported", a, 0, p) BY <1>1, <2>1 DEF Wallet
  <2> QED BY <1>1, <2>2, <2>3, FieldsWallet DEF WalletStatus
<1>4. p = TRUE \/ p = FALSE BY <1>1
<1> QED BY <1>2, <1>3, <1>4 DEF HasApi

\* Each operation of the wallet preserves it.
LEMMA WalletStep ==
  ASSUME WalletInv, WalletNext
  PROVE  WalletInv'
<1>1. CASE CheckWallet
  <2>1. wallet.requests = 0 /\ wallet.status = "checking" BY <1>1, WalletFields DEF CheckWallet
  <2>2. PICK saved \in BOOLEAN :
          wallet' = [wallet EXCEPT
            !.status = IF ~wallet.api THEN "unsupported"
                       ELSE IF saved THEN "connected" ELSE "disconnected",
            !.account = IF wallet.api /\ saved THEN "address" ELSE "null"]
    BY <1>1 DEF CheckWallet
  <2>3. \/ wallet' = Wallet("unsupported", "null", 0, wallet.api)
        \/ wallet' = Wallet("connected", "address", 0, wallet.api) /\ HasApi(wallet.api)
        \/ wallet' = Wallet("disconnected", "null", 0, wallet.api)
    <3>1. CASE wallet.api = FALSE
      <4>1. wallet' = [wallet EXCEPT !.status = "unsupported", !.account = "null"]
        BY <2>2, <3>1
      <4> QED BY <2>1, <4>1, WalletFields DEF Wallet
    <3>2. CASE wallet.api = TRUE /\ saved = TRUE
      <4>1. wallet' = [wallet EXCEPT !.status = "connected", !.account = "address"]
        BY <2>2, <3>2
      <4>2. wallet' = Wallet("connected", "address", 0, wallet.api)
        BY <2>1, <4>1, WalletFields DEF Wallet
      <4> QED BY <3>2, <4>2 DEF HasApi
    <3>3. CASE wallet.api = TRUE /\ saved = FALSE
      <4>1. wallet' = [wallet EXCEPT !.status = "disconnected", !.account = "null"]
        BY <2>2, <3>3
      <4> QED BY <2>1, <4>1, WalletFields DEF Wallet
    <3> QED BY <3>1, <3>2, <3>3, WalletFields
  <2> QED BY <2>3, WalletFields, FieldsWallet DEF WalletStatus
<1>2. CASE ClickWallet
  <2>1. CASE IsConnected
    <3>1. wallet' = Wallet("disconnected", "null", 0, wallet.api)
      BY <1>2, <2>1, WalletFields DEF ClickWallet, Disconnected, IsConnected, Wallet
    <3> QED BY <3>1, WalletFields, FieldsWallet DEF WalletStatus
  <2>2. CASE ~IsConnected BY <1>2, <2>2, ConnectingKeeps DEF ClickWallet
  <2> QED BY <2>1, <2>2
<1>3. CASE RetryWallet
  <2>1. ~WalletBusy /\ ~IsConnected
    BY <1>3 DEF RetryWallet, WalletShowsRetry, WalletBusy, IsConnected
  <2> QED BY <1>3, <2>1, ConnectingKeeps DEF RetryWallet
<1>4. ASSUME wallet.requests > 0
      PROVE  wallet.requests - 1 = 0 /\ HasApi(wallet.api) /\ wallet.status = "connecting"
  BY <1>4, WalletFields
<1>5. CASE WalletGrants
  <2>1. wallet.requests > 0 BY <1>5 DEF WalletGrants
  <2>2. PICK isStored \in BOOLEAN :
          wallet' = [wallet EXCEPT !.requests = @ - 1, !.account = RequestedAddress,
                                   !.status = IF isStored THEN "connected" ELSE "error"]
    BY <1>5 DEF WalletGrants
  <2> DEFINE s == IF isStored THEN "connected" ELSE "error"
  <2>3. s \in {"connected", "error"} OBVIOUS
  <2> HIDE DEF s
  <2>4. wallet' = Wallet(s, "address", 0, wallet.api)
    BY <1>4, <2>1, <2>2, WalletFields DEF Wallet, RequestedAddress, s
  <2> QED BY <1>4, <2>1, <2>3, <2>4, WalletFields, FieldsWallet DEF WalletStatus
<1>6. CASE WalletRefuses
  <2>1. wallet.requests > 0 BY <1>6 DEF WalletRefuses
  <2>2. wallet' = Wallet("error", wallet.account, 0, wallet.api)
    BY <1>4, <1>6, <2>1, WalletFields DEF WalletRefuses, Wallet
  <2> QED BY <1>4, <2>1, <2>2, WalletFields, FieldsWallet DEF WalletStatus
<1>7. CASE WalletInjected
  <2>1. wallet' = Wallet(wallet.status, wallet.account, wallet.requests, TRUE)
    BY <1>7, WalletFields DEF WalletInjected, Wallet
  <2>2. /\ wallet.status \in WalletStatus /\ wallet.account \in {"null", "address"}
        /\ wallet.requests \in {0, 1}
        /\ (wallet.requests = 1) <=> (wallet.status = "connecting")
        /\ wallet.status = "connected" => wallet.account = "address"
        /\ wallet.account = "address" => wallet.status \in {"connected", "connecting", "error"}
    BY WalletFields
  <2> QED BY <2>1, <2>2, FieldsWallet DEF HasApi
<1> QED BY <1>1, <1>2, <1>3, <1>5, <1>6, <1>7 DEF WalletNext

\* The page's button for connecting keeps to the same.
LEMMA ReviewConnectKeeps ==
  ASSUME WalletInv, ConnectFromReview
  PROVE  WalletInv'
<1>1. ~WalletBusy /\ ~IsConnected
  BY DEF ConnectFromReview, WalletBusy, IsConnected
<1> QED BY <1>1, ConnectingKeeps DEF ConnectFromReview

\* The invariant holds from whichever of its buttons the wallet is driven.
LEMMA WalletAlways == CreateSpec => []WalletInv
<1>1. CreateInit => WalletInv
  BY WalletAssumption
     DEF CreateInit, WalletInit, WalletInv, WalletState, WalletStatus, WalletConsistent
<1>2. WalletInv /\ [CreateNext]_createVars => WalletInv'
  <2> SUFFICES ASSUME WalletInv, [CreateNext]_createVars PROVE WalletInv' OBVIOUS
  <2>1. CASE wallet' = wallet BY <2>1 DEF WalletInv, WalletConsistent
  <2>2. WalletNext \/ ConnectFromReview \/ wallet' = wallet
    BY DEF CreateNext, createVars, OpenCreate, LeaveCreate, AdoptDraft, SelectType, FillIn,
       OraclesLoaded, RetryOracles, SelectOracle, ConfigureNext, Back, Discard,
       UndoDiscardedDraft, SignAndSubmit, SignatureGiven, SignatureRefused, SendingTimer,
       ConfirmingTimer, RetrySubmission, BackToReview, CreateAnother, LateSignature,
       LateTimer
  <2> QED BY <2>1, <2>2, WalletStep, ReviewConnectKeeps
<1> QED BY <1>1, <1>2, PTL DEF CreateSpec

\* From whichever of its buttons the wallet is driven, and whether or not the
\* account can be stored: one request at a time, an account while connected,
\* and none after a disconnection or without an extension.
THEOREM WalletSafe == CreateSpec => []WalletConsistent
<1>1. WalletInv => WalletConsistent BY DEF WalletInv
<1> QED BY <1>1, WalletAlways, PTL

-----------------------------------------------------------------------------
(* Submissions.                                                            *)

\* A page is a record with these fields, whatever they hold.
IsPage(p) ==
  p \in [open : {p.open}, step : {p.step}, draft : {p.draft},
         oracleState : {p.oracleState}, providersOf : {p.providersOf},
         loading : {p.loading}, txSteps : {p.txSteps}, requests : {p.requests},
         sending : {p.sending}, confirming : {p.confirming}, submitted : {p.submitted},
         receipt : {p.receipt}, failed : {p.failed}, undoable : {p.undoable}]

\* One submission under way at most, and then on its own step; and the offer
\* to undo a discard, which leads to another step, is made on the first one.
Sound(p) ==
  /\ IsPage(p)
  /\ p.requests \in Nat /\ p.confirming \in Nat
  /\ p.requests + p.confirming <= 1
  /\ p.requests + p.confirming = 1 => p.step = 3 /\ ~p.failed /\ p.receipt = NoDraft
  /\ p.undoable => p.step = 0

\* Another page with the same submission, on the same step.
SamePage(p, q) ==
  /\ IsPage(q)
  /\ q.requests = p.requests /\ q.confirming = p.confirming
  /\ q.step = p.step /\ q.failed = p.failed /\ q.receipt = p.receipt

\* The effect that selects a provider leaves the submission alone.
LEMMA AutoSelectedKeeps ==
  ASSUME NEW p, IsPage(p)
  PROVE  /\ SamePage(p, AutoSelected(p))
         /\ AutoSelected(p).undoable = p.undoable \/ ~AutoSelected(p).undoable
<1> DEFINE d == [p.draft EXCEPT !.oracleProvider = Head(ProvidersOf[p.providersOf])]
           q == [p EXCEPT !.draft = d, !.undoable = FALSE]
<1>1. AutoSelected(p) = q \/ AutoSelected(p) = p BY DEF AutoSelected
<1>2. SamePage(p, p) BY DEF SamePage
<1> HIDE DEF d
<1>3. SamePage(p, q) /\ q.undoable = FALSE BY DEF SamePage, IsPage
<1> QED BY <1>1, <1>2, <1>3

\* So does the one that loads providers.
LEMMA OraclesForKeeps ==
  ASSUME NEW p, NEW t, IsPage(p)
  PROVE  SamePage(p, OraclesFor(p, t)) /\ OraclesFor(p, t).undoable = p.undoable
<1> DEFINE l == p.draft.policyType # NoType
           v == IF p.draft.policyType = NoType THEN NoType ELSE p.providersOf
           q == [p EXCEPT !.oracleState = "loading", !.loading = l, !.providersOf = v]
<1>1. OraclesFor(p, t) = q \/ OraclesFor(p, t) = p BY DEF OraclesFor
<1>2. SamePage(p, p) BY DEF SamePage
<1> HIDE DEF l, v
<1>3. SamePage(p, q) /\ q.undoable = p.undoable BY DEF SamePage, IsPage
<1> QED BY <1>1, <1>2, <1>3

\* And so does whatever sets the draft, after which there is nothing to undo.
LEMMA RedraftedKeeps ==
  ASSUME NEW p, NEW d, IsPage(p)
  PROVE  SamePage(p, Redrafted(p, d)) /\ ~Redrafted(p, d).undoable
<1> DEFINE q == [p EXCEPT !.draft = d, !.undoable = FALSE]
           r == AutoSelected(q)
           t == p.draft.policyType
<1>1. SamePage(p, q) /\ q.undoable = FALSE /\ IsPage(q) BY DEF SamePage, IsPage
<1>2. Redrafted(p, d) = OraclesFor(r, t) BY DEF Redrafted
<1> HIDE DEF q, t
<1>3. SamePage(q, r) /\ (r.undoable = q.undoable \/ ~r.undoable)
  BY <1>1, AutoSelectedKeeps
<1>4. IsPage(r) BY <1>3 DEF SamePage
<1> HIDE DEF r
<1>5. SamePage(r, OraclesFor(r, t)) /\ OraclesFor(r, t).undoable = r.undoable
  BY <1>4, OraclesForKeeps
<1> QED BY <1>1, <1>2, <1>3, <1>5 DEF SamePage

\* A page with the same submission on the same step is as sound.
LEMMA SamePageSound ==
  ASSUME NEW p, NEW q, Sound(p), SamePage(p, q), q.undoable => p.undoable
  PROVE  Sound(q)
BY DEF Sound, SamePage

\* A page with nothing under way is sound on any step, without the offer.
LEMMA IdlePageSound ==
  ASSUME NEW q, IsPage(q), q.requests = 0, q.confirming = 0,
         q.undoable => q.step = 0
  PROVE  Sound(q)
BY DEF Sound

\* What is known of a page where nothing can be under way.
LEMMA Idle ==
  ASSUME NEW p, Sound(p), p.step # 3 \/ p.failed \/ p.receipt # NoDraft
  PROVE  p.requests = 0 /\ p.confirming = 0
BY DEF Sound

\* A page that has just been opened, with a draft or without one.
LEMMA MountedSound ==
  ASSUME NEW d, NEW u, u => StepOf(d) = 0
  PROVE  Sound(CreateMounted(d, u))
<1> DEFINE s == StepOf(d)
           l == d.policyType # NoType
           q == [open |-> TRUE, step |-> s, draft |-> d,
                 oracleState |-> "loading", providersOf |-> NoType, loading |-> l,
                 txSteps |-> DefaultSteps, requests |-> 0, sending |-> 0, confirming |-> 0,
                 submitted |-> NoDraft, receipt |-> NoDraft, failed |-> FALSE,
                 undoable |-> u]
<1>1. CreateMounted(d, u) = q BY DEF CreateMounted
<1>2. u => s = 0 OBVIOUS
<1> HIDE DEF s, l
<1>3. IsPage(q) /\ q.requests = 0 /\ q.confirming = 0 /\ q.undoable = u /\ q.step = s
  BY DEF IsPage
<1> HIDE DEF q
<1> QED BY <1>1, <1>2, <1>3, IdlePageSound

\* A draft that is set leaves a page sound, and so does another step after it
\* where nothing is under way.
LEMMA RedraftedSound ==
  ASSUME NEW p, NEW d, Sound(p)
  PROVE  /\ Sound(Redrafted(p, d))
         /\ \A s : p.requests = 0 /\ p.confirming = 0 =>
              /\ Sound([Redrafted(p, d) EXCEPT !.step = s])
              /\ Sound([Redrafted(p, d) EXCEPT !.step = s, !.receipt = NoDraft])
<1> DEFINE q == Redrafted(p, d)
<1>1. SamePage(p, q) /\ ~q.undoable BY RedraftedKeeps DEF Sound
<1> HIDE DEF q
<1>2. Sound(q) BY <1>1, SamePageSound
<1>3. ASSUME NEW s, p.requests = 0, p.confirming = 0
      PROVE  /\ Sound([q EXCEPT !.step = s])
             /\ Sound([q EXCEPT !.step = s, !.receipt = NoDraft])
  <2> DEFINE a == [q EXCEPT !.step = s]
             b == [q EXCEPT !.step = s, !.receipt = NoDraft]
  <2>1. IsPage(a) /\ a.requests = 0 /\ a.confirming = 0 /\ a.undoable = q.undoable
    BY <1>1, <1>3 DEF SamePage, IsPage
  <2>2. IsPage(b) /\ b.requests = 0 /\ b.confirming = 0 /\ b.undoable = q.undoable
    BY <1>1, <1>3 DEF SamePage, IsPage
  <2> HIDE DEF a, b
  <2>3. Sound(a) /\ Sound(b) BY <1>1, <2>1, <2>2, IdlePageSound
  <2> QED BY <2>3 DEF a, b
<1> QED BY <1>2, <1>3 DEF q

\* Each operation that asks for a signature, or answers a request, keeps the
\* page sound.
LEMMA SubmissionStep ==
  ASSUME Sound(create),
         \/ SignAndSubmit \/ RetrySubmission \/ SignatureGiven \/ SignatureRefused
         \/ SendingTimer \/ ConfirmingTimer
  PROVE  Sound(create')
<1>1. ASSUME create.requests = 0, create.confirming = 0, ~create.undoable,
             create' = Submitting(create)
      PROVE  Sound(create')
  <2> DEFINE n == create.requests + 1
             m == create.sending + 1
             d == create.draft
  <2>1. create' = [create EXCEPT !.step = 3, !.receipt = NoDraft, !.failed = FALSE,
                     !.txSteps = SigningSteps, !.requests = n, !.sending = m,
                     !.submitted = d]
    BY <1>1 DEF Submitting
  <2>2. n = 1 BY <1>1
  <2> HIDE DEF n, m, d
  <2>3. /\ IsPage(create') /\ create'.requests = n /\ create'.confirming = 0
        /\ create'.step = 3 /\ create'.failed = FALSE /\ create'.receipt = NoDraft
        /\ create'.undoable = create.undoable
    BY <1>1, <2>1 DEF Sound, IsPage
  <2> QED BY <1>1, <2>2, <2>3 DEF Sound
<1>2. CASE SignAndSubmit
  <2>1. create.step = 2 /\ create' = Submitting(create) BY <1>2 DEF SignAndSubmit
  <2> QED BY <1>1, <2>1, Idle DEF Sound
<1>3. CASE RetrySubmission
  <2>1. create.step = 3 /\ create.failed BY <1>3 DEF RetrySubmission
  <2>2. create.requests = 0 /\ create.confirming = 0 /\ ~create.undoable
    BY <2>1, Idle DEF Sound
  <2>3. CASE create' = [create EXCEPT !.txSteps = DefaultSteps]
    <3>1. SamePage(create, create') /\ create'.undoable = create.undoable
      BY <2>3 DEF Sound, SamePage, IsPage
    <3> QED BY <3>1, SamePageSound
  <2> QED BY <1>1, <1>3, <2>2, <2>3 DEF RetrySubmission
<1>4. CASE SignatureGiven
  <2> DEFINE n == create.requests - 1
             m == create.confirming + 1
  <2>1. create' = [create EXCEPT !.requests = n, !.confirming = m,
                                 !.txSteps = ConfirmingSteps]
    BY <1>4 DEF SignatureGiven
  <2>2. n = 0 /\ m = 1 /\ create.requests + create.confirming = 1
    BY <1>4 DEF SignatureGiven, Sound
  <2> HIDE DEF n, m
  <2>3. /\ IsPage(create') /\ create'.requests = n /\ create'.confirming = m
        /\ create'.step = create.step /\ create'.failed = create.failed
        /\ create'.receipt = create.receipt /\ create'.undoable = create.undoable
    BY <2>1 DEF Sound, IsPage
  <2> QED BY <2>2, <2>3 DEF Sound
<1>5. CASE SignatureRefused
  <2> DEFINE n == create.requests - 1
  <2>1. create' = [create EXCEPT !.requests = n, !.txSteps = FailedSteps, !.failed = TRUE,
                                 !.submitted = NoDraft]
    BY <1>5 DEF SignatureRefused, Refused
  <2>2. n = 0 /\ create.confirming = 0 /\ create.step = 3
    BY <1>5 DEF SignatureRefused, Sound
  <2> HIDE DEF n
  <2>3. /\ IsPage(create') /\ create'.requests = n /\ create'.confirming = 0
        /\ create'.step = 3 /\ create'.undoable = create.undoable
    BY <2>1, <2>2 DEF Sound, IsPage
  <2> QED BY <2>2, <2>3, IdlePageSound DEF Sound
<1>6. CASE SendingTimer
  <2> DEFINE n == create.sending - 1
  <2>1. create' = [create EXCEPT !.sending = n, !.txSteps = SentSteps]
    BY <1>6 DEF SendingTimer
  <2> HIDE DEF n
  <2>2. SamePage(create, create') /\ create'.undoable = create.undoable
    BY <2>1 DEF Sound, SamePage, IsPage
  <2> QED BY <2>2, SamePageSound
<1>7. CASE ConfirmingTimer
  <2> DEFINE n == create.confirming - 1
             d == create.submitted
             q == Redrafted(create, InitialDraft)
  <2>1. create' = [q EXCEPT !.confirming = n, !.txSteps = CompletedSteps, !.receipt = d,
                            !.submitted = NoDraft]
    <3>1. SamePage(create, q) BY RedraftedKeeps DEF Sound
    <3>2. q.confirming = create.confirming BY <3>1 DEF SamePage
    <3>3. create' = [q EXCEPT !.confirming = q.confirming - 1, !.txSteps = CompletedSteps,
                              !.receipt = d, !.submitted = NoDraft]
      BY <1>7 DEF ConfirmingTimer, Confirmed, Cleared
    <3> QED BY <3>2, <3>3
  <2>2. n = 0 /\ create.requests = 0 BY <1>7 DEF ConfirmingTimer, Sound
  <2>3. SamePage(create, q) /\ ~q.undoable BY RedraftedKeeps DEF Sound
  <2> HIDE DEF n, d, q
  <2>4. /\ IsPage(create') /\ create'.requests = 0 /\ create'.confirming = n
        /\ create'.undoable = q.undoable
    BY <2>1, <2>2, <2>3 DEF SamePage, IsPage
  <2> QED BY <2>2, <2>3, <2>4, IdlePageSound
<1> QED BY <1>2, <1>3, <1>4, <1>5, <1>6, <1>7

\* Each operation of the page keeps it sound.
LEMMA PageStep ==
  ASSUME Sound(create), [CreateNext]_createVars
  PROVE  Sound(create')
<1>1. CASE create' = create BY <1>1
<1>2. CASE OpenCreate
  <2>1. \/ create' = CreateMounted(InitialDraft, kept # NoDraft)
        \/ create' = CreateMounted(stored, FALSE)
    BY <1>2 DEF OpenCreate
  <2>2. StepOf(InitialDraft) = 0 BY DEF StepOf, InitialDraft
  <2> QED BY <2>1, <2>2, MountedSound
<1>3. CASE LeaveCreate
  <2> DEFINE q == CreateMounted(InitialDraft, FALSE)
  <2>1. create' = [q EXCEPT !.open = FALSE] BY <1>3 DEF LeaveCreate, CreateLeft
  <2>2. Sound(q) BY MountedSound
  <2> HIDE DEF q
  <2>3. SamePage(q, create') /\ create'.undoable = q.undoable
    BY <2>1, <2>2 DEF Sound, SamePage, IsPage
  <2> QED BY <2>2, <2>3, SamePageSound
<1>4. CASE \/ \E d \in OtherDrafts : AdoptDraft(d)
           \/ \E form \in {"open", "covered", "valid"} : FillIn(form)
           \/ \E o \in Oracles : SelectOracle(o)
  <2>1. \E d : create' = Redrafted(create, d)
    BY <1>4 DEF AdoptDraft, FillIn, SelectOracle
  <2> QED BY <2>1, RedraftedSound
<1>5. CASE \E p \in PolicyTypes : SelectType(p)
  <2>1. PICK d :
          /\ create.step = 0
          /\ create' = [Redrafted(create, d) EXCEPT !.step = 1, !.receipt = NoDraft]
    BY <1>5 DEF SelectType
  <2>2. create.requests = 0 /\ create.confirming = 0 BY <2>1, Idle
  <2>3. Sound([Redrafted(create, d) EXCEPT !.step = 1, !.receipt = NoDraft])
    BY <2>2, RedraftedSound
  <2> QED BY <2>1, <2>3
<1>6. CASE Discard \/ UndoDiscardedDraft
  <2>1. PICK d, s : create' = [Redrafted(create, d) EXCEPT !.step = s]
    BY <1>6 DEF Discard, Cleared, UndoDiscardedDraft
  <2>2. create.step # 3 BY <1>6 DEF Discard, UndoDiscardedDraft, Sound
  <2>3. create.requests = 0 /\ create.confirming = 0 BY <2>2, Idle
  <2>4. Sound([Redrafted(create, d) EXCEPT !.step = s]) BY <2>3, RedraftedSound
  <2> QED BY <2>1, <2>4
<1>7. CASE OraclesLoaded
  <2>1. PICK offline \in BOOLEAN : create' = ProvidersFound(create, offline)
    BY <1>7 DEF OraclesLoaded
  <2> DEFINE type == create.draft.policyType
             found == ~offline /\ ProvidersOf[type] # <<>>
             v == IF offline THEN NoType ELSE type
             o == IF offline THEN "error" ELSE IF found THEN "ready" ELSE "empty"
             q == [create EXCEPT !.loading = FALSE, !.providersOf = v, !.oracleState = o]
  <2>2. create' = AutoSelected(q) BY <2>1 DEF ProvidersFound
  <2> HIDE DEF v, o
  <2>3. SamePage(create, q) /\ q.undoable = create.undoable
    BY DEF Sound, SamePage, IsPage
  <2> HIDE DEF q
  <2>4. Sound(q) BY <2>3, SamePageSound
  <2>5. /\ SamePage(q, AutoSelected(q))
        /\ AutoSelected(q).undoable = q.undoable \/ ~AutoSelected(q).undoable
    BY <2>4, AutoSelectedKeeps DEF Sound
  <2> QED BY <2>2, <2>4, <2>5, SamePageSound
<1>8. CASE RetryOracles
  <2>1. create' = [create EXCEPT !.oracleState = "loading", !.loading = TRUE]
    BY <1>8 DEF RetryOracles
  <2>2. SamePage(create, create') /\ create'.undoable = create.undoable
    BY <2>1 DEF Sound, SamePage, IsPage
  <2> QED BY <2>2, SamePageSound
<1>9. CASE ConfigureNext \/ Back
  <2>1. PICK s : create' = [create EXCEPT !.step = s] BY <1>9 DEF ConfigureNext, Back
  <2>2. create.step \in {1, 2} BY <1>9 DEF ConfigureNext, Back
  <2>3. create.requests = 0 /\ create.confirming = 0 /\ ~create.undoable
    BY <2>2, Idle DEF Sound
  <2>4. /\ IsPage(create') /\ create'.requests = create.requests
        /\ create'.confirming = create.confirming /\ create'.undoable = create.undoable
    BY <2>1 DEF Sound, IsPage
  <2> QED BY <2>3, <2>4, IdlePageSound
<1>10. CASE BackToReview \/ CreateAnother
  <2>1. PICK s : \/ create' = [create EXCEPT !.failed = FALSE, !.txSteps = DefaultSteps,
                                             !.step = s]
                 \/ create' = [create EXCEPT !.step = s, !.txSteps = DefaultSteps,
                                             !.receipt = NoDraft]
    BY <1>10 DEF BackToReview, CreateAnother
  <2>2. create.step = 3 /\ (create.failed \/ create.receipt # NoDraft)
    BY <1>10 DEF BackToReview, CreateAnother, ReceiptShown
  <2>3. create.requests = 0 /\ create.confirming = 0 /\ ~create.undoable
    BY <2>2, Idle DEF Sound
  <2>4. /\ IsPage(create') /\ create'.requests = create.requests
        /\ create'.confirming = create.confirming /\ create'.undoable = create.undoable
    BY <2>1 DEF Sound, IsPage
  <2> QED BY <2>3, <2>4, IdlePageSound
<1>11. CASE \/ ConnectFromReview \/ LateSignature \/ LateTimer
            \/ WalletNext /\ UNCHANGED <<create, stored, kept, late>>
            \/ UNCHANGED createVars
  BY <1>1, <1>11 DEF ConnectFromReview, LateSignature, LateTimer, createVars
<1> QED
  BY <1>2, <1>3, <1>4, <1>5, <1>6, <1>7, <1>8, <1>9, <1>10, <1>11, SubmissionStep
  DEF CreateNext

\* The page before it is opened.
LEMMA SoundInit == CreateInit => Sound(create)
<1> DEFINE q == CreateMounted(InitialDraft, FALSE)
<1>1. Sound(q) BY MountedSound
<1> HIDE DEF q
<1>2. ASSUME NEW p, p = [q EXCEPT !.open = FALSE]
      PROVE  SamePage(q, p) /\ p.undoable = q.undoable
  BY <1>1, <1>2 DEF Sound, SamePage, IsPage
<1>3. Sound([q EXCEPT !.open = FALSE]) BY <1>1, <1>2, SamePageSound
<1> QED BY <1>3 DEF CreateInit, CreateLeft, q

\* Whatever types of policy and providers there are, whenever providers, other
\* tabs' drafts and signatures come: a visit has one submission under way at
\* most, and while it has, the page shows no way back to another.
THEOREM OneSubmission == CreateSpec => []OneSubmissionAtATime
<1>1. CreateInit => Sound(create) BY SoundInit
<1>2. Sound(create) /\ [CreateNext]_createVars => Sound(create)' BY PageStep
<1>3. Sound(create) => OneSubmissionAtATime BY DEF Sound, OneSubmissionAtATime
<1> QED BY <1>1, <1>2, <1>3, PTL DEF CreateSpec

-----------------------------------------------------------------------------
(* The steps of the page.                                                  *)

\* The providers that are ready are those of a type that has some.
Listed(p) ==
  p.oracleState = "ready" =>
    p.providersOf \in PolicyTypes /\ ProvidersOf[p.providersOf] # <<>>

\* Some provider is selected by then.
Selected(p) == p.oracleState = "ready" => p.draft.oracleProvider # NoOracle

\* Providers are loaded, or have been, only for a type, and those that are ready
\* are the ones of the draft's.
ForType(p) ==
  /\ p.loading \/ p.oracleState # "loading" => p.draft.policyType # NoType
  /\ p.oracleState = "ready" => p.providersOf = p.draft.policyType

\* A signature asked for is asked for a draft; and once the last step waits
\* for nothing and has not failed, the receipt is there for good.
Attended(p) ==
  /\ p.requests + p.confirming > 0 => p.submitted # NoDraft
  /\ p.step = 3 /\ p.requests + p.confirming = 0 /\ ~p.failed =>
       p.txSteps = CompletedSteps /\ p.receipt # NoDraft /\ p.sending = 0

\* A page that its steps are written for.
Good(p) == p \in CreatePage /\ Listed(p) /\ Selected(p) /\ ForType(p) /\ Attended(p)

\* Another page that shows the same of the submission.
SameAttended(p, q) ==
  /\ q.step = p.step /\ q.requests = p.requests /\ q.confirming = p.confirming
  /\ q.sending = p.sending /\ q.failed = p.failed /\ q.txSteps = p.txSteps
  /\ q.submitted = p.submitted /\ q.receipt = p.receipt

\* The types of a page's parts.
LEMMA PageFields ==
  ASSUME NEW p \in CreatePage
  PROVE  /\ p.draft \in Draft /\ p.step \in 0..3 /\ p.providersOf \in PolicyTypes \cup {NoType}
         /\ p.requests \in 0..MaxRequests /\ p.sending \in 0..MaxRequests
         /\ p.confirming \in 0..MaxRequests
         /\ p.submitted \in Draft \cup {NoDraft} /\ p.receipt \in Draft \cup {NoDraft}
         /\ p.loading \in BOOLEAN /\ p.failed \in BOOLEAN
BY DEF CreatePage

LEMMA DraftFields ==
  ASSUME NEW d \in Draft
  PROVE  /\ d.policyType \in PolicyTypes \cup {NoType}
         /\ d.form \in {"open", "covered", "valid"}
         /\ d.oracleProvider \in Oracles \cup {NoOracle}
         /\ d # NoDraft
         /\ StepOf(d) \in 0..2
<1>1. d.form # "none" BY DEF Draft
<1>2. NoDraft.form = "none" BY DEF NoDraft
<1>3. StepOf(d) \in 0..2 BY DEF StepOf
<1> QED BY <1>1, <1>2, <1>3 DEF Draft

LEMMA DraftWritten ==
  ASSUME NEW d \in Draft
  PROVE  /\ \A o \in Oracles : [d EXCEPT !.oracleProvider = o] \in Draft
         /\ \A f \in {"open", "covered", "valid"} : [d EXCEPT !.form = f] \in Draft
         /\ \A t \in PolicyTypes :
              [d EXCEPT !.policyType = t, !.oracleProvider = NoOracle] \in Draft
BY DEF Draft

LEMMA InitialDraftTyped == InitialDraft \in Draft
BY DEF InitialDraft, Draft

\* The first provider of a type that has some.
LEMMA FirstProvider ==
  ASSUME NEW t \in PolicyTypes, ProvidersOf[t] # <<>>
  PROVE  Head(ProvidersOf[t]) \in Oracles /\ Head(ProvidersOf[t]) # NoOracle
BY CreateAssumption

\* The effect that selects a provider.
LEMMA AutoSelectedGood ==
  ASSUME NEW p \in CreatePage, Listed(p)
  PROVE  /\ AutoSelected(p) \in CreatePage
         /\ Listed(AutoSelected(p)) /\ Selected(AutoSelected(p))
         /\ ForType(p) => ForType(AutoSelected(p))
         /\ AutoSelected(p).draft.policyType = p.draft.policyType
         /\ SameAttended(p, AutoSelected(p))
<1> DEFINE h == Head(ProvidersOf[p.providersOf])
           d == [p.draft EXCEPT !.oracleProvider = h]
           q == [p EXCEPT !.draft = d, !.undoable = FALSE]
<1>1. CASE /\ p.oracleState = "ready" /\ p.draft.oracleProvider = NoOracle
           /\ ProvidersOf[p.providersOf] # <<>>
  <2>1. AutoSelected(p) = q BY <1>1 DEF AutoSelected
  <2>2. h \in Oracles /\ h # NoOracle BY <1>1, FirstProvider DEF Listed
  <2> HIDE DEF h
  <2>3. /\ d \in Draft /\ d.oracleProvider = h /\ d.policyType = p.draft.policyType
    BY <2>2, PageFields, DraftWritten DEF Draft
  <2> HIDE DEF d
  <2>4. q \in CreatePage BY <2>3 DEF CreatePage
  <2>5. /\ q.draft = d /\ q.oracleState = p.oracleState /\ q.providersOf = p.providersOf
        /\ q.loading = p.loading /\ SameAttended(p, q)
    BY DEF CreatePage, SameAttended
  <2> HIDE DEF q
  <2> QED BY <2>1, <2>2, <2>3, <2>4, <2>5 DEF Listed, Selected, ForType
<1>2. CASE ~(/\ p.oracleState = "ready" /\ p.draft.oracleProvider = NoOracle
             /\ ProvidersOf[p.providersOf] # <<>>)
  <2>1. AutoSelected(p) = p BY <1>2 DEF AutoSelected
  <2>2. Selected(p) BY <1>2 DEF Selected, Listed
  <2> QED BY <2>1, <2>2 DEF SameAttended
<1> QED BY <1>1, <1>2

\* The effect that loads providers.
LEMMA OraclesForGood ==
  ASSUME NEW p \in CreatePage, NEW t, Listed(p), Selected(p),
         p.draft.policyType = t => ForType(p)
  PROVE  /\ OraclesFor(p, t) \in CreatePage
         /\ Listed(OraclesFor(p, t)) /\ Selected(OraclesFor(p, t)) /\ ForType(OraclesFor(p, t))
         /\ SameAttended(p, OraclesFor(p, t))
<1> DEFINE l == p.draft.policyType # NoType
           v == IF p.draft.policyType = NoType THEN NoType ELSE p.providersOf
           q == [p EXCEPT !.oracleState = "loading", !.loading = l, !.providersOf = v]
<1>1. CASE p.draft.policyType = t
  BY <1>1 DEF OraclesFor, SameAttended
<1>2. CASE p.draft.policyType # t
  <2>1. OraclesFor(p, t) = q BY <1>2 DEF OraclesFor
  <2>2. l \in BOOLEAN /\ v \in PolicyTypes \cup {NoType} BY PageFields
  <2>3. l => p.draft.policyType # NoType OBVIOUS
  <2> HIDE DEF l, v
  <2>4. q \in CreatePage BY <2>2 DEF CreatePage
  <2>5. /\ q.oracleState = "loading" /\ q.loading = l /\ q.draft = p.draft
        /\ SameAttended(p, q)
    BY DEF CreatePage, SameAttended
  <2> HIDE DEF q
  <2> QED BY <2>1, <2>3, <2>4, <2>5 DEF Listed, Selected, ForType
<1> QED BY <1>1, <1>2

\* A page with the same submission is attended as well.
LEMMA SameAttendedKeeps ==
  ASSUME NEW p, NEW q, Attended(p), SameAttended(p, q)
  PROVE  Attended(q)
BY DEF Attended, SameAttended

\* Whatever sets the draft.
LEMMA RedraftedGood ==
  ASSUME NEW p, Good(p), NEW d \in Draft
  PROVE  Good(Redrafted(p, d)) /\ SameAttended(p, Redrafted(p, d))
<1> DEFINE q == [p EXCEPT !.draft = d, !.undoable = FALSE]
           r == AutoSelected(q)
           t == p.draft.policyType
<1>1. q \in CreatePage BY DEF Good, CreatePage
<1>2. /\ q.draft = d /\ q.oracleState = p.oracleState /\ q.providersOf = p.providersOf
      /\ q.loading = p.loading /\ SameAttended(p, q)
  BY DEF Good, CreatePage, SameAttended
<1>3. Redrafted(p, d) = OraclesFor(r, t) BY DEF Redrafted
<1>4. Listed(q) /\ (d.policyType = t => ForType(q))
  BY <1>2 DEF Good, Listed, ForType
<1> HIDE DEF q, t
<1>5. /\ r \in CreatePage /\ Listed(r) /\ Selected(r) /\ SameAttended(q, r)
      /\ r.draft.policyType = t => ForType(r)
  BY <1>1, <1>2, <1>4, AutoSelectedGood
<1> HIDE DEF r
<1>6. /\ OraclesFor(r, t) \in CreatePage /\ Listed(OraclesFor(r, t))
      /\ Selected(OraclesFor(r, t)) /\ ForType(OraclesFor(r, t))
      /\ SameAttended(r, OraclesFor(r, t))
  BY <1>5, OraclesForGood
<1>7. SameAttended(p, OraclesFor(r, t)) BY <1>2, <1>5, <1>6 DEF SameAttended
<1> QED BY <1>3, <1>6, <1>7, SameAttendedKeeps DEF Good

\* A page that goes on to a step before the last one, with the same answers
\* still to come.
Awaits(p, q) == q.requests = p.requests /\ q.confirming = p.confirming

TurnedTo(p, q, s) ==
  \/ q = [p EXCEPT !.step = s]
  \/ q = [p EXCEPT !.step = s, !.receipt = NoDraft]
  \/ q = [p EXCEPT !.failed = FALSE, !.txSteps = DefaultSteps, !.step = s]
  \/ q = [p EXCEPT !.step = s, !.txSteps = DefaultSteps, !.receipt = NoDraft]

LEMMA TurnedGood ==
  ASSUME NEW p, Good(p), NEW s \in 0..2, NEW r, TurnedTo(p, r, s)
  PROVE  Good(r) /\ Awaits(p, r)
<1> DEFINE Kept(q) == /\ q.oracleState = p.oracleState /\ q.providersOf = p.providersOf
                      /\ q.loading = p.loading /\ q.draft = p.draft
                      /\ q.requests = p.requests /\ q.confirming = p.confirming
                      /\ q.submitted = p.submitted /\ q.step = s
<1>1. ASSUME NEW q \in CreatePage, Kept(q) PROVE Good(q) /\ Awaits(p, q)
  <2>1. Attended(q) BY <1>1 DEF Good, Attended
  <2> QED BY <1>1, <2>1 DEF Good, Listed, Selected, ForType, Awaits
<1> DEFINE a == [p EXCEPT !.step = s]
           b == [p EXCEPT !.step = s, !.receipt = NoDraft]
           c == [p EXCEPT !.failed = FALSE, !.txSteps = DefaultSteps, !.step = s]
           d == [p EXCEPT !.step = s, !.txSteps = DefaultSteps, !.receipt = NoDraft]
<1>2. a \in CreatePage /\ b \in CreatePage /\ c \in CreatePage /\ d \in CreatePage
  <2>1. p \in CreatePage /\ s \in 0..3 BY DEF Good
  <2>2. a \in CreatePage BY <2>1 DEF CreatePage
  <2>3. b \in CreatePage BY <2>1 DEF CreatePage
  <2>4. c \in CreatePage BY <2>1 DEF CreatePage
  <2>5. d \in CreatePage BY <2>1 DEF CreatePage
  <2> QED BY <2>2, <2>3, <2>4, <2>5
<1>3. Kept(a) /\ Kept(b) /\ Kept(c) /\ Kept(d)
  <2>1. Kept(a) BY DEF Good, CreatePage
  <2>2. Kept(b) BY DEF Good, CreatePage
  <2>3. Kept(c) BY DEF Good, CreatePage
  <2>4. Kept(d) BY DEF Good, CreatePage
  <2> QED BY <2>1, <2>2, <2>3, <2>4
<1> HIDE DEF a, b, c, d, Kept
<1>4. /\ Good(a) /\ Awaits(p, a) /\ Good(b) /\ Awaits(p, b)
      /\ Good(c) /\ Awaits(p, c) /\ Good(d) /\ Awaits(p, d)
  BY <1>1, <1>2, <1>3
<1>5. r = a \/ r = b \/ r = c \/ r = d BY DEF TurnedTo, a, b, c, d
<1> QED BY <1>4, <1>5

\* A page that has just been opened.
LEMMA MountedGood ==
  ASSUME NEW d \in Draft, NEW u \in BOOLEAN
  PROVE  Good(CreateMounted(d, u)) /\ CreateMounted(d, u).draft = d
<1> DEFINE s == StepOf(d)
           l == d.policyType # NoType
           q == [open |-> TRUE, step |-> s, draft |-> d,
                 oracleState |-> "loading", providersOf |-> NoType, loading |-> l,
                 txSteps |-> DefaultSteps, requests |-> 0, sending |-> 0, confirming |-> 0,
                 submitted |-> NoDraft, receipt |-> NoDraft, failed |-> FALSE,
                 undoable |-> u]
<1>1. CreateMounted(d, u) = q BY DEF CreateMounted
<1>2. s \in 0..2 /\ l \in BOOLEAN /\ 0 \in 0..MaxRequests /\ (l => d.policyType # NoType)
  BY DraftFields, CreateAssumption
<1> HIDE DEF s, l
<1>3. s \in 0..3 /\ s # 3 BY <1>2
<1>4. q \in CreatePage BY <1>2, <1>3 DEF CreatePage
<1>5. /\ q.oracleState = "loading" /\ q.loading = l /\ q.draft = d /\ q.step = s
      /\ q.requests = 0 /\ q.confirming = 0
  OBVIOUS
<1> HIDE DEF q
<1>6. Good(q)
  BY <1>2, <1>3, <1>4, <1>5 DEF Good, Listed, Selected, ForType, Attended
<1> QED BY <1>1, <1>5, <1>6

\* A page that was left shows nothing and waits for nothing.
LEMMA LeftGood ==
  Good(CreateLeft) /\ CreateLeft.requests = 0 /\ CreateLeft.confirming = 0
<1> DEFINE q == CreateMounted(InitialDraft, FALSE)
           r == [q EXCEPT !.open = FALSE]
<1>1. Good(q) BY InitialDraftTyped, MountedGood
<1>2. q.requests = 0 /\ q.confirming = 0 BY DEF CreateMounted
<1>3. CreateLeft = r BY DEF CreateLeft
<1> HIDE DEF q
<1>4. r \in CreatePage BY <1>1 DEF Good, CreatePage
<1>5. /\ r.oracleState = q.oracleState /\ r.providersOf = q.providersOf
      /\ r.loading = q.loading /\ r.draft = q.draft /\ SameAttended(q, r)
  BY <1>1 DEF Good, CreatePage, SameAttended
<1> HIDE DEF r
<1>6. Good(r) BY <1>1, <1>4, <1>5, SameAttendedKeeps DEF Good, Listed, Selected, ForType
<1> QED BY <1>2, <1>3, <1>5, <1>6 DEF SameAttended

\* What the timer finds.
LEMMA ProvidersFoundGood ==
  ASSUME NEW p, Good(p), p.loading, NEW offline \in BOOLEAN
  PROVE  Good(ProvidersFound(p, offline)) /\ SameAttended(p, ProvidersFound(p, offline))
<1> DEFINE t == p.draft.policyType
           found == ~offline /\ ProvidersOf[t] # <<>>
           v == IF offline THEN NoType ELSE t
           o == IF offline THEN "error" ELSE IF found THEN "ready" ELSE "empty"
           q == [p EXCEPT !.loading = FALSE, !.providersOf = v, !.oracleState = o]
<1>1. ProvidersFound(p, offline) = AutoSelected(q) BY DEF ProvidersFound
<1>2. t \in PolicyTypes /\ t # NoType
  BY PageFields, DraftFields, CreateAssumption DEF Good, ForType
<1>3. /\ v \in PolicyTypes \cup {NoType} /\ o \in {"loading", "ready", "empty", "error"}
      /\ o = "ready" => v = t /\ v \in PolicyTypes /\ ProvidersOf[v] # <<>>
  BY <1>2
<1> HIDE DEF v, o
<1>4. q \in CreatePage BY <1>3 DEF Good, CreatePage
<1>5. /\ q.oracleState = o /\ q.providersOf = v /\ q.draft = p.draft /\ SameAttended(p, q)
  BY DEF Good, CreatePage, SameAttended
<1> HIDE DEF q
<1>6. Listed(q) /\ ForType(q) BY <1>2, <1>3, <1>5 DEF Listed, ForType
<1>7. /\ AutoSelected(q) \in CreatePage /\ Listed(AutoSelected(q)) /\ Selected(AutoSelected(q))
      /\ ForType(AutoSelected(q)) /\ SameAttended(q, AutoSelected(q))
  BY <1>4, <1>6, AutoSelectedGood
<1>8. SameAttended(p, AutoSelected(q)) BY <1>5, <1>7 DEF SameAttended
<1> QED BY <1>1, <1>7, <1>8, SameAttendedKeeps DEF Good

\* What the page, storage and the pages that were left hold together.
PageInv ==
  /\ Sound(create) /\ Good(create)
  /\ stored \in Draft \cup {NoDraft} /\ kept \in Draft \cup {NoDraft}
  /\ late \in [signatures : Nat, timers : Nat]
  /\ UnderWay <= MaxRequests

\* The counts of what is awaited are numbers.
LEMMA AwaitedCounts ==
  ASSUME PageInv
  PROVE  /\ create.requests \in Nat /\ create.confirming \in Nat /\ create.sending \in Nat
         /\ late.signatures \in Nat /\ late.timers \in Nat /\ MaxRequests \in Nat
         /\ create.requests + create.confirming <= 1
         /\ create.requests + create.confirming + late.signatures + late.timers
              <= MaxRequests
         /\ create.draft \in Draft
BY CreateAssumption DEF PageInv, Sound, Good, CreatePage, UnderWay

\* Operations that wait for no more than before.
LEMMA QuietKeeps ==
  ASSUME PageInv, Sound(create'), Good(create'), Awaits(create, create'), late' = late,
         stored' \in Draft \cup {NoDraft}, kept' \in Draft \cup {NoDraft}
  PROVE  PageInv'
BY DEF PageInv, UnderWay, Awaits

\* A draft is set, by the user or by another tab, on whatever step.
LEMMA DraftSetKeeps ==
  ASSUME PageInv, Sound(create'),
         \/ \E d \in OtherDrafts : AdoptDraft(d)
         \/ \E p \in PolicyTypes : SelectType(p)
         \/ \E form \in {"open", "covered", "valid"} : FillIn(form)
         \/ \E o \in Oracles : SelectOracle(o)
         \/ Discard \/ UndoDiscardedDraft
  PROVE  PageInv'
<1>0. create.draft \in Draft /\ Good(create) BY AwaitedCounts DEF PageInv
<1>1. ASSUME NEW d \in Draft, create' = Redrafted(create, d), Saved, late' = late, kept' = kept
      PROVE  PageInv'
  <2>1. Good(create') /\ Awaits(create, create')
    BY <1>0, <1>1, RedraftedGood DEF SameAttended, Awaits
  <2>2. create'.draft \in Draft BY <2>1, PageFields DEF Good
  <2> QED BY <1>1, <2>1, <2>2, QuietKeeps DEF PageInv, Saved
<1>2. ASSUME NEW d \in Draft, NEW s \in 0..2, Saved, late' = late,
             kept' \in Draft \cup {NoDraft}, TurnedTo(Redrafted(create, d), create', s)
      PROVE  PageInv'
  <2> DEFINE q == Redrafted(create, d)
  <2>1. Good(q) /\ Awaits(create, q)
    BY <1>0, <1>2, RedraftedGood DEF SameAttended, Awaits
  <2>2. TurnedTo(q, create', s) BY <1>2
  <2> HIDE DEF q
  <2>3. Good(create') /\ Awaits(q, create') BY <2>1, <2>2, TurnedGood
  <2>4. create'.draft \in Draft BY <2>3, PageFields DEF Good
  <2> QED BY <1>2, <2>1, <2>3, <2>4, QuietKeeps DEF Awaits, Saved
<1>3. CASE \E d \in OtherDrafts : AdoptDraft(d)
  BY <1>1, <1>3, CreateAssumption DEF AdoptDraft
<1>4. CASE \E p \in PolicyTypes : SelectType(p)
  <2>1. PICK p \in PolicyTypes : SelectType(p) BY <1>4
  <2> DEFINE d == [create.draft EXCEPT !.policyType = p, !.oracleProvider = NoOracle]
  <2>2. d \in Draft BY <1>0, DraftWritten
  <2>3. TurnedTo(Redrafted(create, d), create', 1) /\ Saved /\ late' = late /\ kept' = kept
    BY <2>1 DEF SelectType, TurnedTo
  <2> HIDE DEF d
  <2> QED BY <1>2, <2>2, <2>3 DEF PageInv
<1>5. CASE \E form \in {"open", "covered", "valid"} : FillIn(form)
  <2>1. PICK form \in {"open", "covered", "valid"} : FillIn(form) BY <1>5
  <2> QED BY <1>0, <1>1, <2>1, DraftWritten DEF FillIn
<1>6. CASE \E o \in Oracles : SelectOracle(o)
  <2>1. PICK o \in Oracles : SelectOracle(o) BY <1>6
  <2> QED BY <1>0, <1>1, <2>1, DraftWritten DEF SelectOracle
<1>7. CASE Discard
  <2>1. /\ TurnedTo(Redrafted(create, InitialDraft), create', 0)
        /\ Saved /\ late' = late /\ kept' \in {kept, stored}
    BY <1>7 DEF Discard, Cleared, BackedUp, TurnedTo
  <2> QED BY <1>2, <2>1, InitialDraftTyped DEF PageInv
<1>8. CASE UndoDiscardedDraft
  <2>1. /\ TurnedTo(Redrafted(create, kept), create', StepOf(kept))
        /\ Saved /\ late' = late /\ kept' = NoDraft /\ kept \in Draft
    BY <1>8 DEF UndoDiscardedDraft, PageInv, TurnedTo
  <2>2. StepOf(kept) \in 0..2 BY <2>1, DraftFields
  <2> QED BY <1>2, <2>1, <2>2
<1> QED BY <1>3, <1>4, <1>5, <1>6, <1>7, <1>8

\* The page is opened, left, loads providers or goes from step to step.
LEMMA PageTurnKeeps ==
  ASSUME PageInv, Sound(create'),
         \/ OpenCreate \/ LeaveCreate \/ OraclesLoaded \/ RetryOracles
         \/ ConfigureNext \/ Back \/ BackToReview \/ CreateAnother
  PROVE  PageInv'
<1>0. /\ Good(create) /\ create \in CreatePage
      /\ stored \in Draft \cup {NoDraft} /\ kept \in Draft \cup {NoDraft}
  BY DEF PageInv, Good
<1>1. CASE OpenCreate
  <2>1. PICK d \in Draft, u \in BOOLEAN : create' = CreateMounted(d, u)
    BY <1>0, <1>1, InitialDraftTyped DEF OpenCreate
  <2>2. Good(create') /\ create'.draft = d BY <2>1, MountedGood
  <2>3. create'.requests = 0 /\ create'.confirming = 0 BY <2>1 DEF CreateMounted
  <2>4. late' = late /\ kept' = kept /\ stored' = create'.draft
    BY <1>1 DEF OpenCreate, Saved
  <2>5. late.signatures + late.timers <= MaxRequests BY AwaitedCounts
  <2> QED BY <1>0, <2>2, <2>3, <2>4, <2>5, AwaitedCounts DEF PageInv, UnderWay
<1>2. CASE LeaveCreate
  <2>1. /\ create' = CreateLeft /\ stored' = stored /\ kept' = kept
        /\ late' = [signatures |-> late.signatures + create.requests,
                    timers |-> late.timers + create.confirming]
    BY <1>2 DEF LeaveCreate
  <2>2. Good(create') /\ create'.requests = 0 /\ create'.confirming = 0 BY <2>1, LeftGood
  <2>3. /\ late'.signatures = late.signatures + create.requests
        /\ late'.timers = late.timers + create.confirming
        /\ late' \in [signatures : Nat, timers : Nat]
    BY <2>1, AwaitedCounts
  <2> QED BY <1>0, <2>1, <2>2, <2>3, AwaitedCounts DEF PageInv, UnderWay
<1>3. CASE OraclesLoaded
  <2>1. PICK offline \in BOOLEAN : create' = ProvidersFound(create, offline)
    BY <1>3 DEF OraclesLoaded
  <2>2. create.loading BY <1>3 DEF OraclesLoaded
  <2>3. Good(create') /\ Awaits(create, create')
    BY <1>0, <2>1, <2>2, ProvidersFoundGood DEF SameAttended, Awaits
  <2>4. late' = late /\ kept' = kept /\ stored' \in {stored, create'.draft}
    BY <1>3 DEF OraclesLoaded
  <2>5. create'.draft \in Draft BY <2>3, PageFields DEF Good
  <2> QED BY <1>0, <2>3, <2>4, <2>5, QuietKeeps
<1>4. CASE RetryOracles
  <2>1. /\ create' = [create EXCEPT !.oracleState = "loading", !.loading = TRUE]
        /\ create.oracleState = "error" /\ stored' = stored /\ kept' = kept /\ late' = late
    BY <1>4 DEF RetryOracles
  <2>2. /\ create' \in CreatePage /\ create'.oracleState = "loading"
        /\ create'.draft = create.draft /\ SameAttended(create, create')
    BY <1>0, <2>1 DEF CreatePage, SameAttended
  <2>3. create.draft.policyType # NoType BY <1>0, <2>1 DEF Good, ForType
  <2>4. Good(create')
    BY <1>0, <2>2, <2>3, SameAttendedKeeps DEF Good, Listed, Selected, ForType
  <2> QED BY <1>0, <2>1, <2>2, <2>4, QuietKeeps DEF SameAttended, Awaits
<1>5. CASE ConfigureNext \/ Back \/ BackToReview \/ CreateAnother
  <2>1. /\ stored' = stored /\ kept' = kept /\ late' = late
        /\ \E s \in 0..2 : TurnedTo(create, create', s)
    BY <1>5 DEF ConfigureNext, Back, BackToReview, CreateAnother, TurnedTo
  <2>2. Good(create') /\ Awaits(create, create') BY <1>0, <2>1, TurnedGood
  <2> QED BY <1>0, <2>1, <2>2, QuietKeeps
<1> QED BY <1>1, <1>2, <1>3, <1>4, <1>5

\* What the page shows of the draft and its providers stays as it is.
SameDraft(p, q) ==
  /\ q.oracleState = p.oracleState /\ q.providersOf = p.providersOf
  /\ q.loading = p.loading /\ q.draft = p.draft

LEMMA SameDraftGood ==
  ASSUME NEW p, Good(p), NEW q \in CreatePage, SameDraft(p, q), Attended(q)
  PROVE  Good(q)
BY DEF Good, SameDraft, Listed, Selected, ForType

\* A submission is begun, or begun again after a failure.
LEMMA SubmitKeeps ==
  ASSUME PageInv, Sound(create'), SignAndSubmit \/ RetrySubmission
  PROVE  PageInv'
<1>0. Good(create) /\ create \in CreatePage BY DEF PageInv, Good
<1>1. stored' = stored /\ kept' = kept /\ late' = late
  BY DEF SignAndSubmit, RetrySubmission
<1>2. CASE create' = Submitting(create) /\ UnderWay < MaxRequests /\ create.sending < MaxRequests
  <2> DEFINE n == create.requests + 1
             m == create.sending + 1
             d == create.draft
  <2>1. create' = [create EXCEPT !.step = 3, !.receipt = NoDraft, !.failed = FALSE,
                     !.txSteps = SigningSteps, !.requests = n, !.sending = m,
                     !.submitted = d]
    BY <1>2 DEF Submitting
  <2>2. /\ n \in 0..MaxRequests /\ m \in 0..MaxRequests /\ d \in Draft
        /\ create.confirming \in Nat
        /\ n + create.confirming + late.signatures + late.timers <= MaxRequests
        /\ n + create.confirming > 0
    BY <1>2, AwaitedCounts DEF UnderWay
  <2> HIDE DEF n, m, d
  <2>3. create' \in CreatePage
    <3>1. PICK s \in 0..3 : s = 3 OBVIOUS
    <3>2. create' = [create EXCEPT !.step = s, !.receipt = NoDraft, !.failed = FALSE,
                       !.txSteps = SigningSteps, !.requests = n, !.sending = m,
                       !.submitted = d]
      BY <2>1, <3>1
    <3> QED BY <1>0, <2>2, <3>2 DEF CreatePage
  <2>4. /\ create'.requests = n /\ create'.confirming = create.confirming
        /\ create'.submitted = d /\ SameDraft(create, create')
    BY <1>0, <2>1 DEF CreatePage, SameDraft
  <2>5. n \in Nat BY <2>2
  <2>6. Attended(create') BY <2>2, <2>4, <2>5, DraftFields DEF Attended
  <2>7. Good(create') BY <1>0, <2>3, <2>4, <2>6, SameDraftGood
  <2> QED BY <1>1, <2>2, <2>4, <2>7 DEF PageInv, UnderWay
<1>3. CASE create' = [create EXCEPT !.txSteps = DefaultSteps] /\ create.failed
  <2>1. create' \in CreatePage BY <1>0, <1>3 DEF CreatePage
  <2>2. /\ create'.failed = create.failed /\ create'.submitted = create.submitted
        /\ Awaits(create, create') /\ SameDraft(create, create')
    BY <1>0, <1>3 DEF CreatePage, SameDraft, Awaits
  <2>3. Attended(create') BY <1>0, <1>3, <2>2 DEF Attended, Good, Awaits
  <2>4. Good(create') BY <1>0, <2>1, <2>2, <2>3, SameDraftGood
  <2> QED BY <1>1, <2>2, <2>4, QuietKeeps DEF PageInv
<1> QED BY <1>2, <1>3 DEF SignAndSubmit, RetrySubmission

\* The wallet answers, and the first timer fires.
LEMMA AnswerKeeps ==
  ASSUME PageInv, Sound(create'), SignatureGiven \/ SignatureRefused \/ SendingTimer
  PROVE  PageInv'
<1>0. Good(create) /\ create \in CreatePage BY DEF PageInv, Good
<1>1. stored' = stored /\ kept' = kept /\ late' = late
  BY DEF SignatureGiven, SignatureRefused, SendingTimer
<1>2. CASE SignatureGiven
  <2> DEFINE n == create.requests - 1
             m == create.confirming + 1
  <2>1. create' = [create EXCEPT !.requests = n, !.confirming = m,
                                 !.txSteps = ConfirmingSteps]
    BY <1>2 DEF SignatureGiven
  <2>2. /\ n \in 0..MaxRequests /\ m \in 0..MaxRequests
        /\ n + m = create.requests + create.confirming /\ n + m > 0
    BY <1>2, AwaitedCounts DEF SignatureGiven
  <2> HIDE DEF n, m
  <2>3. create' \in CreatePage BY <1>0, <2>1, <2>2 DEF CreatePage
  <2>4. /\ create'.requests = n /\ create'.confirming = m
        /\ create'.submitted = create.submitted /\ SameDraft(create, create')
    BY <1>0, <2>1 DEF CreatePage, SameDraft
  <2>5. n \in Nat /\ m \in Nat BY <2>2
  <2>6. Attended(create') BY <1>0, <2>2, <2>4, <2>5, AwaitedCounts DEF Attended, Good
  <2>7. Good(create') BY <1>0, <2>3, <2>4, <2>6, SameDraftGood
  <2> QED BY <1>1, <2>2, <2>4, <2>5, <2>7, AwaitedCounts DEF PageInv, UnderWay
<1>3. CASE SignatureRefused
  <2> DEFINE n == create.requests - 1
  <2>1. create' = [create EXCEPT !.requests = n, !.txSteps = FailedSteps, !.failed = TRUE,
                                 !.submitted = NoDraft]
    BY <1>3 DEF SignatureRefused, Refused
  <2>2. n = 0 /\ create.requests = 1 /\ create.confirming = 0 /\ n \in 0..MaxRequests
    BY <1>3, AwaitedCounts DEF SignatureRefused
  <2> HIDE DEF n
  <2>3. create' \in CreatePage BY <1>0, <2>1, <2>2 DEF CreatePage
  <2>4. /\ create'.requests = n /\ create'.confirming = create.confirming
        /\ create'.failed = TRUE /\ SameDraft(create, create')
    BY <1>0, <2>1 DEF CreatePage, SameDraft
  <2>5. Attended(create') BY <2>2, <2>4 DEF Attended
  <2>6. Good(create') BY <1>0, <2>3, <2>4, <2>5, SameDraftGood
  <2> QED BY <1>1, <2>2, <2>4, <2>6, AwaitedCounts DEF PageInv, UnderWay
<1>4. CASE SendingTimer
  <2> DEFINE n == create.sending - 1
  <2>1. create' = [create EXCEPT !.sending = n, !.txSteps = SentSteps]
    BY <1>4 DEF SendingTimer
  <2>2. create.sending > 0 /\ n \in 0..MaxRequests
    BY <1>0, <1>4, AwaitedCounts, PageFields DEF SendingTimer
  <2> HIDE DEF n
  <2>3. create' \in CreatePage BY <1>0, <2>1, <2>2 DEF CreatePage
  <2>4. /\ create'.step = create.step /\ create'.failed = create.failed
        /\ create'.submitted = create.submitted /\ Awaits(create, create')
        /\ SameDraft(create, create')
    BY <1>0, <2>1 DEF CreatePage, SameDraft, Awaits
  <2>5. Attended(create') BY <1>0, <2>2, <2>4 DEF Attended, Good, Awaits
  <2>6. Good(create') BY <1>0, <2>3, <2>4, <2>5, SameDraftGood
  <2> QED BY <1>1, <2>4, <2>6, QuietKeeps DEF PageInv
<1> QED BY <1>2, <1>3, <1>4

\* The submission is confirmed: the draft that was signed is on the receipt.
LEMMA ConfirmedKeeps ==
  ASSUME PageInv, Sound(create'), ConfirmingTimer
  PROVE  PageInv'
<1>0. Good(create) /\ create \in CreatePage BY DEF PageInv, Good
<1> DEFINE n == create.confirming - 1
           d == create.submitted
           q == Redrafted(create, InitialDraft)
<1>1. Good(q) /\ SameAttended(create, q) BY <1>0, InitialDraftTyped, RedraftedGood
<1>2. create' = [q EXCEPT !.confirming = n, !.txSteps = CompletedSteps, !.receipt = d,
                          !.submitted = NoDraft]
  <2>1. create' = [q EXCEPT !.confirming = q.confirming - 1, !.txSteps = CompletedSteps,
                            !.receipt = d, !.submitted = NoDraft]
    BY DEF ConfirmingTimer, Confirmed, Cleared
  <2> QED BY <1>1, <2>1 DEF SameAttended
<1>3. /\ n = 0 /\ create.requests = 0 /\ n \in 0..MaxRequests /\ create.confirming = 1
      /\ create.sending = 0 /\ d \in Draft
  <2>1. create.confirming > 0 /\ create.sending = 0 BY DEF ConfirmingTimer
  <2>2. create.requests + create.confirming > 0 BY <2>1, AwaitedCounts
  <2>3. d \in Draft BY <1>0, <2>2, PageFields DEF Good, Attended
  <2> QED BY <2>1, <2>3, AwaitedCounts
<1> HIDE DEF n, d, q
<1>4. create' \in CreatePage BY <1>1, <1>2, <1>3 DEF Good, CreatePage
<1>5. /\ create'.requests = q.requests /\ create'.confirming = n
      /\ create'.sending = q.sending /\ create'.txSteps = CompletedSteps
      /\ create'.receipt = d /\ SameDraft(q, create')
  BY <1>1, <1>2 DEF Good, CreatePage, SameDraft
<1>6. create'.requests = 0 /\ create'.confirming = 0 /\ create'.sending = 0
  BY <1>1, <1>3, <1>5 DEF SameAttended
<1>7. Attended(create') BY <1>3, <1>5, <1>6, DraftFields DEF Attended
<1>8. Good(create') BY <1>1, <1>4, <1>5, <1>7, SameDraftGood
<1>9. stored' \in Draft /\ kept' \in {kept, stored} /\ late' = late
  BY <1>4, PageFields DEF ConfirmingTimer, Saved, BackedUp
<1> QED BY <1>3, <1>6, <1>8, <1>9, AwaitedCounts DEF PageInv, UnderWay

\* The wallet answers a page that was left, and its timer fires.
LEMMA LateKeeps ==
  ASSUME PageInv, LateSignature \/ LateTimer
  PROVE  PageInv'
<1>1. create' = create BY DEF LateSignature, LateTimer
<1>2. CASE LateSignature
  <2>1. PICK signed \in {0, 1} :
          late' = [signatures |-> late.signatures - 1, timers |-> late.timers + signed]
    BY <1>2 DEF LateSignature
  <2>2. late.signatures > 0 /\ stored' = stored /\ kept' = kept BY <1>2 DEF LateSignature
  <2>3. /\ late'.signatures = late.signatures - 1 /\ late'.timers = late.timers + signed
        /\ late' \in [signatures : Nat, timers : Nat]
    BY <2>1, <2>2, AwaitedCounts
  <2> QED BY <1>1, <2>2, <2>3, AwaitedCounts DEF PageInv, UnderWay
<1>3. CASE LateTimer
  <2>1. late.timers > 0 /\ late' = [late EXCEPT !.timers = late.timers - 1] BY <1>3 DEF LateTimer
  <2>2. late' \in [signatures : Nat, timers : Nat] /\ late'.signatures = late.signatures
        /\ late'.timers = late.timers - 1
    BY <2>1, AwaitedCounts DEF PageInv
  <2>3. stored' = NoDraft /\ kept' \in {kept, stored} BY <1>3 DEF LateTimer, BackedUp
  <2> QED BY <1>1, <2>2, <2>3, AwaitedCounts DEF PageInv, UnderWay
<1> QED BY <1>2, <1>3

\* Every step of the page.
LEMMA PageInvStep == PageInv /\ [CreateNext]_createVars => PageInv'
<1> SUFFICES ASSUME PageInv, [CreateNext]_createVars PROVE PageInv'
  OBVIOUS
<1>1. Sound(create') BY PageStep DEF PageInv
<1>2. CASE UNCHANGED <<create, stored, kept, late>>
  BY <1>2 DEF PageInv, UnderWay
<1>3. \/ UNCHANGED <<create, stored, kept, late>> \/ LateSignature \/ LateTimer
      \/ SignAndSubmit \/ RetrySubmission \/ SignatureGiven \/ SignatureRefused
      \/ SendingTimer \/ ConfirmingTimer
      \/ OpenCreate \/ LeaveCreate \/ OraclesLoaded \/ RetryOracles
      \/ ConfigureNext \/ Back \/ BackToReview \/ CreateAnother
      \/ \E d \in OtherDrafts : AdoptDraft(d)
      \/ \E p \in PolicyTypes : SelectType(p)
      \/ \E form \in {"open", "covered", "valid"} : FillIn(form)
      \/ \E o \in Oracles : SelectOracle(o)
      \/ Discard \/ UndoDiscardedDraft
  BY DEF CreateNext, createVars, ConnectFromReview
<1> QED
  BY <1>1, <1>2, <1>3, DraftSetKeeps, PageTurnKeeps, SubmitKeeps, AnswerKeeps, ConfirmedKeeps,
     LateKeeps

\* The invariant holds of every visit.
LEMMA PageAlways == CreateSpec => []PageInv
<1>1. CreateInit => PageInv
  <2> SUFFICES ASSUME CreateInit PROVE PageInv OBVIOUS
  <2>1. /\ create = CreateLeft /\ stored = NoDraft /\ kept = NoDraft
        /\ late = [signatures |-> 0, timers |-> 0]
    BY DEF CreateInit
  <2>2. late.signatures = 0 /\ late.timers = 0 /\ late \in [signatures : Nat, timers : Nat]
    BY <2>1
  <2> QED BY <2>1, <2>2, LeftGood, SoundInit, CreateAssumption DEF PageInv, UnderWay
<1>2. PageInv /\ [CreateNext]_createVars => PageInv' BY PageInvStep
<1> QED BY <1>1, <1>2, PTL DEF CreateSpec

\* The providers of a type that has some, and the first of them.
LEMMA ProvidersListed ==
  ASSUME NEW t \in PolicyTypes, ProvidersOf[t] # <<>>
  PROVE  Head(ProvidersOf[t]) \in ProvidersFor(t)
<1>1. ProvidersOf[t] \in Seq(Oracles) BY CreateAssumption
<1>2. 1 \in 1..Len(ProvidersOf[t]) /\ Head(ProvidersOf[t]) = ProvidersOf[t][1] BY <1>1
<1> QED BY <1>2 DEF ProvidersFor

\* How a draft x may follow the page's, as far as its provider goes.
Known(x) ==
  \/ ~IsForeign(x)
  \/ Selection(x) = Selection(create.draft)
  \/ x \in OtherDrafts \cup {stored, kept}
  \/ /\ create.oracleState = "ready" /\ x.policyType # create.draft.policyType
     /\ x.oracleProvider = Head(ProvidersOf[create.draft.policyType])

\* The effect that selects a provider gives a draft of another type the first
\* one of those on the page, and one of the same type its own.
LEMMA RedraftedKnown ==
  ASSUME PageInv, NEW d \in Draft, Known(d)
  PROVE  Redrafted(create, d) \in CreatePage /\ Known(Redrafted(create, d).draft)
<1>0. Good(create) /\ create \in CreatePage BY DEF PageInv, Good
<1> DEFINE q == [create EXCEPT !.draft = d, !.undoable = FALSE]
           h == Head(ProvidersOf[create.providersOf])
           e == [d EXCEPT !.oracleProvider = h]
           r == AutoSelected(q)
           t == create.draft.policyType
<1>1. /\ q \in CreatePage /\ q.draft = d /\ q.oracleState = create.oracleState
      /\ q.providersOf = create.providersOf
  BY <1>0 DEF CreatePage
<1>2. \/ r.draft = d
      \/ r.draft = e /\ create.oracleState = "ready" /\ ProvidersOf[create.providersOf] # <<>>
  <2>1. CASE r = q BY <1>1, <2>1
  <2>2. CASE r # q
    <3>1. /\ r = [q EXCEPT !.draft.oracleProvider = h, !.undoable = FALSE]
          /\ q.oracleState = "ready" /\ ProvidersOf[q.providersOf] # <<>>
      BY <1>1, <2>2 DEF AutoSelected
    <3>2. [q.draft EXCEPT !.oracleProvider = h] = e BY <1>1
    <3> HIDE DEF q, r, h, e
    <3>3. r.draft = e BY <1>1, <3>1, <3>2 DEF CreatePage
    <3> QED BY <1>1, <3>1, <3>3
  <2> QED BY <2>1, <2>2
<1>3. Redrafted(create, d) = OraclesFor(r, t) BY DEF Redrafted
<1>4. r \in CreatePage /\ Redrafted(create, d) \in CreatePage
  <2>1. Listed(q) BY <1>0, <1>1 DEF Good, Listed
  <2> HIDE DEF q
  <2>2. r \in CreatePage BY <1>1, <2>1, AutoSelectedGood
  <2> QED BY <1>0, <2>2, RedraftedGood DEF Good
<1> HIDE DEF q, r, t
<1>5. Redrafted(create, d).draft = r.draft
  <2> DEFINE l == r.draft.policyType # NoType
             v == IF r.draft.policyType = NoType THEN NoType ELSE r.providersOf
  <2>1. \/ OraclesFor(r, t) = r
        \/ OraclesFor(r, t) = [r EXCEPT !.oracleState = "loading", !.loading = l,
                                        !.providersOf = v]
    BY DEF OraclesFor
  <2> HIDE DEF l, v
  <2> QED BY <1>3, <1>4, <2>1 DEF CreatePage
<1>6. CASE r.draft = e /\ create.oracleState = "ready" /\ ProvidersOf[create.providersOf] # <<>>
  <2>1. /\ create.providersOf = create.draft.policyType
        /\ create.providersOf \in PolicyTypes
    BY <1>0, <1>6 DEF Good, ForType, Listed
  <2>2. h \in ProvidersFor(create.draft.policyType) BY <1>6, <2>1, ProvidersListed
  <2>3. h = Head(ProvidersOf[create.draft.policyType]) BY <2>1
  <2> HIDE DEF h
  <2>4. e.oracleProvider = h /\ e.policyType = d.policyType BY DEF Draft
  <2> HIDE DEF e
  <2>5. CASE d.policyType = create.draft.policyType
    <3>1. ~IsForeign(e) BY <2>2, <2>4, <2>5 DEF IsForeign
    <3> QED BY <1>4, <1>5, <1>6, <3>1 DEF Known
  <2>6. CASE d.policyType # create.draft.policyType
    BY <1>4, <1>5, <1>6, <2>3, <2>4, <2>6 DEF Known
  <2> QED BY <2>5, <2>6
<1> QED BY <1>2, <1>4, <1>5, <1>6

\* A blank draft has no provider at all.
LEMMA BlankKnown == Known(InitialDraft) /\ InitialDraft \in Draft
BY InitialDraftTyped DEF Known, IsForeign, InitialDraft

\* The draft after each operation.
LEMMA DraftsKnown ==
  ASSUME PageInv, [CreateNext]_createVars
  PROVE  Known(create'.draft)
<1>0. /\ Good(create) /\ create \in CreatePage /\ create.draft \in Draft
      /\ stored \in Draft \cup {NoDraft} /\ kept \in Draft \cup {NoDraft}
  BY AwaitedCounts DEF PageInv, Good
<1>1. ASSUME create'.draft = create.draft PROVE Known(create'.draft)
  BY <1>1 DEF Known, Selection
<1>2. ASSUME NEW d \in Draft, Known(d),
             \/ create' = Redrafted(create, d)
             \/ \E s : create' = [Redrafted(create, d) EXCEPT !.step = s]
             \/ \E s : create' = [Redrafted(create, d) EXCEPT !.step = s, !.receipt = NoDraft]
      PROVE  Known(create'.draft)
  <2> DEFINE q == Redrafted(create, d)
  <2>1. q \in CreatePage /\ Known(q.draft) BY <1>2, RedraftedKnown
  <2>2. \/ create' = q \/ \E s : create' = [q EXCEPT !.step = s]
        \/ \E s : create' = [q EXCEPT !.step = s, !.receipt = NoDraft]
    BY <1>2
  <2> HIDE DEF q
  <2>3. create'.draft = q.draft BY <2>1, <2>2 DEF CreatePage
  <2> QED BY <2>1, <2>3
<1>3. CASE OpenCreate
  <2>1. PICK d, u : create' = CreateMounted(d, u) /\ (d = InitialDraft \/ d = stored)
    BY <1>3 DEF OpenCreate
  <2>2. create'.draft = d BY <2>1 DEF CreateMounted
  <2> QED BY <2>1, <2>2, BlankKnown DEF Known
<1>4. CASE LeaveCreate
  <2> DEFINE q == CreateMounted(InitialDraft, FALSE)
  <2>1. create' = [q EXCEPT !.open = FALSE] BY <1>4 DEF LeaveCreate, CreateLeft
  <2>2. q \in CreatePage /\ q.draft = InitialDraft
    BY InitialDraftTyped, MountedGood DEF Good
  <2> HIDE DEF q
  <2>3. create'.draft = InitialDraft BY <2>1, <2>2 DEF CreatePage
  <2> QED BY <2>3, BlankKnown
<1>5. CASE \E d \in OtherDrafts : AdoptDraft(d)
  BY <1>2, <1>5, CreateAssumption DEF AdoptDraft, Known
<1>6. CASE \E p \in PolicyTypes : SelectType(p)
  <2>1. PICK p \in PolicyTypes : SelectType(p) BY <1>6
  <2> DEFINE d == [create.draft EXCEPT !.policyType = p, !.oracleProvider = NoOracle]
  <2>2. d \in Draft /\ d.oracleProvider = NoOracle BY <1>0, DraftWritten DEF Draft
  <2>3. create' = [Redrafted(create, d) EXCEPT !.step = 1, !.receipt = NoDraft]
    BY <2>1 DEF SelectType
  <2> HIDE DEF d
  <2>4. Known(d) BY <2>2 DEF Known, IsForeign
  <2> QED BY <1>2, <2>2, <2>3, <2>4
<1>7. CASE \E form \in {"open", "covered", "valid"} : FillIn(form)
  <2>1. PICK form \in {"open", "covered", "valid"} : FillIn(form) BY <1>7
  <2> DEFINE d == [create.draft EXCEPT !.form = form]
  <2>2. /\ d \in Draft /\ d.policyType = create.draft.policyType
        /\ d.oracleProvider = create.draft.oracleProvider
    BY <1>0, DraftWritten DEF Draft
  <2>3. create' = Redrafted(create, d) BY <2>1 DEF FillIn
  <2> HIDE DEF d
  <2>4. Known(d) BY <2>2 DEF Known, Selection
  <2> QED BY <1>2, <2>2, <2>3, <2>4
<1>8. CASE \E o \in Oracles : SelectOracle(o)
  <2>1. PICK o \in Oracles : SelectOracle(o) BY <1>8
  <2> DEFINE d == [create.draft EXCEPT !.oracleProvider = o]
  <2>2. /\ d \in Draft /\ d.policyType = create.draft.policyType /\ d.oracleProvider = o
    BY <1>0, DraftWritten DEF Draft
  <2>3. create' = Redrafted(create, d) BY <2>1 DEF SelectOracle
  <2>4. o \in ProvidersFor(create.draft.policyType)
    BY <1>0, <2>1 DEF SelectOracle, Good, ForType
  <2> HIDE DEF d
  <2>5. Known(d) BY <2>2, <2>4 DEF Known, IsForeign
  <2> QED BY <1>2, <2>2, <2>3, <2>5
<1>9. CASE Discard
  <2>1. create' = [Redrafted(create, InitialDraft) EXCEPT !.step = 0]
    BY <1>9 DEF Discard, Cleared
  <2> QED BY <1>2, <2>1, BlankKnown
<1>10. CASE UndoDiscardedDraft
  <2>1. /\ create' = [Redrafted(create, kept) EXCEPT !.step = StepOf(kept)]
        /\ kept \in Draft
    BY <1>0, <1>10 DEF UndoDiscardedDraft
  <2>2. Known(kept) BY DEF Known
  <2> QED BY <1>2, <2>1, <2>2
<1>11. CASE ConfirmingTimer
  <2> DEFINE q == Redrafted(create, InitialDraft)
             n == q.confirming - 1
             d == create.submitted
  <2>1. create' = [q EXCEPT !.confirming = n, !.txSteps = CompletedSteps, !.receipt = d,
                            !.submitted = NoDraft]
    BY <1>11 DEF ConfirmingTimer, Confirmed, Cleared
  <2>2. q \in CreatePage /\ Known(q.draft) BY BlankKnown, RedraftedKnown
  <2> HIDE DEF q, n, d
  <2>3. create'.draft = q.draft BY <2>1, <2>2 DEF CreatePage
  <2> QED BY <2>2, <2>3
<1>12. CASE OraclesLoaded
  <2> DEFINE t == create.draft.policyType
  <2>1. create.loading BY <1>12 DEF OraclesLoaded
  <2>2. PICK offline \in BOOLEAN : create' = ProvidersFound(create, offline)
    BY <1>12 DEF OraclesLoaded
  <2> DEFINE found == ~offline /\ ProvidersOf[t] # <<>>
             v == IF offline THEN NoType ELSE t
             o == IF offline THEN "error" ELSE IF found THEN "ready" ELSE "empty"
             q == [create EXCEPT !.loading = FALSE, !.providersOf = v, !.oracleState = o]
             h == Head(ProvidersOf[v])
             e == [create.draft EXCEPT !.oracleProvider = h]
  <2>3. create' = AutoSelected(q) BY <2>2 DEF ProvidersFound
  <2>4. o = "ready" => v = t /\ ProvidersOf[t] # <<>> OBVIOUS
  <2>5. t \in PolicyTypes
    BY <1>0, <2>1, PageFields, DraftFields DEF Good, ForType
  <2>6. e.oracleProvider = h /\ e.policyType = t BY <1>0 DEF Draft
  <2>7. q.draft = create.draft /\ q.oracleState = o /\ q.providersOf = v
    BY <1>0 DEF CreatePage
  <2>8. \/ create' = q
        \/ create' = [q EXCEPT !.draft = e, !.undoable = FALSE] /\ o = "ready"
    BY <2>3, <2>7 DEF AutoSelected
  <2>9. "draft" \in DOMAIN q BY <1>0 DEF CreatePage
  <2>10. CASE create' = q BY <1>1, <2>7, <2>10
  <2>11. CASE create' = [q EXCEPT !.draft = e, !.undoable = FALSE] /\ o = "ready"
    <3>1. h \in ProvidersFor(t) BY <2>4, <2>5, <2>11, ProvidersListed
    <3> HIDE DEF q, o, v, h, e, t
    <3>2. create'.draft = e BY <2>9, <2>11
    <3>3. ~IsForeign(e) BY <2>6, <3>1 DEF IsForeign
    <3> QED BY <3>2, <3>3 DEF Known
  <2> QED BY <2>8, <2>10, <2>11
<1>13. CASE SignAndSubmit \/ RetrySubmission
  <2>1. create' = Submitting(create) \/ create' = [create EXCEPT !.txSteps = DefaultSteps]
    BY <1>13 DEF SignAndSubmit, RetrySubmission
  <2> DEFINE n == create.requests + 1
             m == create.sending + 1
             d == create.draft
  <2>2. \/ create' = [create EXCEPT !.step = 3, !.receipt = NoDraft, !.failed = FALSE,
                        !.txSteps = SigningSteps, !.requests = n, !.sending = m,
                        !.submitted = d]
        \/ create' = [create EXCEPT !.txSteps = DefaultSteps]
    BY <2>1 DEF Submitting
  <2> HIDE DEF n, m, d
  <2>3. create'.draft = create.draft BY <1>0, <2>2 DEF CreatePage
  <2> QED BY <1>1, <2>3
<1>14. CASE SignatureGiven \/ SignatureRefused \/ SendingTimer
  <2> DEFINE n == create.requests - 1
             m == create.confirming + 1
             k == create.sending - 1
  <2>1. \/ create' = [create EXCEPT !.requests = n, !.confirming = m,
                                    !.txSteps = ConfirmingSteps]
        \/ create' = [create EXCEPT !.requests = n, !.txSteps = FailedSteps,
                                    !.failed = TRUE, !.submitted = NoDraft]
        \/ create' = [create EXCEPT !.sending = k, !.txSteps = SentSteps]
    BY <1>14 DEF SignatureGiven, SignatureRefused, SendingTimer, Refused
  <2> HIDE DEF n, m, k
  <2>2. create'.draft = create.draft BY <1>0, <2>1 DEF CreatePage
  <2> QED BY <1>1, <2>2
<1>15. CASE RetryOracles
  BY <1>0, <1>1, <1>15 DEF RetryOracles, CreatePage
<1>16. CASE ConfigureNext \/ Back \/ BackToReview \/ CreateAnother
  <2>1. PICK s : TurnedTo(create, create', s)
    BY <1>16 DEF ConfigureNext, Back, BackToReview, CreateAnother, TurnedTo
  <2>2. create'.draft = create.draft BY <1>0, <2>1 DEF TurnedTo, CreatePage
  <2> QED BY <1>1, <2>2
<1>17. CASE create' = create BY <1>1, <1>17
<1>18. \/ create' = create \/ SignAndSubmit \/ RetrySubmission \/ SignatureGiven
       \/ SignatureRefused \/ SendingTimer \/ ConfirmingTimer
       \/ OpenCreate \/ LeaveCreate \/ OraclesLoaded \/ RetryOracles
       \/ ConfigureNext \/ Back \/ BackToReview \/ CreateAnother
       \/ \E d \in OtherDrafts : AdoptDraft(d)
       \/ \E p \in PolicyTypes : SelectType(p)
       \/ \E form \in {"open", "covered", "valid"} : FillIn(form)
       \/ \E o \in Oracles : SelectOracle(o)
       \/ Discard \/ UndoDiscardedDraft
  BY DEF CreateNext, createVars, ConnectFromReview, LateSignature, LateTimer
<1> QED
  BY <1>3, <1>4, <1>5, <1>6, <1>7, <1>8, <1>9, <1>10, <1>11, <1>12, <1>13, <1>14, <1>15,
     <1>16, <1>17, <1>18

\* Whatever types, lists of providers and drafts of other tabs there are: the
\* page keeps its type; providers that are there are those of the draft's type,
\* with one selected; one of another type came with a draft, or was the first
\* on the page when the type was changed; and the last step always waits, shows
\* the failure or shows the receipt.
THEOREM PageCorrect == CreateSpec => PageSound
<1>1. PageInv /\ WalletInv => CreateTypeOK /\ ReadyForType /\ NeverStuckSubmitting
  <2> SUFFICES ASSUME PageInv, WalletInv
               PROVE  CreateTypeOK /\ ReadyForType /\ NeverStuckSubmitting
    OBVIOUS
  <2>1. late \in [signatures : 0..MaxRequests, timers : 0..MaxRequests]
    <3>1. late.signatures \in 0..MaxRequests /\ late.timers \in 0..MaxRequests
      BY AwaitedCounts
    <3> QED BY <3>1 DEF PageInv
  <2>2. CreateTypeOK BY <2>1 DEF PageInv, WalletInv, Good, CreateTypeOK
  <2>3. ReadyForType
    <3>1. Listed(create) /\ Selected(create) /\ ForType(create) BY DEF PageInv, Good
    <3> QED BY <3>1, ProvidersListed DEF Listed, Selected, ForType, ReadyForType
  <2>4. NeverStuckSubmitting
    BY AwaitedCounts DEF PageInv, Good, Attended, NeverStuckSubmitting, ReceiptShown
  <2> QED BY <2>2, <2>3, <2>4
<1>2. PageInv /\ [CreateNext]_createVars =>
        [IsForeign(create'.draft) /\ Selection(create'.draft) # Selection(create.draft) =>
           \/ create'.draft \in OtherDrafts \cup {stored, kept}
           \/ /\ create.oracleState = "ready"
              /\ create'.draft.policyType # create.draft.policyType
              /\ create'.draft.oracleProvider = Head(ProvidersOf[create.draft.policyType])
        ]_create
  BY DraftsKnown DEF Known
<1>3. CreateSpec => [](CreateTypeOK /\ ReadyForType /\ NeverStuckSubmitting)
  BY <1>1, PageAlways, WalletAlways, PTL
<1>4. CreateSpec => ForeignOnlyFromBefore
  BY <1>2, PageAlways, PTL DEF CreateSpec, ForeignOnlyFromBefore
<1> QED BY <1>3, <1>4 DEF PageSound

-----------------------------------------------------------------------------
(* The autosaved draft.                                                    *)

\* The draft that a tab holds, with the time of its edit.
CopyOf(tab) ==
  [data |-> IF tab.rendering THEN tab.queued ELSE tab.data, stamp |-> tab.editedAt]

\* The copies there are, one by one.
LEMMA CopyIs ==
  ASSUME NEW x
  PROVE  x \in Copies <=>
           \/ x = storage \/ x = backup
           \/ \E t \in Tabs : x \in ToSet(inbox[t])
           \/ \E t \in Tabs : tabs[t].open /\ x = CopyOf(tabs[t])
BY DEF Copies, CopyOf

LEMMA CopyIsThen ==
  ASSUME NEW x
  PROVE  x \in Copies' <=>
           \/ x = storage' \/ x = backup'
           \/ \E t \in Tabs : x \in ToSet(inbox'[t])
           \/ \E t \in Tabs : tabs'[t].open /\ x = CopyOf(tabs'[t])
BY DEF Copies, CopyOf

\* No copy has a time to come, and the times tell the copies apart.
StampsInv ==
  /\ \A x \in Copies : x.stamp <= now
  /\ StampsIdentifyDrafts

\* The times of copies are numbers.
LEMMA CopiesTyped == AutosaveTypeOK => \A x \in Copies : x.stamp \in Int
<1> SUFFICES ASSUME AutosaveTypeOK, NEW x \in Copies PROVE x.stamp \in Int
  OBVIOUS
<1>1. \A y \in StoredDraft : y.stamp \in Int
  BY AutosaveAssumption DEF StoredDraft, Nothing
<1>2. CASE x = storage \/ x = backup
  BY <1>1, <1>2 DEF AutosaveTypeOK
<1>3. CASE \E t \in Tabs : x \in ToSet(inbox[t])
  <2>1. PICK t \in Tabs : x \in ToSet(inbox[t]) BY <1>3
  <2>2. inbox[t] \in Seq(StoredDraft) BY DEF AutosaveTypeOK
  <2> QED BY <1>1, <2>1, <2>2 DEF ToSet
<1>4. CASE \E t \in Tabs : tabs[t].open /\ x = CopyOf(tabs[t])
  <2>1. PICK t \in Tabs : x = CopyOf(tabs[t]) BY <1>4
  <2>2. tabs[t] \in TabState BY DEF AutosaveTypeOK
  <2>3. tabs[t].editedAt \in Int BY <2>2, AutosaveAssumption DEF TabState
  <2> QED BY <2>1, <2>3 DEF CopyOf
<1> QED BY <1>2, <1>3, <1>4, CopyIs

\* A copy after a step that needs no further reason: it was there before, has
\* no time, is of the edit y made now, or was stored by a torn save.
Explained(x, y) ==
  \/ x \in Copies
  \/ x.stamp \in Int /\ x.stamp <= 0
  \/ x = y /\ x.stamp = now + 1 /\ now' = now + 1
  \/ torn' /\ x.stamp \in Int /\ x.stamp <= now

\* A step keeps the times telling when every copy after it is explained.
LEMMA StampsKept ==
  ASSUME AutosaveTypeOK, StampsInv, now' \in {now, now + 1}, torn => torn',
         NEW y, \A x \in Copies' : Explained(x, y)
  PROVE  StampsInv'
<1>1. now \in Nat BY AutosaveAssumption DEF AutosaveTypeOK
<1>2. \A x \in Copies : x.stamp \in Int /\ x.stamp <= now BY CopiesTyped DEF StampsInv
<1>3. \A x \in Copies' : x.stamp <= now' BY <1>1, <1>2 DEF Explained
<1>4. ASSUME ~torn', NEW x \in Copies', NEW z \in Copies', x.stamp = z.stamp, x.stamp > 0
      PROVE  x.data = z.data
  <2>1. /\ x \in Copies \/ (x = y /\ x.stamp = now + 1)
        /\ z \in Copies \/ (z = y /\ z.stamp = now + 1)
    BY <1>4 DEF Explained
  <2>2. ~torn BY <1>4
  <2> QED BY <1>1, <1>2, <1>4, <2>1, <2>2 DEF StampsInv, StampsIdentifyDrafts
<1> QED BY <1>3, <1>4 DEF StampsInv, StampsIdentifyDrafts

\* The hook in one tab: what the tab and the two keys hold then, and what is
\* on its way, is all there is to explain.
LEMMA TabKept ==
  ASSUME AutosaveTypeOK, StampsInv, now' \in {now, now + 1}, torn => torn', NEW y,
         NEW t \in Tabs, NEW r, tabs' = [tabs EXCEPT ![t] = r],
         Explained(storage', y), Explained(backup', y),
         \A o \in Tabs : \A x \in ToSet(inbox'[o]) : Explained(x, y),
         r.open => Explained(CopyOf(r), y)
  PROVE  StampsInv'
<1>1. \A o \in Tabs : tabs'[o] = tabs[o] \/ tabs'[o] = r
  BY DEF AutosaveTypeOK
<1>2. ASSUME NEW o \in Tabs, tabs'[o].open PROVE Explained(CopyOf(tabs'[o]), y)
  <2>1. CASE tabs'[o] = r BY <1>2, <2>1
  <2>2. CASE tabs'[o] = tabs[o]
    <3>1. CopyOf(tabs[o]) \in Copies BY <1>2, <2>2, CopyIs
    <3> QED BY <2>2, <3>1 DEF Explained
  <2> QED BY <1>1, <2>1, <2>2
<1>3. \A x \in Copies' : Explained(x, y)
  BY <1>2, CopyIsThen
<1> QED BY <1>3, StampsKept

\* A render, and the other changes of a tab's fields.
LEMMA RenderedIs ==
  ASSUME NEW tab \in TabState, NEW d \in Drafts
  PROVE  /\ Rendered(tab, d) \in TabState
         /\ Rendered(tab, d).open = tab.open /\ Rendered(tab, d).data = d
         /\ Rendered(tab, d).saved = FALSE /\ Rendered(tab, d).rendering = FALSE
         /\ Rendered(tab, d).editedAt = tab.editedAt
<1>1. Blank \in Drafts BY AutosaveAssumption
<1> QED BY <1>1 DEF Rendered, TabState

LEMMA TimedIs ==
  ASSUME NEW tab \in TabState, NEW s \in 0..MaxNow
  PROVE  /\ [tab EXCEPT !.editedAt = s] \in TabState
         /\ [tab EXCEPT !.editedAt = s].open = tab.open
         /\ [tab EXCEPT !.editedAt = s].data = tab.data
         /\ [tab EXCEPT !.editedAt = s].saved = tab.saved
         /\ [tab EXCEPT !.editedAt = s].rendering = tab.rendering
         /\ [tab EXCEPT !.editedAt = s].editedAt = s
BY DEF TabState

\* A write to storage is copied to the events, and nothing else is.
LEMMA StoreIs ==
  ASSUME AutosaveTypeOK, NEW t \in Tabs, NEW v \in StoredDraft, Store(t, v)
  PROVE  /\ storage' = v /\ lastWriter' = {t}
         /\ inbox' \in [Tabs -> Seq(StoredDraft)]
         /\ \A o \in Tabs : \A x \in ToSet(inbox'[o]) : x = v \/ x \in ToSet(inbox[o])
<1>1. \A o \in Tabs : inbox[o] \in Seq(StoredDraft) BY DEF AutosaveTypeOK
<1>2. inbox' \in [Tabs -> Seq(StoredDraft)] BY <1>1 DEF Store
<1>3. ASSUME NEW o \in Tabs, NEW x \in ToSet(inbox'[o])
      PROVE  x = v \/ x \in ToSet(inbox[o])
  <2>1. inbox'[o] = Append(inbox[o], v) \/ inbox'[o] = inbox[o] BY DEF Store
  <2> QED BY <1>1, <1>3, <2>1 DEF ToSet
<1> QED BY <1>2, <1>3 DEF Store

\* `Draft saved' stays true when the tab that counts as saved shows what it
\* stored, or nothing of this changes.
LEMMA SavedKept ==
  ASSUME AutosaveTypeOK, SavedMeansStored, NEW t \in Tabs, NEW r,
         tabs' = [tabs EXCEPT ![t] = r],
         lastWriter' = {t} \/ UNCHANGED <<storage, lastWriter>>,
         \/ ~r.open \/ ~r.saved \/ storage' = Nothing
         \/ storage'.data = r.data
         \/ /\ UNCHANGED <<storage, lastWriter>>
            /\ r.open = tabs[t].open /\ r.saved = tabs[t].saved /\ r.data = tabs[t].data
  PROVE  SavedMeansStored'
<1> SUFFICES ASSUME NEW o \in Tabs, tabs'[o].open, tabs'[o].saved, lastWriter' = {o},
                    storage' # Nothing
             PROVE  storage'.data = tabs'[o].data
  BY DEF SavedMeansStored
<1>1. tabs'[t] = r /\ (o # t => tabs'[o] = tabs[o]) BY DEF AutosaveTypeOK
<1>2. CASE o = t BY <1>1, <1>2 DEF SavedMeansStored
<1>3. CASE o # t
  <2>1. lastWriter' # {t} BY <1>3
  <2> QED BY <1>1, <1>3, <2>1 DEF SavedMeansStored
<1> QED BY <1>2, <1>3

\* What every step of the hook preserves.
DraftsInv == AutosaveTypeOK /\ StampsInv /\ SavedMeansStored

\* What every step finds.
LEMMA Found ==
  ASSUME AutosaveTypeOK, NEW t \in Tabs
  PROVE  /\ tabs[t] \in TabState /\ inbox[t] \in Seq(StoredDraft)
         /\ tabs[t].open => CopyOf(tabs[t]) \in Copies
         /\ storage \in Copies /\ backup \in Copies
         /\ \A o \in Tabs : \A x \in ToSet(inbox[o]) : x \in Copies
         /\ now \in 0..MaxNow /\ 0 \in 0..MaxNow /\ Blank \in Drafts
BY CopyIs, AutosaveAssumption DEF AutosaveTypeOK

\* A tab is opened: it holds what is stored.
LEMMA OpenTabKeeps ==
  ASSUME DraftsInv, NEW t \in Tabs, OpenTab(t)
  PROVE  DraftsInv'
<1> USE DEF DraftsInv
<1> DEFINE p == storage = Nothing
           o == backup # Nothing
           e == IF p THEN 0 ELSE storage.stamp
           r == [open |-> TRUE, data |-> storage.data, pristine |-> p, editedAt |-> e,
                 timer |-> TRUE, saved |-> FALSE, offered |-> o,
                 rendering |-> FALSE, queued |-> Blank]
<1>1. tabs' = [tabs EXCEPT ![t] = r] BY DEF OpenTab
<1>2. storage \in StoredDraft BY DEF AutosaveTypeOK
<1>3. /\ storage.data \in Drafts /\ e \in 0..MaxNow
      /\ e = 0 \/ [data |-> storage.data, stamp |-> e] = storage
  BY <1>2, Found DEF StoredDraft, Nothing
<1>4. p \in BOOLEAN /\ o \in BOOLEAN OBVIOUS
<1>5. /\ r.open /\ ~r.saved
      /\ CopyOf(r) = [data |-> storage.data, stamp |-> e]
  BY DEF CopyOf
<1> HIDE DEF p, o, e
<1>6. r \in TabState BY <1>3, <1>4, Found DEF TabState
<1> HIDE DEF r
<1>7. UNCHANGED <<storage, backup, inbox, now, failures, torn, lastWriter>> BY DEF OpenTab
<1>8. AutosaveTypeOK' BY <1>1, <1>6, <1>7 DEF AutosaveTypeOK
<1>9. Explained(CopyOf(r), Nothing) BY <1>3, <1>5, Found DEF Explained
<1>10. StampsInv' BY <1>1, <1>7, <1>9, Found, TabKept DEF Explained
<1>11. SavedMeansStored' BY <1>1, <1>5, <1>7, SavedKept
<1> QED BY <1>8, <1>10, <1>11

\* A tab is closed: it holds nothing.
LEMMA CloseTabKeeps ==
  ASSUME DraftsInv, NEW t \in Tabs, CloseTab(t)
  PROVE  DraftsInv'
<1> USE DEF DraftsInv
<1>1. /\ tabs' = [tabs EXCEPT ![t] = Closed] /\ inbox' = [inbox EXCEPT ![t] = <<>>]
      /\ UNCHANGED <<storage, backup, now, failures, torn, lastWriter>>
  BY DEF CloseTab
<1>2. Closed \in TabState /\ ~Closed.open BY Found DEF Closed, TabState
<1>3. AutosaveTypeOK' BY <1>1, <1>2 DEF AutosaveTypeOK
<1>4. \A o \in Tabs : \A x \in ToSet(inbox'[o]) : Explained(x, Nothing)
  BY <1>1, Found DEF Explained, AutosaveTypeOK, ToSet
<1>5. StampsInv' BY <1>1, <1>2, <1>4, Found, TabKept DEF Explained
<1>6. SavedMeansStored' BY <1>1, <1>2, SavedKept
<1> QED BY <1>3, <1>5, <1>6

\* The draft is edited: the edit is the latest there is.
LEMMA EditDraftKeeps ==
  ASSUME DraftsInv, NEW t \in Tabs, NEW d \in Drafts, EditDraft(t, d)
  PROVE  DraftsInv'
<1> USE DEF DraftsInv
<1> DEFINE q == Rendered(tabs[t], d)
           r == [q EXCEPT !.editedAt = now + 1]
<1>1. /\ tabs' = [tabs EXCEPT ![t] = r] /\ now' = now + 1 /\ now < MaxNow
      /\ UNCHANGED <<storage, backup, inbox, failures, torn, lastWriter>>
  BY DEF EditDraft, Tick
<1>2. now' \in 0..MaxNow BY <1>1, Found, AutosaveAssumption
<1>3. q \in TabState /\ ~q.saved /\ ~q.rendering /\ q.data = d BY Found, RenderedIs
<1> HIDE DEF q
<1>4. r \in TabState /\ ~r.saved /\ ~r.rendering /\ r.data = d /\ r.editedAt = now + 1
  BY <1>1, <1>2, <1>3, TimedIs
<1> HIDE DEF r
<1>5. AutosaveTypeOK' BY <1>1, <1>2, <1>4 DEF AutosaveTypeOK
<1> DEFINE y == [data |-> d, stamp |-> now + 1]
<1>6. Explained(CopyOf(r), y) BY <1>1, <1>4 DEF Explained, CopyOf
<1>7. \A x \in Copies : Explained(x, y) BY DEF Explained
<1> HIDE DEF y
<1>8. StampsInv' BY <1>1, <1>6, <1>7, Found, TabKept
<1>9. SavedMeansStored' BY <1>1, <1>4, SavedKept
<1> QED BY <1>5, <1>8, <1>9

\* The draft is saved: with the time of its edit, with the present when it
\* has none, and torn when what is adopted is not yet rendered.
LEMMA SaveDraftKeeps ==
  ASSUME DraftsInv, NEW t \in Tabs, SaveDraft(t)
  PROVE  DraftsInv'
<1> USE DEF DraftsInv
<1> DEFINE tab == tabs[t]
           s == IF tab.editedAt = 0 THEN now + 1 ELSE tab.editedAt
           v == [data |-> tab.data, stamp |-> s]
           r == [tab EXCEPT !.timer = FALSE, !.saved = TRUE]
<1>1. /\ tab.open /\ tabs' = [tabs EXCEPT ![t] = r]
      /\ torn' = (torn \/ tab.rendering) /\ UNCHANGED <<backup, failures>>
  BY DEF SaveDraft, AutosaveTypeOK
<1>2. tab \in TabState BY Found
<1>3. /\ tab.data \in Drafts /\ tab.editedAt \in 0..MaxNow /\ tab.rendering \in BOOLEAN
      /\ r \in TabState
      /\ r.open = tab.open /\ r.data = tab.data /\ r.editedAt = tab.editedAt
      /\ r.rendering = tab.rendering /\ r.queued = tab.queued
  BY <1>2 DEF TabState
<1>4. CopyOf(r) = CopyOf(tab) BY <1>3 DEF CopyOf
<1> HIDE DEF r
<1>5. CASE tab.editedAt = 0
  <2>1. now' = now + 1 /\ now < MaxNow /\ Store(t, v) BY <1>5 DEF SaveDraft, Tick
  <2>2. now' \in 0..MaxNow /\ v.stamp = now + 1 /\ v.data = tab.data
    BY <1>5, <2>1, Found, AutosaveAssumption
  <2>3. v \in StoredDraft BY <1>3, <1>5, <2>1, <2>2 DEF StoredDraft
  <2> HIDE DEF v
  <2>4. /\ storage' = v /\ lastWriter' = {t} /\ inbox' \in [Tabs -> Seq(StoredDraft)]
        /\ \A o \in Tabs : \A x \in ToSet(inbox'[o]) : x = v \/ x \in ToSet(inbox[o])
    BY <2>1, <2>3, StoreIs
  <2>5. torn' \in BOOLEAN BY <1>1, <1>3 DEF AutosaveTypeOK
  <2>6. AutosaveTypeOK' BY <1>1, <1>3, <2>2, <2>3, <2>4, <2>5 DEF AutosaveTypeOK
  <2>7. Explained(v, v) /\ \A x \in Copies : Explained(x, v)
    BY <2>1, <2>2 DEF Explained
  <2>8. StampsInv' BY <1>1, <1>4, <2>1, <2>4, <2>7, Found, TabKept
  <2>9. SavedMeansStored' BY <1>1, <1>3, <2>2, <2>4, SavedKept
  <2> QED BY <2>6, <2>8, <2>9
<1>6. CASE tab.editedAt # 0
  <2>1. now' = now /\ Store(t, v) BY <1>6 DEF SaveDraft
  <2>2. v.stamp = tab.editedAt /\ v.data = tab.data BY <1>6
  <2>3. v \in StoredDraft BY <1>3, <1>6 DEF StoredDraft
  <2>4. CopyOf(tab) \in Copies BY <1>1, Found
  <2>5. tab.rendering \/ v = CopyOf(tab) BY <1>3, <1>6 DEF CopyOf
  <2>6. CopyOf(tab).stamp = v.stamp BY <2>2 DEF CopyOf
  <2> HIDE DEF v
  <2>7. v.stamp \in Int /\ v.stamp <= now
    BY <2>4, <2>6, CopiesTyped DEF StampsInv
  <2>8. /\ storage' = v /\ lastWriter' = {t} /\ inbox' \in [Tabs -> Seq(StoredDraft)]
        /\ \A o \in Tabs : \A x \in ToSet(inbox'[o]) : x = v \/ x \in ToSet(inbox[o])
    BY <2>1, <2>3, StoreIs
  <2>9. torn' \in BOOLEAN BY <1>1, <1>3 DEF AutosaveTypeOK
  <2>10. AutosaveTypeOK' BY <1>1, <1>3, <2>1, <2>3, <2>8, <2>9 DEF AutosaveTypeOK
  <2>11. Explained(v, v) /\ \A x \in Copies : Explained(x, v)
    BY <1>1, <2>4, <2>5, <2>7 DEF Explained
  <2>12. StampsInv' BY <1>1, <1>4, <2>1, <2>8, <2>11, Found, TabKept
  <2>13. SavedMeansStored' BY <1>1, <1>3, <2>2, <2>8, SavedKept
  <2> QED BY <2>10, <2>12, <2>13
<1> QED BY <1>5, <1>6

\* The save fails: nothing is stored, and nothing counts as saved.
LEMMA SaveFailsKeeps ==
  ASSUME DraftsInv, NEW t \in Tabs, SaveFails(t)
  PROVE  DraftsInv'
<1> USE DEF DraftsInv
<1> DEFINE tab == tabs[t]
           r == NotSaved(tab)
<1>1. /\ tab.open /\ tabs' = [tabs EXCEPT ![t] = r]
      /\ failures < MaxFailures /\ failures' = failures + 1
      /\ UNCHANGED <<storage, backup, inbox, now, torn, lastWriter>>
  BY DEF SaveFails
<1>2. tab \in TabState BY Found
<1>3. /\ r \in TabState /\ ~r.saved
      /\ r.open = tab.open /\ r.data = tab.data /\ r.editedAt = tab.editedAt
      /\ r.rendering = tab.rendering /\ r.queued = tab.queued
  BY <1>2 DEF TabState, NotSaved
<1>4. CopyOf(r) = CopyOf(tab) BY <1>3 DEF CopyOf
<1> HIDE DEF r
<1>5. failures' \in 0..MaxFailures BY <1>1, AutosaveAssumption DEF AutosaveTypeOK
<1>6. AutosaveTypeOK' BY <1>1, <1>3, <1>5 DEF AutosaveTypeOK
<1>7. \A x \in Copies : Explained(x, Nothing) BY DEF Explained
<1>8. StampsInv' BY <1>1, <1>4, <1>7, Found, TabKept
<1>9. SavedMeansStored' BY <1>1, <1>3, SavedKept
<1> QED BY <1>6, <1>8, <1>9

\* Another tab's draft is received: when newer, with its time.
LEMMA ReceiveStorageKeeps ==
  ASSUME DraftsInv, NEW t \in Tabs, ReceiveStorage(t)
  PROVE  DraftsInv'
<1> USE DEF DraftsInv
<1> DEFINE tab == tabs[t]
           v == Head(inbox[t])
           a == Adopted(tab, v)
           r == IF IsNewer(tab, v) THEN a ELSE tab
<1>1. /\ inbox[t] # <<>> /\ inbox' = [inbox EXCEPT ![t] = Tail(inbox[t])]
      /\ tabs' = [tabs EXCEPT ![t] = r]
      /\ UNCHANGED <<storage, backup, now, failures, torn, lastWriter>>
  BY DEF ReceiveStorage, AutosaveTypeOK
<1>2. tab \in TabState /\ inbox[t] \in Seq(StoredDraft) BY Found
<1>3. /\ v \in StoredDraft /\ v \in ToSet(inbox[t])
      /\ Tail(inbox[t]) \in Seq(StoredDraft)
      /\ ToSet(Tail(inbox[t])) \subseteq ToSet(inbox[t])
  BY <1>1, <1>2 DEF ToSet
<1>4. v \in Copies BY <1>3, Found
<1> HIDE DEF v
<1>5. IsNewer(tab, v) => v.data \in Drafts /\ v.stamp \in 0..MaxNow
                         /\ v = [data |-> v.data, stamp |-> v.stamp]
  BY <1>3 DEF StoredDraft, IsNewer
<1>6. /\ r \in TabState /\ r.open = tab.open /\ r.saved = tab.saved /\ r.data = tab.data
      /\ CopyOf(r) \in {v, CopyOf(tab)}
  <2>1. CASE IsNewer(tab, v)
    <3>1. /\ a \in TabState /\ a.open = tab.open /\ a.saved = tab.saved /\ a.data = tab.data
          /\ a.rendering = TRUE /\ a.queued = v.data /\ a.editedAt = v.stamp
      BY <1>2, <1>5, <2>1 DEF TabState, Adopted
    <3> HIDE DEF a
    <3> QED BY <1>5, <2>1, <3>1 DEF CopyOf
  <2>2. CASE ~IsNewer(tab, v)
    BY <1>2, <2>2
  <2> QED BY <2>1, <2>2
<1> HIDE DEF r
<1>7. inbox' \in [Tabs -> Seq(StoredDraft)] BY <1>1, <1>3 DEF AutosaveTypeOK
<1>8. AutosaveTypeOK' BY <1>1, <1>6, <1>7 DEF AutosaveTypeOK
<1>9. \A x \in Copies : Explained(x, Nothing) BY DEF Explained
<1>10. \A o \in Tabs : ToSet(inbox'[o]) \subseteq ToSet(inbox[o])
  BY <1>1, <1>3 DEF AutosaveTypeOK
<1>11. r.open => Explained(CopyOf(r), Nothing) BY <1>4, <1>6, <1>9, Found
<1>12. StampsInv' BY <1>1, <1>9, <1>10, <1>11, Found, TabKept
<1>13. SavedMeansStored' BY <1>1, <1>6, SavedKept
<1> QED BY <1>8, <1>12, <1>13

\* What was adopted is rendered: it counts as unsaved.
LEMMA RenderAdoptedKeeps ==
  ASSUME DraftsInv, NEW t \in Tabs, RenderAdopted(t)
  PROVE  DraftsInv'
<1> USE DEF DraftsInv
<1> DEFINE tab == tabs[t]
           r == Rendered(tab, tab.queued)
<1>1. /\ tab.rendering /\ tabs' = [tabs EXCEPT ![t] = r]
      /\ UNCHANGED <<storage, backup, inbox, now, failures, torn, lastWriter>>
  BY DEF RenderAdopted
<1>2. tab \in TabState /\ tab.queued \in Drafts BY Found DEF TabState
<1>3. /\ r \in TabState /\ ~r.saved /\ r.open = tab.open /\ r.data = tab.queued
      /\ ~r.rendering /\ r.editedAt = tab.editedAt
  BY <1>2, RenderedIs
<1> HIDE DEF r
<1>4. CopyOf(r) = CopyOf(tab) BY <1>1, <1>3 DEF CopyOf
<1>5. AutosaveTypeOK' BY <1>1, <1>3 DEF AutosaveTypeOK
<1>6. \A x \in Copies : Explained(x, Nothing) BY DEF Explained
<1>7. StampsInv' BY <1>1, <1>3, <1>4, <1>6, Found, TabKept
<1>8. SavedMeansStored' BY <1>1, <1>3, SavedKept
<1> QED BY <1>5, <1>7, <1>8

\* The draft is discarded: nothing is stored, the backup is what was, or what
\* was stored, and the empty draft is the latest edit.
LEMMA ClearDraftKeeps ==
  ASSUME DraftsInv, NEW t \in Tabs, ClearDraft(t)
  PROVE  DraftsInv'
<1> USE DEF DraftsInv
<1> DEFINE tab == tabs[t]
           q == IF tab.pristine
                THEN [tab EXCEPT !.saved = TRUE, !.rendering = FALSE, !.queued = Blank]
                ELSE [Rendered(tab, Blank) EXCEPT !.pristine = TRUE]
           had == storage # Nothing
           o(ok) == (had /\ ok) \/ tab.offered
           r(ok) == [q EXCEPT !.editedAt = now + 1, !.offered = o(ok)]
<1>1. /\ now < MaxNow /\ now' = now + 1 /\ Store(t, Nothing) /\ torn' = torn
      /\ backup' \in {storage, backup}
      /\ failures' = failures \/ (failures < MaxFailures /\ failures' = failures + 1)
      /\ \E ok \in BOOLEAN : tabs' = [tabs EXCEPT ![t] = r(ok)]
  BY DEF ClearDraft, Tick
<1>2. tab \in TabState /\ Blank \in Drafts BY Found
<1>3. q \in TabState /\ ~q.rendering
  <2>1. CASE tab.pristine
    <3> DEFINE p == [tab EXCEPT !.saved = TRUE, !.rendering = FALSE, !.queued = Blank]
    <3>1. p \in TabState /\ ~p.rendering BY <1>2 DEF TabState
    <3> HIDE DEF p
    <3> QED BY <2>1, <3>1 DEF p
  <2>2. CASE ~tab.pristine
    <3> DEFINE p == Rendered(tab, Blank)
    <3>1. p \in TabState /\ ~p.rendering BY <1>2, RenderedIs
    <3> HIDE DEF p
    <3>2. [p EXCEPT !.pristine = TRUE] \in TabState /\ ~[p EXCEPT !.pristine = TRUE].rendering
      BY <3>1 DEF TabState
    <3> QED BY <2>2, <3>2 DEF p
  <2> QED BY <2>1, <2>2
<1>4. \A ok \in BOOLEAN : o(ok) \in BOOLEAN
  <2>1. tab.offered \in BOOLEAN BY <1>2 DEF TabState
  <2> HIDE DEF tab
  <2> QED BY <2>1
<1>5. PICK ok \in BOOLEAN : tabs' = [tabs EXCEPT ![t] = r(ok)] BY <1>1
<1> DEFINE c == o(ok)
           n == [q EXCEPT !.editedAt = now + 1, !.offered = c]
<1>6. tabs' = [tabs EXCEPT ![t] = n] /\ c \in BOOLEAN BY <1>4, <1>5
<1>7. now' \in 0..MaxNow BY <1>1, Found, AutosaveAssumption
<1> HIDE DEF q, c, r
<1>8. n \in TabState /\ ~n.rendering /\ n.editedAt = now + 1
  BY <1>1, <1>3, <1>6, <1>7 DEF TabState
<1> HIDE DEF n
<1>9. Nothing \in StoredDraft /\ Nothing.stamp = -1 BY DEF StoredDraft, Nothing
<1>10. /\ storage' = Nothing /\ lastWriter' = {t} /\ inbox' \in [Tabs -> Seq(StoredDraft)]
       /\ \A i \in Tabs : \A x \in ToSet(inbox'[i]) : x = Nothing \/ x \in ToSet(inbox[i])
  BY <1>1, <1>9, StoreIs
<1>11. failures' \in 0..MaxFailures BY <1>1, AutosaveAssumption DEF AutosaveTypeOK
<1>12. AutosaveTypeOK' BY <1>1, <1>6, <1>7, <1>8, <1>9, <1>10, <1>11 DEF AutosaveTypeOK
<1> DEFINE y == [data |-> n.data, stamp |-> now + 1]
<1>13. Explained(CopyOf(n), y) BY <1>1, <1>8 DEF Explained, CopyOf
<1>14. Explained(Nothing, y) /\ \A x \in Copies : Explained(x, y) BY <1>9 DEF Explained
<1> HIDE DEF y
<1>15. StampsInv' BY <1>1, <1>6, <1>10, <1>13, <1>14, Found, TabKept
<1>16. SavedMeansStored' BY <1>6, <1>10, SavedKept
<1> QED BY <1>12, <1>15, <1>16

\* Discarding is undone: the backup is what the tab holds, and what is stored
\* when it could be written.
LEMMA UndoDiscardKeeps ==
  ASSUME DraftsInv, NEW t \in Tabs, UndoDiscard(t)
  PROVE  DraftsInv'
<1> USE DEF DraftsInv
<1> DEFINE tab == tabs[t]
           p == Rendered(tab, backup.data)
           q == [p EXCEPT !.editedAt = backup.stamp]
           w == [q EXCEPT !.offered = FALSE]
<1>1. /\ backup # Nothing /\ now' = now /\ torn' = torn
      /\ \/ /\ tabs' = [tabs EXCEPT ![t] = w] /\ Store(t, backup)
            /\ backup' = Nothing /\ failures' = failures
         \/ /\ failures < MaxFailures /\ failures' = failures + 1
            /\ tabs' = [tabs EXCEPT ![t] = q]
            /\ UNCHANGED <<storage, backup, inbox, lastWriter>>
  BY DEF UndoDiscard
<1>2. tab \in TabState BY Found
<1>3. backup \in StoredDraft /\ Nothing \in StoredDraft /\ Nothing.stamp = -1
  BY DEF AutosaveTypeOK, StoredDraft, Nothing
<1>4. /\ backup.data \in Drafts /\ backup.stamp \in 0..MaxNow
      /\ backup = [data |-> backup.data, stamp |-> backup.stamp]
  BY <1>1, <1>3 DEF StoredDraft
<1>5. p \in TabState /\ ~p.rendering /\ ~p.saved /\ p.data = backup.data
  BY <1>2, <1>4, RenderedIs
<1> HIDE DEF p
<1>6. /\ q \in TabState /\ ~q.rendering /\ ~q.saved /\ q.data = backup.data
      /\ q.editedAt = backup.stamp
  BY <1>4, <1>5 DEF TabState
<1> HIDE DEF q
<1>7. /\ w \in TabState /\ ~w.rendering /\ ~w.saved /\ w.data = backup.data
      /\ w.editedAt = backup.stamp
  BY <1>6 DEF TabState
<1> HIDE DEF w
<1>8. CopyOf(q) = backup /\ CopyOf(w) = backup BY <1>4, <1>6, <1>7 DEF CopyOf
<1>9. /\ Explained(Nothing, Nothing) /\ \A x \in Copies : Explained(x, Nothing)
  BY <1>3 DEF Explained
<1>10. CASE /\ tabs' = [tabs EXCEPT ![t] = w] /\ Store(t, backup)
            /\ backup' = Nothing /\ failures' = failures
  <2>1. /\ storage' = backup /\ lastWriter' = {t} /\ inbox' \in [Tabs -> Seq(StoredDraft)]
        /\ \A i \in Tabs : \A x \in ToSet(inbox'[i]) : x = backup \/ x \in ToSet(inbox[i])
    BY <1>3, <1>10, StoreIs
  <2>2. AutosaveTypeOK' BY <1>1, <1>3, <1>7, <1>10, <2>1 DEF AutosaveTypeOK
  <2>3. StampsInv' BY <1>1, <1>8, <1>9, <1>10, <2>1, Found, TabKept
  <2>4. SavedMeansStored' BY <1>7, <1>10, <2>1, SavedKept
  <2> QED BY <2>2, <2>3, <2>4
<1>11. CASE /\ failures < MaxFailures /\ failures' = failures + 1
            /\ tabs' = [tabs EXCEPT ![t] = q]
            /\ UNCHANGED <<storage, backup, inbox, lastWriter>>
  <2>1. failures' \in 0..MaxFailures BY <1>11, AutosaveAssumption DEF AutosaveTypeOK
  <2>2. AutosaveTypeOK' BY <1>1, <1>6, <1>11, <2>1 DEF AutosaveTypeOK
  <2>3. StampsInv' BY <1>1, <1>8, <1>9, <1>11, Found, TabKept
  <2>4. SavedMeansStored' BY <1>6, <1>11, SavedKept
  <2> QED BY <2>2, <2>3, <2>4
<1> QED BY <1>1, <1>10, <1>11

\* Every step of the hook, in any tab.
LEMMA DraftsStep == DraftsInv /\ [AutosaveNext]_autosaveVars => DraftsInv'
<1> SUFFICES ASSUME DraftsInv, [AutosaveNext]_autosaveVars PROVE DraftsInv'
  OBVIOUS
<1>1. CASE UNCHANGED autosaveVars
  BY <1>1 DEF autosaveVars, DraftsInv, AutosaveTypeOK, StampsInv, StampsIdentifyDrafts,
              Copies, SavedMeansStored
<1>2. CASE AutosaveNext
  <2>1. PICK t \in Tabs :
          \/ OpenTab(t)
          \/ CloseTab(t)
          \/ \E d \in Drafts : EditDraft(t, d)
          \/ SaveDraft(t)
          \/ SaveFails(t)
          \/ ReceiveStorage(t)
          \/ RenderAdopted(t)
          \/ ClearDraft(t)
          \/ UndoDiscard(t)
    BY <1>2 DEF AutosaveNext
  <2> QED
    BY <2>1, OpenTabKeeps, CloseTabKeeps, EditDraftKeeps, SaveDraftKeeps, SaveFailsKeeps,
       ReceiveStorageKeeps, RenderAdoptedKeeps, ClearDraftKeeps, UndoDiscardKeeps
<1> QED BY <1>1, <1>2

\* A browser as it is found has one copy of a draft at most.
LEMMA DraftsInit == AutosaveInit => DraftsInv
<1> SUFFICES ASSUME AutosaveInit PROVE DraftsInv
  OBVIOUS
<1>1. Closed \in TabState /\ ~Closed.open
  BY AutosaveAssumption DEF Closed, TabState
<1>2. storage \in StoredDraft /\ storage.stamp \in {0, -1}
  BY AutosaveAssumption DEF AutosaveInit, StoredDraft, Nothing
<1>3. Nothing \in StoredDraft /\ Nothing.stamp = -1
  BY DEF StoredDraft, Nothing
<1>4. AutosaveTypeOK
  <2>1. /\ tabs = [t \in Tabs |-> Closed] /\ inbox = [t \in Tabs |-> <<>>]
        /\ backup = Nothing /\ now = 0 /\ failures = 0 /\ torn = FALSE /\ lastWriter = {}
    BY DEF AutosaveInit
  <2>2. <<>> \in Seq(StoredDraft) OBVIOUS
  <2>3. tabs \in [Tabs -> TabState] /\ inbox \in [Tabs -> Seq(StoredDraft)]
    BY <1>1, <2>1, <2>2
  <2>4. 0 \in 0..MaxNow /\ 0 \in 0..MaxFailures BY AutosaveAssumption
  <2> QED BY <1>2, <1>3, <2>1, <2>3, <2>4 DEF AutosaveTypeOK
<1>5. \A t \in Tabs : ToSet(inbox[t]) = {} /\ ~tabs[t].open
  BY <1>1 DEF AutosaveInit, ToSet
<1>6. \A x \in Copies : x = storage \/ x = Nothing
  BY <1>5, CopyIs DEF AutosaveInit
<1>7. StampsInv
  BY <1>2, <1>3, <1>6 DEF AutosaveInit, StampsInv, StampsIdentifyDrafts
<1>8. SavedMeansStored BY <1>5 DEF SavedMeansStored
<1> QED BY <1>4, <1>7, <1>8 DEF DraftsInv

\* The invariant is one of the specification.
LEMMA DraftsAlways == AutosaveSpec => []DraftsInv
BY DraftsInit, DraftsStep, PTL DEF AutosaveSpec

\* However many tabs share the storage, whatever is edited, saved, discarded,
\* undone or fails to be written, and whenever events and renders come: the
\* time of an edit tells its content, so that handleStorage rightly takes the
\* later of two drafts for the newer.
THEOREM DraftsTold == AutosaveSpec => []DraftsIdentified
<1>1. DraftsInv => DraftsIdentified BY DEF DraftsInv, StampsInv, DraftsIdentified
<1> QED BY <1>1, DraftsAlways, PTL

\* What the last tab to write shows as `Draft saved' is what is stored.
THEOREM SavedIsStored == AutosaveSpec => []SavedMeansStored
<1>1. DraftsInv => SavedMeansStored BY DEF DraftsInv
<1> QED BY <1>1, DraftsAlways, PTL
=============================================================================
