--------------------------- MODULE FrontendProofs ---------------------------
(***************************************************************************)
(* Proofs about Frontend: no page sends, pays, deposits, withdraws or      *)
(* claims twice, what is on screen is so, edits made while others are      *)
(* under way are kept, what was decided stands, and every part stays       *)
(* within its limits.                                                      *)
(***************************************************************************)
EXTENDS Frontend, Arithmetic, SequenceTheorems, TLAPS

\* A step of the frontend is, for each part, a step of it or none.
LEMMA PartSteps ==
  ASSUME [FrontendNext]_vars
  PROVE  /\ [DetailNext]_detail
         /\ [HistoryNext]_history
         /\ [ClaimNext]_claim
         /\ [UploadNext]_upload
         /\ [DepositNext]_deposit
         /\ [TreasuryNext]_treasury
         /\ [SettingsNext]_settings
         /\ [BookNext]_book
         /\ [HeaderNext]_header
         /\ [IntroNext]_intro
         /\ [NetNext]_net
         /\ [ToastsNext]_toasts
         /\ [NetworkNext]_network
         /\ [ThemeNext]_theme
         /\ [CopyNext]_copying
         /\ [PagingNext]_paging
         /\ [ClaimListNext]_claimList
         /\ [GuardNext]_guard
         /\ [OptimisticNext]_optimistic
         /\ [AccessNext]_access
BY DEF FrontendNext, vars, Using

-----------------------------------------------------------------------------
(* The page of a policy.                                                   *)

\* What every step of the page preserves.
DetailInv ==
  /\ detail \in DetailState
  /\ detail.claims + detail.packets <= MaxPackets
  /\ OnePacketAtATime
  /\ PaymentSeenThrough

\* The page starts with nothing sent and nothing paid.
LEMMA DetailInitInv == DetailInit => DetailInv
BY DetailAssumption
   DEF DetailInit, DetailInv, DetailMounted, DetailState, ErrorState, OnePacketAtATime,
       PaymentSeenThrough

\* Each operation of the page preserves it.
LEMMA DetailStep ==
  ASSUME DetailInv, [DetailNext]_detail
  PROVE  DetailInv'
<1> USE DetailAssumption
    DEF DetailInv, DetailState, ErrorState, OnePacketAtATime, PaymentSeenThrough
<1>1. CASE DetailLoaded BY <1>1 DEF DetailLoaded
<1>2. ASSUME NEW f \in Fields, NEW isRight \in BOOLEAN, EditDetail(f, isRight)
      PROVE  DetailInv'
  <2>1. FieldSet(detail, f, isRight) \in DetailState
    <3> DEFINE r == IF isRight THEN detail.right \cup {f} ELSE detail.right \ {f}
               e == [detail.errors EXCEPT ![f] = "cleared"]
    <3>1. r \in SUBSET Fields /\ e \in [Fields -> ErrorState] OBVIOUS
    <3>2. FieldSet(detail, f, isRight) = [detail EXCEPT !.right = r, !.errors = e]
      BY DEF FieldSet
    <3> HIDE DEF r, e
    <3> QED BY <3>1, <3>2
  <2>2. /\ detail'.claims = detail.claims /\ detail'.packets = detail.packets
        /\ detail'.submit = detail.submit /\ detail'.payments = detail.payments
        /\ detail'.payOpen = detail.payOpen /\ detail'.payStatus = detail.payStatus
    BY <1>2 DEF EditDetail, FieldSet
  <2> QED BY <1>2, <2>1, <2>2 DEF EditDetail
<1>3. CASE SubmitPacket
  <2>1. Validated \in [Fields -> {"absent", "shown", "cleared"}] BY DEF Validated
  <2>2. CASE detail.right # Fields
    BY <1>3, <2>1, <2>2 DEF SubmitPacket
  <2>3. CASE detail.right = Fields
    <3> DEFINE p == detail.packets + 1
    <3>1. p = 1 /\ p \in Nat /\ detail.claims + p <= MaxPackets
      BY <1>3 DEF SubmitPacket
    <3>2. detail' = [detail EXCEPT !.errors = Validated, !.submit = "submitting", !.packets = p]
      BY <1>3, <2>3 DEF SubmitPacket
    <3> HIDE DEF p
    <3>3. detail' \in DetailState BY <2>1, <3>1, <3>2
    <3> QED BY <3>1, <3>2, <3>3
  <2> QED BY <2>2, <2>3
<1>4. CASE PacketTimer
  <2> DEFINE c == detail.claims + 1
  <2>1. detail.packets = 1 /\ c \in 0..MaxPackets /\ detail.submit = "submitting"
    BY <1>4 DEF PacketTimer
  <2>2. detail' = [detail EXCEPT !.packets = 0, !.claims = c, !.submit = "success",
                                 !.right = {}]
    BY <1>4, <2>1 DEF PacketTimer, PacketSaved
  <2> HIDE DEF c
  <2>3. detail' \in DetailState BY <2>1, <2>2
  <2>4. /\ detail'.packets = 0 /\ detail'.claims = c /\ detail'.submit = "success"
        /\ detail'.payOpen = detail.payOpen /\ detail'.payStatus = detail.payStatus
        /\ detail'.payments = detail.payments
    BY <2>2
  <2> QED BY <2>1, <2>3, <2>4
<1>5. CASE OpenPayment BY <1>5 DEF OpenPayment
<1>6. CASE ClosePayment BY <1>6 DEF ClosePayment
<1>7. CASE ConfirmPayment
  <2>1. detail.payments = 0 /\ detail.payOpen = TRUE BY <1>7 DEF ConfirmPayment
  <2> DEFINE p == detail.payments + 1
  <2>2. detail' = [detail EXCEPT !.payStatus = "loading", !.payments = p]
    BY <1>7 DEF ConfirmPayment
  <2>p. p = 1 BY <2>1
  <2> HIDE DEF p
  <2>3. detail' \in DetailState BY <2>2, <2>p
  <2>4. /\ detail'.packets = detail.packets /\ detail'.claims = detail.claims
        /\ detail'.submit = detail.submit /\ detail'.payOpen = TRUE
        /\ detail'.payStatus = "loading" /\ detail'.payments = 1
    BY <2>1, <2>2, <2>p
  <2> QED BY <2>3, <2>4
<1>8. CASE PaymentSettled
  <2>1. detail.payments = 1 BY <1>8 DEF PaymentSettled
  <2> DEFINE p == detail.payments - 1
  <2>2. PICK result \in {"success", "error"} :
          detail' = [detail EXCEPT !.payments = p, !.payStatus = result]
    BY <1>8 DEF PaymentSettled
  <2>p. p = 0 BY <2>1
  <2> HIDE DEF p
  <2>3. detail' \in DetailState BY <2>2, <2>p
  <2>4. /\ detail'.packets = detail.packets /\ detail'.claims = detail.claims
        /\ detail'.submit = detail.submit /\ detail'.payStatus = result
        /\ detail'.payments = 0
    BY <2>2, <2>p
  <2> QED BY <2>2, <2>3, <2>4
<1>9. CASE PayAgain BY <1>9 DEF PayAgain
<1>10. CASE UNCHANGED detail BY <1>10
<1> QED BY <1>1, <1>2, <1>3, <1>4, <1>5, <1>6, <1>7, <1>8, <1>9, <1>10 DEF DetailNext

\* Whatever fields the form has and however often it is sent: one packet is
\* prepared at a time, and no payment runs that the dialog does not show.
THEOREM DetailSafe == FrontendSpec => [](OnePacketAtATime /\ PaymentSeenThrough)
<1>1. FrontendInit => DetailInv BY DetailInitInv DEF FrontendInit
<1>2. DetailInv /\ [FrontendNext]_vars => DetailInv' BY PartSteps, DetailStep
<1>3. DetailInv => OnePacketAtATime /\ PaymentSeenThrough BY DEF DetailInv
<1> QED BY <1>1, <1>2, <1>3, PTL DEF FrontendSpec

-----------------------------------------------------------------------------
(* Depositing.                                                             *)

\* What every step of the flow preserves.
DepositInv ==
  /\ deposit \in DepositState
  /\ deposit.submitting => deposit.step = "confirm"
  /\ DepositAsConfirmed

\* The flow starts with nothing asked for.
LEMMA DepositInitInv == deposit = DepositMounted => DepositInv
BY PoolFlowsAssumption
   DEF DepositInv, DepositMounted, DepositState, DepositAsConfirmed, NotANumber

\* Each operation of the flow preserves it, and asks only for a deposit that
\* is within its bounds.
LEMMA DepositStep ==
  ASSUME DepositInv, [DepositNext]_deposit
  PROVE  /\ DepositInv'
         /\ deposit'.requests > deposit.requests =>
              /\ deposit'.asked.amount >= MinDeposit[deposit'.asked.pool]
              /\ deposit'.asked.amount <= deposit.balance
<1> USE PoolFlowsAssumption DEF DepositInv, DepositState, DepositAsConfirmed, NotANumber
<1>1. CASE BalanceChanges BY <1>1 DEF BalanceChanges
<1>2. ASSUME NEW pool \in Pools, SelectPool(pool)
      PROVE  DepositInv' /\ deposit'.requests = deposit.requests
  BY <1>2 DEF SelectPool
<1>3. CASE NextFromSelect BY <1>3 DEF NextFromSelect
<1>4. CASE EnterAmount BY <1>4 DEF EnterAmount
<1>5. CASE NextFromAmount BY <1>5 DEF NextFromAmount
<1>6. CASE DepositBack
  <2> DEFINE s == IF deposit.step = "amount" THEN "select" ELSE "amount"
  <2>1. s \in {"select", "amount"} OBVIOUS
  <2>2. deposit' = [deposit EXCEPT !.step = s, !.error = FALSE] BY <1>6 DEF DepositBack
  <2>3. ~deposit.submitting BY <1>6 DEF DepositBack
  <2> HIDE DEF s
  <2>4. deposit' \in DepositState BY <2>1, <2>2
  <2>5. /\ deposit'.step = s /\ deposit'.requests = deposit.requests
        /\ deposit'.submitting = deposit.submitting
    BY <2>2
  <2>6. deposit.requests = 0 BY <2>3
  <2> QED BY <2>1, <2>3, <2>4, <2>5, <2>6
<1>7. CASE ConfirmDeposit
  <2> DEFINE a == [pool |-> deposit.pool, amount |-> deposit.amount]
  <2>1. deposit.requests = 0 BY <1>7 DEF ConfirmDeposit
  <2>2. deposit.pool \in Pools /\ deposit.amount \in Nat
    BY <1>7 DEF ConfirmDeposit, AmountIsValid
  <2>3. a \in Request /\ a.pool = deposit.pool /\ a.amount = deposit.amount
    BY <2>2 DEF Request
  <2>4. deposit' = [deposit EXCEPT !.submitting = TRUE, !.error = FALSE, !.requests = 1,
                                   !.asked = a]
    BY <1>7, <2>1 DEF ConfirmDeposit
  <2>5. deposit.step = "confirm" /\ AmountIsValid BY <1>7 DEF ConfirmDeposit
  <2> HIDE DEF a
  <2>6. deposit' \in DepositState BY <2>3, <2>4
  <2>7. /\ deposit'.asked = a /\ deposit'.pool = deposit.pool /\ deposit'.requests = 1
        /\ deposit'.amount = deposit.amount /\ deposit'.submitting = TRUE
        /\ deposit'.step = "confirm"
    BY <2>4, <2>5
  <2>8. DepositInv' BY <2>6, <2>7 DEF a
  <2> QED BY <2>3, <2>5, <2>7, <2>8 DEF AmountIsValid
<1>8. CASE DepositSettled
  <2>1. /\ deposit.requests = 1 /\ deposit.submitting /\ deposit.step = "confirm"
        /\ deposit.asked = [pool |-> deposit.pool, amount |-> deposit.amount]
    BY <1>8 DEF DepositSettled
  <2>2. CASE deposit' = [deposit EXCEPT !.requests = 0, !.submitting = FALSE,
                                        !.step = "success"]
    <3>1. deposit' \in DepositState BY <2>2
    <3>2. /\ deposit'.requests = 0 /\ deposit'.submitting = FALSE
          /\ deposit'.step = "success" /\ deposit'.pool = deposit.pool
          /\ deposit'.amount = deposit.amount /\ deposit'.asked = deposit.asked
      BY <2>2
    <3> QED BY <2>1, <3>1, <3>2
  <2>3. CASE deposit' = [deposit EXCEPT !.requests = 0, !.submitting = FALSE,
                                        !.error = TRUE]
    <3>1. deposit' \in DepositState BY <2>3
    <3>2. /\ deposit'.requests = 0 /\ deposit'.submitting = FALSE
          /\ deposit'.step = "confirm"
      BY <2>1, <2>3
    <3> QED BY <2>1, <3>1, <3>2
  <2>4. deposit.requests - 1 = 0 BY <2>1
  <2> QED BY <1>8, <2>2, <2>3, <2>4 DEF DepositSettled
<1>9. CASE DepositReset
  <2>1. deposit.requests = 0 /\ deposit.submitting = FALSE BY <1>9 DEF DepositReset
  <2>2. deposit' = [deposit EXCEPT !.step = "select", !.pool = NoPool, !.amount = NotANumber,
                                   !.error = FALSE]
    BY <1>9 DEF DepositReset
  <2>3. deposit' \in DepositState BY <2>2
  <2>4. /\ deposit'.requests = 0 /\ deposit'.submitting = FALSE
        /\ deposit'.step = "select"
    BY <2>1, <2>2
  <2> QED BY <2>3, <2>4
<1>10. CASE UNCHANGED deposit BY <1>10
<1> QED BY <1>1, <1>2, <1>3, <1>4, <1>5, <1>6, <1>7, <1>8, <1>9, <1>10 DEF DepositNext

\* Of every deposit that was asked for the answer is shown as what it was,
\* whatever pools there are and however the wallet's balance changes.
THEOREM DepositSafe == FrontendSpec => []DepositAsConfirmed
<1>1. FrontendInit => DepositInv BY DepositInitInv DEF FrontendInit
<1>2. DepositInv /\ [FrontendNext]_vars => DepositInv' BY PartSteps, DepositStep
<1>3. DepositInv => DepositAsConfirmed BY DEF DepositInv
<1> QED BY <1>1, <1>2, <1>3, PTL DEF FrontendSpec

\* No deposit is asked for that the pool would not take or that the wallet,
\* as it is when it is asked for, does not hold.
THEOREM DepositBounds == FrontendSpec => DepositsWithinBounds
<1> DEFINE Within ==
      deposit'.requests > deposit.requests =>
        /\ deposit'.asked.amount >= MinDeposit[deposit'.asked.pool]
        /\ deposit'.asked.amount <= deposit.balance
<1>1. FrontendInit => DepositInv BY DepositInitInv DEF FrontendInit
<1>2. DepositInv /\ [FrontendNext]_vars => DepositInv' /\ [Within]_deposit
  BY PartSteps, DepositStep
<1> QED BY <1>1, <1>2, PTL DEF FrontendSpec, DepositsWithinBounds

-----------------------------------------------------------------------------
(* Withdrawing.                                                            *)

\* What every step of the dialogue preserves: past its first step it is about
\* an amount that the pool holds, and the request under way is the one shown.
TreasuryInv ==
  /\ treasury \in TreasuryState
  /\ treasury.submitting => treasury.step = "processing"
  /\ treasury.step # "amount" => Withdrawing /\ WithdrawalIsValid
  /\ WithdrawalAsConfirmed

\* The dialogue starts with nothing asked for.
LEMMA TreasuryInitInv == treasury = TreasuryMounted => TreasuryInv
BY PoolFlowsAssumption
   DEF TreasuryInv, TreasuryMounted, TreasuryState, WithdrawalAsConfirmed, NotANumber

\* Each operation of the dialogue preserves it.
LEMMA TreasuryStep ==
  ASSUME TreasuryInv, [TreasuryNext]_treasury
  PROVE  TreasuryInv'
<1> USE PoolFlowsAssumption
    DEF TreasuryInv, TreasuryState, WithdrawalAsConfirmed, Withdrawing, WithdrawalIsValid,
        NotANumber
<1>1. ASSUME NEW pool \in Pools, OpenWithdrawal(pool)
      PROVE  TreasuryInv'
  BY <1>1 DEF OpenWithdrawal
<1>2. CASE EnterWithdrawal BY <1>2 DEF EnterWithdrawal
<1>3. CASE ReviewWithdrawal BY <1>3 DEF ReviewWithdrawal
<1>4. CASE WithdrawalBack BY <1>4 DEF WithdrawalBack
<1>5. CASE ConfirmWithdrawal
  <2>1. treasury.requests = 0 /\ treasury.requests + 1 = 1
    BY <1>5 DEF ConfirmWithdrawal
  <2>2. treasury' = [treasury EXCEPT !.step = "processing", !.submitting = TRUE,
                       !.error = FALSE, !.requests = 1, !.asked = treasury.amount]
    BY <1>5, <2>1 DEF ConfirmWithdrawal
  <2>3. Withdrawing /\ WithdrawalIsValid BY <1>5 DEF ConfirmWithdrawal
  <2> QED BY <2>2, <2>3
<1>6. CASE WithdrawalSettled
  <2>1. treasury.requests = 1 /\ treasury.requests - 1 = 0 /\ treasury.step = "processing"
    BY <1>6 DEF WithdrawalSettled
  <2>2. Withdrawing /\ WithdrawalIsValid /\ treasury.asked = treasury.amount BY <2>1
  <2>3. \/ treasury' = [treasury EXCEPT !.requests = 0, !.submitting = FALSE,
                                        !.step = "success"]
        \/ treasury' = [treasury EXCEPT !.requests = 0, !.submitting = FALSE,
                                        !.error = TRUE, !.step = "review"]
    BY <1>6, <2>1 DEF WithdrawalSettled
  <2>4. CASE treasury' = [treasury EXCEPT !.requests = 0, !.submitting = FALSE,
                                          !.step = "success"]
    <3>1. treasury' \in TreasuryState BY <2>4
    <3>2. /\ treasury'.requests = 0 /\ treasury'.submitting = FALSE
          /\ treasury'.pool = treasury.pool /\ treasury'.amount = treasury.amount
          /\ treasury'.asked = treasury.asked
      BY <2>4
    <3> QED BY <2>2, <3>1, <3>2
  <2>5. CASE treasury' = [treasury EXCEPT !.requests = 0, !.submitting = FALSE,
                                          !.error = TRUE, !.step = "review"]
    <3>1. treasury' \in TreasuryState BY <2>5
    <3>2. /\ treasury'.requests = 0 /\ treasury'.submitting = FALSE
          /\ treasury'.pool = treasury.pool /\ treasury'.amount = treasury.amount
          /\ treasury'.step = "review"
      BY <2>5
    <3> QED BY <2>2, <3>1, <3>2
  <2> QED BY <2>3, <2>4, <2>5
<1>7. CASE CloseWithdrawal
  <2> DEFINE n == treasury.abandoned + treasury.requests
  <2>1. n \in 0..MaxAbandoned BY <1>7 DEF CloseWithdrawal
  <2>2. treasury' = [TreasuryMounted EXCEPT !.abandoned = n] BY <1>7 DEF CloseWithdrawal
  <2>3. n \in Nat /\ n <= MaxAbandoned BY <2>1
  <2> HIDE DEF n
  <2>4. treasury' = [pool |-> NoPool, step |-> "amount", amount |-> -1,
                     submitting |-> FALSE, error |-> FALSE, requests |-> 0, asked |-> -1,
                     abandoned |-> n]
    BY <2>2 DEF TreasuryMounted
  <2>5. treasury' \in TreasuryState BY <2>3, <2>4
  <2> QED BY <2>4, <2>5
<1>8. CASE AbandonedSettled BY <1>8 DEF AbandonedSettled
<1>9. CASE UNCHANGED treasury BY <1>9
<1> QED BY <1>1, <1>2, <1>3, <1>4, <1>5, <1>6, <1>7, <1>8, <1>9 DEF TreasuryNext

\* Whatever is closed and opened again meanwhile, a withdrawal that is shown as
\* made is the one asked for, and the pool holds it.
THEOREM WithdrawalSafe == FrontendSpec => []WithdrawalAsConfirmed
<1>1. FrontendInit => TreasuryInv BY TreasuryInitInv DEF FrontendInit
<1>2. TreasuryInv /\ [FrontendNext]_vars => TreasuryInv' BY PartSteps, TreasuryStep
<1>3. TreasuryInv => WithdrawalAsConfirmed BY DEF TreasuryInv
<1> QED BY <1>1, <1>2, <1>3, PTL DEF FrontendSpec

\* Both ways in and out of the pools show what they do.
THEOREM MoneySafe == FrontendSpec => []MoneyMovesAsConfirmed
BY DepositSafe, WithdrawalSafe, PTL DEF MoneyMovesAsConfirmed

-----------------------------------------------------------------------------
(* The banner about the network.                                           *)

\* What every step of the banner preserves: the only timer is that of a
\* network that has come back.
NetInv ==
  /\ net \in NetState
  /\ net.timer => net.state = "restored"
  /\ OutageIsKnown

\* The banner starts with a network that is there.
LEMMA NetInitInv == net = NetMounted => NetInv
BY DEF NetInv, NetMounted, NetState, OutageIsKnown

\* Each event of the network and of the banner preserves it.
LEMMA NetStep ==
  ASSUME NetInv, [NetNext]_net
  PROVE  NetInv'
<1> USE DEF NetInv, NetState, OutageIsKnown
<1>1. CASE GoOffline BY <1>1 DEF GoOffline
<1>2. CASE GoOnline BY <1>2 DEF GoOnline
<1>3. CASE RestoredEnds BY <1>3 DEF RestoredEnds
<1>4. CASE DismissBanner BY <1>4 DEF DismissBanner
<1>5. CASE UNCHANGED net BY <1>5
<1> QED BY <1>1, <1>2, <1>3, <1>4, <1>5 DEF NetNext

\* However the network comes and goes, the banner's state is that of the
\* network.
THEOREM OutageAlwaysKnown == FrontendSpec => []OutageIsKnown
<1>1. FrontendInit => NetInv BY NetInitInv DEF FrontendInit
<1>2. NetInv /\ [FrontendNext]_vars => NetInv' BY NetStep, PartSteps
<1>3. NetInv => OutageIsKnown BY DEF NetInv
<1> QED BY <1>1, <1>2, <1>3, PTL DEF FrontendSpec

-----------------------------------------------------------------------------
(* The address of the list of claims.                                      *)

\* The list either waits for the router, on its way to the filters on screen,
\* or the address names them, unless others have changed it.
ClaimListInv ==
  /\ claimList \in ClaimListState
  /\ claimList.going \in {NoNavigation, claimList.active}
  /\ FiltersInAddress

\* A list opened at an address shows the filters it names.
LEMMA ClaimListMountedInv ==
  ASSUME NEW url \in SUBSET Filters, claimList' = ClaimListMounted(url)
  PROVE  ClaimListInv'
BY DEF ClaimListMounted, ClaimListInv, ClaimListState, FiltersInAddress, NoNavigation,
       SortFields

\* The list starts with no filter, and is not on its way anywhere.
LEMMA ClaimListInitInv == claimList = ClaimListMounted({}) => ClaimListInv
BY DEF ClaimListMounted, ClaimListInv, ClaimListState, FiltersInAddress, NoNavigation,
       SortFields

\* Each operation of the list preserves it.
LEMMA ClaimListStep ==
  ASSUME ClaimListInv, [ClaimListNext]_claimList
  PROVE  ClaimListInv'
<1> USE DEF ClaimListInv, ClaimListState, FiltersInAddress
<1>1. CASE ClaimsArrive BY <1>1 DEF ClaimsArrive
<1>2. ASSUME NEW next \in SUBSET Filters, UpdateFilters(next)
      PROVE  ClaimListInv'
  BY <1>2, ListsAssumption DEF UpdateFilters, NoNavigation
<1>3. ASSUME NEW status \in Filters, ToggleFilter(status)
      PROVE  ClaimListInv'
  BY <1>2, <1>3 DEF ToggleFilter
<1>4. CASE ClearClaimFilters BY <1>2, <1>4 DEF ClearClaimFilters
<1>5. CASE AddressChanged BY <1>5 DEF AddressChanged, NoNavigation
<1>6. CASE OpenClaims BY <1>6, ClaimListMountedInv DEF OpenClaims
<1>9. CASE AddressSetOutside
  <2> DEFINE yes == TRUE
  <2>1. PICK url \in SUBSET Filters :
          claimList' = [claimList EXCEPT !.url = url, !.going = NoNavigation, !.outside = yes]
    BY <1>9 DEF AddressSetOutside
  <2>2. yes \in BOOLEAN OBVIOUS
  <2> HIDE DEF yes
  <2>3. claimList' \in ClaimListState /\ claimList'.going = NoNavigation
        /\ claimList'.outside = yes
    BY <2>1, <2>2
  <2> QED BY <2>3, Zenon DEF yes
<1>7. ASSUME NEW field \in SortFields, ToggleSort(field)
      PROVE  ClaimListInv'
  BY <1>7 DEF ToggleSort, SortFields
<1>8. CASE UNCHANGED claimList BY <1>8
<1> QED BY <1>1, <1>3, <1>4, <1>5, <1>6, <1>7, <1>8, <1>9 DEF ClaimListNext

\* Whatever is chosen, cleared and loaded in whatever order: an address that
\* is at rest, and was not changed by others since, names the filters on screen.
THEOREM AddressNamesFilters == FrontendSpec => []FiltersInAddress
<1>1. FrontendInit => ClaimListInv BY ClaimListInitInv DEF FrontendInit
<1>2. ClaimListInv /\ [FrontendNext]_vars => ClaimListInv' BY ClaimListStep, PartSteps
<1>3. ClaimListInv => FiltersInAddress BY DEF ClaimListInv
<1> QED BY <1>1, <1>2, <1>3, PTL DEF FrontendSpec

-----------------------------------------------------------------------------
(* Submitting a claim.                                                     *)

\* A form is a record with the fields of the mounted one, whatever they hold.
IsForm(form) ==
  form = [policy |-> form.policy, type |-> form.type, complete |-> form.complete,
          evidence |-> form.evidence, preview |-> form.preview, status |-> form.status,
          failed |-> form.failed, requests |-> form.requests, checks |-> form.checks,
          checking |-> form.checking, timers |-> form.timers]

\* Another form in which the same has been submitted.
SameSubmission(old, new) ==
  IsForm(new) /\ new.status = old.status /\ new.requests = old.requests

\* The checker's effect leaves the submission alone.
LEMMA CheckedKeeps ==
  ASSUME NEW form, IsForm(form)
  PROVE  SameSubmission(form, Checked(form))
<1>1. CASE CheckerShown(form)
  <2> DEFINE t == Append(form.timers, form.type)
  <2>1. Checked(form) = [form EXCEPT !.checking = TRUE, !.timers = t]
    BY <1>1 DEF Checked
  <2> HIDE DEF t
  <2> QED BY <2>1 DEF IsForm, SameSubmission
<1>2. CASE ~CheckerShown(form)
  BY <1>2 DEF Checked, IsForm, SameSubmission
<1> QED BY <1>1, <1>2

\* However the form is edited while it is sent, and whatever is checked
\* meanwhile: it waits for one answer, or for none.
THEOREM ClaimSafe == FrontendSpec => []OneClaimAtATime
<1> DEFINE Inv == IsForm(claim) /\ OneClaimAtATime
<1>1. FrontendInit => Inv BY DEF FrontendInit, ClaimMounted, IsForm, OneClaimAtATime
<1>2. Inv /\ [ClaimNext]_claim => Inv'
  <2> SUFFICES ASSUME Inv, [ClaimNext]_claim PROVE Inv' OBVIOUS
  <2>0. SameSubmission(claim, claim') => Inv'
    BY DEF SameSubmission, OneClaimAtATime, IsForm
  <2> HIDE DEF Inv
  <2>i. IsForm(claim) /\ OneClaimAtATime BY DEF Inv
  <2>1. ASSUME NEW policy, EnterPolicy(policy)
        PROVE  Inv'
    <3> DEFINE form == [claim EXCEPT !.policy = policy]
    <3>1. SameSubmission(claim, form) BY <2>i DEF SameSubmission, IsForm
    <3>2. claim' = Checked(form) BY <2>1 DEF EnterPolicy
    <3> HIDE DEF form
    <3> QED BY <2>0, <3>1, <3>2, CheckedKeeps DEF SameSubmission
  <2>2. ASSUME NEW type, ChooseType(type)
        PROVE  Inv'
    <3> DEFINE form == [claim EXCEPT !.type = type]
    <3>1. SameSubmission(claim, form) BY <2>i DEF SameSubmission, IsForm
    <3>2. claim' = Checked(form) \/ claim' = form BY <2>2 DEF ChooseType
    <3> HIDE DEF form
    <3> QED BY <2>0, <3>1, <3>2, CheckedKeeps DEF SameSubmission
  <2>3. CASE ChecksAnswered
    <3> DEFINE t == Tail(claim.timers)
               c == Head(claim.timers)
    <3>1. claim' = [claim EXCEPT !.timers = t, !.checks = c, !.checking = FALSE]
      BY <2>3 DEF ChecksAnswered
    <3> HIDE DEF t, c
    <3> QED BY <2>0, <2>i, <3>1 DEF SameSubmission, IsForm
  <2>4. ASSUME NEW complete \in BOOLEAN, CompleteFields(complete)
        PROVE  Inv'
    BY <2>0, <2>i, <2>4 DEF CompleteFields, SameSubmission, IsForm
  <2>5. CASE AddEvidence \/ RemoveEvidence
    <3>1. \E n : claim' = [claim EXCEPT !.evidence = n]
      BY <2>5 DEF AddEvidence, RemoveEvidence
    <3> QED BY <2>0, <2>i, <3>1 DEF SameSubmission, IsForm
  <2>6. CASE TogglePreview
    BY <2>0, <2>i, <2>6 DEF TogglePreview, SameSubmission, IsForm
  <2>7. CASE SubmitClaim
    <3> DEFINE n == claim.requests + 1
    <3>1. n = 1 BY <2>7, <2>i DEF SubmitClaim, OneClaimAtATime
    <3>2. claim' = [claim EXCEPT !.status = "loading", !.failed = FALSE, !.requests = n]
      BY <2>7 DEF SubmitClaim
    <3> HIDE DEF n
    <3> QED BY <2>i, <3>1, <3>2 DEF Inv, IsForm, OneClaimAtATime
  <2>8. CASE ClaimAccepted \/ ClaimRejected
    <3> DEFINE n == claim.requests - 1
    <3>1. n = 0 BY <2>8, <2>i DEF ClaimAccepted, ClaimRejected, OneClaimAtATime
    <3>2. \/ claim' = [claim EXCEPT !.status = "success", !.requests = n,
                         !.checks = NoChecks, !.checking = TRUE, !.timers = <<>>]
          \/ claim' = [claim EXCEPT !.status = "idle", !.failed = TRUE, !.requests = n]
      BY <2>8 DEF ClaimAccepted, ClaimRejected
    <3> HIDE DEF n
    <3> QED BY <2>i, <3>1, <3>2 DEF Inv, IsForm, OneClaimAtATime
  <2>9. CASE UNCHANGED claim BY <2>9, <2>i DEF Inv, OneClaimAtATime, IsForm
  <2> QED BY <2>1, <2>2, <2>3, <2>4, <2>5, <2>6, <2>7, <2>8, <2>9 DEF ClaimNext
<1>3. Inv /\ [FrontendNext]_vars => Inv' BY <1>2, PartSteps
<1>4. Inv => OneClaimAtATime OBVIOUS
<1> QED BY <1>1, <1>3, <1>4, PTL DEF FrontendSpec

\* The support form, the payment and the claim form: each sends once.
THEOREM SentOnce == FrontendSpec => []NothingIsSentTwice
BY DetailSafe, ClaimSafe, PTL DEF NothingIsSentTwice

-----------------------------------------------------------------------------
(* The list of errors.                                                     *)

\* A field is made wrong, or right, together with its error, validation looks
\* at what is there, and a form that is reset has only wrong fields.
LEMMA ErrorsStep ==
  ASSUME DetailInv, ListedErrorsAreTrue, [DetailNext]_detail
  PROVE  ListedErrorsAreTrue'
<1> USE DEF DetailInv, DetailState, ErrorState, ListedErrorsAreTrue
<1>1. CASE DetailLoaded BY <1>1 DEF DetailLoaded
<1>2. ASSUME NEW f \in Fields, NEW isRight \in BOOLEAN, EditDetail(f, isRight)
      PROVE  ListedErrorsAreTrue'
  <2> DEFINE r == IF isRight THEN detail.right \cup {f} ELSE detail.right \ {f}
             e == [detail.errors EXCEPT ![f] = "cleared"]
  <2>1. detail' = [detail EXCEPT !.right = r, !.errors = e]
    BY <1>2 DEF EditDetail, FieldSet
  <2>2. \A g \in Fields : e[g] = "shown" => g \notin r OBVIOUS
  <2> HIDE DEF r, e
  <2> QED BY <2>1, <2>2
<1>3. CASE SubmitPacket
  <2>1. detail'.errors = Validated /\ detail'.right = detail.right
    BY <1>3 DEF SubmitPacket
  <2> QED BY <2>1 DEF Validated
<1>4. CASE PacketTimer
  <2>1. detail'.right = {} BY <1>4 DEF PacketTimer, PacketSaved
  <2> QED BY <2>1
<1>5. CASE OpenPayment \/ ClosePayment \/ ConfirmPayment \/ PaymentSettled \/ PayAgain
  <2>1. detail'.errors = detail.errors /\ detail'.right = detail.right
    BY <1>5 DEF OpenPayment, ClosePayment, ConfirmPayment, PaymentSettled, PayAgain
  <2> QED BY <2>1
<1>6. CASE UNCHANGED detail BY <1>6
<1> QED BY <1>1, <1>2, <1>3, <1>4, <1>5, <1>6 DEF DetailNext

-----------------------------------------------------------------------------
(* Bell and panel.                                                         *)

\* A header is a record with the fields of the mounted one, whatever they hold.
IsHeader(h) ==
  h = [drawer |-> h.drawer, open |-> h.open, loading |-> h.loading, loads |-> h.loads,
       store |-> h.store, bell |-> h.bell, panel |-> h.panel]

\* What every step of the header preserves.
HeaderInv == IsHeader(header) /\ BellInSync

\* Bell and panel are told of every change of the store together.
LEMMA HeaderStep ==
  ASSUME HeaderInv, [HeaderNext]_header
  PROVE  HeaderInv'
<1> USE DEF HeaderInv, IsHeader, BellInSync
<1>1. CASE ToggleDrawer \/ CloseDrawer
  <2>1. \E d : header' = [header EXCEPT !.drawer = d]
    BY <1>1 DEF ToggleDrawer, CloseDrawer
  <2> QED BY <2>1
<1>2. CASE OpenNotifications
  <2>1. \E n : header' = [header EXCEPT !.open = TRUE, !.loading = TRUE, !.loads = n]
    BY <1>2 DEF OpenNotifications
  <2> QED BY <2>1
<1>3. CASE CloseNotifications BY <1>3 DEF CloseNotifications
<1>4. CASE NotificationsLoaded
  <2>1. \E n : header' = [header EXCEPT !.store = Mock, !.bell = Mock, !.panel = Mock,
                                        !.loads = n, !.loading = FALSE]
    BY <1>4 DEF NotificationsLoaded, Published
  <2> HIDE DEF Mock
  <2> QED BY <2>1
<1>5. ASSUME NEW n \in Notifications, MarkAsRead(n)
      PROVE  HeaderInv'
  <2> DEFINE list == [header.bell EXCEPT ![n] = TRUE]
  <2>1. header' = [header EXCEPT !.store = Updater, !.bell = list, !.panel = list]
    BY <1>5 DEF MarkAsRead
  <2> HIDE DEF list
  <2> QED BY <2>1
<1>6. CASE ClearAll BY <1>6 DEF ClearAll, Published
<1>7. CASE UNCHANGED header BY <1>7
<1> QED BY <1>1, <1>2, <1>3, <1>4, <1>5, <1>6, <1>7 DEF HeaderNext

-----------------------------------------------------------------------------
(* The dialog about unsaved changes.                                       *)

\* What every step of the guard preserves.
GuardInv == guard \in GuardState /\ DialogIsTrue

\* The dialog opens with the page it asks about, and closes with it.
LEMMA GuardStep ==
  ASSUME GuardInv, [GuardNext]_guard
  PROVE  GuardInv'
<1> USE HooksAssumption DEF GuardInv, GuardState, DialogIsTrue
<1>1. CASE MarkDirty BY <1>1 DEF MarkDirty
<1>2. CASE MarkClean BY <1>2 DEF MarkClean, Undisturbed
<1>3. ASSUME NEW href \in Pages, GuardedNavigate(href)
      PROVE  GuardInv'
  BY <1>3 DEF GuardedNavigate
<1>4. CASE ConfirmLeave BY <1>4 DEF ConfirmLeave, Undisturbed
<1>5. CASE CancelLeave BY <1>5 DEF CancelLeave
<1>6. CASE Arrive
  <2>1. CASE guard.going = guard.pathname BY <1>6, <2>1 DEF Arrive
  <2>2. CASE guard.going # guard.pathname BY <1>6, <2>2 DEF Arrive, Undisturbed
  <2> QED BY <2>1, <2>2
<1>7. CASE UNCHANGED guard BY <1>7
<1> QED BY <1>1, <1>2, <1>3, <1>4, <1>5, <1>6, <1>7 DEF GuardNext

-----------------------------------------------------------------------------
(* The session, the gate and the page of a claim.                          *)

\* A session is there exactly for who is signed in, and none is kept for who
\* is turned away.
SessionSound(a) ==
  /\ a \in AccessState
  /\ a.status = "authenticated" <=> a.session # NoUser
  /\ a.status = "unauthenticated" => a.stored = NoUser

\* What is loaded or kept of a claim is behind an open gate and of the page's
\* own address; when nothing is, its claim has no record.
ClaimSound(a) ==
  /\ a.loading = TRUE \/ a.record # "none" => GateOpen(a)
  /\ a.record # "none" => a.record = a.page
  /\ GateOpen(a) /\ a.loading # TRUE /\ a.record = "none" => a.page \notin Claims

\* What every step of session, gate and page preserves.
AccessInv == SessionSound(access) /\ ClaimSound(access)

\* Where the gate is mounted or decides anew, it loads the claim of its page.
LEMMA GatedSound ==
  ASSUME NEW a, SessionSound(a)
  PROVE  SessionSound(Gated(a)) /\ ClaimSound(Gated(a))
<1> DEFINE open == GateOpen(a)
           to == IF a.page \in ClaimIds /\ a.status = "unauthenticated" THEN "home"
                 ELSE a.going
<1>1. open \in BOOLEAN /\ to \in Locations \cup {"none"}
  BY DEF GateOpen, SessionSound, AccessState, Locations
<1>2. Gated(a) = [a EXCEPT !.loading = open, !.record = "none", !.going = to]
  BY DEF Gated
<1>o. open <=> a.page \in ClaimIds /\ a.status = "authenticated" BY DEF GateOpen
<1> HIDE DEF open, to
<1> DEFINE g == Gated(a)
<1>3. g \in AccessState BY <1>1, <1>2 DEF SessionSound, AccessState
<1>4. /\ g.status = a.status /\ g.session = a.session /\ g.stored = a.stored
      /\ g.page = a.page /\ g.loading = open /\ g.record = "none"
  BY <1>2 DEF SessionSound, AccessState
<1> HIDE DEF g
<1>5. SessionSound(g) BY <1>3, <1>4 DEF SessionSound
<1>6. GateOpen(g) <=> open BY <1>4, <1>o DEF GateOpen
<1>7. ClaimSound(g) BY <1>1, <1>4, <1>6, Zenon DEF ClaimSound
<1> QED BY <1>5, <1>7 DEF g

\* Each operation of the provider, the gate, the router and the page keeps it.
LEMMA AccessStep ==
  ASSUME AccessInv, [AccessNext]_access
  PROVE  AccessInv'
<1>a. SessionSound(access) /\ ClaimSound(access) /\ access \in AccessState
  BY DEF AccessInv, SessionSound
<1>g. ASSUME NEW a, SessionSound(a), access' = Gated(a)
      PROVE  AccessInv'
  BY <1>g, GatedSound DEF AccessInv
<1>1. CASE RestoreSession
  <2> DEFINE s == StatusOf(access.stored)
             a == [access EXCEPT !.session = access.stored, !.status = s]
  <2>1. /\ s \in {"authenticated", "unauthenticated"}
        /\ s = "authenticated" <=> access.stored # NoUser
    BY DEF StatusOf
  <2>2. access' = Gated(a) BY <1>1 DEF RestoreSession
  <2> HIDE DEF s
  <2>3. SessionSound(a) BY <1>a, <2>1 DEF SessionSound, AccessState
  <2> HIDE DEF a
  <2> QED BY <1>g, <2>2, <2>3
<1>2. ASSUME NEW user \in Users, SignIn(user)
      PROVE  AccessInv'
  <2>1. PICK stored \in {user, access.stored} :
          LET in == [access EXCEPT !.session = user, !.stored = stored,
                                   !.status = "authenticated"]
          IN access' = IF access.status = "unauthenticated" THEN Gated(in) ELSE in
    BY <1>2 DEF SignIn
  <2> DEFINE in == [access EXCEPT !.session = user, !.stored = stored,
                                  !.status = "authenticated"]
  <2>2. stored \in Users \cup {NoUser} /\ user # NoUser
    BY <1>a, AccessAssumption DEF AccessState
  <2>3. SessionSound(in) BY <1>a, <2>2 DEF SessionSound, AccessState
  <2>4. CASE access.status = "unauthenticated"
    <3>1. access' = Gated(in) BY <2>1, <2>4
    <3> HIDE DEF in
    <3> QED BY <1>g, <2>3, <3>1
  <2>5. CASE access.status # "unauthenticated"
    <3>1. access' = in BY <2>1, <2>5
    <3>2. access.status # "loading" BY <1>2 DEF SignIn
    <3>3. access.status = "authenticated" BY <1>a, <2>5, <3>2 DEF AccessState
    <3>4. /\ in.page = access.page /\ in.status = access.status
          /\ in.loading = access.loading /\ in.record = access.record
      BY <1>a, <3>3 DEF AccessState
    <3> HIDE DEF in
    <3>5. GateOpen(in) <=> GateOpen(access) BY <3>4 DEF GateOpen
    <3>6. ClaimSound(in) BY <1>a, <3>4, <3>5, Zenon DEF ClaimSound
    <3> QED BY <2>3, <3>1, <3>6 DEF AccessInv
  <2> QED BY <2>4, <2>5
<1>3. CASE SignOut
  <2> DEFINE a == [access EXCEPT !.session = NoUser, !.stored = NoUser,
                                 !.status = "unauthenticated"]
  <2>1. access' = Gated(a) BY <1>3 DEF SignOut
  <2>2. SessionSound(a) BY <1>a DEF SessionSound, AccessState
  <2> HIDE DEF a
  <2> QED BY <1>g, <2>1, <2>2
<1>4. ASSUME NEW page \in Locations, NavigateTo(page)
      PROVE  AccessInv'
  <2>1. access' = [access EXCEPT !.going = page] BY <1>4 DEF NavigateTo
  <2>2. access' \in AccessState BY <1>a, <2>1 DEF AccessState
  <2>3. /\ access'.status = access.status /\ access'.session = access.session
        /\ access'.stored = access.stored /\ access'.page = access.page
        /\ access'.loading = access.loading /\ access'.record = access.record
    BY <1>a, <2>1 DEF AccessState
  <2>4. SessionSound(access') BY <1>a, <2>2, <2>3 DEF SessionSound
  <2>5. GateOpen(access') <=> GateOpen(access) BY <2>3 DEF GateOpen
  <2>6. ClaimSound(access') BY <1>a, <2>3, <2>5, Zenon DEF ClaimSound
  <2> QED BY <2>4, <2>6 DEF AccessInv
<1>5. ASSUME NEW page \in Locations, ArriveAt(page)
      PROVE  AccessInv'
  <2> DEFINE there == [access EXCEPT !.page = page, !.going = "none"]
  <2>1. access' = IF page = access.page THEN there ELSE Gated(there)
    BY <1>5 DEF ArriveAt
  <2>2. SessionSound(there) BY <1>a DEF SessionSound, AccessState
  <2>3. CASE page = access.page
    <3>1. access' = there BY <2>1, <2>3
    <3>2. /\ there.page = access.page /\ there.status = access.status
          /\ there.loading = access.loading /\ there.record = access.record
      BY <1>a, <2>3 DEF AccessState
    <3> HIDE DEF there
    <3>3. GateOpen(there) <=> GateOpen(access) BY <3>2 DEF GateOpen
    <3>4. ClaimSound(there) BY <1>a, <3>2, <3>3, Zenon DEF ClaimSound
    <3> QED BY <2>2, <3>1, <3>4 DEF AccessInv
  <2>4. CASE page # access.page
    <3>1. access' = Gated(there) BY <2>1, <2>4
    <3> HIDE DEF there
    <3> QED BY <1>g, <2>2, <3>1
  <2> QED BY <2>3, <2>4
<1>6. ASSUME NEW id \in ClaimIds, ClaimLoaded(id)
      PROVE  AccessInv'
  <2> DEFINE r == IF id \in Claims THEN id ELSE "none"
  <2>1. access' = [access EXCEPT !.loading = FALSE, !.record = r]
    BY <1>6 DEF ClaimLoaded
  <2>2. access.loading = TRUE /\ access.page = id BY <1>6, <1>a DEF ClaimLoaded, AccessState
  <2>3. r \in Claims \cup {"none"} /\ (r # "none" => r = id) /\ (r = "none" => id \notin Claims)
    BY AccessAssumption
  <2> HIDE DEF r
  <2>4. access' \in AccessState BY <1>a, <2>1, <2>3 DEF AccessState
  <2>5. /\ access'.status = access.status /\ access'.session = access.session
        /\ access'.stored = access.stored /\ access'.page = access.page
        /\ access'.loading = FALSE /\ access'.record = r
    BY <1>a, <2>1 DEF AccessState
  <2>6. SessionSound(access') BY <1>a, <2>4, <2>5 DEF SessionSound
  <2>7. GateOpen(access') BY <1>a, <2>2, <2>5 DEF GateOpen, ClaimSound
  <2>8. ClaimSound(access') BY <2>2, <2>3, <2>5, <2>7, Zenon DEF ClaimSound
  <2> QED BY <2>6, <2>8 DEF AccessInv
<1>7. CASE ReloadAccess
  <2>1. /\ access' \in AccessState
        /\ access'.status = "loading" /\ access'.session = NoUser
        /\ access'.loading = FALSE /\ access'.record = "none"
    BY <1>a, <1>7 DEF ReloadAccess, AccessMounted, AccessState
  <2>2. ~GateOpen(access') BY <2>1 DEF GateOpen
  <2>3. ClaimSound(access') BY <2>1, <2>2, Zenon DEF ClaimSound
  <2> QED BY <2>1, <2>3 DEF AccessInv, SessionSound
<1>8. CASE UNCHANGED access BY <1>a, <1>8 DEF AccessInv
<1> QED BY <1>1, <1>2, <1>3, <1>4, <1>5, <1>6, <1>7, <1>8 DEF AccessNext

\* What the screen says of a claim follows.
LEMMA AccessShows ==
  ASSUME AccessInv
  PROVE  ClaimShownByRight /\ SignedOutForGood
<1>1. /\ access \in AccessState
      /\ access.status = "authenticated" <=> access.session # NoUser
      /\ access.status = "unauthenticated" => access.stored = NoUser
  BY DEF AccessInv, SessionSound
<1>2. /\ access.loading = TRUE \/ access.record # "none" => GateOpen(access)
      /\ access.record # "none" => access.record = access.page
      /\ GateOpen(access) /\ access.loading # TRUE /\ access.record = "none"
           => access.page \notin Claims
  BY DEF AccessInv, ClaimSound
<1>3. access.loading \in BOOLEAN /\ access.page \in ClaimIds \cup {"home"}
      /\ access.status \in {"loading", "authenticated", "unauthenticated"}
  BY <1>1 DEF AccessState, Locations
<1>4. SignedOutForGood BY <1>1 DEF SignedOutForGood
<1>5. access.loading \/ access.record # "none" => GateOpen(access)
  BY <1>2, <1>3, Zenon
<1> DEFINE Rightful(s) ==
      /\ s \in ClaimIds => s = access.page /\ access.session # NoUser
      /\ s = "missing" => access.page \notin Claims
<1>6. Rightful(Screen) => ClaimShownByRight BY <1>5, Zenon DEF ClaimShownByRight
<1>7. CASE access.page = "home"
  <2>1. Screen = "home" BY <1>7, AccessAssumption DEF Screen, GateOpen
  <2> QED BY <1>4, <1>6, <2>1, AccessAssumption
<1>8. CASE access.page # "home" /\ access.status = "unauthenticated"
  <2>1. access.loading = FALSE BY <1>2, <1>3, <1>8 DEF GateOpen
  <2>2. Screen = "blank" BY <1>8, <2>1, AccessAssumption DEF Screen, GateOpen
  <2> QED BY <1>4, <1>6, <2>2, AccessAssumption
<1>9. CASE /\ access.page # "home" /\ access.status # "unauthenticated"
           /\ access.status = "loading" \/ access.loading = TRUE
  <2>1. Screen = "busy" BY <1>9, <1>3, AccessAssumption DEF Screen, GateOpen
  <2> QED BY <1>4, <1>6, <2>1, AccessAssumption
<1>10. CASE access.page # "home" /\ access.status = "authenticated" /\ access.loading # TRUE
  <2>1. GateOpen(access) /\ access.loading = FALSE BY <1>3, <1>10 DEF GateOpen
  <2>2. Screen = IF access.record = "none" THEN "missing" ELSE access.record
    BY <1>10, <2>1, AccessAssumption DEF Screen, GateOpen
  <2>3. Rightful(Screen)
    BY <1>1, <1>2, <1>3, <1>10, <2>1, <2>2, AccessAssumption
  <2> QED BY <1>4, <1>6, <2>3
<1> QED BY <1>3, <1>7, <1>8, <1>9, <1>10

-----------------------------------------------------------------------------
(* The checks of the type chosen.                                          *)

\* Either the checks shown are those of the type chosen, or its own are still
\* under way, started after all others.
Answered(form) ==
  IF form.timers = <<>> THEN form.checks = form.type /\ form.checking = FALSE
                        ELSE Last(form.timers) = form.type

\* A form to which that applies, or which shows no checks.
Checkable(form) ==
  /\ IsForm(form) /\ form.type \in ClaimTypes /\ form.timers \in Seq(ClaimTypes)
  /\ form.status = "success" \/ form.policy = NoPolicy \/ Answered(form)

\* The verdict on screen is then that of the type chosen.
LEMMA AnsweredIsRight == Checkable(claim) => ChecksComeRight
<1> SUFFICES ASSUME Checkable(claim), FormShown, CheckerShown(claim)
             PROVE  IF claim.timers = <<>>
                    THEN claim.checks = claim.type /\ Verdict = VerdictOf(claim.type)
                    ELSE Last(claim.timers) = claim.type
  BY DEF ChecksComeRight
<1>1. Answered(claim) /\ claim.type # NoChecks
  BY ClaimAssumption DEF Checkable, FormShown, CheckerShown, NoChecks
<1> QED BY <1>1 DEF Answered, Verdict

\* The checker's effect starts the checks of the type that is there.
LEMMA CheckedAnswers ==
  ASSUME NEW form, IsForm(form), form.type \in ClaimTypes,
         form.timers \in Seq(ClaimTypes)
  PROVE  Checkable(Checked(form))
<1>1. CASE CheckerShown(form)
  <2> DEFINE t == Append(form.timers, form.type)
  <2>1. Checked(form) = [form EXCEPT !.checking = TRUE, !.timers = t]
    BY <1>1 DEF Checked
  <2>2. t \in Seq(ClaimTypes) /\ t # <<>> /\ Last(t) = form.type BY DEF Last
  <2> HIDE DEF t
  <2> QED BY <2>1, <2>2 DEF IsForm, Checkable, Answered
<1>2. CASE ~CheckerShown(form)
  <2>1. form.policy = NoPolicy BY <1>2 DEF CheckerShown
  <2>2. <<>> \in Seq(ClaimTypes) OBVIOUS
  <2> QED BY <1>2, <2>1, <2>2 DEF Checked, IsForm, Checkable
<1> QED BY <1>1, <1>2

\* The eldest check that ends leaves the youngest last, or was it.
LEMMA YoungestStays ==
  ASSUME NEW t \in Seq(ClaimTypes), t # <<>>
  PROVE  /\ Tail(t) \in Seq(ClaimTypes)
         /\ IF Tail(t) = <<>> THEN Head(t) = Last(t) ELSE Last(Tail(t)) = Last(t)
<1> DEFINE r == Tail(t)
<1>1. /\ r \in Seq(ClaimTypes) /\ Len(r) = Len(t) - 1
      /\ \A i \in 1 .. Len(r) : r[i] = t[i + 1]
      /\ Head(t) = t[1] /\ Len(t) \in Nat \ {0}
  BY HeadTailProperties, EmptySeq
<1> HIDE DEF r
<1>2. r = <<>> <=> Len(r) = 0 BY <1>1, EmptySeq
<1>3. CASE Len(r) = 0
  <2>1. Head(t) = t[Len(t)]
    <3> DEFINE n == Len(t)
               h == Head(t)
    <3>1. n \in Nat /\ 0 = n - 1 /\ h = t[1] BY <1>1, <1>3
    <3> HIDE DEF n, h
    <3>2. n = 1 BY <3>1
    <3>3. h = t[n] BY <3>1, <3>2
    <3> QED BY <3>3 DEF n, h
  <2> QED BY <1>1, <1>2, <1>3, <2>1 DEF Last, r
<1>4. CASE Len(r) # 0
  <2>1. r[Len(r)] = t[Len(t)]
    <3>1. Len(r) \in 1 .. Len(r) /\ Len(r) + 1 = Len(t) BY <1>1, <1>4
    <3> QED BY <1>1, <3>1
  <2> QED BY <1>1, <1>2, <1>4, <2>1 DEF Last, r
<1> QED BY <1>3, <1>4

\* Each operation of the form keeps it, whenever its checks are answered.
LEMMA ChecksStep ==
  ASSUME Checkable(claim), OneClaimAtATime, [ClaimNext]_claim
  PROVE  Checkable(claim')
<1> USE DEF Checkable
<1>1. ASSUME NEW policy, EnterPolicy(policy)
      PROVE  Checkable(claim')
  <2> DEFINE form == [claim EXCEPT !.policy = policy]
  <2>1. IsForm(form) /\ form.type \in ClaimTypes /\ form.timers \in Seq(ClaimTypes)
    BY DEF IsForm
  <2>2. claim' = Checked(form) BY <1>1 DEF EnterPolicy
  <2> HIDE DEF form, Checkable
  <2> QED BY <2>1, <2>2, CheckedAnswers
<1>2. ASSUME NEW type \in ClaimTypes, ChooseType(type)
      PROVE  Checkable(claim')
  <2> DEFINE form == [claim EXCEPT !.type = type]
  <2>1. /\ IsForm(form) /\ form.type \in ClaimTypes /\ form.timers \in Seq(ClaimTypes)
        /\ form.policy = claim.policy
    BY DEF IsForm
  <2>2. CASE CheckerShown(claim)
    <3>1. claim' = Checked(form) BY <1>2, <2>2 DEF ChooseType
    <3> HIDE DEF form, Checkable
    <3> QED BY <2>1, <3>1, CheckedAnswers
  <2>3. CASE ~CheckerShown(claim)
    <3>1. claim' = form BY <1>2, <2>3 DEF ChooseType
    <3> HIDE DEF form
    <3> QED BY <2>1, <2>3, <3>1 DEF CheckerShown
  <2> QED BY <2>2, <2>3
<1>3. CASE ChecksAnswered
  <2> DEFINE t == Tail(claim.timers)
             c == Head(claim.timers)
  <2>1. claim' = [claim EXCEPT !.timers = t, !.checks = c, !.checking = FALSE]
    BY <1>3 DEF ChecksAnswered
  <2>2. claim.timers # <<>> BY <1>3 DEF ChecksAnswered
  <2>3. /\ t \in Seq(ClaimTypes)
        /\ IF t = <<>> THEN c = Last(claim.timers) ELSE Last(t) = Last(claim.timers)
    BY <2>2, YoungestStays
  <2> HIDE DEF t, c
  <2>4. /\ IsForm(claim') /\ claim'.type = claim.type /\ claim'.timers = t
        /\ claim'.checks = c /\ claim'.checking = FALSE
        /\ claim'.status = claim.status /\ claim'.policy = claim.policy
    BY <2>1 DEF IsForm
  <2> QED BY <2>2, <2>3, <2>4 DEF Answered
<1>4. CASE \/ \E complete \in BOOLEAN : CompleteFields(complete)
           \/ AddEvidence \/ RemoveEvidence \/ TogglePreview
  <2>1. \/ \E c : claim' = [claim EXCEPT !.complete = c]
        \/ \E e : claim' = [claim EXCEPT !.evidence = e]
        \/ \E p : claim' = [claim EXCEPT !.preview = p]
    BY <1>4 DEF CompleteFields, AddEvidence, RemoveEvidence, TogglePreview
  <2>2. /\ IsForm(claim') /\ claim'.type = claim.type /\ claim'.timers = claim.timers
        /\ claim'.checks = claim.checks /\ claim'.checking = claim.checking
        /\ claim'.status = claim.status /\ claim'.policy = claim.policy
    BY <2>1 DEF IsForm
  <2> QED BY <2>2 DEF Answered
<1>5. CASE SubmitClaim
  <2>1. PICK n : claim' = [claim EXCEPT !.status = "loading", !.failed = FALSE,
                                        !.requests = n]
    BY <1>5 DEF SubmitClaim
  <2>2. claim.status # "success" BY <1>5 DEF SubmitClaim, FormShown
  <2> QED BY <2>1, <2>2 DEF IsForm, Answered
<1>6. CASE ClaimAccepted
  <2>1. PICK n : claim' = [claim EXCEPT !.status = "success", !.requests = n,
                         !.checks = NoChecks, !.checking = TRUE, !.timers = <<>>]
    BY <1>6 DEF ClaimAccepted
  <2>2. <<>> \in Seq(ClaimTypes) OBVIOUS
  <2> QED BY <2>1, <2>2 DEF IsForm
<1>7. CASE ClaimRejected
  <2>1. PICK n : claim' = [claim EXCEPT !.status = "idle", !.failed = TRUE, !.requests = n]
    BY <1>7 DEF ClaimRejected
  <2>2. claim.status # "success" BY <1>7 DEF ClaimRejected, OneClaimAtATime
  <2> QED BY <2>1, <2>2 DEF IsForm, Answered
<1>8. CASE UNCHANGED claim BY <1>8 DEF IsForm, Answered
<1> QED BY <1>1, <1>2, <1>3, <1>4, <1>5, <1>6, <1>7, <1>8 DEF ClaimNext

-----------------------------------------------------------------------------
(* What is on screen.                                                      *)

\* The parts of what is on screen, with what their steps need.
ScreenInv ==
  /\ DetailInv /\ ListedErrorsAreTrue
  /\ HeaderInv
  /\ GuardInv
  /\ Checkable(claim)
  /\ AccessInv

\* Every page begins so.
LEMMA ScreenInit == FrontendInit => ScreenInv
<1> SUFFICES ASSUME FrontendInit PROVE ScreenInv OBVIOUS
<1>1. DetailInv BY DetailInitInv DEF FrontendInit
<1>2. ListedErrorsAreTrue
  BY DEF FrontendInit, DetailInit, DetailMounted, ListedErrorsAreTrue
<1>3. HeaderInv
  <2>1. header = HeaderMounted BY DEF FrontendInit
  <2> HIDE DEF Mock
  <2> QED BY <2>1 DEF HeaderMounted, HeaderInv, IsHeader, BellInSync
<1>4. GuardInv
  BY HooksAssumption
     DEF FrontendInit, GuardMounted, GuardInv, GuardState, DialogIsTrue
<1>5. Checkable(claim)
  <2>1. claim = ClaimMounted BY DEF FrontendInit
  <2>2. <<>> \in Seq(ClaimTypes) OBVIOUS
  <2> QED BY <2>1, <2>2, ClaimAssumption DEF ClaimMounted, Checkable, IsForm
<1>6. AccessInv
  <2>1. access = [status |-> "unauthenticated", session |-> NoUser, stored |-> NoUser,
                  page |-> "home", going |-> "none", loading |-> FALSE, record |-> "none"]
    BY DEF FrontendInit, AccessOpened, AccessMounted
  <2>2. access \in AccessState BY <2>1 DEF AccessState, Locations
  <2>3. ~GateOpen(access) BY <2>1 DEF GateOpen
  <2>4. SessionSound(access) BY <2>1, <2>2 DEF SessionSound
  <2>5. ClaimSound(access) BY <2>1, <2>3 DEF ClaimSound
  <2> QED BY <2>4, <2>5 DEF AccessInv
<1> QED BY <1>1, <1>2, <1>3, <1>4, <1>5, <1>6 DEF ScreenInv

\* In every order of answers, timers, windows and navigations.
THEOREM ScreenCorrect == FrontendSpec => []ScreenIsTrue
<1>1. ScreenInv /\ OneClaimAtATime /\ [FrontendNext]_vars => ScreenInv'
  <2> SUFFICES ASSUME ScreenInv, OneClaimAtATime, [FrontendNext]_vars
               PROVE  ScreenInv'
    OBVIOUS
  <2>1. /\ [DetailNext]_detail /\ [ClaimNext]_claim /\ [HeaderNext]_header
        /\ [GuardNext]_guard /\ [AccessNext]_access
    BY PartSteps
  <2> QED BY <2>1, DetailStep, ErrorsStep, HeaderStep, GuardStep, ChecksStep, AccessStep
          DEF ScreenInv
<1>2. ScreenInv => /\ ListedErrorsAreTrue /\ ChecksComeRight /\ BellInSync
                   /\ DialogIsTrue /\ ClaimShownByRight
  BY AnsweredIsRight, AccessShows DEF ScreenInv, HeaderInv, GuardInv
<1> QED BY <1>1, <1>2, ScreenInit, ClaimSafe, OutageAlwaysKnown, AddressNamesFilters, PTL
        DEF FrontendSpec, ScreenIsTrue

-----------------------------------------------------------------------------
(* What a filter keeps.                                                    *)

\* One step of keeping, as a function.
Keeping(B, S) ==
  [p \in Seq(B) \X B |-> IF p[2] \in S THEN Append(p[1], p[2]) ELSE p[1]]

\* The table that the library's fold is made with.
KeptTable(g, list, S) ==
  g = [T \in SUBSET DOMAIN list |->
         IF T = {} THEN <<>>
         ELSE IF list[Max(T)] \in S THEN Append(g[T \ {Max(T)}], list[Max(T)])
              ELSE g[T \ {Max(T)}]]

\* The library's fold, written out.
LEMMA KeptUnfolded ==
  ASSUME NEW list, NEW S
  PROVE  Kept(list, S) = (CHOOSE g : KeptTable(g, list, S))[DOMAIN list]
BY Zenon DEF Kept, FoldLeft, MapThenFoldSet, KeptTable

\* A run of such steps over the list, that ends with `kept'.
KeptRun(r, list, S, B, kept) ==
  /\ r \in [0..Len(list) -> Seq(B)]
  /\ r[0] = <<>> /\ r[Len(list)] = kept
  /\ \A i \in 1..Len(list) :
       r[i] = IF list[i] \in S THEN Append(r[i - 1], list[i]) ELSE r[i - 1]

\* What is kept of a list is the last of a run of steps, one for each element.
LEMMA KeptRuns ==
  ASSUME NEW B, NEW list \in Seq(B), NEW S
  PROVE  \E r : KeptRun(r, list, S, B, Kept(list, S))
<1> DEFINE A == Seq(B)
           e == <<>>
           o == Keeping(B, S)
           D == DOMAIN list
           n == Len(list)
<1>1. /\ o \in [A \X B -> A]
      /\ \A k \in A, x \in B :
           o[<<k, x>>] = IF x \in S THEN Append(k, x) ELSE k
  BY DEF Keeping
<1>2. n \in Nat /\ D = 1..n /\ list \in [D -> B]
  <2>1. n \in Nat BY LenProperties
  <2>2. list \in [1..n -> B] BY LenProperties
  <2>3. D = 1..n BY LenProperties
  <2> HIDE DEF n, D, A
  <2> QED BY <2>1, <2>2, <2>3
<1>4. e \in A BY EmptySeq
<1> HIDE DEF A, e, o, D, n
<1>3. D \in SUBSET Int /\ IsFiniteSet(D) BY <1>2, FS_Interval
<1>5. ASSUME NEW g, NEW T \in SUBSET D, T # {}
      PROVE  Max(T) \in D /\ list[Max(T)] \in B
  BY <1>2, <1>3, <1>5, GreatestRest
\* A table of one is, on lists, a table of the other.
<1>6. \E g : KeptTable(g, list, S)
  <2>1. PICK g : FoldTable(g, o, e, list, D) BY <1>3, FoldsExist
  <2>2. FoldValues(g, o, e, list, D) BY <2>1, FoldAt
  <2>3. \A T \in SUBSET D : g[T] \in A
    <3>1. g[{}] = e BY <2>2 DEF FoldValues
    <3>2. FoldWithin(g, o, e, list, D, A)
      BY <2>2, <3>1 DEF FoldValues, FoldWithin
    <3>3. Folded(g, D, A) BY <1>1, <1>2, <1>3, <1>4, <3>2, FoldTyped
    <3> QED BY <3>3 DEF Folded
  <2> DEFINE Old(T) == IF T = {} THEN e ELSE o[<<g[T \ {Max(T)}], list[Max(T)]>>]
             New(T) == IF T = {} THEN e
                       ELSE IF list[Max(T)] \in S
                            THEN Append(g[T \ {Max(T)}], list[Max(T)])
                            ELSE g[T \ {Max(T)}]
  <2>4. ASSUME NEW T \in SUBSET D PROVE Old(T) = New(T)
    <3>1. CASE T = {} BY <3>1
    <3>2. CASE T # {}
      <4> DEFINE k == g[T \ {Max(T)}]
                 x == list[Max(T)]
      <4>1. k \in A /\ x \in B BY <1>5, <2>3, <3>2
      <4> HIDE DEF k, x
      <4>2. o[<<k, x>>] = IF x \in S THEN Append(k, x) ELSE k BY <1>1, <4>1
      <4> QED BY <3>2, <4>2 DEF k, x
    <3> QED BY <3>1, <3>2
  <2>5. g = [T \in SUBSET D |-> Old(T)] BY <2>1, Zenon DEF FoldTable
  <2> HIDE DEF Old, New
  <2>6. g = [T \in SUBSET D |-> New(T)] BY <2>4, <2>5, Zenon
  <2> QED BY <2>6, Zenon DEF KeptTable, New, D, e
<1> DEFINE g == CHOOSE h : KeptTable(h, list, S)
<1>7. KeptTable(g, list, S) BY <1>6
<1>8. Kept(list, S) = g[D] BY KeptUnfolded DEF D
<1> HIDE DEF g
<1>9. g[{}] = e BY <1>7 DEF KeptTable, e
<1>10. ASSUME NEW T \in SUBSET D, T # {}, g[T \ {Max(T)}] \in A
       PROVE  g[T] = o[<<g[T \ {Max(T)}], list[Max(T)]>>]
  <2> DEFINE k == g[T \ {Max(T)}]
             x == list[Max(T)]
  <2>1. g[T] = IF x \in S THEN Append(k, x) ELSE k
    BY <1>7, <1>10, Zenon DEF KeptTable, D
  <2>2. k \in A /\ x \in B BY <1>5, <1>10
  <2> HIDE DEF k, x
  <2>3. o[<<k, x>>] = IF x \in S THEN Append(k, x) ELSE k BY <1>1, <2>2
  <2> QED BY <2>1, <2>3 DEF k, x
<1>11. Folded(g, D, A) /\ FoldValues(g, o, e, list, D)
  <2>1. FoldWithin(g, o, e, list, D, A) BY <1>9, <1>10 DEF FoldWithin
  <2> QED BY <1>1, <1>2, <1>3, <1>4, <2>1, FoldTyped
<1>12. PICK r : FoldRun(r, o, e, list, n, A) /\ r[n] = g[1..n]
  <2>1. FoldValues(g, o, e, list, 1..n) /\ Folded(g, 1..n, A) BY <1>2, <1>11
  <2> QED BY <1>2, <2>1, FoldRuns
<1>13. ASSUME NEW i \in 1..n
       PROVE  r[i] = IF list[i] \in S THEN Append(r[i - 1], list[i]) ELSE r[i - 1]
  <2>1. i - 1 \in 0..n /\ list[i] \in B
    <3>1. i \in D /\ n \in Nat BY <1>2
    <3> QED BY <1>2, <3>1
  <2>2. r[i - 1] \in A /\ r[i] = o[<<r[i - 1], list[i]>>] BY <1>12, <2>1 DEF FoldRun
  <2> QED BY <1>1, <2>1, <2>2
<1>14. r[n] = Kept(list, S) BY <1>2, <1>8, <1>12
<1>15. KeptRun(r, list, S, B, Kept(list, S))
  BY <1>12, <1>13, <1>14 DEF KeptRun, FoldRun, n, A, e
<1> QED BY <1>15

\* The list `kept' holds what passes among the first i elements, from the
\* places m, in their order.
KeptFrom(kept, list, S, i, m) ==
  /\ m \in [1..Len(kept) -> 1..i]
  /\ \A j \in 1..Len(kept) : kept[j] = list[m[j]] /\ list[m[j]] \in S
  /\ \A j, k \in 1..Len(kept) : j < k => m[j] < m[k]
  /\ \A p \in 1..i : list[p] \in S => \E j \in 1..Len(kept) : m[j] = p

\* One more element is at the end or is left out.
LEMMA KeptFurther ==
  ASSUME NEW B, NEW list \in Seq(B), NEW S, NEW i \in 1..Len(list),
         NEW kept \in Seq(B), NEW m, KeptFrom(kept, list, S, i - 1, m)
  PROVE  \E q : KeptFrom(IF list[i] \in S THEN Append(kept, list[i]) ELSE kept,
                         list, S, i, q)
<1> DEFINE n == Len(kept)
<1>1. n \in Nat /\ i \in Nat /\ i > 0 /\ list[i] \in B
  <2>1. Len(list) \in Nat BY LenProperties
  <2> QED BY <2>1
<1>2. CASE list[i] \in S
  <2> DEFINE a == Append(kept, list[i])
             q == [j \in 1..(n + 1) |-> IF j = n + 1 THEN i ELSE m[j]]
  <2>1. /\ Len(a) = n + 1 /\ a[n + 1] = list[i]
        /\ \A j \in 1..n : a[j] = kept[j]
    BY <1>1
  <2>m. \A j \in 1..n : m[j] \in 1..(i - 1) BY DEF KeptFrom
  <2> HIDE DEF a, n
  <2>2. \A j \in 1..(n + 1) : q[j] = IF j = n + 1 THEN i ELSE m[j] OBVIOUS
  <2>3. q \in [1..(n + 1) -> 1..i] BY <1>1, <2>m
  <2> HIDE DEF q
  <2>4. \A j \in 1..(n + 1) : a[j] = list[q[j]] /\ list[q[j]] \in S
    <3>1. \A j \in 1..n : kept[j] = list[m[j]] /\ list[m[j]] \in S BY DEF KeptFrom, n
    <3> QED BY <1>1, <1>2, <2>1, <2>2, <3>1
  <2>5. \A j, k \in 1..(n + 1) : j < k => q[j] < q[k]
    <3>1. \A j, k \in 1..n : j < k => m[j] < m[k] BY DEF KeptFrom, n
    <3> QED BY <1>1, <2>m, <2>2, <3>1
  <2>6. ASSUME NEW p \in 1..i, list[p] \in S
        PROVE  \E j \in 1..(n + 1) : q[j] = p
    <3>1. CASE p = i BY <1>1, <2>2, <3>1
    <3>2. CASE p # i
      <4>1. p \in 1..(i - 1) BY <1>1, <3>2
      <4>2. PICK j \in 1..n : m[j] = p BY <2>6, <4>1 DEF KeptFrom, n
      <4> QED BY <1>1, <2>2, <4>2
    <3> QED BY <3>1, <3>2
  <2>7. KeptFrom(a, list, S, i, q) BY <2>1, <2>3, <2>4, <2>5, <2>6 DEF KeptFrom
  <2> QED BY <1>2, <2>7 DEF a
<1>3. CASE list[i] \notin S
  <2>1. m \in [1..n -> 1..i]
    <3>1. m \in [1..n -> 1..(i - 1)] BY DEF KeptFrom
    <3> HIDE DEF n
    <3> QED BY <1>1, <3>1
  <2>2. ASSUME NEW p \in 1..i, list[p] \in S
        PROVE  \E j \in 1..n : m[j] = p
    <3>1. p \in 1..(i - 1) BY <1>1, <1>3, <2>2
    <3> QED BY <2>2, <3>1 DEF KeptFrom
  <2>3. KeptFrom(kept, list, S, i, m) BY <2>1, <2>2 DEF KeptFrom
  <2> QED BY <1>3, <2>3
<1> QED BY <1>2, <1>3

\* What is kept of a list: exactly what passes, in its order, each element of
\* it once for every place it had.
LEMMA KeptInOrder ==
  ASSUME NEW B, NEW list \in Seq(B), NEW S
  PROVE  /\ Kept(list, S) \in Seq(B)
         /\ \E m : KeptFrom(Kept(list, S), list, S, Len(list), m)
<1> DEFINE n == Len(list)
           A == Seq(B)
           k == Kept(list, S)
<1>1. n \in Nat BY LenProperties
<1>r. PICK r : KeptRun(r, list, S, B, k) BY KeptRuns
<1>2. /\ r \in [0..n -> A] /\ r[0] = <<>> /\ r[n] = k
      /\ \A i \in 1..n :
           r[i] = IF list[i] \in S THEN Append(r[i - 1], list[i]) ELSE r[i - 1]
  BY <1>r DEF KeptRun
<1> DEFINE Sound(i) == \E m : KeptFrom(r[i], list, S, i, m)
           G == {i \in 0..n : Sound(i)}
<1>3. Sound(0)
  <2> DEFINE e == <<>>
             none == [j \in 1..0 |-> j]
  <2>1. Len(e) = 0 /\ none \in [1..0 -> 1..0] /\ 1..0 = {} BY EmptySeq
  <2> HIDE DEF e, none
  <2>2. KeptFrom(e, list, S, 0, none) BY <2>1 DEF KeptFrom
  <2> QED BY <1>2, <2>2 DEF e
<1>4. ASSUME NEW i \in 1..n, Sound(i - 1)
      PROVE  Sound(i)
  <2>1. r[i - 1] \in A BY <1>1, <1>2
  <2>2. PICK m : KeptFrom(r[i - 1], list, S, i - 1, m) BY <1>4
  <2>3. \E q : KeptFrom(IF list[i] \in S THEN Append(r[i - 1], list[i]) ELSE r[i - 1],
                        list, S, i, q)
    BY <2>1, <2>2, KeptFurther
  <2> QED BY <1>2, <2>3
<1> HIDE DEF Sound, n, A, k
<1>5. \A i \in 0..n : i \in G
  <2>1. 0 \in G BY <1>1, <1>3
  <2>2. \A i \in 1..n : i - 1 \in G => i \in G BY <1>1, <1>4
  <2> HIDE DEF G
  <2> QED BY <1>1, <2>1, <2>2, UpTo
<1>6. Sound(n) /\ k \in A BY <1>1, <1>2, <1>5
<1> QED BY <1>2, <1>6 DEF Sound, n, A, k

-----------------------------------------------------------------------------
(* The address book.                                                       *)

\* A list of the book: no id and no address is in it twice.
Distinct(entries) ==
  /\ entries \in Seq(Entry)
  /\ \A i, j \in DOMAIN entries :
       entries[i].id = entries[j].id \/ entries[i].address = entries[j].address => i = j

\* A record with the fields of a closed book, whatever they hold.
IsBook(b) ==
  b = [open |-> b.open, entries |-> b.entries, formOpen |-> b.formOpen, draft |-> b.draft]

\* What is so in every window: the form is open in an open book alone.
BookSound(b) ==
  /\ IsBook(b) /\ Distinct(b.entries)
  /\ b.formOpen = TRUE => b.open = TRUE
  /\ b.open \in BOOLEAN /\ b.formOpen \in BOOLEAN
  /\ b.draft \in [id : EntryIds \cup {0}, address : Addresses \cup {BadAddress}]

\* What every step of the book preserves, in every window and in the storage.
BookInv ==
  /\ book = [stored |-> book.stored, at |-> book.at]
  /\ DOMAIN book.at = Windows
  /\ \A w \in Windows : BookSound(book.at[w])
  /\ Distinct(book.stored)

\* A window's book after a step, by what was in its form.
BookSaves(b, c) ==
  b.formOpen = TRUE /\ c.entries # b.entries /\ c.formOpen = FALSE /\ c.open = TRUE
    => \E e \in ToSet(c.entries) : e.address = b.draft.address

\* Elements of a list.
LEMMA Elements ==
  ASSUME NEW entries, Distinct(entries)
  PROVE  /\ entries \in Seq(Entry) /\ Len(entries) \in Nat
         /\ DOMAIN entries = 1..Len(entries)
         /\ entries \in [1..Len(entries) -> Entry]
         /\ \A i \in 1..Len(entries) :
              /\ entries[i] \in Entry /\ entries[i] \in ToSet(entries)
              /\ entries[i].id \in IdsOf(entries)
         /\ \A e \in ToSet(entries) : \E i \in 1..Len(entries) : e = entries[i]
<1>1. entries \in Seq(Entry) BY DEF Distinct
<1>2. Len(entries) \in Nat /\ DOMAIN entries = 1..Len(entries) BY <1>1
<1>3. entries \in [1..Len(entries) -> Entry] BY <1>1, LenProperties
<1>4. ToSet(entries) = {entries[i] : i \in 1..Len(entries)} BY <1>2 DEF ToSet
<1> QED BY <1>1, <1>2, <1>3, <1>4 DEF IdsOf

\* Where one window's book is replaced by a sound one, and the storage is as it
\* was or as that book.
LEMMA BookChanges ==
  ASSUME BookInv, NEW w \in Windows, NEW new, BookSound(new),
         BookSaves(book.at[w], new), EntriesChange(w, new)
  PROVE  BookInv' /\ \A v \in Windows : BookSaves(book.at[v], book'.at[v])
<1> DEFINE a == [book.at EXCEPT ![w] = new]
<1>1. PICK s \in {book.stored, new.entries} : book' = [stored |-> s, at |-> a]
  <2>1. CASE InBook(w, new)
    <3>1. book' = [book EXCEPT !.at = a] BY <2>1 DEF InBook
    <3>2. book = [stored |-> book.stored, at |-> book.at] BY DEF BookInv
    <3> HIDE DEF a
    <3>3. book' = [stored |-> book.stored, at |-> a] BY <3>1, <3>2
    <3> QED BY <3>3
  <2>2. CASE ~InBook(w, new)
    <3> DEFINE t == new.entries
    <3>1. book' = [book EXCEPT !.at = a, !.stored = t] BY <2>2 DEF EntriesChange
    <3>2. book = [stored |-> book.stored, at |-> book.at] BY DEF BookInv
    <3> HIDE DEF a, t
    <3>3. book' = [stored |-> t, at |-> a] BY <3>1, <3>2
    <3> QED BY <3>3 DEF t
  <2> QED BY <2>1, <2>2
<1>2. DOMAIN a = Windows /\ \A v \in Windows : a[v] = IF v = w THEN new ELSE book.at[v]
  BY DEF BookInv
<1> HIDE DEF a
<1>3. Distinct(s) BY <1>1 DEF BookInv, BookSound
<1>4. \A v \in Windows : BookSound(a[v]) BY <1>2 DEF BookInv
<1>5. book'.stored = s /\ book'.at = a BY <1>1
<1>6. BookInv' BY <1>1, <1>2, <1>3, <1>4, <1>5 DEF BookInv
<1>7. ASSUME NEW v \in Windows
      PROVE  BookSaves(book.at[v], book'.at[v])
  <2>1. CASE v = w BY <1>2, <1>5, <2>1
  <2>2. CASE v # w BY <1>2, <1>5, <2>2 DEF BookSaves
  <2> QED BY <2>1, <2>2
<1> QED BY <1>6, <1>7

\* A form that is accepted adds an address that is not there, or writes it to
\* the one entry that is edited.
LEMMA SubmittedSound ==
  ASSUME NEW b, BookSound(b), Acceptable(b)
  PROVE  LET s == Submitted(b.entries, b.draft)
         IN  /\ Distinct(s)
             /\ s # b.entries => \E e \in ToSet(s) : e.address = b.draft.address
<1> DEFINE l == b.entries
           d == b.draft
           n == Len(l)
           s == Submitted(l, d)
<1>1. /\ l \in Seq(Entry) /\ n \in Nat /\ DOMAIN l = 1..n /\ l \in [1..n -> Entry]
      /\ \A i \in 1..n : l[i] \in Entry /\ l[i] \in ToSet(l) /\ l[i].id \in IdsOf(l)
  BY Elements DEF BookSound
<1>2. \A i, j \in 1..n : l[i].id = l[j].id \/ l[i].address = l[j].address => i = j
  BY <1>1 DEF BookSound, Distinct
<1>3. /\ d.id \in EntryIds \cup {0} /\ d.address \in Addresses
      /\ d = [id |-> d.id, address |-> d.address]
      /\ \A i \in 1..n : l[i].address = d.address => l[i].id = d.id
      /\ d.id = 0 => IdsOf(l) # EntryIds
  <2>1. d \in [id : EntryIds \cup {0}, address : Addresses \cup {BadAddress}]
    BY DEF BookSound
  <2> QED BY <1>1, <2>1 DEF Acceptable, Duplicate
<1>4. CASE d.id # 0
  <2>1. d \in Entry BY <1>3, <1>4 DEF Entry
  <2>2. s = [i \in 1..n |-> IF l[i].id = d.id THEN d ELSE l[i]]
    BY <1>1, <1>4 DEF Submitted
  <2> HIDE DEF l, d, n, s
  <2>3. /\ DOMAIN s = 1..n
        /\ \A i \in 1..n : s[i] = IF l[i].id = d.id THEN d ELSE l[i]
    BY <2>2
  <2>4. s \in Seq(Entry)
    <3>1. \A i \in 1..n : s[i] \in Entry BY <1>1, <2>1, <2>3
    <3>2. s \in [1..n -> Entry] BY <2>2, <2>3, <3>1
    <3> QED BY <1>1, <3>2
  <2>5. ASSUME NEW i \in 1..n, NEW j \in 1..n,
               s[i].id = s[j].id \/ s[i].address = s[j].address
        PROVE  i = j
    BY <1>2, <1>3, <2>3, <2>5
  <2>6. Distinct(s) BY <2>3, <2>4, <2>5 DEF Distinct
  <2>7. ASSUME s # l
        PROVE  \E e \in ToSet(s) : e.address = d.address
    <3>1. PICK i \in 1..n : l[i].id = d.id
      <4>1. CASE \A i \in 1..n : l[i].id # d.id
        <5>1. \A i \in 1..n : s[i] = l[i] BY <2>3, <4>1
        <5>2. s = l BY <1>1, <2>2, <2>3, <5>1
        <5> QED BY <2>7, <5>2
      <4> QED BY <4>1
    <3>2. s[i] = d BY <2>3, <3>1
    <3>3. s[i] \in ToSet(s) BY <2>3 DEF ToSet
    <3> QED BY <3>2, <3>3
  <2> QED BY <2>6, <2>7 DEF l, d, s
<1>5. CASE d.id = 0
  <2> DEFINE new == CHOOSE id \in EntryIds : id \notin IdsOf(l)
             e == [d EXCEPT !.id = new]
  <2>1. s = Append(l, e) BY <1>5 DEF Submitted
  <2>2. new \in EntryIds /\ new \notin IdsOf(l)
    <3>1. IdsOf(l) \subseteq EntryIds
      <4>1. \A f \in ToSet(l) : f.id \in EntryIds
        <5>1. \A f \in ToSet(l) : \E i \in 1..n : f = l[i] BY Elements DEF BookSound
        <5> QED BY <1>1, <5>1 DEF Entry
      <4> QED BY <4>1 DEF IdsOf
    <3>2. \E id \in EntryIds : id \notin IdsOf(l) BY <1>3, <1>5, <3>1
    <3> HIDE DEF l
    <3> QED BY <3>2
  <2> HIDE DEF new
  <2>3. e \in Entry /\ e.id = new /\ e.address = d.address
    <3> HIDE DEF d
    <3>1. e = [id |-> new, address |-> d.address] BY <1>3
    <3> QED BY <1>3, <2>2, <3>1 DEF Entry
  <2> HIDE DEF l, d, n, s, e
  <2>4. /\ s \in Seq(Entry) /\ DOMAIN s = 1..(n + 1) /\ s[n + 1] = e
        /\ \A i \in 1..n : s[i] = l[i]
    BY <1>1, <2>1, <2>3 DEF n
  <2>5. ASSUME NEW i \in 1..n
        PROVE  l[i].id # new /\ l[i].address # d.address
    <3>1. l[i].id \in EntryIds BY <1>1 DEF Entry
    <3> QED BY <1>1, <1>3, <1>5, <2>2, <3>1, SettingsAssumption
  <2>6. ASSUME NEW i \in 1..(n + 1), NEW j \in 1..(n + 1),
               s[i].id = s[j].id \/ s[i].address = s[j].address
        PROVE  i = j
    <3>1. CASE i \in 1..n /\ j \in 1..n BY <1>2, <2>4, <2>6, <3>1
    <3>2. CASE i \in 1..n /\ j = n + 1 BY <2>3, <2>4, <2>5, <2>6, <3>2
    <3>3. CASE j \in 1..n /\ i = n + 1 BY <2>3, <2>4, <2>5, <2>6, <3>3
    <3> QED BY <1>1, <3>1, <3>2, <3>3
  <2>7. Distinct(s) BY <2>4, <2>6 DEF Distinct
  <2>8. e \in ToSet(s)
    <3>1. n + 1 \in DOMAIN s BY <1>1, <2>4
    <3> QED BY <2>4, <3>1 DEF ToSet
  <2> QED BY <2>3, <2>7, <2>8 DEF l, d, s
<1> QED BY <1>4, <1>5

\* A change of one window's book that keeps its entries.
LEMMA EntriesStay ==
  ASSUME BookInv, NEW w \in Windows, NEW new, BookSound(new),
         new.entries = book.at[w].entries, InBook(w, new)
  PROVE  BookInv' /\ \A v \in Windows : BookSaves(book.at[v], book'.at[v])
<1>1. BookSaves(book.at[w], new) BY DEF BookSaves
<1>2. EntriesChange(w, new) BY DEF EntriesChange
<1> QED BY <1>1, <1>2, BookChanges

\* Each operation of a window keeps the book sound, and what its form saves is
\* listed.
LEMMA BookStep ==
  ASSUME BookInv, [BookNext]_book
  PROVE  BookInv' /\ \A v \in Windows : BookSaves(book.at[v], book'.at[v])
<1> DEFINE Goal == BookInv' /\ \A v \in Windows : BookSaves(book.at[v], book'.at[v])
           Drafts == [id : EntryIds \cup {0}, address : Addresses \cup {BadAddress}]
<1>e. EmptyDraft \in Drafts BY DEF EmptyDraft
<1>c. /\ IsBook(ClosedBook) /\ ClosedBook.entries = <<>> /\ ClosedBook.draft = EmptyDraft
      /\ ClosedBook.open = FALSE /\ ClosedBook.formOpen = FALSE
  BY DEF IsBook, ClosedBook
<1>0. Distinct(<<>>) BY DEF Distinct
<1> HIDE DEF Goal, Drafts
<1>1. ASSUME NEW w \in Windows, OpenBook(w)
      PROVE  Goal
  <2> DEFINE t == book.stored
             new == [ClosedBook EXCEPT !.open = TRUE, !.entries = t]
  <2>1. InBook(w, new) BY <1>1 DEF OpenBook
  <2>2. Distinct(t) BY DEF BookInv
  <2>3. ClosedBook = [open |-> FALSE, entries |-> <<>>, formOpen |-> FALSE,
                      draft |-> EmptyDraft]
    BY DEF ClosedBook
  <2> HIDE DEF t
  <2>4. new = [open |-> TRUE, entries |-> t, formOpen |-> FALSE, draft |-> EmptyDraft]
    <3> DEFINE yes == TRUE
               no == FALSE
               e == <<>>
               o == [ClosedBook EXCEPT !.open = yes]
    <3>1. ClosedBook = [open |-> no, entries |-> e, formOpen |-> no, draft |-> EmptyDraft]
      BY <2>3
    <3>2. new = [o EXCEPT !.entries = t] OBVIOUS
    <3> HIDE DEF yes, no, e, new
    <3>3. o = [open |-> yes, entries |-> e, formOpen |-> no, draft |-> EmptyDraft]
      BY <3>1
    <3> HIDE DEF o
    <3>4. new = [open |-> yes, entries |-> t, formOpen |-> no, draft |-> EmptyDraft]
      BY <3>2, <3>3
    <3> QED BY <3>4 DEF yes, no
  <2> HIDE DEF new
  <2>n. /\ new.open = TRUE /\ new.entries = t /\ new.formOpen = FALSE
        /\ new.draft = EmptyDraft /\ IsBook(new)
    BY <2>4 DEF IsBook
  <2>5. BookSound(new) BY <1>e, <2>2, <2>n DEF BookSound, Drafts
  <2>6. ~book.at[w].open BY <1>1 DEF OpenBook
  <2>7. BookSaves(book.at[w], new)
    <3>1. book.at[w].formOpen # TRUE
      <4>1. book.at[w].formOpen = TRUE => book.at[w].open = TRUE
        BY DEF BookInv, BookSound
      <4> QED BY <2>6, <4>1, Zenon
    <3> QED BY <3>1 DEF BookSaves
  <2>8. EntriesChange(w, new) BY <2>1 DEF EntriesChange
  <2> QED BY <2>5, <2>7, <2>8, BookChanges DEF Goal
<1>2. ASSUME NEW w \in Windows, CloseBook(w)
      PROVE  Goal
  <2> DEFINE new == ClosedBook
  <2>1. InBook(w, new) BY <1>2 DEF CloseBook
  <2>2. BookSound(new) BY <1>0, <1>c, <1>e DEF BookSound, Drafts
  <2>3. BookSaves(book.at[w], new) BY <1>c DEF BookSaves
  <2>4. EntriesChange(w, new) BY <2>1 DEF EntriesChange
  <2> QED BY <2>2, <2>3, <2>4, BookChanges DEF Goal
<1>3. ASSUME NEW w \in Windows, NEW form, NEW d \in Drafts,
             form = FALSE \/ (form = TRUE /\ book.at[w].open = TRUE),
             InBook(w, [book.at[w] EXCEPT !.formOpen = form, !.draft = d])
      PROVE  Goal
  <2> DEFINE b == book.at[w]
             new == [b EXCEPT !.formOpen = form, !.draft = d]
  <2>1. InBook(w, new) BY <1>3
  <2>2. BookSound(b) BY DEF BookInv
  <2> HIDE DEF b
  <2>3. b = [open |-> b.open, entries |-> b.entries, formOpen |-> b.formOpen,
             draft |-> b.draft]
    BY <2>2 DEF BookSound, IsBook
  <2>4. new = [open |-> b.open, entries |-> b.entries, formOpen |-> form, draft |-> d]
    <3> DEFINE f == [b EXCEPT !.formOpen = form]
    <3>1. f = [open |-> b.open, entries |-> b.entries, formOpen |-> form,
               draft |-> b.draft]
      BY <2>3
    <3>2. new = [f EXCEPT !.draft = d] OBVIOUS
    <3> HIDE DEF f, new
    <3> QED BY <3>1, <3>2
  <2> HIDE DEF new
  <2>5. /\ IsBook(new) /\ new.entries = b.entries /\ new.formOpen = form
        /\ new.open = b.open /\ new.draft = d
    BY <2>4 DEF IsBook
  <2>6. BookSound(new)
    <3>1. new.formOpen = TRUE => new.open = TRUE BY <1>3, <2>5 DEF b
    <3>2. new.open \in BOOLEAN /\ new.formOpen \in BOOLEAN /\ Distinct(new.entries)
      BY <1>3, <2>2, <2>5 DEF BookSound
    <3> QED BY <1>3, <2>5, <3>1, <3>2 DEF BookSound, Drafts
  <2> QED BY <2>1, <2>5, <2>6, EntriesStay DEF Goal, b
<1>4. ASSUME NEW w \in Windows, StartCreate(w) \/ StartEdit(w) \/ CancelDraft(w)
      PROVE  Goal
  <2>1. CASE StartCreate(w)
    <3>1. book.at[w].open BY <2>1 DEF StartCreate
    <3>2. book.at[w].open = TRUE
      <4>1. book.at[w].open \in BOOLEAN BY DEF BookInv, BookSound
      <4> QED BY <3>1, <4>1, Zenon
    <3>3. InBook(w, [book.at[w] EXCEPT !.formOpen = TRUE, !.draft = EmptyDraft])
      BY <2>1 DEF StartCreate
    <3> QED BY <1>3, <1>e, <3>2, <3>3
  <2>2. CASE StartEdit(w)
    <3>1. book.at[w].open BY <2>2 DEF StartEdit
    <3>2. book.at[w].open = TRUE
      <4>1. book.at[w].open \in BOOLEAN BY DEF BookInv, BookSound
      <4> QED BY <3>1, <4>1, Zenon
    <3>3. PICK e \in ToSet(book.at[w].entries) :
            InBook(w, [book.at[w] EXCEPT !.formOpen = TRUE, !.draft = e])
      BY <2>2 DEF StartEdit
    <3>4. e \in Drafts
      <4> DEFINE l == book.at[w].entries
      <4>0. Distinct(l) BY DEF BookInv, BookSound
      <4> HIDE DEF l
      <4>1. \E i \in 1..Len(l) : e = l[i] /\ l[i] \in Entry
        BY <3>3, <4>0, Elements DEF l
      <4> QED BY <4>1 DEF Entry, Drafts
    <3> QED BY <1>3, <3>2, <3>3, <3>4
  <2>3. CASE CancelDraft(w)
    <3>1. InBook(w, [book.at[w] EXCEPT !.formOpen = FALSE, !.draft = EmptyDraft])
      BY <2>3 DEF CancelDraft
    <3> QED BY <1>3, <1>e, <3>1
  <2> QED BY <1>4, <2>1, <2>2, <2>3
<1>5. ASSUME NEW w \in Windows, NEW a \in Addresses, EnterAddress(w, a)
      PROVE  Goal
  <2> DEFINE b == book.at[w]
             d == [b.draft EXCEPT !.address = a]
             new == [b EXCEPT !.draft = d]
  <2>1. InBook(w, new)
    <3>1. InBook(w, [b EXCEPT !.draft.address = a]) BY <1>5 DEF EnterAddress
    <3>2. [b EXCEPT !.draft.address = a] = [b EXCEPT !.draft = [b.draft EXCEPT !.address = a]]
      OBVIOUS
    <3> QED BY <3>1, <3>2
  <2>2. BookSound(b) BY DEF BookInv
  <2>3. d \in Drafts
    <3>1. b.draft \in Drafts BY <2>2 DEF BookSound, Drafts
    <3> DEFINE o == b.draft
    <3> HIDE DEF o, b
    <3> QED BY <3>1 DEF Drafts, o
  <2> HIDE DEF b, d
  <2>4. b = [open |-> b.open, entries |-> b.entries, formOpen |-> b.formOpen,
             draft |-> b.draft]
    BY <2>2 DEF BookSound, IsBook
  <2>5. new = [open |-> b.open, entries |-> b.entries, formOpen |-> b.formOpen, draft |-> d]
    BY <2>4
  <2> HIDE DEF new
  <2>6. /\ IsBook(new) /\ new.entries = b.entries /\ new.formOpen = b.formOpen
        /\ new.open = b.open /\ new.draft = d
    BY <2>5 DEF IsBook
  <2>7. BookSound(new) BY <2>2, <2>3, <2>6 DEF BookSound, Drafts
  <2> QED BY <2>1, <2>6, <2>7, EntriesStay DEF Goal, b
<1>6. ASSUME NEW w \in Windows, NEW l, Distinct(l), NEW form, NEW d \in Drafts,
             EntriesChange(w, [book.at[w] EXCEPT !.entries = l, !.formOpen = form,
                                                 !.draft = d]),
             form = FALSE,
             l # book.at[w].entries =>
               \E e \in ToSet(l) : e.address = book.at[w].draft.address
      PROVE  Goal
  <2> DEFINE b == book.at[w]
             new == [b EXCEPT !.entries = l, !.formOpen = form, !.draft = d]
  <2>1. EntriesChange(w, new) BY <1>6
  <2>2. BookSound(b) BY DEF BookInv
  <2>a. l # b.entries => \E e \in ToSet(l) : e.address = b.draft.address BY <1>6
  <2> HIDE DEF b
  <2>3. b = [open |-> b.open, entries |-> b.entries, formOpen |-> b.formOpen,
             draft |-> b.draft]
    BY <2>2 DEF BookSound, IsBook
  <2>4. new = [open |-> b.open, entries |-> l, formOpen |-> form, draft |-> d]
    <3> DEFINE e == [b EXCEPT !.entries = l]
               f == [e EXCEPT !.formOpen = form]
    <3>1. e = [open |-> b.open, entries |-> l, formOpen |-> b.formOpen, draft |-> b.draft]
      BY <2>3
    <3>2. new = [f EXCEPT !.draft = d] OBVIOUS
    <3> HIDE DEF e
    <3>3. f = [open |-> b.open, entries |-> l, formOpen |-> form, draft |-> b.draft]
      BY <3>1
    <3> HIDE DEF f, new
    <3> QED BY <3>2, <3>3
  <2> HIDE DEF new
  <2>5. /\ IsBook(new) /\ new.entries = l /\ new.formOpen = FALSE
        /\ new.open = b.open /\ new.draft = d
    BY <1>6, <2>4 DEF IsBook
  <2>6. BookSound(new) BY <1>6, <2>2, <2>5 DEF BookSound, Drafts
  <2>7. BookSaves(b, new) BY <2>a, <2>5 DEF BookSaves
  <2> QED BY <2>1, <2>6, <2>7, BookChanges DEF Goal, b
<1>7. ASSUME NEW w \in Windows, SubmitEntry(w)
      PROVE  Goal
  <2> DEFINE b == book.at[w]
             l == Submitted(b.entries, b.draft)
  <2>1. /\ Acceptable(b)
        /\ EntriesChange(w, [b EXCEPT !.entries = l, !.formOpen = FALSE,
                                      !.draft = EmptyDraft])
    BY <1>7 DEF SubmitEntry
  <2>2. BookSound(b) BY DEF BookInv
  <2>3. /\ Distinct(l)
        /\ l # b.entries => \E e \in ToSet(l) : e.address = b.draft.address
    <3> HIDE DEF b
    <3> QED BY <2>1, <2>2, SubmittedSound
  <2> HIDE DEF l
  <2> QED BY <1>6, <1>e, <2>1, <2>3
<1>8. ASSUME NEW w \in Windows, RemoveEntry(w)
      PROVE  Goal
  <2> DEFINE b == book.at[w]
  <2>1. PICK e : EntriesChange(w, [b EXCEPT !.entries = Kept(@, {f \in Entry : f.id # e.id})])
    BY <1>8 DEF RemoveEntry
  <2> DEFINE o == b.entries
             S == {f \in Entry : f.id # e.id}
             l == Kept(o, S)
             new == [b EXCEPT !.entries = l]
  <2>2. EntriesChange(w, new) BY <2>1
  <2>3. BookSound(b) BY DEF BookInv
  <2>4. /\ o \in Seq(Entry) /\ DOMAIN o = 1..Len(o)
        /\ \A i, j \in DOMAIN o : o[i].id = o[j].id \/ o[i].address = o[j].address => i = j
    BY <2>3 DEF BookSound, Distinct
  <2> HIDE DEF S, b, o
  <2>5. Distinct(l)
    <3>1. l \in Seq(Entry) BY <2>4, KeptInOrder
    <3>2. PICK m : KeptFrom(l, o, S, Len(o), m) BY <2>4, KeptInOrder
    <3> HIDE DEF l
    <3>3. /\ \A j \in 1..Len(l) : m[j] \in 1..Len(o) /\ l[j] = o[m[j]]
          /\ \A j, k \in 1..Len(l) : j < k => m[j] < m[k]
      BY <3>2 DEF KeptFrom
    <3>4. DOMAIN l = 1..Len(l) /\ Len(l) \in Nat BY <3>1
    <3>5. ASSUME NEW j \in 1..Len(l), NEW k \in 1..Len(l),
                 l[j].id = l[k].id \/ l[j].address = l[k].address
          PROVE  j = k
      <4>1. m[j] = m[k] BY <2>4, <3>3, <3>5
      <4>2. m[j] \in Int /\ Len(o) \in Nat
        <5>1. Len(o) \in Nat BY <2>4, LenProperties
        <5> QED BY <3>3, <5>1
      <4>3. ~(j < k) /\ ~(k < j)
        <5> DEFINE x == m[j]
                   y == m[k]
        <5>1. (j < k => x < y) /\ (k < j => y < x) /\ x = y /\ x \in Int
          BY <3>3, <4>1, <4>2
        <5> HIDE DEF x, y
        <5> QED BY <5>1
      <4> QED BY <3>4, <4>3
    <3> QED BY <3>1, <3>4, <3>5 DEF Distinct
  <2> HIDE DEF l
  <2>6. b = [open |-> b.open, entries |-> b.entries, formOpen |-> b.formOpen,
             draft |-> b.draft]
    BY <2>3 DEF BookSound, IsBook
  <2>7. new = [open |-> b.open, entries |-> l, formOpen |-> b.formOpen, draft |-> b.draft]
    BY <2>6
  <2> HIDE DEF new
  <2>8. /\ IsBook(new) /\ new.entries = l /\ new.formOpen = b.formOpen
        /\ new.open = b.open /\ new.draft = b.draft
    BY <2>7 DEF IsBook
  <2>9. BookSound(new) BY <2>3, <2>5, <2>8 DEF BookSound
  <2>10. BookSaves(b, new) BY <2>8 DEF BookSaves
  <2> QED BY <2>2, <2>9, <2>10, BookChanges DEF Goal, b
<1>9. ASSUME UNCHANGED book PROVE Goal
  <2>1. BookInv' BY <1>9 DEF BookInv
  <2>2. \A v \in Windows : BookSaves(book.at[v], book'.at[v]) BY <1>9 DEF BookSaves
  <2> QED BY <2>1, <2>2 DEF Goal
<1>10. \/ \E w \in Windows : OpenBook(w) \/ CloseBook(w)
       \/ \E w \in Windows : StartCreate(w) \/ StartEdit(w) \/ CancelDraft(w)
       \/ \E w \in Windows : \E a \in Addresses : EnterAddress(w, a)
       \/ \E w \in Windows : SubmitEntry(w) \/ RemoveEntry(w)
       \/ UNCHANGED book
  BY Zenon DEF BookNext
<1>11. Goal
  <2>1. CASE \E w \in Windows : OpenBook(w) \/ CloseBook(w) BY <1>1, <1>2, <2>1
  <2>2. CASE \E w \in Windows : StartCreate(w) \/ StartEdit(w) \/ CancelDraft(w)
    BY <1>4, <2>2
  <2>3. CASE \E w \in Windows : \E a \in Addresses : EnterAddress(w, a) BY <1>5, <2>3
  <2>4. CASE \E w \in Windows : SubmitEntry(w) \/ RemoveEntry(w) BY <1>7, <1>8, <2>4
  <2> QED BY <1>9, <1>10, <2>1, <2>2, <2>3, <2>4
<1> QED BY <1>11 DEF Goal

-----------------------------------------------------------------------------
(* The settings, and what is kept of edits.                                *)

\* A record with the fields of the settings, whatever they hold.
IsSettings(s) ==
  s = [tab |-> s.tab, form |-> s.form, saved |-> s.saved, captured |-> s.captured,
       loading |-> s.loading, status |-> s.status]

\* What every step of the settings preserves.
SettingsInv == IsSettings(settings) /\ settings.loading \in BOOLEAN

\* The end of a save leaves the form, and takes what it was started with for saved.
LEMMA SettingsStep ==
  ASSUME SettingsInv, [SettingsNext]_settings
  PROVE  /\ SettingsInv'
         /\ settings.loading /\ ~settings'.loading
              => /\ settings'.form = settings.form
                 /\ settings.form # settings.captured => IsDirty'
<1> DEFINE Ends ==
      settings.loading /\ ~settings'.loading
        => /\ settings'.form = settings.form
           /\ settings.form # settings.captured => IsDirty'
<1>1. ASSUME NEW tab, settings' = [settings EXCEPT !.tab = tab]
      PROVE  SettingsInv' /\ Ends
  <2>1. /\ IsSettings(settings') /\ settings'.loading = settings.loading
        /\ settings'.form = settings.form
    BY <1>1 DEF SettingsInv, IsSettings
  <2> QED BY <2>1, Zenon DEF SettingsInv
<1>2. CASE \E tab \in 1..Len(Tabs) : ChooseTab(tab) \/ ArrowRight(tab) \/ ArrowLeft(tab)
  <2>1. \E tab : settings' = [settings EXCEPT !.tab = tab]
    BY <1>2 DEF ChooseTab, ArrowRight, ArrowLeft
  <2> QED BY <1>1, <2>1
<1>3. ASSUME NEW value \in Settings, ChangeSettings(value)
      PROVE  SettingsInv' /\ Ends
  <2>1. settings' = [settings EXCEPT !.form = value] BY <1>3 DEF ChangeSettings
  <2>2. IsSettings(settings') /\ settings'.loading = settings.loading
    BY <2>1 DEF SettingsInv, IsSettings
  <2> QED BY <2>2, Zenon DEF SettingsInv
<1>4. CASE SaveSettings
  <2> DEFINE yes == TRUE
             no == FALSE
             f == settings.form
  <2>1. settings' = [settings EXCEPT !.loading = yes, !.status = no, !.captured = f]
    BY <1>4 DEF SaveSettings
  <2> HIDE DEF yes, no, f
  <2>2. IsSettings(settings') /\ settings'.loading = yes
    BY <2>1 DEF SettingsInv, IsSettings
  <2> QED BY <2>2, Zenon DEF SettingsInv, yes
<1>5. CASE SettingsSaved
  <2> DEFINE yes == TRUE
             no == FALSE
             c == settings.captured
  <2>1. settings' = [settings EXCEPT !.loading = no, !.status = yes, !.saved = c]
    BY <1>5 DEF SettingsSaved
  <2> HIDE DEF yes, no, c
  <2>2. /\ IsSettings(settings') /\ settings'.loading = no
        /\ settings'.form = settings.form /\ settings'.saved = c
    BY <2>1 DEF SettingsInv, IsSettings
  <2> QED BY <2>2, Zenon DEF SettingsInv, no, c, IsDirty
<1>6. CASE UNCHANGED settings BY <1>6, Zenon DEF SettingsInv
<1> QED BY <1>2, <1>3, <1>4, <1>5, <1>6 DEF SettingsNext

\* The book of a window that is mounted is empty.
LEMMA BookInit == book = BookMounted => BookInv
<1> SUFFICES ASSUME book = BookMounted PROVE BookInv OBVIOUS
<1>1. EmptyDraft \in [id : EntryIds \cup {0}, address : Addresses \cup {BadAddress}]
  BY DEF EmptyDraft
<1>2. /\ IsBook(ClosedBook) /\ ClosedBook.entries = <<>> /\ ClosedBook.draft = EmptyDraft
      /\ ClosedBook.open = FALSE /\ ClosedBook.formOpen = FALSE
  BY DEF IsBook, ClosedBook
<1>3. Distinct(<<>>) BY DEF Distinct
<1>4. BookSound(ClosedBook) BY <1>1, <1>2, <1>3 DEF BookSound
<1>5. book.stored = <<>> /\ book.at = [w \in Windows |-> ClosedBook]
      /\ book = [stored |-> book.stored, at |-> book.at]
  BY DEF BookMounted
<1> QED BY <1>3, <1>4, <1>5 DEF BookInv

\* In the invariant's words and in the property's.
LEMMA DistinctAddresses == BookInv => AddressesDistinct
<1>1. \A entries : Distinct(entries) =>
        /\ IsInjective([i \in DOMAIN entries |-> entries[i].address])
        /\ IsInjective([i \in DOMAIN entries |-> entries[i].id])
  BY DEF Distinct, IsInjective
<1> QED BY <1>1 DEF BookInv, BookSound, AddressesDistinct

\* Whatever is edited, removed or stored by another window while a form is open
\* or a save is under way.
THEOREM EditsKept == FrontendSpec => EditsAreKept
<1> DEFINE EntryListed(w) ==
             book.at[w].formOpen /\ book'.at[w].entries # book.at[w].entries
               /\ ~book'.at[w].formOpen /\ book'.at[w].open
             => \E e \in ToSet(book'.at[w].entries) : e.address = book.at[w].draft.address
           AllListed == \A w \in Windows : EntryListed(w)
           Ends == settings.loading /\ ~settings'.loading
                     => /\ settings'.form = settings.form
                        /\ settings.form # settings.captured => IsDirty'
           Inv == BookInv /\ SettingsInv
<1>1. FrontendInit => Inv
  <2> SUFFICES ASSUME FrontendInit PROVE Inv OBVIOUS
  <2>1. BookInv BY BookInit DEF FrontendInit
  <2>2. settings = [tab |-> 1, form |-> Initial, saved |-> Initial, captured |-> Initial,
                    loading |-> FALSE, status |-> FALSE]
    BY DEF FrontendInit, SettingsMounted
  <2>3. SettingsInv BY <2>2 DEF SettingsInv, IsSettings
  <2> QED BY <2>1, <2>3
<1>2. Inv /\ [FrontendNext]_vars => Inv' /\ [AllListed]_book /\ [Ends]_settings
  <2> SUFFICES ASSUME Inv, [FrontendNext]_vars
               PROVE  Inv' /\ AllListed /\ Ends
    OBVIOUS
  <2>1. [BookNext]_book /\ [SettingsNext]_settings BY PartSteps
  <2>2. BookInv' /\ \A v \in Windows : BookSaves(book.at[v], book'.at[v])
    BY <2>1, BookStep
  <2>3. ASSUME NEW w \in Windows
        PROVE  EntryListed(w)
    <3> DEFINE b == book.at[w]
               c == book'.at[w]
    <3>1. BookSaves(b, c) BY <2>2
    <3>2. b.formOpen \in BOOLEAN BY DEF BookInv, BookSound
    <3>3. c.formOpen \in BOOLEAN /\ c.open \in BOOLEAN BY <2>2 DEF BookInv, BookSound
    <3> QED BY <3>1, <3>2, <3>3, Zenon DEF BookSaves
  <2>4. SettingsInv' /\ Ends BY <2>1, SettingsStep
  <2> QED BY <2>2, <2>3, <2>4
<1>3. Inv => AddressesDistinct BY DistinctAddresses
<1> QED BY <1>1, <1>2, <1>3, PTL
        DEF FrontendSpec, EditsAreKept, SavedEntryIsListed, LaterEditsStayDirty

-----------------------------------------------------------------------------
(* The network.                                                            *)

\* What every step of the switchers preserves: the network in use is the one a
\* reload would read, until a choice is not saved or another tab saves one.
NetworkInv ==
  /\ network \in NetworkState
  /\ network.apart = FALSE =>
       network.current = IF network.saved = "none" THEN DEFAULT_NETWORK ELSE network.saved

\* How mainnet may be left in a step.
Knowingly ==
  network.current = "mainnet" /\ network.current' # "mainnet" =>
    \/ \E s \in Switchers : network.warning[s] /\ network.pending[s] = network.current'
    \/ network.apart /\ network' = NetworkMounted(network.saved)

\* A step that leaves the networks alone is harmless.
LEMMA SameNetworkKeeps ==
  ASSUME NetworkInv, network' \in NetworkState, network'.current = network.current,
         network'.saved = network.saved, network'.apart = network.apart
  PROVE  NetworkInv' /\ Knowingly
BY DEF NetworkInv, Knowingly

\* The network a switcher sets is in use, and saved or known not to be.
LEMMA SetNetworkKeeps ==
  ASSUME NetworkInv, NEW s \in Switchers, NEW n \in Networks, SetNetwork(s, n)
  PROVE  NetworkInv' /\ network'.current = n
<1> DEFINE m == [network.menu EXCEPT ![s] = FALSE]
           w == [network.warning EXCEPT ![s] = FALSE]
           yes == TRUE
           no == FALSE
<1>1. m \in [Switchers -> BOOLEAN] /\ w \in [Switchers -> BOOLEAN]
  BY DEF NetworkInv, NetworkState
<1>2. \/ network' = [network EXCEPT !.current = n, !.saved = n, !.apart = no, !.menu = m,
                                   !.warning = w]
      \/ network' = [network EXCEPT !.current = n, !.apart = yes]
  BY DEF SetNetwork
<1>3. yes \in BOOLEAN /\ no \in BOOLEAN /\ yes # FALSE OBVIOUS
<1> HIDE DEF m, w, yes, no
<1>4. CASE network' = [network EXCEPT !.current = n, !.saved = n, !.apart = no, !.menu = m,
                                      !.warning = w]
  <2>1. network' \in NetworkState BY <1>1, <1>3, <1>4 DEF NetworkInv, NetworkState
  <2>2. network'.current = n /\ network'.saved = n
    BY <1>4 DEF NetworkInv, NetworkState
  <2> QED BY <2>1, <2>2, ControlsAssumption DEF NetworkInv
<1>5. CASE network' = [network EXCEPT !.current = n, !.apart = yes]
  <2>1. network' \in NetworkState BY <1>3, <1>5 DEF NetworkInv, NetworkState
  <2>2. network'.current = n /\ network'.apart = yes
    BY <1>5 DEF NetworkInv, NetworkState
  <2> QED BY <1>3, <2>1, <2>2 DEF NetworkInv
<1> QED BY <1>2, <1>4, <1>5

\* Each operation keeps it, and leaves mainnet only by way of a warning or by
\* reading what was saved apart from this page.
LEMMA NetworkStep ==
  ASSUME NetworkInv, [NetworkNext]_network
  PROVE  NetworkInv' /\ Knowingly
<1>1. ASSUME NEW s \in Switchers, ToggleMenu(s)
      PROVE  NetworkInv' /\ Knowingly
  <2> DEFINE m == [network.menu EXCEPT ![s] = ~@]
  <2>1. m \in [Switchers -> BOOLEAN] BY DEF NetworkInv, NetworkState
  <2>2. network' = [network EXCEPT !.menu = m] BY <1>1 DEF ToggleMenu
  <2> HIDE DEF m
  <2>3. network' \in NetworkState BY <2>1, <2>2 DEF NetworkInv, NetworkState
  <2>4. /\ network'.current = network.current /\ network'.saved = network.saved
        /\ network'.apart = network.apart
    BY <2>2 DEF NetworkInv, NetworkState
  <2> QED BY <2>3, <2>4, SameNetworkKeeps
<1>2. ASSUME NEW s \in Switchers, NEW n \in Networks, SelectNetwork(s, n)
      PROVE  NetworkInv' /\ Knowingly
  <2>1. CASE n # "mainnet" /\ network.current = "mainnet"
    <3> DEFINE w == [network.warning EXCEPT ![s] = TRUE]
               p == [network.pending EXCEPT ![s] = n]
    <3>1. w \in [Switchers -> BOOLEAN] /\ p \in [Switchers -> Networks]
      BY DEF NetworkInv, NetworkState
    <3>2. network' = [network EXCEPT !.warning = w, !.pending = p]
      BY <1>2, <2>1 DEF SelectNetwork
    <3> HIDE DEF w, p
    <3>3. network' \in NetworkState BY <3>1, <3>2 DEF NetworkInv, NetworkState
    <3>4. /\ network'.current = network.current /\ network'.saved = network.saved
          /\ network'.apart = network.apart
      BY <3>2 DEF NetworkInv, NetworkState
    <3> QED BY <3>3, <3>4, SameNetworkKeeps
  <2>2. CASE ~(n # "mainnet" /\ network.current = "mainnet")
    <3>1. SetNetwork(s, n) BY <1>2, <2>2 DEF SelectNetwork
    <3>2. NetworkInv' /\ network'.current = n BY <3>1, SetNetworkKeeps
    <3> QED BY <2>2, <3>2 DEF Knowingly
  <2> QED BY <2>1, <2>2
<1>3. ASSUME NEW s \in Switchers, ConfirmTestnetSwitch(s)
      PROVE  NetworkInv' /\ Knowingly
  <2>1. network.pending[s] \in Networks BY DEF NetworkInv, NetworkState
  <2>2. NetworkInv' /\ network'.current = network.pending[s]
    BY <1>3, <2>1, SetNetworkKeeps DEF ConfirmTestnetSwitch
  <2>3. network.warning[s] BY <1>3 DEF ConfirmTestnetSwitch
  <2> QED BY <2>2, <2>3 DEF Knowingly
<1>4. ASSUME NEW s \in Switchers, CancelTestnetSwitch(s)
      PROVE  NetworkInv' /\ Knowingly
  <2> DEFINE w == [network.warning EXCEPT ![s] = FALSE]
  <2>1. w \in [Switchers -> BOOLEAN] BY DEF NetworkInv, NetworkState
  <2>2. network' = [network EXCEPT !.warning = w] BY <1>4 DEF CancelTestnetSwitch
  <2> HIDE DEF w
  <2>3. network' \in NetworkState BY <2>1, <2>2 DEF NetworkInv, NetworkState
  <2>4. /\ network'.current = network.current /\ network'.saved = network.saved
        /\ network'.apart = network.apart
    BY <2>2 DEF NetworkInv, NetworkState
  <2> QED BY <2>3, <2>4, SameNetworkKeeps
<1>5. CASE OtherTabSetsNetwork
  <2> DEFINE yes == TRUE
  <2>1. PICK n \in Networks : network' = [network EXCEPT !.saved = n, !.apart = yes]
    BY <1>5 DEF OtherTabSetsNetwork
  <2>2. yes \in BOOLEAN /\ yes # FALSE OBVIOUS
  <2> HIDE DEF yes
  <2>3. /\ network' \in NetworkState /\ network'.current = network.current
        /\ network'.apart = yes
    BY <2>1, <2>2 DEF NetworkInv, NetworkState
  <2> QED BY <2>2, <2>3 DEF NetworkInv, Knowingly
<1>6. CASE ReloadNetwork
  <2> DEFINE c == IF network.saved = "none" THEN DEFAULT_NETWORK ELSE network.saved
             m == [s \in Switchers |-> FALSE]
             p == [s \in Switchers |-> "mainnet"]
             no == FALSE
  <2>1. network' = [current |-> c, saved |-> network.saved, apart |-> no, menu |-> m,
                    warning |-> m, pending |-> p]
    BY <1>6 DEF ReloadNetwork, NetworkMounted
  <2>2. /\ c \in Networks /\ no \in BOOLEAN
        /\ network.saved \in Networks \cup {"none"}
        /\ m \in [Switchers -> BOOLEAN] /\ p \in [Switchers -> Networks]
    BY ControlsAssumption DEF NetworkInv, NetworkState
  <2>3. c = IF network.saved = "none" THEN DEFAULT_NETWORK ELSE network.saved OBVIOUS
  <2>4. network.apart = FALSE => c = network.current BY DEF NetworkInv
  <2>5. network.apart \in BOOLEAN BY DEF NetworkInv, NetworkState
  <2> HIDE DEF c, m, p, no
  <2>6. network' \in NetworkState BY <2>1, <2>2 DEF NetworkState
  <2>7. network'.current = c /\ network'.saved = network.saved BY <2>1
  <2>8. NetworkInv' BY <2>3, <2>6, <2>7 DEF NetworkInv
  <2>9. network' = NetworkMounted(network.saved) BY <1>6 DEF ReloadNetwork
  <2>10. network.apart = TRUE \/ network.apart = FALSE BY <2>5, Zenon
  <2>11. CASE network.apart = FALSE BY <2>4, <2>7, <2>8, <2>11 DEF Knowingly
  <2>12. CASE network.apart = TRUE BY <2>8, <2>9, <2>12, Zenon DEF Knowingly
  <2> QED BY <2>10, <2>11, <2>12
<1>7. CASE UNCHANGED network BY <1>7, SameNetworkKeeps DEF NetworkInv
<1> QED BY <1>1, <1>2, <1>3, <1>4, <1>5, <1>6, <1>7 DEF NetworkNext

\* A first visit is to the default network.
LEMMA NetworkInitInv == network = NetworkMounted("none") => NetworkInv
<1> DEFINE m == [s \in Switchers |-> FALSE]
           p == [s \in Switchers |-> "mainnet"]
           no == FALSE
<1>1. m \in [Switchers -> BOOLEAN] /\ p \in [Switchers -> Networks] /\ no \in BOOLEAN
  BY ControlsAssumption
<1>2. NetworkMounted("none") = [current |-> DEFAULT_NETWORK, saved |-> "none", apart |-> no,
                                menu |-> m, warning |-> m, pending |-> p]
  BY DEF NetworkMounted
<1> HIDE DEF m, p, no
<1> QED BY <1>1, <1>2, ControlsAssumption DEF NetworkInv, NetworkState

\* Whichever switcher is used, in whatever order warnings are opened and
\* answered, and whether or not choices can be saved: mainnet is left for a
\* network that was warned about, or by a reload for one saved apart.
THEOREM MainnetSafe == FrontendSpec => MainnetLeftKnowingly
<1>1. FrontendInit => NetworkInv BY NetworkInitInv DEF FrontendInit
<1>2. NetworkInv /\ [FrontendNext]_vars => NetworkInv' /\ [Knowingly]_network
  <2> SUFFICES ASSUME NetworkInv, [FrontendNext]_vars
               PROVE  NetworkInv' /\ Knowingly
    OBVIOUS
  <2>1. [NetworkNext]_network BY DEF FrontendNext, vars, Using
  <2> QED BY <2>1, NetworkStep
<1> QED BY <1>1, <1>2, PTL DEF FrontendSpec, MainnetLeftKnowingly, Knowingly

-----------------------------------------------------------------------------
(* The theme.                                                              *)

\* What every step preserves: the theme is the system's until one is chosen,
\* and a choice is stored, or known not to be.
ThemeInv ==
  /\ theme \in ThemeState
  /\ ~theme.explicit => theme.shown = theme.system
  /\ theme.explicit => theme.stored # "none" \/ theme.unsaved

\* How a chosen theme may change in a step.
ThemeStays ==
  theme.explicit =>
    /\ theme.system' # theme.system => theme.shown' = theme.shown
    /\ theme'.explicit /\ theme.shown' # theme.shown =>
         theme'.unsaved \/ theme.stored' = theme.shown'
    /\ ~theme'.explicit => theme.unsaved

\* Each change of the theme preserves it, and a chosen theme stays.
LEMMA ThemeStep ==
  ASSUME ThemeInv, [ThemeNext]_theme
  PROVE  ThemeInv' /\ ThemeStays
<1> USE DEF ThemeInv, ThemeState, Themes, ThemeStays
<1>1. CASE ToggleTheme
  <2> DEFINE next == Opposite(theme.shown)
  <2>1. \/ theme' = [theme EXCEPT !.shown = next, !.explicit = TRUE, !.stored = next,
                                 !.unsaved = FALSE]
        \/ theme' = [theme EXCEPT !.shown = next, !.explicit = TRUE, !.unsaved = TRUE]
    BY <1>1 DEF ToggleTheme
  <2>2. next \in {"light", "dark"} /\ theme.system' = theme.system
    BY <2>1 DEF Opposite
  <2> HIDE DEF next
  <2>3. CASE theme' = [theme EXCEPT !.shown = next, !.explicit = TRUE, !.stored = next,
                                    !.unsaved = FALSE]
    BY <2>2, <2>3
  <2>4. CASE theme' = [theme EXCEPT !.shown = next, !.explicit = TRUE, !.unsaved = TRUE]
    BY <2>2, <2>4
  <2> QED BY <2>1, <2>3, <2>4
<1>2. CASE SystemChanges
  <2> DEFINE o == Opposite(theme.system)
             x == IF theme.explicit THEN theme.shown ELSE o
  <2>1. theme' = [theme EXCEPT !.system = o, !.shown = x]
    BY <1>2 DEF SystemChanges
  <2>2. o \in {"light", "dark"} /\ x \in {"light", "dark"} BY DEF Opposite
  <2>3. theme.explicit => x = theme.shown OBVIOUS
  <2>4. ~theme.explicit => x = o OBVIOUS
  <2> HIDE DEF o, x
  <2>5. theme' \in ThemeState BY <2>1, <2>2
  <2>6. /\ theme'.system = o /\ theme'.shown = x /\ theme'.explicit = theme.explicit
        /\ theme'.stored = theme.stored /\ theme'.unsaved = theme.unsaved
    BY <2>1
  <2> QED BY <2>3, <2>4, <2>5, <2>6
<1>3. CASE OtherTabChooses BY <1>3 DEF OtherTabChooses
<1>4. CASE ReloadTheme
  <2>1. CASE theme.stored = "none"
    <3>1. theme' = [shown |-> theme.system, system |-> theme.system, stored |-> "none",
                    explicit |-> FALSE, unsaved |-> FALSE]
      BY <1>4, <2>1 DEF ReloadTheme, ThemeMounted
    <3> QED BY <2>1, <3>1
  <2>2. CASE theme.stored # "none"
    <3>1. theme' = [shown |-> theme.stored, system |-> theme.system,
                    stored |-> theme.stored, explicit |-> TRUE, unsaved |-> FALSE]
      BY <1>4, <2>2 DEF ReloadTheme, ThemeMounted
    <3> QED BY <2>2, <3>1
  <2> QED BY <2>1, <2>2
<1>5. CASE UNCHANGED theme BY <1>5
<1> QED BY <1>1, <1>2, <1>3, <1>4, <1>5 DEF ThemeNext

\* A first visit shows the system's theme.
LEMMA ThemeInitInv == theme = ThemeMounted("light", "none") => ThemeInv
<1> SUFFICES ASSUME theme = ThemeMounted("light", "none") PROVE ThemeInv OBVIOUS
<1> DEFINE first == IF "none" = "none" THEN "light" ELSE "none"
           chosen == "none" # "none"
<1>1. first = "light" /\ chosen = FALSE OBVIOUS
<1>2. ThemeMounted("light", "none") =
        [shown |-> first, system |-> "light", stored |-> "none", explicit |-> chosen,
         unsaved |-> FALSE]
  BY DEF ThemeMounted
<1> HIDE DEF first, chosen
<1>3. theme = ThemeMounted("light", "none") OBVIOUS
<1>4. theme = [shown |-> first, system |-> "light", stored |-> "none",
                               explicit |-> chosen, unsaved |-> FALSE]
  BY <1>2, <1>3
<1>5. theme \in ThemeState
  <2>1. [shown |-> "light", system |-> "light", stored |-> "none", explicit |-> FALSE,
        unsaved |-> FALSE]
          \in ThemeState
    BY DEF ThemeState, Themes
  <2> QED BY <1>1, <1>4, <2>1, Zenon
<1>6. /\ theme.explicit = FALSE /\ theme.shown = "light"
      /\ theme.system = "light"
  BY <1>1, <1>4
<1> QED BY <1>5, <1>6, Zenon DEF ThemeInv

\* The system's changes leave a chosen theme as it is, and it is forgotten only
\* where it could not be stored.
THEOREM ThemeSafe == FrontendSpec => ThemeAsChosen
<1>1. FrontendInit => ThemeInv BY ThemeInitInv DEF FrontendInit
<1>2. ThemeInv /\ [FrontendNext]_vars => ThemeInv' /\ [ThemeStays]_theme
  <2> SUFFICES ASSUME ThemeInv, [FrontendNext]_vars
               PROVE  ThemeInv' /\ ThemeStays
    OBVIOUS
  <2>1. [ThemeNext]_theme BY DEF FrontendNext, vars, Using
  <2> QED BY <2>1, ThemeStep
<1>3. ThemeInv => (~theme.explicit => theme.shown = theme.system) BY DEF ThemeInv
<1> QED BY <1>1, <1>2, <1>3, PTL DEF FrontendSpec, ThemeAsChosen, ThemeStays

-----------------------------------------------------------------------------
(* The optimistic list.                                                    *)

\* An entry is found as found by its own id, until it is confirmed.
IsEntry(e) == e.optimisticId = IF e.optimisticStatus = "confirmed" THEN "none" ELSE e.id

\* Entries of the same item are equal.
ListSound(items) ==
  /\ items \in Seq(Entries)
  /\ \A i \in DOMAIN items : IsEntry(items[i])
  /\ \A i, j \in DOMAIN items : items[i].id = items[j].id => items[i] = items[j]

\* What every step of the list preserves.
OptimisticInv ==
  /\ optimistic = [items |-> optimistic.items, requests |-> optimistic.requests]
  /\ ListSound(optimistic.items)

\* What is confirmed in one list is so in the next.
StaysConfirmed(items, next) ==
  \A i \in DOMAIN items, j \in DOMAIN next :
    items[i].id = next[j].id /\ items[i].optimisticStatus = "confirmed"
      => next[j].optimisticStatus = "confirmed"

\* An answer changes what is not confirmed yet.
LEMMA ResolvedSound ==
  ASSUME OptimisticInv, NEW id \in NewIds, NEW status, NEW found,
         \/ status = "confirmed" /\ found = "none"
         \/ status = "error" /\ found = id
  PROVE  /\ ListSound(Resolved(id, status, found))
         /\ StaysConfirmed(optimistic.items, Resolved(id, status, found))
<1> DEFINE items == optimistic.items
           new == Resolved(id, status, found)
           D == 1..Len(items)
           Set(e) == [e EXCEPT !.optimisticStatus = status, !.optimisticId = found]
<1>1. /\ items \in Seq(Entries) /\ DOMAIN items = D /\ Len(items) \in Nat
      /\ \A i \in D : IsEntry(items[i]) /\ items[i] \in Entries
      /\ \A i, j \in D : items[i].id = items[j].id => items[i] = items[j]
  BY DEF OptimisticInv, ListSound
<1>2. /\ new \in [D -> {new[i] : i \in D}]
      /\ \A i \in D : new[i] = IF items[i].optimisticId = id THEN Set(items[i]) ELSE items[i]
  BY <1>1 DEF Resolved
<1> HIDE DEF new, items, D
<1>3. ASSUME NEW e \in Entries
      PROVE  /\ Set(e) \in Entries /\ Set(e).id = e.id
             /\ Set(e).optimisticStatus = status /\ Set(e).optimisticId = found
  BY DEF Entries
<1> HIDE DEF Set
<1>4. ASSUME NEW i \in D
      PROVE  /\ new[i] \in Entries /\ new[i].id = items[i].id /\ IsEntry(new[i])
             /\ items[i].optimisticStatus = "confirmed" => new[i] = items[i]
  <2>1. items[i] \in Entries /\ IsEntry(items[i]) BY <1>1
  <2>2. CASE items[i].optimisticId = id
    <3>1. items[i].optimisticStatus # "confirmed" /\ items[i].id = id
      BY <2>1, <2>2, HooksAssumption DEF IsEntry
    <3>2. new[i] = Set(items[i]) BY <1>2, <2>2
    <3> QED BY <1>3, <2>1, <3>1, <3>2 DEF IsEntry
  <2>3. CASE items[i].optimisticId # id BY <1>2, <2>1, <2>3
  <2> QED BY <2>2, <2>3
<1>5. new \in Seq(Entries) /\ DOMAIN new = D
  <2>1. DOMAIN new = D BY <1>2
  <2>2. new \in [D -> Entries] BY <1>2, <1>4
  <2> QED BY <1>1, <2>1, <2>2 DEF D
<1>6. ASSUME NEW i \in D, NEW j \in D, new[i].id = new[j].id
      PROVE  new[i] = new[j]
  <2>1. items[i] = items[j] BY <1>1, <1>4, <1>6
  <2> QED BY <1>2, <2>1
<1>7. ListSound(new) BY <1>4, <1>5, <1>6 DEF ListSound
<1>8. StaysConfirmed(items, new)
  <2> SUFFICES ASSUME NEW i \in D, NEW j \in D, items[i].id = new[j].id,
                      items[i].optimisticStatus = "confirmed"
               PROVE  new[j].optimisticStatus = "confirmed"
    BY <1>1, <1>5 DEF StaysConfirmed
  <2>1. items[i] = items[j] BY <1>1, <1>4
  <2> QED BY <1>4, <2>1
<1> QED BY <1>7, <1>8 DEF new, items

\* Each operation of the hook keeps the list sound and what is confirmed so.
LEMMA OptimisticStep ==
  ASSUME OptimisticInv, [OptimisticNext]_optimistic
  PROVE  OptimisticInv' /\ StaysConfirmed(optimistic.items, optimistic'.items)
<1> DEFINE items == optimistic.items
           next == optimistic'.items
<1>1. /\ items \in Seq(Entries) /\ DOMAIN items = 1..Len(items) /\ Len(items) \in Nat
      /\ \A i \in 1..Len(items) : IsEntry(items[i]) /\ items[i] \in Entries
      /\ \A i, j \in 1..Len(items) : items[i].id = items[j].id => items[i] = items[j]
  BY DEF OptimisticInv, ListSound
<1>o. optimistic = [items |-> items, requests |-> optimistic.requests]
  BY DEF OptimisticInv
<1>2. ASSUME NEW id \in NewIds, AddOptimistic(id)
      PROVE  OptimisticInv' /\ StaysConfirmed(items, next)
  <2> DEFINE e == [id |-> id, optimisticStatus |-> "pending", optimisticId |-> id]
             r == [optimistic.requests EXCEPT ![id] = @ + 1]
             new == <<e>> \o items
  <2>1. optimistic' = [optimistic EXCEPT !.requests = r, !.items = new]
    BY <1>2 DEF AddOptimistic
  <2>2. e \in Entries /\ IsEntry(e) /\ e.id = id BY DEF Entries, ItemIds, IsEntry
  <2>3. \A i \in 1..Len(items) : items[i].id # id BY <1>1, <1>2 DEF AddOptimistic, Listed
  <2> HIDE DEF e, r, items
  <2>4. /\ new \in Seq(Entries) /\ Len(new) = Len(items) + 1
        /\ DOMAIN new = 1..(Len(items) + 1) /\ new[1] = e
        /\ \A i \in 1..Len(items) : new[i + 1] = items[i]
    BY <1>1, <2>2
  <2>5. \A i \in 2..(Len(items) + 1) : i - 1 \in 1..Len(items) /\ new[i] = items[i - 1]
    <3> HIDE DEF new
    <3> SUFFICES ASSUME NEW i \in 2..(Len(items) + 1)
                 PROVE  i - 1 \in 1..Len(items) /\ new[i] = items[i - 1]
      OBVIOUS
    <3>1. i - 1 \in 1..Len(items) /\ (i - 1) + 1 = i BY <1>1
    <3> QED BY <2>4, <3>1
  <2> HIDE DEF new
  <2>6. \A i \in DOMAIN new : i = 1 \/ i \in 2..(Len(items) + 1) BY <1>1, <2>4
  <2>7. \A i \in DOMAIN new : IsEntry(new[i])
    <3> SUFFICES ASSUME NEW i \in DOMAIN new PROVE IsEntry(new[i]) OBVIOUS
    <3>1. CASE i = 1 BY <2>2, <2>4, <3>1
    <3>2. CASE i \in 2..(Len(items) + 1) BY <1>1, <2>5, <3>2
    <3> QED BY <2>6, <3>1, <3>2
  <2>8. ASSUME NEW i \in DOMAIN new, NEW j \in DOMAIN new, new[i].id = new[j].id
        PROVE  new[i] = new[j]
    <3>1. CASE i = 1 /\ j = 1 BY <3>1
    <3>2. CASE i = 1 /\ j \in 2..(Len(items) + 1)
      <4>1. new[j].id = id BY <2>2, <2>4, <2>8, <3>2
      <4> QED BY <2>3, <2>5, <3>2, <4>1
    <3>3. CASE j = 1 /\ i \in 2..(Len(items) + 1)
      <4>1. new[i].id = id BY <2>2, <2>4, <2>8, <3>3
      <4> QED BY <2>3, <2>5, <3>3, <4>1
    <3>4. CASE i \in 2..(Len(items) + 1) /\ j \in 2..(Len(items) + 1)
      BY <1>1, <2>5, <2>8, <3>4
    <3> QED BY <2>6, <3>1, <3>2, <3>3, <3>4
  <2>9. ListSound(new) BY <2>4, <2>7, <2>8 DEF ListSound
  <2>10. StaysConfirmed(items, new)
    <3> SUFFICES ASSUME NEW i \in 1..Len(items), NEW j \in DOMAIN new,
                        items[i].id = new[j].id, items[i].optimisticStatus = "confirmed"
                 PROVE  new[j].optimisticStatus = "confirmed"
      BY <1>1 DEF StaysConfirmed
    <3>1. CASE j = 1 BY <2>2, <2>3, <2>4, <3>1
    <3>2. CASE j \in 2..(Len(items) + 1)
      <4>1. new[j] = items[j - 1] /\ j - 1 \in 1..Len(items) BY <2>5, <3>2
      <4>2. items[i] = items[j - 1] BY <1>1, <4>1
      <4> QED BY <4>1, <4>2
    <3> QED BY <2>6, <3>1, <3>2
  <2>11. next = new /\ optimistic' = [items |-> new, requests |-> r] BY <1>o, <2>1
  <2> HIDE DEF next
  <2>12. OptimisticInv' BY <2>9, <2>11 DEF OptimisticInv
  <2> QED BY <2>10, <2>11, <2>12
<1>3. ASSUME NEW id \in NewIds, ConfirmItem(id) \/ RejectItem(id)
      PROVE  OptimisticInv' /\ StaysConfirmed(items, next)
  <2>1. PICK r, status, found :
          /\ \/ status = "confirmed" /\ found = "none"
             \/ status = "error" /\ found = id
          /\ optimistic' = [optimistic EXCEPT !.requests = r,
                                              !.items = Resolved(id, status, found)]
    <3>1. CASE ConfirmItem(id)
      <4> DEFINE r == [optimistic.requests EXCEPT ![id] = @ - 1]
      <4>1. optimistic' = [optimistic EXCEPT !.requests = r,
                                             !.items = Resolved(id, "confirmed", "none")]
        BY <3>1 DEF ConfirmItem, Confirmed
      <4> QED BY <4>1
    <3>2. CASE RejectItem(id)
      <4>1. PICK left : optimistic' = [optimistic EXCEPT !.requests[id] = left,
                                         !.items = Resolved(id, "error", id)]
        BY <3>2 DEF RejectItem
      <4> DEFINE r == [optimistic.requests EXCEPT ![id] = left]
      <4>2. optimistic' = [optimistic EXCEPT !.requests = r,
                                             !.items = Resolved(id, "error", id)]
        BY <4>1
      <4> QED BY <4>2
    <3> QED BY <1>3, <3>1, <3>2
  <2> DEFINE new == Resolved(id, status, found)
  <2>2. ListSound(new) /\ StaysConfirmed(items, new) BY <2>1, ResolvedSound
  <2> HIDE DEF new
  <2>3. next = new /\ optimistic' = [items |-> new, requests |-> r]
    BY <1>o, <2>1 DEF new
  <2> HIDE DEF next, items
  <2>4. OptimisticInv' BY <2>2, <2>3 DEF OptimisticInv
  <2> QED BY <2>2, <2>3, <2>4
<1>4. ASSUME NEW id \in ItemIds, RemoveItem(id)
      PROVE  OptimisticInv' /\ StaysConfirmed(items, next)
  <2> DEFINE S == {entry \in Entries : entry.id # id /\ entry.optimisticId # id}
             new == Kept(items, S)
  <2>1. optimistic' = [optimistic EXCEPT !.items = new] BY <1>4 DEF RemoveItem
  <2>2. next = new /\ optimistic' = [items |-> new, requests |-> optimistic.requests]
    BY <1>o, <2>1
  <2> HIDE DEF S
  <2>3. new \in Seq(Entries) BY <1>1, KeptInOrder
  <2>4. PICK m : KeptFrom(new, items, S, Len(items), m) BY <1>1, KeptInOrder
  <2> HIDE DEF new, items, next
  <2>5. DOMAIN new = 1..Len(new) BY <2>3
  <2>6. \A j \in 1..Len(new) : m[j] \in 1..Len(items) /\ new[j] = items[m[j]]
    BY <2>4 DEF KeptFrom
  <2>7. ListSound(new) BY <1>1, <2>3, <2>5, <2>6 DEF ListSound
  <2>8. StaysConfirmed(items, new)
    <3> SUFFICES ASSUME NEW i \in 1..Len(items), NEW j \in 1..Len(new),
                        items[i].id = new[j].id, items[i].optimisticStatus = "confirmed"
                 PROVE  new[j].optimisticStatus = "confirmed"
      BY <1>1, <2>5 DEF StaysConfirmed
    <3>1. items[i] = items[m[j]] BY <1>1, <2>6
    <3> QED BY <2>6, <3>1
  <2>9. OptimisticInv' BY <2>2, <2>7 DEF OptimisticInv
  <2> QED BY <2>2, <2>8, <2>9
<1>5. CASE UNCHANGED optimistic
  <2>1. next = items BY <1>5
  <2> HIDE DEF next, items
  <2>2. StaysConfirmed(items, next)
    <3> SUFFICES ASSUME NEW i \in 1..Len(items), NEW j \in 1..Len(items),
                        items[i].id = items[j].id, items[i].optimisticStatus = "confirmed"
                 PROVE  items[j].optimisticStatus = "confirmed"
      BY <1>1, <2>1 DEF StaysConfirmed
    <3>1. items[i] = items[j] BY <1>1
    <3> QED BY <3>1
  <2>3. OptimisticInv' BY <1>5 DEF OptimisticInv
  <2> QED BY <2>2, <2>3 DEF items, next
<1>6. \/ \E id \in NewIds : AddOptimistic(id) \/ ConfirmItem(id) \/ RejectItem(id)
      \/ \E id \in ItemIds : RemoveItem(id)
      \/ UNCHANGED optimistic
  BY DEF OptimisticNext
<1> QED BY <1>2, <1>3, <1>4, <1>5, <1>6, Zenon

\* The list begins with confirmed entries.
LEMMA OptimisticInit == optimistic = ListMounted => OptimisticInv
<1> SUFFICES ASSUME optimistic = ListMounted PROVE OptimisticInv OBVIOUS
<1> DEFINE D == DOMAIN SavedItems
           items == optimistic.items
<1>1. /\ items = [i \in D |-> [id |-> SavedItems[i], optimisticStatus |-> "confirmed",
                               optimisticId |-> "none"]]
      /\ optimistic = [items |-> items, requests |-> optimistic.requests]
  BY DEF ListMounted
<1> HIDE DEF items
<1>2. \A i \in D : /\ items[i] = [id |-> SavedItems[i], optimisticStatus |-> "confirmed",
                                  optimisticId |-> "none"]
                   /\ items[i].id = SavedItems[i]
                   /\ items[i].optimisticStatus = "confirmed"
                   /\ items[i].optimisticId = "none"
  BY <1>1
<1>3. ASSUME NEW i \in D
      PROVE  items[i] \in Entries /\ IsEntry(items[i])
  <2> DEFINE x == SavedItems[i]
             e == items[i]
  <2>1. x \in ItemIds BY DEF ItemIds
  <2>2. /\ e = [id |-> x, optimisticStatus |-> "confirmed", optimisticId |-> "none"]
        /\ e.optimisticStatus = "confirmed" /\ e.optimisticId = "none"
    BY <1>2
  <2> HIDE DEF x, e
  <2>3. e \in Entries BY <2>1, <2>2 DEF Entries
  <2>4. IsEntry(e) BY <2>2 DEF IsEntry
  <2> QED BY <2>3, <2>4 DEF e
<1>4. items \in [D -> Entries] BY <1>1, <1>3
<1>5. PICK n \in Nat : D = 1..n
  <2>1. SavedItems \in Seq({SavedItems[i] : i \in D}) BY HooksAssumption
  <2> QED BY <2>1, LenProperties
<1>6. items \in Seq(Entries) BY <1>4, <1>5
<1>7. \A i, j \in D : items[i].id = items[j].id => items[i] = items[j] BY <1>2
<1>8. DOMAIN items = D BY <1>1
<1> HIDE DEF D
<1>9. ListSound(items) BY <1>3, <1>6, <1>7, <1>8 DEF ListSound
<1> QED BY <1>1, <1>9 DEF OptimisticInv, items

-----------------------------------------------------------------------------
(* What was decided.                                                       *)

\* What the server has confirmed is not called pending or failed.
THEOREM ConfirmedSafe == FrontendSpec => ConfirmedForGood
<1> DEFINE Stays ==
      \A i \in DOMAIN optimistic.items, j \in DOMAIN optimistic'.items :
        (/\ optimistic.items[i].id = optimistic'.items[j].id
         /\ optimistic.items[i].optimisticStatus = "confirmed")
          => optimistic'.items[j].optimisticStatus = "confirmed"
<1>1. FrontendInit => OptimisticInv BY OptimisticInit DEF FrontendInit
<1>2. OptimisticInv /\ [FrontendNext]_vars => OptimisticInv' /\ [Stays]_optimistic
  <2> SUFFICES ASSUME OptimisticInv, [FrontendNext]_vars
               PROVE  OptimisticInv' /\ Stays
    OBVIOUS
  <2>1. [OptimisticNext]_optimistic BY PartSteps
  <2>2. OptimisticInv' /\ StaysConfirmed(optimistic.items, optimistic'.items)
    BY <2>1, OptimisticStep
  <2> QED BY <2>2 DEF StaysConfirmed
<1> QED BY <1>1, <1>2, PTL DEF FrontendSpec, ConfirmedForGood

\* Whoever has signed out finds no session to be brought back by.
THEOREM SignedOutSafe == FrontendSpec => []SignedOutForGood
<1>1. FrontendInit => AccessInv BY ScreenInit DEF ScreenInv
<1>2. AccessInv /\ [FrontendNext]_vars => AccessInv' BY PartSteps, AccessStep
<1>3. AccessInv => SignedOutForGood BY AccessShows
<1> QED BY <1>1, <1>2, <1>3, PTL DEF FrontendSpec

\* The network, the theme, what is confirmed and who has signed out.
THEOREM DecisionsHold == FrontendSpec => DecisionsStand
BY MainnetSafe, ThemeSafe, ConfirmedSafe, SignedOutSafe DEF DecisionsStand

-----------------------------------------------------------------------------
(* Lists of bounded length.                                                *)

\* A list in a bounded number of elements.
LEMMA Bounded ==
  ASSUME NEW S, NEW n \in Nat, NEW s
  PROVE  s \in SeqOf(S, n) <=> s \in Seq(S) /\ Len(s) <= n
<1>1. ASSUME s \in SeqOf(S, n)
      PROVE  s \in Seq(S) /\ Len(s) <= n
  <2>1. PICK m \in 0..n : s \in [1..m -> S] BY <1>1, Zenon DEF SeqOf
  <2> QED BY <2>1
<1>2. ASSUME s \in Seq(S), Len(s) <= n
      PROVE  s \in SeqOf(S, n)
  <2>1. Len(s) \in 0..n /\ s \in [1..Len(s) -> S] BY <1>2, LenProperties
  <2> QED BY <2>1, Zenon DEF SeqOf
<1> QED BY <1>1, <1>2

\* The empty list is one.
LEMMA EmptyBounded ==
  ASSUME NEW S, NEW n \in Nat
  PROVE  <<>> \in SeqOf(S, n)
<1> DEFINE e == <<>>
<1>1. e \in Seq(S) /\ Len(e) <= n BY EmptySeq
<1> HIDE DEF e
<1> QED BY <1>1, Bounded DEF e

-----------------------------------------------------------------------------
(* The introduction.                                                       *)

\* Where moves lead that are under way for a user in no hurry: at most one is,
\* and it leads to a step there is.
Unhurried(i) ==
  i.visible = TRUE /\ i.hurried # TRUE /\ i.moves # <<>> =>
    /\ Tail(i.moves) = <<>>
    /\ i.step + Head(i.moves) \in 0..LastStep

\* What every step of the introduction preserves.
IntroGood(i) ==
  /\ i \in IntroState
  /\ i.crashed = TRUE => i.hurried = TRUE
  /\ i.visible = TRUE => i.step \in 0..LastStep
  /\ i.seen = TRUE => i.visible # TRUE
  /\ Unhurried(i)

\* What the presses of a button make of it.
LEMMA PressedGood ==
  ASSUME NEW i, IntroGood(i), i.visible = TRUE
  PROVE  \E h \in BOOLEAN :
           /\ Pressed(i) = [i EXCEPT !.hurried = h]
           /\ h = TRUE <=> i.hurried = TRUE \/ i.moves # <<>>
<1> DEFINE h == i.hurried \/ i.moves # <<>>
<1>1. h \in BOOLEAN BY DEF IntroGood, IntroState
<1>2. Pressed(i) = [i EXCEPT !.hurried = h] BY DEF Pressed
<1>3. h = TRUE <=> i.hurried = TRUE \/ i.moves # <<>> BY DEF IntroGood, IntroState
<1> HIDE DEF h
<1> QED BY <1>1, <1>2, <1>3

\* Each operation of the introduction keeps it.
LEMMA IntroStep ==
  ASSUME IntroGood(intro), [IntroNext]_intro
  PROVE  IntroGood(intro')
<1> DEFINE M == SeqOf({-1, 1}, MaxMoves)
<1>0. LastStep \in Nat /\ MaxMoves \in Nat BY ShellAssumption
<1>t. /\ intro.moves \in Seq({-1, 1}) /\ intro.step \in Int /\ intro.moves \in M
      /\ intro.moves \in Seq({-1, 1}) /\ Len(intro.moves) \in Nat
  BY <1>0, Bounded, LenProperties DEF IntroGood, IntroState
<1>e. <<>> \in M BY <1>0, EmptyBounded
<1>1. ASSUME NEW n \in {-1, 1}, intro.visible = TRUE, Len(intro.moves) < MaxMoves,
             intro.step + n \in 0..LastStep,
             intro' = [Pressed(intro) EXCEPT !.moves = Append(@, n)]
      PROVE  IntroGood(intro')
  <2> DEFINE m == Append(intro.moves, n)
  <2>1. PICK h \in BOOLEAN :
          /\ Pressed(intro) = [intro EXCEPT !.hurried = h]
          /\ h = TRUE <=> intro.hurried = TRUE \/ intro.moves # <<>>
    BY <1>1, PressedGood
  <2>2. intro' = [intro EXCEPT !.hurried = h, !.moves = m]
    BY <1>1, <2>1 DEF IntroGood, IntroState
  <2>3. m \in M /\ m # <<>> /\ (intro.moves = <<>> => Head(m) = n /\ Tail(m) = <<>>)
    <3>1. m \in Seq({-1, 1}) /\ m # <<>> /\ Len(m) = Len(intro.moves) + 1
      BY <1>t, AppendProperties
    <3>2. Len(m) <= MaxMoves BY <1>0, <1>1, <1>t, <3>1
    <3>3. intro.moves = <<>> => Head(m) = n /\ Tail(m) = <<>> BY <1>t, HeadTailAppend
    <3> HIDE DEF m
    <3> QED BY <1>0, <3>1, <3>2, <3>3, Bounded
  <2> HIDE DEF m, M
  <2> QED BY <1>0, <1>1, <2>1, <2>2, <2>3 DEF IntroGood, IntroState, Unhurried, M
<1>2. ASSUME NEW i, IntroGood(i), intro' = Dismissed(i)
      PROVE  IntroGood(intro')
  <2>1. intro' = [i EXCEPT !.seen = TRUE, !.visible = FALSE] BY <1>2 DEF Dismissed
  <2> HIDE DEF M
  <2> QED BY <1>2, <2>1 DEF IntroGood, IntroState, Unhurried
<1>3. CASE NextStep
  <2>1. CASE intro.step < LastStep
    <3>1. intro.step + 1 \in 0..LastStep /\ intro.visible = TRUE
      BY <1>0, <1>3, <1>t, <2>1 DEF NextStep, IntroGood, IntroState
    <3> QED BY <1>1, <1>3, <2>1, <3>1 DEF NextStep
  <2>2. CASE ~(intro.step < LastStep)
    <3>1. intro.visible = TRUE BY <1>3 DEF NextStep, IntroGood, IntroState
    <3>2. PICK h \in BOOLEAN :
          /\ Pressed(intro) = [intro EXCEPT !.hurried = h]
          /\ h = TRUE <=> intro.hurried = TRUE \/ intro.moves # <<>>
      BY <3>1, PressedGood
    <3>3. IntroGood(Pressed(intro)) BY <3>2 DEF IntroGood, IntroState, Unhurried
    <3> QED BY <1>2, <1>3, <2>2, <3>3 DEF NextStep
  <2> QED BY <2>1, <2>2
<1>4. CASE PrevStep
  <2>1. intro.step + (-1) \in 0..LastStep /\ intro.visible = TRUE
    BY <1>0, <1>4, <1>t DEF PrevStep, IntroGood, IntroState
  <2> QED BY <1>1, <1>4, <2>1 DEF PrevStep
<1>5. ASSUME NEW step \in 0..LastStep, ChooseStep(step)
      PROVE  IntroGood(intro')
  <2>1. intro.visible = TRUE BY <1>5 DEF ChooseStep, IntroGood, IntroState
  <2>2. PICK h \in BOOLEAN :
          /\ Pressed(intro) = [intro EXCEPT !.hurried = h]
          /\ h = TRUE <=> intro.hurried = TRUE \/ intro.moves # <<>>
    BY <2>1, PressedGood
  <2>3. intro' = [intro EXCEPT !.hurried = h, !.step = step]
    BY <1>5, <2>2 DEF ChooseStep, IntroGood, IntroState
  <2>4. step \in Int /\ M = SeqOf({-1, 1}, MaxMoves) BY <1>0
  <2> HIDE DEF M
  <2>5. intro' \in IntroState
    BY <2>2, <2>3, <2>4 DEF IntroGood, IntroState
  <2>6. /\ intro'.visible = intro.visible /\ intro'.step = step /\ intro'.moves = intro.moves
        /\ intro'.seen = intro.seen /\ intro'.crashed = intro.crashed /\ intro'.hurried = h
    BY <2>3 DEF IntroGood, IntroState
  <2> QED BY <1>5, <2>2, <2>5, <2>6 DEF IntroGood, Unhurried
<1>6. CASE SkipIntro BY <1>2, <1>6 DEF SkipIntro
<1>7. CASE MoveEnds
  <2> DEFINE n == intro.step + Head(intro.moves)
             m == Tail(intro.moves)
             i == [intro EXCEPT !.step = n, !.moves = m]
  <2>1. /\ intro' = IntroRendered(i) /\ intro.moves # <<>>
    BY <1>7 DEF MoveEnds
  <2>2. n \in Int /\ m \in M
    <3>1. Head(intro.moves) \in {-1, 1} /\ m \in Seq({-1, 1}) /\ Len(m) = Len(intro.moves) - 1
      BY <1>t, <2>1, HeadTailProperties
    <3>2. Len(intro.moves) <= MaxMoves BY <1>0, <1>t, Bounded
    <3>3. Len(m) <= MaxMoves BY <1>0, <1>t, <3>1, <3>2
    <3>4. n \in Int BY <1>t, <3>1
    <3> HIDE DEF m
    <3> QED BY <1>0, <3>1, <3>3, <3>4, Bounded
  <2>3. /\ intro.visible = TRUE /\ intro.hurried # TRUE => n \in 0..LastStep /\ m = <<>>
    BY <2>1 DEF IntroGood, Unhurried
  <2> HIDE DEF n, m, M
  <2>4. /\ i \in IntroState /\ i.step = n /\ i.moves = m /\ i.visible = intro.visible
        /\ i.hurried = intro.hurried /\ i.crashed = intro.crashed /\ i.seen = intro.seen
    BY <2>2 DEF IntroGood, IntroState, M
  <2> HIDE DEF i
  <2>5. CASE i.visible = TRUE /\ n \notin 0..LastStep
    <3>1. intro' = [i EXCEPT !.visible = FALSE, !.crashed = TRUE]
      BY <2>1, <2>4, <2>5 DEF IntroRendered
    <3>2. i.hurried = TRUE BY <2>3, <2>4, <2>5
    <3> QED BY <2>4, <3>1, <3>2 DEF IntroGood, IntroState, Unhurried
  <2>6. CASE ~(i.visible = TRUE /\ n \notin 0..LastStep)
    <3>1. intro' = i BY <2>1, <2>4, <2>6 DEF IntroRendered, IntroState
    <3>2. IntroGood(i) BY <2>3, <2>4, <2>6 DEF IntroGood, Unhurried
    <3> QED BY <3>1, <3>2
  <2> QED BY <2>5, <2>6
<1>8. CASE ReloadIntro
  <2> DEFINE v == ~intro.seen
  <2>1. intro' = [visible |-> v, step |-> 0, moves |-> <<>>, seen |-> intro.seen,
                  crashed |-> FALSE, hurried |-> FALSE]
    BY <1>8 DEF ReloadIntro, IntroMounted
  <2>2. v \in BOOLEAN /\ (intro.seen = TRUE => v # TRUE) /\ intro.seen \in BOOLEAN
    BY DEF IntroGood, IntroState
  <2> HIDE DEF v, M
  <2>3. intro' \in IntroState BY <1>e, <2>1, <2>2 DEF IntroState, M
  <2>4. /\ intro'.visible = v /\ intro'.step = 0 /\ intro'.moves = <<>>
        /\ intro'.seen = intro.seen /\ intro'.crashed = FALSE
    BY <2>1
  <2>5. 0 \in 0..LastStep BY <1>0
  <2>6. Unhurried(intro') BY <2>4 DEF Unhurried
  <2> QED BY <2>2, <2>3, <2>4, <2>5, <2>6 DEF IntroGood
<1>9. CASE UNCHANGED intro BY <1>9
<1> QED BY <1>3, <1>4, <1>5, <1>6, <1>7, <1>8, <1>9 DEF IntroNext

\* It begins at its first step.
LEMMA IntroBegins == FrontendInit => IntroGood(intro)
<1> SUFFICES ASSUME FrontendInit PROVE IntroGood(intro) OBVIOUS
<1>1. intro = [visible |-> TRUE, step |-> 0, moves |-> <<>>, seen |-> FALSE,
               crashed |-> FALSE, hurried |-> FALSE]
  BY DEF FrontendInit, IntroMounted
<1>2. LastStep \in Nat /\ MaxMoves \in Nat BY ShellAssumption
<1>3. <<>> \in SeqOf({-1, 1}, MaxMoves) BY <1>2, EmptyBounded
<1> DEFINE M == SeqOf({-1, 1}, MaxMoves)
<1> HIDE DEF M
<1> QED BY <1>1, <1>2, <1>3 DEF IntroGood, IntroState, Unhurried, M


-----------------------------------------------------------------------------
(* The copy button.                                                        *)

\* What every step of the button preserves: promises under way and timers out of
\* reach are within their bound together.
CopyInv == copying \in CopyState /\ copying.writes + copying.lost <= MaxCopies

\* Each step of the button preserves it.
LEMMA CopyStep ==
  ASSUME CopyInv, [CopyNext]_copying
  PROVE  CopyInv'
<1> USE ControlsAssumption DEF CopyInv, CopyState
<1>1. CASE ClickCopy
  <2> DEFINE n == copying.writes + 1
  <2>1. n \in 0..MaxCopies /\ n + copying.lost <= MaxCopies BY <1>1 DEF ClickCopy
  <2>2. copying' = [copying EXCEPT !.timer = FALSE, !.writes = n] BY <1>1 DEF ClickCopy
  <2> HIDE DEF n
  <2> QED BY <2>1, <2>2
<1>2. ASSUME NEW result \in {"copied", "error"}, copying.writes > 0,
             copying' = CopyShown(result)
      PROVE  CopyInv'
  <2> DEFINE w == copying.writes - 1
             l == IF copying.timer = TRUE THEN copying.lost + 1 ELSE copying.lost
  <2>1. w \in 0..MaxCopies /\ l \in 0..MaxCopies /\ w + l <= MaxCopies BY <1>2
  <2>2. copying' = [copying EXCEPT !.state = result, !.writes = w, !.lost = l, !.timer = TRUE]
    BY <1>2 DEF CopyShown
  <2> HIDE DEF w, l
  <2> QED BY <2>1, <2>2
<1>3. CASE CopyTimer
  <2>1. CASE copying' = [copying EXCEPT !.timer = FALSE, !.state = "idle"]
    BY <2>1
  <2>2. CASE copying.lost > 0 /\ copying' = [copying EXCEPT !.lost = @ - 1, !.state = "idle"]
    <3> DEFINE l == copying.lost - 1
    <3>1. l \in 0..MaxCopies /\ copying.writes + l <= MaxCopies BY <2>2
    <3>2. copying' = [copying EXCEPT !.lost = l, !.state = "idle"] BY <2>2
    <3> HIDE DEF l
    <3> QED BY <3>1, <3>2
  <2> QED BY <1>3, <2>1, <2>2 DEF CopyTimer
<1>4. CASE UNCHANGED copying BY <1>4
<1> QED BY <1>1, <1>2, <1>3, <1>4 DEF CopyNext, CopyWritten

-----------------------------------------------------------------------------
(* The pagination.                                                         *)

\* There are no more pages than of as many items as there can be.
LEMMA PagesWithin ==
  ASSUME NEW items \in 0..MaxItems
  PROVE  PagesOf(items) \in 0..MaxPages /\ MaxPages \in Nat
<1>1. /\ ITEMS_PER_PAGE \in Nat \ {0} /\ MaxItems \in Nat /\ items \in Nat
      /\ items <= MaxItems
  BY ListsAssumption
<1> DEFINE a == items + ITEMS_PER_PAGE - 1
           b == MaxItems + ITEMS_PER_PAGE - 1
<1>2. a \in Nat /\ b \in Nat /\ a <= b BY <1>1
<1> HIDE DEF a, b
<1>3. a \div ITEMS_PER_PAGE <= b \div ITEMS_PER_PAGE BY <1>1, <1>2, DivisionGrows
<1>4. a \div ITEMS_PER_PAGE \in Nat /\ b \div ITEMS_PER_PAGE \in Nat
  BY <1>1, <1>2, DivisionBounds
<1> QED BY <1>3, <1>4 DEF PagesOf, MaxPages, a, b

\* The page stays among those there may be.
LEMMA PagingStep ==
  ASSUME paging \in PagingState, [PagingNext]_paging
  PROVE  paging' \in PagingState
<1> USE DEF PagingState
<1>0. MaxItems \in Nat BY ListsAssumption
<1>p. MaxPages \in Nat /\ 0 \in 0..MaxItems
  BY <1>0, PagesWithin
<1>1. ASSUME NEW page, GoToPage(page)
      PROVE  paging' \in PagingState
  <2>1. page \in 0..MaxPages
    <3>1. PagesOf(paging.items) \in 0..MaxPages BY PagesWithin
    <3> QED BY <1>1, <1>p, <3>1 DEF GoToPage
  <2> QED BY <1>1, <2>1 DEF GoToPage
<1>2. CASE PageShown
  <2>1. paging.going \in 1..MaxPages + 2 /\ 0 \in 0..MaxPages BY <1>2, <1>p DEF PageShown
  <2> QED BY <1>2, <2>1 DEF PageShown
<1>3. CASE ItemsChange
  <2>1. PICK n \in 0..MaxItems : paging' = [paging EXCEPT !.items = n]
    BY <1>3 DEF ItemsChange
  <2> QED BY <1>p, <2>1
<1>4. CASE AddressNamesPage
  <2>1. PICK page \in 1..MaxPages + 2 : paging' = [paging EXCEPT !.page = page, !.going = 0]
    BY <1>4 DEF AddressNamesPage
  <2>2. 0 \in 0..MaxPages BY <1>p
  <2> QED BY <2>1, <2>2
<1>5. CASE UNCHANGED paging BY <1>5
<1> QED BY <1>1, <1>2, <1>3, <1>4, <1>5 DEF PagingNext, ClickPage

\* The numbers on offer, with the places of the ellipses.
LEMMA NumbersSound ==
  ASSUME NEW current \in Nat \ {0}, NEW total \in Nat
  PROVE  LET numbers == PageNumbers(current, total)
             shown == ToSet(numbers) \ {Ellipsis}
         IN /\ (1..total) \cap {1, current - 1, current, current + 1, total} \subseteq shown
            /\ shown \subseteq 1..total
            /\ \A i \in 1..Len(numbers) - 1 :
                 IF numbers[i] = Ellipsis THEN numbers[i + 1] > numbers[i - 1] + 1
                 ELSE numbers[i + 1] \in {Ellipsis, numbers[i] + 1}
<1> DEFINE numbers == PageNumbers(current, total)
           shown == ToSet(numbers) \ {Ellipsis}
           Goal ==
             /\ (1..total) \cap {1, current - 1, current, current + 1, total} \subseteq shown
             /\ shown \subseteq 1..total
             /\ \A i \in 1..Len(numbers) - 1 :
                 IF numbers[i] = Ellipsis THEN numbers[i + 1] > numbers[i - 1] + 1
                 ELSE numbers[i + 1] \in {Ellipsis, numbers[i] + 1}
<1>1. ASSUME total <= 5 PROVE Goal
  <2>1. numbers = [i \in 1..total |-> i] BY <1>1 DEF PageNumbers
  <2>2. ToSet(numbers) = 1..total /\ Len(numbers) = total
    BY <2>1 DEF ToSet
  <2>3. shown = 1..total BY <2>2 DEF Ellipsis
  <2>4. \A i \in 1..total : numbers[i] = i BY <2>1
  <2> HIDE DEF numbers, shown
  <2> QED BY <2>2, <2>3, <2>4 DEF Ellipsis
<1>2. ASSUME total > 5, current <= 3 PROVE Goal
  <2> DEFINE s == <<1, 2, 3, 4, Ellipsis, total>>
  <2>1. numbers = s BY <1>2 DEF PageNumbers
  <2>2. /\ Len(s) = 6 /\ s[1] = 1 /\ s[2] = 2 /\ s[3] = 3 /\ s[4] = 4 /\ s[5] = 0
        /\ s[6] = total /\ DOMAIN s = 1..6
    BY DEF Ellipsis
  <2>3. ToSet(s) = {1, 2, 3, 4, 0, total}
    <3> HIDE DEF s
    <3>1. ToSet(s) = {s[i] : i \in 1..6} BY <2>2 DEF ToSet
    <3> QED BY <2>2, <3>1
  <2> HIDE DEF s, numbers
  <2>4. shown = {1, 2, 3, 4, total} BY <1>2, <2>1, <2>3 DEF Ellipsis
  <2>5. (1..total) \cap {1, current - 1, current, current + 1, total} \subseteq shown
    BY <1>2, <2>4
  <2>6. shown \subseteq 1..total BY <1>2, <2>4
  <2>7. ASSUME NEW i \in 1..Len(s) - 1
        PROVE  IF s[i] = Ellipsis THEN s[i + 1] > s[i - 1] + 1
               ELSE s[i + 1] \in {Ellipsis, s[i] + 1}
    <3>1. i = 1 \/ i = 2 \/ i = 3 \/ i = 4 \/ i = 5 BY <2>2
    <3> QED BY <1>2, <2>2, <3>1 DEF Ellipsis
  <2> HIDE DEF shown
  <2> QED BY <2>1, <2>5, <2>6, <2>7
<1>3. ASSUME total > 5, current > 3, current >= total - 2 PROVE Goal
  <2> DEFINE s == <<1, Ellipsis, total - 3, total - 2, total - 1, total>>
  <2>1. numbers = s BY <1>3 DEF PageNumbers
  <2>2. /\ Len(s) = 6 /\ s[1] = 1 /\ s[2] = 0 /\ s[3] = total - 3 /\ s[4] = total - 2
        /\ s[5] = total - 1 /\ s[6] = total /\ DOMAIN s = 1..6
    BY DEF Ellipsis
  <2>3. ToSet(s) = {1, 0, total - 3, total - 2, total - 1, total}
    <3> HIDE DEF s
    <3>1. ToSet(s) = {s[i] : i \in 1..6} BY <2>2 DEF ToSet
    <3> QED BY <2>2, <3>1
  <2> HIDE DEF s, numbers
  <2>4. shown = {1, total - 3, total - 2, total - 1, total} BY <1>3, <2>1, <2>3 DEF Ellipsis
  <2>5. (1..total) \cap {1, current - 1, current, current + 1, total} \subseteq shown
    BY <1>3, <2>4
  <2>6. shown \subseteq 1..total BY <1>3, <2>4
  <2>7. ASSUME NEW i \in 1..Len(s) - 1
        PROVE  IF s[i] = Ellipsis THEN s[i + 1] > s[i - 1] + 1
               ELSE s[i + 1] \in {Ellipsis, s[i] + 1}
    <3>1. i = 1 \/ i = 2 \/ i = 3 \/ i = 4 \/ i = 5 BY <2>2
    <3> QED BY <1>3, <2>2, <3>1 DEF Ellipsis
  <2> HIDE DEF shown
  <2> QED BY <2>1, <2>5, <2>6, <2>7
<1>4. ASSUME total > 5, current > 3, current < total - 2 PROVE Goal
  <2> DEFINE s == <<1, Ellipsis, current - 1, current, current + 1, Ellipsis, total>>
  <2>1. numbers = s BY <1>4 DEF PageNumbers
  <2>2. /\ Len(s) = 7 /\ s[1] = 1 /\ s[2] = 0 /\ s[3] = current - 1 /\ s[4] = current
        /\ s[5] = current + 1 /\ s[6] = 0 /\ s[7] = total /\ DOMAIN s = 1..7
    BY DEF Ellipsis
  <2>3. ToSet(s) = {1, 0, current - 1, current, current + 1, total}
    <3> HIDE DEF s
    <3>1. ToSet(s) = {s[i] : i \in 1..7} BY <2>2 DEF ToSet
    <3> QED BY <2>2, <3>1
  <2> HIDE DEF s, numbers
  <2>4. shown = {1, current - 1, current, current + 1, total} BY <1>4, <2>1, <2>3 DEF Ellipsis
  <2>5. (1..total) \cap {1, current - 1, current, current + 1, total} \subseteq shown
    BY <1>4, <2>4
  <2>6. shown \subseteq 1..total BY <1>4, <2>4
  <2>7. ASSUME NEW i \in 1..Len(s) - 1
        PROVE  IF s[i] = Ellipsis THEN s[i + 1] > s[i - 1] + 1
               ELSE s[i + 1] \in {Ellipsis, s[i] + 1}
    <3>1. i = 1 \/ i = 2 \/ i = 3 \/ i = 4 \/ i = 5 \/ i = 6 BY <2>2
    <3> QED BY <1>4, <2>2, <3>1 DEF Ellipsis
  <2> HIDE DEF shown
  <2> QED BY <2>1, <2>5, <2>6, <2>7
<1>5. Goal
  <2> HIDE DEF Goal
  <2> QED BY <1>1, <1>2, <1>3, <1>4
<1> QED BY <1>5

\* So the numbers of every list are sound.
LEMMA PagingShows == paging \in PagingState => PageNumbersSound
<1> SUFFICES ASSUME paging \in PagingState PROVE PageNumbersSound OBVIOUS
<1>1. paging.items \in 0..MaxItems /\ paging.page \in 1..MaxPages + 2 BY DEF PagingState
<1>2. PagesOf(paging.items) \in Nat /\ paging.page \in Nat \ {0} BY <1>1, PagesWithin
<1> QED BY <1>2, NumbersSound DEF PageNumbersSound

-----------------------------------------------------------------------------
(* The settings.                                                           *)

\* No operation leaves the type of the settings.
LEMMA SettingsTyped ==
  ASSUME settings \in SettingsState, [SettingsNext]_settings
  PROVE  settings' \in SettingsState
<1> USE DEF SettingsState
<1>0. Len(Tabs) = 4 BY DEF Tabs
<1>1. ASSUME NEW tab \in 1..Len(Tabs), settings' = [settings EXCEPT !.tab = tab]
      PROVE  settings' \in SettingsState
  BY <1>1
<1>2. ASSUME NEW tab \in 1..Len(Tabs), ArrowRight(tab)
      PROVE  settings' \in SettingsState
  <2> DEFINE t == (tab % Len(Tabs)) + 1
  <2>1. t \in 1..Len(Tabs) BY <1>0
  <2> QED BY <1>1, <1>2, <2>1 DEF ArrowRight, ChooseTab
<1>3. ASSUME NEW tab \in 1..Len(Tabs), ArrowLeft(tab)
      PROVE  settings' \in SettingsState
  <2> DEFINE t == ((tab + Len(Tabs) - 2) % Len(Tabs)) + 1
  <2>1. t \in 1..Len(Tabs) BY <1>0
  <2> QED BY <1>1, <1>3, <2>1 DEF ArrowLeft, ChooseTab
<1>4. ASSUME NEW tab \in 1..Len(Tabs), ChooseTab(tab)
      PROVE  settings' \in SettingsState
  BY <1>1, <1>4 DEF ChooseTab
<1>5. ASSUME NEW value \in Settings, ChangeSettings(value)
      PROVE  settings' \in SettingsState
  BY <1>5 DEF ChangeSettings
<1>6. CASE SaveSettings
  BY <1>6 DEF SaveSettings
<1>7. CASE SettingsSaved
  BY <1>7 DEF SettingsSaved
<1>8. CASE UNCHANGED settings BY <1>8
<1> QED BY <1>2, <1>3, <1>4, <1>5, <1>6, <1>7, <1>8 DEF SettingsNext


-----------------------------------------------------------------------------
(* The history.                                                            *)

\* The filters there are, and that no filter has more pages than none has.
LEMMA FilteredPages ==
  /\ NoFilter \in Filter
  /\ MaxPage \in Nat \ {0}
  /\ \A filter \in Filter : TotalPages(filter) \in 0..MaxPage
<1>1. /\ PER_PAGE \in Nat \ {0} /\ Len(Transactions) \in Nat \ {0} BY HistoryAssumption
<1>2. NoFilter \in Filter BY DEF NoFilter, Filter, Types, Statuses
<1>3. IsFiniteSet(Ids) /\ Cardinality(Ids) = Len(Transactions)
  BY <1>1, FS_Interval DEF Ids
<1>4. Filtered(NoFilter) = Ids BY DEF Filtered, NoFilter
<1>5. ASSUME NEW filter
      PROVE  TotalPages(filter) \in Nat /\ TotalPages(filter) <= MaxPage
  <2> DEFINE n == Cardinality(Filtered(filter))
             m == Cardinality(Ids)
             a == n + PER_PAGE - 1
             b == m + PER_PAGE - 1
  <2>1. Filtered(filter) \subseteq Ids BY DEF Filtered
  <2>2. n \in Nat /\ m \in Nat /\ n <= m
    BY <1>3, <2>1, FS_Subset, FS_CardinalityType
  <2> HIDE DEF n, m
  <2>3. a \in Nat /\ b \in Nat /\ a <= b BY <1>1, <2>2
  <2> HIDE DEF a, b
  <2>4. a \div PER_PAGE <= b \div PER_PAGE /\ a \div PER_PAGE \in Nat
    BY <1>1, <2>3, DivisionGrows, DivisionBounds
  <2>5. TotalPages(filter) = a \div PER_PAGE /\ MaxPage = b \div PER_PAGE
    BY <1>4 DEF TotalPages, MaxPage, a, b, n, m
  <2> QED BY <2>4, <2>5
<1>6. MaxPage \in Nat \ {0}
  <2> DEFINE b == Len(Transactions) + PER_PAGE - 1
  <2>1. MaxPage = b \div PER_PAGE BY <1>3, <1>4 DEF TotalPages, MaxPage
  <2>2. b \in Nat /\ PER_PAGE <= b BY <1>1
  <2> HIDE DEF b
  <2>3. PER_PAGE \div PER_PAGE <= b \div PER_PAGE /\ b \div PER_PAGE \in Nat
    BY <1>1, <2>2, DivisionGrows, DivisionBounds
  <2>4. PER_PAGE \div PER_PAGE = 1 BY <1>1
  <2> QED BY <2>1, <2>3, <2>4
<1>7. \A filter \in Filter : TotalPages(filter) \in 0..MaxPage BY <1>5, <1>6
<1> QED BY <1>2, <1>6, <1>7

\* A page of the filter, or the first.
PageIsThere(view) == view.page = 1 \/ view.page <= TotalPages(view.filter)

\* The panel of a retry: none runs after the third attempt.
PanelGood(panel) == panel \in Panel /\ (panel.running = TRUE => panel.attempts <= 2)

\* Retries under way, of the panel on screen and of those that are gone, and
\* dismissals that are due.
Pending(panel, orphans, dismissals) ==
  orphans + dismissals + (IF panel.running = TRUE THEN 1 ELSE 0) <= MaxOrphans

\* What every step of the history preserves.
HistoryGood(h) ==
  /\ h \in HistoryState
  /\ PanelGood(h.panel)
  /\ Pending(h.panel, h.orphans, h.dismissals)
  /\ h.raced = TRUE \/ PageIsThere(h.shown)
  /\ h.waiting = TRUE /\ h.raced # TRUE => h.next.page = 1

\* What a change of the history that may take the panel away leaves.
LEMMA HistoryKept ==
  ASSUME HistoryGood(history), NEW new, HistoryGood(new), new.panel = history.panel,
         new.orphans = history.orphans, HistoryTo(new)
  PROVE  HistoryGood(history')
<1> DEFINE p == FreshPanel
<1>1. PanelGood(p) /\ p.running = FALSE BY DEF PanelGood, Panel, FreshPanel
<1>2. CASE history' = new BY <1>2
<1>3. ASSUME NEW o \in 0..MaxOrphans, history' = [new EXCEPT !.panel = p, !.orphans = o],
             o = new.orphans \/ (o = new.orphans + 1 /\ new.panel.running = TRUE)
      PROVE  HistoryGood(history')
  <2> HIDE DEF p
  <2>1. Pending(p, o, new.dismissals)
    BY <1>1, <1>3, HistoryAssumption DEF Pending, HistoryGood, HistoryState
  <2> QED BY <1>1, <1>3, <2>1 DEF HistoryGood, HistoryState, PanelGood
<1>4. CASE history' # new
  <2> DEFINE o == IF PanelShown(history) /\ history.panel.running
                  THEN new.orphans + 1 ELSE new.orphans
  <2>1. /\ history' = Repaneled(history, new) /\ history'.orphans <= MaxOrphans
    BY DEF HistoryTo
  <2>2. history' = [new EXCEPT !.panel = p, !.orphans = o]
    BY <1>4, <2>1 DEF Repaneled
  <2>3. /\ new.orphans \in 0..MaxOrphans /\ new.panel.running \in BOOLEAN
        /\ history.panel.running \in BOOLEAN
    BY DEF HistoryGood, HistoryState, Panel
  <2>4. o = new.orphans \/ (o = new.orphans + 1 /\ new.panel.running = TRUE)
    BY <2>3
  <2>5. o <= MaxOrphans /\ o \in Nat
    <3>1. history'.orphans = o
      <4> HIDE DEF o, p
      <4> QED BY <2>2 DEF HistoryGood, HistoryState
    <3>2. o \in Nat BY <2>3, <2>4
    <3> QED BY <2>1, <3>1, <3>2
  <2>6. o \in 0..MaxOrphans BY <2>5, HistoryAssumption
  <2> HIDE DEF o, p
  <2> QED BY <1>3, <2>2, <2>4, <2>6
<1> QED BY <1>2, <1>4

\* A view that the transition starts from or leads to.
LEMMA ViewsTyped ==
  ASSUME HistoryGood(history)
  PROVE  Base \in Shown /\ FirstPage \in Shown
<1>1. FirstPage \in Shown BY FilteredPages DEF FirstPage, Shown
<1> QED BY <1>1 DEF HistoryGood, HistoryState, Base

\* A transition begins, of a view at the first page.
LEMMA FilteringKeeps ==
  ASSUME HistoryGood(history), NEW view \in Shown, view.page = 1, Filtering(view)
  PROVE  HistoryGood(history')
<1>1. history' = [history EXCEPT !.waiting = TRUE, !.next = view] BY DEF Filtering
<1> HIDE DEF Shown
<1> QED BY <1>1 DEF HistoryGood, HistoryState

\* A page of the filter on screen is chosen.
LEMMA PagingKeeps ==
  ASSUME HistoryGood(history), NEW move, move \in [1..MaxPage -> 1..MaxPage], Paging(move),
         history.raced = TRUE \/ history.waiting = TRUE
           \/ PageIsThere([history.shown EXCEPT !.page = move[@]])
  PROVE  HistoryGood(history')
<1> DEFINE w == history.waiting
           s == [history.shown EXCEPT !.page = move[@]]
           n == IF w THEN [history.next EXCEPT !.page = move[@]] ELSE history.next
           r == history.raced \/ w
           new == [history EXCEPT !.shown = s, !.next = n, !.raced = r]
<1>t. /\ history.shown \in Shown /\ history.next \in Shown /\ w \in BOOLEAN
      /\ history.raced \in BOOLEAN /\ r \in BOOLEAN
  BY DEF HistoryGood, HistoryState
<1>1. HistoryTo(new)
  <2> DEFINE q == IF w THEN move[history.next.page] ELSE history.next.page
  <2>1. HistoryTo([history EXCEPT !.shown.page = move[history.shown.page],
                                  !.next.page = q, !.raced = r])
    BY DEF Paging
  <2>2. [history EXCEPT !.shown.page = move[history.shown.page],
                        !.next.page = q, !.raced = r] = new
    BY <1>t DEF HistoryGood, HistoryState, Shown
  <2> QED BY <2>1, <2>2
<1>2. s \in Shown /\ n \in Shown BY <1>t DEF Shown
<1>3. /\ r = TRUE \/ PageIsThere(s)
      /\ w = TRUE /\ r # TRUE => n.page = 1
  BY <1>t
<1> HIDE DEF s, n, r
<1>4. /\ HistoryGood(new) /\ new.panel = history.panel /\ new.orphans = history.orphans
  BY <1>t, <1>2, <1>3 DEF HistoryGood, HistoryState
<1> HIDE DEF new
<1> QED BY <1>1, <1>4, HistoryKept

\* The buttons of the pagination lead to pages of the filter on screen.
LEMMA ChoosePageKeeps ==
  ASSUME HistoryGood(history), ChoosePage
  PROVE  HistoryGood(history')
<1> DEFINE pages == TotalPages(history.shown.filter)
           page == history.shown.page
<1>t. /\ history.shown \in Shown /\ page \in 1..MaxPage /\ history.shown.filter \in Filter
      /\ history.raced \in BOOLEAN /\ history.waiting \in BOOLEAN
  BY DEF HistoryGood, HistoryState, Shown
<1>1. pages \in 0..MaxPage /\ MaxPage \in Nat \ {0} /\ pages > 1
  BY <1>t, FilteredPages DEF ChoosePage
<1>2. ASSUME NEW move \in [1..MaxPage -> 1..MaxPage], Paging(move),
             history.raced # TRUE /\ history.waiting # TRUE =>
               move[page] = 1 \/ move[page] <= pages
      PROVE  HistoryGood(history')
  <2> DEFINE s == [history.shown EXCEPT !.page = move[page]]
  <2>1. s.page = move[page] /\ s.filter = history.shown.filter BY <1>t DEF Shown
  <2> HIDE DEF s
  <2>2. history.raced = TRUE \/ history.waiting = TRUE \/ PageIsThere(s)
    BY <1>2, <2>1 DEF PageIsThere
  <2> QED BY <1>2, <2>2, PagingKeeps DEF s
<1>3. history.raced # TRUE => page = 1 \/ page <= pages
  BY DEF HistoryGood, PageIsThere
<1>4. ASSUME NEW p \in PageChoices, Paging(GoTo(p))
      PROVE  HistoryGood(history')
  <2>1. p \in 1..pages BY <1>4 DEF PageChoices
  <2>2. GoTo(p) \in [1..MaxPage -> 1..MaxPage] /\ GoTo(p)[page] = p
    BY <1>t, <1>1, <2>1 DEF GoTo
  <2>3. p <= pages BY <1>1, <2>1
  <2> HIDE DEF pages, page
  <2> QED BY <1>2, <1>4, <2>2, <2>3
<1>5. CASE Paging(Prev)
  <2>1. Prev \in [1..MaxPage -> 1..MaxPage] BY <1>1 DEF Prev
  <2>2. Prev[page] = IF page > 1 THEN page - 1 ELSE 1 BY <1>t DEF Prev
  <2>3. history.raced # TRUE => Prev[page] = 1 \/ Prev[page] <= pages
    BY <1>t, <1>1, <1>3, <2>2
  <2> HIDE DEF pages, page
  <2> QED BY <1>2, <1>5, <2>1, <2>3
<1>6. CASE Paging(Following)
  <2>1. Following \in [1..MaxPage -> 1..MaxPage]
    BY <1>1 DEF Following
  <2>2. Following[page] <= pages BY <1>t, <1>1 DEF Following
  <2> HIDE DEF pages, page
  <2> QED BY <1>2, <1>6, <2>1, <2>2
<1> QED BY <1>4, <1>5, <1>6 DEF ChoosePage

\* What the retry panel and the timers that are left of it change.
LEMMA RetryingKeeps ==
  ASSUME HistoryGood(history), RetryTransaction \/ RetrySettled \/ OrphanSettled
  PROVE  HistoryGood(history')
<1> DEFINE d == history.dismissals
           o == history.orphans
<1>t. /\ history.panel \in Panel /\ o \in Nat /\ d \in Nat /\ MaxOrphans \in Nat
      /\ o <= MaxOrphans /\ d <= MaxOrphans
  BY HistoryAssumption DEF HistoryGood, HistoryState
<1>1. ASSUME NEW p, PanelGood(p), NEW e \in Nat, NEW c \in Nat, Pending(p, e, c),
             history' = [history EXCEPT !.panel = p, !.orphans = e, !.dismissals = c]
      PROVE  HistoryGood(history')
  <2>1. e \in 0..MaxOrphans /\ c \in 0..MaxOrphans
    BY <1>t, <1>1 DEF Pending
  <2> QED BY <1>1, <2>1 DEF HistoryGood, HistoryState, PanelGood
<1>2. CASE RetryTransaction
  <2> DEFINE p == [history.panel EXCEPT !.isRetrying = TRUE, !.running = TRUE, !.error = FALSE]
  <2>1. /\ p \in Panel /\ p.running = TRUE /\ p.attempts = history.panel.attempts
    BY <1>t DEF Panel
  <2>2. history.panel.attempts < 3 /\ history.panel.attempts \in Nat
    BY <1>t, <1>2 DEF RetryTransaction, Panel
  <2>3. history' = [history EXCEPT !.panel = p, !.orphans = o, !.dismissals = d]
    BY <1>2 DEF RetryTransaction, HistoryGood, HistoryState, Panel
  <2>4. o + d < MaxOrphans BY <1>2 DEF RetryTransaction
  <2> HIDE DEF p, o, d
  <2>5. PanelGood(p) BY <2>1, <2>2 DEF PanelGood
  <2>6. Pending(p, o, d) BY <1>t, <2>1, <2>4 DEF Pending
  <2> QED BY <1>1, <1>t, <2>3, <2>5, <2>6
<1>3. CASE RetrySettled
  <2>t. history.panel.running = TRUE /\ history.panel.attempts <= 2
    BY <1>3, <1>t DEF RetrySettled, HistoryGood, PanelGood, Panel
  <2>p. Pending(history.panel, o, d) BY DEF HistoryGood
  <2>1. ASSUME NEW p, p \in Panel, p.running = FALSE, NEW c \in {d, d + 1},
               history' = [history EXCEPT !.panel = p, !.dismissals = c]
        PROVE  HistoryGood(history')
    <3>1. PanelGood(p) BY <2>1 DEF PanelGood
    <3>2. Pending(p, o, c) /\ c \in Nat BY <1>t, <2>t, <2>p, <2>1 DEF Pending
    <3>3. history' = [history EXCEPT !.panel = p, !.orphans = o, !.dismissals = c]
      BY <2>1 DEF HistoryGood, HistoryState
    <3> HIDE DEF o, d
    <3> QED BY <1>1, <1>t, <3>1, <3>2, <3>3
  <2>2. CASE history' = [history EXCEPT !.panel = RetrySucceeded(@), !.dismissals = @ + 1]
    <3> DEFINE a == history.panel.attempts + 1
               p == RetrySucceeded(history.panel)
               c == d + 1
    <3>1. a \in 0..3 BY <1>t, <2>t DEF Panel
    <3>2. p = [history.panel EXCEPT !.isRetrying = FALSE, !.running = FALSE,
                                    !.success = TRUE, !.attempts = a]
      BY DEF RetrySucceeded
    <3> HIDE DEF a, p
    <3>3. p \in Panel /\ p.running = FALSE BY <1>t, <3>1, <3>2 DEF Panel
    <3>4. c \in {d, d + 1} OBVIOUS
    <3>5. history' = [history EXCEPT !.panel = p, !.dismissals = c]
      BY <2>2 DEF p, HistoryGood, HistoryState
    <3> HIDE DEF c
    <3> QED BY <2>1, <3>3, <3>4, <3>5
  <2>3. CASE history' = [history EXCEPT !.panel = RetryFailed(@)]
    <3> DEFINE p == RetryFailed(history.panel)
    <3>1. p \in Panel /\ p.running = FALSE BY <1>t DEF Panel, RetryFailed
    <3> HIDE DEF p
    <3>2. history' = [history EXCEPT !.panel = p, !.dismissals = d]
      BY <2>3 DEF HistoryGood, HistoryState, p
    <3>3. d \in {d, d + 1} OBVIOUS
    <3> QED BY <2>1, <3>1, <3>2, <3>3
  <2> QED BY <1>3, <2>2, <2>3 DEF RetrySettled
<1>4. CASE OrphanSettled
  <2>p. Pending(history.panel, o, d) /\ PanelGood(history.panel) BY DEF HistoryGood
  <2> DEFINE e == o - 1
  <2>1. ASSUME NEW c \in {d, d + 1},
               history' = [history EXCEPT !.orphans = e, !.dismissals = c]
        PROVE  HistoryGood(history')
    <3>1. o > 0 BY <1>4 DEF OrphanSettled
    <3>2. e \in Nat /\ c \in Nat BY <1>t, <2>1, <3>1
    <3>3. Pending(history.panel, e, c) BY <1>t, <2>p, <2>1, <3>1 DEF Pending
    <3>4. history' = [history EXCEPT !.panel = history.panel, !.orphans = e, !.dismissals = c]
      BY <2>1 DEF HistoryGood, HistoryState
    <3> HIDE DEF e, d
    <3> QED BY <1>1, <2>p, <3>2, <3>3, <3>4
  <2>2. CASE history' = [history EXCEPT !.orphans = @ - 1, !.dismissals = @ + 1]
    BY <2>1, <2>2
  <2>3. CASE history' = [history EXCEPT !.orphans = @ - 1]
    <3>1. history' = [history EXCEPT !.orphans = e, !.dismissals = d]
      BY <2>3 DEF HistoryGood, HistoryState
    <3> QED BY <2>1, <3>1
  <2> QED BY <1>4, <2>2, <2>3 DEF OrphanSettled
<1> QED BY <1>2, <1>3, <1>4

\* Each operation of the page of past transactions keeps it.
LEMMA HistoryStep ==
  ASSUME HistoryGood(history), [HistoryNext]_history
  PROVE  HistoryGood(history')
<1>v. Base \in Shown /\ FirstPage \in Shown BY ViewsTyped
<1>f. NoFilter \in Filter /\ MaxPage \in Nat \ {0} BY FilteredPages
<1>1. CASE HistoryLoaded
  <2> DEFINE new == [history EXCEPT !.loading = FALSE]
  <2>1. /\ HistoryGood(new) /\ new.panel = history.panel /\ new.orphans = history.orphans
    BY DEF HistoryGood, HistoryState
  <2>2. HistoryTo(new) BY <1>1 DEF HistoryLoaded
  <2> HIDE DEF new
  <2> QED BY <2>1, <2>2, HistoryKept
<1>2. ASSUME NEW filter \in Filter, Filtering(Refiltered(Base, filter))
      PROVE  HistoryGood(history')
  <2> DEFINE view == Refiltered(Base, filter)
  <2>1. view \in Shown /\ view.page = 1
    <3> DEFINE b == Base
    <3>1. b \in Shown /\ 1 \in 1..MaxPage BY <1>v, <1>f
    <3> HIDE DEF b
    <3>2. Refiltered(b, filter) \in Shown BY <3>1 DEF Refiltered, Shown
    <3>3. Refiltered(b, filter).page = 1 BY <3>1 DEF Refiltered, Shown
    <3> QED BY <3>2, <3>3 DEF b
  <2> HIDE DEF view
  <2> QED BY <1>2, <2>1, FilteringKeeps DEF view
<1>3. ASSUME NEW filter \in Filter, ChangeFilter(filter)
      PROVE  HistoryGood(history')
  BY <1>2, <1>3 DEF ChangeFilter
<1>4. CASE ClearFilters
  BY <1>2, <1>4, <1>f DEF ClearFilters
<1>5. CASE ClearFromEmpty
  <2> DEFINE view == [Base EXCEPT !.filter = NoFilter, !.page = 1]
  <2>1. view \in Shown /\ view.page = 1
    <3> DEFINE b == Base
    <3>1. b \in Shown /\ 1 \in 1..MaxPage BY <1>v, <1>f
    <3> HIDE DEF b
    <3>2. [b EXCEPT !.filter = NoFilter, !.page = 1] \in Shown BY <1>f, <3>1 DEF Shown
    <3>3. [b EXCEPT !.filter = NoFilter, !.page = 1].page = 1 BY <3>1 DEF Shown
    <3> QED BY <3>2, <3>3 DEF b
  <2>2. Filtering(view) BY <1>5 DEF ClearFromEmpty
  <2> HIDE DEF view
  <2> QED BY <2>1, <2>2, FilteringKeeps
<1>6. CASE FilterRendered
  <2> DEFINE new == [history EXCEPT !.shown = history.next, !.waiting = FALSE, !.next = FirstPage]
  <2>1. history.waiting = TRUE BY <1>6 DEF FilterRendered, HistoryGood, HistoryState
  <2>2. new \in HistoryState
    BY <1>v DEF HistoryGood, HistoryState
  <2>3. /\ new.shown = history.next /\ new.waiting = FALSE /\ new.raced = history.raced
        /\ new.panel = history.panel /\ new.orphans = history.orphans
        /\ new.dismissals = history.dismissals
    BY DEF HistoryGood, HistoryState
  <2>4. HistoryTo(new) BY <1>6 DEF FilterRendered
  <2> HIDE DEF new
  <2>5. HistoryGood(new) BY <2>1, <2>2, <2>3 DEF HistoryGood, PageIsThere
  <2> QED BY <2>3, <2>4, <2>5, HistoryKept
<1>7. CASE ChoosePage BY <1>7, ChoosePageKeeps
<1>8. ASSUME NEW id \in Ids, ToggleDetails(id)
      PROVE  HistoryGood(history')
  <2> DEFINE x == IF history.shown.expanded = id THEN 0 ELSE id
             s == [history.shown EXCEPT !.expanded = x]
             n == IF history.waiting THEN [history.next EXCEPT !.expanded = x] ELSE history.next
             new == [history EXCEPT !.shown = s, !.next = n]
  <2>t. history.shown \in Shown /\ history.next \in Shown /\ history.waiting \in BOOLEAN
    BY DEF HistoryGood, HistoryState
  <2>1. HistoryTo(new)
    <3>1. HistoryTo([history EXCEPT !.shown.expanded = x,
                       !.next.expanded = IF history.waiting THEN x ELSE @])
      BY <1>8 DEF ToggleDetails
    <3>2. [history EXCEPT !.shown.expanded = x,
                          !.next.expanded = IF history.waiting THEN x ELSE @] = new
      <4> HIDE DEF x
      <4> QED BY <2>t DEF HistoryGood, HistoryState, Shown
    <3> QED BY <3>1, <3>2
  <2>2. x \in {0} \cup Ids OBVIOUS
  <2> HIDE DEF x
  <2>3. /\ s \in Shown /\ n \in Shown /\ s.page = history.shown.page
        /\ s.filter = history.shown.filter /\ n.page = history.next.page
    BY <2>t, <2>2 DEF Shown
  <2> HIDE DEF s, n
  <2>4. /\ new \in HistoryState /\ new.shown = s /\ new.next = n /\ new.raced = history.raced
        /\ new.panel = history.panel /\ new.orphans = history.orphans
        /\ new.dismissals = history.dismissals /\ new.waiting = history.waiting
    BY <2>3 DEF HistoryGood, HistoryState
  <2> HIDE DEF new
  <2>5. HistoryGood(new) BY <2>3, <2>4 DEF HistoryGood, PageIsThere
  <2> QED BY <2>1, <2>4, <2>5, HistoryKept
<1>9. ASSUME NEW id \in {0} \cup Ids, NEW c \in 0..MaxOrphans, c <= history.dismissals,
             HistoryTo([history EXCEPT !.dismissals = c, !.retrying = id])
      PROVE  HistoryGood(history')
  <2> DEFINE new == [history EXCEPT !.dismissals = c, !.retrying = id]
  <2>1. /\ new \in HistoryState /\ new.shown = history.shown /\ new.next = history.next
        /\ new.raced = history.raced /\ new.waiting = history.waiting
        /\ new.panel = history.panel /\ new.orphans = history.orphans /\ new.dismissals = c
    BY <1>9 DEF HistoryGood, HistoryState
  <2>2. /\ history.orphans \in Nat /\ history.dismissals \in Nat /\ MaxOrphans \in Nat
    BY HistoryAssumption DEF HistoryGood, HistoryState
  <2> HIDE DEF new
  <2>3. Pending(history.panel, history.orphans, history.dismissals) BY DEF HistoryGood
  <2>4. Pending(new.panel, new.orphans, new.dismissals)
    BY <1>9, <2>1, <2>2, <2>3 DEF Pending
  <2>5. HistoryGood(new) BY <2>1, <2>4 DEF HistoryGood, PageIsThere
  <2> QED BY <1>9, <2>1, <2>5, HistoryKept DEF new
<1>10. history.dismissals \in 0..MaxOrphans /\ 0 \in {0} \cup Ids
  BY DEF HistoryGood, HistoryState
<1>11. ASSUME NEW id \in {0} \cup Ids, HistoryTo([history EXCEPT !.retrying = id])
       PROVE  HistoryGood(history')
  <2> DEFINE c == history.dismissals
  <2>1. [history EXCEPT !.retrying = id] = [history EXCEPT !.dismissals = c, !.retrying = id]
    BY DEF HistoryGood, HistoryState
  <2>2. c <= history.dismissals BY <1>10, HistoryAssumption
  <2> QED BY <1>9, <1>10, <1>11, <2>1, <2>2
<1>12. ASSUME NEW id \in Ids, StartRetry(id)
       PROVE  HistoryGood(history')
  BY <1>11, <1>12 DEF StartRetry
<1>13. CASE Dismiss BY <1>10, <1>11, <1>13 DEF Dismiss
<1>14. CASE AutoDismiss
  <2> DEFINE c == history.dismissals - 1
  <2>1. c \in 0..MaxOrphans /\ c <= history.dismissals
    BY <1>10, <1>14, HistoryAssumption DEF AutoDismiss
  <2>2. HistoryTo([history EXCEPT !.dismissals = c, !.retrying = 0])
    BY <1>14 DEF AutoDismiss
  <2> HIDE DEF c
  <2> QED BY <1>9, <1>10, <2>1, <2>2
<1>15. CASE RetryTransaction \/ RetrySettled \/ OrphanSettled BY <1>15, RetryingKeeps
<1>16. CASE UNCHANGED history BY <1>16
<1> QED
  BY <1>1, <1>3, <1>4, <1>5, <1>6, <1>7, <1>8, <1>12, <1>13, <1>14, <1>15, <1>16
  DEF HistoryNext

\* The history begins with the first page of everything.
LEMMA HistoryBegins == HistoryInit => HistoryGood(history)
<1> SUFFICES ASSUME HistoryInit PROVE HistoryGood(history) OBVIOUS
<1>1. /\ FirstPage \in Shown /\ FirstPage.page = 1 /\ MaxOrphans \in Nat
  BY FilteredPages, HistoryAssumption DEF FirstPage, Shown
<1> DEFINE p == FreshPanel
           f == FirstPage
<1>2. PanelGood(p) /\ p.running = FALSE BY DEF PanelGood, Panel, FreshPanel
<1>3. history = [loading |-> TRUE, shown |-> f, waiting |-> FALSE, next |-> f, retrying |-> 0,
                 panel |-> p, orphans |-> 0, dismissals |-> 0, raced |-> FALSE]
  BY DEF HistoryInit, HistoryMounted
<1>4. f \in Shown /\ f.page = 1 BY <1>1
<1> HIDE DEF p, f
<1>5. p \in Panel /\ 0 \in 0..MaxOrphans BY <1>1, <1>2 DEF PanelGood
<1>6. history \in HistoryState
  <2> HIDE DEF Panel, Shown
  <2> QED BY <1>3, <1>4, <1>5 DEF HistoryState
<1>7. Pending(p, 0, 0) BY <1>1, <1>2 DEF Pending
<1> QED BY <1>2, <1>3, <1>4, <1>6, <1>7 DEF HistoryGood, PageIsThere

\* It gives the type and the page that exists.
LEMMA HistoryShows == HistoryGood(history) => HistoryTypeOK /\ PageExists
<1> SUFFICES ASSUME HistoryGood(history) PROVE HistoryTypeOK /\ PageExists OBVIOUS
<1>1. history.raced \in BOOLEAN BY DEF HistoryGood, HistoryState
<1> QED BY <1>1 DEF HistoryGood, HistoryTypeOK, PageExists, PageIsThere


-----------------------------------------------------------------------------
(* The claim form.                                                         *)

\* The checker's effect, with room for the check it starts.
LEMMA CheckedTyped ==
  ASSUME NEW form \in ClaimState, Len(form.timers) < MaxChecks
  PROVE  Checked(form) \in ClaimState
<1> DEFINE T == SeqOf(ClaimTypes, MaxChecks)
           t == Append(form.timers, form.type)
           e == <<>>
<1>0. MaxChecks \in Nat BY ClaimAssumption
<1>1. form.timers \in Seq(ClaimTypes) /\ form.type \in ClaimTypes
  BY <1>0, Bounded DEF ClaimState
<1>2. t \in T
  <2>1. t \in Seq(ClaimTypes) /\ Len(t) = Len(form.timers) + 1 BY <1>1, AppendProperties
  <2>2. Len(t) <= MaxChecks BY <1>0, <1>1, <2>1, LenProperties
  <2> HIDE DEF t
  <2> QED BY <1>0, <2>1, <2>2, Bounded
<1>3. e \in T BY <1>0, EmptyBounded
<1>4. \/ Checked(form) = [form EXCEPT !.checking = TRUE, !.timers = t]
      \/ Checked(form) = [form EXCEPT !.checks = NoChecks, !.checking = TRUE, !.timers = e]
  BY DEF Checked
<1> HIDE DEF t, e, T
<1> QED BY <1>2, <1>3, <1>4 DEF ClaimState, T

\* Each operation of the form leaves it in its type.
LEMMA ClaimTyped ==
  ASSUME claim \in ClaimState, [ClaimNext]_claim
  PROVE  claim' \in ClaimState
<1> DEFINE T == SeqOf(ClaimTypes, MaxChecks)
<1>0. MaxChecks \in Nat /\ MaxEvidence \in Nat BY ClaimAssumption
<1>t. claim.timers \in Seq(ClaimTypes) /\ claim.timers \in T
  BY <1>0, Bounded DEF ClaimState
<1>e. <<>> \in T BY <1>0, EmptyBounded
<1>1. ASSUME NEW policy \in PolicyIds \cup {NoPolicy}, EnterPolicy(policy)
      PROVE  claim' \in ClaimState
  <2> DEFINE form == [claim EXCEPT !.policy = policy]
  <2> HIDE DEF T
  <2>1. form \in ClaimState /\ form.timers = claim.timers BY <1>1 DEF ClaimState
  <2>2. claim' = Checked(form) /\ Len(claim.timers) < MaxChecks BY <1>1 DEF EnterPolicy
  <2> HIDE DEF form
  <2> QED BY <2>1, <2>2, CheckedTyped
<1>2. ASSUME NEW type \in ClaimTypes, ChooseType(type)
      PROVE  claim' \in ClaimState
  <2> DEFINE form == [claim EXCEPT !.type = type]
  <2> HIDE DEF T
  <2>1. form \in ClaimState /\ form.timers = claim.timers BY <1>2 DEF ClaimState
  <2>2. /\ claim' = Checked(form) \/ claim' = form
        /\ Len(claim.timers) < MaxChecks
    BY <1>2 DEF ChooseType
  <2> HIDE DEF form
  <2> QED BY <2>1, <2>2, CheckedTyped
<1>3. CASE ChecksAnswered
  <2> DEFINE t == Tail(claim.timers)
             c == Head(claim.timers)
  <2>1. claim' = [claim EXCEPT !.timers = t, !.checks = c, !.checking = FALSE]
    BY <1>3 DEF ChecksAnswered
  <2>2. c \in ClaimTypes /\ t \in Seq(ClaimTypes) /\ Len(t) = Len(claim.timers) - 1
    BY <1>3, <1>t, HeadTailProperties DEF ChecksAnswered
  <2>3. t \in T
    <3>1. Len(claim.timers) <= MaxChecks /\ Len(claim.timers) \in Nat
      BY <1>0, <1>t, Bounded, LenProperties
    <3>2. Len(t) <= MaxChecks BY <1>0, <2>2, <3>1
    <3> HIDE DEF t
    <3> QED BY <1>0, <2>2, <3>2, Bounded
  <2> HIDE DEF t, c, T
  <2> QED BY <2>1, <2>2, <2>3 DEF ClaimState, T
<1> HIDE DEF T
<1>4. CASE \E complete \in BOOLEAN : CompleteFields(complete)
  BY <1>4 DEF CompleteFields, ClaimState
<1>5. ASSUME NEW n \in 1..MaxEvidence, claim' = [claim EXCEPT !.evidence = n]
      PROVE  claim' \in ClaimState
  BY <1>5 DEF ClaimState
<1>6. CASE AddEvidence
  <2>1. claim.evidence + 1 \in 1..MaxEvidence BY <1>0, <1>6 DEF AddEvidence, ClaimState
  <2> QED BY <1>5, <1>6, <2>1 DEF AddEvidence
<1>7. CASE RemoveEvidence
  <2>1. claim.evidence - 1 \in 1..MaxEvidence BY <1>0, <1>7 DEF RemoveEvidence, ClaimState
  <2> QED BY <1>5, <1>7, <2>1 DEF RemoveEvidence
<1>8. CASE TogglePreview BY <1>8 DEF TogglePreview, ClaimState
<1>9. CASE SubmitClaim
  <2> DEFINE n == claim.requests + 1
  <2>1. n \in Nat BY DEF ClaimState
  <2>2. claim' = [claim EXCEPT !.status = "loading", !.failed = FALSE, !.requests = n]
    BY <1>9 DEF SubmitClaim
  <2> HIDE DEF n
  <2> QED BY <2>1, <2>2 DEF ClaimState
<1>10. CASE ClaimAccepted \/ ClaimRejected
  <2> DEFINE n == claim.requests - 1
             e == <<>>
  <2>1. n \in Nat BY <1>10 DEF ClaimState, ClaimAccepted, ClaimRejected
  <2>2. \/ claim' = [claim EXCEPT !.status = "success", !.requests = n, !.checks = NoChecks,
                                  !.checking = TRUE, !.timers = e]
        \/ claim' = [claim EXCEPT !.status = "idle", !.failed = TRUE, !.requests = n]
    BY <1>10 DEF ClaimAccepted, ClaimRejected
  <2>3. e \in T BY <1>e
  <2> HIDE DEF n, e
  <2> QED BY <2>1, <2>2, <2>3 DEF ClaimState, T
<1>11. CASE UNCHANGED claim BY <1>11
<1> QED BY <1>1, <1>2, <1>3, <1>4, <1>6, <1>7, <1>8, <1>9, <1>10, <1>11 DEF ClaimNext

\* The form begins in its type.
LEMMA ClaimBegins == claim = ClaimMounted => claim \in ClaimState
<1> SUFFICES ASSUME claim = ClaimMounted PROVE claim \in ClaimState OBVIOUS
<1> DEFINE T == SeqOf(ClaimTypes, MaxChecks)
           e == <<>>
<1>1. MaxChecks \in Nat /\ MaxEvidence \in Nat \ {0} BY ClaimAssumption
<1>2. e \in T /\ 1 \in 1..MaxEvidence BY <1>1, EmptyBounded
<1>3. claim = [policy |-> NoPolicy, type |-> FirstType, complete |-> FALSE, evidence |-> 1,
               preview |-> FALSE, status |-> "idle", failed |-> FALSE, requests |-> 0,
               checks |-> NoChecks, checking |-> TRUE, timers |-> e]
  BY DEF ClaimMounted
<1>4. FirstType \in ClaimTypes /\ 0 \in Nat BY ClaimAssumption
<1>5. NoPolicy \in PolicyIds \cup {NoPolicy} /\ NoChecks \in ClaimTypes \cup {NoChecks}
  OBVIOUS
<1>6. ClaimState =
        [policy : PolicyIds \cup {NoPolicy}, type : ClaimTypes, complete : BOOLEAN,
         evidence : 1..MaxEvidence, preview : BOOLEAN,
         status : {"idle", "loading", "success"}, failed : BOOLEAN, requests : Nat,
         checks : ClaimTypes \cup {NoChecks}, checking : BOOLEAN, timers : T]
  BY DEF ClaimState
<1> HIDE DEF T, e
<1> QED BY <1>2, <1>3, <1>4, <1>5, <1>6


-----------------------------------------------------------------------------
(* The header.                                                             *)

\* The lists there are.
LEMMA ListsTyped ==
  /\ Mock \in NotificationLists /\ NoNotifications \in NotificationLists
  /\ \A list \in NotificationLists, n \in Notifications :
       list # NoNotifications => [list EXCEPT ![n] = TRUE] \in NotificationLists
BY DEF Mock, NotificationLists

\* Each operation of the header leaves it in its type.
LEMMA HeaderTyped ==
  ASSUME header \in HeaderState, BellInSync, [HeaderNext]_header
  PROVE  header' \in HeaderState
<1> DEFINE N == NotificationLists
<1>0. MaxLoads \in Nat BY ShellAssumption
<1>m. Mock \in N /\ NoNotifications \in N BY ListsTyped
<1> HIDE DEF N
<1>t. /\ header.bell \in N /\ header.panel \in N /\ header.loads \in 0..MaxLoads
      /\ HeaderState = [drawer : BOOLEAN, open : BOOLEAN, loading : BOOLEAN,
                        loads : 0..MaxLoads, store : N \cup {Updater}, bell : N, panel : N]
  BY DEF HeaderState, N
<1>1. CASE ToggleDrawer \/ CloseDrawer
  BY <1>1, <1>t DEF ToggleDrawer, CloseDrawer
<1>2. CASE OpenNotifications
  <2> DEFINE l == header.loads + 1
  <2>1. l \in 0..MaxLoads BY <1>0, <1>2, <1>t DEF OpenNotifications
  <2>2. header' = [header EXCEPT !.open = TRUE, !.loading = TRUE, !.loads = l]
    BY <1>2 DEF OpenNotifications
  <2> HIDE DEF l
  <2> QED BY <1>t, <2>1, <2>2
<1>3. CASE CloseNotifications BY <1>3, <1>t DEF CloseNotifications
<1>4. CASE NotificationsLoaded
  <2> DEFINE l == header.loads - 1
             m == Mock
  <2>1. l \in 0..MaxLoads BY <1>0, <1>4, <1>t DEF NotificationsLoaded
  <2>2. header' = [header EXCEPT !.store = m, !.bell = m, !.panel = m, !.loads = l,
                                 !.loading = FALSE]
    <3>1. header' = [[header EXCEPT !.store = m, !.bell = m, !.panel = m]
                       EXCEPT !.loads = header.loads - 1, !.loading = FALSE]
      <4> HIDE DEF m
      <4>1. header' = [Published(header, m) EXCEPT !.loads = @ - 1, !.loading = FALSE]
        BY <1>4 DEF NotificationsLoaded, m
      <4>2. Published(header, m).loads = header.loads BY <1>t DEF Published
      <4> QED BY <1>t, <4>1, <4>2 DEF Published
    <3> QED BY <3>1
  <2>3. m \in N BY <1>m
  <2> HIDE DEF l, m
  <2> QED BY <1>t, <2>1, <2>2, <2>3
<1>5. ASSUME NEW n \in Notifications, MarkAsRead(n)
      PROVE  header' \in HeaderState
  <2> DEFINE list == [header.bell EXCEPT ![n] = TRUE]
  <2>1. header' = [header EXCEPT !.store = Updater, !.bell = list, !.panel = list]
    BY <1>5 DEF MarkAsRead, BellInSync
  <2>2. list \in N
    <3>1. header.bell # NoNotifications BY <1>5 DEF MarkAsRead, ListShown, BellInSync
    <3> QED BY <1>t, <3>1, ListsTyped DEF N
  <2> HIDE DEF list
  <2> QED BY <1>t, <2>1, <2>2
<1>6. CASE ClearAll
  <2> DEFINE m == NoNotifications
  <2>1. header' = [header EXCEPT !.store = m, !.bell = m, !.panel = m]
    BY <1>6 DEF ClearAll, Published
  <2>2. m \in N BY <1>m
  <2> HIDE DEF m
  <2> QED BY <1>t, <2>1, <2>2
<1>7. CASE UNCHANGED header BY <1>7
<1> QED BY <1>1, <1>2, <1>3, <1>4, <1>5, <1>6, <1>7 DEF HeaderNext

\* The header begins in its type.
LEMMA HeaderBegins == header = HeaderMounted => header \in HeaderState
<1> SUFFICES ASSUME header = HeaderMounted PROVE header \in HeaderState OBVIOUS
<1> DEFINE N == NotificationLists
           m == Mock
<1>1. m \in N /\ 0 \in 0..MaxLoads BY ListsTyped, ShellAssumption
<1>2. header = [drawer |-> FALSE, open |-> FALSE, loading |-> FALSE, loads |-> 0,
                store |-> m, bell |-> m, panel |-> m]
  BY DEF HeaderMounted
<1> HIDE DEF N, m
<1> QED BY <1>1, <1>2 DEF HeaderState, N

-----------------------------------------------------------------------------
(* The queue of messages.                                                  *)

\* A list whose elements are told apart by what is in a finite set is not
\* longer than the set is large.
LEMMA NoLongerThan ==
  ASSUME NEW S, IsFiniteSet(S), NEW n \in Nat, NEW f,
         \A i \in 1..n : f[i].id \in S,
         \A i, j \in 1..n : f[i].id = f[j].id => i = j
  PROVE  Cardinality(S) \in Nat /\ n <= Cardinality(S)
<1> DEFINE g == [i \in 1..n |-> f[i].id]
           D == 1..n
<1>1. g \in [D -> S] OBVIOUS
<1>2. \A i, j \in D : g[i] = g[j] => i = j OBVIOUS
<1>3. IsFiniteSet(D) /\ Cardinality(D) = n BY FS_Interval
<1> HIDE DEF g, D
<1>4. g \in Injection(D, S) BY <1>1, <1>2, Zenon DEF Injection, IsInjective
<1>5. Cardinality(D) <= Cardinality(S) BY <1>4, FS_Injection
<1> QED BY <1>3, <1>5, FS_CardinalityType

\* The ids in the queue are distinct.
QueueSound(q) ==
  /\ q \in Seq(Toast)
  /\ \A i, j \in 1..Len(q) : q[i].id = q[j].id => i = j

\* What every step of the queue preserves.
ToastsInv ==
  /\ toasts = [queue |-> toasts.queue, timers |-> toasts.timers]
  /\ QueueSound(toasts.queue)
  /\ toasts.timers \subseteq ToastIds

\* A queue of distinct messages is one of the type.
LEMMA ToastsShow == ToastsInv => toasts \in ToastsState
<1> SUFFICES ASSUME ToastsInv PROVE toasts \in ToastsState OBVIOUS
<1> DEFINE q == toasts.queue
           n == Cardinality(ToastIds)
<1>1. /\ q \in Seq(Toast) /\ Len(q) \in Nat
      /\ \A i \in 1..Len(q) : q[i] \in Toast
      /\ \A i, j \in 1..Len(q) : q[i].id = q[j].id => i = j
  BY DEF ToastsInv, QueueSound
<1>2. \A i \in 1..Len(q) : q[i].id \in ToastIds BY <1>1 DEF Toast
<1> HIDE DEF q
<1>3. n \in Nat /\ Len(q) <= n BY <1>1, <1>2, ShellAssumption, NoLongerThan
<1> HIDE DEF n
<1>4. q \in SeqOf(Toast, n) BY <1>1, <1>3, Bounded
<1> QED BY <1>4 DEF ToastsInv, ToastsState, q, n

\* Each operation of the queue keeps its ids distinct.
LEMMA ToastsStep ==
  ASSUME ToastsInv, [ToastsNext]_toasts
  PROVE  ToastsInv'
<1> DEFINE q == toasts.queue
           t == toasts.timers
           D == 1..Len(q)
<1>o. toasts = [queue |-> q, timers |-> t] BY DEF ToastsInv
<1>t. /\ q \in Seq(Toast) /\ Len(q) \in Nat /\ DOMAIN q = D /\ t \subseteq ToastIds
      /\ \A i \in D : q[i] \in Toast
      /\ \A i, j \in D : q[i].id = q[j].id => i = j
  BY DEF ToastsInv, QueueSound
<1>1. ASSUME NEW status \in ToastStatus, Enqueue(status)
      PROVE  ToastsInv'
  <2>1. PICK id \in ToastIds \ ShownIds :
          toasts' = [toasts EXCEPT !.queue = Append(@, [id |-> id, status |-> status]),
                       !.timers = IF status # "pending" THEN @ \cup {id} ELSE @]
    BY <1>1 DEF Enqueue
  <2> DEFINE e == [id |-> id, status |-> status]
             r == Append(q, e)
             s == IF status # "pending" THEN t \cup {id} ELSE t
  <2>2. toasts' = [queue |-> r, timers |-> s] BY <1>o, <2>1
  <2>3. e \in Toast /\ e.id = id BY DEF Toast
  <2>4. \A i \in D : q[i].id # id
    <3>1. \A i \in D : q[i] \in ToSet(q) BY <1>t DEF ToSet
    <3> QED BY <3>1 DEF ShownIds
  <2>5. s \subseteq ToastIds BY <1>t
  <2> HIDE DEF q, e
  <2>6. /\ r \in Seq(Toast) /\ Len(r) = Len(q) + 1 /\ r[Len(q) + 1] = e
        /\ \A i \in D : r[i] = q[i]
    BY <1>t, <2>3, AppendProperties
  <2> HIDE DEF r, s
  <2>7. ASSUME NEW i \in 1..Len(r), NEW j \in 1..Len(r), r[i].id = r[j].id
        PROVE  i = j
    <3>1. CASE i \in D /\ j \in D BY <1>t, <2>6, <2>7, <3>1
    <3>2. CASE i \in D /\ j = Len(q) + 1 BY <2>3, <2>4, <2>6, <2>7, <3>2
    <3>3. CASE j \in D /\ i = Len(q) + 1 BY <2>3, <2>4, <2>6, <2>7, <3>3
    <3> QED BY <1>t, <2>6, <3>1, <3>2, <3>3
  <2>8. QueueSound(r) BY <2>6, <2>7 DEF QueueSound
  <2> QED BY <2>2, <2>5, <2>8 DEF ToastsInv
<1>2. ASSUME NEW id \in ToastIds, toasts' = DismissedToast(toasts, id)
      PROVE  ToastsInv'
  <2> DEFINE S == {x \in Toast : x.id # id}
             r == Kept(q, S)
             s == t \ {id}
  <2>1. toasts' = [toasts EXCEPT !.queue = r, !.timers = s] BY <1>2 DEF DismissedToast
  <2>2. s \subseteq ToastIds BY <1>t
  <2> HIDE DEF S, q, t
  <2>3. r \in Seq(Toast) BY <1>t, KeptInOrder
  <2>4. PICK m : KeptFrom(r, q, S, Len(q), m) BY <1>t, KeptInOrder
  <2> HIDE DEF r, s
  <2>5. toasts' = [queue |-> r, timers |-> s] BY <1>o, <2>1
  <2>6. /\ \A j \in 1..Len(r) : m[j] \in D /\ r[j] = q[m[j]]
        /\ \A j, k \in 1..Len(r) : j < k => m[j] < m[k]
    BY <2>4 DEF KeptFrom
  <2>7. ASSUME NEW i \in 1..Len(r), NEW j \in 1..Len(r), r[i].id = r[j].id
        PROVE  i = j
    <3>1. m[i] = m[j] BY <1>t, <2>6, <2>7
    <3>2. Len(r) \in Nat BY <2>3, LenProperties
    <3>3. m[i] \in Int /\ i \in Int /\ j \in Int BY <1>t, <2>6, <3>2
    <3>4. ~(i < j) /\ ~(j < i) BY <2>6, <3>1, <3>3
    <3> QED BY <3>3, <3>4
  <2>8. QueueSound(r) BY <2>3, <2>7 DEF QueueSound
  <2> QED BY <2>2, <2>5, <2>8 DEF ToastsInv
<1>3. CASE UNCHANGED toasts
  <2>1. toasts' = toasts BY <1>3
  <2> QED BY <2>1 DEF ToastsInv
<1> QED BY <1>1, <1>2, <1>3 DEF ToastsNext, DismissToast, ToastTimer

\* The queue begins empty.
LEMMA ToastsBegin == toasts = ToastsMounted => ToastsInv
<1> DEFINE e == <<>>
<1>1. e \in Seq(Toast) /\ Len(e) = 0 BY EmptySeq
<1>2. ToastsMounted = [queue |-> e, timers |-> {}] BY DEF ToastsMounted
<1> HIDE DEF e
<1>3. QueueSound(e) BY <1>1 DEF QueueSound
<1> QED BY <1>2, <1>3 DEF ToastsInv

-----------------------------------------------------------------------------
(* The address book's type, and that of the optimistic list.               *)

\* Entries with distinct ids are no more than there are ids.
LEMMA EntriesBounded ==
  ASSUME NEW entries, Distinct(entries)
  PROVE  entries \in SeqOf(Entry, Cardinality(EntryIds))
<1> DEFINE n == Cardinality(EntryIds)
<1>1. /\ entries \in Seq(Entry) /\ Len(entries) \in Nat
      /\ \A i \in 1..Len(entries) : entries[i] \in Entry
      /\ \A i, j \in 1..Len(entries) : entries[i].id = entries[j].id => i = j
  BY DEF Distinct
<1>2. \A i \in 1..Len(entries) : entries[i].id \in EntryIds BY <1>1 DEF Entry
<1>3. n \in Nat /\ Len(entries) <= n
  BY <1>1, <1>2, SettingsAssumption, NoLongerThan
<1> HIDE DEF n
<1>4. entries \in SeqOf(Entry, n) BY <1>1, <1>3, Bounded
<1> QED BY <1>4 DEF n

\* Every window has a book.
BookInWindows == book.at = [w \in Windows |-> book.at[w]]

\* The book stays one record for each window.
LEMMA WindowsStay ==
  ASSUME BookInv, BookInWindows, [BookNext]_book
  PROVE  BookInWindows'
<1> DEFINE a == book.at
<1>o. book = [stored |-> book.stored, at |-> a] BY DEF BookInv
<1>t. a = [v \in Windows |-> a[v]] BY DEF BookInWindows
<1> HIDE DEF a
<1>1. ASSUME NEW w \in Windows, NEW new, EntriesChange(w, new)
      PROVE  BookInWindows'
  <2> DEFINE b == [a EXCEPT ![w] = new]
             s == new.entries
  <2>1. book' = [book EXCEPT !.at = b, !.stored = s] \/ book' = [book EXCEPT !.at = b]
    BY <1>1 DEF EntriesChange, InBook, a
  <2>2. b = [v \in Windows |-> b[v]] BY <1>t
  <2> HIDE DEF b, s
  <2>3. book'.at = b BY <1>o, <2>1
  <2> QED BY <2>2, <2>3 DEF BookInWindows
<1>2. ASSUME NEW w \in Windows, NEW new, InBook(w, new)
      PROVE  BookInWindows'
  BY <1>1, <1>2 DEF EntriesChange
<1>3. ASSUME NEW w \in Windows, OpenBook(w) \/ CloseBook(w) \/ StartCreate(w) \/ CancelDraft(w)
      PROVE  BookInWindows'
  BY <1>2, <1>3 DEF OpenBook, CloseBook, StartCreate, CancelDraft
<1>4. ASSUME NEW w \in Windows, StartEdit(w)
      PROVE  BookInWindows'
  BY <1>2, <1>4 DEF StartEdit
<1>5. ASSUME NEW w \in Windows, NEW address, EnterAddress(w, address)
      PROVE  BookInWindows'
  BY <1>2, <1>5 DEF EnterAddress
<1>6. ASSUME NEW w \in Windows, SubmitEntry(w) \/ RemoveEntry(w)
      PROVE  BookInWindows'
  BY <1>1, <1>6 DEF SubmitEntry, RemoveEntry
<1>7. CASE UNCHANGED book
  <2>1. book' = book BY <1>7
  <2> QED BY <2>1 DEF BookInWindows
<1> QED BY <1>3, <1>4, <1>5, <1>6, <1>7 DEF BookNext

\* The book begins so.
LEMMA WindowsBegin == book = BookMounted => BookInWindows
<1> DEFINE a == [w \in Windows |-> ClosedBook]
           e == <<>>
<1>1. a = [w \in Windows |-> a[w]] OBVIOUS
<1>2. BookMounted = [stored |-> e, at |-> a] BY DEF BookMounted
<1> HIDE DEF a, e
<1> QED BY <1>1, <1>2 DEF BookInWindows

\* Such a book is in its type.
LEMMA BookShows == BookInv /\ BookInWindows => book \in BookState
<1> SUFFICES ASSUME BookInv, BookInWindows PROVE book \in BookState OBVIOUS
<1> DEFINE E == SeqOf(Entry, Cardinality(EntryIds))
<1>1. book.stored \in E BY EntriesBounded DEF BookInv
<1>2. ASSUME NEW w \in Windows
      PROVE  book.at[w] \in Book
  <2>1. BookSound(book.at[w]) BY DEF BookInv
  <2>2. book.at[w].entries \in E BY <2>1, EntriesBounded DEF BookSound
  <2> HIDE DEF E
  <2> QED BY <2>1, <2>2 DEF BookSound, IsBook, Book, E
<1>3. book.at \in [Windows -> Book]
  <2>1. book.at = [w \in Windows |-> book.at[w]] BY DEF BookInWindows
  <2> QED BY <1>2, <2>1
<1> HIDE DEF E
<1> QED BY <1>1, <1>3 DEF BookInv, BookState, E

\* The requests under way for an item are counted within the bound.
RequestsTyped == optimistic.requests \in [NewIds -> 0..MaxRequests]

\* Each operation of the list keeps the count.
LEMMA RequestsStep ==
  ASSUME OptimisticInv, RequestsTyped, [OptimisticNext]_optimistic
  PROVE  RequestsTyped'
<1> DEFINE items == optimistic.items
           r == optimistic.requests
<1>0. MaxRequests \in Nat BY HooksAssumption
<1>o. optimistic = [items |-> items, requests |-> r] BY DEF OptimisticInv
<1>t. r \in [NewIds -> 0..MaxRequests] BY DEF RequestsTyped
<1> HIDE DEF items, r
<1>1. ASSUME NEW id \in NewIds, NEW n \in 0..MaxRequests, NEW new,
             optimistic' = [optimistic EXCEPT !.requests[id] = n, !.items = new]
      PROVE  RequestsTyped'
  <2> DEFINE s == [r EXCEPT ![id] = n]
  <2>1. s \in [NewIds -> 0..MaxRequests] BY <1>t
  <2>2. optimistic' = [optimistic EXCEPT !.requests = s, !.items = new] BY <1>1 DEF r
  <2> HIDE DEF s
  <2>3. optimistic'.requests = s BY <1>o, <2>2
  <2> QED BY <2>1, <2>3 DEF RequestsTyped
<1>2. ASSUME NEW id \in NewIds, AddOptimistic(id)
      PROVE  RequestsTyped'
  <2> DEFINE n == optimistic.requests[id] + 1
             new == <<[id |-> id, optimisticStatus |-> "pending", optimisticId |-> id]>>
                      \o optimistic.items
  <2>1. n \in 0..MaxRequests BY <1>0, <1>2, <1>t DEF AddOptimistic, r
  <2>2. optimistic' = [optimistic EXCEPT !.requests[id] = n, !.items = new]
    BY <1>2 DEF AddOptimistic
  <2> HIDE DEF n, new
  <2> QED BY <1>1, <2>1, <2>2
<1>3. ASSUME NEW id \in NewIds, ConfirmItem(id)
      PROVE  RequestsTyped'
  <2> DEFINE n == optimistic.requests[id] - 1
             new == Confirmed(id)
  <2>1. n \in 0..MaxRequests BY <1>0, <1>3, <1>t DEF ConfirmItem, r
  <2>2. optimistic' = [optimistic EXCEPT !.requests[id] = n, !.items = new]
    BY <1>3 DEF ConfirmItem
  <2> HIDE DEF n, new
  <2> QED BY <1>1, <2>1, <2>2
<1>4. ASSUME NEW id \in NewIds, RejectItem(id)
      PROVE  RequestsTyped'
  <2>1. PICK n \in {optimistic.requests[id] - 1, optimistic.requests[id]} :
          optimistic' = [optimistic EXCEPT !.requests[id] = n,
                                           !.items = Resolved(id, "error", id)]
    BY <1>4 DEF RejectItem
  <2> DEFINE new == Resolved(id, "error", id)
  <2>2. n \in 0..MaxRequests BY <1>0, <1>4, <1>t, <2>1 DEF RejectItem, r
  <2> HIDE DEF new
  <2> QED BY <1>1, <2>1, <2>2 DEF new
<1>5. ASSUME NEW id \in ItemIds, RemoveItem(id)
      PROVE  RequestsTyped'
  <2>1. PICK new : optimistic' = [optimistic EXCEPT !.items = new]
    BY <1>5 DEF RemoveItem
  <2>2. optimistic'.requests = r BY <1>o, <2>1
  <2> QED BY <1>t, <2>2 DEF RequestsTyped
<1>6. CASE UNCHANGED optimistic
  <2>1. optimistic' = optimistic BY <1>6
  <2> QED BY <2>1 DEF RequestsTyped
<1> QED BY <1>2, <1>3, <1>4, <1>5, <1>6 DEF OptimisticNext

\* Such a list is in its type.
LEMMA OptimisticShows == OptimisticInv /\ RequestsTyped => optimistic \in OptimisticLists
<1> SUFFICES ASSUME OptimisticInv, RequestsTyped PROVE optimistic \in OptimisticLists OBVIOUS
<1> DEFINE S == Seq(Entries)
           R == [NewIds -> 0..MaxRequests]
<1>1. optimistic.items \in S BY DEF OptimisticInv, ListSound
<1>2. optimistic.requests \in R BY DEF RequestsTyped
<1>3. optimistic = [items |-> optimistic.items, requests |-> optimistic.requests]
  BY DEF OptimisticInv
<1> HIDE DEF S, R
<1> QED BY <1>1, <1>2, <1>3 DEF OptimisticLists, S, R


-----------------------------------------------------------------------------
(* The files that are taken.                                               *)

\* What the loop over a batch may hold.
Sieve ==
  [accepted : Seq(FileKind), error : {"none", "type", "size", "slots"}, stopped : BOOLEAN]

\* A run of the loop begins with nothing taken.
EmptySieve == [accepted |-> <<>>, error |-> "none", stopped |-> FALSE]

\* One turn of the loop, as a function.
Sifting(slots) == [p \in Sieve \X FileKind |-> Sift(p[1], p[2], slots)]

\* A file leaves the sieve in its type.
LEMMA SiftTyped ==
  ASSUME NEW sieve \in Sieve, NEW file \in FileKind, NEW slots
  PROVE  Sift(sieve, file, slots) \in Sieve
<1> DEFINE S == Seq(FileKind)
           a == Append(sieve.accepted, file)
           x == IF sieve.error = "none" THEN file ELSE sieve.error
           y == IF sieve.error = "none" THEN "slots" ELSE sieve.error
<1>1. sieve.accepted \in S /\ Sieve = [accepted : S, error : {"none", "type", "size", "slots"},
                                       stopped : BOOLEAN]
  BY DEF Sieve
<1>2. a \in S BY <1>1, AppendProperties
<1>3. y \in {"none", "type", "size", "slots"}
      /\ (file # "good" => x \in {"none", "type", "size", "slots"})
  BY DEF Sieve, FileKind
<1>4. \/ Sift(sieve, file, slots) = sieve
      \/ file # "good" /\ Sift(sieve, file, slots) = [sieve EXCEPT !.error = x]
      \/ Sift(sieve, file, slots) = [sieve EXCEPT !.error = y, !.stopped = TRUE]
      \/ Sift(sieve, file, slots) = [sieve EXCEPT !.accepted = a]
  BY DEF Sift
<1> HIDE DEF S, a, x, y
<1> QED BY <1>1, <1>2, <1>3, <1>4

\* The table that the library's fold is made with.
SiftTable(g, batch, slots) ==
  g = [T \in SUBSET DOMAIN batch |->
         IF T = {} THEN EmptySieve
         ELSE Sift(g[T \ {Max(T)}], batch[Max(T)], slots)]

\* The library's fold, written out for the loop.
LEMMA HandledUnfolded ==
  ASSUME NEW batch, NEW slots
  PROVE  HandleFiles(batch, slots) = (CHOOSE g : SiftTable(g, batch, slots))[DOMAIN batch]
BY Zenon DEF HandleFiles, FoldLeft, MapThenFoldSet, SiftTable, EmptySieve

\* A run of the loop over the batch, that ends with `sieve'.
SiftRun(r, batch, slots, sieve) ==
  /\ r \in [0..Len(batch) -> Sieve]
  /\ r[0] = EmptySieve /\ r[Len(batch)] = sieve
  /\ \A i \in 1..Len(batch) : r[i] = Sift(r[i - 1], batch[i], slots)

\* Every batch has such a run.
LEMMA SiftRuns ==
  ASSUME NEW batch \in Seq(FileKind), NEW slots
  PROVE  \E r : SiftRun(r, batch, slots, HandleFiles(batch, slots))
<1> DEFINE A == Sieve
           B == FileKind
           e == EmptySieve
           o == Sifting(slots)
           D == DOMAIN batch
           n == Len(batch)
<1>1. /\ o \in [A \X B -> A]
      /\ \A k \in A, x \in B : o[<<k, x>>] = Sift(k, x, slots)
  BY SiftTyped DEF Sifting
<1>2. n \in Nat /\ D = 1..n /\ batch \in [D -> B]
  <2>1. n \in Nat BY LenProperties
  <2>2. batch \in [1..n -> B] BY LenProperties
  <2>3. D = 1..n BY LenProperties
  <2> HIDE DEF n, D, B
  <2> QED BY <2>1, <2>2, <2>3
<1>4. e \in A
  <2> DEFINE s == <<>>
  <2>1. s \in Seq(FileKind) BY EmptySeq
  <2>2. e = [accepted |-> s, error |-> "none", stopped |-> FALSE] BY DEF EmptySieve
  <2> HIDE DEF s, e
  <2> QED BY <2>1, <2>2 DEF Sieve
<1> HIDE DEF A, B, e, o, D, n
<1>3. D \in SUBSET Int /\ IsFiniteSet(D) BY <1>2, FS_Interval
<1>5. ASSUME NEW T \in SUBSET D, T # {}
      PROVE  Max(T) \in D /\ batch[Max(T)] \in B
  BY <1>2, <1>3, <1>5, GreatestRest
\* A table of one is, on sieves, a table of the other.
<1>6. \E g : SiftTable(g, batch, slots)
  <2>1. PICK g : FoldTable(g, o, e, batch, D) BY <1>3, FoldsExist
  <2>2. FoldValues(g, o, e, batch, D) BY <2>1, FoldAt
  <2>3. \A T \in SUBSET D : g[T] \in A
    <3>1. g[{}] = e BY <2>2 DEF FoldValues
    <3>2. FoldWithin(g, o, e, batch, D, A)
      BY <2>2, <3>1 DEF FoldValues, FoldWithin
    <3>3. Folded(g, D, A) BY <1>1, <1>2, <1>3, <1>4, <3>2, FoldTyped
    <3> QED BY <3>3 DEF Folded
  <2> DEFINE Old(T) == IF T = {} THEN e ELSE o[<<g[T \ {Max(T)}], batch[Max(T)]>>]
             New(T) == IF T = {} THEN e ELSE Sift(g[T \ {Max(T)}], batch[Max(T)], slots)
  <2>4. ASSUME NEW T \in SUBSET D PROVE Old(T) = New(T)
    <3>1. CASE T = {} BY <3>1
    <3>2. CASE T # {}
      <4> DEFINE k == g[T \ {Max(T)}]
                 x == batch[Max(T)]
      <4>1. k \in A /\ x \in B BY <1>5, <2>3, <3>2
      <4> HIDE DEF k, x
      <4>2. o[<<k, x>>] = Sift(k, x, slots) BY <1>1, <4>1
      <4> QED BY <3>2, <4>2 DEF k, x
    <3> QED BY <3>1, <3>2
  <2>5. g = [T \in SUBSET D |-> Old(T)] BY <2>1, Zenon DEF FoldTable
  <2> HIDE DEF Old, New
  <2>6. g = [T \in SUBSET D |-> New(T)] BY <2>4, <2>5, Zenon
  <2> QED BY <2>6, Zenon DEF SiftTable, New, D, e
<1> DEFINE g == CHOOSE h : SiftTable(h, batch, slots)
<1>7. SiftTable(g, batch, slots) BY <1>6
<1>8. HandleFiles(batch, slots) = g[D] BY HandledUnfolded DEF D
<1> HIDE DEF g
<1>9. g[{}] = e BY <1>7 DEF SiftTable, e
<1>10. ASSUME NEW T \in SUBSET D, T # {}, g[T \ {Max(T)}] \in A
       PROVE  g[T] = o[<<g[T \ {Max(T)}], batch[Max(T)]>>]
  <2> DEFINE k == g[T \ {Max(T)}]
             x == batch[Max(T)]
  <2>1. g[T] = Sift(k, x, slots)
    BY <1>7, <1>10, Zenon DEF SiftTable, D
  <2>2. k \in A /\ x \in B BY <1>5, <1>10
  <2> HIDE DEF k, x
  <2>3. o[<<k, x>>] = Sift(k, x, slots) BY <1>1, <2>2
  <2> QED BY <2>1, <2>3 DEF k, x
<1>11. Folded(g, D, A) /\ FoldValues(g, o, e, batch, D)
  <2>1. FoldWithin(g, o, e, batch, D, A) BY <1>9, <1>10 DEF FoldWithin
  <2> QED BY <1>1, <1>2, <1>3, <1>4, <2>1, FoldTyped
<1>12. PICK r : FoldRun(r, o, e, batch, n, A) /\ r[n] = g[1..n]
  <2>1. FoldValues(g, o, e, batch, 1..n) /\ Folded(g, 1..n, A) BY <1>2, <1>11
  <2> QED BY <1>2, <2>1, FoldRuns
<1>13. ASSUME NEW i \in 1..n
       PROVE  r[i] = Sift(r[i - 1], batch[i], slots)
  <2>1. i - 1 \in 0..n /\ batch[i] \in B
    <3>1. i \in D /\ n \in Nat BY <1>2
    <3> QED BY <1>2, <3>1
  <2>2. r[i - 1] \in A /\ r[i] = o[<<r[i - 1], batch[i]>>] BY <1>12, <2>1 DEF FoldRun
  <2> QED BY <1>1, <2>1, <2>2
<1>14. r[n] = HandleFiles(batch, slots) BY <1>2, <1>8, <1>12
<1>15. SiftRun(r, batch, slots, HandleFiles(batch, slots))
  BY <1>12, <1>13, <1>14 DEF SiftRun, FoldRun, n, A, e
<1> QED BY <1>15

\* Lists of good files.
Goods == Seq({"good"})

\* Lists of good files are told apart by their length only.
LEMMA GoodsEqual ==
  ASSUME NEW s \in Goods, NEW t \in Goods, Len(s) = Len(t)
  PROVE  s = t
<1> DEFINE n == Len(s)
           S == {"good"}
<1>1. s \in Seq(S) /\ t \in Seq(S) BY DEF Goods
<1>2. s \in [1..n -> S] /\ t \in [1..n -> S]
  <2>1. s \in [1..Len(s) -> S] /\ t \in [1..Len(t) -> S] BY <1>1, LenProperties
  <2> QED BY <2>1
<1> HIDE DEF n
<1>3. \A i \in 1..n : s[i] = t[i] BY <1>2
<1>4. s = [i \in 1..n |-> s[i]] /\ t = [i \in 1..n |-> t[i]] BY <1>2
<1> QED BY <1>3, <1>4, Zenon

\* After i files: the loop has taken the good ones as far as there is room,
\* and it has met an error unless these are all files.
Sieved(sieve, kept, batch, i, slots) ==
  /\ kept \in Goods /\ Len(kept) <= i
  /\ (Len(kept) = i) <=> (\A j \in 1..i : batch[j] = "good")
  /\ sieve.accepted \in Goods
  /\ Len(sieve.accepted) = IF Len(kept) < slots THEN Len(kept) ELSE slots
  /\ (sieve.stopped = TRUE) <=> (Len(kept) > slots)
  /\ (sieve.error = "none") <=> (Len(sieve.accepted) = i)

\* One more file, sifted and validated.
LEMMA SievedFurther ==
  ASSUME NEW batch \in Seq(FileKind), NEW i \in 1..Len(batch), NEW slots \in Nat,
         NEW sieve \in Sieve, NEW kept, Sieved(sieve, kept, batch, i - 1, slots)
  PROVE  Sieved(Sift(sieve, batch[i], slots),
                IF batch[i] = "good" THEN Append(kept, batch[i]) ELSE kept, batch, i, slots)
<1> DEFINE f == batch[i]
           k == Len(kept)
           a == Len(sieve.accepted)
           new == Sift(sieve, f, slots)
           kk == Append(kept, f)
           aa == Append(sieve.accepted, f)
<1>1. i \in Nat \ {0} /\ f \in FileKind /\ Len(batch) \in Nat
  <2>1. Len(batch) \in Nat BY LenProperties
  <2> QED BY <2>1
<1>2. /\ kept \in Goods /\ k \in Nat /\ k <= i - 1
      /\ (k = i - 1) <=> (\A j \in 1..(i - 1) : batch[j] = "good")
      /\ sieve.accepted \in Goods /\ a \in Nat
      /\ a = IF k < slots THEN k ELSE slots
      /\ (sieve.stopped = TRUE) <=> (k > slots)
      /\ (sieve.error = "none") <=> (a = i - 1)
  BY LenProperties DEF Sieved, Goods
<1>3. f = "good" => /\ kk \in Goods /\ Len(kk) = k + 1
                    /\ aa \in Goods /\ Len(aa) = a + 1
  BY <1>2, AppendProperties DEF Goods
<1>4. (\A j \in 1..i : batch[j] = "good")
        <=> f = "good" /\ (\A j \in 1..(i - 1) : batch[j] = "good")
  BY <1>1
<1> HIDE DEF f, k, a, kk, aa
<1>5. CASE sieve.stopped = TRUE
  <2>1. new = sieve BY <1>5 DEF Sift
  <2>2. k > slots /\ a = slots /\ sieve.error # "none" BY <1>1, <1>2, <1>5
  <2> HIDE DEF new
  <2>3. CASE f = "good"
    <3>1. Sieved(new, kk, batch, i, slots)
      BY <1>1, <1>2, <1>3, <1>4, <1>5, <2>1, <2>2, <2>3 DEF Sieved, k, a
    <3> QED BY <2>3, <3>1 DEF kk, f, new
  <2>4. CASE f # "good"
    <3>1. Sieved(new, kept, batch, i, slots)
      BY <1>1, <1>2, <1>4, <1>5, <2>1, <2>2, <2>4 DEF Sieved, k, a
    <3> QED BY <2>4, <3>1 DEF f, new
  <2> QED BY <2>3, <2>4
<1>6. CASE sieve.stopped # TRUE /\ f # "good"
  <2> DEFINE x == IF sieve.error = "none" THEN f ELSE sieve.error
  <2>1. new = [sieve EXCEPT !.error = x]
    BY <1>6 DEF Sift, Sieve
  <2>2. x # "none" BY <1>1 DEF FileKind
  <2> HIDE DEF x, new
  <2>3. /\ new.error # "none" /\ new.accepted = sieve.accepted /\ new.stopped = sieve.stopped
    BY <2>1, <2>2 DEF Sieve
  <2>4. Sieved(new, kept, batch, i, slots)
    BY <1>1, <1>2, <1>4, <1>6, <2>3 DEF Sieved, k, a
  <2> QED BY <1>6, <2>4 DEF f, new
<1>7. CASE sieve.stopped # TRUE /\ f = "good" /\ a >= slots
  <2> DEFINE x == IF sieve.error = "none" THEN "slots" ELSE sieve.error
  <2>1. new = [sieve EXCEPT !.error = x, !.stopped = TRUE]
    BY <1>7 DEF Sift, Sieve, a
  <2>2. x # "none" OBVIOUS
  <2> HIDE DEF x, new
  <2>3. new.error # "none" /\ new.accepted = sieve.accepted /\ new.stopped = TRUE
    BY <2>1, <2>2 DEF Sieve
  <2>4. k = slots /\ a = slots
    <3>1. ~(k > slots) BY <1>2, <1>7
    <3>2. a = IF k < slots THEN k ELSE slots BY <1>2
    <3>3. k \in Nat /\ a >= slots BY <1>2, <1>7
    <3> QED BY <3>1, <3>2, <3>3
  <2>5. Sieved(new, kk, batch, i, slots)
    BY <1>1, <1>2, <1>3, <1>4, <1>7, <2>3, <2>4 DEF Sieved, k, a
  <2> QED BY <1>7, <2>5 DEF f, new, kk
<1>8. CASE sieve.stopped # TRUE /\ f = "good" /\ ~(a >= slots)
  <2>1. new = [sieve EXCEPT !.accepted = aa]
    BY <1>8 DEF Sift, Sieve, a, aa
  <2> HIDE DEF new
  <2>2. new.error = sieve.error /\ new.accepted = aa /\ new.stopped = sieve.stopped
    BY <2>1 DEF Sieve
  <2>3. k = a /\ k + 1 <= slots BY <1>2, <1>8
  <2>4. Sieved(new, kk, batch, i, slots)
    BY <1>1, <1>2, <1>3, <1>4, <1>8, <2>2, <2>3 DEF Sieved
  <2> QED BY <1>8, <2>4 DEF f, new, kk
<1> QED BY <1>5, <1>6, <1>7, <1>8

\* What is true of the whole batch.
LEMMA BatchSieved ==
  ASSUME NEW batch \in Seq(FileKind), NEW slots \in Nat
  PROVE  Sieved(HandleFiles(batch, slots), Valid(batch), batch, Len(batch), slots)
<1> DEFINE n == Len(batch)
           S == {file \in FileKind : ValidateFile(file)}
           h == HandleFiles(batch, slots)
           v == Valid(batch)
           B == FileKind
           P == Seq(B)
<1>1. n \in Nat /\ batch \in P /\ \A i \in 1..n : batch[i] \in B
  BY LenProperties, ElementOfSeq
<1>2. PICK r : SiftRun(r, batch, slots, h) BY SiftRuns
<1>3. PICK s : KeptRun(s, batch, S, B, v)
  <2> HIDE DEF S, B
  <2>1. \E s : KeptRun(s, batch, S, B, Kept(batch, S)) BY <1>1, KeptRuns
  <2>2. v = Kept(batch, S) BY DEF Valid, S, B
  <2> QED BY <2>1, <2>2
<1>4. \A f \in B : f \in S <=> f = "good" BY DEF ValidateFile
<1> HIDE DEF S, h, v, P, B
<1>5. /\ r \in [0..n -> Sieve] /\ r[0] = EmptySieve /\ r[n] = h
      /\ \A i \in 1..n : r[i] = Sift(r[i - 1], batch[i], slots)
  BY <1>2 DEF SiftRun
<1>6. /\ s[0] = <<>> /\ s[n] = v
      /\ \A i \in 1..n :
           s[i] = IF batch[i] \in S THEN Append(s[i - 1], batch[i]) ELSE s[i - 1]
  BY <1>3 DEF KeptRun
<1> DEFINE Good(i) == Sieved(r[i], s[i], batch, i, slots)
           G == {i \in 0..n : Good(i)}
<1>7. Good(0)
  <2> DEFINE e == <<>>
  <2>1. e \in Goods /\ Len(e) = 0 BY EmptySeq DEF Goods
  <2>2. EmptySieve = [accepted |-> e, error |-> "none", stopped |-> FALSE]
    BY DEF EmptySieve
  <2> HIDE DEF e
  <2>3. r[0].accepted = e /\ r[0].error = "none" /\ r[0].stopped = FALSE BY <1>5, <2>2
  <2>4. s[0] = e BY <1>6 DEF e
  <2> QED BY <2>1, <2>3, <2>4 DEF Sieved
<1>8. ASSUME NEW i \in 1..n, Good(i - 1)
      PROVE  Good(i)
  <2>1. r[i - 1] \in Sieve BY <1>1, <1>5
  <2>2. Sieved(Sift(r[i - 1], batch[i], slots),
               IF batch[i] = "good" THEN Append(s[i - 1], batch[i]) ELSE s[i - 1],
               batch, i, slots)
    BY <1>8, <2>1, SievedFurther
  <2>3. s[i] = IF batch[i] = "good" THEN Append(s[i - 1], batch[i]) ELSE s[i - 1]
    BY <1>1, <1>4, <1>6
  <2> QED BY <1>5, <2>2, <2>3
<1> HIDE DEF Good, n
<1>9. \A i \in 0..n : i \in G
  <2>1. 0 \in G BY <1>1, <1>7
  <2>2. \A i \in 1..n : i - 1 \in G => i \in G BY <1>1, <1>8
  <2> HIDE DEF G
  <2> QED BY <1>1, <2>1, <2>2, UpTo
<1>10. Good(n) BY <1>1, <1>9
<1> QED BY <1>5, <1>6, <1>10 DEF Good, n, h, v

\* The whole loop ends in a sieve.
LEMMA HandledTyped ==
  ASSUME NEW batch \in Seq(FileKind), NEW slots
  PROVE  HandleFiles(batch, slots) \in Sieve
<1>1. PICK r : SiftRun(r, batch, slots, HandleFiles(batch, slots)) BY SiftRuns
<1>2. Len(batch) \in Nat BY LenProperties
<1> QED BY <1>1, <1>2 DEF SiftRun

\* What is taken of a batch, and when no error is shown.
LEMMA TakenFits ==
  ASSUME NEW batch \in Seq(FileKind), NEW slots \in Nat
  PROVE  LET r == HandleFiles(batch, slots)
             good == Valid(batch)
             n == IF Len(good) < slots THEN Len(good) ELSE slots
         IN  /\ r.accepted = SubSeq(good, 1, n) /\ Len(r.accepted) = n
             /\ (r.error = "none") <=> (r.accepted = batch)
             /\ (r.error = "none") <=> (Len(good) = Len(batch) /\ Len(good) <= slots)
             /\ Len(good) \in Nat /\ Len(batch) \in Nat /\ Len(good) <= Len(batch)
<1> DEFINE r == HandleFiles(batch, slots)
           good == Valid(batch)
           k == Len(good)
           a == Len(r.accepted)
           b == Len(batch)
           n == IF k < slots THEN k ELSE slots
<1>1. Sieved(r, good, batch, b, slots) BY BatchSieved
<1> HIDE DEF r, good
<1>2. /\ good \in Goods /\ k \in Nat /\ k <= b /\ r.accepted \in Goods /\ a = n
      /\ (k = b) <=> (\A j \in 1..b : batch[j] = "good")
      /\ (r.error = "none") <=> (a = b)
      /\ b \in Nat
  BY <1>1, LenProperties DEF Sieved, Goods
<1>3. r.accepted = SubSeq(good, 1, n)
  <2> DEFINE s == SubSeq(good, 1, n)
             S == {"good"}
  <2>1. n \in Nat /\ n <= k BY <1>2
  <2>2. \A i \in 1..n : good[i] \in S
    <3>1. \A i \in 1..k : good[i] \in S BY <1>2, ElementOfSeq DEF Goods
    <3> QED BY <1>2, <2>1, <3>1
  <2> HIDE DEF n, S
  <2>3. s \in Seq(S) /\ Len(s) = IF 1 <= n THEN n - 1 + 1 ELSE 0
    BY <2>1, <2>2, SubSeqProperties
  <2>4. Len(s) = n BY <2>1, <2>3
  <2> HIDE DEF s
  <2>5. s \in Goods BY <2>3 DEF Goods, S
  <2>6. r.accepted = s BY <1>2, <2>4, <2>5, GoodsEqual
  <2> QED BY <2>6 DEF s
<1>4. a = b => r.accepted = batch
  <2> SUFFICES ASSUME a = b PROVE r.accepted = batch OBVIOUS
  <2>1. k = b BY <1>2
  <2>2. \A j \in 1..b : batch[j] = "good" BY <1>2, <2>1
  <2>3. batch \in [1..b -> FileKind] BY LenProperties
  <2> HIDE DEF b
  <2>4. batch \in [1..b -> {"good"}] BY <2>2, <2>3
  <2>5. batch \in Goods BY <1>2, <2>4 DEF Goods
  <2> QED BY <1>2, <2>5, GoodsEqual DEF b
<1>5. (a = b) <=> (k = b /\ k <= slots) BY <1>2
<1> QED BY <1>2, <1>3, <1>4, <1>5 DEF r, good


\* A batch is put at the end of the list as far as there is room.
LEMMA TakeTyped ==
  ASSUME upload \in UploadState, NEW batch \in Batches
  PROVE  Take(batch) \in UploadState
<1> DEFINE F == SeqOf(FileKind, MaxFiles)
           f == upload.files
           slots == RemainingSlots(f)
           r == HandleFiles(batch, slots)
           l == f \o r.accepted
<1>0. MaxFiles \in Nat /\ MaxBatch \in Nat BY UploadAssumption
<1>1. batch \in Seq(FileKind) BY <1>0, Bounded DEF Batches
<1>2. f \in Seq(FileKind) /\ Len(f) \in Nat /\ Len(f) <= MaxFiles
  BY <1>0, Bounded, LenProperties DEF UploadState
<1>3. slots \in Nat /\ slots = MaxFiles - Len(f)
  <2> HIDE DEF f
  <2> QED BY <1>0, <1>2 DEF RemainingSlots
<1> HIDE DEF f, slots
<1>4. r \in Sieve BY <1>1, HandledTyped
<1>5. Len(r.accepted) <= slots
  <2> DEFINE good == Valid(batch)
             n == IF Len(good) < slots THEN Len(good) ELSE slots
  <2>1. Len(r.accepted) = n /\ Len(good) \in Nat BY <1>1, <1>3, TakenFits
  <2> HIDE DEF good, r
  <2> QED BY <1>3, <2>1
<1> HIDE DEF r
<1>6. r.accepted \in Seq(FileKind) /\ r.error \in {"none", "type", "size", "slots"}
      /\ Len(r.accepted) \in Nat
  BY <1>4, LenProperties DEF Sieve
<1>7. l \in Seq(FileKind) /\ Len(l) = Len(f) + Len(r.accepted)
  BY <1>2, <1>6, ConcatProperties
<1> HIDE DEF l
<1>8. Len(l) <= MaxFiles BY <1>0, <1>2, <1>3, <1>5, <1>6, <1>7
<1>9. l \in F BY <1>0, <1>7, <1>8, Bounded
<1>10. Take(batch) = upload \/ Take(batch) = [upload EXCEPT !.error = r.error, !.files = l]
  BY DEF Take, r, l, slots, f
<1> HIDE DEF F
<1> QED BY <1>6, <1>9, <1>10 DEF UploadState, F

\* Each operation of the field leaves it in its type.
LEMMA UploadTyped ==
  ASSUME upload \in UploadState, [UploadNext]_upload
  PROVE  upload' \in UploadState
<1> DEFINE F == SeqOf(FileKind, MaxFiles)
<1>0. MaxFiles \in Nat BY UploadAssumption
<1> HIDE DEF F
<1>1. ASSUME NEW batch \in Batches, ChooseFiles(batch) \/ DropFiles(batch)
      PROVE  upload' \in UploadState
  <2> DEFINE t == Take(batch)
  <2>1. t \in UploadState BY TakeTyped
  <2>2. upload' = t \/ upload' = [t EXCEPT !.dragging = FALSE]
    BY <1>1 DEF ChooseFiles, DropFiles
  <2> HIDE DEF t
  <2> QED BY <2>1, <2>2 DEF UploadState
<1>2. CASE DragOver \/ DragLeave
  BY <1>2 DEF DragOver, DragLeave, UploadState
<1>3. CASE RemoveFile
  <2> DEFINE f == upload.files
             n == Len(f)
  <2>1. f \in Seq(FileKind) /\ n \in Nat /\ n <= MaxFiles /\ (\A j \in 1..n : f[j] \in FileKind)
    BY <1>0, Bounded, LenProperties, ElementOfSeq DEF UploadState
  <2>2. PICK i \in 1..n : upload' = [upload EXCEPT !.files = RemoveAt(@, i)]
    BY <1>3 DEF RemoveFile
  <2> DEFINE a == SubSeq(f, 1, i - 1)
             b == SubSeq(f, i + 1, n)
             l == RemoveAt(f, i)
  <2> HIDE DEF f
  <2>3. /\ i - 1 \in Int /\ i + 1 \in Int /\ 1 \in Int /\ n \in Int
        /\ \A j \in 1..(i - 1) : f[j] \in FileKind
        /\ \A j \in (i + 1)..n : f[j] \in FileKind
    BY <2>1
  <2>4. a \in Seq(FileKind) /\ Len(a) = IF 1 <= i - 1 THEN i - 1 - 1 + 1 ELSE 0
    BY <2>3, SubSeqProperties
  <2>5. b \in Seq(FileKind) /\ Len(b) = IF i + 1 <= n THEN n - (i + 1) + 1 ELSE 0
    BY <2>3, SubSeqProperties
  <2>6. l = a \o b BY DEF RemoveAt
  <2> HIDE DEF a, b, l
  <2>7. l \in Seq(FileKind) /\ Len(l) = Len(a) + Len(b) BY <2>4, <2>5, <2>6, ConcatProperties
  <2>8. Len(l) <= MaxFiles
    <3>1. n \in Nat /\ n <= MaxFiles /\ i \in Nat /\ 1 <= i /\ i <= n BY <2>1
    <3> HIDE DEF n
    <3>2. Len(a) = i - 1 BY <2>4, <3>1
    <3>3. Len(b) = n - i BY <2>5, <3>1
    <3> QED BY <1>0, <2>7, <3>1, <3>2, <3>3
  <2>9. l \in F BY <1>0, <2>7, <2>8, Bounded DEF F
  <2>10. upload' = [upload EXCEPT !.files = l] BY <2>2 DEF l, f
  <2> QED BY <2>9, <2>10 DEF UploadState, F
<1>4. CASE UNCHANGED upload BY <1>4
<1> QED BY <1>1, <1>2, <1>3, <1>4 DEF UploadNext

\* The area begins empty.
LEMMA UploadBegins == upload = UploadMounted => upload \in UploadState
<1> SUFFICES ASSUME upload = UploadMounted PROVE upload \in UploadState OBVIOUS
<1> DEFINE F == SeqOf(FileKind, MaxFiles)
           e == <<>>
<1>1. e \in F BY UploadAssumption, EmptyBounded
<1>2. upload = [files |-> e, error |-> "none", dragging |-> FALSE] BY DEF UploadMounted
<1> HIDE DEF F, e
<1> QED BY <1>1, <1>2 DEF UploadState, F

\* What the field then takes of any batch.
LEMMA UploadShows == upload \in UploadState => TakesWhatFits /\ SameVerdict
<1> SUFFICES ASSUME upload \in UploadState PROVE TakesWhatFits /\ SameVerdict OBVIOUS
<1>0. MaxFiles \in Nat /\ MaxBatch \in Nat BY UploadAssumption
<1>1. \A batch \in Batches : batch \in Seq(FileKind) BY <1>0, Bounded DEF Batches
<1>2. Len(upload.files) \in Nat /\ RemainingSlots(upload.files) \in Nat
  <2> DEFINE f == upload.files
  <2>1. f \in Seq(FileKind) /\ Len(f) \in Nat
    BY <1>0, Bounded, LenProperties DEF UploadState
  <2> HIDE DEF f
  <2>2. RemainingSlots(f) \in Nat BY <1>0, <2>1 DEF RemainingSlots
  <2> QED BY <2>1, <2>2 DEF f
<1>3. TakesWhatFits BY <1>1, <1>2, TakenFits DEF TakesWhatFits
<1>4. SameVerdict
  <2> DEFINE e == <<>>
             slots == RemainingSlots(e)
  <2>1. slots = MaxFiles
    <3>1. Len(e) = 0 BY EmptySeq
    <3> HIDE DEF e
    <3> QED BY <1>0, <3>1 DEF RemainingSlots
  <2> HIDE DEF slots
  <2>2. ASSUME NEW batch \in Batches
        PROVE  (ValidateFiles(batch) = 0) <=> (HandleFiles(batch, slots).error = "none")
    <3> DEFINE k == Len(Valid(batch))
               b == Len(batch)
    <3>1. /\ (HandleFiles(batch, slots).error = "none") <=> (k = b /\ k <= slots)
          /\ k \in Nat /\ b \in Nat /\ k <= b
      BY <1>0, <1>1, <2>1, TakenFits
    <3>2. ValidateFiles(batch) = b - k + IF k > MaxFiles THEN 1 ELSE 0 BY DEF ValidateFiles
    <3> HIDE DEF k, b
    <3>3. (ValidateFiles(batch) = 0) <=> (k = b /\ k <= MaxFiles) BY <1>0, <3>1, <3>2
    <3> QED BY <2>1, <3>1, <3>3
  <2> QED BY <2>2 DEF SameVerdict, slots
<1> QED BY <1>3, <1>4

-----------------------------------------------------------------------------
(* Everything stays within its limits.                                     *)

\* Of every part, what its own steps preserve.
LimitsInv ==
  /\ DetailInv /\ HistoryGood(history)
  /\ claim \in ClaimState /\ upload \in UploadState
  /\ DepositInv /\ TreasuryInv
  /\ settings \in SettingsState /\ BookInv /\ BookInWindows
  /\ header \in HeaderState /\ HeaderInv /\ IntroGood(intro) /\ NetInv /\ ToastsInv
  /\ NetworkInv /\ ThemeInv /\ CopyInv
  /\ paging \in PagingState /\ ClaimListInv
  /\ GuardInv /\ OptimisticInv /\ RequestsTyped
  /\ AccessInv

\* The parts that start with plain values are within their limits.
LEMMA PartsBegin ==
  /\ settings = SettingsMounted => settings \in SettingsState
  /\ copying = CopyMounted => CopyInv
  /\ paging = PagingMounted => paging \in PagingState
  /\ optimistic = ListMounted => RequestsTyped
<1>1. settings = SettingsMounted => settings \in SettingsState
  <2>1. Len(Tabs) = 4 BY DEF Tabs
  <2> QED BY <2>1, SettingsAssumption DEF SettingsMounted, SettingsState
<1>2. copying = CopyMounted => CopyInv
  BY ControlsAssumption DEF CopyMounted, CopyInv, CopyState
<1>3. paging = PagingMounted => paging \in PagingState
  <2>1. MaxItems \in Nat BY ListsAssumption
  <2>2. 0 \in 0..MaxItems /\ MaxPages \in Nat BY <2>1, PagesWithin
  <2> QED BY <2>1, <2>2 DEF PagingMounted, PagingState
<1>4. optimistic = ListMounted => RequestsTyped
  <2>1. 0 \in 0..MaxRequests BY HooksAssumption
  <2> QED BY <2>1 DEF ListMounted, RequestsTyped
<1> QED BY <1>1, <1>2, <1>3, <1>4

\* Every page begins within its limits.
LEMMA LimitsInit == FrontendInit => LimitsInv
<1> SUFFICES ASSUME FrontendInit PROVE LimitsInv OBVIOUS
<1>1. ScreenInv BY ScreenInit
<1>2. DetailInv /\ HeaderInv /\ GuardInv /\ AccessInv BY <1>1 DEF ScreenInv
<1>3. HistoryGood(history) /\ IntroGood(intro)
  BY HistoryBegins, IntroBegins DEF FrontendInit
<1>4. claim \in ClaimState /\ upload \in UploadState
  BY ClaimBegins, UploadBegins DEF FrontendInit
<1>5. DepositInv /\ TreasuryInv BY DepositInitInv, TreasuryInitInv DEF FrontendInit
<1>6. settings \in SettingsState /\ CopyInv /\ paging \in PagingState /\ RequestsTyped
  BY PartsBegin DEF FrontendInit
<1>7. BookInv /\ BookInWindows BY BookInit, WindowsBegin DEF FrontendInit
<1>8. header \in HeaderState /\ NetInv /\ ToastsInv
  BY HeaderBegins, NetInitInv, ToastsBegin DEF FrontendInit
<1>9. NetworkInv /\ ThemeInv BY NetworkInitInv, ThemeInitInv DEF FrontendInit
<1>10. ClaimListInv /\ OptimisticInv BY ClaimListInitInv, OptimisticInit DEF FrontendInit
<1> QED BY <1>2, <1>3, <1>4, <1>5, <1>6, <1>7, <1>8, <1>9, <1>10 DEF LimitsInv

\* No step of any part leaves them.
LEMMA LimitsStep ==
  ASSUME LimitsInv, [FrontendNext]_vars
  PROVE  LimitsInv'
<1>1. DetailInv' /\ HistoryGood(history')
  BY PartSteps, DetailStep, HistoryStep DEF LimitsInv
<1>2. claim' \in ClaimState /\ upload' \in UploadState
  BY PartSteps, ClaimTyped, UploadTyped DEF LimitsInv
<1>3. DepositInv' /\ TreasuryInv'
  BY PartSteps, DepositStep, TreasuryStep DEF LimitsInv
<1>4. settings' \in SettingsState BY PartSteps, SettingsTyped DEF LimitsInv
<1>5. BookInv' /\ BookInWindows' BY PartSteps, BookStep, WindowsStay DEF LimitsInv
<1>6. header' \in HeaderState /\ HeaderInv'
  <2>1. header \in HeaderState /\ HeaderInv BY DEF LimitsInv
  <2>2. BellInSync BY <2>1 DEF HeaderInv
  <2>3. [HeaderNext]_header BY PartSteps
  <2> QED BY <2>1, <2>2, <2>3, HeaderTyped, HeaderStep
<1>7. IntroGood(intro') BY PartSteps, IntroStep DEF LimitsInv
<1>8. NetInv' /\ ToastsInv' BY PartSteps, NetStep, ToastsStep DEF LimitsInv
<1>9. NetworkInv' /\ ThemeInv' BY PartSteps, NetworkStep, ThemeStep DEF LimitsInv
<1>10. CopyInv' /\ paging' \in PagingState
  BY PartSteps, CopyStep, PagingStep DEF LimitsInv
<1>11. ClaimListInv' /\ GuardInv' BY PartSteps, ClaimListStep, GuardStep DEF LimitsInv
<1>12. OptimisticInv' /\ RequestsTyped'
  BY PartSteps, OptimisticStep, RequestsStep DEF LimitsInv
<1>13. AccessInv' BY PartSteps, AccessStep DEF LimitsInv
<1> QED BY <1>1, <1>2, <1>3, <1>4, <1>5, <1>6, <1>7, <1>8, <1>9, <1>10, <1>11, <1>12, <1>13
        DEF LimitsInv

\* The limits in the properties' words.
LEMMA LimitsShow == LimitsInv => WithinLimits
<1> SUFFICES ASSUME LimitsInv PROVE WithinLimits OBVIOUS
<1>1. DetailTypeOK BY DEF LimitsInv, DetailInv, DetailTypeOK
<1>2. HistoryTypeOK /\ PageExists BY HistoryShows DEF LimitsInv
<1>3. ClaimTypeOK BY DEF LimitsInv, ClaimTypeOK
<1>4. FlowsTypeOK BY DEF LimitsInv, DepositInv, TreasuryInv, FlowsTypeOK
<1>5. SettingsTypeOK BY BookShows DEF LimitsInv, SettingsTypeOK
<1>6. ShellTypeOK
  BY ToastsShow DEF LimitsInv, IntroGood, NetInv, ShellTypeOK
<1>7. ControlsTypeOK BY DEF LimitsInv, NetworkInv, ThemeInv, CopyInv, ControlsTypeOK
<1>8. ListsTypeOK BY DEF LimitsInv, ClaimListInv, ListsTypeOK
<1>9. HooksTypeOK BY OptimisticShows DEF LimitsInv, GuardInv, HooksTypeOK
<1>10. AccessTypeOK BY DEF LimitsInv, AccessInv, SessionSound, AccessTypeOK
<1>11. TakesWhatFits /\ SameVerdict BY UploadShows DEF LimitsInv
<1>12. PageNumbersSound BY PagingShows DEF LimitsInv
<1>13. IntroSound
  <2>1. IntroGood(intro) BY DEF LimitsInv
  <2>2. intro.crashed \in BOOLEAN /\ intro.visible \in BOOLEAN /\ intro.seen \in BOOLEAN
        /\ intro.hurried \in BOOLEAN
    BY <2>1 DEF IntroGood, IntroState
  <2> QED BY <2>1, <2>2, Zenon DEF IntroGood, IntroSound
<1>14. FrontendTypeOK
  BY <1>1, <1>2, <1>3, <1>4, <1>5, <1>6, <1>7, <1>8, <1>9, <1>10 DEF FrontendTypeOK
<1> QED BY <1>2, <1>11, <1>12, <1>13, <1>14 DEF WithinLimits

\* Whatever the bounds are: every part stays in its type, files that fit are
\* taken, pages and their numbers exist, and the introduction ends where it does.
THEOREM LimitsHold == FrontendSpec => []WithinLimits
BY LimitsInit, LimitsStep, LimitsShow, PTL DEF FrontendSpec
=============================================================================
