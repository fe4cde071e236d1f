------------------------------ MODULE Frontend ------------------------------
(***************************************************************************)
(* The pages of the frontend and what surrounds them.  A page is mounted   *)
(* alone, and the parts below share no state, so that a behaviour is that  *)
(* of the part that is in use; what they share with others (the wallet,    *)
(* the draft of a policy) is in CreatePolicy and Autosave.                 *)
(*                                                                         *)
(* Fair is what no user and no server has a hand in: the frontend's        *)
(* timers, the promises it makes of timers, and an effect after a render.  *)
(***************************************************************************)
EXTENDS PolicyDetail, TransactionHistory, ClaimForm, DocumentUpload, PoolFlows,
        SettingsPage, AppShell, HeaderControls, ListControls, PageHooks, Access

VARIABLE inUse

vars ==
  <<inUse, detail, history, claim, upload, deposit, treasury, settings, book, header,
    intro, net, toasts, network, theme, copying, paging, claimList,
    guard, optimistic, access>>

Parts ==
  {"detail", "history", "claim", "upload", "deposit", "treasury", "settings", "book",
   "header", "intro", "net", "toasts", "network", "theme", "copying", "paging",
   "claimList", "guard", "optimistic", "access"}

FrontendInit ==
  /\ inUse \in Parts
  /\ DetailInit
  /\ HistoryInit
  /\ claim = ClaimMounted
  /\ upload = UploadMounted
  /\ deposit = DepositMounted
  /\ treasury = TreasuryMounted
  /\ settings = SettingsMounted
  /\ book = BookMounted
  /\ header = HeaderMounted
  /\ intro = IntroMounted(FALSE)
  /\ net = NetMounted
  /\ toasts = ToastsMounted
  /\ network = NetworkMounted("none")
  /\ theme = ThemeMounted("light", "none")
  /\ copying = CopyMounted
  /\ paging = PagingMounted
  /\ claimList = ClaimListMounted({})
  /\ guard = GuardMounted
  /\ optimistic = ListMounted
  /\ access = AccessOpened

\* The part is in use, and the others stay as they are.
Using(part) ==
  /\ inUse = part /\ UNCHANGED inUse
  /\ IF part = "detail" THEN TRUE ELSE UNCHANGED detail
  /\ IF part = "history" THEN TRUE ELSE UNCHANGED history
  /\ IF part = "claim" THEN TRUE ELSE UNCHANGED claim
  /\ IF part = "upload" THEN TRUE ELSE UNCHANGED upload
  /\ IF part = "deposit" THEN TRUE ELSE UNCHANGED deposit
  /\ IF part = "treasury" THEN TRUE ELSE UNCHANGED treasury
  /\ IF part = "settings" THEN TRUE ELSE UNCHANGED settings
  /\ IF part = "book" THEN TRUE ELSE UNCHANGED book
  /\ IF part = "header" THEN TRUE ELSE UNCHANGED header
  /\ IF part = "intro" THEN TRUE ELSE UNCHANGED intro
  /\ IF part = "net" THEN TRUE ELSE UNCHANGED net
  /\ IF part = "toasts" THEN TRUE ELSE UNCHANGED toasts
  /\ IF part = "network" THEN TRUE ELSE UNCHANGED network
  /\ IF part = "theme" THEN TRUE ELSE UNCHANGED theme
  /\ IF part = "copying" THEN TRUE ELSE UNCHANGED copying
  /\ IF part = "paging" THEN TRUE ELSE UNCHANGED paging
  /\ IF part = "claimList" THEN TRUE ELSE UNCHANGED claimList
  /\ IF part = "guard" THEN TRUE ELSE UNCHANGED guard
  /\ IF part = "optimistic" THEN TRUE ELSE UNCHANGED optimistic
  /\ IF part = "access" THEN TRUE ELSE UNCHANGED access

FrontendNext ==
  \/ Using("detail") /\ DetailNext
  \/ Using("history") /\ HistoryNext
  \/ Using("claim") /\ ClaimNext
  \/ Using("upload") /\ UploadNext
  \/ Using("deposit") /\ DepositNext
  \/ Using("treasury") /\ TreasuryNext
  \/ Using("settings") /\ SettingsNext
  \/ Using("book") /\ BookNext
  \/ Using("header") /\ HeaderNext
  \/ Using("intro") /\ IntroNext
  \/ Using("net") /\ NetNext
  \/ Using("toasts") /\ ToastsNext
  \/ Using("network") /\ NetworkNext
  \/ Using("theme") /\ ThemeNext
  \/ Using("copying") /\ CopyNext
  \/ Using("paging") /\ PagingNext
  \/ Using("claimList") /\ ClaimListNext
  \/ Using("guard") /\ GuardNext
  \/ Using("optimistic") /\ OptimisticNext
  \/ Using("access") /\ AccessNext

Timers ==
  /\ WF_vars(Using("detail") /\ PacketTimer)
  /\ WF_vars(Using("history") /\ RetrySettled)
  /\ WF_vars(Using("claim") /\ ChecksAnswered)
  /\ WF_vars(Using("treasury") /\ WithdrawalSettled)
  /\ WF_vars(Using("header") /\ NotificationsLoaded)
  /\ \A id \in ToastIds : WF_vars(Using("toasts") /\ ToastTimer(id))
  /\ WF_vars(Using("copying") /\ CopyTimer)
  /\ WF_vars(Using("access") /\ RestoreSession)
  /\ \A id \in ClaimIds : WF_vars(Using("access") /\ ClaimLoaded(id))

FrontendSpec == FrontendInit /\ [][FrontendNext]_vars /\ Timers

-----------------------------------------------------------------------------
\* Every part stays in its type: no operation leaves the states that the
\* others are written for, as the last row of evidence must not be removed.
FrontendTypeOK ==
  /\ DetailTypeOK
  /\ HistoryTypeOK
  /\ ClaimTypeOK
  /\ FlowsTypeOK
  /\ SettingsTypeOK
  /\ ShellTypeOK
  /\ ControlsTypeOK
  /\ ListsTypeOK
  /\ HooksTypeOK
  /\ AccessTypeOK

\* However often a button is pressed and however late the answers are: the
\* support form prepares one packet, a payment and a claim are sent once, and
\* what was sent is waited for.
NothingIsSentTwice == OnePacketAtATime /\ PaymentSeenThrough /\ OneClaimAtATime

\* A deposit or a withdrawal that is shown as made is the one that was asked
\* for, though amounts, pools and dialogues change while it is under way.
MoneyMovesAsConfirmed == DepositAsConfirmed /\ WithdrawalAsConfirmed

\* What is on screen is so, however the answers, timers, windows and navigations
\* behind it interleave: errors that are listed, outages, the checks of the
\* chosen policy, the filters in the address, what bell and panel count, changes
\* a dialog calls unsaved, and the claim an address names.
ScreenIsTrue ==
  /\ ListedErrorsAreTrue
  /\ OutageIsKnown
  /\ ChecksComeRight
  /\ FiltersInAddress
  /\ BellInSync
  /\ DialogIsTrue
  /\ ClaimShownByRight

\* Every part stays within the states that its operations are written for:
\* files that fit are taken and agree with the other validation, pages exist,
\* the introduction does not run past its last step.
WithinLimits ==
  /\ FrontendTypeOK
  /\ TakesWhatFits /\ SameVerdict
  /\ PageExists /\ PageNumbersSound
  /\ IntroSound

\* What a timer or an answer of the frontend itself is awaited for comes, and
\* what is to leave the screen leaves it.
AwaitedComes ==
  /\ PacketsConclude
  /\ RetriesConclude
  /\ ChecksConclude
  /\ WithdrawalsConclude
  /\ NotificationsCome
  /\ ToastsLeave
  /\ CopyFeedbackEnds
  /\ AccessConcludes

\* Edits made in a form while another one is saved, removed or stored by another
\* window are not taken for saved, and an entry saved is listed, once.
EditsAreKept == []AddressesDistinct /\ SavedEntryIsListed /\ LaterEditsStayDirty

\* What was decided stands until it is decided anew: mainnet is left after the
\* warning only, a chosen theme stays, an item once confirmed stays so, and a
\* user who has signed out is not brought back.
DecisionsStand ==
  MainnetLeftKnowingly /\ ThemeAsChosen /\ ConfirmedForGood /\ []SignedOutForGood
=============================================================================
