------------------------- MODULE TransactionHistory -------------------------
(***************************************************************************)
(* The page of past transactions (app/history/history-page-client.tsx)     *)
(* with its filters, pages and details, and the panel in which a failed    *)
(* transaction is retried (components/transaction-retry-ui.tsx).           *)
(*                                                                         *)
(* The filters are set in a React transition: what the user does before it *)
(* is rendered is applied at once to what is shown, and once more on top   *)
(* of the transition when it is.  A transition's render takes the deferred *)
(* filters as they are, so that the page never shows `updating'.           *)
(***************************************************************************)
EXTENDS Integers, Sequences, FiniteSets

CONSTANTS
  Transactions,  \* MOCK_TRANSACTIONS: records with a type and a status, newest first
  PER_PAGE,
  MaxOrphans     \* bound: retries under way, and dismissals due, at a time

ASSUME HistoryAssumption ==
  /\ PER_PAGE \in Nat \ {0} /\ MaxOrphans \in Nat
  /\ Len(Transactions) \in Nat \ {0}

VARIABLE history

Ids == 1..Len(Transactions)
Types == {"all"} \cup {Transactions[i].transaction_type : i \in Ids}
Statuses == {"all"} \cup {Transactions[i].status : i \in Ids}
Filter == [type : Types, status : Statuses]
NoFilter == [type |-> "all", status |-> "all"]

\* The ids of the filtered transactions; a list is a set here, as every list on
\* this page is in the order of the ids.
Filtered(filter) ==
  {i \in Ids : /\ filter.type \in {"all", Transactions[i].transaction_type}
               /\ filter.status \in {"all", Transactions[i].status}}
TotalPages(filter) == (Cardinality(Filtered(filter)) + PER_PAGE - 1) \div PER_PAGE
Paginated(filter, page) ==
  LET index(i) == Cardinality({j \in Filtered(filter) : j < i})
  IN {i \in Filtered(filter) :
        (page - 1) * PER_PAGE <= index(i) /\ index(i) < page * PER_PAGE}

MaxPage == TotalPages(NoFilter)

\* 0 stands for no transaction.  next: what the transition will show, with
\* waiting telling whether there is one.  panel: the state of the retry panel
\* on screen, with running for its promise that has not settled; orphans: retries
\* of panels that are gone; dismissals: 3 s timers after a success.  raced, for
\* the property: a page was chosen during a transition.
Shown == [filter : Filter, page : 1..MaxPage, expanded : {0} \cup Ids]
Panel ==
  [isRetrying : BOOLEAN, running : BOOLEAN, error : BOOLEAN, success : BOOLEAN, attempts : 0..3]
FreshPanel ==
  [isRetrying |-> FALSE, running |-> FALSE, error |-> FALSE, success |-> FALSE, attempts |-> 0]
HistoryState ==
  [loading : BOOLEAN, shown : Shown, waiting : BOOLEAN, next : Shown,
   retrying : {0} \cup Ids, panel : Panel, orphans : 0..MaxOrphans,
   dismissals : 0..MaxOrphans, raced : BOOLEAN]

FirstPage == [filter |-> NoFilter, page |-> 1, expanded |-> 0]
HistoryMounted ==
  [loading |-> TRUE, shown |-> FirstPage, waiting |-> FALSE, next |-> FirstPage,
   retrying |-> 0, panel |-> FreshPanel, orphans |-> 0, dismissals |-> 0, raced |-> FALSE]

\* The rows on screen, and whether a retry panel is among them.
Rows(h) == IF h.loading THEN {} ELSE Paginated(h.shown.filter, h.shown.page)
PanelShown(h) ==
  /\ h.retrying # 0 /\ h.retrying = h.shown.expanded
  /\ h.retrying \in Rows(h) /\ Transactions[h.retrying].status = "failed"

\* A panel that disappears leaves its retry under way; one that appears is new.
Repaneled(old, new) ==
  IF PanelShown(old) /\ PanelShown(new) /\ old.retrying = new.retrying THEN new
  ELSE [new EXCEPT !.panel = FreshPanel,
                   !.orphans = IF PanelShown(old) /\ old.panel.running THEN @ + 1 ELSE @]

HistoryTo(new) ==
  LET h == Repaneled(history, new)
  IN /\ h.orphans <= MaxOrphans
     /\ history' = h

-----------------------------------------------------------------------------
(* Filters, pages and details.                                             *)

\* The 1200 ms timer.
HistoryLoaded == history.loading /\ HistoryTo([history EXCEPT !.loading = FALSE])

BadRefiltered(view, filter) == [view EXCEPT !.filter = filter, !.expanded = 0]

Refiltered(view, filter) == [view EXCEPT !.filter = filter, !.page = 1, !.expanded = 0]

\* What the user sees and what a waiting transition builds on.
Base == IF history.waiting THEN history.next ELSE history.shown

Filtering(view) == history' = [history EXCEPT !.waiting = TRUE, !.next = view]

\* handleTypeChange and handleStatusChange.
ChangeFilter(filter) ==
  /\ filter \in {[Base.filter EXCEPT !.type = x] : x \in Types}
               \cup {[Base.filter EXCEPT !.status = x] : x \in Statuses}
  /\ Filtering(Refiltered(Base, filter))

\* handleClearFilters.
ClearFilters ==
  /\ history.shown.filter # NoFilter
  /\ Filtering(Refiltered(Base, NoFilter))

\* The same button on the empty page leaves the details open.
ClearFromEmpty ==
  /\ ~history.loading /\ Rows(history) = {} /\ history.shown.filter # NoFilter
  /\ Filtering([Base EXCEPT !.filter = NoFilter, !.page = 1])

\* The transition is rendered.
FilterRendered ==
  /\ history.waiting
  /\ HistoryTo([history EXCEPT !.shown = history.next, !.waiting = FALSE, !.next = FirstPage])

\* The buttons of the pagination, and what they make of a page.
PageChoices ==
  LET pages == TotalPages(history.shown.filter)
      page == history.shown.page
  IN {p \in 1..pages : p \in {1, pages} \/ (p - page) \in -1..1}
GoTo(p) == [q \in 1..MaxPage |-> p]
Prev == [q \in 1..MaxPage |-> IF q > 1 THEN q - 1 ELSE 1]
Following ==
  LET pages == TotalPages(history.shown.filter)
  IN [q \in 1..MaxPage |-> IF q + 1 < pages THEN q + 1 ELSE pages]

Paging(move) ==
  HistoryTo([history EXCEPT !.shown.page = move[@],
               !.next.page = IF history.waiting THEN move[@] ELSE @,
               !.raced = @ \/ history.waiting])

ChoosePage ==
  /\ TotalPages(history.shown.filter) > 1
  /\ \/ \E p \in PageChoices : Paging(GoTo(p))
     \/ history.shown.page # 1 /\ Paging(Prev)
     \/ history.shown.page # TotalPages(history.shown.filter) /\ Paging(Following)

\* The button of a row.
ToggleDetails(id) ==
  /\ id \in Rows(history)
  /\ LET chosen == IF history.shown.expanded = id THEN 0 ELSE id
     IN HistoryTo([history EXCEPT !.shown.expanded = chosen,
                     !.next.expanded = IF history.waiting THEN chosen ELSE @])

-----------------------------------------------------------------------------
(* Retrying.                                                               *)

StartRetry(id) ==
  /\ id \in Rows(history) /\ id = history.shown.expanded
  /\ Transactions[id].status = "failed" /\ history.retrying # id
  /\ HistoryTo([history EXCEPT !.retrying = id])

\* handleRetry, up to the await.
RetryTransaction ==
  /\ PanelShown(history) /\ ~history.panel.success
  /\ ~history.panel.isRetrying /\ history.panel.attempts < 3
  /\ history.orphans + history.dismissals < MaxOrphans
  /\ history' = [history EXCEPT !.panel.isRetrying = TRUE, !.panel.running = TRUE,
                                !.panel.error = FALSE]

RetrySucceeded(panel) ==
  [panel EXCEPT !.isRetrying = FALSE, !.running = FALSE, !.success = TRUE, !.attempts = @ + 1]
RetryFailed(panel) ==
  [panel EXCEPT !.isRetrying = FALSE, !.running = FALSE, !.error = TRUE]

\* handleRetryTransaction's promise, which settles after 1500 ms; a failure
\* is not counted as an attempt.
RetrySettled ==
  /\ PanelShown(history) /\ history.panel.running
  /\ \/ history' = [history EXCEPT !.panel = RetrySucceeded(@), !.dismissals = @ + 1]
     \/ history' = [history EXCEPT !.panel = RetryFailed(@)]

\* The same for a panel that is gone: only its timer is left of it.
OrphanSettled ==
  /\ history.orphans > 0
  /\ \/ history' = [history EXCEPT !.orphans = @ - 1, !.dismissals = @ + 1]
     \/ history' = [history EXCEPT !.orphans = @ - 1]

\* The panel's buttons, disabled while it retries.
Dismiss ==
  /\ PanelShown(history) /\ ~history.panel.isRetrying
  /\ HistoryTo([history EXCEPT !.retrying = 0])

\* The 3 s timer calls the same: it closes whatever panel is open by then.
AutoDismiss ==
  /\ history.dismissals > 0
  /\ HistoryTo([history EXCEPT !.dismissals = @ - 1, !.retrying = 0])

-----------------------------------------------------------------------------
HistoryInit == history = HistoryMounted

HistoryNext ==
  \/ HistoryLoaded
  \/ \E filter \in Filter : ChangeFilter(filter)
  \/ ClearFilters
  \/ ClearFromEmpty
  \/ FilterRendered
  \/ ChoosePage
  \/ \E id \in Ids : ToggleDetails(id) \/ StartRetry(id)
  \/ RetryTransaction
  \/ RetrySettled
  \/ OrphanSettled
  \/ Dismiss
  \/ AutoDismiss

-----------------------------------------------------------------------------
HistoryTypeOK == history \in HistoryState

\* The page on screen exists, whichever filter it belongs to, unless a page
\* was chosen while a filter was waiting to be rendered.
PageExists ==
  history.raced \/ history.shown.page = 1
    \/ history.shown.page <= TotalPages(history.shown.filter)

\* A retry that the user waits for ends, in success or with a message.
RetriesConclude == history.panel.isRetrying ~> ~history.panel.isRetrying
=============================================================================
