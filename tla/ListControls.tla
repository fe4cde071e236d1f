---------------------------- MODULE ListControls ----------------------------
(***************************************************************************)
(* Lists whose state is in the address of the page: the pagination         *)
(* (components/pagination.tsx) and the filters of the list of claims       *)
(* (components/claim-history-list.tsx).                                    *)
(*                                                                         *)
(* External: the router carries out a navigation later, and a newer one    *)
(* supersedes it; the parameters a component reads are those of the last   *)
(* navigation carried out.                                                 *)
(***************************************************************************)
EXTENDS Integers, Sequences, SequencesExt

CONSTANTS
  ITEMS_PER_PAGE,  \* the prop itemsPerPage
  MaxItems,        \* bound: of the prop totalItems
  Filters          \* FILTERABLE_STATUSES

ASSUME ListsAssumption ==
  ITEMS_PER_PAGE \in Nat \ {0} /\ MaxItems \in Nat /\ "none" \notin Filters

VARIABLES paging, claimList

-----------------------------------------------------------------------------
(* The pagination.  page: as the address says, which may name any; going:  *)
(* the page a navigation is on its way to, or 0.                           *)

PagesOf(items) == (items + ITEMS_PER_PAGE - 1) \div ITEMS_PER_PAGE
MaxPages == PagesOf(MaxItems)

PagingState == [page : 1..MaxPages + 2, items : 0..MaxItems, going : 0..MaxPages]
PagingMounted == [page |-> 1, items |-> MaxItems, going |-> 0]

\* 0 stands for an ellipsis.
Ellipsis == 0

\* renderPageNumbers.
PageNumbers(current, total) ==
  IF total <= 5 THEN [i \in 1..total |-> i]
  ELSE IF current <= 3 THEN <<1, 2, 3, 4, Ellipsis, total>>
  ELSE IF current >= total - 2
       THEN <<1, Ellipsis, total - 3, total - 2, total - 1, total>>
  ELSE <<1, Ellipsis, current - 1, current, current + 1, Ellipsis, total>>

\* goToPage.  The button `Next' is enabled only on a page before the last.
GoToPage(page) ==
  /\ PagesOf(paging.items) > 1
  /\ page \in 1..PagesOf(paging.items) /\ page # paging.page
  /\ paging' = [paging EXCEPT !.going = page]

ClickPage ==
  \E page \in ToSet(PageNumbers(paging.page, PagesOf(paging.items))) \cup
              {paging.page - 1, paging.page + 1} : GoToPage(page)

PageShown ==
  /\ paging.going # 0
  /\ paging' = [paging EXCEPT !.page = paging.going, !.going = 0]

\* External: the parent's list changes.
ItemsChange ==
  \E n \in 0..MaxItems : paging' = [paging EXCEPT !.items = n]

\* External: the user follows a link or goes back, to any page.
AddressNamesPage ==
  \E page \in 1..MaxPages + 2 : paging' = [paging EXCEPT !.page = page, !.going = 0]

PagingNext == ClickPage \/ PageShown \/ ItemsChange \/ AddressNamesPage

-----------------------------------------------------------------------------
(* The filters.  active: activeFilters; url: those in the address; going:  *)
(* those in the address to be, or NoNavigation.  The order the claims are  *)
(* shown in is the component's own.  For the property alone, outside: the  *)
(* address has been changed by others since a filter was last set.         *)

NoNavigation == {"none"}
SortFields == {"date", "amount", "status"}
ClaimListState ==
  [loading : BOOLEAN, active : SUBSET Filters, url : SUBSET Filters,
   going : (SUBSET Filters) \cup {NoNavigation}, outside : BOOLEAN,
   sortBy : SortFields, sortOrder : {"asc", "desc"}]

\* parseStatusFilters, when the list is mounted and then never again.
ClaimListMounted(url) ==
  [loading |-> TRUE, active |-> url, url |-> url, going |-> NoNavigation,
   outside |-> FALSE, sortBy |-> "date", sortOrder |-> "desc"]

\* External: the parent has the claims.
ClaimsArrive == claimList.loading /\ claimList' = [claimList EXCEPT !.loading = FALSE]

UpdateFilters(next) ==
  claimList' = [claimList EXCEPT !.active = next, !.going = next, !.outside = FALSE]

ToggleFilter(status) ==
  /\ ~claimList.loading
  /\ UpdateFilters(IF status \in claimList.active THEN claimList.active \ {status}
                                                  ELSE claimList.active \cup {status})

\* The button of the empty list.
ClearClaimFilters ==
  ~claimList.loading /\ claimList.active # {} /\ UpdateFilters({})

ToggleSort(field) ==
  /\ ~claimList.loading
  /\ claimList' =
       IF claimList.sortBy = field /\ claimList.sortOrder = "desc"
       THEN [claimList EXCEPT !.sortOrder = "asc"]
       ELSE [claimList EXCEPT !.sortBy = field, !.sortOrder = "desc"]

AddressChanged ==
  /\ claimList.going # NoNavigation
  /\ claimList' = [claimList EXCEPT !.url = claimList.going, !.going = NoNavigation]

\* External: the user goes back, or follows a link, to the same page with other
\* filters in its address.  The list stays mounted and keeps its own.
AddressSetOutside ==
  \E url \in SUBSET Filters :
    claimList' = [claimList EXCEPT !.url = url, !.going = NoNavigation, !.outside = TRUE]

\* The page is loaded again, or opened at an address somebody gave.
OpenClaims ==
  \E url \in SUBSET Filters : claimList' = ClaimListMounted(url)

ClaimListNext ==
  \/ ClaimsArrive
  \/ \E status \in Filters : ToggleFilter(status)
  \/ ClearClaimFilters
  \/ \E field \in SortFields : ToggleSort(field)
  \/ AddressChanged
  \/ AddressSetOutside
  \/ OpenClaims

-----------------------------------------------------------------------------
ListsTypeOK == paging \in PagingState /\ claimList \in ClaimListState

\* The page numbers offered go up from the first page to the last, show the
\* current page and its neighbours where they exist, and have an ellipsis
\* exactly where pages are left out.
PageNumbersSound ==
  LET current == paging.page
      total == PagesOf(paging.items)
      numbers == PageNumbers(current, total)
      shown == ToSet(numbers) \ {Ellipsis}
  IN /\ (1..total) \cap {1, current - 1, current, current + 1, total} \subseteq shown
     /\ shown \subseteq 1..total
     /\ \A i \in 1..Len(numbers) - 1 :
          IF numbers[i] = Ellipsis THEN numbers[i + 1] > numbers[i - 1] + 1
          ELSE numbers[i + 1] \in {Ellipsis, numbers[i] + 1}

\* Once the router has caught up with the last filter that was set, the address
\* names the filters on screen: a reload, or whoever is sent the address, sees
\* the same list.  This is so until the address is changed by others than the
\* list, which reads it only when it is mounted (claim-history-list.tsx:104-106),
\* and again from the next filter that is set.
FiltersInAddress ==
  claimList.going = NoNavigation /\ ~claimList.outside => claimList.url = claimList.active
=============================================================================
