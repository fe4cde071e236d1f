------------------------------ MODULE PageHooks ------------------------------
(***************************************************************************)
(* Two hooks that pages are written with: the guard that asks before       *)
(* unsaved changes are left (hooks/use-unsaved-guard.ts with               *)
(* components/unsaved-changes-dialog.tsx) and the list that shows an item  *)
(* before the server has it (hooks/use-optimistic-list.ts).                *)
(***************************************************************************)
EXTENDS Naturals, Sequences, Lists

CONSTANTS
  Pages,            \* pathnames
  EditedPage,       \* the page with the form
  SavedItems,       \* the ids of the items the list begins with
  NewIds,           \* the items it adds
  MaxRequests       \* bound: requests under way for the same item

ASSUME HooksAssumption ==
  /\ EditedPage \in Pages /\ "none" \notin Pages
  /\ "none" \notin NewIds /\ MaxRequests \in Nat
  /\ SavedItems \in Seq({SavedItems[i] : i \in DOMAIN SavedItems})
  /\ \A i \in DOMAIN SavedItems : SavedItems[i] \notin NewIds \cup {"none"}

VARIABLES guard, optimistic

-----------------------------------------------------------------------------
(* The guard.  pending: pendingUrlRef; going: what router.push was called  *)
(* with last, until the page is there.                                     *)

GuardState ==
  [pathname : Pages, isDirty : BOOLEAN, isDialogOpen : BOOLEAN,
   pending : Pages \cup {"none"}, going : Pages \cup {"none"}]
GuardMounted ==
  [pathname |-> EditedPage, isDirty |-> FALSE, isDialogOpen |-> FALSE,
   pending |-> "none", going |-> "none"]

Undisturbed(g) == [g EXCEPT !.isDirty = FALSE, !.isDialogOpen = FALSE, !.pending = "none"]

MarkDirty == guard' = [guard EXCEPT !.isDirty = TRUE]

\* A save may end while the dialog asks.
MarkClean == guard' = Undisturbed(guard)

GuardedNavigate(href) ==
  guard' = IF guard.isDirty
           THEN [guard EXCEPT !.pending = href, !.isDialogOpen = TRUE]
           ELSE [guard EXCEPT !.going = href]

ConfirmLeave ==
  /\ guard.isDialogOpen
  /\ guard' = [Undisturbed(guard) EXCEPT !.going = guard.pending]

\* The button, Escape or a click beside the dialog.
CancelLeave ==
  /\ guard.isDialogOpen
  /\ guard' = [guard EXCEPT !.isDialogOpen = FALSE, !.pending = "none"]

\* The form is reset by a change of the pathname alone.
Arrive ==
  /\ guard.going # "none"
  /\ guard' = [(IF guard.going = guard.pathname THEN guard ELSE Undisturbed(guard))
                 EXCEPT !.pathname = guard.going, !.going = "none"]

GuardNext ==
  \/ MarkDirty
  \/ MarkClean
  \/ \E href \in Pages : GuardedNavigate(href)
  \/ ConfirmLeave
  \/ CancelLeave
  \/ Arrive

-----------------------------------------------------------------------------
(* The optimistic list.  requests: how many attempts to save an item are   *)
(* under way: one that was given up may still be answered.                 *)

ItemIds == NewIds \cup {SavedItems[i] : i \in DOMAIN SavedItems}
Entries ==
  [id : ItemIds, optimisticStatus : {"confirmed", "pending", "error"},
   optimisticId : NewIds \cup {"none"}]
OptimisticLists == [items : Seq(Entries), requests : [NewIds -> 0..MaxRequests]]
ListMounted ==
  [items |-> [i \in DOMAIN SavedItems |->
                [id |-> SavedItems[i], optimisticStatus |-> "confirmed",
                 optimisticId |-> "none"]],
   requests |-> [id \in NewIds |-> 0]]

Listed(id) == \E i \in DOMAIN optimistic.items : optimistic.items[i].id = id

\* What was added under the id gets the status; afterwards it is found as found.
Resolved(id, status, found) ==
  [i \in DOMAIN optimistic.items |->
     IF optimistic.items[i].optimisticId = id
     THEN [optimistic.items[i] EXCEPT !.optimisticStatus = status, !.optimisticId = found]
     ELSE optimistic.items[i]]

\* A caller adds an item and sends it; it sends a dismissed one again.
AddOptimistic(id) ==
  /\ ~Listed(id) /\ optimistic.requests[id] < MaxRequests
  /\ optimistic' = [optimistic EXCEPT !.requests[id] = @ + 1,
       !.items = <<[id |-> id, optimisticStatus |-> "pending", optimisticId |-> id]>> \o @]

\* The entry is replaced by the item alone.
Confirmed(id) == Resolved(id, "confirmed", "none")

ConfirmItem(id) ==
  /\ optimistic.requests[id] > 0
  /\ optimistic' = [optimistic EXCEPT !.requests[id] = @ - 1, !.items = Confirmed(id)]

\* The request fails, or the caller gives it up and it may yet be answered.
RejectItem(id) ==
  /\ optimistic.requests[id] > 0
  /\ \E left \in {optimistic.requests[id] - 1, optimistic.requests[id]} :
       optimistic' = [optimistic EXCEPT !.requests[id] = left,
                                        !.items = Resolved(id, "error", id)]

RemoveItem(id) ==
  LET others == {entry \in Entries : entry.id # id /\ entry.optimisticId # id}
  IN optimistic' = [optimistic EXCEPT !.items = Kept(@, others)]

OptimisticNext ==
  \/ \E id \in NewIds : AddOptimistic(id) \/ ConfirmItem(id) \/ RejectItem(id)
  \/ \E id \in ItemIds : RemoveItem(id)

-----------------------------------------------------------------------------
HooksTypeOK == guard \in GuardState /\ optimistic \in OptimisticLists

\* hooks/use-unsaved-guard.ts: the dialog is on screen only over changes that are
\* still unsaved, and `Leave without saving' has a page to go to, although a save
\* or an earlier navigation may end while it is open.
DialogIsTrue ==
  /\ guard.isDialogOpen => guard.isDirty
  /\ guard.isDialogOpen <=> guard.pending # "none"

\* hooks/use-optimistic-list.ts: what the server has confirmed is not called
\* pending or failed by the late answer of another attempt at the same item.
ConfirmedForGood ==
  [][\A i \in DOMAIN optimistic.items, j \in DOMAIN optimistic'.items :
       (/\ optimistic.items[i].id = optimistic'.items[j].id
        /\ optimistic.items[i].optimisticStatus = "confirmed")
         => optimistic'.items[j].optimisticStatus = "confirmed"]_optimistic
=============================================================================
