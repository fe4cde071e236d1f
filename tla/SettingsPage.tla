---------------------------- MODULE SettingsPage ----------------------------
(***************************************************************************)
(* The settings (app/settings/settings-page-client.tsx) and the address    *)
(* book on their last tab (components/address-book.tsx), which may be open *)
(* in several windows over one localStorage.                               *)
(*                                                                         *)
(* The eight settings are abstracted to one value; an entry of the book to *)
(* its id and its address.  A form the book refuses whatever its entries   *)
(* are, as a new one is (no label, no Stellar address), has BadAddress.    *)
(***************************************************************************)
EXTENDS Naturals, Sequences, SequencesExt, FiniteSets, Lists

CONSTANTS
  Settings,    \* values of the settings
  Initial,     \* INITIAL_SETTINGS
  Windows,     \* where the address book may be open
  Addresses,
  BadAddress,
  EntryIds     \* bound: entries a book can hold

ASSUME SettingsAssumption ==
  /\ Initial \in Settings /\ BadAddress \notin Addresses
  /\ 0 \notin EntryIds /\ IsFiniteSet(EntryIds)

VARIABLES settings, book

-----------------------------------------------------------------------------
(* The settings.  captured: what handleSave's closure holds while the save *)
(* is under way; status: the message of success is shown.                  *)

Tabs == <<"account", "preferences", "security", "address-book">>

SettingsState ==
  [tab : 1..Len(Tabs), form : Settings, saved : Settings, captured : Settings,
   loading : BOOLEAN, status : BOOLEAN]

SettingsMounted ==
  [tab |-> 1, form |-> Initial, saved |-> Initial, captured |-> Initial,
   loading |-> FALSE, status |-> FALSE]

IsDirty == settings.form # settings.saved

\* A tab's button, and the arrow keys on the button that has the focus, which
\* is any: the keys choose another tab and leave the focus where it is.
ChooseTab(tab) == settings' = [settings EXCEPT !.tab = tab]
ArrowRight(index) == ChooseTab((index % Len(Tabs)) + 1)
ArrowLeft(index) == ChooseTab(((index + Len(Tabs) - 2) % Len(Tabs)) + 1)

OnSettingsTab == Tabs[settings.tab] # "address-book"

\* The fields stay enabled during a save.
ChangeSettings(value) ==
  OnSettingsTab /\ settings' = [settings EXCEPT !.form = value]

\* handleSave, up to the await.
SaveSettings ==
  /\ OnSettingsTab /\ ~settings.loading /\ IsDirty
  /\ settings' = [settings EXCEPT !.loading = TRUE, !.status = FALSE,
                                  !.captured = settings.form]

\* What the form holds by then is taken for saved.
BadSettingsSaved ==
  /\ settings.loading
  /\ settings' = [settings EXCEPT !.loading = FALSE, !.status = TRUE,
                                  !.saved = settings.form]

\* After the 500 ms.
SettingsSaved ==
  /\ settings.loading
  /\ settings' = [settings EXCEPT !.loading = FALSE, !.status = TRUE,
                                  !.saved = settings.captured]

SettingsNext ==
  \/ \E tab \in 1..Len(Tabs) : ChooseTab(tab) \/ ArrowRight(tab) \/ ArrowLeft(tab)
  \/ \E value \in Settings : ChangeSettings(value)
  \/ SaveSettings
  \/ SettingsSaved

-----------------------------------------------------------------------------
(* The address book.                                                       *)

Entry == [id : EntryIds, address : Addresses]

\* The form's draft has the id of the entry it edits, or 0.
Book ==
  [open : BOOLEAN, entries : SeqOf(Entry, Cardinality(EntryIds)), formOpen : BOOLEAN,
   draft : [id : EntryIds \cup {0}, address : Addresses \cup {BadAddress}]]

EmptyDraft == [id |-> 0, address |-> BadAddress]
ClosedBook == [open |-> FALSE, entries |-> <<>>, formOpen |-> FALSE, draft |-> EmptyDraft]

BookState == [stored : SeqOf(Entry, Cardinality(EntryIds)), at : [Windows -> Book]]
BookMounted == [stored |-> <<>>, at |-> [w \in Windows |-> ClosedBook]]

IdsOf(entries) == {e.id : e \in ToSet(entries)}

InBook(w, new) == book' = [book EXCEPT !.at[w] = new]

\* A change of the entries is written by the effect that follows it, unless
\* the storage is full.
EntriesChange(w, new) ==
  \/ book' = [book EXCEPT !.at[w] = new, !.stored = new.entries]
  \/ InBook(w, new)

OpenBook(w) ==
  /\ ~book.at[w].open
  /\ InBook(w, [ClosedBook EXCEPT !.open = TRUE, !.entries = book.stored])

\* Another tab of the settings, another page, or the window closes.
CloseBook(w) == book.at[w].open /\ InBook(w, ClosedBook)

StartCreate(w) ==
  /\ book.at[w].open /\ ~book.at[w].formOpen
  /\ InBook(w, [book.at[w] EXCEPT !.formOpen = TRUE, !.draft = EmptyDraft])

\* Also while the form is open, which takes over the entry.
StartEdit(w) ==
  /\ book.at[w].open
  /\ \E e \in ToSet(book.at[w].entries) :
       InBook(w, [book.at[w] EXCEPT !.formOpen = TRUE, !.draft = e])

CancelDraft(w) ==
  /\ book.at[w].formOpen
  /\ InBook(w, [book.at[w] EXCEPT !.formOpen = FALSE, !.draft = EmptyDraft])

EnterAddress(w, address) ==
  /\ book.at[w].formOpen
  /\ InBook(w, [book.at[w] EXCEPT !.draft.address = address])

Duplicate(entries, draft) ==
  \E e \in ToSet(entries) : e.address = draft.address /\ e.id # draft.id

\* An id no entry has stands for a new one.
Submitted(entries, draft) ==
  IF draft.id # 0
  THEN [i \in DOMAIN entries |-> IF entries[i].id = draft.id THEN draft ELSE entries[i]]
  ELSE Append(entries, [draft EXCEPT !.id = CHOOSE id \in EntryIds : id \notin IdsOf(entries)])

\* handleSubmit; refused with a message, it changes nothing else.
Acceptable(b) ==
  /\ b.formOpen /\ b.draft.address # BadAddress /\ ~Duplicate(b.entries, b.draft)
  /\ b.draft.id = 0 => IdsOf(b.entries) # EntryIds

SubmitEntry(w) ==
  /\ Acceptable(book.at[w])
  /\ LET b == book.at[w]
     IN EntriesChange(w, [b EXCEPT !.entries = Submitted(b.entries, b.draft),
                                   !.formOpen = FALSE, !.draft = EmptyDraft])

\* Also while the entry is being edited.
RemoveEntry(w) ==
  /\ book.at[w].open
  /\ \E e \in ToSet(book.at[w].entries) :
       EntriesChange(w, [book.at[w] EXCEPT !.entries = Kept(@, {f \in Entry : f.id # e.id})])

BookNext ==
  \E w \in Windows :
    \/ OpenBook(w)
    \/ CloseBook(w)
    \/ StartCreate(w)
    \/ StartEdit(w)
    \/ CancelDraft(w)
    \/ \E a \in Addresses : EnterAddress(w, a)
    \/ SubmitEntry(w)
    \/ RemoveEntry(w)

-----------------------------------------------------------------------------
SettingsTypeOK == settings \in SettingsState /\ book \in BookState

\* A setting changed while the settings are being saved is not taken for
\* saved: it stays in the form, and the button stays enabled for it.
LaterEditsStayDirty ==
  [][settings.loading /\ ~settings'.loading
       => /\ settings'.form = settings.form
          /\ settings.form # settings.captured => IsDirty']_settings

\* No address is twice in the book, in any window and in the storage, however
\* entries are edited, removed and written over by another window.
AddressesDistinct ==
  \A entries \in {book.stored} \cup {book.at[w].entries : w \in Windows} :
    /\ IsInjective([i \in DOMAIN entries |-> entries[i].address])
    /\ IsInjective([i \in DOMAIN entries |-> entries[i].id])

\* Saving the form puts its address into the book, unless the entry it edits
\* has been removed meanwhile: then the form closes and nothing is saved.
SavedEntryIsListed ==
  [][\A w \in Windows :
       book.at[w].formOpen /\ book'.at[w].entries # book.at[w].entries
         /\ ~book'.at[w].formOpen /\ book'.at[w].open
       => \E e \in ToSet(book'.at[w].entries) : e.address = book.at[w].draft.address]_book
=============================================================================
