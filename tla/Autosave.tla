------------------------------ MODULE Autosave ------------------------------
(***************************************************************************)
(* The hook usePolicyDraftAutosave (hooks/use-autosave.ts): a draft kept   *)
(* in React state, saved to localStorage half a second after the last      *)
(* change, and shared by every tab of the browser that has the form open.  *)
(*                                                                         *)
(* The browser's side is modelled as the hook uses it: a write that        *)
(* changes the stored value queues a storage event for every other tab,    *)
(* delivered later and in order; a timer fires once, at some moment after  *)
(* it was set; a write may fail (no space left).  Two events never read    *)
(* the same Date.now().  React applies a state set in a click or input     *)
(* handler at once; one set in a storage event handler later, so that a    *)
(* timer that is due may fire in between.                                  *)
(***************************************************************************)
EXTENDS Integers, Sequences, FiniteSets, SequencesExt

CONSTANTS
  Tabs,         \* tabs of one browser
  Drafts,       \* contents of a draft
  Blank,        \* the content of INITIAL_DRAFT
  MaxNow,       \* bound: events that read the clock
  MaxFailures   \* bound: writes that fail

ASSUME AutosaveAssumption == Blank \in Drafts /\ MaxNow \in Nat /\ MaxFailures \in Nat

VARIABLES
  tabs,         \* the hook's state in every tab
  storage,      \* localStorage[key]
  backup,       \* localStorage[key-backup]
  inbox,        \* storage events on their way to a tab, oldest first
  now,          \* the clock, in events
  failures,     \* writes that have failed
  torn,         \* history: a save fell between an adoption and its rendering
  lastWriter    \* history: the tabs that wrote the stored draft last

autosaveVars == <<tabs, storage, backup, inbox, now, failures, torn, lastWriter>>

\* A draft in storage with the time of its edit; a draft from before the
\* envelope was introduced counts as edited at 0.
Nothing == [data |-> Blank, stamp |-> -1]
StoredDraft == [data : Drafts, stamp : 0..MaxNow] \cup {Nothing}

\* pristine: the state is still the object INITIAL_DRAFT, so that setting it
\* to INITIAL_DRAFT again renders nothing.  queued: what the next render
\* shows, after a storage event.
TabState == [open : BOOLEAN, data : Drafts, pristine : BOOLEAN, editedAt : 0..MaxNow,
             timer : BOOLEAN, saved : BOOLEAN, offered : BOOLEAN,
             rendering : BOOLEAN, queued : Drafts]

Closed == [open |-> FALSE, data |-> Blank, pristine |-> TRUE, editedAt |-> 0,
           timer |-> FALSE, saved |-> TRUE, offered |-> FALSE,
           rendering |-> FALSE, queued |-> Blank]

Tick == now < MaxNow /\ now' = now + 1

-----------------------------------------------------------------------------
\* The timer is not started again.
BadRendered(tab, d) ==
  [tab EXCEPT !.data = d, !.pristine = FALSE, !.saved = FALSE,
              !.rendering = FALSE, !.queued = Blank]

\* What the effect on [key, state] does to a tab whose state changes: the
\* timer starts again and the draft counts as unsaved.
Rendered(tab, d) ==
  [tab EXCEPT !.data = d, !.pristine = FALSE, !.timer = TRUE, !.saved = FALSE,
              !.rendering = FALSE, !.queued = Blank]

\* localStorage.setItem and removeItem, with the storage events: none when
\* the value stays the same.
Store(t, value) ==
  /\ storage' = value
  /\ lastWriter' = {t}
  /\ inbox' = [o \in Tabs |-> IF o # t /\ tabs[o].open /\ value # storage
                              THEN Append(inbox[o], value) ELSE inbox[o]]

\* The form is opened: the state is read from storage, and the effect of the
\* first render sets the timer.
OpenTab(t) ==
  /\ ~tabs[t].open
  /\ tabs' = [tabs EXCEPT ![t] =
       [open |-> TRUE, data |-> storage.data, pristine |-> storage = Nothing,
        editedAt |-> IF storage = Nothing THEN 0 ELSE storage.stamp,
        timer |-> TRUE, saved |-> FALSE, offered |-> backup # Nothing,
        rendering |-> FALSE, queued |-> Blank]]
  /\ UNCHANGED <<storage, backup, inbox, now, failures, torn, lastWriter>>

\* The form is left: the effects' clean-ups clear the timer and the listener.
CloseTab(t) ==
  /\ tabs[t].open
  /\ tabs' = [tabs EXCEPT ![t] = Closed]
  /\ inbox' = [inbox EXCEPT ![t] = <<>>]
  /\ UNCHANGED <<storage, backup, now, failures, torn, lastWriter>>

\* setState.
EditDraft(t, d) ==
  /\ tabs[t].open /\ Tick
  /\ tabs' = [tabs EXCEPT ![t] = [Rendered(tabs[t], d) EXCEPT !.editedAt = now + 1]]
  /\ UNCHANGED <<storage, backup, inbox, failures, torn, lastWriter>>

\* The debounced save: the state of the last render, with the time of the
\* last edit, or the present when there was none.
SaveDraft(t) ==
  /\ tabs[t].open /\ tabs[t].timer
  /\ IF tabs[t].editedAt = 0
     THEN Tick /\ Store(t, [data |-> tabs[t].data, stamp |-> now + 1])
     ELSE UNCHANGED now /\ Store(t, [data |-> tabs[t].data, stamp |-> tabs[t].editedAt])
  /\ tabs' = [tabs EXCEPT ![t].timer = FALSE, ![t].saved = TRUE]
  /\ torn' = (torn \/ tabs[t].rendering)
  /\ UNCHANGED <<backup, failures>>

\* Set before the write is tried.
BadNotSaved(tab) == [tab EXCEPT !.timer = FALSE, !.saved = TRUE]

NotSaved(tab) == [tab EXCEPT !.timer = FALSE, !.saved = FALSE]

\* setItem throws.
SaveFails(t) ==
  /\ tabs[t].open /\ tabs[t].timer /\ failures < MaxFailures
  /\ failures' = failures + 1
  /\ tabs' = [tabs EXCEPT ![t] = NotSaved(tabs[t])]
  /\ UNCHANGED <<storage, backup, inbox, now, torn, lastWriter>>

\* Not while a save of our own is due.
BadIsNewerWhenIdle(tab, stored) == stored.stamp > tab.editedAt /\ ~tab.timer

\* A removal is ignored.
IsNewer(tab, stored) == stored # Nothing /\ stored.stamp > tab.editedAt

\* The time of the other tab's edit is not taken over.
BadAdopted(tab, stored) ==
  [tab EXCEPT !.editedAt = now, !.rendering = TRUE, !.queued = stored.data]

Adopted(tab, stored) ==
  [tab EXCEPT !.editedAt = stored.stamp, !.rendering = TRUE, !.queued = stored.data]

\* handleStorage: what another tab wrote is adopted when it is newer than
\* the last edit here.
ReceiveStorage(t) ==
  /\ inbox[t] # <<>>
  /\ inbox' = [inbox EXCEPT ![t] = Tail(@)]
  /\ tabs' = IF IsNewer(tabs[t], Head(inbox[t]))
             THEN [tabs EXCEPT ![t] = Adopted(tabs[t], Head(inbox[t]))]
             ELSE tabs
  /\ UNCHANGED <<storage, backup, now, failures, torn, lastWriter>>

\* React renders the adopted draft.
RenderAdopted(t) ==
  /\ tabs[t].rendering
  /\ tabs' = [tabs EXCEPT ![t] = Rendered(tabs[t], tabs[t].queued)]
  /\ UNCHANGED <<storage, backup, inbox, now, failures, torn, lastWriter>>

\* clear: the stored draft goes to the backup (when that can be written), the
\* state goes back to INITIAL_DRAFT and the stored draft is removed.  The
\* effect runs only when the state was another object.
ClearDraft(t) ==
  LET kept == storage # Nothing
      cleared(ok) ==
        [(IF tabs[t].pristine
          THEN [tabs[t] EXCEPT !.saved = TRUE, !.rendering = FALSE, !.queued = Blank]
          ELSE [Rendered(tabs[t], Blank) EXCEPT !.pristine = TRUE])
         EXCEPT !.editedAt = now + 1, !.offered = (kept /\ ok) \/ tabs[t].offered]
  IN /\ tabs[t].open /\ Tick
     /\ \/ backup' = (IF kept THEN storage ELSE backup) /\ UNCHANGED failures
           /\ tabs' = [tabs EXCEPT ![t] = cleared(TRUE)]
        \/ kept /\ failures < MaxFailures
           /\ failures' = failures + 1 /\ UNCHANGED backup
           /\ tabs' = [tabs EXCEPT ![t] = cleared(FALSE)]
     /\ Store(t, Nothing)
     /\ UNCHANGED torn

\* restoreCleared, from the button `Undo discard': refused unless the backup
\* is newer than the last edit, which clear has set to the present.  When the
\* draft cannot be written it is shown all the same, and the backup stays.
UndoDiscard(t) ==
  LET restored == [Rendered(tabs[t], backup.data) EXCEPT !.editedAt = backup.stamp]
  IN /\ tabs[t].open /\ tabs[t].offered
     /\ backup # Nothing /\ backup.stamp > tabs[t].editedAt
     /\ \/ /\ tabs' = [tabs EXCEPT ![t] = [restored EXCEPT !.offered = FALSE]]
           /\ Store(t, backup)
           /\ backup' = Nothing
           /\ UNCHANGED failures
        \/ /\ failures < MaxFailures /\ failures' = failures + 1
           /\ tabs' = [tabs EXCEPT ![t] = restored]
           /\ UNCHANGED <<storage, backup, inbox, lastWriter>>
     /\ UNCHANGED <<now, torn>>

-----------------------------------------------------------------------------
\* A browser as it is found: perhaps a draft of an earlier version.
AutosaveInit ==
  /\ tabs = [t \in Tabs |-> Closed]
  /\ storage \in {Nothing} \cup [data : Drafts \ {Blank}, stamp : {0}]
  /\ backup = Nothing
  /\ inbox = [t \in Tabs |-> <<>>]
  /\ now = 0 /\ failures = 0
  /\ torn = FALSE /\ lastWriter = {}

AutosaveNext ==
  \E t \in Tabs :
    \/ OpenTab(t)
    \/ CloseTab(t)
    \/ \E d \in Drafts : EditDraft(t, d)
    \/ SaveDraft(t)
    \/ SaveFails(t)
    \/ ReceiveStorage(t)
    \/ RenderAdopted(t)
    \/ ClearDraft(t)
    \/ UndoDiscard(t)

\* The browser runs the timers that are due, delivers its events and lets
\* React render; the user owes nothing.
AutosaveFairness ==
  \A t \in Tabs : /\ WF_autosaveVars(SaveDraft(t))
                  /\ WF_autosaveVars(ReceiveStorage(t))
                  /\ WF_autosaveVars(RenderAdopted(t))

AutosaveSpec == AutosaveInit /\ [][AutosaveNext]_autosaveVars /\ AutosaveFairness

-----------------------------------------------------------------------------
(* Properties.                                                             *)

\* Types: what each tab, the two keys of storage and the events hold.
AutosaveTypeOK ==
  /\ tabs \in [Tabs -> TabState]
  /\ storage \in StoredDraft /\ backup \in StoredDraft
  /\ inbox \in [Tabs -> Seq(StoredDraft)]
  /\ now \in 0..MaxNow /\ failures \in 0..MaxFailures
  /\ torn \in BOOLEAN /\ lastWriter \in SUBSET Tabs

\* Every copy of a draft with the time of its edit.
Copies ==
  {storage, backup}
    \cup (UNION {ToSet(inbox[t]) : t \in Tabs})
    \cup {[data |-> IF tabs[t].rendering THEN tabs[t].queued ELSE tabs[t].data,
           stamp |-> tabs[t].editedAt] : t \in {o \in Tabs : tabs[o].open}}

\* The comparison of times in handleStorage decides rightly which draft is
\* newer: two copies with the time of one edit hold the same content, in the
\* tabs, in storage, in the backup and in the events.  A save that falls
\* between the adoption of another tab's draft and its rendering stores the
\* old content with the new time; the history variable records that.
StampsIdentifyDrafts ==
  ~torn => \A x, y \in Copies : x.stamp = y.stamp /\ x.stamp > 0 => x.data = y.data

\* Tabs, storage and events hold drafts, each told from the others by its time.
DraftsIdentified == AutosaveTypeOK /\ StampsIdentifyDrafts

\* `Draft saved' is true of the tab that wrote last: what it shows is what
\* the next visit will read.
SavedMeansStored ==
  \A t \in Tabs :
    /\ tabs[t].open /\ tabs[t].saved /\ lastWriter = {t} /\ storage # Nothing
    => storage.data = tabs[t].data

\* A draft that was edited is saved, or replaced by a later edit, discarded
\* or left (by closing the form within the delay), unless a write failed.
EditsAreSaved ==
  \A t \in Tabs, s \in 1..MaxNow :
    (tabs[t].open /\ ~tabs[t].saved /\ tabs[t].editedAt = s /\ tabs[t].data # Blank)
      ~> (\/ storage.stamp >= s \/ failures > 0
          \/ ~tabs[t].open \/ tabs[t].editedAt # s)

\* Once tabs are no longer opened, no open tab goes on showing a draft older than the
\* one that is stored, unless a write failed or was torn.  (It may show a newer
\* one: a tab that left before an event reached it may have saved over it.)
NoTabStaysBehind ==
  <>[][\A t \in Tabs : ~OpenTab(t)]_autosaveVars =>
  <>[](\/ failures > 0 \/ torn
       \/ \A t \in Tabs : tabs[t].open =>
            tabs[t].data = storage.data \/ tabs[t].editedAt > storage.stamp)
=============================================================================
