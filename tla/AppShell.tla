------------------------------ MODULE AppShell ------------------------------
(***************************************************************************)
(* What surrounds every page of the frontend: the header with its drawer   *)
(* and the notifications (components/site-header.tsx, notifications-       *)
(* panel.tsx, lib/notifications-store.ts), the introduction for new users  *)
(* (onboarding.tsx), the banner about the network (offline-banner.tsx) and *)
(* the queue of messages about transactions (transaction-toast-queue.tsx). *)
(*                                                                         *)
(* The four share no state; each has a variable of its own.                *)
(***************************************************************************)
EXTENDS Integers, Sequences, SequencesExt, FiniteSets, Lists

CONSTANTS
  Notifications,  \* ids of MOCK_NOTIFICATIONS
  ReadAtFirst,    \* those of them that are read
  Updater,        \* a function, where a list is expected
  MaxLoads,       \* bound: loads of the notifications under way
  LastStep,       \* the introduction's steps are 0..LastStep
  MaxMoves,       \* bound: moves of the introduction under way
  ToastIds        \* bound: messages in the queue

ASSUME ShellAssumption ==
  /\ ReadAtFirst \subseteq Notifications /\ LastStep \in Nat
  /\ MaxLoads \in Nat /\ MaxMoves \in Nat /\ IsFiniteSet(ToastIds)

VARIABLES header, intro, net, toasts

-----------------------------------------------------------------------------
(* The header and the notifications.  A list of notifications is the       *)
(* function that tells for each of its ids whether it is read.  store:     *)
(* currentNotifications; bell, panel: the snapshots of the two that listen;*)
(* loads: 500 ms timers.                                                   *)

Mock == [n \in Notifications |-> n \in ReadAtFirst]
NoNotifications == [n \in {} |-> TRUE]
NotificationLists == [Notifications -> BOOLEAN] \cup {NoNotifications}

HeaderState ==
  [drawer : BOOLEAN, open : BOOLEAN, loading : BOOLEAN, loads : 0..MaxLoads,
   store : NotificationLists \cup {Updater}, bell : NotificationLists,
   panel : NotificationLists]

HeaderMounted ==
  [drawer |-> FALSE, open |-> FALSE, loading |-> FALSE, loads |-> 0,
   store |-> Mock, bell |-> Mock, panel |-> Mock]

\* The links of the drawer, its backdrop and Escape close it.
ToggleDrawer == header' = [header EXCEPT !.drawer = ~@]
CloseDrawer == header.drawer /\ header' = [header EXCEPT !.drawer = FALSE]

\* setNotifications with a list: the store, then every listener.
Published(h, list) == [h EXCEPT !.store = list, !.bell = list, !.panel = list]

OpenNotifications ==
  /\ ~header.open /\ header.loads < MaxLoads
  /\ header' = [header EXCEPT !.open = TRUE, !.loading = TRUE, !.loads = @ + 1]

CloseNotifications == header.open /\ header' = [header EXCEPT !.open = FALSE]

\* The timer ends, whether the panel is still open or has been opened again;
\* the first to end clears `loading'.
NotificationsLoaded ==
  /\ header.loads > 0
  /\ header' = [Published(header, Mock) EXCEPT !.loads = @ - 1, !.loading = FALSE]

ListShown == header.open /\ ~header.loading /\ header.panel # NoNotifications

\* markAsRead hands the store a function where it expects a list.  The store
\* keeps it; the listeners, which hand it to setState, apply it.
MarkAsRead(n) ==
  /\ ListShown
  /\ header' = [header EXCEPT !.store = Updater, !.bell[n] = TRUE, !.panel[n] = TRUE]

ClearAll == ListShown /\ header' = Published(header, NoNotifications)

HeaderNext ==
  \/ ToggleDrawer
  \/ CloseDrawer
  \/ OpenNotifications
  \/ CloseNotifications
  \/ NotificationsLoaded
  \/ \E n \in Notifications : MarkAsRead(n)
  \/ ClearAll

-----------------------------------------------------------------------------
(* The introduction.  moves: the 180 ms timers of next and prev, eldest    *)
(* first; seen: the key in localStorage; crashed: a step that does not     *)
(* exist was rendered.  hurried: history, something was pressed while a    *)
(* timer ran.                                                              *)

IntroState ==
  [visible : BOOLEAN, step : Int, moves : SeqOf({-1, 1}, MaxMoves), seen : BOOLEAN,
   crashed : BOOLEAN, hurried : BOOLEAN]

IntroMounted(seen) ==
  [visible |-> ~seen, step |-> 0, moves |-> <<>>, seen |-> seen,
   crashed |-> FALSE, hurried |-> FALSE]

IntroRendered(i) ==
  IF i.visible /\ i.step \notin 0..LastStep
  THEN [i EXCEPT !.visible = FALSE, !.crashed = TRUE] ELSE i

Pressed(i) == [i EXCEPT !.hurried = @ \/ i.moves # <<>>]
Dismissed(i) == [i EXCEPT !.seen = TRUE, !.visible = FALSE]

\* next: the step it looks at is the one on screen.
NextStep ==
  /\ intro.visible /\ Len(intro.moves) < MaxMoves
  /\ intro' = IF intro.step < LastStep
              THEN [Pressed(intro) EXCEPT !.moves = Append(@, 1)]
              ELSE Dismissed(Pressed(intro))

PrevStep ==
  /\ intro.visible /\ Len(intro.moves) < MaxMoves /\ intro.step > 0
  /\ intro' = [Pressed(intro) EXCEPT !.moves = Append(@, -1)]

ChooseStep(step) ==
  intro.visible /\ intro' = [Pressed(intro) EXCEPT !.step = step]

\* Skip and Escape.
SkipIntro == intro.visible /\ intro' = Dismissed(intro)

MoveEnds ==
  /\ intro.moves # <<>>
  /\ intro' = IntroRendered([intro EXCEPT !.step = @ + Head(intro.moves), !.moves = Tail(@)])

\* The page is loaded again.
ReloadIntro == intro' = IntroMounted(intro.seen)

IntroNext ==
  \/ NextStep
  \/ PrevStep
  \/ \E step \in 0..LastStep : ChooseStep(step)
  \/ SkipIntro
  \/ MoveEnds
  \/ ReloadIntro

-----------------------------------------------------------------------------
(* The banner.  online: what the browser says; timer: the one of 3 s that  *)
(* restoreTimerRef holds.                                                  *)

NetState ==
  [online : BOOLEAN, state : {"online", "offline", "restored"}, dismissed : BOOLEAN,
   timer : BOOLEAN]

\* Mounted without a network it is as after GoOffline.
NetMounted == [online |-> TRUE, state |-> "online", dismissed |-> FALSE, timer |-> FALSE]

BannerShown == ~net.dismissed /\ net.state # "online"

\* The timer is not cleared.
BadGoOffline ==
  /\ net.online
  /\ net' = [net EXCEPT !.online = FALSE, !.state = "offline", !.dismissed = FALSE]

GoOffline ==
  /\ net.online
  /\ net' = [net EXCEPT !.online = FALSE, !.state = "offline", !.dismissed = FALSE,
                        !.timer = FALSE]

GoOnline ==
  /\ ~net.online
  /\ net' = [net EXCEPT !.online = TRUE, !.state = "restored", !.dismissed = FALSE,
                        !.timer = TRUE]

RestoredEnds ==
  net.timer /\ net' = [net EXCEPT !.timer = FALSE, !.state = "online"]

DismissBanner ==
  /\ BannerShown /\ net.state = "offline"
  /\ net' = [net EXCEPT !.dismissed = TRUE]

NetNext == GoOffline \/ GoOnline \/ RestoredEnds \/ DismissBanner

-----------------------------------------------------------------------------
(* The queue.  queue: the messages in order; timers: the ids in the map.   *)

ToastStatus == {"pending", "success", "failure"}
Toast == [id : ToastIds, status : ToastStatus]
ToastsState ==
  [queue : SeqOf(Toast, Cardinality(ToastIds)), timers : SUBSET ToastIds]
ToastsMounted == [queue |-> <<>>, timers |-> {}]
ShownIds == {t.id : t \in ToSet(toasts.queue)}

\* An id that is not in use stands for a new one.
Enqueue(status) ==
  \E id \in ToastIds \ ShownIds :
    toasts' = [toasts EXCEPT !.queue = Append(@, [id |-> id, status |-> status]),
                 !.timers = IF status # "pending" THEN @ \cup {id} ELSE @]

\* dismiss, by its button or by its 5 s timer.
DismissedToast(q, id) ==
  [q EXCEPT !.queue = Kept(@, {t \in Toast : t.id # id}), !.timers = @ \ {id}]

DismissToast(id) == id \in ShownIds /\ toasts' = DismissedToast(toasts, id)
ToastTimer(id) == id \in toasts.timers /\ toasts' = DismissedToast(toasts, id)

ToastsNext ==
  \/ \E status \in ToastStatus : Enqueue(status)
  \/ \E id \in ToastIds : DismissToast(id) \/ ToastTimer(id)

-----------------------------------------------------------------------------
ShellTypeOK ==
  header \in HeaderState /\ intro \in IntroState /\ net \in NetState /\ toasts \in ToastsState

\* lib/notifications-store.ts: `so the bell's unread indicator stays in sync
\* with the panel's contents', though markAsRead leaves no list in the store
\* for them to read.
BellInSync == header.bell = header.panel

\* Notifications that are being loaded come, however often the panel is closed
\* and opened meanwhile.
NotificationsCome == (header.open /\ header.loading) ~> (~header.open \/ ~header.loading)

\* The introduction fails only for a user who presses something in the 180 ms
\* a step takes to change; and a user who has left it never sees it again.
IntroSound ==
  /\ intro.crashed => intro.hurried
  /\ intro.visible => intro.step \in 0..LastStep
  /\ intro.seen => ~intro.visible

\* While the network is away the banner's state says so: no timer left over
\* from an earlier return declares it back.
OutageIsKnown == (net.state = "offline") <=> ~net.online

\* A message about a transaction that is over leaves the screen, whatever else
\* is queued or dismissed.
ToastsLeave ==
  \A id \in ToastIds :
    (\E t \in ToSet(toasts.queue) : t.id = id /\ t.status # "pending")
      ~> ~(\E t \in ToSet(toasts.queue) : t.id = id /\ t.status # "pending")
=============================================================================
