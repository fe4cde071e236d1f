--------------------------- MODULE HeaderControls ---------------------------
(***************************************************************************)
(* Small controls that remember something: the choice of the network       *)
(* (components/network-switcher.tsx, context/network-context.tsx), the     *)
(* theme (hooks/use-theme.ts) and the button that copies a text            *)
(* (components/copy-button.tsx).                                           *)
(***************************************************************************)
EXTENDS Naturals

CONSTANTS
  Networks,         \* the keys of NETWORKS
  DEFAULT_NETWORK,
  Switchers,        \* the header has one on its bar and one in its drawer
  MaxCopies         \* bound: copies under way and timers out of reach

ASSUME ControlsAssumption ==
  /\ "mainnet" \in Networks /\ DEFAULT_NETWORK \in Networks /\ "none" \notin Networks
  /\ MaxCopies \in Nat

VARIABLES network, theme, copying

-----------------------------------------------------------------------------
(* The network.  The switchers share the current one and what is saved;    *)
(* each has its own menu, warning and pending network.  For the property   *)
(* alone, apart: what this page set last could not be saved, or another    *)
(* tab has saved its own network since.                                    *)

NetworkState ==
  [current : Networks, saved : Networks \cup {"none"}, apart : BOOLEAN,
   menu : [Switchers -> BOOLEAN], warning : [Switchers -> BOOLEAN],
   pending : [Switchers -> Networks]]

\* A switcher is first rendered before the saved network is read.
NetworkMounted(saved) ==
  [current |-> IF saved = "none" THEN DEFAULT_NETWORK ELSE saved, saved |-> saved,
   apart |-> FALSE,
   menu |-> [s \in Switchers |-> FALSE], warning |-> [s \in Switchers |-> FALSE],
   pending |-> [s \in Switchers |-> "mainnet"]]

\* Where it cannot be saved, setNetwork throws after it has set the state, and
\* its caller closes neither the menu nor the warning.
SetNetwork(s, n) ==
  \/ network' = [network EXCEPT !.current = n, !.saved = n, !.apart = FALSE,
                                !.menu[s] = FALSE, !.warning[s] = FALSE]
  \/ network' = [network EXCEPT !.current = n, !.apart = TRUE]

\* The button stays beside a warning.
ToggleMenu(s) == network' = [network EXCEPT !.menu[s] = ~@]

\* Warns of the network for tests alone.
BadSelectNetwork(s, n) ==
  /\ network.menu[s] /\ ~network.warning[s]
  /\ IF n = "testnet" /\ network.current = "mainnet"
     THEN network' = [network EXCEPT !.warning[s] = TRUE, !.pending[s] = n]
     ELSE SetNetwork(s, n)

\* handleNetworkSelect.
SelectNetwork(s, n) ==
  /\ network.menu[s] /\ ~network.warning[s]
  /\ IF n # "mainnet" /\ network.current = "mainnet"
     THEN network' = [network EXCEPT !.warning[s] = TRUE, !.pending[s] = n]
     ELSE SetNetwork(s, n)

ConfirmTestnetSwitch(s) == network.warning[s] /\ SetNetwork(s, network.pending[s])

CancelTestnetSwitch(s) ==
  network.warning[s] /\ network' = [network EXCEPT !.warning[s] = FALSE]

\* External: a network is set in another tab; nothing here listens.
OtherTabSetsNetwork ==
  \E n \in Networks : network' = [network EXCEPT !.saved = n, !.apart = TRUE]

\* The page is loaded again.
ReloadNetwork == network' = NetworkMounted(network.saved)

NetworkNext ==
  \/ \E s \in Switchers :
       \/ ToggleMenu(s)
       \/ \E n \in Networks : SelectNetwork(s, n)
       \/ ConfirmTestnetSwitch(s)
       \/ CancelTestnetSwitch(s)
  \/ OtherTabSetsNetwork
  \/ ReloadNetwork

-----------------------------------------------------------------------------
(* The theme.  system: what the operating system prefers; stored: the key  *)
(* in localStorage; explicit: the user has chosen.  For the property       *)
(* alone, unsaved: the last choice made here could not be stored.          *)

Themes == {"light", "dark"}
ThemeState ==
  [shown : Themes, system : Themes, stored : Themes \cup {"none"}, explicit : BOOLEAN,
   unsaved : BOOLEAN]

ThemeMounted(system, stored) ==
  [shown |-> IF stored = "none" THEN system ELSE stored,
   system |-> system, stored |-> stored, explicit |-> stored # "none",
   unsaved |-> FALSE]

Opposite(t) == IF t = "dark" THEN "light" ELSE "dark"

\* setTheme stores the theme after it has set the state, if it can.
ToggleTheme ==
  LET next == Opposite(theme.shown)
      chosen == [theme EXCEPT !.shown = next, !.explicit = TRUE]
  IN \/ theme' = [chosen EXCEPT !.stored = next, !.unsaved = FALSE]
     \/ theme' = [chosen EXCEPT !.unsaved = TRUE]

\* handleChange.
SystemChanges ==
  theme' = [theme EXCEPT !.system = Opposite(@),
              !.shown = IF theme.explicit THEN @ ELSE Opposite(theme.system)]

\* External: the user chooses in another tab; nothing here listens.
OtherTabChooses == \E t \in Themes : theme' = [theme EXCEPT !.stored = t]

ReloadTheme == theme' = ThemeMounted(theme.system, theme.stored)

ThemeNext == ToggleTheme \/ SystemChanges \/ OtherTabChooses \/ ReloadTheme

-----------------------------------------------------------------------------
(* The copy button.  writes: promises of the clipboard; timer: the one in  *)
(* timeoutRef runs; lost: running timers that are no longer there.         *)

CopyState ==
  [state : {"idle", "copied", "error"}, writes : 0..MaxCopies, timer : BOOLEAN,
   lost : 0..MaxCopies]
CopyMounted == [state |-> "idle", writes |-> 0, timer |-> FALSE, lost |-> 0]

\* handleCopy, up to the await: the timer is cleared, what is shown stays.
ClickCopy ==
  /\ copying.writes + copying.lost < MaxCopies
  /\ copying' = [copying EXCEPT !.timer = FALSE, !.writes = @ + 1]

\* A timer set by a copy that came back in between is not cleared.
CopyShown(result) ==
  [copying EXCEPT !.state = result, !.writes = @ - 1,
     !.lost = IF copying.timer THEN @ + 1 ELSE @, !.timer = TRUE]

\* The text is in the clipboard, or neither way of writing it works.
CopyWritten ==
  /\ copying.writes > 0
  /\ \E result \in {"copied", "error"} : copying' = CopyShown(result)

CopyTimer ==
  \/ copying.timer /\ copying' = [copying EXCEPT !.timer = FALSE, !.state = "idle"]
  \/ copying.lost > 0 /\ copying' = [copying EXCEPT !.lost = @ - 1, !.state = "idle"]

CopyNext == ClickCopy \/ CopyWritten \/ CopyTimer

-----------------------------------------------------------------------------
ControlsTypeOK ==
  network \in NetworkState /\ theme \in ThemeState /\ copying \in CopyState

\* The network with real assets is left only for the network that a warning
\* on screen asks about, whichever switcher shows it, whatever the other one
\* has done since and whether or not choices can be saved.  Loading the page
\* again leaves it only if this page could not save its choice, or another tab
\* has saved one since, and then for what is saved.
MainnetLeftKnowingly ==
  [][network.current = "mainnet" /\ network.current' # "mainnet" =>
       \/ \E s \in Switchers : network.warning[s] /\ network.pending[s] = network.current'
       \/ network.apart /\ network' = NetworkMounted(network.saved)
    ]_network

\* hooks/use-theme.ts: changes of the system are applied `only when the user has
\* not made an explicit manual choice'.  Until then the theme is the system's.
\* From then on the system changes nothing on screen; a theme that newly
\* appears there is the one the next visit will show, unless it could not be
\* stored; and the choice is forgotten, by a reload, only if it was not.
ThemeAsChosen ==
  /\ [](~theme.explicit => theme.shown = theme.system)
  /\ [][theme.explicit =>
          /\ theme.system' # theme.system => theme.shown' = theme.shown
          /\ theme'.explicit /\ theme.shown' # theme.shown =>
               theme'.unsaved \/ theme.stored' = theme.shown'
          /\ ~theme'.explicit => theme.unsaved]_theme

\* What the button says of a copy does not stay: it goes away, or the next copy
\* is under way.
CopyFeedbackEnds ==
  (copying.state # "idle") ~> (copying.state = "idle" \/ copying.writes > 0)
=============================================================================
