------------------------------- MODULE Access -------------------------------
(***************************************************************************)
(* Who is signed in (context/auth-context.tsx), the gate in front of the   *)
(* pages for signed-in users (components/protected-page.tsx), and the page *)
(* of one claim behind it (app/claims/[claimId]/claim-detail-page-         *)
(* client.tsx).                                                            *)
(*                                                                         *)
(* signIn and signOut are offered to every component; a component calls    *)
(* them when the user presses something, as those of the tests do.         *)
(* Navigations are the router's: a later one supersedes an earlier one,    *)
(* and another address mounts its page, and the gate in it, anew.          *)
(***************************************************************************)

CONSTANTS
  Users,      \* sessions, by their user
  NoUser,
  ClaimIds,   \* the claims an address may name
  Claims      \* those of them with a record; the others are missing or `error'

ASSUME AccessAssumption ==
  /\ Claims \subseteq ClaimIds /\ NoUser \notin Users
  /\ {"home", "none", "busy", "blank", "missing"} \cap ClaimIds = {}

VARIABLE access

Locations == ClaimIds \cup {"home"}

\* stored: the key in sessionStorage.  going: the navigation under way.
\* loading: the claim's 240 ms timer runs.
AccessState ==
  [status : {"loading", "authenticated", "unauthenticated"},
   session : Users \cup {NoUser}, stored : Users \cup {NoUser},
   page : Locations, going : Locations \cup {"none"},
   loading : BOOLEAN, record : Claims \cup {"none"}]

\* The application is loaded at an address; nothing is read yet.
AccessMounted(page, stored) ==
  [status |-> "loading", session |-> NoUser, stored |-> stored, page |-> page,
   going |-> "none", loading |-> FALSE, record |-> "none"]

GateOpen(a) == a.page \in ClaimIds /\ a.status = "authenticated"

\* The gate, after the status or the page has changed: it mounts the page of
\* the claim, or unmounts it, and sends away who is not signed in.
Gated(a) ==
  [a EXCEPT !.loading = GateOpen(a), !.record = "none",
            !.going = IF a.page \in ClaimIds /\ a.status = "unauthenticated"
                      THEN "home" ELSE @]

\* A visitor without a session has opened the home page.
AccessOpened == [AccessMounted("home", NoUser) EXCEPT !.status = "unauthenticated"]

StatusOf(user) == IF user = NoUser THEN "unauthenticated" ELSE "authenticated"

\* The provider's effect.
RestoreSession ==
  /\ access.status = "loading"
  /\ access' = Gated([access EXCEPT !.session = access.stored,
                                    !.status = StatusOf(access.stored)])

\* setItem comes last and may fail: what was stored before stays.
SignIn(user) ==
  /\ access.status # "loading"
  /\ \E stored \in {user, access.stored} :
       LET in == [access EXCEPT !.session = user, !.stored = stored,
                                !.status = "authenticated"]
       IN access' = IF access.status = "unauthenticated" THEN Gated(in) ELSE in

SignOut ==
  /\ access.status = "authenticated"
  /\ access' = Gated([access EXCEPT !.session = NoUser, !.stored = NoUser,
                                    !.status = "unauthenticated"])

NavigateTo(page) == access' = [access EXCEPT !.going = page]

\* On the page one is on already, the gate is not mounted anew.
ArriveAt(page) ==
  /\ access.going = page
  /\ LET there == [access EXCEPT !.page = page, !.going = "none"]
     IN access' = IF page = access.page THEN there ELSE Gated(there)

\* The timer of the page of the claim.
ClaimLoaded(id) ==
  /\ access.loading /\ access.page = id
  /\ access' = [access EXCEPT !.loading = FALSE,
                              !.record = IF id \in Claims THEN id ELSE "none"]

\* The browser loads the page again; sessionStorage stays.
ReloadAccess ==
  access.status # "loading" /\ access' = AccessMounted(access.page, access.stored)

AccessNext ==
  \/ RestoreSession
  \/ \E user \in Users : SignIn(user)
  \/ SignOut
  \/ \E page \in Locations : NavigateTo(page) \/ ArriveAt(page)
  \/ \E id \in ClaimIds : ClaimLoaded(id)
  \/ ReloadAccess

-----------------------------------------------------------------------------
\* What is on screen: skeletons while a session or a claim is loaded, nothing
\* for who is sent away, the message that the claim is missing, or the claim.
Screen ==
  CASE access.page = "home" -> "home"
    [] access.status = "unauthenticated" /\ access.page # "home" -> "blank"
    [] access.page # "home" /\ (access.status = "loading" \/ access.loading) -> "busy"
    [] GateOpen(access) /\ ~access.loading ->
         IF access.record = "none" THEN "missing" ELSE access.record

-----------------------------------------------------------------------------
AccessTypeOK == access \in AccessState

\* A claim is on screen, or called missing, only by its own address and for a
\* session, although sign-outs, reloads and navigations come while it is loaded;
\* and behind a closed gate none is loaded or kept.
ClaimShownByRight ==
  /\ Screen \in ClaimIds => Screen = access.page /\ access.session # NoUser
  /\ Screen = "missing" => access.page \notin Claims
  /\ access.loading \/ access.record # "none" => GateOpen(access)

\* context/auth-context.tsx: who is turned away has no session that loading the
\* page again would bring back, whether a write to the storage failed or the
\* page was reached before the storage was read.
SignedOutForGood ==
  access.status = "unauthenticated" => access.session = NoUser /\ access.stored = NoUser

\* Neither the session nor a claim is loaded for ever.
AccessConcludes ==
  /\ (access.status = "loading") ~> (access.status # "loading")
  /\ \A id \in ClaimIds :
       (access.loading /\ access.page = id) ~> (~access.loading \/ access.page # id)
=============================================================================
