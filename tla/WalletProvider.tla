--------------------------- MODULE WalletProvider ---------------------------
(***************************************************************************)
(* The wallet of the frontend (components/wallet-provider.tsx) with the    *)
(* button of the header that drives it (wallet-connection-button.tsx).     *)
(*                                                                         *)
(* The wallet extension answers a request when its user decides, or never. *)
(* The account saved in localStorage is read once, when the page is loaded,*)
(* and may be that of another tab; it is a choice made at that moment.     *)
(***************************************************************************)
EXTENDS Naturals

CONSTANT Extensions  \* whether there is a wallet extension: a set of BOOLEAN

ASSUME WalletAssumption == Extensions \subseteq BOOLEAN

VARIABLE wallet

\* status and account as in the provider; requests: calls of connect that
\* the extension has not answered; api: an extension is present.
WalletStatus ==
  {"checking", "disconnected", "connecting", "connected", "unsupported", "error"}
WalletState ==
  [status : WalletStatus, account : {"null", "address"}, requests : Nat, api : BOOLEAN]

IsConnected == wallet.status = "connected" /\ wallet.account = "address"
WalletBusy == wallet.status \in {"checking", "connecting"}
WalletShowsRetry == wallet.status \in {"error", "unsupported"}

\* The effect of the first render.
CheckWallet ==
  /\ wallet.status = "checking"
  /\ \E saved \in BOOLEAN :
       wallet' = [wallet EXCEPT
         !.status = IF ~wallet.api THEN "unsupported"
                    ELSE IF saved THEN "connected" ELSE "disconnected",
         !.account = IF wallet.api /\ saved THEN "address" ELSE "null"]

\* connect, up to the await.
Connecting ==
  IF wallet.api THEN [wallet EXCEPT !.status = "connecting", !.requests = @ + 1]
                ELSE [wallet EXCEPT !.status = "unsupported"]

\* disconnect.
Disconnected == [wallet EXCEPT !.status = "disconnected", !.account = "null"]

\* The button is not disabled.
BadClickWallet == wallet' = IF IsConnected THEN Disconnected ELSE Connecting

\* The header's button: disconnects when connected and connects otherwise.
ClickWallet ==
  /\ ~WalletBusy
  /\ wallet' = IF IsConnected THEN Disconnected ELSE Connecting

\* `Try again'.
RetryWallet == WalletShowsRetry /\ wallet' = Connecting

\* requestWalletAddress: whatever the extension answers, without an address in
\* it the provider falls back on a fixed one, so that there is always one.
RequestedAddress == "address"

\* The request is granted.  The account is set before it is stored, within the
\* same try: where it cannot be stored, the provider ends in `error' with it.
WalletGrants ==
  /\ wallet.requests > 0
  /\ \E isStored \in BOOLEAN :
       wallet' = [wallet EXCEPT !.requests = @ - 1, !.account = RequestedAddress,
                                !.status = IF isStored THEN "connected" ELSE "error"]

\* The request throws: declined, locked, or an error in the answer.
WalletRefuses ==
  /\ wallet.requests > 0
  /\ wallet' = [wallet EXCEPT !.requests = @ - 1, !.status = "error"]

\* External: the extension appears.
WalletInjected ==
  /\ ~wallet.api /\ wallet' = [wallet EXCEPT !.api = TRUE]

WalletInit ==
  wallet \in [status : {"checking"}, account : {"null"}, requests : {0},
              api : Extensions]

WalletNext ==
  \/ CheckWallet
  \/ ClickWallet
  \/ RetryWallet
  \/ WalletGrants
  \/ WalletRefuses
  \/ WalletInjected

-----------------------------------------------------------------------------
\* The buttons that call connect, in the header and on the page, exclude each
\* other: there is never more than one request before the extension, and
\* nothing but its answer is awaited in `connecting', so that no answer comes
\* too late.  Connected, there is an account to sign with; and an account the
\* provider holds without being connected is left from a request that was
\* granted and could not be stored, or from one before the retry now under
\* way.  A wallet that is disconnected, being checked or missing holds none.
WalletConsistent ==
  /\ wallet.requests <= 1
  /\ (wallet.requests > 0) <=> (wallet.status = "connecting")
  /\ wallet.status = "connected" => wallet.account = "address"
  /\ wallet.account = "address" => wallet.status \in {"connected", "connecting", "error"}
=============================================================================
