--------------------------- MODULE CoverageLedger ---------------------------
(***************************************************************************)
(* What the insurance contract promises a policyholder, without saying how *)
(* claims are decided, when a policy lapses or where the money comes from: *)
(* each policy is an account with a limit, of which claims are opened one  *)
(* at a time, paid once and in full or declined, until it is closed.       *)
(***************************************************************************)
EXTENDS Integers

CONSTANT Amount   \* the amounts of money

VARIABLES
  ledger,     \* the accounts opened so far
  paid_out    \* everything ever paid

ledgerVars == <<ledger, paid_out>>

LedgerInit ==
  /\ ledger = [p \in {} |-> {}]
  /\ paid_out = 0

Issue(p, limit) ==
  /\ p \notin DOMAIN ledger
  /\ limit > 0
  /\ ledger' = [x \in DOMAIN ledger \cup {p} |->
                  IF x = p
                  THEN [limit |-> limit, paid |-> 0, open |-> 0, closed |-> FALSE]
                  ELSE ledger[x]]
  /\ UNCHANGED paid_out

Raise(p, limit) ==
  /\ ~ledger[p].closed /\ ledger[p].open = 0
  /\ limit > ledger[p].limit
  /\ ledger' = [ledger EXCEPT ![p].limit = limit]
  /\ UNCHANGED paid_out

\* A claim may be opened only for what is left of the limit.
OpenClaim(p, amt) ==
  /\ ~ledger[p].closed /\ ledger[p].open = 0
  /\ amt > 0 /\ ledger[p].paid + amt <= ledger[p].limit
  /\ ledger' = [ledger EXCEPT ![p].open = amt]
  /\ UNCHANGED paid_out

\* The whole claim is paid; the payment that uses up the limit closes.
Pay(p) ==
  LET acc == ledger[p]
  IN  /\ acc.open > 0
      /\ ledger' = [ledger EXCEPT ![p].paid = acc.paid + acc.open,
                                  ![p].open = 0,
                                  ![p].closed = acc.paid + acc.open = acc.limit]
      /\ paid_out' = paid_out + acc.open

Decline(p) ==
  /\ ledger[p].open > 0
  /\ ledger' = [ledger EXCEPT ![p].open = 0]
  /\ UNCHANGED paid_out

Close(p) ==
  /\ ~ledger[p].closed /\ ledger[p].open = 0
  /\ ledger' = [ledger EXCEPT ![p].closed = TRUE]
  /\ UNCHANGED paid_out

LedgerNext ==
  \/ \E p \in DOMAIN ledger' \ DOMAIN ledger, limit \in Amount : Issue(p, limit)
  \/ \E p \in DOMAIN ledger :
       \/ \E limit \in Amount : Raise(p, limit)
       \/ \E amt \in Amount : OpenClaim(p, amt)
       \/ Pay(p)
       \/ Decline(p)
       \/ Close(p)

LedgerSpec == LedgerInit /\ [][LedgerNext]_ledgerVars
=============================================================================
