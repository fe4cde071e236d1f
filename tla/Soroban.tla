------------------------------ MODULE Soroban ------------------------------
(***************************************************************************)
(* What the contracts take from their platform: the widths of i128 and     *)
(* u64, storage entries, and the Stellar asset contract that premiums and  *)
(* payouts move through, as far as this repository uses it.                *)
(*                                                                         *)
(* The release profile sets overflow-checks, so that an i128 or u64        *)
(* operation whose result does not fit traps, like the checked_ operations *)
(* return an error: both undo the invocation.  Amounts are never negative  *)
(* once the entry points' checks passed, so only upper bounds matter.      *)
(***************************************************************************)
EXTENDS Integers

CONSTANTS
  MAX_I128,   \* largest amount
  MAX_U64     \* largest timestamp

ASSUME WidthAssumption == MAX_I128 \in Nat /\ MAX_U64 \in Nat

\* An amount, or the product of amounts, that i128 can hold.
Fits(amt) == amt <= MAX_I128

\* A transfer of amt traps when the payer holds less than amt.
CanPay(balances, from, amt) == balances[from] >= amt

\* The balances after the transfer; a transfer to oneself changes nothing.
Transferred(balances, from, to, amt) ==
  [balances EXCEPT ![from] = @ - amt, ![to] = @ + amt]

\* The map f after `storage().set' wrote v at k, an old key or a new one.
\* (Written out because the provers cannot expand :> and @@ of TLC.)
Put(f, k, v) == [x \in DOMAIN f \cup {k} |-> IF x = k THEN v ELSE f[x]]
=============================================================================
