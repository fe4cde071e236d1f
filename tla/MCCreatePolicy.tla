--------------------------- MODULE MCCreatePolicy ---------------------------
(***************************************************************************)
(* A small instance of CreatePolicy for TLC: types of policy with two      *)
(* oracle providers, with one and with none.                               *)
(***************************************************************************)
EXTENDS CreatePolicy, TLC

CONSTANTS weather, flight, health, w1, w2, f1

ThreeTypes == {weather, flight, health}
ThreeLists == weather :> <<w1, w2>> @@ flight :> <<f1>> @@ health :> <<>>

WithOrWithout == {TRUE, FALSE}

\* Another tab may discard the draft, or configure it.
BlankOrFull ==
  {InitialDraft, [policyType |-> weather, form |-> "valid", oracleProvider |-> w1]}

=============================================================================
