------------------------------- MODULE Lists -------------------------------
(***************************************************************************)
(* What the pages remove elements of a list with: Array.prototype.filter.  *)
(***************************************************************************)
EXTENDS SequencesExt

\* The elements of the list that are in S, in their order.
Kept(list, S) ==
  FoldLeft(LAMBDA kept, x : IF x \in S THEN Append(kept, x) ELSE kept, <<>>, list)
=============================================================================
