----------------------------- MODULE MCAutosave -----------------------------
(***************************************************************************)
(* A small instance of Autosave for TLC, and what its test says of it that *)
(* the code does not do.                                                   *)
(***************************************************************************)
EXTENDS Autosave

CONSTANTS t1, t2, blank, d1

TwoTabs == {t1, t2}
TwoDrafts == {blank, d1}

\* hooks/use-autosave.test.ts, `keeps a reversible backup when clearing a
\* draft': a discarded draft whose undoing is offered can be restored.
OfferedUndoRestores ==
  \A t \in Tabs :
    tabs[t].open /\ tabs[t].offered
      => backup # Nothing /\ backup.stamp > tabs[t].editedAt
=============================================================================
