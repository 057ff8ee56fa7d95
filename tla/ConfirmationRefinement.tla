------------------------ MODULE ConfirmationRefinement ------------------------
(***************************************************************************)
(* ActionConfirmation implements ConfirmedWrite: a write can still come as  *)
(* long as its action is pending or its request is on its way.              *)
(***************************************************************************)
EXTENDS ActionConfirmation

StillPossible(a) == a \in pending \/ requests[a] = "sent"

StateOf(a) ==
  IF prepared[a] = None THEN "none"
  ELSE IF written[a] > 0 THEN "written"
  ELSE IF ~StillPossible(a) THEN "dropped"
  ELSE IF Cleared(a) THEN "cleared"
  ELSE "proposed"

Abstract == INSTANCE ConfirmedWrite WITH write <- [a \in Actions |-> StateOf(a)]

\* Nothing is written that was not cleared first, nothing twice, and nothing
\* that was cancelled, refused or forgotten, however messages, calls, hooks and
\* restarts fall (confirmation.ts:4-8).
ImplementsConfirmedWrite == Abstract!Spec
===============================================================================
