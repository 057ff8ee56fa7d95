----------------------------- MODULE MCConcurrent -----------------------------
(***************************************************************************)
(* What several do at a time with one thing, one part at a time: the parts  *)
(* share no variable, and `part` says which one runs.                       *)
(*                                                                         *)
(* Drafts: one message, two requests of the operator beside the worker.     *)
(* Push: one booking, two pushes at a time.  Analysis: two runs on one      *)
(* conversation.                                                            *)
(***************************************************************************)
EXTENDS DraftWorkflow, MotopressSync, EventAnalysis, TLC

CONSTANTS m1, b1

VARIABLE part

OneMessage == {m1}
OneBooking == {b1}

MCInit ==
  /\ part \in {"drafts", "push", "analysis"}
  /\ Init /\ PushInit /\ AnalysisInit

MCNext ==
  /\ part' = part
  /\ \/ part = "drafts" /\ Next /\ UNCHANGED <<pushVars, analysisVars>>
     \/ part = "push" /\ PushNext /\ UNCHANGED <<vars, analysisVars>>
     \/ part = "analysis" /\ AnalysisNext /\ UNCHANGED <<vars, pushVars>>

MCSpec == MCInit /\ [][MCNext]_<<part, vars, pushVars, analysisVars>>

MCSymmetry == Permutations(Drafts) \cup Permutations(Requests) \cup Permutations(Jobs)
===============================================================================
