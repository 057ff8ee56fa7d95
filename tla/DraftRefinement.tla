--------------------------- MODULE DraftRefinement ---------------------------
(***************************************************************************)
(* DraftWorkflow, with one request at a time and no crash, implements       *)
(* DraftReview: the e-mail that leaves is the moment a draft is sent, the   *)
(* transaction after it the moment it is recorded.                          *)
(***************************************************************************)
EXTENDS DraftWorkflow

\* A second e-mail of a draft is nothing the review knows of.
StateOf(d) ==
  IF sent[d] > 1 THEN "sent twice"
  ELSE IF sent[d] = 1 /\ HasStatus(d, {"pending", "failed", "rejected"}) THEN "sent"
  ELSE drafts[d].status

ReviewOf(d) == [msg |-> drafts[d].msg, state |-> StateOf(d)]

reviewBar == [d \in Drafts |-> IF IsDraft(d) THEN ReviewOf(d) ELSE NoDraft]

Reviewed == INSTANCE DraftReview WITH review <- reviewBar

\* NoDraft marks a draft that is not written in the review too.
ASSUME ReviewAssumption == NoDraft \notin Reviewed!Review

\* However the worker, its retries and the operator's requests interleave, each
\* commit offers, sends, records or rejects one draft, or changes nothing of the
\* review: no second e-mail, no second pending draft, no rejection of what was
\* sent (conversation-draft.service.ts:41-295, ai-draft.job.ts:30-92).
ImplementsReview == Reviewed!Spec
===============================================================================
