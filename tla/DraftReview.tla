----------------------------- MODULE DraftReview -----------------------------
(***************************************************************************)
(* What reviewing the AI drafts of a conversation promises: of the drafts   *)
(* offered for a message one at a time waits for an answer; a draft is sent *)
(* to the guest at most once, and only if it was not rejected; what was     *)
(* sent is then recorded, and neither the record nor a rejection changes    *)
(* any more.                                                                *)
(***************************************************************************)
CONSTANTS
  Drafts,    \* drafts that may be written
  Messages,  \* what they answer
  NoDraft    \* not written yet

VARIABLE review  \* the message of each draft, and where its review stands

ReviewState == {"pending", "failed", "rejected", "sent", "approved", "edited"}
Review == [msg : Messages, state : ReviewState]

Init == review = [d \in Drafts |-> NoDraft]

Stands(d, S) == review[d] # NoDraft /\ review[d].state \in S

Write(d, m, state) ==
  /\ review[d] = NoDraft
  /\ review' = [review EXCEPT ![d] = [msg |-> m, state |-> state]]

Turn(d, from, to) ==
  /\ Stands(d, from)
  /\ review' = [review EXCEPT ![d] = [msg |-> review[d].msg, state |-> to]]

\* A draft is offered, if no other of its message waits for an answer.
Offer(d, m) ==
  /\ \A c \in Drafts : Stands(c, {"pending"}) => review[c].msg # m
  /\ Write(d, m, "pending")

\* The draft could not be written; what stands for it can be filled in and sent.
Fail(d, m) == Write(d, m, "failed")

Send(d) == Turn(d, {"pending", "failed"}, "sent")
Record(d) == Turn(d, {"sent"}, "approved") \/ Turn(d, {"sent"}, "edited")
Reject(d) == Turn(d, {"pending", "failed"}, "rejected")

Next ==
  \E d \in Drafts :
    \/ \E m \in Messages : Offer(d, m) \/ Fail(d, m)
    \/ Send(d) \/ Record(d) \/ Reject(d)

Spec == Init /\ [][Next]_review
===============================================================================
