--------------------------- MODULE DraftWorkflow ---------------------------
(***************************************************************************)
(* AI drafts of one conversation: the ai-draft worker that writes them     *)
(* (ai-draft.job.ts, draft-generator.ts) and the requests that approve,    *)
(* reject, regenerate or order them (conversation-draft.service.ts).       *)
(*                                                                         *)
(* A request reads the draft, checks its status and writes later by id     *)
(* only; approveDraft also sends an e-mail between its read and its write. *)
(* Each of these is a step of its own, and other requests, the worker and  *)
(* a death of the process come in between.                                 *)
(***************************************************************************)
EXTENDS JobQueue

CONSTANTS
  Messages,    \* inbound messages the guest may send
  Drafts,      \* ids of ai_drafts rows
  Requests,    \* requests that can be in flight at the same time
  NoDraft,     \* an id not given out yet
  NoMessage,   \* the conversation has no message
  Outbound,    \* its latest message is ours
  MaxCrashes   \* bound on the deaths of the process

VARIABLES
  drafts,        \* the table ai_drafts
  latest,        \* the newest message of the conversation
  received,      \* inbound messages stored
  phase,         \* how far the processor is with the active job
  failedWrites,  \* jobs whose failed row the 'failed' handler is writing
  reqs,          \* what each request in flight remembers
  sent,          \* e-mails that left, per draft
  crashes

draftVars == <<drafts, latest, received, failedWrites, reqs, sent, crashes>>
vars == <<queueVars, draftVars, phase>>

DraftStatus == {"pending", "approved", "edited", "rejected", "failed"}
Draft == [msg : Messages, status : DraftStatus, empty : BOOLEAN]

ASSUME DraftAssumption ==
  /\ Payloads = Messages
  /\ NoDraft \notin Draft
  /\ NoMessage \notin Messages
  /\ Outbound \notin Messages
  /\ MaxCrashes \in Nat

Idle == [op |-> "idle"]
Request ==
  [op : {"idle"}]
    \cup [op : {"approve", "sent"}, draft : Drafts, edited : BOOLEAN]
    \cup [op : {"reject", "regenerate", "requeue"}, draft : Drafts]
    \cup [op : {"generate"}, msg : Messages]

IsDraft(d) == drafts[d] # NoDraft
HasStatus(d, S) == IsDraft(d) /\ drafts[d].status \in S
PendingFor(m) == \E d \in Drafts : HasStatus(d, {"pending"}) /\ drafts[d].msg = m

\* A row written with the given status; a failed row has no content.
Written(d, m, status) ==
  /\ drafts[d] = NoDraft
  /\ drafts' = [drafts EXCEPT ![d] =
       [msg |-> m, status |-> status, empty |-> status = "failed"]]

Init ==
  /\ QueueInit
  /\ drafts = [d \in Drafts |-> NoDraft]
  /\ latest = NoMessage
  /\ received = {}
  /\ phase = "start"
  /\ failedWrites = {}
  /\ reqs = [q \in Requests |-> Idle]
  /\ sent = [d \in Drafts |-> 0]
  /\ crashes = 0

-----------------------------------------------------------------------------
(* The e-mail pipeline                                                       *)

\* pollInbox stores a guest's message and enqueues its draft.
Receive(m, j) ==
  /\ m \notin received
  /\ received' = received \cup {m}
  /\ latest' = m
  /\ Add(j, m)
  /\ UNCHANGED <<drafts, phase, failedWrites, reqs, sent, crashes>>

\* The same when the queue cannot be reached, which must not block e-mail.
ReceiveUnqueued(m) ==
  /\ m \notin received
  /\ received' = received \cup {m}
  /\ latest' = m
  /\ UNCHANGED <<queueVars, drafts, phase, failedWrites, reqs, sent, crashes>>

-----------------------------------------------------------------------------
(* The worker                                                                *)

StartJob(j) ==
  /\ Take(j)
  /\ phase' = "start"
  /\ UNCHANGED draftVars

\* A message that already has a pending draft gets no other.
SkipJob(j) ==
  /\ phase = "start"
  /\ Complete(j)
  /\ PendingFor(jobs[j].data)
  /\ UNCHANGED <<draftVars, phase>>

\* Mutant: the check for a pending draft is dropped.
CheckDraft_Unchecked(j) ==
  /\ phase = "start"
  /\ Active(j)
  /\ phase' = "generating"
  /\ UNCHANGED <<queueVars, draftVars>>

CheckDraft(j) ==
  /\ phase = "start"
  /\ Active(j)
  /\ ~PendingFor(jobs[j].data)
  /\ phase' = "generating"
  /\ UNCHANGED <<queueVars, draftVars>>

\* The gateway answered: the draft is stored.
StoreDraft(j, d) ==
  /\ phase = "generating"
  /\ Active(j)
  /\ Written(d, jobs[j].data, "pending")
  /\ phase' = "stored"
  /\ UNCHANGED <<queueVars, latest, received, failedWrites, reqs, sent, crashes>>

\* The notification is best-effort; the job is done.
FinishJob(j) ==
  /\ phase = "stored"
  /\ Complete(j)
  /\ UNCHANGED <<draftVars, phase>>

\* No gateway, an error, a timeout or an empty answer: the processor throws,
\* and both 'failed' listeners run on every failed attempt.
FailJob(j) ==
  /\ phase \in {"start", "generating"}
  /\ Fail(j)
  /\ failedWrites' = failedWrites \cup {j}
  /\ UNCHANGED <<drafts, latest, received, phase, reqs, sent, crashes>>

\* Mutant: the handler gives up on its row.
WriteFailed_Lost(j, d) ==
  /\ j \in failedWrites
  /\ drafts[d] = NoDraft
  /\ failedWrites' = failedWrites \ {j}
  /\ UNCHANGED <<queueVars, drafts, latest, received, phase, reqs, sent, crashes>>

\* createAiDraftFailedHandler
WriteFailed(j, d) ==
  /\ j \in failedWrites
  /\ Written(d, jobs[j].data, "failed")
  /\ failedWrites' = failedWrites \ {j}
  /\ UNCHANGED <<queueVars, latest, received, phase, reqs, sent, crashes>>

Retry(j) ==
  /\ Promote(j)
  /\ UNCHANGED <<draftVars, phase>>

Bury(j) ==
  /\ moveToDLQ(j)
  /\ UNCHANGED <<draftVars, phase>>

-----------------------------------------------------------------------------
(* Requests                                                                  *)

\* Mutant: the status of the draft is not checked.
BeginApprove_AnyStatus(q, d, edited) ==
  /\ reqs[q] = Idle
  /\ IsDraft(d)
  /\ edited \/ ~drafts[d].empty
  /\ reqs' = [reqs EXCEPT ![q] = [op |-> "approve", draft |-> d, edited |-> edited]]
  /\ UNCHANGED <<queueVars, drafts, latest, received, phase, failedWrites, sent, crashes>>

\* approveDraft, up to its e-mail; edited says the body carries a content.
BeginApprove(q, d, edited) ==
  /\ reqs[q] = Idle
  /\ HasStatus(d, {"pending", "failed"})
  /\ edited \/ ~drafts[d].empty
  /\ reqs' = [reqs EXCEPT ![q] = [op |-> "approve", draft |-> d, edited |-> edited]]
  /\ UNCHANGED <<queueVars, drafts, latest, received, phase, failedWrites, sent, crashes>>

\* The SMTP server takes the e-mail.
SendEmail(q) ==
  /\ reqs[q].op = "approve"
  /\ sent' = [sent EXCEPT ![reqs[q].draft] = @ + 1]
  /\ reqs' = [reqs EXCEPT ![q].op = "sent"]
  /\ UNCHANGED <<queueVars, drafts, latest, received, phase, failedWrites, crashes>>

\* The SMTP server refuses it, or a transaction of the others rolls back.
Abort(q) ==
  /\ reqs[q].op \in {"approve", "reject", "regenerate", "requeue", "generate"}
  /\ reqs' = [reqs EXCEPT ![q] = Idle]
  /\ UNCHANGED <<queueVars, drafts, latest, received, phase, failedWrites, sent, crashes>>

\* Mutant: the record is written before the e-mail leaves.
CommitApprove_BeforeSend(q) ==
  /\ reqs[q].op \in {"approve", "sent"}
  /\ drafts' = [drafts EXCEPT ![reqs[q].draft].status =
                   IF reqs[q].edited THEN "edited" ELSE "approved",
                              ![reqs[q].draft].empty = FALSE]
  /\ latest' = Outbound
  /\ reqs' = [reqs EXCEPT ![q] = Idle]
  /\ UNCHANGED <<queueVars, received, phase, failedWrites, sent, crashes>>

CommitApprove(q) ==
  /\ reqs[q].op = "sent"
  /\ drafts' = [drafts EXCEPT ![reqs[q].draft].status =
                   IF reqs[q].edited THEN "edited" ELSE "approved",
                              ![reqs[q].draft].empty = FALSE]
  /\ latest' = Outbound
  /\ reqs' = [reqs EXCEPT ![q] = Idle]
  /\ UNCHANGED <<queueVars, received, phase, failedWrites, sent, crashes>>

\* Mutant: an approved draft may be rejected too.
BeginReject_Sent(q, d) ==
  /\ reqs[q] = Idle
  /\ HasStatus(d, {"pending", "approved"})
  /\ reqs' = [reqs EXCEPT ![q] = [op |-> "reject", draft |-> d]]
  /\ UNCHANGED <<queueVars, drafts, latest, received, phase, failedWrites, sent, crashes>>

BeginReject(q, d) ==
  /\ reqs[q] = Idle
  /\ HasStatus(d, {"pending"})
  /\ reqs' = [reqs EXCEPT ![q] = [op |-> "reject", draft |-> d]]
  /\ UNCHANGED <<queueVars, drafts, latest, received, phase, failedWrites, sent, crashes>>

BeginRegenerate(q, d) ==
  /\ reqs[q] = Idle
  /\ HasStatus(d, {"pending", "rejected", "failed"})
  /\ reqs' = [reqs EXCEPT ![q] = [op |-> "regenerate", draft |-> d]]
  /\ UNCHANGED <<queueVars, drafts, latest, received, phase, failedWrites, sent, crashes>>

\* rejectDraft ends here, regenerateDraft has its job to add.
CommitReject(q) ==
  /\ reqs[q].op \in {"reject", "regenerate"}
  /\ drafts' = [drafts EXCEPT ![reqs[q].draft].status = "rejected"]
  /\ reqs' = [reqs EXCEPT ![q] = IF reqs[q].op = "reject" THEN Idle
                                 ELSE [op |-> "requeue", draft |-> reqs[q].draft]]
  /\ UNCHANGED <<queueVars, latest, received, phase, failedWrites, sent, crashes>>

Requeue(q, j) ==
  /\ reqs[q].op = "requeue"
  /\ Add(j, drafts[reqs[q].draft].msg)
  /\ reqs' = [reqs EXCEPT ![q] = Idle]
  /\ UNCHANGED <<drafts, latest, received, phase, failedWrites, sent, crashes>>

\* generateDraftForConversation
BeginGenerate(q) ==
  /\ reqs[q] = Idle
  /\ latest \in Messages
  /\ reqs' = [reqs EXCEPT ![q] = [op |-> "generate", msg |-> latest]]
  /\ UNCHANGED <<queueVars, drafts, latest, received, phase, failedWrites, sent, crashes>>

EnqueueGenerate(q, j) ==
  /\ reqs[q].op = "generate"
  /\ Add(j, reqs[q].msg)
  /\ reqs' = [reqs EXCEPT ![q] = Idle]
  /\ UNCHANGED <<drafts, latest, received, phase, failedWrites, sent, crashes>>

\* The process dies: PostgreSQL and Redis stay, the memory goes.
Crash ==
  /\ crashes < MaxCrashes
  /\ crashes' = crashes + 1
  /\ Restart
  /\ phase' = "start"
  /\ failedWrites' = {}
  /\ reqs' = [q \in Requests |-> Idle]
  /\ UNCHANGED <<drafts, latest, received, sent>>

-----------------------------------------------------------------------------
MessageNext ==
  \E m \in Messages : ReceiveUnqueued(m) \/ \E j \in Jobs : Receive(m, j)

WorkerStep(j) ==
  \/ StartJob(j) \/ SkipJob(j) \/ CheckDraft(j) \/ FinishJob(j)
  \/ FailJob(j) \/ Retry(j) \/ Bury(j)
  \/ \E d \in Drafts : StoreDraft(j, d) \/ WriteFailed(j, d)

RequestStep(q) ==
  \/ \E d \in Drafts, edited \in BOOLEAN : BeginApprove(q, d, edited)
  \/ \E d \in Drafts : BeginReject(q, d) \/ BeginRegenerate(q, d)
  \/ SendEmail(q) \/ CommitApprove(q) \/ CommitReject(q) \/ Abort(q)
  \/ BeginGenerate(q)
  \/ \E j \in Jobs : Requeue(q, j) \/ EnqueueGenerate(q, j)

Next ==
  \/ MessageNext
  \/ \E j \in Jobs : WorkerStep(j)
  \/ \E q \in Requests : RequestStep(q)
  \/ Crash

Spec == Init /\ [][Next]_vars

\* Jobs are taken, retried and buried; a generation ends by an answer, an
\* error or its 90 s timeout; the 'failed' handler runs to its end.
Fairness ==
  /\ WF_vars(\E j \in Jobs : StartJob(j))
  /\ WF_vars(\E j \in Jobs : SkipJob(j) \/ CheckDraft(j) \/ FailJob(j) \/ FinishJob(j)
                               \/ \E d \in Drafts : StoreDraft(j, d))
  /\ \A j \in Jobs : WF_vars(Retry(j)) /\ WF_vars(Bury(j))
  /\ \A j \in Jobs : WF_vars(\E d \in Drafts : WriteFailed(j, d))

-----------------------------------------------------------------------------
(* Properties                                                                *)

TypeOK ==
  /\ QueueTypeOK
  /\ drafts \in [Drafts -> Draft \cup {NoDraft}]
  /\ latest \in Messages \cup {NoMessage, Outbound}
  /\ received \subseteq Messages
  /\ phase \in {"start", "generating", "stored"}
  /\ failedWrites \subseteq Jobs
  /\ reqs \in [Requests -> Request]
  /\ sent \in [Drafts -> Nat]
  /\ crashes \in 0..MaxCrashes

\* A message never has two pending drafts, although the worker checks for one
\* long before it stores its own and regenerations, orders by hand, retries
\* and stalled jobs queue the same message again (ai-draft.job.ts:30-44).
AtMostOnePending ==
  \A c, d \in Drafts :
    HasStatus(c, {"pending"}) /\ HasStatus(d, {"pending"})
      /\ drafts[c].msg = drafts[d].msg => c = d

\* A draft recorded as approved or edited has left as an e-mail, wherever the
\* process died (conversation-draft.service.ts:91-138).
RecordedWasSent ==
  \A d \in Drafts : HasStatus(d, {"approved", "edited"}) => sent[d] > 0

\* With one request at a time and no crash, a draft is sent at most once.
SentOnce == \A d \in Drafts : sent[d] <= 1

\* With one request at a time and no crash, what was sent stays recorded.
SentIsFinal ==
  [][\A d \in Drafts : HasStatus(d, {"approved", "edited"})
                         => drafts'[d] = drafts[d]]_vars

\* Every job ends: done, or exhausted and in the dead-letter queue
\* (plugins/queue.ts:141-148).
JobsSettle ==
  \A j \in Jobs : IsJob(j) ~> InState(j, "completed") \/ j \in deadLetters

\* A job that failed for good leaves the inbox a draft row for its message:
\* the failed one, or that of an earlier job (ai-draft.job.ts:106-121).
FailureSurfaces ==
  \A m \in Messages :
    (\E j \in Jobs : InState(j, "failed") /\ jobs[j].data = m)
      ~> \E d \in Drafts : IsDraft(d) /\ drafts[d].msg = m

-----------------------------------------------------------------------------
(* The inductive invariant                                                   *)

\* While the worker generates, no draft of its message is pending.
GeneratingFree ==
  \A j \in Jobs : Active(j) /\ phase = "generating" => ~PendingFor(jobs[j].data)

ReqsKnown ==
  \A q \in Requests :
    reqs[q].op \in {"approve", "sent", "reject", "regenerate", "requeue"}
      => IsDraft(reqs[q].draft)

SentReqs == \A q \in Requests : reqs[q].op = "sent" => sent[reqs[q].draft] > 0

WritesKnown == \A j \in failedWrites : IsJob(j)

\* What is found at the beginning of a job or a request still holds at its end,
\* whatever comes between (ai-draft.job.ts:30-44, conversation-draft.service.ts:41).
IInv ==
  /\ QInv /\ TypeOK
  /\ ReqsKnown /\ SentReqs /\ WritesKnown
  /\ GeneratingFree /\ AtMostOnePending /\ RecordedWasSent

(* What makes SentOnce and SentIsFinal inductive for one request at a time    *)
(* and no crash: the only ground on which the code promises them             *)

Serial == (\A p, q \in Requests : p = q) /\ MaxCrashes = 0

\* The draft a request is about to send, record or reject is not recorded as
\* sent, and an e-mail that left is recorded or about to be.
BoundUnrecorded ==
  \A q \in Requests : reqs[q].op \in {"approve", "sent", "reject", "regenerate"}
    => HasStatus(reqs[q].draft, {"pending", "rejected", "failed"})
SentIsRecorded ==
  \A d \in Drafts : sent[d] > 0 =>
    \/ HasStatus(d, {"approved", "edited"})
    \/ \E q \in Requests : reqs[q].op = "sent" /\ reqs[q].draft = d

SerialInv == SentOnce /\ BoundUnrecorded /\ SentIsRecorded
=============================================================================
