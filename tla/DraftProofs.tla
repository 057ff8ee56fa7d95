----------------------------- MODULE DraftProofs -----------------------------
(***************************************************************************)
(* The safety properties of DraftWorkflow, for any number of messages,     *)
(* drafts, jobs, requests and crashes.                                     *)
(*                                                                         *)
(* AtMostOnePending is not inductive: the worker stores a pending draft on *)
(* the strength of a check it made earlier.  What carries it is that only  *)
(* the worker stores pending drafts, that it has one job at a time         *)
(* (OneActive) and that therefore nothing undoes the check while it        *)
(* generates (GeneratingFree).                                             *)
(***************************************************************************)
EXTENDS DraftRefinement, JobQueueProofs

-----------------------------------------------------------------------------
\* The inductive invariant holds of the empty tables.
LEMMA InitIInv == Init => IInv
<1> SUFFICES ASSUME Init PROVE IInv
  OBVIOUS
<1> USE DraftAssumption, QueueAssumption DEF Init
<1>1. QInv
  BY QInvInit
<1>2. TypeOK
  BY <1>1 DEF TypeOK, QInv, Request, Idle
<1>3. ReqsKnown /\ SentReqs /\ WritesKnown
  BY DEF ReqsKnown, SentReqs, WritesKnown, Idle
<1>4. GeneratingFree /\ AtMostOnePending /\ RecordedWasSent
  BY DEF GeneratingFree, AtMostOnePending, RecordedWasSent, HasStatus, IsDraft
<1> QED BY <1>1, <1>2, <1>3, <1>4 DEF IInv

\* No step of the worker forgets a job.
LEMMA JobsStay ==
  ASSUME QInv, NEW j \in Jobs, Take(j) \/ Complete(j) \/ Promote(j)
  PROVE  \A k \in Jobs : IsJob(k) => IsJob(k)'
<1>1. IsJob(j)
  <2>1. CASE Take(j)
    <3>1. waiting \in Seq(Jobs) /\ waiting # <<>> /\ j = waiting[1] /\ 1 \in 1..Len(waiting)
      BY <2>1 DEF QInv, QueueTypeOK, Take
    <3> QED BY <3>1 DEF QInv, WaitListConsistent, InState
  <2>2. CASE Complete(j) \/ Promote(j)
    BY <2>2 DEF Complete, Promote, Active, InState
  <2> QED BY <2>1, <2>2
<1>2. \E s \in JobState : jobs' = [jobs EXCEPT ![j] = [jobs[j] EXCEPT !.state = s]]
  BY DEF Take, Complete, Promote, JobState
<1>3. jobs[j] \in Job
  BY <1>1 DEF QInv, QueueTypeOK, IsJob
<1>4. jobs'[j] \in Job
  BY <1>2, <1>3 DEF Job, QInv, QueueTypeOK
<1>5. \A k \in Jobs : k # j => jobs'[k] = jobs[k]
  BY <1>2 DEF QInv, QueueTypeOK
<1> QED BY <1>4, <1>5, QueueAssumption DEF IsJob

\* Storing a message and queueing its job touches no draft.
LEMMA ReceiveIInv == ASSUME IInv, NEW m \in Messages, NEW j \in Jobs, Receive(m, j) PROVE IInv'
<1> USE DraftAssumption, QueueAssumption DEF IInv, Receive
<1>1. QInv'
  <2>1. m \in Payloads
    OBVIOUS
  <2> QED BY <2>1, QInvAdd
<1>2. TypeOK'
  BY <1>1 DEF TypeOK, QInv, Request, Idle, Written, Draft, DraftStatus, HasStatus, IsDraft, ReqsKnown
<1>3. ReqsKnown'
  BY DEF ReqsKnown, TypeOK, Request, Idle, Written, Draft, HasStatus, IsDraft
<1>4. SentReqs'
  BY DEF SentReqs, TypeOK, Request, Idle
<1>5. WritesKnown'
  BY DEF WritesKnown, TypeOK, QueueTypeOK, Job, IsJob, Active, InState, Add
<1>6. GeneratingFree'
  BY DEF GeneratingFree, PendingFor, HasStatus, IsDraft, Written, TypeOK, QueueTypeOK, QInv, OneActive, Job, IsJob, Active, InState, ReqsKnown, Draft, Add
<1>7. AtMostOnePending'
  BY DEF AtMostOnePending, GeneratingFree, PendingFor, HasStatus, IsDraft, Written, TypeOK, ReqsKnown, Draft
<1>8. RecordedWasSent'
  BY DEF RecordedWasSent, SentReqs, HasStatus, IsDraft, Written, TypeOK, ReqsKnown, Draft, Request
<1> QED BY <1>1, <1>2, <1>3, <1>4, <1>5, <1>6, <1>7, <1>8

\* Storing a message without a job touches neither queue nor drafts.
LEMMA ReceiveUnqueuedIInv == ASSUME IInv, NEW m \in Messages, ReceiveUnqueued(m) PROVE IInv'
<1> USE DraftAssumption, QueueAssumption DEF IInv, ReceiveUnqueued
<1>1. QInv'
  <2>1. UNCHANGED queueVars
    OBVIOUS
  <2> QED BY <2>1 DEF queueVars, QInv, QueueTypeOK, OneActive, WaitListConsistent, AttemptsLeft, DeadLettersExhausted, Active, InState, IsJob
<1>2. TypeOK'
  BY <1>1 DEF TypeOK, QInv, Request, Idle, Written, Draft, DraftStatus, HasStatus, IsDraft, ReqsKnown
<1>3. ReqsKnown'
  BY DEF ReqsKnown, TypeOK, Request, Idle, Written, Draft, HasStatus, IsDraft
<1>4. SentReqs'
  BY DEF SentReqs, TypeOK, Request, Idle
<1>5. WritesKnown'
  BY DEF WritesKnown, TypeOK, QueueTypeOK, Job, IsJob, Active, InState, queueVars
<1>6. GeneratingFree'
  BY DEF GeneratingFree, PendingFor, HasStatus, IsDraft, Written, TypeOK, QueueTypeOK, QInv, OneActive, Job, IsJob, Active, InState, ReqsKnown, Draft, queueVars
<1>7. AtMostOnePending'
  BY DEF AtMostOnePending, GeneratingFree, PendingFor, HasStatus, IsDraft, Written, TypeOK, ReqsKnown, Draft
<1>8. RecordedWasSent'
  BY DEF RecordedWasSent, SentReqs, HasStatus, IsDraft, Written, TypeOK, ReqsKnown, Draft, Request
<1> QED BY <1>1, <1>2, <1>3, <1>4, <1>5, <1>6, <1>7, <1>8

\* A job starts before its check.
LEMMA StartJobIInv == ASSUME IInv, NEW j \in Jobs, StartJob(j) PROVE IInv'
<1> USE DraftAssumption, QueueAssumption DEF IInv, StartJob
<1>1. QInv'
  BY QInvTake
<1>2. TypeOK'
  BY <1>1 DEF draftVars, TypeOK, QInv, Request, Idle, Written, Draft, DraftStatus, HasStatus, IsDraft, ReqsKnown
<1>3. ReqsKnown'
  BY DEF draftVars, ReqsKnown, TypeOK, Request, Idle, Written, Draft, HasStatus, IsDraft
<1>4. SentReqs'
  BY DEF draftVars, SentReqs, TypeOK, Request, Idle
<1>5. WritesKnown'
  BY JobsStay DEF draftVars, WritesKnown, TypeOK
<1>6. GeneratingFree'
  BY DEF draftVars, GeneratingFree, PendingFor, HasStatus, IsDraft, Written, TypeOK, QueueTypeOK, QInv, OneActive, Job, IsJob, Active, InState, ReqsKnown, Draft, Take
<1>7. AtMostOnePending'
  BY DEF draftVars, AtMostOnePending, GeneratingFree, PendingFor, HasStatus, IsDraft, Written, TypeOK, ReqsKnown, Draft
<1>8. RecordedWasSent'
  BY DEF draftVars, RecordedWasSent, SentReqs, HasStatus, IsDraft, Written, TypeOK, ReqsKnown, Draft, Request
<1> QED BY <1>1, <1>2, <1>3, <1>4, <1>5, <1>6, <1>7, <1>8

\* A skipped job is over.
LEMMA SkipJobIInv == ASSUME IInv, NEW j \in Jobs, SkipJob(j) PROVE IInv'
<1> USE DraftAssumption, QueueAssumption DEF IInv, SkipJob
<1>1. QInv'
  BY QInvComplete
<1>2. TypeOK'
  BY <1>1 DEF draftVars, TypeOK, QInv, Request, Idle, Written, Draft, DraftStatus, HasStatus, IsDraft, ReqsKnown
<1>3. ReqsKnown'
  BY DEF draftVars, ReqsKnown, TypeOK, Request, Idle, Written, Draft, HasStatus, IsDraft
<1>4. SentReqs'
  BY DEF draftVars, SentReqs, TypeOK, Request, Idle
<1>5. WritesKnown'
  BY JobsStay DEF draftVars, WritesKnown, TypeOK
<1>6. GeneratingFree'
  BY DEF draftVars, GeneratingFree, PendingFor, HasStatus, IsDraft, Written, TypeOK, QueueTypeOK, QInv, OneActive, Job, IsJob, Active, InState, ReqsKnown, Draft, Complete
<1>7. AtMostOnePending'
  BY DEF draftVars, AtMostOnePending, GeneratingFree, PendingFor, HasStatus, IsDraft, Written, TypeOK, ReqsKnown, Draft
<1>8. RecordedWasSent'
  BY DEF draftVars, RecordedWasSent, SentReqs, HasStatus, IsDraft, Written, TypeOK, ReqsKnown, Draft, Request
<1> QED BY <1>1, <1>2, <1>3, <1>4, <1>5, <1>6, <1>7, <1>8

\* The check establishes GeneratingFree for the only active job.
LEMMA CheckDraftIInv == ASSUME IInv, NEW j \in Jobs, CheckDraft(j) PROVE IInv'
<1> USE DraftAssumption, QueueAssumption DEF IInv, CheckDraft
<1>1. QInv'
  <2>1. UNCHANGED queueVars
    OBVIOUS
  <2> QED BY <2>1 DEF queueVars, QInv, QueueTypeOK, OneActive, WaitListConsistent, AttemptsLeft, DeadLettersExhausted, Active, InState, IsJob
<1>2. TypeOK'
  BY <1>1 DEF draftVars, TypeOK, QInv, Request, Idle, Written, Draft, DraftStatus, HasStatus, IsDraft, ReqsKnown
<1>3. ReqsKnown'
  BY DEF draftVars, ReqsKnown, TypeOK, Request, Idle, Written, Draft, HasStatus, IsDraft
<1>4. SentReqs'
  BY DEF draftVars, SentReqs, TypeOK, Request, Idle
<1>5. WritesKnown'
  BY DEF draftVars, WritesKnown, TypeOK, QueueTypeOK, Job, IsJob, Active, InState, queueVars
<1>6. GeneratingFree'
  BY DEF draftVars, GeneratingFree, PendingFor, HasStatus, IsDraft, Written, TypeOK, QueueTypeOK, QInv, OneActive, Job, IsJob, Active, InState, ReqsKnown, Draft, queueVars
<1>7. AtMostOnePending'
  BY DEF draftVars, AtMostOnePending, GeneratingFree, PendingFor, HasStatus, IsDraft, Written, TypeOK, ReqsKnown, Draft
<1>8. RecordedWasSent'
  BY DEF draftVars, RecordedWasSent, SentReqs, HasStatus, IsDraft, Written, TypeOK, ReqsKnown, Draft, Request
<1> QED BY <1>1, <1>2, <1>3, <1>4, <1>5, <1>6, <1>7, <1>8

\* The stored draft is the only pending one of its message.
LEMMA StoreDraftIInv == ASSUME IInv, NEW j \in Jobs, NEW d \in Drafts, StoreDraft(j, d) PROVE IInv'
<1> USE DraftAssumption, QueueAssumption DEF IInv, StoreDraft
<1>1. QInv'
  <2>1. UNCHANGED queueVars
    OBVIOUS
  <2> QED BY <2>1 DEF queueVars, QInv, QueueTypeOK, OneActive, WaitListConsistent, AttemptsLeft, DeadLettersExhausted, Active, InState, IsJob
<1>2. TypeOK'
  <2>1. jobs[j] \in Job
    BY DEF Active, InState, IsJob, TypeOK, QueueTypeOK
  <2>2. jobs[j].data \in Messages
    BY <2>1 DEF Job
  <2>3. drafts' \in [Drafts -> Draft \cup {NoDraft}]
    BY <2>2 DEF Written, Draft, DraftStatus, TypeOK
  <2> QED BY <1>1, <2>3 DEF TypeOK, QInv
<1>3. ReqsKnown'
  BY DEF ReqsKnown, TypeOK, Request, Idle, Written, Draft, HasStatus, IsDraft
<1>4. SentReqs'
  BY DEF SentReqs, TypeOK, Request, Idle
<1>5. WritesKnown'
  BY DEF WritesKnown, TypeOK, QueueTypeOK, Job, IsJob, Active, InState, queueVars
<1>6. GeneratingFree'
  BY DEF GeneratingFree, PendingFor, HasStatus, IsDraft, Written, TypeOK, QueueTypeOK, QInv, OneActive, Job, IsJob, Active, InState, ReqsKnown, Draft, queueVars
<1>7. AtMostOnePending'
  BY DEF AtMostOnePending, GeneratingFree, PendingFor, HasStatus, IsDraft, Written, TypeOK, ReqsKnown, Draft
<1>8. RecordedWasSent'
  BY DEF RecordedWasSent, SentReqs, HasStatus, IsDraft, Written, TypeOK, ReqsKnown, Draft, Request
<1> QED BY <1>1, <1>2, <1>3, <1>4, <1>5, <1>6, <1>7, <1>8

\* A finished job is over.
LEMMA FinishJobIInv == ASSUME IInv, NEW j \in Jobs, FinishJob(j) PROVE IInv'
<1> USE DraftAssumption, QueueAssumption DEF IInv, FinishJob
<1>1. QInv'
  BY QInvComplete
<1>2. TypeOK'
  BY <1>1 DEF draftVars, TypeOK, QInv, Request, Idle, Written, Draft, DraftStatus, HasStatus, IsDraft, ReqsKnown
<1>3. ReqsKnown'
  BY DEF draftVars, ReqsKnown, TypeOK, Request, Idle, Written, Draft, HasStatus, IsDraft
<1>4. SentReqs'
  BY DEF draftVars, SentReqs, TypeOK, Request, Idle
<1>5. WritesKnown'
  BY JobsStay DEF draftVars, WritesKnown, TypeOK
<1>6. GeneratingFree'
  BY DEF draftVars, GeneratingFree, PendingFor, HasStatus, IsDraft, Written, TypeOK, QueueTypeOK, QInv, OneActive, Job, IsJob, Active, InState, ReqsKnown, Draft, Complete
<1>7. AtMostOnePending'
  BY DEF draftVars, AtMostOnePending, GeneratingFree, PendingFor, HasStatus, IsDraft, Written, TypeOK, ReqsKnown, Draft
<1>8. RecordedWasSent'
  BY DEF draftVars, RecordedWasSent, SentReqs, HasStatus, IsDraft, Written, TypeOK, ReqsKnown, Draft, Request
<1> QED BY <1>1, <1>2, <1>3, <1>4, <1>5, <1>6, <1>7, <1>8

\* After a failure no job is active.
LEMMA FailJobIInv == ASSUME IInv, NEW j \in Jobs, FailJob(j) PROVE IInv'
<1> USE DraftAssumption, QueueAssumption DEF IInv, FailJob
<1>1. QInv'
  BY QInvFail
<1>2. TypeOK'
  BY <1>1 DEF TypeOK, QInv, Request, Idle, Written, Draft, DraftStatus, HasStatus, IsDraft, ReqsKnown
<1>3. ReqsKnown'
  BY DEF ReqsKnown, TypeOK, Request, Idle, Written, Draft, HasStatus, IsDraft
<1>4. SentReqs'
  BY DEF SentReqs, TypeOK, Request, Idle
<1>5. WritesKnown'
  BY DEF WritesKnown, TypeOK, QueueTypeOK, Job, IsJob, Active, InState, Fail
<1>6. GeneratingFree'
  BY DEF GeneratingFree, PendingFor, HasStatus, IsDraft, Written, TypeOK, QueueTypeOK, QInv, OneActive, Job, IsJob, Active, InState, ReqsKnown, Draft, Fail
<1>7. AtMostOnePending'
  BY DEF AtMostOnePending, GeneratingFree, PendingFor, HasStatus, IsDraft, Written, TypeOK, ReqsKnown, Draft
<1>8. RecordedWasSent'
  BY DEF RecordedWasSent, SentReqs, HasStatus, IsDraft, Written, TypeOK, ReqsKnown, Draft, Request
<1> QED BY <1>1, <1>2, <1>3, <1>4, <1>5, <1>6, <1>7, <1>8

\* A failed row is not pending.
LEMMA WriteFailedIInv == ASSUME IInv, NEW j \in Jobs, NEW d \in Drafts, WriteFailed(j, d) PROVE IInv'
<1> USE DraftAssumption, QueueAssumption DEF IInv, WriteFailed
<1>1. QInv'
  <2>1. UNCHANGED queueVars
    OBVIOUS
  <2> QED BY <2>1 DEF queueVars, QInv, QueueTypeOK, OneActive, WaitListConsistent, AttemptsLeft, DeadLettersExhausted, Active, InState, IsJob
<1>2. TypeOK'
  <2>1. jobs[j] \in Job
    BY DEF WritesKnown, IsJob, TypeOK, QueueTypeOK
  <2>2. jobs[j].data \in Messages
    BY <2>1 DEF Job
  <2>3. drafts' \in [Drafts -> Draft \cup {NoDraft}]
    BY <2>2 DEF Written, Draft, DraftStatus, TypeOK
  <2> QED BY <1>1, <2>3 DEF TypeOK, QInv
<1>3. ReqsKnown'
  BY DEF ReqsKnown, TypeOK, Request, Idle, Written, Draft, HasStatus, IsDraft
<1>4. SentReqs'
  BY DEF SentReqs, TypeOK, Request, Idle
<1>5. WritesKnown'
  BY DEF WritesKnown, TypeOK, QueueTypeOK, Job, IsJob, Active, InState, queueVars
<1>6. GeneratingFree'
  BY DEF GeneratingFree, PendingFor, HasStatus, IsDraft, Written, TypeOK, QueueTypeOK, QInv, OneActive, Job, IsJob, Active, InState, ReqsKnown, Draft, queueVars
<1>7. AtMostOnePending'
  BY DEF AtMostOnePending, GeneratingFree, PendingFor, HasStatus, IsDraft, Written, TypeOK, ReqsKnown, Draft
<1>8. RecordedWasSent'
  BY DEF RecordedWasSent, SentReqs, HasStatus, IsDraft, Written, TypeOK, ReqsKnown, Draft, Request
<1> QED BY <1>1, <1>2, <1>3, <1>4, <1>5, <1>6, <1>7, <1>8

\* A retried job waits.
LEMMA RetryIInv == ASSUME IInv, NEW j \in Jobs, Retry(j) PROVE IInv'
<1> USE DraftAssumption, QueueAssumption DEF IInv, Retry
<1>1. QInv'
  BY QInvPromote
<1>2. TypeOK'
  BY <1>1 DEF draftVars, TypeOK, QInv, Request, Idle, Written, Draft, DraftStatus, HasStatus, IsDraft, ReqsKnown
<1>3. ReqsKnown'
  BY DEF draftVars, ReqsKnown, TypeOK, Request, Idle, Written, Draft, HasStatus, IsDraft
<1>4. SentReqs'
  BY DEF draftVars, SentReqs, TypeOK, Request, Idle
<1>5. WritesKnown'
  BY JobsStay DEF draftVars, WritesKnown, TypeOK
<1>6. GeneratingFree'
  BY DEF draftVars, GeneratingFree, PendingFor, HasStatus, IsDraft, Written, TypeOK, QueueTypeOK, QInv, OneActive, Job, IsJob, Active, InState, ReqsKnown, Draft, Promote
<1>7. AtMostOnePending'
  BY DEF draftVars, AtMostOnePending, GeneratingFree, PendingFor, HasStatus, IsDraft, Written, TypeOK, ReqsKnown, Draft
<1>8. RecordedWasSent'
  BY DEF draftVars, RecordedWasSent, SentReqs, HasStatus, IsDraft, Written, TypeOK, ReqsKnown, Draft, Request
<1> QED BY <1>1, <1>2, <1>3, <1>4, <1>5, <1>6, <1>7, <1>8

\* Dead letters touch no draft.
LEMMA BuryIInv == ASSUME IInv, NEW j \in Jobs, Bury(j) PROVE IInv'
<1> USE DraftAssumption, QueueAssumption DEF IInv, Bury
<1>1. QInv'
  BY QInvBury
<1>2. TypeOK'
  BY <1>1 DEF draftVars, TypeOK, QInv, Request, Idle, Written, Draft, DraftStatus, HasStatus, IsDraft, ReqsKnown
<1>3. ReqsKnown'
  BY DEF draftVars, ReqsKnown, TypeOK, Request, Idle, Written, Draft, HasStatus, IsDraft
<1>4. SentReqs'
  BY DEF draftVars, SentReqs, TypeOK, Request, Idle
<1>5. WritesKnown'
  BY DEF draftVars, WritesKnown, TypeOK, QueueTypeOK, Job, IsJob, Active, InState, moveToDLQ
<1>6. GeneratingFree'
  BY DEF draftVars, GeneratingFree, PendingFor, HasStatus, IsDraft, Written, TypeOK, QueueTypeOK, QInv, OneActive, Job, IsJob, Active, InState, ReqsKnown, Draft, moveToDLQ
<1>7. AtMostOnePending'
  BY DEF draftVars, AtMostOnePending, GeneratingFree, PendingFor, HasStatus, IsDraft, Written, TypeOK, ReqsKnown, Draft
<1>8. RecordedWasSent'
  BY DEF draftVars, RecordedWasSent, SentReqs, HasStatus, IsDraft, Written, TypeOK, ReqsKnown, Draft, Request
<1> QED BY <1>1, <1>2, <1>3, <1>4, <1>5, <1>6, <1>7, <1>8

\* An approval reads a draft that exists.
LEMMA BeginApproveIInv == ASSUME IInv, NEW q \in Requests, NEW d \in Drafts, NEW edited \in BOOLEAN, BeginApprove(q, d, edited) PROVE IInv'
<1> USE DraftAssumption, QueueAssumption DEF IInv, BeginApprove
<1>1. QInv'
  <2>1. UNCHANGED queueVars
    OBVIOUS
  <2> QED BY <2>1 DEF queueVars, QInv, QueueTypeOK, OneActive, WaitListConsistent, AttemptsLeft, DeadLettersExhausted, Active, InState, IsJob
<1>2. TypeOK'
  BY <1>1 DEF TypeOK, QInv, Request, Idle, Written, Draft, DraftStatus, HasStatus, IsDraft, ReqsKnown
<1>3. ReqsKnown'
  BY DEF ReqsKnown, TypeOK, Request, Idle, Written, Draft, HasStatus, IsDraft
<1>4. SentReqs'
  BY DEF SentReqs, TypeOK, Request, Idle
<1>5. WritesKnown'
  BY DEF WritesKnown, TypeOK, QueueTypeOK, Job, IsJob, Active, InState, queueVars
<1>6. GeneratingFree'
  BY DEF GeneratingFree, PendingFor, HasStatus, IsDraft, Written, TypeOK, QueueTypeOK, QInv, OneActive, Job, IsJob, Active, InState, ReqsKnown, Draft, queueVars
<1>7. AtMostOnePending'
  BY DEF AtMostOnePending, GeneratingFree, PendingFor, HasStatus, IsDraft, Written, TypeOK, ReqsKnown, Draft
<1>8. RecordedWasSent'
  BY DEF RecordedWasSent, SentReqs, HasStatus, IsDraft, Written, TypeOK, ReqsKnown, Draft, Request
<1> QED BY <1>1, <1>2, <1>3, <1>4, <1>5, <1>6, <1>7, <1>8

\* A request that has sent has counted its e-mail.
LEMMA SendEmailIInv == ASSUME IInv, NEW q \in Requests, SendEmail(q) PROVE IInv'
<1> USE DraftAssumption, QueueAssumption DEF IInv, SendEmail
<1>1. QInv'
  <2>1. UNCHANGED queueVars
    OBVIOUS
  <2> QED BY <2>1 DEF queueVars, QInv, QueueTypeOK, OneActive, WaitListConsistent, AttemptsLeft, DeadLettersExhausted, Active, InState, IsJob
<1>2. TypeOK'
  BY <1>1 DEF TypeOK, QInv, Request, Idle, Written, Draft, DraftStatus, HasStatus, IsDraft, ReqsKnown
<1>3. ReqsKnown'
  BY DEF ReqsKnown, TypeOK, Request, Idle, Written, Draft, HasStatus, IsDraft
<1>4. SentReqs'
  BY DEF SentReqs, TypeOK, Request, Idle
<1>5. WritesKnown'
  BY DEF WritesKnown, TypeOK, QueueTypeOK, Job, IsJob, Active, InState, queueVars
<1>6. GeneratingFree'
  BY DEF GeneratingFree, PendingFor, HasStatus, IsDraft, Written, TypeOK, QueueTypeOK, QInv, OneActive, Job, IsJob, Active, InState, ReqsKnown, Draft, queueVars
<1>7. AtMostOnePending'
  BY DEF AtMostOnePending, GeneratingFree, PendingFor, HasStatus, IsDraft, Written, TypeOK, ReqsKnown, Draft
<1>8. RecordedWasSent'
  BY DEF RecordedWasSent, SentReqs, HasStatus, IsDraft, Written, TypeOK, ReqsKnown, Draft, Request
<1> QED BY <1>1, <1>2, <1>3, <1>4, <1>5, <1>6, <1>7, <1>8

\* An aborted request wrote nothing.
LEMMA AbortIInv == ASSUME IInv, NEW q \in Requests, Abort(q) PROVE IInv'
<1> USE DraftAssumption, QueueAssumption DEF IInv, Abort
<1>1. QInv'
  <2>1. UNCHANGED queueVars
    OBVIOUS
  <2> QED BY <2>1 DEF queueVars, QInv, QueueTypeOK, OneActive, WaitListConsistent, AttemptsLeft, DeadLettersExhausted, Active, InState, IsJob
<1>2. TypeOK'
  BY <1>1 DEF TypeOK, QInv, Request, Idle, Written, Draft, DraftStatus, HasStatus, IsDraft, ReqsKnown
<1>3. ReqsKnown'
  BY DEF ReqsKnown, TypeOK, Request, Idle, Written, Draft, HasStatus, IsDraft
<1>4. SentReqs'
  BY DEF SentReqs, TypeOK, Request, Idle
<1>5. WritesKnown'
  BY DEF WritesKnown, TypeOK, QueueTypeOK, Job, IsJob, Active, InState, queueVars
<1>6. GeneratingFree'
  BY DEF GeneratingFree, PendingFor, HasStatus, IsDraft, Written, TypeOK, QueueTypeOK, QInv, OneActive, Job, IsJob, Active, InState, ReqsKnown, Draft, queueVars
<1>7. AtMostOnePending'
  BY DEF AtMostOnePending, GeneratingFree, PendingFor, HasStatus, IsDraft, Written, TypeOK, ReqsKnown, Draft
<1>8. RecordedWasSent'
  BY DEF RecordedWasSent, SentReqs, HasStatus, IsDraft, Written, TypeOK, ReqsKnown, Draft, Request
<1> QED BY <1>1, <1>2, <1>3, <1>4, <1>5, <1>6, <1>7, <1>8

\* Only a request that has sent records it.
LEMMA CommitApproveIInv == ASSUME IInv, NEW q \in Requests, CommitApprove(q) PROVE IInv'
<1> USE DraftAssumption, QueueAssumption DEF IInv, CommitApprove
<1>1. QInv'
  <2>1. UNCHANGED queueVars
    OBVIOUS
  <2> QED BY <2>1 DEF queueVars, QInv, QueueTypeOK, OneActive, WaitListConsistent, AttemptsLeft, DeadLettersExhausted, Active, InState, IsJob
<1>2. TypeOK'
  BY <1>1 DEF TypeOK, QInv, Request, Idle, Written, Draft, DraftStatus, HasStatus, IsDraft, ReqsKnown
<1>3. ReqsKnown'
  <2>1. PICK d \in Drafts : d = reqs[q].draft /\ IsDraft(d)
    BY DEF ReqsKnown, TypeOK, Request
  <2>2. drafts'[d] \in Draft
    BY <2>1 DEF IsDraft, TypeOK, Draft, DraftStatus
  <2>3. \A c \in Drafts : IsDraft(c) => IsDraft(c)'
    BY <2>1, <2>2 DEF IsDraft, TypeOK
  <2>4. \A p \in Requests : p # q => reqs'[p] = reqs[p]
    BY DEF TypeOK
  <2>5. \A p \in Requests :
         reqs[p].op \in {"approve", "sent", "reject", "regenerate", "requeue"}
           => reqs[p].draft \in Drafts
    BY DEF TypeOK, Request
  <2>6. reqs'[q] = Idle \/ reqs'[q] = [op |-> "requeue", draft |-> d]
    BY <2>1 DEF TypeOK
  <2> QED BY <2>1, <2>3, <2>4, <2>5, <2>6 DEF ReqsKnown, Idle
<1>4. SentReqs'
  BY DEF SentReqs, TypeOK, Request, Idle
<1>5. WritesKnown'
  BY DEF WritesKnown, TypeOK, QueueTypeOK, Job, IsJob, Active, InState, queueVars
<1>6. GeneratingFree'
  BY DEF GeneratingFree, PendingFor, HasStatus, IsDraft, Written, TypeOK, QueueTypeOK, QInv, OneActive, Job, IsJob, Active, InState, ReqsKnown, Draft, queueVars
<1>7. AtMostOnePending'
  BY DEF AtMostOnePending, GeneratingFree, PendingFor, HasStatus, IsDraft, Written, TypeOK, ReqsKnown, Draft
<1>8. RecordedWasSent'
  BY DEF RecordedWasSent, SentReqs, HasStatus, IsDraft, Written, TypeOK, ReqsKnown, Draft, Request
<1> QED BY <1>1, <1>2, <1>3, <1>4, <1>5, <1>6, <1>7, <1>8

\* A rejection reads a draft that exists.
LEMMA BeginRejectIInv == ASSUME IInv, NEW q \in Requests, NEW d \in Drafts, BeginReject(q, d) PROVE IInv'
<1> USE DraftAssumption, QueueAssumption DEF IInv, BeginReject
<1>1. QInv'
  <2>1. UNCHANGED queueVars
    OBVIOUS
  <2> QED BY <2>1 DEF queueVars, QInv, QueueTypeOK, OneActive, WaitListConsistent, AttemptsLeft, DeadLettersExhausted, Active, InState, IsJob
<1>2. TypeOK'
  BY <1>1 DEF TypeOK, QInv, Request, Idle, Written, Draft, DraftStatus, HasStatus, IsDraft, ReqsKnown
<1>3. ReqsKnown'
  BY DEF ReqsKnown, TypeOK, Request, Idle, Written, Draft, HasStatus, IsDraft
<1>4. SentReqs'
  BY DEF SentReqs, TypeOK, Request, Idle
<1>5. WritesKnown'
  BY DEF WritesKnown, TypeOK, QueueTypeOK, Job, IsJob, Active, InState, queueVars
<1>6. GeneratingFree'
  BY DEF GeneratingFree, PendingFor, HasStatus, IsDraft, Written, TypeOK, QueueTypeOK, QInv, OneActive, Job, IsJob, Active, InState, ReqsKnown, Draft, queueVars
<1>7. AtMostOnePending'
  BY DEF AtMostOnePending, GeneratingFree, PendingFor, HasStatus, IsDraft, Written, TypeOK, ReqsKnown, Draft
<1>8. RecordedWasSent'
  BY DEF RecordedWasSent, SentReqs, HasStatus, IsDraft, Written, TypeOK, ReqsKnown, Draft, Request
<1> QED BY <1>1, <1>2, <1>3, <1>4, <1>5, <1>6, <1>7, <1>8

\* A regeneration reads a draft that exists.
LEMMA BeginRegenerateIInv == ASSUME IInv, NEW q \in Requests, NEW d \in Drafts, BeginRegenerate(q, d) PROVE IInv'
<1> USE DraftAssumption, QueueAssumption DEF IInv, BeginRegenerate
<1>1. QInv'
  <2>1. UNCHANGED queueVars
    OBVIOUS
  <2> QED BY <2>1 DEF queueVars, QInv, QueueTypeOK, OneActive, WaitListConsistent, AttemptsLeft, DeadLettersExhausted, Active, InState, IsJob
<1>2. TypeOK'
  BY <1>1 DEF TypeOK, QInv, Request, Idle, Written, Draft, DraftStatus, HasStatus, IsDraft, ReqsKnown
<1>3. ReqsKnown'
  BY DEF ReqsKnown, TypeOK, Request, Idle, Written, Draft, HasStatus, IsDraft
<1>4. SentReqs'
  BY DEF SentReqs, TypeOK, Request, Idle
<1>5. WritesKnown'
  BY DEF WritesKnown, TypeOK, QueueTypeOK, Job, IsJob, Active, InState, queueVars
<1>6. GeneratingFree'
  BY DEF GeneratingFree, PendingFor, HasStatus, IsDraft, Written, TypeOK, QueueTypeOK, QInv, OneActive, Job, IsJob, Active, InState, ReqsKnown, Draft, queueVars
<1>7. AtMostOnePending'
  BY DEF AtMostOnePending, GeneratingFree, PendingFor, HasStatus, IsDraft, Written, TypeOK, ReqsKnown, Draft
<1>8. RecordedWasSent'
  BY DEF RecordedWasSent, SentReqs, HasStatus, IsDraft, Written, TypeOK, ReqsKnown, Draft, Request
<1> QED BY <1>1, <1>2, <1>3, <1>4, <1>5, <1>6, <1>7, <1>8

\* A rejected draft is not pending.
LEMMA CommitRejectIInv == ASSUME IInv, NEW q \in Requests, CommitReject(q) PROVE IInv'
<1> USE DraftAssumption, QueueAssumption DEF IInv, CommitReject
<1>1. QInv'
  <2>1. UNCHANGED queueVars
    OBVIOUS
  <2> QED BY <2>1 DEF queueVars, QInv, QueueTypeOK, OneActive, WaitListConsistent, AttemptsLeft, DeadLettersExhausted, Active, InState, IsJob
<1>2. TypeOK'
  BY <1>1 DEF TypeOK, QInv, Request, Idle, Written, Draft, DraftStatus, HasStatus, IsDraft, ReqsKnown
<1>3. ReqsKnown'
  <2>1. PICK d \in Drafts : d = reqs[q].draft /\ IsDraft(d)
    BY DEF ReqsKnown, TypeOK, Request
  <2>2. drafts'[d] \in Draft
    BY <2>1 DEF IsDraft, TypeOK, Draft, DraftStatus
  <2>3. \A c \in Drafts : IsDraft(c) => IsDraft(c)'
    BY <2>1, <2>2 DEF IsDraft, TypeOK
  <2>4. \A p \in Requests : p # q => reqs'[p] = reqs[p]
    BY DEF TypeOK
  <2>5. \A p \in Requests :
         reqs[p].op \in {"approve", "sent", "reject", "regenerate", "requeue"}
           => reqs[p].draft \in Drafts
    BY DEF TypeOK, Request
  <2>6. reqs'[q] = Idle \/ reqs'[q] = [op |-> "requeue", draft |-> d]
    BY <2>1 DEF TypeOK
  <2> QED BY <2>1, <2>3, <2>4, <2>5, <2>6 DEF ReqsKnown, Idle
<1>4. SentReqs'
  BY DEF SentReqs, TypeOK, Request, Idle
<1>5. WritesKnown'
  BY DEF WritesKnown, TypeOK, QueueTypeOK, Job, IsJob, Active, InState, queueVars
<1>6. GeneratingFree'
  BY DEF GeneratingFree, PendingFor, HasStatus, IsDraft, Written, TypeOK, QueueTypeOK, QInv, OneActive, Job, IsJob, Active, InState, ReqsKnown, Draft, queueVars
<1>7. AtMostOnePending'
  BY DEF AtMostOnePending, GeneratingFree, PendingFor, HasStatus, IsDraft, Written, TypeOK, ReqsKnown, Draft
<1>8. RecordedWasSent'
  BY DEF RecordedWasSent, SentReqs, HasStatus, IsDraft, Written, TypeOK, ReqsKnown, Draft, Request
<1> QED BY <1>1, <1>2, <1>3, <1>4, <1>5, <1>6, <1>7, <1>8

\* The message of a known draft is a payload.
LEMMA RequeueIInv == ASSUME IInv, NEW q \in Requests, NEW j \in Jobs, Requeue(q, j) PROVE IInv'
<1> USE DraftAssumption, QueueAssumption DEF IInv, Requeue
<1>1. QInv'
  <2>1. drafts[reqs[q].draft].msg \in Payloads
    BY DEF TypeOK, Request, ReqsKnown, IsDraft, Draft
  <2> QED BY <2>1, QInvAdd
<1>2. TypeOK'
  BY <1>1 DEF TypeOK, QInv, Request, Idle, Written, Draft, DraftStatus, HasStatus, IsDraft, ReqsKnown
<1>3. ReqsKnown'
  BY DEF ReqsKnown, TypeOK, Request, Idle, Written, Draft, HasStatus, IsDraft
<1>4. SentReqs'
  BY DEF SentReqs, TypeOK, Request, Idle
<1>5. WritesKnown'
  BY DEF WritesKnown, TypeOK, QueueTypeOK, Job, IsJob, Active, InState, Add
<1>6. GeneratingFree'
  BY DEF GeneratingFree, PendingFor, HasStatus, IsDraft, Written, TypeOK, QueueTypeOK, QInv, OneActive, Job, IsJob, Active, InState, ReqsKnown, Draft, Add
<1>7. AtMostOnePending'
  BY DEF AtMostOnePending, GeneratingFree, PendingFor, HasStatus, IsDraft, Written, TypeOK, ReqsKnown, Draft
<1>8. RecordedWasSent'
  BY DEF RecordedWasSent, SentReqs, HasStatus, IsDraft, Written, TypeOK, ReqsKnown, Draft, Request
<1> QED BY <1>1, <1>2, <1>3, <1>4, <1>5, <1>6, <1>7, <1>8

\* A request remembers a message.
LEMMA BeginGenerateIInv == ASSUME IInv, NEW q \in Requests, BeginGenerate(q) PROVE IInv'
<1> USE DraftAssumption, QueueAssumption DEF IInv, BeginGenerate
<1>1. QInv'
  <2>1. UNCHANGED queueVars
    OBVIOUS
  <2> QED BY <2>1 DEF queueVars, QInv, QueueTypeOK, OneActive, WaitListConsistent, AttemptsLeft, DeadLettersExhausted, Active, InState, IsJob
<1>2. TypeOK'
  BY <1>1 DEF TypeOK, QInv, Request, Idle, Written, Draft, DraftStatus, HasStatus, IsDraft, ReqsKnown
<1>3. ReqsKnown'
  BY DEF ReqsKnown, TypeOK, Request, Idle, Written, Draft, HasStatus, IsDraft
<1>4. SentReqs'
  BY DEF SentReqs, TypeOK, Request, Idle
<1>5. WritesKnown'
  BY DEF WritesKnown, TypeOK, QueueTypeOK, Job, IsJob, Active, InState, queueVars
<1>6. GeneratingFree'
  BY DEF GeneratingFree, PendingFor, HasStatus, IsDraft, Written, TypeOK, QueueTypeOK, QInv, OneActive, Job, IsJob, Active, InState, ReqsKnown, Draft, queueVars
<1>7. AtMostOnePending'
  BY DEF AtMostOnePending, GeneratingFree, PendingFor, HasStatus, IsDraft, Written, TypeOK, ReqsKnown, Draft
<1>8. RecordedWasSent'
  BY DEF RecordedWasSent, SentReqs, HasStatus, IsDraft, Written, TypeOK, ReqsKnown, Draft, Request
<1> QED BY <1>1, <1>2, <1>3, <1>4, <1>5, <1>6, <1>7, <1>8

\* The remembered message is a payload.
LEMMA EnqueueGenerateIInv == ASSUME IInv, NEW q \in Requests, NEW j \in Jobs, EnqueueGenerate(q, j) PROVE IInv'
<1> USE DraftAssumption, QueueAssumption DEF IInv, EnqueueGenerate
<1>1. QInv'
  <2>1. reqs[q].msg \in Payloads
    BY DEF TypeOK, Request
  <2> QED BY <2>1, QInvAdd
<1>2. TypeOK'
  BY <1>1 DEF TypeOK, QInv, Request, Idle, Written, Draft, DraftStatus, HasStatus, IsDraft, ReqsKnown
<1>3. ReqsKnown'
  BY DEF ReqsKnown, TypeOK, Request, Idle, Written, Draft, HasStatus, IsDraft
<1>4. SentReqs'
  BY DEF SentReqs, TypeOK, Request, Idle
<1>5. WritesKnown'
  BY DEF WritesKnown, TypeOK, QueueTypeOK, Job, IsJob, Active, InState, Add
<1>6. GeneratingFree'
  BY DEF GeneratingFree, PendingFor, HasStatus, IsDraft, Written, TypeOK, QueueTypeOK, QInv, OneActive, Job, IsJob, Active, InState, ReqsKnown, Draft, Add
<1>7. AtMostOnePending'
  BY DEF AtMostOnePending, GeneratingFree, PendingFor, HasStatus, IsDraft, Written, TypeOK, ReqsKnown, Draft
<1>8. RecordedWasSent'
  BY DEF RecordedWasSent, SentReqs, HasStatus, IsDraft, Written, TypeOK, ReqsKnown, Draft, Request
<1> QED BY <1>1, <1>2, <1>3, <1>4, <1>5, <1>6, <1>7, <1>8

\* A restart forgets the requests and leaves no job at its generation.
LEMMA CrashIInv == ASSUME IInv, Crash PROVE IInv'
<1> USE DraftAssumption, QueueAssumption DEF IInv, Crash
<1>1. QInv'
  BY QInvRestart
<1>2. TypeOK'
  BY <1>1 DEF TypeOK, QInv, Request, Idle, Written, Draft, DraftStatus, HasStatus, IsDraft, ReqsKnown
<1>3. ReqsKnown'
  BY DEF ReqsKnown, TypeOK, Request, Idle, Written, Draft, HasStatus, IsDraft
<1>4. SentReqs'
  BY DEF SentReqs, TypeOK, Request, Idle
<1>5. WritesKnown'
  BY DEF WritesKnown, TypeOK, QueueTypeOK, Job, IsJob, Active, InState, Restart
<1>6. GeneratingFree'
  BY DEF GeneratingFree, PendingFor, HasStatus, IsDraft, Written, TypeOK, QueueTypeOK, QInv, OneActive, Job, IsJob, Active, InState, ReqsKnown, Draft, Restart
<1>7. AtMostOnePending'
  BY DEF AtMostOnePending, GeneratingFree, PendingFor, HasStatus, IsDraft, Written, TypeOK, ReqsKnown, Draft
<1>8. RecordedWasSent'
  BY DEF RecordedWasSent, SentReqs, HasStatus, IsDraft, Written, TypeOK, ReqsKnown, Draft, Request
<1> QED BY <1>1, <1>2, <1>3, <1>4, <1>5, <1>6, <1>7, <1>8

-----------------------------------------------------------------------------
\* Every step of the worker keeps the invariant.
LEMMA WorkerIInv == ASSUME IInv, NEW j \in Jobs, WorkerStep(j) PROVE IInv'
<1>1. CASE \E d \in Drafts : StoreDraft(j, d) \/ WriteFailed(j, d)
  BY <1>1, StoreDraftIInv, WriteFailedIInv
<1>2. CASE StartJob(j) \/ SkipJob(j) \/ CheckDraft(j) \/ FinishJob(j)
  BY <1>2, StartJobIInv, SkipJobIInv, CheckDraftIInv, FinishJobIInv
<1>3. CASE FailJob(j) \/ Retry(j) \/ Bury(j)
  BY <1>3, FailJobIInv, RetryIInv, BuryIInv
<1> QED BY <1>1, <1>2, <1>3 DEF WorkerStep

\* Every step of a request keeps the invariant.
LEMMA RequestIInv == ASSUME IInv, NEW q \in Requests, RequestStep(q) PROVE IInv'
<1>1. CASE \E d \in Drafts, edited \in BOOLEAN : BeginApprove(q, d, edited)
  BY <1>1, BeginApproveIInv
<1>2. CASE \E d \in Drafts : BeginReject(q, d) \/ BeginRegenerate(q, d)
  BY <1>2, BeginRejectIInv, BeginRegenerateIInv
<1>3. CASE SendEmail(q) \/ CommitApprove(q) \/ CommitReject(q) \/ Abort(q) \/ BeginGenerate(q)
  BY <1>3, SendEmailIInv, CommitApproveIInv, CommitRejectIInv, AbortIInv, BeginGenerateIInv
<1>4. CASE \E j \in Jobs : Requeue(q, j) \/ EnqueueGenerate(q, j)
  BY <1>4, RequeueIInv, EnqueueGenerateIInv
<1> QED BY <1>1, <1>2, <1>3, <1>4 DEF RequestStep

\* A stuttering step keeps the invariant.
LEMMA StutterIInv == ASSUME IInv, UNCHANGED vars PROVE IInv'
<1> USE DEF vars, queueVars, draftVars
<1>1. QInv'
  BY DEF IInv, QInv, QueueTypeOK, OneActive, WaitListConsistent, AttemptsLeft,
     DeadLettersExhausted, Active, InState, IsJob
<1>2. TypeOK'
  BY <1>1 DEF IInv, TypeOK, QInv
<1>3. ReqsKnown' /\ SentReqs' /\ WritesKnown'
  BY DEF IInv, ReqsKnown, SentReqs, WritesKnown, IsDraft, IsJob
<1>4. GeneratingFree' /\ AtMostOnePending' /\ RecordedWasSent'
  BY DEF IInv, GeneratingFree, AtMostOnePending, RecordedWasSent, PendingFor,
     HasStatus, IsDraft, Active, InState, IsJob
<1> QED BY <1>1, <1>2, <1>3, <1>4 DEF IInv

\* The inductive invariant holds in every reachable state.
THEOREM IInvHolds == Spec => []IInv
<1>1. Init => IInv
  BY InitIInv
<1>2. IInv /\ [Next]_vars => IInv'
  <2> SUFFICES ASSUME IInv, [Next]_vars PROVE IInv'
    OBVIOUS
  <2>1. CASE MessageNext
    BY <2>1, ReceiveIInv, ReceiveUnqueuedIInv DEF MessageNext
  <2>2. CASE \E j \in Jobs : WorkerStep(j)
    BY <2>2, WorkerIInv
  <2>3. CASE \E q \in Requests : RequestStep(q)
    BY <2>3, RequestIInv
  <2>4. CASE Crash
    BY <2>4, CrashIInv
  <2>5. CASE UNCHANGED vars
    BY <2>5, StutterIInv
  <2> QED BY <2>1, <2>2, <2>3, <2>4, <2>5 DEF Next
<1> QED BY <1>1, <1>2, PTL DEF Spec

\* The queue, the table and the requests in flight keep their types
\* (conversation-draft.service.ts, ai-draft.job.ts).
THEOREM TypeCorrect == Spec => []TypeOK
<1>1. IInv => TypeOK
  BY DEF IInv
<1> QED BY <1>1, IInvHolds, PTL

\* A message never has two pending drafts, however many requests, retries,
\* duplicate jobs and crashes interleave (ai-draft.job.ts:30-44).
THEOREM NeverTwoPending == Spec => []AtMostOnePending
<1>1. IInv => AtMostOnePending
  BY DEF IInv
<1> QED BY <1>1, IInvHolds, PTL

\* What the table records as sent has been sent, whatever interleaves and
\* wherever the process dies (conversation-draft.service.ts:91-138).
THEOREM RecordIsTrue == Spec => []RecordedWasSent
<1>1. IInv => RecordedWasSent
  BY DEF IInv
<1> QED BY <1>1, IInvHolds, PTL

\* Only jobs out of attempts become dead letters (plugins/queue.ts:142-148).
THEOREM DeadLettersAreExhausted == Spec => []DeadLettersExhausted
<1>1. IInv => DeadLettersExhausted
  BY DEF IInv, QInv
<1> QED BY <1>1, IInvHolds, PTL

-----------------------------------------------------------------------------
(* One request at a time and no crash                                        *)

\* It holds of the empty tables.
LEMMA InitSerial == ASSUME Init PROVE SerialInv
  BY DraftAssumption
     DEF Init, SerialInv, SentOnce, BoundUnrecorded, SentIsRecorded, HasStatus, IsDraft, Idle

\* What the worker and the e-mail pipeline do changes no draft that is there.
LEMMA WorkerSerial ==
  ASSUME IInv, SerialInv, UNCHANGED <<reqs, sent>>,
         \A d \in Drafts : IsDraft(d) => drafts'[d] = drafts[d]
  PROVE  SerialInv' /\ \A d \in Drafts : HasStatus(d, {"approved", "edited"}) => drafts'[d] = drafts[d]
<1>1. \A d \in Drafts, S \in SUBSET DraftStatus : HasStatus(d, S) => HasStatus(d, S)'
  BY DEF HasStatus, IsDraft
<1>2. \A q \in Requests : reqs[q].op \in {"approve", "sent", "reject", "regenerate"}
        => reqs[q].draft \in Drafts
  BY DEF IInv, TypeOK, Request
<1>3. BoundUnrecorded'
  BY <1>1, <1>2 DEF SerialInv, BoundUnrecorded, DraftStatus
<1>4. SentIsRecorded'
  BY <1>1 DEF SerialInv, SentIsRecorded, DraftStatus
<1>5. SentOnce'
  BY DEF SerialInv, SentOnce
<1> QED BY <1>3, <1>4, <1>5 DEF SerialInv, HasStatus

\* A request that begins or ends without a write: what it binds is unrecorded.
LEMMA RequestSerial ==
  ASSUME IInv, SerialInv, UNCHANGED <<drafts, sent>>, NEW q \in Requests, NEW r,
         reqs[q].op # "sent", reqs' = [reqs EXCEPT ![q] = r], r.op # "sent",
         r.op \in {"approve", "reject", "regenerate"}
           => HasStatus(r.draft, {"pending", "rejected", "failed"})
  PROVE  SerialInv'
<1>1. reqs'[q] = r /\ \A p \in Requests : p # q => reqs'[p] = reqs[p]
  BY DEF IInv, TypeOK
<1>2. BoundUnrecorded'
  BY <1>1 DEF SerialInv, BoundUnrecorded, HasStatus, IsDraft
<1>3. SentIsRecorded'
  BY <1>1 DEF SerialInv, SentIsRecorded, HasStatus, IsDraft
<1>4. SentOnce'
  BY DEF SerialInv, SentOnce
<1> QED BY <1>2, <1>3, <1>4 DEF SerialInv

\* The draft that is sent was not sent before: it is not recorded, and the only
\* request is the one that sends it.
LEMMA SendEmailSerial ==
  ASSUME Serial, IInv, SerialInv, NEW q \in Requests, SendEmail(q) PROVE SerialInv'
<1>1. PICK d \in Drafts : d = reqs[q].draft
  BY DEF SendEmail, IInv, TypeOK, Request
<1>2. /\ reqs[q].op = "approve" /\ sent' = [sent EXCEPT ![d] = @ + 1]
      /\ UNCHANGED drafts /\ sent \in [Drafts -> Nat]
      /\ \A p \in Requests : p = q
  BY <1>1 DEF SendEmail, IInv, TypeOK, Serial
<1>3. reqs'[q].op = "sent" /\ reqs'[q].draft = d
  BY <1>1, <1>2 DEF SendEmail, IInv, TypeOK, Request
<1>4. sent[d] = 0
  BY <1>1, <1>2 DEF SerialInv, BoundUnrecorded, SentIsRecorded, HasStatus
<1>5. SentOnce'
  BY <1>2, <1>4 DEF SerialInv, SentOnce
<1>6. BoundUnrecorded'
  BY <1>1, <1>2, <1>3 DEF SerialInv, BoundUnrecorded, HasStatus, IsDraft
<1>7. SentIsRecorded'
  <2>1. ASSUME NEW c \in Drafts, c # d, sent'[c] > 0 PROVE HasStatus(c, {"approved", "edited"})
    BY <1>2, <2>1 DEF SerialInv, SentIsRecorded
  <2> QED BY <1>2, <1>3, <2>1 DEF SentIsRecorded, HasStatus, IsDraft
<1> QED BY <1>5, <1>6, <1>7 DEF SerialInv

\* A request that writes the status of its draft: an approval that records what
\* it sent, or a rejection; no recorded draft is touched.
LEMMA CommitSerial ==
  ASSUME Serial, IInv, SerialInv, NEW q \in Requests, CommitApprove(q) \/ CommitReject(q)
  PROVE  SerialInv' /\ \A d \in Drafts : HasStatus(d, {"approved", "edited"}) => drafts'[d] = drafts[d]
<1>1. PICK d \in Drafts : d = reqs[q].draft
  BY DEF CommitApprove, CommitReject, IInv, TypeOK, Request
<1>2. /\ reqs[q].op \in {"sent", "reject", "regenerate"} /\ UNCHANGED sent
      /\ HasStatus(d, {"pending", "rejected", "failed"}) /\ drafts[d] \in Draft
      /\ \A p \in Requests : p = q
  BY <1>1 DEF CommitApprove, CommitReject, SerialInv, BoundUnrecorded, Serial, IInv, TypeOK,
     HasStatus, IsDraft
<1>3. reqs'[q].op \in {"idle", "requeue"}
  BY DEF CommitApprove, CommitReject, IInv, TypeOK, Idle
<1>4. /\ \A c \in Drafts : c # d => drafts'[c] = drafts[c]
      /\ drafts'[d] \in Draft
      /\ CommitApprove(q) => drafts'[d].status \in {"approved", "edited"}
  <2>1. CASE CommitApprove(q)
    BY <1>1, <1>2, <2>1 DEF CommitApprove, IInv, TypeOK, Draft, DraftStatus
  <2>2. CASE CommitReject(q)
    <3>1. drafts' = [drafts EXCEPT ![d] = [drafts[d] EXCEPT !.status = "rejected"]]
      BY <1>1, <2>2 DEF CommitReject, IInv, TypeOK
    <3>2. ~CommitApprove(q)
      BY <2>2 DEF CommitApprove, CommitReject
    <3> QED BY <1>2, <3>1, <3>2 DEF IInv, TypeOK, Draft, DraftStatus
  <2> QED BY <2>1, <2>2
<1>5. BoundUnrecorded' /\ SentOnce'
  BY <1>2, <1>3 DEF SerialInv, BoundUnrecorded, SentOnce
<1>6. SentIsRecorded'
  <2>1. ASSUME NEW c \in Drafts, c # d, sent'[c] > 0 PROVE HasStatus(c, {"approved", "edited"})'
    BY <1>1, <1>2, <1>4, <2>1 DEF SerialInv, SentIsRecorded, HasStatus, IsDraft
  <2>2. ASSUME sent'[d] > 0 PROVE HasStatus(d, {"approved", "edited"})'
    <3>1. reqs[q].op = "sent"
      BY <1>2, <2>2 DEF SerialInv, SentIsRecorded, HasStatus
    <3>2. CommitApprove(q)
      BY <3>1 DEF CommitReject
    <3> QED BY <1>4, <3>2, DraftAssumption DEF HasStatus, IsDraft
  <2> QED BY <2>1, <2>2 DEF SentIsRecorded
<1> QED BY <1>2, <1>4, <1>5, <1>6 DEF SerialInv, HasStatus

\* Every step keeps it, and every draft that is recorded as sent.
LEMMA NextSerial ==
  ASSUME Serial, IInv, SerialInv, [Next]_vars
  PROVE  SerialInv' /\ [\A d \in Drafts : HasStatus(d, {"approved", "edited"})
                                            => drafts'[d] = drafts[d]]_vars
<1>1. ~Crash
  BY DEF Serial, Crash, IInv, TypeOK
<1>2. CASE MessageNext \/ UNCHANGED vars
  BY <1>2, WorkerSerial
     DEF MessageNext, Receive, ReceiveUnqueued, vars, queueVars, draftVars
<1>3. ASSUME NEW j \in Jobs, WorkerStep(j) PROVE SerialInv' /\ \A d \in Drafts :
        HasStatus(d, {"approved", "edited"}) => drafts'[d] = drafts[d]
  <2>1. UNCHANGED <<reqs, sent>>
    BY <1>3 DEF WorkerStep, StartJob, SkipJob, CheckDraft, FinishJob, FailJob, Retry, Bury,
       StoreDraft, WriteFailed, draftVars
  <2>2. UNCHANGED drafts \/ \E d \in Drafts : \E m, s : Written(d, m, s)
    BY <1>3 DEF WorkerStep, StartJob, SkipJob, CheckDraft, FinishJob, FailJob, Retry, Bury,
       StoreDraft, WriteFailed, draftVars
  <2>3. \A d \in Drafts : IsDraft(d) => drafts'[d] = drafts[d]
    BY <2>2 DEF Written, IsDraft, IInv, TypeOK
  <2> QED BY <2>1, <2>3, WorkerSerial
<1>4. ASSUME NEW q \in Requests, RequestStep(q) PROVE SerialInv' /\ \A d \in Drafts :
        HasStatus(d, {"approved", "edited"}) => drafts'[d] = drafts[d]
  <2>1. CASE SendEmail(q)
    BY <2>1, SendEmailSerial DEF SendEmail
  <2>2. CASE CommitApprove(q) \/ CommitReject(q)
    BY <2>2, CommitSerial
  <2>3. ASSUME NEW d \in Drafts, NEW edited \in BOOLEAN,
               BeginApprove(q, d, edited) \/ BeginReject(q, d) \/ BeginRegenerate(q, d)
        PROVE  SerialInv' /\ UNCHANGED drafts
    <3>1. PICK r : /\ reqs' = [reqs EXCEPT ![q] = r] /\ r.op # "sent" /\ r.draft = d
                   /\ HasStatus(d, {"pending", "rejected", "failed"})
      <4>1. CASE BeginApprove(q, d, edited)
        <5> DEFINE r == [op |-> "approve", draft |-> d, edited |-> edited]
        <5>1. reqs' = [reqs EXCEPT ![q] = r] /\ r.op # "sent" /\ r.draft = d
                /\ HasStatus(d, {"pending", "rejected", "failed"})
          BY <4>1 DEF BeginApprove, HasStatus
        <5> QED BY <5>1
      <4>2. CASE BeginReject(q, d)
        <5> DEFINE r == [op |-> "reject", draft |-> d]
        <5>1. reqs' = [reqs EXCEPT ![q] = r] /\ r.op # "sent" /\ r.draft = d
                /\ HasStatus(d, {"pending", "rejected", "failed"})
          BY <4>2 DEF BeginReject, HasStatus
        <5> QED BY <5>1
      <4>3. CASE BeginRegenerate(q, d)
        <5> DEFINE r == [op |-> "regenerate", draft |-> d]
        <5>1. reqs' = [reqs EXCEPT ![q] = r] /\ r.op # "sent" /\ r.draft = d
                /\ HasStatus(d, {"pending", "rejected", "failed"})
          BY <4>3 DEF BeginRegenerate, HasStatus
        <5> QED BY <5>1
      <4> QED BY <2>3, <4>1, <4>2, <4>3
    <3>2. reqs[q].op # "sent" /\ UNCHANGED <<drafts, sent>>
      BY <2>3 DEF BeginApprove, BeginReject, BeginRegenerate, Idle
    <3> QED BY <3>1, <3>2, RequestSerial
  <2>4. CASE Abort(q) \/ BeginGenerate(q) \/ \E j \in Jobs : Requeue(q, j) \/ EnqueueGenerate(q, j)
    <3>1. PICK r : reqs' = [reqs EXCEPT ![q] = r] /\ r.op \in {"idle", "generate"}
      BY <2>4 DEF Abort, BeginGenerate, Requeue, EnqueueGenerate, Idle
    <3>2. reqs[q].op # "sent" /\ UNCHANGED <<drafts, sent>>
      BY <2>4 DEF Abort, BeginGenerate, Requeue, EnqueueGenerate, Idle
    <3> QED BY <3>1, <3>2, RequestSerial
  <2> QED BY <1>4, <2>1, <2>2, <2>3, <2>4 DEF RequestStep
<1> QED BY <1>1, <1>2, <1>3, <1>4 DEF Next

\* With one request at a time and no crash the invariant above holds.
LEMMA SerialHolds == ASSUME Serial PROVE Spec => []SerialInv
<1>1. Init => SerialInv
  BY InitSerial
<1>2. IInv /\ SerialInv /\ [Next]_vars => SerialInv'
  BY NextSerial
<1> QED BY <1>1, <1>2, IInvHolds, PTL DEF Spec

\* With one request at a time and no crash no draft is e-mailed twice
\* (conversation-draft.service.ts:41-138).
THEOREM SerialSentOnce == ASSUME Serial PROVE Spec => []SentOnce
<1>1. SerialInv => SentOnce
  BY DEF SerialInv
<1> QED BY <1>1, SerialHolds, PTL

\* With one request at a time and no crash what was sent stays recorded as it was
\* (conversation-draft.service.ts:101, 164, 259).
THEOREM SerialSentIsFinal == ASSUME Serial PROVE Spec => SentIsFinal
<1>1. IInv /\ SerialInv /\ [Next]_vars
        => [\A d \in Drafts : HasStatus(d, {"approved", "edited"}) => drafts'[d] = drafts[d]]_vars
  BY NextSerial
<1> QED BY <1>1, SerialHolds, IInvHolds, PTL DEF Spec, SentIsFinal

-----------------------------------------------------------------------------
(* One request at a time and no crash: the review of drafts                  *)

\* What an approval is about to send is still open to it: nobody else can have
\* rejected it.
ApprovedIsOpen ==
  \A q \in Requests :
    reqs[q].op \in {"approve", "sent"} => HasStatus(reqs[q].draft, {"pending", "failed"})

\* Drafts that are there stay as they are while a request begins or the worker works.
LEMMA OpenStays ==
  ASSUME IInv, ApprovedIsOpen, \A d \in Drafts : IsDraft(d) => drafts'[d] = drafts[d],
         \A q \in Requests :
           \/ reqs'[q] = reqs[q]
           \/ reqs'[q].op \notin {"approve", "sent"}
           \/ HasStatus(reqs'[q].draft, {"pending", "failed"}) /\ reqs'[q].draft \in Drafts
  PROVE  ApprovedIsOpen'
<1>1. \A q \in Requests : reqs[q].op \in {"approve", "sent"} => reqs[q].draft \in Drafts
  BY DEF IInv, TypeOK, Request
<1>2. \A d \in Drafts : HasStatus(d, {"pending", "failed"}) => HasStatus(d, {"pending", "failed"})'
  BY DEF HasStatus, IsDraft
<1>3. ASSUME NEW q \in Requests, reqs'[q].op \in {"approve", "sent"}
      PROVE  /\ drafts'[reqs'[q].draft] # NoDraft
             /\ drafts'[reqs'[q].draft].status \in {"pending", "failed"}
  <2>1. reqs'[q].draft \in Drafts /\ HasStatus(reqs'[q].draft, {"pending", "failed"})
    BY <1>1, <1>3 DEF ApprovedIsOpen
  <2>2. PICK d \in Drafts : d = reqs'[q].draft
    BY <2>1
  <2>3. HasStatus(d, {"pending", "failed"})'
    BY <1>2, <2>1, <2>2
  <2> QED BY <2>2, <2>3 DEF HasStatus, IsDraft
<1> QED BY <1>3 DEF ApprovedIsOpen, HasStatus, IsDraft

\* The worker and the pipeline write only drafts that were not there.
LEMMA WorkerWrites ==
  ASSUME IInv, NEW j \in Jobs, WorkerStep(j)
  PROVE  /\ UNCHANGED <<reqs, sent>>
         /\ \/ UNCHANGED drafts
            \/ \E d \in Drafts, m \in Messages :
                 Written(d, m, "failed") \/ (Written(d, m, "pending") /\ ~PendingFor(m))
<1>1. CASE UNCHANGED drafts /\ UNCHANGED <<reqs, sent>>
  BY <1>1
<1>2. ASSUME NEW d \in Drafts, StoreDraft(j, d)
      PROVE  Written(d, jobs[j].data, "pending") /\ jobs[j].data \in Messages
             /\ ~PendingFor(jobs[j].data) /\ UNCHANGED <<reqs, sent>>
  <2>1. IsJob(j) /\ jobs[j] \in Job
    BY <1>2 DEF StoreDraft, Active, InState, IsJob, IInv, QInv, QueueTypeOK
  <2>2. jobs[j].data \in Messages
    BY <2>1, DraftAssumption DEF Job
  <2> QED BY <1>2, <2>2 DEF StoreDraft, IInv, GeneratingFree
<1>3. ASSUME NEW d \in Drafts, WriteFailed(j, d)
      PROVE  Written(d, jobs[j].data, "failed") /\ jobs[j].data \in Messages
             /\ UNCHANGED <<reqs, sent>>
  <2>1. IsJob(j) /\ jobs[j] \in Job
    BY <1>3 DEF WriteFailed, IsJob, IInv, QInv, QueueTypeOK, WritesKnown
  <2>2. jobs[j].data \in Messages
    BY <2>1, DraftAssumption DEF Job
  <2> QED BY <1>3, <2>2 DEF WriteFailed
<1>4. CASE StartJob(j) \/ SkipJob(j) \/ CheckDraft(j) \/ FinishJob(j) \/ FailJob(j)
           \/ Retry(j) \/ Bury(j)
  BY <1>1, <1>4 DEF StartJob, SkipJob, CheckDraft, FinishJob, FailJob, Retry, Bury, draftVars
<1> QED BY <1>2, <1>3, <1>4 DEF WorkerStep

LEMMA NextOpen ==
  ASSUME Serial, IInv, SerialInv, ApprovedIsOpen, [Next]_vars
  PROVE  ApprovedIsOpen'
<1>1. ~Crash
  BY DEF Serial, Crash, IInv, TypeOK
<1>2. CASE MessageNext \/ UNCHANGED vars
  <2>1. UNCHANGED <<drafts, reqs>>
    BY <1>2 DEF MessageNext, Receive, ReceiveUnqueued, vars, queueVars, draftVars
  <2> QED BY <2>1, OpenStays
<1>3. ASSUME NEW j \in Jobs, WorkerStep(j) PROVE ApprovedIsOpen'
  <2>1. UNCHANGED reqs
    BY <1>3, WorkerWrites
  <2>2. \A d \in Drafts : IsDraft(d) => drafts'[d] = drafts[d]
    BY <1>3, WorkerWrites DEF Written, IsDraft, IInv, TypeOK
  <2> QED BY <2>1, <2>2, OpenStays
<1>4. ASSUME NEW q \in Requests, RequestStep(q) PROVE ApprovedIsOpen'
  <2>1. \A p \in Requests : p = q
    BY DEF Serial
  <2>2. reqs \in [Requests -> Request]
    BY DEF IInv, TypeOK
  <2>3. CASE SendEmail(q)
    <3>1. reqs'[q].draft = reqs[q].draft /\ UNCHANGED drafts /\ reqs[q].op = "approve"
      BY <2>2, <2>3 DEF SendEmail, Request
    <3> QED BY <2>1, <3>1 DEF ApprovedIsOpen, HasStatus, IsDraft
  <2>4. CASE CommitApprove(q) \/ CommitReject(q)
    <3>1. reqs'[q].op \in {"idle", "requeue"}
      BY <2>2, <2>4 DEF CommitApprove, CommitReject, Idle
    <3> QED BY <2>1, <3>1 DEF ApprovedIsOpen
  <2>5. ASSUME NEW d \in Drafts, NEW edited \in BOOLEAN, BeginApprove(q, d, edited)
        PROVE  ApprovedIsOpen'
    <3>1. reqs'[q].draft = d /\ UNCHANGED drafts /\ HasStatus(d, {"pending", "failed"})
      BY <2>2, <2>5 DEF BeginApprove
    <3> QED BY <2>1, <3>1, OpenStays
  <2>6. ASSUME NEW d \in Drafts, BeginReject(q, d) \/ BeginRegenerate(q, d)
        PROVE  ApprovedIsOpen'
    <3>1. reqs'[q].op \in {"reject", "regenerate"}
      BY <2>2, <2>6 DEF BeginReject, BeginRegenerate
    <3> QED BY <2>1, <3>1 DEF ApprovedIsOpen
  <2>7. CASE Abort(q) \/ BeginGenerate(q) \/ \E j \in Jobs : Requeue(q, j) \/ EnqueueGenerate(q, j)
    <3>1. reqs'[q].op \in {"idle", "generate"}
      BY <2>2, <2>7 DEF Abort, BeginGenerate, Requeue, EnqueueGenerate, Idle
    <3> QED BY <2>1, <3>1 DEF ApprovedIsOpen
  <2> QED BY <1>4, <2>3, <2>4, <2>5, <2>6, <2>7 DEF RequestStep
<1> QED BY <1>1, <1>2, <1>3, <1>4 DEF Next

-----------------------------------------------------------------------------
(* The step of the review that a step of the workflow is                     *)

\* What the review shows of a draft follows from its row and its e-mails.
LEMMA ReviewStays ==
  ASSUME NEW d \in Drafts, drafts'[d] = drafts[d], sent'[d] = sent[d]
  PROVE  reviewBar'[d] = reviewBar[d]
BY DEF reviewBar, ReviewOf, StateOf, HasStatus, IsDraft

LEMMA ReviewChanges ==
  ASSUME NEW d \in Drafts, NEW r, reviewBar'[d] = r,
         \A c \in Drafts : c # d => drafts'[c] = drafts[c] /\ sent'[c] = sent[c]
  PROVE  reviewBar' = [reviewBar EXCEPT ![d] = r]
<1>1. \A c \in Drafts : c # d => reviewBar'[c] = reviewBar[c]
  BY ReviewStays
<1> QED BY <1>1 DEF reviewBar

LEMMA ReviewSame ==
  ASSUME UNCHANGED <<drafts, sent>>
  PROVE  UNCHANGED reviewBar
BY DEF reviewBar, ReviewOf, StateOf, HasStatus, IsDraft

\* What the review shows of a draft in each of its states.
LEMMA ReviewShows ==
  ASSUME IInv, SerialInv, NEW d \in Drafts, IsDraft(d)
  PROVE  /\ drafts[d] \in Draft /\ sent[d] \in {0, 1}
         /\ reviewBar[d] # NoDraft /\ reviewBar[d].msg = drafts[d].msg
         /\ sent[d] = 0 => reviewBar[d].state = drafts[d].status
         /\ sent[d] = 1 /\ drafts[d].status \in {"pending", "failed", "rejected"}
              => reviewBar[d].state = "sent"
<1>1. drafts[d] \in Draft /\ sent[d] \in {0, 1}
  BY DEF IInv, TypeOK, IsDraft, SerialInv, SentOnce
<1>2. reviewBar[d] = [msg |-> drafts[d].msg, state |-> StateOf(d)]
  BY DEF reviewBar, ReviewOf
<1>3. /\ sent[d] = 0 => StateOf(d) = drafts[d].status
      /\ sent[d] = 1 /\ drafts[d].status \in {"pending", "failed", "rejected"} => StateOf(d) = "sent"
  <2>1. ~(sent[d] > 1)
    BY <1>1
  <2>2. CASE sent[d] = 0
    BY <2>1, <2>2 DEF StateOf
  <2>3. CASE sent[d] = 1
    BY <2>1, <2>3 DEF StateOf, HasStatus
  <2> QED BY <1>1, <2>2, <2>3
<1>4. StateOf(d) \in Reviewed!ReviewState
  BY <1>1 DEF StateOf, HasStatus, IsDraft, Draft, DraftStatus, Reviewed!ReviewState
<1>5. reviewBar[d] \in Reviewed!Review
  BY <1>1, <1>2, <1>4 DEF Reviewed!Review, Draft
<1>6. reviewBar[d] # NoDraft
  BY <1>5, ReviewAssumption
<1> QED BY <1>1, <1>2, <1>3, <1>6

\* A draft the worker or the failed handler writes is offered or failed.
LEMMA WrittenRefines ==
  ASSUME IInv, SerialInv, UNCHANGED sent, NEW d \in Drafts, NEW m \in Messages,
         Written(d, m, "failed") \/ (Written(d, m, "pending") /\ ~PendingFor(m))
  PROVE  Reviewed!Next
<1>1. PICK s : s \in {"failed", "pending"} /\ Written(d, m, s) /\ (s = "pending" => ~PendingFor(m))
  OBVIOUS
<1>2. /\ drafts[d] = NoDraft /\ drafts'[d] = [msg |-> m, status |-> s, empty |-> s = "failed"]
      /\ \A c \in Drafts : c # d => drafts'[c] = drafts[c]
  BY <1>1 DEF Written, IInv, TypeOK
<1>3. sent[d] = 0
  <2>1. sent[d] \in Nat
    BY DEF IInv, TypeOK
  <2>2. ~(sent[d] > 0)
    BY <1>2 DEF SerialInv, SentIsRecorded, HasStatus, IsDraft, BoundUnrecorded
  <2> QED BY <2>1, <2>2
<1>4. reviewBar[d] = NoDraft
  BY <1>2 DEF reviewBar, IsDraft
<1>5. reviewBar'[d] = [msg |-> m, state |-> s]
  <2>1. IsDraft(d)'
    <3>1. drafts'[d] \in Draft
      BY <1>1, <1>2 DEF Draft, DraftStatus
    <3> QED BY <3>1, DraftAssumption DEF IsDraft
  <2>2. StateOf(d)' = s
    BY <1>2, <1>3 DEF StateOf
  <2> QED BY <1>2, <2>1, <2>2 DEF reviewBar, ReviewOf
<1>6. reviewBar' = [reviewBar EXCEPT ![d] = [msg |-> m, state |-> s]]
  BY <1>2, <1>5, ReviewChanges
<1>7. ASSUME s = "pending", NEW c \in Drafts, Reviewed!Stands(c, {"pending"})
      PROVE  reviewBar[c].msg # m
  <2>1. IsDraft(c)
    BY <1>7 DEF Reviewed!Stands, reviewBar
  <2>2. drafts[c].status = "pending" /\ reviewBar[c].msg = drafts[c].msg
    <3>1. drafts[c].status \in DraftStatus
      BY <2>1, ReviewShows DEF Draft
    <3> QED BY <1>7, <2>1, ReviewShows DEF Reviewed!Stands, reviewBar, ReviewOf, StateOf
  <2> QED BY <1>1, <1>7, <2>1, <2>2 DEF PendingFor, HasStatus
<1>8. Reviewed!Write(d, m, s)
  BY <1>4, <1>6 DEF Reviewed!Write
<1> QED BY <1>1, <1>7, <1>8 DEF Reviewed!Next, Reviewed!Offer, Reviewed!Fail

\* One draft changes its state.
LEMMA TurnRefines ==
  ASSUME NEW d \in Drafts, NEW s, NEW m, reviewBar[d] # NoDraft, reviewBar[d].msg = m,
         reviewBar'[d] = [msg |-> m, state |-> s],
         \A c \in Drafts : c # d => drafts'[c] = drafts[c] /\ sent'[c] = sent[c],
         NEW from, reviewBar[d].state \in from
  PROVE  Reviewed!Turn(d, from, s)
BY ReviewChanges DEF Reviewed!Turn, Reviewed!Stands

\* The e-mail leaves: the draft is sent.
LEMMA SendRefines ==
  ASSUME Serial, IInv, SerialInv, ApprovedIsOpen, NEW q \in Requests, SendEmail(q)
  PROVE  Reviewed!Next
<1>1. PICK d \in Drafts : d = reqs[q].draft
  BY DEF SendEmail, IInv, TypeOK, Request
<1>2. /\ HasStatus(d, {"pending", "failed"}) /\ UNCHANGED drafts /\ reqs[q].op = "approve"
      /\ sent' = [sent EXCEPT ![d] = @ + 1] /\ sent \in [Drafts -> Nat]
      /\ \A p \in Requests : p = q
  BY <1>1 DEF SendEmail, ApprovedIsOpen, IInv, TypeOK, Serial
<1>3. sent[d] = 0
  BY <1>1, <1>2 DEF SerialInv, SentIsRecorded, HasStatus
<1>4. IsDraft(d) /\ drafts[d].status \in {"pending", "failed"}
  BY <1>2 DEF HasStatus
<1>5. /\ reviewBar[d] # NoDraft /\ reviewBar[d].msg = drafts[d].msg
      /\ reviewBar[d].state \in {"pending", "failed"}
  BY <1>3, <1>4, ReviewShows
<1>6. reviewBar'[d] = [msg |-> drafts[d].msg, state |-> "sent"]
  <2>1. sent'[d] = 1
    BY <1>2, <1>3
  <2>2. StateOf(d)' = "sent"
    BY <1>2, <1>4, <2>1 DEF StateOf, HasStatus, IsDraft
  <2> QED BY <1>2, <1>4, <2>2 DEF reviewBar, ReviewOf, IsDraft
<1>7. Reviewed!Turn(d, {"pending", "failed"}, "sent")
  BY <1>2, <1>5, <1>6, TurnRefines
<1> QED BY <1>7 DEF Reviewed!Next, Reviewed!Send

\* The transaction after it: the draft is recorded.
LEMMA RecordRefines ==
  ASSUME Serial, IInv, SerialInv, ApprovedIsOpen, NEW q \in Requests, CommitApprove(q)
  PROVE  Reviewed!Next
<1>1. PICK d \in Drafts : d = reqs[q].draft
  BY DEF CommitApprove, IInv, TypeOK, Request
<1>2. /\ HasStatus(d, {"pending", "failed"}) /\ UNCHANGED sent /\ reqs[q].op = "sent"
      /\ sent[d] = 1
  <2>1. sent[d] \in Nat /\ sent[d] > 0 /\ sent[d] <= 1
    BY <1>1 DEF CommitApprove, IInv, TypeOK, SentReqs, SerialInv, SentOnce
  <2>2. sent[d] = 1
    BY <2>1
  <2> QED BY <1>1, <2>2 DEF CommitApprove, ApprovedIsOpen
<1>3. PICK s \in {"approved", "edited"} : s = IF reqs[q].edited THEN "edited" ELSE "approved"
  OBVIOUS
<1>4. IsDraft(d) /\ drafts[d].status \in {"pending", "failed"} /\ drafts[d] \in Draft
  BY <1>2 DEF HasStatus, IsDraft, IInv, TypeOK
<1>5. /\ drafts'[d].status = s /\ drafts'[d].msg = drafts[d].msg /\ drafts'[d] \in Draft
      /\ \A c \in Drafts : c # d => drafts'[c] = drafts[c]
  BY <1>1, <1>3, <1>4 DEF CommitApprove, IInv, TypeOK, Draft, DraftStatus
<1>6. /\ reviewBar[d] # NoDraft /\ reviewBar[d].msg = drafts[d].msg /\ reviewBar[d].state = "sent"
  BY <1>2, <1>4, ReviewShows
<1>7. reviewBar'[d] = [msg |-> drafts[d].msg, state |-> s]
  <2>1. IsDraft(d)'
    BY <1>5, DraftAssumption DEF IsDraft
  <2>2. StateOf(d)' = s
    BY <1>2, <1>3, <1>5 DEF StateOf, HasStatus
  <2> QED BY <1>5, <2>1, <2>2 DEF reviewBar, ReviewOf
<1>8. Reviewed!Turn(d, {"sent"}, s)
  BY <1>2, <1>5, <1>6, <1>7, TurnRefines
<1> QED BY <1>3, <1>8 DEF Reviewed!Next, Reviewed!Record

\* A rejection, or one that a regeneration begins with.
LEMMA RejectRefines ==
  ASSUME Serial, IInv, SerialInv, NEW q \in Requests, CommitReject(q)
  PROVE  Reviewed!Next \/ UNCHANGED reviewBar
<1>1. PICK d \in Drafts : d = reqs[q].draft
  BY DEF CommitReject, IInv, TypeOK, Request
<1>2. /\ HasStatus(d, {"pending", "rejected", "failed"}) /\ UNCHANGED sent
      /\ reqs[q].op \in {"reject", "regenerate"} /\ \A p \in Requests : p = q
  BY <1>1 DEF CommitReject, SerialInv, BoundUnrecorded, Serial
<1>3. sent[d] = 0
  <2>1. sent[d] \in Nat /\ ~(sent[d] > 0)
    BY <1>2 DEF IInv, TypeOK, SerialInv, SentIsRecorded, HasStatus
  <2> QED BY <2>1
<1>4. IsDraft(d) /\ drafts[d].status \in {"pending", "failed", "rejected"} /\ drafts[d] \in Draft
  BY <1>2 DEF HasStatus, IsDraft, IInv, TypeOK
<1>5. /\ drafts'[d].status = "rejected" /\ drafts'[d].msg = drafts[d].msg /\ drafts'[d] \in Draft
      /\ \A c \in Drafts : c # d => drafts'[c] = drafts[c]
  <2>1. drafts' = [drafts EXCEPT ![d] = [drafts[d] EXCEPT !.status = "rejected"]]
    BY <1>1 DEF CommitReject, IInv, TypeOK
  <2> QED BY <1>4, <2>1 DEF IInv, TypeOK, Draft, DraftStatus
<1>6. /\ reviewBar[d] # NoDraft /\ reviewBar[d].msg = drafts[d].msg
      /\ reviewBar[d].state = drafts[d].status
  BY <1>3, <1>4, ReviewShows
<1>7. reviewBar'[d] = [msg |-> drafts[d].msg, state |-> "rejected"]
  <2>1. IsDraft(d)'
    BY <1>5, DraftAssumption DEF IsDraft
  <2>2. StateOf(d)' = "rejected"
    BY <1>2, <1>3, <1>5 DEF StateOf
  <2> QED BY <1>5, <2>1, <2>2 DEF reviewBar, ReviewOf
<1>8. CASE drafts[d].status = "rejected"
  <2>1. reviewBar'[d] = reviewBar[d]
    <3>1. StateOf(d) = "rejected"
      BY <1>3, <1>8 DEF StateOf
    <3> QED BY <1>4, <1>7, <3>1 DEF reviewBar, ReviewOf
  <2>2. \A c \in Drafts : reviewBar'[c] = reviewBar[c]
    BY <1>2, <1>5, <2>1, ReviewStays
  <2> QED BY <2>2 DEF reviewBar
<1>9. CASE drafts[d].status \in {"pending", "failed"}
  <2>1. Reviewed!Turn(d, {"pending", "failed"}, "rejected")
    BY <1>2, <1>5, <1>6, <1>7, <1>9, TurnRefines
  <2> QED BY <2>1 DEF Reviewed!Next, Reviewed!Reject
<1> QED BY <1>4, <1>8, <1>9

LEMMA StepRefines ==
  ASSUME Serial, IInv, SerialInv, ApprovedIsOpen, [Next]_vars
  PROVE  [Reviewed!Next]_reviewBar
<1>1. ~Crash
  BY DEF Serial, Crash, IInv, TypeOK
<1>2. CASE MessageNext \/ UNCHANGED vars
  <2>1. UNCHANGED <<drafts, sent>>
    BY <1>2 DEF MessageNext, Receive, ReceiveUnqueued, vars, queueVars, draftVars
  <2> QED BY <2>1, ReviewSame
<1>3. ASSUME NEW j \in Jobs, WorkerStep(j) PROVE [Reviewed!Next]_reviewBar
  <2>1. CASE UNCHANGED drafts
    BY <1>3, <2>1, WorkerWrites, ReviewSame
  <2>2. CASE ~UNCHANGED drafts
    <3>1. UNCHANGED sent
      BY <1>3, WorkerWrites
    <3>2. PICK d \in Drafts, m \in Messages :
            Written(d, m, "failed") \/ (Written(d, m, "pending") /\ ~PendingFor(m))
      BY <1>3, <2>2, WorkerWrites
    <3> QED BY <3>1, <3>2, WrittenRefines
  <2> QED BY <2>1, <2>2
<1>4. ASSUME NEW q \in Requests, RequestStep(q) PROVE [Reviewed!Next]_reviewBar
  <2>1. CASE SendEmail(q) \/ CommitApprove(q) \/ CommitReject(q)
    BY <2>1, SendRefines, RecordRefines, RejectRefines
  <2>2. CASE ~(SendEmail(q) \/ CommitApprove(q) \/ CommitReject(q))
    <3>1. UNCHANGED <<drafts, sent>>
      BY <1>4, <2>2 DEF RequestStep, BeginApprove, BeginReject, BeginRegenerate, Abort,
         BeginGenerate, Requeue, EnqueueGenerate
    <3> QED BY <3>1, ReviewSame
  <2> QED BY <2>1, <2>2
<1> QED BY <1>1, <1>2, <1>3, <1>4 DEF Next

\* With one request at a time and no crash the drafts, the worker's and the
\* operator's, keep to the review: offered one at a time, sent at most once and only
\* if not rejected, recorded as they were sent (conversation-draft.service.ts:41-295,
\* ai-draft.job.ts:30-92).
THEOREM SerialImplementsReview == ASSUME Serial PROVE Spec => ImplementsReview
<1>1. Init => Reviewed!Init /\ ApprovedIsOpen
  BY DEF Init, Reviewed!Init, reviewBar, IsDraft, ApprovedIsOpen, Idle
<1>2. IInv /\ SerialInv /\ ApprovedIsOpen /\ [Next]_vars => ApprovedIsOpen'
  BY NextOpen
<1>3. IInv /\ SerialInv /\ ApprovedIsOpen /\ [Next]_vars => [Reviewed!Next]_reviewBar
  BY StepRefines
<1> QED BY <1>1, <1>2, <1>3, SerialHolds, IInvHolds, PTL DEF Spec, ImplementsReview, Reviewed!Spec
=============================================================================
