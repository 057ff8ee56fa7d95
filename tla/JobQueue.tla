------------------------------ MODULE JobQueue ------------------------------
(***************************************************************************)
(* One BullMQ queue of the backend and its worker, as plugins/queue.ts and *)
(* services/queue/{queue,worker}.ts set them up: FIFO delivery, one job at *)
(* a time (concurrency 1), a bounded number of attempts with a backoff     *)
(* between them, and a dead-letter queue filled by the 'failed' listener.  *)
(* The queue lives in Redis and survives the process; the listener's work  *)
(* is in memory and does not.  Redis and BullMQ themselves are external.   *)
(*                                                                         *)
(* Modules that process a queue EXTEND this one and conjoin its steps with *)
(* what their processor does.                                              *)
(***************************************************************************)
EXTENDS Naturals, Sequences

CONSTANTS
  Jobs,       \* ids the queue may give to jobs
  Payloads,   \* what a job may carry
  Attempts,   \* defaultJobOptions.attempts of the queue
  NoJob       \* an id not given out yet

VARIABLES
  jobs,       \* the jobs in Redis
  waiting,    \* the wait list, in order
  moving,     \* exhausted jobs whose moveToDLQ has not finished (in memory)
  deadLetters \* jobs copied to the dead-letter queue, each with its audit row

queueVars == <<jobs, waiting, moving, deadLetters>>

JobState == {"waiting", "active", "delayed", "completed", "failed"}
Job == [data : Payloads, made : 0..Attempts, state : JobState]

ASSUME QueueAssumption == Attempts \in Nat \ {0} /\ NoJob \notin Job

IsJob(j) == jobs[j] # NoJob
InState(j, s) == IsJob(j) /\ jobs[j].state = s
Active(j) == InState(j, "active")

QueueTypeOK ==
  /\ jobs \in [Jobs -> Job \cup {NoJob}]
  /\ waiting \in Seq(Jobs)
  /\ moving \subseteq Jobs
  /\ deadLetters \subseteq Jobs

QueueInit ==
  /\ jobs = [j \in Jobs |-> NoJob]
  /\ waiting = <<>>
  /\ moving = {}
  /\ deadLetters = {}

\* queue.add
Add(j, data) ==
  /\ jobs[j] = NoJob
  /\ jobs' = [jobs EXCEPT ![j] = [data |-> data, made |-> 0, state |-> "waiting"]]
  /\ waiting' = Append(waiting, j)
  /\ UNCHANGED <<moving, deadLetters>>

\* The worker takes the oldest waiting job when it has none.
Take(j) ==
  /\ \A k \in Jobs : ~Active(k)
  /\ waiting # <<>>
  /\ j = Head(waiting)
  /\ waiting' = Tail(waiting)
  /\ jobs' = [jobs EXCEPT ![j].state = "active"]
  /\ UNCHANGED <<moving, deadLetters>>

\* The processor's promise resolves.
Complete(j) ==
  /\ Active(j)
  /\ jobs' = [jobs EXCEPT ![j].state = "completed"]
  /\ UNCHANGED <<waiting, moving, deadLetters>>

\* Mutant: the last attempt but one already counts as the last.
Exhausted_TooEarly(made) == made + 1 >= Attempts

\* Mutant: no attempt ever counts as the last.
Exhausted_Never(made) == made > Attempts

Exhausted(made) == made >= Attempts

\* The processor throws: retry after a backoff, or fail for good; the
\* 'failed' listener of createWorker starts moveToDLQ after the last attempt.
Fail(j) ==
  LET made == jobs[j].made + 1 IN
  /\ Active(j)
  /\ jobs' = [jobs EXCEPT ![j].made = made,
                          ![j].state = IF made < Attempts THEN "delayed" ELSE "failed"]
  /\ moving' = IF Exhausted(made) THEN moving \cup {j} ELSE moving
  /\ UNCHANGED <<waiting, deadLetters>>

\* The backoff is over.
Promote(j) ==
  /\ InState(j, "delayed")
  /\ jobs' = [jobs EXCEPT ![j].state = "waiting"]
  /\ waiting' = Append(waiting, j)
  /\ UNCHANGED <<moving, deadLetters>>

moveToDLQ(j) ==
  /\ j \in moving
  /\ moving' = moving \ {j}
  /\ deadLetters' = deadLetters \cup {j}
  /\ UNCHANGED <<jobs, waiting>>

\* The process dies and starts again: the job it was working on is found
\* stalled and goes back to the head of the list, a listener's work is lost.
Restart ==
  /\ jobs' = [j \in Jobs |-> IF Active(j) THEN [jobs[j] EXCEPT !.state = "waiting"]
                                          ELSE jobs[j]]
  /\ waiting' = IF \E j \in Jobs : Active(j)
                THEN <<CHOOSE j \in Jobs : Active(j)>> \o waiting
                ELSE waiting
  /\ moving' = {}
  /\ UNCHANGED deadLetters

-----------------------------------------------------------------------------
(* What a queue promises                                                     *)

\* The worker has at most one job.
OneActive == \A j, k \in Jobs : Active(j) /\ Active(k) => j = k

\* The wait list holds the waiting jobs, each once.
WaitListConsistent ==
  /\ \A i \in 1..Len(waiting) : InState(waiting[i], "waiting")
  /\ \A i, k \in 1..Len(waiting) : waiting[i] = waiting[k] => i = k

\* A job that may still run has an attempt left.
AttemptsLeft ==
  \A j \in Jobs : IsJob(j) /\ jobs[j].state \in {"waiting", "active", "delayed"}
                    => jobs[j].made < Attempts

\* A job is retried until it has had all its attempts and only such a job,
\* which will never run again, is declared dead.
DeadLettersExhausted ==
  \A j \in moving \cup deadLetters :
    InState(j, "failed") /\ jobs[j].made = Attempts

\* Together, and inductive whatever the processor does.
QInv == QueueTypeOK /\ OneActive /\ WaitListConsistent
          /\ AttemptsLeft /\ DeadLettersExhausted
=============================================================================
