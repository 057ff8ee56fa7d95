--------------------------- MODULE JobQueueProofs ---------------------------
(* What every step of JobQueue preserves, whatever the processor does.       *)
EXTENDS JobQueue, SequenceTheorems, TLAPS

\* An empty queue is consistent.
LEMMA QInvInit == QueueInit => QInv
  BY QueueAssumption DEF QueueInit, QInv, QueueTypeOK, OneActive, WaitListConsistent,
     AttemptsLeft, DeadLettersExhausted, Active, InState, IsJob

\* Adding a job puts a new one, once, at the end of the wait list.
LEMMA QInvAdd ==
  ASSUME QInv, NEW j \in Jobs, NEW p \in Payloads, Add(j, p) PROVE QInv'
<1> USE QueueAssumption DEF QInv, QueueTypeOK, Add, Job, JobState, IsJob, InState, Active
<1>1. QueueTypeOK'
  OBVIOUS
<1>2. OneActive'
  BY DEF OneActive
<1>3. WaitListConsistent'
  BY DEF WaitListConsistent
<1>4. DeadLettersExhausted'
  BY DEF DeadLettersExhausted
<1>5. AttemptsLeft'
  BY DEF AttemptsLeft
<1> QED BY <1>1, <1>2, <1>3, <1>4, <1>5

\* The worker takes a job only when it has none, and the job leaves the list.
LEMMA QInvTake == ASSUME QInv, NEW j \in Jobs, Take(j) PROVE QInv'
<1> USE QueueAssumption DEF QInv, QueueTypeOK, Take, Job, JobState, IsJob, InState, Active
<1>0. InState(waiting[1], "waiting") /\ waiting[1] = j /\ Len(waiting) \in Nat \ {0}
  BY DEF WaitListConsistent
<1>1. QueueTypeOK'
  <2>1. jobs[j] \in Job
    BY <1>0
  <2>2. jobs' \in [Jobs -> Job \cup {NoJob}]
    BY <2>1
  <2>3. waiting' \in Seq(Jobs)
    BY <1>0, HeadTailProperties
  <2> QED BY <2>2, <2>3
<1>2. OneActive'
  BY <1>0 DEF OneActive
<1>3. WaitListConsistent'
  <2>1. /\ Len(waiting') = Len(waiting) - 1
        /\ \A i \in 1..Len(waiting') : waiting'[i] = waiting[i + 1]
    BY <1>0
  <2>2. \A i \in 1..Len(waiting') : i + 1 \in 1..Len(waiting) /\ waiting[i + 1] # j
    BY <1>0, <2>1 DEF WaitListConsistent
  <2> QED BY <1>0, <2>1, <2>2 DEF WaitListConsistent
<1>4. DeadLettersExhausted'
  BY <1>0 DEF DeadLettersExhausted
<1>5. AttemptsLeft'
  BY <1>0 DEF AttemptsLeft
<1> QED BY <1>1, <1>2, <1>3, <1>4, <1>5

\* Completing the active job touches neither the list nor the dead letters.
LEMMA QInvComplete == ASSUME QInv, NEW j \in Jobs, Complete(j) PROVE QInv'
<1> USE QueueAssumption DEF QInv, QueueTypeOK, Complete, Job, JobState, IsJob, InState, Active
<1>1. QueueTypeOK'
  OBVIOUS
<1>2. OneActive'
  BY DEF OneActive
<1>3. WaitListConsistent'
  BY DEF WaitListConsistent
<1>4. DeadLettersExhausted'
  BY DEF DeadLettersExhausted
<1>5. AttemptsLeft'
  BY DEF AttemptsLeft
<1> QED BY <1>1, <1>2, <1>3, <1>4, <1>5

\* A failed attempt leaves a job that waits for its next one, or a dead one.
LEMMA QInvFail ==
  ASSUME QInv, NEW j \in Jobs, Fail(j) PROVE QInv'
<1> USE QueueAssumption DEF QInv, QueueTypeOK, Fail, Job, JobState, IsJob, InState, Active
<1>1. QueueTypeOK'
  BY DEF Exhausted, AttemptsLeft
<1>2. OneActive'
  BY DEF OneActive
<1>3. WaitListConsistent'
  BY DEF WaitListConsistent
<1>4. DeadLettersExhausted'
  BY DEF DeadLettersExhausted, Exhausted, AttemptsLeft
<1>5. AttemptsLeft'
  BY DEF AttemptsLeft
<1> QED BY <1>1, <1>2, <1>3, <1>4, <1>5

\* A retried job goes back to the end of the list.
LEMMA QInvPromote == ASSUME QInv, NEW j \in Jobs, Promote(j) PROVE QInv'
<1> USE QueueAssumption DEF QInv, QueueTypeOK, Promote, Job, JobState, IsJob, InState, Active
<1>1. QueueTypeOK'
  OBVIOUS
<1>2. OneActive'
  BY DEF OneActive
<1>3. WaitListConsistent'
  BY DEF WaitListConsistent
<1>4. DeadLettersExhausted'
  BY DEF DeadLettersExhausted
<1>5. AttemptsLeft'
  BY DEF AttemptsLeft
<1> QED BY <1>1, <1>2, <1>3, <1>4, <1>5

\* moveToDLQ only moves what the listener chose.
LEMMA QInvBury == ASSUME QInv, NEW j \in Jobs, moveToDLQ(j) PROVE QInv'
<1> USE DEF QInv, QueueTypeOK, moveToDLQ, IsJob, InState, Active
<1> QED BY DEF OneActive, WaitListConsistent, DeadLettersExhausted, AttemptsLeft

\* A restart puts the stalled job back at the head of the list.
LEMMA QInvRestart == ASSUME QInv, Restart PROVE QInv'
<1> USE QueueAssumption DEF QInv, QueueTypeOK, Job, JobState, IsJob, InState, Active
<1>1. CASE ~\E j \in Jobs : Active(j)
  <2>1. jobs' = jobs /\ waiting' = waiting /\ moving' = {} /\ deadLetters' = deadLetters
    BY <1>1 DEF Restart
  <2> QED BY <2>1 DEF OneActive, WaitListConsistent, DeadLettersExhausted, AttemptsLeft
<1>2. CASE \E j \in Jobs : Active(j)
  <2>1. PICK j \in Jobs : Active(j) /\ waiting' = <<j>> \o waiting
    <3>1. Active(CHOOSE j \in Jobs : Active(j)) /\ (CHOOSE j \in Jobs : Active(j)) \in Jobs
      BY <1>2
    <3> QED BY <1>2, <3>1 DEF Restart
  <2>2. \A k \in Jobs : Active(k) => k = j
    BY <2>1 DEF OneActive
  <2>3. \A k \in Jobs : jobs'[k] = IF Active(k) THEN [jobs[k] EXCEPT !.state = "waiting"]
                                                 ELSE jobs[k]
    BY DEF Restart
  <2>4. QueueTypeOK'
    <3>1. \A k \in Jobs : jobs'[k] \in Job \cup {NoJob}
      BY <2>3
    <3>2. jobs' \in [Jobs -> Job \cup {NoJob}]
      BY <3>1 DEF Restart
    <3>3. waiting' \in Seq(Jobs)
      BY <2>1
    <3> QED BY <3>2, <3>3 DEF Restart
  <2>5. OneActive'
    BY <2>3 DEF OneActive
  <2>6. WaitListConsistent'
    <3>1. /\ Len(waiting') = Len(waiting) + 1
          /\ waiting'[1] = j
          /\ \A i \in 2..Len(waiting') : waiting'[i] = waiting[i - 1]
      <4>1. waiting \in Seq(Jobs) /\ <<j>> \in Seq(Jobs) /\ Len(<<j>>) = 1 /\ <<j>>[1] = j
        OBVIOUS
      <4>2. /\ Len(<<j>> \o waiting) = 1 + Len(waiting)
            /\ \A i \in 1..(1 + Len(waiting)) :
                 (<<j>> \o waiting)[i] = IF i <= 1 THEN <<j>>[i] ELSE waiting[i - 1]
        BY <4>1, ConcatProperties
      <4>3. Len(waiting) \in Nat
        BY <4>1
      <4> HIDE DEF QInv
      <4> QED BY <2>1, <4>1, <4>2, <4>3
    <3>2. \A i \in 1..Len(waiting) :
             waiting[i] \in Jobs /\ waiting[i] # j /\ InState(waiting[i], "waiting")
      BY <2>1 DEF WaitListConsistent
    <3>3. Len(waiting) \in Nat
      OBVIOUS
    <3>4. \A i \in 1..Len(waiting') :
             i = 1 \/ (i # 1 /\ i \in 2..Len(waiting') /\ i - 1 \in 1..Len(waiting))
      BY <3>1, <3>3
    <3>5. \A k \in Jobs : k = j \/ InState(k, "waiting") => InState(k, "waiting")'
      <4>1. jobs[j] \in Job /\ jobs'[j] = [jobs[j] EXCEPT !.state = "waiting"]
        BY <2>1, <2>3
      <4>2. jobs'[j] \in Job /\ jobs'[j].state = "waiting"
        BY <4>1
      <4>3. \A k \in Jobs : InState(k, "waiting") => jobs'[k] = jobs[k]
        BY <2>3
      <4>4. InState(j, "waiting")'
        BY <4>2
      <4> QED BY <4>3, <4>4
    <3>6. \A i \in 1..Len(waiting') : InState(waiting[i], "waiting")'
      <4>1. TAKE i \in 1..Len(waiting')
      <4>2. waiting'[i] = j \/ \E k \in 1..Len(waiting) : waiting'[i] = waiting[k]
        BY ONLY <3>1, <3>4, <4>1
      <4>3. PICK k \in Jobs : waiting'[i] = k /\ (k = j \/ InState(k, "waiting"))
        <5> HIDE DEF InState
        <5> QED BY <3>2, <4>2
      <4>4. InState(k, "waiting")'
        BY ONLY <3>5, <4>3
      <4> QED BY ONLY <4>3, <4>4 DEF InState, IsJob
    <3>7. \A i, k \in 1..Len(waiting') : waiting'[i] = waiting'[k] => i = k
      <4>1. TAKE i \in 1..Len(waiting'), k \in 1..Len(waiting')
      <4>2. CASE i = 1 \/ k = 1
        BY <3>1, <3>2, <3>4, <4>2
      <4>3. CASE i # 1 /\ k # 1
        <5>1. waiting'[i] = waiting[i - 1] /\ waiting'[k] = waiting[k - 1]
          BY <3>1, <3>4, <4>3
        <5>2. i - 1 \in 1..Len(waiting) /\ k - 1 \in 1..Len(waiting)
          BY <3>4, <4>3
        <5>3. waiting[i - 1] = waiting[k - 1] => i - 1 = k - 1
          BY <5>2 DEF WaitListConsistent
        <5>4. i \in Int /\ k \in Int
          BY <3>1, <3>3
        <5> QED BY <5>1, <5>3, <5>4
      <4> QED BY <4>2, <4>3
    <3> QED BY <3>6, <3>7 DEF WaitListConsistent
  <2>7. DeadLettersExhausted'
    BY <2>3 DEF Restart, DeadLettersExhausted
  <2>8. AttemptsLeft'
    BY <2>3 DEF AttemptsLeft
  <2> QED BY <2>4, <2>5, <2>6, <2>7, <2>8
<1> QED BY <1>1, <1>2
=============================================================================
