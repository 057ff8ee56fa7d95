----------------------------- MODULE MailLedger ------------------------------
(***************************************************************************)
(* What taking in the e-mails of a mailbox promises: each is passed after   *)
(* the ones before it, and not before it is kept or found to be too old or  *)
(* a copy of one that is kept.  An e-mail is kept once, in the conversation *)
(* of the first e-mail it answers that was kept before; its jobs are queued *)
(* before it is passed.  Only an error excuses from this, and only one that *)
(* came before the e-mail was passed.                                       *)
(*                                                                         *)
(* The place in the mailbox may be lost.  Then e-mails that were passed are *)
(* taken again, and what has no id is kept once more; but what was left out *)
(* is no more than an error left out.                                       *)
(***************************************************************************)
EXTENDS Naturals, Sequences, FiniteSetsExt

CONSTANTS
  Mails,   \* what may arrive: id, the ids it answers
  NoId,    \* the id of an e-mail without one
  TooOld,  \* the ones that are not wanted
  Jobs     \* the jobs each gives rise to

VARIABLES
  arrived,  \* the mailbox; the UID of an e-mail is its place
  passed,   \* the UID of the last e-mail that is done with
  kept,     \* the e-mails kept, in that order, each in a conversation
  convs,    \* how many conversations there are
  queued,   \* the jobs of each e-mail kept
  failed,   \* UIDs an error came upon, or a first look at the mailbox left out
  again     \* UIDs that were passed when the place was lost

ledger == <<arrived, passed, kept, convs, queued, failed, again>>

Init ==
  /\ arrived = <<>> /\ kept = <<>>
  /\ passed = 0 /\ convs = 0
  /\ queued = {} /\ failed = {} /\ again = {}

Ahead == (passed + 1)..Len(arrived)
ToDo == Ahead \cup again

KeptAs(id) == {i \in DOMAIN kept : arrived[kept[i].uid].id = id}
IsKept(u) == \E i \in DOMAIN kept : kept[i].uid = u
IsKnown(u) == arrived[u].id # NoId /\ KeptAs(arrived[u].id) # {}

\* The places of the ids it answers that are kept.
Answers(u) == {j \in DOMAIN arrived[u].refs : KeptAs(arrived[u].refs[j]) # {}}

\* Wanted, and not kept yet: what has no id may be kept again after an error.
Due(u) ==
  /\ u \in ToDo
  /\ arrived[u] \notin TooOld
  /\ ~IsKnown(u)
  /\ IsKept(u) => u \in failed \cup again

Belongs(u, c) ==
  IF Answers(u) = {}
  THEN \A i \in DOMAIN kept : kept[i].conv # c
  ELSE \E i \in KeptAs(arrived[u].refs[Min(Answers(u))]) : kept[i].conv = c

Settled(u) ==
  /\ arrived[u] \in TooOld \/ IsKnown(u) \/ IsKept(u)
  /\ \A i \in DOMAIN kept : kept[i].uid = u =>
       \A j \in Jobs[arrived[u]] : [message |-> i, queue |-> j] \in queued

Arrive(m) ==
  /\ arrived' = Append(arrived, m)
  /\ UNCHANGED <<passed, kept, convs, queued, failed, again>>

\* A conversation is opened for an e-mail that answers none; an error may leave
\* it empty.
Open(u) ==
  /\ Due(u) /\ Answers(u) = {}
  /\ convs' = convs + 1
  /\ UNCHANGED <<arrived, passed, kept, queued, failed, again>>

Keep(u, c) ==
  /\ Due(u) /\ Belongs(u, c)
  /\ kept' = Append(kept, [uid |-> u, conv |-> c])
  /\ UNCHANGED <<arrived, passed, convs, queued, failed, again>>

Enqueue(i, j) ==
  /\ kept[i].uid \in ToDo
  /\ queued' = queued \cup {[message |-> i, queue |-> j]}
  /\ UNCHANGED <<arrived, passed, kept, convs, failed, again>>

\* Errors come upon e-mails that are not done with, or the place is lost.
Fail(us, lost) ==
  /\ failed' = failed \cup us
  /\ again' = again \cup lost
  /\ UNCHANGED <<arrived, passed, kept, convs, queued>>

Pass(u) ==
  /\ \A v \in Ahead \cup {u} : v <= u => v \in failed \/ Settled(v)
  /\ passed' = u
  /\ UNCHANGED <<arrived, kept, convs, queued, failed, again>>

Next ==
  \/ \E m \in Mails : Arrive(m)
  \/ \E us \in SUBSET ToDo, lost \in SUBSET (1..passed) : Fail(us, lost)
  \/ \E u \in ToDo :
       \/ Open(u) \/ Pass(u)
       \/ \E c \in 1..convs : Keep(u, c)
  \/ \E i \in DOMAIN kept : \E j \in Jobs[arrived[kept[i].uid]] : Enqueue(i, j)

Spec == Init /\ [][Next]_ledger
==============================================================================
