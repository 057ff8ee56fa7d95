----------------------------- MODULE EmailIngest -----------------------------
(***************************************************************************)
(* The inbound e-mail pipeline: pollInbox (services/email/index.ts) fetches *)
(* what is newer than the last UID it stored, takes the e-mails one by one, *)
(* threads, stores and announces each, and stores its UID.  Nothing of this *)
(* is in a transaction: an error gives up the e-mail at hand and goes on    *)
(* with the next, a death of the process gives up the batch.  When the last *)
(* UID cannot be read the poll takes itself for the first one: it fetches   *)
(* what nobody has read yet, wherever that lies, and its place goes back.   *)
(*                                                                         *)
(* The mailbox, its UIDs and the queues are external.  There is one worker  *)
(* for the queue email-poll, with concurrency 1.                            *)
(***************************************************************************)
EXTENDS Naturals, Sequences, FiniteSetsExt

CONSTANTS
  Ids,         \* Message-IDs
  NoId,        \* an e-mail without one
  Incoming,    \* e-mails that may arrive, the same one more than once
  BatchSize,   \* MAX_FETCH_PER_POLL
  MaxUid,      \* bound on the e-mails that arrive
  MaxFaults,   \* bound on the errors
  MaxCrashes   \* bound on the deaths of the process

VARIABLES
  mailbox,     \* INBOX; the UID of an e-mail is its place
  lastUid,     \* the setting imap_last_uid, 0 if it was never stored
  messages,    \* the inbound messages, in the order they were stored
  convs,       \* how many conversations there are; they are numbered
  queued,      \* jobs added to the queues, each for a message
  batch,       \* UIDs the poll has yet to process, the lowest one at hand
  at,          \* how far it is with the one at hand
  thrown,      \* UIDs whose processing threw (history)
  cut,         \* UIDs that missed a fetch or a job, or met a crash (history)
  again,       \* UIDs below the last one that a poll went back to (history)
  faults, crashes

store == <<mailbox, lastUid, messages, convs, queued>>
mailVars == <<store, batch, at, thrown, cut, again, faults, crashes>>

\* What the classifier makes of it, or older than EMAIL_POLL_MIN_DATE.
Kind == {"inquiry", "ota", "viator", "other", "old"}
Queue == {"telegram", "viator", "draft"}
\* refs: the ids it answers, in the order they are looked up; none for a
\* forwarded e-mail.
Email == [id : Ids \cup {NoId}, refs : Seq(Ids), kind : Kind]

ASSUME EmailAssumption ==
  /\ NoId \notin Ids /\ Incoming \subseteq Email
  /\ BatchSize \in Nat \ {0}
  /\ MaxUid \in Nat /\ MaxFaults \in Nat /\ MaxCrashes \in Nat

UIDs == 1..MaxUid
Arrived == 1..Len(mailbox)
NotStarted == [step |-> "fetched"]

\* What the processing of an e-mail remembers: its conversation, the jobs it
\* has yet to enqueue.
Progress ==
  [step : {"fetched"}]
    \cup [step : {"threaded"}, conv : Nat]
    \cup [step : {"stored"}, todo : SUBSET Queue]

MailInit ==
  /\ mailbox = <<>>
  /\ lastUid = 0
  /\ messages = <<>>
  /\ convs = 0
  /\ queued = {}
  /\ batch = {}
  /\ at = NotStarted
  /\ thrown = {}
  /\ cut = {}
  /\ again = {}
  /\ faults = 0
  /\ crashes = 0

-----------------------------------------------------------------------------
\* The mail server.
Arrive(e) ==
  /\ Len(mailbox) < MaxUid
  /\ mailbox' = Append(mailbox, e)
  /\ UNCHANGED <<lastUid, messages, convs, queued, batch, at, thrown, cut, again, faults, crashes>>

-----------------------------------------------------------------------------
(* pollNewEmails                                                             *)

Newer(u) == {v \in Arrived : u < v}

\* Mutant: the newest e-mails are fetched first.
Oldest_Newest(found) == {v \in found : Cardinality({w \in found : v < w}) < BatchSize}

\* At most BatchSize of what the search finds.
Oldest(found) == {v \in found : Cardinality({w \in found : w < v}) < BatchSize}

\* An e-mail that cannot be fetched is left out of the batch.  It is not searched
\* for again once one beyond it is passed, nor is a newer one that was not found.
Fetch(found, errors) ==
  /\ found # {}
  /\ \E missed \in SUBSET Oldest(found) :
       /\ batch' = Oldest(found) \ missed
       /\ faults' = faults + errors + Cardinality(missed)
       /\ faults' <= MaxFaults
       /\ cut' = cut \cup {u \in Newer(lastUid) \ (found \ missed) : \E b \in batch' : u < b}
  /\ again' = again \cup {u \in 1..lastUid : \E b \in batch' : b <= u}

\* The search is for UID > lastUid.  In the first run, and whenever the setting
\* cannot be read, it is for what nobody has read in the mailbox.
Poll ==
  /\ batch = {}
  /\ \/ lastUid > 0 /\ Fetch(Newer(lastUid), 0)
     \/ \E unread \in SUBSET Arrived : Fetch(unread, IF lastUid = 0 THEN 0 ELSE 1)
  /\ at' = NotStarted
  /\ UNCHANGED <<store, thrown, crashes>>

-----------------------------------------------------------------------------
(* pollInbox, for the oldest e-mail of the batch                             *)

Uid == Min(batch)
Mail == mailbox[Uid]
IdOf(m) == mailbox[m.uid].id
WithId(id) == {i \in DOMAIN messages : IdOf(messages[i]) = id}
InStep(s) == batch # {} /\ at.step = s

\* upsertLastUid, and on with the next.
Advance ==
  /\ lastUid' = Uid
  /\ batch' = batch \ {Uid}
  /\ at' = NotStarted

\* Too old, or its Message-ID is stored already.
Unwanted == Mail.kind = "old" \/ (Mail.id # NoId /\ WithId(Mail.id) # {})

\* Mutant: the UID of a duplicate is not stored.
Skip_KeepsUid ==
  /\ InStep("fetched")
  /\ Unwanted
  /\ batch' = batch \ {Uid}
  /\ at' = NotStarted
  /\ UNCHANGED <<mailbox, lastUid, messages, convs, queued, thrown, cut, again, faults, crashes>>

Skip ==
  /\ InStep("fetched")
  /\ Unwanted
  /\ Advance
  /\ UNCHANGED <<mailbox, messages, convs, queued, thrown, cut, again, faults, crashes>>

\* The places of the answered ids that are stored.
Answered(refs) == {j \in DOMAIN refs : WithId(refs[j]) # {}}

\* findConversationByHeaders, the classification, and the update of the
\* conversation found or a new one.
Thread ==
  /\ InStep("fetched")
  /\ ~Unwanted
  /\ \/ /\ Answered(Mail.refs) = {}
        /\ convs' = convs + 1
        /\ at' = [step |-> "threaded", conv |-> convs + 1]
     \/ /\ Answered(Mail.refs) # {}
        /\ \E i \in WithId(Mail.refs[Min(Answered(Mail.refs))]) :
             at' = [step |-> "threaded", conv |-> messages[i].conv]
        /\ UNCHANGED convs
  /\ UNCHANGED <<mailbox, lastUid, messages, queued, batch, thrown, cut, again, faults, crashes>>

\* The jobs a stored e-mail gives rise to.
Wanted(e) ==
  CASE e.kind = "inquiry" -> {"telegram", "draft"}
    [] e.kind = "ota" -> {"telegram"}
    [] e.kind = "viator" -> {"telegram", "viator"}
    [] OTHER -> {}

\* Mutant: the UID is stored with the message, before the jobs are queued.
Store_PassesIt ==
  /\ InStep("threaded")
  /\ messages' = Append(messages, [uid |-> Uid, conv |-> at.conv])
  /\ lastUid' = Uid
  /\ at' = [step |-> "stored", todo |-> Wanted(Mail)]
  /\ UNCHANGED <<mailbox, convs, queued, batch, thrown, cut, again, faults, crashes>>

Store ==
  /\ InStep("threaded")
  /\ messages' = Append(messages, [uid |-> Uid, conv |-> at.conv])
  /\ at' = [step |-> "stored", todo |-> Wanted(Mail)]
  /\ UNCHANGED <<mailbox, lastUid, convs, queued, batch, thrown, cut, again, faults, crashes>>

\* The jobs are enqueued in a fixed order.
FirstOf(todo) ==
  IF "telegram" \in todo THEN "telegram"
  ELSE IF "viator" \in todo THEN "viator" ELSE "draft"

\* BullMQ refuses an id of a job with a colon in it, and the id that is given to
\* the analysis of a Viator e-mail has one.
Unusable == {"viator"}

Enqueue ==
  /\ InStep("stored")
  /\ at.todo # {}
  /\ FirstOf(at.todo) \notin Unusable
  /\ queued' = queued \cup {[message |-> Len(messages), queue |-> FirstOf(at.todo)]}
  /\ at' = [at EXCEPT !.todo = @ \ {FirstOf(at.todo)}]
  /\ UNCHANGED <<mailbox, lastUid, messages, convs, batch, thrown, cut, again, faults, crashes>>

\* A job that cannot be enqueued must not block the e-mail.
EnqueueFails ==
  /\ InStep("stored")
  /\ at.todo # {}
  /\ \/ /\ FirstOf(at.todo) \in Unusable
        /\ UNCHANGED <<cut, faults>>
     \/ /\ FirstOf(at.todo) \notin Unusable
        /\ faults < MaxFaults
        /\ faults' = faults + 1
        /\ cut' = cut \cup {Uid}
  /\ at' = [at EXCEPT !.todo = @ \ {FirstOf(at.todo)}]
  /\ UNCHANGED <<store, batch, thrown, again, crashes>>

Finish ==
  /\ InStep("stored")
  /\ at.todo = {}
  /\ Advance
  /\ UNCHANGED <<mailbox, messages, convs, queued, thrown, cut, again, faults, crashes>>

\* Anything that fails before the UID is stored: the e-mail is given up.
Throw ==
  /\ batch # {}
  /\ faults < MaxFaults
  /\ faults' = faults + 1
  /\ thrown' = thrown \cup {Uid}
  /\ batch' = batch \ {Uid}
  /\ at' = NotStarted
  /\ UNCHANGED <<store, cut, again, crashes>>

Crash ==
  /\ batch # {}
  /\ crashes < MaxCrashes
  /\ crashes' = crashes + 1
  /\ cut' = cut \cup {Uid}
  /\ batch' = {}
  /\ at' = NotStarted
  /\ UNCHANGED <<store, thrown, again, faults>>

-----------------------------------------------------------------------------
Worker == Poll \/ Skip \/ Thread \/ Store \/ Enqueue \/ EnqueueFails \/ Finish \/ Throw

MailNext == (\E e \in Incoming : Arrive(e)) \/ Worker \/ Crash

MailSpec == MailInit /\ [][MailNext]_mailVars

\* The scheduler polls again and again, and every await ends.  A first run need
\* not find anything: the e-mails may all have been read.
BoundToWork == Worker /\ (lastUid > 0 \/ batch # {})
MailFairSpec == MailSpec /\ WF_mailVars(BoundToWork)

-----------------------------------------------------------------------------
(* Properties                                                                *)

Message == [uid : Nat \ {0}, conv : Nat \ {0}]

MailTypeOK ==
  /\ mailbox \in Seq(Incoming)
  /\ lastUid \in 0..Len(mailbox)
  /\ messages \in Seq(Message)
  /\ convs \in Nat
  /\ queued \subseteq [message : DOMAIN messages, queue : Queue]
  /\ batch \subseteq Arrived
  /\ at \in Progress
  /\ thrown \subseteq Arrived
  /\ cut \subseteq Arrived
  /\ again \subseteq Arrived
  /\ faults \in 0..MaxFaults
  /\ crashes \in 0..MaxCrashes

Stored(u) ==
  \E i \in DOMAIN messages :
    \/ messages[i].uid = u
    \/ mailbox[u].id # NoId /\ IdOf(messages[i]) = mailbox[u].id

\* The poll has done with it, or an error or a first run kept it from doing so.
DoneWith(u) == mailbox[u].kind = "old" \/ Stored(u) \/ u \in thrown \cup cut

\* What the poll has left behind for good is stored, unless it was too old, its
\* processing was cut short by an error, or a search for unread e-mails passed
\* over it: deaths of the process, duplicates, the bound on a batch and a place
\* that is lost and found again lose nothing (services/email/index.ts:543).
NothingSkipped == \A u \in 1..lastUid : DoneWith(u)

\* The unique index on the Message-ID is never hit: an e-mail that is delivered
\* twice, or processed again after a crash, is recognised
\* (services/email/index.ts:272-283).
StoredOnce ==
  \A i, k \in DOMAIN messages :
    IdOf(messages[i]) = IdOf(messages[k]) /\ IdOf(messages[i]) # NoId => i = k

\* A message is in the conversation of the first message it answers that was
\* stored before it, in one of its own if there is none
\* (services/email/email-threader.ts:22-57).
InThreadOfAnswered ==
  \A i \in DOMAIN messages :
    LET refs == mailbox[messages[i].uid].refs
        before(r) == {k \in 1..(i - 1) : IdOf(messages[k]) = r}
        answered == {j \in DOMAIN refs : before(refs[j]) # {}} IN
    IF answered = {}
    THEN \A k \in 1..(i - 1) : messages[k].conv # messages[i].conv
    ELSE \E k \in before(refs[Min(answered)]) : messages[k].conv = messages[i].conv

HasJobs(i) ==
  \A j \in Wanted(mailbox[messages[i].uid]) \ Unusable : [message |-> i, queue |-> j] \in queued

\* It was stored last, for an e-mail that is not passed or fetched again.
BeingTaken(i) ==
  /\ InStep("stored") /\ i = Len(messages)
  /\ lastUid < messages[i].uid \/ messages[i].uid \in again

\* A stored message whose processing was never cut short has its jobs by the
\* time its UID is stored, but for those whose id the queue refuses; so has
\* each copy of one without Message-ID (services/email/index.ts:434-543).
JobsQueued ==
  \A i \in DOMAIN messages : messages[i].uid \in thrown \cup cut \/ BeingTaken(i) \/ HasJobs(i)

\* Every conversation has a message, but for one that an error or a death of
\* the process may leave behind each time, and the one in the making.
Empty == {c \in 1..convs : \A i \in DOMAIN messages : messages[i].conv # c}
FewEmptyConversations ==
  Cardinality(Empty) <= faults + crashes + (IF InStep("threaded") THEN 1 ELSE 0)

\* The mailbox, the tables and the poll hold values of their types, no e-mail is
\* stored twice and few conversations are empty (services/email/index.ts:272-356).
MailInv == MailTypeOK /\ StoredOnce /\ FewEmptyConversations

\* Each e-mail the poll has passed is stored once, in its thread, with its jobs,
\* unless its own processing was cut short (services/email/index.ts:242-556).
MailSound == MailInv /\ NothingSkipped /\ InThreadOfAnswered /\ JobsQueued

\* Once there is a last UID the poll gets past every e-mail that arrives, also
\* when that UID cannot be read now and then.
EveryMailPassed == \A u \in UIDs : (u <= Len(mailbox) /\ lastUid > 0) ~> (u <= lastUid)

\* services/email/ARCHITECTURE.md:230: after a failure "`lastUid` NOT updated so
\* it will be retried": the poll does not get past an e-mail whose processing
\* failed until it is stored.
FailedIsRetried ==
  \A u \in thrown : u <= lastUid => mailbox[u].kind = "old" \/ Stored(u)

-----------------------------------------------------------------------------
(* What MailSound rests on                                                   *)

\* A message is of an e-mail that arrived and in a conversation there is.
MessagesKnown ==
  \A i \in DOMAIN messages : messages[i].uid \in Arrived /\ messages[i].conv <= convs

\* The batch lies beyond the last UID, or the poll went back; below an e-mail of
\* the batch there is none that is neither of the batch nor done with.
NothingBetween ==
  \A b \in batch :
    /\ b..lastUid \subseteq again
    /\ \A u \in Arrived : u < b => u \in batch \/ DoneWith(u)

\* What the processing of the e-mail at hand remembers is still so: it is not
\* stored yet, its conversation is that of the message it answers or has none.
AtHand ==
  /\ InStep("threaded") =>
       /\ ~Unwanted
       /\ at.conv \in 1..convs
       /\ IF Answered(Mail.refs) = {}
          THEN \A i \in DOMAIN messages : messages[i].conv # at.conv
          ELSE \E i \in WithId(Mail.refs[Min(Answered(Mail.refs))]) : messages[i].conv = at.conv
  /\ InStep("stored") => messages # <<>> /\ messages[Len(messages)].uid = Uid

\* Every job of a message is queued or about to be, unless its processing was
\* cut short.
JobsComing ==
  \A i \in DOMAIN messages :
    messages[i].uid \notin thrown \cup cut =>
      \A j \in Wanted(mailbox[messages[i].uid]) \ Unusable :
        \/ [message |-> i, queue |-> j] \in queued
        \/ InStep("stored") /\ i = Len(messages) /\ j \in at.todo

\* The conversation in the making.
Making == IF InStep("threaded") THEN {at.conv} ELSE {}

\* Each empty conversation but that one was left behind by an error or a death.
EmptyAccountedFor == Cardinality(Empty \ Making) <= faults + crashes

\* The inductive invariant.
MailIInv ==
  /\ MailTypeOK /\ MessagesKnown /\ NothingBetween /\ AtHand
  /\ StoredOnce /\ NothingSkipped /\ InThreadOfAnswered
  /\ JobsComing /\ EmptyAccountedFor
=============================================================================
