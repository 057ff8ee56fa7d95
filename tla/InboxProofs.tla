----------------------------- MODULE InboxProofs -----------------------------
(***************************************************************************)
(* What the inbox is made of, for any number of e-mails, messages, drafts   *)
(* and conversations: what the e-mail poll leaves behind, whatever the       *)
(* errors and the deaths of the process; what the analysis of the e-mails   *)
(* from Viator shows of them; and what the composer of the dashboard sends. *)
(*                                                                         *)
(* The argument of the first: below an e-mail of the batch everything is of  *)
(* the batch or done with (NothingBetween), wherever the poll began, so      *)
(* moving the last UID passes only what was taken or cut short; and between  *)
(* two writes of one e-mail nothing else writes the tables, so what its      *)
(* processing remembers of them is still so (AtHand, JobsComing).  With what  *)
(* follows of it each step of the poll is one of MailLedger                  *)
(* (MailImplementsLedger).  Of the last: every text is of                    *)
(* one conversation, and what the screen holds of it is of the one on the    *)
(* screen (ScreenBelongs), since a draft once written stays its               *)
(* conversation's (DraftsStay).                                             *)
(***************************************************************************)
EXTENDS MailRefinement, EventAnalysis, InboxComposer, FiniteSetTheorems, TLAPS

-----------------------------------------------------------------------------
(* The least of a set of numbers                                             *)

\* Strict inclusion is well-founded on the finite initial segments of Nat.
LEMMA LeastNatural ==
  ASSUME NEW T \in SUBSET Nat, T # {}
  PROVE  \E x \in T : \A y \in T : x <= y
<1> DEFINE F == {0..x : x \in T}
<1>1. F \subseteq FiniteSubsetsOf(Nat) /\ F # {}
  <2>1. \A x \in T : 0..x \in SUBSET Nat /\ IsFiniteSet(0..x)
    BY FS_Interval
  <2> QED BY <2>1 DEF FiniteSubsetsOf
<1> HIDE DEF F
<1>2. PICK S \in F : \A U \in F : <<U, S>> \notin StrictSubsetOrdering(Nat)
  BY <1>1, FS_StrictSubsetOrderingWellFounded, WFMin
<1>3. PICK x \in T : S = 0..x BY DEF F
<1>4. ASSUME NEW y \in T, y < x PROVE FALSE
  <2>1. 0..y \in F BY DEF F
  <2>2. 0..y \subseteq 0..x /\ 0..y # 0..x BY <1>4
  <2>3. 0..y \in SUBSET Nat /\ 0..x \in SUBSET Nat OBVIOUS
  <2>4. <<0..y, 0..x>> \in (SUBSET Nat) \X (SUBSET Nat) BY <2>3
  <2>5. <<0..y, 0..x>> \in StrictSubsetOrdering(Nat)
    BY <2>2, <2>4 DEF StrictSubsetOrdering
  <2> QED BY <1>2, <1>3, <2>1, <2>5
<1> QED BY <1>4

LEMMA MinIsLeast ==
  ASSUME NEW S \in SUBSET Nat, S # {}
  PROVE  Min(S) \in S /\ \A y \in S : Min(S) <= y
<1>1. \E x \in S : \A y \in S : x <= y BY LeastNatural
<1>2. \E x \in S : \A y \in S : x =< y BY <1>1
<1> QED BY <1>2 DEF Min

-----------------------------------------------------------------------------
(* The e-mail at hand                                                        *)

LEMMA AtHandIsKnown ==
  ASSUME MailTypeOK, batch # {}
  PROVE  /\ Uid \in batch /\ Uid \in Arrived /\ \A b \in batch : Uid <= b
         /\ Mail \in Incoming /\ Mail \in Email
<1>1. batch \in SUBSET Nat BY DEF MailTypeOK, Arrived
<1>2. Uid \in batch /\ \A b \in batch : Uid <= b BY <1>1, MinIsLeast DEF Uid
<1> QED BY <1>2, EmailAssumption DEF MailTypeOK, Arrived, Mail

LEMMA ProgressFields ==
  ASSUME MailTypeOK
  PROVE  /\ at.step \in {"fetched", "threaded", "stored"}
         /\ at.step = "threaded" => at.conv \in Nat
         /\ at.step = "stored" => at.todo \in SUBSET Queue
BY DEF MailTypeOK, Progress

-----------------------------------------------------------------------------
(* Types                                                                     *)

\* What the search finds are e-mails that arrived: all that are newer, or the unread.
LEMMA PollFetches ==
  ASSUME Poll
  PROVE  \E found \in SUBSET Arrived, errors \in {0, 1} :
           Fetch(found, errors) /\ (errors = 1 => lastUid # 0)
<1>1. Newer(lastUid) \in SUBSET Arrived BY DEF Newer
<1> QED BY <1>1 DEF Poll

LEMMA NotStartedTyped == NotStarted \in Progress
BY DEF NotStarted, Progress

\* The message stored last is that of the e-mail at hand.
LEMMA HandIsLast ==
  ASSUME MailTypeOK, AtHand, InStep("stored")
  PROVE  /\ Len(messages) \in DOMAIN messages /\ messages[Len(messages)].uid = Uid
         /\ DOMAIN messages = 1..Len(messages) /\ Len(messages) \in Nat
<1>1. messages \in Seq(Message) BY DEF MailTypeOK
<1>2. messages # <<>> /\ messages[Len(messages)].uid = Uid BY DEF AtHand
<1> QED BY <1>1, <1>2

LEMMA TypesKept ==
  ASSUME MailTypeOK, AtHand, [MailNext]_mailVars
  PROVE  MailTypeOK'
<1> USE EmailAssumption, NotStartedTyped
<1>1. ASSUME NEW e \in Incoming, Arrive(e) PROVE MailTypeOK'
  BY <1>1 DEF Arrive, MailTypeOK, Arrived
<1>2. CASE Poll
  <2>1. PICK found \in SUBSET Arrived, errors \in {0, 1} : Fetch(found, errors)
    BY <1>2, PollFetches
  <2>2. PICK unfetched \in SUBSET Oldest(found) :
          /\ faults' = faults + errors + Cardinality(unfetched)
          /\ faults' <= MaxFaults
          /\ cut' = cut \cup {u \in Newer(lastUid) \ (found \ unfetched) : \E b \in batch' : u < b}
          /\ batch' = Oldest(found) \ unfetched
    BY <2>1 DEF Fetch
  <2>3. Newer(lastUid) \subseteq Arrived /\ Oldest(found) \subseteq Arrived BY DEF Newer, Oldest
  <2>4. Cardinality(unfetched) \in Nat
    <3>1. IsFiniteSet(Arrived) BY FS_Interval DEF MailTypeOK, Arrived
    <3> QED BY <2>3, <3>1, FS_Subset, FS_CardinalityType
  <2>5. faults' \in 0..MaxFaults BY <2>2, <2>4 DEF MailTypeOK
  <2>6. cut' \subseteq Arrived /\ batch' \subseteq Arrived BY <2>2, <2>3 DEF MailTypeOK
  <2>7. again' \subseteq Arrived
    <3>1. 1..lastUid \subseteq Arrived /\ again \subseteq Arrived BY DEF MailTypeOK, Arrived
    <3> QED BY <2>1, <3>1 DEF Fetch
  <2>8. at' \in Progress /\ UNCHANGED <<store, thrown, crashes>> BY <1>2 DEF Poll
  <2> QED BY <2>5, <2>6, <2>7, <2>8 DEF store, MailTypeOK, Arrived
<1>3. CASE Skip
  <2>1. batch # {} /\ lastUid' = Uid /\ batch' = batch \ {Uid} /\ at' = NotStarted
    BY <1>3 DEF Skip, InStep, Advance
  <2>2. UNCHANGED <<mailbox, messages, convs, queued, thrown, cut, again, faults, crashes>>
    BY <1>3 DEF Skip
  <2>3. Uid \in 1..Len(mailbox) BY <2>1, AtHandIsKnown DEF Arrived
  <2> QED BY <2>1, <2>2, <2>3 DEF MailTypeOK, Arrived
<1>4. CASE Thread
  <2>1. convs' \in Nat /\ at' \in Progress
    <3>1. CASE Answered(Mail.refs) = {}
      BY <1>4, <3>1 DEF Thread, MailTypeOK, Progress
    <3>2. CASE Answered(Mail.refs) # {}
      <4>1. PICK i \in WithId(Mail.refs[Min(Answered(Mail.refs))]) :
              at' = [step |-> "threaded", conv |-> messages[i].conv]
        BY <1>4, <3>2 DEF Thread
      <4>2. messages[i] \in Message BY DEF WithId, MailTypeOK
      <4> QED BY <1>4, <3>2, <4>1, <4>2 DEF Thread, MailTypeOK, Progress, Message
    <3> QED BY <3>1, <3>2
  <2> QED BY <1>4, <2>1 DEF Thread, MailTypeOK, Arrived
<1>5. CASE Store
  <2>1. [uid |-> Uid, conv |-> at.conv] \in Message
    BY <1>5, AtHandIsKnown DEF Store, InStep, Message, Arrived, AtHand, MailTypeOK
  <2>2. Wanted(Mail) \in SUBSET Queue BY DEF Wanted, Queue
  <2>3. DOMAIN messages \subseteq DOMAIN messages' /\ messages' \in Seq(Message)
    BY <1>5, <2>1 DEF Store, MailTypeOK
  <2>4. queued' \subseteq [message : DOMAIN messages', queue : Queue]
    BY <1>5, <2>3 DEF Store, MailTypeOK
  <2> QED BY <1>5, <2>2, <2>3, <2>4 DEF Store, MailTypeOK, Arrived, Progress
<1>6. CASE Enqueue
  <2>1. at.todo \in SUBSET Queue /\ at.step = "stored" /\ batch # {}
    BY <1>6, ProgressFields DEF Enqueue, InStep
  <2>2. FirstOf(at.todo) \in Queue BY DEF FirstOf, Queue
  <2>3. at' \in Progress BY <1>6, <2>1 DEF Enqueue, Progress, MailTypeOK
  <2>4. queued' \subseteq [message : DOMAIN messages', queue : Queue]
    BY <1>6, <2>2, HandIsLast DEF Enqueue, MailTypeOK
  <2> QED BY <1>6, <2>3, <2>4 DEF Enqueue, MailTypeOK, Arrived
<1>7. CASE EnqueueFails
  <2>1. at.todo \in SUBSET Queue /\ at.step = "stored" /\ batch # {}
    BY <1>7, ProgressFields DEF EnqueueFails, InStep
  <2>2. at' \in Progress BY <1>7, <2>1 DEF EnqueueFails, Progress, MailTypeOK
  <2>3. cut' \subseteq Arrived /\ faults' \in 0..MaxFaults
    BY <1>7, <2>1, AtHandIsKnown DEF EnqueueFails, MailTypeOK
  <2> QED BY <1>7, <2>2, <2>3 DEF EnqueueFails, store, MailTypeOK, Arrived
<1>8. CASE Finish
  <2>1. batch # {} /\ lastUid' = Uid /\ batch' = batch \ {Uid} /\ at' = NotStarted
    BY <1>8 DEF Finish, InStep, Advance
  <2>2. UNCHANGED <<mailbox, messages, convs, queued, thrown, cut, again, faults, crashes>>
    BY <1>8 DEF Finish
  <2>3. Uid \in 1..Len(mailbox) BY <2>1, AtHandIsKnown DEF Arrived
  <2> QED BY <2>1, <2>2, <2>3 DEF MailTypeOK, Arrived
<1>9. CASE Throw
  <2>1. /\ batch # {} /\ thrown' = thrown \cup {Uid} /\ at' = NotStarted
        /\ batch' \subseteq batch /\ UNCHANGED <<store, cut, again, crashes>>
    BY <1>9 DEF Throw
  <2>2. faults' \in 0..MaxFaults BY <1>9 DEF Throw, MailTypeOK
  <2>3. Uid \in Arrived BY <2>1, AtHandIsKnown
  <2> QED BY <2>1, <2>2, <2>3 DEF store, MailTypeOK, Arrived
<1>10. CASE Crash
  <2>1. /\ batch # {} /\ cut' = cut \cup {Uid} /\ at' = NotStarted
        /\ batch' \subseteq batch /\ UNCHANGED <<store, thrown, again, faults>>
    BY <1>10 DEF Crash
  <2>2. crashes' \in 0..MaxCrashes BY <1>10 DEF Crash, MailTypeOK
  <2>3. Uid \in Arrived BY <2>1, AtHandIsKnown
  <2> QED BY <2>1, <2>2, <2>3 DEF store, MailTypeOK, Arrived
<1>11. CASE UNCHANGED mailVars
  BY <1>11 DEF mailVars, store, MailTypeOK, Arrived
<1> QED BY <1>1, <1>2, <1>3, <1>4, <1>5, <1>6, <1>7, <1>8, <1>9, <1>10, <1>11
        DEF MailNext, Worker

-----------------------------------------------------------------------------
(* What the processing reads, of any tables msgs and mailbox box            *)

WithIdIn(msgs, box, id) == {i \in DOMAIN msgs : box[msgs[i].uid].id = id}

UnwantedIn(msgs, box, e) ==
  e.kind = "old" \/ (e.id # NoId /\ WithIdIn(msgs, box, e.id) # {})

AnsweredIn(msgs, box, refs) == {j \in DOMAIN refs : WithIdIn(msgs, box, refs[j]) # {}}

\* An e-mail with these references belongs into this conversation.
PlacedIn(msgs, box, refs, conv) ==
  IF AnsweredIn(msgs, box, refs) = {}
  THEN \A i \in DOMAIN msgs : msgs[i].conv # conv
  ELSE \E i \in WithIdIn(msgs, box, refs[Min(AnsweredIn(msgs, box, refs))]) :
         msgs[i].conv = conv

AtHandIn(a, b, msgs, box, n) ==
  /\ b # {} /\ a.step = "threaded" =>
       /\ ~UnwantedIn(msgs, box, box[Min(b)])
       /\ a.conv \in 1..n
       /\ PlacedIn(msgs, box, box[Min(b)].refs, a.conv)
  /\ b # {} /\ a.step = "stored" => msgs # <<>> /\ msgs[Len(msgs)].uid = Min(b)

LEMMA AtHandReads ==
  /\ AtHand <=> AtHandIn(at, batch, messages, mailbox, convs)
  /\ AtHand' <=> AtHandIn(at', batch', messages', mailbox', convs')
BY DEF AtHand, AtHandIn, InStep, Unwanted, UnwantedIn, WithId, WithIdIn, IdOf, Mail, Uid,
       Answered, AnsweredIn, PlacedIn

\* The messages before the i-th whose e-mail has this id; which references are theirs.
BeforeIn(msgs, box, i, r) == {k \in 1..(i - 1) : box[msgs[k].uid].id = r}

KnownBefore(msgs, box, i) ==
  {j \in DOMAIN box[msgs[i].uid].refs : BeforeIn(msgs, box, i, box[msgs[i].uid].refs[j]) # {}}

\* The i-th message is where it belongs.
ThreadedIn(msgs, box, i) ==
  IF KnownBefore(msgs, box, i) = {}
  THEN \A k \in 1..(i - 1) : msgs[k].conv # msgs[i].conv
  ELSE \E k \in BeforeIn(msgs, box, i, box[msgs[i].uid].refs[Min(KnownBefore(msgs, box, i))]) :
         msgs[k].conv = msgs[i].conv

LEMMA ThreadsRead ==
  /\ InThreadOfAnswered <=> \A i \in DOMAIN messages : ThreadedIn(messages, mailbox, i)
  /\ InThreadOfAnswered' <=> \A i \in DOMAIN messages' : ThreadedIn(messages', mailbox', i)
BY DEF InThreadOfAnswered, IdOf, ThreadedIn, KnownBefore, BeforeIn

\* A message stays where it belongs when others are stored or arrive after it.
LEMMA ThreadsStay ==
  ASSUME MailTypeOK, InThreadOfAnswered,
         \A k \in DOMAIN messages : /\ messages'[k] = messages[k]
                                    /\ mailbox'[messages[k].uid] = mailbox[messages[k].uid]
  PROVE  \A i \in DOMAIN messages : ThreadedIn(messages', mailbox', i)
<1> SUFFICES ASSUME NEW i \in DOMAIN messages
             PROVE  ThreadedIn(messages', mailbox', i)
  OBVIOUS
<1>1. ThreadedIn(messages, mailbox, i) BY ThreadsRead
<1>2. i \in Nat /\ \A k \in 1..(i - 1) : k \in DOMAIN messages BY DEF MailTypeOK
<1>3. \A r : BeforeIn(messages', mailbox', i, r) = BeforeIn(messages, mailbox, i, r)
  BY <1>2 DEF BeforeIn
<1>4. KnownBefore(messages', mailbox', i) = KnownBefore(messages, mailbox, i)
  BY <1>3 DEF KnownBefore
<1>5. messages'[i] = messages[i] /\ mailbox'[messages'[i].uid] = mailbox[messages[i].uid]
  OBVIOUS
<1>6. \A k \in 1..(i - 1) : messages'[k] = messages[k] BY <1>2
<1>7. \A r : BeforeIn(messages, mailbox, i, r) \subseteq 1..(i - 1) BY DEF BeforeIn
<1>8. CASE KnownBefore(messages, mailbox, i) = {}
  BY <1>1, <1>4, <1>5, <1>6, <1>8 DEF ThreadedIn
<1>9. CASE KnownBefore(messages, mailbox, i) # {}
  <2> DEFINE r == mailbox[messages[i].uid].refs[Min(KnownBefore(messages, mailbox, i))]
  <2>1. PICK k \in BeforeIn(messages, mailbox, i, r) : messages[k].conv = messages[i].conv
    BY <1>1, <1>9 DEF ThreadedIn
  <2>2. k \in BeforeIn(messages', mailbox', i, r) /\ messages'[k].conv = messages'[i].conv
    BY <1>3, <1>5, <1>6, <1>7, <2>1
  <2> QED BY <1>4, <1>5, <1>9, <2>2 DEF ThreadedIn
<1> QED BY <1>8, <1>9

-----------------------------------------------------------------------------
(* Steps that leave the messages alone                                       *)

LEMMA EmptyIsFinite ==
  ASSUME MailTypeOK
  PROVE  /\ IsFiniteSet(Empty) /\ Empty \subseteq 1..convs
         /\ \A S : IsFiniteSet(Empty \ S) /\ Cardinality(Empty \ S) \in Nat
<1>1. Empty \subseteq 1..convs BY DEF Empty
<1>2. IsFiniteSet(1..convs) BY FS_Interval DEF MailTypeOK
<1>3. IsFiniteSet(Empty) BY <1>1, <1>2, FS_Subset
<1>4. \A S : Empty \ S \in SUBSET Empty OBVIOUS
<1> QED BY <1>1, <1>3, <1>4, FS_Subset, FS_CardinalityType

\* No conversation becomes empty, or one does for an error or a death.
LEMMA EmptyStays ==
  ASSUME MailTypeOK, MailTypeOK', EmptyAccountedFor,
         faults <= faults', crashes <= crashes',
         \/ Empty' \ Making' \subseteq Empty \ Making
         \/ /\ Empty' \subseteq Empty
            /\ faults + crashes + 1 <= faults' + crashes'
  PROVE  EmptyAccountedFor'
<1> DEFINE left == Empty \ Making
           now == Empty' \ Making'
<1>1. /\ IsFiniteSet(Empty) /\ IsFiniteSet(left) /\ Cardinality(left) \in Nat
  BY EmptyIsFinite
<1>2. faults \in Nat /\ crashes \in Nat /\ faults' \in Nat /\ crashes' \in Nat
  BY EmailAssumption DEF MailTypeOK
<1>3. Cardinality(left) <= faults + crashes BY DEF EmptyAccountedFor
<1>4. EmptyAccountedFor' <=> Cardinality(now) <= faults' + crashes'
  BY DEF EmptyAccountedFor
<1> HIDE DEF now
<1>5. CASE now \subseteq left
  <2>1. Cardinality(now) <= Cardinality(left) BY <1>1, <1>5, FS_Subset
  <2>2. Cardinality(now) \in Nat BY <1>1, <1>5, FS_Subset, FS_CardinalityType
  <2> QED BY <1>1, <1>2, <1>3, <1>4, <2>1, <2>2
<1>6. CASE now \subseteq Empty /\ faults + crashes + 1 <= faults' + crashes'
  <2>1. \E x : Empty \subseteq left \cup {x} BY DEF Making
  <2>2. PICK x : Empty \subseteq left \cup {x} BY <2>1
  <2> HIDE DEF left
  <2>3. /\ IsFiniteSet(left \cup {x})
        /\ Cardinality(left \cup {x}) \in {Cardinality(left), Cardinality(left) + 1}
    BY <1>1, FS_AddElement
  <2>4. now \subseteq left \cup {x} BY <1>6, <2>2
  <2>5. Cardinality(now) <= Cardinality(left \cup {x}) /\ Cardinality(now) \in Nat
    BY <2>3, <2>4, FS_Subset, FS_CardinalityType
  <2>6. faults + crashes + 1 <= faults' + crashes' BY <1>6
  <2>7. Cardinality(now) <= Cardinality(left) + 1 BY <1>1, <2>3, <2>5
  <2>8. Cardinality(now) <= faults' + crashes'
    <3>1. Cardinality(now) \in Nat /\ Cardinality(left) \in Nat BY <1>1, <2>5
    <3>2. Cardinality(left) <= faults + crashes BY <1>3
    <3>3. \A n, l, f, c, g, d \in Nat :
            n <= l + 1 /\ l <= f + c /\ f + c + 1 <= g + d => n <= g + d
      OBVIOUS
    <3> QED BY <1>2, <2>6, <2>7, <3>1, <3>2, <3>3
  <2> QED BY <1>4, <2>8
<1> QED BY <1>5, <1>6 DEF now

\* The messages stay what and where they are.
LEMMA MessagesStay ==
  ASSUME MailIInv, UNCHANGED <<mailbox, messages>>, convs <= convs', convs' \in Nat
  PROVE  MessagesKnown' /\ StoredOnce' /\ InThreadOfAnswered'
<1>1. MessagesKnown'
  <2> SUFFICES ASSUME NEW i \in DOMAIN messages
               PROVE  messages[i].uid \in Arrived /\ messages[i].conv <= convs'
    BY DEF MessagesKnown, Arrived
  <2>1. messages[i] \in Message /\ convs \in Nat BY DEF MailIInv, MailTypeOK
  <2>2. messages[i].conv \in Nat BY <2>1 DEF Message
  <2> QED BY <2>1, <2>2 DEF MailIInv, MessagesKnown
<1>2. StoredOnce' BY DEF MailIInv, StoredOnce, IdOf
<1>3. InThreadOfAnswered' BY ThreadsStay, ThreadsRead DEF MailIInv
<1> QED BY <1>1, <1>2, <1>3

\* What is stored stays stored.
StoredIn(msgs, box, u) ==
  \E i \in DOMAIN msgs :
    \/ msgs[i].uid = u
    \/ box[u].id # NoId /\ box[msgs[i].uid].id = box[u].id

SkippedIn(msgs, box, u) == box[u].kind = "old" \/ StoredIn(msgs, box, u)

LEMMA DoneReads ==
  /\ \A u : DoneWith(u) <=> SkippedIn(messages, mailbox, u) \/ u \in thrown \cup cut
  /\ \A u : DoneWith(u)' <=> SkippedIn(messages', mailbox', u) \/ u \in thrown' \cup cut'
BY DEF DoneWith, SkippedIn, Stored, StoredIn, IdOf

\* What is done with stays so while messages are added and excuses are.
LEMMA DoneStays ==
  ASSUME thrown \subseteq thrown', cut \subseteq cut', UNCHANGED <<mailbox, messages>>
  PROVE  \A u : DoneWith(u) => DoneWith(u)'
BY DoneReads

\* The last UID and the batch stay, or the batch shrinks by what is done with.
LEMMA PlaceStays ==
  ASSUME NothingBetween, NothingSkipped, UNCHANGED <<lastUid, again>>,
         \A u \in Arrived : DoneWith(u) => DoneWith(u)', lastUid \in 0..Len(mailbox),
         Arrived' = Arrived, batch' \subseteq batch,
         \A u \in batch : u \in batch' \/ DoneWith(u)' \/ batch' = {}
  PROVE  NothingBetween' /\ NothingSkipped'
<1>1. NothingBetween'
  <2> SUFFICES ASSUME NEW b \in batch'
               PROVE  /\ b..lastUid \subseteq again
                      /\ \A u \in Arrived : u < b => u \in batch' \/ DoneWith(u)'
    BY DEF NothingBetween
  <2> QED BY DEF NothingBetween
<1>2. NothingSkipped'
  <2> SUFFICES ASSUME NEW u \in 1..lastUid PROVE DoneWith(u)'
    BY DEF NothingSkipped
  <2> QED BY DEF NothingSkipped, Arrived
<1> QED BY <1>1, <1>2

\* The processing of the e-mail at hand ends, or a batch begins.
LEMMA BatchMoves ==
  ASSUME MailIInv, MailTypeOK', UNCHANGED <<mailbox, messages, convs, queued>>, at' = NotStarted,
         thrown \subseteq thrown', cut \subseteq cut',
         faults <= faults', crashes <= crashes',
         \/ ~InStep("stored") \/ at.todo = {} \/ Uid \in thrown' \cup cut',
         ~InStep("threaded") \/ faults + crashes + 1 <= faults' + crashes'
  PROVE  /\ MessagesKnown' /\ StoredOnce' /\ InThreadOfAnswered'
         /\ AtHand' /\ JobsComing' /\ EmptyAccountedFor'
<1>1. MessagesKnown' /\ StoredOnce' /\ InThreadOfAnswered'
  BY MessagesStay DEF MailIInv, MailTypeOK
<1>2. at'.step = "fetched" BY DEF NotStarted
<1>3. AtHand' BY <1>2 DEF AtHand, InStep
<1>4. JobsComing'
  <2>1. InStep("stored") => messages[Len(messages)].uid = Uid BY HandIsLast DEF MailIInv
  <2>2. ~InStep("stored")' BY <1>2 DEF InStep
  <2> SUFFICES ASSUME NEW i \in DOMAIN messages, messages[i].uid \notin thrown' \cup cut',
                      NEW j \in Wanted(mailbox[messages[i].uid]) \ Unusable
               PROVE  [message |-> i, queue |-> j] \in queued
    BY DEF JobsComing
  <2> QED BY <2>1 DEF MailIInv, JobsComing
<1>5. EmptyAccountedFor'
  <2>1. Empty' = Empty BY DEF Empty
  <2>2. Making' = {} BY <1>2 DEF Making, InStep
  <2>3. ~InStep("threaded") => Making = {} BY DEF Making
  <2> QED BY <2>1, <2>2, <2>3, EmptyStays DEF MailIInv
<1> QED BY <1>1, <1>3, <1>4, <1>5

LEMMA PollKeeps ==
  ASSUME MailIInv, MailTypeOK', Poll
  PROVE  MailIInv'
<1> USE DEF MailIInv
<1>1. PICK found \in SUBSET Arrived, errors \in {0, 1} : Fetch(found, errors)
  BY PollFetches
<1>2. PICK unfetched \in SUBSET Oldest(found) :
        /\ batch' = Oldest(found) \ unfetched
        /\ faults' = faults + errors + Cardinality(unfetched)
        /\ cut' = cut \cup {u \in Newer(lastUid) \ (found \ unfetched) : \E b \in batch' : u < b}
  BY <1>1 DEF Fetch
<1>3. batch = {} /\ at' = NotStarted /\ UNCHANGED <<store, thrown, crashes>>
  BY DEF Poll
<1>4. /\ IsFiniteSet(Arrived) /\ Arrived \subseteq Nat
      /\ \A w \in found : w \in Nat /\ w \in Arrived
  <2>1. Len(mailbox) \in Nat /\ Arrived = 1..Len(mailbox) BY DEF MailTypeOK, Arrived
  <2>2. IsFiniteSet(Arrived) BY <2>1, FS_Interval
  <2> QED BY <2>1, <2>2
<1>5. faults <= faults'
  <2>1. Oldest(found) \subseteq Arrived BY DEF Oldest
  <2>2. Cardinality(unfetched) \in Nat BY <1>4, <2>1, FS_Subset, FS_CardinalityType
  <2> QED BY <1>2, <2>2 DEF MailTypeOK
<1>6. thrown \subseteq thrown' /\ cut \subseteq cut' BY <1>2, <1>3
<1>7. \A u : DoneWith(u) => DoneWith(u)' BY <1>3, <1>6, DoneStays DEF store
<1>8. NothingBetween'
  <2> SUFFICES ASSUME NEW b \in batch'
               PROVE  /\ b..lastUid \subseteq again'
                      /\ \A u \in Arrived : u < b => u \in batch' \/ DoneWith(u)'
    BY <1>3 DEF NothingBetween, store, Arrived
  <2>1. b \in Oldest(found) /\ b \in Nat /\ b \in Arrived BY <1>2, <1>4 DEF Oldest
  <2>2. again' = again \cup {u \in 1..lastUid : \E c \in batch' : c <= u} BY <1>1 DEF Fetch
  <2>3. b..lastUid \subseteq again' BY <2>1, <2>2 DEF Arrived, MailTypeOK
  <2>4. ASSUME NEW u \in Arrived, u < b PROVE u \in batch' \/ DoneWith(u)'
    <3>1. CASE u \in found \ unfetched
      <4>1. {w \in found : w < u} \subseteq {w \in found : w < b}
        <5>1. u \in Nat /\ b \in Nat /\ u < b BY <1>4, <2>1, <2>4
        <5>2. \A w \in found : w < u => w < b BY <1>4, <5>1
        <5> QED BY <5>2
      <4>2. IsFiniteSet({w \in found : w < b}) BY <1>4, FS_Subset
      <4>3. /\ Cardinality({w \in found : w < u}) <= Cardinality({w \in found : w < b})
            /\ Cardinality({w \in found : w < u}) \in Nat
            /\ Cardinality({w \in found : w < b}) \in Nat
        BY <4>1, <4>2, FS_Subset, FS_CardinalityType
      <4>4. Cardinality({w \in found : w < b}) < BatchSize BY <2>1 DEF Oldest
      <4>5. Cardinality({w \in found : w < u}) < BatchSize BY <4>3, <4>4, EmailAssumption
      <4> QED BY <1>2, <3>1, <4>5 DEF Oldest
    <3>2. CASE u <= lastUid
      <4>1. u \in 1..lastUid BY <1>4, <3>2 DEF Arrived, MailTypeOK
      <4> QED BY <1>7, <4>1 DEF NothingSkipped
    <3>3. CASE u \notin found \ unfetched /\ ~(u <= lastUid)
      <4>1. u \in Newer(lastUid) BY <1>4, <3>3 DEF Newer, MailTypeOK
      <4>2. u \in cut' BY <1>2, <2>4, <3>3, <4>1
      <4> QED BY <4>2, DoneReads
    <3> QED BY <3>1, <3>2, <3>3
  <2> QED BY <2>3, <2>4
<1>9. NothingSkipped' BY <1>3, <1>7 DEF NothingSkipped, store
<1>10. crashes <= crashes' BY <1>3 DEF MailTypeOK
<1>11. ~InStep("stored") /\ ~InStep("threaded") BY <1>3 DEF InStep
<1>12. MessagesKnown' /\ StoredOnce' /\ InThreadOfAnswered'
      /\ AtHand' /\ JobsComing' /\ EmptyAccountedFor'
  BY <1>3, <1>5, <1>6, <1>10, <1>11, BatchMoves DEF store
<1> QED BY <1>8, <1>9, <1>12

\* The last UID moves on to that of the e-mail at hand, which is done with.
LEMMA AdvanceKeeps ==
  ASSUME MailIInv, MailTypeOK', batch # {}, Advance,
         UNCHANGED <<mailbox, messages, convs, queued, thrown, cut, again, faults, crashes>>,
         ~InStep("threaded"), InStep("stored") => at.todo = {},
         SkippedIn(messages, mailbox, Uid)
  PROVE  MailIInv'
<1> USE DEF MailIInv
<1>1. lastUid' = Uid /\ batch' = batch \ {Uid} /\ at' = NotStarted BY DEF Advance
<1>2. Uid \in batch /\ Uid \in Nat /\ \A b \in batch : Uid <= b
  BY AtHandIsKnown DEF Arrived, MailTypeOK
<1>3. \A b \in batch : b \in Nat BY DEF MailTypeOK, Arrived
<1>4. \A u : DoneWith(u) => DoneWith(u)' BY DoneStays
<1>5. \A u : u = Uid => DoneWith(u)' BY DoneReads
<1>6. \A u \in Arrived : u < Uid => DoneWith(u)'
  <2> SUFFICES ASSUME NEW u \in Arrived, u < Uid PROVE DoneWith(u)'
    OBVIOUS
  <2>1. u \in Nat BY DEF Arrived
  <2>2. u \notin batch BY <1>2, <2>1
  <2> QED BY <1>2, <1>4, <2>2 DEF NothingBetween
<1>7. NothingBetween'
  <2> SUFFICES ASSUME NEW b \in batch, b # Uid
               PROVE  /\ b..Uid \subseteq again
                      /\ \A u \in Arrived : u < b => u \in batch' \/ DoneWith(u)'
    BY <1>1 DEF NothingBetween, Arrived
  <2>1. Uid < b /\ b..Uid = {} BY <1>2, <1>3
  <2> QED BY <1>1, <1>4, <1>5, <2>1 DEF NothingBetween
<1>8. NothingSkipped'
  <2> SUFFICES ASSUME NEW u \in 1..Uid PROVE DoneWith(u)'
    BY <1>1 DEF NothingSkipped
  <2>1. u = Uid \/ u < Uid BY <1>2
  <2>2. u \in Arrived BY <1>2, AtHandIsKnown DEF Arrived, MailTypeOK
  <2> QED BY <1>5, <1>6, <2>1, <2>2
<1>9. faults <= faults' /\ crashes <= crashes' BY DEF MailTypeOK
<1>10. MessagesKnown' /\ StoredOnce' /\ InThreadOfAnswered'
      /\ AtHand' /\ JobsComing' /\ EmptyAccountedFor'
  BY <1>1, <1>9, BatchMoves DEF InStep
<1> QED BY <1>7, <1>8, <1>10

LEMMA SkipKeeps ==
  ASSUME MailIInv, MailTypeOK', Skip
  PROVE  MailIInv'
<1>1. batch # {} /\ Advance /\ Unwanted /\ ~InStep("threaded") /\ ~InStep("stored")
  BY DEF Skip, InStep
<1>2. UNCHANGED <<mailbox, messages, convs, queued, thrown, cut, again, faults, crashes>>
  BY DEF Skip
<1>3. SkippedIn(messages, mailbox, Uid)
  BY <1>1 DEF Unwanted, SkippedIn, StoredIn, WithId, IdOf, Mail
<1> QED BY <1>1, <1>2, <1>3, AdvanceKeeps

LEMMA FinishKeeps ==
  ASSUME MailIInv, MailTypeOK', Finish
  PROVE  MailIInv'
<1>1. batch # {} /\ Advance /\ InStep("stored") /\ ~InStep("threaded") /\ at.todo = {}
  BY DEF Finish, InStep
<1>2. UNCHANGED <<mailbox, messages, convs, queued, thrown, cut, again, faults, crashes>>
  BY DEF Finish
<1>3. SkippedIn(messages, mailbox, Uid)
  BY <1>1, HandIsLast DEF MailIInv, SkippedIn, StoredIn
<1> QED BY <1>1, <1>2, <1>3, AdvanceKeeps

\* The e-mail at hand is given up.
LEMMA ThrowKeeps ==
  ASSUME MailIInv, MailTypeOK', Throw \/ Crash
  PROVE  MailIInv'
<1> USE DEF MailIInv
<1>1. /\ batch # {} /\ at' = NotStarted /\ UNCHANGED store
      /\ thrown \subseteq thrown' /\ cut \subseteq cut' /\ Uid \in thrown' \cup cut'
      /\ batch' = {} \/ batch' = batch \ {Uid}
  BY DEF Throw, Crash
<1>2. /\ faults <= faults' /\ crashes <= crashes'
      /\ faults + crashes + 1 <= faults' + crashes'
  <2>1. faults \in Nat /\ crashes \in Nat BY EmailAssumption DEF MailTypeOK
  <2>2. CASE Throw BY <2>1, <2>2 DEF Throw
  <2>3. CASE Crash BY <2>1, <2>3 DEF Crash
  <2> QED BY <2>2, <2>3
<1>3. UNCHANGED again BY DEF Throw, Crash
<1>4. NothingBetween' /\ NothingSkipped'
  <2>1. \A u : DoneWith(u) => DoneWith(u)' BY <1>1, DoneStays DEF store
  <2>2. \A u : u = Uid => DoneWith(u)' BY <1>1, DoneReads
  <2>3. \A u \in batch : u \in batch' \/ DoneWith(u)' \/ batch' = {} BY <1>1, <2>2
  <2>4. lastUid \in 0..Len(mailbox) BY DEF MailTypeOK
  <2>5. UNCHANGED <<lastUid, again>> /\ Arrived' = Arrived /\ batch' \subseteq batch
    BY <1>1, <1>3 DEF store, Arrived
  <2> QED BY <2>1, <2>3, <2>4, <2>5, PlaceStays
<1>5. MessagesKnown' /\ StoredOnce' /\ InThreadOfAnswered'
      /\ AtHand' /\ JobsComing' /\ EmptyAccountedFor'
  BY <1>1, <1>2, BatchMoves DEF store
<1> QED BY <1>4, <1>5

-----------------------------------------------------------------------------
(* Steps that change what is read                                            *)

LEMMA ArriveKeeps ==
  ASSUME MailIInv, MailTypeOK', NEW e \in Incoming, Arrive(e)
  PROVE  MailIInv'
<1> USE DEF MailIInv
<1>1. mailbox' = Append(mailbox, e) /\ mailbox \in Seq(Incoming)
      /\ UNCHANGED <<lastUid, messages, convs, queued, batch, at, thrown, cut, again, faults, crashes>>
  BY DEF Arrive, MailTypeOK
<1>2. /\ \A u \in Arrived : u \in Arrived' /\ mailbox'[u] = mailbox[u]
      /\ \A u \in Arrived' : u = Len(mailbox) + 1 \/ u \in Arrived
  BY <1>1 DEF Arrived
<1>3. \A i \in DOMAIN messages : mailbox'[messages[i].uid] = mailbox[messages[i].uid]
  BY <1>2 DEF MessagesKnown
<1>4. MessagesKnown' BY <1>1, <1>2 DEF MessagesKnown
<1>5. StoredOnce' BY <1>1, <1>3 DEF StoredOnce, IdOf
<1>6. InThreadOfAnswered' BY <1>1, <1>3, ThreadsStay, ThreadsRead
<1>7. AtHand'
  <2>1. \A id : WithIdIn(messages, mailbox', id) = WithIdIn(messages, mailbox, id)
    BY <1>3 DEF WithIdIn
  <2>2. \A refs : AnsweredIn(messages, mailbox', refs) = AnsweredIn(messages, mailbox, refs)
    BY <2>1 DEF AnsweredIn
  <2>3. batch # {} => mailbox'[Min(batch)] = mailbox[Min(batch)]
    BY <1>2, AtHandIsKnown DEF Uid
  <2>4. \A refs, conv :
          PlacedIn(messages, mailbox', refs, conv) <=> PlacedIn(messages, mailbox, refs, conv)
    BY <2>1, <2>2 DEF PlacedIn
  <2>5. \A m : UnwantedIn(messages, mailbox', m) <=> UnwantedIn(messages, mailbox, m)
    BY <2>1 DEF UnwantedIn
  <2>6. AtHandIn(at, batch, messages, mailbox, convs) BY AtHandReads
  <2>7. AtHandIn(at, batch, messages, mailbox', convs)
    BY <2>3, <2>4, <2>5, <2>6 DEF AtHandIn
  <2> QED BY <1>1, <2>7, AtHandReads
<1>8. JobsComing' BY <1>1, <1>3 DEF JobsComing, InStep
<1>9. \A u \in Arrived : DoneWith(u) => DoneWith(u)'
  <2> SUFFICES ASSUME NEW u \in Arrived, SkippedIn(messages, mailbox, u)
               PROVE  SkippedIn(messages, mailbox', u)
    BY <1>1, DoneReads
  <2>1. mailbox'[u] = mailbox[u] BY <1>2
  <2> QED BY <1>3, <2>1 DEF SkippedIn, StoredIn
<1>10. NothingBetween' /\ NothingSkipped'
  <2>1. \A b \in batch : b \in Nat /\ b <= Len(mailbox) BY DEF MailTypeOK, Arrived
  <2>2. \A b \in batch, u \in Arrived' : u < b => u \in Arrived
    BY <1>1, <1>2, <2>1
  <2>3. NothingBetween'
    <3> SUFFICES ASSUME NEW b \in batch
                 PROVE  /\ b..lastUid \subseteq again
                        /\ \A u \in Arrived' : u < b => u \in batch \/ DoneWith(u)'
      BY <1>1 DEF NothingBetween
    <3> QED BY <1>9, <2>2 DEF NothingBetween
  <2>4. lastUid \in 0..Len(mailbox) /\ Len(mailbox) \in Nat BY DEF MailTypeOK
  <2>5. \A u \in 1..lastUid : u \in Arrived BY <2>4 DEF Arrived
  <2>6. NothingSkipped' BY <1>1, <1>9, <2>5 DEF NothingSkipped
  <2> QED BY <2>3, <2>6
<1>11. EmptyAccountedFor'
  <2>1. Empty' = Empty /\ Making' = Making BY <1>1 DEF Empty, Making, InStep
  <2> QED BY <1>1, <2>1 DEF EmptyAccountedFor
<1> QED BY <1>4, <1>5, <1>6, <1>7, <1>8, <1>10, <1>11

LEMMA ThreadKeeps ==
  ASSUME MailIInv, MailTypeOK', Thread
  PROVE  MailIInv'
<1> USE DEF MailIInv
<1>1. /\ batch # {} /\ at.step = "fetched" /\ ~Unwanted
      /\ UNCHANGED <<mailbox, lastUid, messages, queued, batch, thrown, cut, again, faults, crashes>>
  BY DEF Thread, InStep
<1>2. /\ at'.step = "threaded" /\ at'.conv \in 1..convs'
      /\ PlacedIn(messages, mailbox, Mail.refs, at'.conv)
      /\ convs <= convs' /\ convs' \in Nat
      /\ Empty' \ Making' \subseteq Empty
  <2>1. /\ \A i \in DOMAIN messages : /\ messages[i].conv \in 1..convs
                                     /\ messages[i].conv # convs + 1
        /\ convs \in Nat
    <3>1. \A i \in DOMAIN messages : messages[i] \in Message /\ messages[i].conv <= convs
      BY DEF MailTypeOK, MessagesKnown
    <3>2. convs \in Nat BY DEF MailTypeOK
    <3>3. \A i \in DOMAIN messages : messages[i].conv \in Nat \ {0} BY <3>1 DEF Message
    <3>4. \A c \in Nat \ {0} : c <= convs => c \in 1..convs /\ c # convs + 1 BY <3>2
    <3> QED BY <3>1, <3>2, <3>3, <3>4
  <2>2. /\ \A id : WithId(id) = WithIdIn(messages, mailbox, id)
        /\ \A refs : Answered(refs) = AnsweredIn(messages, mailbox, refs)
    BY DEF WithId, WithIdIn, IdOf, Answered, AnsweredIn
  <2>3. CASE Answered(Mail.refs) = {}
    <3>1. convs' = convs + 1 /\ at' = [step |-> "threaded", conv |-> convs + 1]
      BY <2>3 DEF Thread
    <3>2. PlacedIn(messages, mailbox, Mail.refs, convs + 1)
      BY <2>1, <2>2, <2>3 DEF PlacedIn
    <3>3. Empty' \ {convs + 1} \subseteq Empty BY <1>1, <2>1, <3>1 DEF Empty
    <3>4. Making' = {convs + 1} BY <1>1, <3>1 DEF Making, InStep
    <3> QED BY <2>1, <3>1, <3>2, <3>3, <3>4
  <2>4. CASE Answered(Mail.refs) # {}
    <3>1. PICK i \in WithId(Mail.refs[Min(Answered(Mail.refs))]) :
            at' = [step |-> "threaded", conv |-> messages[i].conv]
      BY <2>4 DEF Thread
    <3>2. i \in DOMAIN messages /\ convs' = convs BY <2>4 DEF Thread, WithId
    <3>3. PlacedIn(messages, mailbox, Mail.refs, messages[i].conv)
      BY <2>2, <2>4, <3>1 DEF PlacedIn
    <3>4. Empty' \subseteq Empty BY <1>1, <3>2 DEF Empty
    <3> QED BY <2>1, <3>1, <3>2, <3>3, <3>4
  <2> QED BY <2>3, <2>4
<1>3. MessagesKnown' /\ StoredOnce' /\ InThreadOfAnswered'
  BY <1>1, <1>2, MessagesStay
<1>4. AtHand'
  <2>1. ~UnwantedIn(messages, mailbox, mailbox[Min(batch)])
    BY <1>1 DEF Unwanted, UnwantedIn, WithId, WithIdIn, IdOf, Mail, Uid
  <2>2. AtHandIn(at', batch, messages, mailbox, convs')
    BY <1>2, <2>1 DEF AtHandIn, Mail, Uid
  <2> QED BY <1>1, <2>2, AtHandReads
<1>5. JobsComing' BY <1>1, <1>2 DEF JobsComing, InStep
<1>6. UNCHANGED again BY DEF Thread
<1>7. NothingBetween' /\ NothingSkipped'
  <2>1. \A u : DoneWith(u) => DoneWith(u)' BY <1>1, DoneStays
  <2>2. lastUid \in 0..Len(mailbox) BY DEF MailTypeOK
  <2> QED BY <1>1, <1>6, <2>1, <2>2, PlaceStays DEF Arrived
<1>8. EmptyAccountedFor'
  <2>1. Making = {} BY <1>1 DEF Making, InStep
  <2>2. faults <= faults' /\ crashes <= crashes' BY <1>1 DEF MailTypeOK
  <2> QED BY <1>2, <2>1, <2>2, EmptyStays
<1> QED BY <1>3, <1>4, <1>5, <1>7, <1>8

\* The e-mail at hand is stored as the last message.
LEMMA StoreKeeps ==
  ASSUME MailIInv, MailTypeOK', Store
  PROVE  MailIInv'
<1> USE DEF MailIInv
<1> DEFINE n == Len(messages) + 1
           new == [uid |-> Uid, conv |-> at.conv]
<1>1. /\ batch # {} /\ at.step = "threaded" /\ messages' = Append(messages, new)
      /\ at' = [step |-> "stored", todo |-> Wanted(Mail)]
      /\ UNCHANGED <<mailbox, lastUid, convs, queued, batch, thrown, cut, again, faults, crashes>>
  BY DEF Store, InStep
<1>2. /\ \A i \in DOMAIN messages : i \in DOMAIN messages' /\ messages'[i] = messages[i]
      /\ n \in DOMAIN messages' /\ messages'[n] = new
      /\ \A i \in DOMAIN messages' : i \in DOMAIN messages \/ i = n
      /\ DOMAIN messages = 1..(n - 1) /\ n \in Nat /\ n \notin DOMAIN messages
  <2> messages \in Seq(Message) BY DEF MailTypeOK
  <2> QED BY <1>1
<1> HIDE DEF n
<1>3. /\ Uid \in Arrived /\ Uid \in batch /\ ~Unwanted /\ at.conv \in 1..convs
      /\ new.uid = Uid /\ new.conv = at.conv
  BY <1>1, AtHandIsKnown DEF AtHand, InStep
<1>4. MessagesKnown'
  <2> SUFFICES ASSUME NEW i \in DOMAIN messages'
               PROVE  messages'[i].uid \in Arrived /\ messages'[i].conv <= convs
    BY <1>1 DEF MessagesKnown, Arrived
  <2>1. CASE i \in DOMAIN messages BY <1>2, <2>1 DEF MessagesKnown
  <2>2. CASE i = n BY <1>2, <1>3, <2>2 DEF MailTypeOK
  <2> QED BY <1>2, <2>1, <2>2
<1>5. StoredOnce'
  <2>1. \A i \in DOMAIN messages :
          mailbox[messages[i].uid].id # mailbox[Uid].id \/ mailbox[Uid].id = NoId
    BY <1>3 DEF Unwanted, WithId, IdOf, Mail
  <2> SUFFICES ASSUME NEW i \in DOMAIN messages', NEW k \in DOMAIN messages',
                      mailbox[messages'[i].uid].id = mailbox[messages'[k].uid].id,
                      mailbox[messages'[i].uid].id # NoId
               PROVE  i = k
    BY <1>1 DEF StoredOnce, IdOf
  <2>2. CASE i \in DOMAIN messages /\ k \in DOMAIN messages
    BY <1>2, <2>2 DEF StoredOnce, IdOf
  <2> QED BY <1>2, <1>3, <2>1, <2>2
<1>6. InThreadOfAnswered'
  <2>1. \A i \in DOMAIN messages : ThreadedIn(messages', mailbox', i)
    BY <1>1, <1>2, ThreadsStay
  <2>2. ThreadedIn(messages', mailbox', n)
    <3>1. PlacedIn(messages, mailbox, mailbox[Uid].refs, at.conv)
      <4>1. AtHandIn(at, batch, messages, mailbox, convs) BY AtHandReads
      <4> QED BY <1>1, <4>1 DEF AtHandIn, Uid
    <3>2. \A r : BeforeIn(messages', mailbox', n, r) = WithIdIn(messages, mailbox, r)
      BY <1>1, <1>2 DEF BeforeIn, WithIdIn
    <3>3. mailbox'[messages'[n].uid] = mailbox[Uid] /\ messages'[n].conv = at.conv
      BY <1>1, <1>2, <1>3
    <3>4. KnownBefore(messages', mailbox', n) = AnsweredIn(messages, mailbox, mailbox[Uid].refs)
      BY <3>2, <3>3 DEF KnownBefore, AnsweredIn
    <3>5. CASE KnownBefore(messages', mailbox', n) = {}
      BY <1>2, <3>1, <3>3, <3>4, <3>5 DEF PlacedIn, ThreadedIn
    <3>6. CASE KnownBefore(messages', mailbox', n) # {}
      <4> DEFINE r == mailbox[Uid].refs[Min(KnownBefore(messages', mailbox', n))]
      <4>1. PICK k \in WithIdIn(messages, mailbox, r) : messages[k].conv = at.conv
        BY <3>1, <3>4, <3>6 DEF PlacedIn
      <4>2. k \in BeforeIn(messages', mailbox', n, r) BY <3>2, <4>1
      <4>3. messages'[k] = messages[k] BY <1>2, <4>1 DEF WithIdIn
      <4> QED BY <3>3, <3>6, <4>1, <4>2, <4>3 DEF ThreadedIn
    <3> QED BY <3>5, <3>6
  <2> QED BY <1>2, <2>1, <2>2, ThreadsRead
<1>7. messages' # <<>> /\ Len(messages') = n
  <2> messages \in Seq(Message) BY DEF MailTypeOK
  <2> QED BY <1>1 DEF n
<1>8. AtHand'
  <2>1. messages'[n].uid = Uid BY <1>2, <1>3
  <2> QED BY <1>1, <1>2, <2>1, <1>7 DEF AtHand, InStep, Uid
<1>9. JobsComing'
  <2> SUFFICES ASSUME NEW i \in DOMAIN messages', messages'[i].uid \notin thrown \cup cut,
                      NEW j \in Wanted(mailbox[messages'[i].uid]) \ Unusable
               PROVE  \/ [message |-> i, queue |-> j] \in queued
                      \/ i = n /\ j \in Wanted(Mail)
    BY <1>1, <1>7 DEF JobsComing, InStep
  <2>1. CASE i \in DOMAIN messages
    BY <1>1, <1>2, <2>1 DEF JobsComing, InStep
  <2>2. CASE i = n BY <1>2, <1>3, <2>2 DEF Mail
  <2> QED BY <1>2, <2>1, <2>2
<1>10. \A u : DoneWith(u) => DoneWith(u)'
  <2>1. \A u : StoredIn(messages, mailbox, u) => StoredIn(messages', mailbox, u)
    BY <1>2 DEF StoredIn
  <2> QED BY <1>1, <2>1, DoneReads DEF SkippedIn
<1>11. NothingBetween' /\ NothingSkipped'
  <2>1. UNCHANGED again BY DEF Store
  <2>2. lastUid \in 0..Len(mailbox) BY DEF MailTypeOK
  <2> QED BY <1>1, <1>10, <2>1, <2>2, PlaceStays DEF Arrived
<1>12. EmptyAccountedFor'
  <2>1. Making' = {} /\ Making = {at.conv} BY <1>1 DEF Making, InStep
  <2>2. Empty' \subseteq Empty \ {at.conv}
    <3>1. \A c \in Empty' : c \in Empty BY <1>1, <1>2 DEF Empty
    <3>2. at.conv \notin Empty' BY <1>2, <1>3 DEF Empty
    <3> QED BY <3>1, <3>2
  <2>3. faults <= faults' /\ crashes <= crashes' BY <1>1 DEF MailTypeOK
  <2> QED BY <2>1, <2>2, <2>3, EmptyStays
<1> QED BY <1>4, <1>5, <1>6, <1>8, <1>9, <1>11, <1>12

\* A job is queued, or cannot be, and then the id was refused or the e-mail is cut short.
LEMMA EnqueueKeeps ==
  ASSUME MailIInv, MailTypeOK', Enqueue \/ EnqueueFails
  PROVE  MailIInv'
<1> USE DEF MailIInv
<1> DEFINE f == FirstOf(at.todo)
<1>1. /\ batch # {} /\ at.step = "stored" /\ at' = [at EXCEPT !.todo = @ \ {f}]
      /\ UNCHANGED <<mailbox, lastUid, messages, convs, batch, thrown, crashes>>
      /\ queued \subseteq queued' /\ cut \subseteq cut'
      /\ [message |-> Len(messages), queue |-> f] \in queued' \/ f \in Unusable \/ Uid \in cut'
  BY DEF Enqueue, EnqueueFails, InStep, store
<1> HIDE DEF f
<1>2. faults <= faults'
  <2>1. faults \in Nat BY EmailAssumption DEF MailTypeOK
  <2>2. faults' = faults \/ faults' = faults + 1 BY DEF Enqueue, EnqueueFails
  <2> QED BY <2>1, <2>2
<1>3. at'.step = "stored" /\ at'.todo = at.todo \ {f}
  <2>1. at \in Progress BY DEF MailTypeOK
  <2> QED BY <1>1, <2>1 DEF Progress
<1>4. MessagesKnown' /\ StoredOnce' /\ InThreadOfAnswered'
  BY <1>1, MessagesStay DEF MailTypeOK
<1>5. AtHand' BY <1>1, <1>3 DEF AtHand, InStep, Uid
<1>6. messages[Len(messages)].uid = Uid BY <1>1, HandIsLast DEF InStep
<1>7. JobsComing'
  <2> SUFFICES ASSUME NEW i \in DOMAIN messages, messages[i].uid \notin thrown \cup cut',
                      NEW j \in Wanted(mailbox[messages[i].uid]) \ Unusable
               PROVE  \/ [message |-> i, queue |-> j] \in queued'
                      \/ i = Len(messages) /\ j \in at.todo \ {f}
    BY <1>1, <1>3 DEF JobsComing, InStep
  <2>1. \/ [message |-> i, queue |-> j] \in queued
        \/ i = Len(messages) /\ j \in at.todo
    BY <1>1 DEF JobsComing
  <2> QED BY <1>1, <1>6, <2>1
<1>8. UNCHANGED again BY DEF Enqueue, EnqueueFails
<1>9. NothingBetween' /\ NothingSkipped'
  <2>1. \A u : DoneWith(u) => DoneWith(u)' BY <1>1, DoneStays
  <2>2. lastUid \in 0..Len(mailbox) BY DEF MailTypeOK
  <2> QED BY <1>1, <1>8, <2>1, <2>2, PlaceStays DEF Arrived
<1>10. EmptyAccountedFor'
  <2>1. Empty' = Empty BY <1>1 DEF Empty
  <2>2. Making = {} /\ Making' = {} BY <1>1, <1>3 DEF Making, InStep
  <2>3. crashes <= crashes' BY <1>1 DEF MailTypeOK
  <2> QED BY <1>2, <2>1, <2>2, <2>3, EmptyStays
<1> QED BY <1>4, <1>5, <1>7, <1>9, <1>10

-----------------------------------------------------------------------------
(* The invariant and what it shows                                           *)

LEMMA InitHolds == MailInit => MailIInv
<1> SUFFICES ASSUME MailInit PROVE MailIInv
  OBVIOUS
<1> USE EmailAssumption DEF MailInit
<1>1. MailTypeOK BY NotStartedTyped DEF MailTypeOK, Arrived
<1>2. MessagesKnown /\ NothingBetween /\ StoredOnce /\ NothingSkipped /\ InThreadOfAnswered
      /\ JobsComing
  BY DEF MessagesKnown, NothingBetween, StoredOnce, NothingSkipped, InThreadOfAnswered,
         JobsComing
<1>3. AtHand BY DEF AtHand, InStep
<1>4. EmptyAccountedFor
  <2>1. Empty \ Making = {} BY DEF Empty
  <2>2. Cardinality(Empty \ Making) = 0 BY <2>1, FS_EmptySet
  <2>3. faults + crashes = 0 OBVIOUS
  <2> QED BY <2>2, <2>3 DEF EmptyAccountedFor
<1> QED BY <1>1, <1>2, <1>3, <1>4 DEF MailIInv

LEMMA StepKeeps == MailIInv /\ [MailNext]_mailVars => MailIInv'
<1> SUFFICES ASSUME MailIInv, [MailNext]_mailVars PROVE MailIInv'
  OBVIOUS
<1>1. MailTypeOK' BY TypesKept DEF MailIInv
<1>2. ASSUME NEW e \in Incoming, Arrive(e) PROVE MailIInv'
  BY <1>1, <1>2, ArriveKeeps
<1>3. CASE Worker
  BY <1>1, <1>3, PollKeeps, SkipKeeps, ThreadKeeps, StoreKeeps, EnqueueKeeps, FinishKeeps,
     ThrowKeeps DEF Worker
<1>4. CASE Crash BY <1>1, <1>4, ThrowKeeps
<1>5. CASE UNCHANGED mailVars
  <2>1. UNCHANGED <<mailbox, lastUid, messages, convs, queued, batch, at, thrown, cut,
                    again, faults, crashes>>
    BY <1>5 DEF mailVars, store
  <2>2. MessagesKnown' /\ StoredOnce' /\ InThreadOfAnswered'
    BY <2>1, MessagesStay DEF MailIInv, MailTypeOK
  <2>3. AtHand' BY <2>1, AtHandReads DEF MailIInv
  <2>4. NothingBetween' /\ NothingSkipped'
    <3>1. \A u : DoneWith(u) => DoneWith(u)' BY <2>1, DoneStays
    <3>2. lastUid \in 0..Len(mailbox) BY DEF MailIInv, MailTypeOK
    <3>3. UNCHANGED <<lastUid, again, batch>> /\ Arrived' = Arrived BY <2>1 DEF Arrived
    <3> QED BY <3>1, <3>2, <3>3, PlaceStays DEF MailIInv
  <2>5. JobsComing' BY <2>1 DEF MailIInv, JobsComing, InStep
  <2>6. EmptyAccountedFor' BY <2>1 DEF MailIInv, EmptyAccountedFor, Empty, Making, InStep
  <2> QED BY <1>1, <2>2, <2>3, <2>4, <2>5, <2>6 DEF MailIInv
<1> QED BY <1>2, <1>3, <1>4, <1>5 DEF MailNext

\* The inductive invariant of the poll: whatever arrives, fails or dies, and also
\* when the last UID cannot be read (services/email/index.ts:222-578).
THEOREM MailInvariant == MailSpec => []MailIInv
BY InitHolds, StepKeeps, PTL DEF MailSpec

LEMMA InvariantMeans == MailIInv => MailSound
<1> SUFFICES ASSUME MailIInv PROVE MailSound
  OBVIOUS
<1> USE DEF MailIInv
<1>1. FewEmptyConversations
  <2>1. Empty \subseteq (Empty \ Making) \cup Making OBVIOUS
  <2>2. IsFiniteSet(Empty \ Making) /\ Cardinality(Empty \ Making) \in Nat
    BY EmptyIsFinite
  <2>3. faults \in Nat /\ crashes \in Nat BY EmailAssumption DEF MailTypeOK
  <2>4. IsFiniteSet(Empty) /\ Cardinality(Empty) \in Nat
    BY EmptyIsFinite, FS_CardinalityType
  <2>5. CASE InStep("threaded")
    <3>1. Empty \subseteq (Empty \ Making) \cup {at.conv} BY <2>1, <2>5 DEF Making
    <3>2. /\ IsFiniteSet((Empty \ Making) \cup {at.conv})
          /\ Cardinality((Empty \ Making) \cup {at.conv})
               \in {Cardinality(Empty \ Making), Cardinality(Empty \ Making) + 1}
      BY <2>2, FS_AddElement
    <3>3. Cardinality(Empty) <= Cardinality((Empty \ Making) \cup {at.conv})
      BY <3>1, <3>2, FS_Subset
    <3>4. Cardinality(Empty) <= Cardinality(Empty \ Making) + 1 BY <2>2, <2>4, <3>2, <3>3
    <3>5. \A n, l, f, c \in Nat : n <= l + 1 /\ l <= f + c => n <= f + c + 1 OBVIOUS
    <3>6. Cardinality(Empty \ Making) <= faults + crashes BY DEF EmptyAccountedFor
    <3>7. Cardinality(Empty) <= faults + crashes + 1 BY <2>2, <2>3, <2>4, <3>4, <3>5, <3>6
    <3> QED BY <2>5, <3>7 DEF FewEmptyConversations
  <2>6. CASE ~InStep("threaded")
    <3>1. Empty \ Making = Empty BY <2>6 DEF Making
    <3>2. Cardinality(Empty) <= faults + crashes BY <3>1 DEF EmptyAccountedFor
    <3>3. faults + crashes + 0 = faults + crashes BY <2>3
    <3> QED BY <2>6, <3>2, <3>3 DEF FewEmptyConversations
  <2> QED BY <2>5, <2>6
<1>2. JobsQueued
  <2> SUFFICES ASSUME NEW i \in DOMAIN messages, messages[i].uid \notin thrown \cup cut,
                      ~HasJobs(i)
               PROVE  BeingTaken(i)
    BY DEF JobsQueued
  <2>1. InStep("stored") /\ i = Len(messages) BY DEF JobsComing, HasJobs
  <2>2. messages[i].uid = Uid BY <2>1, HandIsLast
  <2>3. Uid \in batch /\ Uid \in Nat BY <2>1, AtHandIsKnown DEF InStep, Arrived, MailTypeOK
  <2>4. Uid..lastUid \subseteq again /\ lastUid \in Nat BY <2>3 DEF NothingBetween, MailTypeOK
  <2>5. lastUid < Uid \/ Uid \in Uid..lastUid BY <2>3, <2>4
  <2> QED BY <2>1, <2>2, <2>4, <2>5 DEF BeingTaken
<1> QED BY <1>1, <1>2 DEF MailSound, MailInv

\* Every e-mail that the poll has got past is stored, once if it has a Message-ID,
\* in the thread of what it answers, with its jobs queued, unless its own
\* processing was cut short or a search for unread e-mails passed over it; and
\* each cut leaves at most one conversation without a message
\* (services/email/index.ts:222-578).
THEOREM MailIsSound == MailSpec => []MailSound
BY MailInvariant, InvariantMeans, PTL

-----------------------------------------------------------------------------
(* The poll implements the ledger                                            *)

LEMMA TodoNarrows ==
  ASSUME MailTypeOK, Enqueue \/ EnqueueFails
  PROVE  /\ InStep("stored") /\ at'.step = "stored" /\ at'.todo \subseteq at.todo
         /\ UNCHANGED <<mailbox, lastUid, messages, batch, thrown, again>> /\ cut \subseteq cut'
<1>1. /\ InStep("stored") /\ at' = [at EXCEPT !.todo = @ \ {FirstOf(at.todo)}]
      /\ UNCHANGED <<mailbox, lastUid, messages, batch, thrown, again>> /\ cut \subseteq cut'
  BY DEF Enqueue, EnqueueFails, store
<1>2. at.step = "stored" /\ at \in Progress BY <1>1 DEF InStep, MailTypeOK
<1> QED BY <1>1, <1>2 DEF Progress

LEMMA UnpassedStays ==
  ASSUME LedgerIInv, MailIInv', [MailNext]_mailVars
  PROVE  Unpassed'
<1> USE DEF LedgerIInv
<1>1. /\ lastUid \in Nat
      /\ \A i \in DOMAIN messages : messages[i].uid \in Nat
  <2>1. lastUid \in Nat /\ \A i \in DOMAIN messages : messages[i] \in Message
    BY DEF MailIInv, MailTypeOK
  <2> QED BY <2>1 DEF Message
<1>2. batch # {} => Uid \in Nat /\ Uid..lastUid \subseteq again
  <2>1. batch # {} => Uid \in batch BY AtHandIsKnown DEF MailIInv
  <2>2. batch \subseteq Nat BY DEF MailIInv, MailTypeOK, Arrived
  <2>3. \A b \in batch : b..lastUid \subseteq again BY DEF MailIInv, NothingBetween
  <2> QED BY <2>1, <2>2, <2>3
<1>3. ~InStep("stored") => \A i \in DOMAIN messages :
                             lastUid < messages[i].uid => messages[i].uid \in thrown \cup cut \cup again
  BY DEF Unpassed
<1>4. ASSUME NEW e \in Incoming, Arrive(e) PROVE Unpassed'
  BY <1>4 DEF Arrive, Unpassed, InStep, Uid
<1>5. CASE Poll
  <2>1. /\ ~InStep("stored") /\ UNCHANGED <<lastUid, messages, thrown>>
        /\ cut \subseteq cut' /\ again \subseteq again'
    <3>1. PICK found \in SUBSET Arrived, errors \in {0, 1} : Fetch(found, errors)
      BY <1>5, PollFetches
    <3>2. cut \subseteq cut' /\ again \subseteq again' BY <3>1 DEF Fetch
    <3> QED BY <1>5, <3>2 DEF Poll, InStep, store
  <2> QED BY <1>3, <2>1 DEF Unpassed
<1>6. CASE Skip \/ Finish
  <2>1. /\ InStep("stored") \/ ~InStep("stored")
        /\ batch # {} /\ lastUid' = Uid /\ UNCHANGED <<messages, thrown, cut, again>>
    BY <1>6 DEF Skip, Finish, Advance, InStep
  <2> SUFFICES ASSUME NEW i \in DOMAIN messages, Uid < messages[i].uid
               PROVE  messages[i].uid \in thrown \cup cut \cup again
    BY <2>1 DEF Unpassed
  <2>2. messages[i].uid \in Nat /\ messages[i].uid # Uid /\ Uid \in Nat BY <1>1, <1>2, <2>1
  <2>3. CASE lastUid < messages[i].uid BY <2>2, <2>3 DEF Unpassed
  <2>4. CASE ~(lastUid < messages[i].uid)
    <3>1. messages[i].uid \in Uid..lastUid BY <1>1, <2>2, <2>4
    <3> QED BY <1>2, <2>1, <3>1
  <2> QED BY <2>3, <2>4
<1>7. CASE Thread
  <2>1. ~InStep("stored") /\ UNCHANGED <<lastUid, messages, thrown, cut, again>>
    BY <1>7 DEF Thread, InStep
  <2> QED BY <1>3, <2>1 DEF Unpassed
<1>8. CASE Store
  <2>1. /\ ~InStep("stored") /\ InStep("stored")' /\ Uid' = Uid
        /\ messages' = Append(messages, [uid |-> Uid, conv |-> at.conv])
        /\ UNCHANGED <<lastUid, thrown, cut, again>>
    BY <1>8 DEF Store, InStep, Uid
  <2>2. messages \in Seq(Message) BY DEF MailIInv, MailTypeOK
  <2> SUFFICES ASSUME NEW i \in DOMAIN messages', lastUid < messages'[i].uid
               PROVE  messages'[i].uid \in thrown \cup cut \cup again \/ messages'[i].uid = Uid
    BY <2>1 DEF Unpassed
  <2>3. CASE i \in DOMAIN messages
    <3>1. messages'[i] = messages[i] BY <2>1, <2>2, <2>3
    <3> QED BY <1>3, <2>1, <2>3, <3>1
  <2>4. CASE i \notin DOMAIN messages
    <3>1. messages'[i] = [uid |-> Uid, conv |-> at.conv] BY <2>1, <2>2, <2>4
    <3> QED BY <3>1
  <2> QED BY <2>3, <2>4
<1>9. CASE Enqueue \/ EnqueueFails
  <2>1. /\ InStep("stored") /\ InStep("stored")' /\ Uid' = Uid
        /\ UNCHANGED <<lastUid, messages, thrown, again>> /\ cut \subseteq cut'
    BY <1>9, TodoNarrows DEF MailIInv, InStep, Uid
  <2> QED BY <2>1 DEF Unpassed
<1>10. CASE Throw \/ Crash
  <2>1. /\ UNCHANGED <<lastUid, messages, again>> /\ Uid \in thrown' \cup cut'
        /\ thrown \subseteq thrown' /\ cut \subseteq cut'
    BY <1>10 DEF Throw, Crash, store
  <2> QED BY <2>1 DEF Unpassed
<1>11. CASE UNCHANGED mailVars
  BY <1>11 DEF mailVars, store, Unpassed, InStep, Uid
<1> QED BY <1>4, <1>5, <1>6, <1>7, <1>8, <1>9, <1>10, <1>11 DEF MailNext, Worker

LEMMA TodoStaysWanted ==
  ASSUME LedgerIInv, [MailNext]_mailVars
  PROVE  TodoWanted'
<1> USE DEF LedgerIInv
<1>1. ASSUME NEW e \in Incoming, Arrive(e) PROVE TodoWanted'
  <2>1. batch # {} => Uid \in Arrived BY AtHandIsKnown DEF MailIInv
  <2>2. \A u \in Arrived : mailbox'[u] = mailbox[u]
    BY <1>1 DEF Arrive, Arrived, MailIInv, MailTypeOK
  <2>3. batch # {} => Mail' = Mail BY <1>1, <2>1, <2>2 DEF Arrive, Mail, Uid
  <2> QED BY <1>1, <2>3 DEF Arrive, TodoWanted, InStep
<1>2. CASE Poll \/ Skip \/ Finish \/ Throw \/ Crash
  <2>1. at' = NotStarted BY <1>2 DEF Poll, Skip, Finish, Advance, Throw, Crash
  <2> QED BY <2>1 DEF NotStarted, TodoWanted, InStep
<1>3. CASE Thread
  <2>1. at'.step = "threaded" BY <1>3 DEF Thread
  <2> QED BY <2>1 DEF TodoWanted, InStep
<1>4. CASE Store
  <2>1. at'.todo = Wanted(Mail) /\ UNCHANGED <<mailbox, batch>> BY <1>4 DEF Store
  <2> QED BY <2>1 DEF TodoWanted, Mail, Uid
<1>5. CASE Enqueue \/ EnqueueFails
  <2>1. InStep("stored") /\ at'.todo \subseteq at.todo /\ UNCHANGED <<mailbox, batch>>
    BY <1>5, TodoNarrows DEF MailIInv
  <2> QED BY <2>1 DEF TodoWanted, Mail, Uid
<1>6. CASE UNCHANGED mailVars
  BY <1>6 DEF mailVars, store, TodoWanted, InStep, Mail, Uid
<1> QED BY <1>1, <1>2, <1>3, <1>4, <1>5, <1>6 DEF MailNext, Worker

\* A message the poll has not passed is the one at hand or failed before.
LEMMA LedgerInvariant == MailSpec => []LedgerIInv
<1>1. MailInit => LedgerIInv
  BY InitHolds DEF MailInit, LedgerIInv, Unpassed, TodoWanted, InStep
<1>2. LedgerIInv /\ [MailNext]_mailVars => LedgerIInv'
  BY StepKeeps, UnpassedStays, TodoStaysWanted DEF LedgerIInv
<1> QED BY <1>1, <1>2, PTL DEF MailSpec

\* What the ledger reads is what the poll reads.
LEMMA LedgerReads ==
  /\ \A id : Ledger!KeptAs(id) = WithId(id)
  /\ \A u : Ledger!IsKnown(u) <=> mailbox[u].id # NoId /\ WithId(mailbox[u].id) # {}
  /\ \A u : Ledger!Answers(u) = Answered(mailbox[u].refs)
  /\ \A u, c : Ledger!Belongs(u, c) <=>
       IF Answered(mailbox[u].refs) = {}
       THEN \A i \in DOMAIN messages : messages[i].conv # c
       ELSE \E i \in WithId(mailbox[u].refs[Min(Answered(mailbox[u].refs))]) :
              messages[i].conv = c
<1>1. \A id : Ledger!KeptAs(id) = WithId(id) BY DEF Ledger!KeptAs, WithId, IdOf
<1>2. \A u : Ledger!Answers(u) = Answered(mailbox[u].refs)
  BY <1>1 DEF Ledger!Answers, Answered
<1>3. \A S : Ledger!Min(S) = Min(S) BY DEF Ledger!Min, Min
<1>4. \A u : Ledger!IsKnown(u) <=> mailbox[u].id # NoId /\ WithId(mailbox[u].id) # {}
  BY <1>1 DEF Ledger!IsKnown
<1> QED BY <1>1, <1>2, <1>3, <1>4 DEF Ledger!Belongs

\* The e-mail at hand is one the ledger has not passed, or takes again.
LEMMA AtHandIsToDo ==
  ASSUME MailIInv, batch # {}
  PROVE  /\ Uid \in Ledger!ToDo /\ Uid \in Nat /\ Mail \in Incoming
         /\ lastUid < Uid \/ Uid \in again
<1>1. Uid \in batch /\ Uid \in Arrived /\ Mail \in Incoming BY AtHandIsKnown DEF MailIInv
<1>2. lastUid \in Nat /\ Uid \in Nat BY <1>1 DEF Arrived, MailIInv, MailTypeOK
<1>3. Uid..lastUid \subseteq again BY <1>1 DEF MailIInv, NothingBetween
<1>4. lastUid < Uid \/ Uid \in Uid..lastUid BY <1>2
<1>5. lastUid < Uid => Uid \in Ledger!Ahead BY <1>1, <1>2 DEF Ledger!Ahead, Arrived, MailIInv, MailTypeOK
<1> QED BY <1>1, <1>2, <1>3, <1>4, <1>5 DEF Ledger!ToDo

\* The e-mail at hand is still wanted until it is stored.
LEMMA AtHandIsDue ==
  ASSUME LedgerIInv, batch # {}, ~Unwanted, ~InStep("stored")
  PROVE  Ledger!Due(Uid)
<1>1. Uid \in Ledger!ToDo /\ (lastUid < Uid \/ Uid \in again)
  BY AtHandIsToDo DEF LedgerIInv
<1>2. mailbox[Uid] \notin {e \in Incoming : e.kind = "old"} BY DEF Unwanted, Mail
<1>3. ~Ledger!IsKnown(Uid) BY LedgerReads DEF Unwanted, Mail
<1>4. Ledger!IsKept(Uid) => Uid \in thrown \cup cut \cup again
  BY <1>1 DEF LedgerIInv, Unpassed, Ledger!IsKept
<1> QED BY <1>1, <1>2, <1>3, <1>4 DEF Ledger!Due

\* What the last UID passes is settled.
LEMMA AdvancePasses ==
  ASSUME LedgerIInv, MailIInv', batch # {}, Advance, ~InStep("stored") \/ at.todo = {},
         UNCHANGED <<mailbox, messages, convs, queued, thrown, cut, again>>
  PROVE  Ledger!Pass(Uid)
<1> USE DEF LedgerIInv
<1>1. lastUid' = Uid BY DEF Advance
<1>2. lastUid \in Nat /\ Uid \in Arrived BY AtHandIsKnown DEF MailIInv, MailTypeOK
<1>3. ASSUME NEW v \in Ledger!Ahead \cup {Uid}, v <= Uid, v \notin thrown \cup cut
      PROVE  Ledger!Settled(v)
  <2>1. v \in Nat /\ v \in 1..Len(mailbox)
    BY <1>2 DEF Ledger!Ahead, Arrived, MailIInv, MailTypeOK
  <2>2. v \in 1..lastUid' BY <1>1, <1>2, <1>3, <2>1 DEF Arrived
  <2>3. DoneWith(v)' BY <2>2 DEF MailIInv, NothingSkipped
  <2>4. SkippedIn(messages, mailbox, v) BY <1>3, <2>3, DoneReads
  <2>5. mailbox[v] \in Incoming BY <2>1 DEF MailIInv, MailTypeOK
  <2>6. \/ mailbox[v] \in {e \in Incoming : e.kind = "old"}
        \/ Ledger!IsKnown(v) \/ Ledger!IsKept(v)
    <3>1. CASE mailbox[v].kind = "old" BY <2>5, <3>1
    <3>2. CASE StoredIn(messages, mailbox, v)
      BY <3>2 DEF StoredIn, Ledger!IsKnown, Ledger!IsKept, Ledger!KeptAs
    <3> QED BY <2>4, <3>1, <3>2 DEF SkippedIn
  <2>7. ASSUME NEW i \in DOMAIN messages, messages[i].uid = v, NEW j \in JobsOf[mailbox[v]]
        PROVE  [message |-> i, queue |-> j] \in queued
    <3>1. j \in Wanted(mailbox[v]) \ Unusable BY <2>5, <2>7 DEF JobsOf
    <3> QED BY <1>3, <2>7, <3>1 DEF MailIInv, JobsComing
  <2> QED BY <2>6, <2>7 DEF Ledger!Settled
<1>4. \A v \in Ledger!Ahead \cup {Uid} : v <= Uid => v \in thrown \cup cut \/ Ledger!Settled(v)
  BY <1>3
<1>5. (thrown \cup cut)' = thrown \cup cut OBVIOUS
<1> QED BY <1>1, <1>4, <1>5 DEF Ledger!Pass

LEMMA LedgerStep ==
  ASSUME LedgerIInv, LedgerIInv', [MailNext]_mailVars
  PROVE  [Ledger!Next]_(Ledger!ledger)
<1> USE DEF LedgerIInv
<1>1. ASSUME NEW e \in Incoming, Arrive(e) PROVE Ledger!Next
  <2>1. Ledger!Arrive(e) BY <1>1 DEF Arrive, Ledger!Arrive
  <2> QED BY <2>1 DEF Ledger!Next
<1>2. CASE Poll \/ EnqueueFails \/ Throw \/ Crash
  <2> DEFINE us == (thrown' \cup cut') \ (thrown \cup cut)
             lost == again' \ again
  <2>1. UNCHANGED <<mailbox, lastUid, messages, convs, queued>>
    BY <1>2 DEF Poll, EnqueueFails, Throw, Crash, store
  <2>2. /\ thrown \subseteq thrown' /\ cut \subseteq cut' /\ again \subseteq again'
        /\ us \subseteq Ledger!ToDo /\ lost \subseteq 1..lastUid
    <3>1. CASE Poll
      <4>1. PICK found \in SUBSET Arrived, errors \in {0, 1} : Fetch(found, errors)
        BY <3>1, PollFetches
      <4>2. \A u \in Newer(lastUid) : u \in Ledger!ToDo
        BY DEF Newer, Arrived, Ledger!ToDo, Ledger!Ahead, MailIInv, MailTypeOK
      <4>3. cut \subseteq cut' /\ cut' \ cut \subseteq Newer(lastUid) BY <4>1 DEF Fetch
      <4>4. again \subseteq again' /\ lost \subseteq 1..lastUid BY <4>1 DEF Fetch
      <4>5. thrown' = thrown BY <3>1 DEF Poll
      <4> QED BY <4>2, <4>3, <4>4, <4>5
    <3>2. CASE EnqueueFails \/ Throw \/ Crash
      <4>1. /\ batch # {} /\ us \subseteq {Uid} /\ again' = again
            /\ thrown \subseteq thrown' /\ cut \subseteq cut'
        BY <3>2 DEF EnqueueFails, Throw, Crash, InStep
      <4> QED BY <4>1, AtHandIsToDo
    <3> QED BY <1>2, <3>1, <3>2
  <2>3. (thrown \cup cut)' = (thrown \cup cut) \cup us /\ again' = again \cup lost BY <2>2
  <2>4. Ledger!Fail(us, lost) BY <2>1, <2>3 DEF Ledger!Fail
  <2> QED BY <2>2, <2>4 DEF Ledger!Next
<1>3. CASE Skip \/ Finish
  <2>1. /\ batch # {} /\ Advance /\ (~InStep("stored") \/ at.todo = {})
        /\ UNCHANGED <<mailbox, messages, convs, queued, thrown, cut, again>>
    BY <1>3 DEF Skip, Finish, InStep
  <2>2. Ledger!Pass(Uid) BY <2>1, AdvancePasses
  <2> QED BY <2>1, <2>2, AtHandIsToDo DEF Ledger!Next
<1>4. CASE Thread
  <2>1. /\ batch # {} /\ ~Unwanted /\ ~InStep("stored")
        /\ UNCHANGED <<mailbox, lastUid, messages, queued, thrown, cut, again>>
    BY <1>4 DEF Thread, InStep
  <2>2. Ledger!Due(Uid) /\ Uid \in Ledger!ToDo BY <2>1, AtHandIsDue, AtHandIsToDo
  <2>3. CASE Answered(Mail.refs) = {}
    <3>1. convs' = convs + 1 BY <1>4, <2>3 DEF Thread
    <3>2. Ledger!Answers(Uid) = {} BY <2>3, LedgerReads DEF Mail
    <3>3. Ledger!Open(Uid) BY <2>1, <2>2, <3>1, <3>2 DEF Ledger!Open
    <3> QED BY <2>2, <3>3 DEF Ledger!Next
  <2>4. CASE Answered(Mail.refs) # {}
    <3>1. convs' = convs BY <1>4, <2>4 DEF Thread
    <3> QED BY <2>1, <3>1 DEF Ledger!ledger
  <2> QED BY <2>3, <2>4
<1>5. CASE Store
  <2>1. /\ batch # {} /\ InStep("threaded") /\ ~InStep("stored")
        /\ messages' = Append(messages, [uid |-> Uid, conv |-> at.conv])
        /\ UNCHANGED <<mailbox, lastUid, convs, queued, thrown, cut, again>>
    BY <1>5 DEF Store, InStep
  <2>2. ~Unwanted /\ at.conv \in 1..convs BY <2>1 DEF MailIInv, AtHand
  <2>3. Ledger!Due(Uid) /\ Uid \in Ledger!ToDo BY <2>1, <2>2, AtHandIsDue, AtHandIsToDo
  <2>4. Ledger!Belongs(Uid, at.conv) BY <2>1, LedgerReads DEF MailIInv, AtHand, Mail
  <2>5. Ledger!Keep(Uid, at.conv) BY <2>1, <2>3, <2>4 DEF Ledger!Keep
  <2> QED BY <2>2, <2>3, <2>5 DEF Ledger!Next
<1>6. CASE Enqueue
  <2> DEFINE f == FirstOf(at.todo)
  <2>1. /\ batch # {} /\ InStep("stored") /\ at.todo # {} /\ f \notin Unusable
        /\ queued' = queued \cup {[message |-> Len(messages), queue |-> f]}
        /\ UNCHANGED <<mailbox, lastUid, messages, convs, thrown, cut, again>>
    BY <1>6 DEF Enqueue, InStep
  <2>2. at.todo \in SUBSET Queue BY <2>1, ProgressFields DEF MailIInv, InStep
  <2>3. f \in at.todo BY <2>1, <2>2 DEF FirstOf, Queue
  <2>4. Uid \in Ledger!ToDo /\ Mail \in Incoming BY <2>1, AtHandIsToDo
  <2>5. f \in JobsOf[mailbox[Uid]]
    BY <2>1, <2>3, <2>4 DEF TodoWanted, JobsOf, Mail
  <2>6. Len(messages) \in DOMAIN messages /\ messages[Len(messages)].uid = Uid
    BY <2>1, HandIsLast DEF MailIInv
  <2>7. Ledger!Enqueue(Len(messages), f) BY <2>1, <2>4, <2>6 DEF Ledger!Enqueue
  <2> HIDE DEF f
  <2> QED BY <2>5, <2>6, <2>7 DEF Ledger!Next
<1>7. CASE UNCHANGED mailVars
  BY <1>7 DEF mailVars, store, Ledger!ledger
<1> QED BY <1>1, <1>2, <1>3, <1>4, <1>5, <1>6, <1>7 DEF MailNext, Worker

\* The poll, its errors, the deaths of the process and the reads of the last UID
\* that fail implement the ledger (services/email/index.ts:200-578).
THEOREM MailImplementsLedger == MailSpec => ImplementsLedger
<1>1. MailInit => Ledger!Init
  BY DEF MailInit, Ledger!Init
<1>2. LedgerIInv /\ LedgerIInv' /\ [MailNext]_mailVars => [Ledger!Next]_(Ledger!ledger)
  BY LedgerStep
<1> QED BY <1>1, <1>2, LedgerInvariant, PTL DEF MailSpec, ImplementsLedger, Ledger!Spec

-----------------------------------------------------------------------------
(* The analysis of the e-mails from Viator that the poll announces          *)
(*                                                                         *)
(* A run that was not overtaken has read the newest e-mail, or one behind   *)
(* the messages it reads (RunsUpToDate), and the row that announces an      *)
(* e-mail is of the newest one (AnnouncedIsNewest): whichever of the two is *)
(* written last, it is not older than an e-mail that was announced.         *)

LEMMA MaxIsGreatest ==
  ASSUME NEW n \in Nat, NEW S \in SUBSET (1..n), S # {}
  PROVE  Max(S) \in S /\ \A y \in S : y <= Max(S)
<1> DEFINE T == {n - x : x \in S}
<1>0. \A x \in S : x \in 1..n /\ n - x \in Nat OBVIOUS
<1>1. T \in SUBSET Nat /\ T # {}
  <2>1. \A t \in T : t \in Nat BY <1>0
  <2>2. PICK x \in S : TRUE OBVIOUS
  <2>3. n - x \in T BY <2>2
  <2> QED BY <2>1, <2>3
<1>2. PICK t \in T : \A u \in T : t <= u
  <2> HIDE DEF T
  <2> QED BY <1>1, LeastNatural
<1>3. PICK x \in S : t = n - x BY <1>2
<1>4. \A y \in S : n - x <= n - y BY <1>2, <1>3
<1> HIDE DEF T
<1>5. \A y \in S : y \in Nat /\ y <= n BY <1>0
<1>6. \A y \in S : x >= y /\ y <= x BY <1>4, <1>5
<1>7. Max(S) \in S /\ \A y \in S : Max(S) >= y BY <1>6 DEF Max
<1> QED BY <1>5, <1>7

\* A run reads the newest inbound message, or none.
LEMMA SelectedIsNewest ==
  ASSUME AnalysisParameters, AnalysisTypeOK
  PROVE  /\ Selected \in 0..Len(thread)
         /\ \A i \in DOMAIN thread : thread[i] = "viator" => UpToDate(Selected, i)
<1>1. Len(thread) \in Nat /\ DOMAIN thread = 1..Len(thread) BY DEF AnalysisTypeOK
<1>2. Window \in Nat BY DEF AnalysisParameters
<1>3. InboundRead \in SUBSET (1..Len(thread)) BY <1>1 DEF InboundRead
<1>4. ASSUME NEW i \in DOMAIN thread, thread[i] = "viator", i \notin InboundRead
      PROVE  i + Window <= Len(thread)
  BY <1>1, <1>2, <1>4 DEF InboundRead
<1>5. CASE InboundRead = {}
  BY <1>1, <1>4, <1>5 DEF Selected, UpToDate
<1>6. CASE InboundRead # {}
  <2> DEFINE m == Max(InboundRead)
  <2>1. m \in InboundRead /\ \A y \in InboundRead : y <= m
    BY <1>1, <1>3, <1>6, MaxIsGreatest
  <2>2. Selected = m BY <1>6 DEF Selected
  <2> HIDE DEF m
  <2>3. m \in 1..Len(thread) /\ m + Window > Len(thread)
    BY <1>3, <2>1 DEF InboundRead
  <2>4. ASSUME NEW i \in DOMAIN thread, thread[i] = "viator" PROVE i <= m
    <3>1. CASE i \in InboundRead BY <2>1, <3>1
    <3>2. CASE i \notin InboundRead
      <4>1. i + Window <= Len(thread) BY <2>4, <3>2, <1>4
      <4> QED BY <1>1, <1>2, <2>3, <4>1
    <3> QED BY <3>1, <3>2
  <2> QED BY <1>1, <2>2, <2>3, <2>4 DEF UpToDate
<1> QED BY <1>5, <1>6

LEMMA AnalysisInitHolds == AnalysisParameters /\ AnalysisInit => AnalysisIInv
<1> SUFFICES ASSUME AnalysisParameters, AnalysisInit PROVE AnalysisIInv
  OBVIOUS
<1> USE DEF AnalysisParameters, AnalysisInit
<1>1. thread = <<>> /\ Len(thread) = 0 /\ DOMAIN thread = {} /\ thread \in Seq(Writer)
  OBVIOUS
<1>2. AnalysisTypeOK
  <2>1. announced \in 0..Len(thread) BY <1>1
  <2>2. runs \in [Runs -> [message : 0..MaxMessages] \cup {NoAnalysis}] OBVIOUS
  <2>3. analysis \in AnalysisRow \cup {NoAnalysis} /\ overtaken \in BOOLEAN /\ missed \in BOOLEAN
    OBVIOUS
  <2> QED BY <1>1, <2>1, <2>2, <2>3 DEF AnalysisTypeOK
<1>3. AnnouncedIsNewest /\ RunsUpToDate /\ NewestAnalysed
  BY <1>1 DEF AnnouncedIsNewest, RunsUpToDate, NewestAnalysed
<1> QED BY <1>1, <1>2, <1>3 DEF AnalysisIInv

\* The result a run or an announcement writes.
LEMMA RowFields ==
  ASSUME AnalysisParameters, NEW s \in Result \cup {"pending"}, NEW m \in 0..MaxMessages
  PROVE  /\ [status |-> s, message |-> m] \in AnalysisRow
         /\ [status |-> s, message |-> m] # NoAnalysis
<1>1. [status |-> s, message |-> m] \in AnalysisRow BY DEF AnalysisRow
<1> QED BY <1>1 DEF AnalysisParameters

LEMMA AnalysisStore ==
  ASSUME AnalysisParameters, AnalysisIInv, NEW w \in Writer, StoreMessage(w)
  PROVE  AnalysisIInv'
<1> USE DEF AnalysisIInv
<1>1. /\ thread' = Append(thread, w) /\ Len(thread) < MaxMessages
      /\ w = "viator" => announced = 0 /\ announced' = Len(thread) + 1
      /\ w # "viator" => announced' = announced
      /\ overtaken' = (overtaken \/ (w = "viator" /\ Running))
      /\ UNCHANGED <<analysis, runs, missed>>
  BY DEF StoreMessage
<1>2. /\ thread \in Seq(Writer) /\ Len(thread) \in Nat /\ announced \in 0..Len(thread)
      /\ Window \in Nat /\ MaxMessages \in Nat
  BY DEF AnalysisTypeOK, AnalysisParameters
<1>3. /\ thread' \in Seq(Writer) /\ Len(thread') = Len(thread) + 1
      /\ thread'[Len(thread) + 1] = w
      /\ \A i \in DOMAIN thread : i \in DOMAIN thread' /\ thread'[i] = thread[i]
      /\ \A i \in DOMAIN thread' : i \in DOMAIN thread \/ i = Len(thread) + 1
      /\ \A i \in DOMAIN thread : i \in 1..Len(thread)
  BY <1>1, <1>2
<1>4. AnalysisTypeOK' BY <1>1, <1>2, <1>3 DEF AnalysisTypeOK
<1>5. AnnouncedIsNewest'
  <2> SUFFICES ASSUME announced' # 0, NEW i \in DOMAIN thread', thread'[i] = "viator"
               PROVE  i <= announced'
    BY DEF AnnouncedIsNewest
  <2>1. CASE w = "viator" BY <1>1, <1>2, <1>3, <2>1
  <2>2. CASE w # "viator" BY <1>1, <1>2, <1>3, <2>2 DEF AnnouncedIsNewest
  <2> QED BY <2>1, <2>2
<1>6. \A m \in Nat, i \in DOMAIN thread : UpToDate(m, i) => UpToDate(m, i)'
  BY <1>2, <1>3 DEF UpToDate
<1>7. RunsUpToDate'
  <2> SUFFICES ASSUME NEW r \in Runs, NEW i \in DOMAIN thread',
                      runs[r] # NoAnalysis, thread'[i] = "viator", ~overtaken'
               PROVE  UpToDate(runs[r].message, i)'
    BY <1>1 DEF RunsUpToDate
  <2>1. Running /\ ~overtaken BY <1>1 DEF Running, AnalysisTypeOK
  <2>2. i \in DOMAIN thread /\ thread[i] = "viator" BY <1>1, <1>3, <2>1
  <2>3. UpToDate(runs[r].message, i) BY <2>1, <2>2 DEF RunsUpToDate
  <2> QED BY <1>1, <1>2, <1>3, <2>2, <2>3 DEF UpToDate
<1>8. NewestAnalysed'
  <2> SUFFICES ASSUME NEW i \in DOMAIN thread', thread'[i] = "viator", i # announced',
                      ~overtaken', ~missed
               PROVE  analysis # NoAnalysis /\ UpToDate(analysis.message, i)'
    BY <1>1 DEF NewestAnalysed
  <2>1. i \in DOMAIN thread /\ thread[i] = "viator" /\ i # announced /\ ~overtaken
    <3>1. ~overtaken BY <1>1
    <3>2. CASE w = "viator"
      <4>1. i \in DOMAIN thread /\ i # 0 BY <1>1, <1>2, <1>3, <3>2
      <4> QED BY <1>1, <1>3, <3>1, <3>2, <4>1
    <3>3. CASE w # "viator"
      <4>1. i \in DOMAIN thread /\ i # announced BY <1>1, <1>3, <3>3
      <4> QED BY <1>3, <3>1, <4>1
    <3> QED BY <3>2, <3>3
  <2>2. analysis # NoAnalysis /\ UpToDate(analysis.message, i)
    BY <2>1 DEF NewestAnalysed
  <2> QED BY <1>1, <1>2, <1>3, <2>1, <2>2 DEF UpToDate
<1> QED BY <1>1, <1>2, <1>3, <1>4, <1>5, <1>7, <1>8

LEMMA AnalysisStep ==
  AnalysisParameters /\ AnalysisIInv /\ [AnalysisNext]_analysisVars => AnalysisIInv'
<1> SUFFICES ASSUME AnalysisParameters, AnalysisIInv, [AnalysisNext]_analysisVars PROVE AnalysisIInv'
  OBVIOUS
<1> USE DEF AnalysisIInv
<1>0. /\ MaxMessages \in Nat /\ Window \in Nat /\ Len(thread) \in Nat
      /\ 0..Len(thread) \subseteq 0..MaxMessages
  BY DEF AnalysisParameters, AnalysisTypeOK
<1>1. ASSUME NEW w \in Writer, StoreMessage(w) PROVE AnalysisIInv' BY <1>1, AnalysisStore
<1>2. CASE Announce
  <2>1. /\ announced # 0 /\ analysis' = [status |-> "pending", message |-> announced]
        /\ announced' = 0 /\ overtaken' = (overtaken /\ Running)
        /\ UNCHANGED <<thread, runs, missed>>
    BY <1>2 DEF Announce
  <2>2. announced \in 0..MaxMessages BY <1>0 DEF AnalysisTypeOK
  <2>3. analysis' \in AnalysisRow /\ analysis' # NoAnalysis BY <2>1, <2>2, RowFields
  <2>4. AnalysisTypeOK' BY <1>0, <2>1, <2>3 DEF AnalysisTypeOK
  <2>5. AnnouncedIsNewest' BY <2>1 DEF AnnouncedIsNewest
  <2>6. RunsUpToDate' BY <2>1 DEF RunsUpToDate, UpToDate, Running
  <2>7. NewestAnalysed'
    BY <1>0, <2>1, <2>2, <2>3 DEF NewestAnalysed, UpToDate, AnnouncedIsNewest, AnalysisTypeOK
  <2> QED BY <2>1, <2>4, <2>5, <2>6, <2>7
<1>3. CASE AnnounceFails
  BY <1>0, <1>3 DEF AnnounceFails, AnalysisTypeOK, AnnouncedIsNewest, RunsUpToDate, UpToDate,
     NewestAnalysed
<1>4. ASSUME NEW r \in Runs, BeginRun(r) PROVE AnalysisIInv'
  <2>1. /\ runs' = [runs EXCEPT ![r] = [message |-> Selected]]
        /\ UNCHANGED <<thread, announced, analysis, overtaken, missed>>
    BY <1>4 DEF BeginRun
  <2>2. Selected \in 0..MaxMessages BY <1>0, SelectedIsNewest
  <2>3. AnalysisTypeOK' BY <2>1, <2>2 DEF AnalysisTypeOK
  <2>4. AnnouncedIsNewest' BY <2>1 DEF AnnouncedIsNewest
  <2>5. RunsUpToDate'
    <3> SUFFICES ASSUME NEW q \in Runs, NEW i \in DOMAIN thread,
                        runs'[q] # NoAnalysis, thread[i] = "viator", ~overtaken
                 PROVE  UpToDate(runs'[q].message, i)
      BY <2>1 DEF RunsUpToDate, UpToDate
    <3>1. CASE q = r
      <4>1. runs'[q].message = Selected BY <2>1, <3>1 DEF AnalysisTypeOK
      <4> QED BY <4>1, SelectedIsNewest
    <3>2. CASE q # r
      <4>1. runs'[q] = runs[q] BY <2>1, <3>2 DEF AnalysisTypeOK
      <4> QED BY <4>1 DEF RunsUpToDate
    <3> QED BY <3>1, <3>2
  <2>6. NewestAnalysed' BY <2>1 DEF NewestAnalysed, UpToDate
  <2> QED BY <2>1, <2>3, <2>4, <2>5, <2>6
<1>5. ASSUME NEW r \in Runs, Persist(r) \/ RunThrows(r) PROVE AnalysisIInv'
  <2>1. /\ runs[r] # NoAnalysis /\ runs' = [runs EXCEPT ![r] = NoAnalysis]
        /\ UNCHANGED <<thread, announced, overtaken, missed>>
    BY <1>5 DEF Persist, RunThrows
  <2>2. analysis' = analysis
          \/ \E s \in Result : analysis' = [status |-> s, message |-> runs[r].message]
    BY <1>5 DEF Persist, RunThrows, Result
  <2>3. runs[r].message \in 0..MaxMessages BY <2>1 DEF AnalysisTypeOK
  <2>4. \/ analysis' = analysis
        \/ analysis' \in AnalysisRow /\ analysis' # NoAnalysis /\ analysis'.message = runs[r].message
    <3>1. ASSUME NEW s \in Result, analysis' = [status |-> s, message |-> runs[r].message]
          PROVE  analysis' \in AnalysisRow /\ analysis' # NoAnalysis
                 /\ analysis'.message = runs[r].message
      BY <2>3, <3>1, RowFields
    <3> QED BY <2>2, <3>1
  <2>5. AnalysisTypeOK' BY <2>1, <2>4 DEF AnalysisTypeOK
  <2>6. AnnouncedIsNewest' BY <2>1 DEF AnnouncedIsNewest
  <2>7. \A q \in Runs : runs'[q] = NoAnalysis \/ runs'[q] = runs[q] BY <2>1 DEF AnalysisTypeOK
  <2>8. RunsUpToDate' BY <2>1, <2>7 DEF RunsUpToDate, UpToDate
  <2>9. NewestAnalysed'
    BY <2>1, <2>4 DEF NewestAnalysed, UpToDate, RunsUpToDate
  <2> QED BY <2>1, <2>5, <2>6, <2>8, <2>9
<1>6. CASE UNCHANGED analysisVars
  BY <1>6 DEF analysisVars, AnalysisTypeOK, AnnouncedIsNewest, RunsUpToDate, UpToDate,
              NewestAnalysed
<1> QED BY <1>1, <1>2, <1>3, <1>4, <1>5, <1>6 DEF AnalysisNext

\* However runs and e-mails interleave, the analysis shown is not about an older
\* e-mail than the newest one of Viator that was announced, but for a run that
\* was in flight when it came (conversation-event.service.ts:151-369).
THEOREM AnalysisIsSound == AnalysisSpec => []AnalysisSound
<1>1. AnalysisSpec => []AnalysisIInv
  BY AnalysisInitHolds, AnalysisStep, AnalysisAssumption, PTL DEF AnalysisSpec
<1>2. AnalysisIInv => AnalysisSound BY DEF AnalysisIInv, AnalysisSound
<1> QED BY <1>1, <1>2, PTL

-----------------------------------------------------------------------------
(* What the thread of the inbox shows (InboxComposer)                        *)

LEMMA NewestIsGreatest ==
  ASSUME NEW S \in SUBSET Drafts, S # {}
  PROVE  Newest(S) \in S /\ \A e \in S : e <= Newest(S)
<1>1. MaxDrafts \in Nat /\ S \in SUBSET (1..MaxDrafts)
  BY InboxAssumption DEF InboxParameters, Drafts
<1>2. \E d \in S : \A e \in S : e <= d BY <1>1, MaxIsGreatest
<1> QED BY <1>2 DEF Newest

LEMMA NothingIsApart ==
  /\ Nothing \notin Inbox /\ Nothing \notin Drafts /\ Nothing \notin Text /\ Nothing \notin Card
  /\ Inbox \subseteq Text /\ Drafts \subseteq Text
BY InboxAssumption DEF InboxParameters, Text

\* A draft is written once, for one conversation, and dealt with once.
DraftsStay ==
  \A d \in Drafts :
    \/ drafts'[d] = drafts[d]
    \/ /\ drafts[d].status = "none"
       /\ drafts'[d].conv \in Inbox /\ drafts'[d].status \in {"pending", "failed"}
    \/ /\ drafts[d].status = "pending"
       /\ drafts'[d].conv = drafts[d].conv /\ drafts'[d].status \in {"sent", "rejected"}

LEMMA ForStays ==
  ASSUME NEW t, NEW c, DraftsStay, For(t, c)
  PROVE  For(t, c)'
BY DEF DraftsStay, For

LEMMA CardIsListed ==
  ASSUME NEW list, NEW c, CardOf(list, c) # Nothing
  PROVE  CardOf(list, c) \in Listed(list, c)
<1>1. Listed(list, c) \in SUBSET Drafts BY DEF Listed
<1>2. Listed(list, c) # {} BY DEF CardOf
<1> QED BY <1>1, <1>2, NewestIsGreatest DEF CardOf

\* What the polls bring is in the table.
Known(list) == \A d \in Drafts : list[d] # "none" => drafts[d].status # "none"

LEMMA MountedBelongs ==
  ASSUME ShownWasSo, NEW list, Known(list), NEW c, NEW old \in Card \cup {Nothing},
         old # Nothing => For(old.text, c)
  PROVE  /\ Mounted(list, c, old) \in Card \cup {Nothing}
         /\ Mounted(list, c, old) # Nothing =>
              c # Nothing /\ For(Mounted(list, c, old).text, c)
         /\ CardOf(list, c) # Nothing => Mounted(list, c, old) # Nothing
<1>1. CASE CardOf(list, c) = Nothing
  <2>1. Mounted(list, c, old) = Nothing BY <1>1 DEF Mounted
  <2> QED BY <1>1, <2>1
<1>2. CASE CardOf(list, c) # Nothing
  <2> DEFINE d == CardOf(list, c)
  <2>1. d \in Drafts /\ list[d] # "none" /\ drafts[d].conv = c
    BY <1>2, CardIsListed DEF Listed
  <2>2. drafts[d].status # "none" /\ c \in Inbox BY <2>1 DEF Known, ShownWasSo
  <2>3. c # Nothing /\ For(d, c) BY <2>1, <2>2, NothingIsApart DEF For
  <2>4. CASE old = Nothing
    <3>1. Mounted(list, c, old) = [text |-> d, editing |-> FALSE] BY <1>2, <2>4 DEF Mounted
    <3>2. [text |-> d, editing |-> FALSE] \in Card BY <2>1, NothingIsApart DEF Card
    <3>3. Mounted(list, c, old) \in Card /\ Mounted(list, c, old).text = d BY <3>1, <3>2
    <3> HIDE DEF d
    <3> QED BY <2>3, <3>3, NothingIsApart
  <2>5. CASE old # Nothing
    <3>1. Mounted(list, c, old) = old BY <1>2, <2>5 DEF Mounted
    <3> QED BY <2>3, <2>5, <3>1
  <2> QED BY <2>4, <2>5
<1> QED BY <1>1, <1>2

\* The effect finds the draft, or leaves the generation as it is.
LEMMA SettledIsThere ==
  ASSUME NEW g \in Generation \cup {Nothing}, NEW list
  PROVE  /\ Settled(g, list) \in Generation \cup {Nothing}
         /\ \/ Settled(g, list) = g
            \/ /\ Settled(g, list).baseline = g.baseline
               /\ Settled(g, list).phase = "ready" =>
                    \E d \in Listed(list, selected) \ g.baseline : list[d] # "failed"
<1>1. CASE ~UnderWay(g) BY <1>1 DEF Settled
<1>2. CASE UnderWay(g)
  <2> DEFINE new == {d \in Listed(list, selected) \ g.baseline : drafts[d].conv = g.tracked}
  <2>1. CASE new = {} BY <1>2, <2>1 DEF Settled
  <2>2. CASE new # {}
    <3> DEFINE p == IF list[Newest(new)] = "failed" THEN "error" ELSE "ready"
    <3>1. Settled(g, list) = [g EXCEPT !.phase = p] BY <1>2, <2>2 DEF Settled
    <3>2. new \in SUBSET Drafts BY DEF Listed
    <3>3. Newest(new) \in new BY <2>2, <3>2, NewestIsGreatest
    <3>4. g \in Generation BY <1>2 DEF UnderWay
    <3>5. p \in {"error", "ready"} /\ (p = "ready" => list[Newest(new)] # "failed") OBVIOUS
    <3>6. Newest(new) \in Listed(list, selected) \ g.baseline BY <3>3
    <3> HIDE DEF p, new
    <3>7. /\ [g EXCEPT !.phase = p] \in Generation
          /\ [g EXCEPT !.phase = p].baseline = g.baseline
          /\ [g EXCEPT !.phase = p].phase = p
      BY <3>4, <3>5 DEF Generation
    <3> QED BY <3>1, <3>5, <3>6, <3>7
  <2> QED BY <2>1, <2>2
<1> QED BY <1>1, <1>2

LEMMA ShownStays ==
  ASSUME ShownWasSo, ShownWasSo', DraftsStay, UNCHANGED <<shown, selected>>
  PROVE  Listed(shown, selected)' = Listed(shown, selected) /\ Shown' = Shown
<1>1. \A d \in Drafts : shown[d] # "none" => drafts'[d].conv = drafts[d].conv
  BY DEF ShownWasSo, DraftsStay
<1>2. Listed(shown, selected)' = Listed(shown, selected) BY <1>1 DEF Listed
<1> QED BY <1>2 DEF Shown, CardOf

-----------------------------------------------------------------------------
(* The table                                                                 *)

LEMMA TableKept ==
  ASSUME InboxTypeOK, ShownWasSo, [InboxNext]_inboxVars
  PROVE  DraftsStay /\ drafts' \in [Drafts -> [conv : Inbox \cup {Nothing}, status : Status]]
<1> DEFINE Typed == drafts' \in [Drafts -> [conv : Inbox \cup {Nothing}, status : Status]]
<1>1. CASE Arrives
  <2>1. PICK c \in Inbox : \E d \in Drafts, status \in {"pending", "failed"} :
          /\ drafts[d].status = "none"
          /\ drafts' = [drafts EXCEPT ![d] = [conv |-> c, status |-> status]]
    BY <1>1 DEF Arrives
  <2>2. PICK d \in Drafts, status \in {"pending", "failed"} :
          /\ drafts[d].status = "none"
          /\ drafts' = [drafts EXCEPT ![d] = [conv |-> c, status |-> status]]
    BY <2>1
  <2> QED BY <2>2 DEF InboxTypeOK, DraftsStay, Status
<1>2. ASSUME NEW d \in Drafts, NEW status \in {"sent", "rejected"},
             drafts[d].status = "pending",
             drafts' = [drafts EXCEPT ![d].status = status]
      PROVE  DraftsStay /\ Typed
  BY <1>2 DEF InboxTypeOK, DraftsStay, Status
<1>3. CASE Elsewhere
  <2>1. PICK d \in Drafts, status \in {"sent", "rejected"} :
          drafts[d].status = "pending" /\ drafts' = [drafts EXCEPT ![d].status = status]
    BY <1>3 DEF Elsewhere
  <2> QED BY <1>2, <2>1
<1>4. CASE UNCHANGED drafts BY <1>4 DEF InboxTypeOK, DraftsStay
<1>5. CASE Handles
  <2>1. sending \in Sending BY <1>5 DEF Handles, InboxTypeOK
  <2>2. sending.draft \in Drafts \cup {Nothing} BY <2>1 DEF Sending
  <2>3. \/ UNCHANGED drafts
        \/ /\ sending.draft # Nothing
           /\ drafts[sending.draft] = [conv |-> sending.to, status |-> "pending"]
           /\ drafts' = [drafts EXCEPT ![sending.draft].status = "sent"]
    BY <1>5 DEF Handles
  <2> QED BY <1>2, <1>4, <2>2, <2>3
<1>6. CASE HandlesRejection
  <2>1. rejecting.draft \in Drafts BY <1>6 DEF HandlesRejection, InboxTypeOK
  <2>2. \/ UNCHANGED drafts
        \/ /\ drafts[rejecting.draft].status = "pending"
           /\ drafts' = [drafts EXCEPT ![rejecting.draft].status = "rejected"]
    BY <1>6 DEF HandlesRejection
  <2> QED BY <1>2, <1>4, <2>1, <2>2
<1>7. CASE Select \/ PollDrafts \/ Type \/ handleSendMessage \/ Sent
  BY <1>4, <1>7 DEF Select, PollDrafts, Type, handleSendMessage, Sent
<1>8. CASE handleEdit \/ EditDraft \/ handleCancel \/ handleApproveDraft \/ handleRejectDraft
           \/ Rejected
  BY <1>4, <1>8
     DEF handleEdit, EditDraft, handleCancel, handleApproveDraft, handleRejectDraft, Rejected
<1>9. CASE handleGenerate \/ handleRegenerate \/ retryGeneration \/ Ordered \/ Timers
  BY <1>4, <1>9 DEF handleGenerate, handleRegenerate, retryGeneration, Order, Ordered, Timers
<1>10. CASE GoesOut \/ OrderGoesOut BY <1>4, <1>10 DEF GoesOut, OrderGoesOut
<1>11. CASE UNCHANGED inboxVars BY <1>4, <1>11 DEF inboxVars
<1> QED
  BY <1>1, <1>3, <1>5, <1>6, <1>7, <1>8, <1>9, <1>10, <1>11 DEF InboxNext

\* A poll brings the status the draft has, and the others keep theirs.
LEMMA ShownIsOfTable ==
  ASSUME InboxTypeOK, ShownWasSo, [InboxNext]_inboxVars
  PROVE  /\ shown' \in [Drafts -> Status]
         /\ \A d \in Drafts : shown'[d] = shown[d] \/ shown'[d] = drafts'[d].status
<1>1. CASE UNCHANGED shown BY <1>1 DEF InboxTypeOK
<1>2. CASE PollDrafts
  <2>1. \A d \in Drafts : drafts[d].status \in Status BY DEF InboxTypeOK
  <2>2. shown' = [d \in Drafts |-> IF drafts[d].conv = selected THEN drafts[d].status
                                   ELSE shown[d]] /\ drafts' = drafts
    BY <1>2 DEF PollDrafts
  <2> QED BY <2>1, <2>2 DEF InboxTypeOK
<1>3. CASE Arrives \/ Elsewhere \/ Handles \/ HandlesRejection
  BY <1>1, <1>3 DEF Arrives, Elsewhere, Handles, HandlesRejection
<1>4. CASE Select \/ Type \/ handleSendMessage \/ Sent
  BY <1>1, <1>4 DEF Select, Type, handleSendMessage, Sent
<1>5. CASE handleEdit \/ EditDraft \/ handleCancel \/ handleApproveDraft \/ handleRejectDraft
           \/ Rejected
  BY <1>1, <1>5
     DEF handleEdit, EditDraft, handleCancel, handleApproveDraft, handleRejectDraft, Rejected
<1>6. CASE handleGenerate \/ handleRegenerate \/ retryGeneration \/ Ordered \/ Timers
  BY <1>1, <1>6 DEF handleGenerate, handleRegenerate, retryGeneration, Order, Ordered, Timers
<1>7. CASE GoesOut \/ OrderGoesOut BY <1>1, <1>7 DEF GoesOut, OrderGoesOut
<1>8. CASE UNCHANGED inboxVars BY <1>1, <1>8 DEF inboxVars
<1> QED BY <1>2, <1>3, <1>4, <1>5, <1>6, <1>7, <1>8 DEF InboxNext

LEMMA ShownStaysSo ==
  ASSUME InboxTypeOK, ShownWasSo, [InboxNext]_inboxVars
  PROVE  ShownWasSo'
<1> SUFFICES ASSUME NEW d \in Drafts
             PROVE  /\ drafts'[d].status # "none" => drafts'[d].conv \in Inbox
                    /\ shown'[d] # "none" => drafts'[d].status # "none"
                    /\ shown'[d] \notin {"none", "failed"} => drafts'[d].status # "failed"
  BY DEF ShownWasSo
<1>1. shown'[d] = shown[d] \/ shown'[d] = drafts'[d].status BY ShownIsOfTable
<1>2. \/ drafts'[d] = drafts[d]
      \/ /\ drafts[d].status = "none"
         /\ drafts'[d].conv \in Inbox /\ drafts'[d].status \in {"pending", "failed"}
      \/ /\ drafts[d].status = "pending"
         /\ drafts'[d].conv = drafts[d].conv /\ drafts'[d].status \in {"sent", "rejected"}
  BY TableKept DEF DraftsStay
<1>3. /\ drafts[d].status # "none" => drafts[d].conv \in Inbox
      /\ shown[d] # "none" => drafts[d].status # "none"
      /\ shown[d] \notin {"none", "failed"} => drafts[d].status # "failed"
  BY DEF ShownWasSo
<1> QED BY <1>1, <1>2, <1>3

-----------------------------------------------------------------------------
(* What is on the screen is of the conversation on it                        *)

LEMMA ShownBelongs ==
  ASSUME ShownWasSo, Shown # Nothing
  PROVE  /\ Shown \in Listed(shown, selected) /\ Shown \in Drafts
         /\ selected \in Inbox /\ selected # Nothing /\ For(Shown, selected)
<1>1. Shown \in Listed(shown, selected) BY CardIsListed DEF Shown
<1>2. Shown \in Drafts /\ shown[Shown] # "none" /\ drafts[Shown].conv = selected
  BY <1>1 DEF Listed
<1> QED BY <1>1, <1>2, NothingIsApart DEF ShownWasSo, For

\* What was of the conversation on the screen still is.
LEMMA ScreenStays ==
  ASSUME InboxTypeOK, ShownWasSo, ScreenBelongs, [InboxNext]_inboxVars,
         UNCHANGED <<shown, selected>>,
         composer' # Nothing => selected # Nothing /\ For(composer', selected),
         \/ card' = card
         \/ card # Nothing /\ card' # Nothing /\ For(card'.text, selected)
  PROVE  ScreenBelongs'
<1>1. DraftsStay BY TableKept
<1>2. Shown' = Shown BY <1>1, ShownStaysSo, ShownStays
<1>3. \A t : For(t, selected) => For(t, selected)'
  BY <1>1 DEF DraftsStay, For
<1> QED BY <1>1, <1>2, <1>3, NothingIsApart DEF ScreenBelongs, For, DraftsStay

LEMMA CardFields ==
  ASSUME InboxTypeOK, ScreenBelongs, card # Nothing
  PROVE  /\ card \in Card /\ card.text \in Text /\ selected # Nothing /\ For(card.text, selected)
         /\ \A b \in BOOLEAN :
              /\ [card EXCEPT !.editing = b] \in Card
              /\ [card EXCEPT !.editing = b].text = card.text
         /\ \A t \in Text :
              [card EXCEPT !.text = t] \in Card /\ [card EXCEPT !.text = t].text = t
BY DEF InboxTypeOK, ScreenBelongs, Card

LEMMA ScreenKept ==
  ASSUME InboxTypeOK, ShownWasSo, ScreenBelongs, [InboxNext]_inboxVars
  PROVE  /\ ScreenBelongs'
         /\ selected' \in Inbox \cup {Nothing} /\ composer' \in Text \cup {Nothing}
         /\ card' \in Card \cup {Nothing}
<1> DEFINE Kept ==
      /\ ScreenBelongs'
      /\ selected' \in Inbox \cup {Nothing} /\ composer' \in Text \cup {Nothing}
      /\ card' \in Card \cup {Nothing}
<1> USE NothingIsApart
<1>1. /\ selected \in Inbox \cup {Nothing} /\ composer \in Text \cup {Nothing}
      /\ card \in Card \cup {Nothing}
      /\ composer # Nothing => selected # Nothing /\ For(composer, selected)
  BY DEF InboxTypeOK, ScreenBelongs
<1>2. ASSUME UNCHANGED <<shown, selected, card>>, composer' = composer \/ composer' = Nothing
      PROVE  Kept
  BY <1>1, <1>2, ScreenStays
<1>3. CASE Arrives \/ Elsewhere \/ Handles \/ HandlesRejection
  BY <1>2, <1>3 DEF Arrives, Elsewhere, Handles, HandlesRejection, screen
<1>4. CASE handleSendMessage \/ Sent \/ handleRejectDraft \/ Rejected
  BY <1>2, <1>4 DEF handleSendMessage, Sent, handleRejectDraft, Rejected, screen
<1>5. CASE GoesOut \/ OrderGoesOut \/ handleGenerate \/ handleRegenerate \/ retryGeneration
           \/ Ordered \/ Timers
  BY <1>2, <1>5 DEF GoesOut, OrderGoesOut, handleGenerate, handleRegenerate, retryGeneration,
                    Order, Ordered, Timers, screen
<1>6. CASE UNCHANGED inboxVars BY <1>2, <1>6 DEF inboxVars, screen
<1>7. CASE Type
  <2>1. /\ composer' \in {selected, Nothing} /\ selected # Nothing
        /\ UNCHANGED <<shown, selected, card>>
    BY <1>7 DEF Type
  <2>2. For(selected, selected) BY DEF For
  <2>3. composer' # Nothing => For(composer', selected) BY <2>1, <2>2
  <2>4. ScreenBelongs' BY <2>1, <2>3, ScreenStays
  <2> QED BY <1>1, <2>1, <2>4
<1>8. ASSUME Pending PROVE /\ card # Nothing /\ Shown \in Drafts /\ For(Shown, selected)
  BY <1>8, ShownBelongs DEF Pending, ScreenBelongs
<1>9. CASE handleEdit
  <2>1. card # Nothing /\ card' = [card EXCEPT !.editing = TRUE]
        /\ UNCHANGED <<shown, selected, composer>>
    BY <1>8, <1>9 DEF handleEdit
  <2>2. card' \in Card /\ card'.text = card.text /\ For(card.text, selected)
    BY <2>1, CardFields
  <2>3. ScreenBelongs' BY <1>1, <2>1, <2>2, ScreenStays
  <2> QED BY <1>1, <2>1, <2>2, <2>3
<1>10. CASE EditDraft
  <2>1. card # Nothing /\ card' = [card EXCEPT !.text = selected]
        /\ UNCHANGED <<shown, selected, composer>>
    BY <1>8, <1>10 DEF EditDraft
  <2>2. selected # Nothing BY <2>1, CardFields
  <2>3. selected \in Text BY <1>1, <2>2
  <2>4. card' \in Card /\ card'.text = selected /\ For(selected, selected)
    BY <2>1, <2>3, CardFields DEF For
  <2>5. ScreenBelongs' BY <1>1, <2>1, <2>4, ScreenStays
  <2> QED BY <1>1, <2>1, <2>4, <2>5
<1>11. CASE handleCancel
  <2>1. /\ card # Nothing /\ card' = [text |-> Shown, editing |-> FALSE]
        /\ Shown \in Drafts /\ For(Shown, selected)
        /\ UNCHANGED <<shown, selected, composer>>
    BY <1>8, <1>11 DEF handleCancel
  <2>2. card' \in Card /\ card'.text = Shown BY <2>1 DEF Card
  <2>3. ScreenBelongs' BY <1>1, <2>1, <2>2, ScreenStays
  <2> QED BY <1>1, <2>1, <2>2, <2>3
<1>12. CASE handleApproveDraft
  <2>1. /\ card # Nothing /\ card' = [card EXCEPT !.editing = FALSE]
        /\ Shown \in Drafts /\ For(Shown, selected)
        /\ composer' = IF card.editing THEN card.text ELSE Shown
        /\ UNCHANGED <<shown, selected>>
    BY <1>8, <1>12 DEF handleApproveDraft
  <2>2. /\ card' \in Card /\ card'.text = card.text /\ For(card.text, selected)
        /\ card.text \in Text /\ selected # Nothing
    BY <2>1, CardFields
  <2>3. composer' \in Text /\ For(composer', selected)
    <3>1. CASE card.editing BY <2>1, <2>2, <3>1
    <3>2. CASE ~card.editing BY <2>1, <2>2, <3>2
    <3> QED BY <3>1, <3>2
  <2>4. ScreenBelongs' BY <1>1, <2>1, <2>2, <2>3, ScreenStays
  <2> QED BY <1>1, <2>1, <2>2, <2>3, <2>4
<1>13. Known(shown) BY DEF Known, ShownWasSo
<1>14. CASE Select
  <2>1. PICK c \in Inbox \cup {Nothing} :
          selected' = c /\ composer' = Nothing /\ card' = Mounted(shown, c, Nothing)
    BY <1>14 DEF Select
  <2>2. drafts' = drafts /\ shown' = shown BY <1>14 DEF Select
  <2>3. /\ Mounted(shown, c, Nothing) \in Card \cup {Nothing}
        /\ Mounted(shown, c, Nothing) # Nothing =>
             c # Nothing /\ For(Mounted(shown, c, Nothing).text, c)
        /\ CardOf(shown, c) # Nothing => Mounted(shown, c, Nothing) # Nothing
    BY <1>13, MountedBelongs
  <2>4. Shown' = CardOf(shown, c) BY <2>1, <2>2 DEF Shown, CardOf, Listed
  <2>5. ScreenBelongs' BY <2>1, <2>2, <2>3, <2>4 DEF ScreenBelongs, For
  <2> QED BY <2>1, <2>3, <2>5
<1>15. CASE PollDrafts
  <2>1. PICK list : list = shown' OBVIOUS
  <2>2. /\ list = [d \in Drafts |-> IF drafts[d].conv = selected THEN drafts[d].status
                                    ELSE shown[d]]
        /\ card' = Mounted(list, selected, card)
        /\ drafts' = drafts /\ selected' = selected /\ composer' = composer
    BY <1>15, <2>1 DEF PollDrafts
  <2>3. Known(list) BY <1>13, <2>2 DEF Known
  <2>4. card # Nothing => For(card.text, selected) BY DEF ScreenBelongs
  <2>5. /\ Mounted(list, selected, card) \in Card \cup {Nothing}
        /\ Mounted(list, selected, card) # Nothing =>
             selected # Nothing /\ For(Mounted(list, selected, card).text, selected)
        /\ CardOf(list, selected) # Nothing => Mounted(list, selected, card) # Nothing
    BY <1>1, <2>3, <2>4, MountedBelongs
  <2>6. Shown' = CardOf(list, selected) BY <2>1, <2>2 DEF Shown, CardOf, Listed
  <2>7. ScreenBelongs' BY <1>1, <2>2, <2>5, <2>6 DEF ScreenBelongs, For
  <2> QED BY <1>1, <2>2, <2>5, <2>7
<1> QED
  BY <1>3, <1>4, <1>5, <1>6, <1>7, <1>9, <1>10, <1>11, <1>12, <1>14, <1>15 DEF InboxNext

-----------------------------------------------------------------------------
(* What is being sent                                                        *)

SendingTyped ==
  /\ prepared \in Drafts \cup {Nothing}
  /\ rejecting \in [draft : Drafts, prepared : BOOLEAN, answer : Answer] \cup {Nothing}
  /\ sending \in Sending \cup {Nothing}
  /\ mail \in [to : Inbox, text : Text, read : Text] \cup {Nothing}

LEMMA OfDraftStays ==
  ASSUME DraftsStay, NEW t, NEW d \in Drafts, OfDraft(t, d)
  PROVE  OfDraft(t, d)'
<1>1. drafts'[d].status # "none" /\ drafts'[d].conv = drafts[d].conv
  BY DEF DraftsStay, OfDraft
<1>2. PICK c : c = drafts[d].conv OBVIOUS
<1>3. For(t, c) BY <1>2 DEF OfDraft
<1>4. For(t, c)' BY <1>3, ForStays
<1> QED BY <1>1, <1>2, <1>4 DEF OfDraft, For

\* A text that belongs to what is sent belongs to it after any step.
LEMMA SendingStays ==
  ASSUME InboxTypeOK, DraftsStay, SendingBelongs, UNCHANGED <<sending, mail>>,
         prepared' # Nothing => selected' # Nothing /\ For(prepared', selected')
  PROVE  SendingBelongs'
<1>1. \A t, c : For(t, c) => For(t, c)' BY DEF DraftsStay, For
<1>2. prepared' # Nothing => For(prepared, selected)' BY <1>1 DEF For
<1>3. sending # Nothing /\ sending.draft # Nothing => OfDraft(sending.read, sending.draft)'
  <2> SUFFICES ASSUME sending # Nothing, sending.draft # Nothing
               PROVE  OfDraft(sending.read, sending.draft)'
    OBVIOUS
  <2>1. sending.draft \in Drafts BY DEF InboxTypeOK, Sending
  <2>2. OfDraft(sending.read, sending.draft) BY DEF SendingBelongs
  <2>3. PICK d \in Drafts : d = sending.draft BY <2>1
  <2>4. PICK t : t = sending.read OBVIOUS
  <2>5. OfDraft(t, d)' BY <2>2, <2>3, <2>4, OfDraftStays
  <2> QED BY <2>3, <2>4, <2>5 DEF OfDraft, For
<1>4. sending # Nothing /\ ~sending.waited => For(sending.read, sending.to)'
  BY <1>1 DEF SendingBelongs, For
<1>5. mail # Nothing => \/ For(mail.text, mail.to)'
                        \/ Strays(sending)'
  BY <1>1 DEF SendingBelongs, For, Strays
<1> QED BY <1>2, <1>3, <1>4, <1>5 DEF SendingBelongs

LEMMA SendingFields ==
  ASSUME sending \in Sending
  PROVE  /\ sending.to \in Inbox \cup {Nothing} /\ sending.read \in Text
         /\ sending.draft \in Drafts \cup {Nothing} /\ sending.waited \in BOOLEAN
         /\ \A a \in Answer :
              /\ [sending EXCEPT !.answer = a] \in Sending
              /\ [sending EXCEPT !.answer = a].answer = a
              /\ [sending EXCEPT !.answer = a].to = sending.to
              /\ [sending EXCEPT !.answer = a].read = sending.read
              /\ [sending EXCEPT !.answer = a].draft = sending.draft
              /\ [sending EXCEPT !.answer = a].text = sending.text
              /\ [sending EXCEPT !.answer = a].waited = sending.waited
         /\ \A c \in Inbox \cup {Nothing} :
              /\ [sending EXCEPT !.to = c, !.waited = TRUE] \in Sending
              /\ [sending EXCEPT !.to = c, !.waited = TRUE].answer = sending.answer
              /\ [sending EXCEPT !.to = c, !.waited = TRUE].to = c
              /\ [sending EXCEPT !.to = c, !.waited = TRUE].read = sending.read
              /\ [sending EXCEPT !.to = c, !.waited = TRUE].draft = sending.draft
              /\ [sending EXCEPT !.to = c, !.waited = TRUE].text = sending.text
              /\ [sending EXCEPT !.to = c, !.waited = TRUE].waited = TRUE
BY DEF Sending

\* A draft is sent in its own conversation only, whatever the request waited for.
LEMMA HandlesKeeps ==
  ASSUME InboxTypeOK, ShownWasSo, SendingBelongs, NothingOverwritten, DraftsStay, Handles
  PROVE  SendingTyped' /\ SendingBelongs' /\ NothingOverwritten'
<1> USE NothingIsApart
<1>1. sending \in Sending /\ sending # Nothing /\ sending.answer = "none"
  BY DEF Handles, InboxTypeOK
<1>2. PICK ok \in BOOLEAN :
        /\ sending' = [sending EXCEPT !.answer = IF ok THEN "ok" ELSE "error"]
        /\ IF sending.draft = Nothing
           THEN /\ ok => sending.to # Nothing
                /\ IF ok THEN Mails(sending.to, sending.text) ELSE UNCHANGED mail
           ELSE /\ ok => drafts[sending.draft] = [conv |-> sending.to, status |-> "pending"]
                /\ IF ok THEN Mails(sending.to, IF sending.text = Nothing THEN sending.draft
                                                ELSE sending.text)
                   ELSE UNCHANGED mail
  BY DEF Handles
<1>3. PICK a \in Answer :
        /\ a = IF ok THEN "ok" ELSE "error"
        /\ sending' = [sending EXCEPT !.answer = a]
  <2>1. (IF ok THEN "ok" ELSE "error") \in Answer BY DEF Answer
  <2> QED BY <1>2, <2>1
<1>4. /\ sending' \in Sending /\ sending'.answer = a
      /\ sending'.to = sending.to /\ sending'.read = sending.read
      /\ sending'.draft = sending.draft /\ sending'.text = sending.text
      /\ sending'.waited = sending.waited
  BY <1>1, <1>3, SendingFields
<1>5. UNCHANGED <<composer, selected, prepared, rejecting>> BY DEF Handles, screen
<1>6. /\ sending.to \in Inbox \cup {Nothing} /\ sending.read \in Text
      /\ sending.draft \in Drafts \cup {Nothing}
      /\ sending.waited \/ For(sending.read, sending.to)
      /\ sending.draft # Nothing => OfDraft(sending.read, sending.draft)
      /\ sending.text = sending.read \/ (sending.text = Nothing /\ sending.draft = sending.read)
  BY <1>1, SendingFields DEF SendingBelongs
<1>7. mail = Nothing BY <1>1 DEF SendingBelongs
<1>8. \/ mail' = Nothing
      \/ /\ ok /\ mail' = [to |-> sending.to, text |-> sending.read, read |-> sending.read]
         /\ sending.to \in Inbox
         /\ For(sending.read, sending.to) \/ Strays(sending)
  <2>1. CASE ~ok BY <1>2, <1>7, <2>1
  <2>2. CASE ok /\ sending.draft = Nothing
    <3>1. sending.text = sending.read BY <1>6, <2>2
    <3>2. Mails(sending.to, sending.text) /\ sending.to \in Inbox BY <1>2, <1>6, <2>2
    <3>3. For(sending.read, sending.to) \/ Strays(sending) BY <1>6, <2>2 DEF Strays
    <3> QED BY <2>2, <3>1, <3>2, <3>3 DEF Mails
  <2>3. CASE ok /\ sending.draft # Nothing
    <3>1. (IF sending.text = Nothing THEN sending.draft ELSE sending.text) = sending.read
      BY <1>6
    <3>2. /\ Mails(sending.to, IF sending.text = Nothing THEN sending.draft ELSE sending.text)
          /\ drafts[sending.draft] = [conv |-> sending.to, status |-> "pending"]
      BY <1>2, <2>3
    <3>3. drafts[sending.draft].conv = sending.to /\ For(sending.read, sending.to)
      BY <1>6, <2>3, <3>2 DEF OfDraft
    <3>4. sending.to \in Inbox
      <4>1. sending.draft \in Drafts BY <1>6, <2>3
      <4>2. drafts[sending.draft].status = "pending" BY <3>2
      <4> QED BY <3>3, <4>1, <4>2 DEF ShownWasSo
    <3> QED BY <2>3, <3>1, <3>2, <3>3, <3>4 DEF Mails
  <2> QED BY <2>1, <2>2, <2>3
<1>9. mail' \in [to : Inbox, text : Text, read : Text] \cup {Nothing} BY <1>6, <1>8
<1>10. SendingTyped'
  <2>1. sending' \in Sending BY <1>4
  <2>2. prepared' = prepared /\ rejecting' = rejecting BY <1>5
  <2>3. /\ prepared \in Drafts \cup {Nothing}
        /\ rejecting \in [draft : Drafts, prepared : BOOLEAN, answer : Answer] \cup {Nothing}
    BY DEF InboxTypeOK
  <2> QED BY <1>9, <2>1, <2>2, <2>3 DEF SendingTyped
<1>11. sending' # Nothing BY <1>4, InboxAssumption DEF InboxParameters
<1>12. sending.waited \/ For(sending.read, sending.to)' BY <1>4, <1>6 DEF For, DraftsStay
<1>13. sending.draft # Nothing => OfDraft(sending.read, sending.draft)'
  <2> SUFFICES ASSUME sending.draft # Nothing PROVE OfDraft(sending.read, sending.draft)' OBVIOUS
  <2>1. PICK d \in Drafts : d = sending.draft BY <1>6
  <2>2. PICK t : t = sending.read OBVIOUS
  <2>3. OfDraft(t, d) BY <1>6, <2>1, <2>2
  <2>4. OfDraft(t, d)' BY <2>3, OfDraftStays
  <2>5. sending'.read = t /\ sending'.draft = d BY <1>4, <2>1, <2>2
  <2> QED BY <2>4, <2>5 DEF OfDraft, For
<1>14. mail' # Nothing =>
         /\ mail'.text = mail'.read /\ sending'.answer = "ok"
         /\ For(mail.text, mail.to)' \/ Strays(sending)'
  <2> SUFFICES ASSUME mail' # Nothing
               PROVE  /\ mail'.text = mail'.read /\ sending'.answer = "ok"
                      /\ For(mail.text, mail.to)' \/ Strays(sending)'
    OBVIOUS
  <2>1. /\ ok /\ mail'.to = sending.to
        /\ mail'.text = sending.read /\ mail'.read = sending.read
        /\ For(sending.read, sending.to) \/ Strays(sending)
    BY <1>8
  <2>2. sending'.answer = "ok" BY <1>3, <1>4, <2>1
  <2>3. CASE For(sending.read, sending.to) BY <2>1, <2>2, <2>3 DEF For, DraftsStay
  <2>4. CASE Strays(sending) BY <1>4, <2>1, <2>2, <2>4 DEF Strays
  <2> QED BY <2>1, <2>3, <2>4
<1>15. prepared' # Nothing => selected' # Nothing /\ For(prepared, selected)'
  BY <1>5 DEF SendingBelongs, For, DraftsStay
<1>16. SendingBelongs'
  BY <1>4, <1>6, <1>11, <1>12, <1>13, <1>14, <1>15 DEF SendingBelongs
<1>17. NothingOverwritten' BY <1>1, <1>4, <1>5 DEF NothingOverwritten
<1> QED BY <1>10, <1>16, <1>17

\* The composer is empty when another conversation is on the screen.
LEMMA GoesOutKeeps ==
  ASSUME InboxTypeOK, SendingBelongs, NothingOverwritten, GoesOut
  PROVE  SendingTyped' /\ SendingBelongs' /\ NothingOverwritten'
<1>1. /\ sending \in Sending /\ sending # Nothing /\ sending.answer = "none"
      /\ sending.to # selected
      /\ sending' = [sending EXCEPT !.to = selected, !.waited = TRUE]
      /\ UNCHANGED <<drafts, composer, selected, prepared, rejecting, mail>>
  BY DEF GoesOut, InboxTypeOK, screen
<1>2. selected \in Inbox \cup {Nothing} BY DEF InboxTypeOK
<1>3. /\ sending' \in Sending /\ sending'.to = selected /\ sending'.waited = TRUE
      /\ sending'.read = sending.read /\ sending'.draft = sending.draft
      /\ sending'.text = sending.text
  BY <1>1, <1>2, SendingFields
<1>4. mail = Nothing BY <1>1 DEF SendingBelongs
<1>5. composer = Nothing BY <1>1 DEF NothingOverwritten
<1>6. SendingTyped' BY <1>1, <1>3 DEF SendingTyped, InboxTypeOK
<1>7. SendingBelongs' BY <1>1, <1>3, <1>4 DEF SendingBelongs, OfDraft, For
<1>8. NothingOverwritten' BY <1>1, <1>5 DEF NothingOverwritten
<1> QED BY <1>6, <1>7, <1>8

LEMMA SendingKept ==
  ASSUME InboxTypeOK, ShownWasSo, ScreenBelongs, SendingBelongs, NothingOverwritten,
         [InboxNext]_inboxVars
  PROVE  SendingTyped' /\ SendingBelongs' /\ NothingOverwritten'
<1> DEFINE Kept == SendingTyped' /\ SendingBelongs' /\ NothingOverwritten'
<1> USE NothingIsApart
<1>1. DraftsStay BY TableKept
<1>2. ASSUME UNCHANGED <<sending, mail>>,
             prepared' # Nothing =>
               prepared' \in Drafts /\ selected' # Nothing /\ For(prepared', selected'),
             rejecting' \in [draft : Drafts, prepared : BOOLEAN, answer : Answer] \cup {Nothing},
             \/ sending = Nothing
             \/ composer' = Nothing
             \/ UNCHANGED <<composer, selected>>
      PROVE  Kept
  <2>1. SendingTyped' BY <1>2 DEF SendingTyped, InboxTypeOK
  <2>2. SendingBelongs' BY <1>1, <1>2, SendingStays
  <2>3. NothingOverwritten' BY <1>2 DEF NothingOverwritten
  <2> QED BY <2>1, <2>2, <2>3
<1>3. /\ prepared # Nothing => prepared \in Drafts /\ selected # Nothing /\ For(prepared, selected)
      /\ rejecting \in [draft : Drafts, prepared : BOOLEAN, answer : Answer] \cup {Nothing}
  BY DEF InboxTypeOK, SendingBelongs
<1>4. CASE Arrives \/ Elsewhere BY <1>2, <1>3, <1>4 DEF Arrives, Elsewhere, screen
<1>5. CASE Handles BY <1>1, <1>5, HandlesKeeps
<1>6. CASE HandlesRejection
  <2>1. PICK a \in Answer : rejecting' = [rejecting EXCEPT !.answer = a]
    <3>1. PICK ok \in BOOLEAN :
            rejecting' = [rejecting EXCEPT !.answer = IF ok THEN "ok" ELSE "error"]
      BY <1>6 DEF HandlesRejection
    <3>2. (IF ok THEN "ok" ELSE "error") \in Answer BY DEF Answer
    <3> QED BY <3>1, <3>2
  <2>2. rejecting \in [draft : Drafts, prepared : BOOLEAN, answer : Answer]
    BY <1>3, <1>6 DEF HandlesRejection
  <2>3. rejecting' \in [draft : Drafts, prepared : BOOLEAN, answer : Answer] BY <2>1, <2>2
  <2> QED BY <1>2, <1>3, <1>6, <2>3 DEF HandlesRejection, screen
<1>7. CASE Select
  <2>1. /\ composer' = Nothing /\ prepared' = Nothing
        /\ UNCHANGED <<sending, rejecting, mail>>
    BY <1>7 DEF Select
  <2> QED BY <1>2, <1>3, <2>1
<1>8. CASE PollDrafts \/ Type BY <1>2, <1>3, <1>8 DEF PollDrafts, Type
<1>9. CASE handleSendMessage
  <2>1. /\ sending' = [to |-> selected, draft |-> prepared, read |-> composer, answer |-> "none",
                       text |-> IF composer = prepared THEN Nothing ELSE composer,
                       waited |-> FALSE]
        /\ composer # Nothing /\ sending = Nothing
        /\ UNCHANGED <<drafts, composer, selected, prepared, rejecting, mail>>
    BY <1>9 DEF handleSendMessage, screen
  <2>2. /\ composer \in Text /\ selected \in Inbox /\ For(composer, selected)
        /\ prepared \in Drafts \cup {Nothing}
    BY <2>1 DEF InboxTypeOK, ScreenBelongs
  <2>3. /\ sending' \in Sending /\ sending'.to = selected /\ sending'.read = composer
        /\ sending'.draft = prepared /\ sending'.waited = FALSE
        /\ sending'.text = IF composer = prepared THEN Nothing ELSE composer
    BY <2>1, <2>2 DEF Sending, Answer
  <2>4. SendingTyped' BY <1>3, <2>1, <2>2, <2>3 DEF SendingTyped, InboxTypeOK
  <2>5. mail = Nothing BY <2>1 DEF SendingBelongs
  <2>6. prepared # Nothing => OfDraft(composer, prepared)
    <3> SUFFICES ASSUME prepared # Nothing PROVE OfDraft(composer, prepared) OBVIOUS
    <3>1. prepared \in Drafts /\ For(prepared, selected) BY <1>3
    <3>2. prepared # selected BY <2>2, <3>1, InboxAssumption DEF InboxParameters
    <3>3. drafts[prepared].status # "none" /\ drafts[prepared].conv = selected
      BY <3>1, <3>2 DEF For
    <3> QED BY <2>2, <3>3 DEF OfDraft
  <2>7. SendingBelongs' BY <1>3, <2>1, <2>2, <2>3, <2>5, <2>6 DEF SendingBelongs, OfDraft, For
  <2>8. NothingOverwritten' BY <2>1, <2>3 DEF NothingOverwritten
  <2> QED BY <2>4, <2>7, <2>8
<1>10. CASE GoesOut BY <1>10, GoesOutKeeps
<1>11. CASE Sent
  <2>1. sending' = Nothing /\ mail' = Nothing /\ UNCHANGED <<drafts, selected, rejecting>>
        /\ prepared' \in {Nothing, prepared}
    BY <1>11 DEF Sent
  <2>2. SendingTyped' BY <1>3, <2>1 DEF SendingTyped
  <2>3. SendingBelongs' BY <1>3, <2>1 DEF SendingBelongs, For
  <2> QED BY <2>1, <2>2, <2>3 DEF NothingOverwritten
<1>12. CASE handleEdit \/ EditDraft \/ handleCancel
  BY <1>2, <1>3, <1>12 DEF handleEdit, EditDraft, handleCancel
<1>13. CASE handleApproveDraft
  <2>1. Shown \in Drafts /\ selected # Nothing /\ For(Shown, selected)
    BY <1>13, ShownBelongs DEF handleApproveDraft, Pending
  <2>2. sending = Nothing /\ prepared' = Shown /\ UNCHANGED <<selected, sending, rejecting, mail>>
    BY <1>13 DEF handleApproveDraft
  <2> QED BY <1>2, <1>3, <2>1, <2>2
<1>14. CASE handleRejectDraft
  <2>1. Shown \in Drafts BY <1>14, ShownBelongs DEF handleRejectDraft, Pending
  <2>2. rejecting' \in [draft : Drafts, prepared : BOOLEAN, answer : Answer]
    BY <1>14, <2>1 DEF handleRejectDraft, Answer
  <2> QED BY <1>2, <1>3, <1>14, <2>2 DEF handleRejectDraft, screen
<1>15. CASE Rejected
  <2>1. /\ prepared' \in {Nothing, prepared} /\ rejecting' = Nothing
        /\ UNCHANGED <<composer, selected, sending, mail>>
    BY <1>15 DEF Rejected
  <2> QED BY <1>2, <1>3, <2>1
<1>16. CASE OrderGoesOut \/ handleGenerate \/ handleRegenerate \/ retryGeneration \/ Ordered
            \/ Timers
  BY <1>2, <1>3, <1>16 DEF OrderGoesOut, handleGenerate, handleRegenerate, retryGeneration,
                           Order, Ordered, Timers, screen
<1>17. CASE UNCHANGED inboxVars BY <1>2, <1>3, <1>17 DEF inboxVars, screen
<1> QED
  BY <1>4, <1>5, <1>6, <1>7, <1>8, <1>9, <1>10, <1>11, <1>12, <1>13, <1>14, <1>15, <1>16, <1>17
     DEF InboxNext

-----------------------------------------------------------------------------
(* What the thread tells about a generation                                  *)

GenerationTyped ==
  /\ generation \in Generation \cup {Nothing}
  /\ asked \subseteq [kind : Mode, conv : Inbox]

LEMMA GenerationFields ==
  ASSUME NEW g \in Generation
  PROVE  /\ g.tracked \in Inbox /\ g.mode \in Mode
         /\ \A p \in {"submitting", "queued", "waiting", "ready", "error"} :
              /\ [g EXCEPT !.phase = p] \in Generation
              /\ [g EXCEPT !.phase = p].phase = p
BY DEF Generation

\* A poll finds the draft, and keeps the one that was found.
LEMMA PollFinds ==
  ASSUME InboxTypeOK, ShownWasSo, ReadyIsThere, PollDrafts
  PROVE  GenerationTyped' /\ ReadyIsThere'
<1>1. PICK list : list = shown' OBVIOUS
<1>2. /\ list = [d \in Drafts |-> IF drafts[d].conv = selected THEN drafts[d].status
                                  ELSE shown[d]]
      /\ generation' = Settled(generation, list)
      /\ drafts' = drafts /\ selected' = selected /\ asked' = asked
  BY <1>1 DEF PollDrafts
<1>3. /\ Settled(generation, list) \in Generation \cup {Nothing}
      /\ \/ Settled(generation, list) = generation
         \/ /\ Settled(generation, list).baseline = generation.baseline
            /\ Settled(generation, list).phase = "ready" =>
                 \E d \in Listed(list, selected) \ generation.baseline : list[d] # "failed"
  BY SettledIsThere DEF InboxTypeOK
<1>4. GenerationTyped' BY <1>2, <1>3 DEF GenerationTyped, InboxTypeOK
<1>5. Listed(shown, selected)' = Listed(list, selected) BY <1>1, <1>2 DEF Listed
<1>6. ASSUME generation' # Nothing, generation'.phase = "ready"
      PROVE  \E d \in Listed(list, selected) \ generation'.baseline : list[d] # "failed"
  <2>1. CASE generation' # generation BY <1>2, <1>3, <1>6, <2>1
  <2>2. CASE generation' = generation
    <3>1. PICK d \in Listed(shown, selected) \ generation.baseline : shown[d] # "failed"
      BY <1>6, <2>2 DEF ReadyIsThere
    <3>2. d \in Drafts /\ drafts[d].conv = selected /\ shown[d] \notin {"none", "failed"}
      BY <3>1 DEF Listed
    <3>3. drafts[d].status \notin {"none", "failed"} BY <3>2 DEF ShownWasSo
    <3>4. list[d] = drafts[d].status BY <1>2, <3>2
    <3>5. d \in Listed(list, selected) BY <3>2, <3>3, <3>4 DEF Listed
    <3> QED BY <2>2, <3>1, <3>3, <3>4, <3>5
  <2> QED BY <2>1, <2>2
<1> QED BY <1>1, <1>4, <1>5, <1>6 DEF ReadyIsThere

LEMMA OrderedKeeps ==
  ASSUME InboxTypeOK, Ordered
  PROVE  GenerationTyped' /\ ReadyIsThere'
<1>1. PICK order \in asked, ok \in BOOLEAN :
        /\ generation' =
             IF generation = Nothing THEN Nothing
             ELSE IF ~ok THEN [generation EXCEPT !.phase = "error"]
             ELSE Settled([generation EXCEPT !.phase = "queued",
                             !.tracked = IF order.kind = "generate" THEN order.conv
                                         ELSE generation.tracked], shown)
        /\ asked' = asked \ {order}
        /\ drafts' = drafts /\ shown' = shown /\ selected' = selected
  BY DEF Ordered
<1>2. asked' \subseteq [kind : Mode, conv : Inbox]
  BY <1>1 DEF InboxTypeOK
<1>3. CASE generation = Nothing
  BY <1>1, <1>2, <1>3 DEF GenerationTyped, ReadyIsThere
<1>4. CASE generation # Nothing
  <2>1. generation \in Generation BY <1>4 DEF InboxTypeOK
  <2>2. CASE ~ok
    <3>1. generation' \in Generation /\ generation'.phase = "error"
      BY <1>1, <1>4, <2>1, <2>2, GenerationFields
    <3> QED BY <1>2, <3>1 DEF GenerationTyped, ReadyIsThere
  <2>3. CASE ok
    <3>1. PICK c \in Inbox :
            c = IF order.kind = "generate" THEN order.conv ELSE generation.tracked
      <4>1. order.conv \in Inbox BY DEF InboxTypeOK
      <4>2. generation.tracked \in Inbox BY <2>1, GenerationFields
      <4> QED BY <4>1, <4>2
    <3>2. PICK g : g = [generation EXCEPT !.phase = "queued", !.tracked = c] OBVIOUS
    <3>3. g \in Generation /\ g.phase = "queued" BY <2>1, <3>2 DEF Generation
    <3>4. generation' = Settled(g, shown) BY <1>1, <1>4, <2>3, <3>1, <3>2
    <3>5. /\ Settled(g, shown) \in Generation \cup {Nothing}
          /\ \/ Settled(g, shown) = g
             \/ /\ Settled(g, shown).baseline = g.baseline
                /\ Settled(g, shown).phase = "ready" =>
                     \E d \in Listed(shown, selected) \ g.baseline : shown[d] # "failed"
      BY <3>3, SettledIsThere
    <3>6. Listed(shown, selected)' = Listed(shown, selected) BY <1>1 DEF Listed
    <3>7. generation'.phase = "ready" =>
            \E d \in Listed(shown, selected) \ generation'.baseline : shown[d] # "failed"
      BY <3>3, <3>4, <3>5
    <3>8. ReadyIsThere' BY <1>1, <3>6, <3>7 DEF ReadyIsThere
    <3> QED BY <1>2, <3>4, <3>5, <3>8 DEF GenerationTyped
  <2> QED BY <2>2, <2>3
<1> QED BY <1>3, <1>4

LEMMA GenerationKept ==
  ASSUME InboxTypeOK, ShownWasSo, ReadyIsThere, [InboxNext]_inboxVars
  PROVE  GenerationTyped' /\ ReadyIsThere'
<1> DEFINE Kept == GenerationTyped' /\ ReadyIsThere'
<1> USE NothingIsApart
<1>1. GenerationTyped BY DEF GenerationTyped, InboxTypeOK
<1>2. ASSUME UNCHANGED <<shown, selected, generation, asked>> PROVE Kept
  <2>1. Listed(shown, selected)' = Listed(shown, selected)
    BY <1>2, TableKept, ShownStaysSo, ShownStays
  <2> QED BY <1>1, <1>2, <2>1 DEF GenerationTyped, ReadyIsThere
<1>3. CASE Arrives \/ Elsewhere \/ Handles \/ HandlesRejection \/ GoesOut
  BY <1>2, <1>3 DEF Arrives, Elsewhere, Handles, HandlesRejection, GoesOut, screen
<1>4. CASE Type \/ handleSendMessage \/ Sent \/ handleRejectDraft \/ Rejected
  BY <1>2, <1>4 DEF Type, handleSendMessage, Sent, handleRejectDraft, Rejected, screen
<1>5. CASE handleEdit \/ EditDraft \/ handleCancel \/ handleApproveDraft
  BY <1>2, <1>5 DEF handleEdit, EditDraft, handleCancel, handleApproveDraft
<1>6. CASE UNCHANGED inboxVars BY <1>2, <1>6 DEF inboxVars, screen
<1>7. CASE Select
  <2>1. generation' = Nothing /\ asked' = asked BY <1>7 DEF Select
  <2> QED BY <1>1, <2>1 DEF GenerationTyped, ReadyIsThere
<1>8. CASE PollDrafts BY <1>8, PollFinds
<1>9. ASSUME NEW kind \in Mode, selected # Nothing, Order(kind) PROVE Kept
  <2>1. /\ generation' = [mode |-> kind, phase |-> "submitting", tracked |-> selected,
                          baseline |-> Listed(shown, selected)]
        /\ asked' = asked \cup {[kind |-> kind, conv |-> selected]}
    BY <1>9 DEF Order
  <2>2. selected \in Inbox BY <1>9 DEF InboxTypeOK
  <2>3. Listed(shown, selected) \in SUBSET Drafts BY DEF Listed
  <2>4. generation' \in Generation /\ generation'.phase = "submitting"
    BY <2>1, <2>2, <2>3 DEF Generation
  <2>5. asked' \subseteq [kind : Mode, conv : Inbox]
    BY <1>1, <2>1, <2>2 DEF GenerationTyped
  <2> QED BY <2>4, <2>5 DEF GenerationTyped, ReadyIsThere
<1>10. CASE handleGenerate \/ handleRegenerate
  BY <1>9, <1>10 DEF handleGenerate, handleRegenerate, Mode
<1>11. CASE retryGeneration
  <2>1. generation \in Generation /\ selected # Nothing /\ Order(generation.mode)
    BY <1>1, <1>11 DEF retryGeneration, GenerationTyped
  <2>2. generation.mode \in Mode BY <2>1, GenerationFields
  <2> QED BY <1>9, <2>1, <2>2
<1>12. CASE Ordered BY <1>12, OrderedKeeps
<1>13. CASE Timers
  <2>1. generation \in Generation /\ asked' = asked BY <1>1, <1>13 DEF Timers, GenerationTyped
  <2>2. \/ generation' = Nothing
        \/ generation' = [generation EXCEPT !.phase = "waiting"]
        \/ generation' = [generation EXCEPT !.phase = "error"]
    BY <1>13, <2>1 DEF Timers, Generation
  <2>3. generation' = Nothing \/ (generation' \in Generation /\ generation'.phase # "ready")
    BY <2>1, <2>2 DEF Generation
  <2> QED BY <1>1, <2>1, <2>3 DEF GenerationTyped, ReadyIsThere
<1>14. CASE OrderGoesOut
  <2>1. PICK order \in asked : /\ selected # Nothing
                               /\ asked' = (asked \ {order}) \cup {[order EXCEPT !.conv = selected]}
    BY <1>14 DEF OrderGoesOut
  <2>2. UNCHANGED <<shown, selected, generation>> BY <1>14 DEF OrderGoesOut, screen
  <2>3. order \in [kind : Mode, conv : Inbox] /\ selected \in Inbox
    BY <1>1, <2>1 DEF GenerationTyped, InboxTypeOK
  <2>4. [order EXCEPT !.conv = selected] \in [kind : Mode, conv : Inbox] BY <2>3
  <2>5. asked' \subseteq [kind : Mode, conv : Inbox] BY <1>1, <2>1, <2>4 DEF GenerationTyped
  <2>6. Listed(shown, selected)' = Listed(shown, selected)
    BY <2>2, TableKept, ShownStaysSo, ShownStays
  <2> QED BY <1>1, <2>2, <2>5, <2>6 DEF GenerationTyped, ReadyIsThere
<1> QED
  BY <1>3, <1>4, <1>5, <1>6, <1>7, <1>8, <1>10, <1>11, <1>12, <1>13, <1>14 DEF InboxNext

-----------------------------------------------------------------------------
(* The invariant                                                             *)

LEMMA InboxInitHolds == InboxInit => InboxIInv
<1> SUFFICES ASSUME InboxInit PROVE InboxIInv OBVIOUS
<1>1. /\ \A d \in Drafts : drafts[d].status = "none" /\ shown[d] = "none"
      /\ drafts \in [Drafts -> [conv : Inbox \cup {Nothing}, status : Status]]
      /\ shown \in [Drafts -> Status]
  BY DEF InboxInit, Status
<1>2. InboxTypeOK BY <1>1 DEF InboxInit, InboxTypeOK
<1>3. ShownWasSo BY <1>1 DEF ShownWasSo
<1>4. Listed(shown, selected) = {} BY <1>1 DEF Listed
<1>5. Shown = Nothing BY <1>4 DEF Shown, CardOf
<1> QED
  BY <1>2, <1>3, <1>5
     DEF InboxInit, InboxIInv, ScreenBelongs, SendingBelongs, NothingOverwritten, ReadyIsThere

LEMMA InboxStep == InboxIInv /\ [InboxNext]_inboxVars => InboxIInv'
<1> SUFFICES ASSUME InboxIInv, [InboxNext]_inboxVars PROVE InboxIInv' OBVIOUS
<1>1. /\ InboxTypeOK /\ ShownWasSo /\ ScreenBelongs /\ SendingBelongs
      /\ NothingOverwritten /\ ReadyIsThere
  BY DEF InboxIInv
<1>2. ShownWasSo' BY <1>1, ShownStaysSo
<1>3. drafts' \in [Drafts -> [conv : Inbox \cup {Nothing}, status : Status]]
  BY <1>1, TableKept
<1>4. shown' \in [Drafts -> Status] BY <1>1, ShownIsOfTable
<1>5. /\ ScreenBelongs'
      /\ selected' \in Inbox \cup {Nothing} /\ composer' \in Text \cup {Nothing}
      /\ card' \in Card \cup {Nothing}
  BY <1>1, ScreenKept
<1>6. SendingTyped' /\ SendingBelongs' /\ NothingOverwritten' BY <1>1, SendingKept
<1>7. GenerationTyped' /\ ReadyIsThere' BY <1>1, GenerationKept
<1>8. InboxTypeOK'
  BY <1>3, <1>4, <1>5, <1>6, <1>7 DEF InboxTypeOK, SendingTyped, GenerationTyped
<1> QED
  BY <1>2, <1>5, <1>6, <1>7, <1>8 DEF InboxIInv

\* The invariant of the composer holds at all times (inbox-page.tsx,
\* conversation-thread.tsx, draft-card.tsx).
THEOREM InboxInvariant == InboxSpec => []InboxIInv
<1>1. InboxInit => InboxIInv BY InboxInitHolds
<1>2. InboxIInv /\ [InboxNext]_inboxVars => InboxIInv' BY InboxStep
<1> QED BY <1>1, <1>2, PTL DEF InboxSpec

LEMMA InboxInvariantMeans == InboxIInv => InboxSound
<1> SUFFICES ASSUME InboxIInv PROVE SentAsRead BY DEF InboxIInv, InboxSound
<1> SUFFICES ASSUME mail # Nothing
             PROVE  mail.text = mail.read
                    /\ (WrittenFor(mail.text) = mail.to \/ Strays(sending))
  BY DEF SentAsRead
<1>1. mail.text = mail.read /\ (For(mail.text, mail.to) \/ Strays(sending))
  BY DEF InboxIInv, SendingBelongs
<1>2. mail.to \in Inbox BY DEF InboxIInv, InboxTypeOK
<1>3. Inbox \cap Drafts = {} BY InboxAssumption DEF InboxParameters
<1> QED BY <1>1, <1>2, <1>3 DEF For, WrittenFor

\* What is sent is what was read, to the conversation it was written for but for
\* a reply of the user's own that was sent offline; a late answer overwrites
\* nothing; and a draft announced as ready is in the thread
\* (inbox-page.tsx:99-160, conversation-thread.tsx:146-186).
THEOREM InboxIsSound == InboxSpec => []InboxSound
<1>1. InboxIInv => InboxSound BY InboxInvariantMeans
<1> QED BY <1>1, InboxInvariant, PTL
==============================================================================
