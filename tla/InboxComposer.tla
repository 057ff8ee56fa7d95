---------------------------- MODULE InboxComposer ----------------------------
(***************************************************************************)
(* The inbox of the dashboard: packages/frontend/src/components/features/   *)
(* inbox (inbox-page, message-composer, conversation-thread, draft-card).   *)
(* One composer serves every conversation: what is in it, the draft it was  *)
(* taken from, a card's half-edited text and the progress of a generation   *)
(* are states of components, while answers come back and polls bring drafts *)
(* that another device or the assistant has dealt with.                     *)
(*                                                                         *)
(* A text is the draft it is the content of, or the conversation the user   *)
(* wrote it in.  A conversation stands for its latest inbound message too.  *)
(***************************************************************************)
EXTENDS Naturals

CONSTANTS
  Inbox,          \* conversations
  MaxDrafts,      \* bound on the drafts the worker writes
  Nothing         \* no conversation, text, draft, card or request

Drafts == 1..MaxDrafts
Status == {"none", "pending", "failed", "sent", "rejected"}
Text == Inbox \cup Drafts
Card == [text : Text, editing : BOOLEAN]
Answer == {"none", "ok", "error"}
Sending ==
  [to : Inbox \cup {Nothing}, draft : Drafts \cup {Nothing}, read : Text, answer : Answer,
   text : Text \cup {Nothing}, waited : BOOLEAN]
Mode == {"generate", "regenerate"}
Generation ==
  [mode : Mode, phase : {"submitting", "queued", "waiting", "ready", "error"}, tracked : Inbox,
   baseline : SUBSET Drafts]

InboxParameters ==
  /\ MaxDrafts \in Nat
  /\ Inbox \cap Drafts = {}
  /\ Nothing \notin Text \cup Card \cup Sending
ASSUME InboxAssumption == InboxParameters

VARIABLES
  drafts,      \* the table: whose each draft is and how it stands
  shown,       \* the statuses the last polls brought
  selected,    \* the conversation on the screen
  composer,    \* the text in the composer
  prepared,    \* the draft it was pasted from
  card,        \* the state of the card of the newest draft on the screen
  rejecting,   \* the rejection under way (bound: one)
  generation,  \* the generation the thread tells about
  asked,       \* orders not answered yet (bound: one of a kind and conversation)
  sending,     \* the reply or approval under way, which disables the composer
               \* (history: whether it waited, and came upon another conversation)
  mail         \* the e-mail that left for it, until its answer is there

screen == <<selected, composer, prepared, card, generation>>
inboxVars == <<drafts, shown, screen, sending, rejecting, asked, mail>>

InboxInit ==
  /\ drafts = [d \in Drafts |-> [conv |-> Nothing, status |-> "none"]]
  /\ shown = [d \in Drafts |-> "none"]
  /\ selected = Nothing /\ composer = Nothing /\ prepared = Nothing /\ card = Nothing
  /\ generation = Nothing
  /\ sending = Nothing /\ rejecting = Nothing /\ asked = {}
  /\ mail = Nothing

-----------------------------------------------------------------------------
(* What the thread shows                                                    *)

Listed(list, c) == {d \in Drafts : list[d] # "none" /\ drafts[d].conv = c}
Newest(S) == CHOOSE d \in S : \A e \in S : e <= d

\* The draft a message is shown with: of several, the newest.
CardOf(list, c) == IF Listed(list, c) = {} THEN Nothing ELSE Newest(Listed(list, c))
Shown == CardOf(shown, selected)

\* A card mounts with the text of its draft, and keeps its state when the next
\* draft of the message takes the draft's place.
Mounted(list, c, old) ==
  IF CardOf(list, c) = Nothing THEN Nothing
  ELSE IF old = Nothing THEN [text |-> CardOf(list, c), editing |-> FALSE] ELSE old

UnderWay(g) == g # Nothing /\ g.phase \in {"submitting", "queued", "waiting"}

\* The effect that looks for the draft a generation was to bring.
Settled(g, list) ==
  IF ~UnderWay(g) THEN g
  ELSE LET new == {d \in Listed(list, selected) \ g.baseline : drafts[d].conv = g.tracked}
       IN IF new = {} THEN g
          ELSE [g EXCEPT !.phase = IF list[Newest(new)] = "failed" THEN "error" ELSE "ready"]

-----------------------------------------------------------------------------
(* The backend, the worker and whoever else works on the drafts             *)

\* Drafts are written one after the other; their numbers are their ages.
Arrives ==
  \E c \in Inbox, d \in Drafts, status \in {"pending", "failed"} :
    /\ drafts[d].status = "none" /\ \A e \in Drafts : e < d => drafts[e].status # "none"
    /\ drafts' = [drafts EXCEPT ![d] = [conv |-> c, status |-> status]]
    /\ UNCHANGED <<shown, screen, sending, rejecting, asked, mail>>

Elsewhere ==
  \E d \in Drafts, status \in {"sent", "rejected"} :
    /\ drafts[d].status = "pending"
    /\ drafts' = [drafts EXCEPT ![d].status = status]
    /\ UNCHANGED <<shown, screen, sending, rejecting, asked, mail>>

Mails(to, text) == mail' = [to |-> to, text |-> text, read |-> sending.read]

Handles ==
  /\ sending # Nothing /\ sending.answer = "none"
  /\ \E ok \in BOOLEAN :
       /\ sending' = [sending EXCEPT !.answer = IF ok THEN "ok" ELSE "error"]
       /\ IF sending.draft = Nothing
          THEN /\ ok => sending.to # Nothing
               /\ IF ok THEN Mails(sending.to, sending.text) ELSE UNCHANGED mail
               /\ UNCHANGED drafts
          ELSE /\ ok => drafts[sending.draft] = [conv |-> sending.to, status |-> "pending"]
               /\ IF ok
                  THEN /\ Mails(sending.to,
                                IF sending.text = Nothing THEN sending.draft ELSE sending.text)
                       /\ drafts' = [drafts EXCEPT ![sending.draft].status = "sent"]
                  ELSE UNCHANGED <<mail, drafts>>
  /\ UNCHANGED <<shown, screen, rejecting, asked>>

\* A request made offline waits, while the page disables the composer, and goes
\* out with what its hook is bound to by then: the conversation on the screen, if
\* any.  One that did not wait, or finds the screen as it was, is as it was.
GoesOut ==
  /\ sending # Nothing /\ sending.answer = "none" /\ sending.to # selected
  /\ sending' = [sending EXCEPT !.to = selected, !.waited = TRUE]
  /\ UNCHANGED <<drafts, shown, screen, rejecting, asked, mail>>

OrderGoesOut ==
  \E order \in asked :
    /\ selected \notin {Nothing, order.conv}
    /\ asked' = (asked \ {order}) \cup {[order EXCEPT !.conv = selected]}
    /\ UNCHANGED <<drafts, shown, screen, sending, rejecting, mail>>

\* A draft is looked up in the conversation the request names: a rejection that
\* came upon another conversation is one of those that are refused.
HandlesRejection ==
  /\ rejecting # Nothing /\ rejecting.answer = "none"
  /\ LET d == rejecting.draft IN
     \E ok \in BOOLEAN :
       /\ ok => drafts[d].status = "pending"
       /\ rejecting' = [rejecting EXCEPT !.answer = IF ok THEN "ok" ELSE "error"]
       /\ drafts' = IF ok THEN [drafts EXCEPT ![d].status = "rejected"] ELSE drafts
  /\ UNCHANGED <<shown, screen, sending, asked, mail>>

-----------------------------------------------------------------------------
(* The page                                                                 *)

\* Mutant: the page clears the draft and the wizards, and forgets the text.
Select_KeepsText ==
  \E c \in (Inbox \cup {Nothing}) \ {selected} :
    /\ selected' = c
    /\ prepared' = Nothing
    /\ card' = Mounted(shown, c, Nothing)
    /\ generation' = Nothing
    /\ UNCHANGED <<drafts, shown, composer, sending, rejecting, asked, mail>>

\* Another conversation, or another tab, which shows none.
Select ==
  \E c \in (Inbox \cup {Nothing}) \ {selected} :
    /\ selected' = c
    /\ composer' = Nothing /\ prepared' = Nothing
    /\ card' = Mounted(shown, c, Nothing)
    /\ generation' = Nothing
    /\ UNCHANGED <<drafts, shown, sending, rejecting, asked, mail>>

\* The list of the conversation on the screen is polled; mutations refetch it.
PollDrafts ==
  /\ selected # Nothing
  /\ LET list == [d \in Drafts |-> IF drafts[d].conv = selected THEN drafts[d].status
                                   ELSE shown[d]]
     IN /\ shown' = list
        /\ card' = Mounted(list, selected, card)
        /\ generation' = Settled(generation, list)
  /\ UNCHANGED <<drafts, selected, composer, prepared, sending, rejecting, asked, mail>>

Type ==
  /\ selected # Nothing /\ sending = Nothing
  /\ composer' \in {selected, Nothing}
  /\ UNCHANGED <<drafts, shown, selected, prepared, card, generation, sending, rejecting, asked,
                 mail>>

\* An edited draft is approved with its text, an unedited one without.
handleSendMessage ==
  /\ composer # Nothing /\ sending = Nothing
  /\ sending' = [to |-> selected, draft |-> prepared, read |-> composer, answer |-> "none",
                 text |-> IF composer = prepared THEN Nothing ELSE composer, waited |-> FALSE]
  /\ UNCHANGED <<drafts, shown, screen, rejecting, asked, mail>>

\* What runs after the await: on whatever conversation is on the screen by then.
Sent ==
  /\ sending # Nothing /\ sending.answer # "none"
  /\ IF sending.answer = "ok" THEN composer' = Nothing /\ prepared' = Nothing
     ELSE UNCHANGED <<composer, prepared>>
  /\ sending' = Nothing /\ mail' = Nothing
  /\ UNCHANGED <<drafts, shown, selected, card, generation, rejecting, asked>>

-----------------------------------------------------------------------------
(* The card of a draft                                                      *)

Pending == Shown # Nothing /\ shown[Shown] = "pending"

\* Editing starts from what the card last held, not from the draft's content.
handleEdit ==
  /\ Pending /\ ~card.editing /\ sending = Nothing
  /\ card' = [card EXCEPT !.editing = TRUE]
  /\ UNCHANGED <<drafts, shown, selected, composer, prepared, generation, sending, rejecting,
                 asked, mail>>

EditDraft ==
  /\ Pending /\ card.editing
  /\ card' = [card EXCEPT !.text = selected]
  /\ UNCHANGED <<drafts, shown, selected, composer, prepared, generation, sending, rejecting,
                 asked, mail>>

handleCancel ==
  /\ Pending /\ card.editing /\ sending = Nothing
  /\ card' = [text |-> Shown, editing |-> FALSE]
  /\ UNCHANGED <<drafts, shown, selected, composer, prepared, generation, sending, rejecting,
                 asked, mail>>

\* Approving only pastes the text into the composer, over what is in it.
handleApproveDraft ==
  /\ Pending /\ sending = Nothing
  /\ composer' = IF card.editing THEN card.text ELSE Shown
  /\ prepared' = Shown
  /\ card' = [card EXCEPT !.editing = FALSE]
  /\ UNCHANGED <<drafts, shown, selected, generation, sending, rejecting, asked, mail>>

handleRejectDraft ==
  /\ Pending /\ ~card.editing /\ sending = Nothing /\ rejecting = Nothing
  /\ rejecting' = [draft |-> Shown, prepared |-> prepared = Shown, answer |-> "none"]
  /\ UNCHANGED <<drafts, shown, screen, sending, asked, mail>>

\* The comparison is with the draft that was prepared when the user clicked.
Rejected ==
  /\ rejecting # Nothing /\ rejecting.answer # "none"
  /\ prepared' = IF rejecting.answer = "ok" /\ rejecting.prepared THEN Nothing ELSE prepared
  /\ rejecting' = Nothing
  /\ UNCHANGED <<drafts, shown, selected, composer, card, generation, sending, asked, mail>>

-----------------------------------------------------------------------------
(* Ordering a draft                                                         *)

Order(kind) ==
  /\ ~UnderWay(generation)
  /\ generation' = [mode |-> kind, phase |-> "submitting", tracked |-> selected,
                    baseline |-> Listed(shown, selected)]
  /\ asked' = asked \cup {[kind |-> kind, conv |-> selected]}
  /\ UNCHANGED <<drafts, shown, selected, composer, prepared, card, sending, rejecting, mail>>

handleGenerate ==
  /\ selected # Nothing
  /\ \A d \in Listed(shown, selected) : shown[d] # "pending"
  /\ Order("generate")

handleRegenerate ==
  /\ selected # Nothing /\ Shown # Nothing /\ shown[Shown] \in {"rejected", "failed"}
  /\ Order("regenerate")

\* Trying again asks for neither button's conditions.
retryGeneration ==
  /\ selected # Nothing /\ generation # Nothing /\ generation.phase = "error"
  /\ Order(generation.mode)

\* The answer to a generation speaks of the conversation that asked, whatever is
\* on the screen, and of whichever generation is told about by then.
Ordered ==
  \E order \in asked, ok \in BOOLEAN :
    LET tracked == IF order.kind = "generate" THEN order.conv ELSE generation.tracked IN
    /\ generation' =
         IF generation = Nothing THEN Nothing
         ELSE IF ~ok THEN [generation EXCEPT !.phase = "error"]
         ELSE Settled([generation EXCEPT !.phase = "queued", !.tracked = tracked], shown)
    /\ asked' = asked \ {order}
    /\ UNCHANGED <<drafts, shown, selected, composer, prepared, card, sending, rejecting, mail>>

\* After 1.2 s a queued one waits, after two minutes it failed, after 5 s a
\* finished one is no longer told about.
Timers ==
  /\ generation # Nothing /\ generation.phase # "error"
  /\ generation' \in
       CASE generation.phase = "queued" ->
              {[generation EXCEPT !.phase = "waiting"], [generation EXCEPT !.phase = "error"]}
         [] generation.phase \in {"submitting", "waiting"} ->
              {[generation EXCEPT !.phase = "error"]}
         [] generation.phase = "ready" -> {Nothing}
  /\ UNCHANGED <<drafts, shown, selected, composer, prepared, card, sending, rejecting, asked,
                 mail>>

InboxNext ==
  \/ Arrives \/ Elsewhere \/ Handles \/ HandlesRejection \/ GoesOut \/ OrderGoesOut
  \/ Select \/ PollDrafts \/ Type \/ handleSendMessage \/ Sent
  \/ handleEdit \/ EditDraft \/ handleCancel \/ handleApproveDraft
  \/ handleRejectDraft \/ Rejected
  \/ handleGenerate \/ handleRegenerate \/ retryGeneration \/ Ordered \/ Timers

InboxSpec == InboxInit /\ [][InboxNext]_inboxVars

-----------------------------------------------------------------------------
\* The conversation a text was written for.
WrittenFor(text) == IF text \in Inbox THEN text ELSE drafts[text].conv

\* A reply in the user's own words that waited, and came upon another conversation.
Strays(s) == s.waited /\ s.draft = Nothing

\* An e-mail has the text its sender read in the composer, and goes to the
\* conversation that text was written for; but for a reply that is not a draft's
\* and was sent offline, which goes to the conversation on the screen when the
\* browser is back (inbox-page.tsx:99-136, use-conversations.ts:109-146).
SentAsRead ==
  mail # Nothing =>
    mail.text = mail.read /\ (WrittenFor(mail.text) = mail.to \/ Strays(sending))

\* When the answer comes, the composer holds what was sent or nothing: the next
\* text is not lost to it (inbox-page.tsx:117-118, 128, 407-420).
NothingOverwritten ==
  sending # Nothing =>
    composer \in {Nothing, sending.read} /\ (composer # Nothing => selected = sending.to)

\* "Draft ready for review" has a draft that was not there when it was ordered
\* (conversation-thread.tsx:146-186).
ReadyIsThere ==
  generation # Nothing /\ generation.phase = "ready" =>
    \E d \in Listed(shown, selected) \ generation.baseline : shown[d] # "failed"

\* A text is sent as the operator read it, and where it was written but for a
\* reply sent offline; an answer that comes late overwrites nothing; and a draft
\* announced as ready is in the thread (inbox-page.tsx:99-160,
\* conversation-thread.tsx:146-186).
InboxSound == SentAsRead /\ NothingOverwritten /\ ReadyIsThere

-----------------------------------------------------------------------------
(* What InboxSound rests on                                                  *)

InboxTypeOK ==
  /\ drafts \in [Drafts -> [conv : Inbox \cup {Nothing}, status : Status]]
  /\ shown \in [Drafts -> Status]
  /\ selected \in Inbox \cup {Nothing}
  /\ composer \in Text \cup {Nothing}
  /\ prepared \in Drafts \cup {Nothing}
  /\ card \in Card \cup {Nothing}
  /\ rejecting \in [draft : Drafts, prepared : BOOLEAN, answer : Answer] \cup {Nothing}
  /\ generation \in Generation \cup {Nothing}
  /\ asked \subseteq [kind : Mode, conv : Inbox]
  /\ sending \in Sending \cup {Nothing}
  /\ mail \in [to : Inbox, text : Text, read : Text] \cup {Nothing}

\* What the screen has of a draft is the draft as it was once: a draft is never
\* taken back, and one that was made is never turned into a failed one.
ShownWasSo ==
  \A d \in Drafts :
    /\ drafts[d].status # "none" => drafts[d].conv \in Inbox
    /\ shown[d] # "none" => drafts[d].status # "none"
    /\ shown[d] \notin {"none", "failed"} => drafts[d].status # "failed"

\* A text of c: what the user wrote there, or the content of a draft for it.
For(text, c) ==
  text = c \/ (text \in Drafts /\ drafts[text].status # "none" /\ drafts[text].conv = c)

\* A text of the conversation that d was written for.
OfDraft(text, d) == drafts[d].status # "none" /\ For(text, drafts[d].conv)

\* All texts on the screen are of the conversation on it.
ScreenBelongs ==
  /\ composer # Nothing => selected # Nothing /\ For(composer, selected)
  /\ card # Nothing => selected # Nothing /\ For(card.text, selected)
  /\ Shown # Nothing => card # Nothing

\* What is being sent is what was read, of the conversation it goes to or of its
\* draft's, and so is the e-mail that left for it.
SendingBelongs ==
  /\ prepared # Nothing => selected # Nothing /\ For(prepared, selected)
  /\ sending # Nothing =>
       /\ sending.waited \/ For(sending.read, sending.to)
       /\ sending.draft # Nothing => OfDraft(sending.read, sending.draft)
       /\ sending.text = sending.read \/ (sending.text = Nothing /\ sending.draft = sending.read)
  /\ mail # Nothing =>
       /\ sending # Nothing /\ mail.text = mail.read
       /\ sending.answer = "ok" /\ (For(mail.text, mail.to) \/ Strays(sending))

\* The inductive invariant.
InboxIInv ==
  /\ InboxTypeOK /\ ShownWasSo /\ ScreenBelongs /\ SendingBelongs
  /\ NothingOverwritten /\ ReadyIsThere
==============================================================================
