# PYR: a verification project

PYR (Puppy Yoga Retreat) is the back office of a small retreat: bookings of rooms, events with registrations, an inbox
fed by IMAP whose answers are drafted by a model and approved by the operator, a one-way mirror of everything in an Apple
calendar, and a chat assistant behind the OpenClaw gateway. It is one Fastify process (`src/packages/backend`) over
PostgreSQL (Prisma), Redis (BullMQ) and a WebSocket to the gateway, with a Next.js front end and a gateway plugin beside it.

These modules model what in it is concurrent, may fail half way, or must hold over a long history. TLC checks them on
small instances; TLAPS proves the most important of their properties for instances of every size.

Contents: 1 the parts of the system · 2 from code to model · 3 the modules, one by one · 4 the runs · 5 fairness ·
6 the proofs · 7 what the models show the code to do · 8 what is not modelled · 9 the plan · 10 how to run it.

## 1. The parts of the system

| Part | State it keeps | Operations | Talks to | Hard because | Correct when |
|---|---|---|---|---|---|
| Bookings (`modules/bookings`) | `bookings`, `booking_guests` | create, update, cancel | rooms, guests; calendar queue | reads and writes of a transaction are apart, READ COMMITTED, no locks | a room is never booked twice; status follows `VALID_TRANSITIONS`; cancelled = soft-deleted |
| Rooms (`room-core.service.ts`) | `rooms`, seasons, mappings | create, edit, delete with purge | bookings | the purge list is read before it is used | only archived bookings are purged |
| Queues (`plugins/queue.ts`, `services/queue`) | jobs in Redis, dead letters | add, take, complete, fail, retry, bury | every job | listeners live in memory, jobs do not | a job ends, and one that cannot is kept |
| AI drafts (`ai-draft.job.ts`, `conversation-draft.service.ts`) | `ai_drafts`, messages | generate, approve, reject, regenerate | queue, gateway, SMTP | an e-mail leaves between a read and a write; retries | one pending draft per message; sent once; what is recorded as sent was sent |
| Calendar sync (`services/caldav`) | `calendar_events`, VEVENTs on a server | push, re-sync | bookings, events, queue, CalDAV | answers get lost, jobs come late, a re-sync interferes | the calendar shows the newest state, once |
| E-mail pipeline (`services/email`) | `imap_last_uid`, messages, conversations | poll, thread, classify, store, announce | IMAP, queues, drafts, event analysis | nothing is in a transaction; batches; duplicates | no e-mail is lost or stored twice; it is in its thread |
| Gateway client (`gateway-ws-client.ts`) | one WebSocket, handshake, pending requests, timers | connect, request, stop | gateway; assistant, drafts, classifier | events of old sockets, silence, refused handshakes | it gets through again; no request waits in vain |
| Events (`modules/events`, `conversation-event.service.ts`) | `events`, `event_bookings` | plan, register, cancel, move, create_or_link | guests, inbox, calendar queue | seats are counted, then written | no overselling; nobody waits while seats are free |
| Guests (`guest.service.ts`, `conversation-customer.service.ts`) | `guests`, links of conversations | create, update, delete, merge | everything that names a guest | a merge moves rows others are about to write | a merged guest owns nothing; e-mails are unique |
| Conversations and inbox | `conversations`, `messages` | status and class edits, read marks, lists; the composer of the dashboard | drafts, e-mail, events | one composer serves every conversation while answers come back | a text goes where it was written for |
| Conversation bookings (`conversation-booking.service.ts`) | none of its own | guest + link + booking + source, in four writes | guests, bookings | not one transaction | the form sent again makes nothing twice |
| Payments | `payments` | add, soft-delete, list | bookings | nothing spans two steps | the balance of a booking counts the payments that are not deleted |
| MotoPress sync (`booking-sync.service.ts`) | `externalBookingId`, `syncStatus` | push a booking | a remote system | lost answers, no idempotency key | one remote booking per booking |
| MotoPress import (`motopress-import.service.ts`) | room types, rooms, mappings | import the catalog; staff edit in between | a remote system | unique names, renames, swaps | the tables say what the web site publishes; no import fails over a name |
| Viator event analysis | `conversation_event_analyses` | announce, analyse, apply | gateway, inbox, events | the answer takes long | the newest e-mail's analysis is shown |
| Agent runs (`agent-stream.ts`) | `agentRuns`, the text so far | collect | gateway client | two forms of events, two session keys, reconnects | the text is whole and nothing is in it twice |
| Assistant chat (`assistant.routes.ts`, `use-assistant.ts`) | stream buffers, localStorage | send, abort, new session | gateway, plugin | chunks end inside lines, tool chunks come between | what was said is shown and kept |
| Two-step confirmation (plugin) | pending actions and their meta, in memory | prepare, confirm, cancel, expire | the chat host, the REST interface | overlapping calls, hooks, restarts, lost answers | a write happens at most once, only after a confirmation given later |
| Assistant tools (plugin) | none | every tool | the REST interface | a body the schema drops or refuses after the user confirmed | what was prepared is taken |
| Dashboard (`packages/frontend`) | forms, query cache | submit, refetch | the REST interface | schemas on both sides, stale queries | what it says it saved it saved, and shows |
| Notifications, scheduled jobs | none | send texts, daily briefings | gateway, queue | little | — |
| Settings, FAQ, statistics, agent context, auth, libraries, prompts, parsers, shared types, widget, deployment | tables or none | read; overwrite one row | — | — | — |

Parts interact in four ways: rows of one database (bookings, events, guests, conversations), jobs on BullMQ queues that
are added after the commit of what they are about (e-mail → draft, e-mail → analysis, bookings and events → calendar),
requests over the one gateway connection, and events of the Node event loop within the process.

## 2. From code to model

* **A transaction is two steps.** Prisma's `$transaction` runs at PostgreSQL's default, READ COMMITTED, and the services
  take no row locks. So a handler is a `Begin…` with all of its reads and checks and a `Commit…` with all of its writes;
  other handlers commit in between. `reqs` holds what a handler remembers from the one for the other. Unique indexes,
  foreign keys and CHECK constraints guard the commit; a refused transaction, or one whose process dies, takes `Rollback`.
  A handler whose writes depend on nothing it read is one step. All the reads of a handler are taken at one moment. At
  READ COMMITTED each statement has a snapshot of its own, so a commit may also fall between two reads of a handler; what
  comes of it, a check that no longer holds when the handler writes, comes of commits between `Begin` and `Commit` too.
* **An await is a place to be interrupted** wherever what is known before it is used after it: the e-mail between reading
  a draft and recording it, the generation between looking for a pending draft and storing one, the PUT between reading a
  calendar row and storing its etag, each step of the processing of an e-mail.
* **The process may die** between any two steps where the code keeps state in memory; PostgreSQL and Redis survive.
* **Data are small**: days are numbers, contents are version numbers, a Message-ID is a model value, a class of e-mail is
  what the pipeline does with it. A marker (`NoRow`, `None`, `Keep`) stands for null, undefined or not there.
* **External** and modelled from their use: PostgreSQL's commit, BullMQ's lists in Redis, the CalDAV server (including
  its 412 answers), the mailbox, WebSockets and the gateway.

## 3. The modules

### Booking, RoomCalendar, BookingRefinement
`Booking` has the tables `bookings` (a row with its `booking_guests`), `rooms` and the live guests, and `reqs`.

| Action | Code |
|---|---|
| `BeginCreate`, `CommitCreate` | `createBooking`, booking.service.ts |
| `BeginUpdate`, `CommitUpdate`, `Updated` | `updateBooking`: status machine, effective dates, overlap, guest difference |
| `BeginCancel`, `CommitCancel` | `cancelBooking` |
| `BeginDeleteRoom`, `CommitDeleteRoom`, `Archived` | `deleteRoom`, room-core.service.ts, with its purge |
| `deleteGuest`, `Rollback` | `deleteGuest`, guest.service.ts; a transaction that fails |

`checkOverlap` is the where clause of the code's. `CommitUpdate` writes columns, not the row: only fields the body carries
are overwritten, which is why an update can meet dates another one changed; the CHECK on the dates then refuses it.
Ids are not reused, so a purged row is `Purged` and not `NoRow`. Left out: audit rows, price, source and notes, which no
transition reads; the count of invoices in `deleteRoom`, always zero because nothing writes one; the exact statement a
guest is read by within `Begin`.

`RoomCalendar` is what the service promises: stays that are reserved, moved and released in one indivisible step each.
`BookingRefinement` maps a booking to its stay while it holds its room (`staysBar`), and states `ImplementsCalendar`.

### JobQueue
A BullMQ queue with one worker of concurrency 1: the wait list, attempts, backoff of any length, the `failed` listener that moves
exhausted jobs to the dead-letter queue (`moving`: started, not finished), and `Restart`, where the active job is found
stalled and goes back to the head of the list. BullMQ does this once for a job, which is why the runs have one crash. Drafts and calendar sync EXTEND it and conjoin its steps with what
their processors do.

### DraftWorkflow, DraftReview, DraftRefinement
One conversation: `drafts`, its `latest` message, `phase` of the worker, `failedWrites` (handlers of `failed` that have
not written their row), `reqs`, and the history `sent`, the e-mails that left per draft. `CheckDraft`, `StoreDraft`,
`FinishJob`, `FailJob`, `WriteFailed` are ai-draft.job.ts from job to row; `BeginApprove`, `SendEmail`, `CommitApprove`,
`BeginReject`, `BeginRegenerate`, `CommitReject`, `Requeue`, `BeginGenerate`, `EnqueueGenerate` are
conversation-draft.service.ts. Left out: audit, prompt, cost and flags of a draft; a message added by hand; a guest
without an e-mail address (approval refuses it before any state changes); a database that fails within the failed handler.

`DraftReview` is what the review of drafts promises the guest: one draft of a message waits at a time, a draft is sent at most
once and not after a rejection, and what was sent is recorded for good. `DraftRefinement` maps a draft to its review by its
row and its e-mails (`StateOf`: between e-mail and transaction it is sent and not recorded), and states `ImplementsReview`.

### CalendarSync
`bookings` carry a version and whether they are cancelled and deleted; `rows` is `calendar_events`; `server` the VEVENTs;
`work` what `syncBookingToCalendar` holds between its awaits: `Load`, `MakeRow`, `Put` or one of its failures, `SaveRow`,
`FinishJob` or `FailJob`. The CalDAV client throws only when there is no answer. An HTTP error is a response like any other: the
code reads its etag header, which it lacks, stores the row as synced and ends the job. `PutOutdated` is the 412 of a
precondition that does not hold; `PutRefused` any other error (401, 403, 429, 5xx, 507), which may meet any PUT. The history
`refused` keeps the version of the last PUT refused so, until the server takes another; the properties except what it names, and
`calendar_refused` shows what comes of it. `BeginResync`, `CommitResync` are `resyncAll`, one booking at a time. The calendar of events
is the same engine with other text (caldav.service.ts:216-375) and is not modelled a second time. Left out: an HTTP error that
answers a PUT the server did carry out (for the code it is a lost answer that is not noticed).

### EmailIngest, MailLedger, MailRefinement
`mailbox` (a UID is a place), `lastUid`, `messages`, the number of conversations, `queued` jobs, and the `batch`, the UIDs
of a poll that are still to do (the loop takes the lowest first), with how far the e-mail at hand is. `Unusable` names the queue whose job id BullMQ refuses. `Poll` reads `imap_last_uid` and
searches: for higher UIDs; or, in the first run and whenever reading the setting throws, because the catch at
services/email/index.ts:232 takes this for a first run, for any set of unread e-mails of the whole mailbox. Then the place goes
back with the first e-mail that is done, what somebody has read meanwhile is passed over, and an e-mail without Message-ID is
stored again. `Skip`, `Thread`, `Store`, `Enqueue`, `Finish` are the loop of `pollInbox`; `Throw` its catch, `EnqueueFails` the inner
ones; `Crash` a death in the middle. The histories `thrown` and `cut` name the UIDs an error, a crash or a search for unread
e-mails touched or left out, `again` those below the place that a poll went back to. A job names its message, since an
e-mail without id may be two. Left out: gaps between UIDs,
what decides the class of an e-mail, our own outbound messages in a thread.

`MailLedger` is what the poll promises whoever wrote the e-mail: none is passed before it is kept, or found too old or known; it is kept
once, where the first e-mail it answers is kept; its jobs are queued before it is passed. Only an error that came before
excuses from this, and a place that was lost, after which e-mails are passed again and those without id kept once more. `MailRefinement` reads the ledger off the poll's tables: `messages` is what is kept and `lastUid` what is
passed, `thrown` and `cut` are the errors, and the jobs of an e-mail are those the queue does not refuse.
Batch and progress are nothing the ledger knows of. `ImplementsLedger` states it.

### GatewayClient
The client's fields (`ws`, `connected`, `closed`, `connectId`, timers, `requests`) and every socket it ever opened: their
handlers share the client and do not ask which socket an event comes from, so the end of an old one is `handleDisconnect`
of the client. `asked` and `accepted` are the gateway's side of the handshake. Left out: agent and chat events (they are
in `AgentRun`), an exception of the WebSocket constructor, the length of backoffs.

### EventRegistration
`guests`, `events` (capacity), `rows` of `event_bookings`, the guest `linked` to each conversation, `stays` (the two places
a booking names guests), and requests as in `Booking`. Registration, moving, `create_or_link` in its three modes, linking,
guests made from conversations, create, update, delete and merge of guests. Two histories: a request's `fresh` is true
until another commits after its reads; `clean` is true until one that is not fresh commits. They say in a property exactly
which requests it is about. Left out: invoices in a merge (nothing writes one), calendar jobs. The rows of the Viator
analysis are in `EventAnalysis`.

### InboxBooking
`createBookingFromConversation`; it extends `Booking`, whose tables and `createBooking` are the ones it uses. `Resolve`, `CreateGuest`, `Link`,
`Book` (the two steps of `createBooking`) and `WriteSource` commit one by one; `Abandoned` is a step that refuses, a write
that fails or a process that dies, and the operator may send the form again. Requests come one after the other. Left out:
the audit rows; the analysis that fills the form in, which changes nothing; edits of the guests by others meanwhile.

### MotopressSync
`bookings` with what a push reads and writes, the `mapping` of their room, the `remote` system's bookings, `pushes` in
flight, and requests `late`: nobody waits for them, MotoPress may still carry them out. `Begin` is all that is read;
`Answered`, `Refused`, `TimedOut` what the client makes of the call; `Commit`, `CommitFails`, `Fail` the two transactions
after it. The history `astray` names bookings with two pushes at a time or an outcome the backend never knew or stored.
Left out: guest and price in the payload, audit rows.

### RoomImport
One action is the whole import: `Links` reads the mappings, `ImportType` and `ImportRoom` are folded over the catalog in
its order, as the loops of the code are, by a recursive function (`Progress`), and `resolveUniqueName` gives the title or
the first suffix that is free. Several mappings may link a type of MotoPress to different rows; which of them is last is up
to the database (`Links`). Between imports staff rename, move and delete, and MotoPress publishes another catalog. How many
suffixes are tried (`Tries`, 100 in the code) is 3 in the run, which the catalogs do not exhaust. Left out: paging, status and capacities (one value `info`), prices.

### EventAnalysis
The row `analysis` of a conversation, its `thread`, the message whose pending row is not yet written (`announced`), and
`runs` an operator started. `Begin` reads the newest messages, `Persist` writes whatever came of it over whatever is
there. The job is not in it because the queue refuses it (section 7).

### ActionConfirmation, ConfirmedWrite, ConfirmationRefinement
`pending` (pendingActions), `meta` (actionMetaById), the `sequence` of user messages per session and whether the last one
was an "OK", the `calls` of confirm_action and cancel_action under way, `requests` at the API. Preparing, the hook that
notes it, a user message, the gate before a call (`BeforeConfirm`), `Execute`, `ApiHandles`, `Answer` and `Cancel` are
events of their own; hours pass and the host restarts. `said`, `prepared`, `written`, `told`, `reported` are histories.
`ConfirmedWrite` is the promise, proposed – cleared – written or dropped, and `ConfirmationRefinement` maps an action to it.
External: the host, which runs the hook after a tool before the model sees its result.

### AgentRun, AssistantChat
`AgentRun`: the events of one run as the client translates them (`runText`, `sawScoped`) and `collectAgentText` joins
them. Events carry the text so far or what is new, under one session key or two, beside legacy events; a drop loses what
is under way. `AssistantChat`: the response stream cut at any place, the chunks the tool plugin writes between, the
browser's `buffer`, the reply on the screen and the conversations in localStorage. Tokens are numbers.

### RestApi, AssistantTools
`RestApi` is what the routes take: for each schema the required and optional fields and the kinds of value, and what zod
drops. `AssistantTools` is every tool of the plugin: what it refuses, what it stores to be confirmed, the request
confirm_action makes of it. The property compares the two. What the tools pass on unseen it excepts by name (`PassedOn`): the
payload of create_conversation_booking, of which the tool looks at room and dates only and which is otherwise the agent's own
(`FreeGuests`, `FreeStays`), the status "archived" the descriptions offer, and the free label that update_conversation takes for a class.

### InboxComposer, DashboardQueries, DashboardForms
`InboxComposer`: selected conversation, text, prepared draft, the card, the progress of a generation, against drafts that
polls bring and other devices change; every await of the page is a step. TanStack Query pauses a request made
offline and runs it with the options of the render that is current when the browser is back, and the hooks live at page level: `GoesOut` and
`OrderGoesOut` send it to the conversation on the screen by then. A draft named in it that is of another conversation is not found there, so
approvals and rejections are refused; a reply in the user's own words is sent, and the history `waited` lets `SentAsRead` except
just this (`Strays`). Left out: leaving the page while a request waits. `DashboardQueries`: what each hook refetches,
what a route writes and what a page shows. `DashboardForms`: what each form lets through (its own schema), the request,
the answer of `RestApi` and what the user is told; the passwords of the two accounts are the state that outlives a form.

### MC modules
Components that share no variable are checked side by side: the initial state says which one a behaviour is about
(`part`), or the others rest. `MCBookingSerial`: Booking, InboxBooking. `MCReservations`: Booking, RoomImport. `MCWorkers`: DraftWorkflow,
GatewayClient. `MCRetries`: CalendarSync, EmailIngest. `MCConcurrent`: DraftWorkflow, MotopressSync, EventAnalysis. `MCFrontDesk`:
EventRegistration, EmailIngest, InboxComposer, DashboardForms. `MCAssistant`: the confirmation, AgentRun, AssistantChat, AssistantTools.
Components that proofs are about are extended there and not instantiated, so that the runs check the very definitions the
theorems name; `InboxBooking`, `EmailIngest`, `EventAnalysis`, `MotopressSync`, `RoomImport`, `InboxComposer`, `GatewayClient`, `AgentRun` and `AssistantChat`
carry their own name before `Init`, `Next` and the like for this reason (`WizardInit`, `MailInit`, `PushNext`, `AgentInit`…).

## 4. The runs

| Run | Question | Bounds |
|---|---|---|
| `booking_serial`: bookings | Does the service keep its promises when requests do not overlap, and implement `RoomCalendar`? | 2 bookings, rooms and guests, 3 days, one request in flight; bodies with every status, every stay of one room, dates alone, another room, other guests |
| … inbox | What does a form leave behind that fails anywhere and is sent again? | 2 bookings, 2 rooms, 2 guests, 2 conversations (one without an address), 3 forms, one request |
| `booking_double_booked` | Is `NoDoubleBooking` kept under interleaving, as the documents say? (no) | 2 bookings, 2 rooms, 1 guest, two requests in flight, bodies that overlap |
| `reservations`: bookings | What survives interleaved transactions? | the same |
| … import | Do two imports leave what is published, whatever staff did before? | 5 catalogs (swapped titles, a room of no type, one type gone, one room gone and a type called like that of rooms without one, one title twice), 2 imports, 3 edits, 5 ids each |
| `concurrent`: drafts | One pending draft, true records and dead letters under interleaving and a crash | 1 message, 2 jobs, 2 drafts, 2 requests, 2 attempts, 1 crash |
| … push | One remote booking, with what content? | 1 booking with 2 versions, 2 accommodations, 2 pushes at a time, 3 in all |
| … analysis | Which e-mail is the row about? | 4 messages, 2 runs at a time that read 2 |
| `draft_serial`: drafts | Sent once, reviewed as `DraftReview` says, every job ends, failure is seen | 1 message, 2 jobs, 3 drafts, 1 request, 2 attempts, no crash |
| … gateway | Few connections, a quiet stop, recovery, no request waits for ever | 4 sockets, 1 request, 2 drops, 1 refused handshake |
| `retries`: calendar | Does the calendar come to show the newest version, once, while the server is down at times or answers with errors? | 1 booking with 2 versions, 3 jobs, 2 rows, 2 requests |
| … mail | Does the poll get past everything? | 2 e-mails out of 5, batches of 1, 1 error, 1 crash |
| `calendar_faults` | What is never undone when answers are lost, jobs are not queued, the process dies and the operator re-syncs? | 1 booking with 2 versions, 2 jobs, 2 rows, 1 request, all faults; a crash where nobody edits (`SmallFaults`) |
| `calendar_refused` | Is a PUT the server refused recorded as failed, as the documents say? (no) | 1 booking, 2 jobs, HTTP errors only |
| `calendar_resync_cancelled` | Does a re-sync show cancelled bookings as cancelled, as its comment says? (no) | no faults |
| `email_not_retried` | Is a failed e-mail fetched again, as the documents say? (no) | 3 e-mails out of 5, batches of 2, 1 error, no crash |
| `front_desk`: registrations | Seats, waiting list, merges, e-mails over interleaved requests | 3 guests, 2 events, 2 registrations, 1 conversation, 1 booking, 2 requests in flight, 3 in all |
| … mail | Is every e-mail that was passed stored once, in its thread, with its jobs, and is each write of the poll one of `MailLedger`? | 3 e-mails out of 5, batches of 2, 1 error or failed read, 1 crash; 2 e-mails where the two meet (`SmallMail`) |
| … inbox | Does a text go where it was written for? | 2 conversations, 2 drafts, one send and one rejection at a time, no rejection beside a send that waited offline; text and generations apart |
| … forms | Is what a form lets through taken, and what it says was saved shown? | every form and button, from every state of the saved passwords |
| `assistant`: confirmation | Is only what was confirmed written, once, and the truth told? | 2 messages a session; 2 actions in one session and one call, or 1 action, 2 sessions and 2 calls |
| … run | Is the text whole? | 3 tokens, 1 drop, every form of events |
| … chat | Is the reply shown and kept? | 2 tokens, 1 message a session, 4 sessions, 1 tool call a reply |
| … tools | Does the API take what the user confirmed? | every tool, with every choice of its optional parameters that differs |

Why these bounds are enough to be interesting: a double booking or a stale check needs two requests and one row they
share; a swap of order needs two jobs of one booking and a third to tell late from lost; a batch of 2 out of 3 e-mails is cut and
leaves one behind; threads need an answer to an answer; a stale socket event needs an old socket, a current one and the
next; a lost answer needs a second push to show; a name that is taken needs two types that want it; a confirmation given
too early needs two messages and two actions; a cut line needs two chunks; capacity 1 or 2 with registrations of 1 or 2 attendees reaches full, exactly full and overfull. Two bookings fill both ends of an
overlap, and 3 days have adjacent, nested and disjoint stays. Where the process dies the booking is
not edited (`SmallFaults`): a SEQUENCE moves with re-syncs and cancellations as well. Bounds that are histories (`MaxUid`, `MaxCrashes`,
`MaxDrops`, `MaxRequests`…) are named in the guards they limit. `CHECK_DEADLOCK FALSE` stands in every configuration: ids, days and bounds
run out, and a system nobody asks anything may rest. The sizes of `MCAssistant` (`Small`), of the inbox (`SmallInbox`), the mailbox (`SmallMail`) and the calendar (`SmallFaults`) are
bounds of the same kind: what is left out is a third actor or a repetition, not a step. Symmetry is used in runs without liveness only.

What the properties say, in short (each is stated above its definition):

* `NoDoubleBooking`, `StatusFollowsMachine`, `DeletedIsCancelled`, `PrimaryGuestInJunction`, `ImplementsCalendar`: serial
  requests. With two in flight the first is broken (a finding) and the others are not promised; `CancelledIsDeleted`,
  ordered dates (`IInv`) and `PurgeTakesOnlyArchived` hold whatever interleaves.
* `AtMostOnePending` holds although the check and the row are a generation apart: only the worker stores pending drafts
  and it has one job at a time. `SentOnce` and `ImplementsReview` need requests one at a time and no crash: the code guards
  against nothing else. `RecordedWasSent` (a part of `IInv`), `DeadLettersExhausted` need nothing. `JobsSettle`, `FailureSurfaces`: liveness.
* `InStepWithServer` (`NewestVersionShown`, `OneVEventPerBooking`, `DoneWasTaken`), `EditsReachCalendar`: with a server that
  is down at times or refuses a PUT, and no lost answers; they except the version that was refused, until a PUT is taken.
  `SequenceNeverBack` and `IInv` (a row that says synced is on the server unless the server refused it, and what
  this rests on): with everything.
* `MailSound`: `NothingSkipped`, `StoredOnce`, `FewEmptyConversations`, `InThreadOfAnswered`, `JobsQueued`; `ImplementsLedger`. They except what
  `thrown`, `cut` and `again` name. `EveryMailPassed`: liveness, once there is a last UID.
* `ConnectionSound`: no request waits on a dead socket (`PendingCanBeAnswered`) or goes out before the handshake
  (`RequestsAfterHandshake`), `FewConnections`, `StoppedIsQuiet`. `ComesBack`: `Recovers` and `RequestsSettle`, liveness.
* `SeatsWithinCapacity`, `WaitlistedOnlyWhenFull`, `MergedGuestOwnsNothing`; `IInv` of the registrations has `MergesHaveAnEnd`,
  `EmailsDiffer`, that the guest of a booking is of its party, and what these and the seats rest on. They are about requests
  nobody committed under, and histories in which no request acted on data read before another's commit.
* `InboxBookingSound`: nobody is created twice for an address, no stay is booked twice, a source conversation knows its guest.
* `PushSound`: one remote booking per booking, unless two pushes met or an outcome was lost; a row that says synced shows
  what its push had read. `ImportSound`: unique names are never hit, what is published is mapped, and where all that is mapped is published
  and published types differ in their titles (`Regular`), a third import changes nothing.
* `AnalysisSound`: the row is never about an e-mail older than the newest of Viator, but for the exceptions it names.
* `WrittenAsConfirmed`, `ToldTheTruth`, `ImplementsConfirmedWrite`; `WholeText`; `ChatSound`; `PreparedIsTaken`, but for `PassedOn`.
* `InboxSound` (`SentAsRead`, `NothingOverwritten`, `ReadyIsThere`), and `FormsSound` (`FormsAreTaken`, `SavedIsShown`, `CalendarPasswordKept`, `ButtonsWork`, `WrittenIsRefetched`).

For every property of a run that passes PROJECT.json names a mutant, a plausible mistake in one definition, under which the run finds it
violated; the mutants stand in the modules, each before the definition it replaces, as `<definition>_<mistake>`.

## 5. Fairness

* `DraftWorkflow`: the worker takes jobs, BullMQ promotes delayed ones, listeners run to their end, and a generation ends:
  by an answer, an error, or its timeout of 90 s (draft-generator.ts). All weak; requests of the operator have none.
* `CalendarSync`: the same for the worker, whose CalDAV calls return, with whatever status, or throw; a handler that has committed enqueues.
  A server that stays down is allowed: its jobs end as dead letters. So is one that refuses every PUT.
* `EmailIngest`: the repeatable job polls again and every await of the worker ends; errors, failed reads of the last UID among
  them, are bounded by `MaxFaults`. A first run need not find anything (`BoundToWork`): the e-mails may all have been read.
* `GatewayClient`: timers fire, an attempt to connect ends, the gateway challenges and answers connect requests, a
  closing handshake ends (the `ws` library cuts it after 30 s), and the timeout of a request fires. That the gateway challenges is an
  assumption and not a fact of this code: the watchdog starts only after the handshake, so a gateway that accepts a connection
  and says nothing would leave the client waiting.
* The other modules state no fairness: their properties are about safety, and nothing in the code makes an operator press a
  button again, a model behind the gateway answer, or MotoPress come back.

## 6. The proofs

The theorems hold for instances of every size. What they assume of the constants are the named assumptions of the modules
(`DataAssumption`, `MarkerAssumption`, `StayAssumption`, `WizardAssumption`, `QueueAssumption`, `DraftAssumption`, `ReviewAssumption`, `CalendarAssumption`,
`EmailAssumption`, `ParameterAssumption`, `GatewayAssumption`, `PushAssumption`, `AnalysisAssumption`,
`ImportAssumption`, `InboxAssumption`, `ConfirmationAssumption`, `AgentAssumption`, `ChatAssumption`): markers are no values, bodies passed their schema, bounds are numbers, what MotoPress publishes has ids of its own. TLC evaluates them in
every run. Three theorem families assume more, and say so in their statement: `Serial` of Booking and of DraftWorkflow (one
request in flight; in the latter also no crash), and `Calm` of CalendarSync (all that fails is a server that cannot be
reached or refuses a PUT, and nobody re-syncs). They are the conditions of the runs that check the same properties.

Every proof has the same shape: an inductive invariant, a lemma per action that the action keeps it, a lemma that puts the
actions together, and theorems that read the properties off it. What the invariants add to the properties is where the
argument is.

* **BookingProofs**, first part (any number of requests in flight). `IInv`: the types, ordered dates, cancelled means
  deleted, and `PendingSound`, what a handler remembers and no commit of another can undo: a create has ordered dates, an
  update to `cancelled` also sets `deletedAt` (it does so because it saw another status, and a row that is already cancelled
  cannot have been read as live), the rows a room's deletion has chosen stay deleted. Without `PendingSound` the properties are
  not inductive: a commit would write on the strength of a check nothing is known of. `TypeCorrect`, `DatesStayOrdered`,
  `CancelledStaysDeleted` and `PurgeIsSafe` follow.
* Second part (`Serial`, any number of everything else). `SInv` adds that what the request read is still so
  (`PendingFresh`). From it: no double booking, no deleted booking that is not cancelled, statuses along the machine, the
  primary guest among the guests of the booking (`SerialPrimaryGuest`), and `SerialImplementsCalendar`: every commit is a
  `Reserve`, `Move` or `Release` of `RoomCalendar` or leaves all stays as they are.
* Third part (`Serial`; any conversations, forms and guests): bookings made from a conversation. A request does its writes one
  by one, so what it remembers must still be so when it goes on (`Remembered`: nobody has the address it is about to create a
  guest for, the conversation is linked to the guest it is going to book for, the new booking has no source yet). Its
  transaction is `createBooking`'s for the stay of its form (`TransactionIsBook`), so `SInv` is inherited, with it that no stay
  is booked twice, and each step is again one of `RoomCalendar` (`InboxImplementsCalendar`). `SourcesSound` says, in the middle
  of a request too, for whom the bookings of a source conversation are. `InboxBooksSoundly` follows, wherever a request is cut short.
* **JobQueueProofs**: `QInv` (types, one active job, each waiting job once in the list, attempts left, dead letters
  exhausted) is preserved by every step of the queue, whatever the processor does. DraftProofs and CalendarProofs build on it.
* **DraftProofs**: `IInv` = `QInv`, the types, that requests know drafts that exist, that a request past its e-mail has sent
  it, and `GeneratingFree`: while the worker generates, no other pending draft of the message appears. The last one is what
  makes `AtMostOnePending` inductive. `NeverTwoPending`, `RecordIsTrue`, `DeadLettersAreExhausted` follow, for any number of
  crashes. Under `Serial`, a draft whose e-mail left is either recorded as sent or the one the request in flight is about
  (`SentIsRecorded`), and so is sent once and for good (`SerialSentOnce`, `SerialSentIsFinal`). With `ApprovedIsOpen` (nobody
  rejects what an approval is about to send) every step is one of `DraftReview` or leaves the review as it is
  (`SerialImplementsReview`): the worker offers only what `GeneratingFree` allows, the e-mail is the sending.
* **CalendarProofs**, whatever fails. The worker reads a row, asks the server, and writes the row; a re-sync, another job's
  row or a crash may come between. `WorkAgrees` says what of the row cannot have changed, `ServerOneAhead` that the server
  is at most one SEQUENCE ahead of the row, which is when an answer was lost. `RecordsAreTrue` (a row that says synced has its
  VEVENT, or the server refused it) and `SequenceIsMonotone` follow. Under `Calm`: every booking has its newest version on the server, or had just this one refused (`Tried`), or there is a request, a
  job or the job at hand that is going to put it there (`NewestOrComing`, where a "create" counts only while there is no
  VEVENT, `Writers`), and the etags the rows and the worker hold are current or null, which is what a refusal leaves and makes the next PUT
  unconditional (`EtagsCurrent`). `WorkerInStep` follows.
* **InboxProofs**, the poll: `NothingBetween` (below an e-mail of the batch there is none that is not of the batch, done with or accounted for as
  cut, and what the batch has below the last UID is in `again`, so storing a UID passes only what may be passed, also when it
  goes back), `AtHand` and `JobsComing` (what the processing of an e-mail remembers is so, and the jobs it
  has not enqueued are those in its list), `EmptyAccountedFor` (each empty conversation goes to the account of an error, a
  crash or the e-mail at hand). That the e-mail at hand is the one with the least UID, and threads are found by the first of the
  ids an e-mail answers, needs the least element of a set of numbers: `LeastNatural` proves it from the well-foundedness of
  inclusion among finite sets, and `MinIsLeast`, `MaxIsGreatest` are what is used of it. `MailIsSound` follows.
* The poll as a `MailLedger`: with `Unpassed` (what is stored and not passed is the e-mail at hand, or an error touched it, or the poll went back to it) and
  `TodoWanted` (the jobs still to queue are the e-mail's own) every step is one of the ledger or leaves it as it is: `Thread`
  opens, `Store` keeps, `Enqueue` queues, `Skip` and `Finish` pass what is settled, the other errors and `Crash` are its
  `Fail` (`MailImplementsLedger`).
* The analysis: a run that was not overtaken has read the newest e-mail or finds it behind the messages it reads
  (`RunsUpToDate`), and the e-mail that is announced is the newest (`AnnouncedIsNewest`). `AnalysisIsSound` follows.
* The inbox page: a draft is written once, for one conversation, and dealt with once (`DraftsStay`); what polls have brought
  of it was so once (`ShownWasSo`); so a text keeps its conversation, and all that the screen holds is of the one on it
  (`ScreenBelongs`), whatever other devices do meanwhile. What is being sent is what was read, as text or as the content of
  the draft, and of the conversation it goes to unless it waited, in which case an approval is still about a draft of its own text
  (`SendingBelongs`) and so can succeed only for that draft's conversation; while it is under way nothing fills the composer. `InboxIsSound` follows.
* **ClientProofs**, the gateway client: a timer to reconnect stands for a connection there may be (`ConnectionsCounted`,
  with which `FewConnections` is inductive), without refused handshakes the live socket is the current one
  (`OnlyCurrentSocket`), connect requests wait on live sockets, a stopped client has none. `ConnectionIsSound` follows.
* The push to MotoPress: a step concerns one booking and leaves what the others' state is read from as it was; the booking
  either keeps to one push that nothing else outdates (`Alone`) and that accounts for what MotoPress holds (`Followed`), or is
  astray, and no more is said of it than that the ids it stores are true (`IdsAreTrue`). `PushIsSound` follows.
* The import: an item that is not undone keeps the keys and references of the tables and has every link at a row there is
  (`TypeKeepsSound`, `RoomKeepsSound`), so they hold after any number of items and of imports (`RoomInvariant`); a room that
  was brought in stays so while the others are (`RoomStaysDone`), so all are at the end. That imports settle is an argument
  about two imports side by side, from what the first one leaves (`SteadyAfter`): every published room has a name of its
  title and the type its link names, and the row a link names has the title of the type or of one listed later. The second
  gives the rooms the same links again (`SteadyTypes`, `SecondIs`), so the third starts with the links of the second
  (`LinksStay`); only rooms without a type may move, once, to a published type that is called like theirs
  (`UnassignedStays`). The third finds for each type the row the second found (`SameTypeRow`) and the same names free (`SameNames`: what a
  later type renamed had the title of a later type before), so the types end as they were (`SameTypesEnd`); every room has
  the first name free to it, and the step of another room leaves it that (`SettledStays`), so nothing changes
  (`ThirdIsSecond`). `RoomImportIsSound` follows. The induction is over the places of a catalog, 0 to its length
  (`NumbersInduct`), and needs no induction over data: a counterexample would have a least place.
* **RegistrationProofs**: a request is `fresh` until another one commits, so what a fresh request read still holds when it
  writes, of guests (`FreshReadsHold`) and of the seats of an event (`FreshSeatsHold`); each commit outdates all others in
  flight, so none needs an argument about theirs; a request that writes on old data ends `clean`. `NothingLeftBehind`,
  `MergesEnd` and `GuestStaysInParty` follow from the invariant. The seats taken are a sum over the confirmed registrations,
  so `SeatsNotOversold` and `WaitlistIsFair` also need that a sum changes by the weight of the one row that is written
  (`SumWithout`), that a part has no larger a sum (`SumOfPart`), and that the rows are finitely many (`RowsFinite`). The
  library's sums have no theorems; these laws are proved from the definition: a counterexample would have a smallest set,
  because inclusion among finite sets is well-founded (`SmallestSet`), and the smallest one contradicts the definition.
* **AssistantProofs**, the confirmation (any number of actions, sessions, messages and overlapping calls). Beside the types, `GuardCovers`:
  the guard knows every action that can still be executed, as it was prepared, unless a blocked call of it was reported.
  Without it nothing could be proved of a guard that lets every action pass that it has no meta of. `SequenceSound` and
  `MetaSound` relate the guard's counters, which start again with the host, to what was really said; `CallsSound` and
  `RequestsSound` say what a call under way has already been cleared for. `WrittenOnlyAsConfirmed`, `TruthTold` and
  `ImplementsWrite` (every step is one of `ConfirmedWrite` or a stutter) follow.
* The agent run, for any number of tokens, drops and reconnections: the text so far, followed by what is on the wire, is the
  text (`WholeUnderWay`: each token is in one or the other, none behind the end of the run), which holds until the connection
  drops and so until the promise resolves; `InOrder` is what is left after a drop: tokens rise, in the text and on the wire,
  unless one session's events come under two keys. That events of a run under way carry one kind of key is `KeysSound`.
  `TextIsWhole` follows.
* The chat, for any number of sessions, tokens, chunks and calls of the plugin: what is shown, then the token in the browser's
  buffer, then the stream (`PiecesInOrder`); a line that was begun ends before the next one is shown (`LinesEnd`), so the buffer is
  empty when one begins; of a reply whose lines no chunk tore nothing is missing (`NothingLost`). `ReplyIsShown` follows.

TLC found each of these invariants to hold, on the instance of the run that checks the property, before it was proved; the
runs keep checking those of Booking, DraftWorkflow, CalendarSync, EventRegistration and the confirmation (`IInv`).

Model-checked only:
* all liveness, which needs `ENABLED` and is outside the reach of the prover: `JobsSettle`, `FailureSurfaces`, `ComesBack`,
  `EveryMailPassed`, `EditsReachCalendar`;
* `PreparedIsTaken` and `FormsSound`: their modules have no constant but a marker, so their state spaces are finite and TLC's run
  covers them whole; there is no larger instance a proof would add.

## 7. What the models show the code to do

Findings (runs that end in a violation, each against a document or comment of the repository):

1. Two concurrent requests double-book a room: `checkOverlap` is a read without a lock or an exclusion constraint
   (booking.service.ts:182; EXECUTION_PLAN.md:189, packages/backend/ARCHITECTURE.md:135).
2. A re-sync queues updates for cancelled bookings and so takes their `[CANCELLED]` away (calendar.service.ts:148 and its
   comment at 107).
3. An e-mail whose processing failed is not retried once a later one of the mailbox is stored (services/email/index.ts:543;
   services/email/ARCHITECTURE.md:230).
4. A PUT that the calendar server answers with an HTTP error is stored as synced and its job is done: nothing reads the status
   of the response (caldav.service.ts:107-131, 165-192; services/caldav/ARCHITECTURE.md:159-160 and caldav.service.ts:29 say the
   row is marked failed and the job retried). The row then knows a URL that may not exist, has no etag, and the calendar stays behind
   until the next change of the booking or a re-sync.

Other behaviour met on the way, excluded from the properties by a bound or a condition that says so:

* Bookings: an update that interleaves with a cancellation can write its status over it (booking.service.ts:290).
* Drafts: two approvals at once send two e-mails (conversation-draft.service.ts:43); the `failed` row is written after each
  attempt, although ai-draft.job.ts:91 speaks of the last; a draft that failed does not keep the worker from making
  another; a crash before `moveToDLQ` ends loses the dead letter (plugins/queue.ts:87).
* Calendar: a retried `update` that runs after a `delete` takes `[CANCELLED]` away (caldav.service.ts:74); after a lost
  answer the row's etag is stale, and the next PUT is refused without anyone noticing (caldav.service.ts:169); a re-sync
  that races the worker makes a second VEVENT (caldav.service.ts:80).
* E-mail: when the setting `imap_last_uid` cannot be read the poll starts from the beginning of the mailbox with what is unread,
  moves the setting back, and stores e-mails without Message-ID again (services/email/index.ts:224-235). The analysis of an e-mail
  from Viator is never queued: its job id has a `:`, which the queue refuses as the comment at services/email/index.ts:446 says; the
  error is caught and logged (488-494), and the row stays pending until somebody starts the analysis by hand (480, where
  docs/integrations/viator-event-automation.md:18 has it enqueued). The test at `__tests__/ota-calendar-sync.test.ts:344` has a
  queue of its own, which refuses nothing.
* Gateway: after a refused handshake the socket stays open and another is opened (gateway-ws-client.ts:452); with two
  sockets, a handshake answered on the old one marks the client connected.
* Events: overlapping registrations oversell an event (event.service.ts:213); registering again writes back a booking id
  read before and may lose one linked meanwhile (event.service.ts:235); two merges in opposite directions delete both
  guests, and two guests registered for the same event can never be merged, since the unique index refuses the move of the second row
  (guest.service.ts:261); moving a cancelled booking confirms it again (conversation-event.service.ts:704); create_or_link
  overwrites the booking id of a row it finds by event and guest; a seat given up is not offered to the waiting list;
  `createGuest` compares e-mails exactly, the inbox without regard to case.
* Conversation bookings: without an address, a form sent again creates the guest again; a booking whose source was not
  written stays without one, and stands in the way of the second attempt (conversation-booking.service.ts:187-255).
* MotoPress push: a lost answer, a failed write or two pushes at a time make a second remote booking
  (booking-sync.service.ts:99-115); a booking edited after a push still says synced; cancelling hides a booking, so no push
  finds it any more and a cancellation never reaches MotoPress, although line 71 speaks of cancelled bookings that were
  synced before; nothing clears the id of a remote booking that is gone.
* Import: types are also found by name, rooms only by their mapping, so a room made by hand gets a double with a suffix;
  swapped titles need two imports; what staff renamed is named back (motopress-import.service.ts:94-245). A mapped room that
  MotoPress no longer publishes keeps its mapping as it was, and the type in it goes on linking a type of MotoPress to that
  room's row (87-92), so that one import after the other may take another row for it; and several published types of one title,
  whose rows the staff have made other types share, can hand the title on, one import after the other. `Regular` leaves both
  out; they were found when the proof would not go through, the first then by TLC on catalogs the run had not had.
* Analysis: a run in flight when a newer e-mail comes overwrites its pending row; a run after eight messages of our own
  overwrites a result with "No inbound message" (conversation-event.service.ts:265-313).
* Agent runs: `agentRuns` is cleared when the connection drops, so a run that goes on may end with part of its text
  (gateway-ws-client.ts:519).
* Chat: a tool chunk written inside a line loses the token of that line, and the tool (assistant.routes.ts:130); two tabs
  share the counter of sessions (not modelled).
* Confirmation: one "OK" confirms every action prepared before it in the session; the guard does nothing without a session
  key, and if the host reports a blocked call the meta is consumed and the next confirm passes (index.ts:45-48); after a
  lost answer the user is told "No changes were applied" all the same; docs/telegram-inbox-ops-runbook.md:115 expects the same.
* Tools: descriptions offer the status "archived" (tools/conversations.ts:116, 164), which the API refuses;
  create_conversation_booking checks room and dates only, although lib/confirmation.ts:4 speaks of "validate + store", so that a
  confirmed action can be refused; one without a guest is stored and then answered with an error, and nobody learns its id; its
  preview leaves out room, guest details and notes; lib/tool-activity.ts names two routes no tool calls;
  get_payment_status calls an overpaid booking "partial", where the panel says paid.
* Inbox: a reply written offline goes to the conversation on the screen when the browser is back
  (use-conversations.ts:109-146, inbox-page.tsx:78); a late answer to "generate" can speak of another conversation; a rejection that returns after another draft was
  prepared un-prepares that one (inbox-page.tsx:153); after a failed approval sending goes on failing until another
  conversation is selected; the edit of a draft starts from the text its card last held.
* Forms: what is cleared in a guest's form is silently kept; the booking form offers statuses a new booking may not have; a
  new guest may lack both e-mail and phone, which the API refuses; forms send whole records and so undo what others wrote
  meanwhile; the e-mail account saved with its password field left empty ("enter new to change",
  email-provider-section.tsx:275) loses its password; toggling polling writes back the configuration it read; renaming a
  room type leaves the old name beside its rooms for five minutes.

## 8. What is not modelled

PROJECT.json lists every part with its reason. In short: parts whose state nothing else reads between two of its steps
(payments as rows, settings, FAQ, seasons, statistics, read marks, notifications, authentication), text (prompts, parsers,
classification rules, formatting, iCalendar), stubs (invoices, the widget), lists, filters and layout of the dashboard, and
deployment. The calendar of events is the engine of bookings with other text. Two hazards have no property, and say why
in their note: a draft rejected although the new job is never queued, and a guest's answer that comes before our message is
recorded. Neither is a stored UID that outlives its mailbox, which the code does not look at.

## 9. The plan

Done, in this order: Booking with its abstract calendar and proofs (what the business lives from); JobQueue and
DraftWorkflow with proofs (the only place where the system speaks to guests by itself); CalendarSync; EmailIngest;
GatewayClient; EventRegistration; ActionConfirmation with its abstract specification and proofs (the only place where a model
may write); AgentRun and AssistantChat; RestApi, AssistantTools and the dashboard's modules (what two sides must agree on);
InboxBooking over Booking; MotopressSync, RoomImport and EventAnalysis.

Proofs, in the order they were done: Booking, JobQueue and DraftWorkflow, the confirmation; then GatewayClient, CalendarSync,
serial drafts with their review, guests of bookings, InboxBooking, EventRegistration, EmailIngest, MotopressSync, EventAnalysis, InboxComposer, AgentRun,
AssistantChat, the poll as a `MailLedger`, and RoomImport.

Left for whoever goes on: our own messages in `EmailIngest`, so that an answer can overtake the record of what it answers.

## 10. How to run it

    tlc -workers 2 -config BookingSerial.cfg MCBookingSerial
    tlapm BookingProofs.tla

PROJECT.json has, for each run, its module, its configuration and its properties; for each mutant the run that catches it; for each
definition the lines of the source it stands for.
