---------------------------- MODULE CalendarSync ----------------------------
(***************************************************************************)
(* One-way push of bookings to the Apple calendar: the booking routes that *)
(* commit a change and then enqueue a calendar-sync job, the worker that   *)
(* reads the booking, PUTs its VEVENT and stores the etag                  *)
(* (caldav.service.ts), and the re-sync of everything                      *)
(* (calendar.service.ts).  The calendar server is external.                *)
(*                                                                         *)
(* The content of a booking is a version number; whether its VEVENT says   *)
(* [CANCELLED] depends on the action of the job, not on the booking.       *)
(***************************************************************************)
EXTENDS JobQueue

CONSTANTS
  Bookings,    \* ids of bookings
  Rows,        \* ids of rows of calendar_events, and of their VEVENTs
  Requests,    \* requests that can be in flight at the same time
  MaxVersion,  \* bound on the edits of a booking
  MaxCrashes,  \* bound on the deaths of the process
  Faults,      \* what may go wrong outside: see Fault
  Resync,      \* whether the operator re-syncs everything
  NoBooking, NoRow, NoObject, NoWork

VARIABLES
  bookings,  \* the table bookings
  rows,      \* the table calendar_events
  server,    \* the VEVENTs on the calendar server
  refused,   \* history: the version whose PUT the server refused last, or 0
  work,      \* what the worker holds of its job
  reqs,      \* what each request in flight remembers
  crashes

calendarVars == <<bookings, rows, server, refused, reqs, crashes>>
vars == <<queueVars, calendarVars, work>>

\* The server cannot be reached; its answer is lost; it answers a PUT with an
\* HTTP error (401, 403, 429, 5xx, 507); Redis cannot be reached.
Fault == {"down", "lost", "refused", "queue"}
Action == {"create", "update", "delete"}
Version == 1..MaxVersion
\* PATCH can cancel a booking and leave it there to be edited; DELETE hides it.
Booking == [version : Version, cancelled : BOOLEAN, deleted : BOOLEAN]
\* known: caldavUid and caldavUrl are set.  An etag of 0 is a null.
Row == [booking : Bookings, known : BOOLEAN, etag : Nat, seq : Nat,
        status : {"pending", "synced", "failed"}]
VEvent == [version : Version, cancelled : BOOLEAN, seq : Nat]
Object == [content : VEvent, etag : Nat \ {0}]
Payload == [booking : Bookings, action : Action]

Idle == [op |-> "idle"]
Request ==
  [op : {"idle"}]
    \cup [op : {"enqueue"}, booking : Bookings, action : Action]
    \cup [op : {"resync"}, booking : Bookings, row : Rows \cup {NoRow}]

\* What the worker read; push is "put" for an update of a known VEVENT.
Work == [phase : {"norow", "ready", "answered", "thrown", "saved"},
         booking : Bookings, row : Rows \cup {NoRow}, push : {"create", "put"},
         known : BOOLEAN, etag : Nat, content : VEvent]

ASSUME CalendarAssumption ==
  /\ Payloads = Payload
  /\ MaxVersion \in Nat \ {0} /\ MaxCrashes \in Nat
  /\ Faults \subseteq Fault /\ Resync \in BOOLEAN
  /\ NoBooking \notin Booking /\ NoRow \notin Row /\ NoRow \notin Rows
  /\ NoObject \notin Object /\ NoWork \notin Work

IsBooking(b) == bookings[b] # NoBooking
IsRow(r) == rows[r] # NoRow

RowsOf(b) == {r \in Rows : IsRow(r) /\ rows[r].booking = b}
IsObject(r) == server[r] # NoObject

Init ==
  /\ QueueInit
  /\ bookings = [b \in Bookings |-> NoBooking]
  /\ rows = [r \in Rows |-> NoRow]
  /\ server = [r \in Rows |-> NoObject]
  /\ refused = [r \in Rows |-> 0]
  /\ work = NoWork
  /\ reqs = [q \in Requests |-> Idle]
  /\ crashes = 0

-----------------------------------------------------------------------------
(* The routes of bookings: commit, then enqueue                              *)

ToEnqueue(q, b, action) ==
  /\ reqs[q] = Idle
  /\ reqs' = [reqs EXCEPT ![q] = [op |-> "enqueue", booking |-> b, action |-> action]]
  /\ UNCHANGED <<queueVars, rows, server, refused, work, crashes>>

CreateBooking(q, b) ==
  /\ ~IsBooking(b)
  /\ bookings' = [bookings EXCEPT ![b] = [version |-> 1, cancelled |-> FALSE, deleted |-> FALSE]]
  /\ ToEnqueue(q, b, "create")

UpdateBooking(q, b) ==
  /\ IsBooking(b) /\ ~bookings[b].deleted
  /\ bookings[b].version < MaxVersion
  /\ bookings' = [bookings EXCEPT ![b].version = @ + 1]
  /\ ToEnqueue(q, b, IF bookings[b].cancelled THEN "delete" ELSE "update")

CancelBooking(q, b) ==
  /\ IsBooking(b) /\ ~bookings[b].cancelled
  /\ \E deleted \in BOOLEAN :
       bookings' = [bookings EXCEPT ![b].cancelled = TRUE, ![b].deleted = deleted]
  /\ ToEnqueue(q, b, "delete")

Enqueue(q, j) ==
  /\ reqs[q].op = "enqueue"
  /\ Add(j, [booking |-> reqs[q].booking, action |-> reqs[q].action])
  /\ reqs' = [reqs EXCEPT ![q] = Idle]
  /\ UNCHANGED <<bookings, rows, server, refused, work, crashes>>

\* enqueueCalendarSyncJob logs the error and the request succeeds.
EnqueueFails(q) ==
  /\ "queue" \in Faults
  /\ reqs[q].op = "enqueue"
  /\ reqs' = [reqs EXCEPT ![q] = Idle]
  /\ UNCHANGED <<queueVars, bookings, rows, server, refused, work, crashes>>

-----------------------------------------------------------------------------
(* resyncAll, one booking after the other, cancelled ones too                *)

BeginResync(q, b) ==
  /\ Resync
  /\ reqs[q] = Idle
  /\ IsBooking(b)
  /\ \E r \in IF RowsOf(b) = {} THEN {NoRow} ELSE RowsOf(b) :
       reqs' = [reqs EXCEPT ![q] = [op |-> "resync", booking |-> b, row |-> r]]
  /\ UNCHANGED <<queueVars, bookings, rows, server, refused, work, crashes>>

\* Mutant: a row counts as synced until told otherwise.
NewRow_Synced(b) == [booking |-> b, known |-> FALSE, etag |-> 0, seq |-> 0, status |-> "synced"]

NewRow(b) == [booking |-> b, known |-> FALSE, etag |-> 0, seq |-> 0, status |-> "pending"]

\* Mutant: the upsert resets the sequence number.
CommitResync_Resets(q) ==
  LET b == reqs[q].booking
      r == reqs[q].row
      next(action) == [op |-> "enqueue", booking |-> b, action |-> action] IN
  /\ reqs[q].op = "resync"
  /\ \/ /\ r = NoRow
        /\ \E n \in Rows : ~IsRow(n) /\ rows' = [rows EXCEPT ![n] = NewRow(b)]
        /\ reqs' = [reqs EXCEPT ![q] = next("create")]
     \/ /\ r # NoRow
        /\ rows' = [rows EXCEPT ![r].status = "pending", ![r].seq = 0]
        /\ reqs' = [reqs EXCEPT ![q] = next(IF rows[r].known THEN "update" ELSE "create")]
  /\ UNCHANGED <<queueVars, bookings, server, refused, work, crashes>>

\* The upsert, then the job: "update" if the row it read has a caldavUid.
CommitResync(q) ==
  LET b == reqs[q].booking
      r == reqs[q].row
      next(action) == [op |-> "enqueue", booking |-> b, action |-> action] IN
  /\ reqs[q].op = "resync"
  /\ \/ /\ r = NoRow
        /\ \E n \in Rows : ~IsRow(n) /\ rows' = [rows EXCEPT ![n] = NewRow(b)]
        /\ reqs' = [reqs EXCEPT ![q] = next("create")]
     \/ /\ r # NoRow
        /\ rows' = [rows EXCEPT ![r].status = "pending"]
        /\ reqs' = [reqs EXCEPT ![q] = next(IF rows[r].known THEN "update" ELSE "create")]
  /\ UNCHANGED <<queueVars, bookings, server, refused, work, crashes>>

-----------------------------------------------------------------------------
(* The worker: syncBookingToCalendar                                         *)

StartJob(j) ==
  /\ Take(j)
  /\ work' = NoWork
  /\ UNCHANGED calendarVars

\* Mutant: the booking is read before the change that queued the job.
Content_Stale(b, action, seq) ==
  [version |-> bookings[b].version - 1, cancelled |-> action = "delete", seq |-> seq]

\* The VEVENT built from what was read.
Content(b, action, seq) ==
  [version |-> bookings[b].version, cancelled |-> action = "delete", seq |-> seq]

\* Reads the booking and any one of its rows (calendarEvents[0] has no order).
Load(j) ==
  LET b == jobs[j].data.booking
      action == jobs[j].data.action IN
  /\ Active(j)
  /\ work = NoWork
  /\ IsBooking(b)
  /\ \/ /\ RowsOf(b) = {}
        /\ work' = [phase |-> "norow", booking |-> b, row |-> NoRow, push |-> "create",
                    known |-> FALSE, etag |-> 0, content |-> Content(b, action, 0)]
     \/ \E r \in RowsOf(b) :
          LET push == IF action = "create" THEN "create" ELSE "put" IN
          work' = [phase |-> "ready", booking |-> b, row |-> r, push |-> push,
                   known |-> rows[r].known, etag |-> rows[r].etag,
                   content |-> Content(b, action,
                                 IF push = "put" THEN rows[r].seq + 1 ELSE rows[r].seq)]
  /\ UNCHANGED <<queueVars, calendarVars>>

MakeRow(j) ==
  /\ Active(j)
  /\ work # NoWork /\ work.phase = "norow"
  /\ \E r \in Rows :
       /\ ~IsRow(r)
       /\ rows' = [rows EXCEPT ![r] = NewRow(work.booking)]
       /\ work' = [work EXCEPT !.phase = "ready", !.row = r]
  /\ UNCHANGED <<queueVars, bookings, server, refused, reqs, crashes>>

InPhase(p) == work # NoWork /\ work.phase = p

\* The server takes a new VEVENT with If-None-Match: *, one whose URL is known
\* with If-Match if the row has an etag and whatever is there if it has none.
Accepted ==
  \/ work.push = "create" /\ ~IsObject(work.row)
  \/ /\ work.push = "put" /\ work.known
     /\ work.etag = 0 \/ (IsObject(work.row) /\ work.etag = server[work.row].etag)

NewObject ==
  [content |-> work.content,
   etag |-> IF IsObject(work.row) THEN server[work.row].etag + 1 ELSE 1]

Stored(j) ==
  /\ Active(j) /\ InPhase("ready")
  /\ Accepted
  /\ server' = [server EXCEPT ![work.row] = NewObject]
  /\ refused' = [refused EXCEPT ![work.row] = 0]
  /\ UNCHANGED <<queueVars, bookings, rows, reqs, crashes>>

\* The PUT is done and answered with the new etag.
Put(j) ==
  /\ Stored(j)
  /\ work' = [work EXCEPT !.phase = "answered", !.etag = NewObject.etag]

\* The PUT is done and its answer is lost: the client throws.
PutLost(j) ==
  /\ "lost" \in Faults
  /\ Stored(j)
  /\ work' = [work EXCEPT !.phase = "thrown"]

\* An HTTP error is a response as any other, without an etag, and the code looks
\* at nothing else of it.
Answered(j) ==
  /\ Active(j) /\ InPhase("ready")
  /\ work.push = "put" => work.known
  /\ work' = [work EXCEPT !.phase = "answered", !.etag = 0]
  /\ UNCHANGED <<queueVars, bookings, rows, server, reqs, crashes>>

\* 412: the precondition of the PUT does not hold.
PutOutdated(j) ==
  /\ Answered(j)
  /\ ~Accepted
  /\ UNCHANGED refused

\* Any other error, whatever the PUT.
PutRefused(j) ==
  /\ "refused" \in Faults
  /\ Answered(j)
  /\ refused' = [refused EXCEPT ![work.row] = work.content.version]

\* Nothing reaches the server; a row without a caldavUrl has no URL to PUT to.
PutThrows(j) ==
  /\ Active(j) /\ InPhase("ready")
  /\ "down" \in Faults \/ (work.push = "put" /\ ~work.known)
  /\ work' = [work EXCEPT !.phase = "thrown"]
  /\ UNCHANGED <<queueVars, calendarVars>>

\* Mutant: the new etag is not stored.
SaveRow_OldEtag(j) ==
  /\ Active(j) /\ InPhase("answered")
  /\ rows' = [rows EXCEPT ![work.row].status = "synced",
                          ![work.row].known = @ \/ work.push = "create",
                          ![work.row].seq = work.content.seq,
                          ![work.row].etag = IF @ = 0 THEN work.etag ELSE @]
  /\ work' = [work EXCEPT !.phase = "saved"]
  /\ UNCHANGED <<queueVars, bookings, server, refused, reqs, crashes>>

SaveRow(j) ==
  /\ Active(j) /\ InPhase("answered")
  /\ rows' = [rows EXCEPT ![work.row].etag = work.etag,
                          ![work.row].status = "synced",
                          ![work.row].known = @ \/ work.push = "create",
                          ![work.row].seq = work.content.seq]
  /\ work' = [work EXCEPT !.phase = "saved"]
  /\ UNCHANGED <<queueVars, bookings, server, refused, reqs, crashes>>

FinishJob(j) ==
  /\ InPhase("saved")
  /\ Complete(j)
  /\ UNCHANGED <<calendarVars, work>>

\* Mutant: the error is recorded but not thrown again.
FailJob_Swallowed(j) ==
  /\ InPhase("thrown")
  /\ Complete(j)
  /\ rows' = [rows EXCEPT ![work.row].status = "failed"]
  /\ UNCHANGED <<bookings, server, refused, reqs, crashes, work>>

\* The row is marked failed and the error goes on to BullMQ.
FailJob(j) ==
  /\ InPhase("thrown")
  /\ Fail(j)
  /\ rows' = [rows EXCEPT ![work.row].status = "failed"]
  /\ UNCHANGED <<bookings, server, refused, reqs, crashes, work>>

Retry(j) == Promote(j) /\ UNCHANGED <<calendarVars, work>>
Bury(j) == moveToDLQ(j) /\ UNCHANGED <<calendarVars, work>>

Crash ==
  /\ crashes < MaxCrashes
  /\ crashes' = crashes + 1
  /\ Restart
  /\ work' = NoWork
  /\ reqs' = [q \in Requests |-> Idle]
  /\ UNCHANGED <<bookings, rows, server, refused>>

-----------------------------------------------------------------------------
WorkerStep(j) ==
  \/ StartJob(j) \/ Load(j) \/ MakeRow(j)
  \/ Put(j) \/ PutLost(j) \/ PutOutdated(j) \/ PutRefused(j) \/ PutThrows(j)
  \/ SaveRow(j) \/ FinishJob(j) \/ FailJob(j) \/ Retry(j) \/ Bury(j)

RequestStep(q) ==
  \/ \E b \in Bookings : \/ CreateBooking(q, b) \/ UpdateBooking(q, b)
                         \/ CancelBooking(q, b) \/ BeginResync(q, b)
  \/ CommitResync(q) \/ EnqueueFails(q)
  \/ \E j \in Jobs : Enqueue(q, j)

Next ==
  \/ \E j \in Jobs : WorkerStep(j)
  \/ \E q \in Requests : RequestStep(q)
  \/ Crash

Spec == Init /\ [][Next]_vars

\* The worker runs while it can, and a handler that committed enqueues.
Fairness ==
  /\ WF_vars(\E j \in Jobs : StartJob(j))
  /\ WF_vars(\E j \in Jobs : \/ Load(j) \/ MakeRow(j) \/ Put(j) \/ PutOutdated(j)
                             \/ PutRefused(j) \/ PutThrows(j) \/ SaveRow(j) \/ FinishJob(j) \/ FailJob(j))
  /\ \A j \in Jobs : WF_vars(Retry(j)) /\ WF_vars(Bury(j))
  /\ \A q \in Requests : WF_vars(\E j \in Jobs : Enqueue(q, j))

FairSpec == Spec /\ Fairness

-----------------------------------------------------------------------------
(* Properties                                                                *)

TypeOK ==
  /\ QueueTypeOK
  /\ bookings \in [Bookings -> Booking \cup {NoBooking}]
  /\ rows \in [Rows -> Row \cup {NoRow}]
  /\ server \in [Rows -> Object \cup {NoObject}]
  /\ refused \in [Rows -> {0} \cup Version]
  /\ work \in Work \cup {NoWork}
  /\ reqs \in [Requests -> Request]
  /\ crashes \in 0..MaxCrashes

\* Nothing is on its way for the booking and every job of it was done.
Settled(b) ==
  /\ IsBooking(b)
  /\ \A q \in Requests : reqs[q] = Idle \/ reqs[q].booking # b
  /\ \A j \in Jobs : IsJob(j) /\ jobs[j].data.booking = b => jobs[j].state = "completed"
  /\ \E j \in Jobs : IsJob(j) /\ jobs[j].data.booking = b

ShownBy(b) == {r \in RowsOf(b) : IsObject(r)}

\* The newest version is on the server; or the server refused just this one, and
\* no PUT of the booking was taken since.
Newest(b) == \E r \in ShownBy(b) : server[r].content.version = bookings[b].version
Tried(b) == Newest(b) \/ \E r \in RowsOf(b) : refused[r] = bookings[b].version

\* Once everything has settled the calendar shows the booking as it is now,
\* although jobs fail, come back late and overtake each other: a job reads the
\* booking when it runs, not when it was queued (caldav.service.ts:39-54).  The
\* one exception is a version the server refused with an HTTP error, which is
\* recorded as synced and left there (caldav.service.ts:107-126, 169-187).
NewestVersionShown == \A b \in Bookings : Settled(b) => Tried(b)

\* Once everything has settled a cancelled booking is shown as [CANCELLED] and
\* another is not (caldav.service.ts:6).
CancellationShown ==
  \A b \in Bookings : Settled(b) =>
    \A r \in ShownBy(b) : server[r].content.cancelled = bookings[b].cancelled

\* A booking has one VEVENT (caldav.service.ts:80).
OneVEventPerBooking ==
  \A r, s \in Rows :
    IsObject(r) /\ IsObject(s) /\ rows[r].booking = rows[s].booking => r = s

\* A row that says "synced" knows its URL and has a VEVENT on the server, unless
\* the server refused it (caldav.service.ts:107-126 does not look at the status).
SyncedIsOnServer ==
  \A r \in Rows : IsRow(r) /\ rows[r].status = "synced" =>
    rows[r].known /\ (IsObject(r) \/ refused[r] # 0)

\* The tables, the queue and the worker hold values of their types, and what
\* is recorded of the server is true (caldav.service.ts:115-130).
Inv == TypeOK /\ SyncedIsOnServer

(* What makes Inv and SequenceNeverBack inductive, whatever fails             *)

\* A row whose URL is known has its VEVENT or was refused it, and a VEVENT has its
\* row, whose sequence number the server is ahead of by one write at most.
KnownIsObject == \A r \in Rows : IsRow(r) /\ rows[r].known => IsObject(r) \/ refused[r] # 0
ServerOneAhead ==
  \A r \in Rows : IsObject(r) => IsRow(r) /\ server[r].content.seq <= rows[r].seq + 1

\* The row a re-sync is about to reset exists.
ResyncRowExists ==
  \A q \in Requests : reqs[q].op = "resync" => reqs[q].row = NoRow \/ IsRow(reqs[q].row)

\* What the worker holds agrees with the row it was read from until it is stored.
WorkAgrees ==
  work # NoWork =>
    /\ work.phase = "norow" => work.push = "create" /\ ~work.known /\ work.content.seq = 0
    /\ work.phase # "norow" => work.row \in Rows /\ IsRow(work.row)
    /\ work.phase \in {"ready", "answered"} =>
         work.content.seq = IF work.push = "put" THEN rows[work.row].seq + 1
                                                 ELSE rows[work.row].seq
    /\ work.phase = "ready" /\ work.known => rows[work.row].known
    /\ work.phase = "answered" =>
         /\ IsObject(work.row) \/ refused[work.row] # 0
         /\ work.push = "create" \/ rows[work.row].known

\* Inv and what it rests on (caldav.service.ts:39-130).
IInv ==
  /\ QInv /\ Inv
  /\ KnownIsObject /\ ServerOneAhead /\ ResyncRowExists /\ WorkAgrees

-----------------------------------------------------------------------------
\* The SEQUENCE of a VEVENT never goes back and a VEVENT never disappears,
\* whatever is lost and wherever the process dies (caldav.service.ts:147).
SequenceNeverBack ==
  [][\A r \in Rows : IsObject(r) =>
       IsObject(r)' /\ server'[r].content.seq >= server[r].content.seq]_vars

\* While no answer is lost an update that completes has put on the server what
\* it read, unless the server refused this version: the etag of the row is never
\* stale, whatever was retried or refused before (services/caldav/ARCHITECTURE.md:160).
Taken ==
  \/ IsObject(work.row) /\ server[work.row].content = work.content
  \/ refused[work.row] = work.content.version
DoneWasTaken == InPhase("saved") /\ work.push = "put" => Taken

\* A PUT the calendar server refused is not recorded as synced: "On CalDAV
\* failure: sets syncStatus='failed' + lastError, re-throws for BullMQ retry"
\* (caldav.service.ts:29, services/caldav/ARCHITECTURE.md:159).
RefusedIsNotSynced ==
  InPhase("saved") => rows[work.row].status # "synced" \/ refused[work.row] = 0

\* The worker and the server keep in step while no answer is lost and no re-sync
\* interferes: what a job wrote is there, in one VEVENT, and it is the newest
\* version once nothing is on its way (caldav.service.ts:39-130).  Only what the
\* server refused with an HTTP error is missing, until the next PUT it takes.
InStepWithServer == DoneWasTaken /\ OneVEventPerBooking /\ NewestVersionShown

(* What makes InStepWithServer inductive while all that fails is a server    *)
(* that cannot be reached or refuses a PUT, and nobody re-syncs              *)

Calm == Faults \subseteq {"down", "refused"} /\ ~Resync /\ MaxCrashes = 0

OneRowPerBooking ==
  /\ \A r, s \in Rows : IsRow(r) /\ IsRow(s) /\ rows[r].booking = rows[s].booking => r = s
  /\ InPhase("norow") => RowsOf(work.booking) = {}

\* Only what is in the table has a row or is being worked on.
BookedOnly ==
  /\ \A r \in Rows : IsRow(r) => IsBooking(rows[r].booking)
  /\ work # NoWork => IsBooking(work.booking)

\* An etag the row or the worker holds is that of the server, or none.
EtagCurrent(etag, r) == etag = 0 \/ (IsObject(r) /\ etag = server[r].etag)
EtagsCurrent ==
  /\ \A r \in Rows : IsRow(r) /\ ~(InPhase("answered") /\ work.row = r) =>
       EtagCurrent(rows[r].etag, r)
  /\ InPhase("ready") /\ work.push = "put" => work.etag = rows[work.row].etag
  /\ InPhase("answered") => EtagCurrent(work.etag, work.row)

\* A later job, or one to come, is going to write the booking as it is; a
\* "create" does so only if there is no VEVENT yet.
Comes(b, actions) ==
  \/ \E q \in Requests :
       reqs[q].op = "enqueue" /\ reqs[q].booking = b /\ reqs[q].action \in actions
  \/ \E j \in Jobs :
       IsJob(j) /\ ~Active(j) /\ jobs[j].state # "completed"
         /\ jobs[j].data.booking = b /\ jobs[j].data.action \in actions
Runs(b, actions) ==
  \E j \in Jobs : Active(j) /\ jobs[j].data.booking = b /\ jobs[j].data.action \in actions
Writers(b) == IF ShownBy(b) = {} THEN Action ELSE {"update", "delete"}

NewestOrComing ==
  \A b \in Bookings : IsBooking(b) => Tried(b) \/ Comes(b, Writers(b)) \/ Runs(b, Writers(b))

\* The same of the booking at hand, whose own job does not count any more.
WorkIsNewest ==
  \A j \in Jobs : Active(j) /\ work # NoWork =>
    LET b == work.booking IN
    /\ jobs[j].data.booking = b
    /\ work.phase \in {"norow", "ready"} =>
         \/ work.content.version = bookings[b].version
         \/ Comes(b, {"update", "delete"})
    /\ work.phase = "ready" =>
         work.booking = rows[work.row].booking
           /\ (work.push = "create" => jobs[j].data.action = "create" \/ ~IsObject(work.row))
    /\ work.phase \in {"answered", "saved"} => Tried(b) \/ Comes(b, {"update", "delete"})

\* An update that was answered was taken, or refused.
AnsweredWasTaken == InPhase("answered") /\ work.push = "put" => Taken

NobodyResyncs == \A q \in Requests : reqs[q].op # "resync"
WorkHasJob ==
  work # NoWork /\ work.phase \in {"norow", "ready", "answered"} => \E j \in Jobs : Active(j)

CalmInv ==
  /\ NobodyResyncs /\ WorkHasJob /\ OneRowPerBooking /\ BookedOnly
  /\ EtagsCurrent /\ NewestOrComing /\ WorkIsNewest
  /\ AnsweredWasTaken /\ DoneWasTaken

-----------------------------------------------------------------------------
\* Every edit, or a later one, reaches the calendar, unless a job of the booking
\* was given up and is there to be seen as a dead letter, or the server refused
\* that edit or a later one, which nobody sees (caldav.service.ts:169-187).
EditsReachCalendar ==
  \A b \in Bookings, v \in Version :
    (IsBooking(b) /\ bookings[b].version = v)
      ~> \/ \E r \in ShownBy(b) : server[r].content.version >= v
         \/ \E r \in RowsOf(b) : refused[r] >= v
         \/ \E j \in deadLetters : jobs[j].data.booking = b
=============================================================================
