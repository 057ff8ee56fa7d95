---------------------------- MODULE CalendarProofs ----------------------------
(***************************************************************************)
(* The safety properties of CalendarSync, for any number of bookings, rows,  *)
(* jobs, requests, edits and crashes.                                       *)
(*                                                                         *)
(* In general: what is recorded of the server is true and the SEQUENCE of a  *)
(* VEVENT never goes back.  The worker writes what it read earlier; that    *)
(* nothing of it is outdated in between is WorkAgrees.                      *)
(*                                                                         *)
(* While nothing worse happens than a server that cannot be reached or       *)
(* refuses a PUT (Calm), the worker and the server keep in step: a request,  *)
(* a job, the VEVENT itself or the refusal stands for the newest version of  *)
(* each booking (NewestOrComing).                                            *)
(***************************************************************************)
EXTENDS CalendarSync, JobQueueProofs

-----------------------------------------------------------------------------
(* Any faults, crashes and re-syncs                                          *)

\* The inductive invariant holds of the empty tables.
LEMMA InitIInv == ASSUME Init PROVE IInv
<1> USE CalendarAssumption, QueueAssumption DEF Init
<1>1. QInv
  BY QInvInit
<1>2. TypeOK
  BY <1>1 DEF TypeOK, QInv, Request, Idle
<1>3. /\ SyncedIsOnServer /\ KnownIsObject /\ ServerOneAhead /\ ResyncRowExists /\ WorkAgrees
  BY DEF SyncedIsOnServer, KnownIsObject, ServerOneAhead, ResyncRowExists, WorkAgrees, IsRow,
     IsObject, Idle
<1> QED BY <1>1, <1>2, <1>3 DEF IInv, Inv

\* A step that leaves the queue alone.
LEMMA QueueStays == ASSUME QInv, UNCHANGED queueVars PROVE QInv'
  BY DEF queueVars, QInv, QueueTypeOK, OneActive, WaitListConsistent, AttemptsLeft,
     DeadLettersExhausted, Active, InState, IsJob

\* What is known of rows, server and work, apart from types and requests.
Recorded == SyncedIsOnServer /\ KnownIsObject /\ ServerOneAhead /\ WorkAgrees

\* A step that leaves all three alone, or drops the work.
LEMMA RecordedStays ==
  ASSUME IInv, UNCHANGED <<rows, server, refused>>, work' = work \/ work' = NoWork PROVE Recorded'
<1>1. SyncedIsOnServer' /\ KnownIsObject' /\ ServerOneAhead'
  BY DEF IInv, Inv, SyncedIsOnServer, KnownIsObject, ServerOneAhead, IsRow, IsObject
<1>2. WorkAgrees'
  BY DEF IInv, WorkAgrees, IsRow, IsObject
<1> QED BY <1>1, <1>2 DEF Recorded

\* The routes commit to the table of bookings and remember what to enqueue.
LEMMA RouteIInv ==
  ASSUME IInv, NEW q \in Requests, NEW b \in Bookings,
         CreateBooking(q, b) \/ UpdateBooking(q, b) \/ CancelBooking(q, b)
  PROVE  IInv'
<1> USE CalendarAssumption
<1>0. PICK a \in Action : ToEnqueue(q, b, a)
  BY DEF CreateBooking, UpdateBooking, CancelBooking, Action
<1>1. QInv'
  BY <1>0, QueueStays DEF ToEnqueue, IInv
<1>2. Recorded'
  BY <1>0, RecordedStays DEF ToEnqueue
<1>3. bookings' \in [Bookings -> Booking \cup {NoBooking}]
  <2>1. CASE CreateBooking(q, b)
    BY <2>1 DEF CreateBooking, IInv, Inv, TypeOK, Booking, Version
  <2>2. CASE UpdateBooking(q, b)
    <3>1. bookings[b] \in Booking
      BY <2>2 DEF UpdateBooking, IsBooking, IInv, Inv, TypeOK
    <3> QED BY <2>2, <3>1 DEF UpdateBooking, IInv, Inv, TypeOK, Booking, Version
  <2>3. CASE CancelBooking(q, b)
    <3>1. bookings[b] \in Booking
      BY <2>3 DEF CancelBooking, IsBooking, IInv, Inv, TypeOK
    <3>2. PICK deleted \in BOOLEAN :
            bookings' = [bookings EXCEPT ![b].cancelled = TRUE, ![b].deleted = deleted]
      BY <2>3 DEF CancelBooking
    <3>3. [bookings[b] EXCEPT !.cancelled = TRUE, !.deleted = deleted] \in Booking
      BY <3>1 DEF Booking
    <3>4. bookings' = [bookings EXCEPT ![b] = [bookings[b] EXCEPT !.cancelled = TRUE,
                                                                  !.deleted = deleted]]
      BY <3>2 DEF IInv, Inv, TypeOK
    <3> QED BY <3>3, <3>4 DEF IInv, Inv, TypeOK
  <2> QED BY <2>1, <2>2, <2>3
<1>4. reqs' \in [Requests -> Request]
  BY <1>0 DEF ToEnqueue, IInv, Inv, TypeOK, Request
<1>5. TypeOK'
  BY <1>0, <1>1, <1>3, <1>4 DEF ToEnqueue, IInv, Inv, TypeOK, QInv
<1>6. ResyncRowExists'
  BY <1>0 DEF ToEnqueue, IInv, Inv, TypeOK, ResyncRowExists, IsRow
<1> QED BY <1>1, <1>2, <1>5, <1>6 DEF IInv, Inv, Recorded

\* A request is over: its job is queued, or Redis cannot be reached.
LEMMA EnqueueIInv ==
  ASSUME IInv, NEW q \in Requests, EnqueueFails(q) \/ \E j \in Jobs : Enqueue(q, j)
  PROVE  IInv'
<1> USE CalendarAssumption
<1>1. QInv'
  <2>1. CASE EnqueueFails(q)
    BY <2>1, QueueStays DEF EnqueueFails, IInv
  <2>2. ASSUME NEW j \in Jobs, Enqueue(q, j) PROVE QInv'
    <3>1. [booking |-> reqs[q].booking, action |-> reqs[q].action] \in Payloads
      BY <2>2 DEF Enqueue, IInv, Inv, TypeOK, Request, Payload
    <3> QED BY <2>2, <3>1, QInvAdd DEF Enqueue, IInv
  <2> QED BY <2>1, <2>2
<1>2. UNCHANGED <<bookings, rows, server, refused, work, crashes>> /\ reqs' = [reqs EXCEPT ![q] = Idle]
  BY DEF EnqueueFails, Enqueue
<1>3. Recorded'
  BY <1>2, RecordedStays
<1>4. TypeOK'
  BY <1>1, <1>2 DEF IInv, Inv, TypeOK, QInv, Request, Idle
<1>5. ResyncRowExists'
  BY <1>2 DEF IInv, Inv, TypeOK, ResyncRowExists, IsRow, Idle
<1> QED BY <1>1, <1>3, <1>4, <1>5 DEF IInv, Inv, Recorded

\* The re-sync reads a row of the booking, or that there is none.
LEMMA BeginResyncIInv ==
  ASSUME IInv, NEW q \in Requests, NEW b \in Bookings, BeginResync(q, b) PROVE IInv'
<1> USE CalendarAssumption DEF BeginResync
<1>0. PICK r \in Rows \cup {NoRow} :
         /\ r = NoRow \/ IsRow(r)
         /\ reqs' = [reqs EXCEPT ![q] = [op |-> "resync", booking |-> b, row |-> r]]
  BY DEF RowsOf
<1>1. QInv'
  BY QueueStays DEF IInv
<1>2. Recorded'
  BY RecordedStays
<1>3. TypeOK'
  BY <1>0, <1>1 DEF IInv, Inv, TypeOK, QInv, Request
<1>4. ResyncRowExists'
  BY <1>0 DEF IInv, Inv, TypeOK, ResyncRowExists, IsRow
<1> QED BY <1>1, <1>2, <1>3, <1>4 DEF IInv, Inv, Recorded

\* A new row is pending and has no VEVENT.
LEMMA NewRowRecorded ==
  ASSUME IInv, NEW b \in Bookings, NEW r \in Rows, ~IsRow(r),
         rows' = [rows EXCEPT ![r] = NewRow(b)], UNCHANGED <<server, refused>>
  PROVE  /\ rows' \in [Rows -> Row \cup {NoRow}]
         /\ \A s \in Rows : s # r => rows'[s] = rows[s]
         /\ rows'[r] = NewRow(b) /\ rows'[r] # NoRow /\ rows'[r] \in Row
         /\ ~IsObject(r)
         /\ SyncedIsOnServer' /\ KnownIsObject' /\ ServerOneAhead'
<1> USE CalendarAssumption
<1>1. NewRow(b) \in Row
  BY DEF NewRow, Row
<1>2. /\ rows' \in [Rows -> Row \cup {NoRow}]
      /\ \A s \in Rows : s # r => rows'[s] = rows[s]
      /\ rows'[r] = NewRow(b) /\ rows'[r] # NoRow
  BY <1>1 DEF IInv, Inv, TypeOK
<1>3. ~IsObject(r)
  BY DEF IInv, ServerOneAhead
<1>4. SyncedIsOnServer' /\ KnownIsObject' /\ ServerOneAhead'
  BY <1>2, <1>3 DEF IInv, Inv, SyncedIsOnServer, KnownIsObject, ServerOneAhead, IsRow,
     IsObject, NewRow
<1> QED BY <1>1, <1>2, <1>3, <1>4

\* The re-sync makes a row or resets the status of the one it read.
LEMMA CommitResyncIInv ==
  ASSUME IInv, NEW q \in Requests, CommitResync(q) PROVE IInv'
<1> USE CalendarAssumption
<1>0. /\ UNCHANGED <<queueVars, bookings, server, refused, work, crashes>>
      /\ reqs[q].op = "resync" /\ reqs[q].booking \in Bookings
      /\ reqs[q].row \in Rows \cup {NoRow}
  BY DEF CommitResync, IInv, Inv, TypeOK, Request
<1>1. QInv'
  BY <1>0, QueueStays DEF IInv
<1>2. PICK a \in Action :
         reqs' = [reqs EXCEPT ![q] = [op |-> "enqueue", booking |-> reqs[q].booking,
                                      action |-> a]]
  BY DEF CommitResync, Action
<1>3. /\ reqs' \in [Requests -> Request]
      /\ reqs'[q].op = "enqueue" /\ \A p \in Requests : p # q => reqs'[p] = reqs[p]
  BY <1>0, <1>2 DEF IInv, Inv, TypeOK, Request
<1>4. CASE reqs[q].row = NoRow
  <2>1. PICK n \in Rows : ~IsRow(n) /\ rows' = [rows EXCEPT ![n] = NewRow(reqs[q].booking)]
    BY <1>4 DEF CommitResync
  <2>2. /\ rows' \in [Rows -> Row \cup {NoRow}]
        /\ \A s \in Rows : s # n => rows'[s] = rows[s]
        /\ rows'[n] # NoRow
        /\ SyncedIsOnServer' /\ KnownIsObject' /\ ServerOneAhead'
    BY <1>0, <2>1, NewRowRecorded
  <2>3. TypeOK'
    BY <1>0, <1>1, <1>3, <2>2 DEF IInv, Inv, TypeOK, QInv
  <2>4. ResyncRowExists'
    BY <1>3, <2>2 DEF IInv, ResyncRowExists, IsRow, Inv, TypeOK, Request
  <2>5. WorkAgrees'
    BY <1>0, <2>1, <2>2 DEF IInv, Inv, TypeOK, WorkAgrees, IsRow, IsObject
  <2> QED BY <1>1, <2>2, <2>3, <2>4, <2>5 DEF IInv, Inv
<1>5. CASE reqs[q].row # NoRow
  <2> DEFINE r == reqs[q].row
  <2>1. r \in Rows /\ IsRow(r) /\ rows[r] \in Row
    BY <1>0, <1>5 DEF IInv, Inv, TypeOK, ResyncRowExists, IsRow
  <2>2. /\ rows' = [rows EXCEPT ![r].status = "pending"]
        /\ rows'[r] \in Row /\ rows'[r] # NoRow
        /\ rows'[r].known = rows[r].known /\ rows'[r].seq = rows[r].seq
        /\ rows'[r].status = "pending"
        /\ \A s \in Rows : s # r => rows'[s] = rows[s]
    BY <1>5, <2>1 DEF CommitResync, IInv, Inv, TypeOK, Row
  <2>3. rows' \in [Rows -> Row \cup {NoRow}]
    BY <2>1, <2>2 DEF IInv, Inv, TypeOK
  <2>4. TypeOK'
    BY <1>0, <1>1, <1>3, <2>3 DEF IInv, Inv, TypeOK, QInv
  <2>5. ResyncRowExists'
    BY <1>3, <2>2 DEF IInv, ResyncRowExists, IsRow, Inv, TypeOK, Request
  <2>6. SyncedIsOnServer' /\ KnownIsObject' /\ ServerOneAhead'
    BY <1>0, <2>1, <2>2 DEF IInv, Inv, SyncedIsOnServer, KnownIsObject, ServerOneAhead, IsRow,
       IsObject
  <2>7. WorkAgrees'
    BY <1>0, <2>1, <2>2 DEF IInv, Inv, TypeOK, WorkAgrees, IsRow, IsObject
  <2> QED BY <1>1, <2>4, <2>5, <2>6, <2>7 DEF IInv, Inv
<1> QED BY <1>4, <1>5

\* The worker takes a job with empty hands.
LEMMA StartJobIInv == ASSUME IInv, NEW j \in Jobs, StartJob(j) PROVE IInv'
<1> USE CalendarAssumption DEF StartJob, calendarVars
<1>1. QInv'
  BY QInvTake DEF IInv
<1>2. Recorded'
  BY RecordedStays
<1>3. TypeOK'
  BY <1>1 DEF IInv, Inv, TypeOK, QInv
<1>4. ResyncRowExists'
  BY DEF IInv, ResyncRowExists, IsRow
<1> QED BY <1>1, <1>2, <1>3, <1>4 DEF IInv, Inv, Recorded

\* What the active job is about.
LEMMA ActiveJob ==
  ASSUME IInv, NEW j \in Jobs, Active(j)
  PROVE  jobs[j] \in Job /\ jobs[j].data.booking \in Bookings /\ jobs[j].data.action \in Action
<1>1. jobs[j] \in Job
  BY DEF IInv, QInv, QueueTypeOK, Active, InState, IsJob
<1>2. jobs[j].data \in Payload
  BY <1>1, CalendarAssumption DEF Job
<1> QED BY <1>1, <1>2 DEF Payload

\* The worker reads the booking and its row: what it holds agrees with them.
LEMMA LoadedWork ==
  ASSUME IInv, NEW j \in Jobs, Load(j),
         NEW b, b = jobs[j].data.booking, NEW action, action = jobs[j].data.action
  PROVE  /\ work' \in Work /\ WorkAgrees'
         /\ work'.booking = b /\ work'.content.version = bookings[b].version
         /\ \/ work'.phase = "norow" /\ RowsOf(b) = {}
            \/ /\ work'.phase = "ready" /\ work'.row \in RowsOf(b)
               /\ work'.etag = rows[work'.row].etag
               /\ work'.push = "create" => action = "create"
<1> USE CalendarAssumption
<1>1. /\ b \in Bookings /\ action \in Action /\ bookings[b] \in Booking
      /\ UNCHANGED <<queueVars, bookings, rows, server, refused, reqs, crashes>>
  BY ActiveJob DEF Load, calendarVars, IInv, Inv, TypeOK, IsBooking
<1>2. \A seq \in Nat : /\ Content(b, action, seq) \in VEvent
                       /\ Content(b, action, seq).version = bookings[b].version
                       /\ Content(b, action, seq).seq = seq
  BY <1>1 DEF Content, VEvent, Booking
<1>3. CASE /\ RowsOf(b) = {}
           /\ work' = [phase |-> "norow", booking |-> b, row |-> NoRow, push |-> "create",
                       known |-> FALSE, etag |-> 0, content |-> Content(b, action, 0)]
  BY <1>1, <1>2, <1>3 DEF Work, WorkAgrees
<1>4. ASSUME NEW r \in RowsOf(b), NEW push \in {"create", "put"},
             push = "create" => action = "create",
             work' = [phase |-> "ready", booking |-> b, row |-> r, push |-> push,
                      known |-> rows[r].known, etag |-> rows[r].etag,
                      content |-> Content(b, action,
                         IF push = "put" THEN rows[r].seq + 1 ELSE rows[r].seq)]
      PROVE  /\ work' \in Work /\ WorkAgrees'
             /\ work'.booking = b /\ work'.content.version = bookings[b].version
             /\ work'.phase = "ready" /\ work'.row \in RowsOf(b)
             /\ work'.etag = rows[work'.row].etag
             /\ work'.push = "create" => action = "create"
  <2>1. r \in Rows /\ IsRow(r) /\ rows[r] \in Row
    BY DEF RowsOf, IsRow, IInv, Inv, TypeOK
  <2>2. /\ rows[r].known \in BOOLEAN /\ rows[r].etag \in Nat /\ rows[r].seq \in Nat
        /\ rows[r].seq + 1 \in Nat
    BY <2>1 DEF Row
  <2>3. work' \in Work
    BY <1>1, <1>2, <1>4, <2>1, <2>2 DEF Work
  <2>4. WorkAgrees'
    BY <1>1, <1>2, <1>4, <2>1, <2>2 DEF WorkAgrees, IsRow
  <2>5. work'.content.version = bookings[b].version
    BY <1>2, <1>4, <2>2
  <2> QED BY <1>4, <2>3, <2>4, <2>5
<1>5. \/ /\ RowsOf(b) = {}
         /\ work' = [phase |-> "norow", booking |-> b, row |-> NoRow, push |-> "create",
                     known |-> FALSE, etag |-> 0, content |-> Content(b, action, 0)]
      \/ \E r \in RowsOf(b), push \in {"create", "put"} :
           /\ push = "create" => action = "create"
           /\ work' = [phase |-> "ready", booking |-> b, row |-> r, push |-> push,
                       known |-> rows[r].known, etag |-> rows[r].etag,
                       content |-> Content(b, action,
                          IF push = "put" THEN rows[r].seq + 1 ELSE rows[r].seq)]
  BY DEF Load
<1> QED BY <1>3, <1>4, <1>5

LEMMA LoadIInv == ASSUME IInv, NEW j \in Jobs, Load(j) PROVE IInv'
<1>1. UNCHANGED <<queueVars, bookings, rows, server, refused, reqs, crashes>>
  BY DEF Load, calendarVars
<1>2. QInv'
  BY <1>1, QueueStays DEF IInv
<1>3. work' \in Work /\ WorkAgrees'
  BY LoadedWork
<1>4. SyncedIsOnServer' /\ KnownIsObject' /\ ServerOneAhead' /\ ResyncRowExists'
  BY <1>1 DEF IInv, Inv, SyncedIsOnServer, KnownIsObject, ServerOneAhead, ResyncRowExists,
     IsRow, IsObject
<1>5. TypeOK'
  BY <1>1, <1>2, <1>3 DEF IInv, Inv, TypeOK, QInv
<1> QED BY <1>2, <1>3, <1>4, <1>5 DEF IInv, Inv

\* The worker makes the row that is missing.
LEMMA MakeRowIInv == ASSUME IInv, NEW j \in Jobs, MakeRow(j) PROVE IInv'
<1> USE CalendarAssumption
<1>0. /\ UNCHANGED <<queueVars, bookings, server, refused, reqs, crashes>>
      /\ work \in Work /\ work.booking \in Bookings
      /\ work.phase = "norow" /\ work.push = "create" /\ work.content.seq = 0
  BY DEF MakeRow, IInv, Inv, TypeOK, Work, WorkAgrees
<1>1. QInv'
  BY <1>0, QueueStays DEF IInv
<1>2. PICK r \in Rows :
         /\ ~IsRow(r) /\ rows' = [rows EXCEPT ![r] = NewRow(work.booking)]
         /\ work' = [work EXCEPT !.phase = "ready", !.row = r]
  BY DEF MakeRow
<1>3. /\ rows' \in [Rows -> Row \cup {NoRow}]
      /\ \A s \in Rows : s # r => rows'[s] = rows[s]
      /\ rows'[r] = NewRow(work.booking) /\ rows'[r] # NoRow
      /\ SyncedIsOnServer' /\ KnownIsObject' /\ ServerOneAhead'
  BY <1>0, <1>2, NewRowRecorded
<1>4. work' \in Work
  BY <1>0, <1>2 DEF Work
<1>5. TypeOK'
  BY <1>0, <1>1, <1>3, <1>4 DEF IInv, Inv, TypeOK, QInv
<1>6. ResyncRowExists'
  BY <1>0, <1>3 DEF IInv, Inv, TypeOK, Request, ResyncRowExists, IsRow
<1>7. WorkAgrees'
  <2>1. work'.known = work.known /\ work'.phase = "ready" /\ work'.row = r
          /\ work'.push = "create" /\ work'.content.seq = 0
    BY <1>0, <1>2 DEF Work
  <2>2. ~work.known
    BY <1>0 DEF IInv, WorkAgrees
  <2>3. rows'[r].seq = 0
    BY <1>3 DEF NewRow
  <2> QED BY <1>2, <1>3, <2>1, <2>2, <2>3 DEF WorkAgrees, IsRow
<1> QED BY <1>1, <1>3, <1>5, <1>6, <1>7 DEF IInv, Inv

\* What the worker holds when it is about to write to the server.
LEMMA ReadyWork ==
  ASSUME IInv, InPhase("ready")
  PROVE  /\ work \in Work /\ work.row \in Rows /\ IsRow(work.row) /\ rows[work.row] \in Row
         /\ work.content \in VEvent
         /\ work.content.seq = IF work.push = "put" THEN rows[work.row].seq + 1
                                                    ELSE rows[work.row].seq
         /\ work.known => rows[work.row].known
  BY DEF IInv, Inv, TypeOK, InPhase, Work, WorkAgrees, IsRow

\* The server takes a write: the sequence number does not go back.
LEMMA WriteTaken ==
  ASSUME IInv, InPhase("ready"), Accepted,
         server' = [server EXCEPT ![work.row] = NewObject],
         refused' = [refused EXCEPT ![work.row] = 0], rows' = rows
  PROVE  /\ server' \in [Rows -> Object \cup {NoObject}]
         /\ \A r \in Rows : r # work.row => server'[r] = server[r]
         /\ server'[work.row] = NewObject /\ NewObject # NoObject
         /\ refused' \in [Rows -> {0} \cup Version]
         /\ \A r \in Rows : r # work.row => refused'[r] = refused[r]
         /\ NewObject.etag \in Nat \ {0} /\ NewObject.content = work.content
         /\ IsObject(work.row) => work.content.seq >= server[work.row].content.seq
         /\ SyncedIsOnServer' /\ KnownIsObject' /\ ServerOneAhead'
<1> USE CalendarAssumption
<1>1. NewObject \in Object
  <2>1. CASE IsObject(work.row)
    <3>1. server[work.row].etag \in Nat
      BY <2>1, ReadyWork DEF IInv, Inv, TypeOK, Object, IsObject
    <3> QED BY <2>1, <3>1, ReadyWork DEF NewObject, Object
  <2>2. CASE ~IsObject(work.row)
    BY <2>2, ReadyWork DEF NewObject, Object
  <2> QED BY <2>1, <2>2
<1>2. /\ server' \in [Rows -> Object \cup {NoObject}]
      /\ \A r \in Rows : r # work.row => server'[r] = server[r]
      /\ server'[work.row] = NewObject /\ NewObject # NoObject
      /\ refused' \in [Rows -> {0} \cup Version]
      /\ \A r \in Rows : r # work.row => refused'[r] = refused[r]
  BY <1>1, ReadyWork DEF IInv, Inv, TypeOK
<1>3. NewObject.etag \in Nat \ {0} /\ NewObject.content = work.content
  BY <1>1 DEF NewObject, Object
<1>4. IsObject(work.row) => work.content.seq >= server[work.row].content.seq
  <2>1. SUFFICES ASSUME IsObject(work.row) PROVE work.content.seq >= server[work.row].content.seq
    OBVIOUS
  <2>2. work.content.seq = rows[work.row].seq + 1
    BY <2>1, ReadyWork DEF Accepted
  <2>3. server[work.row].content.seq <= rows[work.row].seq + 1
    BY <2>1, ReadyWork DEF IInv, ServerOneAhead
  <2>4. server[work.row].content.seq \in Nat /\ rows[work.row].seq \in Nat
    BY <2>1, ReadyWork DEF IInv, Inv, TypeOK, Object, VEvent, IsObject, Row
  <2> QED BY <2>2, <2>3, <2>4
<1>5. work.content.seq <= rows[work.row].seq + 1
  <2>1. rows[work.row].seq \in Nat
    BY ReadyWork DEF Row
  <2> QED BY <2>1, ReadyWork
<1>6. SyncedIsOnServer' /\ KnownIsObject'
  BY <1>2 DEF IInv, Inv, SyncedIsOnServer, KnownIsObject, IsRow, IsObject
<1>7. ServerOneAhead'
  BY <1>2, <1>3, <1>5, ReadyWork DEF IInv, ServerOneAhead, IsRow, IsObject
<1> QED BY <1>2, <1>3, <1>4, <1>6, <1>7

\* The write is done; its answer arrives or is lost.
LEMMA PutIInv == ASSUME IInv, NEW j \in Jobs, Put(j) \/ PutLost(j) PROVE IInv'
<1> USE CalendarAssumption
<1>0. /\ UNCHANGED <<queueVars, bookings, rows, reqs, crashes>>
      /\ InPhase("ready") /\ Accepted /\ server' = [server EXCEPT ![work.row] = NewObject]
      /\ refused' = [refused EXCEPT ![work.row] = 0]
      /\ \/ work' = [work EXCEPT !.phase = "answered", !.etag = NewObject.etag]
         \/ work' = [work EXCEPT !.phase = "thrown"]
  BY DEF Put, PutLost, Stored
<1>1. QInv'
  BY <1>0, QueueStays DEF IInv
<1>2. /\ server' \in [Rows -> Object \cup {NoObject}]
      /\ server'[work.row] = NewObject /\ NewObject # NoObject
      /\ NewObject.etag \in Nat \ {0}
      /\ refused' \in [Rows -> {0} \cup Version]
      /\ SyncedIsOnServer' /\ KnownIsObject' /\ ServerOneAhead'
  BY <1>0, WriteTaken
<1>3. work' \in Work
  BY <1>0, <1>2, ReadyWork DEF Work
<1>4. TypeOK'
  BY <1>0, <1>1, <1>2, <1>3 DEF IInv, Inv, TypeOK, QInv
<1>5. ResyncRowExists'
  BY <1>0 DEF IInv, ResyncRowExists, IsRow
<1>6. WorkAgrees'
  <2>1. /\ work'.row = work.row /\ work'.push = work.push /\ work'.content = work.content
        /\ work'.phase \in {"answered", "thrown"}
    BY <1>0, ReadyWork DEF Work
  <2>2. work.push = "create" \/ rows[work.row].known
    BY <1>0, ReadyWork DEF Accepted
  <2> QED BY <1>0, <1>2, <2>1, <2>2, ReadyWork DEF WorkAgrees, IsRow, IsObject
<1> QED BY <1>1, <1>2, <1>4, <1>5, <1>6 DEF IInv, Inv

\* The server answers with an error: only that it refused is remembered.
LEMMA AnsweredIInv ==
  ASSUME IInv, NEW j \in Jobs, PutOutdated(j) \/ PutRefused(j) PROVE IInv'
<1> USE CalendarAssumption
<1>0. /\ UNCHANGED <<queueVars, bookings, rows, server, reqs, crashes>>
      /\ InPhase("ready") /\ (work.push = "put" => work.known)
      /\ work' = [work EXCEPT !.phase = "answered", !.etag = 0]
      /\ \/ UNCHANGED refused /\ ~Accepted
         \/ refused' = [refused EXCEPT ![work.row] = work.content.version]
  BY DEF PutOutdated, PutRefused, Answered
<1>1. QInv'
  BY <1>0, QueueStays DEF IInv
<1>2. /\ refused' \in [Rows -> {0} \cup Version]
      /\ \A r \in Rows : refused[r] # 0 => refused'[r] # 0
      /\ Accepted => refused'[work.row] # 0
  <2>1. work.content.version \in Version /\ work.content.version # 0
    BY <1>0, ReadyWork DEF VEvent, Version
  <2>2. refused \in [Rows -> {0} \cup Version] /\ work.row \in Rows
    BY <1>0, ReadyWork DEF IInv, Inv, TypeOK
  <2> QED BY <1>0, <2>1, <2>2
<1>3. /\ work' \in Work /\ work'.row = work.row /\ work'.push = work.push
      /\ work'.content = work.content /\ work'.phase = "answered"
  BY <1>0, ReadyWork DEF Work
<1>4. TypeOK'
  BY <1>0, <1>1, <1>2, <1>3 DEF IInv, Inv, TypeOK, QInv
<1>5. SyncedIsOnServer' /\ KnownIsObject' /\ ServerOneAhead' /\ ResyncRowExists'
  BY <1>0, <1>2 DEF IInv, Inv, SyncedIsOnServer, KnownIsObject, ServerOneAhead,
     ResyncRowExists, IsRow, IsObject
<1>6. WorkAgrees'
  <2>1. work.push = "create" \/ rows[work.row].known
    BY <1>0, ReadyWork DEF Work
  <2>2. ~Accepted => IsObject(work.row) \/ refused[work.row] # 0
    BY <1>0, <2>1, ReadyWork DEF Accepted, IInv, KnownIsObject
  <2> QED BY <1>0, <1>2, <1>3, <2>1, <2>2, ReadyWork DEF WorkAgrees, IsRow, IsObject
<1> QED BY <1>1, <1>4, <1>5, <1>6 DEF IInv, Inv

\* Nothing reaches the server.
LEMMA PutThrowsIInv == ASSUME IInv, NEW j \in Jobs, PutThrows(j) PROVE IInv'
<1> USE CalendarAssumption DEF PutThrows, calendarVars
<1>1. QInv'
  BY QueueStays DEF IInv
<1>2. /\ work' \in Work /\ work'.row = work.row /\ work'.push = work.push
      /\ work'.content = work.content /\ work'.phase = "thrown"
  BY ReadyWork DEF Work
<1>3. TypeOK'
  BY <1>1, <1>2 DEF IInv, Inv, TypeOK, QInv
<1>4. SyncedIsOnServer' /\ KnownIsObject' /\ ServerOneAhead' /\ ResyncRowExists'
  BY DEF IInv, Inv, SyncedIsOnServer, KnownIsObject, ServerOneAhead, ResyncRowExists, IsRow,
     IsObject
<1>5. WorkAgrees'
  BY <1>2, ReadyWork DEF WorkAgrees, IsRow, IsObject
<1> QED BY <1>1, <1>3, <1>4, <1>5 DEF IInv, Inv

\* The row takes over what the worker holds.
LEMMA SaveRowIInv == ASSUME IInv, NEW j \in Jobs, SaveRow(j) PROVE IInv'
<1> USE CalendarAssumption
<1>0. /\ UNCHANGED <<queueVars, bookings, server, refused, reqs, crashes>>
      /\ work # NoWork /\ work.phase = "answered" /\ work \in Work
      /\ work.row \in Rows /\ IsRow(work.row) /\ rows[work.row] \in Row
      /\ work.content \in VEvent /\ (IsObject(work.row) \/ refused[work.row] # 0)
      /\ work.push = "create" \/ rows[work.row].known
      /\ work' = [work EXCEPT !.phase = "saved"]
  BY DEF SaveRow, InPhase, IInv, Inv, TypeOK, Work, WorkAgrees, IsRow
<1>1. QInv'
  BY <1>0, QueueStays DEF IInv
<1>2. /\ rows'[work.row].known = TRUE /\ rows'[work.row].status = "synced"
      /\ rows'[work.row].seq = work.content.seq
      /\ rows'[work.row] \in Row /\ rows'[work.row] # NoRow
      /\ \A r \in Rows : r # work.row => rows'[r] = rows[r]
      /\ rows' \in [Rows -> Row \cup {NoRow}]
  <2>1. rows' = [rows EXCEPT ![work.row] =
                   [rows[work.row] EXCEPT !.etag = work.etag, !.status = "synced",
                                          !.known = rows[work.row].known \/ work.push = "create",
                                          !.seq = work.content.seq]]
    BY <1>0 DEF SaveRow, IInv, Inv, TypeOK
  <2>2. [rows[work.row] EXCEPT !.etag = work.etag, !.status = "synced",
                               !.known = rows[work.row].known \/ work.push = "create",
                               !.seq = work.content.seq] \in Row
    BY <1>0 DEF Row, Work, VEvent
  <2>3. rows' \in [Rows -> Row \cup {NoRow}] /\ rows'[work.row] \in Row
    BY <1>0, <2>1, <2>2 DEF IInv, Inv, TypeOK
  <2>4. \A r \in Rows : r # work.row => rows'[r] = rows[r]
    BY <2>1 DEF IInv, Inv, TypeOK
  <2>5. /\ rows'[work.row].known = (rows[work.row].known \/ work.push = "create")
        /\ rows'[work.row].status = "synced" /\ rows'[work.row].seq = work.content.seq
    BY <1>0, <2>1 DEF IInv, Inv, TypeOK, Row
  <2> QED BY <1>0, <2>3, <2>4, <2>5
<1>3. work' \in Work /\ work'.phase = "saved" /\ work'.row = work.row
  BY <1>0 DEF Work
<1>4. TypeOK'
  BY <1>0, <1>1, <1>2, <1>3 DEF IInv, Inv, TypeOK, QInv
<1>5. ResyncRowExists'
  BY <1>0, <1>2 DEF IInv, Inv, TypeOK, Request, ResyncRowExists, IsRow
<1>6. SyncedIsOnServer' /\ KnownIsObject'
  BY <1>0, <1>2 DEF IInv, Inv, SyncedIsOnServer, KnownIsObject, IsRow, IsObject
<1>7. ServerOneAhead'
  <2>1. IsObject(work.row) => server[work.row].content.seq <= work.content.seq + 1
    <3> SUFFICES ASSUME IsObject(work.row)
                 PROVE  server[work.row].content.seq <= work.content.seq + 1
      OBVIOUS
    <3>1. server[work.row].content.seq <= rows[work.row].seq + 1
      BY <1>0 DEF IInv, ServerOneAhead
    <3>2. work.content.seq = rows[work.row].seq \/ work.content.seq = rows[work.row].seq + 1
      BY <1>0 DEF IInv, WorkAgrees
    <3>3. server[work.row].content.seq \in Nat /\ rows[work.row].seq \in Nat
      BY <1>0 DEF IInv, Inv, TypeOK, Object, VEvent, IsObject, Row
    <3> QED BY <3>1, <3>2, <3>3
  <2> QED BY <1>0, <1>2, <2>1 DEF IInv, ServerOneAhead, IsRow, IsObject
<1>8. WorkAgrees'
  BY <1>0, <1>2, <1>3 DEF WorkAgrees, IsRow
<1> QED BY <1>1, <1>4, <1>5, <1>6, <1>7, <1>8 DEF IInv, Inv

\* The error is recorded in the row that was being written, then the job fails.
LEMMA FailJobIInv == ASSUME IInv, NEW j \in Jobs, FailJob(j) PROVE IInv'
<1> USE CalendarAssumption
<1>0. /\ UNCHANGED <<bookings, server, refused, reqs, crashes, work>>
      /\ work # NoWork /\ work.phase = "thrown" /\ work \in Work
      /\ work.row \in Rows /\ IsRow(work.row) /\ rows[work.row] \in Row
      /\ rows' = [rows EXCEPT ![work.row].status = "failed"]
  BY DEF FailJob, InPhase, IInv, Inv, TypeOK, WorkAgrees, IsRow
<1>1. QInv'
  BY QInvFail DEF FailJob, IInv
<1>2. /\ rows'[work.row] \in Row /\ rows'[work.row] # NoRow
      /\ rows'[work.row].known = rows[work.row].known
      /\ rows'[work.row].seq = rows[work.row].seq /\ rows'[work.row].status = "failed"
      /\ \A r \in Rows : r # work.row => rows'[r] = rows[r]
      /\ rows' \in [Rows -> Row \cup {NoRow}]
  BY <1>0 DEF IInv, Inv, TypeOK, Row
<1>3. TypeOK'
  BY <1>0, <1>1, <1>2 DEF IInv, Inv, TypeOK, QInv
<1>4. ResyncRowExists'
  BY <1>0, <1>2 DEF IInv, Inv, TypeOK, Request, ResyncRowExists, IsRow
<1>5. SyncedIsOnServer' /\ KnownIsObject' /\ ServerOneAhead'
  BY <1>0, <1>2 DEF IInv, Inv, SyncedIsOnServer, KnownIsObject, ServerOneAhead, IsRow, IsObject
<1>6. WorkAgrees'
  BY <1>0, <1>2 DEF IInv, WorkAgrees, IsRow, IsObject
<1> QED BY <1>1, <1>3, <1>4, <1>5, <1>6 DEF IInv, Inv

\* The other steps of the queue concern neither tables nor work.
LEMMA QueueStepIInv ==
  ASSUME IInv, NEW j \in Jobs, FinishJob(j) \/ Retry(j) \/ Bury(j) PROVE IInv'
<1> USE CalendarAssumption DEF FinishJob, Retry, Bury, calendarVars
<1>1. QInv'
  BY QInvComplete, QInvPromote, QInvBury DEF IInv
<1>2. Recorded'
  BY RecordedStays
<1>3. TypeOK'
  BY <1>1 DEF IInv, Inv, TypeOK, QInv
<1>4. ResyncRowExists'
  BY DEF IInv, ResyncRowExists, IsRow
<1> QED BY <1>1, <1>2, <1>3, <1>4 DEF IInv, Inv, Recorded

\* A crash takes requests and work; a step may also change nothing.
LEMMA CrashIInv == ASSUME IInv, Crash \/ UNCHANGED vars PROVE IInv'
<1> USE CalendarAssumption DEF Crash, vars, calendarVars
<1>1. QInv'
  BY QInvRestart, QueueStays DEF IInv
<1>2. Recorded'
  BY RecordedStays
<1>3. TypeOK'
  BY <1>1 DEF IInv, Inv, TypeOK, QInv, Request, Idle
<1>4. ResyncRowExists'
  BY DEF IInv, ResyncRowExists, IsRow, Idle
<1> QED BY <1>1, <1>2, <1>3, <1>4 DEF IInv, Inv, Recorded

\* Every step keeps the inductive invariant.
LEMMA NextIInv == ASSUME IInv, [Next]_vars PROVE IInv'
<1>1. CASE Crash \/ UNCHANGED vars
  BY <1>1, CrashIInv
<1>2. ASSUME NEW j \in Jobs, WorkerStep(j) PROVE IInv'
  BY <1>2, StartJobIInv, LoadIInv, MakeRowIInv, PutIInv, AnsweredIInv, PutThrowsIInv, SaveRowIInv,
     FailJobIInv, QueueStepIInv DEF WorkerStep
<1>3. ASSUME NEW q \in Requests, RequestStep(q) PROVE IInv'
  BY <1>3, RouteIInv, EnqueueIInv, BeginResyncIInv, CommitResyncIInv DEF RequestStep
<1> QED BY <1>1, <1>2, <1>3 DEF Next

\* The inductive invariant of the calendar holds in every state, whatever fails
\* (caldav.service.ts:39-213, calendar.service.ts).
THEOREM CalendarInvariant == Spec => []IInv
<1>1. Init => IInv
  BY InitIInv
<1>2. IInv /\ [Next]_vars => IInv'
  BY NextIInv
<1> QED BY <1>1, <1>2, PTL DEF Spec

\* A row that says "synced" knows its URL and has its VEVENT on the server, or the
\* server refused just that with an HTTP error: whatever else is lost, re-synced or
\* dies (caldav.service.ts:107-130).
THEOREM RecordsAreTrue == Spec => []Inv
<1>1. IInv => Inv
  BY DEF IInv
<1> QED BY <1>1, CalendarInvariant, PTL

\* The SEQUENCE of a VEVENT never goes back and no VEVENT disappears, whatever is
\* lost and wherever the process dies (caldav.service.ts:147).
THEOREM SequenceIsMonotone == Spec => SequenceNeverBack
<1> DEFINE Forward(r) == IsObject(r) =>
             IsObject(r)' /\ server'[r].content.seq >= server[r].content.seq
<1>1. ASSUME IInv, [Next]_vars PROVE [\A r \in Rows : Forward(r)]_vars
  <2>1. CASE \E j \in Jobs : Put(j) \/ PutLost(j)
    <3>1. /\ InPhase("ready") /\ Accepted /\ server' = [server EXCEPT ![work.row] = NewObject]
          /\ refused' = [refused EXCEPT ![work.row] = 0] /\ rows' = rows
      BY <2>1 DEF Put, PutLost, Stored
    <3>2. /\ \A r \in Rows : r # work.row => server'[r] = server[r]
          /\ server'[work.row] = NewObject /\ NewObject # NoObject
          /\ NewObject.content = work.content
          /\ IsObject(work.row) => work.content.seq >= server[work.row].content.seq
      BY <1>1, <3>1, WriteTaken
    <3>3. \A r \in Rows : IsObject(r) => server[r].content.seq \in Nat
      BY <1>1 DEF IInv, Inv, TypeOK, Object, VEvent, IsObject
    <3>4. \A r \in Rows : Forward(r)
      BY <3>2, <3>3 DEF IsObject
    <3> QED BY <3>4
  <2>2. CASE UNCHANGED server
    <3>1. \A r \in Rows : IsObject(r) => server[r].content.seq \in Nat
      BY <1>1 DEF IInv, Inv, TypeOK, Object, VEvent, IsObject
    <3>2. \A r \in Rows : Forward(r)
      BY <2>2, <3>1 DEF IsObject
    <3> QED BY <3>2
  <2>3. (\E j \in Jobs : Put(j) \/ PutLost(j)) \/ UNCHANGED server
    BY <1>1 DEF Next, WorkerStep, RequestStep, StartJob, Load, MakeRow, PutOutdated, PutRefused,
       Answered, PutThrows, SaveRow, FinishJob, FailJob, Retry, Bury, CreateBooking,
       UpdateBooking, CancelBooking, ToEnqueue, BeginResync, CommitResync, EnqueueFails, Enqueue, Crash, vars, calendarVars
  <2> QED BY <2>1, <2>2, <2>3
<1> QED BY <1>1, CalendarInvariant, PTL DEF Spec, SequenceNeverBack

-----------------------------------------------------------------------------
(* While all that fails is a server that cannot be reached or refuses a PUT   *)

\* What cannot happen then.
LEMMA NothingWorse ==
  ASSUME Calm, IInv, NobodyResyncs
  PROVE  /\ \A q \in Requests : ~EnqueueFails(q) /\ ~CommitResync(q)
         /\ \A q \in Requests, b \in Bookings : ~BeginResync(q, b)
         /\ \A j \in Jobs : ~PutLost(j)
         /\ ~Crash
<1>1. "queue" \notin Faults /\ "lost" \notin Faults /\ ~Resync /\ ~(crashes < MaxCrashes)
  BY DEF Calm, IInv, Inv, TypeOK
<1> QED BY <1>1 DEF NobodyResyncs, EnqueueFails, BeginResync, CommitResync, PutLost, Crash

\* It holds of the empty tables.
LEMMA InitCalm == ASSUME Init PROVE CalmInv
<1> USE QueueAssumption DEF Init, QueueInit
<1>1. NobodyResyncs /\ WorkHasJob /\ OneRowPerBooking /\ BookedOnly /\ EtagsCurrent
  BY DEF NobodyResyncs, WorkHasJob, OneRowPerBooking, BookedOnly, EtagsCurrent, IsRow, InPhase, Idle
<1>2. NewestOrComing /\ WorkIsNewest /\ AnsweredWasTaken /\ DoneWasTaken
  BY DEF NewestOrComing, WorkIsNewest, AnsweredWasTaken, DoneWasTaken, Taken, IsBooking, InPhase
<1> QED BY <1>1, <1>2 DEF CalmInv

\* What comes still comes, if no request is dropped and no job is lost or taken.
LEMMA ComesKept ==
  ASSUME \A q \in Requests : reqs[q].op = "enqueue" => reqs'[q] = reqs[q],
         \A k \in Jobs : IsJob(k) /\ ~Active(k) /\ jobs[k].state # "completed" =>
           /\ IsJob(k)' /\ ~Active(k)' /\ jobs'[k].state # "completed"
           /\ jobs'[k].data = jobs[k].data
  PROVE  \A b \in Bookings, A \in SUBSET Action : Comes(b, A) => Comes(b, A)'
  BY DEF Comes

\* A step of the queue on job j: what it does to j and that it keeps the others.
LEMMA JobsKept ==
  ASSUME QInv, NEW j \in Jobs, Take(j) \/ Complete(j) \/ Fail(j) \/ Promote(j) \/ moveToDLQ(j)
  PROVE  /\ \A k \in Jobs : k # j => jobs'[k] = jobs[k]
         /\ \A k \in Jobs : IsJob(k) => IsJob(k)' /\ jobs'[k].data = jobs[k].data
         /\ Take(j) => IsJob(j) /\ jobs[j].state = "waiting" /\ jobs'[j].state = "active"
         /\ Fail(j) => Active(j) /\ jobs'[j].state \in {"delayed", "failed"}
         /\ Promote(j) => jobs[j].state = "delayed" /\ jobs'[j].state = "waiting"
         /\ moveToDLQ(j) => jobs' = jobs
<1>1. CASE moveToDLQ(j)
  BY <1>1 DEF moveToDLQ, IsJob, Take, Fail, Promote, Active, InState
<1>2. CASE Take(j) \/ Complete(j) \/ Fail(j) \/ Promote(j)
  <2>1. IsJob(j) /\ jobs[j] \in Job /\ (Take(j) => jobs[j].state = "waiting")
    <3>1. CASE Take(j)
      <4>1. waiting \in Seq(Jobs) /\ waiting # <<>> /\ j = waiting[1] /\ 1 \in 1..Len(waiting)
        BY <3>1 DEF QInv, QueueTypeOK, Take
      <4>2. InState(j, "waiting")
        BY <4>1 DEF QInv, WaitListConsistent
      <4> QED BY <4>2 DEF InState, IsJob, QInv, QueueTypeOK
    <3>2. CASE ~Take(j)
      BY <1>2, <3>2 DEF Complete, Fail, Promote, Active, InState, IsJob, QInv, QueueTypeOK
    <3> QED BY <3>1, <3>2
  <2>2. PICK made \in 0..Attempts, state \in JobState :
          jobs' = [jobs EXCEPT ![j] = [jobs[j] EXCEPT !.made = made, !.state = state]]
    <3>1. ASSUME NEW state \in JobState, jobs' = [jobs EXCEPT ![j].state = state]
          PROVE  \E m \in 0..Attempts, t \in JobState :
                   jobs' = [jobs EXCEPT ![j] = [jobs[j] EXCEPT !.made = m, !.state = t]]
      <4>1. jobs[j].made \in 0..Attempts
        BY <2>1 DEF Job
      <4>2. [jobs[j] EXCEPT !.state = state] =
              [jobs[j] EXCEPT !.made = jobs[j].made, !.state = state]
        BY <2>1 DEF Job
      <4> QED BY <3>1, <4>1, <4>2 DEF QInv, QueueTypeOK
    <3>2. CASE Take(j) \/ Complete(j) \/ Promote(j)
      BY <3>1, <3>2 DEF Take, Complete, Promote, JobState
    <3>3. CASE Fail(j)
      <4>1. jobs[j].made + 1 \in 0..Attempts
        BY <2>1, <3>3, QueueAssumption DEF QInv, AttemptsLeft, Fail, Active, InState, Job
      <4> QED BY <2>1, <3>3, <4>1 DEF Fail, JobState, QInv, QueueTypeOK
    <3> QED BY <1>2, <3>2, <3>3
  <2>3. jobs'[j] = [jobs[j] EXCEPT !.made = made, !.state = state] /\ jobs'[j] \in Job
    BY <2>1, <2>2 DEF QInv, QueueTypeOK, Job
  <2>4. \A k \in Jobs : k # j => jobs'[k] = jobs[k]
    BY <2>2 DEF QInv, QueueTypeOK
  <2>5. jobs'[j].data = jobs[j].data /\ jobs'[j].state = state
    BY <2>1, <2>3 DEF Job
  <2>6. IsJob(j)'
    BY <2>3, QueueAssumption DEF IsJob
  <2>7. ~moveToDLQ(j) \/ jobs' = jobs
    BY DEF moveToDLQ
  <2>8. /\ Take(j) => jobs'[j].state = "active"
        /\ Fail(j) => jobs'[j].state \in {"delayed", "failed"}
        /\ Promote(j) => jobs'[j].state = "waiting"
    BY <2>1 DEF Take, Fail, Promote, Job, QInv, QueueTypeOK
  <2>9. (Fail(j) => Active(j)) /\ (Promote(j) => jobs[j].state = "delayed")
    BY DEF Fail, Promote, InState
  <2>10. \A k \in Jobs : IsJob(k) => IsJob(k)' /\ jobs'[k].data = jobs[k].data
    BY <2>4, <2>5, <2>6 DEF IsJob
  <2> QED BY <2>1, <2>4, <2>7, <2>8, <2>9, <2>10
<1> QED BY <1>1, <1>2

\* A step of the queue drops no job that is still to come, unless it takes it.
LEMMA QueueComes ==
  ASSUME IInv, NEW j \in Jobs, Complete(j) \/ Fail(j) \/ Promote(j) \/ moveToDLQ(j),
         UNCHANGED reqs
  PROVE  \A b \in Bookings, A \in SUBSET Action : Comes(b, A) => Comes(b, A)'
<1>1. QInv
  BY DEF IInv
<1>2. /\ \A k \in Jobs : k # j => jobs'[k] = jobs[k]
      /\ \A k \in Jobs : IsJob(k) => IsJob(k)' /\ jobs'[k].data = jobs[k].data
      /\ Fail(j) => Active(j) /\ jobs'[j].state \in {"delayed", "failed"}
      /\ Promote(j) => jobs[j].state = "delayed" /\ jobs'[j].state = "waiting"
      /\ moveToDLQ(j) => jobs' = jobs
      /\ Complete(j) => Active(j)
  BY <1>1, JobsKept DEF Complete
<1> QED BY <1>2, ComesKept DEF Active, InState, IsJob

\* The VEVENTs shown of a booking are the same if the server is and no row goes.
LEMMA ShownStays ==
  ASSUME IInv, UNCHANGED <<server, refused>>,
         \A r \in Rows : IsRow(r) => IsRow(r)' /\ rows'[r].booking = rows[r].booking
  PROVE  \A b \in Bookings : /\ ShownBy(b)' = ShownBy(b)
                             /\ Writers(b)' = Writers(b)
                             /\ bookings'[b] = bookings[b] => (Tried(b) => Tried(b)')
<1>1. \A b \in Bookings : ShownBy(b)' = ShownBy(b)
  BY DEF IInv, ServerOneAhead, ShownBy, RowsOf, IsObject
<1>2. \A b \in Bookings : Writers(b)' = Writers(b)
  BY <1>1 DEF Writers
<1>3. \A b \in Bookings : bookings'[b] = bookings[b] => (Tried(b) => Tried(b)')
  BY <1>1 DEF Tried, Newest, RowsOf
<1> QED BY <1>1, <1>2, <1>3

\* What is known of rows, server and work alone.
Kept == OneRowPerBooking /\ BookedOnly /\ EtagsCurrent /\ AnsweredWasTaken /\ DoneWasTaken

LEMMA KeptStays ==
  ASSUME CalmInv, UNCHANGED <<rows, server, refused, work>>,
         \A b \in Bookings : IsBooking(b) => IsBooking(b)',
         IInv
  PROVE  Kept'
<1>1. OneRowPerBooking' /\ BookedOnly'
  BY DEF CalmInv, OneRowPerBooking, BookedOnly, IsRow, InPhase, RowsOf, IInv, Inv, TypeOK, Work, Row
<1>2. EtagsCurrent' /\ AnsweredWasTaken' /\ DoneWasTaken'
  BY DEF CalmInv, EtagsCurrent, AnsweredWasTaken, DoneWasTaken, Taken, EtagCurrent, IsRow, IsObject,
     InPhase
<1> QED BY <1>1, <1>2 DEF Kept

LEMMA RouteCalm ==
  ASSUME IInv, CalmInv, NEW q \in Requests, NEW b \in Bookings,
         CreateBooking(q, b) \/ UpdateBooking(q, b) \/ CancelBooking(q, b)
  PROVE  CalmInv'
<1>1. PICK a \in Action : ToEnqueue(q, b, a) /\ (IsBooking(b) => a \in {"update", "delete"})
  BY DEF CreateBooking, UpdateBooking, CancelBooking, Action
<1>2. /\ IsBooking(b)'
      /\ \A c \in Bookings : c # b => bookings'[c] = bookings[c]
  <2>1. \A deleted \in BOOLEAN : IsBooking(b) =>
          [bookings[b] EXCEPT !.cancelled = TRUE, !.deleted = deleted] \in Booking
    BY DEF IInv, Inv, TypeOK, IsBooking, Booking
  <2>2. IsBooking(b) /\ bookings[b].version < MaxVersion =>
          [bookings[b] EXCEPT !.version = @ + 1] \in Booking
    BY CalendarAssumption DEF IInv, Inv, TypeOK, IsBooking, Booking, Version
  <2>3. CASE CreateBooking(q, b)
    <3>1. [version |-> 1, cancelled |-> FALSE, deleted |-> FALSE] \in Booking
      BY CalendarAssumption DEF Booking, Version
    <3> QED BY <2>3, <3>1, CalendarAssumption DEF CreateBooking, IsBooking, IInv, Inv, TypeOK
  <2>4. CASE UpdateBooking(q, b)
    BY <2>2, <2>4, CalendarAssumption DEF UpdateBooking, IsBooking, IInv, Inv, TypeOK
  <2>5. CASE CancelBooking(q, b)
    <3>1. PICK deleted \in BOOLEAN :
            bookings' = [bookings EXCEPT ![b].cancelled = TRUE, ![b].deleted = deleted]
      BY <2>5 DEF CancelBooking
    <3>2. bookings'[b] = [bookings[b] EXCEPT !.cancelled = TRUE, !.deleted = deleted]
      BY <3>1 DEF IInv, Inv, TypeOK
    <3> QED BY <2>1, <2>5, <3>1, <3>2, CalendarAssumption
          DEF CancelBooking, IsBooking, IInv, Inv, TypeOK
  <2> QED BY <2>3, <2>4, <2>5
<1>3. /\ UNCHANGED <<jobs, rows, server, refused, work>>
      /\ reqs[q] = Idle
      /\ reqs' = [reqs EXCEPT ![q] = [op |-> "enqueue", booking |-> b, action |-> a]]
      /\ reqs \in [Requests -> Request]
  BY <1>1 DEF ToEnqueue, queueVars, IInv, Inv, TypeOK
<1>4. \A c \in Bookings, A \in SUBSET Action : Comes(c, A) => Comes(c, A)'
  BY <1>3, ComesKept DEF Idle, IsJob, Active, InState
<1>5. \A A \in SUBSET Action : a \in A => Comes(b, A)'
  BY <1>3 DEF Comes
<1>6. \A c \in Bookings : /\ Writers(c)' = Writers(c)
                          /\ c # b => (Tried(c) => Tried(c)')
  BY <1>2, <1>3, ShownStays DEF IsRow
<1>7. Kept'
  BY <1>2, <1>3, KeptStays DEF IsBooking
<1>8. NobodyResyncs' /\ WorkHasJob'
  BY <1>3 DEF CalmInv, NobodyResyncs, WorkHasJob, Active, InState, IsJob
<1>9. NewestOrComing'
  <2>1. ASSUME NEW c \in Bookings, c # b, IsBooking(c)'
        PROVE  (Tried(c) \/ Comes(c, Writers(c)) \/ Runs(c, Writers(c)))'
    <3>1. Tried(c) \/ Comes(c, Writers(c)) \/ Runs(c, Writers(c))
      BY <1>2, <2>1 DEF CalmInv, NewestOrComing, IsBooking
    <3>2. Runs(c, Writers(c)) => Runs(c, Writers(c))'
      BY <1>3, <1>6 DEF Runs, Active, InState, IsJob
    <3>3. Comes(c, Writers(c)) => Comes(c, Writers(c))'
      <4>1. Writers(c) \in SUBSET Action
        BY DEF Writers, Action
      <4> QED BY <1>4, <1>6, <4>1 DEF Comes
    <3> QED BY <1>6, <2>1, <3>1, <3>2, <3>3
  <2>2. Comes(b, Writers(b))'
    <3>1. ~IsBooking(b) => ShownBy(b) = {}
      BY DEF CalmInv, BookedOnly, ShownBy, RowsOf
    <3>2. a \in Writers(b) /\ Writers(b) \in SUBSET Action
      BY <1>1, <3>1 DEF Writers, Action
    <3> QED BY <1>3, <1>6, <3>2 DEF Comes
  <2> QED BY <2>1, <2>2 DEF NewestOrComing
<1>10. WorkIsNewest'
  <2> SUFFICES ASSUME NEW j \in Jobs, Active(j)', work # NoWork,
                      NEW c \in Bookings, c = work.booking
               PROVE  /\ jobs[j].data.booking = c
                      /\ work.phase \in {"norow", "ready"} =>
                           \/ work.content.version = bookings'[c].version
                           \/ Comes(c, {"update", "delete"})'
                      /\ work.phase = "ready" =>
                           work.booking = rows[work.row].booking
                             /\ (work.push = "create" =>
                                   jobs[j].data.action = "create" \/ ~IsObject(work.row))
                      /\ work.phase \in {"answered", "saved"} =>
                           Tried(c)' \/ Comes(c, {"update", "delete"})'
    <3>1. work # NoWork => work.booking \in Bookings
      BY DEF IInv, Inv, TypeOK, Work
    <3> QED BY <1>3, <3>1 DEF WorkIsNewest, IsObject
  <2>1. Active(j)
    BY <1>3 DEF Active, InState, IsJob
  <2>2. IsBooking(c) /\ {"update", "delete"} \in SUBSET Action
    BY DEF CalmInv, BookedOnly, Action
  <2>3. CASE c # b
    <3>1. Comes(c, {"update", "delete"}) => Comes(c, {"update", "delete"})'
      BY <1>4, <2>2
    <3> QED BY <1>2, <1>6, <2>1, <2>3, <3>1 DEF CalmInv, WorkIsNewest
  <2>4. CASE c = b
    <3>1. Comes(c, {"update", "delete"})'
      BY <1>1, <1>5, <2>2, <2>4 DEF CalmInv, BookedOnly
    <3> QED BY <2>1, <3>1 DEF CalmInv, WorkIsNewest
  <2> QED BY <2>3, <2>4
<1> QED BY <1>7, <1>8, <1>9, <1>10 DEF CalmInv, Kept

\* A step that leaves the tables of bookings and VEVENTs alone and loses no job.
LEMMA NewestStays ==
  ASSUME IInv, CalmInv, UNCHANGED <<bookings, server, refused>>,
         \A r \in Rows : IsRow(r) => IsRow(r)' /\ rows'[r].booking = rows[r].booking,
         \A c \in Bookings, A \in SUBSET Action : Comes(c, A) => Comes(c, A)' \/ Runs(c, A)',
         \A c \in Bookings, A \in SUBSET Action :
           {"update", "delete"} \subseteq A /\ Runs(c, A)
             => Tried(c) \/ Comes(c, A)' \/ Runs(c, A)'
  PROVE  NewestOrComing'
<1> SUFFICES ASSUME NEW c \in Bookings, IsBooking(c)'
             PROVE  (Tried(c) \/ Comes(c, Writers(c)) \/ Runs(c, Writers(c)))'
  BY DEF NewestOrComing
<1> DEFINE A == Writers(c)
<1>1. A \in SUBSET Action /\ {"update", "delete"} \subseteq A
  BY DEF Writers, Action
<1>2. Tried(c) \/ Comes(c, A) \/ Runs(c, A)
  BY DEF CalmInv, NewestOrComing, IsBooking
<1>3. A' = A /\ (Tried(c) => Tried(c)')
  BY ShownStays
<1> HIDE DEF A
<1>4. Tried(c)' \/ Comes(c, A)' \/ Runs(c, A)'
  <2>1. \A B \in SUBSET Action : B = A => (Comes(c, B)' => Comes(c, A)') /\ (Runs(c, B)' => Runs(c, A)')
    BY <1>3 DEF Comes, Runs
  <2>2. \A B \in SUBSET Action : B = A => (Tried(c) \/ Comes(c, B) \/ Runs(c, B))
    BY <1>2
  <2>3. \A B \in SUBSET Action : B = A => (Tried(c)' \/ Comes(c, B)' \/ Runs(c, B)')
    BY <1>1, <1>3, <2>2
  <2> QED BY <1>1, <2>1, <2>3
<1> QED BY <1>4 DEF A

\* A step that leaves the work alone as well, and starts no job.
LEMMA WorkStays ==
  ASSUME IInv, CalmInv, UNCHANGED <<bookings, server, refused, work>>,
         \A r \in Rows : IsRow(r) => IsRow(r)' /\ rows'[r].booking = rows[r].booking,
         \A c \in Bookings, A \in SUBSET Action : Comes(c, A) => Comes(c, A)',
         \A k \in Jobs : Active(k)' => Active(k) /\ jobs'[k].data = jobs[k].data
  PROVE  WorkIsNewest'
<1> SUFFICES ASSUME NEW j \in Jobs, Active(j)', work # NoWork,
                    NEW c \in Bookings, c = work.booking
             PROVE  /\ jobs'[j].data.booking = c
                    /\ work.phase \in {"norow", "ready"} =>
                         \/ work.content.version = bookings[c].version
                         \/ Comes(c, {"update", "delete"})'
                    /\ work.phase = "ready" =>
                         work.booking = rows'[work.row].booking
                           /\ (work.push = "create" =>
                                 jobs'[j].data.action = "create" \/ ~IsObject(work.row))
                    /\ work.phase \in {"answered", "saved"} =>
                         Tried(c)' \/ Comes(c, {"update", "delete"})'
  <2>1. work # NoWork => work.booking \in Bookings
    BY DEF IInv, Inv, TypeOK, Work
  <2> QED BY <2>1 DEF WorkIsNewest, IsObject
<1>1. Active(j) /\ jobs'[j].data = jobs[j].data
  OBVIOUS
<1>2. Comes(c, {"update", "delete"}) => Comes(c, {"update", "delete"})'
  BY DEF Action
<1>3. Tried(c) => Tried(c)'
  BY ShownStays
<1>4. work.phase = "ready" => work.row \in Rows /\ IsRow(work.row)
  BY DEF IInv, WorkAgrees
<1> QED BY <1>1, <1>2, <1>3, <1>4 DEF CalmInv, WorkIsNewest

\* The request's job comes in its place.
LEMMA EnqueueCalm ==
  ASSUME IInv, CalmInv, NEW q \in Requests, NEW j \in Jobs, Enqueue(q, j) PROVE CalmInv'
<1>1. /\ jobs[j] = NoJob /\ reqs[q].op = "enqueue"
      /\ UNCHANGED <<bookings, rows, server, refused, work>>
      /\ \A k \in Jobs : k # j => jobs'[k] = jobs[k]
      /\ \A p \in Requests : p # q => reqs'[p] = reqs[p]
      /\ jobs'[j] = [data |-> [booking |-> reqs[q].booking, action |-> reqs[q].action],
                     made |-> 0, state |-> "waiting"]
      /\ reqs'[q] = Idle
  BY DEF Enqueue, Add, IInv, Inv, TypeOK, QueueTypeOK
<1>2. IsJob(j)' /\ ~IsJob(j)
  <2>1. [booking |-> reqs[q].booking, action |-> reqs[q].action] \in Payloads
    BY <1>1, CalendarAssumption DEF IInv, Inv, TypeOK, Request, Payload
  <2>2. jobs'[j] \in Job
    BY <1>1, <2>1, QueueAssumption DEF Job, JobState
  <2> QED BY <1>1, <2>2, QueueAssumption DEF IsJob
<1>3. \A c \in Bookings, A \in SUBSET Action : Comes(c, A) => Comes(c, A)'
  <2> SUFFICES ASSUME NEW c \in Bookings, NEW A \in SUBSET Action, Comes(c, A)
               PROVE  Comes(c, A)'
    OBVIOUS
  <2>1. CASE \E p \in Requests : p # q /\ reqs[p].op = "enqueue" /\ reqs[p].booking = c
                                       /\ reqs[p].action \in A
    BY <1>1, <2>1 DEF Comes
  <2>2. CASE reqs[q].booking = c /\ reqs[q].action \in A
    <3>1. IsJob(j)' /\ ~Active(j)' /\ jobs'[j].state # "completed"
            /\ jobs'[j].data.booking = c /\ jobs'[j].data.action \in A
      BY <1>1, <1>2, <2>2 DEF Active, InState
    <3> QED BY <3>1 DEF Comes
  <2>3. CASE \E k \in Jobs : IsJob(k) /\ ~Active(k) /\ jobs[k].state # "completed"
                               /\ jobs[k].data.booking = c /\ jobs[k].data.action \in A
    <3>1. PICK k \in Jobs : IsJob(k) /\ ~Active(k) /\ jobs[k].state # "completed"
                              /\ jobs[k].data.booking = c /\ jobs[k].data.action \in A
      BY <2>3
    <3>2. jobs'[k] = jobs[k]
      BY <1>1, <1>2, <3>1
    <3> QED BY <3>1, <3>2 DEF Comes, IsJob, Active, InState
  <2> QED BY <2>1, <2>2, <2>3 DEF Comes
<1>4. \A k \in Jobs : (Active(k)' <=> Active(k)) /\ (Active(k) => jobs'[k].data = jobs[k].data)
  BY <1>1, <1>2 DEF Active, InState, IsJob
<1>5. Kept'
  BY <1>1, KeptStays DEF IsBooking
<1>6. NewestOrComing'
  BY <1>1, <1>3, <1>4, NewestStays DEF Runs, IsRow
<1>7. WorkIsNewest'
  BY <1>1, <1>3, <1>4, WorkStays DEF IsRow
<1>8. NobodyResyncs' /\ WorkHasJob'
  BY <1>1, <1>4 DEF CalmInv, NobodyResyncs, WorkHasJob, Idle
<1> QED BY <1>5, <1>6, <1>7, <1>8 DEF CalmInv, Kept

\* The job that came now runs, and has read nothing yet.
LEMMA StartJobCalm ==
  ASSUME IInv, CalmInv, NEW j \in Jobs, StartJob(j) PROVE CalmInv'
<1>1. UNCHANGED <<bookings, rows, server, refused, reqs>> /\ work' = NoWork /\ Take(j)
  BY DEF StartJob, calendarVars
<1>2. /\ \A k \in Jobs : k # j => jobs'[k] = jobs[k]
      /\ \A k \in Jobs : IsJob(k) => IsJob(k)' /\ jobs'[k].data = jobs[k].data
      /\ IsJob(j) /\ jobs'[j].state = "active"
  BY <1>1, JobsKept DEF IInv
<1>3. \A k \in Jobs : ~Active(k)
  BY <1>1 DEF Take
<1>4. ~InPhase("answered")
  BY <1>3 DEF InPhase, CalmInv, WorkHasJob
<1>5. Kept'
  <2>1. OneRowPerBooking' /\ BookedOnly' /\ AnsweredWasTaken' /\ DoneWasTaken'
    BY <1>1 DEF CalmInv, OneRowPerBooking, BookedOnly, AnsweredWasTaken, DoneWasTaken, Taken, InPhase,
       IsRow, IsBooking
  <2>2. EtagsCurrent'
    BY <1>1, <1>4 DEF CalmInv, EtagsCurrent, EtagCurrent, InPhase, IsRow, IsObject
  <2> QED BY <2>1, <2>2 DEF Kept
<1>6. \A c \in Bookings, A \in SUBSET Action : Comes(c, A) => Comes(c, A)' \/ Runs(c, A)'
  <2> SUFFICES ASSUME NEW c \in Bookings, NEW A \in SUBSET Action, Comes(c, A)
               PROVE  Comes(c, A)' \/ Runs(c, A)'
    OBVIOUS
  <2>1. CASE \E q \in Requests : reqs[q].op = "enqueue" /\ reqs[q].booking = c
                                   /\ reqs[q].action \in A
    BY <1>1, <2>1 DEF Comes
  <2>2. CASE \E k \in Jobs : IsJob(k) /\ ~Active(k) /\ jobs[k].state # "completed"
                               /\ jobs[k].data.booking = c /\ jobs[k].data.action \in A
    BY <1>2, <2>2 DEF Comes, Runs, IsJob, Active, InState
  <2> QED BY <2>1, <2>2 DEF Comes
<1>7. NewestOrComing'
  BY <1>1, <1>3, <1>6, NewestStays DEF Runs, IsRow
<1>8. WorkIsNewest' /\ NobodyResyncs' /\ WorkHasJob'
  BY <1>1 DEF CalmInv, WorkIsNewest, NobodyResyncs, WorkHasJob
<1> QED BY <1>5, <1>7, <1>8 DEF CalmInv, Kept

\* A step that leaves the queue and the requests alone.
LEMMA SameQueue ==
  ASSUME UNCHANGED <<jobs, reqs>>
  PROVE  /\ \A c \in Bookings, A \in SUBSET Action :
              (Comes(c, A)' <=> Comes(c, A)) /\ (Runs(c, A)' <=> Runs(c, A))
         /\ \A k \in Jobs : Active(k)' <=> Active(k)
         /\ {"update", "delete"} \in SUBSET Action
  BY DEF Comes, Runs, Active, InState, IsJob, Action

\* The worker reads the booking as it is now.
LEMMA LoadCalm ==
  ASSUME IInv, CalmInv, NEW j \in Jobs, Load(j) PROVE CalmInv'
<1>1. PICK b \in Bookings, action \in Action :
        b = jobs[j].data.booking /\ action = jobs[j].data.action
  BY ActiveJob DEF Load
<1>2. UNCHANGED <<jobs, bookings, rows, server, refused, reqs>> /\ Active(j) /\ work = NoWork /\ IsBooking(b)
  BY <1>1 DEF Load, queueVars, calendarVars
<1>3. /\ work' \in Work /\ work' # NoWork
      /\ work'.booking = b /\ work'.content.version = bookings[b].version
      /\ \/ work'.phase = "norow" /\ RowsOf(b) = {}
         \/ /\ work'.phase = "ready" /\ work'.row \in RowsOf(b)
            /\ work'.etag = rows[work'.row].etag
            /\ work'.push = "create" => action = "create"
  BY <1>1, LoadedWork, CalendarAssumption
<1>4. Kept'
  <2>1. OneRowPerBooking' /\ BookedOnly' /\ AnsweredWasTaken' /\ DoneWasTaken'
    BY <1>2, <1>3 DEF CalmInv, OneRowPerBooking, BookedOnly, AnsweredWasTaken, DoneWasTaken, Taken,
       InPhase, IsRow, IsBooking, RowsOf
  <2>2. EtagsCurrent'
    BY <1>2, <1>3 DEF CalmInv, EtagsCurrent, EtagCurrent, InPhase, IsRow, IsObject
  <2> QED BY <2>1, <2>2 DEF Kept
<1>5. NewestOrComing'
  BY <1>2, SameQueue, NewestStays DEF IsRow
<1>6. WorkIsNewest'
  <2>1. \A k \in Jobs : Active(k)' => k = j
    BY <1>2, SameQueue DEF IInv, QInv, OneActive
  <2> QED BY <1>1, <1>2, <1>3, <2>1 DEF WorkIsNewest, RowsOf
<1>7. NobodyResyncs' /\ WorkHasJob'
  BY <1>2, SameQueue DEF CalmInv, NobodyResyncs, WorkHasJob
<1> QED BY <1>4, <1>5, <1>6, <1>7 DEF CalmInv, Kept

\* The first row of the booking.
LEMMA MakeRowCalm ==
  ASSUME IInv, CalmInv, NEW j \in Jobs, MakeRow(j) PROVE CalmInv'
<1>1. PICK n \in Rows : /\ ~IsRow(n)
                        /\ rows' = [rows EXCEPT ![n] = NewRow(work.booking)]
                        /\ work' = [work EXCEPT !.phase = "ready", !.row = n]
  BY DEF MakeRow
<1>2. /\ UNCHANGED <<jobs, bookings, server, refused, reqs>> /\ Active(j)
      /\ work \in Work /\ work # NoWork /\ work.phase = "norow"
      /\ work.booking \in Bookings /\ work.push = "create"
  BY DEF MakeRow, queueVars, IInv, Inv, TypeOK, WorkAgrees, Work
<1>3. /\ work' \in Work /\ work'.phase = "ready" /\ work'.row = n
      /\ work'.booking = work.booking /\ work'.push = "create" /\ work'.content = work.content
  BY <1>1, <1>2, CalendarAssumption DEF Work
<1>4. /\ \A r \in Rows : r # n => rows'[r] = rows[r]
      /\ rows'[n] = NewRow(work.booking)
      /\ rows'[n].booking = work.booking /\ rows'[n].etag = 0
      /\ ~IsObject(n)
  BY <1>1 DEF IInv, Inv, TypeOK, NewRow, ServerOneAhead
<1>5. \A r \in Rows : IsRow(r) => IsRow(r)' /\ rows'[r] = rows[r]
  BY <1>1, <1>4 DEF IsRow
<1>6. \A r \in Rows : IsRow(r)' => IsRow(r) \/ r = n
  BY <1>4 DEF IsRow
<1>7. IsBooking(work.booking) /\ \A r \in Rows : IsRow(r) => rows[r].booking # work.booking
  BY <1>2 DEF CalmInv, OneRowPerBooking, BookedOnly, InPhase, RowsOf
<1>8. Kept'
  <2>1. OneRowPerBooking'
    BY <1>3, <1>4, <1>5, <1>6, <1>7 DEF CalmInv, OneRowPerBooking, InPhase
  <2>2. BookedOnly' /\ AnsweredWasTaken' /\ DoneWasTaken'
    BY <1>2, <1>3, <1>4, <1>5, <1>6, <1>7 DEF CalmInv, BookedOnly, AnsweredWasTaken, DoneWasTaken, Taken,
       InPhase, IsBooking
  <2>3. EtagsCurrent'
    <3>1. \A r \in Rows : IsRow(r)' => EtagCurrent(rows[r].etag, r)'
      BY <1>2, <1>4, <1>5, <1>6 DEF CalmInv, EtagsCurrent, EtagCurrent, InPhase, IsObject
    <3> QED BY <1>3, <3>1 DEF EtagsCurrent, InPhase
  <2> QED BY <2>1, <2>2, <2>3 DEF Kept
<1>9. NewestOrComing'
  BY <1>2, <1>5, SameQueue, NewestStays
<1>10. WorkIsNewest'
  <2> SUFFICES ASSUME NEW k \in Jobs, Active(k)', NEW c \in Bookings, c = work.booking
               PROVE  /\ jobs[k].data.booking = c
                      /\ \/ work.content.version = bookings[c].version
                         \/ Comes(c, {"update", "delete"})'
    BY <1>2, <1>3, <1>4 DEF WorkIsNewest, IsObject
  <2>1. Active(k)
    BY <1>2, SameQueue
  <2> QED BY <1>2, <2>1, SameQueue DEF CalmInv, WorkIsNewest
<1>11. NobodyResyncs' /\ WorkHasJob'
  BY <1>2, SameQueue DEF CalmInv, NobodyResyncs, WorkHasJob
<1> QED BY <1>8, <1>9, <1>10, <1>11 DEF CalmInv, Kept

\* The VEVENT is what was read: the newest, or a later job will write it again.
LEMMA PutCalm ==
  ASSUME IInv, CalmInv, NEW j \in Jobs, Put(j) PROVE CalmInv'
<1>1. PICK r \in Rows, b \in Bookings : r = work.row /\ b = work.booking
  BY DEF Put, Stored, IInv, Inv, TypeOK, WorkAgrees, InPhase, Work
<1>2. /\ UNCHANGED <<jobs, bookings, rows, reqs>> /\ Active(j) /\ InPhase("ready") /\ Accepted
      /\ server' = [server EXCEPT ![r] = NewObject]
      /\ refused' = [refused EXCEPT ![r] = 0]
      /\ work' = [work EXCEPT !.phase = "answered", !.etag = NewObject.etag]
  BY <1>1 DEF Put, Stored, queueVars
<1>3. work \in Work /\ work # NoWork /\ IsRow(r) /\ rows[r].booking = b
  BY <1>1, <1>2 DEF IInv, Inv, TypeOK, WorkAgrees, InPhase, CalmInv, WorkIsNewest
<1>4. /\ \A s \in Rows : s # r => server'[s] = server[s]
      /\ \A s \in Rows : s # r => refused'[s] = refused[s]
      /\ server'[r] = NewObject /\ server'[r] # NoObject
      /\ NewObject.content = work.content /\ NewObject.etag \in Nat \ {0}
  BY <1>1, <1>2, WriteTaken
<1>5. /\ work' # NoWork /\ work'.phase = "answered" /\ work'.etag = server'[r].etag
      /\ work'.row = r /\ work'.booking = b /\ work'.push = work.push
      /\ work'.content = work.content
  BY <1>1, <1>2, <1>3, <1>4, CalendarAssumption DEF Work
<1>6. Kept'
  <2>1. OneRowPerBooking' /\ BookedOnly'
    BY <1>1, <1>2, <1>4, <1>5 DEF CalmInv, OneRowPerBooking, BookedOnly, InPhase, IsRow, IsBooking
  <2>3. AnsweredWasTaken' /\ DoneWasTaken'
    BY <1>4, <1>5 DEF AnsweredWasTaken, DoneWasTaken, Taken, InPhase, IsObject
  <2>2. EtagsCurrent'
    <3>1. \A s \in Rows : s # r /\ IsRow(s) => EtagCurrent(rows[s].etag, s)'
      BY <1>2, <1>4 DEF CalmInv, EtagsCurrent, EtagCurrent, InPhase, IsObject
    <3> QED BY <1>2, <1>4, <1>5, <3>1 DEF EtagsCurrent, EtagCurrent, InPhase, IsRow, IsObject
  <2> QED BY <2>1, <2>2, <2>3 DEF Kept
<1>7. Tried(b)' \/ Comes(b, {"update", "delete"})'
  <2>1. CASE work.content.version = bookings[b].version
    <3>1. r \in ShownBy(b)'
      BY <1>2, <1>3, <1>4 DEF ShownBy, RowsOf, IsRow, IsObject
    <3> QED BY <1>2, <1>4, <2>1, <3>1 DEF Tried, Newest
  <2>2. CASE Comes(b, {"update", "delete"})
    BY <1>2, <2>2, SameQueue
  <2> QED BY <1>1, <1>2, <2>1, <2>2 DEF CalmInv, WorkIsNewest, InPhase
<1>8. NewestOrComing'
  <2> SUFFICES ASSUME NEW c \in Bookings, IsBooking(c)'
               PROVE  (Tried(c) \/ Comes(c, Writers(c)) \/ Runs(c, Writers(c)))'
    BY DEF NewestOrComing
  <2>1. CASE c = b
    <3>1. Comes(b, {"update", "delete"})' => Comes(b, Writers(b))'
      BY DEF Comes, Writers, Action
    <3> QED BY <1>7, <2>1, <3>1
  <2>2. CASE c # b
    <3>1. /\ ShownBy(c)' = ShownBy(c) /\ \A s \in ShownBy(c) : server'[s] = server[s]
          /\ RowsOf(c)' = RowsOf(c) /\ \A s \in RowsOf(c) : refused'[s] = refused[s]
      BY <1>2, <1>3, <1>4, <2>2 DEF ShownBy, RowsOf, IsRow, IsObject
    <3>2. Tried(c) \/ Comes(c, Writers(c)) \/ Runs(c, Writers(c))
      BY <1>2 DEF CalmInv, NewestOrComing, IsBooking
    <3>3. Tried(c) => Tried(c)'
      BY <1>2, <3>1 DEF Tried, Newest
    <3> QED BY <1>2, <3>1, <3>2, <3>3 DEF Comes, Runs, Writers, Active, InState, IsJob
  <2> QED BY <2>1, <2>2
<1>9. WorkIsNewest'
  <2> SUFFICES ASSUME NEW k \in Jobs, Active(k)', NEW c \in Bookings, c = work'.booking
               PROVE  jobs[k].data.booking = c /\ (Tried(c)' \/ Comes(c, {"update", "delete"})')
    BY <1>1, <1>2, <1>5 DEF WorkIsNewest
  <2>1. Active(k)
    BY <1>2, SameQueue
  <2> QED BY <1>1, <1>3, <1>5, <1>7, <2>1 DEF CalmInv, WorkIsNewest
<1>10. NobodyResyncs' /\ WorkHasJob'
  BY <1>2, SameQueue DEF CalmInv, NobodyResyncs, WorkHasJob
<1> QED BY <1>6, <1>8, <1>9, <1>10 DEF CalmInv, Kept

\* What an answer without an etag leaves behind.
LEMMA AnsweredCalm ==
  ASSUME IInv, CalmInv, NEW j \in Jobs, Answered(j),
         NEW r \in Rows, r = work.row, NEW b \in Bookings, b = work.booking,
         refused' \in [Rows -> {0} \cup Version],
         \A s \in Rows : s # r => refused'[s] = refused[s],
         \A c \in Bookings : Tried(c) => Tried(c)' \/ c = b,
         Tried(b)' \/ Comes(b, {"update", "delete"}),
         work.push = "put" => refused'[r] = work.content.version
  PROVE  CalmInv'
<1>1. /\ UNCHANGED <<jobs, bookings, rows, server, reqs>>
      /\ Active(j) /\ InPhase("ready") /\ (work.push = "put" => work.known)
      /\ work' = [work EXCEPT !.phase = "answered", !.etag = 0]
  BY DEF Answered, queueVars
<1>2. work \in Work /\ work # NoWork /\ IsRow(r) /\ rows[r].booking = b
  BY <1>1 DEF IInv, Inv, TypeOK, WorkAgrees, InPhase, CalmInv, WorkIsNewest
<1>3. /\ work' # NoWork /\ work'.phase = "answered" /\ work'.etag = 0
      /\ work'.row = r /\ work'.booking = b /\ work'.push = work.push
      /\ work'.content = work.content
  <2>1. work' \in Work
    BY <1>1, <1>2 DEF Work
  <2> QED BY <1>1, <1>2, <2>1, CalendarAssumption DEF Work
<1>4. Kept'
  <2>1. OneRowPerBooking' /\ BookedOnly' /\ AnsweredWasTaken' /\ DoneWasTaken'
    BY <1>1, <1>2, <1>3 DEF CalmInv, OneRowPerBooking, BookedOnly, AnsweredWasTaken,
       DoneWasTaken, Taken, InPhase, IsRow, IsBooking
  <2>2. EtagsCurrent'
    BY <1>1, <1>3 DEF CalmInv, EtagsCurrent, EtagCurrent, InPhase, IsRow, IsObject
  <2> QED BY <2>1, <2>2 DEF Kept
<1>5. \A c \in Bookings : /\ Writers(c)' = Writers(c)
                          /\ Comes(c, Writers(c)) <=> Comes(c, Writers(c))'
                          /\ Runs(c, Writers(c)) <=> Runs(c, Writers(c))'
  BY <1>1 DEF Writers, ShownBy, RowsOf, IsRow, IsObject, Comes, Runs, Active, InState, IsJob
<1>6. NewestOrComing'
  <2> SUFFICES ASSUME NEW c \in Bookings, IsBooking(c)'
               PROVE  (Tried(c) \/ Comes(c, Writers(c)) \/ Runs(c, Writers(c)))'
    BY DEF NewestOrComing
  <2>1. Tried(c) \/ Comes(c, Writers(c)) \/ Runs(c, Writers(c))
    BY <1>1 DEF CalmInv, NewestOrComing, IsBooking
  <2>2. Comes(b, {"update", "delete"}) => Comes(b, Writers(b))
    BY DEF Comes, Writers, Action
  <2> QED BY <1>5, <2>1, <2>2
<1>7. WorkIsNewest'
  <2> SUFFICES ASSUME NEW k \in Jobs, Active(k)', NEW c \in Bookings, c = work'.booking
               PROVE  jobs[k].data.booking = c /\ (Tried(c)' \/ Comes(c, {"update", "delete"})')
    BY <1>1, <1>3 DEF WorkIsNewest
  <2>1. Active(k)
    BY <1>1, SameQueue
  <2>2. Comes(b, {"update", "delete"}) => Comes(b, {"update", "delete"})'
    BY <1>1, SameQueue
  <2> QED BY <1>2, <1>3, <2>1, <2>2 DEF CalmInv, WorkIsNewest
<1>8. NobodyResyncs' /\ WorkHasJob'
  BY <1>1, SameQueue DEF CalmInv, NobodyResyncs, WorkHasJob
<1> QED BY <1>4, <1>6, <1>7, <1>8 DEF CalmInv, Kept

\* A precondition fails only for a "create" whose VEVENT is there: a job wrote it,
\* and this one is not among the Writers any more.
LEMMA PutOutdatedCalm ==
  ASSUME IInv, CalmInv, NEW j \in Jobs, PutOutdated(j) PROVE CalmInv'
<1>1. PICK r \in Rows, b \in Bookings : r = work.row /\ b = work.booking
  BY DEF PutOutdated, Answered, IInv, Inv, TypeOK, WorkAgrees, InPhase, Work
<1>2. /\ UNCHANGED <<jobs, bookings, rows, server, refused, reqs>> /\ Answered(j)
      /\ Active(j) /\ InPhase("ready") /\ ~Accepted /\ (work.push = "put" => work.known)
  BY <1>1 DEF PutOutdated, Answered, queueVars
<1>3. work \in Work /\ work # NoWork /\ IsRow(r) /\ rows[r].booking = b
  BY <1>1, <1>2 DEF IInv, Inv, TypeOK, WorkAgrees, InPhase, CalmInv, WorkIsNewest
<1>4. work.push = "create" /\ IsObject(r)
  <2>1. work.push = "put" => Accepted
    <3>1. work.push = "put" => work.etag = rows[r].etag /\ EtagCurrent(rows[r].etag, r)
      BY <1>1, <1>2, <1>3 DEF InPhase, CalmInv, EtagsCurrent
    <3> QED BY <1>1, <1>2, <3>1 DEF Accepted, EtagCurrent
  <2> QED BY <1>1, <1>2, <1>3, <2>1 DEF Accepted, Work
<1>5. Tried(b) \/ Comes(b, {"update", "delete"})
  <2>1. Writers(b) = {"update", "delete"} /\ IsBooking(b)
    BY <1>1, <1>3, <1>4 DEF Writers, ShownBy, RowsOf, CalmInv, BookedOnly
  <2>2. jobs[j].data.action = "create"
    BY <1>1, <1>2, <1>3, <1>4 DEF CalmInv, WorkIsNewest, InPhase
  <2>3. ~Runs(b, {"update", "delete"})
    BY <1>2, <2>2 DEF Runs, IInv, QInv, OneActive
  <2>4. Tried(b) \/ Comes(b, Writers(b)) \/ Runs(b, Writers(b))
    BY <2>1 DEF CalmInv, NewestOrComing
  <2> QED BY <2>1, <2>3, <2>4
<1>6. \A c \in Bookings : Tried(c) => Tried(c)'
  BY <1>2, ShownStays DEF IsRow
<1>7. refused' \in [Rows -> {0} \cup Version]
  BY <1>2 DEF IInv, Inv, TypeOK
<1> QED BY <1>1, <1>2, <1>4, <1>5, <1>6, <1>7, AnsweredCalm

\* The server refused what was read: the newest, or a later job will write again.
LEMMA PutRefusedCalm ==
  ASSUME IInv, CalmInv, NEW j \in Jobs, PutRefused(j) PROVE CalmInv'
<1>1. PICK r \in Rows, b \in Bookings : r = work.row /\ b = work.booking
  BY DEF PutRefused, Answered, IInv, Inv, TypeOK, WorkAgrees, InPhase, Work
<1>2. /\ UNCHANGED <<jobs, bookings, rows, server, reqs>> /\ Answered(j)
      /\ Active(j) /\ InPhase("ready")
      /\ refused' = [refused EXCEPT ![r] = work.content.version]
  BY <1>1 DEF PutRefused, Answered, queueVars
<1>3. /\ work \in Work /\ work # NoWork /\ IsRow(r) /\ rows[r].booking = b
      /\ work.content.version \in Version
  BY <1>1, <1>2 DEF IInv, Inv, TypeOK, WorkAgrees, InPhase, CalmInv, WorkIsNewest, Work, VEvent
<1>4. /\ refused' \in [Rows -> {0} \cup Version]
      /\ refused'[r] = work.content.version
      /\ \A s \in Rows : s # r => refused'[s] = refused[s]
  BY <1>2, <1>3 DEF IInv, Inv, TypeOK
<1>5. \A c \in Bookings : Tried(c) => Tried(c)' \/ c = b
  BY <1>2, <1>3, <1>4 DEF Tried, Newest, ShownBy, RowsOf, IsRow, IsObject
<1>6. Tried(b)' \/ Comes(b, {"update", "delete"})
  <2>1. \/ work.content.version = bookings[b].version
        \/ Comes(b, {"update", "delete"})
    BY <1>1, <1>2 DEF CalmInv, WorkIsNewest, InPhase
  <2>2. work.content.version = bookings[b].version => Tried(b)'
    BY <1>2, <1>3, <1>4 DEF Tried, RowsOf, IsRow
  <2> QED BY <2>1, <2>2
<1> QED BY <1>1, <1>2, <1>4, <1>5, <1>6, AnsweredCalm

\* Nothing reached the server and the job is going to fail.
LEMMA PutThrowsCalm ==
  ASSUME IInv, CalmInv, NEW j \in Jobs, PutThrows(j) PROVE CalmInv'
<1>1. /\ UNCHANGED <<jobs, bookings, rows, server, refused, reqs>> /\ Active(j) /\ InPhase("ready")
      /\ work' = [work EXCEPT !.phase = "thrown"]
  BY DEF PutThrows, queueVars, calendarVars
<1>2. work \in Work /\ work # NoWork
  BY <1>1 DEF IInv, Inv, TypeOK, InPhase
<1>3. work' # NoWork /\ work'.phase = "thrown" /\ work'.row = work.row /\ work'.booking = work.booking
  <2>1. work' \in Work
    BY <1>1, <1>2 DEF Work
  <2> QED BY <1>1, <1>2, <2>1, CalendarAssumption DEF Work
<1>4. Kept'
  <2>1. OneRowPerBooking' /\ BookedOnly' /\ AnsweredWasTaken' /\ DoneWasTaken'
    BY <1>1, <1>2, <1>3 DEF CalmInv, OneRowPerBooking, BookedOnly, AnsweredWasTaken,
       DoneWasTaken, Taken, InPhase, IsRow, IsBooking
  <2>2. EtagsCurrent'
    BY <1>1, <1>3 DEF CalmInv, EtagsCurrent, EtagCurrent, InPhase, IsRow, IsObject
  <2> QED BY <2>1, <2>2 DEF Kept
<1>5. NewestOrComing'
  BY <1>1, SameQueue, NewestStays DEF IsRow
<1>6. WorkIsNewest'
  <2>1. \A k \in Jobs : Active(k)' => jobs[k].data.booking = work.booking
    BY <1>1, <1>2, SameQueue DEF CalmInv, WorkIsNewest
  <2> QED BY <1>1, <1>3, <2>1 DEF WorkIsNewest
<1>7. NobodyResyncs' /\ WorkHasJob'
  BY <1>1, SameQueue DEF CalmInv, NobodyResyncs, WorkHasJob
<1> QED BY <1>4, <1>5, <1>6, <1>7 DEF CalmInv, Kept

\* The row learns the etag that is the server's, or none.
LEMMA SaveRowCalm ==
  ASSUME IInv, CalmInv, NEW j \in Jobs, SaveRow(j) PROVE CalmInv'
<1>1. PICK r \in Rows, b \in Bookings : r = work.row /\ b = work.booking
  BY DEF SaveRow, IInv, Inv, TypeOK, WorkAgrees, InPhase, Work
<1>2. /\ UNCHANGED <<jobs, bookings, server, refused, reqs>> /\ Active(j) /\ InPhase("answered")
      /\ rows' = [rows EXCEPT ![r].etag = work.etag, ![r].status = "synced",
                              ![r].known = @ \/ work.push = "create",
                              ![r].seq = work.content.seq]
      /\ work' = [work EXCEPT !.phase = "saved"]
  BY <1>1 DEF SaveRow, queueVars
<1>3. work \in Work /\ work # NoWork /\ IsRow(r) /\ rows[r] \in Row
  BY <1>1, <1>2 DEF IInv, Inv, TypeOK, WorkAgrees, InPhase, IsRow
<1>4. /\ work' # NoWork /\ work'.phase = "saved" /\ work'.row = r /\ work'.booking = b
      /\ work'.push = work.push /\ work'.content = work.content
  <2>1. work' \in Work
    BY <1>2, <1>3 DEF Work
  <2> QED BY <1>1, <1>2, <1>3, <2>1, CalendarAssumption DEF Work
<1>5. /\ \A s \in Rows : s # r => rows'[s] = rows[s]
      /\ IsRow(r)' /\ rows'[r].booking = rows[r].booking /\ rows'[r].etag = work.etag
  <2>1. rows' = [rows EXCEPT ![r] = [rows[r] EXCEPT !.etag = work.etag, !.status = "synced",
                                       !.known = @ \/ work.push = "create",
                                       !.seq = work.content.seq]]
    BY <1>2 DEF IInv, Inv, TypeOK
  <2>2. [rows[r] EXCEPT !.etag = work.etag, !.status = "synced",
                        !.known = @ \/ work.push = "create", !.seq = work.content.seq] \in Row
    <3>1. work.etag \in Nat /\ work.content.seq \in Nat
      BY <1>3 DEF Work, VEvent
    <3> QED BY <1>3, <3>1 DEF Row
  <2> QED BY <1>3, <2>1, <2>2, CalendarAssumption DEF IInv, Inv, TypeOK, Row, IsRow
<1>6. /\ \A s \in Rows : IsRow(s)' => IsRow(s) /\ rows'[s].booking = rows[s].booking
      /\ \A s \in Rows : IsRow(s) => IsRow(s)' /\ rows'[s].booking = rows[s].booking
  BY <1>3, <1>5 DEF IsRow
<1>7. Kept'
  <2>1. OneRowPerBooking' /\ BookedOnly'
    BY <1>1, <1>2, <1>3, <1>4, <1>6 DEF CalmInv, OneRowPerBooking, BookedOnly, InPhase, IsBooking
  <2>2. AnsweredWasTaken' /\ DoneWasTaken'
    BY <1>1, <1>2, <1>4 DEF CalmInv, AnsweredWasTaken, DoneWasTaken, Taken, InPhase, IsObject
  <2>3. EtagsCurrent'
    <3>1. ~InPhase("ready")' /\ ~InPhase("answered")'
      BY <1>4 DEF InPhase
    <3>2. EtagCurrent(work.etag, r) /\ rows'[r].etag = work.etag
      BY <1>1, <1>2, <1>5 DEF CalmInv, EtagsCurrent
    <3>3. \A s \in Rows : s # r /\ IsRow(s) => EtagCurrent(rows[s].etag, s)
      BY <1>1, <1>2 DEF CalmInv, EtagsCurrent
    <3>4. \A s \in Rows : IsRow(s)' => EtagCurrent(rows[s].etag, s)'
      BY <1>2, <1>5, <1>6, <3>2, <3>3 DEF EtagCurrent, IsObject
    <3> QED BY <3>1, <3>4 DEF EtagsCurrent
  <2> QED BY <2>1, <2>2, <2>3 DEF Kept
<1>8. NewestOrComing'
  BY <1>2, <1>6, SameQueue, NewestStays
<1>9. WorkIsNewest'
  <2> SUFFICES ASSUME NEW k \in Jobs, Active(k)', NEW c \in Bookings, c = work'.booking
               PROVE  jobs[k].data.booking = c /\ (Tried(c)' \/ Comes(c, {"update", "delete"})')
    BY <1>1, <1>2, <1>4 DEF WorkIsNewest
  <2>1. Active(k)
    BY <1>2, SameQueue
  <2>2. jobs[k].data.booking = b /\ (Tried(b) \/ Comes(b, {"update", "delete"}))
    BY <1>1, <1>2, <1>3, <2>1 DEF CalmInv, WorkIsNewest, InPhase
  <2>3. Tried(b)' \/ Comes(b, {"update", "delete"})'
    BY <1>2, <1>6, <2>2, SameQueue, ShownStays
  <2> QED BY <1>4, <2>2, <2>3
<1>10. NobodyResyncs' /\ WorkHasJob'
  BY <1>2, <1>4, SameQueue DEF CalmInv, NobodyResyncs, WorkHasJob
<1> QED BY <1>7, <1>8, <1>9, <1>10 DEF CalmInv, Kept

\* The job is done, and what it wrote is the newest or a later one comes.
LEMMA FinishJobCalm ==
  ASSUME IInv, CalmInv, NEW j \in Jobs, FinishJob(j) PROVE CalmInv'
<1>1. UNCHANGED <<bookings, rows, server, refused, work, reqs>> /\ InPhase("saved") /\ Complete(j)
  BY DEF FinishJob, calendarVars
<1>2. /\ Active(j) /\ \A k \in Jobs : Active(k) => k = j
      /\ \A k \in Jobs : k # j => jobs'[k] = jobs[k]
      /\ ~Active(j)'
  <2>1. Active(j) /\ \A k \in Jobs : Active(k) => k = j
    BY <1>1 DEF Complete, IInv, QInv, OneActive
  <2>2. jobs'[j].state = "completed"
    BY <1>1, ActiveJob DEF Complete, Job, IInv, QInv, QueueTypeOK
  <2>3. \A k \in Jobs : k # j => jobs'[k] = jobs[k]
    BY <1>1, JobsKept DEF IInv
  <2> QED BY <2>1, <2>2, <2>3 DEF Active, InState
<1>3. \A c \in Bookings, A \in SUBSET Action : Comes(c, A) => Comes(c, A)'
  BY <1>1, QueueComes
<1>4. \A k \in Jobs : ~Active(k)'
  BY <1>2 DEF Active, InState, IsJob
<1>5. Kept'
  BY <1>1, KeptStays DEF IsBooking
<1>6. NewestOrComing'
  <2>1. ASSUME NEW c \in Bookings, NEW A \in SUBSET Action, {"update", "delete"} \subseteq A,
               Runs(c, A)
        PROVE  Tried(c) \/ Comes(c, A)'
    <3>1. c = work.booking
      BY <1>1, <1>2, <2>1 DEF Runs, CalmInv, WorkIsNewest, InPhase
    <3>2. Tried(c) \/ Comes(c, {"update", "delete"})
      BY <1>1, <1>2, <3>1 DEF CalmInv, WorkIsNewest, InPhase
    <3>3. Comes(c, {"update", "delete"}) => Comes(c, A)
      BY <2>1 DEF Comes
    <3> QED BY <1>3, <3>2, <3>3
  <2> QED BY <1>1, <1>3, <2>1, NewestStays DEF IsRow
<1>7. WorkIsNewest' /\ NobodyResyncs' /\ WorkHasJob'
  BY <1>1, <1>4 DEF CalmInv, WorkIsNewest, NobodyResyncs, WorkHasJob, InPhase
<1> QED BY <1>5, <1>6, <1>7 DEF CalmInv, Kept

\* The job failed and comes again, or is left as a dead letter.
LEMMA FailJobCalm ==
  ASSUME IInv, CalmInv, NEW j \in Jobs, FailJob(j) PROVE CalmInv'
<1>1. PICK r \in Rows : r = work.row /\ IsRow(r) /\ rows[r] \in Row
  BY DEF FailJob, IInv, Inv, TypeOK, WorkAgrees, InPhase, IsRow
<1>2. /\ UNCHANGED <<bookings, server, refused, work, reqs>> /\ InPhase("thrown") /\ Fail(j)
      /\ rows' = [rows EXCEPT ![r].status = "failed"]
  BY <1>1 DEF FailJob
<1>3. /\ Active(j) /\ \A k \in Jobs : Active(k) => k = j
      /\ \A k \in Jobs : k # j => jobs'[k] = jobs[k]
      /\ IsJob(j)' /\ jobs'[j].data = jobs[j].data /\ jobs'[j].state \in {"delayed", "failed"}
  BY <1>2, JobsKept DEF IInv, QInv, OneActive, Active, InState
<1>4. \A c \in Bookings, A \in SUBSET Action : Comes(c, A) => Comes(c, A)'
  BY <1>2, QueueComes
<1>5. \A k \in Jobs : ~Active(k)'
  BY <1>3 DEF Active, InState, IsJob
<1>6. /\ \A s \in Rows : IsRow(s)' <=> IsRow(s)
      /\ \A s \in Rows : IsRow(s) => /\ rows'[s].booking = rows[s].booking
                                     /\ rows'[s].etag = rows[s].etag
  <2>1. [rows[r] EXCEPT !.status = "failed"] \in Row
    BY <1>1 DEF Row
  <2>2. rows' = [rows EXCEPT ![r] = [rows[r] EXCEPT !.status = "failed"]]
    BY <1>2 DEF IInv, Inv, TypeOK
  <2> QED BY <1>1, <2>1, <2>2, CalendarAssumption DEF IsRow, IInv, Inv, TypeOK, Row
<1>7. Kept'
  <2>1. OneRowPerBooking' /\ BookedOnly' /\ AnsweredWasTaken' /\ DoneWasTaken'
    BY <1>2, <1>6 DEF CalmInv, OneRowPerBooking, BookedOnly, AnsweredWasTaken, DoneWasTaken, Taken,
       InPhase, IsBooking
  <2>2. EtagsCurrent'
    BY <1>2, <1>6 DEF CalmInv, EtagsCurrent, EtagCurrent, InPhase, IsObject
  <2> QED BY <2>1, <2>2 DEF Kept
<1>8. NewestOrComing'
  <2>1. \A c \in Bookings, A \in SUBSET Action : Runs(c, A) => Comes(c, A)'
    BY <1>3, <1>5 DEF Runs, Comes
  <2> QED BY <1>2, <1>4, <1>6, <2>1, NewestStays
<1>9. WorkIsNewest' /\ NobodyResyncs' /\ WorkHasJob'
  BY <1>2, <1>5 DEF CalmInv, WorkIsNewest, NobodyResyncs, WorkHasJob, InPhase
<1> QED BY <1>7, <1>8, <1>9 DEF CalmInv, Kept

\* A failed job's time has come, or its listener is done.
LEMMA QueueStepCalm ==
  ASSUME IInv, CalmInv, NEW j \in Jobs, Retry(j) \/ Bury(j) PROVE CalmInv'
<1>1. UNCHANGED <<bookings, rows, server, refused, work, reqs>> /\ (Promote(j) \/ moveToDLQ(j))
  BY DEF Retry, Bury, calendarVars
<1>2. \A c \in Bookings, A \in SUBSET Action : Comes(c, A) => Comes(c, A)'
  BY <1>1, QueueComes
<1>3. \A k \in Jobs : (Active(k)' <=> Active(k)) /\ (Active(k) => jobs'[k].data = jobs[k].data)
  <2>1. /\ \A k \in Jobs : k # j => jobs'[k] = jobs[k]
        /\ Promote(j) => jobs[j].state = "delayed" /\ jobs'[j].state = "waiting"
        /\ moveToDLQ(j) => jobs' = jobs
    BY <1>1, JobsKept DEF IInv
  <2> QED BY <1>1, <2>1 DEF Active, InState, IsJob
<1>4. Kept'
  BY <1>1, KeptStays DEF IsBooking
<1>5. NewestOrComing'
  BY <1>1, <1>2, <1>3, NewestStays DEF Runs, IsRow
<1>6. WorkIsNewest'
  BY <1>1, <1>2, <1>3, WorkStays DEF IsRow
<1>7. NobodyResyncs' /\ WorkHasJob'
  BY <1>1, <1>3 DEF CalmInv, NobodyResyncs, WorkHasJob
<1> QED BY <1>4, <1>5, <1>6, <1>7 DEF CalmInv, Kept

\* Nothing happens.
LEMMA StutterCalm == ASSUME IInv, CalmInv, UNCHANGED vars PROVE CalmInv'
<1>1. UNCHANGED <<jobs, bookings, rows, server, refused, work, reqs>>
  BY DEF vars, queueVars, calendarVars
<1>2. Kept'
  BY <1>1, KeptStays DEF IsBooking
<1>3. NewestOrComing'
  BY <1>1, SameQueue, NewestStays DEF IsRow
<1>4. WorkIsNewest'
  BY <1>1, SameQueue, WorkStays DEF IsRow
<1>5. NobodyResyncs' /\ WorkHasJob'
  BY <1>1, SameQueue DEF CalmInv, NobodyResyncs, WorkHasJob
<1> QED BY <1>2, <1>3, <1>4, <1>5 DEF CalmInv, Kept

\* Every step that can happen then keeps it.
LEMMA NextCalm ==
  ASSUME Calm, IInv, CalmInv, [Next]_vars PROVE CalmInv'
<1>1. /\ \A q \in Requests : ~EnqueueFails(q) /\ ~CommitResync(q)
      /\ \A q \in Requests, b \in Bookings : ~BeginResync(q, b)
      /\ \A j \in Jobs : ~PutLost(j)
      /\ ~Crash
  BY NothingWorse DEF CalmInv
<1>2. ASSUME NEW j \in Jobs, WorkerStep(j) PROVE CalmInv'
  BY <1>1, <1>2, StartJobCalm, LoadCalm, MakeRowCalm, PutCalm, PutOutdatedCalm, PutRefusedCalm,
     PutThrowsCalm, SaveRowCalm, FinishJobCalm, FailJobCalm, QueueStepCalm DEF WorkerStep
<1>3. ASSUME NEW q \in Requests, RequestStep(q) PROVE CalmInv'
  <2>1. \/ \E b \in Bookings : CreateBooking(q, b) \/ UpdateBooking(q, b) \/ CancelBooking(q, b)
        \/ \E j \in Jobs : Enqueue(q, j)
        \/ \E b \in Bookings : BeginResync(q, b)
        \/ CommitResync(q) \/ EnqueueFails(q)
    BY <1>3 DEF RequestStep
  <2> QED BY <1>1, <2>1, RouteCalm, EnqueueCalm
<1>4. CASE UNCHANGED vars
  BY <1>4, StutterCalm
<1> QED BY <1>1, <1>2, <1>3, <1>4 DEF Next

\* While all that fails is a server that cannot be reached or answers with HTTP
\* errors, and nobody re-syncs: what a job wrote is there, in one VEVENT of the
\* booking, and it is the newest version once nothing of the booking is on its way;
\* the server refused just that version otherwise (caldav.service.ts:39-187).
THEOREM WorkerInStep == ASSUME Calm PROVE Spec => []InStepWithServer
<1>1. Init => CalmInv
  BY InitCalm
<1>2. IInv /\ CalmInv /\ [Next]_vars => CalmInv'
  BY NextCalm
<1>3. IInv /\ CalmInv => InStepWithServer
  <2> SUFFICES ASSUME IInv, CalmInv PROVE InStepWithServer
    OBVIOUS
  <2>1. OneVEventPerBooking
    BY DEF IInv, ServerOneAhead, CalmInv, OneRowPerBooking, OneVEventPerBooking
  <2>2. NewestVersionShown
    <3> SUFFICES ASSUME NEW b \in Bookings, Settled(b) PROVE Tried(b)
      BY DEF NewestVersionShown
    <3>1. Tried(b) \/ Comes(b, Writers(b)) \/ Runs(b, Writers(b))
      BY DEF CalmInv, NewestOrComing, Settled
    <3>2. ~Comes(b, Writers(b)) /\ ~Runs(b, Writers(b))
      BY DEF Settled, Comes, Runs, Active, InState, Idle
    <3> QED BY <3>1, <3>2
  <2> QED BY <2>1, <2>2 DEF CalmInv, InStepWithServer
<1> QED BY <1>1, <1>2, <1>3, CalendarInvariant, PTL DEF Spec
=============================================================================
