---------------------------- MODULE BookingProofs ----------------------------
(***************************************************************************)
(* What holds of the reservation handlers for any number of bookings,      *)
(* rooms, guests, days and requests in flight; and, in the second part,    *)
(* what holds when their transactions do not interleave: one request in    *)
(* flight at a time.  The run booking_double_booked shows that two in      *)
(* flight are enough to break that.  The third part is about the bookings   *)
(* that are made from conversations, one at a time as well.                 *)
(***************************************************************************)
EXTENDS BookingRefinement, InboxBooking, TLAPS

-----------------------------------------------------------------------------
(* Types                                                                     *)

LEMMA RowFields ==
  ASSUME TypeOK, NEW b \in Bookings, IsRow(b)
  PROVE  /\ bookings[b] \in Row
         /\ bookings[b].checkIn \in Int
         /\ bookings[b].checkOut \in Int
BY DataAssumption DEF TypeOK, IsRow, Row

LEMMA BodyTypes ==
  /\ \A c \in CreateBodies : c \in CreateBody
  /\ \A u \in UpdateBodies : u \in UpdateBody
BY DataAssumption

LEMMA UpdatedIsRow ==
  ASSUME NEW old \in Row, NEW r \in Request, r.op = "update"
  PROVE  Updated(old, r) \in Row
<1>1. /\ r.body \in UpdateBody
      /\ r.cancels \in BOOLEAN
      /\ r.remove \in SUBSET Guests
      /\ r.add \in SUBSET Guests
  BY BodyTypes DEF Request
<1>. QED
  BY <1>1 DEF Updated, Supplied, UpdateBody, Row


\* The row an update or a cancellation writes was a row, and stays one.
LEMMA CommitUpdateWritesRow ==
  ASSUME TypeOK, NEW q \in Requests, CommitUpdate(q)
  PROVE  LET r == reqs[q] IN
         /\ r \in Request /\ r.op = "update" /\ r.id \in Bookings
         /\ IsRow(r.id) /\ bookings[r.id] \in Row
         /\ Updated(bookings[r.id], r) \in Row
         /\ bookings' = [bookings EXCEPT ![r.id] = Updated(bookings[r.id], r)]
<1>. DEFINE r == reqs[q]
<1>1. /\ r \in Request /\ r.op = "update" /\ r.id \in Bookings
      /\ IsRow(r.id) /\ bookings[r.id] \in Row
      /\ bookings' = [bookings EXCEPT ![r.id] = Updated(bookings[r.id], r)]
  BY DEF CommitUpdate, TypeOK, Request, IsRow
<1>2. Updated(bookings[r.id], r) \in Row
  BY <1>1, UpdatedIsRow
<1>. QED
  BY <1>1, <1>2

Cancelled(row) == [row EXCEPT !.status = "cancelled", !.deleted = TRUE]

LEMMA CommitCancelWritesRow ==
  ASSUME TypeOK, NEW q \in Requests, CommitCancel(q)
  PROVE  LET b == reqs[q].id IN
         /\ b \in Bookings /\ IsRow(b) /\ bookings[b] \in Row
         /\ Cancelled(bookings[b]) \in Row
         /\ bookings' = [bookings EXCEPT ![b] = Cancelled(bookings[b])]
<1>. DEFINE b == reqs[q].id
<1>1. /\ b \in Bookings /\ IsRow(b) /\ bookings[b] \in Row
      /\ bookings' = [bookings EXCEPT ![b] = Cancelled(bookings[b])]
  BY DEF CommitCancel, TypeOK, Request, IsRow, Cancelled
<1>2. Cancelled(bookings[b]) \in Row
  BY <1>1 DEF Cancelled, Row, Status
<1>. QED
  BY <1>1, <1>2

-----------------------------------------------------------------------------
(* Every step keeps the invariant                                            *)

LEMMA InitIInv == Init => IInv
BY DEF Init, IInv, TypeOK, DatesOrdered, CancelledIsDeleted, PendingSound, IsRow,
       Request, Idle

\* A step that only reads changes one request and no table.
LEMMA BeginCreateIInv ==
  ASSUME IInv, NEW q \in Requests, NEW c \in CreateBodies, BeginCreate(q, c)
  PROVE  IInv'
<1>1. TypeOK'
  BY DEF IInv, BeginCreate, TypeOK, Request
<1>2. DatesOrdered' /\ CancelledIsDeleted'
  BY DEF IInv, BeginCreate, DatesOrdered, CancelledIsDeleted, IsRow
<1>3. PendingSound'
  BY DEF IInv, BeginCreate, PendingSound, IsRow, TypeOK
<1>. QED
  BY <1>1, <1>2, <1>3 DEF IInv

LEMMA BeginUpdateIInv ==
  ASSUME IInv, NEW q \in Requests, NEW b \in Bookings, NEW u \in UpdateBodies,
         BeginUpdate(q, b, u)
  PROVE  IInv'
<1>0. IsRow(b) /\ bookings[b] \in Row /\ ~bookings[b].deleted
  BY RowFields DEF IInv, BeginUpdate, Live
<1>1. TypeOK'
  <2>1. /\ u.guests \in SUBSET Guests
        /\ bookings[b].guests \in SUBSET Guests
    BY <1>0, BodyTypes DEF UpdateBody, Row
  <2>. DEFINE r == [op |-> "update", id |-> b, body |-> u,
                    cancels |-> u.status = "cancelled" /\ bookings[b].status # "cancelled",
                    remove  |-> IF u.guest = Keep THEN {} ELSE bookings[b].guests \ u.guests,
                    add     |-> u.guests \ bookings[b].guests]
  <2>2. r \in Request
    BY <2>1 DEF Request
  <2>3. reqs' = [reqs EXCEPT ![q] = r] /\ UNCHANGED <<bookings, rooms, liveGuests>>
    BY DEF BeginUpdate
  <2>. QED
    BY <2>2, <2>3 DEF IInv, TypeOK
<1>2. DatesOrdered' /\ CancelledIsDeleted'
  BY DEF IInv, BeginUpdate, DatesOrdered, CancelledIsDeleted, IsRow
<1>3. PendingSound'
  <2>1. bookings[b].status # "cancelled"
    BY <1>0 DEF IInv, CancelledIsDeleted
  <2>. QED
    BY <2>1 DEF IInv, BeginUpdate, PendingSound, IsRow, TypeOK
<1>. QED
  BY <1>1, <1>2, <1>3 DEF IInv

LEMMA BeginCancelIInv ==
  ASSUME IInv, NEW q \in Requests, NEW b \in Bookings, BeginCancel(q, b)
  PROVE  IInv'
<1>1. TypeOK'
  BY DEF IInv, BeginCancel, TypeOK, Request
<1>2. DatesOrdered' /\ CancelledIsDeleted'
  BY DEF IInv, BeginCancel, DatesOrdered, CancelledIsDeleted, IsRow
<1>3. PendingSound'
  BY DEF IInv, BeginCancel, PendingSound, IsRow, TypeOK
<1>. QED
  BY <1>1, <1>2, <1>3 DEF IInv

\* What deleteRoom archives is deleted: a cancelled booking is a deleted one.
LEMMA BeginDeleteRoomIInv ==
  ASSUME IInv, NEW q \in Requests, NEW room \in Rooms, BeginDeleteRoom(q, room)
  PROVE  IInv'
<1>1. TypeOK'
  BY DEF IInv, BeginDeleteRoom, TypeOK, Request, Archived
<1>2. DatesOrdered' /\ CancelledIsDeleted'
  BY DEF IInv, BeginDeleteRoom, DatesOrdered, CancelledIsDeleted, IsRow
<1>3. PendingSound'
  <2>1. \A b \in Archived(room) : bookings[b] # NoRow /\ bookings[b].deleted
    BY DEF IInv, CancelledIsDeleted, Archived, IsRow
  <2>. QED
    BY <2>1 DEF IInv, BeginDeleteRoom, PendingSound, IsRow, TypeOK
<1>. QED
  BY <1>1, <1>2, <1>3 DEF IInv

LEMMA RollbackIInv ==
  ASSUME IInv, NEW q \in Requests, Rollback(q)
  PROVE  IInv'
<1>1. TypeOK'
  BY DEF IInv, Rollback, TypeOK, Request, Idle
<1>2. DatesOrdered' /\ CancelledIsDeleted'
  BY DEF IInv, Rollback, DatesOrdered, CancelledIsDeleted, IsRow
<1>3. PendingSound'
  BY DEF IInv, Rollback, PendingSound, IsRow, TypeOK, Idle
<1>. QED
  BY <1>1, <1>2, <1>3 DEF IInv

LEMMA DeleteGuestIInv ==
  ASSUME IInv, NEW g \in Guests, deleteGuest(g)
  PROVE  IInv'
BY DEF IInv, deleteGuest, TypeOK, DatesOrdered, CancelledIsDeleted, PendingSound, IsRow

LEMMA StutterIInv == IInv /\ UNCHANGED vars => IInv'
BY DEF IInv, vars, TypeOK, DatesOrdered, CancelledIsDeleted, PendingSound, IsRow

\* Requests still in flight keep what they remember when a commit of another only
\* fills new ids, keeps rows deleted or purges them.
LEMMA OthersStaySound ==
  ASSUME IInv, NEW q \in Requests, reqs' = [reqs EXCEPT ![q] = Idle],
         \A b \in Bookings : bookings[b] # NoRow =>
           /\ bookings'[b] # NoRow
           /\ IsRow(b)' => IsRow(b) /\ (bookings[b].deleted => bookings'[b].deleted)
  PROVE  PendingSound'
<1>. SUFFICES ASSUME NEW p \in Requests, p # q
              PROVE  /\ reqs[p].op = "create" =>
                          reqs[p].body.checkOut > reqs[p].body.checkIn
                     /\ reqs[p].op = "update" /\ reqs[p].body.status = "cancelled"
                          => reqs[p].cancels
                     /\ reqs[p].op = "deleteRoom" =>
                          \A b \in reqs[p].archived :
                            bookings'[b] # NoRow /\ (IsRow(b)' => bookings'[b].deleted)
  BY DEF PendingSound, IInv, TypeOK, Idle
<1>1. ASSUME reqs[p].op = "deleteRoom", NEW b \in reqs[p].archived
      PROVE  bookings'[b] # NoRow /\ (IsRow(b)' => bookings'[b].deleted)
  <2>1. b \in Bookings
    BY <1>1 DEF IInv, TypeOK, Request
  <2>2. bookings[b] # NoRow /\ (IsRow(b) => bookings[b].deleted)
    BY <1>1 DEF IInv, PendingSound
  <2>. QED
    BY <2>1, <2>2
<1>. QED
  BY <1>1 DEF IInv, PendingSound

\* A commit returns its request to idle and leaves what the others remember true.
LEMMA CommitCreateIInv ==
  ASSUME IInv, NEW q \in Requests, CommitCreate(q)
  PROVE  IInv'
<1>. DEFINE row == NewRow(reqs[q].body)
<1>1. PICK b \in Bookings : /\ bookings[b] = NoRow
                            /\ bookings' = [bookings EXCEPT ![b] = row]
  BY DEF CommitCreate
<1>2. /\ reqs[q].body \in CreateBody
      /\ reqs[q].body.checkOut > reqs[q].body.checkIn
  BY BodyTypes DEF IInv, TypeOK, Request, CommitCreate, PendingSound
<1>3. /\ row \in Row
      /\ row.checkOut > row.checkIn
      /\ row.status # "cancelled"
      /\ row.deleted = FALSE
  BY <1>2 DEF NewRow, Row, CreateBody, Status
<1>4. /\ reqs' = [reqs EXCEPT ![q] = Idle]
      /\ rooms' = rooms
      /\ liveGuests' = liveGuests
  BY DEF CommitCreate
<1>5. TypeOK'
  BY <1>1, <1>3, <1>4 DEF IInv, TypeOK, Request, Idle
<1>6. DatesOrdered' /\ CancelledIsDeleted'
  <2>. SUFFICES ASSUME NEW a \in Bookings, IsRow(a)'
                PROVE  /\ bookings'[a].checkOut > bookings'[a].checkIn
                       /\ bookings'[a].status = "cancelled" => bookings'[a].deleted
    BY DEF DatesOrdered, CancelledIsDeleted
  <2>1. CASE a = b
    BY <1>1, <1>3, <2>1 DEF IInv, TypeOK
  <2>2. CASE a # b
    BY <1>1, <2>2 DEF IInv, TypeOK, DatesOrdered, CancelledIsDeleted, IsRow
  <2>. QED
    BY <2>1, <2>2
<1>7. PendingSound'
  BY <1>1, <1>4, OthersStaySound DEF IInv, TypeOK, IsRow
<1>. QED
  BY <1>5, <1>6, <1>7 DEF IInv

LEMMA CommitUpdateIInv ==
  ASSUME IInv, NEW q \in Requests, CommitUpdate(q)
  PROVE  IInv'
<1>. DEFINE r == reqs[q]
            b == r.id
            new == Updated(bookings[b], r)
<1>1. /\ r \in Request /\ r.op = "update" /\ b \in Bookings
      /\ IsRow(b) /\ bookings[b] \in Row
      /\ new.checkOut > new.checkIn
      /\ bookings' = [bookings EXCEPT ![b] = new]
      /\ reqs' = [reqs EXCEPT ![q] = Idle]
      /\ rooms' = rooms
      /\ liveGuests' = liveGuests
  BY CommitUpdateWritesRow DEF IInv, CommitUpdate
<1>2. new \in Row
  BY CommitUpdateWritesRow DEF IInv
<1>3. /\ new.status = "cancelled" => new.deleted
      /\ bookings[b].deleted => new.deleted
  <2>1. r.body.status = "cancelled" => r.cancels
    BY <1>1 DEF IInv, PendingSound
  <2>2. bookings[b].status = "cancelled" => bookings[b].deleted
    BY <1>1 DEF IInv, CancelledIsDeleted
  <2>3. /\ new.status = Supplied(r.body.status, bookings[b].status)
        /\ new.deleted = (bookings[b].deleted \/ r.cancels)
    BY DEF Updated
  <2>. QED
    BY <2>1, <2>2, <2>3 DEF Supplied
<1>. HIDE DEF new
<1>4. TypeOK'
  BY <1>1, <1>2 DEF IInv, TypeOK, Request, Idle
<1>5. DatesOrdered' /\ CancelledIsDeleted'
  <2>. SUFFICES ASSUME NEW a \in Bookings, IsRow(a)'
                PROVE  /\ bookings'[a].checkOut > bookings'[a].checkIn
                       /\ bookings'[a].status = "cancelled" => bookings'[a].deleted
    BY DEF DatesOrdered, CancelledIsDeleted
  <2>1. CASE a = b
    BY <1>1, <1>3, <2>1 DEF IInv, TypeOK
  <2>2. CASE a # b
    BY <1>1, <2>2 DEF IInv, TypeOK, DatesOrdered, CancelledIsDeleted, IsRow
  <2>. QED
    BY <2>1, <2>2
<1>6. PendingSound'
  <2>1. new # NoRow
    BY <1>2, MarkerAssumption
  <2>2. \A a \in Bookings : bookings'[a] = IF a = b THEN new ELSE bookings[a]
    BY <1>1 DEF IInv, TypeOK
  <2>. QED
    BY <1>1, <1>3, <2>1, <2>2, OthersStaySound DEF IsRow
<1>. QED
  BY <1>4, <1>5, <1>6 DEF IInv

LEMMA CommitCancelIInv ==
  ASSUME IInv, NEW q \in Requests, CommitCancel(q)
  PROVE  IInv'
<1>. DEFINE b == reqs[q].id
            new == Cancelled(bookings[b])
<1>1. /\ b \in Bookings /\ IsRow(b) /\ bookings[b] \in Row
      /\ bookings' = [bookings EXCEPT ![b] = new]
      /\ reqs' = [reqs EXCEPT ![q] = Idle]
      /\ rooms' = rooms
      /\ liveGuests' = liveGuests
  BY CommitCancelWritesRow DEF IInv, CommitCancel
<1>2. /\ new \in Row
      /\ new.deleted
      /\ new.checkOut > new.checkIn
  BY <1>1 DEF Row, Status, IInv, DatesOrdered, Cancelled
<1>. HIDE DEF new
<1>3. TypeOK'
  BY <1>1, <1>2 DEF IInv, TypeOK, Request, Idle
<1>4. \A a \in Bookings : bookings'[a] = IF a = b THEN new ELSE bookings[a]
  BY <1>1 DEF IInv, TypeOK
<1>5. DatesOrdered' /\ CancelledIsDeleted'
  BY <1>2, <1>4 DEF IInv, DatesOrdered, CancelledIsDeleted, IsRow
<1>6. PendingSound'
  BY <1>1, <1>2, <1>4, MarkerAssumption, OthersStaySound DEF IsRow
<1>. QED
  BY <1>3, <1>5, <1>6 DEF IInv

LEMMA CommitDeleteRoomIInv ==
  ASSUME IInv, NEW q \in Requests, CommitDeleteRoom(q)
  PROVE  IInv'
<1>1. /\ \A b \in Bookings : bookings'[b] = bookings[b] \/ bookings'[b] = Purged
      /\ bookings' \in [Bookings -> Row \cup {NoRow, Purged}]
  BY DEF IInv, TypeOK, CommitDeleteRoom
<1>2. /\ reqs' = [reqs EXCEPT ![q] = Idle]
      /\ rooms' \subseteq Rooms
      /\ liveGuests' = liveGuests
  BY DEF CommitDeleteRoom, IInv, TypeOK
<1>3. TypeOK'
  BY <1>1, <1>2 DEF IInv, TypeOK, Request, Idle
<1>4. DatesOrdered' /\ CancelledIsDeleted'
  BY <1>1 DEF IInv, DatesOrdered, CancelledIsDeleted, IsRow
<1>5. PendingSound'
  BY <1>1, <1>2, MarkerAssumption, OthersStaySound DEF IsRow
<1>. QED
  BY <1>3, <1>4, <1>5 DEF IInv

LEMMA NextIInv == IInv /\ [Next]_vars => IInv'
<1>. SUFFICES ASSUME IInv, [Next]_vars PROVE IInv'
  OBVIOUS
<1>1. ASSUME NEW q \in Requests, NEW c \in CreateBodies, BeginCreate(q, c)
      PROVE IInv'
  BY <1>1, BeginCreateIInv
<1>2. ASSUME NEW q \in Requests, NEW b \in Bookings, NEW u \in UpdateBodies,
             BeginUpdate(q, b, u)
      PROVE IInv'
  BY <1>2, BeginUpdateIInv
<1>3. ASSUME NEW q \in Requests, NEW b \in Bookings, BeginCancel(q, b)
      PROVE IInv'
  BY <1>3, BeginCancelIInv
<1>4. ASSUME NEW q \in Requests, NEW room \in Rooms, BeginDeleteRoom(q, room)
      PROVE IInv'
  BY <1>4, BeginDeleteRoomIInv
<1>5. ASSUME NEW q \in Requests,
             CommitCreate(q) \/ CommitUpdate(q) \/ CommitCancel(q)
               \/ CommitDeleteRoom(q) \/ Rollback(q)
      PROVE IInv'
  BY <1>5, CommitCreateIInv, CommitUpdateIInv, CommitCancelIInv,
     CommitDeleteRoomIInv, RollbackIInv
<1>6. ASSUME NEW g \in Guests, deleteGuest(g)
      PROVE IInv'
  BY <1>6, DeleteGuestIInv
<1>7. CASE UNCHANGED vars
  BY <1>7, StutterIInv
<1>. QED
  BY <1>1, <1>2, <1>3, <1>4, <1>5, <1>6, <1>7 DEF Next

-----------------------------------------------------------------------------
(* Theorems, for any number of requests in flight                            *)

\* The inductive invariant of the interleaved handlers.
THEOREM IInvHolds == Spec => []IInv
BY InitIInv, NextIInv, PTL DEF Spec

\* The tables and the requests keep their types.
THEOREM TypeCorrect == Spec => []TypeOK
BY IInvHolds, PTL DEF IInv

\* A stay ends after it begins although updates validate dates on stale reads
\* (booking.service.ts:246, chk_booking_dates).
THEOREM DatesStayOrdered == Spec => []DatesOrdered
BY IInvHolds, PTL DEF IInv

\* Whatever interleaves, a booking with status cancelled has deletedAt set.
THEOREM CancelledStaysDeleted == Spec => []CancelledIsDeleted
BY IInvHolds, PTL DEF IInv

\* deleteRoom purges no booking that is not deleted, although the rows it purges
\* were chosen before other requests committed (room-core.service.ts:192-221).
THEOREM PurgeIsSafe == Spec => PurgeTakesOnlyArchived
<1>1. ASSUME IInv, [Next]_vars, NEW b \in Bookings, IsRow(b), ~IsRow(b)'
      PROVE  bookings[b].deleted
  <2>1. bookings'[b] # bookings[b]
    BY <1>1 DEF IsRow
  <2>2. CASE \E q \in Requests : CommitCreate(q)
    BY <1>1, <2>1, <2>2 DEF CommitCreate, IInv, TypeOK, IsRow, NewRow, Row, Request,
       CreateBody, Status
  <2>3. CASE \E q \in Requests : CommitUpdate(q)
    <3>1. bookings'[b] \in Row
      BY <1>1, <2>1, <2>3, CommitUpdateWritesRow DEF IInv, TypeOK
    <3>. QED
      BY <1>1, <3>1, MarkerAssumption DEF IsRow
  <2>4. CASE \E q \in Requests : CommitCancel(q)
    <3>1. bookings'[b] \in Row
      BY <1>1, <2>1, <2>4, CommitCancelWritesRow DEF IInv, TypeOK
    <3>. QED
      BY <1>1, <3>1, MarkerAssumption DEF IsRow
  <2>5. CASE \E q \in Requests : CommitDeleteRoom(q)
    BY <1>1, <2>1, <2>5 DEF CommitDeleteRoom, IInv, TypeOK, PendingSound
  <2>. QED
    BY <1>1, <2>1, <2>2, <2>3, <2>4, <2>5
       DEF Next, vars, BeginCreate, BeginUpdate, BeginCancel, BeginDeleteRoom,
           Rollback, deleteGuest
<1>2. IInv /\ [Next]_vars =>
        [\A b \in Bookings : IsRow(b) /\ ~IsRow(b)' => bookings[b].deleted]_vars
  BY <1>1
<1>. QED
  BY <1>2, IInvHolds, PTL DEF Spec, PurgeTakesOnlyArchived

-----------------------------------------------------------------------------
(* One request in flight at a time                                           *)

Serial == \A p, q \in Requests : p = q

\* What the one request in flight read is still so: nothing else has committed.
FreshCreate(q) ==
  reqs[q].op = "create" =>
    ~checkOverlap(reqs[q].body.room, reqs[q].body.checkIn, reqs[q].body.checkOut, {})

FreshUpdate(q) ==
  reqs[q].op = "update" =>
    LET r   == reqs[q]
        old == bookings[r.id]
        new == Updated(old, r)
    IN  /\ Live(r.id)
        /\ r.body.status \in {Keep, old.status} \cup VALID_TRANSITIONS[old.status]
        /\ r.cancels = (r.body.status = "cancelled" /\ old.status # "cancelled")
        /\ \/ r.body.room = Keep /\ r.body.checkIn = Keep /\ r.body.checkOut = Keep
           \/ ~checkOverlap(new.room, new.checkIn, new.checkOut, {r.id})

FreshCancel(q) ==
  reqs[q].op = "cancel" =>
    /\ Live(reqs[q].id)
    /\ "cancelled" \in VALID_TRANSITIONS[bookings[reqs[q].id].status]

FreshDeleteRoom(q) ==
  reqs[q].op = "deleteRoom" => reqs[q].archived = Archived(reqs[q].room)

PendingFresh ==
  \A q \in Requests :
    FreshCreate(q) /\ FreshUpdate(q) /\ FreshCancel(q) /\ FreshDeleteRoom(q)

\* The inductive invariant of the serial handlers.
SInv == IInv /\ NoDoubleBooking /\ DeletedIsCancelled /\ PendingFresh

-----------------------------------------------------------------------------

LEMMA InitSInv == Init => SInv
BY InitIInv DEF Init, SInv, NoDoubleBooking, DeletedIsCancelled, PendingFresh,
   FreshCreate, FreshUpdate, FreshCancel, FreshDeleteRoom, Active, Live, IsRow, Idle

\* A step that changes no booking keeps what is said of bookings.
LEMMA BookingsUnchanged ==
  ASSUME NoDoubleBooking, DeletedIsCancelled, UNCHANGED bookings
  PROVE  NoDoubleBooking' /\ DeletedIsCancelled'
BY DEF NoDoubleBooking, DeletedIsCancelled, Active, Live, IsRow

\* Once its request is idle nothing remembered can be stale.
LEMMA IdleIsFresh ==
  ASSUME Serial, IInv, NEW q \in Requests, reqs' = [reqs EXCEPT ![q] = Idle]
  PROVE  PendingFresh'
BY DEF Serial, IInv, TypeOK, PendingFresh, FreshCreate, FreshUpdate, FreshCancel,
   FreshDeleteRoom, Idle

LEMMA BeginFresh ==
  ASSUME Serial, SInv, NEW q \in Requests
  PROVE  /\ \A c \in CreateBodies : BeginCreate(q, c) => PendingFresh'
         /\ \A b \in Bookings, u \in UpdateBodies : BeginUpdate(q, b, u) => PendingFresh'
         /\ \A b \in Bookings : BeginCancel(q, b) => PendingFresh'
         /\ \A room \in Rooms : BeginDeleteRoom(q, room) => PendingFresh'
<1>. DEFINE Fresh == FreshCreate(q) /\ FreshUpdate(q) /\ FreshCancel(q) /\ FreshDeleteRoom(q)
<1>0. ASSUME Fresh' PROVE PendingFresh'
  BY <1>0 DEF Serial, PendingFresh
<1>1. ASSUME NEW c \in CreateBodies, BeginCreate(q, c) PROVE Fresh'
  BY <1>1 DEF SInv, IInv, TypeOK, BeginCreate, FreshCreate, FreshUpdate, FreshCancel,
     FreshDeleteRoom, checkOverlap, Active, Live, IsRow
<1>2. ASSUME NEW b \in Bookings, NEW u \in UpdateBodies, BeginUpdate(q, b, u) PROVE Fresh'
  BY <1>2 DEF SInv, IInv, TypeOK, BeginUpdate, FreshCreate, FreshUpdate, FreshCancel,
     FreshDeleteRoom, checkOverlap, Active, Live, IsRow, Updated
<1>3. ASSUME NEW b \in Bookings, BeginCancel(q, b) PROVE Fresh'
  BY <1>3 DEF SInv, IInv, TypeOK, BeginCancel, FreshCreate, FreshUpdate, FreshCancel,
     FreshDeleteRoom, Live, IsRow
<1>4. ASSUME NEW room \in Rooms, BeginDeleteRoom(q, room) PROVE Fresh'
  BY <1>4 DEF SInv, IInv, TypeOK, BeginDeleteRoom, FreshCreate, FreshUpdate, FreshCancel,
     FreshDeleteRoom, Archived, IsRow
<1>. HIDE DEF Fresh
<1>. QED
  BY <1>0, <1>1, <1>2, <1>3, <1>4

\* Writing one row that is inactive, or overlaps no other active one, double-books nothing.
LEMMA WriteKeepsNoDoubleBooking ==
  ASSUME IInv, NoDoubleBooking, NEW b \in Bookings, NEW row \in Row,
         bookings' = [bookings EXCEPT ![b] = row],
         ~row.deleted /\ row.status \in ActiveStatus
           => ~checkOverlap(row.room, row.checkIn, row.checkOut, {b})
  PROVE  NoDoubleBooking'
<1>1. \A a \in Bookings : bookings'[a] = IF a = b THEN row ELSE bookings[a]
  BY DEF IInv, TypeOK
<1>2. \A a \in Bookings : Active(a) => bookings[a].checkIn \in Int /\ bookings[a].checkOut \in Int
  BY RowFields DEF IInv, Active, Live
<1>3. row.checkIn \in Int /\ row.checkOut \in Int
  BY DataAssumption DEF Row
<1>4. \A a \in Bookings \ {b} :
        Active(a) /\ Active(b)' /\ bookings[a].room = row.room
          => row.checkOut =< bookings[a].checkIn \/ bookings[a].checkOut =< row.checkIn
  BY <1>1, <1>2, <1>3 DEF checkOverlap, Active, Live
<1>5. \A a \in Bookings \ {b} : Active(a)' = Active(a)
  BY <1>1 DEF Active, Live, IsRow
<1>. QED
  BY <1>1, <1>4, <1>5 DEF NoDoubleBooking

-----------------------------------------------------------------------------
(* Each commit                                                               *)

LEMMA CommitCreateSerial ==
  ASSUME SInv, NEW q \in Requests, CommitCreate(q)
  PROVE  NoDoubleBooking' /\ DeletedIsCancelled'
<1>. DEFINE c == reqs[q].body
            row == NewRow(c)
<1>1. PICK b \in Bookings : bookings[b] = NoRow /\ bookings' = [bookings EXCEPT ![b] = row]
  BY DEF CommitCreate
<1>2. row \in Row /\ ~row.deleted
  BY BodyTypes DEF SInv, IInv, TypeOK, Request, CommitCreate, NewRow, Row, CreateBody, Status
<1>3. ~checkOverlap(row.room, row.checkIn, row.checkOut, {b})
  BY DEF SInv, PendingFresh, FreshCreate, CommitCreate, NewRow, checkOverlap
<1>. HIDE DEF row
<1>4. NoDoubleBooking'
  BY <1>1, <1>2, <1>3, WriteKeepsNoDoubleBooking DEF SInv
<1>5. DeletedIsCancelled'
  BY <1>1, <1>2 DEF SInv, IInv, TypeOK, DeletedIsCancelled, IsRow
<1>. QED
  BY <1>4, <1>5

\* The update in flight finds its booking as it read it.
LEMMA UpdateIsFresh ==
  ASSUME SInv, NEW q \in Requests, CommitUpdate(q)
  PROVE  LET r   == reqs[q]
             old == bookings[r.id]
             new == Updated(old, r)
         IN  /\ new.status \in {old.status} \cup VALID_TRANSITIONS[old.status]
             /\ new.deleted <=> new.status = "cancelled"
             /\ new.status \in ActiveStatus => Active(r.id)
             /\ ~new.deleted /\ new.status \in ActiveStatus
                  => ~checkOverlap(new.room, new.checkIn, new.checkOut, {r.id})
<1>. DEFINE r   == reqs[q]
            old == bookings[r.id]
            new == Updated(old, r)
<1>1. /\ r.op = "update" /\ r.id \in Bookings /\ IsRow(r.id) /\ old \in Row
      /\ Live(r.id)
      /\ r.body.status \in {Keep, old.status} \cup VALID_TRANSITIONS[old.status]
      /\ r.cancels = (r.body.status = "cancelled" /\ old.status # "cancelled")
      /\ \/ r.body.room = Keep /\ r.body.checkIn = Keep /\ r.body.checkOut = Keep
         \/ ~checkOverlap(new.room, new.checkIn, new.checkOut, {r.id})
  BY CommitUpdateWritesRow DEF SInv, IInv, PendingFresh, FreshUpdate
<1>2. /\ new.status = Supplied(r.body.status, old.status)
      /\ new.deleted = (old.deleted \/ r.cancels)
  BY DEF Updated
<1>3. ~old.deleted /\ old.status # "cancelled" /\ old.status \in Status
  BY <1>1 DEF Live, SInv, IInv, CancelledIsDeleted, Row
<1>4. new.status \in {old.status} \cup VALID_TRANSITIONS[old.status]
  BY <1>1, <1>2 DEF Supplied
<1>5. new.deleted <=> new.status = "cancelled"
  BY <1>1, <1>2, <1>3, MarkerAssumption DEF Supplied, Status
<1>6. new.status \in ActiveStatus => Active(r.id)
  BY <1>1, <1>3, <1>4 DEF Active, ActiveStatus, Status, VALID_TRANSITIONS
<1>7. ASSUME Active(r.id),
             r.body.room = Keep, r.body.checkIn = Keep, r.body.checkOut = Keep
      PROVE  ~checkOverlap(new.room, new.checkIn, new.checkOut, {r.id})
  <2>1. /\ new.room = old.room /\ new.checkIn = old.checkIn /\ new.checkOut = old.checkOut
    BY <1>7 DEF Updated, Supplied
  <2>2. \A a \in Bookings : Active(a) => bookings[a].checkIn \in Int /\ bookings[a].checkOut \in Int
    BY RowFields DEF SInv, IInv, Active, Live
  <2>. HIDE DEF new
  <2>. QED
    BY <1>1, <1>7, <2>1, <2>2 DEF SInv, NoDoubleBooking, checkOverlap
<1>. QED
  BY <1>1, <1>4, <1>5, <1>6, <1>7

LEMMA CommitUpdateSerial ==
  ASSUME SInv, NEW q \in Requests, CommitUpdate(q)
  PROVE  NoDoubleBooking' /\ DeletedIsCancelled'
<1>. DEFINE b == reqs[q].id
            row == Updated(bookings[b], reqs[q])
<1>1. /\ b \in Bookings /\ row \in Row
      /\ bookings' = [bookings EXCEPT ![b] = row]
  BY CommitUpdateWritesRow DEF SInv, IInv
<1>2. /\ row.deleted <=> row.status = "cancelled"
      /\ ~row.deleted /\ row.status \in ActiveStatus
           => ~checkOverlap(row.room, row.checkIn, row.checkOut, {b})
  BY UpdateIsFresh
<1>. HIDE DEF row, b
<1>3. NoDoubleBooking'
  BY <1>1, <1>2, WriteKeepsNoDoubleBooking DEF SInv
<1>4. DeletedIsCancelled'
  BY <1>1, <1>2 DEF SInv, IInv, TypeOK, DeletedIsCancelled, IsRow
<1>. QED
  BY <1>3, <1>4

LEMMA CommitCancelSerial ==
  ASSUME SInv, NEW q \in Requests, CommitCancel(q)
  PROVE  NoDoubleBooking' /\ DeletedIsCancelled'
<1>. DEFINE b == reqs[q].id
            row == Cancelled(bookings[b])
<1>1. /\ b \in Bookings /\ row \in Row /\ bookings[b] \in Row
      /\ bookings' = [bookings EXCEPT ![b] = row]
  BY CommitCancelWritesRow DEF SInv, IInv
<1>2. row.deleted /\ row.status = "cancelled"
  BY <1>1 DEF Cancelled, Row
<1>. HIDE DEF row, b
<1>3. NoDoubleBooking'
  BY <1>1, <1>2, WriteKeepsNoDoubleBooking DEF SInv
<1>4. DeletedIsCancelled'
  BY <1>1, <1>2 DEF SInv, IInv, TypeOK, DeletedIsCancelled, IsRow
<1>. QED
  BY <1>3, <1>4

LEMMA CommitDeleteRoomSerial ==
  ASSUME SInv, NEW q \in Requests, CommitDeleteRoom(q)
  PROVE  NoDoubleBooking' /\ DeletedIsCancelled'
<1>1. \A b \in Bookings : bookings'[b] = bookings[b] \/ bookings'[b] = Purged
  BY DEF SInv, IInv, TypeOK, CommitDeleteRoom
<1>. QED
  BY <1>1 DEF SInv, NoDoubleBooking, DeletedIsCancelled, Active, Live, IsRow

LEMMA NextSInv == Serial /\ SInv /\ [Next]_vars => SInv'
<1>. SUFFICES ASSUME Serial, SInv, [Next]_vars PROVE SInv'
  OBVIOUS
<1>0. IInv'
  BY NextIInv DEF SInv
<1>1. ASSUME NEW q \in Requests,
             \/ \E c \in CreateBodies : BeginCreate(q, c)
             \/ \E b \in Bookings, u \in UpdateBodies : BeginUpdate(q, b, u)
             \/ \E b \in Bookings : BeginCancel(q, b)
             \/ \E room \in Rooms : BeginDeleteRoom(q, room)
      PROVE  SInv'
  <2>1. PendingFresh'
    BY <1>1, BeginFresh
  <2>2. UNCHANGED bookings
    BY <1>1 DEF BeginCreate, BeginUpdate, BeginCancel, BeginDeleteRoom
  <2>. QED
    BY <1>0, <2>1, <2>2, BookingsUnchanged DEF SInv
<1>2. ASSUME NEW q \in Requests,
             CommitCreate(q) \/ CommitUpdate(q) \/ CommitCancel(q) \/ CommitDeleteRoom(q)
      PROVE  SInv'
  <2>1. PendingFresh'
    BY <1>2, IdleIsFresh DEF SInv, CommitCreate, CommitUpdate, CommitCancel, CommitDeleteRoom
  <2>2. NoDoubleBooking' /\ DeletedIsCancelled'
    BY <1>2, CommitCreateSerial, CommitUpdateSerial, CommitCancelSerial, CommitDeleteRoomSerial
  <2>. QED
    BY <1>0, <2>1, <2>2 DEF SInv
<1>3. ASSUME NEW q \in Requests, Rollback(q)
      PROVE  SInv'
  <2>1. PendingFresh'
    BY <1>3, IdleIsFresh DEF SInv, Rollback
  <2>. QED
    BY <1>0, <1>3, <2>1, BookingsUnchanged DEF SInv, Rollback
<1>4. CASE UNCHANGED <<bookings, rooms, reqs>>
  <2>1. PendingFresh'
    BY <1>4 DEF SInv, PendingFresh, FreshCreate, FreshUpdate, FreshCancel, FreshDeleteRoom,
       checkOverlap, Active, Live, IsRow, Archived
  <2>. QED
    BY <1>0, <1>4, <2>1, BookingsUnchanged DEF SInv
<1>. QED
  BY <1>1, <1>2, <1>3, <1>4 DEF Next, vars, deleteGuest

-----------------------------------------------------------------------------
(* Theorems, for one request in flight                                       *)

THEOREM SInvHolds == ASSUME Serial PROVE Spec => []SInv
BY InitSInv, NextSInv, PTL DEF Spec

\* Served one at a time, the handlers book no room twice for the same night.
THEOREM SerialNeverDoubleBooks == ASSUME Serial PROVE Spec => []NoDoubleBooking
BY SInvHolds, PTL DEF SInv

\* Served one at a time, no deleted booking has its status revived.
THEOREM SerialDeletedStaysCancelled == ASSUME Serial PROVE Spec => []DeletedIsCancelled
BY SInvHolds, PTL DEF SInv

\* Served one at a time, statuses move only along VALID_TRANSITIONS.
THEOREM SerialStatusFollowsMachine == ASSUME Serial PROVE Spec => StatusFollowsMachine
<1>1. ASSUME SInv, [Next]_vars, NEW b \in Bookings, IsRow(b), IsRow(b)'
      PROVE  bookings'[b].status \in {bookings[b].status}
                                        \cup VALID_TRANSITIONS[bookings[b].status]
  <2>1. CASE \E q \in Requests : CommitCreate(q)
    BY <1>1, <2>1 DEF CommitCreate, SInv, IInv, TypeOK, IsRow
  <2>2. CASE \E q \in Requests : CommitUpdate(q)
    BY <1>1, <2>2, UpdateIsFresh, CommitUpdateWritesRow DEF SInv, IInv, TypeOK
  <2>3. CASE \E q \in Requests : CommitCancel(q)
    <3>1. PICK q \in Requests : CommitCancel(q)
      BY <2>3
    <3>2. "cancelled" \in VALID_TRANSITIONS[bookings[reqs[q].id].status]
      BY <1>1, <3>1 DEF SInv, PendingFresh, FreshCancel, CommitCancel
    <3>3. bookings' = [bookings EXCEPT ![reqs[q].id] = Cancelled(bookings[reqs[q].id])]
      BY <1>1, <3>1, CommitCancelWritesRow DEF SInv, IInv
    <3>4. Cancelled(bookings[reqs[q].id]).status = "cancelled"
      BY <1>1, <3>1, CommitCancelWritesRow DEF SInv, IInv, Cancelled, Row
    <3>. QED
      BY <1>1, <3>2, <3>3, <3>4 DEF SInv, IInv, TypeOK
  <2>4. CASE \E q \in Requests : CommitDeleteRoom(q)
    BY <1>1, <2>4 DEF CommitDeleteRoom, SInv, IInv, TypeOK, IsRow
  <2>5. CASE UNCHANGED bookings
    BY <2>5
  <2>. QED
    BY <1>1, <2>1, <2>2, <2>3, <2>4, <2>5
       DEF Next, vars, BeginCreate, BeginUpdate, BeginCancel, BeginDeleteRoom,
           Rollback, deleteGuest
<1>2. SInv /\ [Next]_vars =>
        [\A b \in Bookings :
           (IsRow(b) /\ IsRow(b)') =>
             bookings'[b].status \in {bookings[b].status}
                                       \cup VALID_TRANSITIONS[bookings[b].status]]_vars
  BY <1>1
<1>. QED
  BY <1>2, SInvHolds, PTL DEF Spec, StatusFollowsMachine

-----------------------------------------------------------------------------
(* Refinement                                                                *)

\* A stay as the calendar sees it, of a booking that is a row.
StayOfRow(row) ==
  IF ~row.deleted /\ row.status \in ActiveStatus
    THEN [room |-> row.room, checkIn |-> row.checkIn, checkOut |-> row.checkOut]
    ELSE Purged

LEMMA StaysPointwise ==
  ASSUME TypeOK, NEW b \in Bookings
  PROVE  /\ bookings[b] = NoRow => staysBar[b] = NoRow
         /\ bookings[b] = Purged => staysBar[b] = Purged
         /\ IsRow(b) => staysBar[b] = StayOfRow(bookings[b])
         /\ Active(b) => staysBar[b] \notin {NoRow, Purged}
BY MarkerAssumption, StayAssumption
   DEF staysBar, StayOfRow, StayOf, Active, Live, IsRow, TypeOK, Row

\* Writing one row changes one stay of the calendar.
LEMMA WriteStay ==
  ASSUME TypeOK, NEW b \in Bookings, NEW row \in Row,
         bookings' = [bookings EXCEPT ![b] = row]
  PROVE  staysBar' = [staysBar EXCEPT ![b] = StayOfRow(row)]
<1>1. \A a \in Bookings : bookings'[a] = IF a = b THEN row ELSE bookings[a]
  BY DEF TypeOK
<1>2. row # NoRow /\ row # Purged
  BY MarkerAssumption
<1>3. staysBar'[b] = StayOfRow(row)
  BY <1>1, <1>2 DEF staysBar, StayOfRow, StayOf, Active, Live, IsRow
<1>4. \A a \in Bookings \ {b} : staysBar'[a] = staysBar[a]
  BY <1>1 DEF staysBar, StayOf, Active, Live, IsRow
<1>5. staysBar' = [a \in Bookings |-> staysBar'[a]]
  BY DEF staysBar
<1>6. staysBar = [a \in Bookings |-> staysBar[a]]
  BY DEF staysBar
<1>. QED
  BY <1>3, <1>4, <1>5, <1>6

\* A stay that overlaps no other active booking is free in the calendar.
LEMMA FreeStay ==
  ASSUME TypeOK, NEW b \in Bookings, NEW s \in Calendar!Stay,
         ~checkOverlap(s.room, s.checkIn, s.checkOut, {b})
  PROVE  Calendar!Free(b, s)
<1>. SUFFICES ASSUME NEW a \in Bookings \ {b}, staysBar[a] \notin {NoRow, Purged}
              PROVE  \/ staysBar[a].room # s.room
                     \/ staysBar[a].checkOut =< s.checkIn
                     \/ s.checkOut =< staysBar[a].checkIn
  BY DEF Calendar!Free
<1>1. Active(a) /\ staysBar[a] = StayOf(a)
  BY DEF staysBar
<1>2. /\ bookings[a].checkIn \in Int /\ bookings[a].checkOut \in Int
      /\ s.checkIn \in Int /\ s.checkOut \in Int
  BY <1>1, RowFields, DataAssumption DEF Active, Live, Calendar!Stay
<1>. QED
  BY <1>1, <1>2 DEF StayOf, checkOverlap

LEMMA InitCalendar == Init => Calendar!Init
BY DEF Init, Calendar!Init, staysBar

LEMMA StutterCalendar == UNCHANGED bookings => UNCHANGED staysBar
BY DEF staysBar, StayOf, Active, Live, IsRow

LEMMA CreateReserves ==
  ASSUME SInv, NEW q \in Requests, CommitCreate(q)
  PROVE  Calendar!Next
<1>. DEFINE row == NewRow(reqs[q].body)
            s == StayOfRow(row)
<1>1. PICK b \in Bookings : bookings[b] = NoRow /\ bookings' = [bookings EXCEPT ![b] = row]
  BY DEF CommitCreate
<1>2. /\ reqs[q].body \in CreateBody
      /\ reqs[q].body.checkOut > reqs[q].body.checkIn
  BY BodyTypes DEF SInv, IInv, TypeOK, Request, CommitCreate, PendingSound
<1>3. /\ row \in Row
      /\ s = [room |-> row.room, checkIn |-> row.checkIn, checkOut |-> row.checkOut]
      /\ s \in Calendar!Stay
      /\ s.checkIn < s.checkOut
  BY <1>2, DataAssumption
     DEF NewRow, Row, CreateBody, Status, ActiveStatus, StayOfRow, Calendar!Stay
<1>4. ~checkOverlap(s.room, s.checkIn, s.checkOut, {b})
  <2>1. ~checkOverlap(row.room, row.checkIn, row.checkOut, {b})
    BY DEF SInv, PendingFresh, FreshCreate, CommitCreate, NewRow, checkOverlap
  <2>. QED
    BY <2>1, <1>3
<1>. HIDE DEF row, s
<1>5. Calendar!Free(b, s)
  BY <1>3, <1>4, FreeStay DEF SInv, IInv
<1>6. staysBar[b] = NoRow /\ staysBar' = [staysBar EXCEPT ![b] = StayOfRow(row)]
  BY <1>1, <1>3, StaysPointwise, WriteStay DEF SInv, IInv
<1>7. Calendar!Reserve(b, s)
  BY <1>3, <1>5, <1>6 DEF Calendar!Reserve, s
<1>. QED
  BY <1>3, <1>7 DEF Calendar!Next

\* An update moves the stay of an active booking, ends it, or changes no stay.
LEMMA UpdateMoves ==
  ASSUME SInv, NEW q \in Requests, CommitUpdate(q)
  PROVE  Calendar!Next \/ UNCHANGED staysBar
<1>. DEFINE b == reqs[q].id
            row == Updated(bookings[b], reqs[q])
            s == StayOfRow(row)
<1>1. /\ b \in Bookings /\ row \in Row /\ IsRow(b) /\ bookings[b] \in Row
      /\ bookings' = [bookings EXCEPT ![b] = row]
      /\ row.checkOut > row.checkIn
  BY CommitUpdateWritesRow DEF SInv, IInv, CommitUpdate
<1>2. /\ row.deleted <=> row.status = "cancelled"
      /\ row.status \in ActiveStatus => Active(b)
      /\ ~row.deleted /\ row.status \in ActiveStatus
           => ~checkOverlap(row.room, row.checkIn, row.checkOut, {b})
  BY UpdateIsFresh
<1>. HIDE DEF row, b, s
<1>3. /\ staysBar' = [staysBar EXCEPT ![b] = StayOfRow(row)]
      /\ Active(b) => staysBar[b] \notin {NoRow, Purged}
      /\ staysBar[b] = StayOfRow(bookings[b])
  BY <1>1, StaysPointwise, WriteStay DEF SInv, IInv
<1>4. CASE row.status \in ActiveStatus
  <2>1. row.status # "cancelled"
    BY <1>4 DEF ActiveStatus
  <2>2. s = [room |-> row.room, checkIn |-> row.checkIn, checkOut |-> row.checkOut]
    BY <1>2, <1>4, <2>1 DEF StayOfRow, s
  <2>3. s \in Calendar!Stay /\ s.checkIn < s.checkOut
    BY <1>1, <2>2, DataAssumption DEF Row, Calendar!Stay
  <2>4. Calendar!Free(b, s)
    BY <1>1, <1>2, <1>4, <2>1, <2>2, <2>3, FreeStay DEF SInv, IInv
  <2>5. Calendar!Move(b, s)
    BY <1>2, <1>3, <1>4, <2>3, <2>4 DEF Calendar!Move, s
  <2>. QED
    BY <1>1, <2>3, <2>5 DEF Calendar!Next
<1>5. CASE row.status \notin ActiveStatus /\ Active(b)
  <2>1. StayOfRow(row) = Purged
    BY <1>5 DEF StayOfRow
  <2>2. Calendar!Release(b)
    BY <1>3, <1>5, <2>1 DEF Calendar!Release
  <2>. QED
    BY <1>1, <2>2 DEF Calendar!Next
<1>6. CASE row.status \notin ActiveStatus /\ ~Active(b)
  <2>1. StayOfRow(row) = Purged /\ staysBar[b] = Purged
    BY <1>1, <1>3, <1>6 DEF StayOfRow, Active, Live
  <2>2. staysBar = [a \in Bookings |-> staysBar[a]]
    BY DEF staysBar
  <2>. QED
    BY <1>1, <1>3, <2>1, <2>2
<1>. QED
  BY <1>4, <1>5, <1>6

LEMMA CancelReleases ==
  ASSUME SInv, NEW q \in Requests, CommitCancel(q)
  PROVE  Calendar!Next
<1>. DEFINE b == reqs[q].id
            row == Cancelled(bookings[b])
<1>1. /\ b \in Bookings /\ row \in Row /\ bookings[b] \in Row
      /\ bookings' = [bookings EXCEPT ![b] = row]
  BY CommitCancelWritesRow DEF SInv, IInv
<1>2. Live(b) /\ "cancelled" \in VALID_TRANSITIONS[bookings[b].status]
  BY DEF SInv, PendingFresh, FreshCancel, CommitCancel
<1>3. Active(b)
  BY <1>1, <1>2 DEF Active, ActiveStatus, VALID_TRANSITIONS, Row, Status
<1>4. row.deleted
  BY <1>1 DEF Cancelled, Row
<1>. HIDE DEF row, b
<1>5. /\ staysBar' = [staysBar EXCEPT ![b] = Purged]
      /\ staysBar[b] \notin {NoRow, Purged}
  BY <1>1, <1>3, <1>4, StaysPointwise, WriteStay DEF SInv, IInv, StayOfRow
<1>. QED
  BY <1>1, <1>5 DEF Calendar!Next, Calendar!Release

\* What deleteRoom purges has ended its stay before.
LEMMA DeleteRoomStutters ==
  ASSUME SInv, NEW q \in Requests, CommitDeleteRoom(q)
  PROVE  UNCHANGED staysBar
<1>. DEFINE r == reqs[q]
<1>1. \A b \in r.archived : bookings[b] # NoRow /\ ~Active(b)
  BY DEF SInv, IInv, PendingSound, CommitDeleteRoom, Active, Live
<1>2. \A b \in Bookings :
        \/ bookings'[b] = bookings[b]
        \/ IsRow(b) /\ ~Active(b) /\ bookings'[b] = Purged
  BY <1>1 DEF CommitDeleteRoom
<1>3. \A b \in Bookings : staysBar'[b] = staysBar[b]
  BY <1>2, MarkerAssumption DEF staysBar, StayOf, Active, Live, IsRow
<1>. QED
  BY <1>3 DEF staysBar

\* Served one at a time, the handlers implement the atomic room calendar.
THEOREM SerialImplementsCalendar == ASSUME Serial PROVE Spec => ImplementsCalendar
<1>1. ASSUME SInv, [Next]_vars
      PROVE  Calendar!Next \/ UNCHANGED staysBar
  <2>1. CASE \E q \in Requests : CommitCreate(q)
    BY <1>1, <2>1, CreateReserves
  <2>2. CASE \E q \in Requests : CommitUpdate(q)
    BY <1>1, <2>2, UpdateMoves
  <2>3. CASE \E q \in Requests : CommitCancel(q)
    BY <1>1, <2>3, CancelReleases
  <2>4. CASE \E q \in Requests : CommitDeleteRoom(q)
    BY <1>1, <2>4, DeleteRoomStutters
  <2>5. CASE UNCHANGED bookings
    BY <2>5, StutterCalendar
  <2>. QED
    BY <1>1, <2>1, <2>2, <2>3, <2>4, <2>5
       DEF Next, vars, BeginCreate, BeginUpdate, BeginCancel, BeginDeleteRoom,
           Rollback, deleteGuest
<1>2. SInv /\ [Next]_vars => [Calendar!Next]_staysBar
  BY <1>1
<1>. QED
  BY <1>2, InitCalendar, SInvHolds, PTL DEF Spec, ImplementsCalendar, Calendar!Spec

-----------------------------------------------------------------------------
(* The two places that name a booking's guests                               *)

\* The update in flight removes and adds what makes the row's guests those of
\* its body, and the legacy guest of the body is one of them.
FreshGuests(q) ==
  reqs[q].op = "update" =>
    LET r   == reqs[q]
        old == bookings[r.id]
    IN  IF r.body.guest = Keep THEN r.remove = {}
        ELSE r.body.guest \in (old.guests \ r.remove) \cup r.add

GuestsInv == PrimaryGuestInJunction /\ \A q \in Requests : FreshGuests(q)

LEMMA InitGuests == ASSUME Init PROVE GuestsInv
BY DEF Init, GuestsInv, PrimaryGuestInJunction, FreshGuests, IsRow, Idle

\* Once its request is idle only the rows matter.
LEMMA IdleGuests ==
  ASSUME Serial, IInv, NEW q \in Requests, reqs' = [reqs EXCEPT ![q] = Idle],
         PrimaryGuestInJunction'
  PROVE  GuestsInv'
BY DEF Serial, IInv, TypeOK, GuestsInv, FreshGuests, Idle

LEMMA BeginGuests ==
  ASSUME Serial, IInv, GuestsInv, UNCHANGED bookings, NEW q \in Requests,
         \/ \E c \in CreateBodies : BeginCreate(q, c)
         \/ \E b \in Bookings, u \in UpdateBodies : BeginUpdate(q, b, u)
         \/ \E b \in Bookings : BeginCancel(q, b)
         \/ \E room \in Rooms : BeginDeleteRoom(q, room)
  PROVE  GuestsInv'
<1>1. PrimaryGuestInJunction'
  BY DEF GuestsInv, PrimaryGuestInJunction, IsRow
<1>2. FreshGuests(q)'
  <2>1. ASSUME NEW b \in Bookings, NEW u \in UpdateBodies, BeginUpdate(q, b, u)
        PROVE  FreshGuests(q)'
    <3>1. u.guest # Keep => u.guest \in u.guests
      BY DataAssumption
    <3>2. /\ reqs'[q].body = u /\ reqs'[q].id = b
          /\ reqs'[q].remove = IF u.guest = Keep THEN {} ELSE bookings[b].guests \ u.guests
          /\ reqs'[q].add = u.guests \ bookings[b].guests
      BY <2>1 DEF BeginUpdate, IInv, TypeOK
    <3> QED BY <3>1, <3>2 DEF FreshGuests
  <2>2. CASE \/ \E c \in CreateBodies : BeginCreate(q, c)
             \/ \E b \in Bookings : BeginCancel(q, b)
             \/ \E room \in Rooms : BeginDeleteRoom(q, room)
    BY <2>2 DEF BeginCreate, BeginCancel, BeginDeleteRoom, FreshGuests, IInv, TypeOK
  <2> QED BY <2>1, <2>2
<1> QED BY <1>1, <1>2 DEF Serial, GuestsInv

\* Writing one row whose legacy guest is one of its guests.
LEMMA WriteKeepsGuests ==
  ASSUME IInv, GuestsInv, NEW b \in Bookings, NEW row,
         bookings' = [bookings EXCEPT ![b] = row], row.guest \in row.guests
  PROVE  PrimaryGuestInJunction'
BY DEF IInv, TypeOK, GuestsInv, PrimaryGuestInJunction, IsRow

LEMMA CommitGuests ==
  ASSUME IInv, GuestsInv, NEW q \in Requests,
         CommitCreate(q) \/ CommitUpdate(q) \/ CommitCancel(q) \/ CommitDeleteRoom(q)
  PROVE  PrimaryGuestInJunction'
<1>1. CASE CommitCreate(q)
  <2>1. reqs[q].body \in CreateBodies
    BY <1>1 DEF CommitCreate, IInv, TypeOK, Request
  <2>2. NewRow(reqs[q].body).guest \in NewRow(reqs[q].body).guests
    BY <2>1, DataAssumption DEF NewRow
  <2> QED BY <1>1, <2>2, WriteKeepsGuests DEF CommitCreate
<1>2. CASE CommitUpdate(q)
  <2>1. /\ reqs[q].id \in Bookings /\ reqs[q].op = "update" /\ IsRow(reqs[q].id)
        /\ bookings' = [bookings EXCEPT ![reqs[q].id] = Updated(bookings[reqs[q].id], reqs[q])]
    BY <1>2, CommitUpdateWritesRow DEF IInv
  <2>2. bookings[reqs[q].id].guest \in bookings[reqs[q].id].guests
    BY <2>1 DEF GuestsInv, PrimaryGuestInJunction
  <2>3. Updated(bookings[reqs[q].id], reqs[q]).guest
          \in Updated(bookings[reqs[q].id], reqs[q]).guests
    BY <2>1, <2>2 DEF GuestsInv, FreshGuests, Updated, Supplied
  <2> QED BY <2>1, <2>3, WriteKeepsGuests
<1>3. CASE CommitCancel(q)
  <2>1. /\ reqs[q].id \in Bookings /\ IsRow(reqs[q].id) /\ bookings[reqs[q].id] \in Row
        /\ bookings' = [bookings EXCEPT ![reqs[q].id] = Cancelled(bookings[reqs[q].id])]
    BY <1>3, CommitCancelWritesRow DEF IInv
  <2>2. /\ Cancelled(bookings[reqs[q].id]).guest = bookings[reqs[q].id].guest
        /\ Cancelled(bookings[reqs[q].id]).guests = bookings[reqs[q].id].guests
    BY <2>1 DEF Cancelled, Row
  <2> QED BY <2>1, <2>2, WriteKeepsGuests DEF GuestsInv, PrimaryGuestInJunction
<1>4. CASE CommitDeleteRoom(q)
  BY <1>4 DEF CommitDeleteRoom, GuestsInv, PrimaryGuestInJunction, IsRow
<1> QED BY <1>1, <1>2, <1>3, <1>4

\* The legacy guest of a booking is one of its guests in the junction table,
\* whatever single request changed them (booking.service.ts:267-297).
THEOREM SerialPrimaryGuest == ASSUME Serial PROVE Spec => []PrimaryGuestInJunction
<1>1. Init => GuestsInv
  BY InitGuests
<1>2. ASSUME IInv, GuestsInv, [Next]_vars PROVE GuestsInv'
  <2>1. ASSUME NEW q \in Requests,
               CommitCreate(q) \/ CommitUpdate(q) \/ CommitCancel(q) \/ CommitDeleteRoom(q)
        PROVE  GuestsInv'
    <3>1. reqs' = [reqs EXCEPT ![q] = Idle]
      BY <2>1 DEF CommitCreate, CommitUpdate, CommitCancel, CommitDeleteRoom
    <3> QED BY <1>2, <2>1, <3>1, CommitGuests, IdleGuests
  <2>2. ASSUME NEW q \in Requests, Rollback(q) PROVE GuestsInv'
    BY <1>2, <2>2, IdleGuests DEF Rollback, GuestsInv, PrimaryGuestInJunction, IsRow
  <2>3. ASSUME NEW q \in Requests,
               \/ \E c \in CreateBodies : BeginCreate(q, c)
               \/ \E b \in Bookings, u \in UpdateBodies : BeginUpdate(q, b, u)
               \/ \E b \in Bookings : BeginCancel(q, b)
               \/ \E room \in Rooms : BeginDeleteRoom(q, room)
        PROVE  GuestsInv'
    <3>1. UNCHANGED bookings
      BY <2>3 DEF BeginCreate, BeginUpdate, BeginCancel, BeginDeleteRoom
    <3> QED BY <1>2, <2>3, <3>1, BeginGuests
  <2>4. CASE (\E g \in Guests : deleteGuest(g)) \/ UNCHANGED vars
    <3>1. UNCHANGED <<bookings, reqs>>
      BY <2>4 DEF deleteGuest, vars
    <3> QED BY <1>2, <3>1 DEF GuestsInv, PrimaryGuestInJunction, FreshGuests, IsRow
  <2> QED BY <1>2, <2>1, <2>2, <2>3, <2>4 DEF Next
<1>3. IInv /\ GuestsInv /\ [Next]_vars => GuestsInv'
  BY <1>2
<1>4. GuestsInv => PrimaryGuestInJunction
  BY DEF GuestsInv
<1> QED BY <1>1, <1>3, <1>4, IInvHolds, PTL DEF Spec

-----------------------------------------------------------------------------
(* Bookings made from a conversation: the rows and the transaction           *)

LEMMA WizardIs ==
  ASSUME WizardTypeOK, NEW q \in Requests
  PROVE  /\ wizards[q] \in Wizard \cup {AtRest}
         /\ AtRest.step = "idle"
         /\ ~InStep(q, "idle") =>
              /\ wizards[q] \in Wizard
              /\ wizards[q].conv \in Conversations /\ wizards[q].form \in Forms
              /\ wizards[q].step \in {"resolve", "create", "link", "book", "source"}
<1>1. wizards[q] \in Wizard \cup {AtRest} /\ AtRest.step = "idle"
  BY DEF WizardTypeOK, AtRest
<1>2. ~InStep(q, "idle") => wizards[q] \in Wizard BY <1>1 DEF InStep
<1> QED BY <1>1, <1>2 DEF Wizard

LEMMA StepSet ==
  ASSUME NEW w \in Wizard, NEW s \in {"create", "book"}, NEW n, n = [w EXCEPT !.step = s]
  PROVE  /\ n \in Wizard /\ n.step = s /\ n.conv = w.conv /\ n.form = w.form
         /\ n.was = w.was /\ n.guest = w.guest
BY DEF Wizard

LEMMA BodyOfForm ==
  ASSUME WizardTypeOK, NEW q \in Requests, ~InStep(q, "idle"), wizards[q].guest \in Guests
  PROVE  StayBody(wizards[q].form.stay, wizards[q].guest) \in CreateBodies
BY WizardIs, WizardAssumption

\* Guests that are created, and requests that begin or end, keep the bookings' invariant.
LEMMA RestKeepsSInv ==
  ASSUME Serial, SInv, NEW q \in Requests, UNCHANGED <<bookings, rooms>>,
         reqs' = reqs \/ reqs' = [reqs EXCEPT ![q] = Idle], liveGuests' \subseteq Guests
  PROVE  SInv'
<1>1. TypeOK' BY DEF SInv, IInv, TypeOK, Request, Idle
<1>2. DatesOrdered' /\ CancelledIsDeleted'
  BY DEF SInv, IInv, DatesOrdered, CancelledIsDeleted, IsRow
<1>3. PendingSound' BY DEF SInv, IInv, PendingSound, TypeOK, IsRow, Idle
<1>4. NoDoubleBooking' /\ DeletedIsCancelled' BY BookingsUnchanged DEF SInv
<1>5. PendingFresh'
  <2>1. CASE reqs' = reqs
    BY <2>1 DEF SInv, PendingFresh, FreshCreate, FreshUpdate, FreshCancel, FreshDeleteRoom,
       checkOverlap, Active, Live, IsRow, Archived
  <2>2. CASE reqs' = [reqs EXCEPT ![q] = Idle] BY <2>2, IdleIsFresh DEF SInv
  <2> QED BY <2>1, <2>2
<1> QED BY <1>1, <1>2, <1>3, <1>4, <1>5 DEF SInv, IInv

\* One request at a time: what is said of the others is said of it.
LEMMA OnlyOne ==
  ASSUME Serial, NEW q \in Requests, NEW w, WizardTypeOK, To(q, w)
  PROVE  /\ wizards'[q] = w /\ \A p \in Requests : p = q
         /\ w \in Wizard \cup {AtRest} => wizards' \in [Requests -> Wizard \cup {AtRest}]
BY DEF Serial, To, WizardTypeOK

LEMMA KnownStays ==
  ASSUME UNCHANGED <<liveGuests, email>>, NEW address
  PROVE  Known(address)' = Known(address)
BY DEF Known

\* What says nothing of a request in flight.
LEMMA SourcesStay ==
  ASSUME SourcesSound, UNCHANGED <<bookings, linked, source>>, broken => broken',
         \A q \in Requests : wizards[q].step \in {"book", "source"} =>
           \/ broken'
           \/ wizards'[q].step \in {"book", "source"} /\ wizards'[q].conv = wizards[q].conv
  PROVE  SourcesSound'
BY DEF SourcesSound, IsRow

-----------------------------------------------------------------------------
(* Bookings made from a conversation: every step                             *)

LEMMA WizardStarts == WizardInit => SInv /\ WizardInv
<1> SUFFICES ASSUME WizardInit PROVE SInv /\ WizardInv OBVIOUS
<1> USE DEF WizardInit
<1>1. SInv
  BY DEF SInv, IInv, TypeOK, DatesOrdered, CancelledIsDeleted, PendingSound, IsRow, Request, Idle,
     NoDoubleBooking, DeletedIsCancelled, PendingFresh, FreshCreate, FreshUpdate, FreshCancel,
     FreshDeleteRoom, Active, Live
<1>2. WizardTypeOK BY DEF WizardTypeOK, Addresses
<1>3. TransactionIsBook BY DEF TransactionIsBook
<1>4. Remembered BY DEF Remembered, AtRest
<1>5. OneGuestPerAddress BY DEF OneGuestPerAddress
<1>6. SourcesSound BY DEF SourcesSound
<1> QED BY <1>1, <1>2, <1>3, <1>4, <1>5, <1>6 DEF WizardInv

LEMMA BeginKeeps ==
  ASSUME Serial, SInv, WizardInv, NEW q \in Requests, NEW c \in Conversations, NEW f \in Forms,
         Begin(q, c, f)
  PROVE  SInv' /\ WizardInv'
<1> USE DEF WizardInv
<1> DEFINE w == [step |-> "resolve", conv |-> c, form |-> f, was |-> linked[c],
                 guest |-> Nothing, booking |-> Nothing]
<1>1. /\ InStep(q, "idle") /\ To(q, w)
      /\ UNCHANGED <<bookings, rooms, liveGuests, reqs, email, linked, source, broken>>
  BY DEF Begin
<1>2. w \in Wizard /\ w.step = "resolve" /\ w.was = linked[c] /\ w.conv = c
  BY DEF Wizard, WizardTypeOK
<1> HIDE DEF w
<1>3. wizards'[q] = w /\ (\A p \in Requests : p = q)
      /\ wizards' \in [Requests -> Wizard \cup {AtRest}]
  BY <1>1, <1>2, OnlyOne
<1>4. SInv' BY <1>1, RestKeepsSInv DEF SInv, IInv, TypeOK
<1>5. WizardTypeOK' BY <1>1, <1>3 DEF WizardTypeOK
<1>6. TransactionIsBook' BY <1>1, <1>3 DEF TransactionIsBook, InStep
<1>7. Remembered' BY <1>1, <1>2, <1>3 DEF Remembered
<1>8. OneGuestPerAddress' BY <1>1 DEF OneGuestPerAddress
<1>9. SourcesSound' BY <1>1, <1>3, SourcesStay DEF InStep
<1> QED BY <1>4, <1>5, <1>6, <1>7, <1>8, <1>9

LEMMA ResolveKeeps ==
  ASSUME Serial, SInv, WizardInv, NEW q \in Requests, Resolve(q)
  PROVE  SInv' /\ WizardInv'
<1> USE DEF WizardInv
<1>1. /\ InStep(q, "resolve")
      /\ UNCHANGED <<bookings, rooms, liveGuests, reqs, email, linked, source, broken>>
  BY DEF Resolve
<1>2. wizards[q] \in Wizard BY <1>1, WizardIs DEF InStep
<1>3. ASSUME NEW n \in Wizard, To(q, n), n.step \in {"link", "create"},
             n.step = "link" => n.guest \in liveGuests,
             n.step = "create" => n.form.mode = "create" /\ Known(Given(n)) = {},
             n.was = wizards[q].was, n.conv = wizards[q].conv
      PROVE  SInv' /\ WizardInv'
  <2>1. wizards'[q] = n /\ (\A p \in Requests : p = q)
        /\ wizards' \in [Requests -> Wizard \cup {AtRest}]
    BY <1>3, OnlyOne
  <2>2. SInv' BY <1>1, RestKeepsSInv DEF SInv, IInv, TypeOK
  <2>3. WizardTypeOK' BY <1>1, <2>1 DEF WizardTypeOK
  <2>4. TransactionIsBook' BY <1>1, <2>1 DEF TransactionIsBook, InStep
  <2>5. n.was = linked[n.conv] BY <1>1, <1>3 DEF Remembered, InStep
  <2>6. Remembered'
    <3>1. Known(Given(n))' = Known(Given(n)) BY <1>1 DEF Known, Given
    <3> QED BY <1>1, <1>3, <2>1, <2>5, <3>1 DEF Remembered
  <2>7. OneGuestPerAddress' BY <1>1 DEF OneGuestPerAddress
  <2>8. SourcesSound' BY <1>1, <2>1, SourcesStay DEF InStep
  <2> QED BY <2>2, <2>3, <2>4, <2>6, <2>7, <2>8
<1>4. ASSUME NEW g \in Candidates(wizards[q]),
             To(q, [wizards[q] EXCEPT !.step = "link", !.guest = g])
      PROVE  SInv' /\ WizardInv'
  <2>1. wizards[q].form.mode \in {"linked", "existing", "create"}
    BY <1>1, WizardIs, WizardAssumption DEF InStep
  <2>2. g \in liveGuests BY <1>4, <2>1 DEF Candidates, Known
  <2>3. g \in Guests BY <2>2 DEF SInv, IInv, TypeOK
  <2>4. PICK n : n = [wizards[q] EXCEPT !.step = "link", !.guest = g] OBVIOUS
  <2>5. /\ n \in Wizard /\ n.step = "link" /\ n.conv = wizards[q].conv
        /\ n.was = wizards[q].was /\ n.guest = g
    <3>1. PICK w \in Wizard : w = wizards[q] BY <1>2
    <3>2. n = [w EXCEPT !.step = "link", !.guest = g] BY <2>4, <3>1
    <3> QED BY <2>3, <3>1, <3>2 DEF Wizard
  <2> QED BY <1>3, <1>4, <2>2, <2>4, <2>5
<1>5. ASSUME wizards[q].form.mode = "create", Candidates(wizards[q]) = {},
             To(q, [wizards[q] EXCEPT !.step = "create"])
      PROVE  SInv' /\ WizardInv'
  <2>1. PICK n : n = [wizards[q] EXCEPT !.step = "create"] OBVIOUS
  <2>2. /\ n \in Wizard /\ n.step = "create" /\ n.conv = wizards[q].conv
        /\ n.was = wizards[q].was /\ n.form = wizards[q].form
    BY <1>2, <2>1, StepSet
  <2>3. Given(n) = Given(wizards[q]) BY <2>2 DEF Given
  <2>4. Known(Given(n)) = {} BY <1>5, <2>3 DEF Candidates
  <2> QED BY <1>3, <1>5, <2>1, <2>2, <2>4
<1> QED BY <1>4, <1>5 DEF Resolve

LEMMA CreateGuestKeeps ==
  ASSUME Serial, SInv, WizardInv, NEW q \in Requests, CreateGuest(q)
  PROVE  SInv' /\ WizardInv'
<1> USE DEF WizardInv
<1>1. PICK g \in Guests \ liveGuests :
        /\ InStep(q, "create") /\ liveGuests' = liveGuests \cup {g}
        /\ email' = [email EXCEPT ![g] = Given(wizards[q])]
        /\ To(q, [wizards[q] EXCEPT !.step = "link", !.guest = g])
        /\ UNCHANGED <<bookings, rooms, reqs, linked, source, broken>>
  BY DEF CreateGuest
<1>2. PICK n : n = [wizards[q] EXCEPT !.step = "link", !.guest = g] OBVIOUS
<1>3. /\ wizards[q] \in Wizard /\ wizards[q].form \in Forms /\ wizards[q].conv \in Conversations
      /\ n \in Wizard /\ n.step = "link" /\ n.conv = wizards[q].conv
      /\ n.was = wizards[q].was /\ n.guest = g
  <2>1. /\ wizards[q] \in Wizard /\ wizards[q].form \in Forms
        /\ wizards[q].conv \in Conversations
    BY <1>1, WizardIs DEF InStep
  <2>2. PICK w \in Wizard : w = wizards[q] BY <2>1
  <2>3. n = [w EXCEPT !.step = "link", !.guest = g] BY <1>2, <2>2
  <2> QED BY <2>1, <2>2, <2>3 DEF Wizard
<1>4. wizards'[q] = n /\ (\A p \in Requests : p = q)
      /\ wizards' \in [Requests -> Wizard \cup {AtRest}]
  BY <1>1, <1>2, <1>3, OnlyOne
<1>5. PICK address : address = Given(wizards[q]) OBVIOUS
<1>6. address \in Addresses BY <1>3, <1>5 DEF Given, Addresses
<1>7. /\ email' \in [Guests -> Addresses] /\ email'[g] = address
      /\ \A h \in Guests : h # g => email'[h] = email[h]
  BY <1>1, <1>5, <1>6 DEF WizardTypeOK
<1>8. liveGuests \subseteq Guests BY DEF SInv, IInv, TypeOK
<1>9. SInv' BY <1>1, <1>8, RestKeepsSInv
<1>10. WizardTypeOK' BY <1>1, <1>4, <1>7 DEF WizardTypeOK
<1>11. TransactionIsBook' BY <1>1, <1>4 DEF TransactionIsBook, InStep
<1>12. Remembered'
  <2>1. n.was = linked[n.conv] BY <1>1, <1>3 DEF Remembered, InStep
  <2> QED BY <1>1, <1>3, <1>4, <2>1 DEF Remembered
<1>13. OneGuestPerAddress'
  <2>1. \A h \in liveGuests : address # Nothing => email[h] # address
    <3>1. Known(address) = {} BY <1>1, <1>5 DEF Remembered, InStep
    <3> QED BY <3>1 DEF Known
  <2> QED BY <1>1, <1>7, <1>8, <2>1 DEF OneGuestPerAddress
<1>14. SourcesSound' BY <1>1, <1>4, SourcesStay DEF InStep
<1> QED BY <1>9, <1>10, <1>11, <1>12, <1>13, <1>14

\* The conversation is the only one the request links.
LEMMA LinkKeeps ==
  ASSUME Serial, SInv, WizardInv, NEW q \in Requests, Link(q)
  PROVE  SInv' /\ WizardInv'
<1> USE DEF WizardInv
<1>1. /\ InStep(q, "link") /\ To(q, [wizards[q] EXCEPT !.step = "book"])
      /\ linked' = IF wizards[q].was = wizards[q].guest THEN linked
                   ELSE [linked EXCEPT ![wizards[q].conv] = wizards[q].guest]
      /\ UNCHANGED <<bookings, rooms, liveGuests, reqs, email, source, broken>>
  BY DEF Link
<1>2. PICK n : n = [wizards[q] EXCEPT !.step = "book"] OBVIOUS
<1>3. /\ wizards[q] \in Wizard /\ wizards[q].conv \in Conversations
      /\ n \in Wizard /\ n.step = "book" /\ n.conv = wizards[q].conv
      /\ n.guest = wizards[q].guest
  <2>1. wizards[q] \in Wizard /\ wizards[q].conv \in Conversations
    BY <1>1, WizardIs DEF InStep
  <2> QED BY <1>2, <2>1, StepSet
<1>4. wizards'[q] = n /\ (\A p \in Requests : p = q)
      /\ wizards' \in [Requests -> Wizard \cup {AtRest}]
  BY <1>1, <1>2, <1>3, OnlyOne
<1>5. n.guest \in liveGuests /\ n.guest \in Guests /\ wizards[q].was = linked[n.conv]
  BY <1>1, <1>3 DEF Remembered, InStep, SInv, IInv, TypeOK
<1>6. /\ linked' \in [Conversations -> Guests \cup {Nothing}] /\ linked'[n.conv] = n.guest
      /\ \A c \in Conversations : c # n.conv => linked'[c] = linked[c]
  BY <1>1, <1>3, <1>5 DEF WizardTypeOK
<1>7. SInv' BY <1>1, RestKeepsSInv DEF SInv, IInv, TypeOK
<1>8. WizardTypeOK' BY <1>1, <1>4, <1>6 DEF WizardTypeOK
<1>9. TransactionIsBook' BY <1>1, <1>4 DEF TransactionIsBook, InStep
<1>10. Remembered' BY <1>1, <1>3, <1>4, <1>5, <1>6 DEF Remembered
<1>11. OneGuestPerAddress' BY <1>1 DEF OneGuestPerAddress
<1>12. SourcesSound'
  <2> SUFFICES ASSUME NEW b \in Bookings, source[b] # Nothing
               PROVE  /\ IsRow(b)' /\ linked'[source[b]] # Nothing
                      /\ \/ broken
                         \/ \E p \in Requests :
                              wizards'[p].step \in {"book", "source"} /\ wizards'[p].conv = source[b]
                         \/ \E other \in Bookings :
                              source[other] = source[b] /\ linked'[source[b]] = bookings[other].guest
    BY <1>1 DEF SourcesSound
  <2>1. source[b] \in Conversations BY DEF WizardTypeOK
  <2>2. IsRow(b)' BY <1>1 DEF SourcesSound, IsRow
  <2>3. CASE source[b] = n.conv BY <1>3, <1>4, <1>5, <1>6, <2>2, <2>3, WizardAssumption
  <2>4. CASE source[b] # n.conv
    <3>1. linked'[source[b]] = linked[source[b]] BY <1>6, <2>1, <2>4
    <3>2. \A p \in Requests : wizards[p].step \notin {"book", "source"}
      BY <1>1, <1>4 DEF InStep
    <3> QED BY <2>2, <3>1, <3>2 DEF SourcesSound
  <2> QED BY <2>3, <2>4
<1> QED BY <1>7, <1>8, <1>9, <1>10, <1>11, <1>12

\* createBooking of the stay of the form.
LEMMA BookKeeps ==
  ASSUME Serial, SInv, WizardInv, NEW q \in Requests, Book(q)
  PROVE  SInv' /\ WizardInv'
<1> USE DEF WizardInv
<1> DEFINE body == StayBody(wizards[q].form.stay, wizards[q].guest)
<1>1. InStep(q, "book") /\ UNCHANGED <<email, linked, source, broken>> BY DEF Book
<1>2. /\ wizards[q] \in Wizard /\ wizards[q].conv \in Conversations
      /\ wizards[q].guest \in liveGuests /\ wizards[q].guest \in Guests
      /\ linked[wizards[q].conv] = wizards[q].guest
  BY <1>1, WizardIs DEF Remembered, InStep, SInv, IInv, TypeOK
<1>3. body \in CreateBodies BY <1>1, <1>2, BodyOfForm DEF InStep
<1>4. CASE BeginCreate(q, body) /\ UNCHANGED wizards
  <2>1. /\ reqs' = [reqs EXCEPT ![q] = [op |-> "create", body |-> body]]
        /\ UNCHANGED <<bookings, rooms, liveGuests>>
    BY <1>4 DEF BeginCreate
  <2>2. SInv'
    <3>1. \E c \in CreateBodies : BeginCreate(q, c) BY <1>3, <1>4
    <3>2. Next BY <3>1 DEF Next
    <3> QED BY <3>2, NextSInv
  <2>3. WizardTypeOK' BY <1>1, <1>4 DEF WizardTypeOK
  <2>4. TransactionIsBook'
    <3>1. \A p \in Requests : p = q BY DEF Serial
    <3>2. reqs'[q] = [op |-> "create", body |-> body] BY <2>1 DEF SInv, IInv, TypeOK
    <3> QED BY <1>1, <1>4, <3>1, <3>2 DEF TransactionIsBook, InStep
  <2>5. Remembered' BY <1>1, <1>4, <2>1 DEF Remembered, Known, Given, IsRow
  <2>6. OneGuestPerAddress' BY <1>1, <2>1 DEF OneGuestPerAddress
  <2>7. SourcesSound' BY <1>1, <1>4, <2>1, SourcesStay
  <2> QED BY <2>2, <2>3, <2>4, <2>5, <2>6, <2>7
<1>5. ASSUME CommitCreate(q), NEW b \in Bookings, bookings[b] = NoRow, bookings'[b] # NoRow,
             To(q, [wizards[q] EXCEPT !.step = "source", !.booking = b])
      PROVE  SInv' /\ WizardInv'
  <2>1. /\ UNCHANGED <<rooms, liveGuests>> /\ reqs' = [reqs EXCEPT ![q] = Idle]
        /\ reqs[q].op = "create"
        /\ \E a \in Bookings :
             bookings[a] = NoRow /\ bookings' = [bookings EXCEPT ![a] = NewRow(reqs[q].body)]
    BY <1>5 DEF CommitCreate
  <2>2. reqs[q].body = body
    <3>1. reqs[q] # Idle BY <2>1 DEF Idle
    <3>2. reqs[q] = [op |-> "create", body |-> body] BY <3>1 DEF TransactionIsBook
    <3> QED BY <3>2
  <2>3. /\ bookings' = [bookings EXCEPT ![b] = NewRow(body)]
        /\ bookings \in [Bookings -> Row \cup {NoRow, Purged}]
    <3>1. PICK a \in Bookings :
            bookings[a] = NoRow /\ bookings' = [bookings EXCEPT ![a] = NewRow(body)]
      BY <2>1, <2>2
    <3>2. bookings \in [Bookings -> Row \cup {NoRow, Purged}] BY DEF SInv, IInv, TypeOK
    <3>3. a = b BY <1>5, <3>1, <3>2
    <3> QED BY <3>1, <3>2, <3>3
  <2>4. /\ bookings'[b] = NewRow(body) /\ NewRow(body).guest = wizards[q].guest
        /\ NewRow(body) \in Row
        /\ \A a \in Bookings : a # b => bookings'[a] = bookings[a]
    <3>1. body \in CreateBody /\ body.guest = wizards[q].guest BY <1>3, BodyTypes DEF StayBody
    <3>2. NewRow(body) \in Row BY <3>1 DEF NewRow, Row, CreateBody, Status
    <3>3. NewRow(body).guest = wizards[q].guest BY <3>1 DEF NewRow
    <3> QED BY <2>3, <3>2, <3>3
  <2>5. IsRow(b)' BY <2>4, MarkerAssumption DEF IsRow
  <2>6. \A a \in Bookings : IsRow(a) => a # b /\ IsRow(a)' /\ bookings'[a] = bookings[a]
    BY <1>5, <2>4 DEF IsRow
  <2>7. PICK n : n = [wizards[q] EXCEPT !.step = "source", !.booking = b] OBVIOUS
  <2>8. /\ n \in Wizard /\ n.step = "source" /\ n.conv = wizards[q].conv
        /\ n.guest = wizards[q].guest /\ n.booking = b
    <3>1. PICK w \in Wizard : w = wizards[q] BY <1>2
    <3>2. n = [w EXCEPT !.step = "source", !.booking = b] BY <2>7, <3>1
    <3> QED BY <3>1, <3>2 DEF Wizard
  <2>9. wizards'[q] = n /\ (\A p \in Requests : p = q)
        /\ wizards' \in [Requests -> Wizard \cup {AtRest}]
    BY <1>5, <2>7, <2>8, OnlyOne
  <2>10. SInv'
    <3>1. Next BY <1>5 DEF Next
    <3> QED BY <3>1, NextSInv
  <2>11. WizardTypeOK' BY <1>1, <2>9 DEF WizardTypeOK
  <2>12. TransactionIsBook'
    <3>1. reqs'[q] = Idle BY <2>1 DEF SInv, IInv, TypeOK
    <3> QED BY <2>9, <3>1 DEF TransactionIsBook
  <2>13. Remembered'
    <3>1. source[b] = Nothing BY <1>5 DEF SourcesSound, IsRow
    <3> QED BY <1>1, <1>2, <2>1, <2>4, <2>5, <2>8, <2>9, <3>1 DEF Remembered
  <2>14. OneGuestPerAddress' BY <1>1, <2>1 DEF OneGuestPerAddress
  <2>15. SourcesSound'
    <3> SUFFICES ASSUME NEW a \in Bookings, source[a] # Nothing
                 PROVE  /\ IsRow(a)' /\ linked[source[a]] # Nothing
                        /\ \/ broken
                           \/ \E p \in Requests :
                                wizards'[p].step \in {"book", "source"} /\ wizards'[p].conv = source[a]
                           \/ \E other \in Bookings :
                                source[other] = source[a]
                                /\ linked[source[a]] = bookings'[other].guest
      BY <1>1 DEF SourcesSound
    <3>1. IsRow(a)' /\ linked[source[a]] # Nothing BY <2>6 DEF SourcesSound
    <3>2. CASE \E p \in Requests :
                 wizards[p].step \in {"book", "source"} /\ wizards[p].conv = source[a]
      <4>1. wizards[q].conv = source[a] BY <2>9, <3>2
      <4> QED BY <2>8, <2>9, <3>1, <4>1
    <3>3. ASSUME NEW other \in Bookings, source[other] = source[a],
                 linked[source[a]] = bookings[other].guest
          PROVE  linked[source[a]] = bookings'[other].guest
      <4>1. IsRow(other) BY <3>3 DEF SourcesSound
      <4> QED BY <2>6, <3>3, <4>1
    <3> QED BY <3>1, <3>2, <3>3 DEF SourcesSound
  <2> QED BY <2>10, <2>11, <2>12, <2>13, <2>14, <2>15
<1> QED BY <1>4, <1>5 DEF Book

LEMMA WriteSourceKeeps ==
  ASSUME Serial, SInv, WizardInv, NEW q \in Requests, WriteSource(q)
  PROVE  SInv' /\ WizardInv'
<1> USE DEF WizardInv
<1> DEFINE b == wizards[q].booking
           c == wizards[q].conv
<1>1. /\ InStep(q, "source") /\ source' = [source EXCEPT ![b] = c] /\ To(q, AtRest)
      /\ UNCHANGED <<bookings, rooms, liveGuests, reqs, email, linked, broken>>
  BY DEF WriteSource
<1>2. /\ c \in Conversations /\ b \in Bookings /\ IsRow(b)
      /\ bookings[b].guest = wizards[q].guest /\ linked[c] = wizards[q].guest
      /\ wizards[q].guest \in Guests /\ source[b] = Nothing
  BY <1>1, WizardIs DEF Remembered, InStep, SInv, IInv, TypeOK
<1> HIDE DEF b, c
<1>3. wizards'[q] = AtRest /\ (\A p \in Requests : p = q)
      /\ wizards' \in [Requests -> Wizard \cup {AtRest}] /\ AtRest.step = "idle"
  BY <1>1, OnlyOne, WizardIs
<1>4. /\ source' \in [Bookings -> Conversations \cup {Nothing}] /\ source'[b] = c
      /\ \A a \in Bookings : a # b => source'[a] = source[a]
  BY <1>1, <1>2 DEF WizardTypeOK
<1>5. SInv' BY <1>1, RestKeepsSInv DEF SInv, IInv, TypeOK
<1>6. WizardTypeOK' BY <1>1, <1>3, <1>4 DEF WizardTypeOK
<1>7. TransactionIsBook' BY <1>1, <1>3 DEF TransactionIsBook, InStep
<1>8. Remembered' BY <1>3 DEF Remembered
<1>9. OneGuestPerAddress' BY <1>1 DEF OneGuestPerAddress
<1>10. SourcesSound'
  <2> SUFFICES ASSUME NEW a \in Bookings, source'[a] # Nothing
               PROVE  /\ IsRow(a) /\ linked[source'[a]] # Nothing
                      /\ \/ broken
                         \/ \E other \in Bookings :
                              source'[other] = source'[a]
                              /\ linked[source'[a]] = bookings[other].guest
    BY <1>1 DEF SourcesSound, IsRow
  <2>1. CASE source'[a] = c
    <3>1. IsRow(a)
      <4>1. CASE a = b BY <1>2, <4>1
      <4>2. CASE a # b BY <1>4, <2>1, <4>2 DEF SourcesSound
      <4> QED BY <4>1, <4>2
    <3> QED BY <1>2, <1>4, <2>1, <3>1, WizardAssumption
  <2>2. CASE source'[a] # c
    <3>1. a # b /\ source[a] = source'[a] /\ source[a] # Nothing BY <1>4, <2>2
    <3>2. \A p \in Requests : wizards[p].conv # source[a] BY <1>3, <2>2, <3>1 DEF c
    <3>3. /\ IsRow(a) /\ linked[source[a]] # Nothing
          /\ \/ broken
             \/ \E other \in Bookings :
                  source[other] = source[a] /\ linked[source[a]] = bookings[other].guest
      BY <3>1, <3>2 DEF SourcesSound
    <3>4. ASSUME NEW other \in Bookings, source[other] = source[a],
                 linked[source[a]] = bookings[other].guest
          PROVE  \E o \in Bookings :
                   source'[o] = source'[a] /\ linked[source'[a]] = bookings[o].guest
      <4>1. CASE other # b BY <1>4, <3>1, <3>4, <4>1
      <4>2. CASE other = b BY <1>2, <3>1, <3>4, <4>2
      <4> QED BY <4>1, <4>2
    <3> QED BY <3>1, <3>3, <3>4
  <2> QED BY <2>1, <2>2
<1> QED BY <1>5, <1>6, <1>7, <1>8, <1>9, <1>10

LEMMA AbandonedKeeps ==
  ASSUME Serial, SInv, WizardInv, NEW q \in Requests, Abandoned(q)
  PROVE  SInv' /\ WizardInv'
<1> USE DEF WizardInv
<1>1. /\ To(q, AtRest) /\ reqs' = [reqs EXCEPT ![q] = Idle]
      /\ broken' = (broken \/ wizards[q].step \in {"link", "book", "source"})
      /\ UNCHANGED <<bookings, rooms, liveGuests, email, linked, source>>
  BY DEF Abandoned
<1>2. wizards'[q] = AtRest /\ (\A p \in Requests : p = q)
      /\ wizards' \in [Requests -> Wizard \cup {AtRest}] /\ AtRest.step = "idle"
  BY <1>1, OnlyOne, WizardIs
<1>3. SInv' BY <1>1, RestKeepsSInv DEF SInv, IInv, TypeOK
<1>4. WizardTypeOK' BY <1>1, <1>2 DEF WizardTypeOK
<1>5. TransactionIsBook'
  <2>1. reqs'[q] = Idle BY <1>1 DEF SInv, IInv, TypeOK
  <2> QED BY <1>2, <2>1 DEF TransactionIsBook
<1>6. Remembered' BY <1>2 DEF Remembered
<1>7. OneGuestPerAddress' BY <1>1 DEF OneGuestPerAddress
<1>8. SourcesSound' BY <1>1, <1>2, SourcesStay
<1> QED BY <1>3, <1>4, <1>5, <1>6, <1>7, <1>8

LEMMA WizardStutters ==
  ASSUME Serial, SInv, WizardInv, UNCHANGED wizardVars
  PROVE  SInv' /\ WizardInv'
<1> USE DEF WizardInv, wizardVars, inboxVars
<1>1. SInv' BY NextSInv
<1>2. WizardTypeOK' BY DEF WizardTypeOK
<1>3. TransactionIsBook' BY DEF TransactionIsBook, InStep, vars
<1>4. Remembered' BY DEF Remembered, Known, Given, IsRow, vars
<1>5. OneGuestPerAddress' BY DEF OneGuestPerAddress, vars
<1>6. SourcesSound' BY DEF SourcesSound, IsRow, vars
<1> QED BY <1>1, <1>2, <1>3, <1>4, <1>5, <1>6

-----------------------------------------------------------------------------
(* Bookings made from a conversation: the theorems                           *)

\* Served one at a time, and cut short anywhere, the requests of the inbox keep
\* what they remember, and the bookings' own invariant
\* (conversation-booking.service.ts:103-284).
THEOREM WizardInvariant == ASSUME Serial PROVE WizardSpec => [](SInv /\ WizardInv)
<1>1. SInv /\ WizardInv /\ [WizardNext]_wizardVars => (SInv /\ WizardInv)'
  <2> SUFFICES ASSUME SInv, WizardInv, [WizardNext]_wizardVars PROVE SInv' /\ WizardInv'
    OBVIOUS
  <2>1. CASE UNCHANGED wizardVars BY <2>1, WizardStutters
  <2>2. ASSUME NEW q \in Requests,
               \/ \E c \in Conversations, f \in Forms : Begin(q, c, f)
               \/ Resolve(q) \/ CreateGuest(q) \/ Link(q) \/ Book(q) \/ WriteSource(q)
               \/ Abandoned(q)
        PROVE  SInv' /\ WizardInv'
    BY <2>2, BeginKeeps, ResolveKeeps, CreateGuestKeeps, LinkKeeps, BookKeeps,
       WriteSourceKeeps, AbandonedKeeps
  <2> QED BY <2>1, <2>2 DEF WizardNext
<1> QED BY <1>1, WizardStarts, PTL DEF WizardSpec

\* However often a form is sent again, and wherever it failed before, nobody is
\* created twice for an address, no stay is booked twice, and a source knows its
\* guest (conversation-booking.service.ts:174-255).
THEOREM InboxBooksSoundly == ASSUME Serial PROVE WizardSpec => []InboxBookingSound
<1>1. SInv /\ WizardInv => InboxBookingSound
  <2> SUFFICES ASSUME SInv, WizardInv PROVE InboxBookingSound OBVIOUS
  <2>1. BookedOnce BY DEF SInv, BookedOnce
  <2>2. SourceKnowsItsGuest
    BY DEF WizardInv, SourcesSound, SourceKnowsItsGuest, InStep
  <2> QED BY <2>1, <2>2 DEF WizardInv, InboxBookingSound
<1> QED BY <1>1, WizardInvariant, PTL

\* What the inbox books is reserved in the calendar of stays, as any other booking
\* is (conversation-booking.service.ts:223-238).
THEOREM InboxImplementsCalendar == ASSUME Serial PROVE WizardSpec => ImplementsCalendar
<1>1. WizardInit => Calendar!Init
  <2>1. WizardInit => bookings = [b \in Bookings |-> NoRow] BY DEF WizardInit
  <2> QED BY <2>1 DEF Calendar!Init, staysBar
<1>2. SInv /\ [WizardNext]_wizardVars => [Calendar!Next]_staysBar
  <2> SUFFICES ASSUME SInv, [WizardNext]_wizardVars PROVE Calendar!Next \/ UNCHANGED staysBar
    OBVIOUS
  <2>1. CASE \E q \in Requests : CommitCreate(q) BY <2>1, CreateReserves
  <2>2. CASE UNCHANGED bookings BY <2>2, StutterCalendar
  <2> QED
    BY <2>1, <2>2 DEF WizardNext, wizardVars, vars, Begin, Resolve, CreateGuest, Link, Book,
       BeginCreate, WriteSource, Abandoned
<1> QED BY <1>1, <1>2, WizardInvariant, PTL DEF WizardSpec, ImplementsCalendar, Calendar!Spec
=============================================================================
