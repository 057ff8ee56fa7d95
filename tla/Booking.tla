------------------------------- MODULE Booking -------------------------------
(***************************************************************************)
(* The reservation tables of PYR and the request handlers that write them: *)
(* createBooking, updateBooking, cancelBooking (booking.service.ts),       *)
(* deleteRoom (room-core.service.ts) and deleteGuest (guest.service.ts).   *)
(*                                                                         *)
(* Every handler is one prisma.$transaction on PostgreSQL at its default   *)
(* isolation level, READ COMMITTED, without row locks on what it reads.  A *)
(* handler is therefore two steps: Begin takes every read and every check  *)
(* of the service function, Commit makes the writes visible, and other     *)
(* requests commit between the two.  What PostgreSQL itself enforces at    *)
(* the write (foreign keys, the unique index of booking_guests, the CHECK  *)
(* on the dates) guards Commit; a transaction it refuses, or whose process *)
(* dies, takes Rollback.                                                   *)
(***************************************************************************)
EXTENDS Integers

CONSTANTS
  Bookings,      \* ids the database may give to rows of "bookings"
  Rooms,         \* ids of rooms
  Guests,        \* ids of guests
  Days,          \* calendar days
  Requests,      \* handlers that can be in flight at the same time
  CreateBodies,  \* bodies POST /bookings may carry
  UpdateBodies,  \* bodies PATCH /bookings/:id may carry
  Keep,          \* a field the body of an update leaves undefined
  NoRow,         \* an id not given out yet
  Purged         \* an id whose row was deleted together with its room

VARIABLES
  bookings,      \* the table "bookings", each row with its booking_guests
  rooms,         \* rows of "rooms"
  liveGuests,    \* rows of "guests" with deletedAt null
  reqs           \* what each request in flight remembers of its reads

vars == <<bookings, rooms, liveGuests, reqs>>

-----------------------------------------------------------------------------
(* Data                                                                      *)

Status == {"inquiry", "confirmed", "checked_in", "checked_out", "cancelled"}
ActiveStatus == {"inquiry", "confirmed", "checked_in"}

VALID_TRANSITIONS ==
  [ inquiry     |-> {"confirmed", "cancelled"},
    confirmed   |-> {"checked_in", "cancelled"},
    checked_in  |-> {"checked_out", "cancelled"},
    checked_out |-> {},
    cancelled   |-> {} ]

\* A row; guest is the legacy column, guests its rows of booking_guests.
Row == [room: Rooms, checkIn: Days, checkOut: Days, status: Status,
        deleted: BOOLEAN, guest: Guests, guests: SUBSET Guests]

\* guestIds is its first element and its set of elements.
CreateBody == [room: Rooms, checkIn: Days, checkOut: Days,
               status: {"inquiry", "confirmed"},
               guest: Guests, guests: SUBSET Guests]

UpdateBody == [room: Rooms \cup {Keep}, checkIn: Days \cup {Keep},
               checkOut: Days \cup {Keep}, status: Status \cup {Keep},
               guest: Guests \cup {Keep}, guests: SUBSET Guests]

\* Days are numbered; the request bodies passed the route's schema.
ASSUME DataAssumption ==
  /\ Days \subseteq Int
  /\ \A c \in CreateBodies : c \in CreateBody /\ c.guest \in c.guests
  /\ \A u \in UpdateBodies :
       /\ u \in UpdateBody
       /\ IF u.guest = Keep THEN u.guests = {} ELSE u.guest \in u.guests

\* Markers are none of the values they stand beside.
ASSUME MarkerAssumption ==
  /\ Keep \notin Rooms /\ Keep \notin Days /\ Keep \notin Status /\ Keep \notin Guests
  /\ NoRow \notin Row
  /\ Purged \notin Row
  /\ NoRow # Purged

Request ==
  [op: {"idle"}]
    \cup [op: {"create"}, body: CreateBodies]
    \cup [op: {"update"}, id: Bookings, body: UpdateBodies, cancels: BOOLEAN,
          remove: SUBSET Guests, add: SUBSET Guests]
    \cup [op: {"cancel"}, id: Bookings]
    \cup [op: {"deleteRoom"}, room: Rooms, archived: SUBSET Bookings]

Idle == [op |-> "idle"]

IsRow(b) == bookings[b] \notin {NoRow, Purged}

Live(b) == IsRow(b) /\ ~bookings[b].deleted

\* A booking that holds its room, the where clause of checkOverlap.
Active(b) == Live(b) /\ bookings[b].status \in ActiveStatus

\* Mutant: inquiries do not hold their room.
checkOverlap_NoInquiry(room, checkIn, checkOut, exclude) ==
  \E b \in Bookings \ exclude :
    /\ Active(b) /\ bookings[b].status # "inquiry"
    /\ bookings[b].room = room
    /\ bookings[b].checkIn < checkOut
    /\ bookings[b].checkOut > checkIn

checkOverlap(room, checkIn, checkOut, exclude) ==
  \E b \in Bookings \ exclude :
    /\ Active(b)
    /\ bookings[b].room = room
    /\ bookings[b].checkIn < checkOut
    /\ bookings[b].checkOut > checkIn

Supplied(field, old) == IF field = Keep THEN old ELSE field

-----------------------------------------------------------------------------
(* createBooking                                                             *)

BeginCreate(q, c) ==
  /\ reqs[q] = Idle
  /\ c.checkOut > c.checkIn
  /\ c.guests \subseteq liveGuests
  /\ c.room \in rooms
  /\ ~checkOverlap(c.room, c.checkIn, c.checkOut, {})
  /\ reqs' = [reqs EXCEPT ![q] = [op |-> "create", body |-> c]]
  /\ UNCHANGED <<bookings, rooms, liveGuests>>

NewRow(c) ==
  [room |-> c.room, checkIn |-> c.checkIn, checkOut |-> c.checkOut,
   status |-> c.status, deleted |-> FALSE, guest |-> c.guest, guests |-> c.guests]

CommitCreate(q) ==
  /\ reqs[q].op = "create"
  /\ reqs[q].body.room \in rooms                      \* bookings_room_id_fkey
  /\ \E b \in Bookings :
       /\ bookings[b] = NoRow
       /\ bookings' = [bookings EXCEPT ![b] = NewRow(reqs[q].body)]
  /\ reqs' = [reqs EXCEPT ![q] = Idle]
  /\ UNCHANGED <<rooms, liveGuests>>

-----------------------------------------------------------------------------
(* updateBooking                                                             *)

\* Mutant: new dates are checked only when the room changes too.
BeginUpdate_RoomOnly(q, b, u) ==
  LET old == bookings[b] IN
  /\ reqs[q] = Idle
  /\ Live(b)
  /\ u.status \in {Keep, old.status} \cup VALID_TRANSITIONS[old.status]
  /\ Supplied(u.checkOut, old.checkOut) > Supplied(u.checkIn, old.checkIn)
  /\ u.room = Keep \/ ~checkOverlap(u.room, Supplied(u.checkIn, old.checkIn),
                                    Supplied(u.checkOut, old.checkOut), {b})
  /\ reqs' = [reqs EXCEPT ![q] =
       [op |-> "update", id |-> b, body |-> u,
        cancels |-> u.status = "cancelled" /\ old.status # "cancelled",
        remove |-> {}, add |-> {}]]
  /\ UNCHANGED <<bookings, rooms, liveGuests>>

BeginUpdate(q, b, u) ==
  LET old      == bookings[b]
      room     == Supplied(u.room, old.room)
      checkIn  == Supplied(u.checkIn, old.checkIn)
      checkOut == Supplied(u.checkOut, old.checkOut)
  IN
  /\ reqs[q] = Idle
  /\ Live(b)
  /\ u.status \in {Keep, old.status} \cup VALID_TRANSITIONS[old.status]
  /\ checkOut > checkIn
  /\ \/ u.room = Keep /\ u.checkIn = Keep /\ u.checkOut = Keep
     \/ ~checkOverlap(room, checkIn, checkOut, {b})
  /\ u.guests \subseteq liveGuests
  /\ reqs' = [reqs EXCEPT ![q] =
       [op |-> "update", id |-> b, body |-> u,
        cancels |-> u.status = "cancelled" /\ old.status # "cancelled",
        remove  |-> IF u.guest = Keep THEN {} ELSE old.guests \ u.guests,
        add     |-> u.guests \ old.guests]]
  /\ UNCHANGED <<bookings, rooms, liveGuests>>

\* Mutant: the legacy guest stays when the list of guests changes.
Updated_KeepsLegacyGuest(old, r) ==
  [room |-> old.room, checkIn |-> old.checkIn, checkOut |-> old.checkOut,
   status |-> old.status, deleted |-> old.deleted, guest |-> old.guest,
   guests |-> (old.guests \ r.remove) \cup r.add]

\* Mutant: checking out deletes the booking as cancelling does.
Updated_DeletesCheckedOut(old, r) ==
  [old EXCEPT !.status = Supplied(r.body.status, @),
              !.deleted = @ \/ r.body.status \in {"checked_out", "cancelled"}]

\* The row an update of "old" leaves, with the junction rows it adds and removes.
Updated(old, r) ==
  [room     |-> Supplied(r.body.room, old.room),
   checkIn  |-> Supplied(r.body.checkIn, old.checkIn),
   checkOut |-> Supplied(r.body.checkOut, old.checkOut),
   status   |-> Supplied(r.body.status, old.status),
   deleted  |-> old.deleted \/ r.cancels,
   guest    |-> Supplied(r.body.guest, old.guest),
   guests   |-> (old.guests \ r.remove) \cup r.add]

\* Mutant: no CHECK constraint on the dates.
CommitUpdate_NoDateCheck(q) ==
  LET r == reqs[q] IN
  /\ r.op = "update"
  /\ IsRow(r.id)
  /\ bookings' = [bookings EXCEPT ![r.id] = Updated(@, r)]
  /\ reqs' = [reqs EXCEPT ![q] = Idle]
  /\ UNCHANGED <<rooms, liveGuests>>

CommitUpdate(q) ==
  LET r   == reqs[q]
      old == bookings[r.id]
      new == Updated(old, r)
  IN
  /\ r.op = "update"
  /\ IsRow(r.id)
  /\ new.room \in rooms                               \* bookings_room_id_fkey
  /\ r.add \cap old.guests = {}                       \* unique (bookingId, guestId)
  /\ new.checkOut > new.checkIn                       \* chk_booking_dates
  /\ bookings' = [bookings EXCEPT ![r.id] = new]
  /\ reqs' = [reqs EXCEPT ![q] = Idle]
  /\ UNCHANGED <<rooms, liveGuests>>

-----------------------------------------------------------------------------
(* cancelBooking                                                             *)

\* Mutant: any booking not deleted yet can be cancelled.
BeginCancel_Unchecked(q, b) ==
  /\ reqs[q] = Idle
  /\ Live(b)
  /\ reqs' = [reqs EXCEPT ![q] = [op |-> "cancel", id |-> b]]
  /\ UNCHANGED <<bookings, rooms, liveGuests>>

BeginCancel(q, b) ==
  /\ reqs[q] = Idle
  /\ Live(b)
  /\ "cancelled" \in VALID_TRANSITIONS[bookings[b].status]
  /\ reqs' = [reqs EXCEPT ![q] = [op |-> "cancel", id |-> b]]
  /\ UNCHANGED <<bookings, rooms, liveGuests>>

CommitCancel(q) ==
  LET b == reqs[q].id IN
  /\ reqs[q].op = "cancel"
  /\ IsRow(b)
  /\ bookings' = [bookings EXCEPT ![b].status = "cancelled", ![b].deleted = TRUE]
  /\ reqs' = [reqs EXCEPT ![q] = Idle]
  /\ UNCHANGED <<rooms, liveGuests>>

-----------------------------------------------------------------------------
(* deleteRoom                                                                *)

\* Mutant: checked-out stays are purged with their room.
Archived_CheckedOut(room) ==
  {b \in Bookings : IsRow(b) /\ bookings[b].room = room /\ ~Active(b)}

Archived(room) ==
  {b \in Bookings : /\ IsRow(b)
                    /\ bookings[b].room = room
                    /\ bookings[b].deleted \/ bookings[b].status = "cancelled"}

BeginDeleteRoom(q, room) ==
  /\ reqs[q] = Idle
  /\ room \in rooms
  /\ \A b \in Bookings : Active(b) => bookings[b].room # room
  /\ reqs' = [reqs EXCEPT ![q] =
       [op |-> "deleteRoom", room |-> room, archived |-> Archived(room)]]
  /\ UNCHANGED <<bookings, rooms, liveGuests>>

\* The foreign key refuses the room while any row, a checked-out one too, keeps it.
CommitDeleteRoom(q) ==
  LET r == reqs[q] IN
  /\ r.op = "deleteRoom"
  /\ \A b \in Bookings \ r.archived : IsRow(b) => bookings[b].room # r.room
  /\ bookings' = [b \in Bookings |->
                    IF b \in r.archived /\ IsRow(b) THEN Purged ELSE bookings[b]]
  /\ rooms' = rooms \ {r.room}
  /\ reqs' = [reqs EXCEPT ![q] = Idle]
  /\ UNCHANGED liveGuests

-----------------------------------------------------------------------------
(* deleteGuest: a soft delete that looks at no booking                       *)

deleteGuest(g) ==
  /\ g \in liveGuests
  /\ liveGuests' = liveGuests \ {g}
  /\ UNCHANGED <<bookings, rooms, reqs>>

-----------------------------------------------------------------------------
(* A transaction the database refuses, or whose process dies                 *)

Rollback(q) ==
  /\ reqs[q] # Idle
  /\ reqs' = [reqs EXCEPT ![q] = Idle]
  /\ UNCHANGED <<bookings, rooms, liveGuests>>

-----------------------------------------------------------------------------

Init ==
  /\ bookings = [b \in Bookings |-> NoRow]
  /\ rooms = Rooms
  /\ liveGuests = Guests
  /\ reqs = [q \in Requests |-> Idle]

Next ==
  \/ \E q \in Requests :
       \/ \E c \in CreateBodies : BeginCreate(q, c)
       \/ CommitCreate(q)
       \/ \E b \in Bookings, u \in UpdateBodies : BeginUpdate(q, b, u)
       \/ CommitUpdate(q)
       \/ \E b \in Bookings : BeginCancel(q, b)
       \/ CommitCancel(q)
       \/ \E room \in Rooms : BeginDeleteRoom(q, room)
       \/ CommitDeleteRoom(q)
       \/ Rollback(q)
  \/ \E g \in Guests : deleteGuest(g)

Spec == Init /\ [][Next]_vars

-----------------------------------------------------------------------------
(* What the handlers promise                                                 *)

\* The tables and the requests in flight hold values of their types.
TypeOK ==
  /\ bookings \in [Bookings -> Row \cup {NoRow, Purged}]
  /\ rooms \subseteq Rooms
  /\ liveGuests \subseteq Guests
  /\ reqs \in [Requests -> Request]

\* Every stored stay ends after it begins, although an update validates the one
\* date it is given against a copy of the other that may be stale by its write.
DatesOrdered == \A b \in Bookings : IsRow(b) => bookings[b].checkOut > bookings[b].checkIn

\* A cancelled booking is soft-deleted whichever handler cancelled it and
\* whatever committed in between: no listing shows it, no overlap counts it.
CancelledIsDeleted ==
  \A b \in Bookings : IsRow(b) /\ bookings[b].status = "cancelled" => bookings[b].deleted

\* What the requests in flight remember stays true until they write: dates of a
\* new stay are ordered, an update to cancelled sets deletedAt, the rows a room's
\* deletion will take stay deleted.
PendingSound ==
  \A q \in Requests :
    /\ reqs[q].op = "create" => reqs[q].body.checkOut > reqs[q].body.checkIn
    /\ reqs[q].op = "update" /\ reqs[q].body.status = "cancelled" => reqs[q].cancels
    /\ reqs[q].op = "deleteRoom" =>
         \A b \in reqs[q].archived :
           bookings[b] # NoRow /\ (IsRow(b) => bookings[b].deleted)

\* The tables keep their types and every stay its dates in order, although an
\* update validates the one date it is given against a copy of the other that
\* may be stale by its write.  Inductive: what the handlers remember is part of it.
IInv == TypeOK /\ DatesOrdered /\ CancelledIsDeleted /\ PendingSound

\* No two bookings that hold the same room overlap in time (checkOverlap in
\* createBooking and updateBooking).
NoDoubleBooking ==
  \A a, b \in Bookings :
    a # b /\ Active(a) /\ Active(b) /\ bookings[a].room = bookings[b].room
      => \/ bookings[a].checkOut =< bookings[b].checkIn
         \/ bookings[b].checkOut =< bookings[a].checkIn

\* The legacy guestId column names one of the booking's rows in booking_guests.
PrimaryGuestInJunction ==
  \A b \in Bookings : IsRow(b) => bookings[b].guest \in bookings[b].guests

\* A soft-deleted booking is a cancelled one: nothing revives its status.
DeletedIsCancelled ==
  \A b \in Bookings : IsRow(b) /\ bookings[b].deleted => bookings[b].status = "cancelled"

\* A status only moves along VALID_TRANSITIONS (updateBooking, cancelBooking).
StatusFollowsMachine ==
  [][\A b \in Bookings :
       (IsRow(b) /\ IsRow(b)') =>
         bookings'[b].status \in {bookings[b].status}
                                   \cup VALID_TRANSITIONS[bookings[b].status]]_vars

\* Deleting a room takes only archived bookings with it, also those that changed
\* between deleteRoom's reads and its writes.
PurgeTakesOnlyArchived ==
  [][\A b \in Bookings : IsRow(b) /\ ~IsRow(b)' => bookings[b].deleted]_vars

=============================================================================
