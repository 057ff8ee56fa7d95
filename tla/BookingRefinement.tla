-------------------------- MODULE BookingRefinement --------------------------
(***************************************************************************)
(* Booking, with the requests it is given served one after the other,      *)
(* implements RoomCalendar: a stay is the room and the days of an active   *)
(* booking, and it is over once the booking is checked out, cancelled or   *)
(* purged.                                                                 *)
(***************************************************************************)
EXTENDS Booking

StayOf(b) ==
  [room |-> bookings[b].room, checkIn |-> bookings[b].checkIn,
   checkOut |-> bookings[b].checkOut]

\* NoRow and Purged mark the ends of a stay's life in the calendar too.
ASSUME StayAssumption ==
  /\ NoRow \notin [room: Rooms, checkIn: Days, checkOut: Days]
  /\ Purged \notin [room: Rooms, checkIn: Days, checkOut: Days]

staysBar ==
  [b \in Bookings |->
     IF bookings[b] = NoRow THEN NoRow
     ELSE IF Active(b) THEN StayOf(b)
     ELSE Purged]

Calendar == INSTANCE RoomCalendar
              WITH stays <- staysBar, Never <- NoRow, Over <- Purged

\* The reservation handlers implement an atomic calendar of stays: each commit
\* reserves, moves or releases one stay that was free, or changes no stay.
ImplementsCalendar == Calendar!Spec

=============================================================================
