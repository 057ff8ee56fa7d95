---------------------------- MODULE RoomCalendar ----------------------------
(***************************************************************************)
(* What the booking service promises its callers, without requests,        *)
(* statuses or soft deletion: a calendar of stays.  A booking takes a room *)
(* for some days in one indivisible step, may be moved to other days or    *)
(* another room that are free, and gives them back once, for good.         *)
(***************************************************************************)
EXTENDS Integers

CONSTANTS
  Bookings, Rooms, Days,
  Never,            \* what a booking holds before it is made
  Over              \* what it holds when checked out, cancelled or purged

VARIABLE stays      \* what each booking holds

Stay == [room: Rooms, checkIn: Days, checkOut: Days]

Free(b, s) ==
  \A a \in Bookings \ {b} :
    \/ stays[a] \in {Never, Over}
    \/ stays[a].room # s.room
    \/ stays[a].checkOut =< s.checkIn
    \/ s.checkOut =< stays[a].checkIn

Reserve(b, s) ==
  /\ stays[b] = Never
  /\ s.checkIn < s.checkOut
  /\ Free(b, s)
  /\ stays' = [stays EXCEPT ![b] = s]

Move(b, s) ==
  /\ stays[b] \notin {Never, Over}
  /\ s.checkIn < s.checkOut
  /\ Free(b, s)
  /\ stays' = [stays EXCEPT ![b] = s]

Release(b) ==
  /\ stays[b] \notin {Never, Over}
  /\ stays' = [stays EXCEPT ![b] = Over]

Init == stays = [b \in Bookings |-> Never]

Next ==
  \E b \in Bookings :
    \/ \E s \in Stay : Reserve(b, s) \/ Move(b, s)
    \/ Release(b)

Spec == Init /\ [][Next]_stays

=============================================================================
