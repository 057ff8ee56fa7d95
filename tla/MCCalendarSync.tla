--------------------------- MODULE MCCalendarSync ---------------------------
(* CalendarSync on small sets.                                              *)
EXTENDS CalendarSync, TLC

CONSTANTS b1, b2

OneBooking == {b1}
TwoBookings == {b1, b2}
TwoPayloads == [booking : TwoBookings, action : {"create", "update", "delete"}]
MCPayloads == [booking : OneBooking, action : {"create", "update", "delete"}]
NoFault == {}
AllFaults == {"queue", "down", "lost", "refused"}
Refusing == {"refused"}
\* An edit and a death of the process do not meet.
SmallFaults == crashes = 0 \/ \A b \in Bookings : IsBooking(b) => bookings[b].version = 1

MCSpec == Init /\ [][Next /\ SmallFaults']_vars

MCSymmetry == Permutations(Jobs) \cup Permutations(Rows) \cup Permutations(Requests)
=============================================================================
