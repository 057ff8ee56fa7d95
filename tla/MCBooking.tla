------------------------------ MODULE MCBooking ------------------------------
(* Instances of Booking for TLC.  One request in flight: requests are served   *)
(* one after the other.  Two: their transactions interleave.                   *)
EXTENDS BookingRefinement, TLC

CONSTANTS b1, b2, r1, r2, g1, g2, q1, q2

\* Stays of one night and of two nights, and the empty stay the service refuses.
MCDays == 1..3

Body(room, in, out, status, guest, guests) ==
  [room |-> room, checkIn |-> in, checkOut |-> out, status |-> status,
   guest |-> guest, guests |-> guests]

\* Every stay in one room, one stay in another.
MCCreateBodies ==
  {Body(r1, in, out, "inquiry", g1, {g1}) : in \in MCDays, out \in MCDays}
    \cup {Body(r2, 1, 2, "confirmed", g1, {g1, g2})}

\* Every status alone and with a new end, new dates, another room, new guests.
MCUpdateBodies ==
  {Body(Keep, Keep, out, status, Keep, {}) : out \in {Keep, 3}, status \in Status}
    \cup {Body(Keep, in, out, Keep, Keep, {}) : in \in {Keep, 2}, out \in {Keep, 2}}
    \cup {Body(room, Keep, Keep, Keep, Keep, {}) : room \in {r1, r2}}
    \cup {Body(Keep, Keep, Keep, Keep, g2, {g2})}

\* The smallest bodies that overlap, for two requests in flight.
SmallCreateBodies == {Body(r1, 1, out, "inquiry", g1, {g1}) : out \in {2, 3}}

SmallUpdateBodies ==
  {Body(Keep, Keep, Keep, status, Keep, {}) : status \in Status}
    \cup {Body(Keep, 2, Keep, Keep, Keep, {}), Body(r2, Keep, 2, Keep, Keep, {})}

BookingSymmetry == Permutations(Bookings) \cup Permutations(Requests)

=============================================================================
