--------------------------- MODULE MCBookingSerial ---------------------------
(***************************************************************************)
(* Requests served one after the other: those of the bookings, or bookings   *)
(* made from a conversation with an address and one without. `part` says     *)
(* which.                                                                    *)
(***************************************************************************)
EXTENDS MCBooking, InboxBooking

VARIABLE part

MCSender == [c1 |-> "a@b.c", c2 |-> Nothing]

Stay(in, out) == [room |-> r1, checkIn |-> in, checkOut |-> out, status |-> "inquiry"]
MCForms ==
  {[mode |-> "linked", email |-> Nothing, guest |-> Nothing, stay |-> Stay(1, 2)],
   [mode |-> "create", email |-> Nothing, guest |-> Nothing, stay |-> Stay(1, 3)],
   [mode |-> "existing", email |-> Nothing, guest |-> g1, stay |-> Stay(2, 3)]}

\* The bodies of the two parts.
SerialCreateBodies ==
  MCCreateBodies \cup {StayBody(f.stay, g) : f \in MCForms, g \in {g1, g2}}

MCInit ==
  \/ part = "bookings" /\ Init /\ email = [g \in Guests |-> Nothing]
     /\ linked = [c \in Conversations |-> Nothing] /\ source = [b \in Bookings |-> Nothing]
     /\ wizards = [q \in Requests |-> AtRest] /\ broken = FALSE
  \/ part = "inbox" /\ WizardInit

MCNext ==
  /\ part' = part
  /\ \/ part = "bookings" /\ Next /\ UNCHANGED inboxVars
     \/ part = "inbox" /\ WizardNext

MCSpec == MCInit /\ [][MCNext]_<<part, wizardVars>>
==============================================================================
