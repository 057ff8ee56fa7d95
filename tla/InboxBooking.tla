----------------------------- MODULE InboxBooking -----------------------------
(***************************************************************************)
(* A booking made from a conversation of the inbox: POST                    *)
(* /conversations/:id/bookings (conversation-booking.service.ts).  It finds *)
(* or creates the guest, links the conversation to the guest, calls         *)
(* createBooking and writes where the booking came from.  Only createBooking *)
(* is a transaction, the one of Booking; every other write commits alone,   *)
(* and what was written stays when a later step refuses or the process      *)
(* dies.  The operator may then send the same form again.                   *)
(***************************************************************************)
EXTENDS Booking

CONSTANTS
  Conversations,  \* ids of conversations
  Sender,         \* Sender[c]: the address the newest inbound message is from
  Forms,          \* what the operator may send: the guest and the stay
  Nothing         \* no guest, no address, no id

VARIABLES
  email,    \* the e-mail address of each guest
  linked,   \* the guest of each conversation
  source,   \* the source conversation of each booking
  wizards,  \* what each request in flight remembers
  broken    \* whether a request ended between its writes (history)

inboxVars == <<email, linked, source, wizards, broken>>
wizardVars == <<vars, inboxVars>>

StayBody(stay, g) ==
  [room |-> stay.room, checkIn |-> stay.checkIn, checkOut |-> stay.checkOut,
   status |-> stay.status, guest |-> g, guests |-> {g}]

\* The form passed its schema; what it makes of a guest is a body of createBooking.
ASSUME WizardAssumption ==
  /\ \A f \in Forms : f.mode \in {"linked", "existing", "create"}
  /\ \A f \in Forms, g \in Guests : StayBody(f.stay, g) \in CreateBodies
  /\ Nothing \notin Guests

AtRest ==
  [step |-> "idle", conv |-> Nothing, form |-> Nothing, was |-> Nothing,
   guest |-> Nothing, booking |-> Nothing]
InStep(q, s) == wizards[q].step = s
To(q, step) == wizards' = [wizards EXCEPT ![q] = step]

WizardInit ==
  /\ bookings = [b \in Bookings |-> NoRow]
  /\ rooms = Rooms
  /\ reqs = [q \in Requests |-> Idle]
  /\ liveGuests = {}
  /\ email = [g \in Guests |-> Nothing]
  /\ linked = [c \in Conversations |-> Nothing]
  /\ source = [b \in Bookings |-> Nothing]
  /\ wizards = [q \in Requests |-> AtRest]
  /\ broken = FALSE

-----------------------------------------------------------------------------
(* createBookingFromConversation                                            *)

\* The conversation, its guest and its newest inbound message are read first.
Begin(q, c, f) ==
  /\ InStep(q, "idle")
  /\ To(q, [step |-> "resolve", conv |-> c, form |-> f, was |-> linked[c],
            guest |-> Nothing, booking |-> Nothing])
  /\ UNCHANGED <<bookings, rooms, liveGuests, reqs, email, linked, source, broken>>

Given(w) == IF w.form.email # Nothing THEN w.form.email ELSE Sender[w.conv]

\* Mutant: the address is not looked up.
Known_Never(address) == {}

\* The guests that have the address; without one nobody is looked for.
Known(address) == {g \in liveGuests : address # Nothing /\ email[g] = address}

\* The modes of the form: the guest of the conversation, one that was chosen, one
\* found by address.
Candidates(w) ==
  CASE w.form.mode = "linked" -> {w.was} \cap liveGuests
    [] w.form.mode = "existing" -> {w.form.guest} \cap liveGuests
    [] w.form.mode = "create" -> Known(Given(w))

Resolve(q) ==
  /\ InStep(q, "resolve")
  /\ \/ \E g \in Candidates(wizards[q]) :
          To(q, [wizards[q] EXCEPT !.step = "link", !.guest = g])
     \/ /\ wizards[q].form.mode = "create" /\ Candidates(wizards[q]) = {}
        /\ To(q, [wizards[q] EXCEPT !.step = "create"])
  /\ UNCHANGED <<bookings, rooms, liveGuests, reqs, email, linked, source, broken>>

CreateGuest(q) ==
  /\ InStep(q, "create")
  /\ \E g \in Guests \ liveGuests :
       /\ liveGuests' = liveGuests \cup {g}
       /\ email' = [email EXCEPT ![g] = Given(wizards[q])]
       /\ To(q, [wizards[q] EXCEPT !.step = "link", !.guest = g])
  /\ UNCHANGED <<bookings, rooms, reqs, linked, source, broken>>

\* The conversation is written when its guest, as it was read, is another.
Link(q) ==
  /\ InStep(q, "link")
  /\ linked' = IF wizards[q].was = wizards[q].guest THEN linked
               ELSE [linked EXCEPT ![wizards[q].conv] = wizards[q].guest]
  /\ To(q, [wizards[q] EXCEPT !.step = "book"])
  /\ UNCHANGED <<bookings, rooms, liveGuests, reqs, email, source, broken>>

\* createBooking, its reads and its writes.
Book(q) ==
  /\ InStep(q, "book")
  /\ \/ BeginCreate(q, StayBody(wizards[q].form.stay, wizards[q].guest)) /\ UNCHANGED wizards
     \/ /\ CommitCreate(q)
        /\ \E b \in Bookings :
             /\ bookings[b] = NoRow /\ bookings'[b] # NoRow
             /\ To(q, [wizards[q] EXCEPT !.step = "source", !.booking = b])
  /\ UNCHANGED <<email, linked, source, broken>>

WriteSource(q) ==
  /\ InStep(q, "source")
  /\ source' = [source EXCEPT ![wizards[q].booking] = wizards[q].conv]
  /\ To(q, AtRest)
  /\ UNCHANGED <<bookings, rooms, liveGuests, reqs, email, linked, broken>>

\* A step refuses or fails, or the process dies: a transaction is rolled back.
Abandoned(q) ==
  /\ ~InStep(q, "idle")
  /\ To(q, AtRest)
  /\ reqs' = [reqs EXCEPT ![q] = Idle]
  /\ broken' = (broken \/ wizards[q].step \in {"link", "book", "source"})
  /\ UNCHANGED <<bookings, rooms, liveGuests, email, linked, source>>

-----------------------------------------------------------------------------
WizardNext ==
  \E q \in Requests :
    \/ \E c \in Conversations, f \in Forms : Begin(q, c, f)
    \/ Resolve(q) \/ CreateGuest(q) \/ Link(q) \/ Book(q) \/ WriteSource(q) \/ Abandoned(q)

WizardSpec == WizardInit /\ [][WizardNext]_wizardVars

-----------------------------------------------------------------------------
(* Properties: requests one after the other, any of them cut short anywhere *)

\* However often the form is sent again, nobody is created twice for an address
\* (conversation-booking.service.ts:174-186).
OneGuestPerAddress ==
  \A g, h \in liveGuests : email[g] = email[h] /\ email[g] # Nothing => g = h

\* ... and no stay is booked twice: a booking whose source was never written is
\* in the way of the second (conversation-booking.service.ts:241-255).
BookedOnce == NoDoubleBooking

\* The conversation a booking came from is linked to a guest, at rest the guest
\* of one of its bookings, unless a request ended between its writes
\* (conversation-booking.service.ts:221-255).
SourceKnowsItsGuest ==
  \A b \in Bookings :
    source[b] # Nothing =>
      /\ linked[source[b]] # Nothing
      /\ \/ broken \/ \E q \in Requests : ~InStep(q, "idle")
         \/ \E other \in Bookings :
              source[other] = source[b] /\ linked[source[b]] = bookings[other].guest

\* One guest for an address, one booking for a stay, a source that knows its
\* guest (conversation-booking.service.ts:103-284).
InboxBookingSound == OneGuestPerAddress /\ BookedOnce /\ SourceKnowsItsGuest

-----------------------------------------------------------------------------
(* What InboxBookingSound rests on, requests one after the other             *)

Addresses == {f.email : f \in Forms} \cup {Sender[c] : c \in Conversations} \cup {Nothing}

Wizard ==
  [step: {"resolve", "create", "link", "book", "source"}, conv: Conversations, form: Forms,
   was: Guests \cup {Nothing}, guest: Guests \cup {Nothing}, booking: Bookings \cup {Nothing}]

WizardTypeOK ==
  /\ email \in [Guests -> Addresses]
  /\ linked \in [Conversations -> Guests \cup {Nothing}]
  /\ source \in [Bookings -> Conversations \cup {Nothing}]
  /\ wizards \in [Requests -> Wizard \cup {AtRest}]
  /\ broken \in BOOLEAN

\* A transaction is createBooking's, for the stay of the form and its guest.
TransactionIsBook ==
  \A q \in Requests :
    reqs[q] # Idle =>
      /\ InStep(q, "book")
      /\ reqs[q] = [op |-> "create", body |-> StayBody(wizards[q].form.stay, wizards[q].guest)]

\* What a request remembers is still so.
Remembered ==
  \A q \in Requests :
    LET w == wizards[q] IN
    /\ w.step = "create" => w.form.mode = "create" /\ Known(Given(w)) = {}
    /\ w.step \in {"resolve", "create", "link"} => w.was = linked[w.conv]
    /\ w.step \in {"link", "book", "source"} => w.guest \in liveGuests
    /\ w.step \in {"book", "source"} => linked[w.conv] = w.guest
    /\ w.step = "source" =>
         /\ w.booking \in Bookings /\ IsRow(w.booking)
         /\ bookings[w.booking].guest = w.guest /\ source[w.booking] = Nothing

\* The guest of a source conversation is one its bookings are for, unless a request
\* that is to book, or was, has linked another.
SourcesSound ==
  \A b \in Bookings :
    source[b] # Nothing =>
      /\ IsRow(b) /\ linked[source[b]] # Nothing
      /\ \/ broken
         \/ \E q \in Requests :
              wizards[q].step \in {"book", "source"} /\ wizards[q].conv = source[b]
         \/ \E other \in Bookings :
              source[other] = source[b] /\ linked[source[b]] = bookings[other].guest

\* With SInv of the bookings, the inductive invariant.
WizardInv ==
  WizardTypeOK /\ TransactionIsBook /\ Remembered /\ OneGuestPerAddress /\ SourcesSound
===============================================================================
