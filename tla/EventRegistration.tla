-------------------------- MODULE EventRegistration --------------------------
(***************************************************************************)
(* Events with a capacity, the registrations for them, and the guests that *)
(* hold them: event.service.ts, guest.service.ts, the writing half of      *)
(* conversation-event.service.ts (Viator bookings that arrive by e-mail)   *)
(* and of conversation-customer.service.ts.                                *)
(*                                                                         *)
(* As in Booking, a handler is a Begin that reads and checks and a Commit  *)
(* that writes, at READ COMMITTED; unique indexes and foreign keys guard   *)
(* the Commit, and a refused transaction takes Rollback.  A handler whose  *)
(* write does not depend on what it read is one step.                      *)
(***************************************************************************)
EXTENDS Integers, FiniteSetsExt

CONSTANTS
  Guests, Events, Conversations, Stays,  \* ids of the rows of these tables
  Registrations,  \* ids the database may give to rows of "event_bookings"
  BookingIds,     \* external booking ids of the provider Viator
  Emails,         \* addresses of guests, as they are spelled
  Folded,         \* Folded[m] is m without the case of its letters
  Capacities,     \* capacities an event may be given
  LinkBodies,     \* bodies of the operation create_or_link
  Requests,       \* handlers that can be in flight at the same time
  MaxRequests,    \* bound: requests in a behaviour
  None, Gone      \* not there yet (or null), and not there any more

VARIABLES
  guests,         \* "guests": state, email; mergedInto is a history
  events,         \* the capacity of each event
  rows,           \* "event_bookings"
  linked,         \* guestId of each conversation
  stays,          \* bookings: the column guestId and the rows of booking_guests
  reqs,           \* what each request in flight remembers of its reads
  clean,          \* history: no commit yet of a request that had read old data
  begun           \* requests so far

tables == <<guests, events, rows, linked, stays>>
vars == <<guests, events, rows, linked, stays, reqs, clean, begun>>

-----------------------------------------------------------------------------
(* Data                                                                      *)

Guest == [state: {"unknown", "active", "deleted"}, email: Emails \cup {None},
          mergedInto: Guests \cup {None}]

Row == [event: Events, guest: Guests, status: {"confirmed", "waitlisted", "cancelled"},
        count: Nat \ {0}, bookingId: BookingIds \cup {None}]

Stay == [guest: Guests, party: SUBSET Guests]

\* An event that is there already, or one to be made with this capacity.
Target == [event: Events, opens: Capacities \cup {None}]

\* apply: applyUpdates.email is set, and an e-mail is given.
LinkBody == [mode: {"linked", "existing", "create"}, guest: Guests \cup {None},
             email: Emails \cup {None}, apply: BOOLEAN, to: Target,
             count: Nat \ {0}, bookingId: BookingIds]

ASSUME ParameterAssumption ==
  /\ None \notin Guests \cup Emails \cup Registrations
  /\ Capacities \subseteq Nat
  /\ MaxRequests \in Nat
  /\ Folded \in [Emails -> Emails]
  /\ LinkBodies \subseteq LinkBody
  /\ \A b \in LinkBodies : b.apply => b.email # None

Idle == [op |-> "idle"]

Active(g) == g \in Guests /\ guests[g].state = "active"

IsEvent(e) == events[e] \notin {None, Gone}

IsRow(i) == rows[i] \notin {None, Gone}

\* Active guests whose e-mail is spelled m, or is m but for its case.
Spelled(m) == {g \in Guests : Active(g) /\ guests[g].email = m}
SameEmail(m) ==
  {g \in Guests : Active(g) /\ guests[g].email # None /\ Folded[guests[g].email] = Folded[m]}

\* The attendees of event e that the database table t confirms.
Attendees(t, e, except) ==
  LET confirmed == {i \in Registrations \ except :
                      /\ t[i] \notin {None, Gone}
                      /\ t[i].event = e /\ t[i].status = "confirmed"}
  IN  MapThenSumSet(LAMBDA i : t[i].count, confirmed)

\* Mutant: the row that is being changed takes a seat of its own.
NewStatus_CountsItself(e, capacity, count, except) ==
  IF Attendees(rows, e, {}) + count <= capacity THEN "confirmed" ELSE "waitlisted"

NewStatus(e, capacity, count, except) ==
  IF Attendees(rows, e, except) + count <= capacity THEN "confirmed" ELSE "waitlisted"

Pair(e, g) == {i \in Registrations : IsRow(i) /\ rows[i].event = e /\ rows[i].guest = g}

WithBookingId(x) == {i \in Registrations : IsRow(i) /\ rows[i].bookingId = x}

\* What PostgreSQL keeps true of event_bookings: both unique indexes and the
\* foreign key to events.
Admits(t, es) ==
  LET there == {i \in Registrations : t[i] \notin {None, Gone}} IN
  /\ \A i \in there : es[t[i].event] \notin {None, Gone}
  /\ \A i, j \in there : i # j =>
       /\ <<t[i].event, t[i].guest>> # <<t[j].event, t[j].guest>>
       /\ t[i].bookingId = None \/ t[i].bookingId # t[j].bookingId

-----------------------------------------------------------------------------
(* Transactions                                                              *)

Begin(q, r) ==
  /\ reqs[q] = Idle
  /\ begun < MaxRequests
  /\ begun' = begun + 1
  /\ reqs' = [reqs EXCEPT ![q] = r]
  /\ UNCHANGED <<tables, clean>>

Outdated(r) == IF r = Idle THEN Idle ELSE [r EXCEPT !.fresh = FALSE]

\* Request q commits: the others in flight have read what was there before.
Commit(q) ==
  /\ reqs' = [p \in Requests |-> IF p = q THEN Idle ELSE Outdated(reqs[p])]
  /\ clean' = (clean /\ reqs[q].fresh)
  /\ Admits(rows', events')
  /\ UNCHANGED begun

\* A handler in one step.
AtOnce ==
  /\ begun < MaxRequests
  /\ begun' = begun + 1
  /\ reqs' = [p \in Requests |-> Outdated(reqs[p])]
  /\ UNCHANGED clean

Rollback(q) ==
  /\ reqs[q] # Idle
  /\ reqs' = [reqs EXCEPT ![q] = Idle]
  /\ UNCHANGED <<tables, clean, begun>>

-----------------------------------------------------------------------------
(* event.service.ts                                                          *)

createEvent(e, capacity) ==
  /\ AtOnce
  /\ events[e] = None
  /\ events' = [events EXCEPT ![e] = capacity]
  /\ UNCHANGED <<guests, rows, linked, stays>>

\* The capacity may fall below what is confirmed.
updateEvent(e, capacity) ==
  /\ AtOnce
  /\ IsEvent(e)
  /\ events' = [events EXCEPT ![e] = capacity]
  /\ UNCHANGED <<guests, rows, linked, stays>>

deleteEvent(e) ==
  /\ AtOnce
  /\ IsEvent(e)
  /\ rows' = [i \in Registrations |-> IF IsRow(i) /\ rows[i].event = e THEN Gone ELSE rows[i]]
  /\ events' = [events EXCEPT ![e] = Gone]
  /\ UNCHANGED <<guests, linked, stays>>

\* registerGuest, as POST /events/:id/book calls it: one attendee.
BeginRegister(q, e, g) ==
  /\ IsEvent(e)
  /\ Active(g)
  /\ \A i \in Pair(e, g) : rows[i].status = "cancelled"
  /\ \E i \in IF Pair(e, g) = {} THEN {None} ELSE Pair(e, g) :
       Begin(q, [op |-> "register", row |-> i, event |-> e, guest |-> g,
                 status |-> NewStatus(e, events[e], 1, {}),
                 bookingId |-> IF i = None THEN None ELSE rows[i].bookingId,
                 fresh |-> TRUE])

CommitRegister(q) ==
  LET r == reqs[q] IN
  /\ r.op = "register"
  /\ \/ /\ r.row = None
        /\ \E i \in Registrations :
             /\ rows[i] = None
             /\ rows' = [rows EXCEPT ![i] = [event |-> r.event, guest |-> r.guest,
                           status |-> r.status, count |-> 1, bookingId |-> None]]
     \/ /\ r.row # None
        /\ IsRow(r.row)
        /\ rows' = [rows EXCEPT ![r.row] =
                      [event |-> @.event, guest |-> @.guest,
                       status |-> r.status, count |-> 1, bookingId |-> r.bookingId]]
  /\ UNCHANGED <<guests, events, linked, stays>>
  /\ Commit(q)

\* cancelEventRegistration, and the operation cancel of
\* applyConversationEventAction, which finds the row by its booking id.
CancelRegistration(i) ==
  /\ AtOnce
  /\ IsRow(i)
  /\ rows[i].status # "cancelled"
  /\ rows' = [rows EXCEPT ![i].status = "cancelled"]
  /\ UNCHANGED <<guests, events, linked, stays>>

-----------------------------------------------------------------------------
(* applyConversationEventAction: move                                        *)

\* resolveEventTarget
CanTarget(t) == IF t.opens = None THEN IsEvent(t.event) ELSE events[t.event] = None
CapacityOf(t) == IF t.opens = None THEN events[t.event] ELSE t.opens
EventsWith(t) == IF t.opens = None THEN events ELSE [events EXCEPT ![t.event] = t.opens]

BeginMove(q, x, t) ==
  /\ CanTarget(t)
  /\ \E i \in WithBookingId(x) :
       Begin(q, [op |-> "move", row |-> i, to |-> t, fresh |-> TRUE,
                 status |-> NewStatus(t.event, CapacityOf(t), rows[i].count, {i})])

\* Mutant: a moved registration keeps the status it had.
CommitMove_KeepsStatus(q) ==
  LET r == reqs[q] IN
  /\ r.op = "move"
  /\ IsRow(r.row)
  /\ r.to.opens # None => events[r.to.event] = None
  /\ rows' = [rows EXCEPT ![r.row].event = r.to.event]
  /\ events' = EventsWith(r.to)
  /\ UNCHANGED <<guests, linked, stays>>
  /\ Commit(q)

CommitMove(q) ==
  LET r == reqs[q] IN
  /\ r.op = "move"
  /\ IsRow(r.row)
  /\ r.to.opens # None => events[r.to.event] = None
  /\ rows' = [rows EXCEPT ![r.row].event = r.to.event, ![r.row].status = r.status]
  /\ events' = EventsWith(r.to)
  /\ UNCHANGED <<guests, linked, stays>>
  /\ Commit(q)

-----------------------------------------------------------------------------
(* applyConversationEventAction: create_or_link                              *)

\* The guests resolveGuestForAction may settle on; one not known yet is created.
Resolved(c, b) ==
  CASE b.mode = "linked" -> {g \in {linked[c]} : Active(g)}
    [] b.mode = "existing" -> {g \in {b.guest} : Active(g)}
    [] b.mode = "create" ->
         IF b.email # None /\ SameEmail(b.email) # {}
         THEN SameEmail(b.email)
         ELSE {g \in Guests : guests[g].state = "unknown"}

\* The row to write: by booking id, else by event and guest, else a new one.
BeginCreateOrLink(q, c, b) ==
  /\ CanTarget(b.to)
  /\ \E g \in Resolved(c, b) :
       LET byId   == WithBookingId(b.bookingId)
           byPair == Pair(b.to.event, g)
           found  == IF byId # {} THEN byId ELSE byPair
       IN
       /\ b.apply => SameEmail(b.email) \subseteq {g}
       /\ \E i \in IF found = {} THEN {None} ELSE found :
            Begin(q, [op |-> "createOrLink", conversation |-> c, body |-> b,
                      guest |-> g, created |-> guests[g].state = "unknown",
                      links |-> linked[c] # g, row |-> i, byId |-> byId # {},
                      status |-> NewStatus(b.to.event, CapacityOf(b.to), b.count, {i}),
                      fresh |-> TRUE])

NewGuest(m) == [state |-> "active", email |-> m, mergedInto |-> None]

CommitCreateOrLink(q) ==
  LET r == reqs[q]
      b == r.body
  IN
  /\ r.op = "createOrLink"
  /\ b.to.opens # None => events[b.to.event] = None
  /\ r.created => guests[r.guest].state = "unknown"
  /\ guests' = [guests EXCEPT ![r.guest] =
                  LET g == IF r.created THEN NewGuest(b.email) ELSE @
                  IN  IF b.apply THEN [g EXCEPT !.email = b.email] ELSE g]
  /\ linked' = IF r.links THEN [linked EXCEPT ![r.conversation] = r.guest] ELSE linked
  /\ events' = EventsWith(b.to)
  /\ \E i \in IF r.row = None THEN {j \in Registrations : rows[j] = None}
              ELSE {j \in {r.row} : IsRow(j)} :
       LET moves == r.row = None \/ r.byId IN
       rows' = [rows EXCEPT ![i] =
         [event |-> IF moves THEN b.to.event ELSE rows[i].event,
          guest |-> IF moves THEN r.guest ELSE rows[i].guest,
          status |-> r.status, count |-> b.count, bookingId |-> b.bookingId]]
  /\ UNCHANGED stays
  /\ Commit(q)

-----------------------------------------------------------------------------
(* conversation-customer.service.ts                                          *)

BeginLinkGuest(q, c, g) ==
  /\ Active(g)
  /\ Begin(q, [op |-> "linkGuest", conversation |-> c, guest |-> g, created |-> FALSE,
               email |-> None, fresh |-> TRUE])

\* createGuestFromConversation: a guest found by e-mail is linked, not created.
BeginGuestFromConversation(q, c, m) ==
  /\ linked[c] = None
  /\ \E g \in IF m # None /\ SameEmail(m) # {} THEN SameEmail(m)
              ELSE {h \in Guests : guests[h].state = "unknown"} :
       Begin(q, [op |-> "linkGuest", conversation |-> c, guest |-> g,
                 created |-> guests[g].state = "unknown", email |-> m, fresh |-> TRUE])

CommitLinkGuest(q) ==
  LET r == reqs[q] IN
  /\ r.op = "linkGuest"
  /\ r.created => guests[r.guest].state = "unknown"
  /\ guests' = [guests EXCEPT ![r.guest] = IF r.created THEN NewGuest(r.email) ELSE @]
  /\ linked' = [linked EXCEPT ![r.conversation] = r.guest]
  /\ UNCHANGED <<events, rows, stays>>
  /\ Commit(q)

-----------------------------------------------------------------------------
(* guest.service.ts                                                          *)

BeginCreateGuest(q, m) ==
  /\ m # None => Spelled(m) = {}
  /\ Begin(q, [op |-> "createGuest", email |-> m, fresh |-> TRUE])

CommitCreateGuest(q) ==
  /\ reqs[q].op = "createGuest"
  /\ \E g \in Guests :
       /\ guests[g].state = "unknown"
       /\ guests' = [guests EXCEPT ![g] = NewGuest(reqs[q].email)]
  /\ UNCHANGED <<events, rows, linked, stays>>
  /\ Commit(q)

BeginUpdateGuest(q, g, m) ==
  /\ Active(g)
  /\ guests[g].email # m => Spelled(m) \subseteq {g}
  /\ Begin(q, [op |-> "updateGuest", guest |-> g, email |-> m, fresh |-> TRUE])

CommitUpdateGuest(q) ==
  LET r == reqs[q] IN
  /\ r.op = "updateGuest"
  /\ guests' = [guests EXCEPT ![r.guest].email = r.email]
  /\ UNCHANGED <<events, rows, linked, stays>>
  /\ Commit(q)

deleteGuest(g) ==
  /\ AtOnce
  /\ Active(g)
  /\ guests' = [guests EXCEPT ![g].state = "deleted"]
  /\ UNCHANGED <<events, rows, linked, stays>>

BeginMerge(q, primary, secondary) ==
  /\ primary # secondary
  /\ Active(primary)
  /\ Active(secondary)
  /\ Begin(q, [op |-> "merge", primary |-> primary, secondary |-> secondary, fresh |-> TRUE])

\* What a guest id becomes.
Moved(g, r) == IF g = r.secondary THEN r.primary ELSE g

\* Mutant: the rows of booking_guests stay with the secondary guest.
MovedStay_ColumnOnly(s, r) == [s EXCEPT !.guest = Moved(@, r)]

MovedStay(s, r) == [guest |-> Moved(s.guest, r), party |-> {Moved(g, r) : g \in s.party}]

\* Mutant: conversations stay with the secondary guest.
CommitMerge_KeepsConversations(q) ==
  LET r == reqs[q] IN
  /\ r.op = "merge"
  /\ stays' = [s \in Stays |-> MovedStay(stays[s], r)]
  /\ rows' = [i \in Registrations |->
                IF IsRow(i) THEN [rows[i] EXCEPT !.guest = Moved(@, r)] ELSE rows[i]]
  /\ guests' = [guests EXCEPT ![r.secondary].state = "deleted",
                              ![r.secondary].mergedInto = r.primary]
  /\ UNCHANGED <<events, linked>>
  /\ Commit(q)

CommitMerge(q) ==
  LET r == reqs[q] IN
  /\ r.op = "merge"
  /\ stays' = [s \in Stays |-> MovedStay(stays[s], r)]
  /\ linked' = [c \in Conversations |-> Moved(linked[c], r)]
  /\ rows' = [i \in Registrations |->
                IF IsRow(i) THEN [rows[i] EXCEPT !.guest = Moved(@, r)] ELSE rows[i]]
  /\ guests' = [guests EXCEPT ![r.secondary].state = "deleted",
                              ![r.secondary].mergedInto = r.primary]
  /\ UNCHANGED events
  /\ Commit(q)

-----------------------------------------------------------------------------

\* Some guests are known, some events are planned, nobody is registered.
Init ==
  /\ guests \in [Guests -> {NewGuest(m) : m \in Emails \cup {None}}
                             \cup {[NewGuest(None) EXCEPT !.state = "unknown"]}]
  /\ \A g, h \in Guests : g # h /\ guests[g].email # None => guests[g].email # guests[h].email
  /\ events \in [Events -> Capacities \cup {None}]
  /\ rows = [i \in Registrations |-> None]
  /\ linked = [c \in Conversations |-> None]
  /\ stays \in [Stays -> {s \in Stay : s.guest \in s.party /\ \A g \in s.party : Active(g)}]
  /\ reqs = [q \in Requests |-> Idle]
  /\ clean = TRUE
  /\ begun = 0

EventSteps ==
  \/ \E e \in Events, capacity \in Capacities : createEvent(e, capacity)
  \/ \E e \in Events, capacity \in Capacities : updateEvent(e, capacity)
  \/ \E e \in Events : deleteEvent(e)
  \/ \E i \in Registrations : CancelRegistration(i)

GuestSteps == \E g \in Guests : deleteGuest(g)

Reading(q) ==
  \/ \E e \in Events, g \in Guests : BeginRegister(q, e, g)
  \/ \E x \in BookingIds, t \in Target : BeginMove(q, x, t)
  \/ \E c \in Conversations, b \in LinkBodies : BeginCreateOrLink(q, c, b)
  \/ \E c \in Conversations, g \in Guests : BeginLinkGuest(q, c, g)
  \/ \E c \in Conversations, m \in Emails \cup {None} : BeginGuestFromConversation(q, c, m)
  \/ \E m \in Emails \cup {None} : BeginCreateGuest(q, m)
  \/ \E g \in Guests, m \in Emails : BeginUpdateGuest(q, g, m)
  \/ \E g, h \in Guests : BeginMerge(q, g, h)

Writing(q) ==
  \/ CommitRegister(q)
  \/ CommitMove(q)
  \/ CommitCreateOrLink(q)
  \/ CommitLinkGuest(q)
  \/ CommitCreateGuest(q)
  \/ CommitUpdateGuest(q)
  \/ CommitMerge(q)
  \/ Rollback(q)

Next ==
  \/ EventSteps
  \/ GuestSteps
  \/ \E q \in Requests : Reading(q) \/ Writing(q)

Spec == Init /\ [][Next]_vars

-----------------------------------------------------------------------------
(* What the handlers promise                                                 *)

\* The tables hold values of their types.
TypeOK ==
  /\ guests \in [Guests -> Guest]
  /\ events \in [Events -> Capacities \cup {None, Gone}]
  /\ rows \in [Registrations -> Row \cup {None, Gone}]
  /\ linked \in [Conversations -> Guests \cup {None}]
  /\ stays \in [Stays -> Stay]
  /\ clean \in BOOLEAN
  /\ begun \in 0..MaxRequests

\* A request commits that has read what it overwrites.
FreshCommit == \E q \in Requests : reqs[q] # Idle /\ reqs'[q] = Idle /\ reqs[q].fresh

\* The registrations change hands only.
Merging == \E g \in Guests : guests'[g].mergedInto # guests[g].mergedInto

\* A request nobody committed under takes seats of an event only within the
\* event's capacity, counted in attendees (registerGuest, create_or_link and
\* move; a capacity lowered later may leave more confirmed than fit).
SeatsWithinCapacity ==
  [][FreshCommit =>
       \A e \in Events :
         Attendees(rows', e, {}) > Attendees(rows, e, {}) =>
           Attendees(rows', e, {}) <= events'[e]]_vars

\* A request nobody committed under puts a guest on the waiting list only if
\* the seats asked for are not free, those of the same registration included.
WaitlistedOnlyWhenFull ==
  [][FreshCommit /\ ~Merging =>
       \A i \in Registrations :
         /\ rows'[i] # rows[i] /\ rows'[i] \notin {None, Gone}
         /\ rows'[i].status = "waitlisted"
         => Attendees(rows', rows'[i].event, {}) + rows'[i].count > events'[rows'[i].event]]_vars

\* After mergeGuests nothing belongs to the guest merged away: no booking, no
\* place in a party, no registration, no conversation; and no handler gives it
\* anything later, so long as none acts on data read before the merge.
MergedGuestOwnsNothing ==
  clean => \A g \in Guests : guests[g].mergedInto # None =>
    /\ \A s \in Stays : g # stays[s].guest /\ g \notin stays[s].party
    /\ \A i \in Registrations : IsRow(i) => rows[i].guest # g
    /\ \A c \in Conversations : linked[c] # g

\* Merging again what was merged never closes a circle: a guest merged away
\* leads to one that was not, so long as no merge acts on old data.
MergesHaveAnEnd ==
  clean => \A circle \in SUBSET Guests :
    circle # {} => \E g \in circle : guests[g].mergedInto \notin circle

\* Active guests are told apart by their e-mail as it is spelled, so long as
\* no two requests looked for the same address at the same time.
EmailsDiffer ==
  clean => \A g, h \in Guests :
    Active(g) /\ Active(h) /\ g # h /\ guests[g].email # None =>
      guests[g].email # guests[h].email

\* The guest of a booking is of its party, whatever merges do and in any order.
GuestInParty == \A s \in Stays : stays[s].guest \in stays[s].party

\* The tables hold values of their types, bookings stay whole, guests are told
\* apart and lead to one that was not merged away.
Inv == TypeOK /\ GuestInParty /\ MergesHaveAnEnd /\ EmailsDiffer

-----------------------------------------------------------------------------
(* What these invariants rest on                                             *)

\* What a request in flight can remember.
RequestType ==
  {Idle}
  \cup [op: {"register"}, row: Registrations \cup {None}, event: Events, guest: Guests,
        status: {"confirmed", "waitlisted"}, bookingId: BookingIds \cup {None}, fresh: BOOLEAN]
  \cup [op: {"move"}, row: Registrations, to: Target, fresh: BOOLEAN,
        status: {"confirmed", "waitlisted"}]
  \cup [op: {"createOrLink"}, conversation: Conversations, body: LinkBodies, guest: Guests,
        created: BOOLEAN, links: BOOLEAN, row: Registrations \cup {None}, byId: BOOLEAN,
        status: {"confirmed", "waitlisted"}, fresh: BOOLEAN]
  \cup [op: {"linkGuest"}, conversation: Conversations, guest: Guests, created: BOOLEAN,
        email: Emails \cup {None}, fresh: BOOLEAN]
  \cup [op: {"createGuest"}, email: Emails \cup {None}, fresh: BOOLEAN]
  \cup [op: {"updateGuest"}, guest: Guests, email: Emails, fresh: BOOLEAN]
  \cup [op: {"merge"}, primary: Guests, secondary: Guests, fresh: BOOLEAN]

\* A guest that is created has an address nobody else has; one that is found
\* is there.
FoundOrNew(g, created, m) ==
  IF created THEN m # None => SameEmail(m) = {} ELSE Active(g)

\* What request r read about guests is still so.
StillSo(r) ==
  /\ r.op = "register" => Active(r.guest)
  /\ r.op = "createOrLink" =>
       /\ FoundOrNew(r.guest, r.created, r.body.email)
       /\ r.body.apply => SameEmail(r.body.email) \subseteq {r.guest}
  /\ r.op = "linkGuest" => FoundOrNew(r.guest, r.created, r.email)
  /\ r.op = "createGuest" /\ r.email # None => Spelled(r.email) = {}
  /\ r.op = "updateGuest" =>
       /\ Active(r.guest)
       /\ guests[r.guest].email # r.email => Spelled(r.email) \subseteq {r.guest}
  /\ r.op = "merge" => r.primary # r.secondary /\ Active(r.primary) /\ Active(r.secondary)

\* Nobody committed under a fresh request: what it read is still so.
FreshReadsHold == \A q \in Requests : reqs[q] # Idle /\ reqs[q].fresh => StillSo(reqs[q])

\* Only a deleted guest was merged away, and no handler revives one.
MergedAreDeleted == \A g \in Guests : guests[g].mergedInto # None => guests[g].state = "deleted"

\* What Inv and MergedGuestOwnsNothing say, and what keeps it so; it ties what
\* a request remembers of the guests to the tables it read.
GuestsInv ==
  /\ Inv
  /\ reqs \in [Requests -> RequestType]
  /\ FreshReadsHold
  /\ MergedAreDeleted
  /\ MergedGuestOwnsNothing

\* The status request r decided on is still the one the seats allow: those of
\* other registrations, and the capacity, are as it counted them.
SeatsSo(r) ==
  /\ r.op = "register" =>
       /\ IsEvent(r.event)
       /\ r.status = NewStatus(r.event, events[r.event], 1, {})
       /\ r.row # None =>
            IsRow(r.row) /\ rows[r.row].event = r.event /\ rows[r.row].status = "cancelled"
  /\ r.op = "move" =>
       /\ IsRow(r.row) /\ CanTarget(r.to)
       /\ r.status = NewStatus(r.to.event, CapacityOf(r.to), rows[r.row].count, {r.row})
  /\ r.op = "createOrLink" =>
       /\ CanTarget(r.body.to)
       /\ r.status = NewStatus(r.body.to.event, CapacityOf(r.body.to), r.body.count, {r.row})
       /\ r.row # None /\ ~r.byId => IsRow(r.row) /\ rows[r.row].event = r.body.to.event

FreshSeatsHold == \A q \in Requests : reqs[q] # Idle /\ reqs[q].fresh => SeatsSo(reqs[q])

\* At any time there are finitely many registrations, so they can be counted.
RowsFinite == IsFiniteSet({i \in Registrations : IsRow(i)})

\* The inductive invariant.
IInv == GuestsInv /\ FreshSeatsHold /\ RowsFinite

==============================================================================
