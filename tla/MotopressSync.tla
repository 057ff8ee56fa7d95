---------------------------- MODULE MotopressSync ----------------------------
(***************************************************************************)
(* The push of a booking to MotoPress, the reservation system of the web    *)
(* site: POST /bookings/:id/sync/motopress (booking-sync.service.ts).  A    *)
(* push reads the booking, creates or patches the remote one and stores its *)
(* id in a transaction of its own; the client gives an answer 15 s.  The    *)
(* remote system is external: it may do what it was asked although its      *)
(* answer is lost or cannot be read, and do it late.                        *)
(*                                                                         *)
(* The content of a booking is a version number.  Cancelling hides a        *)
(* booking (booking.service.ts), so no push finds it any more.              *)
(***************************************************************************)
EXTENDS Naturals, Sequences

CONSTANTS
  Bookings,        \* ids of bookings, in rooms of one type
  Accommodations,  \* ids the external mapping of their room may name
  Pushes,          \* pushes that can be in flight at the same time
  MaxVersion,      \* bound on the edits of a booking
  MaxPushes,       \* bound on the pushes
  NoPush,          \* no push
  Unmapped         \* a room without a mapping

VARIABLES
  bookings,  \* the columns of "bookings" a push reads and writes
  mapping,   \* the external accommodation of the room
  remote,    \* the bookings of MotoPress; the id of one is its place
  pushes,    \* what each push in flight remembers
  late,      \* requests nobody waits for that MotoPress may still carry out
  pushesBegun,  \* how many pushes there were
  astray     \* bookings with two pushes at a time, or a push whose outcome
             \* the backend did not get to know or to store (history)

pushVars == <<bookings, mapping, remote, pushes, late, pushesBegun, astray>>

\* external: the remote id, 0 for a null.  read: what the push that stored the
\* row last had read (history).
Body == [version : 1..MaxVersion, accommodation : Accommodations]
Booking == [version : 1..MaxVersion, gone : BOOLEAN, external : Nat,
            sync : {"pending", "synced", "failed"}, read : {{}} \cup {{c} : c \in Body}]
PushRequest == [booking : Bookings, id : Nat, body : Body]
Push == [step : {"sent", "threw"}, request : PushRequest]
          \cup [step : {"answered"}, request : PushRequest, id : Nat \ {0}]

PushParameters ==
  /\ MaxVersion \in Nat \ {0} /\ MaxPushes \in Nat
  /\ NoPush \notin Push
ASSUME PushAssumption == PushParameters

RemoteOf(b) == {i \in DOMAIN remote : remote[i].booking = b}
InFlight(b) == {p \in Pushes : pushes[p] # NoPush /\ pushes[p].request.booking = b}
PushAt(p, s) == pushes[p] # NoPush /\ pushes[p].step = s

PushInit ==
  /\ bookings = [b \in Bookings |->
                   [version |-> 1, gone |-> FALSE, external |-> 0, sync |-> "pending", read |-> {}]]
  /\ mapping = Unmapped
  /\ remote = <<>>
  /\ pushes = [p \in Pushes |-> NoPush]
  /\ late = {}
  /\ pushesBegun = 0
  /\ astray = {}

-----------------------------------------------------------------------------
(* What others do to the tables                                             *)

\* updateBooking leaves the columns of the push alone.
Edit(b) ==
  /\ ~bookings[b].gone
  /\ bookings[b].version < MaxVersion
  /\ bookings' = [bookings EXCEPT ![b].version = @ + 1]
  /\ UNCHANGED <<mapping, remote, pushes, late, pushesBegun, astray>>

\* cancelBooking, and updateBooking to cancelled.
Cancel(b) ==
  /\ ~bookings[b].gone
  /\ bookings' = [bookings EXCEPT ![b].gone = TRUE]
  /\ UNCHANGED <<mapping, remote, pushes, late, pushesBegun, astray>>

Map(a) ==
  /\ mapping # a
  /\ mapping' = a
  /\ UNCHANGED <<bookings, remote, pushes, late, pushesBegun, astray>>

-----------------------------------------------------------------------------
(* syncBookingToMotopress                                                   *)

\* The id that decides between a creation and a patch is read here.
BeginPush(p, b) ==
  /\ pushes[p] = NoPush /\ pushesBegun < MaxPushes
  /\ ~bookings[b].gone /\ mapping # Unmapped
  /\ pushes' = [pushes EXCEPT ![p] =
       [step |-> "sent",
        request |-> [booking |-> b, id |-> bookings[b].external,
                     body |-> [version |-> bookings[b].version, accommodation |-> mapping]]]]
  /\ pushesBegun' = pushesBegun + 1
  /\ astray' = IF InFlight(b) # {} THEN astray \cup {b} ELSE astray
  /\ UNCHANGED <<bookings, mapping, remote, late>>

\* MotoPress: a POST makes a booking, a PATCH overwrites one.
Done(r) ==
  LET now == [booking |-> r.booking, body |-> r.body] IN
  remote' = IF r.id = 0 THEN Append(remote, now) ELSE [remote EXCEPT ![r.id] = now]

PushAnswered(p) ==
  /\ PushAt(p, "sent")
  /\ LET r == pushes[p].request IN
     /\ Done(r)
     /\ pushes' = [pushes EXCEPT ![p] =
          [step |-> "answered", request |-> r, id |-> IF r.id = 0 THEN Len(remote) + 1 ELSE r.id]]
  /\ UNCHANGED <<bookings, mapping, late, pushesBegun, astray>>

\* An error status: MotoPress did nothing.
PushRefused(p) ==
  /\ PushAt(p, "sent")
  /\ pushes' = [pushes EXCEPT ![p].step = "threw"]
  /\ UNCHANGED <<bookings, mapping, remote, late, pushesBegun, astray>>

\* The timeout, or an answer that does not parse: it may have, or may yet.
PushTimedOut(p) ==
  /\ PushAt(p, "sent")
  /\ pushes' = [pushes EXCEPT ![p].step = "threw"]
  /\ late' = late \cup {pushes[p].request}
  /\ astray' = astray \cup {pushes[p].request.booking}
  /\ UNCHANGED <<bookings, mapping, remote, pushesBegun>>

Late(r) ==
  /\ r \in late
  /\ Done(r)
  /\ late' = late \ {r}
  /\ UNCHANGED <<bookings, mapping, pushes, pushesBegun, astray>>

\* Mutant: the id of a booking that was created is not stored.
Synced_NoId(row, push) == [row EXCEPT !.sync = "synced", !.read = {push.request.body}]

\* What the transaction after the answer writes.
Synced(row, push) ==
  [row EXCEPT !.external = push.id, !.sync = "synced", !.read = {push.request.body}]

CommitPush(p) ==
  /\ PushAt(p, "answered")
  /\ bookings' = [bookings EXCEPT ![pushes[p].request.booking] = Synced(@, pushes[p])]
  /\ pushes' = [pushes EXCEPT ![p] = NoPush]
  /\ UNCHANGED <<mapping, remote, late, pushesBegun, astray>>

\* That transaction fails: the catch treats it as a failure of the push.
CommitPushFails(p) ==
  /\ PushAt(p, "answered")
  /\ pushes' = [pushes EXCEPT ![p] = [step |-> "threw", request |-> pushes[p].request]]
  /\ astray' = astray \cup {pushes[p].request.booking}
  /\ UNCHANGED <<bookings, mapping, remote, late, pushesBegun>>

\* The catch: it does not touch the id.
FailPush(p) ==
  /\ PushAt(p, "threw")
  /\ bookings' = [bookings EXCEPT ![pushes[p].request.booking].sync = "failed"]
  /\ pushes' = [pushes EXCEPT ![p] = NoPush]
  /\ UNCHANGED <<mapping, remote, late, pushesBegun, astray>>

\* The write of the catch fails too, or the process dies at any point.
AbandonPush(p) ==
  /\ pushes[p] # NoPush
  /\ pushes' = [pushes EXCEPT ![p] = NoPush]
  /\ late' = IF PushAt(p, "sent") THEN late \cup {pushes[p].request} ELSE late
  /\ astray' = astray \cup {pushes[p].request.booking}
  /\ UNCHANGED <<bookings, mapping, remote, pushesBegun>>

-----------------------------------------------------------------------------
PushNext ==
  \/ \E b \in Bookings : Edit(b) \/ Cancel(b)
  \/ \E a \in Accommodations \cup {Unmapped} : Map(a)
  \/ \E p \in Pushes :
       \/ \E b \in Bookings : BeginPush(p, b)
       \/ PushAnswered(p) \/ PushRefused(p) \/ PushTimedOut(p)
       \/ CommitPush(p) \/ CommitPushFails(p) \/ FailPush(p) \/ AbandonPush(p)
  \/ \E r \in late : Late(r)

PushSpec == PushInit /\ [][PushNext]_pushVars

-----------------------------------------------------------------------------
(* Properties                                                               *)

PushTypeOK ==
  /\ bookings \in [Bookings -> Booking]
  /\ mapping \in Accommodations \cup {Unmapped}
  /\ remote \in Seq([booking : Bookings, body : Body])
  /\ pushes \in [Pushes -> Push \cup {NoPush}]
  /\ late \subseteq PushRequest
  /\ pushesBegun \in 0..MaxPushes
  /\ astray \subseteq Bookings

\* docs/integrations/motopress-plan.md:105, "Create in PYR creates exactly one
\* MotoPress booking": pushed again and again, edited and failed in between, a
\* booking has one, unless two pushes met or the backend lost sight of an
\* outcome; and the id of a booking is that of a remote booking made for it
\* (booking-sync.service.ts:56-100).
OneRemoteBooking ==
  \A b \in Bookings :
    /\ b \notin astray => \A i, k \in RemoteOf(b) : i = k
    /\ bookings[b].external # 0 => bookings[b].external \in RemoteOf(b)

\* A row that says synced is about a remote booking with the content its push
\* had read, under the same condition and while no other push is on its way
\* (booking-sync.service.ts:98-126).  The booking may have been edited since.
SyncedIsShown ==
  \A b \in Bookings \ astray :
    bookings[b].sync = "synced" /\ InFlight(b) = {} =>
      /\ bookings[b].external # 0
      /\ bookings[b].read = {remote[bookings[b].external].body}

\* Each booking has one remote booking, with the content last pushed
\* (booking-sync.service.ts:23-165).
PushSound == PushTypeOK /\ OneRemoteBooking /\ SyncedIsShown

-----------------------------------------------------------------------------
(* What PushSound rests on                                                  *)

\* Every remote id that is stored, asked for or answered is that of a remote
\* booking made for the same booking.
IdsAreTrue ==
  /\ \A b \in Bookings : bookings[b].external \in {0} \cup RemoteOf(b)
  /\ \A r \in late : r.id \in {0} \cup RemoteOf(r.booking)
  /\ \A p \in Pushes :
       /\ pushes[p] # NoPush =>
            pushes[p].request.id \in {0} \cup RemoteOf(pushes[p].request.booking)
       /\ PushAt(p, "answered") => pushes[p].id \in RemoteOf(pushes[p].request.booking)

\* b has one push at a time, which nothing but itself outdates: the id it read
\* is still stored.
Alone(b) ==
  /\ \A p, q \in InFlight(b) : p = q
  /\ \A p \in InFlight(b) : pushes[p].request.id = bookings[b].external
  /\ \A r \in late : r.booking # b

\* The pushes of b that have their answer, whose id and content they can store.
InHand(b) == {p \in InFlight(b) : PushAt(p, "answered")}

\* b has one remote booking, and the push that made or changed it and has not
\* stored so yet has the answer in hand.
Followed(b) ==
  /\ \A i, k \in RemoteOf(b) : i = k
  /\ bookings[b].external = 0 /\ RemoteOf(b) # {} => InHand(b) # {}
  /\ \A p \in InHand(b) : pushes[p].request.body = remote[pushes[p].id].body
  /\ bookings[b].sync = "synced" =>
       /\ bookings[b].external # 0
       /\ InHand(b) = {} => bookings[b].read = {remote[bookings[b].external].body}

\* The inductive invariant.
PushIInv ==
  /\ PushTypeOK /\ IdsAreTrue
  /\ \A b \in Bookings \ astray : Alone(b) /\ Followed(b)
==============================================================================
