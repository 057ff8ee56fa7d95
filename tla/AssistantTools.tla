---------------------------- MODULE AssistantTools ----------------------------
(***************************************************************************)
(* The tools the assistant's agent calls, and what they ask of the backend: *)
(* packages/assistant/openclaw-plugin/tools.  A tool either reads, writes   *)
(* at once, or stores an action that confirm_action turns into a request    *)
(* (ActionConfirmation says when it may).                                   *)
(*                                                                         *)
(* The agent fills the parameters in as their descriptions ask, and as it   *)
(* likes where they ask for nothing in particular; what the backend then    *)
(* answers a lookup with is chosen here.                                    *)
(***************************************************************************)
EXTENDS RestApi, Naturals

CONSTANT NoCall

VARIABLES
  pending,  \* the stored action: its type and payload
  request,  \* the last request that writes, and whether Ines confirmed it
  reply     \* what the last tool told the agent

vars == <<pending, request, reply>>

Init == pending = NoCall /\ request = NoCall /\ reply = "idle"

-----------------------------------------------------------------------------
\* The agent starts a tool when the one before is over.
Ready == reply = "idle"

Refuses == reply' = "error" /\ UNCHANGED <<pending, request>>
NoChange == reply' = "unchanged" /\ UNCHANGED <<pending, request>>

storePendingAction(type, payload) ==
  /\ pending' = [type |-> type, payload |-> payload]
  /\ reply' = "prepared"
  /\ UNCHANGED request

\* The tool a write of the plugin is shown as while it runs; routes the table
\* does not list show nothing.  The names are without their "prepare_".
inferToolName(method, path) ==
  LET shown ==
        <<"POST", "/guests/merge">> :> "merge_guests"
        @@ <<"PATCH", "/guests/:id">> :> "update_guest"
        @@ <<"DELETE", "/guests/:id">> :> "delete_guest" @@ <<"POST", "/guests">> :> "create_guest"
        @@ <<"PATCH", "/bookings/:id">> :> "update_booking"
        @@ <<"DELETE", "/bookings/:id">> :> "cancel_booking"
        @@ <<"POST", "/bookings">> :> "create_booking"
        @@ <<"POST", "/events/:id/registrations/:registrationId/cancel">>
             :> "cancel_event_registration"
        @@ <<"POST", "/events/:id/book">> :> "register_guest_for_event"
        @@ <<"PATCH", "/events/:id">> :> "update_event"
        @@ <<"DELETE", "/events/:id">> :> "delete_event"
        @@ <<"POST", "/events">> :> "create_event"
        @@ <<"PATCH", "/conversations/:id">> :> "update_conversation"
        @@ <<"PUT", "/settings/:key">> :> "update_setting"
        @@ <<"POST", "/conversations/:id/approve">> :> "approve_draft"
  IN IF <<method, path>> \in DOMAIN shown THEN shown[<<method, path>>] ELSE "nothing"

\* The client throws unless the answer is 2xx.
Sends(method, path, body, tool, confirmed) ==
  /\ request' = [method |-> method, path |-> path, body |-> body, tool |-> tool,
                 shown |-> inferToolName(method, path), confirmed |-> confirmed]
  /\ reply' = IF Taken(method, path, body) THEN "done" ELSE "failed"

Direct(tool, method, path, body) ==
  Sends(method, path, body, tool, FALSE) /\ UNCHANGED pending

\* The parameters of kinds that the agent gives: the ones it must and some others.
Given(kinds, must) == {[p \in must \cup S |-> kinds[p]] : S \in SUBSET (DOMAIN kinds \ must)}

\* What differs from the stored record; nothing of it may.
Changes(given) == {[p \in S |-> given[p]] : S \in SUBSET DOMAIN given}

Empty == [f \in {} |-> "null"]

-----------------------------------------------------------------------------
(* Guests                                                                   *)

PrepareCreateGuest ==
  \E lang \in {"en", "de", "other"} :
  \E p \in Given([name |-> "text", email |-> "email", phone |-> "text", source |-> "text",
                  dietaryNeeds |-> "text", notes |-> "text"], {"name"}) :
    IF {"email", "phone"} \cap DOMAIN p = {} THEN Refuses
    ELSE storePendingAction("create_guest",
           p @@ [language |-> IF lang = "de" THEN "de" ELSE "en"])

PrepareUpdateGuest ==
  \E lang \in Languages :
  \E p \in Given([name |-> "text", email |-> "email", phone |-> "text", language |-> lang,
                  dietaryNeeds |-> "text", source |-> "text", tags |-> "list",
                  notes |-> "text"], {}) :
  \E changes \in Changes(p) :
    IF changes = Empty THEN NoChange
    ELSE storePendingAction("update_guest", changes @@ [guestId |-> "id"])

PrepareDeleteGuest ==
  \E exists \in BOOLEAN :
    IF exists THEN storePendingAction("delete_guest", [guestId |-> "id"]) ELSE Refuses

PrepareMergeGuests ==
  \E primary, secondary \in BOOLEAN :
    IF ~primary \/ ~secondary THEN Refuses
    ELSE storePendingAction("merge_guests", [primaryId |-> "id", secondaryId |-> "id"])

-----------------------------------------------------------------------------
(* Bookings and payments                                                    *)

\* rooms: those free on the dates; wanted: whether one is of the type asked for.
PrepareCreateBooking ==
  \E names \in 0..2, unknown \in BOOLEAN, rooms, wanted \in BOOLEAN :
  \E status \in {"given", "absent", "inquiry"},
     p \in Given([roomType |-> "text", notes |-> "text"], {}) :
    IF names = 0 \/ unknown \/ ~rooms \/ ("roomType" \in DOMAIN p /\ ~wanted) THEN Refuses
    ELSE storePendingAction("create_booking",
           [guestIds |-> "list", roomId |-> "id", checkIn |-> "date", checkOut |-> "date",
            totalPrice |-> "int", source |-> "text",
            status |-> IF status = "inquiry" THEN "inquiry" ELSE "confirmed",
            notes |-> IF "notes" \in DOMAIN p THEN "text" ELSE "null"])

PrepareUpdateBooking ==
  \E status \in BookingStatuses :
  \E p \in Given([roomId |-> "id", checkIn |-> "date", checkOut |-> "date", status |-> status,
                  totalPrice |-> "int", source |-> "text", notes |-> "text"], {}) :
  \E changes \in Changes(p) :
    IF changes = Empty THEN NoChange
    ELSE storePendingAction("update_booking", changes @@ [bookingId |-> "id"])

PrepareCancelBooking ==
  \E exists \in BOOLEAN :
    IF exists THEN storePendingAction("cancel_booking", [bookingId |-> "id"]) ELSE Refuses

\* Euros become cents; a missing date or note is stored as null.
PrepareLogPayment ==
  \E method \in Methods \cup {"card"}, date \in {"date", "null"}, notes \in {"text", "null"} :
    IF method \notin Methods THEN Refuses
    ELSE storePendingAction("log_payment",
           [bookingId |-> "id", amount |-> "int", method |-> method, date |-> date,
            notes |-> notes])

-----------------------------------------------------------------------------
(* Events and registrations                                                 *)

\* The tools offer every type of event but retreats.
validTypes == EventTypes \ {"retreat"}

PrepareCreateEvent ==
  \E type \in validTypes \cup {"other"}, location, description \in {"text", "null"} :
    IF type \notin validTypes THEN Refuses
    ELSE storePendingAction("create_event",
           [type |-> type, title |-> "text", date |-> "date", time |-> "time",
            capacity |-> "int", location |-> location, description |-> description])

PrepareUpdateEvent ==
  \E type \in validTypes \cup {"other"} :
  \E p \in Given([type |-> type, title |-> "text", date |-> "date", time |-> "time",
                  capacity |-> "int", location |-> "text", description |-> "text"], {}) :
    IF "type" \in DOMAIN p /\ type \notin validTypes THEN Refuses
    ELSE \E changes \in Changes(p) :
           IF changes = Empty THEN NoChange
           ELSE storePendingAction("update_event", changes @@ [eventId |-> "id"])

PrepareDeleteEvent ==
  \E exists \in BOOLEAN :
    IF exists THEN storePendingAction("delete_event", [eventId |-> "id"]) ELSE Refuses

\* A full event is warned of, and prepared.
PrepareRegisterGuest ==
  \E guests \in 0..2, event \in BOOLEAN :
    IF guests = 0 \/ ~event THEN Refuses
    ELSE storePendingAction("register_guest_for_event", [eventId |-> "id", guestId |-> "id"])

\* An exact name counts before a name that only contains the one asked for.
findMatchingRegistrations(exact, containing) == IF exact > 0 THEN exact ELSE containing

PrepareCancelEventRegistration ==
  \E byId, byName, gone \in BOOLEAN, exact, containing \in 0..2 :
    LET found == IF byId THEN IF exact > 0 THEN 1 ELSE 0
                 ELSE findMatchingRegistrations(exact, containing)
    IN IF ~(byId \/ byName) \/ found # 1 THEN Refuses
       ELSE IF gone THEN NoChange
       ELSE storePendingAction("cancel_event_registration",
              [eventId |-> "id", registrationId |-> "id", guestName |-> "text",
               eventTitle |-> "text"])

-----------------------------------------------------------------------------
(* Conversations, drafts and settings                                       *)

\* The API has no status "archived", and its classes are not any label.
OfferedStatuses == ConversationStatuses \cup {"archived"}

UpdateConversation ==
  \E status \in OfferedStatuses, label \in {"conversation", "text"} :
  \E p \in Given([status |-> status, classification |-> label], {}) :
    IF p = Empty THEN Refuses ELSE Direct("update_conversation", "PATCH", "/conversations/:id", p)

AnalyzeConversationBooking ==
  Direct("analyze_conversation_booking", "POST", "/conversations/:id/booking-analysis", Empty)

\* The description names no field of the payload: it is the agent's own.
FreeGuests ==
  UNION {Given("guest.mode" :> mode @@ "guest.guestId" :> "id" @@ "guest.email" :> email, {}) :
           mode \in Modes \cup {"other"}, email \in {"email", "text"}}
FreeStays ==
  UNION {Given("booking.roomId" :> "id" @@ "booking.checkIn" :> day @@ "booking.checkOut" :> day
                 @@ "booking.totalPrice" :> price @@ "booking.status" :> status
                 @@ "booking.other" :> "text", {}) :
           day \in {"date", "text"}, price \in {"int", "fraction"},
           status \in NewBookingStatuses \cup {"other"}}

\* Only the room and the dates are looked at.  The mode of the guest is read for
\* the preview when the action is stored, so that one without a guest is stored
\* behind an error, and nobody learns its id.
CreateConversationBooking ==
  \E guest \in FreeGuests, stay \in FreeStays :
    IF ~({"booking.roomId", "booking.checkIn", "booking.checkOut"} \subseteq DOMAIN stay)
    THEN Refuses
    ELSE /\ pending' = [type |-> "create_conversation_booking",
                        payload |-> guest @@ stay @@ "conversationId" :> "id"]
         /\ reply' \in IF guest = Empty THEN {"prepared", "error"} ELSE {"prepared"}
         /\ UNCHANGED request

GenerateConversationDraft ==
  Direct("generate_conversation_draft", "POST", "/conversations/:id/drafts/generate", Empty)
RegenerateDraft ==
  Direct("regenerate_draft", "POST", "/conversations/:id/drafts/:draftId/regenerate", Empty)
RejectDraft ==
  Direct("reject_draft", "POST", "/conversations/:id/drafts/:draftId/reject", Empty)

ApproveDraft ==
  \E edited \in BOOLEAN :
    storePendingAction("approve_draft",
      IF edited THEN [conversationId |-> "id", draftId |-> "id", content |-> "text"]
      ELSE [conversationId |-> "id", draftId |-> "id"])

WritableKeys ==
  {"business_name", "business_timezone", "email_signature", "email_poll_interval",
   "ai_default_model", "morning_briefing_time"}

UpdateSetting ==
  \E key \in WritableKeys \cup {"other"} :
    IF key \notin WritableKeys THEN Refuses
    ELSE Direct("update_setting", "POST", "/settings", [key |-> "text", value |-> "text"])

UpdateBriefingTime ==
  \E time \in {"time", "short", "text"} :
    IF time # "time" THEN Refuses
    ELSE Direct("update_briefing_time", "POST", "/settings", [key |-> "text", value |-> "time"])

-----------------------------------------------------------------------------
(* The tools that only read                                                 *)

\* The client asks for twenty of everything that sets no limit of its own.
Asks(path, query) ==
  /\ request' = [method |-> "GET", path |-> path, body |-> query @@ [limit |-> "int"],
                 tool |-> "read", shown |-> "nothing", confirmed |-> FALSE]
  /\ reply' = "done"
  /\ UNCHANGED pending

ReadGuests == \E query \in {Empty, [search |-> "text"]} : Asks("/guests", query)
ReadBookings ==
  \E status \in BookingStatuses :
  \E query \in Given([status |-> status, from |-> "date", to |-> "date"], {}) :
    Asks("/bookings", query)
ReadEvents == \E query \in Given([from |-> "date", to |-> "date"], {}) : Asks("/events", query)
ReadConversations ==
  \E status \in OfferedStatuses : \E query \in Given([status |-> status], {}) :
    Asks("/conversations", query)
ReadPendingDrafts == Asks("/conversations", [status |-> "open"])
SendInvoiceReminder == Asks("/bookings", [status |-> "checked_out"])
CheckAvailability == Asks("/availability", [checkIn |-> "date", checkOut |-> "date"])
ReadOne ==
  \E path \in {"/guests/:id", "/bookings/:id", "/events/:id", "/events/:id/registrations",
               "/conversations/:id", "/conversations/:id/drafts", "/rooms", "/room-types",
               "/dashboard/stats", "/dashboard/today", "/settings"} : Asks(path, Empty)

-----------------------------------------------------------------------------
(* confirm_action and cancel_action                                         *)

Without(payload, names) == [f \in DOMAIN payload \ names |-> payload[f]]

\* Mutant: what was stored is what is sent.
PaymentBody_AsStored(payload) == Without(payload, {"bookingId"})

\* A note or a date that is null is left out.
PaymentBody(payload) ==
  [f \in {g \in {"amount", "method", "date", "notes"} : payload[g] # "null"} |-> payload[f]]

\* Every type of action has its request.
RequestOf(type, payload) ==
  CASE type = "create_guest" -> <<"POST", "/guests", payload>>
    [] type = "update_guest" -> <<"PATCH", "/guests/:id", Without(payload, {"guestId"})>>
    [] type = "delete_guest" -> <<"DELETE", "/guests/:id", Empty>>
    [] type = "merge_guests" -> <<"POST", "/guests/merge", payload>>
    [] type = "create_booking" -> <<"POST", "/bookings", payload>>
    [] type = "update_booking" -> <<"PATCH", "/bookings/:id", Without(payload, {"bookingId"})>>
    [] type = "cancel_booking" -> <<"DELETE", "/bookings/:id", Empty>>
    [] type = "log_payment" -> <<"POST", "/bookings/:id/payments", PaymentBody(payload)>>
    [] type = "create_event" -> <<"POST", "/events", payload>>
    [] type = "update_event" -> <<"PATCH", "/events/:id", Without(payload, {"eventId"})>>
    [] type = "delete_event" -> <<"DELETE", "/events/:id", Empty>>
    [] type = "register_guest_for_event" ->
         <<"POST", "/events/:id/book", Without(payload, {"eventId"})>>
    [] type = "cancel_event_registration" ->
         <<"POST", "/events/:id/registrations/:registrationId/cancel", Empty>>
    [] type = "create_conversation_booking" ->
         <<"POST", "/conversations/:id/bookings", Without(payload, {"conversationId"})>>
    [] type = "approve_draft" ->
         <<"POST", "/conversations/:id/drafts/:draftId/approve",
           Without(payload, {"conversationId", "draftId"})>>

ConfirmAction ==
  /\ reply = "prepared"
  /\ LET r == RequestOf(pending.type, pending.payload) IN
       Sends(r[1], r[2], r[3], pending.type, TRUE)
  /\ pending' = NoCall

CancelAction ==
  reply = "prepared" /\ pending' = NoCall /\ reply' = "cancelled" /\ UNCHANGED request

-----------------------------------------------------------------------------
GuestTool ==
  PrepareCreateGuest \/ PrepareUpdateGuest \/ PrepareDeleteGuest \/ PrepareMergeGuests
BookingTool ==
  PrepareCreateBooking \/ PrepareUpdateBooking \/ PrepareCancelBooking \/ PrepareLogPayment
EventTool ==
  \/ PrepareCreateEvent \/ PrepareUpdateEvent \/ PrepareDeleteEvent
  \/ PrepareRegisterGuest \/ PrepareCancelEventRegistration
ConversationTool ==
  UpdateConversation \/ AnalyzeConversationBooking \/ CreateConversationBooking
DraftTool == GenerateConversationDraft \/ ApproveDraft \/ RegenerateDraft \/ RejectDraft
SettingTool == UpdateSetting \/ UpdateBriefingTime
ReadTool ==
  \/ ReadGuests \/ ReadBookings \/ ReadEvents \/ ReadConversations \/ ReadPendingDrafts
  \/ SendInvoiceReminder \/ CheckAvailability \/ ReadOne

Forget == reply \notin {"idle", "prepared"} /\ reply' = "idle" /\ request' = NoCall
          /\ UNCHANGED pending

Next ==
  \/ Ready /\
     (\/ GuestTool \/ BookingTool \/ EventTool \/ ConversationTool \/ DraftTool
      \/ SettingTool \/ ReadTool)
  \/ ConfirmAction \/ CancelAction \/ Forget

-----------------------------------------------------------------------------
\* What needs no "OK" from Ines: nothing a guest or the accounts could notice.
Unconfirmed ==
  {"/conversations/:id", "/conversations/:id/booking-analysis",
   "/conversations/:id/drafts/generate", "/conversations/:id/drafts/:draftId/regenerate",
   "/conversations/:id/drafts/:draftId/reject", "/settings"}

\* What the agent may give and the tool passes on as it is: a payload of its own,
\* a status the API does not have, a label that is no class.
PassedOn(r) ==
  \/ r.tool = "create_conversation_booking"
  \/ r.path = "/conversations" /\ "status" \in DOMAIN r.body /\ r.body.status = "archived"
  \/ /\ r.tool = "update_conversation"
     /\ \E f \in DOMAIN r.body : r.body[f] \in {"archived", "text"}

\* What a tool prepared from parameters of the kinds it asks for is, once
\* confirmed, a request of a route there is, with every field that route needs,
\* no value it refuses and no field it silently drops (actions.ts:341-625 and the
\* schemas of the modules), except for what PassedOn names: the payload of a
\* conversation's booking, of which the tool looks at three fields
\* (conversations.ts:255-308), and the status and class of a conversation (112,
\* 159-164).  Only the writes of Unconfirmed go without an OK; and the chat shows
\* no other tool as running than the one that asked (lib/tool-activity.ts:32-88).
PreparedIsTaken ==
  request # NoCall =>
    /\ \/ PassedOn(request)
       \/ IF request.method = "GET" THEN Answered(request.path, request.body)
          ELSE Taken(request.method, request.path, request.body)
    /\ request.method = "GET" \/ request.confirmed \/ request.path \in Unconfirmed
    /\ request.shown \in {"nothing", request.tool}
==============================================================================
