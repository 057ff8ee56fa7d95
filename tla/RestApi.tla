------------------------------- MODULE RestApi -------------------------------
(***************************************************************************)
(* What the routes of the backend take: packages/backend/src/modules/*/     *)
(* *.routes.ts and *.schema.ts, packages/shared/src/validation.             *)
(*                                                                         *)
(* A body is a function from the names of its fields to what their values   *)
(* are: a word of an enum, or a kind of value ("date" is YYYY-MM-DD,        *)
(* "instant" an ISO date and time, "short" a time without its leading zero, *)
(* "int" a whole number above zero).  zod drops the fields a schema does    *)
(* not name and says nothing of it.  A nested object is spelled with a dot. *)
(***************************************************************************)
EXTENDS TLC

Text == {"text", "id", "date", "instant", "time", "short", "email"}
Count == {"int"}
Amount == Count \cup {"zero"}
Nullish(kinds) == kinds \cup {"null"}
Free == Text \cup {"empty"}

Languages == {"en", "de"}
EventTypes == {"puppy_yoga", "beach_walk", "coffee_cake_cuddles", "retreat"}
BookingStatuses == {"inquiry", "confirmed", "checked_in", "checked_out", "cancelled"}
NewBookingStatuses == {"inquiry", "confirmed"}
Methods == {"bank_transfer", "cash"}
RoomStatuses == {"available", "occupied", "maintenance"}
ConversationStatuses == {"open", "closed"}
Classifications ==
  {"conversation", "ota_tripaneer", "ota_bookyogaretreats", "ota_other", "other",
   "guest_inquiry", "ota_notification", "spam_newsletter", "admin_system"}
Modes == {"linked", "existing", "create"}

NoFields == [f \in {} |-> {}]

\* One of the fields oneOf must be there and not be null or empty.
Schema(required, optional, oneOf) ==
  [required |-> required, optional |-> optional, oneOf |-> oneOf]
NoBody == Schema(NoFields, NoFields, {})

-----------------------------------------------------------------------------
(* The schemas                                                              *)

GuestDetails ==
  [phone |-> Nullish(Free), email |-> Nullish({"email"}), dietaryNeeds |-> Nullish(Free),
   source |-> Nullish(Free), tags |-> {"list"}, notes |-> Nullish(Free)]

createGuestSchema ==
  Schema([name |-> Text], [language |-> Languages] @@ GuestDetails, {"email", "phone"})
updateGuestSchema ==
  Schema(NoFields, [name |-> Text, language |-> Languages] @@ GuestDetails, {})
mergeGuestsSchema == Schema([primaryId |-> Text, secondaryId |-> Text], NoFields, {})

createBookingSchema ==
  Schema([roomId |-> Text, checkIn |-> {"date"}, checkOut |-> {"date"}, totalPrice |-> Amount],
         [guestIds |-> {"list"}, guestId |-> Text, status |-> NewBookingStatuses,
          source |-> Nullish(Free), notes |-> Nullish(Free)],
         {"guestIds", "guestId"})
updateBookingSchema ==
  Schema(NoFields,
         [guestIds |-> {"list"}, roomId |-> Text, checkIn |-> {"date"}, checkOut |-> {"date"},
          status |-> BookingStatuses, totalPrice |-> Amount, source |-> Nullish(Free),
          notes |-> Nullish(Free)], {})
\* What updateBooking lets a status become.
VALID_TRANSITIONS ==
  [inquiry |-> {"confirmed", "cancelled"}, confirmed |-> {"checked_in", "cancelled"},
   checked_in |-> {"checked_out", "cancelled"}, checked_out |-> {}, cancelled |-> {}]
createPaymentSchema ==
  Schema([amount |-> Count, method |-> Methods],
         [date |-> {"date"}, notes |-> Nullish(Free)], {})

EventText == [location |-> Nullish(Free), description |-> Nullish(Free)]
EventFields ==
  [type |-> EventTypes, title |-> Text, date |-> {"date"}, time |-> {"time"}, capacity |-> Count]
createEventSchema == Schema(EventFields, EventText, {})
updateEventSchema == Schema(NoFields, EventFields @@ EventText, {})
registerGuestSchema == Schema([guestId |-> Text], NoFields, {})

createRoomTypeSchema ==
  Schema([name |-> Text, basePrice |-> Amount, maxOccupancy |-> Count],
         [description |-> Nullish(Free)], {})
updateRoomTypeSchema ==
  Schema(NoFields, createRoomTypeSchema.required @@ createRoomTypeSchema.optional, {})
createRoomSchema ==
  Schema([roomTypeId |-> Text, name |-> Text], [status |-> RoomStatuses], {})
updateRoomSchema == Schema(NoFields, [name |-> Text, status |-> RoomStatuses], {})
MappingIds ==
  [roomId |-> Text, provider |-> Text, externalAccommodationId |-> Text]
MappingDetails ==
  [externalAccommodationTypeId |-> Nullish(Free), defaultAdults |-> Nullish(Amount),
   defaultChildren |-> Nullish(Amount)]
createRoomExternalMappingSchema == Schema(MappingIds, MappingDetails, {})
updateRoomExternalMappingSchema == Schema(NoFields, MappingIds @@ MappingDetails, {})
SeasonFields ==
  [name |-> Text, startDate |-> {"date"}, endDate |-> {"date"},
   priceMultiplier |-> {"int", "fraction"}]
createSeasonSchema == Schema(SeasonFields, NoFields, {})
updateSeasonSchema == Schema(NoFields, SeasonFields, {})

updateConversationSchema ==
  Schema(NoFields, [status |-> ConversationStatuses, classification |-> Classifications],
         {"status", "classification"})
replySchema == Schema([content |-> Text], [html |-> Free], {})
approveDraftBodySchema == Schema(NoFields, [content |-> Free], {})
linkConversationGuestBodySchema == Schema([guestId |-> Text], NoFields, {})
createConversationGuestBodySchema ==
  Schema(NoFields, [name |-> Text, email |-> {"email"}, phone |-> Text,
                   language |-> Languages], {})
\* superRefine, of mode "existing", is in Accepts.
createConversationBookingBodySchema ==
  Schema("guest.mode" :> Modes @@ "booking.roomId" :> Text @@ "booking.checkIn" :> {"date"}
           @@ "booking.checkOut" :> {"date"} @@ "booking.totalPrice" :> Amount,
         "guest.guestId" :> Text @@ "guest.name" :> Text @@ "guest.email" :> {"email"}
           @@ "guest.phone" :> Text @@ "guest.language" :> Languages
           @@ "booking.status" :> NewBookingStatuses @@ "booking.source" :> Nullish(Free)
           @@ "booking.notes" :> Nullish(Free),
         {})

\* A target that exists has its id, one to be created its fields: in Accepts.
TargetFields ==
  "event.mode" :> {"existing", "create"} @@ "event.eventId" :> Text @@ "event.type" :> EventTypes
  @@ "event.title" :> Text @@ "event.date" :> {"date"} @@ "event.time" :> {"time"}
  @@ "event.capacity" :> Count @@ "event.location" :> Nullish(Free)
  @@ "event.description" :> Nullish(Free)
applyConversationEventBodySchema ==
  Schema([operation |-> {"create_or_link", "cancel", "move"}, externalBookingId |-> Text],
         "guest.mode" :> Modes @@ "guest.guestId" :> Text @@ "guest.name" :> Text
           @@ "guest.email" :> {"email"} @@ "guest.phone" :> Text
           @@ "guest.language" :> Languages @@ "guest.applyUpdates" :> {"flags"}
           @@ "externalProductCode" :> Nullish(Free) @@ "attendeeCount" :> Count
           @@ TargetFields, {})

Account ==
  [provider |-> Text, imapHost |-> Free, imapPort |-> Amount, smtpHost |-> Free,
   smtpPort |-> Amount, email |-> {"email"}, password |-> Free]
testEmailConnectionBodySchema == Schema(Account, NoFields, {})
emailProviderConfigBodySchema ==
  Schema(Account, [pollIntervalMinutes |-> Count, pollingEnabled |-> {"true", "false"}], {})
togglePollingBodySchema == Schema([enabled |-> {"true", "false"}], NoFields, {})
caldavConfigBodySchema ==
  Schema([username |-> Text, password |-> Text], [serverUrl |-> {"url"}, calendarName |-> Free], {})
upsertSettingByKeyBodySchema == Schema([key |-> Text], [value |-> Nullish(Free)], {})
upsertSettingBodySchema ==
  Schema(NoFields, [value |-> Nullish(Free \cup {"int", "list", "true", "false"})], {})
createFaqSchema == Schema([question |-> Text, answer |-> Text], [tags |-> {"list", "none"}], {})
updateFaqSchema ==
  Schema(NoFields, [question |-> Text, answer |-> Text, tags |-> {"list", "none"}],
         {"question", "answer", "tags"})

-----------------------------------------------------------------------------
(* The routes that write, by group                                          *)

GuestRoutes ==
  <<"POST", "/guests">> :> createGuestSchema @@ <<"PATCH", "/guests/:id">> :> updateGuestSchema
  @@ <<"DELETE", "/guests/:id">> :> NoBody @@ <<"POST", "/guests/merge">> :> mergeGuestsSchema
BookingRoutes ==
  <<"POST", "/bookings">> :> createBookingSchema
  @@ <<"PATCH", "/bookings/:id">> :> updateBookingSchema
  @@ <<"DELETE", "/bookings/:id">> :> NoBody
  @@ <<"POST", "/bookings/:id/sync/motopress">> :> NoBody
PaymentRoutes ==
  <<"POST", "/bookings/:id/payments">> :> createPaymentSchema
  @@ <<"DELETE", "/bookings/:id/payments/:paymentId">> :> NoBody
EventRoutes ==
  <<"POST", "/events">> :> createEventSchema @@ <<"PATCH", "/events/:id">> :> updateEventSchema
  @@ <<"DELETE", "/events/:id">> :> NoBody
  @@ <<"POST", "/events/:id/book">> :> registerGuestSchema
  @@ <<"POST", "/events/:id/registrations/:registrationId/cancel">> :> NoBody
RoomRoutes ==
  <<"POST", "/room-types">> :> createRoomTypeSchema
  @@ <<"PATCH", "/room-types/:id">> :> updateRoomTypeSchema
  @@ <<"DELETE", "/room-types/:id">> :> NoBody
  @@ <<"POST", "/rooms">> :> createRoomSchema @@ <<"PATCH", "/rooms/:id">> :> updateRoomSchema
  @@ <<"DELETE", "/rooms/:id">> :> NoBody
MappingRoutes ==
  <<"POST", "/room-mappings">> :> createRoomExternalMappingSchema
  @@ <<"PATCH", "/room-mappings/:id">> :> updateRoomExternalMappingSchema
  @@ <<"DELETE", "/room-mappings/:id">> :> NoBody
  @@ <<"POST", "/room-mappings/motopress/import">> :> NoBody
SeasonRoutes ==
  <<"POST", "/seasons">> :> createSeasonSchema @@ <<"PATCH", "/seasons/:id">> :> updateSeasonSchema
ConversationRoutes ==
  <<"PATCH", "/conversations/:id">> :> updateConversationSchema
  @@ <<"POST", "/conversations/:id/reply">> :> replySchema
  @@ <<"POST", "/conversations/:id/link-guest">> :> linkConversationGuestBodySchema
  @@ <<"POST", "/conversations/:id/create-guest">> :> createConversationGuestBodySchema
  @@ <<"POST", "/conversations/:id/booking-analysis">> :> NoBody
  @@ <<"POST", "/conversations/:id/bookings">> :> createConversationBookingBodySchema
  @@ <<"POST", "/conversations/:id/event-analysis">> :> NoBody
  @@ <<"POST", "/conversations/:id/events">> :> applyConversationEventBodySchema
DraftRoutes ==
  <<"POST", "/conversations/:id/drafts/generate">> :> NoBody
  @@ <<"POST", "/conversations/:id/drafts/:draftId/approve">> :> approveDraftBodySchema
  @@ <<"POST", "/conversations/:id/drafts/:draftId/reject">> :> NoBody
  @@ <<"POST", "/conversations/:id/drafts/:draftId/regenerate">> :> NoBody
SettingRoutes ==
  <<"POST", "/settings">> :> upsertSettingByKeyBodySchema
  @@ <<"PUT", "/settings/:key">> :> upsertSettingBodySchema
ProviderRoutes ==
  <<"POST", "/settings/test-email-connection">> :> testEmailConnectionBodySchema
  @@ <<"POST", "/settings/email-provider">> :> emailProviderConfigBodySchema
  @@ <<"POST", "/settings/email-provider/toggle-polling">> :> togglePollingBodySchema
  @@ <<"POST", "/calendar/config">> :> caldavConfigBodySchema
  @@ <<"POST", "/calendar/test-connection">> :> NoBody @@ <<"POST", "/calendar/sync">> :> NoBody
FaqRoutes ==
  <<"POST", "/faqs">> :> createFaqSchema @@ <<"PATCH", "/faqs/:id">> :> updateFaqSchema
  @@ <<"DELETE", "/faqs/:id">> :> NoBody

Routes ==
  GuestRoutes @@ BookingRoutes @@ PaymentRoutes @@ EventRoutes @@ RoomRoutes @@ MappingRoutes
  @@ SeasonRoutes @@ ConversationRoutes @@ DraftRoutes @@ SettingRoutes @@ FaqRoutes
  @@ ProviderRoutes

-----------------------------------------------------------------------------
(* The routes that read, with what may follow the question mark             *)

Paging == [cursor |-> Free, limit |-> {"int"}]
listGuestsQuerySchema ==
  Schema(NoFields, Paging @@ [search |-> Free, tag |-> Free, source |-> Free,
                            language |-> Languages], {})
listBookingsQuerySchema ==
  Schema(NoFields,
         Paging @@ [status |-> BookingStatuses, paymentStatus |-> {"paid", "partial", "unpaid"},
                   guestId |-> Free, from |-> {"date"}, to |-> {"date"}], {})
listEventsQuerySchema ==
  Schema(NoFields, Paging @@ [type |-> EventTypes, from |-> {"date"}, to |-> {"date"}], {})
listConversationsQuerySchema ==
  Schema(NoFields, Paging @@ [status |-> ConversationStatuses, guestId |-> Free,
                            bucket |-> {"conversation", "ota", "conversation_ota", "other"}], {})
availabilityQuerySchema ==
  Schema([checkIn |-> {"date"}, checkOut |-> {"date"}], [roomTypeId |-> Free], {})

ReadRoutes ==
  "/guests" :> listGuestsQuerySchema @@ "/bookings" :> listBookingsQuerySchema
  @@ "/events" :> listEventsQuerySchema @@ "/conversations" :> listConversationsQuerySchema
  @@ "/availability" :> availabilityQuerySchema
  @@ [path \in {"/guests/:id", "/bookings/:id", "/events/:id", "/events/:id/registrations",
                "/conversations/:id", "/conversations/:id/drafts", "/rooms", "/room-types",
                "/dashboard/stats", "/dashboard/today", "/settings"} |-> NoBody]

-----------------------------------------------------------------------------
\* The route's handler runs: the body is what its schema says.
Accepts(schema, body) ==
  LET fields == schema.required @@ schema.optional IN
  /\ DOMAIN schema.required \subseteq DOMAIN body
  /\ \A f \in DOMAIN body \cap DOMAIN fields : body[f] \in fields[f]
  /\ schema.oneOf = {} \/ \E f \in schema.oneOf \cap DOMAIN body : body[f] \notin {"null", "empty"}
  /\ "guest.mode" \in DOMAIN body /\ body["guest.mode"] = "existing"
       => "guest.guestId" \in DOMAIN body
  /\ schema = applyConversationEventBodySchema /\ body.operation # "cancel" =>
       /\ "event.mode" \in DOMAIN body
       /\ IF body["event.mode"] = "existing" THEN "event.eventId" \in DOMAIN body
          ELSE {"event.type", "event.title", "event.date", "event.time", "event.capacity"}
                 \subseteq DOMAIN body
       /\ body.operation = "create_or_link" => "guest.mode" \in DOMAIN body

\* The fields the handler never sees.
Dropped(schema, body) == DOMAIN body \ DOMAIN (schema.required @@ schema.optional)

\* A query reaches its handler; what a schema does not name does no harm.
Answered(path, query) == path \in DOMAIN ReadRoutes /\ Accepts(ReadRoutes[path], query)

\* The request reaches its handler with all that was sent.
Taken(method, path, body) ==
  /\ <<method, path>> \in DOMAIN Routes
  /\ Accepts(Routes[<<method, path>>], body)
  /\ Dropped(Routes[<<method, path>>], body) = {}
==============================================================================
