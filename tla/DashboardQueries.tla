--------------------------- MODULE DashboardQueries ---------------------------
(***************************************************************************)
(* What the dashboard asks the backend for: packages/frontend/src/lib/hooks *)
(* and query-client.ts.  A query has a key and is fetched again when a      *)
(* mutation names the key or one it begins with, or by the clock.  What a   *)
(* query shows and what a route writes are the backend's tables.            *)
(***************************************************************************)
EXTENDS TLC

\* queryKeys: the queries under a key that a hook names.
Under ==
  "bookings" :> {"bookings.list", "bookings.detail"}
  @@ "events" :> {"events.list", "events.detail", "events.registrations"}
  @@ "guests" :> {"guests.list", "guests.detail"}
  @@ "conversations" :> {"conversations.list", "conversations.detail", "conversations.drafts",
                         "conversations.suggestion", "conversations.booking-analysis",
                         "conversations.event-analysis", "conversations.unread-count"}
  @@ "settings" :> {"settings.key"}

Fetched(keys) == UNION {IF k \in DOMAIN Under THEN Under[k] ELSE {k} : k \in keys}

\* A mutation: its route, the keys it has fetched again when it succeeds, the
\* pages that offer it.
Hook(method, path, keys, pages) ==
  [route |-> <<method, path>>, refetches |-> Fetched(keys), pages |-> pages]

-----------------------------------------------------------------------------
(* The mutations                                                            *)

BookingHooks ==
  LET keys == {"bookings", "dashboard.stats", "dashboard.today"}
      paid == {"bookings", "dashboard.stats"}
  IN  "useCreateBooking" :> Hook("POST", "/bookings", keys, {"bookings"})
      @@ "useUpdateBooking" :> Hook("PATCH", "/bookings/:id", keys, {"bookings", "booking"})
      @@ "useSyncBookingToMotopress" :>
           Hook("POST", "/bookings/:id/sync/motopress", {"bookings"}, {"booking"})
      @@ "useCreatePayment" :> Hook("POST", "/bookings/:id/payments", paid, {"booking"})
      @@ "useDeletePayment" :>
           Hook("DELETE", "/bookings/:id/payments/:paymentId", paid, {"booking"})

GuestHooks ==
  "useCreateGuest" :> Hook("POST", "/guests", {"guests"}, {"guests"})
  @@ "useUpdateGuest" :> Hook("PATCH", "/guests/:id", {"guests"}, {"guest"})
  @@ "useDeleteGuest" :> Hook("DELETE", "/guests/:id", {"guests"}, {"guests", "guest"})
  @@ "useMergeGuests" :> Hook("POST", "/guests/merge", {"guests"}, {"guest"})

EventHooks ==
  LET seats == {"events", "dashboard.today"}
  IN  "useCreateEvent" :> Hook("POST", "/events", seats \cup {"dashboard.stats"}, {"events"})
      @@ "useUpdateEvent" :> Hook("PATCH", "/events/:id", {"events"}, {"event"})
      @@ "useDeleteEvent" :>
           Hook("DELETE", "/events/:id", {"events", "dashboard.stats"}, {"events", "event"})
      @@ "useRegisterGuest" :> Hook("POST", "/events/:id/book", seats, {"event"})
      @@ "useCancelEventRegistration" :>
           Hook("POST", "/events/:id/registrations/:registrationId/cancel", seats, {"event"})

\* Mutant: a room that goes is still listed with its type and its mappings.
RoomHooks_OneKey ==
  "useCreateRoomType" :> Hook("POST", "/room-types", {"room-types"}, {"rooms"})
  @@ "useUpdateRoomType" :> Hook("PATCH", "/room-types/:id", {"room-types"}, {"rooms"})
  @@ "useDeleteRoomType" :> Hook("DELETE", "/room-types/:id", {"room-types", "rooms"}, {"rooms"})
  @@ "useCreateRoom" :> Hook("POST", "/rooms", {"rooms"}, {"rooms"})
  @@ "useDeleteRoom" :> Hook("DELETE", "/rooms/:id", {"rooms"}, {"rooms"})

RoomHooks ==
  "useCreateRoomType" :> Hook("POST", "/room-types", {"room-types"}, {"rooms"})
  @@ "useUpdateRoomType" :> Hook("PATCH", "/room-types/:id", {"room-types"}, {"rooms"})
  @@ "useDeleteRoomType" :> Hook("DELETE", "/room-types/:id", {"room-types", "rooms"}, {"rooms"})
  @@ "useCreateRoom" :> Hook("POST", "/rooms", {"rooms"}, {"rooms"})
  @@ "useDeleteRoom" :>
       Hook("DELETE", "/rooms/:id", {"rooms", "room-types", "room-mappings"}, {"rooms"})

MappingHooks ==
  "useCreateRoomMapping" :> Hook("POST", "/room-mappings", {"room-mappings"}, {"rooms"})
  @@ "useUpdateRoomMapping" :> Hook("PATCH", "/room-mappings/:id", {"room-mappings"}, {"rooms"})
  @@ "useDeleteRoomMapping" :> Hook("DELETE", "/room-mappings/:id", {"room-mappings"}, {"rooms"})
  @@ "useImportMotopressRooms" :>
       Hook("POST", "/room-mappings/motopress/import",
            {"room-types", "rooms", "room-mappings", "motopress-accommodations"}, {"rooms"})

SeasonHooks ==
  "useCreateSeason" :> Hook("POST", "/seasons", {"seasons"}, {"seasons"})
  @@ "useUpdateSeason" :> Hook("PATCH", "/seasons/:id", {"seasons"}, {"seasons"})

FaqHooks ==
  "useCreateFaq" :> Hook("POST", "/faqs", {"faqs"}, {"faqs"})
  @@ "useUpdateFaq" :> Hook("PATCH", "/faqs/:id", {"faqs"}, {"faqs"})
  @@ "useDeleteFaq" :> Hook("DELETE", "/faqs/:id", {"faqs"}, {"faqs"})

SettingHooks ==
  "useUpdateSetting" :> Hook("PUT", "/settings/:key", {"settings"}, {"settings"})
  @@ "useSaveEmailProviderConfig" :>
       Hook("POST", "/settings/email-provider", {"settings"}, {"settings"})
  @@ "useTestEmailConnection" :> Hook("POST", "/settings/test-email-connection", {}, {"settings"})
  @@ "useTogglePolling" :>
       Hook("POST", "/settings/email-provider/toggle-polling", {"settings.key"}, {"settings"})

\* The calendar's tab has its own.
CalendarHooks ==
  "saveMutation" :> Hook("POST", "/calendar/config", {"settings.key"}, {"settings"})
  @@ "testMutation" :> Hook("POST", "/calendar/test-connection", {}, {"settings"})
  @@ "resyncMutation" :> Hook("POST", "/calendar/sync", {"settings.key"}, {"settings"})

ConversationHooks ==
  LET keys == {"conversations"} IN
  "useUpdateConversation" :> Hook("PATCH", "/conversations/:id", keys, {"inbox"})
  @@ "useLinkConversationGuest" :>
       Hook("POST", "/conversations/:id/link-guest", keys, {"inbox"})
  @@ "useCreateConversationGuest" :>
       Hook("POST", "/conversations/:id/create-guest", keys, {"inbox"})
  @@ "useAnalyzeConversationBooking" :>
       Hook("POST", "/conversations/:id/booking-analysis", {"conversations.booking-analysis"},
            {"inbox"})
  @@ "useCreateConversationBooking" :>
       Hook("POST", "/conversations/:id/bookings",
            keys \cup {"bookings", "dashboard.stats", "dashboard.today"}, {"inbox"})
  @@ "useRunConversationEventAnalysis" :>
       Hook("POST", "/conversations/:id/event-analysis",
            {"conversations.event-analysis", "conversations.detail"}, {"inbox"})
  @@ "useApplyConversationEventAction" :>
       Hook("POST", "/conversations/:id/events", keys \cup {"events", "guests"}, {"inbox"})

Hooks ==
  BookingHooks @@ GuestHooks @@ EventHooks @@ RoomHooks @@ MappingHooks @@ SeasonHooks
  @@ FaqHooks @@ SettingHooks @@ CalendarHooks @@ ConversationHooks

-----------------------------------------------------------------------------
(* What a page shows, not counting the lists its dialogs choose from        *)

Pages ==
  "bookings" :> {"bookings.list"} @@ "booking" :> {"bookings.detail"}
  @@ "guests" :> {"guests.list"} @@ "guest" :> {"guests.detail"}
  @@ "events" :> {"events.list"} @@ "event" :> {"events.detail", "events.registrations"}
  @@ "rooms" :> {"room-types", "rooms", "room-mappings", "motopress-accommodations"}
  @@ "seasons" :> {"seasons"} @@ "faqs" :> {"faqs"} @@ "settings" :> {"settings.key"}
  @@ "inbox" :> {"conversations.list", "conversations.detail", "conversations.drafts",
                 "conversations.suggestion", "conversations.event-analysis"}

\* Those with a refetchInterval, of 5 to 30 seconds.
Polled ==
  {"conversations.list", "conversations.drafts", "conversations.suggestion",
   "conversations.event-analysis"}

BookingReads ==
  LET stay == {"bookings", "guests", "rooms", "roomTypes", "payments"} IN
  "bookings.list" :> stay @@ "bookings.detail" :> stay
GuestReads ==
  "guests.list" :> {"guests"}
  @@ "guests.detail" :> {"guests", "bookings", "rooms", "registrations", "events",
                         "conversations"}
EventReads ==
  "events.list" :> {"events", "registrations"}
  @@ "events.detail" :> {"events", "registrations", "guests"}
  @@ "events.registrations" :> {"registrations", "guests"}
RoomReads ==
  "room-types" :> {"roomTypes", "rooms"} @@ "rooms" :> {"rooms", "roomTypes"}
  @@ "room-mappings" :> {"mappings", "rooms"} @@ "motopress-accommodations" :> {}
  @@ "seasons" :> {"seasons"}
ConversationReads ==
  "conversations.list" :> {"conversations", "guests", "messages"}
  @@ "conversations.detail" :> {"conversations", "guests", "messages", "bookings"}
  @@ "conversations.drafts" :> {"drafts"}
  @@ "conversations.suggestion" :> {"conversations", "guests", "bookings"}
  @@ "conversations.event-analysis" :> {"analyses"}
Reads ==
  BookingReads @@ GuestReads @@ EventReads @@ RoomReads @@ ConversationReads
  @@ "settings.key" :> {"settings"} @@ "faqs" :> {"faqs"}

\* The tables a route writes, of those some query reads.
Writes ==
  [r \in {Hooks[h].route : h \in DOMAIN Hooks} |->
     CASE r \in {<<"POST", "/bookings">>, <<"PATCH", "/bookings/:id">>,
                 <<"POST", "/bookings/:id/sync/motopress">>} -> {"bookings"}
       [] r \in {<<"POST", "/bookings/:id/payments">>,
                 <<"DELETE", "/bookings/:id/payments/:paymentId">>} -> {"payments"}
       [] r \in {<<"POST", "/guests">>, <<"PATCH", "/guests/:id">>,
                 <<"DELETE", "/guests/:id">>} -> {"guests"}
       [] r = <<"POST", "/guests/merge">> ->
            {"guests", "bookings", "conversations", "registrations"}
       [] r \in {<<"POST", "/events">>, <<"PATCH", "/events/:id">>} -> {"events"}
       [] r = <<"DELETE", "/events/:id">> -> {"events", "registrations"}
       [] r \in {<<"POST", "/events/:id/book">>,
                 <<"POST", "/events/:id/registrations/:registrationId/cancel">>} ->
            {"registrations"}
       [] r \in {<<"POST", "/room-types">>, <<"PATCH", "/room-types/:id">>,
                 <<"DELETE", "/room-types/:id">>} -> {"roomTypes"}
       [] r = <<"POST", "/rooms">> -> {"rooms"}
       [] r = <<"DELETE", "/rooms/:id">> -> {"rooms", "mappings"}
       [] r \in {<<"POST", "/room-mappings">>, <<"PATCH", "/room-mappings/:id">>,
                 <<"DELETE", "/room-mappings/:id">>} -> {"mappings"}
       [] r = <<"POST", "/room-mappings/motopress/import">> -> {"roomTypes", "rooms", "mappings"}
       [] r \in {<<"POST", "/seasons">>, <<"PATCH", "/seasons/:id">>} -> {"seasons"}
       [] r \in {<<"POST", "/faqs">>, <<"PATCH", "/faqs/:id">>,
                 <<"DELETE", "/faqs/:id">>} -> {"faqs"}
       [] r \in {<<"PATCH", "/conversations/:id">>,
                 <<"POST", "/conversations/:id/link-guest">>} -> {"conversations"}
       [] r = <<"POST", "/conversations/:id/create-guest">> -> {"conversations", "guests"}
       [] r = <<"POST", "/conversations/:id/bookings">> ->
            {"conversations", "guests", "bookings"}
       [] r = <<"POST", "/conversations/:id/event-analysis">> -> {"analyses"}
       [] r = <<"POST", "/conversations/:id/events">> ->
            {"conversations", "guests", "events", "registrations"}
       [] r \in {<<"POST", "/conversations/:id/booking-analysis">>,
                 <<"POST", "/settings/test-email-connection">>,
                 <<"POST", "/calendar/test-connection">>, <<"POST", "/calendar/sync">>} -> {}
       [] OTHER -> {"settings"}]

\* The queries of a page that go on showing what was before the hook.
Behind(hook, page) ==
  {q \in Pages[page] :
     /\ Reads[q] \cap Writes[Hooks[hook].route] # {}
     /\ q \notin Hooks[hook].refetches \cup Polled}
==============================================================================
