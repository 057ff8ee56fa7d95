---------------------------- MODULE DashboardForms ----------------------------
(***************************************************************************)
(* The forms of the dashboard, packages/frontend/src/components/features:   *)
(* what their own schemas let through, the request a hook (DashboardQueries)*)
(* makes of it, and what the backend's routes (RestApi) do with that.       *)
(*                                                                         *)
(* The user leaves every input as it is or changes it; selects offer their  *)
(* items, number inputs turn what is empty into zero.                       *)
(***************************************************************************)
EXTENDS RestApi, DashboardQueries

CONSTANT NoRequest

VARIABLES
  form,      \* the last form submitted, the record it edits and its values
  request,   \* what it asked the backend for
  toast,     \* what the user was told
  passwords  \* the saved passwords of the mail account and of the calendar

vars == <<form, request, toast, passwords>>

Empty == [f \in {} |-> "null"]

Init ==
  /\ form = NoRequest /\ request = NoRequest /\ toast = "none"
  /\ passwords = [mail |-> "none", calendar |-> "none"]

-----------------------------------------------------------------------------
\* A record to edit, of which the nullable fields may be null.
Records(fields) == [fields -> {"text", "null"}]

\* The values are what zodResolver lets through.
Passes(schema, values) == \A f \in DOMAIN schema : values[f] \in schema[f]

\* The dialog closes with a toast that says saved, or stays with one that says why not.
Submits(hook, record, values, body) ==
  LET route == Hooks[hook].route IN
  /\ \E page \in Hooks[hook].pages :
       form' = [hook |-> hook, page |-> page, record |-> record, values |-> values]
  /\ request' = [method |-> route[1], path |-> route[2], body |-> body]
  /\ toast' = IF Taken(route[1], route[2], body) THEN "saved" ELSE "failed"

Keeps == UNCHANGED passwords

\* An empty string turns into undefined, which JSON leaves out.
Defined(values, fields) ==
  [f \in {g \in DOMAIN values : g \in fields => values[g] # "empty"} |-> values[f]]

Nulled(value) == IF value = "empty" THEN "null" ELSE value
Written == {"text", "empty"}
Day == {"date", "empty"}
Number == {"int", "zero", "negative"}

-----------------------------------------------------------------------------
(* Bookings and payments                                                    *)

bookingSchema ==
  [guestIds |-> {"list"}, roomId |-> {"id"}, checkIn |-> {"date"}, checkOut |-> {"date"},
   status |-> BookingStatuses, totalPrice |-> Amount, source |-> Written, notes |-> Written]

\* Mutant: what is empty is left out, as the guest's form does.
bookingBody_Defined(values) == Defined(values, {"source", "notes"})

\* Every field is sent, changed or not.
bookingBody(values) == values

BookingForm ==
  \E new \in BOOLEAN, record \in Records({"source", "notes"}) :
  \E guests \in {"list", "none"}, room \in {"id", "empty"}, in, out \in Day,
     status \in BookingStatuses, price \in Number, source, notes \in Written :
    LET values == [guestIds |-> guests, roomId |-> room, checkIn |-> in, checkOut |-> out,
                   status |-> status, totalPrice |-> price, source |-> source, notes |-> notes]
    IN /\ Passes(bookingSchema, values)
       /\ IF new THEN Submits("useCreateBooking", Empty, values, bookingBody(values))
          ELSE Submits("useUpdateBooking", record, values, bookingBody(values))
       /\ Keeps

STATUS_TRANSITIONS ==
  [inquiry |-> {"confirmed", "cancelled"}, confirmed |-> {"checked_in", "cancelled"},
   checked_in |-> {"checked_out", "cancelled"}, checked_out |-> {}, cancelled |-> {}]

\* The buttons of the table and of a booking's page.
handleStatusChange ==
  \E from \in BookingStatuses :
    \E to \in STATUS_TRANSITIONS[from] :
      Submits("useUpdateBooking", Empty, [from |-> from], [status |-> to]) /\ Keeps

\* Push to MotoPress by hand.
handleSyncToMotopress == Submits("useSyncBookingToMotopress", Empty, Empty, Empty) /\ Keeps

paymentFormSchema ==
  [amount |-> Count, method |-> Methods, date |-> {"date"}, notes |-> Written]

\* Euros become cents; a note left empty is null.
PaymentForm ==
  \E amount \in Number, method \in Methods, date \in Day, notes \in Written :
    LET values == [amount |-> amount, method |-> method, date |-> date, notes |-> notes]
    IN /\ Passes(paymentFormSchema, values)
       /\ Submits("useCreatePayment", Empty, values, [values EXCEPT !.notes = Nulled(@)])
       /\ Keeps

DeletePayment == Submits("useDeletePayment", Empty, Empty, Empty) /\ Keeps

-----------------------------------------------------------------------------
(* Guests                                                                   *)

guestFormSchema == [name |-> {"text"}, email |-> {"email", "empty"}]
Clearable == {"email", "phone", "dietaryNeeds", "source", "notes"}

\* A field that was cleared is not sent, so an edit does not clear it.
guestBody(values) == Defined(values, Clearable)

GuestForm ==
  \E new \in BOOLEAN, record \in Records(Clearable) :
  \E name, phone, dietary, source, notes \in Written, email \in {"email", "text", "empty"},
     language \in Languages :
    LET values == [name |-> name, email |-> email, phone |-> phone, language |-> language,
                   dietaryNeeds |-> dietary, source |-> source, tags |-> "list", notes |-> notes]
    IN /\ Passes(guestFormSchema, values)
       /\ IF new THEN Submits("useCreateGuest", Empty, values, guestBody(values))
          ELSE Submits("useUpdateGuest", record, values, guestBody(values))
       /\ Keeps

\* The note is added to the notes the page shows.
handleSaveNote == Submits("useUpdateGuest", Empty, Empty, [notes |-> "text"]) /\ Keeps

\* The search leaves out the guest who stays.
handleMerge ==
  Submits("useMergeGuests", Empty, Empty, [primaryId |-> "id", secondaryId |-> "id"]) /\ Keeps
DeleteGuest == Submits("useDeleteGuest", Empty, Empty, Empty) /\ Keeps

-----------------------------------------------------------------------------
(* Events and registrations                                                 *)

eventSchema ==
  [type |-> EventTypes, title |-> {"text"}, date |-> {"date"}, time |-> {"time"},
   capacity |-> Count]

\* A type chosen for a new event fills its title, and its location if that is empty.
handleTypeChange(new, type, values) ==
  IF ~new THEN values
  ELSE [values EXCEPT !.title = "text",
                      !.location = IF @ = "empty" /\ type # "retreat" THEN "text" ELSE @]

EventForm ==
  \E new \in BOOLEAN, record \in Records({"location", "description"}) :
  \E type \in EventTypes, title, location, description \in Written, date \in Day,
     time \in {"time", "empty"}, capacity \in Number, changed \in BOOLEAN :
    LET typed == [type |-> type, title |-> title, date |-> date, time |-> time,
                  capacity |-> capacity, location |-> location, description |-> description]
        values == IF changed THEN handleTypeChange(new, type, typed) ELSE typed
    IN /\ Passes(eventSchema, values)
       /\ IF new THEN Submits("useCreateEvent", Empty, values, values)
          ELSE Submits("useUpdateEvent", record, values, values)
       /\ Keeps

DeleteEvent == Submits("useDeleteEvent", Empty, Empty, Empty) /\ Keeps
handleRegister == Submits("useRegisterGuest", Empty, Empty, [guestId |-> "id"]) /\ Keeps
handleRemoveRegistration ==
  \E status \in {"confirmed", "waitlisted", "cancelled"} :
    status # "cancelled" /\ Submits("useCancelEventRegistration", Empty, Empty, Empty) /\ Keeps

-----------------------------------------------------------------------------
(* Rooms, mappings, seasons and FAQs                                        *)

roomTypeSchema == [name |-> {"text"}, basePrice |-> Amount, maxOccupancy |-> Count]
onTypeSubmit ==
  \E new \in BOOLEAN, record \in Records({"description"}) :
  \E name, description \in Written, price, occupancy \in Number :
    LET values == [name |-> name, description |-> description, basePrice |-> price,
                   maxOccupancy |-> occupancy]
    IN /\ Passes(roomTypeSchema, values)
       /\ IF new THEN Submits("useCreateRoomType", Empty, values, values)
          ELSE Submits("useUpdateRoomType", record, values, values)
       /\ Keeps

roomSchema == [name |-> {"text"}, roomTypeId |-> {"id"}]
onRoomSubmit ==
  \E name \in Written, type \in {"id", "empty"} :
    LET values == [name |-> name, roomTypeId |-> type]
    IN Passes(roomSchema, values) /\ Submits("useCreateRoom", Empty, values, values) /\ Keeps

roomMappingSchema ==
  [roomId |-> {"id"}, externalAccommodationId |-> {"id"}, defaultAdults |-> Count,
   defaultChildren |-> Amount]

\* The accommodation is chosen, or typed and trimmed.
onMappingSubmit ==
  \E new \in BOOLEAN, record \in Records({"externalAccommodationTypeId"}) :
  \E room, external \in {"id", "empty"}, type \in Written, adults, children \in Number :
    LET values == [roomId |-> room, externalAccommodationId |-> external,
                   externalAccommodationTypeId |-> type, defaultAdults |-> adults,
                   defaultChildren |-> children]
        body == [values EXCEPT !.externalAccommodationTypeId = Nulled(@)]
    IN /\ Passes(roomMappingSchema, values)
       /\ IF new THEN Submits("useCreateRoomMapping", Empty, values, body @@ [provider |-> "text"])
          ELSE Submits("useUpdateRoomMapping", record, values, body)
       /\ Keeps

\* A type that has rooms is not even asked for.
handleDeleteRoomType ==
  \E rooms \in BOOLEAN : ~rooms /\ Submits("useDeleteRoomType", Empty, Empty, Empty) /\ Keeps
handleDeleteRoom == Submits("useDeleteRoom", Empty, Empty, Empty) /\ Keeps
handleDeleteMapping == Submits("useDeleteRoomMapping", Empty, Empty, Empty) /\ Keeps
handleImportFromMotopress == Submits("useImportMotopressRooms", Empty, Empty, Empty) /\ Keeps

seasonSchema ==
  [name |-> {"text"}, startDate |-> {"date"}, endDate |-> {"date"},
   priceMultiplier |-> {"int", "fraction"}]
SeasonForm ==
  \E new \in BOOLEAN, name \in Written, start, end \in Day,
     multiplier \in Number \cup {"fraction"} :
    LET values == [name |-> name, startDate |-> start, endDate |-> end,
                   priceMultiplier |-> multiplier]
    IN /\ Passes(seasonSchema, values)
       /\ Submits(IF new THEN "useCreateSeason" ELSE "useUpdateSeason", Empty, values, values)
       /\ Keeps

FaqForm ==
  \E new \in BOOLEAN, question, answer \in Written :
    LET values == [question |-> question, answer |-> answer, tags |-> "list"]
    IN /\ question = "text" /\ answer = "text"
       /\ Submits(IF new THEN "useCreateFaq" ELSE "useUpdateFaq", Empty, values, values)
       /\ Keeps
DeleteFaq == Submits("useDeleteFaq", Empty, Empty, Empty) /\ Keeps

-----------------------------------------------------------------------------
(* Conversations                                                            *)

Reclassify ==
  \E classification \in Classifications :
    Submits("useUpdateConversation", Empty, Empty,
            [classification |-> classification]) /\ Keeps
LinkGuest ==
  Submits("useLinkConversationGuest", Empty, Empty, [guestId |-> "id"])
  /\ Keeps
\* The candidate of the suggestion: an e-mail address comes from the message.
CreateGuest ==
  \E fields \in SUBSET {"name", "email", "phone"} :
    Submits("useCreateConversationGuest", Empty, Empty,
            [f \in fields |-> IF f = "email" THEN "email" ELSE "text"]) /\ Keeps

\* What the wizards ask of a guest.  They check no address, and a number only
\* for being one.
WizardGuest(mode, name, email, phone, language) ==
  "guest.mode" :> mode
  @@ (IF mode = "existing" THEN "guest.guestId" :> "id" ELSE Empty)
  @@ (IF mode # "create" THEN Empty
      ELSE Defined("guest.name" :> name @@ "guest.email" :> email @@ "guest.phone" :> phone,
                   {"guest.name", "guest.email", "guest.phone"})
           @@ "guest.language" :> language)

BookingWizard ==
  \E mode \in Modes, guestId, room \in {"id", "empty"}, in, out \in Day, linked \in BOOLEAN :
  \E name, phone, notes \in Written, email \in {"email", "text", "empty"},
     price \in {"int", "zero", "fraction"}, status \in NewBookingStatuses :
    /\ in = "date" /\ out = "date" /\ room = "id"
    /\ mode = "linked" => linked
    /\ mode = "existing" => guestId = "id"
    /\ Submits("useCreateConversationBooking", Empty, Empty,
         WizardGuest(mode, name, email, phone, "en")
         @@ "booking.roomId" :> room @@ "booking.checkIn" :> in @@ "booking.checkOut" :> out
         @@ "booking.totalPrice" :> price @@ "booking.status" :> status
         @@ "booking.source" :> "text" @@ "booking.notes" :> Nulled(notes))
    /\ Keeps

buildEventPayload(mode, type, capacity, location) ==
  IF mode = "existing" THEN "event.mode" :> mode @@ "event.eventId" :> "id"
  ELSE "event.mode" :> mode @@ "event.type" :> type @@ "event.title" :> "text"
       @@ "event.date" :> "date" @@ "event.time" :> "time" @@ "event.capacity" :> capacity
       @@ "event.location" :> Nulled(location) @@ "event.description" :> "null"

EventWizard ==
  \E operation \in {"create_or_link", "cancel", "move"}, reference \in Written,
     target \in {"existing", "create"}, eventId, guestId \in {"id", "empty"},
     capacity \in {"int", "fraction"}, mode \in Modes, name \in Written,
     email \in {"email", "empty"} :
    LET wanted == [operation |-> operation, externalBookingId |-> reference]
        event == buildEventPayload(target, "beach_walk", capacity, "empty")
    IN /\ reference = "text"
       /\ operation # "cancel" /\ target = "existing" => eventId = "id"
       /\ operation = "create_or_link" =>
            (mode = "existing" => guestId = "id") /\ (mode = "create" => name = "text")
       /\ Submits("useApplyConversationEventAction", Empty, Empty,
            CASE operation = "cancel" -> wanted
              [] operation = "move" -> wanted @@ event
              [] operation = "create_or_link" ->
                   wanted @@ event
                   @@ (IF mode = "create" THEN WizardGuest(mode, name, email, "empty", "en")
                       ELSE WizardGuest(mode, name, email, "empty", "en")
                            @@ Defined("guest.name" :> name @@ "guest.email" :> email,
                                       {"guest.name", "guest.email"}))
                   @@ "guest.applyUpdates" :> "flags" @@ "externalProductCode" :> "null"
                   @@ "attendeeCount" :> "int")
       /\ Keeps

-----------------------------------------------------------------------------
(* Settings                                                                 *)

\* Preferences, business hours, signature and prompt are written whole.
SaveSetting ==
  Submits("useUpdateSetting", Empty, Empty, [value |-> "list"]) /\ Keeps

\* "Password saved (enter new to change)": an empty one passes once one is saved.
HasPassword(account, password) == password # "empty" \/ passwords[account] # "none"

\* Both services encrypt the password they get over the one that is there.
Saves(account, password) ==
  passwords' = IF toast' = "saved" THEN [passwords EXCEPT ![account] = password] ELSE passwords

SaveEmailProvider ==
  \E password \in Written, email \in {"email", "text"}, minutes \in {"int", "zero"},
     enabled \in {"true", "false"} :
    /\ HasPassword("mail", password)
    /\ Submits("useSaveEmailProviderConfig", Empty, Empty,
         [provider |-> "text", imapHost |-> "text", imapPort |-> "int", smtpHost |-> "text",
          smtpPort |-> "int", email |-> email, password |-> password,
          pollIntervalMinutes |-> minutes, pollingEnabled |-> enabled])
    /\ Saves("mail", password)

TestEmailConnection ==
  \E password \in Written, email \in {"email", "text"} :
    /\ HasPassword("mail", password)
    /\ Submits("useTestEmailConnection", Empty, Empty,
         [provider |-> "text", imapHost |-> "text", imapPort |-> "int", smtpHost |-> "text",
          smtpPort |-> "int", email |-> email, password |-> password])
    /\ Keeps

TogglePolling ==
  \E enabled \in {"true", "false"} :
    Submits("useTogglePolling", Empty, Empty,
            [enabled |-> enabled]) /\ Keeps

caldavBody(password) ==
  [serverUrl |-> "url", username |-> "text", password |-> password, calendarName |-> "text"]

SaveCaldav ==
  \E password \in Written :
    /\ HasPassword("calendar", password)
    /\ Submits("saveMutation", Empty, Empty, caldavBody(password))
    /\ Saves("calendar", password)

\* A new password is saved before it is tested.
TestCaldav ==
  \E password \in Written :
    /\ HasPassword("calendar", password)
    /\ IF password = "empty"
       THEN /\ Submits("testMutation", Empty, Empty, Empty)
            /\ Keeps
       ELSE /\ Submits("saveMutation", Empty, Empty, caldavBody(password))
            /\ Saves("calendar", password)

Resync == Submits("resyncMutation", Empty, Empty, Empty) /\ Keeps

-----------------------------------------------------------------------------
BookingForms == 
  BookingForm \/ handleStatusChange \/ handleSyncToMotopress \/ PaymentForm \/ DeletePayment
GuestForms == GuestForm \/ handleSaveNote \/ handleMerge \/ DeleteGuest
EventForms == EventForm \/ DeleteEvent \/ handleRegister \/ handleRemoveRegistration
RoomForms ==
  \/ onTypeSubmit \/ onRoomSubmit \/ onMappingSubmit \/ handleDeleteRoomType
  \/ handleDeleteRoom \/ handleDeleteMapping \/ handleImportFromMotopress
  \/ SeasonForm \/ FaqForm \/ DeleteFaq
ConversationForms ==
  Reclassify \/ LinkGuest \/ CreateGuest \/ BookingWizard \/ EventWizard
SettingForms ==
  \/ SaveSetting \/ SaveEmailProvider \/ TestEmailConnection \/ TogglePolling
  \/ SaveCaldav \/ TestCaldav \/ Resync

\* The toast is gone.
Dismiss ==
  /\ toast # "none"
  /\ form' = NoRequest /\ request' = NoRequest /\ toast' = "none" /\ Keeps

Next ==
  \/ /\ toast = "none"
     /\ \/ BookingForms \/ GuestForms \/ EventForms
        \/ RoomForms \/ ConversationForms \/ SettingForms
  \/ Dismiss

-----------------------------------------------------------------------------
\* Forms that leave the check of a number or an address to the backend.
Unchecked ==
  {"useCreateConversationBooking", "useApplyConversationEventAction",
   "useSaveEmailProviderConfig", "useTestEmailConnection", "saveMutation"}

\* A form that lets its values through makes a request the backend takes, with
\* nothing dropped: the schemas of the dialogs against those of the routes.  Two
\* are looser: a new booking offers the statuses only a booking there is may
\* have (booking-form-dialog.tsx:57, 414-418), a new guest may be without an
\* e-mail address and a phone (guest-form-dialog.tsx:34-44).
FormsAreTaken ==
  request # NoRequest /\ form.hook \notin Unchecked =>
    \/ Taken(request.method, request.path, request.body)
    \/ form.hook = "useCreateBooking" /\ form.values.status \notin NewBookingStatuses
    \/ form.hook = "useCreateGuest" /\ {"email", "phone"} \cap DOMAIN request.body = {}

Blank == {"empty", "null"}

\* What a toast says was saved is what the form showed: an input that was
\* cleared is empty in the record, one that was filled in is not.  The guest's
\* form leaves out what is empty, so that a field cleared there stays
\* (guest-form-dialog.tsx:82-94).
SavedIsShown ==
  toast = "saved" =>
    LET stored == request.body @@ form.record IN
      \A f \in DOMAIN form.record :
        \/ (stored[f] \in Blank) <=> (form.values[f] \in Blank)
        \/ form.hook = "useUpdateGuest" /\ form.values[f] = "empty"

\* Editing the calendar's settings with the password left empty does not blank
\* the saved one (calendar.schema.ts:34).  The mail account's is blanked.
CalendarPasswordKept == passwords.calendar # "empty"

\* The buttons offer what the backend lets a booking become (booking-detail.tsx:23-36,
\* booking-table.tsx:52-65, booking.service.ts:13-19).
ButtonsWork ==
  request # NoRequest /\ DOMAIN form.values = {"from"} =>
    request.body.status \in VALID_TRANSITIONS[form.values.from]

\* What the page shows of what was written is fetched again: what the hook has
\* refetched against what the routes write and the queries read (query-client.ts,
\* lib/hooks).  Only the rooms go on with the old name of their type, until their
\* five minutes are over (use-rooms.ts:150, rooms-tab.tsx:389); a new room is in no
\* list of types or mappings that the page shows.
WrittenIsRefetched ==
  toast = "saved" =>
    Behind(form.hook, form.page) \subseteq
      CASE form.hook \in {"useCreateRoomType", "useUpdateRoomType"} -> {"rooms"}
        [] form.hook = "useCreateRoom" -> {"room-types", "room-mappings"}
        [] OTHER -> {}

\* What a form lets through is taken, what it says was saved was, the buttons do
\* what they say and the page shows it (components/features, lib/hooks).
FormsSound ==
  FormsAreTaken /\ SavedIsShown /\ CalendarPasswordKept /\ ButtonsWork /\ WrittenIsRefetched
===============================================================================
