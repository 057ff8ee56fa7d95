---------------------------- MODULE MCReservations ----------------------------
(***************************************************************************)
(* Requests that interleave around reservations, one part at a time: the    *)
(* parts share no variable, and `part` says which one runs.                 *)
(*                                                                         *)
(* Bookings: two requests whose bodies overlap.  Import: catalogs whose      *)
(* types swap titles, are listed in another order or share a title, one that *)
(* drops a room and calls a type like that of rooms without one, and rooms   *)
(* of no type and of a type that is not published.                           *)
(***************************************************************************)
EXTENDS MCBooking, RoomImport

VARIABLE part

Type_(id, title, info) == [id |-> id, title |-> title, info |-> info]
Room_(id, title, type) == [id |-> id, title |-> title, type |-> type]
MCCatalogs ==
  {[types |-> <<Type_(1, "A", "A"), Type_(2, "B", "B")>>,
    rooms |-> <<Room_(5, "A", 1), Room_(6, "A", 2)>>],
   [types |-> <<Type_(1, "B", "B"), Type_(2, "A", "A")>>,
    rooms |-> <<Room_(5, "B", 1), Room_(6, "A", None)>>],
   [types |-> <<Type_(2, "A", "A")>>, rooms |-> <<Room_(5, "B", 2), Room_(6, "A", 1)>>],
   [types |-> <<Type_(2, "U", "B"), Type_(1, "A", "A")>>, rooms |-> <<Room_(6, "A", None)>>],
   [types |-> <<Type_(1, "A", "A"), Type_(2, "A", "B")>>,
    rooms |-> <<Room_(5, "A", 1), Room_(6, "B", 2)>>]}

MCInit ==
  /\ part \in {"bookings", "import"}
  /\ Init /\ ImportInit
  /\ part # "import" => catalog = CHOOSE c \in MCCatalogs : TRUE

MCNext ==
  /\ part' = part
  /\ \/ part = "bookings" /\ Next /\ UNCHANGED importVars
     \/ part = "import" /\ ImportNext /\ UNCHANGED vars

MCSpec == MCInit /\ [][MCNext]_<<part, vars, importVars>>
==============================================================================
