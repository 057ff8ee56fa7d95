------------------------------ MODULE RoomImport ------------------------------
(***************************************************************************)
(* The import of the rooms of MotoPress: POST /room-mappings/motopress/      *)
(* import (motopress-import.service.ts).  It lists the published types and   *)
(* rooms of the web site and brings room types, rooms and mappings in step   *)
(* in one transaction; in between the staff rename, move and delete what it  *)
(* made (room-core.service.ts, room-external-mapping.service.ts).            *)
(*                                                                         *)
(* A name is a title, alone or with a suffix that makes it unique: the id it *)
(* has at MotoPress and a number.  What else a type has is one value.        *)
(***************************************************************************)
EXTENDS Naturals, Sequences, FiniteSetsExt

CONSTANTS
  TypeIds, RoomIds,  \* ids the database may give
  Titles,            \* what a type or a room may be called
  Catalogs,          \* what MotoPress may publish
  Unassigned,        \* the title of the type of rooms without a type
  Tries,             \* how many suffixes are tried: 100 in the code
  MaxImports,        \* bound on the imports
  MaxEdits,          \* bound on what the staff do
  None               \* an id not given out, no type

VARIABLES roomTypes, roomRows, mappings, catalog, imports, edits

db == [types |-> roomTypes, rooms |-> roomRows, mappings |-> mappings]
importVars == <<roomTypes, roomRows, mappings, catalog, imports, edits>>

\* The n-th name tried for a title: the title alone, then its suffixes.
Numbered(title, by, n) == [title |-> title, by |-> IF n = 0 THEN 0 ELSE by, n |-> n]
Plain(title) == Numbered(title, 0, 0)
Name == [title : Titles \cup {Unassigned}, by : Nat, n : 0..Tries]
TypeRow == [name : Name, info : Titles \cup {None}]
RoomRow == [name : Name, type : TypeIds]
Mapping == [room : RoomIds, accommodation : Nat, type : Nat \cup {None}]

\* What MotoPress publishes has an id of its own.
TypeItem == [id : Nat, title : Titles, info : Titles]
RoomItem == [id : Nat, title : Titles, type : Nat \cup {None}]

CatalogsAreTyped ==
  \A cat \in Catalogs :
    /\ cat.types \in Seq(TypeItem) /\ cat.rooms \in Seq(RoomItem)
    /\ \A i, j \in DOMAIN cat.types : cat.types[i].id = cat.types[j].id => i = j
    /\ \A i, j \in DOMAIN cat.rooms : cat.rooms[i].id = cat.rooms[j].id => i = j

\* The bounds are numbers, and no id, title, number or row is the null.
ImportParameters ==
  /\ Tries \in Nat /\ MaxImports \in Nat /\ MaxEdits \in Nat
  /\ None \notin TypeIds /\ None \notin RoomIds /\ None \notin Titles /\ None \notin Nat
  /\ None \notin TypeRow /\ None \notin RoomRow
  /\ CatalogsAreTyped
ASSUME ImportAssumption == ImportParameters

Used(table) == {i \in DOMAIN table : table[i] # None}
Named(table, name) == {i \in Used(table) : table[i].name = name}
UniqueNames(table) == \A i, j \in Used(table) : table[i].name = table[j].name => i = j

\* The id of a new row; None when the ids run out.
Fresh(table) ==
  IF Used(table) = DOMAIN table THEN None ELSE CHOOSE i \in DOMAIN table : table[i] = None

-----------------------------------------------------------------------------
(* importRoomsFromMotopress                                                 *)

\* Mutant: a name counts as taken by the row that has it.
FreeNumbers_CountsItself(table, title, by, self) ==
  {n \in 0..Tries : Named(table, Numbered(title, by, n)) = {}}

FreeNumbers(table, title, by, self) ==
  {n \in 0..Tries : Named(table, Numbered(title, by, n)) \subseteq {self}}

\* The title, or the first suffix of it, that no other row has.
resolveUniqueName(table, title, by, self) ==
  Numbered(title, by, Min(FreeNumbers(table, title, by, self)))

\* The local types of the rooms that are mapped with a type of MotoPress.
LocalTypes(d, id) == {d.rooms[m.room].type : m \in {k \in d.mappings : k.type = id}}

KnownIds(d, cat) ==
  {cat.types[i].id : i \in DOMAIN cat.types} \cup ({m.type : m \in d.mappings} \ {None})

\* The local type of each type of MotoPress, by the rooms mapped with it; of
\* several the one whose mapping the database returns last, which is any.
Links(d, cat) ==
  {f \in [KnownIds(d, cat) -> TypeIds \cup {None}] :
     \A id \in KnownIds(d, cat) :
       IF LocalTypes(d, id) = {} THEN f[id] = None ELSE f[id] \in LocalTypes(d, id)}

\* A type that is not linked is the one with its title, or a new one.
LocalType(s, x) ==
  LET named == Named(s.types, Plain(x.title)) IN
  IF s.link[x.id] # None THEN s.link[x.id]
  ELSE IF named # {} THEN CHOOSE t \in named : TRUE ELSE Fresh(s.types)

\* All is undone if no name is left for it, or (a bound of the model) no id.
ImportType(s, x) ==
  LET t == LocalType(s, x) IN
  IF t = None \/ FreeNumbers(s.types, x.title, x.id, t) = {} THEN [s EXCEPT !.ok = FALSE]
  ELSE [s EXCEPT
          !.types = [@ EXCEPT ![t] = [name |-> resolveUniqueName(s.types, x.title, x.id, t),
                                      info |-> x.info]],
          !.link = [@ EXCEPT ![x.id] = t]]

\* Rooms without a type, or of one nobody knows, go to a type of their own.
TypeOfRoom(s, x) ==
  LET others == Named(s.types, Plain(Unassigned)) IN
  IF x.type \in DOMAIN s.link THEN s.link[x.type]
  ELSE IF others # {} THEN CHOOSE t \in others : TRUE ELSE Fresh(s.types)

MappingsOf(s, x) == {m \in s.mappings : m.accommodation = x.id}

\* A room is known by its mapping alone, never by its name.
LocalRoom(s, x) ==
  IF MappingsOf(s, x) # {} THEN (CHOOSE m \in MappingsOf(s, x) : TRUE).room ELSE Fresh(s.rooms)

ImportRoom(s, x) ==
  LET t == TypeOfRoom(s, x)
      r == LocalRoom(s, x)
  IN  IF None \in {r, t} \/ FreeNumbers(s.rooms, x.title, x.id, r) = {} THEN [s EXCEPT !.ok = FALSE]
      ELSE [s EXCEPT
             !.types = IF @[t] # None THEN @
                       ELSE [@ EXCEPT ![t] = [name |-> Plain(Unassigned), info |-> None]],
             !.rooms = [@ EXCEPT ![r] = [name |-> resolveUniqueName(s.rooms, x.title, x.id, r),
                                         type |-> t]],
             !.mappings = (@ \ MappingsOf(s, x))
                            \cup {[room |-> r, accommodation |-> x.id, type |-> x.type]}]

\* The types first, then the rooms, each in the order MotoPress lists them.
Items(cat) == Len(cat.types) + Len(cat.rooms)

ImportItem(s, cat, i) ==
  IF i <= Len(cat.types) THEN ImportType(s, cat.types[i])
  ELSE ImportRoom(s, cat.rooms[i - Len(cat.types)])

Started(d, link) ==
  [types |-> d.types, rooms |-> d.rooms, mappings |-> d.mappings, link |-> link, ok |-> TRUE]

\* The tables after each item.
Progress(d, cat, link) ==
  LET after[i \in 0..Items(cat)] ==
        IF i = 0 THEN Started(d, link) ELSE ImportItem(after[i - 1], cat, i)
  IN  after

Imported(d, cat, link) == Progress(d, cat, link)[Items(cat)]

AllImported(d, cat) ==
  {[types |-> s.types, rooms |-> s.rooms, mappings |-> s.mappings] :
     s \in {x \in {Imported(d, cat, link) : link \in Links(d, cat)} : x.ok}}

Import ==
  /\ imports < MaxImports
  /\ imports' = imports + 1
  /\ \E d \in AllImported(db, catalog) :
       roomTypes' = d.types /\ roomRows' = d.rooms /\ mappings' = d.mappings
  /\ UNCHANGED <<catalog, edits>>

-----------------------------------------------------------------------------
(* What the staff do, here and at MotoPress                                 *)

StaffEdits == edits < MaxEdits /\ edits' = edits + 1 /\ UNCHANGED imports

Publish(cat) ==
  /\ StaffEdits /\ catalog # cat /\ catalog' = cat
  /\ UNCHANGED <<roomTypes, roomRows, mappings>>

updateRoomType(t, title) ==
  /\ StaffEdits /\ roomTypes[t] # None /\ Named(roomTypes, Plain(title)) = {}
  /\ roomTypes' = [roomTypes EXCEPT ![t].name = Plain(title)]
  /\ UNCHANGED <<roomRows, mappings, catalog>>

deleteRoomType(t) ==
  /\ StaffEdits /\ roomTypes[t] # None
  /\ \A r \in Used(roomRows) : roomRows[r].type # t
  /\ roomTypes' = [roomTypes EXCEPT ![t] = None]
  /\ UNCHANGED <<roomRows, mappings, catalog>>

createRoom(t, title) ==
  /\ StaffEdits /\ roomTypes[t] # None /\ Named(roomRows, Plain(title)) = {}
  /\ Used(roomRows) # RoomIds
  /\ roomRows' = [roomRows EXCEPT ![Fresh(roomRows)] = [name |-> Plain(title), type |-> t]]
  /\ UNCHANGED <<roomTypes, mappings, catalog>>

updateRoom(r, t) ==
  /\ StaffEdits /\ roomRows[r] # None /\ roomTypes[t] # None
  /\ roomRows' = [roomRows EXCEPT ![r].type = t]
  /\ UNCHANGED <<roomTypes, mappings, catalog>>

\* Its mapping goes with it.
deleteRoom(r) ==
  /\ StaffEdits /\ roomRows[r] # None
  /\ roomRows' = [roomRows EXCEPT ![r] = None]
  /\ mappings' = {m \in mappings : m.room # r}
  /\ UNCHANGED <<roomTypes, catalog>>

deleteRoomExternalMapping(m) ==
  /\ StaffEdits /\ mappings' = mappings \ {m}
  /\ UNCHANGED <<roomTypes, roomRows, catalog>>

\* A room has one mapping, and so has an accommodation.
createRoomExternalMapping(r, x) ==
  /\ StaffEdits /\ roomRows[r] # None
  /\ \A m \in mappings : m.room # r /\ m.accommodation # x.id
  /\ mappings' = mappings \cup {[room |-> r, accommodation |-> x.id, type |-> x.type]}
  /\ UNCHANGED <<roomTypes, roomRows, catalog>>

-----------------------------------------------------------------------------
ImportInit ==
  /\ roomTypes = [t \in TypeIds |-> None]
  /\ roomRows = [r \in RoomIds |-> None]
  /\ mappings = {}
  /\ catalog \in Catalogs
  /\ imports = 0 /\ edits = 0

Staff ==
  \/ \E cat \in Catalogs : Publish(cat)
  \/ \E t \in TypeIds, title \in Titles : updateRoomType(t, title) \/ createRoom(t, title)
  \/ \E t \in TypeIds : deleteRoomType(t) \/ \E r \in RoomIds : updateRoom(r, t)
  \/ \E r \in RoomIds : deleteRoom(r)
  \/ \E m \in mappings : deleteRoomExternalMapping(m)
  \/ \E r \in RoomIds, i \in DOMAIN catalog.rooms :
       createRoomExternalMapping(r, catalog.rooms[i])

ImportNext == Import \/ Staff

ImportSpec == ImportInit /\ [][ImportNext]_importVars

-----------------------------------------------------------------------------
(* Properties                                                               *)

Tables(d) ==
  /\ d.types \in [TypeIds -> TypeRow \cup {None}]
  /\ d.rooms \in [RoomIds -> RoomRow \cup {None}]
  /\ d.mappings \subseteq Mapping

ImportTypeOK ==
  Tables(db) /\ catalog \in Catalogs /\ imports \in 0..MaxImports /\ edits \in 0..MaxEdits

\* The unique indexes: of types and rooms by name, of mappings by room and by
\* accommodation; and no reference dangles (schema.prisma:168, 195, 260-261).
Keys(d) ==
  /\ UniqueNames(d.types) /\ UniqueNames(d.rooms)
  /\ \A r \in Used(d.rooms) : d.types[d.rooms[r].type] # None
  /\ \A m, k \in d.mappings : m.room = k.room \/ m.accommodation = k.accommodation => m = k
  /\ \A m \in d.mappings : d.rooms[m.room] # None

\* After an import every room that MotoPress publishes is mapped to a room of
\* its title, of one type with the other published rooms of its type
\* (motopress-import.service.ts:161-278).
CatalogImported(d, cat) ==
  \A i \in DOMAIN cat.rooms :
    \E m \in d.mappings :
      /\ m.accommodation = cat.rooms[i].id /\ m.type = cat.rooms[i].type
      /\ d.rooms[m.room].name.title = cat.rooms[i].title
      /\ \A k \in d.mappings :
           k.type = m.type /\ (\E j \in DOMAIN cat.rooms : cat.rooms[j].id = k.accommodation) =>
             d.rooms[k.room].type = d.rooms[m.room].type

\* MotoPress publishes all rooms that are mapped, and its types have titles of
\* their own.  A mapping that no import brings up to date can make each import
\* take another row for its type, and three types of one title can hand it on
\* from import to import when the staff have made others share their rows.
Regular(d, cat) ==
  /\ \A m \in d.mappings : \E i \in DOMAIN cat.rooms : cat.rooms[i].id = m.accommodation
  /\ \A i, j \in DOMAIN cat.types : cat.types[i].title = cat.types[j].title => i = j

\* Importing again what was imported changes nothing but names that were taken
\* the first time: a third import leaves the tables as they are.
Settles(d, cat) ==
  Regular(d, cat) =>
    \A second \in AllImported(d, cat) : \A third \in AllImported(second, cat) : third = second

\* What one import would leave, wherever the tables are, is what MotoPress
\* publishes, and it stays so (motopress-import.service.ts:68-279).
ImportSound ==
  /\ ImportTypeOK /\ Keys(db)
  /\ imports < MaxImports =>
       \A d \in AllImported(db, catalog) :
         CatalogImported(d, catalog) /\ Settles(d, catalog)
==============================================================================
