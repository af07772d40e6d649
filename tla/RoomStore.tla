------------------------------ MODULE RoomStore -------------------------------
(***************************************************************************)
(* The rooms of one owner: room.service Create and Delete, the room store  *)
(* with its map, and csvStorage with rooms.csv, which it rewrites as a     *)
(* whole for every change; restarts, and a full disk or the end of the     *)
(* server, which may cut what is written anywhere.                         *)
(*                                                                         *)
(* A row of the file is the room it describes; invite codes are random and *)
(* stand for rooms.  IDs are the numbers csvStorage hands out.  Rows are   *)
(* only ever added at the end, so the file is its first line and the set   *)
(* of the rows below it, in the order in which they were added.  A line    *)
(* has five fields, the last of a row is a date; all lines must have as    *)
(* many fields as the first.                                               *)
(***************************************************************************)
EXTENDS Integers, FiniteSets

CONSTANTS
  Rooms,     \* rooms the owner may create, each once
  Handlers,  \* goroutines that serve HTTP requests
  NoRoom,    \* a handler at rest
  MaxRooms,  \* maxRoomsPerUser, not 0
  MaxCuts    \* bound: how often a write is cut

ASSUME ConstantsAssumption ==
  /\ NoRoom \notin Rooms
  /\ IsFiniteSet(Rooms)
  /\ IsFiniteSet(Handlers)
  /\ MaxRooms \in Nat \ {0}
  /\ MaxCuts \in Nat

NoID == -1

VARIABLES
  file,     \* rooms.csv
  up,       \* the server runs
  older,    \* the rooms that were added before this one
  lastID,   \* dataStruct["rooms"].lastID
  id,       \* Room.ID, in memory and in the row
  rooms,    \* store.rooms
  pc,       \* where a handler is
  arg,      \* the room it creates or deletes
  fresh,    \* history: rooms added since the server was started
  created,  \* history: rooms whose creation was answered 201
  deleted,  \* history: rooms whose deletion was answered 200
  taken,    \* history: rooms whose row went with that of another one
  cuts,     \* history: how often the file was cut off
  full      \* history: it was since the server was started, or had a short header then

vars ==
  <<file, up, older, lastID, id, rooms, pc, arg, fresh, created, deleted, taken, cuts, full>>
history == <<created, deleted, taken, cuts, full>>
storage == <<file, up, older, lastID, id, fresh>>
cut == cuts > 0

\* The first line, which may have fewer than five fields; the rows below it, and
\* those of them whose date was cut; and whether the lines differ in their fields,
\* so that the reader refuses the file.
Files ==
  [top : {"none", "short", "header"}, rows : SUBSET Rooms, undated : SUBSET Rooms,
   torn : BOOLEAN]

Empty == [top |-> "none", rows |-> {}, undated |-> {}, torn |-> FALSE]
Short == [top |-> "short", rows |-> {}, undated |-> {}, torn |-> FALSE]
\* Nobody looks at such a file again, other than to refuse it.
Torn == [top |-> "short", rows |-> {}, undated |-> {}, torn |-> TRUE]

TypeOK ==
  /\ file \in Files
  /\ file.top # "header" => file.rows = {}
  /\ file.undated \subseteq file.rows
  /\ up \in BOOLEAN
  /\ older \in [Rooms -> SUBSET Rooms]
  /\ lastID \in Nat \cup {-1}
  /\ id \in [Rooms -> Nat \cup {NoID}]
  /\ rooms \subseteq Rooms
  /\ pc \in [Handlers -> {"idle", "creating", "stored", "deleting", "unmapped"}]
  /\ arg \in [Handlers -> Rooms \cup {NoRoom}]
  /\ fresh \subseteq Rooms /\ created \subseteq Rooms
  /\ deleted \subseteq Rooms /\ taken \subseteq Rooms
  /\ cuts \in Nat /\ full \in BOOLEAN

\* NewCSVStorage, in an empty directory or in one where the first start ended
\* before it had written the header, or all of it.
Init ==
  /\ \/ file = [Empty EXCEPT !.top = "header"] /\ lastID = 0 /\ cuts = 0
     \/ file = Empty /\ lastID = -1 /\ cuts = 0
     \/ file = Short /\ lastID = 0 /\ cuts = 1
  /\ full = cut
  /\ up = TRUE
  /\ older = [r \in Rooms |-> {}]
  /\ id = [r \in Rooms |-> NoID]
  /\ rooms = {}
  /\ pc = [h \in Handlers |-> "idle"]
  /\ arg = [h \in Handlers |-> NoRoom]
  /\ fresh = {} /\ created = {} /\ deleted = {} /\ taken = {}

Begin(h, label, r) == pc' = [pc EXCEPT ![h] = label] /\ arg' = [arg EXCEPT ![h] = r]
Goto(h, label) == pc' = [pc EXCEPT ![h] = label] /\ UNCHANGED arg
Return(h) == Begin(h, "idle", NoRoom)

\* store.mu is held for writing during the whole of store.Delete.
Locked == \E h \in Handlers : pc[h] = "unmapped"

-----------------------------------------------------------------------------
(* csvStorage: each operation reads the file, and writes it anew, holding  *)
(* the lock of the storage.                                                *)

\* loadFromCSV reads the file, and all dates.
Loads(f) == ~f.torn /\ f.undated = {}

\* Whole rows of f, in their order, and the last of them.
Heads(f, before) == {q \in SUBSET f.rows : \A r \in q : before[r] \cap f.rows \subseteq q}
Last(q, before) == {r \in q : q \ {r} \subseteq before[r]}

\* What there may be of a file that was truncated and not written to its end: none or
\* a piece of its first line, whole rows, or a row that ends within its date or
\* before.  (That lines of a file with a short header agree again is left out.)
Parts(f, before) ==
  {Empty, Short} \cup {Torn : r \in f.rows}
    \cup UNION {{[f EXCEPT !.rows = q, !.undated = (@ \cap q) \cup u] :
                    u \in SUBSET Last(q, before)} : q \in Heads(f, before)}

CutHere == cuts < MaxCuts /\ cuts' = cuts + 1

CutOff(f, before) == CutHere /\ file' \in Parts(f, before) /\ full' = TRUE

\* writeAllToFile: errors of Flush are ignored.
Write(f, before) == (file' = f /\ UNCHANGED <<cuts, full>>) \/ CutOff(f, before)

\* The row of r has its place at the end of the file.
Behind(r) == [older EXCEPT ![r] = {q \in Rooms : id[q] # NoID}]

\* getNewRoomID.
Number(r) == id' = [id EXCEPT ![r] = lastID + 1] /\ older' = Behind(r)

\* Mutant of WithRow: the records that were read are not written again.
WithRowOnly(r) == [Empty EXCEPT !.top = "header", !.rows = {r}]

\* An empty file gets its header back; a header that was cut stays as it is.
WithRow(r) ==
  IF file.top = "short" THEN Torn ELSE [file EXCEPT !.top = "header", !.rows = @ \cup {r}]

AddRoom(r) ==
  /\ ~file.torn
  /\ Number(r)
  /\ Write(WithRow(r), Behind(r))
  /\ lastID' = lastID + 1
  /\ fresh' = fresh \cup {r}

\* A file cannot be opened or read, or writer.Write fails when the file is longer
\* than its buffer.  The beginning of the row may be in the file by then, with an
\* ID that is given again.
AddRoomFails(r) ==
  /\ \/ UNCHANGED <<file, older, id, cuts, full>>
     \/ /\ ~file.torn
        /\ CutOff(WithRow(r), Behind(r))
        /\ \/ r \in file'.undated /\ Number(r)
           \/ r \notin file'.rows /\ UNCHANGED <<older, id>>
  /\ UNCHANGED <<lastID, fresh>>

\* Mutant of WithoutRows: of the rows with the ID, only the oldest goes.
WithoutFirstRow(r) ==
  LET rest == {q \in file.rows : id[q] # id[r] \/ \E p \in file.rows \cap older[q] : id[p] = id[q]}
  IN [file EXCEPT !.rows = rest, !.undated = @ \cap rest]

\* DeleteRoom: every row with the ID of r goes.
WithoutRows(r) ==
  [file EXCEPT !.rows = {q \in @ : id[q] # id[r]}, !.undated = {q \in @ : id[q] # id[r]}]

-----------------------------------------------------------------------------
(* room.service and room.store.                                            *)

\* Mutant of CreateStart: who has reached the limit creates one more.
CreateStartAtLimit(h, r) ==
  /\ up /\ pc[h] = "idle"
  /\ ~Locked
  /\ Cardinality(rooms) <= MaxRooms
  /\ id[r] = NoID /\ \A g \in Handlers : arg[g] # r
  /\ Begin(h, "creating", r)
  /\ UNCHANGED <<storage, rooms, history>>

\* service.Create: the limit is checked under the read lock, which is released.
CreateStart(h, r) ==
  /\ up /\ pc[h] = "idle"
  /\ ~Locked
  /\ Cardinality(rooms) < MaxRooms
  /\ id[r] = NoID /\ \A g \in Handlers : arg[g] # r
  /\ Begin(h, "creating", r)
  /\ UNCHANGED <<storage, rooms, history>>

\* Mutant of CreateStore: the ID is used, and the next room gets it again.
CreateStoreSameID(h) ==
  /\ pc[h] = "creating"
  /\ \/ /\ ~file.torn
        /\ Number(arg[h])
        /\ Write(WithRow(arg[h]), Behind(arg[h]))
        /\ fresh' = fresh \cup {arg[h]}
        /\ Goto(h, "stored")
        /\ UNCHANGED lastID
     \/ AddRoomFails(arg[h]) /\ Return(h)
  /\ UNCHANGED <<up, rooms, created, deleted, taken>>

\* Mutant of CreateStore: the error of AddRoom is overlooked.
CreateStoreNoError(h) ==
  /\ pc[h] = "creating"
  /\ AddRoom(arg[h]) \/ AddRoomFails(arg[h])
  /\ Goto(h, "stored")
  /\ UNCHANGED <<up, rooms, created, deleted, taken>>

\* store.Create without the lock.
CreateStore(h) ==
  /\ pc[h] = "creating"
  /\ \/ AddRoom(arg[h]) /\ Goto(h, "stored")
     \/ AddRoomFails(arg[h]) /\ Return(h)
  /\ UNCHANGED <<up, rooms, created, deleted, taken>>

\* The write of the map takes no lock: an entry may get lost when another
\* goroutine is about to write the map, too.  (More often the runtime sees the
\* race and ends the process: that is a Restart.)
CreatePut(h) ==
  /\ pc[h] = "stored"
  /\ \/ rooms' = rooms \cup {arg[h]}
     \/ /\ \E g \in Handlers \ {h} : pc[g] \in {"stored", "deleting"}
        /\ UNCHANGED rooms
  /\ created' = created \cup {arg[h]}
  /\ Return(h)
  /\ UNCHANGED <<storage, deleted, taken, cuts, full>>

\* service.Delete finds the room, which is the owner's, and calls store.Delete.
DeleteStart(h, r) ==
  /\ up /\ pc[h] = "idle"
  /\ ~Locked
  /\ r \in rooms
  /\ Begin(h, "deleting", r)
  /\ UNCHANGED <<storage, rooms, history>>

\* store.Delete takes the lock and the entry out of the map; the entry may stay
\* when a Create writes the map meanwhile.  A second Delete finds nothing.
DeleteUnmap(h) ==
  /\ pc[h] = "deleting"
  /\ ~Locked
  /\ \/ /\ arg[h] \in rooms
        /\ \/ rooms' = rooms \ {arg[h]}
           \/ /\ \E g \in Handlers : pc[g] = "stored"
              /\ UNCHANGED rooms
        /\ Goto(h, "unmapped")
     \/ /\ arg[h] \notin rooms
        /\ Return(h)
        /\ UNCHANGED rooms
  /\ UNCHANGED <<storage, history>>

\* storage.DeleteRoom.  When it fails the room is not in the map any more, but its
\* row stays, unless the file was cut, and Delete is answered 500.
DeleteStore(h) ==
  /\ pc[h] = "unmapped"
  /\ \/ /\ ~file.torn
        /\ \/ Write(WithoutRows(arg[h]), older) /\ deleted' = deleted \cup {arg[h]}
           \/ CutOff(WithoutRows(arg[h]), older) /\ UNCHANGED deleted
        /\ taken' = taken \cup {q \in file.rows \ {arg[h]} : id[q] = id[arg[h]]}
     \/ UNCHANGED <<file, deleted, taken, cuts, full>>
  /\ Return(h)
  /\ UNCHANGED <<up, older, lastID, id, fresh, rooms, created>>

-----------------------------------------------------------------------------
(* Restarts.                                                               *)

\* Mutant of Reload: one line too few is counted.
ReloadMinusOne(f) ==
  /\ file' = f
  /\ up' = Loads(f)
  /\ lastID' = IF Loads(f) THEN Cardinality(f.rows) - (IF f.top = "none" THEN 2 ELSE 1) ELSE lastID
  /\ rooms' = IF Loads(f) THEN f.rows ELSE {}
  /\ fresh' = {}
  /\ pc' = [h \in Handlers |-> "idle"]
  /\ arg' = [h \in Handlers |-> NoRoom]
  /\ full' = (f.top = "short")
  /\ UNCHANGED <<created, deleted, taken>>

\* The server starts with file f: NewCSVStorage takes the number of its lines
\* without the first for the last ID, and loadFromCSV fills the map.  With a file that
\* one of them cannot read it does not start.
Reload(f) ==
  /\ file' = f
  /\ up' = Loads(f)
  /\ lastID' = IF Loads(f) THEN Cardinality(f.rows) - (IF f.top = "none" THEN 1 ELSE 0) ELSE lastID
  /\ rooms' = IF Loads(f) THEN f.rows ELSE {}
  /\ fresh' = {}
  /\ pc' = [h \in Handlers |-> "idle"]
  /\ arg' = [h \in Handlers |-> NoRoom]
  /\ full' = (f.top = "short")
  /\ UNCHANGED <<created, deleted, taken>>

\* The server ends between two steps of its handlers, and is started again.
Restart == Reload(file) /\ UNCHANGED <<older, id, cuts>>

\* The server ends while it rewrites the file, which has been truncated.
CrashInRewrite(h) ==
  /\ ~file.torn
  /\ \/ /\ pc[h] = "creating"
        /\ Number(arg[h])
        /\ \E f \in Parts(WithRow(arg[h]), Behind(arg[h])) : Reload(f)
     \/ /\ pc[h] = "unmapped"
        /\ \E f \in Parts(WithoutRows(arg[h]), older) : Reload(f)
        /\ UNCHANGED <<older, id>>
  /\ CutHere

-----------------------------------------------------------------------------
Next ==
  \/ \E h \in Handlers, r \in Rooms : CreateStart(h, r) \/ DeleteStart(h, r)
  \/ \E h \in Handlers : CreateStore(h) \/ CreatePut(h) \/ DeleteUnmap(h) \/ DeleteStore(h)
  \/ Restart
  \/ \E h \in Handlers : CrashInRewrite(h)

Spec == Init /\ [][Next]_vars

-----------------------------------------------------------------------------
(* Properties.                                                             *)

\* A room whose deletion was answered 200 has no row, so that no restart
\* brings it back, whatever rooms share its ID and wherever the server stopped.
DeletedStaysDeleted == deleted \cap file.rows = {}

Twins(r, q) == r # q /\ id[r] = id[q] /\ id[r] # NoID

\* A room that people can find has its row, in a file with which the server can be
\* started again: neither failures that are answered nor overlapping handlers take
\* it, except with the deletion of a room that was given the same ID.
RoomsAreStored ==
  up /\ ~full => Loads(file) /\ \A r \in rooms \ deleted : r \in file.rows \cup taken

\* The invite code of a room that was created survives restarts
\* (docs/features/rooms.md) until that room is deleted, or another one that was
\* given the same ID while the row was there, even if the race of the map has lost it.
InviteCodesPersist ==
  ~cut => Loads(file) /\ \A r \in created \ deleted : r \in file.rows \cup taken

\* Two rooms get the same ID only when there is a restart between them, however
\* the handlers that create them overlap.
FreshIDsDiffer == \A r, q \in fresh : ~Twins(r, q)

\* The limit of rooms is checked some time before the room is made, without a lock
\* in between, and entries of the map get lost and come back; still a creation that
\* is answered leaves its owner at most one room too many for every other request
\* that is served at the same time.
LimitHoldsButForRaces ==
  [][created' # created => Cardinality(rooms') < MaxRooms + Cardinality(Handlers)]_vars
=============================================================================
