---------------------------- MODULE RoomStoreProofs ----------------------------
(***************************************************************************)
(* Theorems about RoomStore, for any number of rooms and handlers.         *)
(***************************************************************************)
EXTENDS RoomStore, FiniteSetTheorems, TLAPS

\* Whatever has a row, an entry or a deletion has an ID; a room that is being
\* created is not in the map, and one handler only is about it.
Known ==
  /\ \A r \in file.rows \cup rooms \cup created \cup deleted \cup fresh : id[r] # NoID
  /\ \A h \in Handlers :
       /\ pc[h] # "idle" => arg[h] \in Rooms
       /\ pc[h] = "creating" => id[arg[h]] = NoID
       /\ pc[h] \in {"stored", "deleting", "unmapped"} => id[arg[h]] # NoID
  /\ \A h \in Handlers : pc[h] \in {"creating", "stored"} =>
       arg[h] \notin rooms /\ \A g \in Handlers : arg[g] = arg[h] => g = h

\* The rooms of this run have the last IDs.
Numbered ==
  /\ \A r \in fresh : id[r] <= lastID
  /\ \A r, q \in fresh : id[r] = id[q] => r = q

\* RoomsAreStored, from the moment on at which the row is written.
Stored ==
  /\ full = TRUE => cut
  /\ file.top = "short" => cut
  /\ \A h \in Handlers : pc[h] # "idle" => up
  /\ up /\ ~full => file.top # "short"
  /\ up /\ ~full => \A h \in Handlers : pc[h] = "stored" => arg[h] \in file.rows \cup taken

IInv ==
  TypeOK /\ Known /\ Numbered /\ Stored
    /\ DeletedStaysDeleted /\ RoomsAreStored /\ InviteCodesPersist

\* What TypeOK says of a file.
Proper(f) == f \in Files /\ (f.top # "header" => f.rows = {}) /\ f.undated \subseteq f.rows

-----------------------------------------------------------------------------
\* The initial state satisfies the invariant.
LEMMA InitInductive == Init => IInv
  <1> SUFFICES ASSUME Init PROVE IInv
    OBVIOUS
  <1>0. /\ Proper(file) /\ file.rows = {} /\ Loads(file) /\ lastID \in Nat \cup {-1}
        /\ cuts \in Nat /\ (file.top = "short" => cut /\ full)
    <2>1. CASE file = [Empty EXCEPT !.top = "header"] /\ lastID = 0 /\ cuts = 0
      BY <2>1 DEF Empty, Files, Proper, Loads
    <2>2. CASE file = Empty /\ lastID = -1 /\ cuts = 0
      BY <2>2 DEF Empty, Files, Proper, Loads
    <2>3. CASE file = Short /\ lastID = 0 /\ cuts = 1
      <3>1. Proper(Short) /\ Short.rows = {} /\ Loads(Short)
        BY DEF Short, Files, Proper, Loads
      <3>2. cut /\ 1 \in Nat /\ 0 \in Nat
        BY <2>3 DEF cut
      <3>3. full
        BY <3>2, Zenon DEF Init
      <3> QED
        BY <2>3, <3>1, <3>2, <3>3
    <2> QED
      BY <2>1, <2>2, <2>3 DEF Init
  <1>1. TypeOK
    <2>1. /\ older \in [Rooms -> SUBSET Rooms] /\ id \in [Rooms -> Nat \cup {NoID}]
          /\ pc \in [Handlers -> {"idle", "creating", "stored", "deleting", "unmapped"}]
          /\ arg \in [Handlers -> Rooms \cup {NoRoom}]
      BY DEF Init
    <2>2. up \in BOOLEAN /\ full \in BOOLEAN
      BY DEF Init, cut
    <2> QED
      BY <1>0, <2>1, <2>2 DEF Init, TypeOK, Proper
  <1>2. Known
    BY <1>0, ConstantsAssumption DEF Init, Known
  <1>3. Numbered /\ Stored
    BY <1>0 DEF Init, Numbered, Stored
  <1>4. DeletedStaysDeleted /\ RoomsAreStored /\ InviteCodesPersist
    BY <1>0 DEF Init, DeletedStaysDeleted, RoomsAreStored, InviteCodesPersist
  <1> QED
    BY <1>1, <1>2, <1>3, <1>4 DEF IInv

\* A part of a file has no row that is not in the file.
LEMMA PartsOf ==
  ASSUME NEW f, Proper(f), NEW before, NEW g \in Parts(f, before)
  PROVE  Proper(g) /\ g.rows \subseteq f.rows
  <1>1. CASE g \in {Empty, Short, Torn}
    <2>1. CASE g = Empty
      BY <2>1 DEF Empty, Proper, Files
    <2>2. CASE g = Short
      BY <2>2 DEF Short, Proper, Files
    <2>3. CASE g = Torn
      BY <2>3 DEF Torn, Proper, Files
    <2> QED
      BY <1>1, <2>1, <2>2, <2>3
  <1>2. ASSUME NEW q \in Heads(f, before), NEW u \in SUBSET Last(q, before),
               g = [f EXCEPT !.rows = q, !.undated = (@ \cap q) \cup u]
        PROVE  Proper(g) /\ g.rows \subseteq f.rows
    <2>1. q \in SUBSET f.rows /\ u \in SUBSET q
      BY DEF Heads, Last
    <2>2. /\ g \in Files /\ g.rows = q /\ g.undated = (f.undated \cap q) \cup u /\ g.top = f.top
      BY <1>2, <2>1 DEF Proper, Files
    <2> QED
      BY <2>1, <2>2 DEF Proper
  <1>3. \/ g \in {Empty, Short, Torn}
        \/ \E q \in Heads(f, before) : \E u \in SUBSET Last(q, before) :
             g = [f EXCEPT !.rows = q, !.undated = (@ \cap q) \cup u]
    BY DEF Parts
  <1> QED
    BY <1>1, <1>2, <1>3

\* What writing a file leaves.
LEMMA Written ==
  ASSUME TypeOK, NEW f, Proper(f), NEW before, Write(f, before) \/ CutOff(f, before)
  PROVE  /\ Proper(file') /\ file'.rows \subseteq f.rows
         /\ cuts' \in Nat /\ full' \in BOOLEAN /\ (cut => cut')
         /\ \/ file' = f /\ cuts' = cuts /\ full' = full
            \/ cut' /\ full' = TRUE
  <1>1. CASE file' = f /\ UNCHANGED <<cuts, full>>
    BY <1>1 DEF TypeOK, cut
  <1>2. CASE CutOff(f, before)
    <2>1. Proper(file') /\ file'.rows \subseteq f.rows
      BY <1>2, PartsOf DEF CutOff
    <2>2. cuts' \in Nat /\ cut' /\ full' = TRUE
      BY <1>2 DEF CutOff, CutHere, TypeOK, cut
    <2> QED
      BY <2>1, <2>2
  <1> QED
    BY <1>1, <1>2 DEF Write

\* What the file becomes with the row of a room, ...
LEMMA WithRowOf ==
  ASSUME TypeOK, NEW r \in Rooms
  PROVE  /\ Proper(WithRow(r)) /\ WithRow(r).rows \subseteq file.rows \cup {r}
         /\ WithRow(r).top = "short" => file.top = "short"
         /\ file.top # "short" =>
              /\ WithRow(r).rows = file.rows \cup {r} /\ WithRow(r).undated = file.undated
              /\ WithRow(r).torn = file.torn
  <1>1. CASE file.top = "short"
    BY <1>1 DEF WithRow, Torn, Short, Empty, Proper, Files
  <1>2. CASE file.top # "short"
    <2>1. PICK g : g = [file EXCEPT !.top = "header", !.rows = @ \cup {r}]
      OBVIOUS
    <2>2. /\ g \in Files /\ g.top = "header" /\ g.rows = file.rows \cup {r}
          /\ g.undated = file.undated /\ g.torn = file.torn
      BY <2>1 DEF TypeOK, Files
    <2> QED
      BY <1>2, <2>1, <2>2 DEF WithRow, TypeOK, Proper
  <1> QED
    BY <1>1, <1>2

\* ... and without the rows of an ID.
LEMMA WithoutRowsOf ==
  ASSUME TypeOK, NEW r
  PROVE  /\ Proper(WithoutRows(r))
         /\ WithoutRows(r).rows = {q \in file.rows : id[q] # id[r]}
         /\ WithoutRows(r).undated \subseteq file.undated
         /\ WithoutRows(r).top = file.top /\ WithoutRows(r).torn = file.torn
  <1>1. PICK g : g = WithoutRows(r)
    OBVIOUS
  <1>2. /\ g \in Files /\ g.top = file.top /\ g.torn = file.torn
        /\ g.rows = {q \in file.rows : id[q] # id[r]}
        /\ g.undated = {q \in file.undated : id[q] # id[r]}
    BY <1>1 DEF WithoutRows, TypeOK, Files
  <1> QED
    BY <1>1, <1>2 DEF TypeOK, Proper

\* The steps that leave the file, the IDs and the deleted rooms alone, and add no
\* room that has no row.
LEMMA FileUntouched ==
  ASSUME IInv, UNCHANGED <<storage, deleted, taken, cuts, full>>, TypeOK', Known',
         \A h \in Handlers : pc'[h] # "idle" => up,
         rooms' \subseteq rooms \cup {arg[h] : h \in {g \in Handlers : pc[g] = "stored"}},
         created' \subseteq created \cup {arg[h] : h \in {g \in Handlers : pc[g] = "stored"}},
         \A h \in Handlers : pc'[h] = "stored" => pc[h] = "stored" /\ arg'[h] = arg[h]
  PROVE  IInv'
  BY DEF IInv, storage, Numbered, Stored, DeletedStaysDeleted, RoomsAreStored,
         InviteCodesPersist, cut

\* CreateStart: a room without an ID that nobody else is about to create.
LEMMA CreateStartInductive ==
  ASSUME IInv, NEW h \in Handlers, NEW r \in Rooms, CreateStart(h, r)
  PROVE  IInv'
  <1> USE DEF IInv, CreateStart, Begin, storage, history
  <1>1. TypeOK'
    BY DEF TypeOK
  <1>2. Known'
    BY DEF Known, TypeOK
  <1>3. \A g \in Handlers : pc'[g] # "idle" => up
    BY DEF Stored, TypeOK
  <1> QED
    BY <1>1, <1>2, <1>3, FileUntouched DEF TypeOK

\* AddRoom: the row of a room nobody could have deleted yet.
LEMMA AddRoomInductive ==
  ASSUME IInv, NEW h \in Handlers, pc[h] = "creating", AddRoom(arg[h]), Goto(h, "stored"),
         UNCHANGED <<up, rooms, created, deleted, taken>>
  PROVE  IInv'
  <1> DEFINE r == arg[h]
  <1> USE DEF IInv, Goto
  <1>1. r \in Rooms /\ id[r] = NoID /\ up
    BY DEF Known, Stored
  <1>2. PICK f : f = WithRow(r)
    OBVIOUS
  <1>3. /\ Proper(f) /\ f.rows \subseteq file.rows \cup {r} /\ (f.top = "short" => file.top = "short")
        /\ file.top # "short" => f.rows = file.rows \cup {r} /\ f.undated = file.undated /\ f.torn = file.torn
    BY <1>1, <1>2, WithRowOf
  <1>4. /\ Proper(file') /\ file'.rows \subseteq f.rows
        /\ cuts' \in Nat /\ full' \in BOOLEAN /\ (cut => cut')
        /\ \/ file' = f /\ cuts' = cuts /\ full' = full
           \/ cut' /\ full' = TRUE
    BY <1>2, <1>3, Written DEF AddRoom
  <1>5. /\ id' = [id EXCEPT ![r] = lastID + 1] /\ lastID' = lastID + 1
        /\ older' = [older EXCEPT ![r] = {q \in Rooms : id[q] # NoID}]
        /\ fresh' = fresh \cup {r}
    BY DEF AddRoom, Number, Behind
  <1>6. /\ id'[r] = lastID + 1 /\ id'[r] \in Nat /\ id'[r] # NoID
        /\ \A q \in Rooms : q # r => id'[q] = id[q]
    BY <1>1, <1>5 DEF TypeOK, NoID
  <1>7. TypeOK'
    <2>1. lastID' \in Nat \cup {-1} /\ id' \in [Rooms -> Nat \cup {NoID}]
      BY <1>5, <1>6 DEF TypeOK
    <2>2. older' \in [Rooms -> SUBSET Rooms] /\ fresh' \subseteq Rooms
      BY <1>1, <1>5 DEF TypeOK
    <2>3. pc' \in [Handlers -> {"idle", "creating", "stored", "deleting", "unmapped"}]
      BY DEF TypeOK
    <2> QED
      BY <1>4, <2>1, <2>2, <2>3 DEF TypeOK, Proper
  <1>8. r \notin rooms \cup created \cup deleted \cup fresh \cup file.rows
    BY <1>1 DEF Known
  <1>9. Known'
    <2>1. \A q \in file'.rows \cup rooms \cup created \cup deleted \cup fresh' : id'[q] # NoID
      BY <1>3, <1>4, <1>5, <1>6 DEF Known, TypeOK, Files
    <2>2. \A g \in Handlers : g # h => pc'[g] = pc[g]
      BY DEF TypeOK
    <2>3. pc'[h] = "stored" /\ arg' = arg
      BY DEF TypeOK
    <2>4. \A g \in Handlers : pc[g] = "creating" /\ g # h => arg[g] # r
      BY DEF Known
    <2>5. \A g \in Handlers :
            /\ pc'[g] # "idle" => arg'[g] \in Rooms
            /\ pc'[g] = "creating" => id'[arg'[g]] = NoID
            /\ pc'[g] \in {"stored", "deleting", "unmapped"} => id'[arg'[g]] # NoID
      BY <1>1, <1>6, <2>2, <2>3, <2>4 DEF Known
    <2>6. \A g \in Handlers : pc'[g] \in {"creating", "stored"} =>
            arg'[g] \notin rooms' /\ \A k \in Handlers : arg'[k] = arg'[g] => k = g
      BY <1>1, <2>2, <2>3 DEF Known
    <2> QED
      BY <2>1, <2>5, <2>6 DEF Known
  <1>10. Numbered'
    <2>1. fresh \subseteq Rooms /\ lastID \in Int
      BY DEF TypeOK
    <2>2. \A q \in fresh : id'[q] = id[q] /\ id[q] \in Int /\ id[q] <= lastID
      BY <1>6, <1>8, <2>1 DEF Numbered, TypeOK, NoID
    <2>3. \A q \in fresh' : id'[q] <= lastID'
      BY <1>5, <1>6, <2>1, <2>2
    <2>4. \A q, p \in fresh' : id'[q] = id'[p] => q = p
      BY <1>5, <1>6, <2>1, <2>2 DEF Numbered
    <2> QED
      BY <2>3, <2>4 DEF Numbered
  <1>11. ASSUME ~full'
         PROVE  /\ ~full /\ file.top # "short" /\ file' = f /\ file'.rows = file.rows \cup {r}
                /\ cuts' = cuts /\ (Loads(file) => Loads(file'))
    BY <1>1, <1>3, <1>4, <1>11 DEF Stored, Loads
  <1>12. ASSUME ~cut'
         PROVE  ~full' /\ ~cut
    <2>1. full # TRUE
      BY <1>4, <1>12 DEF Stored
    <2> QED
      BY <1>4, <1>12, <2>1
  <1>13. Stored'
    <2>1. full' = TRUE => cut'
      BY <1>12, <1>4
    <2>2. ASSUME file'.top = "short", ~cut' PROVE FALSE
      BY <1>3, <1>11, <1>12, <2>2
    <2>3. \A g \in Handlers : up'
      BY <1>1
    <2>4. ASSUME up', ~full'
          PROVE  /\ file'.top # "short"
                 /\ \A g \in Handlers : pc'[g] = "stored" => arg'[g] \in file'.rows \cup taken'
      <3>1. file'.top # "short"
        BY <1>3, <1>11, <2>4
      <3>2. ASSUME NEW g \in Handlers, pc'[g] = "stored"
            PROVE  arg'[g] \in file'.rows \cup taken'
        <4>1. CASE g = h
          BY <1>11, <2>4, <4>1
        <4>2. CASE g # h
          <5>1. pc[g] = "stored" /\ arg'[g] = arg[g]
            BY <3>2, <4>2 DEF TypeOK
          <5> QED
            BY <1>1, <1>11, <2>4, <5>1 DEF Stored
        <4> QED
          BY <4>1, <4>2
      <3> QED
        BY <3>1, <3>2
    <2> QED
      BY <2>1, <2>2, <2>3, <2>4 DEF Stored
  <1>14. DeletedStaysDeleted'
    BY <1>3, <1>4, <1>8 DEF DeletedStaysDeleted
  <1>15. RoomsAreStored'
    BY <1>1, <1>11 DEF RoomsAreStored
  <1>16. InviteCodesPersist'
    BY <1>11, <1>12 DEF InviteCodesPersist
  <1> QED
    BY <1>7, <1>9, <1>10, <1>13, <1>14, <1>15, <1>16

\* AddRoom that fails has left the file, or cut it.
LEMMA AddRoomFailsInductive ==
  ASSUME IInv, NEW h \in Handlers, pc[h] = "creating", AddRoomFails(arg[h]), Return(h),
         UNCHANGED <<up, rooms, created, deleted, taken>>
  PROVE  IInv'
  <1> DEFINE r == arg[h]
  <1> USE DEF IInv, AddRoomFails, Return, Begin
  <1>1. r \in Rooms /\ id[r] = NoID /\ up
    BY DEF Known, Stored
  <1>2. CASE UNCHANGED <<file, older, id, cuts, full>>
    <2>1. TypeOK'
      BY <1>2 DEF TypeOK
    <2>2. Known'
      BY <1>2, ConstantsAssumption DEF Known, TypeOK
    <2> QED
      BY <1>1, <1>2, <2>1, <2>2, FileUntouched DEF TypeOK, storage
  <1>3. CASE /\ CutOff(WithRow(r), Behind(r))
             /\ \/ r \in file'.undated /\ Number(r)
                \/ r \notin file'.rows /\ UNCHANGED <<older, id>>
    <2>1. PICK f : f = WithRow(r)
      OBVIOUS
    <2>2. Proper(f) /\ f.rows \subseteq file.rows \cup {r}
      BY <1>1, <2>1, WithRowOf
    <2>3. Proper(file') /\ file'.rows \subseteq file.rows \cup {r} /\ cuts' \in Nat /\ cut' /\ full' = TRUE
      <3>1. file' \in Parts(f, Behind(r)) /\ CutHere /\ full' = TRUE
        BY <1>3, <2>1 DEF CutOff
      <3>2. cuts' \in Nat /\ cut'
        BY <3>1 DEF CutHere, TypeOK, cut
      <3>3. Proper(file') /\ file'.rows \subseteq f.rows
        BY <2>2, <3>1, PartsOf
      <3> QED
        BY <2>2, <3>1, <3>2, <3>3
    <2>4. /\ older' \in [Rooms -> SUBSET Rooms] /\ id' \in [Rooms -> Nat \cup {NoID}]
          /\ \A q \in Rooms : q # r => id'[q] = id[q]
          /\ r \in file'.rows => id'[r] # NoID
      <3>1. CASE r \in file'.undated /\ Number(r)
        BY <1>1, <3>1 DEF Number, Behind, TypeOK, NoID
      <3>2. CASE r \notin file'.rows /\ UNCHANGED <<older, id>>
        BY <3>2 DEF TypeOK
      <3> QED
        BY <1>3, <3>1, <3>2
    <2>5. TypeOK'
      BY <2>3, <2>4 DEF TypeOK, Proper
    <2>6. r \notin rooms \cup created \cup deleted \cup fresh
      BY <1>1 DEF Known
    <2>7. \A g \in Handlers : pc'[g] # "idle" => g # h /\ pc'[g] = pc[g] /\ arg'[g] = arg[g] /\ arg[g] # r
      BY <1>1 DEF TypeOK, Known
    <2>8. Known'
      <3>1. \A q \in file'.rows \cup rooms' \cup created' \cup deleted' \cup fresh' : id'[q] # NoID
        BY <2>3, <2>4, <2>6 DEF Known, TypeOK, Files
      <3>2. \A g \in Handlers :
              /\ pc'[g] # "idle" => arg'[g] \in Rooms
              /\ pc'[g] = "creating" => id'[arg'[g]] = NoID
              /\ pc'[g] \in {"stored", "deleting", "unmapped"} => id'[arg'[g]] # NoID
        BY <2>4, <2>7 DEF Known
      <3>3. \A g \in Handlers : arg'[g] = IF g = h THEN NoRoom ELSE arg[g]
        BY DEF TypeOK
      <3>4. \A g \in Handlers : pc'[g] \in {"creating", "stored"} =>
              arg'[g] \notin rooms' /\ \A k \in Handlers : arg'[k] = arg'[g] => k = g
        BY <2>7, <3>2, <3>3, ConstantsAssumption DEF Known
      <3> QED
        BY <3>1, <3>2, <3>4 DEF Known
    <2>9. Numbered'
      BY <2>4, <2>6 DEF Numbered, TypeOK
    <2>10. Stored' /\ RoomsAreStored' /\ InviteCodesPersist'
      BY <1>1, <2>3 DEF Stored, RoomsAreStored, InviteCodesPersist
    <2>11. DeletedStaysDeleted'
      BY <2>3, <2>6 DEF DeletedStaysDeleted
    <2> QED
      BY <2>5, <2>8, <2>9, <2>10, <2>11
  <1> QED
    BY <1>2, <1>3

\* store.Create: the row is written, or it is not.
LEMMA CreateStoreInductive ==
  ASSUME IInv, NEW h \in Handlers, CreateStore(h)
  PROVE  IInv'
  BY AddRoomInductive, AddRoomFailsInductive DEF CreateStore

\* The entry of the map is one whose row was written.
LEMMA CreatePutInductive ==
  ASSUME IInv, NEW h \in Handlers, CreatePut(h)
  PROVE  IInv'
  <1> USE DEF IInv, CreatePut, Return, Begin, storage
  <1>1. arg[h] \in Rooms /\ id[arg[h]] # NoID
    BY DEF Known
  <1>2. TypeOK'
    BY <1>1 DEF TypeOK
  <1>3. Known'
    BY <1>1, ConstantsAssumption DEF Known, TypeOK
  <1>4. /\ rooms' \subseteq rooms \cup {arg[h]} /\ created' \subseteq created \cup {arg[h]}
        /\ arg[h] \in {arg[g] : g \in {k \in Handlers : pc[k] = "stored"}}
    OBVIOUS
  <1>5. \A g \in Handlers : pc'[g] = "stored" => pc[g] = "stored" /\ arg'[g] = arg[g]
    BY DEF TypeOK
  <1>6. \A g \in Handlers : pc'[g] # "idle" => up
    BY DEF Stored, TypeOK
  <1> QED
    BY <1>2, <1>3, <1>4, <1>5, <1>6, FileUntouched

\* DeleteStart: the room is in the map, so that nobody is about to put it there.
LEMMA DeleteStartInductive ==
  ASSUME IInv, NEW h \in Handlers, NEW r \in Rooms, DeleteStart(h, r)
  PROVE  IInv'
  <1> USE DEF IInv, DeleteStart, Begin, storage, history
  <1>1. TypeOK' /\ id[r] # NoID
    BY DEF TypeOK, Known
  <1>2. Known'
    BY <1>1 DEF Known, TypeOK
  <1>3. \A g \in Handlers : pc'[g] = "stored" => pc[g] = "stored" /\ arg'[g] = arg[g]
    BY DEF TypeOK
  <1>4. \A g \in Handlers : pc'[g] # "idle" => up
    BY DEF Stored, TypeOK
  <1> QED
    BY <1>1, <1>2, <1>3, <1>4, FileUntouched

\* DeleteUnmap touches the map only.
LEMMA DeleteUnmapInductive ==
  ASSUME IInv, NEW h \in Handlers, DeleteUnmap(h)
  PROVE  IInv'
  <1> USE DEF IInv, DeleteUnmap, Goto, Return, Begin, storage, history
  <1>1. TypeOK'
    BY DEF TypeOK
  <1>2. Known'
    BY ConstantsAssumption DEF Known, TypeOK
  <1>3. \A g \in Handlers : pc'[g] = "stored" => pc[g] = "stored" /\ arg'[g] = arg[g]
    BY DEF TypeOK
  <1>4. rooms' \subseteq rooms
    OBVIOUS
  <1>5. \A g \in Handlers : pc'[g] # "idle" => up
    BY DEF Stored, TypeOK
  <1> QED
    BY <1>1, <1>2, <1>3, <1>4, <1>5, FileUntouched

\* DeleteRoom: a room that loses its row is the deleted one or its twin.
LEMMA DeleteStoreInductive ==
  ASSUME IInv, NEW h \in Handlers, DeleteStore(h)
  PROVE  IInv'
  <1> DEFINE r == arg[h]
  <1> USE DEF IInv, DeleteStore, Return, Begin
  <1>1. /\ r \in Rooms /\ id[r] # NoID /\ up
        /\ pc' = [pc EXCEPT ![h] = "idle"] /\ arg' = [arg EXCEPT ![h] = NoRoom]
        /\ UNCHANGED <<up, older, lastID, id, fresh, rooms, created>>
    BY DEF Known, Stored
  <1>2. \A g \in Handlers : pc'[g] # "idle" => g # h /\ pc'[g] = pc[g] /\ arg'[g] = arg[g]
    BY <1>1 DEF TypeOK
  <1>3. CASE UNCHANGED <<file, deleted, taken, cuts, full>>
    <2>1. TypeOK'
      BY <1>1, <1>3 DEF TypeOK
    <2>2. Known'
      BY <1>1, <1>3, ConstantsAssumption DEF Known, TypeOK
    <2> QED
      BY <1>1, <1>2, <1>3, <2>1, <2>2, FileUntouched DEF storage
  <1>4. CASE /\ \/ Write(WithoutRows(r), older) /\ deleted' = deleted \cup {r}
                \/ CutOff(WithoutRows(r), older) /\ deleted' = deleted
             /\ taken' = taken \cup {q \in file.rows \ {r} : id[q] = id[r]}
    <2>0. PICK f : f = WithoutRows(r)
      OBVIOUS
    <2>1. /\ Proper(f) /\ f.rows = {q \in file.rows : id[q] # id[r]}
          /\ f.undated \subseteq file.undated /\ f.top = file.top /\ f.torn = file.torn
      BY <2>0, WithoutRowsOf
    <2>2. /\ Proper(file') /\ file'.rows \subseteq f.rows
          /\ cuts' \in Nat /\ full' \in BOOLEAN /\ (cut => cut')
          /\ \/ file' = f /\ cuts' = cuts /\ full' = full
             \/ cut' /\ full' = TRUE
      BY <1>4, <2>0, <2>1, Written
    <2>3. deleted \subseteq deleted' /\ deleted' \subseteq deleted \cup {r}
      BY <1>4
    <2>4. ASSUME ~full'
          PROVE  /\ ~full /\ file' = f /\ cuts' = cuts /\ deleted' = deleted \cup {r}
                 /\ Loads(file) => Loads(file')
                 /\ \A q \in file.rows \cup taken : q \in file'.rows \cup taken' \/ q = r
      <3>1. ~full /\ file' = f /\ cuts' = cuts
        BY <2>2, <2>4
      <3>2. deleted' = deleted \cup {r}
        BY <1>4, <2>4 DEF CutOff
      <3> QED
        BY <1>4, <2>1, <3>1, <3>2 DEF Loads, Proper
    <2>5. ASSUME ~cut' PROVE ~full' /\ ~cut
      <3>1. full # TRUE
        BY <2>2, <2>5 DEF Stored
      <3> QED
        BY <2>2, <2>5, <3>1
    <2>6. TypeOK'
      <3>1. deleted' \subseteq Rooms /\ taken' \subseteq Rooms
        BY <1>1, <1>4, <2>3 DEF TypeOK, Files
      <3> QED
        BY <1>1, <2>2, <3>1 DEF TypeOK, Proper
    <2>7. Known'
      <3>1. \A q \in file'.rows \cup rooms' \cup created' \cup deleted' \cup fresh' : id'[q] # NoID
        BY <1>1, <2>1, <2>2, <2>3 DEF Known
      <3>2. \A g \in Handlers : pc'[g] \in {"creating", "stored"} =>
              arg'[g] \notin rooms' /\ \A k \in Handlers : arg'[k] = arg'[g] => k = g
        BY <1>1, <1>2, ConstantsAssumption DEF Known, TypeOK
      <3> QED
        BY <1>1, <1>2, <3>1, <3>2 DEF Known
    <2>8. Numbered' /\ DeletedStaysDeleted'
      BY <1>1, <2>1, <2>2, <2>3 DEF Numbered, DeletedStaysDeleted
    <2>9. Stored'
      <3>1. full' = TRUE => cut'
        BY <2>2, <2>5
      <3>2. ASSUME file'.top = "short", ~cut' PROVE FALSE
        BY <2>1, <2>4, <2>5, <3>2 DEF Stored
      <3>3. ASSUME ~full'
            PROVE  /\ file'.top # "short"
                   /\ \A g \in Handlers : pc'[g] = "stored" => arg'[g] \in file'.rows \cup taken'
        <4>1. file'.top # "short"
          BY <1>1, <2>1, <2>4, <3>3 DEF Stored
        <4>2. ASSUME NEW g \in Handlers, pc'[g] = "stored"
              PROVE  arg'[g] \in file'.rows \cup taken'
          <5>1. pc[g] = "stored" /\ arg'[g] = arg[g] /\ arg[g] # r
            BY <1>2, <4>2 DEF Known
          <5> QED
            BY <1>1, <2>4, <3>3, <5>1 DEF Stored
        <4> QED
          BY <4>1, <4>2
      <3> QED
        BY <1>1, <3>1, <3>2, <3>3 DEF Stored
    <2>10. RoomsAreStored'
      <3> SUFFICES ASSUME ~full'
                   PROVE  Loads(file') /\ \A q \in rooms \ deleted' : q \in file'.rows \cup taken'
        BY <1>1 DEF RoomsAreStored
      <3> QED
        BY <1>1, <2>4 DEF RoomsAreStored
    <2>11. InviteCodesPersist'
      <3> SUFFICES ASSUME ~cut'
                   PROVE  Loads(file') /\ \A q \in created \ deleted' : q \in file'.rows \cup taken'
        BY <1>1 DEF InviteCodesPersist
      <3> QED
        BY <2>4, <2>5 DEF InviteCodesPersist
    <2> QED
      BY <2>6, <2>7, <2>8, <2>9, <2>10, <2>11
  <1> QED
    BY <1>3, <1>4

\* The server may start with any part of the file it has.
LEMMA ReloadInductive ==
  ASSUME IInv, NEW f, Proper(f), Reload(f),
         older' \in [Rooms -> SUBSET Rooms], id' \in [Rooms -> Nat \cup {NoID}],
         \A r \in Rooms : id[r] # NoID => id'[r] = id[r] /\ (r \in f.rows => r \in file.rows),
         \A r \in f.rows : id'[r] # NoID,
         cuts' \in Nat, ~cut' => ~cut /\ f = file
  PROVE  IInv'
  <1> USE DEF IInv, Reload
  <1>1. f.rows \subseteq Rooms /\ Cardinality(f.rows) \in Nat
    BY ConstantsAssumption, FS_Subset, FS_CardinalityType DEF Proper, Files
  <1>2. lastID' \in Nat \cup {-1}
    <2>1. f.rows = {} => Cardinality(f.rows) = 0
      BY FS_EmptySet
    <2>2. Cardinality(f.rows) - (IF f.top = "none" THEN 1 ELSE 0) \in Nat \cup {-1}
      BY <1>1, <2>1 DEF Proper
    <2> QED
      BY <2>2 DEF TypeOK
  <1>3. TypeOK'
    <2>1. up' \in BOOLEAN /\ full' \in BOOLEAN /\ rooms' \subseteq Rooms /\ fresh' = {}
      BY <1>1 DEF Loads
    <2>2. /\ pc' \in [Handlers -> {"idle", "creating", "stored", "deleting", "unmapped"}]
          /\ arg' \in [Handlers -> Rooms \cup {NoRoom}]
      OBVIOUS
    <2>3. Proper(file')
      OBVIOUS
    <2> QED
      BY <1>2, <2>1, <2>2, <2>3 DEF TypeOK, Proper
  <1>4. Known'
    <2>1. \A r \in created \cup deleted : id'[r] # NoID
      BY DEF Known, TypeOK
    <2>2. rooms' \subseteq f.rows /\ fresh' = {} /\ file' = f
      OBVIOUS
    <2>3. \A h \in Handlers : pc'[h] = "idle"
      OBVIOUS
    <2> QED
      BY <2>1, <2>2, <2>3 DEF Known
  <1>5. f.top = "short" => cut'
    BY DEF Stored
  <1>6. Numbered' /\ Stored'
    BY <1>5 DEF Numbered, Stored
  <1>7. RoomsAreStored'
    BY DEF RoomsAreStored
  <1>8. DeletedStaysDeleted'
    BY DEF DeletedStaysDeleted, Known, TypeOK
  <1>9. InviteCodesPersist'
    BY DEF InviteCodesPersist
  <1> QED
    BY <1>3, <1>4, <1>6, <1>7, <1>8, <1>9

\* A crash in a rewrite starts the server with a part of what was to be written.
LEMMA CrashInductive ==
  ASSUME IInv, NEW h \in Handlers, CrashInRewrite(h)
  PROVE  IInv'
  <1> USE DEF IInv, CrashInRewrite
  <1>0. cuts' \in Nat /\ cut'
    BY DEF CutHere, TypeOK, cut
  <1>1. CASE pc[h] = "creating"
    <2>1. arg[h] \in Rooms /\ id[arg[h]] = NoID
      BY <1>1 DEF Known
    <2>2. PICK f \in Parts(WithRow(arg[h]), Behind(arg[h])) : Reload(f)
      BY <1>1
    <2>3. PICK e : e = WithRow(arg[h])
      OBVIOUS
    <2>4. Proper(e) /\ e.rows \subseteq file.rows \cup {arg[h]}
      BY <2>1, <2>3, WithRowOf
    <2>5. Proper(f) /\ f.rows \subseteq file.rows \cup {arg[h]}
      BY <2>2, <2>3, <2>4, PartsOf
    <2>6. Number(arg[h]) /\ lastID + 1 \in Nat
      BY <1>1 DEF TypeOK
    <2>7. /\ older' \in [Rooms -> SUBSET Rooms] /\ id' \in [Rooms -> Nat \cup {NoID}]
          /\ id'[arg[h]] # NoID
          /\ \A r \in Rooms : id[r] # NoID => id'[r] = id[r]
      BY <2>1, <2>6 DEF Number, Behind, TypeOK, NoID
    <2>8. \A r \in f.rows : id'[r] # NoID
      BY <2>5, <2>7 DEF Known, TypeOK, Files
    <2> QED
      BY <1>0, <2>1, <2>2, <2>5, <2>7, <2>8, ReloadInductive
  <1>2. CASE pc[h] = "unmapped"
    <2>1. PICK f \in Parts(WithoutRows(arg[h]), older) : Reload(f) /\ UNCHANGED <<older, id>>
      BY <1>2
    <2>2. Proper(f) /\ f.rows \subseteq file.rows
      BY <2>1, WithoutRowsOf, PartsOf
    <2>3. \A r \in f.rows : id[r] # NoID
      BY <2>2 DEF Known
    <2>4. older \in [Rooms -> SUBSET Rooms] /\ id \in [Rooms -> Nat \cup {NoID}]
      BY DEF TypeOK
    <2> QED
      BY <1>0, <2>1, <2>2, <2>3, <2>4, ReloadInductive
  <1> QED
    BY <1>1, <1>2

\* No step of RoomStore breaks the invariant.
LEMMA NextInductive == IInv /\ [Next]_vars => IInv'
  <1> SUFFICES ASSUME IInv, [Next]_vars PROVE IInv'
    OBVIOUS
  <1>1. CASE Restart
    <2>1. Proper(file)
      BY DEF IInv, TypeOK, Proper
    <2>2. Reload(file) /\ UNCHANGED <<older, id, cuts>> /\ cuts' \in Nat /\ cut' = cut
      BY <1>1 DEF Restart, IInv, TypeOK, cut
    <2>3. older \in [Rooms -> SUBSET Rooms] /\ id \in [Rooms -> Nat \cup {NoID}]
      BY DEF IInv, TypeOK
    <2>4. \A r \in file.rows : id[r] # NoID
      BY DEF IInv, Known
    <2> QED
      BY <2>1, <2>2, <2>3, <2>4, ReloadInductive
  <1>2. CASE UNCHANGED vars
    BY <1>2 DEF vars, IInv, TypeOK, Known, Numbered, Stored, DeletedStaysDeleted,
                RoomsAreStored, InviteCodesPersist, cut
  <1> QED
    BY <1>1, <1>2, CreateStartInductive, CreateStoreInductive, CreatePutInductive,
       DeleteStartInductive, DeleteUnmapInductive, DeleteStoreInductive, CrashInductive
    DEF Next

\* The invariant holds in every state of every behaviour.
LEMMA Inductive == Spec => []IInv
  BY InitInductive, NextInductive, PTL DEF Spec

-----------------------------------------------------------------------------
\* Type correctness.
THEOREM TypeCorrect == Spec => []TypeOK
  <1>1. IInv => TypeOK
    BY DEF IInv
  <1> QED
    BY <1>1, Inductive, PTL

\* No restart brings a deleted room back.
THEOREM DeletedRoomsStayDeleted == Spec => []DeletedStaysDeleted
  <1>1. IInv => DeletedStaysDeleted
    BY DEF IInv
  <1> QED
    BY <1>1, Inductive, PTL

\* What people can find is in the file, up to a reused ID and a full disk.
THEOREM RoomsKeepTheirRows == Spec => []RoomsAreStored
  <1>1. IInv => RoomsAreStored
    BY DEF IInv
  <1> QED
    BY <1>1, Inductive, PTL

\* Invite codes outlive restarts, up to a reused ID and files that were cut off.
THEOREM InviteCodesAreKept == Spec => []InviteCodesPersist
  <1>1. IInv => InviteCodesPersist
    BY DEF IInv
  <1> QED
    BY <1>1, Inductive, PTL

\* Within one run of the server no ID is given twice.
THEOREM RoomsHaveTheirIDs == Spec => []FreshIDsDiffer
  <1>1. IInv => FreshIDsDiffer
    BY DEF IInv, Numbered, FreshIDsDiffer, Twins
  <1> QED
    BY <1>1, Inductive, PTL

-----------------------------------------------------------------------------
(* The limit of rooms.                                                     *)

\* The requests between the check of the limit and the write of the map.
Creating == {h \in Handlers : pc[h] \in {"creating", "stored"}}

\* Each of them may still add a room.
RoomForAll ==
  Creating # {} => Cardinality(rooms) + Cardinality(Creating) < MaxRooms + Cardinality(Handlers)

LEMMA Counted ==
  ASSUME TypeOK
  PROVE  /\ IsFiniteSet(rooms) /\ Cardinality(rooms) \in Nat
         /\ IsFiniteSet(Creating) /\ Cardinality(Creating) \in Nat
         /\ Cardinality(Handlers) \in Nat /\ Cardinality(Creating) <= Cardinality(Handlers)
  <1>1. rooms \in SUBSET Rooms /\ Creating \in SUBSET Handlers
    BY DEF TypeOK, Creating
  <1> QED
    BY <1>1, ConstantsAssumption, FS_Subset, FS_CardinalityType

\* Fewer rooms, or fewer requests that create some, leave more room.
LEMMA StillRoom ==
  ASSUME TypeOK, RoomForAll, rooms' \subseteq rooms, Creating' \subseteq Creating
  PROVE  RoomForAll'
  <1>1. /\ Cardinality(rooms') <= Cardinality(rooms) /\ Cardinality(rooms') \in Nat
        /\ Cardinality(Creating') <= Cardinality(Creating) /\ Cardinality(Creating') \in Nat
    BY Counted, FS_Subset, FS_CardinalityType
  <1> QED
    BY <1>1, Counted, ConstantsAssumption DEF RoomForAll

\* The request that writes the map takes one of the places that were kept.
LEMMA PutTakesItsPlace ==
  ASSUME IInv, RoomForAll, NEW h \in Handlers, CreatePut(h)
  PROVE  /\ RoomForAll'
         /\ Cardinality(rooms') < MaxRooms + Cardinality(Handlers)
  <1>1. h \in Creating /\ Creating' = Creating \ {h}
    BY DEF CreatePut, Return, Begin, Creating, IInv, TypeOK
  <1>2. /\ Cardinality(Creating') = Cardinality(Creating) - 1
        /\ Cardinality(Creating') \in Nat /\ IsFiniteSet(Creating')
    BY <1>1, Counted, FS_RemoveElement, FS_CardinalityType DEF IInv
  <1>3. rooms' = rooms \/ rooms' = rooms \cup {arg[h]}
    BY DEF CreatePut
  <1>4. Cardinality(rooms') \in Nat /\ Cardinality(rooms') <= Cardinality(rooms) + 1
    BY <1>3, Counted, FS_AddElement, FS_CardinalityType DEF IInv
  <1>5. Cardinality(rooms) + Cardinality(Creating) < MaxRooms + Cardinality(Handlers)
    BY <1>1 DEF RoomForAll
  <1> QED
    BY <1>2, <1>4, <1>5, Counted, ConstantsAssumption DEF RoomForAll, IInv

LEMMA RoomForAllInductive ==
  ASSUME IInv, RoomForAll, [Next]_vars
  PROVE  RoomForAll'
  <1> USE DEF IInv, Goto, Return, Begin, storage, history
  <1>1. ASSUME NEW h \in Handlers, NEW r \in Rooms, CreateStart(h, r)
        PROVE  RoomForAll'
    <2>1. Creating' \in SUBSET Handlers /\ rooms' = rooms /\ Cardinality(rooms) < MaxRooms
      BY <1>1 DEF CreateStart, Creating
    <2>2. Cardinality(Creating') <= Cardinality(Handlers) /\ Cardinality(Creating') \in Nat
      BY <2>1, ConstantsAssumption, FS_Subset, FS_CardinalityType
    <2> QED
      BY <2>1, <2>2, Counted, ConstantsAssumption DEF RoomForAll
  <1>2. ASSUME NEW h \in Handlers, CreateStore(h)
        PROVE  RoomForAll'
    <2>1. rooms' = rooms /\ Creating' \subseteq Creating
      BY <1>2 DEF CreateStore, Creating, TypeOK
    <2> QED
      BY <2>1, StillRoom
  <1>3. ASSUME NEW h \in Handlers, CreatePut(h)
        PROVE  RoomForAll'
    BY <1>3, PutTakesItsPlace
  <1>4. ASSUME NEW h \in Handlers, (\E r \in Rooms : DeleteStart(h, r)) \/ DeleteUnmap(h) \/ DeleteStore(h)
        PROVE  RoomForAll'
    <2>1. rooms' \subseteq rooms /\ Creating' \subseteq Creating
      BY <1>4 DEF DeleteStart, DeleteUnmap, DeleteStore, Creating, TypeOK
    <2> QED
      BY <2>1, StillRoom
  <1>5. CASE Restart \/ \E h \in Handlers : CrashInRewrite(h)
    \* A restart may bring rooms back that the map had lost, but nobody is creating any.
    <2>1. Creating' = {}
      BY <1>5 DEF Restart, CrashInRewrite, Reload, Creating
    <2> QED
      BY <2>1 DEF RoomForAll
  <1>6. CASE UNCHANGED vars
    BY <1>6 DEF vars, RoomForAll, Creating
  <1> QED
    BY <1>1, <1>2, <1>3, <1>4, <1>5, <1>6 DEF Next

\* However many requests create rooms at the same time, no answer "created" leaves
\* more rooms than the limit and one for each of the other requests.
THEOREM LimitIsNearlyKept == Spec => LimitHoldsButForRaces
  <1> DEFINE Kept == created' # created => Cardinality(rooms') < MaxRooms + Cardinality(Handlers)
  <1>1. Init => RoomForAll
    BY DEF Init, RoomForAll, Creating
  <1>2. IInv /\ RoomForAll /\ [Next]_vars => RoomForAll'
    BY RoomForAllInductive
  <1>3. IInv /\ RoomForAll /\ [Next]_vars => [Kept]_vars
    <2> SUFFICES ASSUME IInv, RoomForAll, Next, created' # created PROVE Kept
      BY DEF Kept
    <2>1. PICK h \in Handlers : CreatePut(h)
      BY DEF Next, CreateStart, DeleteStart, CreateStore, DeleteUnmap, DeleteStore, Restart,
             CrashInRewrite, Reload, history
    <2> QED
      BY <2>1, PutTakesItsPlace
  <1> QED
    BY <1>1, <1>2, <1>3, Inductive, PTL DEF Spec, LimitHoldsButForRaces, Kept
=============================================================================
