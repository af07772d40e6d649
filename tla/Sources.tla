-------------------------------- MODULE Sources --------------------------------
(***************************************************************************)
(* The list of sources, which everybody edits, and the source of one room: *)
(* the source service, csvStorage with sources.csv, PatchSource and the    *)
(* GET of a room; restarts, and a full disk or the end of the server, which *)
(* may cut what is written anywhere.                                       *)
(*                                                                         *)
(* A row is the source it was added for; requests name it by its ID, and   *)
(* IDs are the numbers csvStorage hands out.  AddSource appends, so that   *)
(* the file is its first line and the set of the rows below it, in the     *)
(* order in which they were added.  A line has three fields, of which the  *)
(* last is the URL; all lines must have as many as the first.              *)
(***************************************************************************)
EXTENDS Integers, FiniteSets

CONSTANTS
  Sources,   \* sources that may be added, each once
  Handlers,  \* goroutines that serve HTTP requests
  Header,    \* a first line of three fields that is no source's
  Scrap,     \* a first line with another number of fields
  NoSource,  \* no line, no source
  MaxCuts    \* bound: how often a write is cut

ASSUME ConstantsAssumption ==
  /\ Header \notin Sources \cup {Scrap, NoSource}
  /\ Scrap \notin Sources \cup {NoSource} /\ NoSource \notin Sources
  /\ IsFiniteSet(Sources)
  /\ MaxCuts \in Nat

NoID == -1

VARIABLES
  file,     \* sources.csv
  up,       \* the server runs
  older,    \* the sources that were added before this one
  lastID,   \* dataStruct["sources"].lastID
  id,       \* the ID of a source in its row
  current,  \* service.currentSourceID of the room
  pc,       \* where a handler is
  arg,      \* the source its request is about
  chosen,   \* history: the source the owner chose last
  updated,  \* history: sources with an update that was answered 200
  deleted,  \* history: sources whose deletion was answered 200
  cuts,     \* history: how often something was not written, or not all of it
  reused    \* history: an ID may be given twice from now on

vars == <<file, up, older, lastID, id, current, pc, arg, chosen, updated, deleted, cuts, reused>>
numbering == <<older, lastID, id, reused>>
room == <<current, chosen>>
cut == cuts > 0

\* The first line, the rows below it, those that have the name and URL of an
\* update, those whose URL was cut or has got digits behind it; and how the file
\* ends: with a whole line; without the newline of the last; with the beginning of
\* the first field of a further line; or so that it cannot be read any more.
Files ==
  [top : Sources \cup {Header, Scrap, NoSource}, rows : SUBSET Sources,
   edited : SUBSET Sources, clipped : SUBSET Sources, end : {"whole", "open", "stub", "torn"}]

Empty == [top |-> NoSource, rows |-> {}, edited |-> {}, clipped |-> {}, end |-> "whole"]

TypeOK ==
  /\ file \in Files
  /\ file.top = NoSource => file.rows = {} /\ file.end \in {"whole", "stub"}
  /\ older \in [Sources -> SUBSET Sources]
  /\ lastID \in Nat \cup {-1}
  /\ id \in [Sources -> Int]
  /\ current \in Int
  /\ pc \in [Handlers -> {"idle", "updating", "deleting", "choosing"}]
  /\ arg \in [Handlers -> Sources \cup {NoSource}]
  /\ chosen \in Sources \cup {NoSource}
  /\ updated \subseteq Sources /\ deleted \subseteq Sources
  /\ cuts \in Nat /\ up \in BOOLEAN /\ reused \in BOOLEAN

\* NewCSVStorage, in an empty directory or in one where the first start ended
\* before it had written the header, or all of it.
Init ==
  /\ \/ file = [Empty EXCEPT !.top = Header] /\ lastID = 0 /\ cuts = 0
     \/ file = Empty /\ lastID = -1 /\ cuts = 0
     \/ /\ file \in {[Empty EXCEPT !.top = t, !.end = "open"] : t \in {Header, Scrap}}
                   \cup {[Empty EXCEPT !.end = "stub"]}
        /\ lastID = 0 /\ cuts = 1
  /\ up = TRUE
  /\ older = [s \in Sources |-> {}]
  /\ id = [s \in Sources |-> NoID]
  /\ current = NoID
  /\ pc = [h \in Handlers |-> "idle"]
  /\ arg = [h \in Handlers |-> NoSource]
  /\ chosen = NoSource
  /\ updated = {} /\ deleted = {}
  /\ reused = FALSE

Begin(h, label, s) == pc' = [pc EXCEPT ![h] = label] /\ arg' = [arg EXCEPT ![h] = s]
Return(h) == Begin(h, "idle", NoSource)

-----------------------------------------------------------------------------
(* csvStorage: each operation reads the file, and appends to it or writes  *)
(* it anew, holding the lock of the storage.                               *)

\* csv.Reader.ReadAll: all lines have as many fields as the first.
Readable(f) == f.end # "torn" /\ (f.end = "stub" => f.top = NoSource)

\* No part of such a file is looked at again.
Torn == [Empty EXCEPT !.top = Header, !.end = "torn"]

\* k fields of the line l, without its newline, on a line of their own (or behind a
\* stub, as digits before the first of them).
OnNewLine(f, l, k) ==
  IF f.top = Scrap THEN Torn
  ELSE IF k = 1 THEN [f EXCEPT !.end = "stub"]
  ELSE IF k = 2 /\ f.top = NoSource THEN [f EXCEPT !.top = Scrap, !.end = "open"]
  ELSE IF k = 2 THEN Torn
  ELSE IF f.top = NoSource THEN [f EXCEPT !.top = l, !.end = "open"]
  ELSE [f EXCEPT !.rows = @ \cup {l}, !.end = "open"]

\* The URL of s is not the one it was given.
Clip(f, s) == [f EXCEPT !.edited = @ \ {s}, !.clipped = @ \cup {s}]

\* k fields that are joined to the last line.  (That two fields of a further line and
\* two more make a row again is left out.)
OnLastLine(f, k) ==
  IF f.rows # {}
  THEN IF k = 1 THEN {Clip(f, s) : s \in {q \in f.rows : f.rows \ {q} \subseteq older[q]}}
       ELSE {Torn}
  ELSE {[f EXCEPT !.top = t] :
          t \in IF k = 1 THEN {IF f.top = Scrap THEN Scrap ELSE Header}
                ELSE IF k = 2 /\ f.top = Scrap THEN {Scrap, Header} ELSE {Scrap}}

Piece(f, l, k) ==
  IF f.end = "torn" THEN {f}
  ELSE IF f.end = "open" THEN OnLastLine(f, k) ELSE {OnNewLine(f, l, k)}

\* A piece of the line l that ends within its URL or before.
Pieces(f, l) ==
  Piece(f, l, 1) \cup Piece(f, l, 2)
    \cup {IF l \in g.rows THEN Clip(g, l) ELSE g : g \in Piece(f, l, 3)}

\* Whole lines of f, in their order.
Heads(f) ==
  {Empty}
    \cup {[f EXCEPT !.rows = p] :
            p \in {q \in SUBSET f.rows : \A s \in q : older[s] \cap f.rows \subseteq q}}

\* The line of f that comes after those of the head g.
Following(f, g) ==
  IF f.top = NoSource THEN {}
  ELSE IF g.top = NoSource THEN {f.top, Header}
  ELSE {s \in f.rows \ g.rows : older[s] \cap f.rows \subseteq g.rows}

\* What is said of the rows is said of those there are.
Tidy(f) == [f EXCEPT !.edited = @ \cap f.rows, !.clipped = @ \cap f.rows]

\* What there may be of a file that was truncated and not written to its end.
Parts(f) ==
  {Tidy(g) : g \in Heads(f) \cup UNION {UNION {Pieces(h, l) \cup Piece(h, l, 3) : l \in Following(f, h)} :
                                          h \in Heads(f)}}

CutHere == cuts < MaxCuts /\ cuts' = cuts + 1

CutOff(f) == CutHere /\ file' \in Parts(f)

\* writeAllToFile: errors of Flush are ignored.
Write(f) == (file' = f /\ UNCHANGED cuts) \/ CutOff(f)

\* The records that were read are all written with a newline; a stub is read only
\* as a first line.
Rewritten ==
  [file EXCEPT !.top = IF file.end = "stub" THEN Scrap ELSE @, !.end = "whole"]

\* Mutant of WithRow: the file is opened with O_TRUNC.
WithRowOnly(s) == {[file EXCEPT !.rows = {s}]}

\* The row of s and its newline at the end of the file, where it may take the place
\* of the header or be joined to what is there.
WithRow(s) ==
  {IF g.end = "open" THEN [g EXCEPT !.end = "whole"] ELSE g : g \in Piece(file, s, 3)}

\* The loops that look for an ID stop at the first row that has it.  The first
\* line is no row.
FirstWithID(s, i) ==
  s \in file.rows /\ id[s] = i /\ \A q \in file.rows \cap older[s] : id[q] # i

Listed(i) == Readable(file) /\ \E s \in file.rows : id[s] = i

\* DeleteSource: every row with the ID of s goes.
WithoutRows(s) == Tidy([Rewritten EXCEPT !.rows = {q \in @ : id[q] # id[s]}])

\* The ID in a row that is joined to a stub: one that nobody else has, with the
\* digits of n at its end.  (That numbering comes so far is left out.)
Longer(n) == -2 - n

\* The ID that getNewSourceID gives, as it will be in the row.
Number(s) ==
  /\ id' = [id EXCEPT ![s] = IF file.end = "stub" THEN Longer(lastID + 1) ELSE lastID + 1]
  /\ older' = [older EXCEPT ![s] = {q \in Sources : id[q] # NoID}]

-----------------------------------------------------------------------------
(* source.service and source.handler.                                      *)

\* Mutant of Add: the ID is used, and the next source gets it again.
AddSameID(s) ==
  /\ up /\ id[s] = NoID
  /\ Number(s)
  /\ \/ file' \in WithRow(s) /\ UNCHANGED cuts
     \/ CutHere /\ file' \in {file} \cup Pieces(file, s) \cup Piece(file, s, 3)
  /\ UNCHANGED <<lastID, up, room, pc, arg, updated, deleted, reused>>

\* Add: the errors of Flush are ignored here, too.  (If the file cannot be
\* opened nothing changes.)
Add(s) ==
  /\ up /\ id[s] = NoID
  /\ Number(s)
  /\ lastID' = lastID + 1
  /\ \/ file' \in WithRow(s) /\ UNCHANGED cuts
     \/ CutHere /\ file' \in {file} \cup Pieces(file, s) \cup Piece(file, s, 3)
  /\ UNCHANGED <<up, room, pc, arg, updated, deleted, reused>>

\* A row that is longer than the writer's buffer may be cut in Write, whose error
\* is answered 500; the ID, which may be in a row by then, is given again.
AddFails(s) ==
  /\ up /\ id[s] = NoID
  /\ CutHere /\ file' \in Pieces(file, s)
  /\ \/ s \in file'.rows /\ Number(s) /\ reused' = TRUE
     \/ s \notin file'.rows /\ UNCHANGED <<id, older, reused>>
  /\ UNCHANGED <<lastID, up, room, pc, arg, updated, deleted>>

\* Update, Delete and PatchSource begin with GetSourceByID; when there is no row with
\* the ID, or the file cannot be read, they are answered with an error.
Start(h, label, s) ==
  /\ pc[h] = "idle"
  /\ id[s] # NoID /\ Listed(id[s])
  /\ Begin(h, label, s)
  /\ UNCHANGED <<file, up, numbering, room, updated, deleted, cuts>>

\* Mutant of Edits: the loop begins at the second row.
EditsSkipFirst(h) ==
  {s \in file.rows : FirstWithID(s, id[arg[h]]) /\ older[s] \cap file.rows # {}}

\* The row that an update changes, if it still is there.
Edits(h) == {s \in file.rows : FirstWithID(s, id[arg[h]])}

Edited(h) == [Rewritten EXCEPT !.edited = @ \cup Edits(h), !.clipped = @ \ Edits(h)]

\* Mutant of Update: a source that is not there any more is added again.
UpdateAddsAgain(h) ==
  /\ pc[h] = "updating"
  /\ Readable(file) /\ Write([Edited(h) EXCEPT !.rows = @ \cup {arg[h]}])
  /\ updated' = updated \cup {arg[h]}
  /\ Return(h)
  /\ UNCHANGED <<up, numbering, room, deleted>>

\* The rest of Update, which is answered 200 whether there is a row or not.  Or it is
\* answered 500: writer.Write fails, the file cannot be read, or it cannot be opened.
Update(h) ==
  /\ pc[h] = "updating"
  /\ \/ Readable(file) /\ Write(Edited(h)) /\ updated' = updated \cup {arg[h]}
     \/ Readable(file) /\ CutOff(Edited(h)) /\ UNCHANGED updated
     \/ UNCHANGED <<file, updated, cuts>>
  /\ Return(h)
  /\ UNCHANGED <<up, numbering, room, deleted>>

\* The rest of Delete.
Delete(h) ==
  /\ pc[h] = "deleting"
  /\ \/ Readable(file) /\ Write(WithoutRows(arg[h])) /\ deleted' = deleted \cup {arg[h]}
     \/ Readable(file) /\ CutOff(WithoutRows(arg[h])) /\ UNCHANGED deleted
     \/ UNCHANGED <<file, deleted, cuts>>
  /\ Return(h)
  /\ UNCHANGED <<up, numbering, room, updated>>

\* The GET of the room looks the source up anew and has none if that fails.
Shown(s) == Readable(file) /\ FirstWithID(s, current)

\* The rest of PatchSource: setCurrentSourceID.
Choose(h) ==
  /\ pc[h] = "choosing"
  /\ current' = id[arg[h]]
  /\ chosen' = arg[h]
  /\ Return(h)
  /\ UNCHANGED <<file, up, numbering, updated, deleted, cuts>>

-----------------------------------------------------------------------------
\* Mutant of CountedLines: one line too few is counted.
CountedMinusOne(f) ==
  Cardinality(f.rows) - (IF f.top = NoSource /\ f.end # "stub" THEN 2 ELSE 1)

\* countLinesWithoutHeader.
CountedLines(f) ==
  Cardinality(f.rows) - (IF f.top = NoSource /\ f.end # "stub" THEN 1 ELSE 0)

\* The server starts with file f: the number of lines gives the last ID, and no room
\* has a source.  With a file that cannot be read it does not start.
Reload(f) ==
  /\ file' = f
  /\ up' = Readable(f)
  /\ lastID' = IF Readable(f) THEN CountedLines(f) ELSE lastID
  /\ reused' = (reused \/ lastID' < lastID)
  /\ current' = NoID /\ chosen' = NoSource
  /\ pc' = [h \in Handlers |-> "idle"]
  /\ arg' = [h \in Handlers |-> NoSource]
  /\ UNCHANGED <<older, id, updated, deleted>>

\* The server ends between two steps of its handlers, and is started again.
Restart == Reload(file) /\ UNCHANGED cuts

\* The server ends while it rewrites the file, which has been truncated.
CrashInRewrite(h) ==
  /\ Readable(file)
  /\ \/ pc[h] = "updating" /\ \E f \in Parts(Edited(h)) : Reload(f)
     \/ pc[h] = "deleting" /\ \E f \in Parts(WithoutRows(arg[h])) : Reload(f)
  /\ CutHere

-----------------------------------------------------------------------------
Next ==
  \/ \E s \in Sources : Add(s) \/ AddFails(s)
  \/ \E h \in Handlers, s \in Sources, label \in {"updating", "deleting", "choosing"} :
       Start(h, label, s)
  \/ \E h \in Handlers : Update(h) \/ Delete(h) \/ Choose(h) \/ CrashInRewrite(h)
  \/ Restart

Spec == Init /\ [][Next]_vars

-----------------------------------------------------------------------------
(* Properties.                                                             *)

\* A source whose deletion was answered 200 is not listed again, whatever
\* requests had found it before and whatever rows share its ID.
DeletedStayAway == deleted \cap file.rows = {}

\* A source that was added stays in the file, which can be read, until somebody
\* deletes its ID: the overlapping rewrites of others never lose it.
AddedStay ==
  ~cut => Readable(file) /\ \A s \in Sources : id[s] # NoID =>
            \/ s \in file.rows \/ s = file.top
            \/ \E q \in deleted : id[q] = id[s]

\* An update that was answered 200 is in the row of the source, if that is still
\* there, unless an older row had the same ID: no rewrite of others, cut or not,
\* brings the row back that it had before, and all a cut does is to take the end of
\* its URL away, or put digits behind it.
UpdatesStick ==
  \A s \in updated \cap file.rows :
    \/ s \in file.edited
    \/ cut /\ s \in file.clipped
    \/ \E q \in older[s] : id[q] = id[s]

\* While the source that its owner chose is listed, the GET of the room shows it; and
\* it never shows another one, which would have to have been given the same ID.  Only
\* a restart after rows have gone, or an addition that failed halfway, gives IDs
\* twice.  (What the room shows when the source has been deleted is not part of it.)
RoomShowsTheChosen ==
  ~reused =>
    /\ \A s \in Sources : Shown(s) => s = chosen
    /\ chosen \in file.rows /\ Readable(file) => Shown(chosen)
=============================================================================
