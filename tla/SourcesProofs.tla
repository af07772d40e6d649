----------------------------- MODULE SourcesProofs -----------------------------
(***************************************************************************)
(* Theorems about Sources, for any number of sources and handlers.         *)
(***************************************************************************)
EXTENDS Sources, FiniteSetTheorems, TLAPS

\* Whatever is in the file, deleted or asked for has an ID.
Known ==
  /\ \A s \in file.rows \cup deleted \cup updated : id[s] # NoID
  /\ \A h \in Handlers : pc[h] # "idle" => arg[h] \in Sources /\ id[arg[h]] # NoID
  /\ \A s \in Sources : s \notin older[s]

\* Unless a restart has taken the last ID back, IDs differ.
Numbered ==
  ~reused =>
    /\ \A s \in Sources : id[s] <= lastID /\ Longer(id[s]) <= lastID
    /\ \A s, q \in Sources : id[s] = id[q] /\ id[s] # NoID => s = q

\* currentSourceID is the ID of the source that was chosen.
Choice ==
  \/ chosen = NoSource /\ current = NoID
  \/ chosen \in Sources /\ current = id[chosen] /\ current # NoID

\* Until something is cut, all lines are whole.
Whole == ~cut => file.end = "whole" /\ file.top # Scrap

IInv ==
  /\ TypeOK /\ Known /\ Numbered /\ Choice /\ Whole
  /\ DeletedStayAway /\ AddedStay /\ UpdatesStick

\* What TypeOK says of a file.
Proper(f) == f \in Files /\ (f.top = NoSource => f.rows = {} /\ f.end \in {"whole", "stub"})

\* In g no row has got its text back that has it not in f.
Sticks(f, g) == \A s \in g.rows : s \in f.edited \cup f.clipped => s \in g.edited \cup g.clipped

-----------------------------------------------------------------------------
\* The initial states satisfy the invariant.
LEMMA InitInductive == Init => IInv
  <1> SUFFICES ASSUME Init PROVE IInv
    OBVIOUS
  <1> USE ConstantsAssumption DEF Init, cut
  <1>1. /\ Proper(file) /\ file.rows = {} /\ lastID \in Nat \cup {-1} /\ cuts \in Nat
        /\ Whole
    <2>1. CASE file = [Empty EXCEPT !.top = Header] /\ lastID = 0 /\ cuts = 0
      BY <2>1 DEF Files, Empty, Proper, Whole
    <2>2. CASE file = Empty /\ lastID = -1 /\ cuts = 0
      BY <2>2 DEF Files, Empty, Proper, Whole
    <2>3. CASE \E t \in {Header, Scrap} :
                 file = [Empty EXCEPT !.top = t, !.end = "open"] /\ lastID = 0 /\ cuts = 1
      <3>1. PICK t \in {Header, Scrap} : file = [Empty EXCEPT !.top = t, !.end = "open"]
        BY <2>3
      <3>2. /\ file \in Files /\ file.rows = {} /\ file.top = t
        BY <3>1 DEF Files, Empty
      <3> QED
        BY <2>3, <3>2 DEF Proper, Whole
    <2>4. CASE file = [Empty EXCEPT !.end = "stub"] /\ lastID = 0 /\ cuts = 1
      BY <2>4 DEF Files, Empty, Proper, Whole
    <2> QED
      BY <2>1, <2>2, <2>3, <2>4
  <1>2. TypeOK
    <2>1. /\ older \in [Sources -> SUBSET Sources] /\ id \in [Sources -> Int]
          /\ pc \in [Handlers -> {"idle", "updating", "deleting", "choosing"}]
          /\ arg \in [Handlers -> Sources \cup {NoSource}] /\ current \in Int
      BY DEF NoID
    <2>2. up \in BOOLEAN /\ reused \in BOOLEAN /\ chosen = NoSource /\ updated = {} /\ deleted = {}
      OBVIOUS
    <2> QED
      BY <1>1, <2>1, <2>2 DEF TypeOK, Proper
  <1>3. Known /\ Choice
    BY <1>1 DEF Known, Choice
  <1>4. Numbered
    BY <1>1 DEF Numbered, NoID, Longer
  <1>5. DeletedStayAway /\ AddedStay /\ UpdatesStick
    BY <1>1 DEF DeletedStayAway, AddedStay, UpdatesStick, Whole, Readable
  <1> QED
    BY <1>1, <1>2, <1>3, <1>4, <1>5 DEF IInv

\* A piece that is appended adds at most the row of its line, and takes from the
\* text of others at most their ends.
LEMMA PieceOf ==
  ASSUME NEW f, Proper(f), NEW l \in Sources \cup {Header, Scrap},
         f.top # NoSource => l \in Sources, NEW k \in {1, 2, 3}, NEW g \in Piece(f, l, k)
  PROVE  /\ Proper(g) /\ Sticks(f, g)
         /\ g.rows \subseteq f.rows \cup {l}
         /\ g.edited \subseteq f.edited
  <1> USE ConstantsAssumption
  <1>1. CASE f.end = "torn"
    BY <1>1 DEF Piece, Sticks, Proper
  <1>2. CASE f.end = "open"
    <2>1. g \in OnLastLine(f, k)
      BY <1>2 DEF Piece
    <2>2. CASE f.rows # {} /\ k = 1
      <3>1. PICK s \in f.rows : g = Clip(f, s)
        BY <2>1, <2>2 DEF OnLastLine
      <3> QED
        BY <1>2, <3>1 DEF Clip, Proper, Sticks, Files
    <2>3. CASE f.rows # {} /\ k # 1
      <3>1. g = Torn
        BY <2>1, <2>3 DEF OnLastLine
      <3> QED
        BY <3>1 DEF Torn, Empty, Proper, Sticks, Files
    <2>4. CASE f.rows = {}
      <3>1. PICK t \in {Scrap, Header} : g = [f EXCEPT !.top = t]
        BY <2>1, <2>4 DEF OnLastLine
      <3> QED
        BY <2>4, <3>1 DEF Proper, Sticks, Files
    <2> QED
      BY <2>2, <2>3, <2>4
  <1>3. CASE f.end \in {"whole", "stub"}
    <2>1. g = OnNewLine(f, l, k)
      BY <1>3 DEF Piece
    <2>2. CASE g = Torn
      BY <2>2 DEF Torn, Empty, Proper, Sticks, Files
    <2>3. CASE g = [f EXCEPT !.end = "stub"]
      BY <2>3 DEF Proper, Sticks, Files
    <2>4. CASE g = [f EXCEPT !.top = Scrap, !.end = "open"]
      BY <2>4 DEF Proper, Sticks, Files
    <2>5. CASE g = [f EXCEPT !.top = l, !.end = "open"]
      BY <2>5 DEF Proper, Sticks, Files
    <2>6. CASE f.top # NoSource /\ g = [f EXCEPT !.rows = @ \cup {l}, !.end = "open"]
      <3>1. /\ g.rows = f.rows \cup {l} /\ g.edited = f.edited /\ g.clipped = f.clipped
            /\ g.top = f.top /\ g \in Files /\ l \in Sources
        BY <2>6 DEF Proper, Files
      <3> QED
        BY <2>6, <3>1 DEF Proper, Sticks
    <2> QED
      BY <2>1, <2>2, <2>3, <2>4, <2>5, <2>6 DEF OnNewLine
  <1> QED
    BY <1>1, <1>2, <1>3 DEF Proper, Files

\* The same of all the pieces that are cut.
LEMMA PiecesOf ==
  ASSUME NEW f, Proper(f), NEW l \in Sources \cup {Header, Scrap},
         f.top # NoSource => l \in Sources, NEW g \in Pieces(f, l) \cup Piece(f, l, 3)
  PROVE  Proper(g) /\ Sticks(f, g) /\ g.rows \subseteq f.rows \cup {l}
  <1>1. CASE g \in Piece(f, l, 1) \cup Piece(f, l, 2) \cup Piece(f, l, 3)
    BY <1>1, PieceOf
  <1>2. CASE \E e \in Piece(f, l, 3) : l \in e.rows /\ g = Clip(e, l)
    <2>1. PICK e \in Piece(f, l, 3) : l \in e.rows /\ g = Clip(e, l)
      BY <1>2
    <2>2. Proper(e) /\ Sticks(f, e) /\ e.rows \subseteq f.rows \cup {l}
      BY PieceOf
    <2>3. Proper(g) /\ g.rows = e.rows /\ e.edited \cup e.clipped \subseteq g.edited \cup g.clipped
      BY <2>1, <2>2 DEF Clip, Proper, Files
    <2> QED
      BY <2>2, <2>3 DEF Sticks
  <1> QED
    BY <1>1, <1>2 DEF Pieces

\* A piece of a first line is no row.
LEMMA FirstLineOf ==
  ASSUME NEW f, Proper(f), f.top = NoSource, f.end = "whole",
         NEW l \in Sources \cup {Header, Scrap}, NEW g \in Pieces(f, l) \cup Piece(f, l, 3)
  PROVE  Proper(g) /\ g.rows = {}
  <1> USE ConstantsAssumption
  <1>1. f.rows = {}
    BY DEF Proper
  <1>2. \A k \in {1, 2, 3} : \A e \in Piece(f, l, k) : Proper(e) /\ e.rows = {}
    <2> SUFFICES ASSUME NEW k \in {1, 2, 3}, NEW e \in Piece(f, l, k)
                 PROVE  Proper(e) /\ e.rows = {}
      OBVIOUS
    <2>1. e = OnNewLine(f, l, k)
      BY DEF Piece
    <2>2. \/ e = Torn \/ e = [f EXCEPT !.end = "stub"]
          \/ e = [f EXCEPT !.top = Scrap, !.end = "open"] \/ e = [f EXCEPT !.top = l, !.end = "open"]
      BY <2>1 DEF OnNewLine
    <2> QED
      BY <1>1, <2>2 DEF Torn, Empty, Proper, Files
  <1>3. g \in Piece(f, l, 1) \cup Piece(f, l, 2) \cup Piece(f, l, 3)
    BY <1>2 DEF Pieces
  <1> QED
    BY <1>2, <1>3

\* A part of a file that is written has no row that is not in the file.
LEMMA PartsOf ==
  ASSUME NEW f, Proper(f), f.end = "whole", NEW g \in Parts(f)
  PROVE  Proper(g) /\ Sticks(f, g) /\ g.rows \subseteq f.rows
  <1> USE ConstantsAssumption
  <1>1. ASSUME NEW h \in Heads(f)
        PROVE  /\ Proper(h) /\ Sticks(f, h) /\ h.rows \subseteq f.rows
               /\ h.end = "whole" /\ (h.rows = {} \/ (h.edited = f.edited /\ h.clipped = f.clipped))
               /\ h = Empty \/ (h.edited = f.edited /\ h.clipped = f.clipped /\ h.top = f.top)
    <2>1. CASE h = Empty
      BY <2>1 DEF Empty, Proper, Sticks, Files
    <2>2. CASE \E p \in SUBSET f.rows : h = [f EXCEPT !.rows = p]
      BY <2>2 DEF Proper, Sticks, Files
    <2> QED
      BY <1>1, <2>1, <2>2 DEF Heads
  <1>2. PICK e : /\ g = Tidy(e)
                 /\ \/ e \in Heads(f)
                    \/ \E h \in Heads(f) : \E l \in Following(f, h) : e \in Pieces(h, l) \cup Piece(h, l, 3)
    BY DEF Parts
  <1>3. Proper(e) /\ Sticks(f, e) /\ e.rows \subseteq f.rows
    <2>1. CASE e \in Heads(f)
      BY <1>1, <2>1
    <2>2. ASSUME NEW h \in Heads(f), NEW l \in Following(f, h), e \in Pieces(h, l) \cup Piece(h, l, 3)
          PROVE  Proper(e) /\ Sticks(f, e) /\ e.rows \subseteq f.rows
      <3>1. CASE h.top = NoSource
        <4>1. l \in Sources \cup {Header, Scrap} /\ h.rows = {}
          BY <1>1, <2>2, <3>1 DEF Following, Proper, Files
        <4>2. Proper(e) /\ e.rows = {}
          BY <1>1, <2>2, <3>1, <4>1, FirstLineOf
        <4> QED
          BY <4>2 DEF Sticks
      <3>2. CASE h.top # NoSource
        <4>1. l \in f.rows /\ l \in Sources
          BY <2>2, <3>2 DEF Following, Proper, Files
        <4>2. Proper(e) /\ Sticks(h, e) /\ e.rows \subseteq f.rows
          BY <1>1, <2>2, <4>1, PiecesOf
        <4>3. h.edited = f.edited /\ h.clipped = f.clipped
          BY <1>1, <3>2 DEF Empty
        <4> QED
          BY <4>2, <4>3 DEF Sticks
      <3> QED
        BY <3>1, <3>2
    <2> QED
      BY <1>2, <2>1, <2>2
  <1>4. /\ g \in Files /\ g.rows = e.rows /\ g.top = e.top /\ g.end = e.end
        /\ g.edited = e.edited \cap e.rows /\ g.clipped = e.clipped \cap e.rows
    BY <1>2, <1>3 DEF Tidy, Proper, Files
  <1> QED
    BY <1>3, <1>4 DEF Proper, Sticks

\* A rewrite leaves the file that was to be written or a part of it.
LEMMA WriteOf ==
  ASSUME TypeOK, NEW f, Proper(f), f.end = "whole", Write(f) \/ CutOff(f)
  PROVE  /\ Proper(file') /\ Sticks(f, file') /\ file'.rows \subseteq f.rows
         /\ cuts' \in Nat /\ (cut => cut')
         /\ ~cut' => ~cut /\ file' = f
  <1>1. CASE CutOff(f)
    BY <1>1, PartsOf DEF CutOff, CutHere, TypeOK, cut
  <1>2. CASE file' = f /\ UNCHANGED cuts
    BY <1>2 DEF Sticks, TypeOK, cut
  <1> QED
    BY <1>1, <1>2 DEF Write

\* What Update writes, ...
LEMMA EditedOf ==
  ASSUME TypeOK, NEW h
  PROVE  /\ Proper(Edited(h)) /\ Edited(h).end = "whole"
         /\ Edited(h).rows = file.rows
         /\ Edited(h).edited = file.edited \cup Edits(h)
         /\ Edited(h).clipped = file.clipped \ Edits(h)
         /\ file.end # "stub" => Edited(h).top = file.top
  BY ConstantsAssumption DEF TypeOK, Files, Proper, Edited, Edits, Rewritten

\* ... and what Delete writes.
LEMMA WithoutRowsOf ==
  ASSUME TypeOK, NEW s
  PROVE  /\ Proper(WithoutRows(s)) /\ WithoutRows(s).end = "whole"
         /\ WithoutRows(s).rows = {q \in file.rows : id[q] # id[s]}
         /\ WithoutRows(s).edited = file.edited \cap WithoutRows(s).rows
         /\ WithoutRows(s).clipped = file.clipped \cap WithoutRows(s).rows
         /\ file.end # "stub" => WithoutRows(s).top = file.top
  <1>1. PICK e : e = Rewritten
    OBVIOUS
  <1>2. /\ Proper(e) /\ e.end = "whole" /\ e.rows = file.rows
        /\ e.edited = file.edited /\ e.clipped = file.clipped
        /\ file.end # "stub" => e.top = file.top
    BY <1>1, ConstantsAssumption DEF TypeOK, Files, Proper, Rewritten
  <1>3. PICK g : g = [e EXCEPT !.rows = {q \in @ : id[q] # id[s]}]
    OBVIOUS
  <1>4. /\ g \in Files /\ g.rows = {q \in file.rows : id[q] # id[s]} /\ g.end = "whole"
        /\ g.edited = file.edited /\ g.clipped = file.clipped /\ g.top = e.top
    BY <1>2, <1>3 DEF Proper, Files
  <1>5. WithoutRows(s) = [g EXCEPT !.edited = @ \cap g.rows, !.clipped = @ \cap g.rows]
    BY <1>1, <1>3 DEF WithoutRows, Tidy
  <1>6. /\ WithoutRows(s) \in Files /\ WithoutRows(s).rows = g.rows /\ WithoutRows(s).end = g.end
        /\ WithoutRows(s).top = g.top
        /\ WithoutRows(s).edited = g.edited \cap g.rows /\ WithoutRows(s).clipped = g.clipped \cap g.rows
    BY <1>4, <1>5 DEF Files
  <1> QED
    BY <1>2, <1>4, <1>6 DEF Proper

\* A file in which the texts stay holds the updates that it held.
LEMMA Sticking ==
  ASSUME IInv, NEW f, f.rows \subseteq file.rows,
         file.edited \cap f.rows \subseteq f.edited,
         file.clipped \cap f.rows \subseteq f.edited \cup f.clipped,
         Sticks(f, file'), file'.rows \subseteq f.rows,
         cut => cut', ~cut' => file' = f
  PROVE  \A s \in updated \cap file'.rows :
            \/ s \in file'.edited
            \/ cut' /\ s \in file'.clipped
            \/ \E q \in older[s] : id[q] = id[s]
  <1> SUFFICES ASSUME NEW s \in updated, s \in file'.rows, ~\E q \in older[s] : id[q] = id[s]
               PROVE  s \in file'.edited \/ (cut' /\ s \in file'.clipped)
    OBVIOUS
  <1>1. s \in f.rows /\ s \in file.rows
    OBVIOUS
  <1>2. s \in file.edited \/ (cut /\ s \in file.clipped)
    BY <1>1 DEF IInv, UpdatesStick
  <1>3. CASE cut'
    BY <1>1, <1>2, <1>3 DEF Sticks
  <1>4. CASE ~cut'
    BY <1>1, <1>2, <1>4
  <1> QED
    BY <1>3, <1>4 DEF cut

\* What does not hang on the file, or only on the rows it has.
LEMMA FewerRows ==
  ASSUME IInv, file'.rows \subseteq file.rows,
         UNCHANGED <<older, lastID, id, reused, current, chosen, deleted>>
  PROVE  Numbered' /\ Choice' /\ DeletedStayAway'
  BY DEF IInv, Numbered, Choice, DeletedStayAway, Longer

\* The new row: it has an ID nobody has, and no update and no deletion can be about
\* it yet.
LEMMA NumberOf ==
  ASSUME IInv, NEW s \in Sources, id[s] = NoID, Number(s)
  PROVE  /\ id' \in [Sources -> Int] /\ older' \in [Sources -> SUBSET Sources]
         /\ id'[s] # NoID /\ id'[s] \in {lastID + 1, Longer(lastID + 1)} /\ lastID + 1 \in Nat
         /\ \A q \in Sources : q # s => id'[q] = id[q] /\ older'[q] = older[q]
         /\ s \notin older'[s]
         /\ s \notin deleted \cup updated \cup file.rows
         /\ Choice'  \/ chosen' # chosen \/ current' # current
  <1> USE DEF IInv
  <1>1. lastID + 1 \in Nat /\ Longer(lastID + 1) \in Int /\ Longer(lastID + 1) < NoID
    BY DEF TypeOK, Longer, NoID
  <1>2. /\ id' \in [Sources -> Int] /\ older' \in [Sources -> SUBSET Sources]
        /\ id'[s] \in {lastID + 1, Longer(lastID + 1)} /\ s \notin older'[s]
        /\ \A q \in Sources : q # s => id'[q] = id[q] /\ older'[q] = older[q]
    BY <1>1 DEF Number, TypeOK
  <1>3. id'[s] # NoID
    BY <1>1, <1>2 DEF NoID
  <1>4. s \notin deleted \cup updated \cup file.rows
    BY DEF Known
  <1>5. chosen' = chosen /\ current' = current => Choice'
    BY <1>2 DEF Choice
  <1> QED
    BY <1>1, <1>2, <1>3, <1>4, <1>5

\* What an appended row leaves as it is.
LEMMA NewRow ==
  ASSUME IInv, NEW s \in Sources, id[s] = NoID, Number(s),
         Proper(file'), Sticks(file, file'), file'.rows \subseteq file.rows \cup {s},
         cut => cut', ~cut' => file.edited \subseteq file'.edited,
         UNCHANGED <<pc, arg, updated, deleted, current, chosen>>
  PROVE  Known' /\ Choice' /\ DeletedStayAway' /\ UpdatesStick'
  <1> USE DEF IInv
  <1>1. /\ id'[s] # NoID /\ s \notin older'[s] /\ s \notin deleted \cup updated \cup file.rows
        /\ \A q \in Sources : q # s => id'[q] = id[q] /\ older'[q] = older[q]
        /\ Choice'
    BY NumberOf
  <1>2. Known'
    BY <1>1 DEF Known, TypeOK, Files
  <1>3. DeletedStayAway'
    BY <1>1 DEF DeletedStayAway
  <1>4. UpdatesStick'
    <2> SUFFICES ASSUME NEW q \in updated, q \in file'.rows
                 PROVE  \/ q \in file'.edited \/ (cut' /\ q \in file'.clipped)
                        \/ \E r \in older'[q] : id'[r] = id'[q]
      BY DEF UpdatesStick
    <2>1. q \in file.rows /\ q # s /\ q \in Sources /\ older'[q] = older[q] /\ id'[q] = id[q]
      BY <1>1 DEF TypeOK
    <2>2. CASE \E r \in older[q] : id[r] = id[q]
      <3>1. PICK r \in older[q] : id[r] = id[q]
        BY <2>2
      <3>2. r \in Sources /\ r # s
        BY <2>1, <3>1 DEF TypeOK, Known
      <3> QED
        BY <1>1, <2>1, <3>1, <3>2
    <2>3. CASE q \in file.edited \/ (cut /\ q \in file.clipped)
      <3>1. CASE cut'
        BY <2>3, <3>1 DEF Sticks
      <3>2. CASE ~cut'
        BY <2>3, <3>2
      <3> QED
        BY <3>1, <3>2 DEF cut
    <2> QED
      BY <2>1, <2>2, <2>3 DEF UpdatesStick
  <1> QED
    BY <1>1, <1>2, <1>3, <1>4

\* AddSource, whatever of its row is written.
LEMMA AddInductive ==
  ASSUME IInv, NEW s \in Sources, Add(s)
  PROVE  IInv'
  <1> USE DEF IInv, Add, room
  <1>1. /\ id' \in [Sources -> Int] /\ older' \in [Sources -> SUBSET Sources]
        /\ id'[s] # NoID /\ id'[s] \in {lastID + 1, Longer(lastID + 1)} /\ lastID + 1 \in Nat
        /\ \A q \in Sources : q # s => id'[q] = id[q]
        /\ s \notin deleted \cup file.rows
    BY NumberOf
  <1>2. Proper(file) /\ s \in Sources \cup {Header, Scrap}
    BY DEF TypeOK, Proper
  <1>3. Proper(file') /\ Sticks(file, file') /\ file'.rows \subseteq file.rows \cup {s}
    <2>1. CASE file' \in WithRow(s)
      <3>1. PICK g \in Piece(file, s, 3) :
              file' = IF g.end = "open" THEN [g EXCEPT !.end = "whole"] ELSE g
        BY <2>1 DEF WithRow
      <3>2. Proper(g) /\ Sticks(file, g) /\ g.rows \subseteq file.rows \cup {s}
        BY <1>2, PieceOf
      <3> QED
        BY <3>1, <3>2 DEF Proper, Sticks, Files
    <2>2. CASE file' = file
      BY <1>2, <2>2 DEF Sticks
    <2>3. CASE file' \in Pieces(file, s) \cup Piece(file, s, 3)
      BY <1>2, <2>3, PiecesOf
    <2> QED
      BY <2>1, <2>2, <2>3
  <1>4. cuts' \in Nat /\ (cut => cut') /\ (~cut' => ~cut /\ file' \in WithRow(s))
    BY DEF TypeOK, cut, CutHere
  <1>5. ASSUME ~cut'
        PROVE  /\ ~cut /\ file'.end = "whole" /\ file'.top # Scrap /\ s \in file'.rows \cup {file'.top}
               /\ file.rows \subseteq file'.rows /\ file'.edited = file.edited
               /\ file.top = NoSource \/ file'.top = file.top
    <2>1. ~cut /\ file.end = "whole" /\ file.top # Scrap
      BY <1>4, <1>5 DEF Whole
    <2>2. PICK g : /\ g = OnNewLine(file, s, 3)
                   /\ file' = IF g.end = "open" THEN [g EXCEPT !.end = "whole"] ELSE g
      BY <1>4, <1>5, <2>1 DEF WithRow, Piece
    <2>3. CASE file.top = NoSource
      <3>1. g = [file EXCEPT !.top = s, !.end = "open"] /\ file.rows = {}
        BY <1>2, <2>1, <2>2, <2>3, ConstantsAssumption DEF OnNewLine, Proper
      <3>2. g \in Files /\ g.end = "open" /\ g.top = s /\ g.rows = file.rows /\ g.edited = file.edited
        BY <1>2, <3>1 DEF Proper, Files
      <3>3. file'.end = "whole" /\ file'.top = s /\ file'.rows = file.rows /\ file'.edited = file.edited
        BY <2>2, <3>2 DEF Files
      <3> QED
        BY <2>1, <2>3, <3>3, ConstantsAssumption
    <2>4. CASE file.top # NoSource
      <3>1. g = [file EXCEPT !.rows = @ \cup {s}, !.end = "open"]
        BY <2>1, <2>2, <2>4 DEF OnNewLine
      <3>2. /\ g \in Files /\ g.end = "open" /\ g.top = file.top
            /\ g.rows = file.rows \cup {s} /\ g.edited = file.edited
        BY <1>2, <3>1 DEF Proper, Files
      <3>3. /\ file'.end = "whole" /\ file'.top = file.top
            /\ file'.rows = file.rows \cup {s} /\ file'.edited = file.edited
        BY <2>2, <3>2 DEF Files
      <3> QED
        BY <2>1, <3>3
    <2> QED
      BY <2>3, <2>4
  <1>6. Known' /\ Choice' /\ DeletedStayAway' /\ UpdatesStick'
    BY <1>3, <1>4, <1>5, NewRow
  <1>7. TypeOK'
    BY <1>1, <1>3, <1>4 DEF TypeOK, Proper
  <1>8. Numbered'
    BY <1>1 DEF Numbered, TypeOK, NoID, Longer
  <1>9. Whole'
    BY <1>5 DEF Whole
  <1>10. AddedStay'
    <2> SUFFICES ASSUME ~cut'
                 PROVE  /\ Readable(file')
                        /\ \A q \in Sources : id'[q] # NoID =>
                             q \in file'.rows \/ q = file'.top \/ \E r \in deleted : id'[r] = id'[q]
      BY DEF AddedStay
    <2>1. Readable(file')
      BY <1>5 DEF Readable
    <2>2. ASSUME NEW q \in Sources, id'[q] # NoID
          PROVE  q \in file'.rows \/ q = file'.top \/ \E r \in deleted : id'[r] = id'[q]
      <3>1. CASE q = s
        BY <1>5, <3>1
      <3>2. CASE q # s
        <4>1. q \in file.rows \/ q = file.top \/ \E r \in deleted : id[r] = id[q]
          BY <1>1, <1>5, <2>2, <3>2 DEF AddedStay
        <4>2. CASE \E r \in deleted : id[r] = id[q]
          BY <1>1, <3>2, <4>2 DEF TypeOK
        <4> QED
          BY <1>5, <4>1, <4>2, ConstantsAssumption
      <3> QED
        BY <3>1, <3>2
    <2> QED
      BY <2>1, <2>2
  <1> QED
    BY <1>6, <1>7, <1>8, <1>9, <1>10

\* AddSource that fails has cut the file.
LEMMA AddFailsInductive ==
  ASSUME IInv, NEW s \in Sources, AddFails(s)
  PROVE  IInv'
  <1> USE DEF IInv, AddFails, room
  <1>1. Proper(file) /\ s \in Sources \cup {Header, Scrap}
    BY DEF TypeOK, Proper
  <1>2. Proper(file') /\ Sticks(file, file') /\ file'.rows \subseteq file.rows \cup {s}
    BY <1>1, PiecesOf
  <1>3. cuts' \in Nat /\ cut'
    BY DEF TypeOK, cut, CutHere
  <1>4. Whole' /\ AddedStay'
    BY <1>3 DEF Whole, AddedStay
  <1>5. CASE s \in file'.rows /\ Number(s) /\ reused' = TRUE
    <2>1. id' \in [Sources -> Int] /\ older' \in [Sources -> SUBSET Sources]
      BY <1>5, NumberOf
    <2>2. Known' /\ Choice' /\ DeletedStayAway' /\ UpdatesStick'
      BY <1>2, <1>3, <1>5, NewRow
    <2>3. TypeOK'
      BY <1>2, <1>3, <1>5, <2>1 DEF TypeOK, Proper
    <2> QED
      BY <1>4, <1>5, <2>2, <2>3 DEF Numbered
  <1>6. CASE s \notin file'.rows /\ UNCHANGED <<id, older, reused>>
    <2>1. file'.rows \subseteq file.rows
      BY <1>2, <1>6
    <2>2. TypeOK'
      BY <1>2, <1>3, <1>6 DEF TypeOK, Proper
    <2>3. Known'
      BY <1>6, <2>1 DEF Known
    <2>4. Numbered' /\ Choice' /\ DeletedStayAway'
      BY <1>6, <2>1, FewerRows
    <2>5. UpdatesStick'
      <3>1. \A q \in updated \cap file'.rows :
              q \in file'.edited \/ (cut' /\ q \in file'.clipped) \/ \E r \in older[q] : id[r] = id[q]
        BY <1>2, <1>3, <2>1 DEF UpdatesStick, Sticks
      <3> QED
        BY <1>6, <3>1 DEF UpdatesStick
    <2> QED
      BY <1>4, <2>2, <2>3, <2>4, <2>5
  <1> QED
    BY <1>5, <1>6

\* A handler begins: nothing but its place changes.
LEMMA StartInductive ==
  ASSUME IInv, NEW h \in Handlers, NEW s \in Sources,
         NEW label \in {"updating", "deleting", "choosing"}, Start(h, label, s)
  PROVE  IInv'
  BY DEF IInv, Start, Begin, numbering, room, TypeOK, Known, Numbered, Choice, Whole,
         DeletedStayAway, AddedStay, UpdatesStick, cut, Longer

\* Update: the row it changes is the source's own or that of an older twin.
LEMMA UpdateInductive ==
  ASSUME IInv, NEW h \in Handlers, Update(h)
  PROVE  IInv'
  <1> USE DEF IInv, Update, Return, Begin, numbering, room
  <1>1. arg[h] \in Sources /\ id[arg[h]] # NoID
    BY DEF Known
  <1>2. CASE UNCHANGED <<file, updated, cuts>>
    BY <1>1, <1>2
    DEF TypeOK, Known, Numbered, Choice, Whole, DeletedStayAway, AddedStay, UpdatesStick, cut, Longer
  <1>3. CASE /\ Write(Edited(h)) \/ CutOff(Edited(h))
             /\ updated' = updated \cup {arg[h]} \/ updated' = updated
    <2>0. PICK f : f = Edited(h)
      OBVIOUS
    <2>1. /\ Proper(f) /\ f.end = "whole" /\ f.rows = file.rows
          /\ f.edited = file.edited \cup Edits(h) /\ f.clipped = file.clipped \ Edits(h)
          /\ file.end # "stub" => f.top = file.top
      BY <2>0, EditedOf
    <2>2. /\ Proper(file') /\ Sticks(f, file') /\ file'.rows \subseteq file.rows
          /\ cuts' \in Nat /\ (cut => cut') /\ (~cut' => ~cut /\ file' = f)
      BY <1>3, <2>0, <2>1, WriteOf
    <2>3. TypeOK'
      BY <1>1, <1>3, <2>2 DEF TypeOK, Proper
    <2>4. Known'
      BY <1>1, <1>3, <2>2 DEF Known, TypeOK
    <2>5. Numbered' /\ Choice' /\ DeletedStayAway'
      BY <2>2, FewerRows
    <2>6. Whole' /\ AddedStay'
      <3> SUFFICES ASSUME ~cut' PROVE Whole' /\ AddedStay'
        BY DEF Whole, AddedStay
      <3>1. ~cut /\ file' = f /\ file.end = "whole" /\ f.top = file.top /\ f.top # Scrap
        BY <2>1, <2>2 DEF Whole
      <3> QED
        BY <2>1, <3>1 DEF Whole, AddedStay, Readable
    <2>7. UpdatesStick'
      <3>1. \A s \in updated \cap file'.rows :
              \/ s \in file'.edited \/ (cut' /\ s \in file'.clipped)
              \/ \E q \in older[s] : id[q] = id[s]
        BY <2>1, <2>2, Sticking
      <3>2. arg[h] \in file'.rows =>
              \/ arg[h] \in file'.edited \/ (cut' /\ arg[h] \in file'.clipped)
              \/ \E q \in older[arg[h]] : id[q] = id[arg[h]]
        <4> SUFFICES ASSUME arg[h] \in file'.rows, ~\E q \in older[arg[h]] : id[q] = id[arg[h]]
                     PROVE  arg[h] \in file'.edited \/ (cut' /\ arg[h] \in file'.clipped)
          OBVIOUS
        <4>1. arg[h] \in f.edited
          BY <1>1, <2>1, <2>2 DEF Edits, FirstWithID
        <4>2. CASE cut'
          BY <2>2, <4>1, <4>2 DEF Sticks
        <4>3. CASE ~cut'
          BY <2>2, <4>1, <4>3
        <4> QED
          BY <4>2, <4>3 DEF cut
      <3>3. \A s \in updated' : s \in updated \/ s = arg[h]
        BY <1>3
      <3> QED
        BY <3>1, <3>2, <3>3 DEF UpdatesStick
    <2> QED
      BY <2>3, <2>4, <2>5, <2>6, <2>7
  <1> QED
    BY <1>2, <1>3

\* Delete takes every row with the ID.
LEMMA DeleteInductive ==
  ASSUME IInv, NEW h \in Handlers, Delete(h)
  PROVE  IInv'
  <1> USE DEF IInv, Delete, Return, Begin, numbering, room
  <1>1. arg[h] \in Sources /\ id[arg[h]] # NoID
    BY DEF Known
  <1>2. CASE UNCHANGED <<file, deleted, cuts>>
    BY <1>1, <1>2
    DEF TypeOK, Known, Numbered, Choice, Whole, DeletedStayAway, AddedStay, UpdatesStick, cut, Longer
  <1>3. CASE \/ Write(WithoutRows(arg[h])) /\ deleted' = deleted \cup {arg[h]}
             \/ CutOff(WithoutRows(arg[h])) /\ deleted' = deleted
    <2>0. PICK f : f = WithoutRows(arg[h])
      OBVIOUS
    <2>1. /\ Proper(f) /\ f.end = "whole" /\ f.rows = {q \in file.rows : id[q] # id[arg[h]]}
          /\ f.edited = file.edited \cap f.rows /\ f.clipped = file.clipped \cap f.rows
          /\ file.end # "stub" => f.top = file.top
      BY <2>0, WithoutRowsOf
    <2>2. /\ Proper(file') /\ Sticks(f, file') /\ file'.rows \subseteq f.rows
          /\ cuts' \in Nat /\ (cut => cut') /\ (~cut' => ~cut /\ file' = f)
      BY <1>3, <2>0, <2>1, WriteOf
    <2>3. ~cut' => deleted' = deleted \cup {arg[h]}
      BY <1>3 DEF CutOff, CutHere, TypeOK, cut
    <2>4. TypeOK'
      BY <1>1, <1>3, <2>2 DEF TypeOK, Proper
    <2>5. Known'
      BY <1>1, <1>3, <2>1, <2>2 DEF Known, TypeOK
    <2>6. Numbered' /\ Choice'
      BY DEF Numbered, Choice, Longer
    <2>7. DeletedStayAway'
      BY <1>3, <2>1, <2>2 DEF DeletedStayAway
    <2>8. Whole' /\ AddedStay'
      <3> SUFFICES ASSUME ~cut' PROVE Whole' /\ AddedStay'
        BY DEF Whole, AddedStay
      <3>1. ~cut /\ file' = f /\ file.end = "whole" /\ f.top = file.top /\ f.top # Scrap
        BY <2>1, <2>2 DEF Whole
      <3>2. \A q \in Sources : id[q] # NoID =>
              q \in file'.rows \/ q = file'.top \/ \E r \in deleted' : id[r] = id[q]
        BY <1>1, <2>1, <2>3, <3>1 DEF AddedStay
      <3> QED
        BY <2>1, <3>1, <3>2 DEF Whole, AddedStay, Readable
    <2>9. UpdatesStick'
      <3>1. \A s \in updated \cap file'.rows :
              \/ s \in file'.edited \/ (cut' /\ s \in file'.clipped)
              \/ \E q \in older[s] : id[q] = id[s]
        BY <2>1, <2>2, Sticking
      <3> QED
        BY <3>1 DEF UpdatesStick
    <2> QED
      BY <2>4, <2>5, <2>6, <2>7, <2>8, <2>9
  <1> QED
    BY <1>2, <1>3

\* PatchSource stores the ID of the source it was asked for.
LEMMA ChooseInductive ==
  ASSUME IInv, NEW h \in Handlers, Choose(h)
  PROVE  IInv'
  BY DEF IInv, Choose, Return, Begin, numbering, TypeOK, Known, Numbered, Choice, Whole,
         DeletedStayAway, AddedStay, UpdatesStick, cut, Longer

\* The server starts with the file it has, or with what a rewrite has left of it.
LEMMA ReloadInductive ==
  ASSUME IInv, NEW f, Proper(f), Reload(f), f.rows \subseteq file.rows,
         cuts' \in Nat, ~cut' => ~cut /\ f = file,
         \A s \in updated \cap f.rows :
            s \in f.edited \/ (cut' /\ s \in f.clipped) \/ \E q \in older[s] : id[q] = id[s]
  PROVE  IInv'
  <1> USE DEF IInv, Reload
  <1>1. Cardinality(f.rows) \in Nat
    BY ConstantsAssumption, FS_Subset, FS_CardinalityType DEF Proper, Files
  <1>2. CountedLines(f) \in Nat \cup {-1}
    BY <1>1, FS_EmptySet DEF CountedLines, Proper
  <1>3. lastID' \in Nat \cup {-1} /\ (~reused' => ~reused /\ lastID <= lastID')
    <2>1. lastID' \in Nat \cup {-1} /\ lastID \in Nat \cup {-1}
      BY <1>2 DEF TypeOK
    <2>2. ~reused' => ~reused /\ ~(lastID' < lastID)
      OBVIOUS
    <2> QED
      BY <2>1, <2>2
  <1>4. TypeOK'
    <2>1. reused' \in BOOLEAN /\ up' \in BOOLEAN
      BY DEF Readable
    <2>2. /\ pc' \in [Handlers -> {"idle", "updating", "deleting", "choosing"}]
          /\ arg' \in [Handlers -> Sources \cup {NoSource}]
          /\ current' \in Int /\ chosen' = NoSource /\ file' = f
      BY DEF NoID
    <2> QED
      BY <1>3, <2>1, <2>2 DEF TypeOK, Proper
  <1>5. Known' /\ Choice'
    BY DEF Known, Choice, TypeOK
  <1>6. Numbered'
    BY <1>3 DEF Numbered, TypeOK, NoID, Longer
  <1>7. DeletedStayAway' /\ AddedStay' /\ UpdatesStick' /\ Whole'
    BY DEF DeletedStayAway, AddedStay, UpdatesStick, Whole
  <1> QED
    BY <1>4, <1>5, <1>6, <1>7

\* A crash in a rewrite starts the server with a part of what was to be written.
LEMMA CrashInductive ==
  ASSUME IInv, NEW h \in Handlers, CrashInRewrite(h)
  PROVE  IInv'
  <1> USE DEF IInv, CrashInRewrite
  <1>1. PICK e : /\ e = Edited(h) \/ e = WithoutRows(arg[h])
                 /\ \E f \in Parts(e) : Reload(f)
    OBVIOUS
  <1>2. PICK f \in Parts(e) : Reload(f)
    BY <1>1
  <1>3. /\ Proper(e) /\ e.end = "whole" /\ e.rows \subseteq file.rows
        /\ file.edited \cap e.rows \subseteq e.edited
        /\ file.clipped \cap e.rows \subseteq e.edited \cup e.clipped
    BY <1>1, EditedOf, WithoutRowsOf
  <1>4. Proper(f) /\ Sticks(e, f) /\ f.rows \subseteq e.rows
    BY <1>2, <1>3, PartsOf
  <1>5. cuts' \in Nat /\ cut'
    BY DEF CutHere, TypeOK, cut
  <1>6. file' = f
    BY <1>2 DEF Reload
  <1>7. \A s \in updated \cap f.rows :
          s \in f.edited \/ (cut' /\ s \in f.clipped) \/ \E q \in older[s] : id[q] = id[s]
    BY <1>3, <1>4, <1>5, <1>6, Sticking
  <1> QED
    BY <1>2, <1>3, <1>4, <1>5, <1>7, ReloadInductive

\* No step of Sources breaks the invariant.
LEMMA NextInductive == IInv /\ [Next]_vars => IInv'
  <1> SUFFICES ASSUME IInv, [Next]_vars PROVE IInv'
    OBVIOUS
  <1>1. CASE Restart
    <2>1. Proper(file) /\ cuts \in Nat
      BY DEF IInv, TypeOK, Proper
    <2>2. Reload(file) /\ cuts' = cuts
      BY <1>1 DEF Restart
    <2>3. cut' = cut
      BY <2>2 DEF cut
    <2> QED
      BY <2>1, <2>2, <2>3, ReloadInductive DEF IInv, UpdatesStick
  <1>2. CASE UNCHANGED vars
    BY <1>2 DEF vars, IInv, TypeOK, Known, Numbered, Choice, Whole, DeletedStayAway, AddedStay,
                UpdatesStick, cut, Longer
  <1> QED
    BY <1>1, <1>2, AddInductive, AddFailsInductive, StartInductive, UpdateInductive, DeleteInductive,
       ChooseInductive, CrashInductive DEF Next

\* The invariant holds in every state of every behaviour.
LEMMA Inductive == Spec => []IInv
  BY InitInductive, NextInductive, PTL DEF Spec

-----------------------------------------------------------------------------
\* Type correctness.
THEOREM TypeCorrect == Spec => []TypeOK
  <1>1. IInv => TypeOK
    BY DEF IInv
  <1> QED
    BY <1>1, Inductive, PTL

\* No request brings a deleted source back.
THEOREM DeletedSourcesStayAway == Spec => []DeletedStayAway
  <1>1. IInv => DeletedStayAway
    BY DEF IInv
  <1> QED
    BY <1>1, Inductive, PTL

\* No rewrite loses a source that was added.
THEOREM AddedSourcesStay == Spec => []AddedStay
  <1>1. IInv => AddedStay
    BY DEF IInv
  <1> QED
    BY <1>1, Inductive, PTL

\* No rewrite of others takes back what an update has written, and one that is cut
\* takes at most the end of a URL.
THEOREM UpdatesAreKept == Spec => []UpdatesStick
  <1>1. IInv => UpdatesStick
    BY DEF IInv
  <1> QED
    BY <1>1, Inductive, PTL

\* While IDs differ the room shows what its owner chose.
THEOREM RoomsShowTheChosen == Spec => []RoomShowsTheChosen
  <1>1. IInv => RoomShowsTheChosen
    BY ConstantsAssumption
    DEF IInv, TypeOK, Files, Known, Numbered, Choice, RoomShowsTheChosen, Shown, FirstWithID
  <1> QED
    BY <1>1, Inductive, PTL
=============================================================================
