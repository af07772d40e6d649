---------------------------- MODULE AccountsProofs ----------------------------
(***************************************************************************)
(* Theorems about Accounts, for any number of users and names.             *)
(***************************************************************************)
EXTENDS Accounts, TLAPS

\* No line is that of two users, below the first there is no header, and a line
\* ends within its first field only as long as it is the last.
Lines ==
  /\ \A i \in Rows : file[i] # "header"
  /\ \A i, j \in 1 .. Len(file) : file[i] = file[j] /\ file[i] \in Users => i = j
  /\ \A i \in 1 .. Len(file) : file[i] \in Users => id[file[i]] # NoID
  /\ \A i \in 1 .. Len(file) : file[i] = "stub" => i = Len(file) /\ open

\* Unless a row was lost, there are users below the first line, and what is short
\* is the header alone.
Whole ==
  ~lost =>
    /\ \A i \in Rows : file[i] \in Users
    /\ Len(file) > 0 /\ file[1] \in {"stub", "torn"} => open
    /\ open => Len(file) = 1 /\ file[1] \notin Users

\* Unless a row was lost, an ID says in which line its user is.
Numbered ==
  ~lost =>
    /\ lastID = Len(file) - 1
    /\ \A u \in Users :
         id[u] # NoID => id[u] + 1 \in 1 .. Len(file) /\ file[id[u] + 1] = u

\* A line that will always keep the file from being read.
Spoilt == \E i \in Rows : file[i] \in {"torn", "undated"}

\* The row of u is the first with the name.
FirstOfName(u) ==
  \E i \in Rows : file[i] = u /\ \A j \in Rows : j < i => file[j] \in Users /\ name[file[j]] # name[u]

\* AccountsStay, also for the time when a stub keeps the file from being read.
Kept == Spoilt \/ \A u \in signedIn : FirstOfName(u)

\* Where a registration is.
Progress ==
  \A u \in Users :
    /\ pc[u] = "checked" => id[u] = NoID
    /\ pc[u] = "added" \/ u \in answered \cup signedIn => id[u] # NoID
    /\ session[u] # NoID => session[u] = id[u]
    /\ before[u] \subseteq answered

\* NamesAreTaken, from the check of the name on.
ChecksHold ==
  ~lost =>
    \A u \in Users : pc[u] = "checked" \/ id[u] # NoID =>
      \A v \in before[u] : name[v] = name[u] => file[1] = v

IInv == TypeOK /\ Lines /\ Whole /\ Numbered /\ Kept /\ Progress /\ ChecksHold

-----------------------------------------------------------------------------
\* The initial states satisfy the invariant.
LEMMA InitInductive == Init => IInv
  <1> SUFFICES ASSUME Init PROVE IInv
    OBVIOUS
  <1>0. /\ file \in Seq(Users \cup Scraps) /\ lastID \in Nat \cup {-1}
        /\ lastID = Len(file) - 1 /\ Len(file) \in {0, 1}
        /\ open \in BOOLEAN /\ (open => file # <<>>)
        /\ Len(file) = 1 => file[1] \in Scraps /\ (file[1] \in {"stub", "torn"} => open)
        /\ open => Len(file) = 1
    <2>1. CASE file \in {<<"header">>, <<"stub">>, <<"torn">>} /\ lastID = 0
      <3>1. PICK l \in {"header", "stub", "torn"} : file = <<l>>
        BY <2>1
      <3>2. l \in Scraps /\ open \in BOOLEAN /\ (l # "header" => open)
        BY <3>1 DEF Init, Scraps
      <3>3. file \in Seq(Users \cup Scraps) /\ Len(file) = 1 /\ file[1] = l /\ file # <<>>
        BY <3>1, <3>2
      <3> QED
        BY <2>1, <3>2, <3>3
    <2>2. CASE file = <<>> /\ lastID = -1 /\ open = FALSE
      <3>1. file \in Seq(Users \cup Scraps) /\ Len(file) = 0
        BY <2>2
      <3>2. open \in BOOLEAN /\ ~open
        BY <2>2
      <3>3. lastID \in Nat \cup {-1} /\ lastID = Len(file) - 1
        BY <2>2, <3>1
      <3> QED
        BY <3>1, <3>2, <3>3
    <2> QED
      BY <2>1, <2>2 DEF Init
  <1>1. TypeOK
    BY <1>0 DEF Init, TypeOK, NoID
  <1>2. Lines /\ Whole
    BY <1>0, ConstantsAssumption DEF Lines, Whole, Rows
  <1>3. Numbered /\ Kept
    BY <1>0 DEF Init, Numbered, Kept
  <1>4. \A u \in Users : pc[u] = "idle" /\ id[u] = NoID /\ session[u] = NoID /\ before[u] = {}
    BY DEF Init
  <1>5. Progress /\ ChecksHold
    BY <1>4 DEF Init, Progress, ChecksHold
  <1> QED
    BY <1>1, <1>2, <1>3, <1>5 DEF IInv

\* A line that is written is the last; it stands for itself, or for what a row
\* without a newline and it have become.
LEMMA Written ==
  ASSUME TypeOK, NEW line \in Users \cup {"stub", "torn", "undated"}, file' \in With(line)
  PROVE  /\ file' \in Seq(Users \cup Scraps) /\ Len(file) \in Nat /\ Len(file') \in Nat \ {0}
         /\ Len(file') = IF open THEN Len(file) ELSE Len(file) + 1
         /\ \A i \in 1 .. Len(file') : i # Len(file') => i \in 1 .. Len(file) /\ file'[i] = file[i]
         /\ \/ file'[Len(file')] \in {"torn", "undated"}
            \/ file'[Len(file')] = line /\ (open => file[Len(file)] = "stub")
  <1>1. CASE open
    <2>1. PICK l \in Joined(file[Len(file)], line) : file' = [file EXCEPT ![Len(file)] = l]
      BY <1>1 DEF With
    <2>2. l \in {"torn", "undated"} \/ (l = line /\ file[Len(file)] = "stub")
      BY <2>1 DEF Joined
    <2>3. Len(file) \in Nat \ {0} /\ l \in Users \cup Scraps
      BY <1>1, <2>2 DEF TypeOK, Scraps
    <2> QED
      BY <1>1, <2>1, <2>2, <2>3 DEF TypeOK
  <1>2. CASE ~open
    <2>1. file' = Append(file, line) /\ line \in Users \cup Scraps
      BY <1>2 DEF With, Scraps
    <2> QED
      BY <1>2, <2>1 DEF TypeOK
  <1> QED
    BY <1>1, <1>2

\* What a line that is written does to what is said of the file and of those who
\* have signed in; only the line of u, who has just got an ID, is a user's.
LEMMA WrittenInductive ==
  ASSUME IInv, NEW u \in Users, NEW line \in {u, "stub", "torn", "undated"}, file' \in With(line),
         id[u] = NoID, line = u => id'[u] # NoID, \A q \in Users : q # u => id'[q] = id[q],
         line = "stub" => open' = TRUE, name' = name, signedIn' = signedIn
  PROVE  Lines' /\ Kept'
  <1> DEFINE n == Len(file')
  <1> USE DEF IInv
  <1>1. /\ Len(file) \in Nat /\ n \in Nat \ {0} /\ n = IF open THEN Len(file) ELSE Len(file) + 1
        /\ \A i \in 1 .. n : i # n => i \in 1 .. Len(file) /\ file'[i] = file[i]
        /\ file'[n] \in {"torn", "undated"} \/ (file'[n] = line /\ (open => file[Len(file)] = "stub"))
        /\ n \in 1 .. n
    BY Written
  <1>2. \A i \in 1 .. Len(file) : file[i] # u
    BY DEF Lines
  <1>3. "torn" \notin Users /\ "undated" \notin Users /\ "stub" \notin Users /\ "header" \notin Users
    BY ConstantsAssumption DEF Scraps
  <1> HIDE DEF n
  <1>4. \A i \in 1 .. n : file'[i] \in Users => (i = n /\ line = u /\ file'[i] = u) \/ (i # n /\ file'[i] = file[i])
    BY <1>1, <1>3
  <1>5. \A i \in Rows' : file'[i] # "header"
    BY <1>1, <1>3 DEF Lines, Rows, n
  <1>6. \A i, j \in 1 .. n : file'[i] = file'[j] /\ file'[i] \in Users => i = j
    BY <1>1, <1>2, <1>4 DEF Lines
  <1>7. \A i \in 1 .. n : file'[i] \in Users => id'[file'[i]] # NoID
    BY <1>1, <1>2, <1>4 DEF Lines
  <1>8. \A i \in 1 .. n : file'[i] = "stub" => i = n /\ open'
    <2> SUFFICES ASSUME NEW i \in 1 .. n, file'[i] = "stub" PROVE i = n /\ open'
      OBVIOUS
    <2>1. CASE i = n
      BY <1>1, <1>3, <2>1
    <2>2. CASE i # n
      BY <1>1, <2>2 DEF Lines
    <2> QED
      BY <2>1, <2>2
  <1>9. Lines'
    BY <1>5, <1>6, <1>7, <1>8 DEF Lines, n
  <1>10. Kept'
    <2>1. CASE Spoilt
      <3>1. PICK i \in Rows : file[i] \in {"torn", "undated"}
        BY <2>1 DEF Spoilt
      <3>2. i \in Rows' /\ file'[i] \in {"torn", "undated"}
        BY <1>1, <3>1 DEF Rows, n
      <3> QED
        BY <3>2 DEF Kept, Spoilt
    <2>2. CASE ~Spoilt
      <3> SUFFICES ASSUME NEW w \in signedIn, ~Spoilt' PROVE FirstOfName(w)'
        BY DEF Kept
      <3>1. PICK i \in Rows : file[i] = w /\ \A j \in Rows : j < i => file[j] \in Users /\ name[file[j]] # name[w]
        BY <2>2 DEF Kept, FirstOfName
      <3>2. w \in Users
        BY DEF TypeOK
      <3>3. i \in Rows' /\ file'[i] = w
        <4>1. i \in 1 .. n /\ i \in Rows'
          BY <1>1, <3>1 DEF Rows, n
        <4>2. CASE i = n
          <5>1. file'[n] \notin {"torn", "undated"}
            BY <4>1, <4>2 DEF Spoilt
          <5>2. file[Len(file)] = "stub" /\ i = Len(file)
            BY <1>1, <3>1, <4>2, <5>1 DEF Rows
          <5> QED
            BY <1>3, <3>1, <3>2, <5>2
        <4>3. CASE i # n
          BY <1>1, <3>1, <4>1, <4>3
        <4> QED
          BY <4>1, <4>2, <4>3
      <3>4. ASSUME NEW j \in Rows', j < i PROVE file'[j] \in Users /\ name'[file'[j]] # name'[w]
        <4>1. j \in Rows /\ file'[j] = file[j]
          BY <1>1, <3>1, <3>3, <3>4 DEF Rows, n
        <4> QED
          BY <3>1, <3>4, <4>1
      <3> QED
        BY <3>3, <3>4 DEF FirstOfName
    <2> QED
      BY <2>1, <2>2
  <1> QED
    BY <1>9, <1>10

\* Check changes only the name and the place of one who has no row.
LEMMA CheckInductive ==
  ASSUME IInv, NEW u \in Users, NEW n \in Names, Check(u, n)
  PROVE  IInv'
  <1> USE DEF IInv, Check, Goto, storage
  <1>1. TypeOK'
    BY DEF TypeOK
  <1>2. Lines' /\ Whole' /\ Numbered'
    BY DEF Lines, Whole, Numbered, Rows
  <1>3. Progress'
    BY DEF Progress, TypeOK
  <1>4. Kept'
    <2>1. Spoilt' = Spoilt
      BY DEF Spoilt, Rows
    <2>2. ASSUME NEW w \in signedIn, FirstOfName(w) PROVE FirstOfName(w)'
      <3>1. PICK i \in Rows : file[i] = w /\ \A j \in Rows : j < i => file[j] \in Users /\ name[file[j]] # name[w]
        BY <2>2 DEF FirstOfName
      <3>2. w # u /\ name'[w] = name[w]
        BY DEF Progress, TypeOK
      <3>3. \A j \in Rows : file[j] \in Users => name'[file[j]] = name[file[j]]
        BY DEF Lines, TypeOK, Rows
      <3> QED
        BY <3>1, <3>2, <3>3 DEF FirstOfName, Rows
    <2> QED
      BY <2>1, <2>2 DEF Kept
  <1>5. ChecksHold'
    <2> SUFFICES ASSUME ~lost, NEW w \in Users, pc'[w] = "checked" \/ id[w] # NoID,
                        NEW v \in before'[w], name'[v] = name'[w]
                 PROVE  file[1] = v
      BY DEF ChecksHold
    <2>1. v \in answered /\ v \in Users /\ v # u
      BY DEF Progress, TypeOK
    <2>2. CASE w # u
      BY <2>1, <2>2 DEF ChecksHold, TypeOK
    <2>3. CASE w = u
      <3>1. name[v] = n /\ id[v] + 1 \in 1 .. Len(file) /\ file[id[v] + 1] = v
        BY <2>1, <2>3 DEF TypeOK, Progress, Numbered
      <3>2. id[v] + 1 \notin Rows
        BY <3>1 DEF Taken
      <3> QED
        BY <3>1, <3>2, <2>1 DEF Rows, TypeOK, NoID
    <2> QED
      BY <2>2, <2>3
  <1> QED
    BY <1>1, <1>2, <1>3, <1>4, <1>5

\* A row that is written goes where its ID says; one that is cut or lost ends what
\* the invariant promises about numbers and names.
LEMMA AddInductive ==
  ASSUME IInv, NEW u \in Users, Add(u)
  PROVE  IInv'
  <1> USE DEF IInv, Add, Goto
  <1>1. /\ pc[u] = "checked" /\ id[u] = NoID /\ name' = name /\ signedIn' = signedIn
        /\ lastID \in Nat \cup {-1} /\ lastID + 1 \in Nat
    BY DEF Progress, TypeOK
  <1>2. CASE AddUserFails /\ Goto(u, "idle")
    <2>1. id' = id /\ lastID' = lastID
      BY <1>2 DEF AddUserFails
    <2>2. \A w \in Users : pc'[w] = "idle" \/ pc'[w] = pc[w]
      BY <1>2 DEF TypeOK
    <2>3. Progress'
      BY <1>2, <2>1, <2>2 DEF Progress
    <2>4. CASE UNCHANGED <<file, open, lost>>
      BY <1>2, <2>1, <2>2, <2>3, <2>4
      DEF TypeOK, Lines, Whole, Numbered, Rows, Kept, Spoilt, FirstOfName, ChecksHold
    <2>5. CASE CutRow({"stub", "torn", "undated"})
      <3>1. PICK line \in {"stub", "torn", "undated"} : file' \in With(line)
        BY <2>5 DEF CutRow
      <3>2. lost' = TRUE /\ open' = TRUE
        BY <2>5 DEF CutRow
      <3>3. Lines' /\ Kept'
        BY <1>1, <2>1, <3>1, <3>2, WrittenInductive, ConstantsAssumption DEF Scraps
      <3>4. file' \in Seq(Users \cup Scraps) /\ Len(file') \in Nat \ {0}
        BY <3>1, Written
      <3>5. file' # <<>>
        BY <3>4
      <3>6. TypeOK'
        BY <1>2, <2>1, <3>2, <3>4, <3>5 DEF TypeOK
      <3> QED
        BY <2>3, <3>2, <3>3, <3>6 DEF Whole, Numbered, ChecksHold
    <2> QED
      BY <1>2, <2>4, <2>5 DEF AddUserFails
  <1>3. CASE AddUser(u) /\ Goto(u, "added")
    <2>1. /\ id' = [id EXCEPT ![u] = lastID + 1] /\ lastID' = lastID + 1
          /\ id'[u] = lastID + 1 /\ id'[u] # NoID /\ \A q \in Users : q # u => id'[q] = id[q]
      BY <1>1, <1>3 DEF AddUser, TypeOK, NoID
    <2>2. Progress'
      BY <1>1, <1>3, <2>1 DEF Progress, TypeOK
    <2>3. ASSUME file' \in Seq(Users \cup Scraps), open' \in BOOLEAN, open' => file' # <<>>,
                 lost' \in BOOLEAN
          PROVE  TypeOK'
      <3>1. id' \in [Users -> Nat \cup {NoID}] /\ lastID' \in Nat \cup {-1}
        BY <1>1, <2>1 DEF TypeOK
      <3>2. pc' \in [Users -> {"idle", "checked", "added"}]
        BY <1>3 DEF TypeOK
      <3> QED
        BY <2>3, <3>1, <3>2 DEF TypeOK
    <2>4. CASE NoRow
      <3>1. lost' = TRUE /\ file' = file /\ open' = open
        BY <2>4 DEF NoRow
      <3>2. TypeOK'
        BY <2>3, <3>1 DEF TypeOK
      <3>3. Lines' /\ Kept'
        BY <1>1, <2>1, <3>1, ConstantsAssumption DEF Lines, Kept, Spoilt, FirstOfName, Rows
      <3> QED
        BY <2>2, <3>1, <3>2, <3>3 DEF Whole, Numbered, ChecksHold
    <2>5. CASE CutRow({u, "stub", "torn", "undated"})
      <3>1. PICK line \in {u, "stub", "torn", "undated"} : file' \in With(line)
        BY <2>5 DEF CutRow
      <3>2. lost' = TRUE /\ open' = TRUE
        BY <2>5 DEF CutRow
      <3>3. Lines' /\ Kept'
        BY <1>1, <2>1, <3>1, <3>2, WrittenInductive
      <3>4. file' \in Seq(Users \cup Scraps) /\ Len(file') \in Nat \ {0}
        BY <3>1, Written
      <3>5. TypeOK'
        BY <2>3, <3>2, <3>4
      <3> QED
        BY <2>2, <3>2, <3>3, <3>5 DEF Whole, Numbered, ChecksHold
    <2>6. CASE WriteRow(u)
      <3>1. file' \in With(u) /\ open' = FALSE /\ lost' = (lost \/ open)
        BY <2>6 DEF WriteRow
      <3>2. Lines' /\ Kept'
        BY <1>1, <2>1, <3>1, WrittenInductive, ConstantsAssumption DEF Scraps
      <3>3. /\ file' \in Seq(Users \cup Scraps) /\ Len(file) \in Nat
            /\ Len(file') = IF open THEN Len(file) ELSE Len(file) + 1
            /\ \A i \in 1 .. Len(file') : i # Len(file') => i \in 1 .. Len(file) /\ file'[i] = file[i]
        BY <3>1, Written
      <3>4. TypeOK'
        BY <2>3, <3>1, <3>3 DEF TypeOK
      <3>5. CASE lost'
        BY <2>2, <3>2, <3>4, <3>5 DEF Whole, Numbered, ChecksHold
      <3>6. CASE ~lost'
        <4>1. ~lost /\ ~open /\ Len(file') = Len(file) + 1
          BY <3>1, <3>3, <3>6
        <4>2. file'[Len(file) + 1] = u /\ \A i \in 1 .. Len(file) : file'[i] = file[i]
          BY <3>1, <4>1 DEF With, TypeOK
        <4>3. Whole'
          BY <3>1, <3>3, <4>1, <4>2, ConstantsAssumption DEF Whole, Rows, Scraps
        <4>4. Numbered'
          BY <2>1, <3>3, <4>1, <4>2 DEF Numbered, TypeOK, NoID
        <4>5. ChecksHold'
          <5> SUFFICES ASSUME NEW w \in Users, pc'[w] = "checked" \/ id'[w] # NoID,
                              NEW v \in before[w], name[v] = name[w]
                       PROVE  file'[1] = v
            BY DEF ChecksHold
          <5>1. file[1] = v
            BY <1>1, <1>3, <2>1, <4>1 DEF ChecksHold, TypeOK
          <5>2. v \in Users /\ id[v] # NoID
            BY DEF Progress, TypeOK
          <5>3. 1 \in 1 .. Len(file)
            BY <3>3, <4>1, <5>2 DEF Numbered, TypeOK
          <5> QED
            BY <4>2, <5>1, <5>3
        <4> QED
          BY <2>2, <3>2, <3>4, <4>3, <4>4, <4>5
      <3> QED
        BY <3>5, <3>6
    <2> QED
      BY <1>3, <2>4, <2>5, <2>6 DEF AddUser
  <1> QED
    BY <1>2, <1>3

\* No step of Accounts breaks the invariant.
LEMMA NextInductive == IInv /\ [Next]_vars => IInv'
  <1> SUFFICES ASSUME IInv, [Next]_vars PROVE IInv'
    OBVIOUS
  <1>1. ASSUME NEW u \in Users, NEW n \in Names, Check(u, n) PROVE IInv'
    BY <1>1, CheckInductive
  <1>2. ASSUME NEW u \in Users, Add(u) PROVE IInv'
    BY <1>2, AddInductive
  <1> USE DEF IInv, TypeOK, Lines, Whole, Numbered, Progress, ChecksHold, Rows, storage
  <1>0. ASSUME UNCHANGED <<file, name, signedIn>> PROVE Kept'
    BY <1>0 DEF Kept, Spoilt, FirstOfName
  <1>3. ASSUME NEW u \in Users, Answer(u) PROVE IInv'
    BY <1>0, <1>3 DEF Answer, Goto
  <1>4. ASSUME NEW u \in Users, Login(u) PROVE IInv'
    <2>1. PICK i \in Rows : file[i] = u /\ \A j \in Rows : j < i => name[file[j]] # name[u]
      BY <1>4 DEF Login, FoundByName
    <2>2. i \in 1 .. Len(file) /\ id[u] # NoID
      BY <2>1
    <2>3. ~Spoilt => FirstOfName(u)
      <3>1. ASSUME NEW j \in Rows, j < i PROVE file[j] # "header" /\ file[j] # "stub" /\ file[j] \in Users \cup Scraps
        BY <2>2, <3>1
      <3> QED
        BY <2>1, <3>1 DEF Spoilt, FirstOfName, Scraps
    <2>4. Kept'
      BY <1>4, <2>3 DEF Login, Kept, Spoilt, FirstOfName
    <2> QED
      BY <1>4, <2>2, <2>4 DEF Login
  <1>5. ASSUME NEW u \in Users, Logout(u) PROVE IInv'
    BY <1>0, <1>5 DEF Logout, NoID
  <1>6. CASE Restart
    <2>1. Len(file) \in Nat /\ lastID' \in Nat \cup {-1}
      BY <1>6 DEF Restart
    <2>2. ~lost => FieldsAgree
      BY <2>1, ConstantsAssumption DEF FieldsAgree, Scraps
    <2>3. Kept'
      BY <1>0, <1>6 DEF Restart
    <2>4. Numbered'
      BY <1>6, <2>1, <2>2 DEF Restart
    <2>5. TypeOK' /\ Lines' /\ Whole' /\ Progress' /\ ChecksHold'
      BY <1>6, <2>1 DEF Restart, NoID
    <2> QED
      BY <2>3, <2>4, <2>5
  <1>7. CASE UNCHANGED vars
    BY <1>0, <1>7 DEF vars
  <1> QED
    BY <1>1, <1>2, <1>3, <1>4, <1>5, <1>6, <1>7 DEF Next

\* The invariant holds in every state of every behaviour.
LEMMA Inductive == Spec => []IInv
  BY InitInductive, NextInductive, PTL DEF Spec

\* The line of an ID has one user.
LEMMA NumbersDiffer == IInv => IDsDiffer
  BY DEF IInv, Numbered, IDsDiffer

-----------------------------------------------------------------------------
\* Type correctness.
THEOREM TypeCorrect == Spec => []TypeOK
  <1>1. IInv => TypeOK
    BY DEF IInv
  <1> QED
    BY <1>1, Inductive, PTL

\* No two users are given one ID, across all restarts, unless a row was lost.
THEOREM UsersHaveTheirIDs == Spec => []IDsDiffer
  BY NumbersDiffer, Inductive, PTL

\* Nobody is taken for somebody else under a session.
THEOREM SessionsAreOwn == Spec => []MeIsMe
  <1>1. IInv => MeIsMe
    BY NumbersDiffer DEF IInv, Progress, MeIsMe, IDsDiffer, FoundByID
  <1> QED
    BY <1>1, Inductive, PTL

\* A name that was registered is refused from then on.
THEOREM NamesStayTaken == Spec => []NamesAreTaken
  <1>1. IInv => NamesAreTaken
    BY DEF IInv, ChecksHold, NamesAreTaken
  <1> QED
    BY <1>1, Inductive, PTL

\* Whoever has signed in with a name can do so whenever users.csv can be read, and
\* it can be read until a row is cut.
THEOREM AccountsAreKept == Spec => []AccountsStay
  <1>1. ASSUME IInv PROVE AccountsStay
    <2> USE <1>1 DEF IInv
    <2>1. CASE Readable
      <3> SUFFICES ASSUME NEW u \in signedIn PROVE FoundByName(u, name[u])
        BY <2>1 DEF AccountsStay
      <3>1. ~Spoilt
        BY <2>1 DEF Spoilt, Readable, FieldsAgree, Rows, TypeOK
      <3> QED
        BY <2>1, <3>1 DEF Kept, FirstOfName, FoundByName
    <2>2. CASE ~Readable
      <3>1. lost \in BOOLEAN /\ Len(file) \in Nat
        BY DEF TypeOK
      <3>2. CASE ~lost
        BY <2>2, <3>1, <3>2, ConstantsAssumption DEF Whole, Readable, FieldsAgree, Rows, Scraps
      <3> QED
        BY <2>2, <3>1, <3>2 DEF AccountsStay
    <2> QED
      BY <2>1, <2>2
  <1> QED
    BY <1>1, Inductive, PTL
=============================================================================
