------------------------------- MODULE Accounts --------------------------------
(***************************************************************************)
(* Registering and signing in: auth.service Register, Login and            *)
(* GetUserBySession over csvStorage and users.csv, to which AddUser only   *)
(* ever appends; a full disk, which may cut a row anywhere; restarts of    *)
(* the server.                                                             *)
(*                                                                         *)
(* A user registers once, with a name nobody else has to have chosen and a *)
(* password nobody else has: a password names its user.  A line of the     *)
(* file is the user it describes, or one of Scraps.  What becomes of       *)
(* sessions in the store is in module Sessions; here a session is the ID   *)
(* in it.                                                                  *)
(***************************************************************************)
EXTENDS Integers, Sequences

CONSTANTS
  Users,   \* people who register, each until there is an ID for them
  Names,   \* user names
  NoName   \* a user who has not chosen yet

\* The line with the names of the columns, and what there may be in the place of
\* a whole line: a line that ends within its first field; one that has not the
\* four fields of a row, but at least two; one with the four, of which the last is
\* no date.
Scraps == {"header", "stub", "torn", "undated"}

ASSUME ConstantsAssumption == Users \cap Scraps = {}

NoID == -1

VARIABLES
  file,      \* users.csv
  open,      \* its last line does not end in a newline
  lastID,    \* dataStruct["users"].lastID
  name,      \* the name a user has chosen, also in the row
  id,        \* the ID AddUser has given the user, also in the row
  session,   \* Session.UserID of the session of the user's cookie
  pc,        \* where the user's registration is
  answered,  \* history: users whose registration was answered 201
  before,    \* history: who had been answered when this user's name was checked
  signedIn,  \* history: users who have signed in with their name and password
  lost       \* history: a row was not written, or not as a line of its own

vars == <<file, open, lastID, name, id, session, pc, answered, before, signedIn, lost>>
storage == <<file, open, lastID, lost>>

TypeOK ==
  /\ file \in Seq(Users \cup Scraps)
  /\ open \in BOOLEAN /\ (open => file # <<>>)
  /\ lastID \in Nat \cup {-1}
  /\ name \in [Users -> Names \cup {NoName}]
  /\ id \in [Users -> Nat \cup {NoID}]
  /\ session \in [Users -> Nat \cup {NoID}]
  /\ pc \in [Users -> {"idle", "checked", "added"}]
  /\ answered \subseteq Users /\ signedIn \subseteq Users
  /\ before \in [Users -> SUBSET Users]
  /\ lost \in BOOLEAN

-----------------------------------------------------------------------------
(* csvStorage.                                                             *)

\* rowsTo: whatever the first line is, it is no row.
Rows == 2 .. Len(file)

\* csv.Reader.ReadAll: every line has as many fields as the first.  (Two torn
\* lines are taken to differ in this.)
FieldsAgree == Len(file) <= 1 \/ \A i \in 1 .. Len(file) : file[i] \notin {"stub", "torn"}

\* rowsTo, which parses the dates: otherwise every look-up ends with an error.
Readable == FieldsAgree /\ \A i \in Rows : file[i] # "undated"

\* Mutant of FoundByName: the last row with the name is returned.
LastByName(u, n) ==
  /\ Readable
  /\ \E i \in Rows : file[i] = u /\ name[u] = n /\ \A j \in Rows : j > i => name[file[j]] # n

\* GetUserByUsername(n) returns u: the loop ends at the first row with the name.
FoundByName(u, n) ==
  /\ Readable
  /\ \E i \in Rows : file[i] = u /\ name[u] = n /\ \A j \in Rows : j < i => name[file[j]] # n

\* GetUserByID(n) returns u.
FoundByID(u, n) ==
  /\ Readable
  /\ \E i \in Rows : file[i] = u /\ id[u] = n /\ \A j \in Rows : j < i => id[file[j]] # n

\* Mutant of Taken: the last row is not looked at.
TakenButLast(n) == \E i \in Rows \ {Len(file)} : name[file[i]] = n

\* GetUserByUsername(n) returns somebody.
Taken(n) == \E i \in Rows : name[file[i]] = n

\* A line that is appended to one without a newline goes on with its last field.
\* (Behind a stub its ID gets more digits: of IDs nothing is said any more once a
\* row is lost.)
Joined(last, line) ==
  IF last = "stub" THEN {line}
  ELSE IF line = "stub" THEN {IF last = "torn" THEN "torn" ELSE "undated"}
  ELSE IF last = "torn" /\ line = "torn" THEN {"torn", "undated"} ELSE {"torn"}

With(line) ==
  IF open
  THEN {[file EXCEPT ![Len(file)] = l] : l \in Joined(file[Len(file)], line)}
  ELSE {Append(file, line)}

\* The row goes to the end of the file, which need not have a header.
WriteRow(u) ==
  /\ file' \in With(u)
  /\ open' = FALSE
  /\ lost' = (lost \/ open)

\* The disk is full: of the row something is written, at most all but its newline.
CutRow(lines) ==
  /\ \E line \in lines : file' \in With(line)
  /\ open' = TRUE
  /\ lost' = TRUE

NoRow == lost' = TRUE /\ UNCHANGED <<file, open>>

\* Mutant of AddUser: the ID is used, and the next user gets it again.
AddUserSameID(u) ==
  /\ id' = [id EXCEPT ![u] = lastID + 1]
  /\ UNCHANGED lastID
  /\ WriteRow(u) \/ CutRow({u, "stub", "torn", "undated"}) \/ NoRow

\* AddUser: the errors of the deferred Flush are ignored.
AddUser(u) ==
  /\ id' = [id EXCEPT ![u] = lastID + 1]
  /\ lastID' = lastID + 1
  /\ WriteRow(u) \/ CutRow({u, "stub", "torn", "undated"}) \/ NoRow

\* A row that is longer than the writer's buffer may be cut in Write, whose error
\* AddUser returns; or the file cannot be opened.
AddUserFails ==
  /\ CutRow({"stub", "torn", "undated"}) \/ UNCHANGED <<file, open, lost>>
  /\ UNCHANGED <<id, lastID>>

\* NewCSVStorage, in an empty directory, or in one where the first start ended
\* before it had written the header, or all of it: without a line the number of
\* rows is -1.
Init ==
  /\ \/ file = <<"header">> /\ open \in BOOLEAN /\ lastID = 0
     \/ file \in {<<"stub">>, <<"torn">>} /\ open = TRUE /\ lastID = 0
     \/ file = <<>> /\ open = FALSE /\ lastID = -1
  /\ name = [u \in Users |-> NoName]
  /\ id = [u \in Users |-> NoID]
  /\ session = [u \in Users |-> NoID]
  /\ pc = [u \in Users |-> "idle"]
  /\ answered = {} /\ signedIn = {}
  /\ before = [u \in Users |-> {}]
  /\ lost = FALSE

-----------------------------------------------------------------------------
(* auth.service.                                                           *)

Goto(u, label) == pc' = [pc EXCEPT ![u] = label]

\* Register looks the name up; if it is taken the answer is 400, if the file cannot
\* be read it is 500, and the user may choose again.
Check(u, n) ==
  /\ pc[u] = "idle" /\ id[u] = NoID
  /\ Readable /\ ~Taken(n)
  /\ name' = [name EXCEPT ![u] = n]
  /\ before' = [before EXCEPT ![u] = answered]
  /\ Goto(u, "checked")
  /\ UNCHANGED <<storage, id, session, answered, signedIn>>

\* After bcrypt, AddUser; when it fails the answer is 500.
Add(u) ==
  /\ pc[u] = "checked"
  /\ \/ AddUser(u) /\ Goto(u, "added")
     \/ AddUserFails /\ Goto(u, "idle")
  /\ UNCHANGED <<name, session, answered, before, signedIn>>

\* The session is stored, its cookie is set.
Answer(u) ==
  /\ pc[u] = "added"
  /\ session' = [session EXCEPT ![u] = id[u]]
  /\ answered' = answered \cup {u}
  /\ Goto(u, "idle")
  /\ UNCHANGED <<storage, name, id, before, signedIn>>

\* Login compares the password with that of the first row with the name.
Login(u) ==
  /\ FoundByName(u, name[u])
  /\ session' = [session EXCEPT ![u] = id[u]]
  /\ signedIn' = signedIn \cup {u}
  /\ UNCHANGED <<storage, name, id, pc, answered, before>>

\* Logout, or the session expires.
Logout(u) ==
  /\ session' = [session EXCEPT ![u] = NoID]
  /\ UNCHANGED <<storage, name, id, pc, answered, before, signedIn>>

-----------------------------------------------------------------------------
\* Mutants of Restart: the rows are not counted; one line too few is.
RestartFromZero ==
  /\ lastID' = 0
  /\ session' = [u \in Users |-> NoID]
  /\ pc' = [u \in Users |-> "idle"]
  /\ UNCHANGED <<file, open, name, id, answered, before, signedIn, lost>>

RestartMinusOne ==
  /\ lastID' = Len(file) - 2
  /\ session' = [u \in Users |-> NoID]
  /\ pc' = [u \in Users |-> "idle"]
  /\ UNCHANGED <<file, open, name, id, answered, before, signedIn, lost>>

\* The server ends and starts again: countLinesWithoutHeader gives the last ID,
\* sessions and requests are gone.  When it cannot read the lines the server does
\* not start, and this is the only step left.
Restart ==
  /\ lastID' = IF FieldsAgree THEN Len(file) - 1 ELSE lastID
  /\ session' = [u \in Users |-> NoID]
  /\ pc' = [u \in Users |-> "idle"]
  /\ UNCHANGED <<file, open, name, id, answered, before, signedIn, lost>>

Next ==
  \/ \E u \in Users, n \in Names : Check(u, n)
  \/ \E u \in Users : Add(u) \/ Answer(u) \/ Login(u) \/ Logout(u)
  \/ Restart

Spec == Init /\ [][Next]_vars

-----------------------------------------------------------------------------
(* Properties.                                                             *)

\* IDs, which the rooms keep for their owners, are never given to two users,
\* in whatever order registrations and restarts come, with or without a header.
IDsDiffer == ~lost => \A u, v \in Users : id[u] = id[v] /\ u # v => id[u] = NoID

\* /auth/me finds under a session the user who registered or signed in with it,
\* or nobody (a row in the place of the header), and never another one.
MeIsMe ==
  ~lost => \A u, v \in Users : session[u] # NoID /\ FoundByID(v, session[u]) => v = u

\* "user already exists": a name is refused to everybody whose request comes
\* after the answer 201 to the one who took it, also after a restart.  Two users
\* have one name only when their registrations overlap, or when the row of the
\* first is in the place of the header.
NamesAreTaken ==
  ~lost => \A u \in Users : id[u] # NoID =>
             \A v \in before[u] : name[v] = name[u] => file[1] = v

\* Whoever has signed in with a name can do so whenever users.csv can be read:
\* overlapping registrations, failures, restarts and rows that are joined to the
\* rest of others never give the name to another or take one account alone away.
\* That the file cannot be read by anybody takes a row that was cut.
AccountsStay ==
  IF Readable THEN \A u \in signedIn : FoundByName(u, name[u]) ELSE lost
=============================================================================
