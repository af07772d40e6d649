---------------------------- MODULE LiveRoomsProofs ----------------------------
(***************************************************************************)
(* RoomHub implements LiveRooms: every step of the registry, of a hub or   *)
(* of a client is a step of the abstract specification, or changes nothing *)
(* it speaks of.  Each lemma is about one action of RoomHub.               *)
(***************************************************************************)
EXTENDS RoomHubProofs

\* life and place are functions, before a step and after it.
LEMMA AreFunctions ==
  /\ life = [h \in Hubs |-> life[h]] /\ life' = [h \in Hubs |-> life'[h]]
  /\ place = [c \in Clients |-> place[c]] /\ place' = [c \in Clients |-> place'[c]]
  BY DEF life, place

\* A hub goes on for the specification while its goroutine does.
LEMMA RunningIsRunning ==
  ASSUME TypeOK, NEW h \in Hubs
  PROVE  Live!Running(h) <=> Running(h)
  BY DEF TypeOK, Live!Running, Running, life

\* Who is inside a running hub is a member of it, and the other way round.
LEMMA InsideAreMembers ==
  ASSUME IInv, NEW h \in Hubs, Running(h)
  PROVE  Live!Inside(h) = members[h]
  <1>1. ASSUME NEW c \in Clients, place[c] = "inside", clientHub[c] = h
        PROVE  c \in members[h]
    BY <1>1 DEF place, IInv, Safe, NobodyForgotten
  <1>2. ASSUME NEW c \in members[h]
        PROVE  c \in Clients /\ place[c] = "inside" /\ clientHub[c] = h
    BY <1>2 DEF place, Joined, IInv, TypeOK, Safe, MembersAreConnected
  <1> QED
    BY <1>1, <1>2 DEF Live!Inside

-----------------------------------------------------------------------------
(* The registry.                                                           *)

\* Remove closes the room to newcomers, unless no hub is registered under it.
LEMMA RemoveCloses ==
  ASSUME IInv, NEW r \in Rooms, Remove(r), UNCHANGED <<hubRoom, clientPc, clientHub, sendClosed>>,
         \A g \in Hubs : /\ hubPc'[g] = "none" <=> hubPc[g] = "none"
                         /\ hubPc'[g] = "returned" <=> hubPc[g] = "returned"
  PROVE  Live!Close(r) \/ UNCHANGED Live!vars
  <1>1. place' = place
    BY DEF place, Joined
  <1>2. CASE registry[r] = NoHub
    <2>1. UNCHANGED <<registry, stopped>>
      BY <1>2 DEF Remove
    <2>2. life' = life
      BY <2>1 DEF life
    <2> QED
      BY <1>1, <2>1, <2>2 DEF Live!vars
  <1>3. CASE registry[r] # NoHub
    <2>1. registry' = [registry EXCEPT ![r] = NoHub]
      BY <1>3 DEF Remove
    <2>2. registry[r] \in Hubs /\ Running(registry[r])
      BY <1>3 DEF IInv, TypeOK, Safe, RegisteredIsRunning
    <2>3. \A g \in Hubs : stopped'[g] <=> (stopped[g] \/ registry[r] = g)
      BY RemoveFacts
    <2>4. \A g \in Hubs : life'[g] = IF g = registry[r] THEN "closed" ELSE life[g]
      BY <2>2, <2>3 DEF life, Running
    <2>5. life' = [life EXCEPT ![registry[r]] = "closed"]
      BY <2>2, <2>4, AreFunctions
    <2> QED
      BY <1>1, <1>3, <2>1, <2>5 DEF Live!Close
  <1> QED
    BY <1>2, <1>3

LEMMA DeleteRoomCloses ==
  ASSUME IInv, NEW r \in Rooms, DeleteRoom(r)
  PROVE  Live!Next \/ UNCHANGED Live!vars
  <1>1. Live!Close(r) \/ UNCHANGED Live!vars
    BY RemoveCloses DEF DeleteRoom, hubVars, clientVars, sendVars
  <1> QED
    BY <1>1 DEF Live!Next

LEMMA GetOrCreateIsArrive ==
  ASSUME IInv, NEW c \in Clients, NEW r \in Rooms, GetOrCreate(c, r)
  PROVE  Live!Arrive(c, r)
  <1>1. /\ clientPc[c] = "idle" /\ clientPc' = [clientPc EXCEPT ![c] = "upgrading"]
        /\ UNCHANGED <<stopped, sendClosed>>
    BY DEF GetOrCreate, sendVars
  <1>2. ~sendClosed[c]
    BY <1>1 DEF IInv, FreshChannel, Joined
  <1>3. \A d \in Clients : place'[d] = IF d = c THEN "arriving" ELSE place[d]
    BY <1>1, <1>2 DEF place, Joined, IInv, TypeOK
  <1>4. place[c] = "outside" /\ place' = [place EXCEPT ![c] = "arriving"]
    BY <1>1, <1>2, <1>3, AreFunctions DEF place, Joined
  <1>5. CASE registry[r] # NoHub
    <2>1. UNCHANGED <<registry, hubRoom, hubPc>> /\ clientHub' = [clientHub EXCEPT ![c] = registry[r]]
      BY <1>5 DEF GetOrCreate
    <2>2. life' = life
      BY <1>1, <2>1 DEF life
    <2> QED
      BY <1>4, <1>5, <2>1, <2>2 DEF Live!Arrive
  <1>6. CASE registry[r] = NoHub
    <2>1. PICK h \in Hubs : NewHub(h, r) /\ clientHub' = [clientHub EXCEPT ![c] = h]
      BY <1>6 DEF GetOrCreate
    <2>2. life[h] = "unused" /\ ~stopped[h]
      BY <2>1 DEF NewHub, life, IInv, Allocated
    <2>3. \A g \in Hubs : life'[g] = IF g = h THEN "open" ELSE life[g]
      BY <1>1, <2>1, <2>2 DEF NewHub, life, IInv, TypeOK
    <2>4. life' = [life EXCEPT ![h] = "open"]
      BY <2>3, AreFunctions
    <2> QED
      BY <1>4, <1>6, <2>1, <2>2, <2>4 DEF NewHub, Live!Arrive
  <1> QED
    BY <1>5, <1>6

-----------------------------------------------------------------------------
(* The goroutine of a hub.                                                 *)

LEMMA HubRegisterIsEnter ==
  ASSUME IInv, NEW h \in Hubs, NEW c \in Clients, HubRegister(h, c)
  PROVE  Live!Enter(c)
  <1>1. /\ hubPc[h] = "select" /\ clientPc[c] = "registering" /\ clientHub[c] = h
        /\ clientPc' = [clientPc EXCEPT ![c] = "reading"]
        /\ UNCHANGED <<registry, hubRoom, hubPc, stopped, clientHub, sendClosed>>
    BY DEF HubRegister
  <1>2. ~sendClosed[c]
    BY <1>1 DEF IInv, FreshChannel, Joined
  <1>3. life' = life
    BY <1>1 DEF life
  <1>4. \A d \in Clients : place'[d] = IF d = c THEN "inside" ELSE place[d]
    BY <1>1, <1>2 DEF place, Joined, IInv, TypeOK
  <1>5. place[c] = "arriving" /\ place' = [place EXCEPT ![c] = "inside"]
    BY <1>1, <1>2, <1>4, AreFunctions DEF place, Joined
  <1>6. Live!Running(clientHub[c])
    BY <1>1, RunningIsRunning DEF IInv, Running
  <1> QED
    BY <1>1, <1>3, <1>5, <1>6 DEF Live!Enter

\* Closing the channels of some members, and of nobody else, turns these out.
LEMMA HangUpIsTurnOut ==
  ASSUME IInv, NEW h \in Hubs, Running(h), NEW G, G \subseteq members[h],
         UNCHANGED <<registry, hubRoom, clientHub>>,
         \A g \in Hubs : life'[g] = life[g],
         \A c \in Clients : place'[c] = IF c \in G THEN "out" ELSE place[c]
  PROVE  Live!Next
  <1>1. Live!Running(h) /\ Live!Inside(h) = members[h]
    BY RunningIsRunning, InsideAreMembers DEF IInv
  <1>2. life' = life
    BY AreFunctions
  <1>3. place' = [c \in Clients |-> IF c \in G THEN "out" ELSE place[c]]
    BY AreFunctions
  <1>4. Live!TurnOut(h, G)
    BY <1>1, <1>2, <1>3 DEF Live!TurnOut
  <1>5. \E K \in SUBSET Live!Inside(h) : Live!TurnOut(h, K)
    BY <1>1, <1>4
  <1> QED
    BY <1>5 DEF Live!Next

LEMMA HubUnregisterIsTurnOut ==
  ASSUME IInv, NEW h \in Hubs, NEW c \in Clients, HubUnregister(h, c)
  PROVE  Live!Next
  <1>1. /\ hubPc[h] = "select" /\ clientPc[c] = "unregistering" /\ clientHub[c] = h
        /\ UNCHANGED <<registry, hubRoom, stopped, clientHub>>
    BY DEF HubUnregister
  <1>2. \A g \in Hubs : life'[g] = life[g]
    BY DEF HubUnregister, life, IInv, TypeOK
  <1>3. \A d \in Clients : place'[d] = IF d \in {c} \cap members[h] THEN "out" ELSE place[d]
    BY DEF HubUnregister, place, Joined, IInv, TypeOK
  <1> QED
    BY <1>1, <1>2, <1>3, HangUpIsTurnOut DEF Running

LEMMA HubEventIsTurnOut ==
  ASSUME IInv, NEW h \in Hubs, HubEvent(h)
  PROVE  Live!Next
  <1>1. /\ Running(h)
        /\ UNCHANGED <<registry, hubRoom, stopped, clientPc, clientHub>>
    BY DEF HubEvent, clientVars, Running
  <1>2. \A g \in Hubs : life'[g] = life[g]
    BY DEF HubEvent, life, IInv, TypeOK
  <1>3. ASSUME NEW R, R \subseteq members[h], SendAll(h, R)
        PROVE  Live!Next
    <2>1. Slow(R) \subseteq members[h]
      BY <1>3 DEF Slow
    <2>2. \A d \in Clients : sendClosed'[d] <=> (sendClosed[d] \/ d \in Slow(R))
      BY <1>3 DEF SendAll
    <2>3. \A d \in Clients : place'[d] = IF d \in Slow(R) THEN "out" ELSE place[d]
      BY <1>1, <2>2 DEF place, Joined
    <2> QED
      BY <1>1, <1>2, <2>1, <2>3, HangUpIsTurnOut
  <1>4. ASSUME UNCHANGED sendClosed
        PROVE  Live!Next
    <2>1. PICK G : G = {}
      OBVIOUS
    <2>2. \A d \in Clients : place'[d] = IF d \in G THEN "out" ELSE place[d]
      BY <1>1, <1>4, <2>1 DEF place, Joined
    <2>3. G \subseteq members[h]
      BY <2>1
    <2> QED
      BY <1>1, <1>2, <2>2, <2>3, HangUpIsTurnOut
  <1> QED
    BY <1>3, <1>4 DEF HubEvent, sendVars

LEMMA HubStopIsEnd ==
  ASSUME IInv, NEW h \in Hubs, HubStop(h)
  PROVE  Live!End(h)
  <1>1. /\ hubPc[h] = "select" /\ stopped[h] /\ Running(h)
        /\ hubPc' = [hubPc EXCEPT ![h] = "returned"]
        /\ sendClosed' = [c \in Clients |-> sendClosed[c] \/ c \in members[h]]
        /\ UNCHANGED <<registry, hubRoom, stopped, clientPc, clientHub>>
    BY DEF HubStop, clientVars, Running
  <1>2. \A g \in Hubs : life'[g] = IF g = h THEN "over" ELSE life[g]
    BY <1>1 DEF life, IInv, TypeOK
  <1>3. life[h] = "closed" /\ life' = [life EXCEPT ![h] = "over"]
    BY <1>1, <1>2, AreFunctions DEF life
  <1>4. \A c \in Clients : place'[c] = IF c \in members[h] THEN "out" ELSE place[c]
    BY <1>1 DEF place, Joined
  <1>5. place' = [c \in Clients |-> IF c \in Live!Inside(h) THEN "out" ELSE place[c]]
    BY <1>1, <1>4, AreFunctions, InsideAreMembers
  <1> QED
    BY <1>1, <1>3, <1>5 DEF Live!End

LEMMA HubRemoveSelfEndsOrCloses ==
  ASSUME IInv, NEW h \in Hubs, HubRemoveSelf(h)
  PROVE  Live!Next \/ UNCHANGED Live!vars
  <1>1. /\ Running(h) /\ hubRoom[h] \in Rooms /\ Remove(hubRoom[h])
        /\ UNCHANGED <<hubRoom, clientPc, clientHub, sendClosed>>
    BY DEF HubRemoveSelf, clientVars, sendVars, Running, IInv, Allocated
  <1>2. CASE hubPc[h] = "emptied"
    <2>1. \A g \in Hubs : /\ hubPc'[g] = "none" <=> hubPc[g] = "none"
                          /\ hubPc'[g] = "returned" <=> hubPc[g] = "returned"
      BY <1>2 DEF HubRemoveSelf, IInv, TypeOK
    <2>2. Live!Close(hubRoom[h]) \/ UNCHANGED Live!vars
      BY <1>1, <2>1, RemoveCloses
    <2> QED
      BY <1>1, <2>2 DEF Live!Next
  <1>3. CASE hubPc[h] = "leaving"
    <2>1. Live!Running(h) /\ Live!Inside(h) = {}
      BY <1>1, <1>3, RunningIsRunning, InsideAreMembers DEF IInv, LeavingIsEmpty
    <2>2. registry' = [registry EXCEPT ![hubRoom[h]] = NoHub]
      BY <1>1, RemoveFacts DEF IInv, TypeOK
    <2>3. \A g \in Hubs : stopped'[g] <=> (stopped[g] \/ registry[hubRoom[h]] = g)
      BY <1>1, RemoveFacts
    <2>4. \A g \in Hubs : hubPc'[g] = IF g = h THEN "returned" ELSE hubPc[g]
      BY <1>3 DEF HubRemoveSelf, IInv, TypeOK
    <2>5. \A g \in Hubs : g = registry[hubRoom[h]] => Running(g)
      BY <1>1, ConstantsAssumption DEF IInv, Safe, RegisteredIsRunning
    <2>6. \A g \in Hubs : life'[g] = IF g = h THEN "over"
                                     ELSE IF g = registry[hubRoom[h]] THEN "closed" ELSE life[g]
      BY <2>3, <2>4, <2>5 DEF life, Running
    <2>7. life' = [g \in Hubs |-> IF g = h THEN "over"
                                  ELSE IF g = registry[hubRoom[h]] THEN "closed" ELSE life[g]]
      BY <2>6, AreFunctions
    <2>8. place' = place
      BY <1>1 DEF place, Joined
    <2>9. Live!EndEmpty(h)
      BY <1>1, <2>1, <2>2, <2>7, <2>8 DEF Live!EndEmpty
    <2> QED
      BY <2>9 DEF Live!Next
  <1> QED
    BY <1>2, <1>3 DEF HubRemoveSelf

-----------------------------------------------------------------------------
(* The clients.                                                            *)

\* The goroutines of a client, and events, do not show: a client that reads, pushes
\* or has left is where it was, until its hub has heard of it.
LEMMA ClientStutters ==
  ASSUME IInv, NEW c \in Clients,
         \/ Upgrade(c) \/ PeerGone(c) \/ \E k \in Kinds : ReaderRead(c, k)
         \/ ReaderPush(c) \/ ReaderEnd(c) \/ ReaderClose(c)
         \/ WriterSend(c) \/ WriterEnd(c)
  PROVE  UNCHANGED Live!vars
  <1> USE DEF hubVars, clientVars, sendVars
  <1>1. UNCHANGED <<registry, hubRoom, hubPc, stopped, clientHub, sendClosed>>
    BY DEF Upgrade, PeerGone, ReaderRead, ReaderPush, ReaderEnd, ReaderClose, WriterSend, WriterEnd
  <1>2. life' = life
    BY <1>1 DEF life
  <1>3. \A d \in Clients : (Joined(d)' <=> Joined(d)) /\ (clientPc'[d] = "idle" <=> clientPc[d] = "idle")
    <2>1. CASE UNCHANGED clientPc
      BY <2>1 DEF Joined
    <2>2. CASE Upgrade(c)
      BY <2>2 DEF Upgrade, Joined, IInv, TypeOK
    <2>3. CASE (\E k \in Kinds : ReaderRead(c, k)) \/ ReaderPush(c) \/ ReaderEnd(c) \/ ReaderClose(c)
      BY <2>3 DEF ReaderRead, ReaderPush, ReaderEnd, ReaderClose, Joined, IInv, TypeOK
    <2> QED
      BY <2>1, <2>2, <2>3 DEF PeerGone, WriterSend, WriterEnd
  <1>4. \A d \in Clients : place'[d] = place[d]
    BY <1>1, <1>3 DEF place
  <1>5. place' = place
    BY <1>4, AreFunctions
  <1> QED
    BY <1>1, <1>2, <1>5 DEF Live!vars

-----------------------------------------------------------------------------
LEMMA InitSimulates == Init => Live!Init
  BY DEF Init, Live!Init, life, place, Joined

LEMMA StepSimulates == IInv /\ [Next]_vars => [Live!Next]_(Live!vars)
  <1> SUFFICES ASSUME IInv, [Next]_vars PROVE Live!Next \/ UNCHANGED Live!vars
    OBVIOUS
  <1>1. ASSUME NEW r \in Rooms, BroadcastSourceChanged(r)
        PROVE  UNCHANGED Live!vars
    BY <1>1 DEF BroadcastSourceChanged, clientVars, sendVars, Live!vars, life, place, Joined
  <1>2. ASSUME NEW c \in Clients, NEW r \in Rooms, GetOrCreate(c, r)
        PROVE  Live!Next
    BY <1>2, GetOrCreateIsArrive DEF Live!Next
  <1>3. ASSUME NEW h \in Hubs, NEW c \in Clients, HubRegister(h, c)
        PROVE  Live!Next
    BY <1>3, HubRegisterIsEnter DEF Live!Next
  <1>4. ASSUME NEW h \in Hubs, HubStop(h)
        PROVE  Live!Next
    BY <1>4, HubStopIsEnd DEF Live!Next
  <1>5. CASE UNCHANGED vars
    BY <1>5 DEF vars, Live!vars, life, place, Joined
  <1>6. CASE Next
    BY <1>6, <1>1, <1>2, <1>3, <1>4, DeleteRoomCloses, HubUnregisterIsTurnOut,
       HubEventIsTurnOut, HubRemoveSelfEndsOrCloses, ClientStutters DEF Next
  <1> QED
    BY <1>5, <1>6

\* The registry, the hubs and the clients are rooms with one session at a time: a
\* session is opened, closed to newcomers and ended once; who came in is turned out
\* once, at the latest by its end, and never returns to a session that is over.
THEOREM RoomHubIsLiveRooms == Spec => IsLiveRooms
  BY InitSimulates, StepSimulates, Invariance, PTL DEF Spec, IsLiveRooms, Live!Spec

-----------------------------------------------------------------------------
(* What follows from it for hubs and clients.                              *)

\* Newcomers are shown to open sessions only.
LEMMA SessionsAreOpen ==
  ASSUME IInv, NEW r \in Rooms, registry[r] # NoHub
  PROVE  registry[r] \in Hubs /\ life[registry[r]] = "open"
  <1>1. registry[r] \in Hubs /\ Running(registry[r])
    BY DEF IInv, TypeOK, Safe, RegisteredIsRunning
  <1>2. ~stopped[registry[r]]
    BY <1>1 DEF Running, IInv, Safe, RegisteredIffOpen
  <1> QED
    BY <1>1, <1>2 DEF life, Running

\* The four stages of a session, and of a guest, in their order.
Stage(l) == CASE l = "unused" -> 0 [] l = "open" -> 1 [] l = "closed" -> 2 [] OTHER -> 3
Progress(p) == CASE p = "outside" -> 0 [] p = "arriving" -> 1 [] p = "inside" -> 2 [] OTHER -> 3

\* Hubs and connections go through their stages in one direction.
Forward ==
  [][/\ \A h \in Hubs : Stage(life[h]) <= Stage(life'[h])
     /\ \A c \in Clients : Progress(place[c]) <= Progress(place'[c])]_vars

LEMMA LiveStepIsForward ==
  ASSUME IInv, Live!Next
  PROVE  /\ \A h \in Hubs : Stage(life[h]) <= Stage(life'[h])
         /\ \A c \in Clients : Progress(place[c]) <= Progress(place'[c])
  <1> USE DEF Stage, Progress
  <1>1. ASSUME NEW h \in Hubs, NEW G \in SUBSET Live!Inside(h), Live!TurnOut(h, G)
        PROVE  /\ \A g \in Hubs : Stage(life[g]) <= Stage(life'[g])
               /\ \A c \in Clients : Progress(place[c]) <= Progress(place'[c])
    <2>1. life' = life /\ \A c \in Clients : place'[c] = place[c] \/ place'[c] = "out"
      BY <1>1 DEF Live!TurnOut
    <2> QED
      BY <2>1
  <1>2. ASSUME NEW h \in Hubs, Live!End(h)
        PROVE  /\ \A g \in Hubs : Stage(life[g]) <= Stage(life'[g])
               /\ \A c \in Clients : Progress(place[c]) <= Progress(place'[c])
    <2>1. /\ \A g \in Hubs : life'[g] = life[g] \/ life'[g] = "over"
          /\ \A c \in Clients : place'[c] = place[c] \/ place'[c] = "out"
      BY <1>2, AreFunctions DEF Live!End
    <2> QED
      BY <2>1
  <1>3. ASSUME NEW h \in Hubs, Live!EndEmpty(h)
        PROVE  /\ \A g \in Hubs : Stage(life[g]) <= Stage(life'[g])
               /\ \A c \in Clients : Progress(place[c]) <= Progress(place'[c])
    <2>1. hubRoom[h] \in Rooms
      BY <1>3, RunningIsRunning DEF Live!EndEmpty, IInv, Allocated, Running
    <2>2. \A g \in Hubs : g = registry[hubRoom[h]] => life[g] = "open"
      BY <2>1, SessionsAreOpen, ConstantsAssumption
    <2>3. /\ place' = place
          /\ \A g \in Hubs : \/ life'[g] = life[g] \/ life'[g] = "over"
                             \/ g = registry[hubRoom[h]] /\ life'[g] = "closed"
      BY <1>3 DEF Live!EndEmpty
    <2> QED
      BY <2>2, <2>3
  <1>4. ASSUME NEW r \in Rooms, Live!Close(r)
        PROVE  /\ \A g \in Hubs : Stage(life[g]) <= Stage(life'[g])
               /\ \A c \in Clients : Progress(place[c]) <= Progress(place'[c])
    <2>1. registry[r] \in Hubs /\ life[registry[r]] = "open"
      BY <1>4, SessionsAreOpen DEF Live!Close
    <2>2. /\ place' = place
          /\ \A g \in Hubs : life'[g] = IF g = registry[r] THEN "closed" ELSE life[g]
      BY <1>4, <2>1, AreFunctions DEF Live!Close
    <2> QED
      BY <2>1, <2>2
  <1>5. ASSUME NEW c \in Clients, Live!Enter(c)
        PROVE  /\ \A g \in Hubs : Stage(life[g]) <= Stage(life'[g])
               /\ \A d \in Clients : Progress(place[d]) <= Progress(place'[d])
    <2>1. /\ life' = life /\ place[c] = "arriving"
          /\ \A d \in Clients : place'[d] = IF d = c THEN "inside" ELSE place[d]
      BY <1>5, AreFunctions DEF Live!Enter
    <2> QED
      BY <2>1
  <1>6. ASSUME NEW c \in Clients, NEW r \in Rooms, Live!Arrive(c, r)
        PROVE  /\ \A g \in Hubs : Stage(life[g]) <= Stage(life'[g])
               /\ \A d \in Clients : Progress(place[d]) <= Progress(place'[d])
    <2>1. /\ place[c] = "outside"
          /\ \A d \in Clients : place'[d] = IF d = c THEN "arriving" ELSE place[d]
      BY <1>6, AreFunctions DEF Live!Arrive
    <2>2. \A g \in Hubs : life'[g] = life[g] \/ (life[g] = "unused" /\ life'[g] = "open")
      BY <1>6, AreFunctions DEF Live!Arrive
    <2> QED
      BY <2>1, <2>2
  <1> QED
    BY <1>1, <1>2, <1>3, <1>4, <1>5, <1>6 DEF Live!Next

\* A hub that was closed is not opened again, nor one that has returned started again,
\* and a client that was hung up on is never let in again, whatever step is taken.
THEOREM NobodyComesBack == Spec => Forward
  <1> DEFINE Onward == /\ \A h \in Hubs : Stage(life[h]) <= Stage(life'[h])
                      /\ \A c \in Clients : Progress(place[c]) <= Progress(place'[c])
  <1>1. IInv /\ [Next]_vars => [Onward]_vars
    <2> SUFFICES ASSUME IInv, Next PROVE Onward
      OBVIOUS
    <2>1. CASE Live!Next
      BY <2>1, LiveStepIsForward
    <2>2. CASE UNCHANGED Live!vars
      BY <2>2 DEF Live!vars, Stage, Progress
    <2> QED
      BY <2>1, <2>2, StepSimulates
  <1> QED
    BY <1>1, Invariance, PTL DEF Spec, Forward, Onward

=============================================================================
