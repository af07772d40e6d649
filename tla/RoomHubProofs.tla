---------------------------- MODULE RoomHubProofs ----------------------------
(***************************************************************************)
(* Theorems about RoomHub, for every set of rooms, hubs and clients and    *)
(* every size of the buffers.                                              *)
(***************************************************************************)
EXTENDS RoomHub, TLAPS

\* What a hub that is not allocated, and one that is, looks like.
Allocated ==
  \A h \in Hubs : IF hubPc[h] = "none" THEN ~stopped[h] /\ members[h] = {}
                                       ELSE hubRoom[h] \in Rooms

\* unregister leaves the select for good only with nobody in the hub.
LeavingIsEmpty == \A h \in Hubs : hubPc[h] = "leaving" => members[h] = {}

\* A request that got past GetOrCreate holds an allocated hub.
HoldsHub ==
  \A c \in Clients : clientPc[c] # "idle" =>
    clientHub[c] \in Hubs /\ hubPc[clientHub[c]] # "none"

\* The send channel of a client the hub has not received is empty and open.
FreshChannel == \A c \in Clients : ~Joined(c) => sendLen[c] = 0 /\ ~sendClosed[c]

Safe == NoPanic /\ RegisteredIffOpen /\ RegisteredIsRunning /\ NobodyForgotten
          /\ MembersAreConnected

IInv == TypeOK /\ Safe /\ Allocated /\ LeavingIsEmpty /\ HoldsHub /\ FreshChannel

-----------------------------------------------------------------------------
\* The initial state satisfies the invariant.
LEMMA InitInductive == Init => IInv
  <1> SUFFICES ASSUME Init PROVE IInv
    OBVIOUS
  <1>1. TypeOK
    <2>1. <<>> \in Seq(Events)
      OBVIOUS
    <2>2. 0 \in 0 .. SendBuf /\ 0 \in 0 .. MaxEvents
      BY ConstantsAssumption
    <2> QED
      BY <2>1, <2>2 DEF Init, TypeOK, Kinds
  <1>2. Safe
    BY ConstantsAssumption DEF Init, Safe, NoPanic, RegisteredIffOpen, RegisteredIsRunning,
         NobodyForgotten, MembersAreConnected, Running, Joined
  <1>3. Allocated /\ LeavingIsEmpty /\ HoldsHub /\ FreshChannel
    BY DEF Init, Allocated, LeavingIsEmpty, HoldsHub, FreshChannel, Joined
  <1> QED
    BY <1>1, <1>2, <1>3 DEF IInv

\* Upgrade, the pumps and the network leave the registry, the members and the
\* channels' ends alone.
LEMMA ClientInductive ==
  ASSUME IInv, NEW c \in Clients,
         \/ Upgrade(c) \/ PeerGone(c) \/ \E k \in Kinds : ReaderRead(c, k)
         \/ ReaderPush(c) \/ ReaderEnd(c) \/ ReaderClose(c)
         \/ WriterSend(c) \/ WriterEnd(c)
  PROVE  IInv'
  <1> USE ConstantsAssumption DEF hubVars, clientVars, sendVars
  <1>1. CASE Upgrade(c)
    <2>1. TypeOK'
      BY <1>1 DEF Upgrade, IInv, TypeOK
    <2>2. /\ \A d \in Clients : (Joined(d) <=> Joined(d)') /\ (clientPc[d] = "idle" <=> clientPc'[d] = "idle")
          /\ \A d \in Clients : clientPc[d] \in {"reading", "pushing", "unregistering"} => clientPc'[d] = clientPc[d]
      BY <1>1 DEF Upgrade, IInv, TypeOK, Joined
    <2> QED
      BY <1>1, <2>1, <2>2 DEF Upgrade, IInv, TypeOK, Safe, NoPanic, RegisteredIffOpen,
           RegisteredIsRunning, NobodyForgotten, MembersAreConnected, Running,
           Allocated, LeavingIsEmpty, HoldsHub, FreshChannel
  <1>2. CASE PeerGone(c)
    BY <1>2 DEF PeerGone, IInv, TypeOK, Safe, NoPanic, RegisteredIffOpen,
         RegisteredIsRunning, NobodyForgotten, MembersAreConnected, Running, Joined,
         Allocated, LeavingIsEmpty, HoldsHub, FreshChannel
  <1>3. CASE \E k \in Kinds : ReaderRead(c, k)
    BY <1>3 DEF ReaderRead, IInv, TypeOK, Safe, NoPanic, RegisteredIffOpen,
         RegisteredIsRunning, NobodyForgotten, MembersAreConnected, Running, Joined,
         Allocated, LeavingIsEmpty, HoldsHub, FreshChannel
  <1>4. CASE ReaderPush(c)
    <2>1. [kind |-> pending[c], sender |-> c] \in Events /\ clientHub[c] \in Hubs
      BY <1>4 DEF ReaderPush, IInv, TypeOK, Events, HoldsHub
    <2>2. incoming' \in [Hubs -> Seq(Events)]
      BY <1>4, <2>1 DEF ReaderPush, IInv, TypeOK
    <2>3. TypeOK'
      BY <1>4, <2>2 DEF ReaderPush, IInv, TypeOK, Kinds
    <2> QED
      BY <1>4, <2>3 DEF ReaderPush, IInv, Safe, NoPanic, RegisteredIffOpen,
           RegisteredIsRunning, NobodyForgotten, MembersAreConnected, Running, Joined,
           Allocated, LeavingIsEmpty, HoldsHub, FreshChannel
  <1>5. CASE ReaderEnd(c)
    BY <1>5 DEF ReaderEnd, IInv, TypeOK, Safe, NoPanic, RegisteredIffOpen,
         RegisteredIsRunning, NobodyForgotten, MembersAreConnected, Running, Joined,
         Allocated, LeavingIsEmpty, HoldsHub, FreshChannel
  <1>6. CASE ReaderClose(c)
    BY <1>6 DEF ReaderClose, IInv, TypeOK, Safe, NoPanic, RegisteredIffOpen,
         RegisteredIsRunning, NobodyForgotten, MembersAreConnected, Running, Joined,
         Allocated, LeavingIsEmpty, HoldsHub, FreshChannel
  <1>7. CASE WriterSend(c)
    BY <1>7 DEF WriterSend, IInv, TypeOK, Safe, NoPanic, RegisteredIffOpen,
         RegisteredIsRunning, NobodyForgotten, MembersAreConnected, Running, Joined,
         Allocated, LeavingIsEmpty, HoldsHub, FreshChannel
  <1>8. CASE WriterEnd(c)
    BY <1>8 DEF WriterEnd, IInv, TypeOK, Safe, NoPanic, RegisteredIffOpen,
         RegisteredIsRunning, NobodyForgotten, MembersAreConnected, Running, Joined,
         Allocated, LeavingIsEmpty, HoldsHub, FreshChannel
  <1> QED
    BY <1>1, <1>2, <1>3, <1>4, <1>5, <1>6, <1>7, <1>8

\* What Remove does, registry entry by entry and hub by hub: the hub it closes
\* had not been closed before.
LEMMA RemoveFacts ==
  ASSUME IInv, NEW r \in Rooms, Remove(r)
  PROVE  /\ registry' \in [Rooms -> Hubs \cup {NoHub}]
         /\ stopped' \in [Hubs -> BOOLEAN]
         /\ panicked' = panicked
         /\ \A q \in Rooms : registry'[q] = IF q = r THEN NoHub ELSE registry[q]
         /\ \A g \in Hubs : stopped'[g] <=> (stopped[g] \/ registry[r] = g)
  <1>1. CASE registry[r] = NoHub
    BY <1>1, ConstantsAssumption DEF Remove, IInv, TypeOK
  <1>2. CASE registry[r] # NoHub
    <2>1. registry[r] \in Hubs /\ ~stopped[registry[r]]
      <3>1. registry[r] \in Hubs
        BY <1>2 DEF IInv, TypeOK
      <3>2. hubPc[registry[r]] # "none"
        BY <1>2 DEF IInv, Safe, RegisteredIsRunning, Running
      <3> QED
        BY <3>1, <3>2 DEF IInv, Safe, RegisteredIffOpen
    <2> QED
      BY <1>2, <2>1 DEF Remove, IInv, TypeOK
  <1> QED
    BY <1>1, <1>2

\* After Remove(r) the hubs still registered are those that are open.
LEMMA RemoveInductive ==
  ASSUME IInv, NEW r \in Rooms, Remove(r), UNCHANGED hubRoom,
         \A g \in Hubs : hubPc'[g] = "none" <=> hubPc[g] = "none"
  PROVE  RegisteredIffOpen'
  <1>1. \A g \in Hubs : hubPc[g] # "none" =>
          /\ stopped[g] <=> registry[hubRoom[g]] # g
          /\ \A q \in Rooms : registry[q] = g => q = hubRoom[g]
          /\ hubRoom[g] \in Rooms
    BY DEF IInv, Safe, RegisteredIffOpen, Allocated
  <1> QED
    BY <1>1, RemoveFacts, ConstantsAssumption DEF RegisteredIffOpen

\* The registry, changed by handlers of HTTP requests.
LEMMA DeleteRoomInductive ==
  ASSUME IInv, NEW r \in Rooms, DeleteRoom(r)
  PROVE  IInv'
  <1> USE DEF DeleteRoom, hubVars, clientVars, sendVars
  <1>1. /\ registry' \in [Rooms -> Hubs \cup {NoHub}]
        /\ stopped' \in [Hubs -> BOOLEAN]
        /\ panicked' = panicked
        /\ \A q \in Rooms : registry'[q] = NoHub \/ registry'[q] = registry[q]
        /\ \A g \in Hubs : hubPc[g] = "none" => registry[r] # g
        /\ \A g \in Hubs : stopped'[g] <=> (stopped[g] \/ registry[r] = g)
    BY RemoveFacts, ConstantsAssumption DEF IInv, Safe, RegisteredIsRunning, Running
  <1>2. TypeOK'
    BY <1>1 DEF IInv, TypeOK
  <1>3. RegisteredIffOpen'
    BY RemoveInductive
  <1>4. Allocated' /\ LeavingIsEmpty'
    BY <1>1 DEF IInv, Allocated, LeavingIsEmpty
  <1>5. NoPanic' /\ RegisteredIsRunning' /\ NobodyForgotten' /\ MembersAreConnected'
    BY <1>1 DEF IInv, Safe, NoPanic, RegisteredIsRunning, NobodyForgotten,
         MembersAreConnected, Running, Joined
  <1> QED
    BY <1>2, <1>3, <1>4, <1>5 DEF IInv, Safe, HoldsHub, FreshChannel, Joined

LEMMA BroadcastSourceChangedInductive ==
  ASSUME IInv, NEW r \in Rooms, BroadcastSourceChanged(r)
  PROVE  IInv'
  <1> USE DEF BroadcastSourceChanged, clientVars, sendVars
  <1>1. [kind |-> "state", sender |-> NoClient] \in Events /\ registry[r] \in Hubs
    BY DEF IInv, TypeOK, Events, Kinds
  <1>2. incoming' \in [Hubs -> Seq(Events)] /\ events' \in 0 .. MaxEvents
    BY <1>1, ConstantsAssumption DEF IInv, TypeOK
  <1>3. TypeOK'
    BY <1>2 DEF IInv, TypeOK
  <1> QED
    BY <1>3 DEF IInv, Safe, NoPanic, RegisteredIffOpen, RegisteredIsRunning,
         NobodyForgotten, MembersAreConnected, Running, Joined, Allocated,
         LeavingIsEmpty, HoldsHub, FreshChannel

LEMMA GetOrCreateInductive ==
  ASSUME IInv, NEW r \in Rooms, NEW c \in Clients, GetOrCreate(c, r)
  PROVE  IInv'
  <1>1. PICK g \in Hubs : clientHub' = [clientHub EXCEPT ![c] = g] /\ hubPc'[g] # "none"
    <2>1. CASE registry[r] # NoHub
      <3>1. registry[r] \in Hubs
        BY <2>1 DEF IInv, TypeOK
      <3>2. hubPc[registry[r]] # "none"
        BY <2>1 DEF IInv, Safe, RegisteredIsRunning, Running
      <3>3. UNCHANGED hubPc /\ clientHub' = [clientHub EXCEPT ![c] = registry[r]]
        BY <2>1 DEF GetOrCreate
      <3> QED
        BY <3>1, <3>2, <3>3
    <2>2. CASE registry[r] = NoHub
      BY <2>2 DEF GetOrCreate, NewHub, IInv, TypeOK
    <2> QED
      BY <2>1, <2>2
  <1>2. /\ clientPc[c] = "idle"
        /\ clientPc' = [clientPc EXCEPT ![c] = "upgrading"]
        /\ UNCHANGED <<deleted, stopped, members, incoming, pending, sendLen, sendClosed,
                       writerUp, readable, panicked, events>>
    BY DEF GetOrCreate, sendVars
  <1>3. /\ \A d \in Clients : Joined(d)' => Joined(d) /\ clientHub'[d] = clientHub[d]
        /\ \A d \in Clients : Joined(d) => clientPc'[d] = clientPc[d] /\ Joined(d)'
        /\ ~Joined(c)
    BY <1>1, <1>2 DEF IInv, TypeOK, Joined
  <1>4. FreshChannel'
    BY <1>2, <1>3 DEF IInv, FreshChannel
  <1>5. CASE registry[r] # NoHub
    <2>1. UNCHANGED <<registry, hubRoom, hubPc>>
      BY <1>5 DEF GetOrCreate
    <2>2. TypeOK' /\ HoldsHub'
      BY <1>1, <1>2, <2>1 DEF IInv, TypeOK, HoldsHub
    <2>3. NobodyForgotten'
      BY <1>2, <1>3, <2>1 DEF IInv, Safe, NobodyForgotten, Running
    <2>4. MembersAreConnected'
      BY <1>2, <1>3, <2>1 DEF IInv, TypeOK, Safe, MembersAreConnected, Running, Joined
    <2> QED
      BY <1>2, <1>4, <2>1, <2>2, <2>3, <2>4 DEF IInv, Safe, NoPanic, RegisteredIffOpen,
           RegisteredIsRunning, Running, Allocated, LeavingIsEmpty
  <1>6. CASE registry[r] = NoHub
    <2>1. PICK h \in Hubs : NewHub(h, r)
      BY <1>6 DEF GetOrCreate
    <2>2. /\ registry' = [registry EXCEPT ![r] = h]
          /\ hubRoom' = [hubRoom EXCEPT ![h] = r]
          /\ hubPc' = [hubPc EXCEPT ![h] = "select"]
          /\ ~stopped[h] /\ members[h] = {} /\ hubPc[h] = "none"
          /\ \A q \in Rooms : registry[q] # h
      BY <2>1, ConstantsAssumption DEF NewHub, IInv, Allocated, Safe, RegisteredIsRunning,
           Running
    <2>3. TypeOK'
      BY <1>1, <1>2, <2>2 DEF IInv, TypeOK
    <2>4. RegisteredIffOpen'
      <3>1. /\ registry' = [registry EXCEPT ![r] = h] /\ registry \in [Rooms -> Hubs \cup {NoHub}]
            /\ hubRoom' = [hubRoom EXCEPT ![h] = r] /\ hubRoom \in [Hubs -> Rooms \cup {NoRoom}]
            /\ hubPc' = [hubPc EXCEPT ![h] = "select"] /\ DOMAIN hubPc = Hubs
            /\ stopped' = stopped
        BY <1>2, <2>2 DEF IInv, TypeOK
      <3>2. \A f \in Hubs : hubPc[f] # "none" =>
              /\ stopped[f] <=> registry[hubRoom[f]] # f
              /\ \A q \in Rooms : registry[q] = f => q = hubRoom[f]
              /\ hubRoom[f] \in Rooms
        BY DEF IInv, Safe, RegisteredIffOpen, Allocated
      <3> QED
        BY <1>6, <2>2, <3>1, <3>2, ConstantsAssumption DEF RegisteredIffOpen
    <2>5. RegisteredIsRunning'
      BY <2>2 DEF IInv, TypeOK, Safe, RegisteredIsRunning, Running
    <2>6. NobodyForgotten'
      BY <1>2, <1>3, <2>2 DEF IInv, TypeOK, Safe, NobodyForgotten, Running
    <2>7. MembersAreConnected'
      BY <1>2, <1>3, <2>2 DEF IInv, TypeOK, Safe, MembersAreConnected, Running, Joined
    <2>8. Allocated' /\ LeavingIsEmpty'
      BY <1>2, <2>2 DEF IInv, TypeOK, Allocated, LeavingIsEmpty
    <2>9. HoldsHub'
      BY <1>1, <1>2, <2>2 DEF IInv, TypeOK, HoldsHub
    <2> QED
      BY <1>2, <1>4, <2>3, <2>4, <2>5, <2>6, <2>7, <2>8, <2>9 DEF IInv, Safe, NoPanic
  <1> QED
    BY <1>5, <1>6

\* The goroutine of a hub.
LEMMA HubStopInductive ==
  ASSUME IInv, NEW h \in Hubs, HubStop(h)
  PROVE  IInv'
  <1> USE DEF HubStop, clientVars
  <1>1. \A c \in members[h] : c \in Clients /\ ~sendClosed[c] /\ Joined(c)
    BY DEF IInv, TypeOK, Safe, MembersAreConnected, Running, Joined
  <1>2. /\ panicked' = panicked
        /\ \A c \in Clients : sendClosed'[c] <=> (sendClosed[c] \/ c \in members[h])
        /\ sendClosed' \in [Clients -> BOOLEAN]
        /\ hubPc' = [hubPc EXCEPT ![h] = "returned"]
        /\ hubPc \in [Hubs -> {"none", "select", "leaving", "emptied", "returned"}]
    BY <1>1 DEF IInv, TypeOK
  <1>3. TypeOK'
    BY <1>2 DEF IInv, TypeOK
  <1>4. RegisteredIffOpen' /\ Allocated' /\ LeavingIsEmpty' /\ HoldsHub'
    BY <1>2 DEF IInv, Safe, RegisteredIffOpen, Allocated, LeavingIsEmpty, HoldsHub
  <1>5. RegisteredIsRunning'
    <2>1. \A r \in Rooms : registry[r] # h
      BY DEF IInv, Safe, RegisteredIffOpen
    <2> QED
      BY <1>2, <2>1 DEF IInv, Safe, RegisteredIsRunning, Running, TypeOK
  <1>6. NobodyForgotten'
    BY <1>2 DEF IInv, Safe, NobodyForgotten, Running, Joined
  <1>7. MembersAreConnected'
    <2> SUFFICES ASSUME NEW g \in Hubs, Running(g)', NEW c \in members'[g]
                 PROVE  /\ clientHub'[c] = g /\ ~sendClosed'[c]
                        /\ clientPc'[c] \in {"reading", "pushing", "unregistering"}
      BY DEF MembersAreConnected
    <2>1. g # h /\ Running(g) /\ c \in members[g] /\ c \in Clients
      BY <1>2 DEF Running, IInv, TypeOK
    <2>2. clientHub[c] = g /\ c \notin members[h] /\ ~sendClosed[c]
      BY <2>1 DEF IInv, Safe, MembersAreConnected, Running
    <2> QED
      BY <1>2, <2>1, <2>2 DEF IInv, Safe, MembersAreConnected
  <1>8. FreshChannel'
    BY <1>1, <1>2 DEF IInv, FreshChannel, Joined
  <1> QED
    BY <1>2, <1>3, <1>4, <1>5, <1>6, <1>7, <1>8 DEF IInv, Safe, NoPanic

LEMMA HubRegisterInductive ==
  ASSUME IInv, NEW h \in Hubs, NEW c \in Clients, HubRegister(h, c)
  PROVE  IInv'
  <1> USE DEF HubRegister
  <1>1. sendLen[c] = 0 /\ ~sendClosed[c] /\ panicked' = panicked
    BY DEF IInv, TypeOK, FreshChannel, Joined
  <1>2. \A g \in Hubs : Running(g) => c \notin members[g]
    BY DEF IInv, Safe, MembersAreConnected
  <1>3. TypeOK'
    <2>1. sendLen' \in [Clients -> 0 .. SendBuf]
      BY <1>1, ConstantsAssumption DEF IInv, TypeOK
    <2> QED
      BY <1>1, <2>1 DEF IInv, TypeOK
  <1>4. \A d \in Clients : (Joined(d)' <=> Joined(d) \/ d = c) /\ (d # c => clientPc'[d] = clientPc[d])
    BY DEF IInv, TypeOK, Joined
  <1>5. NobodyForgotten'
    BY <1>4 DEF IInv, TypeOK, Safe, NobodyForgotten, Running
  <1>6. MembersAreConnected'
    BY <1>1, <1>2, <1>4 DEF IInv, TypeOK, Safe, MembersAreConnected, Running
  <1>7. Allocated' /\ LeavingIsEmpty' /\ HoldsHub'
    BY DEF IInv, TypeOK, Allocated, LeavingIsEmpty, HoldsHub
  <1>8. FreshChannel'
    BY <1>1, <1>4 DEF IInv, TypeOK, FreshChannel
  <1> QED
    BY <1>1, <1>3, <1>5, <1>6, <1>7, <1>8 DEF IInv, Safe, NoPanic, RegisteredIffOpen,
         RegisteredIsRunning, Running

LEMMA HubUnregisterInductive ==
  ASSUME IInv, NEW h \in Hubs, NEW c \in Clients, HubUnregister(h, c)
  PROVE  IInv'
  <1> USE DEF HubUnregister
  <1>1. /\ panicked' = panicked
        /\ \A g \in Hubs : members'[g] = IF g = h THEN members[h] \ {c} ELSE members[g]
        /\ \A d \in Clients : sendClosed'[d] <=> (sendClosed[d] \/ (d = c /\ c \in members[h]))
        /\ \A d \in Clients : d # c => clientPc'[d] = clientPc[d]
        /\ \A d \in Clients : (Joined(d)' <=> Joined(d)) /\ (clientPc'[d] = "idle" <=> clientPc[d] = "idle")
        /\ clientPc'[c] = "closing"
    <2>1. c \in members[h] => ~sendClosed[c]
      BY DEF IInv, Safe, MembersAreConnected, Running
    <2>2. panicked' = panicked
      BY <2>1 DEF IInv, TypeOK
    <2>3. \A d \in Clients : sendClosed'[d] <=> (sendClosed[d] \/ (d = c /\ c \in members[h]))
      BY DEF IInv, TypeOK
    <2> QED
      BY <2>2, <2>3 DEF IInv, TypeOK, Joined
  <1>2. \A g \in Hubs : /\ Running(g)' <=> Running(g)
                        /\ hubPc'[g] = "none" <=> hubPc[g] = "none"
                        /\ hubPc'[g] = "leaving" => hubPc[g] = "leaving" \/ members'[g] = {}
    BY <1>1 DEF IInv, TypeOK, Running
  <1>3. TypeOK'
    BY DEF IInv, TypeOK
  <1>4. sendClosed'[c]
    BY <1>1 DEF IInv, Safe, NobodyForgotten, Joined
  <1>5. NobodyForgotten'
    <2> SUFFICES ASSUME NEW d \in Clients, Joined(d)', ~sendClosed'[d]
                 PROVE  d \in members'[clientHub[d]] /\ Running(clientHub[d])'
      BY DEF NobodyForgotten
    <2>1. d # c /\ Joined(d) /\ ~sendClosed[d]
      BY <1>1, <1>4
    <2>2. d \in members[clientHub[d]] /\ Running(clientHub[d]) /\ clientHub[d] \in Hubs
      BY <2>1 DEF IInv, Safe, NobodyForgotten, HoldsHub, Joined
    <2> QED
      BY <1>1, <1>2, <2>1, <2>2
  <1>6. MembersAreConnected'
    <2> SUFFICES ASSUME NEW g \in Hubs, Running(g)', NEW d \in members'[g]
                 PROVE  /\ clientHub[d] = g /\ ~sendClosed'[d]
                        /\ clientPc'[d] \in {"reading", "pushing", "unregistering"}
      BY DEF MembersAreConnected
    <2>1. Running(g) /\ d \in members[g] /\ d \in Clients
      BY <1>1, <1>2 DEF IInv, TypeOK
    <2>2. /\ clientHub[d] = g /\ ~sendClosed[d]
          /\ clientPc[d] \in {"reading", "pushing", "unregistering"}
      BY <2>1 DEF IInv, Safe, MembersAreConnected
    <2>3. d # c
      BY <1>1, <2>2
    <2> QED
      BY <1>1, <2>1, <2>2, <2>3
  <1>7. RegisteredIffOpen' /\ RegisteredIsRunning'
    BY <1>2 DEF IInv, TypeOK, Safe, RegisteredIffOpen, RegisteredIsRunning
  <1>8. Allocated' /\ LeavingIsEmpty' /\ HoldsHub'
    BY <1>1, <1>2 DEF IInv, TypeOK, Allocated, LeavingIsEmpty, HoldsHub
  <1>9. FreshChannel'
    BY <1>1 DEF IInv, FreshChannel, Joined
  <1> QED
    BY <1>1, <1>3, <1>5, <1>6, <1>7, <1>8, <1>9 DEF IInv, Safe, NoPanic

LEMMA HubRemoveSelfInductive ==
  ASSUME IInv, NEW h \in Hubs, HubRemoveSelf(h)
  PROVE  IInv'
  <1> USE DEF HubRemoveSelf, clientVars, sendVars
  <1>1. hubRoom[h] \in Rooms /\ Remove(hubRoom[h])
    BY DEF IInv, Allocated
  <1>2. /\ registry' \in [Rooms -> Hubs \cup {NoHub}]
        /\ stopped' \in [Hubs -> BOOLEAN]
        /\ panicked' = panicked
        /\ \A q \in Rooms : registry'[q] = IF q = hubRoom[h] THEN NoHub ELSE registry[q]
        /\ \A g \in Hubs : stopped'[g] <=> (stopped[g] \/ registry[hubRoom[h]] = g)
    BY <1>1, RemoveFacts
  <1>3. /\ \A g \in Hubs : g # h => hubPc'[g] = hubPc[g]
        /\ hubPc'[h] = IF hubPc[h] = "leaving" THEN "returned" ELSE "select"
        /\ Running(h) /\ hubPc[h] # "none"
    BY DEF IInv, TypeOK, Running
  <1>4. TypeOK'
    BY <1>2 DEF IInv, TypeOK
  <1>5. RegisteredIffOpen'
    BY <1>1, <1>3, RemoveInductive
  <1>6. RegisteredIsRunning'
    <2> SUFFICES ASSUME NEW r \in Rooms, registry'[r] # NoHub
                 PROVE  Running(registry[r])'
      BY DEF RegisteredIsRunning
    <2>1. r # hubRoom[h] /\ registry'[r] = registry[r] /\ registry[r] \in Hubs /\ Running(registry[r])
      BY <1>2 DEF IInv, TypeOK, Safe, RegisteredIsRunning
    <2>2. registry[r] # h
      BY <1>3, <2>1 DEF IInv, Safe, RegisteredIffOpen
    <2> QED
      BY <1>3, <2>1, <2>2 DEF Running
  <1>7. NobodyForgotten'
    <2> SUFFICES ASSUME NEW d \in Clients, Joined(d)', ~sendClosed'[d]
                 PROVE  d \in members'[clientHub[d]] /\ Running(clientHub[d])'
      BY DEF NobodyForgotten
    <2>1. d \in members[clientHub[d]] /\ Running(clientHub[d]) /\ clientHub[d] \in Hubs
      BY DEF IInv, Safe, NobodyForgotten, HoldsHub, Joined
    <2>2. clientHub[d] = h => hubPc[h] # "leaving"
      BY <2>1 DEF IInv, LeavingIsEmpty
    <2> QED
      BY <1>3, <2>1, <2>2 DEF Running
  <1>8. MembersAreConnected'
    BY <1>3 DEF IInv, Safe, MembersAreConnected, Running
  <1>9. Allocated'
    <2>1. \A g \in Hubs : hubPc[g] = "none" => registry[hubRoom[h]] # g
      BY <1>1, ConstantsAssumption DEF IInv, Safe, RegisteredIsRunning, Running
    <2> QED
      BY <1>2, <1>3, <2>1 DEF IInv, Allocated
  <1>10. LeavingIsEmpty' /\ HoldsHub' /\ FreshChannel'
    BY <1>3 DEF IInv, LeavingIsEmpty, HoldsHub, FreshChannel, Joined
  <1> QED
    BY <1>2, <1>4, <1>5, <1>6, <1>7, <1>8, <1>9, <1>10 DEF IInv, Safe, NoPanic

\* A broadcast to members of a running hub: no send or close is on a closed
\* channel, and the members that are left are those whose channel is open.
LEMMA SendAllFacts ==
  ASSUME IInv, NEW h \in Hubs, Running(h), NEW R, R \subseteq members[h], SendAll(h, R)
  PROVE  /\ panicked' = panicked
         /\ members' \in [Hubs -> SUBSET Clients]
         /\ sendLen' \in [Clients -> 0 .. SendBuf]
         /\ sendClosed' \in [Clients -> BOOLEAN]
         /\ \A g \in Hubs : g # h => members'[g] = members[g]
         /\ \A c \in Clients : /\ sendClosed'[c] <=> (sendClosed[c] \/ c \in Slow(R))
                               /\ ~Joined(c) => sendLen'[c] = sendLen[c] /\ c \notin Slow(R)
         /\ members'[h] = members[h] \ Slow(R)
         /\ Slow(R) \subseteq members[h]
  <1>1. \A c \in R : c \in Clients /\ ~sendClosed[c] /\ Joined(c)
    BY DEF IInv, TypeOK, Safe, MembersAreConnected, Running, Joined
  <1>2. panicked' = panicked
    BY <1>1 DEF SendAll, IInv, TypeOK
  <1>3. sendLen' \in [Clients -> 0 .. SendBuf]
    <2>1. \A c \in R \ Slow(R) : sendLen[c] + 1 \in 0 .. SendBuf
      BY <1>1, ConstantsAssumption DEF Slow, IInv, TypeOK
    <2> QED
      BY <2>1 DEF SendAll, IInv, TypeOK
  <1>4. /\ members' \in [Hubs -> SUBSET Clients]
        /\ members'[h] = members[h] \ Slow(R)
        /\ \A g \in Hubs : g # h => members'[g] = members[g]
    BY DEF SendAll, IInv, TypeOK
  <1>5. Slow(R) \subseteq R
    BY DEF Slow
  <1> QED
    BY <1>1, <1>2, <1>3, <1>4, <1>5 DEF SendAll, IInv, TypeOK

LEMMA HubEventInductive ==
  ASSUME IInv, NEW h \in Hubs, HubEvent(h)
  PROVE  IInv'
  <1> DEFINE evt == Head(incoming[h])
  <1> USE DEF HubEvent, clientVars, sendVars
  <1>1. Running(h) /\ incoming' \in [Hubs -> Seq(Events)]
    BY DEF IInv, TypeOK, Running
  <1>2. CASE evt.kind = "ignored"
    BY <1>1, <1>2 DEF IInv, TypeOK, Safe, NoPanic, RegisteredIffOpen, RegisteredIsRunning,
         NobodyForgotten, MembersAreConnected, Running, Joined, Allocated, LeavingIsEmpty,
         HoldsHub, FreshChannel
  <1>3. ASSUME NEW R, R \subseteq members[h], SendAll(h, R),
               \/ hubPc' = hubPc
               \/ hubPc' = [hubPc EXCEPT ![h] = IF members'[h] = {} THEN "emptied" ELSE @]
        PROVE  IInv'
    <2>1. /\ panicked' = panicked
          /\ members' \in [Hubs -> SUBSET Clients]
          /\ sendLen' \in [Clients -> 0 .. SendBuf]
          /\ sendClosed' \in [Clients -> BOOLEAN]
          /\ \A g \in Hubs : g # h => members'[g] = members[g]
          /\ \A c \in Clients : /\ sendClosed'[c] <=> (sendClosed[c] \/ c \in Slow(R))
                                /\ ~Joined(c) => sendLen'[c] = sendLen[c] /\ c \notin Slow(R)
          /\ members'[h] = members[h] \ Slow(R)
          /\ Slow(R) \subseteq members[h]
      BY <1>1, <1>3, SendAllFacts
    <2>2. /\ hubPc' \in [Hubs -> {"none", "select", "leaving", "emptied", "returned"}]
          /\ \A g \in Hubs : /\ Running(g)' <=> Running(g)
                             /\ hubPc'[g] = "none" <=> hubPc[g] = "none"
                             /\ hubPc'[g] = "leaving" <=> hubPc[g] = "leaving"
      BY <1>3 DEF IInv, TypeOK, Running
    <2>3. TypeOK'
      BY <1>1, <2>1, <2>2 DEF IInv, TypeOK
    <2>4. RegisteredIffOpen' /\ RegisteredIsRunning'
      BY <2>2 DEF IInv, TypeOK, Safe, RegisteredIffOpen, RegisteredIsRunning
    <2>5. NobodyForgotten'
      BY <2>1, <2>2 DEF IInv, Safe, NobodyForgotten, HoldsHub, Joined
    <2>6. MembersAreConnected'
      <3> SUFFICES ASSUME NEW g \in Hubs, Running(g)', NEW d \in members'[g]
                   PROVE  /\ clientHub[d] = g /\ ~sendClosed'[d]
                          /\ clientPc[d] \in {"reading", "pushing", "unregistering"}
        BY DEF MembersAreConnected
      <3>1. Running(g) /\ d \in members[g] /\ d \in Clients /\ (g = h => d \notin Slow(R))
        BY <2>1, <2>2 DEF IInv, TypeOK
      <3>2. clientHub[d] = g /\ clientPc[d] \in {"reading", "pushing", "unregistering"} /\ ~sendClosed[d]
        BY <3>1 DEF IInv, Safe, MembersAreConnected
      <3>3. d \notin Slow(R)
        BY <1>1, <2>1, <3>1, <3>2 DEF IInv, Safe, MembersAreConnected
      <3> QED
        BY <2>1, <3>1, <3>2, <3>3
    <2>7. Allocated' /\ LeavingIsEmpty'
      BY <1>1, <2>1, <2>2 DEF IInv, Allocated, LeavingIsEmpty, Running
    <2>8. HoldsHub' /\ FreshChannel'
      BY <2>1, <2>2 DEF IInv, HoldsHub, FreshChannel, Joined
    <2> QED
      BY <2>1, <2>3, <2>4, <2>5, <2>6, <2>7, <2>8 DEF IInv, Safe, NoPanic
  <1>4. CASE evt.kind = "chat"
    BY <1>3, <1>4
  <1>5. CASE evt.kind = "state"
    BY <1>3, <1>5
  <1> QED
    BY <1>2, <1>4, <1>5

-----------------------------------------------------------------------------
\* Every step of the system preserves the invariant.
LEMMA StepInductive == IInv /\ [Next]_vars => IInv'
  <1> SUFFICES ASSUME IInv, [Next]_vars PROVE IInv'
    OBVIOUS
  <1>1. CASE UNCHANGED vars
    BY <1>1 DEF vars, IInv, TypeOK, Safe, NoPanic, RegisteredIffOpen, RegisteredIsRunning,
         NobodyForgotten, MembersAreConnected, Running, Joined, Allocated, LeavingIsEmpty,
         HoldsHub, FreshChannel
  <1>2. CASE Next
    BY <1>2, DeleteRoomInductive, BroadcastSourceChangedInductive, GetOrCreateInductive,
       HubStopInductive, HubEventInductive, HubRemoveSelfInductive, HubRegisterInductive,
       HubUnregisterInductive, ClientInductive DEF Next
  <1> QED
    BY <1>1, <1>2

LEMMA Invariance == Spec => []IInv
  BY InitInductive, StepInductive, PTL DEF Spec

\* The variables keep their types.
THEOREM TypeCorrect == Spec => []TypeOK
  <1>1. IInv => TypeOK
    BY DEF IInv
  <1> QED
    BY <1>1, Invariance, PTL

\* No goroutine of the realtime package closes a channel twice or sends on a
\* closed one: no panic takes the server down.
THEOREM NeverPanics == Spec => []NoPanic
  <1>1. IInv => NoPanic
    BY DEF IInv, Safe
  <1> QED
    BY <1>1, Invariance, PTL

\* hubManager.hubs holds exactly the hubs that have not been closed, each under
\* its own room.
THEOREM RegistryHoldsOpenHubs == Spec => []RegisteredIffOpen
  <1>1. IInv => RegisteredIffOpen
    BY DEF IInv, Safe
  <1> QED
    BY <1>1, Invariance, PTL

\* A hub that GetOrCreate or Get returns has, at that moment, a goroutine.
THEOREM RegistryHoldsRunningHubs == Spec => []RegisteredIsRunning
  <1>1. IInv => RegisteredIsRunning
    BY DEF IInv, Safe
  <1> QED
    BY <1>1, Invariance, PTL

\* A client that was let in is a member of its running hub until its channel is
\* closed: no path of drop, leave, stop or room deletion forgets it.
THEOREM NobodyIsForgotten == Spec => []NobodyForgotten
  <1>1. IInv => NobodyForgotten
    BY DEF IInv, Safe
  <1> QED
    BY <1>1, Invariance, PTL

\* The members of a running hub are connections it let in and can still serve.
THEOREM MembersStayConnected == Spec => []MembersAreConnected
  <1>1. IInv => MembersAreConnected
    BY DEF IInv, Safe
  <1> QED
    BY <1>1, Invariance, PTL

\* No client loses its connection except by a full buffer, by leaving, or with
\* its whole hub.
THEOREM HangUpsHaveCause == Spec => HungUpForCause
  <1> DEFINE Cause == \A c \in Clients : sendClosed'[c] /\ ~sendClosed[c] =>
                         \/ sendLen[c] = SendBuf
                         \/ clientPc[c] = "unregistering"
                         \/ stopped[clientHub[c]]
  <1>1. IInv /\ [Next]_vars => [Cause]_vars
    <2> SUFFICES ASSUME IInv, Next, NEW c \in Clients, sendClosed'[c], ~sendClosed[c]
                 PROVE  \/ sendLen[c] = SendBuf
                        \/ clientPc[c] = "unregistering"
                        \/ stopped[clientHub[c]]
      BY DEF Cause
    <2> USE DEF sendVars, clientVars, hubVars
    <2>1. ASSUME NEW h \in Hubs, HubStop(h) PROVE stopped[clientHub[c]]
      BY <2>1 DEF HubStop, IInv, Safe, MembersAreConnected, Running
    <2>2. ASSUME NEW h \in Hubs, HubEvent(h) PROVE sendLen[c] = SendBuf
      BY <2>2 DEF HubEvent, SendAll, Slow
    <2>3. ASSUME NEW h \in Hubs, NEW d \in Clients, HubUnregister(h, d)
          PROVE  clientPc[c] = "unregistering"
      BY <2>3 DEF HubUnregister, IInv, TypeOK
    <2>4. ASSUME sendClosed' = sendClosed PROVE FALSE
      BY <2>4
    <2> QED
      BY <2>1, <2>2, <2>3, <2>4 DEF Next, DeleteRoom, BroadcastSourceChanged, HubRemoveSelf,
           HubRegister, GetOrCreate, ReaderRead, Upgrade, PeerGone, ReaderPush, ReaderEnd,
           ReaderClose, WriterSend, WriterEnd
  <1> QED
    BY <1>1, Invariance, PTL DEF Spec, HungUpForCause, Cause

-----------------------------------------------------------------------------
(* Hubs that are left behind.                                              *)

\* A stranded hub was one before, if it was registered then and waited in its select,
\* and if nobody it expected has turned away from it.
LEMMA StrandedBefore ==
  ASSUME NEW h \in Hubs, Stranded(h)',
         \A r \in Rooms : registry'[r] = h => registry[r] = h,
         hubPc'[h] = "select" => hubPc[h] = "select",
         Expected(h) \subseteq Expected(h)'
  PROVE  Stranded(h)
  BY DEF Stranded

\* The last client to leave makes its hub leave the select.
LEMMA LastLeaves ==
  ASSUME IInv, NEW h \in Hubs, NEW c \in Clients, HubUnregister(h, c)
  PROVE  ~Stranded(h)'
  <1> SUFFICES ASSUME Stranded(h)' PROVE FALSE
    OBVIOUS
  <1>1. \A d \in Clients : d # c => clientPc'[d] = clientPc[d] /\ clientHub'[d] = clientHub[d]
    BY DEF HubUnregister, IInv, TypeOK
  <1>2. Expected(h) \subseteq {c}
    BY <1>1 DEF Stranded, Expected
  <1>3. members[h] \subseteq Expected(h)
    BY DEF HubUnregister, IInv, TypeOK, Safe, MembersAreConnected, Running, Expected
  <1>4. hubPc'[h] = "leaving"
    BY <1>2, <1>3 DEF HubUnregister, IInv, TypeOK
  <1> QED
    BY <1>4 DEF Stranded

\* Only an Upgrade that fails leaves a hub in the registry with nobody in it and
\* nobody on the way: joins, leaves, drops and removals never do, in any order.
THEOREM HubsAreNotLeftBehind == Spec => OnlyFailedUpgradesStrand
  <1> DEFINE Kept == \A h \in Hubs : Stranded(h)' =>
               \/ Stranded(h)
               \/ \E c \in Clients :
                    clientHub[c] = h /\ clientPc[c] = "upgrading" /\ clientPc'[c] = "failed"
  <1>1. IInv /\ [Next]_vars => [Kept]_vars
    <2> SUFFICES ASSUME IInv, Next, NEW h \in Hubs, Stranded(h)',
                        \A c \in Clients :
                          ~(clientHub[c] = h /\ clientPc[c] = "upgrading" /\ clientPc'[c] = "failed")
                 PROVE  Stranded(h)
      BY DEF Kept
    <2> USE DEF hubVars, clientVars, sendVars
    <2>1. ASSUME NEW r \in Rooms, DeleteRoom(r) PROVE Stranded(h)
      <3>1. \A q \in Rooms : registry'[q] = h => registry[q] = h
        BY <2>1, RemoveFacts, ConstantsAssumption DEF DeleteRoom
      <3> QED
        BY <2>1, <3>1, StrandedBefore DEF DeleteRoom, Expected
    <2>2. ASSUME NEW r \in Rooms, BroadcastSourceChanged(r) PROVE Stranded(h)
      BY <2>2, StrandedBefore DEF BroadcastSourceChanged, Expected
    <2>3. ASSUME NEW g \in Hubs, HubStop(g) \/ HubEvent(g) PROVE Stranded(h)
      BY <2>3, StrandedBefore DEF HubStop, HubEvent, Expected, IInv, TypeOK
    <2>4. ASSUME NEW g \in Hubs, HubRemoveSelf(g) PROVE Stranded(h)
      <3>1. hubRoom[g] \in Rooms /\ Remove(hubRoom[g]) /\ hubPc[g] # "none"
        BY <2>4 DEF HubRemoveSelf, IInv, Allocated
      <3>2. \A q \in Rooms : registry'[q] = IF q = hubRoom[g] THEN NoHub ELSE registry[q]
        BY <3>1, RemoveFacts
      <3>3. h # g
        \* A hub that has removed itself is not registered under any name.
        BY <3>1, <3>2, ConstantsAssumption DEF Stranded, IInv, Safe, RegisteredIffOpen
      <3> QED
        BY <2>4, <3>2, <3>3, ConstantsAssumption, StrandedBefore DEF HubRemoveSelf, Expected
    <2>5. ASSUME NEW g \in Hubs, NEW c \in Clients, HubRegister(g, c) PROVE Stranded(h)
      BY <2>5, StrandedBefore DEF HubRegister, Expected, IInv, TypeOK
    <2>6. ASSUME NEW g \in Hubs, NEW c \in Clients, HubUnregister(g, c) PROVE Stranded(h)
      <3>1. h # g
        BY <2>6, LastLeaves
      <3> QED
        BY <2>6, <3>1, StrandedBefore DEF HubUnregister, Expected, IInv, TypeOK
    <2>7. ASSUME NEW c \in Clients, NEW r \in Rooms, GetOrCreate(c, r) PROVE Stranded(h)
      <3>1. /\ clientPc[c] = "idle" /\ clientPc' = [clientPc EXCEPT ![c] = "upgrading"]
            /\ DOMAIN clientPc = Clients
        BY <2>7 DEF GetOrCreate, IInv, TypeOK
      <3>2. PICK g \in Hubs \cup {NoHub} :
              /\ clientHub' = [clientHub EXCEPT ![c] = g]
              /\ \/ UNCHANGED <<registry, hubPc>>
                 \/ NewHub(g, r)
        BY <2>7 DEF GetOrCreate, IInv, TypeOK
      <3>3. clientHub'[c] = g
        BY <3>2 DEF IInv, TypeOK
      <3>4. g # h
        BY <3>1, <3>3 DEF Stranded, Expected
      <3>5. Expected(h) \subseteq Expected(h)'
        BY <3>1, <3>2 DEF Expected, IInv, TypeOK
      <3>6. (\A q \in Rooms : registry'[q] = h => registry[q] = h)
              /\ (hubPc'[h] = "select" => hubPc[h] = "select")
        BY <3>2, <3>4 DEF NewHub, IInv, TypeOK
      <3> QED
        BY <3>5, <3>6, StrandedBefore
    <2>8. ASSUME NEW c \in Clients, Upgrade(c) PROVE Stranded(h)
      BY <2>8, StrandedBefore DEF Upgrade, Expected, IInv, TypeOK
    <2>9. ASSUME NEW c \in Clients,
                 (\E k \in Kinds : ReaderRead(c, k)) \/ ReaderPush(c) \/ ReaderEnd(c) \/ ReaderClose(c)
          PROVE  Stranded(h)
      BY <2>9, StrandedBefore DEF ReaderRead, ReaderPush, ReaderEnd, ReaderClose, Expected, IInv, TypeOK
    <2>10. ASSUME NEW c \in Clients, PeerGone(c) \/ WriterSend(c) \/ WriterEnd(c) PROVE Stranded(h)
      BY <2>10, StrandedBefore DEF PeerGone, WriterSend, WriterEnd, Expected
    <2> QED
      BY <2>1, <2>2, <2>3, <2>4, <2>5, <2>6, <2>7, <2>8, <2>9, <2>10 DEF Next
  <1> QED
    BY <1>1, Invariance, PTL DEF Spec, OnlyFailedUpgradesStrand, Kept

=============================================================================
