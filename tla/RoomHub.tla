------------------------------- MODULE RoomHub -------------------------------
(***************************************************************************)
(* The realtime core of w2g: the registry of room hubs (hubManager), the   *)
(* goroutine of every hub (hub.Run), and the three goroutines of every     *)
(* WebSocket client (the HTTP handler ServeWS, readPump and writePump).    *)
(*                                                                         *)
(* A step is what one goroutine does between two points where another can  *)
(* observe it: a critical section, one channel operation, or one case of a *)
(* select.  In particular "the hub found itself empty" and "the hub        *)
(* removed itself from the registry" are two steps, as they are in the     *)
(* code, which releases h.mu before it takes m.mu.                         *)
(*                                                                         *)
(* Message contents are left to module Playback: an event is only of one   *)
(* of three kinds, and a send channel is the number of messages in it.     *)
(***************************************************************************)
EXTENDS Naturals, Sequences

CONSTANTS
  Rooms,        \* invite codes
  Hubs,         \* identities of hub objects; each is allocated at most once
  Clients,      \* WebSocket connections; each is made at most once
  NoHub,        \* an absent entry of hubManager.hubs
  NoRoom,       \* roomID of a hub that is not allocated
  NoClient,     \* the nil Sender of an event the server makes
  SendBuf,      \* clientBufSize
  IncomingBuf,  \* incomingBufSize
  MaxEvents     \* bound: events that enter the hubs in a behaviour

ASSUME ConstantsAssumption ==
  /\ NoHub \notin Hubs
  /\ NoRoom \notin Rooms
  /\ NoClient \notin Clients
  /\ SendBuf \in Nat \ {0}
  /\ IncomingBuf \in Nat \ {0}
  /\ MaxEvents \in Nat

VARIABLES
  registry,    \* hubManager.hubs
  deleted,     \* rooms whose owner has deleted them
  hubRoom,     \* hub.roomID, captured by the closure hub.onEmpty too
  hubPc,       \* where the goroutine of hub.Run is
  stopped,     \* hub.stopCh is closed
  members,     \* hub.clients
  incoming,    \* hub.incoming
  clientPc,    \* where the handler, later readPump, of a client is
  clientHub,   \* client.hub
  pending,     \* the kind of the event readPump is about to push
  sendLen,     \* number of messages in client.send
  sendClosed,  \* client.send is closed
  writerUp,    \* writePump is running
  readable,    \* a read on client.conn may still succeed
  panicked,    \* some goroutine closed or sent on a closed channel
  events       \* number of events made so far, for MaxEvents

hubVars    == <<hubRoom, hubPc, members, incoming>>
clientVars == <<clientPc, clientHub, pending, readable>>
sendVars   == <<sendLen, sendClosed>>
vars == <<registry, deleted, hubRoom, hubPc, stopped, members, incoming,
          clientPc, clientHub, pending, sendLen, sendClosed, writerUp,
          readable, panicked, events>>

(***************************************************************************)
(* Kinds of events: "chat" goes to everyone but its sender (chat and       *)
(* sticker), "state" goes to everyone (play, pause, seek, source_changed), *)
(* "ignored" has an unknown type, a payload that does not parse or an      *)
(* empty text.                                                             *)
(***************************************************************************)
Kinds  == {"chat", "state", "ignored"}
Events == [kind : Kinds, sender : Clients \cup {NoClient}]

Running(h) == hubPc[h] \in {"select", "leaving", "emptied"}

\* Past its registration: the hub goroutine has received the client.
Joined(c) == clientPc[c] \in {"reading", "pushing", "unregistering", "closing", "closed"}

TypeOK ==
  /\ registry \in [Rooms -> Hubs \cup {NoHub}]
  /\ deleted \subseteq Rooms
  /\ hubRoom \in [Hubs -> Rooms \cup {NoRoom}]
  /\ hubPc \in [Hubs -> {"none", "select", "leaving", "emptied", "returned"}]
  /\ stopped \in [Hubs -> BOOLEAN]
  /\ members \in [Hubs -> SUBSET Clients]
  /\ incoming \in [Hubs -> Seq(Events)]
  /\ clientPc \in [Clients -> {"idle", "upgrading", "failed", "registering", "reading",
                               "pushing", "unregistering", "closing", "closed"}]
  /\ clientHub \in [Clients -> Hubs \cup {NoHub}]
  /\ pending \in [Clients -> Kinds]
  /\ sendLen \in [Clients -> 0 .. SendBuf]
  /\ sendClosed \in [Clients -> BOOLEAN]
  /\ writerUp \in [Clients -> BOOLEAN]
  /\ readable \in [Clients -> BOOLEAN]
  /\ panicked \in BOOLEAN
  /\ events \in 0 .. MaxEvents

Init ==
  /\ registry = [r \in Rooms |-> NoHub]
  /\ deleted = {}
  /\ hubRoom = [h \in Hubs |-> NoRoom]
  /\ hubPc = [h \in Hubs |-> "none"]
  /\ stopped = [h \in Hubs |-> FALSE]
  /\ members = [h \in Hubs |-> {}]
  /\ incoming = [h \in Hubs |-> <<>>]
  /\ clientPc = [c \in Clients |-> "idle"]
  /\ clientHub = [c \in Clients |-> NoHub]
  /\ pending = [c \in Clients |-> "ignored"]
  /\ sendLen = [c \in Clients |-> 0]
  /\ sendClosed = [c \in Clients |-> FALSE]
  /\ writerUp = [c \in Clients |-> FALSE]
  /\ readable = [c \in Clients |-> FALSE]
  /\ panicked = FALSE
  /\ events = 0

-----------------------------------------------------------------------------
(* The registry.  m.mu makes each of these one step.                       *)

\* Mutant of Remove: the hub leaves the registry but is not told to stop.
RemoveWithoutClose(r) ==
  /\ registry' = [registry EXCEPT ![r] = NoHub]
  /\ UNCHANGED <<stopped, panicked>>

\* hubManager.Remove(r): whatever hub is registered under r is closed.
Remove(r) ==
  IF registry[r] = NoHub
  THEN UNCHANGED <<registry, stopped, panicked>>
  ELSE /\ registry' = [registry EXCEPT ![r] = NoHub]
       /\ stopped' = [stopped EXCEPT ![registry[r]] = TRUE]
       /\ panicked' = (panicked \/ stopped[registry[r]])

\* newHub, and the goroutine GetOrCreate starts for it.
NewHub(h, r) ==
  /\ hubPc[h] = "none"
  /\ hubRoom' = [hubRoom EXCEPT ![h] = r]
  /\ hubPc' = [hubPc EXCEPT ![h] = "select"]
  /\ registry' = [registry EXCEPT ![r] = h]

\* Mutant of GetOrCreate: a request that found no hub a moment ago makes one
\* without looking again.
GetOrCreateUnchecked(c, r) ==
  /\ clientPc[c] = "idle"
  /\ clientPc' = [clientPc EXCEPT ![c] = "upgrading"]
  /\ \E h \in Hubs : NewHub(h, r) /\ clientHub' = [clientHub EXCEPT ![c] = h]
  /\ UNCHANGED <<deleted, stopped, members, incoming, pending, sendVars,
                 writerUp, readable, panicked, events>>

\* ServeWS up to GetOrCreate; a request refused earlier changes nothing.
\* Nothing here asks whether the room exists.
GetOrCreate(c, r) ==
  /\ clientPc[c] = "idle"
  /\ clientPc' = [clientPc EXCEPT ![c] = "upgrading"]
  /\ \/ /\ registry[r] # NoHub
        /\ clientHub' = [clientHub EXCEPT ![c] = registry[r]]
        /\ UNCHANGED <<registry, hubRoom, hubPc>>
     \/ /\ registry[r] = NoHub
        /\ \E h \in Hubs : /\ NewHub(h, r)
                           /\ clientHub' = [clientHub EXCEPT ![c] = h]
  /\ UNCHANGED <<deleted, stopped, members, incoming, pending, sendVars,
                 writerUp, readable, panicked, events>>

\* room.Service.Delete: the room leaves the store, its hub is removed.
DeleteRoom(r) ==
  /\ r \notin deleted
  /\ deleted' = deleted \cup {r}
  /\ Remove(r)
  /\ UNCHANGED <<hubVars, clientVars, sendVars, writerUp, events>>

\* room.Service.PatchSource, whose last call is BroadcastSourceChanged.
\* With no hub, or with a full incoming channel, the event is dropped.
BroadcastSourceChanged(r) ==
  /\ events < MaxEvents
  /\ registry[r] # NoHub
  /\ Len(incoming[registry[r]]) < IncomingBuf
  /\ incoming' = [incoming EXCEPT ![registry[r]] =
                    Append(@, [kind |-> "state", sender |-> NoClient])]
  /\ events' = events + 1
  /\ UNCHANGED <<registry, deleted, hubRoom, hubPc, stopped, members, clientVars,
                 sendVars, writerUp, panicked>>

-----------------------------------------------------------------------------
(* The goroutine of hub h: one action for each case of the select in Run,  *)
(* and one for shutdownOnEmpty.                                            *)

\* Mutant of HubStop: Run returns without closeAllClients.
HubStopKeepsClients(h) ==
  /\ hubPc[h] = "select"
  /\ stopped[h]
  /\ hubPc' = [hubPc EXCEPT ![h] = "returned"]
  /\ UNCHANGED <<registry, deleted, hubRoom, stopped, members, incoming,
                 clientVars, sendVars, writerUp, panicked, events>>

\* Mutant of HubStop: a closed hub waits until its members have left.
HubStopWhenEmpty(h) ==
  /\ members[h] = {}
  /\ HubStopKeepsClients(h)

\* case <-h.stopCh: closeAllClients leaves the members in the map.
HubStop(h) ==
  /\ hubPc[h] = "select"
  /\ stopped[h]
  /\ sendClosed' = [c \in Clients |-> sendClosed[c] \/ c \in members[h]]
  /\ panicked' = (panicked \/ \E c \in members[h] : sendClosed[c])
  /\ hubPc' = [hubPc EXCEPT ![h] = "returned"]
  /\ UNCHANGED <<registry, deleted, hubRoom, stopped, members, incoming,
                 clientVars, sendLen, writerUp, events>>

\* case client := <-h.register: the sync message is the first in client.send.
\* ServeWS, released by the rendezvous, starts the two pumps.
HubRegister(h, c) ==
  /\ hubPc[h] = "select"
  /\ clientPc[c] = "registering"
  /\ clientHub[c] = h
  /\ members' = [members EXCEPT ![h] = @ \cup {c}]
  /\ sendLen' = [sendLen EXCEPT ![c] = @ + 1]
  /\ panicked' = (panicked \/ sendClosed[c])
  /\ clientPc' = [clientPc EXCEPT ![c] = "reading"]
  /\ writerUp' = [writerUp EXCEPT ![c] = TRUE]
  /\ UNCHANGED <<registry, deleted, hubRoom, hubPc, stopped, incoming, clientHub,
                 pending, sendClosed, readable, events>>

\* Mutant of HubUnregister: close(client.Send()) without looking the client up.
HubUnregisterAlwaysCloses(h, c) ==
  /\ hubPc[h] = "select"
  /\ clientPc[c] = "unregistering"
  /\ clientHub[c] = h
  /\ members' = [members EXCEPT ![h] = @ \ {c}]
  /\ sendClosed' = [sendClosed EXCEPT ![c] = TRUE]
  /\ panicked' = (panicked \/ sendClosed[c])
  /\ hubPc' = [hubPc EXCEPT ![h] = IF members[h] \subseteq {c} THEN "leaving" ELSE @]
  /\ clientPc' = [clientPc EXCEPT ![c] = "closing"]
  /\ UNCHANGED <<registry, deleted, hubRoom, stopped, incoming, clientHub, pending,
                 sendLen, writerUp, readable, events>>

\* Mutant of HubUnregister: emptiness is looked at only when the client was
\* still a member.
HubUnregisterChecksMembers(h, c) ==
  /\ hubPc[h] = "select"
  /\ clientPc[c] = "unregistering"
  /\ clientHub[c] = h
  /\ members' = [members EXCEPT ![h] = @ \ {c}]
  /\ sendClosed' = [sendClosed EXCEPT ![c] = @ \/ c \in members[h]]
  /\ panicked' = (panicked \/ (c \in members[h] /\ sendClosed[c]))
  /\ hubPc' = [hubPc EXCEPT ![h] = IF members[h] = {c} THEN "leaving" ELSE @]
  /\ clientPc' = [clientPc EXCEPT ![c] = "closing"]
  /\ UNCHANGED <<registry, deleted, hubRoom, stopped, incoming, clientHub, pending,
                 sendLen, writerUp, readable, events>>

\* case client := <-h.unregister.
HubUnregister(h, c) ==
  /\ hubPc[h] = "select"
  /\ clientPc[c] = "unregistering"
  /\ clientHub[c] = h
  /\ members' = [members EXCEPT ![h] = @ \ {c}]
  /\ sendClosed' = [sendClosed EXCEPT ![c] = @ \/ c \in members[h]]
  /\ panicked' = (panicked \/ (c \in members[h] /\ sendClosed[c]))
  /\ hubPc' = [hubPc EXCEPT ![h] = IF members[h] \subseteq {c} THEN "leaving" ELSE @]
  /\ clientPc' = [clientPc EXCEPT ![c] = "closing"]
  /\ UNCHANGED <<registry, deleted, hubRoom, stopped, incoming, clientHub, pending,
                 sendLen, writerUp, readable, events>>

\* Mutant of Slow: a client is dropped when its last place is taken.
SlowTooEarly(R) == {c \in R : sendLen[c] + 1 >= SendBuf}

\* Mutant of Slow: a client is slow when its buffer is more than full.
SlowTooLate(R) == {c \in R : sendLen[c] > SendBuf}

\* A non-blocking send to every client of R: a client whose buffer is full is
\* dropped from the hub and its channel closed.
Slow(R) == {c \in R : sendLen[c] = SendBuf}

\* Mutant of SendAll: a slow client's channel is closed but the client stays.
SendAllKeepsSlow(h, R) ==
  /\ sendLen' = [c \in Clients |-> IF c \in R \ Slow(R) THEN sendLen[c] + 1 ELSE sendLen[c]]
  /\ sendClosed' = [c \in Clients |-> sendClosed[c] \/ c \in Slow(R)]
  /\ panicked' = (panicked \/ \E c \in R : sendClosed[c])
  /\ UNCHANGED members

SendAll(h, R) ==
  /\ members' = [members EXCEPT ![h] = @ \ Slow(R)]
  /\ sendLen' = [c \in Clients |-> IF c \in R \ Slow(R) THEN sendLen[c] + 1 ELSE sendLen[c]]
  /\ sendClosed' = [c \in Clients |-> sendClosed[c] \/ c \in Slow(R)]
  /\ panicked' = (panicked \/ \E c \in R : sendClosed[c])

\* case evt := <-h.incoming, and handleEvent.  Only chat and sticker look at
\* whether the hub became empty.
HubEvent(h) ==
  /\ hubPc[h] = "select"
  /\ incoming[h] # <<>>
  /\ incoming' = [incoming EXCEPT ![h] = Tail(@)]
  /\ LET evt == Head(incoming[h]) IN
     \/ /\ evt.kind = "chat"
        /\ SendAll(h, members[h] \ {evt.sender})
        /\ hubPc' = [hubPc EXCEPT ![h] = IF members'[h] = {} THEN "emptied" ELSE @]
     \/ /\ evt.kind = "state"
        /\ SendAll(h, members[h])
        /\ UNCHANGED hubPc
     \/ /\ evt.kind = "ignored"
        /\ UNCHANGED <<hubPc, members, sendVars, panicked>>
  /\ UNCHANGED <<registry, deleted, hubRoom, stopped, clientVars, writerUp, events>>

\* Mutant of HubRemoveSelf: onEmpty is not set.
HubRemoveSelfUnset(h) ==
  /\ hubPc[h] \in {"leaving", "emptied"}
  /\ hubPc' = [hubPc EXCEPT ![h] = IF @ = "leaving" THEN "returned" ELSE "select"]
  /\ UNCHANGED <<registry, stopped, panicked, deleted, hubRoom, members, incoming,
                 clientVars, sendVars, writerUp, events>>

\* shutdownOnEmpty calls onEmpty, which is m.Remove(roomID).  After an
\* unregister the goroutine returns; after a chat it goes on selecting.
HubRemoveSelf(h) ==
  /\ hubPc[h] \in {"leaving", "emptied"}
  /\ Remove(hubRoom[h])
  /\ hubPc' = [hubPc EXCEPT ![h] = IF @ = "leaving" THEN "returned" ELSE "select"]
  /\ UNCHANGED <<deleted, hubRoom, members, incoming, clientVars, sendVars,
                 writerUp, events>>

-----------------------------------------------------------------------------
(* The goroutines of client c.                                             *)

\* upgrader.Upgrade, and then roomHub.Register() <- client blocks.
Upgrade(c) ==
  /\ clientPc[c] = "upgrading"
  /\ \/ /\ clientPc' = [clientPc EXCEPT ![c] = "registering"]
        /\ readable' = [readable EXCEPT ![c] = TRUE]
     \/ /\ clientPc' = [clientPc EXCEPT ![c] = "failed"]
        /\ UNCHANGED readable
  /\ UNCHANGED <<registry, deleted, hubVars, stopped, clientHub, pending, sendVars,
                 writerUp, panicked, events>>

\* The peer closes the socket, the network fails, or no pong comes in time.
PeerGone(c) ==
  /\ readable[c]
  /\ readable' = [readable EXCEPT ![c] = FALSE]
  /\ UNCHANGED <<registry, deleted, hubVars, stopped, clientPc, clientHub, pending,
                 sendVars, writerUp, panicked, events>>

\* readPump has read and decoded a message.
ReaderRead(c, k) ==
  /\ events < MaxEvents
  /\ clientPc[c] = "reading"
  /\ readable[c]
  /\ pending' = [pending EXCEPT ![c] = k]
  /\ clientPc' = [clientPc EXCEPT ![c] = "pushing"]
  /\ events' = events + 1
  /\ UNCHANGED <<registry, deleted, hubVars, stopped, clientHub, sendVars, writerUp,
                 readable, panicked>>

\* roomHub.Incoming() <- evt: blocks while the channel is full, also when the
\* goroutine that would empty it has returned.
ReaderPush(c) ==
  /\ clientPc[c] = "pushing"
  /\ Len(incoming[clientHub[c]]) < IncomingBuf
  /\ incoming' = [incoming EXCEPT ![clientHub[c]] =
                    Append(@, [kind |-> pending[c], sender |-> c])]
  /\ pending' = [pending EXCEPT ![c] = "ignored"]
  /\ clientPc' = [clientPc EXCEPT ![c] = "reading"]
  /\ UNCHANGED <<registry, deleted, hubRoom, hubPc, stopped, members, clientHub,
                 sendVars, writerUp, readable, panicked, events>>

\* Mutant of ReaderEnd: readPump returns without unregistering.
ReaderEndUnregistered(c) ==
  /\ clientPc[c] = "reading"
  /\ ~readable[c]
  /\ clientPc' = [clientPc EXCEPT ![c] = "closed"]
  /\ UNCHANGED <<registry, deleted, hubVars, stopped, clientHub, pending, sendVars,
                 writerUp, readable, panicked, events>>

\* NextReader fails: the deferred roomHub.Unregister() <- c blocks.
ReaderEnd(c) ==
  /\ clientPc[c] = "reading"
  /\ ~readable[c]
  /\ clientPc' = [clientPc EXCEPT ![c] = "unregistering"]
  /\ UNCHANGED <<registry, deleted, hubVars, stopped, clientHub, pending, sendVars,
                 writerUp, readable, panicked, events>>

\* The deferred c.conn.Close() of readPump.
ReaderClose(c) ==
  /\ clientPc[c] = "closing"
  /\ clientPc' = [clientPc EXCEPT ![c] = "closed"]
  /\ UNCHANGED <<registry, deleted, hubVars, stopped, clientHub, pending, sendVars,
                 writerUp, readable, panicked, events>>

\* writePump takes a message and writes it to the socket.
WriterSend(c) ==
  /\ writerUp[c]
  /\ sendLen[c] > 0
  /\ clientPc[c] # "closed"
  /\ sendLen' = [sendLen EXCEPT ![c] = @ - 1]
  /\ UNCHANGED <<registry, deleted, hubVars, stopped, clientVars, sendClosed,
                 writerUp, panicked, events>>

\* Mutant of WriterEnd: a closed channel does not end the loop.
WriterEndOnErrorOnly(c) ==
  /\ writerUp[c]
  /\ ~readable[c]
  /\ writerUp' = [writerUp EXCEPT ![c] = FALSE]
  /\ UNCHANGED <<registry, deleted, hubVars, stopped, clientVars, sendVars,
                 panicked, events>>

\* writePump returns: the channel is closed and drained, or a write or a ping
\* fails.  Its deferred conn.Close() fails the read of readPump.
WriterEnd(c) ==
  /\ writerUp[c]
  /\ (sendClosed[c] /\ sendLen[c] = 0) \/ ~readable[c]
  /\ writerUp' = [writerUp EXCEPT ![c] = FALSE]
  /\ readable' = [readable EXCEPT ![c] = FALSE]
  /\ UNCHANGED <<registry, deleted, hubVars, stopped, clientPc, clientHub, pending,
                 sendVars, panicked, events>>

-----------------------------------------------------------------------------
Next ==
  \/ \E r \in Rooms : DeleteRoom(r) \/ BroadcastSourceChanged(r)
  \/ \E h \in Hubs : HubStop(h) \/ HubEvent(h) \/ HubRemoveSelf(h)
  \/ \E h \in Hubs, c \in Clients : HubRegister(h, c) \/ HubUnregister(h, c)
  \/ \E c \in Clients, r \in Rooms : GetOrCreate(c, r)
  \/ \E c \in Clients, k \in Kinds : ReaderRead(c, k)
  \/ \E c \in Clients : \/ Upgrade(c) \/ PeerGone(c)
                        \/ ReaderPush(c) \/ ReaderEnd(c) \/ ReaderClose(c)
                        \/ WriterSend(c) \/ WriterEnd(c)

Spec == Init /\ [][Next]_vars

(***************************************************************************)
(* The Go scheduler runs every goroutine that can run.  A select with      *)
(* several ready cases draws one at random, and the goroutines blocked on  *)
(* a channel are served first come, first served: a case that is ready     *)
(* again and again is taken.  Nobody has to connect, to send, to hang up   *)
(* or to delete a room.                                                    *)
(***************************************************************************)
HubFairness(h) ==
  /\ SF_vars(HubStop(h))
  /\ SF_vars(HubEvent(h))
  /\ WF_vars(HubRemoveSelf(h))

ClientFairness(c) ==
  /\ SF_vars(\E h \in Hubs : HubRegister(h, c) \/ HubUnregister(h, c))
  /\ SF_vars(ReaderPush(c))
  /\ WF_vars(Upgrade(c) \/ ReaderEnd(c) \/ ReaderClose(c))
  /\ WF_vars(WriterSend(c) \/ WriterEnd(c))

FairSpec ==
  /\ Spec
  /\ \A h \in Hubs : HubFairness(h)
  /\ \A c \in Clients : ClientFairness(c)

-----------------------------------------------------------------------------
(* Safety.                                                                 *)

\* No goroutine closes a closed channel or sends on one: the hub goroutine
\* has no recover, so a panic there would take the whole server down.
NoPanic == ~panicked

\* A room has one hub, and only a hub that has not been closed: GetOrCreate
\* never hands out a hub whose stopCh is closed, and conversely every hub
\* that left the registry has been told to stop.
RegisteredIffOpen ==
  \A h \in Hubs : hubPc[h] # "none" =>
    /\ stopped[h] <=> registry[hubRoom[h]] # h
    /\ \A r \in Rooms : registry[r] = h => r = hubRoom[h]

\* A hub that returned is no longer registered: nobody is sent to a hub
\* whose goroutine is gone by a GetOrCreate that starts after it is gone.
RegisteredIsRunning ==
  \A r \in Rooms : registry[r] # NoHub => Running(registry[r])

\* Every client that was let in and has not been hung up on is a member of
\* the hub it asked for, and that hub still has a goroutine to serve it.
NobodyForgotten ==
  \A c \in Clients : Joined(c) /\ ~sendClosed[c] =>
    /\ c \in members[clientHub[c]]
    /\ Running(clientHub[c])

\* And the other way round: a running hub counts only clients that were let
\* in, into this hub, whose channel is open and whose readPump has not
\* unregistered, so MemberCount of a room is its number of connections.
MembersAreConnected ==
  \A h \in Hubs : Running(h) => \A c \in members[h] :
    /\ clientHub[c] = h
    /\ clientPc[c] \in {"reading", "pushing", "unregistering"}
    /\ ~sendClosed[c]

\* A client is hung up on for one of three reasons only: its buffer was full,
\* its readPump is unregistering, or its hub was told to stop.
HungUpForCause ==
  [][\A c \in Clients : sendClosed'[c] /\ ~sendClosed[c] =>
       \/ sendLen[c] = SendBuf
       \/ clientPc[c] = "unregistering"
       \/ stopped[clientHub[c]]]_vars

\* Clients that are in hub h, or that it has yet to hear from.
Expected(h) ==
  {c \in Clients : /\ clientHub[c] = h
                   /\ clientPc[c] \in {"upgrading", "registering", "reading", "pushing",
                                       "unregistering"}}

\* Nothing is going to remove this hub, unless somebody comes: it waits in its
\* select for clients that are not there.
Stranded(h) == (\E r \in Rooms : registry[r] = h) /\ hubPc[h] = "select" /\ Expected(h) = {}

\* No hub is left behind in the registry, goroutine and all, by any order of joins,
\* leaves, drops and removals, but by a client whose Upgrade fails: ServeWS then
\* returns without a word to the hub that GetOrCreate has made.
OnlyFailedUpgradesStrand ==
  [][\A h \in Hubs : Stranded(h)' =>
       \/ Stranded(h)
       \/ \E c \in Clients : clientHub[c] = h /\ clientPc[c] = "upgrading" /\ clientPc'[c] = "failed"]_vars

\* What becomes of a hub and of a client, for those outside.
life == [h \in Hubs |-> IF hubPc[h] = "none" THEN "unused"
                        ELSE IF hubPc[h] = "returned" THEN "over"
                        ELSE IF stopped[h] THEN "closed" ELSE "open"]
place == [c \in Clients |-> IF sendClosed[c] THEN "out"
                            ELSE IF Joined(c) THEN "inside"
                            ELSE IF clientPc[c] = "idle" THEN "outside" ELSE "arriving"]

Live == INSTANCE LiveRooms WITH
  Sessions <- Hubs, Guests <- Clients, NoSession <- NoHub,
  session <- registry, room <- hubRoom, at <- clientHub

\* Registry, hubs and clients together are rooms with one session at a time, whose
\* guests come in and are turned out once, however the goroutines interleave.
IsLiveRooms == Live!Spec


-----------------------------------------------------------------------------
(* Liveness.                                                               *)

\* A hub that was told to stop does stop, whatever else its select is offered.
StoppedHubReturns ==
  \A h \in Hubs : stopped[h] ~> hubPc[h] = "returned"

\* A connection that broke does not keep its seat: its channel is closed,
\* even if readPump is blocked on a full incoming channel or the hub stops.
BrokenConnectionLeaves ==
  \A c \in Clients : Joined(c) /\ ~readable[c] ~> sendClosed[c]

\* A client that the hub hung up on loses its connection.
HungUpIsDisconnected ==
  \A c \in Clients : sendClosed[c] ~> ~writerUp[c] /\ ~readable[c]

\* A hub somebody was in and that has become empty, whichever of unregister,
\* chat and broadcastAll emptied it, is closed unless somebody else joins.
EmptiedHubCloses ==
  \A h \in Hubs :
    (/\ members[h] = {}
     /\ \E c \in Clients : clientHub[c] = h /\ Joined(c))
    ~> (stopped[h] \/ members[h] # {})

\* A readPump that hands its hub an event, or itself to be unregistered, is served
\* although neither channel is read while the hub removes itself: it is left
\* waiting only by a hub that was stopped.
ReadersAreServed ==
  \A c \in Clients, h \in Hubs :
    clientHub[c] = h /\ clientPc[c] \in {"pushing", "unregistering"}
      ~> clientPc[c] \in {"reading", "closed"} \/ stopped[h]

\* A client that asks to join is answered: the sync message comes at the
\* moment of the connection (docs/features/ws-protocol.md).
JoinIsAnswered ==
  \A c \in Clients : clientPc[c] = "registering" ~> Joined(c)

=============================================================================
