------------------------------- MODULE Playback -------------------------------
(***************************************************************************)
(* What is said in one room: the state of its hub, the events on their way *)
(* into the hub and the messages on their way to each client.  Module      *)
(* RoomHub has the goroutines and the registry; here the hub handles one   *)
(* event at a time, which is all the rest of the room can see of it.  Hubs *)
(* share nothing, so the next hub of the room starts when this one stops.  *)
(***************************************************************************)
EXTENDS Naturals, Sequences

CONSTANTS
  Clients,      \* WebSocket connections; each is made at most once
  Server,       \* the nil Sender of the events PatchSource makes
  Sources,      \* sources a room can be switched to
  NoSource,     \* the empty SourceID
  Positions,    \* playback positions, in seconds
  SendBuf,      \* clientBufSize
  IncomingBuf,  \* incomingBufSize
  MaxEvents     \* bound: events that enter the hub in a behaviour

ASSUME ConstantsAssumption ==
  /\ Server \notin Clients
  /\ NoSource \notin Sources
  /\ 0 \in Positions /\ Positions \subseteq Nat
  /\ SendBuf \in Nat \ {0}
  /\ IncomingBuf \in Nat \ {0}
  /\ MaxEvents \in Nat

(***************************************************************************)
(* Events and messages have one shape; a type uses the fields it needs.    *)
(* The optional field "playing" of a payload has three values.             *)
(***************************************************************************)
States   == [source : Sources \cup {NoSource}, playing : BOOLEAN, position : Positions]
Optional == {"absent", "true", "false"}
Types    == {"play", "pause", "seek", "source_changed", "chat", "ignored", "sync"}
Payloads == [type : Types, source : Sources \cup {NoSource}, playing : Optional,
             position : Positions]
Events   == [msg : Payloads, sender : Clients \cup {Server}]
Messages == [msg : Payloads, after : States]

\* What clients send; "chat" stands for sticker too, "ignored" for a message
\* whose type is unknown, whose payload does not parse or whose text is empty.
ClientPayloads ==
  {m \in Payloads :
     /\ m.type \in {"play", "pause", "seek", "chat", "ignored"}
     /\ m.source = NoSource
     /\ m.type # "seek" => m.playing = "absent"
     /\ m.type \in {"chat", "ignored"} => m.position = 0}

VARIABLES
  state,     \* hub.state
  run,       \* Run goes on, goes on with stopCh closed, or has returned
  link,      \* a client: not connected yet, a member, dropped as slow, gone
  incoming,  \* hub.incoming
  queue,     \* client.send; "after" is history: the hub's state when it was sent
  heard,     \* history: the state a client that applies what it got believes in
  events     \* number of events made so far, for MaxEvents

vars == <<state, run, link, incoming, queue, heard, events>>

InitialState == [source |-> NoSource, playing |-> FALSE, position |-> 0]
members == {c \in Clients : link[c] = "member"}

TypeOK ==
  /\ state \in States
  /\ run \in {"running", "stopping", "returned"}
  /\ link \in [Clients -> {"new", "member", "dropped", "gone"}]
  /\ incoming \in Seq(Events)
  /\ queue \in [Clients -> Seq(Messages)]
  /\ \A c \in Clients : Len(queue[c]) <= SendBuf
  /\ heard \in [Clients -> States]
  /\ events \in 0 .. MaxEvents

Init ==
  /\ state = InitialState
  /\ run = "running"
  /\ link = [c \in Clients |-> "new"]
  /\ incoming = <<>>
  /\ queue = [c \in Clients |-> <<>>]
  /\ heard = [c \in Clients |-> InitialState]
  /\ events = 0

-----------------------------------------------------------------------------
(* How an event changes the state of the room.                             *)

\* applyPlayerEvent, the case of seek, and applySourceEvent, which leaves the
\* position and the playing flag of the previous source.
Applied(s, m) ==
  [source   |-> IF m.type = "source_changed" THEN m.source ELSE s.source,
   playing  |-> IF m.type \in {"play", "pause"} THEN m.type = "play"
                ELSE IF m.type = "seek" /\ m.playing # "absent" THEN m.playing = "true"
                ELSE s.playing,
   position |-> IF m.type \in {"play", "pause", "seek"} THEN m.position ELSE s.position]

\* Mutant of SyncOf: the snapshot forgets that the room is playing.
SyncOfPaused(s) == [type |-> "sync", source |-> s.source, position |-> s.position,
                    playing |-> "false"]

\* newSyncPayload(s)
SyncOf(s) == [type |-> "sync", source |-> s.source, position |-> s.position,
              playing |-> IF s.playing THEN "true" ELSE "false"]

\* What message m says to a client that believes in state s: the snapshot says
\* all of it, an event says what it did to the state of the hub.
Learned(s, m) ==
  IF m.type = "sync"
  THEN [source |-> m.source, playing |-> m.playing = "true", position |-> m.position]
  ELSE Applied(s, m)

-----------------------------------------------------------------------------
(* The goroutine of the hub.                                               *)

\* case register: the snapshot is taken and sent before any other event is
\* handled.
Register(c) ==
  /\ run # "returned"
  /\ link[c] = "new"
  /\ link' = [link EXCEPT ![c] = "member"]
  /\ queue' = [queue EXCEPT ![c] = <<[msg |-> SyncOf(state), after |-> state]>>]
  /\ UNCHANGED <<state, run, incoming, heard, events>>

\* case unregister: the connection of a member, or of a client that was
\* dropped, has ended.  A hub that is empty then leaves the registry and returns.
Unregister(c) ==
  /\ run # "returned"
  /\ link[c] \in {"member", "dropped"}
  /\ link' = [link EXCEPT ![c] = "gone"]
  /\ run' = IF members \subseteq {c} THEN "returned" ELSE run
  /\ UNCHANGED <<state, incoming, queue, heard, events>>

\* Mutant of Slow: a client is slow when its buffer is more than full.
SlowTooLate(to) == {c \in to : Len(queue[c]) > SendBuf}

Slow(to) == {c \in to : Len(queue[c]) = SendBuf}

\* Mutant of Broadcast: a full buffer loses the message instead of the client.
BroadcastSkipsSlow(m, to) ==
  /\ queue' = [c \in Clients |-> IF c \in to \ Slow(to)
                 THEN Append(queue[c], [msg |-> m, after |-> state']) ELSE queue[c]]
  /\ UNCHANGED link

\* The non-blocking sends of one message: a client with a full buffer is dropped.
Broadcast(m, to) ==
  /\ queue' = [c \in Clients |-> IF c \in to \ Slow(to)
                 THEN Append(queue[c], [msg |-> m, after |-> state']) ELSE queue[c]]
  /\ link' = [c \in Clients |-> IF c \in Slow(to) THEN "dropped" ELSE link[c]]

\* Mutant of HandlePlayer: like chat, the event is not sent back to its sender.
HandlePlayerNoEcho(evt) ==
  /\ evt.msg.type \in {"play", "pause", "seek", "source_changed"}
  /\ state' = Applied(state, evt.msg)
  /\ Broadcast(evt.msg, members \ {evt.sender})
  /\ UNCHANGED run

\* play, pause, seek and source_changed: apply, then broadcastAll.
HandlePlayer(evt) ==
  /\ evt.msg.type \in {"play", "pause", "seek", "source_changed"}
  /\ state' = Applied(state, evt.msg)
  /\ Broadcast(evt.msg, members)
  /\ UNCHANGED run

\* chat and sticker: everybody else.  A hub that is empty then leaves the
\* registry and closes stopCh, and goes on.
HandleChat(evt) ==
  /\ evt.msg.type = "chat"
  /\ UNCHANGED state
  /\ Broadcast(evt.msg, members \ {evt.sender})
  /\ run' = IF \A c \in Clients : link'[c] # "member" THEN "stopping" ELSE run

HandleIgnored(evt) ==
  /\ evt.msg.type = "ignored"
  /\ UNCHANGED <<state, run, queue, link>>

HandleEvent ==
  /\ run # "returned"
  /\ incoming # <<>>
  /\ \/ HandlePlayer(Head(incoming))
     \/ HandleChat(Head(incoming))
     \/ HandleIgnored(Head(incoming))
  /\ incoming' = Tail(incoming)
  /\ UNCHANGED <<heard, events>>

\* HubManager.Remove, when the owner deletes the room.
DeleteRoom ==
  /\ run = "running"
  /\ run' = "stopping"
  /\ UNCHANGED <<state, link, incoming, queue, heard, events>>

\* case stop, or the hub has returned: who is in the room is hung up, and what
\* was on its way into the hub is lost.  The next client finds a new hub.
ReplaceHub ==
  /\ run # "running"
  /\ run' = "running"
  /\ state' = InitialState
  /\ incoming' = <<>>
  /\ link' = [c \in Clients |-> IF link[c] = "new" THEN "new" ELSE "gone"]
  /\ UNCHANGED <<queue, heard, events>>

-----------------------------------------------------------------------------
(* The clients and the HTTP side.                                          *)

Push(msg, sender) ==
  /\ events < MaxEvents
  /\ Len(incoming) < IncomingBuf
  /\ incoming' = Append(incoming, [msg |-> msg, sender |-> sender])
  /\ events' = events + 1
  /\ UNCHANGED <<state, run, link, queue, heard>>

\* readPump hands over an event; a client dropped a moment ago still does.
ClientSends(c, m) ==
  /\ link[c] \in {"member", "dropped"}
  /\ Push(m, c)

\* hub.BroadcastSourceChanged; with a full channel the event is dropped.  (A
\* client may send the same event, to the same effect: nothing looks at the
\* sender of a player event.)
SourceChanged(src) ==
  Push([type |-> "source_changed", source |-> src, playing |-> "absent", position |-> 0], Server)

\* writePump delivers a message, also what is left in a closed channel.
Deliver(c) ==
  /\ queue[c] # <<>>
  /\ heard' = [heard EXCEPT ![c] = Learned(@, Head(queue[c]).msg)]
  /\ queue' = [queue EXCEPT ![c] = Tail(@)]
  /\ UNCHANGED <<state, run, link, incoming, events>>

-----------------------------------------------------------------------------
Next ==
  \/ \E c \in Clients : Register(c) \/ Unregister(c) \/ Deliver(c)
  \/ \E c \in Clients, m \in ClientPayloads : ClientSends(c, m)
  \/ \E src \in Sources : SourceChanged(src)
  \/ HandleEvent
  \/ DeleteRoom
  \/ ReplaceHub

Spec == Init /\ [][Next]_vars

-----------------------------------------------------------------------------
(* Properties.                                                             *)

\* The state in which client c is, or will be when it has got i messages.
Believes(c, i) == IF i = 0 THEN heard[c] ELSE queue[c][i].after

\* Every message leads a client from the state in which the previous one left
\* it to the state in which the hub sent it: who applies what the hub sends,
\* the sync first, is never in a state the room was not in.
MessagesChain ==
  \A c \in Clients : \A i \in 1 .. Len(queue[c]) :
    Learned(Believes(c, i - 1), queue[c][i].msg) = queue[c][i].after

\* And nothing is missing at the end: a member that has got all that is in its
\* buffer is in the state the hub is in, whoever sent the events and however
\* slow the others are.
MembersInStep ==
  \A c \in members : Believes(c, Len(queue[c])) = state

Shared == INSTANCE SharedPlayback WITH
  Viewers <- Clients, States <- States, InitialState <- InitialState,
  current <- state, watching <- members, view <- heard,
  ahead <- [c \in Clients |-> [i \in 1 .. Len(queue[c]) |-> queue[c][i].after]]

\* The room is one shared sequence of states that everybody in it follows.
IsSharedPlayback == Shared!Spec
=============================================================================
