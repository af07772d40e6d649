------------------------------- MODULE RoomPages -------------------------------
(***************************************************************************)
(* The pages of one room (web/src/room.js) and what the server keeps for   *)
(* them.  A page embeds a player that only obeys some time after a command *)
(* and reports nothing: the page polls it and takes a change it did not    *)
(* ask for as one of its user.  Messages are those of module Playback; the *)
(* hub handles them one at a time, and the buffers do not fill up here.    *)
(*                                                                         *)
(* A position stands for the line along which playback goes on from it, so *)
(* that time does not appear; two of them are more than 3 seconds apart.   *)
(***************************************************************************)
EXTENDS Naturals, Sequences, Functions

CONSTANTS
  Pages,        \* open tabs
  Sources,      \* sources the owner may choose
  NoSource,     \* no source chosen yet
  Positions,    \* playback positions
  Suppress,     \* polls a command suppresses, 4 in the code
  IncomingBuf,  \* incomingBufSize
  MaxCauses,    \* bound: causes of events, summed over the pages, in a behaviour
  MaxUpsets,    \* bound: changes of the source and lost connections in a behaviour
  MaxInbox      \* bound: messages on their way to a page at a time

ASSUME ConstantsAssumption ==
  /\ NoSource \notin Sources
  /\ 0 \in Positions /\ Positions \subseteq Nat
  /\ Suppress \in Nat \ {0}
  /\ IncomingBuf \in Nat \ {0}
  /\ MaxCauses \in Nat
  /\ MaxUpsets \in Nat
  /\ MaxInbox \in Nat \ {0}

Playbacks == [playing : BOOLEAN, position : Positions]
Stopped   == [playing |-> FALSE, position |-> 0]

\* "player" is play, pause and seek: a page tells with a seek whether it plays,
\* so that each of them says everything about the playback.
Events == [type : {"player"}, playback : Playbacks] \cup [type : {"source_changed"}, source : Sources]
Messages == Events \cup [type : {"sync"}, playback : Playbacks]

VARIABLES
  chosen,    \* service.currentSourceID of the room
  patching,  \* sources of the PATCH requests that have set it, not announced it
  playback,  \* hub.state: Playing and Position
  incoming,  \* hub.incoming
  inbox,     \* messages on their way to a page
  page,      \* the variables of each page
  causes,    \* history: how often something for polls to report happened to a player
  sent,      \* history: how many events the page has sent
  missed,    \* history: the page has let something pass since it was last told all
  upsets     \* number of upsets so far, for MaxUpsets

vars == <<chosen, patching, playback, incoming, inbox, page, causes, sent, missed, upsets>>

AtMostOne == {{}} \cup {{s} : s \in Playbacks}

\* vkPlayer is "ready"; a page with a video and no player is still loading it.
\* "vk" is what the player does and "asked" the command it has yet to obey.
PageStates == [
  step     : {"opened", "loaded", "online", "offline"},
  video    : Sources \cup {NoSource},
  ready    : BOOLEAN,
  vk       : Playbacks,
  asked    : AtMostOne,
  pending  : AtMostOne,        \* pendingSync
  suppress : 0 .. Suppress,    \* suppressCount
  known    : Playbacks]        \* lastKnownState

Online == {p \in Pages : page[p].step = "online"}

TypeOK ==
  /\ chosen \in Sources \cup {NoSource}
  /\ patching \subseteq Sources
  /\ playback \in Playbacks
  /\ incoming \in Seq(Events) /\ Len(incoming) <= IncomingBuf
  /\ inbox \in [Pages -> Seq(Messages)] /\ \A p \in Pages : Len(inbox[p]) <= MaxInbox
  /\ page \in [Pages -> PageStates]
  /\ \A p \in Pages : \lnot page[p].ready =>
       page[p].asked = {} /\ page[p].suppress = 0 /\ page[p].known = page[p].vk
  /\ \A p \in Pages : page[p].ready => page[p].video # NoSource
  /\ causes \in [Pages -> Nat] /\ sent \in [Pages -> Nat]
  /\ missed \in [Pages -> BOOLEAN]
  /\ upsets \in 0 .. MaxUpsets

Init ==
  /\ chosen = NoSource
  /\ patching = {}
  /\ playback = Stopped
  /\ incoming = <<>>
  /\ inbox = [p \in Pages |-> <<>>]
  /\ page = [p \in Pages |->
       [step |-> "opened", video |-> NoSource, ready |-> FALSE, vk |-> Stopped, asked |-> {},
        pending |-> {}, suppress |-> 0, known |-> Stopped]]
  /\ causes = [p \in Pages |-> 0]
  /\ sent = [p \in Pages |-> 0]
  /\ missed = [p \in Pages |-> FALSE]
  /\ upsets = 0

-----------------------------------------------------------------------------
(* The functions of the page, as changes of its variables.                 *)

\* Mutant of Told: a command does not suppress anything.
ToldOpenly(g, s) == [g EXCEPT !.asked = {s}, !.known = s]

\* applyRemoteCommand
Told(g, s) == [g EXCEPT !.asked = {s}, !.known = s, !.suppress = Suppress]

\* showVideo: the player goes, and with it what it was doing.  pendingSync stays.
ShowVideo(g, src) ==
  [g EXCEPT !.video = src, !.ready = FALSE, !.vk = Stopped, !.asked = {},
            !.suppress = 0, !.known = Stopped]

-----------------------------------------------------------------------------
(* The server.                                                             *)

Upset == upsets < MaxUpsets /\ upsets' = upsets + 1

\* PatchSource, first step: setCurrentSourceID
PatchSource(src) ==
  /\ Upset
  /\ src \notin patching
  /\ chosen' = src
  /\ patching' = patching \cup {src}
  /\ UNCHANGED <<playback, incoming, inbox, page, causes, sent, missed>>

\* PatchSource, second step: BroadcastSourceChanged.  With nobody in the room
\* there is no hub to tell; with a full channel the event is dropped.
Announce(src) ==
  /\ src \in patching
  /\ patching' = patching \ {src}
  /\ incoming' = IF Online # {} /\ Len(incoming) < IncomingBuf
                 THEN Append(incoming, [type |-> "source_changed", source |-> src]) ELSE incoming
  /\ UNCHANGED <<chosen, playback, inbox, page, causes, sent, missed, upsets>>

\* Mutant of HandleEvent: a seek is passed on, and the room does not remember it.
HandleEventNoSeek ==
  /\ incoming # <<>>
  /\ \A p \in Online : Len(inbox[p]) < MaxInbox
  /\ LET m == Head(incoming) IN
     /\ playback' = IF m.type = "player" /\ m.playback.playing # playback.playing
                    THEN m.playback ELSE playback
     /\ inbox' = [p \in Pages |-> IF p \in Online THEN Append(inbox[p], m) ELSE inbox[p]]
  /\ incoming' = Tail(incoming)
  /\ UNCHANGED <<chosen, patching, page, causes, sent, missed, upsets>>

\* handleEvent: apply it and tell everybody.
HandleEvent ==
  /\ incoming # <<>>
  /\ \A p \in Online : Len(inbox[p]) < MaxInbox
  /\ LET m == Head(incoming) IN
     /\ playback' = IF m.type = "player" THEN m.playback ELSE playback
     /\ inbox' = [p \in Pages |-> IF p \in Online THEN Append(inbox[p], m) ELSE inbox[p]]
  /\ incoming' = Tail(incoming)
  /\ UNCHANGED <<chosen, patching, page, causes, sent, missed, upsets>>

\* onopen, and the hub's case register.  Who comes first finds a new hub.
Connect(p) ==
  /\ page[p].step \in {"loaded", "offline"}
  /\ page' = [page EXCEPT ![p].step = "online"]
  /\ inbox' = [inbox EXCEPT ![p] = <<[type |-> "sync", playback |-> playback]>>]
  /\ UNCHANGED <<chosen, patching, playback, incoming, causes, sent, missed, upsets>>

\* onclose.  The hub goes with its last member, and with it what it knew.
Disconnect(p) ==
  /\ p \in Online
  /\ Upset
  /\ page' = [page EXCEPT ![p].step = "offline"]
  /\ inbox' = [inbox EXCEPT ![p] = <<>>]
  /\ IF Online = {p} THEN playback' = Stopped /\ incoming' = <<>>
     ELSE UNCHANGED <<playback, incoming>>
  /\ UNCHANGED <<chosen, patching, causes, sent, missed>>

-----------------------------------------------------------------------------
(* The page.                                                               *)

\* loadRoom: the room as GET /api/rooms/{code} finds it, or a placeholder when
\* the request fails.  connectWS comes after, in either case.
LoadRoom(p) ==
  /\ page[p].step = "opened"
  /\ \E src \in {chosen, NoSource} :
       page' = [page EXCEPT ![p] = [ShowVideo(@, src) EXCEPT !.step = "loaded"]]
  /\ UNCHANGED <<chosen, patching, playback, incoming, inbox, causes, sent, missed, upsets>>

\* initPlayer, when the iframe has loaded
InitPlayer(p) ==
  /\ page[p].video # NoSource
  /\ \lnot page[p].ready
  /\ LET g == [page[p] EXCEPT !.ready = TRUE, !.pending = {}] IN
     page' = [page EXCEPT ![p] = IF page[p].pending = {} THEN g
                                 ELSE Told(g, CHOOSE s \in page[p].pending : TRUE)]
  /\ UNCHANGED <<chosen, patching, playback, incoming, inbox, causes, sent, missed, upsets>>

\* onmessage: sync is kept for a player to come, too; its source is not looked at.
OnSync(p, m) ==
  /\ m.type = "sync"
  /\ LET g == [page[p] EXCEPT !.pending = {m.playback}] IN
     page' = [page EXCEPT ![p] = IF g.ready THEN Told(g, m.playback) ELSE g]
  /\ missed' = [missed EXCEPT ![p] = FALSE]

\* Mutant of OnPlayer: commands go to a player that is not there yet.
OnPlayerAlways(p, m) ==
  /\ m.type = "player"
  /\ page' = [page EXCEPT ![p] = Told(@, m.playback)]
  /\ missed' = [missed EXCEPT ![p] = FALSE]

\* onmessage: play, pause and seek are lost while there is no player.
OnPlayer(p, m) ==
  /\ m.type = "player"
  /\ page' = [page EXCEPT ![p] = IF @.ready THEN Told(@, m.playback) ELSE @]
  /\ missed' = [missed EXCEPT ![p] = \lnot page[p].ready]

\* onmessage: the next player starts from nothing, or from the sync that is
\* still waiting for a first player.
OnSourceChanged(p, m) ==
  /\ m.type = "source_changed"
  /\ page' = [page EXCEPT ![p] = ShowVideo(@, m.source)]
  /\ missed' = [missed EXCEPT ![p] = @ \/ page[p].ready \/ page[p].pending = {}]

OnMessage(p) ==
  /\ inbox[p] # <<>>
  /\ \/ OnSync(p, Head(inbox[p]))
     \/ OnPlayer(p, Head(inbox[p]))
     \/ OnSourceChanged(p, Head(inbox[p]))
  /\ inbox' = [inbox EXCEPT ![p] = Tail(@)]
  /\ UNCHANGED <<chosen, patching, playback, incoming, causes, sent, upsets>>

\* pollPlayer while a command is suppressing: the player is taken as it is.
PollSuppressed(p) ==
  /\ page[p].ready /\ page[p].suppress > 0
  /\ page' = [page EXCEPT ![p].suppress = @ - 1, ![p].known = page[p].vk]
  /\ UNCHANGED <<chosen, patching, playback, incoming, inbox, causes, sent, missed, upsets>>

\* pollPlayer finds a change; wsSend is silent when there is no connection.  What
\* is under way from a page counts as in incoming, and waits here while that is full.
PollChanged(p) ==
  /\ page[p].ready /\ page[p].suppress = 0
  /\ page[p].vk # page[p].known
  /\ page' = [page EXCEPT ![p].known = page[p].vk]
  /\ IF p \in Online
     THEN /\ Len(incoming) < IncomingBuf
          /\ incoming' = Append(incoming, [type |-> "player", playback |-> page[p].vk])
          /\ sent' = [sent EXCEPT ![p] = @ + 1]
     ELSE UNCHANGED <<incoming, sent>>
  /\ UNCHANGED <<chosen, patching, playback, inbox, causes, missed, upsets>>

\* Something for polls to report happens to a player.
Cause(p) ==
  /\ SumFunction(causes) < MaxCauses
  /\ causes' = [causes EXCEPT ![p] = @ + 1]

\* The embedded player does what it was asked to, and nothing by itself.  When the
\* suppressed polls are over it passes for its user.
Obey(p) ==
  /\ page[p].asked # {}
  /\ page' = [page EXCEPT ![p].vk = CHOOSE s \in page[p].asked : TRUE, ![p].asked = {}]
  /\ IF page[p].suppress = 0 THEN Cause(p) /\ missed' = [missed EXCEPT ![p] = TRUE]
     ELSE UNCHANGED <<causes, missed>>
  /\ UNCHANGED <<chosen, patching, playback, incoming, inbox, sent, upsets>>

\* The user starts, stops or moves the video.  What nobody will look at counts as
\* missed: polls are suppressed and the player has obeyed already.
UserActs(p, s) ==
  /\ Cause(p)
  /\ page[p].ready
  /\ s # page[p].vk
  /\ s.playing = page[p].vk.playing \/ s.position = page[p].vk.position
  /\ page' = [page EXCEPT ![p].vk = s]
  /\ missed' = [missed EXCEPT ![p] = @ \/ (page[p].suppress > 0 /\ page[p].asked = {})]
  /\ UNCHANGED <<chosen, patching, playback, incoming, inbox, sent, upsets>>

-----------------------------------------------------------------------------
Next ==
  \/ \E src \in Sources : PatchSource(src) \/ Announce(src)
  \/ HandleEvent
  \/ \E p \in Pages :
       \/ Connect(p) \/ Disconnect(p)
       \/ LoadRoom(p) \/ InitPlayer(p) \/ OnMessage(p)
       \/ PollSuppressed(p) \/ PollChanged(p) \/ Obey(p)
       \/ \E s \in Playbacks : UserActs(p, s)

Spec == Init /\ [][Next]_vars

-----------------------------------------------------------------------------
(* Properties.                                                             *)

\* A page sends an event only for something its user did, or for a command that
\* its player obeyed after the suppressed polls: what applyRemoteCommand does to
\* the player does not otherwise come back through pollPlayer.
NoEcho == \A p \in Pages : sent[p] <= causes[p]

\* A page where everything has come to rest: it has read its messages, the
\* player has obeyed and has been looked at since.
Settled(p) ==
  /\ p \in Online /\ page[p].ready
  /\ inbox[p] = <<>> /\ incoming = <<>>
  /\ page[p].asked = {} /\ page[p].suppress = 0 /\ page[p].known = page[p].vk

\* Whoever causes at the same time and in whatever order their events get through:
\* a page at rest does what the room does, unless since it was last told it let a
\* command pass while it had no player, changed the video, or its user acted or its
\* player obeyed at the wrong time.
InStepUnlessMissed ==
  \A p \in Pages : Settled(p) /\ \lnot missed[p] => page[p].vk = playback

\* When no message and no request is on its way, nobody who is connected looks at
\* another video than the one the room is set to: the sync that everybody gets who
\* connects holds the state of the room, source included.
PagesShowTheSource ==
  incoming = <<>> /\ patching = {} =>
    \A p \in Online : inbox[p] = <<>> => page[p].video \in {chosen, NoSource}
=============================================================================
