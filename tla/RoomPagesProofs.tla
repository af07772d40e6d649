---------------------------- MODULE RoomPagesProofs ----------------------------
(***************************************************************************)
(* Theorems about RoomPages, for any number of pages, sources, positions   *)
(* and suppressed polls.                                                   *)
(***************************************************************************)
EXTENDS RoomPages, TLAPS

\* The counts of what happened to a player and what was said of it, and the page
\* between them: what the next poll is about to report has a cause of its own.
Accounted ==
  \A p \in Pages :
    /\ sent[p] <= causes[p]
    /\ page[p].suppress = 0 /\ page[p].vk # page[p].known => sent[p] < causes[p]

Says(m) == m.type # "source_changed"

\* Nothing on its way to the page says anything about the playback.
NothingSaid(p) == \A i \in 1 .. Len(inbox[p]) : \lnot Says(inbox[p][i])

\* The last thing that is on its way to a page about the playback is what the
\* room does now.
LastWord(p) ==
  \A i \in 1 .. Len(inbox[p]) :
    /\ Says(inbox[p][i])
    /\ \A j \in 1 .. Len(inbox[p]) : j > i => \lnot Says(inbox[p][j])
    => inbox[p][i].playback = playback

LastWordCounts == \A p \in Online : LastWord(p)

\* What a page that missed nothing makes of what it has read: it is doing what
\* the room does, or is about to, or has just said otherwise.
Follows(p) ==
  IF \lnot page[p].ready THEN page[p].pending = {playback}
  ELSE IF page[p].asked # {} THEN page[p].asked = {playback}
  ELSE IF page[p].suppress > 0 THEN page[p].vk = playback
  ELSE \/ page[p].known = playback
       \/ \E i \in 1 .. Len(incoming) : incoming[i].type = "player"

PagesFollow == \A p \in Online : NothingSaid(p) /\ \lnot missed[p] => Follows(p)

IInv == TypeOK /\ Accounted /\ LastWordCounts /\ PagesFollow

-----------------------------------------------------------------------------
\* What is in a set of at most one playback.
LEMMA TheOnlyOne ==
  ASSUME NEW S \in AtMostOne, S # {}
  PROVE  LET c == CHOOSE s \in S : TRUE IN c \in Playbacks /\ S = {c}
  <1>1. PICK s \in Playbacks : S = {s}
    BY DEF AtMostOne
  <1>2. (CHOOSE x \in S : TRUE) \in S
    BY <1>1
  <1> QED
    BY <1>1, <1>2

\* A command leaves the page as it was but for what it does now.
LEMMA ToldIsAPage ==
  ASSUME NEW g \in PageStates, NEW s \in Playbacks
  PROVE  /\ Told(g, s) \in PageStates
         /\ Told(g, s).asked = {s} /\ Told(g, s).suppress = Suppress /\ Suppress # 0
         /\ Told(g, s).ready = g.ready /\ Told(g, s).video = g.video /\ Told(g, s).step = g.step
  <1>1. {s} \in AtMostOne
    BY DEF AtMostOne
  <1>2. Suppress \in 0 .. Suppress /\ Suppress # 0
    BY ConstantsAssumption
  <1>3. Told(g, s) \in PageStates
    BY <1>1, <1>2 DEF Told, PageStates
  <1> QED
    BY <1>2, <1>3 DEF Told, PageStates

\* A page whose video was changed has no player and waits for nothing.
LEMMA ShowVideoIsAPage ==
  ASSUME NEW g \in PageStates, NEW src \in Sources \cup {NoSource}
  PROVE  LET h == ShowVideo(g, src) IN
         /\ h \in PageStates
         /\ \lnot h.ready /\ h.asked = {} /\ h.suppress = 0 /\ h.known = h.vk
         /\ h.pending = g.pending /\ h.step = g.step
  <1>1. {} \in AtMostOne
    BY DEF AtMostOne
  <1>2. Stopped \in Playbacks
    BY ConstantsAssumption DEF Stopped, Playbacks
  <1>3. 0 \in 0 .. Suppress
    BY ConstantsAssumption
  <1>4. ShowVideo(g, src) \in PageStates
    BY <1>1, <1>2, <1>3 DEF ShowVideo, PageStates
  <1> QED
    BY <1>4 DEF ShowVideo, PageStates

-----------------------------------------------------------------------------
\* The initial state satisfies the invariant.
LEMMA InitInductive == Init => IInv
  <1> SUFFICES ASSUME Init PROVE IInv
    OBVIOUS
  <1>1. Stopped \in Playbacks
    BY ConstantsAssumption DEF Stopped, Playbacks
  <1>2. \A p \in Pages : /\ page[p].step # "online" /\ \lnot page[p].ready
                         /\ page[p].asked = {} /\ page[p].suppress = 0
                         /\ page[p].known = Stopped /\ page[p].vk = Stopped
    BY DEF Init
  <1>3. page \in [Pages -> PageStates]
    BY <1>1, ConstantsAssumption DEF Init, PageStates, AtMostOne
  <1>4. TypeOK
    <2>1. inbox \in [Pages -> Seq(Messages)] /\ \A p \in Pages : Len(inbox[p]) <= MaxInbox
      BY ConstantsAssumption DEF Init
    <2>2. incoming \in Seq(Events) /\ Len(incoming) <= IncomingBuf
      BY ConstantsAssumption DEF Init
    <2>3. causes \in [Pages -> Nat] /\ sent \in [Pages -> Nat] /\ missed \in [Pages -> BOOLEAN]
      BY DEF Init
    <2>4. /\ chosen \in Sources \cup {NoSource} /\ patching \subseteq Sources
          /\ playback \in Playbacks /\ upsets \in 0 .. MaxUpsets
      BY <1>1, ConstantsAssumption DEF Init
    <2> QED
      BY <1>2, <1>3, <2>1, <2>2, <2>3, <2>4 DEF TypeOK
  <1>5. Accounted
    <2>1. \A p \in Pages : causes[p] = 0 /\ sent[p] = 0
      BY DEF Init
    <2> QED
      BY <1>2, <2>1 DEF Accounted
  <1>6. LastWordCounts /\ PagesFollow
    BY <1>2 DEF LastWordCounts, PagesFollow, Online
  <1> QED
    BY <1>4, <1>5, <1>6 DEF IInv

\* The owner's two steps leave what the pages were told as it is.
LEMMA PatchSourceInductive ==
  ASSUME IInv, NEW src \in Sources, PatchSource(src) PROVE IInv'
  <1> USE DEF PatchSource
  <1>1. TypeOK'
    <2>1. upsets' \in 0 .. MaxUpsets
      BY ConstantsAssumption DEF IInv, TypeOK, Upset
    <2> QED
      BY <2>1 DEF IInv, TypeOK
  <1>2. Accounted'
    BY DEF IInv, Accounted
  <1>3. LastWordCounts' /\ PagesFollow'
    BY DEF IInv, LastWordCounts, LastWord, PagesFollow, Online, NothingSaid, Follows
  <1> QED
    BY <1>1, <1>2, <1>3 DEF IInv

LEMMA AnnounceInductive ==
  ASSUME IInv, NEW src \in Sources, Announce(src) PROVE IInv'
  <1> USE ConstantsAssumption DEF Announce
  <1> DEFINE m == [type |-> "source_changed", source |-> src]
  <1>0. m \in Events /\ incoming \in Seq(Events) /\ Len(incoming) <= IncomingBuf
    BY DEF Events, IInv, TypeOK
  <1>1. /\ incoming' \in Seq(Events) /\ Len(incoming') <= IncomingBuf
        /\ \A i \in 1 .. Len(incoming) : i \in 1 .. Len(incoming') /\ incoming'[i] = incoming[i]
    <2>1. CASE incoming' = incoming
      BY <1>0, <2>1
    <2>2. CASE incoming' = Append(incoming, m) /\ Len(incoming) < IncomingBuf
      BY <1>0, <2>2
    <2> QED
      BY <2>1, <2>2
  <1>2. TypeOK'
    BY <1>1 DEF IInv, TypeOK
  <1>3. Accounted'
    BY DEF IInv, Accounted
  <1>4. LastWordCounts'
    BY DEF IInv, LastWordCounts, LastWord, Online
  <1>5. PagesFollow'
    BY <1>1 DEF IInv, PagesFollow, Online, NothingSaid, Follows
  <1> QED
    BY <1>2, <1>3, <1>4, <1>5 DEF IInv

-----------------------------------------------------------------------------
\* The events in the hub's channel, when some more may have come.
Extended == /\ incoming' \in Seq(Events) /\ Len(incoming') <= IncomingBuf
            /\ \A i \in 1 .. Len(incoming) : i \in 1 .. Len(incoming') /\ incoming'[i] = incoming[i]

\* A step of one page, which does not change what the room does, keeps the
\* invariant if the page itself keeps its part of it.
LEMMA StepOfAPage ==
  ASSUME IInv, NEW p \in Pages, NEW h \in PageStates,
         page' = [page EXCEPT ![p] = h],
         h.step = "online" <=> page[p].step = "online",
         \lnot h.ready => h.asked = {} /\ h.suppress = 0 /\ h.known = h.vk,
         h.ready => h.video # NoSource,
         UNCHANGED <<chosen, patching, playback, upsets>>,
         Extended,
         inbox' \in [Pages -> Seq(Messages)], Len(inbox'[p]) <= MaxInbox,
         causes' \in [Pages -> Nat], sent' \in [Pages -> Nat], missed' \in [Pages -> BOOLEAN],
         \A q \in Pages \ {p} : /\ inbox'[q] = inbox[q] /\ missed'[q] = missed[q]
                                /\ causes'[q] = causes[q] /\ sent'[q] = sent[q],
         sent'[p] <= causes'[p],
         h.suppress = 0 /\ h.vk # h.known => sent'[p] < causes'[p],
         p \in Online => LastWord(p)',
         p \in Online /\ NothingSaid(p)' /\ \lnot missed'[p] => Follows(p)'
  PROVE  IInv'
  <1>1. page \in [Pages -> PageStates]
    BY DEF IInv, TypeOK
  <1>2. page'[p] = h /\ \A q \in Pages \ {p} : page'[q] = page[q]
    BY <1>1
  <1>3. page' \in [Pages -> PageStates]
    BY <1>1
  <1>4. Online' = Online
    BY <1>2 DEF Online
  <1>5. TypeOK'
    <2>1. \A q \in Pages : Len(inbox'[q]) <= MaxInbox
      BY DEF IInv, TypeOK
    <2>2. \A q \in Pages : \lnot page'[q].ready =>
            page'[q].asked = {} /\ page'[q].suppress = 0 /\ page'[q].known = page'[q].vk
      BY <1>2 DEF IInv, TypeOK
    <2>3. \A q \in Pages : page'[q].ready => page'[q].video # NoSource
      BY <1>2 DEF IInv, TypeOK
    <2> QED
      BY <1>3, <2>1, <2>2, <2>3 DEF IInv, TypeOK, Extended
  <1>6. Accounted'
    BY <1>2 DEF IInv, Accounted
  <1>7. LastWordCounts'
    <2> SUFFICES ASSUME NEW q \in Online, q # p PROVE LastWord(q)'
      BY <1>4 DEF LastWordCounts
    <2>1. LastWord(q)
      BY DEF IInv, LastWordCounts
    <2>2. inbox'[q] = inbox[q] /\ playback' = playback
      BY DEF Online
    <2> QED
      BY <2>1, <2>2 DEF LastWord
  <1>8. PagesFollow'
    <2> SUFFICES ASSUME NEW q \in Online, q # p, NothingSaid(q)', \lnot missed'[q] PROVE Follows(q)'
      BY <1>4 DEF PagesFollow
    <2>1. Follows(q)
      BY DEF IInv, PagesFollow, NothingSaid, Online
    <2>2. page'[q] = page[q]
      BY <1>2 DEF Online
    <2> QED
      BY <2>1, <2>2 DEF Follows, Extended
  <1> QED
    BY <1>5, <1>6, <1>7, <1>8 DEF IInv

\* The same for a step that leaves the page's messages, the hub's channel and the
\* counts alone: what the page follows is all that it can disturb.
LEMMA QuietStepOfAPage ==
  ASSUME IInv, NEW p \in Pages, NEW h \in PageStates,
         page' = [page EXCEPT ![p] = h],
         h.step = "online" <=> page[p].step = "online",
         \lnot h.ready => h.asked = {} /\ h.suppress = 0 /\ h.known = h.vk,
         h.ready => h.video # NoSource,
         UNCHANGED <<chosen, patching, playback, incoming, inbox, causes, sent, missed, upsets>>,
         h.suppress = 0 /\ h.vk # h.known => page[p].suppress = 0 /\ page[p].vk # page[p].known,
         p \in Online /\ \lnot missed[p] /\ Follows(p) => Follows(p)'
  PROVE  IInv'
  <1>1. Extended /\ inbox' \in [Pages -> Seq(Messages)] /\ Len(inbox'[p]) <= MaxInbox
    BY DEF Extended, IInv, TypeOK
  <1>2. /\ causes' \in [Pages -> Nat] /\ sent' \in [Pages -> Nat] /\ missed' \in [Pages -> BOOLEAN]
        /\ \A q \in Pages \ {p} : /\ inbox'[q] = inbox[q] /\ missed'[q] = missed[q]
                                  /\ causes'[q] = causes[q] /\ sent'[q] = sent[q]
    BY DEF IInv, TypeOK
  <1>3. sent'[p] <= causes'[p] /\ (h.suppress = 0 /\ h.vk # h.known => sent'[p] < causes'[p])
    BY DEF IInv, Accounted
  <1>4. p \in Online => LastWord(p)'
    BY DEF IInv, LastWordCounts, LastWord
  <1>5. p \in Online /\ NothingSaid(p)' /\ \lnot missed'[p] => Follows(p)'
    BY DEF IInv, PagesFollow, NothingSaid
  <1> QED
    BY <1>1, <1>2, <1>3, <1>4, <1>5, StepOfAPage

-----------------------------------------------------------------------------
\* The room's answer finds the page not connected yet.
LEMMA LoadRoomInductive ==
  ASSUME IInv, NEW p \in Pages, LoadRoom(p) PROVE IInv'
  <1>1. PICK src \in Sources \cup {NoSource} :
          page' = [page EXCEPT ![p] = [ShowVideo(page[p], src) EXCEPT !.step = "loaded"]]
    BY DEF LoadRoom, IInv, TypeOK
  <1> DEFINE h == [ShowVideo(page[p], src) EXCEPT !.step = "loaded"]
  <1>2. page[p] \in PageStates /\ page[p].step = "opened"
    BY DEF IInv, TypeOK, LoadRoom
  <1>3. /\ h \in PageStates /\ h.step = "loaded"
        /\ \lnot h.ready /\ h.asked = {} /\ h.suppress = 0 /\ h.known = h.vk
    <2>1. ShowVideo(page[p], src) \in PageStates
      BY <1>2, ShowVideoIsAPage
    <2>2. h \in PageStates
      BY <2>1 DEF PageStates
    <2>3. /\ h.step = "loaded" /\ h.ready = ShowVideo(page[p], src).ready
          /\ h.asked = ShowVideo(page[p], src).asked /\ h.known = ShowVideo(page[p], src).known
          /\ h.suppress = ShowVideo(page[p], src).suppress /\ h.vk = ShowVideo(page[p], src).vk
      BY <2>1 DEF PageStates
    <2> QED
      BY <1>2, <2>2, <2>3, ShowVideoIsAPage
  <1>4. p \notin Online
    BY <1>2 DEF Online
  <1> HIDE DEF h
  <1> QED
    BY <1>1, <1>2, <1>3, <1>4, QuietStepOfAPage DEF LoadRoom, h

\* A new player is told what was kept for it.
LEMMA InitPlayerInductive ==
  ASSUME IInv, NEW p \in Pages, InitPlayer(p) PROVE IInv'
  <1> DEFINE g == [page[p] EXCEPT !.ready = TRUE, !.pending = {}]
             c == CHOOSE s \in page[p].pending : TRUE
             h == IF page[p].pending = {} THEN g ELSE Told(g, c)
  <1>1. /\ page[p] \in PageStates /\ \lnot page[p].ready /\ page[p].video # NoSource
        /\ page[p].asked = {} /\ page[p].suppress = 0 /\ page[p].known = page[p].vk
        /\ page' = [page EXCEPT ![p] = h]
    BY DEF IInv, TypeOK, InitPlayer
  <1>2. /\ g \in PageStates /\ g.ready /\ g.video = page[p].video /\ g.step = page[p].step
        /\ g.asked = {} /\ g.suppress = 0 /\ g.known = g.vk
    <2>1. {} \in AtMostOne
      BY DEF AtMostOne
    <2> QED
      BY <1>1, <2>1 DEF PageStates
  <1>3. page[p].pending # {} => c \in Playbacks /\ page[p].pending = {c}
    BY <1>1, TheOnlyOne DEF PageStates
  <1>4. /\ h \in PageStates /\ h.ready /\ h.video # NoSource /\ h.step = page[p].step
        /\ h.suppress = 0 => h.vk = h.known
        /\ page[p].pending # {} => h.asked = page[p].pending
    BY <1>1, <1>2, <1>3, ToldIsAPage
  <1>5. page'[p] = h
    BY <1>1 DEF IInv, TypeOK
  <1>6. Follows(p) => Follows(p)'
    BY <1>1, <1>4, <1>5 DEF Follows, InitPlayer
  <1> HIDE DEF h
  <1> QED
    BY <1>1, <1>4, <1>6, QuietStepOfAPage DEF InitPlayer

\* The last suppressed poll finds the player where the room is.
LEMMA PollSuppressedInductive ==
  ASSUME IInv, NEW p \in Pages, PollSuppressed(p) PROVE IInv'
  <1> DEFINE h == [page[p] EXCEPT !.suppress = @ - 1, !.known = page[p].vk]
  <1>1. /\ page[p] \in PageStates /\ page[p].ready /\ page[p].video # NoSource
        /\ page[p].suppress \in 0 .. Suppress /\ page[p].suppress > 0
        /\ page' = [page EXCEPT ![p] = h]
    BY DEF IInv, TypeOK, PollSuppressed, PageStates
  <1>2. page[p].suppress - 1 \in 0 .. Suppress
    BY <1>1, ConstantsAssumption
  <1>3. /\ h \in PageStates /\ h.ready = page[p].ready /\ h.video = page[p].video
        /\ h.step = page[p].step /\ h.asked = page[p].asked /\ h.vk = page[p].vk
        /\ h.known = page[p].vk /\ h.suppress = page[p].suppress - 1
    BY <1>1, <1>2 DEF PageStates
  <1>4. page'[p] = h
    BY <1>1 DEF IInv, TypeOK
  <1> HIDE DEF h
  <1>6. Follows(p) => Follows(p)'
    BY <1>1, <1>3, <1>4 DEF Follows, PollSuppressed
  <1> QED
    BY <1>1, <1>3, <1>6, QuietStepOfAPage DEF PollSuppressed

\* The player does what it was asked to, which is what the room does; when the
\* polls are back this is a cause of its own, and counts as missed.
LEMMA ObeyInductive ==
  ASSUME IInv, NEW p \in Pages, Obey(p) PROVE IInv'
  <1> DEFINE c == CHOOSE s \in page[p].asked : TRUE
             h == [page[p] EXCEPT !.vk = c, !.asked = {}]
  <1>1. /\ page[p] \in PageStates /\ page[p].ready /\ page[p].video # NoSource
        /\ page[p].asked # {} /\ page[p].suppress \in 0 .. Suppress
        /\ sent[p] \in Nat /\ causes[p] \in Nat /\ sent[p] <= causes[p]
        /\ page' = [page EXCEPT ![p] = h]
    BY DEF IInv, TypeOK, Accounted, Obey, PageStates
  <1>2. c \in Playbacks /\ page[p].asked = {c}
    BY <1>1, TheOnlyOne DEF PageStates
  <1> HIDE DEF c
  <1>3. /\ h \in PageStates /\ h.ready = page[p].ready /\ h.video = page[p].video
        /\ h.step = page[p].step /\ h.asked = {} /\ h.vk = c /\ h.suppress = page[p].suppress
    <2>1. {} \in AtMostOne
      BY DEF AtMostOne
    <2> QED
      BY <1>1, <1>2, <2>1 DEF PageStates
  <1>4. page'[p] = h
    BY <1>1 DEF IInv, TypeOK
  <1> HIDE DEF h
  <1>5. /\ causes' \in [Pages -> Nat] /\ missed' \in [Pages -> BOOLEAN]
        /\ \A q \in Pages \ {p} : causes'[q] = causes[q] /\ missed'[q] = missed[q]
        /\ IF page[p].suppress = 0 THEN causes'[p] = causes[p] + 1 /\ missed'[p]
           ELSE causes'[p] = causes[p] /\ missed'[p] = missed[p]
    <2>1. causes \in [Pages -> Nat] /\ missed \in [Pages -> BOOLEAN]
      BY DEF IInv, TypeOK
    <2>2. CASE page[p].suppress = 0
      <3>1. causes' = [causes EXCEPT ![p] = @ + 1] /\ missed' = [missed EXCEPT ![p] = TRUE]
        BY <2>2 DEF Obey, Cause
      <3> QED
        BY <2>1, <2>2, <3>1
    <2>3. CASE page[p].suppress # 0
      BY <2>1, <2>3 DEF Obey
    <2> QED
      BY <2>2, <2>3
  <1>6. /\ sent'[p] <= causes'[p]
        /\ h.suppress = 0 /\ h.vk # h.known => sent'[p] < causes'[p]
    BY <1>1, <1>3, <1>5 DEF Obey
  <1>7. p \in Online /\ NothingSaid(p)' /\ \lnot missed'[p] => Follows(p)'
    <2> SUFFICES ASSUME p \in Online, NothingSaid(p)', \lnot missed'[p] PROVE Follows(p)'
      OBVIOUS
    <2>1. page[p].suppress > 0 /\ \lnot missed[p]
      BY <1>1, <1>5, ConstantsAssumption
    <2>2. Follows(p)
      BY <2>1 DEF IInv, PagesFollow, NothingSaid, Obey
    <2>3. c = playback
      BY <1>1, <1>2, <2>2 DEF Follows
    <2>4. /\ page'[p].ready /\ page'[p].asked = {} /\ page'[p].suppress > 0
          /\ page'[p].vk = playback /\ playback' = playback
      BY <1>1, <1>3, <1>4, <2>1, <2>3 DEF Obey
    <2> QED
      BY <2>4 DEF Follows
  <1>8. p \in Online => LastWord(p)'
    BY DEF IInv, LastWordCounts, LastWord, Obey
  <1>9. /\ Extended /\ UNCHANGED <<chosen, patching, playback, upsets>>
        /\ inbox' \in [Pages -> Seq(Messages)] /\ Len(inbox'[p]) <= MaxInbox
        /\ sent' \in [Pages -> Nat]
        /\ \A q \in Pages \ {p} : inbox'[q] = inbox[q] /\ sent'[q] = sent[q]
    BY DEF IInv, TypeOK, Obey, Extended
  <1> QED
    BY <1>1, <1>3, <1>5, <1>6, <1>7, <1>8, <1>9, StepOfAPage

\* A change that is found is put into the hub's channel: until it is handled
\* there is something the page is about to be told.
LEMMA PollChangedInductive ==
  ASSUME IInv, NEW p \in Pages, PollChanged(p) PROVE IInv'
  <1> DEFINE h == [page[p] EXCEPT !.known = page[p].vk]
             m == [type |-> "player", playback |-> page[p].vk]
  <1>1. /\ page[p] \in PageStates /\ page[p].ready /\ page[p].video # NoSource
        /\ page[p].suppress = 0 /\ page[p].vk # page[p].known
        /\ sent[p] \in Nat /\ causes[p] \in Nat /\ sent[p] < causes[p]
        /\ page' = [page EXCEPT ![p] = h]
    BY DEF IInv, TypeOK, Accounted, PollChanged
  <1>2. /\ h \in PageStates /\ h.ready = page[p].ready /\ h.video = page[p].video
        /\ h.step = page[p].step /\ h.asked = page[p].asked /\ h.suppress = 0
        /\ h.known = h.vk
    BY <1>1 DEF PageStates
  <1>3. m \in Events
    BY <1>1 DEF Events, PageStates
  <1>4. Extended /\ (p \in Online => \E i \in 1 .. Len(incoming') : incoming'[i].type = "player")
    <2>0. incoming \in Seq(Events) /\ Len(incoming) <= IncomingBuf
      BY DEF IInv, TypeOK
    <2>1. CASE p \in Online
      <3>1. incoming' = Append(incoming, m) /\ Len(incoming) < IncomingBuf
        BY <2>1 DEF PollChanged
      <3>2. /\ incoming' \in Seq(Events) /\ Len(incoming') = Len(incoming) + 1
            /\ incoming'[Len(incoming) + 1] = m
            /\ \A i \in 1 .. Len(incoming) : incoming'[i] = incoming[i]
        BY <2>0, <3>1, <1>3
      <3> QED
        BY <2>0, <3>1, <3>2, ConstantsAssumption DEF Extended
    <2>2. CASE p \notin Online
      BY <2>0, <2>2 DEF PollChanged, Extended
    <2> QED
      BY <2>1, <2>2
  <1>5. /\ causes' \in [Pages -> Nat] /\ sent' \in [Pages -> Nat] /\ sent'[p] <= causes'[p]
        /\ \A q \in Pages \ {p} : causes'[q] = causes[q] /\ sent'[q] = sent[q]
    BY <1>1 DEF IInv, TypeOK, PollChanged
  <1>6. p \in Online => LastWord(p)'
    BY DEF IInv, LastWordCounts, LastWord, PollChanged
  <1>7. page'[p] = h
    BY <1>1 DEF IInv, TypeOK
  <1> HIDE DEF h
  <1>8. p \in Online /\ NothingSaid(p)' /\ \lnot missed'[p] => Follows(p)'
    <2> SUFFICES ASSUME p \in Online, NothingSaid(p)', \lnot missed'[p] PROVE Follows(p)'
      OBVIOUS
    <2>1. Follows(p) /\ playback' = playback
      BY DEF IInv, PagesFollow, NothingSaid, PollChanged
    <2>2. page'[p].ready /\ page'[p].asked = page[p].asked /\ page'[p].suppress = 0
      BY <1>1, <1>2, <1>7
    <2> QED
      BY <1>1, <1>4, <2>1, <2>2 DEF Follows
  <1>9. /\ inbox' \in [Pages -> Seq(Messages)] /\ Len(inbox'[p]) <= MaxInbox
        /\ missed' \in [Pages -> BOOLEAN]
        /\ \A q \in Pages \ {p} : inbox'[q] = inbox[q] /\ missed'[q] = missed[q]
        /\ UNCHANGED <<chosen, patching, playback, upsets>>
    BY DEF IInv, TypeOK, PollChanged
  <1> QED
    BY <1>1, <1>2, <1>4, <1>5, <1>6, <1>8, <1>9, StepOfAPage

\* What a user does either will be found by a poll, or is undone by a command
\* on its way to the player, or counts as missed.
LEMMA UserActsInductive ==
  ASSUME IInv, NEW p \in Pages, NEW s \in Playbacks, UserActs(p, s) PROVE IInv'
  <1> DEFINE h == [page[p] EXCEPT !.vk = s]
  <1>1. /\ page[p] \in PageStates /\ page[p].ready /\ page[p].video # NoSource
        /\ page[p].suppress \in 0 .. Suppress
        /\ sent[p] \in Nat /\ causes[p] \in Nat /\ sent[p] <= causes[p]
        /\ page' = [page EXCEPT ![p] = h]
    BY DEF IInv, TypeOK, Accounted, UserActs, PageStates
  <1>2. /\ h \in PageStates /\ h.ready = page[p].ready /\ h.video = page[p].video
        /\ h.step = page[p].step /\ h.asked = page[p].asked
        /\ h.suppress = page[p].suppress /\ h.known = page[p].known
    BY <1>1 DEF PageStates
  <1>3. Extended
    BY DEF Extended, UserActs, IInv, TypeOK
  <1>4. /\ causes' \in [Pages -> Nat] /\ sent' \in [Pages -> Nat]
        /\ sent'[p] < causes'[p] /\ sent'[p] <= causes'[p]
        /\ \A q \in Pages \ {p} : causes'[q] = causes[q] /\ sent'[q] = sent[q]
    BY <1>1 DEF IInv, TypeOK, UserActs, Cause
  <1>5. p \in Online => LastWord(p)'
    BY DEF IInv, LastWordCounts, LastWord, UserActs
  <1>6. page'[p] = h
    BY <1>1 DEF IInv, TypeOK
  <1>7. missed'[p] = (missed[p] \/ (page[p].suppress > 0 /\ page[p].asked = {}))
    BY DEF IInv, TypeOK, UserActs
  <1> HIDE DEF h
  <1>8. p \in Online /\ NothingSaid(p)' /\ \lnot missed'[p] => Follows(p)'
    <2> SUFFICES ASSUME p \in Online, NothingSaid(p)', \lnot missed'[p] PROVE Follows(p)'
      OBVIOUS
    <2>1. Follows(p)
      BY <1>7 DEF IInv, PagesFollow, NothingSaid, UserActs
    <2> QED
      BY <1>1, <1>2, <1>6, <1>7, <2>1 DEF Follows, UserActs
  <1>9. /\ inbox' \in [Pages -> Seq(Messages)] /\ Len(inbox'[p]) <= MaxInbox
        /\ missed' \in [Pages -> BOOLEAN]
        /\ \A q \in Pages \ {p} : inbox'[q] = inbox[q] /\ missed'[q] = missed[q]
        /\ UNCHANGED <<chosen, patching, playback, upsets>>
    BY DEF IInv, TypeOK, UserActs
  <1> QED
    BY <1>1, <1>2, <1>3, <1>4, <1>5, <1>8, <1>9, StepOfAPage

-----------------------------------------------------------------------------
\* A message is read: what is left has the same last word, or none, and then
\* the message was the last word, or there was none before.
LEMMA ReadingAMessage ==
  ASSUME IInv, NEW p \in Pages, inbox[p] # <<>>,
         inbox' = [inbox EXCEPT ![p] = Tail(@)], playback' = playback
  PROVE  /\ Head(inbox[p]) \in Messages
         /\ inbox' \in [Pages -> Seq(Messages)] /\ Len(inbox'[p]) <= MaxInbox
         /\ \A q \in Pages \ {p} : inbox'[q] = inbox[q]
         /\ p \in Online => LastWord(p)'
         /\ p \in Online /\ NothingSaid(p)' =>
              IF Says(Head(inbox[p])) THEN Head(inbox[p]).playback = playback ELSE NothingSaid(p)
  <1> DEFINE old == inbox[p]
             new == Tail(inbox[p])
  <1>1. old \in Seq(Messages) /\ old # <<>> /\ Len(old) <= MaxInbox /\ inbox'[p] = new
    BY DEF IInv, TypeOK
  <1>2. /\ Head(old) = old[1] /\ Head(old) \in Messages
        /\ new \in Seq(Messages) /\ Len(new) = Len(old) - 1 /\ Len(old) \in Nat \ {0}
        /\ \A i \in 1 .. Len(new) : new[i] = old[i + 1]
    BY <1>1
  <1>3. /\ inbox' \in [Pages -> Seq(Messages)] /\ Len(inbox'[p]) <= MaxInbox
        /\ \A q \in Pages \ {p} : inbox'[q] = inbox[q]
    BY <1>1, <1>2, ConstantsAssumption DEF IInv, TypeOK
  <1> HIDE DEF new
  <1>4. ASSUME p \in Online PROVE LastWord(p)'
    <2>1. LastWord(p)
      BY <1>4 DEF IInv, LastWordCounts
    <2> SUFFICES ASSUME NEW i \in 1 .. Len(new), Says(new[i]),
                        \A j \in 1 .. Len(new) : j > i => \lnot Says(new[j])
                 PROVE  new[i].playback = playback
      BY <1>1 DEF LastWord
    <2>2. i + 1 \in 1 .. Len(old) /\ Says(old[i + 1])
      BY <1>2
    <2>3. ASSUME NEW j \in 1 .. Len(old), j > i + 1 PROVE \lnot Says(old[j])
      <3>1. j - 1 \in 1 .. Len(new) /\ j - 1 > i /\ new[j - 1] = old[j]
        BY <1>2, <2>3
      <3> QED
        BY <3>1
    <2>4. old[i + 1].playback = playback
      BY <2>1, <2>2, <2>3 DEF LastWord
    <2> QED
      BY <1>2, <2>4
  <1>5. ASSUME p \in Online, NothingSaid(p)'
        PROVE  IF Says(Head(old)) THEN Head(old).playback = playback ELSE NothingSaid(p)
    <2>1. \A j \in 1 .. Len(old) : j > 1 => \lnot Says(old[j])
      <3> SUFFICES ASSUME NEW j \in 1 .. Len(old), j > 1 PROVE \lnot Says(old[j])
        OBVIOUS
      <3>1. j - 1 \in 1 .. Len(new) /\ new[j - 1] = old[j]
        BY <1>2
      <3> QED
        BY <1>1, <1>5, <3>1 DEF NothingSaid
    <2>2. 1 \in 1 .. Len(old)
      BY <1>2
    <2>3. CASE Says(Head(old))
      <3>1. LastWord(p)
        BY <1>5 DEF IInv, LastWordCounts
      <3> QED
        BY <1>2, <2>1, <2>2, <2>3, <3>1 DEF LastWord
    <2>4. CASE \lnot Says(Head(old))
      <3>1. \A i \in 1 .. Len(old) : i = 1 \/ i > 1
        BY <1>2
      <3> QED
        BY <1>2, <2>1, <2>4, <3>1 DEF NothingSaid
    <2> QED
      BY <2>3, <2>4
  <1> QED
    BY <1>2, <1>3, <1>4, <1>5

\* After any message the page follows the room, or has missed something.
LEMMA OnMessageInductive ==
  ASSUME IInv, NEW p \in Pages, OnMessage(p) PROVE IInv'
  <1> DEFINE m == Head(inbox[p])
  <1>1. /\ page[p] \in PageStates
        /\ \lnot page[p].ready => page[p].asked = {} /\ page[p].suppress = 0 /\ page[p].known = page[p].vk
        /\ page[p].ready => page[p].video # NoSource
        /\ sent[p] \in Nat /\ causes[p] \in Nat /\ sent[p] <= causes[p]
        /\ page[p].suppress = 0 /\ page[p].vk # page[p].known => sent[p] < causes[p]
        /\ page \in [Pages -> PageStates] /\ missed \in [Pages -> BOOLEAN]
    BY DEF IInv, TypeOK, Accounted
  <1>2. /\ m \in Messages
        /\ inbox' \in [Pages -> Seq(Messages)] /\ Len(inbox'[p]) <= MaxInbox
        /\ \A q \in Pages \ {p} : inbox'[q] = inbox[q]
        /\ p \in Online => LastWord(p)'
        /\ p \in Online /\ NothingSaid(p)' =>
             IF Says(m) THEN m.playback = playback ELSE NothingSaid(p)
    BY ReadingAMessage DEF OnMessage
  <1>3. /\ Extended /\ UNCHANGED <<chosen, patching, playback, upsets>>
        /\ causes' \in [Pages -> Nat] /\ sent' \in [Pages -> Nat] /\ UNCHANGED <<causes, sent>>
    BY DEF OnMessage, Extended, IInv, TypeOK
  <1> HIDE DEF m
  <1>4. CASE OnSync(p, m)
    <2> DEFINE g == [page[p] EXCEPT !.pending = {m.playback}]
               h == IF g.ready THEN Told(g, m.playback) ELSE g
    <2>1. m.playback \in Playbacks /\ {m.playback} \in AtMostOne /\ Says(m)
      BY <1>2, <1>4 DEF OnSync, Messages, Events, AtMostOne, Says
    <2>2. /\ g \in PageStates /\ g.ready = page[p].ready /\ g.video = page[p].video
          /\ g.step = page[p].step /\ g.asked = page[p].asked /\ g.vk = page[p].vk
          /\ g.suppress = page[p].suppress /\ g.known = page[p].known /\ g.pending = {m.playback}
      BY <1>1, <2>1 DEF PageStates
    <2> HIDE DEF g
    <2>3. /\ h \in PageStates /\ h.ready = page[p].ready /\ h.video = page[p].video
          /\ h.step = page[p].step
          /\ IF h.ready THEN h.asked = {m.playback} /\ h.suppress # 0
             ELSE /\ h.pending = {m.playback} /\ h.asked = {} /\ h.suppress = 0
                  /\ h.known = h.vk
      BY <1>1, <2>1, <2>2, ToldIsAPage
    <2>4. page' = [page EXCEPT ![p] = h] /\ missed' = [missed EXCEPT ![p] = FALSE]
      BY <1>4 DEF OnSync, g
    <2> HIDE DEF h
    <2>5. page'[p] = h /\ missed' \in [Pages -> BOOLEAN]
          /\ \A q \in Pages \ {p} : missed'[q] = missed[q]
      BY <1>1, <2>4
    <2>6. p \in Online /\ NothingSaid(p)' => Follows(p)'
      BY <1>2, <1>3, <2>1, <2>3, <2>5 DEF Follows
    <2>7. h.suppress = 0 /\ h.vk # h.known => FALSE
      BY <2>3
    <2>8. /\ sent'[p] <= causes'[p]
          /\ \A q \in Pages \ {p} : causes'[q] = causes[q] /\ sent'[q] = sent[q]
      BY <1>1, <1>3
    <2> QED
      BY <1>1, <1>2, <1>3, <2>3, <2>4, <2>5, <2>6, <2>7, <2>8, StepOfAPage
  <1>5. CASE OnPlayer(p, m)
    <2> DEFINE h == IF page[p].ready THEN Told(page[p], m.playback) ELSE page[p]
    <2>1. m.playback \in Playbacks /\ Says(m)
      BY <1>2, <1>5 DEF OnPlayer, Messages, Events, Says
    <2>2. /\ h \in PageStates /\ h.ready = page[p].ready /\ h.video = page[p].video
          /\ h.step = page[p].step
          /\ IF h.ready THEN h.asked = {m.playback} /\ h.suppress # 0
             ELSE h.asked = {} /\ h.suppress = 0 /\ h.known = h.vk
      BY <1>1, <2>1, ToldIsAPage
    <2>3. page' = [page EXCEPT ![p] = h] /\ missed' = [missed EXCEPT ![p] = \lnot page[p].ready]
      BY <1>5 DEF OnPlayer
    <2> HIDE DEF h
    <2>4. /\ page'[p] = h /\ missed' \in [Pages -> BOOLEAN] /\ missed'[p] = \lnot page[p].ready
          /\ \A q \in Pages \ {p} : missed'[q] = missed[q]
      BY <1>1, <2>3, <2>2 DEF PageStates
    <2>5. p \in Online /\ NothingSaid(p)' /\ \lnot missed'[p] => Follows(p)'
      BY <1>2, <1>3, <2>1, <2>2, <2>4 DEF Follows
    <2>6. h.suppress = 0 /\ h.vk # h.known => FALSE
      BY <2>2
    <2>7. /\ sent'[p] <= causes'[p]
          /\ \A q \in Pages \ {p} : causes'[q] = causes[q] /\ sent'[q] = sent[q]
      BY <1>1, <1>3
    <2> QED
      BY <1>1, <1>2, <1>3, <2>2, <2>3, <2>4, <2>5, <2>6, <2>7, StepOfAPage
  <1>6. CASE OnSourceChanged(p, m)
    <2> DEFINE h == ShowVideo(page[p], m.source)
    <2>1. m.source \in Sources /\ \lnot Says(m)
      BY <1>2, <1>6 DEF OnSourceChanged, Messages, Events, Says
    <2>2. /\ h \in PageStates /\ \lnot h.ready /\ h.asked = {} /\ h.suppress = 0
          /\ h.known = h.vk /\ h.pending = page[p].pending /\ h.step = page[p].step
      BY <1>1, <2>1, ShowVideoIsAPage
    <2>3. /\ page' = [page EXCEPT ![p] = h]
          /\ missed' = [missed EXCEPT ![p] = @ \/ page[p].ready \/ page[p].pending = {}]
      BY <1>6 DEF OnSourceChanged
    <2> HIDE DEF h
    <2>4. /\ page'[p] = h /\ missed' \in [Pages -> BOOLEAN]
          /\ missed'[p] = (missed[p] \/ page[p].ready \/ page[p].pending = {})
          /\ \A q \in Pages \ {p} : missed'[q] = missed[q]
      BY <1>1, <2>3
    <2>5. p \in Online /\ NothingSaid(p)' /\ \lnot missed'[p] => Follows(p)'
      <3> SUFFICES ASSUME p \in Online, NothingSaid(p)', \lnot missed'[p] PROVE Follows(p)'
        OBVIOUS
      <3>1. Follows(p) /\ \lnot page[p].ready
        BY <1>2, <2>1, <2>4 DEF IInv, PagesFollow
      <3> QED
        BY <1>3, <2>2, <2>4, <3>1 DEF Follows
    <2>6. /\ sent'[p] <= causes'[p]
          /\ \A q \in Pages \ {p} : causes'[q] = causes[q] /\ sent'[q] = sent[q]
      BY <1>1, <1>3
    <2> QED
      BY <1>1, <1>2, <1>3, <2>2, <2>3, <2>4, <2>5, <2>6, StepOfAPage
  <1> QED
    BY <1>4, <1>5, <1>6 DEF OnMessage, m

-----------------------------------------------------------------------------
\* What the room does next is the last word to everybody who is connected.
LEMMA HandleEventInductive ==
  ASSUME IInv, HandleEvent PROVE IInv'
  <1> DEFINE m == Head(incoming)
  <1>1. /\ m \in Events /\ m = incoming[1] /\ incoming' \in Seq(Events)
        /\ Len(incoming') = Len(incoming) - 1 /\ Len(incoming) \in Nat \ {0}
        /\ Len(incoming) <= IncomingBuf
        /\ \A i \in 1 .. Len(incoming') : incoming'[i] = incoming[i + 1]
    BY DEF IInv, TypeOK, HandleEvent
  <1>2. /\ playback' = IF m.type = "player" THEN m.playback ELSE playback
        /\ inbox' = [p \in Pages |-> IF p \in Online THEN Append(inbox[p], m) ELSE inbox[p]]
        /\ \A p \in Online : Len(inbox[p]) < MaxInbox
        /\ UNCHANGED <<chosen, patching, page, causes, sent, missed, upsets>>
    BY DEF HandleEvent
  <1> HIDE DEF m
  <1>3. /\ m \in Messages
        /\ m.type = "player" => m.playback \in Playbacks /\ Says(m)
        /\ m.type # "player" => \lnot Says(m)
    BY <1>1 DEF Events, Messages, Says
  <1>4. \A p \in Pages : inbox[p] \in Seq(Messages) /\ Len(inbox[p]) <= MaxInbox
    BY DEF IInv, TypeOK
  <1>5. Online' = Online /\ Online \subseteq Pages
    BY <1>2 DEF Online
  <1>6. ASSUME NEW p \in Online
        PROVE  /\ Len(inbox[p]) \in Nat /\ Len(inbox'[p]) = Len(inbox[p]) + 1
               /\ inbox'[p][Len(inbox[p]) + 1] = m
               /\ \A i \in 1 .. Len(inbox[p]) : inbox'[p][i] = inbox[p][i]
    <2>1. inbox'[p] = Append(inbox[p], m) /\ inbox[p] \in Seq(Messages)
      BY <1>2, <1>4, <1>5
    <2> QED
      BY <1>3, <2>1
  <1>7. TypeOK'
    <2>1. \A p \in Pages : inbox'[p] \in Seq(Messages) /\ Len(inbox'[p]) <= MaxInbox
      <3> SUFFICES ASSUME NEW p \in Pages PROVE inbox'[p] \in Seq(Messages) /\ Len(inbox'[p]) <= MaxInbox
        OBVIOUS
      <3>1. CASE p \in Online
        BY <1>2, <1>3, <1>4, <1>6, <3>1, ConstantsAssumption
      <3>2. CASE p \notin Online
        BY <1>2, <1>4, <3>2
      <3> QED
        BY <3>1, <3>2
    <2>2. inbox' \in [Pages -> Seq(Messages)]
      BY <1>2, <2>1
    <2>3. playback' \in Playbacks
      BY <1>2, <1>3 DEF IInv, TypeOK
    <2>4. Len(incoming') <= IncomingBuf
      BY <1>1, ConstantsAssumption
    <2> QED
      BY <1>1, <1>2, <2>1, <2>2, <2>3, <2>4 DEF IInv, TypeOK
  <1>8. Accounted'
    BY <1>2 DEF IInv, Accounted
  <1>9. ASSUME NEW p \in Online PROVE LastWord(p)'
    <2> SUFFICES ASSUME NEW i \in 1 .. Len(inbox'[p]), Says(inbox'[p][i]),
                        \A j \in 1 .. Len(inbox'[p]) : j > i => \lnot Says(inbox'[p][j])
                 PROVE  inbox'[p][i].playback = playback'
      BY DEF LastWord
    <2>1. CASE i = Len(inbox[p]) + 1
      BY <1>2, <1>3, <1>6, <2>1
    <2>2. CASE i # Len(inbox[p]) + 1
      <3>1. i \in 1 .. Len(inbox[p]) /\ Len(inbox[p]) + 1 \in 1 .. Len(inbox'[p]) /\ Len(inbox[p]) + 1 > i
        BY <1>6, <2>2
      <3>2. \lnot Says(m) /\ playback' = playback
        BY <1>2, <1>3, <1>6, <3>1
      <3>3. \A j \in 1 .. Len(inbox[p]) : j \in 1 .. Len(inbox'[p]) /\ inbox'[p][j] = inbox[p][j]
        BY <1>6
      <3>4. LastWord(p)
        BY DEF IInv, LastWordCounts
      <3> QED
        BY <3>1, <3>2, <3>3, <3>4 DEF LastWord
    <2> QED
      BY <2>1, <2>2
  <1>10. ASSUME NEW p \in Online, NothingSaid(p)', \lnot missed'[p] PROVE Follows(p)'
    <2>1. \lnot Says(m) /\ m.type # "player" /\ playback' = playback
      <3>1. Len(inbox[p]) + 1 \in 1 .. Len(inbox'[p])
        BY <1>6
      <3> QED
        BY <1>2, <1>3, <1>6, <1>10, <3>1 DEF NothingSaid
    <2>2. NothingSaid(p)
      <3>1. \A j \in 1 .. Len(inbox[p]) : j \in 1 .. Len(inbox'[p]) /\ inbox'[p][j] = inbox[p][j]
        BY <1>6
      <3> QED
        BY <1>10, <3>1 DEF NothingSaid
    <2>3. Follows(p)
      BY <1>2, <1>10, <2>2 DEF IInv, PagesFollow
    <2>4. ASSUME NEW i \in 1 .. Len(incoming), incoming[i].type = "player"
          PROVE  \E j \in 1 .. Len(incoming') : incoming'[j].type = "player"
      <3>1. i # 1
        BY <1>1, <2>1, <2>4
      <3>2. i - 1 \in 1 .. Len(incoming') /\ incoming'[i - 1] = incoming[i]
        BY <1>1, <3>1
      <3> QED
        BY <2>4, <3>2
    <2> QED
      BY <1>2, <2>1, <2>3, <2>4 DEF Follows
  <1> QED
    BY <1>5, <1>7, <1>8, <1>9, <1>10 DEF IInv, LastWordCounts, PagesFollow

\* Who connects is told what the room does.
LEMMA ConnectInductive ==
  ASSUME IInv, NEW p \in Pages, Connect(p) PROVE IInv'
  <1> DEFINE h == [page[p] EXCEPT !.step = "online"]
             m == [type |-> "sync", playback |-> playback]
  <1>1. /\ page \in [Pages -> PageStates] /\ inbox \in [Pages -> Seq(Messages)]
        /\ page[p] \in PageStates /\ page' = [page EXCEPT ![p] = h]
        /\ inbox' = [inbox EXCEPT ![p] = <<m>>]
        /\ UNCHANGED <<chosen, patching, playback, incoming, causes, sent, missed, upsets>>
    BY DEF IInv, TypeOK, Connect
  <1>2. /\ h \in PageStates /\ h.ready = page[p].ready /\ h.video = page[p].video
        /\ h.asked = page[p].asked /\ h.vk = page[p].vk /\ h.suppress = page[p].suppress
        /\ h.known = page[p].known /\ h.step = "online"
    BY <1>1 DEF PageStates
  <1>3. m \in Messages /\ Says(m) /\ m.playback = playback
    BY DEF Messages, Says, IInv, TypeOK
  <1> HIDE DEF m
  <1>4. <<m>> \in Seq(Messages) /\ Len(<<m>>) = 1 /\ <<m>>[1] = m
    BY <1>3
  <1>5. /\ inbox' \in [Pages -> Seq(Messages)] /\ inbox'[p] = <<m>>
        /\ page' \in [Pages -> PageStates] /\ page'[p] = h
        /\ \A q \in Pages \ {p} : inbox'[q] = inbox[q] /\ page'[q] = page[q]
    BY <1>1, <1>2, <1>4
  <1> HIDE DEF h
  <1>6. Online' = Online \cup {p} /\ Online \subseteq Pages
    BY <1>2, <1>5 DEF Online
  <1>7. TypeOK'
    <2>1. \A q \in Pages : Len(inbox'[q]) <= MaxInbox
      <3>1. \A q \in Pages : Len(inbox[q]) <= MaxInbox
        BY DEF IInv, TypeOK
      <3>2. Len(inbox'[p]) <= MaxInbox
        BY <1>4, <1>5, ConstantsAssumption
      <3> QED
        BY <1>5, <3>1, <3>2
    <2>2. \A q \in Pages : \lnot page'[q].ready =>
            page'[q].asked = {} /\ page'[q].suppress = 0 /\ page'[q].known = page'[q].vk
      BY <1>2, <1>5 DEF IInv, TypeOK
    <2>3. \A q \in Pages : page'[q].ready => page'[q].video # NoSource
      BY <1>2, <1>5 DEF IInv, TypeOK
    <2> QED
      BY <1>1, <1>5, <2>1, <2>2, <2>3 DEF IInv, TypeOK
  <1>8. Accounted'
    BY <1>1, <1>2, <1>5 DEF IInv, Accounted
  <1>9. LastWord(p)' /\ \lnot NothingSaid(p)'
    BY <1>1, <1>3, <1>4, <1>5 DEF LastWord, NothingSaid
  <1>10. ASSUME NEW q \in Online, q # p
         PROVE  LastWord(q)' /\ (NothingSaid(q)' /\ \lnot missed'[q] => Follows(q)')
    <2>1. /\ inbox'[q] = inbox[q] /\ page'[q] = page[q] /\ missed' = missed
          /\ playback' = playback /\ incoming' = incoming
      BY <1>1, <1>5, <1>6, <1>10
    <2>2. LastWord(q) /\ (NothingSaid(q) /\ \lnot missed[q] => Follows(q))
      BY DEF IInv, LastWordCounts, PagesFollow
    <2>3. LastWord(q)'
      BY <2>1, <2>2 DEF LastWord
    <2>4. NothingSaid(q)' /\ \lnot missed'[q] => Follows(q)'
      BY <2>1, <2>2 DEF NothingSaid, Follows
    <2> QED
      BY <2>3, <2>4
  <1> QED
    BY <1>6, <1>7, <1>8, <1>9, <1>10 DEF IInv, LastWordCounts, PagesFollow

\* Who loses the connection need not follow; with the last one the room starts
\* again, and there is nobody left to follow it.
LEMMA DisconnectInductive ==
  ASSUME IInv, NEW p \in Pages, Disconnect(p) PROVE IInv'
  <1> DEFINE h == [page[p] EXCEPT !.step = "offline"]
  <1>1. /\ page \in [Pages -> PageStates] /\ inbox \in [Pages -> Seq(Messages)]
        /\ page[p] \in PageStates /\ page' = [page EXCEPT ![p] = h]
        /\ inbox' = [inbox EXCEPT ![p] = <<>>]
        /\ UNCHANGED <<chosen, patching, causes, sent, missed>> /\ upsets' \in 0 .. MaxUpsets
    BY ConstantsAssumption DEF IInv, TypeOK, Disconnect, Upset
  <1>2. /\ h \in PageStates /\ h.ready = page[p].ready /\ h.video = page[p].video
        /\ h.asked = page[p].asked /\ h.vk = page[p].vk /\ h.suppress = page[p].suppress
        /\ h.known = page[p].known /\ h.step = "offline"
    BY <1>1 DEF PageStates
  <1>3. /\ inbox' \in [Pages -> Seq(Messages)] /\ inbox'[p] = <<>> /\ Len(inbox'[p]) = 0
        /\ page' \in [Pages -> PageStates] /\ page'[p] = h
        /\ \A q \in Pages \ {p} : inbox'[q] = inbox[q] /\ page'[q] = page[q]
    BY <1>1, <1>2
  <1> HIDE DEF h
  <1>4. Online' = Online \ {p} /\ Online \subseteq Pages
    BY <1>2, <1>3 DEF Online
  <1>5. playback' \in Playbacks /\ incoming' \in Seq(Events) /\ Len(incoming') <= IncomingBuf
    <2>1. playback \in Playbacks /\ incoming \in Seq(Events) /\ Len(incoming) <= IncomingBuf
      BY DEF IInv, TypeOK
    <2>2. Stopped \in Playbacks
      BY ConstantsAssumption DEF Stopped, Playbacks
    <2>3. /\ playback' = Stopped \/ playback' = playback
          /\ incoming' = <<>> \/ incoming' = incoming
      BY DEF Disconnect
    <2>4. <<>> \in Seq(Events) /\ Len(<<>>) <= IncomingBuf
      BY ConstantsAssumption
    <2>5. incoming' \in Seq(Events) /\ Len(incoming') <= IncomingBuf
      BY <2>1, <2>3, <2>4
    <2> QED
      BY <2>1, <2>2, <2>3, <2>5
  <1>6. TypeOK'
    <2>1. \A q \in Pages : Len(inbox'[q]) <= MaxInbox
      BY <1>3, ConstantsAssumption DEF IInv, TypeOK
    <2>2. \A q \in Pages : \lnot page'[q].ready =>
            page'[q].asked = {} /\ page'[q].suppress = 0 /\ page'[q].known = page'[q].vk
      BY <1>2, <1>3 DEF IInv, TypeOK
    <2>3. \A q \in Pages : page'[q].ready => page'[q].video # NoSource
      BY <1>2, <1>3 DEF IInv, TypeOK
    <2> QED
      BY <1>1, <1>3, <1>5, <2>1, <2>2, <2>3 DEF IInv, TypeOK
  <1>7. Accounted'
    BY <1>1, <1>2, <1>3 DEF IInv, Accounted
  <1>8. ASSUME NEW q \in Online, q # p
         PROVE  LastWord(q)' /\ (NothingSaid(q)' /\ \lnot missed'[q] => Follows(q)')
    <2>1. /\ inbox'[q] = inbox[q] /\ page'[q] = page[q] /\ missed' = missed
          /\ playback' = playback /\ incoming' = incoming
      BY <1>1, <1>3, <1>4, <1>8 DEF Disconnect
    <2>2. LastWord(q) /\ (NothingSaid(q) /\ \lnot missed[q] => Follows(q))
      BY DEF IInv, LastWordCounts, PagesFollow
    <2>3. LastWord(q)'
      BY <2>1, <2>2 DEF LastWord
    <2>4. NothingSaid(q)' /\ \lnot missed'[q] => Follows(q)'
      BY <2>1, <2>2 DEF NothingSaid, Follows
    <2> QED
      BY <2>3, <2>4
  <1> QED
    BY <1>4, <1>6, <1>7, <1>8 DEF IInv, LastWordCounts, PagesFollow

-----------------------------------------------------------------------------
\* No step breaks the invariant.
LEMMA NextInductive == IInv /\ [Next]_vars => IInv'
  <1> SUFFICES ASSUME IInv, [Next]_vars PROVE IInv'
    OBVIOUS
  <1>1. CASE Next
    BY <1>1, PatchSourceInductive, AnnounceInductive, HandleEventInductive, ConnectInductive,
       DisconnectInductive, LoadRoomInductive, InitPlayerInductive, OnMessageInductive,
       PollSuppressedInductive, PollChangedInductive, ObeyInductive, UserActsInductive DEF Next
  <1>2. CASE UNCHANGED vars
    BY <1>2 DEF vars, IInv, TypeOK, Accounted, LastWordCounts, LastWord, PagesFollow,
       NothingSaid, Follows, Online
  <1> QED
    BY <1>1, <1>2

LEMMA Inductive == Spec => []IInv
  BY InitInductive, NextInductive, PTL DEF Spec

\* The variables of the pages and of the room have their types, and a page
\* without a player waits for nothing, whatever order messages and clicks take.
THEOREM TypeCorrect == Spec => []TypeOK
  <1>1. IInv => TypeOK
    BY DEF IInv
  <1> QED
    BY <1>1, Inductive, PTL

\* No page ever sends an event without a cause: what applyRemoteCommand does to a
\* player that obeys in time does not come back through pollPlayer.
THEOREM EventsDoNotEcho == Spec => []NoEcho
  <1>1. IInv => NoEcho
    BY DEF IInv, Accounted, NoEcho
  <1> QED
    BY <1>1, Inductive, PTL

\* A page at rest that missed nothing does what the room does.
THEOREM PagesStayInStep == Spec => []InStepUnlessMissed
  <1>1. IInv => InStepUnlessMissed
    <2> SUFFICES ASSUME IInv, NEW p \in Pages, Settled(p), \lnot missed[p]
                 PROVE  page[p].vk = playback
      BY DEF InStepUnlessMissed
    <2>1. p \in Online /\ NothingSaid(p)
      BY DEF Settled, NothingSaid
    <2>2. Follows(p)
      BY <2>1 DEF IInv, PagesFollow
    <2> QED
      BY <2>2 DEF Follows, Settled
  <1> QED
    BY <1>1, Inductive, PTL
=============================================================================
