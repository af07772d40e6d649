---------------------------- MODULE PlaybackProofs ----------------------------
(***************************************************************************)
(* Theorems about Playback, for any clients, sources, positions, buffers   *)
(* and number of events; Playback implements SharedPlayback.               *)
(***************************************************************************)
EXTENDS Playback, SequenceTheorems, TLAPS

\* MessagesChain for one client, which believes in state h and has the messages
\* of q before it.
Chain(h, q) ==
  \A i \in 1 .. Len(q) :
    Learned(IF i = 1 THEN h ELSE q[i - 1].after, q[i].msg) = q[i].after

\* What the client believes in after the last of them.
Last(h, q) == IF q = <<>> THEN h ELSE q[Len(q)].after

\* A client that is not connected yet has no messages.
InStep ==
  \A c \in Clients :
    /\ Chain(heard[c], queue[c])
    /\ link[c] = "member" => Last(heard[c], queue[c]) = state
    /\ link[c] = "new" => queue[c] = <<>>

IInv == TypeOK /\ InStep

-----------------------------------------------------------------------------
(* States, events and messages.                                            *)

LEMMA InitialIsState == InitialState \in States
  BY ConstantsAssumption DEF InitialState, States

\* An event leads from a state to a state.
LEMMA AppliedIsState ==
  ASSUME NEW s \in States, NEW m \in Payloads
  PROVE  Applied(s, m) \in States
  BY DEF Applied, States, Payloads

\* What a client learns from a snapshot is the state it was taken of, whatever
\* it believed before.
LEMMA SyncTellsAll ==
  ASSUME NEW s \in States, NEW h
  PROVE  SyncOf(s) \in Payloads /\ Learned(h, SyncOf(s)) = s
  <1>1. SyncOf(s) \in Payloads
    <2>1. s.source \in Sources \cup {NoSource} /\ s.position \in Positions
      BY DEF States
    <2>2. "sync" \in Types /\ (IF s.playing THEN "true" ELSE "false") \in Optional
      BY DEF Types, Optional
    <2> QED
      BY <2>1, <2>2 DEF SyncOf, Payloads
  <1>2. Learned(h, SyncOf(s)) = s
    <2>1. s = [source |-> s.source, playing |-> s.playing, position |-> s.position]
      BY DEF States
    <2>2. s.playing \in BOOLEAN
      BY DEF States
    <2>3. ((IF s.playing THEN "true" ELSE "false") = "true") = s.playing
      BY <2>2
    <2> QED
      BY <2>1, <2>3 DEF SyncOf, Learned
  <1> QED
    BY <1>1, <1>2

\* What PatchSource makes is an event.
LEMMA SourceChangedTyped ==
  ASSUME NEW src \in Sources
  PROVE  [type |-> "source_changed", source |-> src, playing |-> "absent", position |-> 0]
           \in Payloads
  BY ConstantsAssumption DEF Payloads, Types, Optional

-----------------------------------------------------------------------------
(* Queues.                                                                 *)

\* A message that leads on from the end of a chain makes it longer.
LEMMA ChainAppend ==
  ASSUME NEW h, NEW q \in Seq(Messages), NEW e \in Messages,
         Chain(h, q), Learned(Last(h, q), e.msg) = e.after
  PROVE  Chain(h, Append(q, e)) /\ Last(h, Append(q, e)) = e.after
  <1> DEFINE p == Append(q, e)
  <1>1. /\ p # <<>> /\ Len(p) = Len(q) + 1 /\ p[Len(q) + 1] = e
        /\ \A i \in 1 .. Len(q) : p[i] = q[i]
    BY AppendProperties
  <1>2. Last(h, p) = e.after
    BY <1>1 DEF Last
  <1>3. ASSUME NEW i \in 1 .. Len(p)
        PROVE  Learned(IF i = 1 THEN h ELSE p[i - 1].after, p[i].msg) = p[i].after
    <2>1. Len(q) \in Nat /\ (q = <<>> <=> Len(q) = 0)
      BY EmptySeq
    <2>2. CASE i = Len(q) + 1
      <3>1. (IF i = 1 THEN h ELSE p[i - 1].after) = Last(h, q)
        BY <1>1, <2>1, <2>2 DEF Last
      <3> QED
        BY <1>1, <2>2, <3>1
    <2>3. CASE i # Len(q) + 1
      <3>1. i \in 1 .. Len(q) /\ p[i] = q[i] /\ (i # 1 => p[i - 1] = q[i - 1])
        BY <1>1, <2>1, <2>3
      <3> QED
        BY <3>1 DEF Chain
    <2> QED
      BY <2>2, <2>3
  <1> QED
    BY <1>2, <1>3 DEF Chain

\* Who takes the first message of a chain is left with a chain to the same end.
LEMMA ChainTail ==
  ASSUME NEW h, NEW q \in Seq(Messages), q # <<>>, Chain(h, q)
  PROVE  /\ Learned(h, Head(q).msg) = Head(q).after
         /\ Chain(Head(q).after, Tail(q))
         /\ Last(Head(q).after, Tail(q)) = Last(h, q)
  <1> DEFINE t == Tail(q)
  <1>1. /\ Head(q) = q[1] /\ t \in Seq(Messages) /\ Len(t) = Len(q) - 1 /\ Len(q) \in Nat \ {0}
        /\ \A i \in 1 .. Len(t) : t[i] = q[i + 1]
        /\ (t = <<>> <=> Len(t) = 0)
    <2>1. t \in Seq(Messages) /\ Len(t) = Len(q) - 1 /\ \A i \in 1 .. Len(t) : t[i] = q[i + 1]
      BY HeadTailProperties
    <2>2. Len(q) \in Nat \ {0}
      BY EmptySeq
    <2>3. t = <<>> <=> Len(t) = 0
      BY <2>1, EmptySeq
    <2>4. Head(q) = q[1]
      OBVIOUS
    <2> QED
      BY <2>1, <2>2, <2>3, <2>4
  <1>2. Learned(h, Head(q).msg) = Head(q).after
    BY <1>1 DEF Chain
  <1>3. ASSUME NEW i \in 1 .. Len(t)
        PROVE  Learned(IF i = 1 THEN Head(q).after ELSE t[i - 1].after, t[i].msg) = t[i].after
    <2>1. i + 1 \in 1 .. Len(q) /\ i + 1 # 1 /\ t[i] = q[i + 1] /\ (i + 1) - 1 = i
      BY <1>1
    <2>2. Learned(q[i].after, q[i + 1].msg) = q[i + 1].after
      BY <2>1 DEF Chain
    <2>3. (IF i = 1 THEN Head(q).after ELSE t[i - 1].after) = q[i].after
      BY <1>1
    <2> QED
      BY <2>1, <2>2, <2>3
  <1>4. Last(Head(q).after, t) = Last(h, q)
    BY <1>1 DEF Last
  <1> QED
    BY <1>2, <1>3, <1>4 DEF Chain

-----------------------------------------------------------------------------
(* The steps of the room.                                                  *)

\* The initial states satisfy the invariant.
LEMMA InitInductive == Init => IInv
  <1> SUFFICES ASSUME Init PROVE IInv
    OBVIOUS
  <1>1. TypeOK
    BY InitialIsState, ConstantsAssumption, EmptySeq DEF Init, TypeOK
  <1>2. Chain(InitialState, <<>>)
    BY EmptySeq DEF Chain
  <1>3. InStep
    BY <1>2 DEF Init, InStep
  <1> QED
    BY <1>1, <1>3 DEF IInv

\* A snapshot starts the chain of a new member at the state of the room.
LEMMA RegisterInductive ==
  ASSUME IInv, NEW c \in Clients, Register(c)
  PROVE  IInv'
  <1> USE DEF IInv, Register
  <1> DEFINE e == [msg |-> SyncOf(state), after |-> state]
  <1>1. state \in States /\ heard \in [Clients -> States] /\ queue \in [Clients -> Seq(Messages)]
    BY DEF TypeOK
  <1>2. e \in Messages
    BY <1>1, SyncTellsAll DEF Messages
  <1>3. queue'[c] = <<e>> /\ <<e>> = Append(<<>>, e)
    BY <1>1
  <1>4. Chain(heard[c], <<>>) /\ <<>> \in Seq(Messages)
    BY EmptySeq DEF Chain
  <1>5. Learned(Last(heard[c], <<>>), e.msg) = e.after
    BY <1>1, SyncTellsAll
  <1>6. Chain(heard[c], <<e>>) /\ Last(heard[c], <<e>>) = state
    <2>1. /\ Chain(heard[c], Append(<<>>, e))
          /\ Last(heard[c], Append(<<>>, e)) = e.after
      <3> HIDE DEF e
      <3> QED
        BY <1>2, <1>4, <1>5, ChainAppend
    <2> QED
      BY <2>1, <1>3
  <1>7. TypeOK'
    <2>1. <<e>> \in Seq(Messages) /\ Len(<<e>>) = 1
      BY <1>2
    <2>2. queue' \in [Clients -> Seq(Messages)] /\ \A d \in Clients : Len(queue'[d]) <= SendBuf
      BY <1>1, <2>1, ConstantsAssumption DEF TypeOK
    <2> QED
      BY <2>2 DEF TypeOK
  <1>8. InStep'
    <2> SUFFICES ASSUME NEW d \in Clients
                 PROVE  /\ Chain(heard[d], queue'[d])
                        /\ link'[d] = "member" => Last(heard[d], queue'[d]) = state
                        /\ link'[d] = "new" => queue'[d] = <<>>
      BY DEF InStep
    <2>1. CASE d = c
      BY <2>1, <1>3, <1>6 DEF TypeOK
    <2>2. CASE d # c
      BY <2>2 DEF InStep, TypeOK
    <2> QED
      BY <2>1, <2>2
  <1> QED
    BY <1>7, <1>8

\* A message that tells what it did to the state keeps everybody in step whom it
\* is sent to, and the others if it did nothing.  Who is slow is no member any more.
LEMMA BroadcastInStep ==
  ASSUME IInv, NEW m \in Payloads, m.type # "sync", NEW to \in SUBSET members,
         Broadcast(m, to), state' = Applied(state, m), state' = state \/ to = members,
         heard' = heard
  PROVE  /\ state' \in States
         /\ link' \in [Clients -> {"new", "member", "dropped", "gone"}]
         /\ queue' \in [Clients -> Seq(Messages)]
         /\ \A c \in Clients : Len(queue'[c]) <= SendBuf
         /\ InStep'
  <1> USE DEF IInv, Broadcast
  <1> DEFINE e == [msg |-> m, after |-> state']
  <1>1. state' \in States
    BY AppliedIsState DEF TypeOK
  <1>2. e \in Messages
    BY <1>1 DEF Messages
  <1>3. link' \in [Clients -> {"new", "member", "dropped", "gone"}]
    BY DEF TypeOK
  <1>4. ASSUME NEW c \in to \ Slow(to)
        PROVE  /\ c \in Clients /\ link[c] = "member" /\ link'[c] = "member"
               /\ queue'[c] = Append(queue[c], e)
               /\ Append(queue[c], e) \in Seq(Messages)
               /\ Len(queue'[c]) <= SendBuf
               /\ Chain(heard[c], queue'[c]) /\ Last(heard[c], queue'[c]) = state'
    <2>1. c \in Clients /\ link[c] = "member" /\ link'[c] = "member"
      BY DEF members
    <2>2. queue'[c] = Append(queue[c], e)
      BY <2>1
    <2>3. queue[c] \in Seq(Messages) /\ Len(queue[c]) <= SendBuf /\ Len(queue[c]) # SendBuf
      BY <2>1 DEF TypeOK, Slow
    <2>4. Append(queue[c], e) \in Seq(Messages) /\ Len(Append(queue[c], e)) = Len(queue[c]) + 1
      BY <2>3, <1>2, AppendProperties
    <2>5. Len(queue'[c]) <= SendBuf
      BY <2>2, <2>3, <2>4, LenProperties, ConstantsAssumption
    <2>6. Chain(heard[c], queue[c]) /\ Last(heard[c], queue[c]) = state
      BY <2>1 DEF InStep
    <2>7. Learned(state, m) = state'
      BY DEF Learned
    <2>8. Chain(heard[c], Append(queue[c], e)) /\ Last(heard[c], Append(queue[c], e)) = state'
      BY <1>2, <2>3, <2>6, <2>7, ChainAppend
    <2> QED
      BY <2>1, <2>2, <2>4, <2>5, <2>8
  <1>5. ASSUME NEW c \in Clients, c \notin to \ Slow(to)
        PROVE  /\ queue'[c] = queue[c]
               /\ link'[c] \in {link[c], "dropped"}
               /\ link'[c] = "member" => link[c] = "member" /\ state' = state
    BY <1>5 DEF members
  <1>6. queue' \in [Clients -> Seq(Messages)] /\ \A c \in Clients : Len(queue'[c]) <= SendBuf
    BY <1>4, <1>5 DEF TypeOK
  <1>7. InStep'
    <2> SUFFICES ASSUME NEW c \in Clients
                 PROVE  /\ Chain(heard[c], queue'[c])
                        /\ link'[c] = "member" => Last(heard[c], queue'[c]) = state'
                        /\ link'[c] = "new" => queue'[c] = <<>>
      BY DEF InStep
    <2>1. CASE c \in to \ Slow(to)
      BY <2>1, <1>4
    <2>2. CASE c \notin to \ Slow(to)
      BY <2>2, <1>5 DEF InStep
    <2> QED
      BY <2>1, <2>2
  <1> QED
    BY <1>1, <1>3, <1>6, <1>7

\* What the hub does with an event: player events go to all, a chat changes
\* nothing.
LEMMA HandleEventInductive ==
  ASSUME IInv, HandleEvent
  PROVE  IInv'
  <1> USE DEF IInv
  <1> DEFINE evt == Head(incoming)
  <1>1. evt \in Events /\ Tail(incoming) \in Seq(Events) /\ incoming' = Tail(incoming)
    BY HeadTailProperties DEF HandleEvent, TypeOK
  <1>2. evt.msg \in Payloads /\ heard' = heard /\ events' = events
    BY <1>1 DEF Events, HandleEvent
  <1>3. CASE HandlePlayer(evt)
    <2>1. evt.msg.type # "sync" /\ members \in SUBSET members
      BY <1>3 DEF HandlePlayer
    <2>2. Broadcast(evt.msg, members) /\ state' = Applied(state, evt.msg) /\ run' = run
      BY <1>3 DEF HandlePlayer
    <2>3. /\ state' \in States
          /\ link' \in [Clients -> {"new", "member", "dropped", "gone"}]
          /\ queue' \in [Clients -> Seq(Messages)]
          /\ \A c \in Clients : Len(queue'[c]) <= SendBuf
          /\ InStep'
      BY <1>2, <2>1, <2>2, BroadcastInStep
    <2> QED
      BY <1>1, <1>2, <2>2, <2>3 DEF TypeOK
  <1>4. CASE HandleChat(evt)
    <2>1. evt.msg.type # "sync" /\ members \ {evt.sender} \in SUBSET members
      BY <1>4 DEF HandleChat
    <2>2. Broadcast(evt.msg, members \ {evt.sender}) /\ state' = state /\ run' \in {"stopping", run}
      BY <1>4 DEF HandleChat
    <2>3. state = Applied(state, evt.msg)
      BY <1>4 DEF HandleChat, Applied, TypeOK, States
    <2>4. /\ state' \in States
          /\ link' \in [Clients -> {"new", "member", "dropped", "gone"}]
          /\ queue' \in [Clients -> Seq(Messages)]
          /\ \A c \in Clients : Len(queue'[c]) <= SendBuf
          /\ InStep'
      BY <1>2, <2>1, <2>2, <2>3, BroadcastInStep
    <2> QED
      BY <1>1, <1>2, <2>2, <2>4 DEF TypeOK
  <1>5. CASE HandleIgnored(evt)
    BY <1>1, <1>2, <1>5 DEF HandleIgnored, TypeOK, InStep
  <1> QED
    BY <1>3, <1>4, <1>5 DEF HandleEvent

\* A client takes the first message of its chain.
LEMMA DeliverInductive ==
  ASSUME IInv, NEW c \in Clients, Deliver(c)
  PROVE  IInv'
  <1> USE DEF IInv, Deliver
  <1>1. heard[c] \in States /\ queue[c] \in Seq(Messages) /\ Chain(heard[c], queue[c])
    BY DEF TypeOK, InStep
  <1>2. /\ Learned(heard[c], Head(queue[c]).msg) = Head(queue[c]).after
        /\ Chain(Head(queue[c]).after, Tail(queue[c]))
        /\ Last(Head(queue[c]).after, Tail(queue[c])) = Last(heard[c], queue[c])
    BY <1>1, ChainTail
  <1>3. /\ Head(queue[c]) \in Messages /\ Tail(queue[c]) \in Seq(Messages)
        /\ Len(Tail(queue[c])) = Len(queue[c]) - 1
    BY <1>1, HeadTailProperties
  <1>4. heard'[c] = Head(queue[c]).after /\ queue'[c] = Tail(queue[c])
    BY <1>2 DEF TypeOK
  <1>5. \A d \in Clients : d # c => heard'[d] = heard[d] /\ queue'[d] = queue[d]
    BY DEF TypeOK
  <1>6. TypeOK'
    <2>1. Head(queue[c]).after \in States
      BY <1>3 DEF Messages
    <2>2. heard' \in [Clients -> States]
      BY <1>2, <2>1 DEF TypeOK
    <2>3. queue' \in [Clients -> Seq(Messages)]
      BY <1>3 DEF TypeOK
    <2>4. Len(queue[c]) \in Nat /\ Len(queue[c]) <= SendBuf /\ SendBuf \in Nat
      BY <1>1, LenProperties, ConstantsAssumption DEF TypeOK
    <2>5. \A d \in Clients : Len(queue'[d]) <= SendBuf
      BY <1>3, <1>4, <1>5, <2>4 DEF TypeOK
    <2> QED
      BY <2>2, <2>3, <2>5 DEF TypeOK
  <1>7. InStep'
    <2> SUFFICES ASSUME NEW d \in Clients
                 PROVE  /\ Chain(heard'[d], queue'[d])
                        /\ link[d] = "member" => Last(heard'[d], queue'[d]) = state
                        /\ link[d] = "new" => queue'[d] = <<>>
      BY DEF InStep
    <2>1. CASE d = c
      BY <2>1, <1>2, <1>4 DEF InStep
    <2>2. CASE d # c
      BY <2>2, <1>5 DEF InStep
    <2> QED
      BY <2>1, <2>2
  <1> QED
    BY <1>6, <1>7

\* Nothing but its queue is touched when an event enters the hub.
LEMMA PushInductive ==
  ASSUME IInv, NEW m \in Payloads, NEW c \in Clients \cup {Server}, Push(m, c)
  PROVE  IInv'
  <1>1. [msg |-> m, sender |-> c] \in Events
    BY DEF Events
  <1>2. incoming' \in Seq(Events)
    BY <1>1, AppendProperties DEF IInv, TypeOK, Push
  <1>3. events' \in 0 .. MaxEvents
    BY ConstantsAssumption DEF IInv, TypeOK, Push
  <1> QED
    BY <1>2, <1>3 DEF IInv, TypeOK, InStep, Push

\* Who leaves, is hung up on or sees the room start afresh is no member.
LEMMA LeaveInductive ==
  ASSUME IInv, (\E c \in Clients : Unregister(c)) \/ DeleteRoom \/ ReplaceHub
  PROVE  IInv'
  <1> USE DEF IInv
  <1>1. ASSUME NEW c \in Clients, Unregister(c)
        PROVE  IInv'
    BY <1>1 DEF Unregister, TypeOK, InStep
  <1>2. CASE DeleteRoom
    BY <1>2 DEF DeleteRoom, TypeOK, InStep
  <1>3. CASE ReplaceHub
    <2>1. TypeOK'
      BY <1>3, InitialIsState, EmptySeq DEF ReplaceHub, TypeOK
    <2>2. InStep'
      BY <1>3 DEF ReplaceHub, TypeOK, InStep
    <2> QED
      BY <2>1, <2>2
  <1> QED
    BY <1>1, <1>2, <1>3

LEMMA NextInductive == IInv /\ [Next]_vars => IInv'
  <1> SUFFICES ASSUME IInv, [Next]_vars PROVE IInv'
    OBVIOUS
  <1>1. ASSUME NEW c \in Clients, Register(c) \/ Unregister(c) \/ Deliver(c)
        PROVE  IInv'
    BY <1>1, RegisterInductive, LeaveInductive, DeliverInductive
  <1>2. ASSUME NEW c \in Clients, NEW m \in ClientPayloads, ClientSends(c, m)
        PROVE  IInv'
    BY <1>2, PushInductive DEF ClientSends, ClientPayloads
  <1>3. ASSUME NEW src \in Sources, SourceChanged(src)
        PROVE  IInv'
    BY <1>3, PushInductive, SourceChangedTyped DEF SourceChanged
  <1>4. CASE HandleEvent
    BY <1>4, HandleEventInductive
  <1>5. CASE DeleteRoom \/ ReplaceHub
    BY <1>5, LeaveInductive
  <1>6. CASE UNCHANGED vars
    BY <1>6 DEF vars, IInv, TypeOK, InStep
  <1> QED
    BY <1>1, <1>2, <1>3, <1>4, <1>5, <1>6 DEF Next

LEMMA Inductive == Spec => []IInv
  BY InitInductive, NextInductive, PTL DEF Spec

-----------------------------------------------------------------------------
(* Theorems.                                                               *)

\* The variables have their types, and no buffer holds more than SendBuf messages.
THEOREM TypeCorrect == Spec => []TypeOK
  <1>1. IInv => TypeOK
    BY DEF IInv
  <1> QED
    BY <1>1, Inductive, PTL

\* What a client believes in after all of its messages is what Last says, and
\* its messages form a chain.
LEMMA BelievesIsLast ==
  ASSUME IInv, NEW c \in Clients
  PROVE  /\ Believes(c, Len(queue[c])) = Last(heard[c], queue[c])
         /\ \A i \in 1 .. Len(queue[c]) :
              Learned(Believes(c, i - 1), queue[c][i].msg) = queue[c][i].after
  <1>1. queue[c] \in Seq(Messages) /\ Chain(heard[c], queue[c])
    BY DEF IInv, TypeOK, InStep
  <1>2. queue[c] = <<>> <=> Len(queue[c]) = 0
    BY <1>1, EmptySeq
  <1>3. Believes(c, Len(queue[c])) = Last(heard[c], queue[c])
    BY <1>2 DEF Believes, Last
  <1>4. ASSUME NEW i \in 1 .. Len(queue[c])
        PROVE  Learned(Believes(c, i - 1), queue[c][i].msg) = queue[c][i].after
    <2>1. Believes(c, i - 1) = IF i = 1 THEN heard[c] ELSE queue[c][i - 1].after
      BY DEF Believes
    <2> QED
      BY <1>1, <2>1 DEF Chain
  <1> QED
    BY <1>3, <1>4

\* From the sync on, the messages of a client lead it through states of the room,
\* one after the other, however many events, clients and buffers there are.
THEOREM EverybodySeesAChain == Spec => []MessagesChain
  <1>1. IInv => MessagesChain
    BY BelievesIsLast DEF MessagesChain
  <1> QED
    BY <1>1, Inductive, PTL

\* A member that takes everything out of its buffer is in the state of the hub.
THEOREM MembersStayInStep == Spec => []MembersInStep
  <1>1. ASSUME IInv PROVE MembersInStep
    <2> SUFFICES ASSUME NEW c \in members
                 PROVE  Believes(c, Len(queue[c])) = state
      BY DEF MembersInStep
    <2>1. c \in Clients /\ link[c] = "member"
      BY DEF members
    <2> QED
      BY <1>1, <2>1, BelievesIsLast DEF IInv, InStep
  <1> QED
    BY <1>1, Inductive, PTL

-----------------------------------------------------------------------------
(* Playback implements SharedPlayback.                                     *)

\* The states that the messages of q lead to.
Afters(q) == [i \in 1 .. Len(q) |-> q[i].after]

Ahead == [c \in Clients |-> Afters(queue[c])]

LEMMA AftersTyped ==
  ASSUME NEW q \in Seq(Messages)
  PROVE  /\ Afters(q) \in Seq(States) /\ Len(Afters(q)) = Len(q)
         /\ \A i \in 1 .. Len(q) : Afters(q)[i] = q[i].after
  <1>1. Len(q) \in Nat /\ \A i \in 1 .. Len(q) : q[i] \in Messages
    BY LenProperties, ElementOfSeq
  <1>2. Afters(q) \in [1 .. Len(q) -> States]
    BY <1>1 DEF Afters, Messages
  <1>3. Afters(q) \in Seq(States)
    BY <1>1, <1>2, SeqDef
  <1>4. Len(Afters(q)) = Len(q)
    BY <1>1, <1>2, <1>3, LenProperties
  <1> QED
    BY <1>3, <1>4 DEF Afters

\* To send a message is to send the state it leads to.
LEMMA AftersAppend ==
  ASSUME NEW q \in Seq(Messages), NEW e \in Messages
  PROVE  Afters(Append(q, e)) = Append(Afters(q), e.after)
  <1> DEFINE p == Append(q, e)
             a == Afters(q)
             b == Append(a, e.after)
  <1>1. /\ p \in Seq(Messages) /\ Len(p) = Len(q) + 1 /\ p[Len(q) + 1] = e
        /\ \A i \in 1 .. Len(q) : p[i] = q[i]
    BY AppendProperties
  <1>2. a \in Seq(States) /\ Len(a) = Len(q) /\ \A i \in 1 .. Len(q) : a[i] = q[i].after
    BY AftersTyped
  <1>3. e.after \in States
    BY DEF Messages
  <1>4. /\ b \in Seq(States) /\ Len(b) = Len(a) + 1 /\ b[Len(a) + 1] = e.after
        /\ \A i \in 1 .. Len(a) : b[i] = a[i]
    BY <1>2, <1>3, AppendProperties
  <1>5. /\ Afters(p) \in Seq(States) /\ Len(Afters(p)) = Len(p)
        /\ \A i \in 1 .. Len(p) : Afters(p)[i] = p[i].after
    BY <1>1, AftersTyped
  <1>6. Len(Afters(p)) = Len(b) /\ Len(q) \in Nat
    BY <1>1, <1>2, <1>4, <1>5, LenProperties
  <1>7. ASSUME NEW i \in 1 .. Len(Afters(p))
        PROVE  Afters(p)[i] = b[i]
    <2>1. CASE i = Len(q) + 1
      BY <2>1, <1>1, <1>2, <1>4, <1>5
    <2>2. CASE i # Len(q) + 1
      <3>1. i \in 1 .. Len(q) /\ i \in 1 .. Len(p)
        BY <2>2, <1>1, <1>5, <1>6
      <3> QED
        BY <3>1, <1>1, <1>2, <1>4, <1>5
    <2> QED
      BY <2>1, <2>2
  <1> HIDE DEF p, a, b
  <1>8. Afters(p) = b
    BY <1>4, <1>5, <1>6, <1>7, SeqEqual
  <1> QED
    BY <1>8 DEF p, a, b

\* To deliver the first message is to show the first state.
LEMMA AftersTail ==
  ASSUME NEW q \in Seq(Messages), q # <<>>
  PROVE  /\ Afters(q) # <<>>
         /\ Head(Afters(q)) = Head(q).after
         /\ Afters(Tail(q)) = Tail(Afters(q))
  <1> DEFINE a == Afters(q)
             t == Tail(q)
  <1>1. /\ t \in Seq(Messages) /\ Len(t) = Len(q) - 1 /\ Len(q) \in Nat \ {0} /\ Head(q) = q[1]
        /\ \A i \in 1 .. Len(t) : t[i] = q[i + 1]
    <2>1. t \in Seq(Messages) /\ Len(t) = Len(q) - 1 /\ \A i \in 1 .. Len(t) : t[i] = q[i + 1]
      BY HeadTailProperties
    <2>2. Len(q) \in Nat \ {0}
      BY EmptySeq
    <2>3. Head(q) = q[1]
      OBVIOUS
    <2> QED
      BY <2>1, <2>2, <2>3
  <1>2. a \in Seq(States) /\ Len(a) = Len(q) /\ \A i \in 1 .. Len(q) : a[i] = q[i].after
    BY AftersTyped
  <1>3. a # <<>>
    BY <1>1, <1>2, EmptySeq
  <1>4. Head(a) = q[1].after
    BY <1>1, <1>2
  <1>5. /\ Tail(a) \in Seq(States) /\ Len(Tail(a)) = Len(a) - 1
        /\ \A i \in 1 .. Len(Tail(a)) : Tail(a)[i] = a[i + 1]
    BY <1>2, <1>3, HeadTailProperties
  <1>6. /\ Afters(t) \in Seq(States) /\ Len(Afters(t)) = Len(t)
        /\ \A i \in 1 .. Len(t) : Afters(t)[i] = t[i].after
    BY <1>1, AftersTyped
  <1>7. ASSUME NEW i \in 1 .. Len(Afters(t))
        PROVE  Afters(t)[i] = Tail(a)[i]
    <2>1. i \in 1 .. Len(t) /\ i + 1 \in 1 .. Len(q) /\ i \in 1 .. Len(Tail(a))
      BY <1>1, <1>2, <1>5, <1>6
    <2> QED
      BY <2>1, <1>1, <1>2, <1>5, <1>6
  <1>8. Len(Afters(t)) = Len(Tail(a))
    BY <1>1, <1>2, <1>5, <1>6
  <1> HIDE DEF a, t
  <1>9. Afters(t) = Tail(a)
    BY <1>5, <1>6, <1>7, <1>8, SeqEqual
  <1> QED
    BY <1>1, <1>3, <1>4, <1>9 DEF a, t

\* A client that registers joins.
LEMMA RegisterIsJoin ==
  ASSUME IInv, NEW c \in Clients, Register(c)
  PROVE  Shared!Join(c)
  <1>1. c \notin members /\ members' = members \cup {c}
    BY DEF Register, members, IInv, TypeOK
  <1>2. Ahead[c] = <<>>
    <2>1. queue[c] = <<>>
      BY DEF Register, IInv, InStep
    <2>2. Ahead[c] \in Seq(States) /\ Len(Ahead[c]) = 0
      BY <2>1, AftersTyped, EmptySeq DEF Ahead
    <2> QED
      BY <2>2, EmptySeq
  <1>3. Ahead' = [Ahead EXCEPT ![c] = <<state>>]
    <2>1. queue' = [queue EXCEPT ![c] = <<[msg |-> SyncOf(state), after |-> state]>>]
      BY DEF Register
    <2>2. Afters(<<[msg |-> SyncOf(state), after |-> state]>>) = <<state>>
      BY DEF Afters
    <2> QED
      BY <2>1, <2>2 DEF Ahead, IInv, TypeOK
  <1> QED
    BY <1>1, <1>2, <1>3 DEF Shared!Join, Ahead, Afters, Register

\* A message of the hub is a state that is sent to those whose buffers have room.
LEMMA BroadcastIsSend ==
  ASSUME IInv, NEW m \in Payloads, NEW to \in SUBSET members, state' \in States,
         Broadcast(m, to), heard' = heard
  PROVE  /\ members' = members \ Slow(to)
         /\ Ahead' = [c \in Clients |-> IF c \in to \ Slow(to) THEN Append(Ahead[c], state')
                                                               ELSE Ahead[c]]
  <1>1. members' = members \ Slow(to)
    BY DEF Broadcast, members, IInv, TypeOK, Slow
  <1>2. Ahead' = [c \in Clients |-> IF c \in to \ Slow(to) THEN Append(Ahead[c], state') ELSE Ahead[c]]
    <2>1. [msg |-> m, after |-> state'] \in Messages
      BY DEF Messages
    <2>2. ASSUME NEW c \in Clients
          PROVE  Afters(queue'[c]) = IF c \in to \ Slow(to) THEN Append(Afters(queue[c]), state')
                                                           ELSE Afters(queue[c])
      BY <2>1, AftersAppend DEF Broadcast, IInv, TypeOK
    <2> QED
      BY <2>2 DEF Ahead
  <1> QED
    BY <1>1, <1>2

\* Player events change the state of the room, a chat only talks.
LEMMA HandleEventIsChangeOrTalk ==
  ASSUME IInv, IInv', HandleEvent
  PROVE  \/ \E s \in States, cut \in SUBSET members : Shared!Change(s, cut)
         \/ \E to \in SUBSET members : \E cut \in SUBSET to : Shared!Talk(to, cut)
         \/ UNCHANGED Shared!vars
  <1> DEFINE evt == Head(incoming)
  <1>1. evt.msg \in Payloads /\ heard' = heard /\ state' \in States
    <2>1. evt \in Events
      BY HeadTailProperties DEF HandleEvent, IInv, TypeOK
    <2>2. state' \in States
      BY DEF IInv, TypeOK
    <2> QED
      BY <2>1, <2>2 DEF HandleEvent, Events
  <1> HIDE DEF evt
  <1>2. CASE HandlePlayer(evt)
    <2>1. Broadcast(evt.msg, members) /\ members \in SUBSET members
      BY <1>2 DEF HandlePlayer
    <2>2. /\ members' = members \ Slow(members)
          /\ Ahead' = [c \in Clients |-> IF c \in members \ Slow(members)
                                         THEN Append(Ahead[c], state') ELSE Ahead[c]]
      BY <1>1, <2>1, BroadcastIsSend
    <2>3. Slow(members) \in SUBSET members
      BY DEF Slow
    <2>4. \E s \in States, cut \in SUBSET members : Shared!Change(s, cut)
      BY <1>1, <2>2, <2>3 DEF Shared!Change, Shared!Send, Ahead, Afters
    <2> QED
      BY <2>4
  <1>3. CASE HandleChat(evt)
    <2> DEFINE to == members \ {evt.sender}
    <2>1. Broadcast(evt.msg, to) /\ to \in SUBSET members
      BY <1>3 DEF HandleChat
    <2> HIDE DEF to
    <2>2. /\ members' = members \ Slow(to)
          /\ Ahead' = [c \in Clients |-> IF c \in to \ Slow(to)
                                         THEN Append(Ahead[c], state') ELSE Ahead[c]]
      BY <1>1, <2>1, BroadcastIsSend
    <2>3. Slow(to) \in SUBSET to
      BY DEF Slow
    <2>4. state' = state
      BY <1>3 DEF HandleChat
    <2>5. Ahead' = [c \in Clients |-> IF c \in to \ Slow(to) THEN Append(Ahead[c], state) ELSE Ahead[c]]
      BY <2>2, <2>4
    <2>6. Shared!Talk(to, Slow(to))
      BY <1>1, <2>2, <2>4, <2>5 DEF Shared!Talk, Shared!Send, Ahead, Afters
    <2>7. \E x \in SUBSET members : \E cut \in SUBSET x : Shared!Talk(x, cut)
      BY <2>1, <2>3, <2>6 DEF Shared!Talk, Shared!Send
    <2> QED
      BY <2>7
  <1>4. CASE HandleIgnored(evt)
    BY <1>1, <1>4 DEF HandleIgnored, Shared!vars, members
  <1> QED
    BY <1>2, <1>3, <1>4 DEF HandleEvent, evt

\* A client that takes a message sees the state it leads to.
LEMMA DeliverIsSee ==
  ASSUME IInv, NEW c \in Clients, Deliver(c)
  PROVE  Shared!See(c)
  <1>1. queue[c] \in Seq(Messages) /\ queue[c] # <<>> /\ Chain(heard[c], queue[c])
    BY DEF IInv, TypeOK, InStep, Deliver
  <1>2. /\ Afters(queue[c]) # <<>>
        /\ Head(Afters(queue[c])) = Head(queue[c]).after
        /\ Afters(Tail(queue[c])) = Tail(Afters(queue[c]))
    BY <1>1, AftersTail
  <1>3. Ahead[c] # <<>>
    BY <1>2 DEF Ahead
  <1>4. heard' = [heard EXCEPT ![c] = Head(Ahead[c])]
    <2>1. Learned(heard[c], Head(queue[c]).msg) = Head(queue[c]).after
      BY <1>1, ChainTail
    <2> QED
      BY <1>2, <2>1 DEF Deliver, Ahead
  <1>5. Ahead' = [Ahead EXCEPT ![c] = Tail(Ahead[c])]
    BY <1>2 DEF Deliver, Ahead, IInv, TypeOK
  <1>6. members' = members
    BY DEF Deliver, members
  <1> QED
    BY <1>3, <1>4, <1>5, <1>6 DEF Shared!See, Ahead, Afters, Deliver

\* Every step of the room is one that SharedPlayback allows.
LEMMA StepSimulates == IInv /\ IInv' /\ [Next]_vars => [Shared!Next]_(Shared!vars)
  <1> SUFFICES ASSUME IInv, IInv', [Next]_vars PROVE Shared!Next \/ UNCHANGED Shared!vars
    OBVIOUS
  <1>1. ASSUME NEW c \in Clients, Register(c)
        PROVE  Shared!Next
    BY <1>1, RegisterIsJoin DEF Shared!Next
  <1>2. ASSUME NEW c \in Clients, Unregister(c)
        PROVE  Shared!Next
    <2>1. members' = members \ {c}
      BY <1>2 DEF Unregister, members, IInv, TypeOK
    <2>2. Shared!Leave(c)
      BY <1>2, <2>1 DEF Unregister, Shared!Leave
    <2> QED
      BY <2>2 DEF Shared!Next
  <1>3. ASSUME NEW c \in Clients, Deliver(c)
        PROVE  Shared!Next
    BY <1>3, DeliverIsSee DEF Shared!Next
  <1>4. ASSUME NEW m, NEW c, Push(m, c)
        PROVE  UNCHANGED Shared!vars
    BY <1>4 DEF Push, Shared!vars, members
  <1>5. CASE HandleEvent
    BY <1>5, HandleEventIsChangeOrTalk DEF Shared!Next
  <1>6. CASE DeleteRoom
    BY <1>6 DEF DeleteRoom, Shared!vars, members
  <1>7. CASE ReplaceHub
    <2>1. members' = {}
      BY <1>7 DEF ReplaceHub, members
    <2>2. Shared!Restart
      BY <1>7, <2>1 DEF ReplaceHub, Shared!Restart
    <2> QED
      BY <2>2 DEF Shared!Next
  <1>8. CASE UNCHANGED vars
    BY <1>8 DEF vars, Shared!vars, members
  <1> QED
    BY <1>1, <1>2, <1>3, <1>4, <1>5, <1>6, <1>7, <1>8 DEF Next, ClientSends, SourceChanged

LEMMA InitSimulates == Init => Shared!Init
  <1> SUFFICES ASSUME Init PROVE Shared!Init
    OBVIOUS
  <1>1. members = {}
    BY DEF Init, members
  <1>2. Ahead = [c \in Clients |-> <<>>]
    <2>1. Afters(<<>>) = <<>>
      BY EmptySeq DEF Afters
    <2> QED
      BY <2>1 DEF Init, Ahead
  <1> QED
    BY <1>1, <1>2 DEF Init, Shared!Init, Ahead, Afters

\* The room is one sequence of states that everybody in it is shown, in order,
\* from the moment of joining until they leave or are cut off: buffers, slow
\* clients, late joiners and the order of the senders do not show.
THEOREM RoomIsShared == Spec => IsSharedPlayback
  BY InitSimulates, StepSimulates, Inductive, PTL DEF Spec, IsSharedPlayback, Shared!Spec

=============================================================================
