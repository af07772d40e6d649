--------------------------- MODULE SharedPlayback ---------------------------
(***************************************************************************)
(* What a room promises the people in it, whatever the buffers, events and *)
(* goroutines that keep the promise: there is one current state, and who   *)
(* watches sees every state from the moment of joining on, in one order,   *)
(* with none left out, or is cut off.  Module Playback implements this.    *)
(***************************************************************************)
EXTENDS Naturals, Sequences

CONSTANTS Viewers, States, InitialState

VARIABLES
  current,   \* the state of the room
  watching,  \* who the room sends to
  view,      \* the last state a viewer has seen
  ahead      \* the states on their way to a viewer

vars == <<current, watching, view, ahead>>

Init ==
  /\ current = InitialState
  /\ watching = {}
  /\ view = [v \in Viewers |-> InitialState]
  /\ ahead = [v \in Viewers |-> <<>>]

\* A viewer joins, and what it is going to see first is the current state.
Join(v) ==
  /\ v \notin watching
  /\ ahead[v] = <<>>
  /\ watching' = watching \cup {v}
  /\ ahead' = [ahead EXCEPT ![v] = <<current>>]
  /\ UNCHANGED <<current, view>>

\* State s is sent to the viewers of `to`; those of `cut` are cut off instead.
Send(s, to, cut) ==
  /\ watching' = watching \ cut
  /\ ahead' = [v \in Viewers |-> IF v \in to \ cut THEN Append(ahead[v], s) ELSE ahead[v]]
  /\ UNCHANGED view

\* The state changes, and everybody who watches is told.
Change(s, cut) ==
  /\ current' = s
  /\ Send(s, watching, cut)

\* Something else is said to some of the viewers: the state stays.
Talk(to, cut) ==
  /\ UNCHANGED current
  /\ Send(current, to, cut)

See(v) ==
  /\ ahead[v] # <<>>
  /\ view' = [view EXCEPT ![v] = Head(ahead[v])]
  /\ ahead' = [ahead EXCEPT ![v] = Tail(@)]
  /\ UNCHANGED <<current, watching>>

Leave(v) ==
  /\ watching' = watching \ {v}
  /\ UNCHANGED <<current, view, ahead>>

\* The room closes on everybody who is still there, and starts afresh.
Restart ==
  /\ current' = InitialState
  /\ watching' = {}
  /\ UNCHANGED <<view, ahead>>

Next ==
  \/ \E v \in Viewers : Join(v) \/ See(v) \/ Leave(v)
  \/ Restart
  \/ \E s \in States, cut \in SUBSET watching : Change(s, cut)
  \/ \E to \in SUBSET watching : \E cut \in SUBSET to : Talk(to, cut)

Spec == Init /\ [][Next]_vars
=============================================================================
