------------------------------ MODULE LiveRooms ------------------------------
(***************************************************************************)
(* What the realtime server promises about rooms and those who connect to  *)
(* them, whatever its goroutines, channels and locks: a room has one       *)
(* session at a time that newcomers are shown to; a session goes through   *)
(* its life once; who gets in is turned out once and does not come back,   *)
(* at the latest when the session ends.  Module RoomHub implements this.   *)
(***************************************************************************)

CONSTANTS Rooms, Sessions, Guests, NoSession, NoRoom

VARIABLES
  session,  \* of a room: the session that newcomers are shown to
  room,     \* of a session
  life,     \* of a session: "unused", "open", "closed" to newcomers, "over"
  place,    \* of a guest: "outside", "arriving", "inside", "out"
  at        \* the session that a guest was shown to

vars == <<session, room, life, place, at>>

Init ==
  /\ session = [r \in Rooms |-> NoSession]
  /\ room = [s \in Sessions |-> NoRoom]
  /\ life = [s \in Sessions |-> "unused"]
  /\ place = [g \in Guests |-> "outside"]
  /\ at = [g \in Guests |-> NoSession]

Inside(s) == {g \in Guests : place[g] = "inside" /\ at[g] = s}
Running(s) == life[s] \in {"open", "closed"}

\* A guest is shown to the session of the room, or to a new one if it has none.
Arrive(g, r) ==
  /\ place[g] = "outside"
  /\ place' = [place EXCEPT ![g] = "arriving"]
  /\ \/ /\ session[r] # NoSession
        /\ at' = [at EXCEPT ![g] = session[r]]
        /\ UNCHANGED <<session, room, life>>
     \/ /\ session[r] = NoSession
        /\ \E s \in Sessions :
             /\ life[s] = "unused"
             /\ session' = [session EXCEPT ![r] = s]
             /\ room' = [room EXCEPT ![s] = r]
             /\ life' = [life EXCEPT ![s] = "open"]
             /\ at' = [at EXCEPT ![g] = s]

\* Who was shown to a session gets in as long as it goes on, though it may have
\* been closed to newcomers meanwhile.
Enter(g) ==
  /\ place[g] = "arriving"
  /\ Running(at[g])
  /\ place' = [place EXCEPT ![g] = "inside"]
  /\ UNCHANGED <<session, room, life, at>>

\* Guests who are inside are turned out.
TurnOut(s, G) ==
  /\ Running(s)
  /\ place' = [g \in Guests |-> IF g \in G THEN "out" ELSE place[g]]
  /\ UNCHANGED <<session, room, life, at>>

\* The room is closed to newcomers: the next one will find another session.
Close(r) ==
  /\ session[r] # NoSession
  /\ session' = [session EXCEPT ![r] = NoSession]
  /\ life' = [life EXCEPT ![session[r]] = "closed"]
  /\ UNCHANGED <<room, place, at>>

\* A session ends after it was closed, and everybody inside is turned out.
End(s) ==
  /\ life[s] = "closed"
  /\ life' = [life EXCEPT ![s] = "over"]
  /\ place' = [g \in Guests |-> IF g \in Inside(s) THEN "out" ELSE place[g]]
  /\ UNCHANGED <<session, room, at>>

\* A session in which nobody is ends, and with it closes the session that its room
\* has by now, which may be another one.
EndEmpty(s) ==
  /\ Running(s)
  /\ Inside(s) = {}
  /\ session' = [session EXCEPT ![room[s]] = NoSession]
  /\ life' = [t \in Sessions |-> IF t = s THEN "over"
                                 ELSE IF t = session[room[s]] THEN "closed" ELSE life[t]]
  /\ UNCHANGED <<room, place, at>>

Next ==
  \/ \E s \in Sessions : (\E G \in SUBSET Inside(s) : TurnOut(s, G)) \/ End(s) \/ EndEmpty(s)
  \/ \E r \in Rooms : Close(r)
  \/ \E g \in Guests : Enter(g) \/ \E r \in Rooms : Arrive(g, r)

Spec == Init /\ [][Next]_vars
=============================================================================
