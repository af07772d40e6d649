------------------------------- MODULE Sessions -------------------------------
(***************************************************************************)
(* The session store, the requests that read and refresh a session through *)
(* the Auth middleware or through GetUserBySession, logout, and the        *)
(* cleanup loop.                                                           *)
(*                                                                         *)
(* The store maps an id to a pointer, and the object behind it outlives    *)
(* its entry: a request that has got the pointer writes the new expiry     *)
(* into the object and puts it back with Set, without a lock around the    *)
(* two.  Every id is drawn at random for one login, so an id and its       *)
(* object are one model value.                                             *)
(***************************************************************************)
EXTENDS Naturals

CONSTANTS
  Ids,       \* session ids, each issued at most once
  Requests,  \* goroutines that serve HTTP requests, one request at a time
  NoId,      \* a goroutine that serves nothing
  Expiry,    \* auth.SessionExpiry
  MaxTime    \* bound: the last tick of the clock

ASSUME ConstantsAssumption ==
  /\ NoId \notin Ids
  /\ Expiry \in Nat
  /\ MaxTime \in Nat

VARIABLES
  now,        \* time.Now()
  issued,     \* ids given out by Login and Register
  expiresAt,  \* Session.ExpiresAt of the object of an id
  stored,     \* ids in sessionStore.sessions
  loggedOut,  \* ids whose owner has logged out
  pc,         \* where a request is
  id          \* the id in its cookie

vars == <<now, issued, expiresAt, stored, loggedOut, pc, id>>

TypeOK ==
  /\ now \in 0 .. MaxTime
  /\ issued \subseteq Ids
  /\ expiresAt \in [Ids -> 0 .. MaxTime + Expiry]
  /\ stored \subseteq issued
  /\ loggedOut \subseteq issued
  /\ pc \in [Requests -> {"idle", "looked", "expired", "found", "read", "refreshed",
                          "served", "refused", "panicked"}]
  /\ id \in [Requests -> Ids \cup {NoId}]

Init ==
  /\ now = 0
  /\ issued = {}
  /\ expiresAt = [i \in Ids |-> 0]
  /\ stored = {}
  /\ loggedOut = {}
  /\ pc = [q \in Requests |-> "idle"]
  /\ id = [q \in Requests |-> NoId]

Expired(i) == expiresAt[i] < now

Goto(q, label) == pc' = [pc EXCEPT ![q] = label]

-----------------------------------------------------------------------------
\* service.Login and service.Register end with a Set of a new session.
Login(i) ==
  /\ i \notin issued
  /\ issued' = issued \cup {i}
  /\ stored' = stored \cup {i}
  /\ expiresAt' = [expiresAt EXCEPT ![i] = now + Expiry]
  /\ UNCHANGED <<now, loggedOut, pc, id>>

\* service.Logout; the handler runs outside the Auth middleware.
Logout(i) ==
  /\ i \in issued
  /\ stored' = stored \ {i}
  /\ loggedOut' = loggedOut \cup {i}
  /\ UNCHANGED <<now, issued, expiresAt, pc, id>>

\* Mutant of Cleanup: the loop body deletes nothing.
CleanupNothing == UNCHANGED vars

\* sessionStore.cleanup, on every tick of CleanupLoop.
Cleanup ==
  /\ stored' = {i \in stored : ~Expired(i)}
  /\ UNCHANGED <<now, issued, expiresAt, loggedOut, pc, id>>

\* sessionStore.Get, the look under the read lock.
Lookup(q, i) ==
  /\ pc[q] = "idle"
  /\ id' = [id EXCEPT ![q] = i]
  /\ Goto(q, IF i \in stored THEN "looked" ELSE "refused")
  /\ UNCHANGED <<now, issued, expiresAt, stored, loggedOut>>

\* Get returns a session: "found" to the Auth middleware, "read" to
\* GetUserBySession, which /auth/me and the WebSocket handler call.
Answer(q) == Goto(q, "found") \/ Goto(q, "read")

\* sessionStore.Get, the test of the expiry, after the read lock is released.
\* (A torn read of the expiry is not seen: Before compares one word of it, the
\* monotonic clock.)
Test(q) ==
  /\ pc[q] = "looked"
  /\ \/ ~Expired(id[q]) /\ Answer(q)
     \/ Expired(id[q]) /\ Goto(q, "expired")
  /\ UNCHANGED <<now, issued, expiresAt, stored, loggedOut, id>>

\* Mutant of Recheck: the second look does not test the expiry again.
RecheckOnce(q) ==
  /\ pc[q] = "expired"
  /\ stored' = stored \ {id[q]}
  /\ Goto(q, "refused")
  /\ UNCHANGED <<now, issued, expiresAt, loggedOut, id>>

\* The rest of Get, under the write lock.  If the entry has gone meanwhile,
\* Get returns (nil, true), and its caller dereferences the nil session.
Recheck(q) ==
  /\ pc[q] = "expired"
  /\ \/ /\ id[q] \in stored /\ Expired(id[q])
        /\ stored' = stored \ {id[q]}
        /\ Goto(q, "refused")
     \/ /\ id[q] \in stored /\ ~Expired(id[q])
        /\ Answer(q)
        /\ UNCHANGED stored
     \/ /\ id[q] \notin stored
        /\ Goto(q, "panicked")
        /\ UNCHANGED stored
  /\ UNCHANGED <<now, issued, expiresAt, loggedOut, id>>

\* Mutant of Refresh: the session is extended from its old expiry on.
RefreshFromExpiry(q) ==
  /\ pc[q] = "found"
  /\ expiresAt' = [expiresAt EXCEPT ![id[q]] = @ + Expiry]
  /\ Goto(q, "refreshed")
  /\ UNCHANGED <<now, issued, stored, loggedOut, id>>

\* Auth writes the new expiry through the pointer it got, holding no lock; the
\* clock does not tick between its time.Now() and the write.
Refresh(q) ==
  /\ pc[q] = "found"
  /\ expiresAt' = [expiresAt EXCEPT ![id[q]] = now + Expiry]
  /\ Goto(q, "refreshed")
  /\ UNCHANGED <<now, issued, stored, loggedOut, id>>

\* sessionStore.Set(session), and the request goes to its handler.
Store(q) ==
  /\ pc[q] = "refreshed"
  /\ stored' = stored \cup {id[q]}
  /\ Goto(q, "served")
  /\ UNCHANGED <<now, issued, expiresAt, loggedOut, id>>

\* Mutant of Read: GetUserBySession puts the session back, as the middleware does.
ReadAndStore(q) ==
  /\ pc[q] = "read"
  /\ stored' = stored \cup {id[q]}
  /\ Goto(q, "served")
  /\ UNCHANGED <<now, issued, expiresAt, loggedOut, id>>

\* GetUserBySession only reads the session.
Read(q) ==
  /\ pc[q] = "read"
  /\ Goto(q, "served")
  /\ UNCHANGED <<now, issued, expiresAt, stored, loggedOut, id>>

\* The response is out (net/http recovers a panicking handler).
Finish(q) ==
  /\ pc[q] \in {"served", "refused", "panicked"}
  /\ Goto(q, "idle")
  /\ id' = [id EXCEPT ![q] = NoId]
  /\ UNCHANGED <<now, issued, expiresAt, stored, loggedOut>>

Tick ==
  /\ now < MaxTime
  /\ now' = now + 1
  /\ UNCHANGED <<issued, expiresAt, stored, loggedOut, pc, id>>

-----------------------------------------------------------------------------
Next ==
  \/ \E i \in Ids : Login(i) \/ Logout(i)
  \/ \E q \in Requests, i \in Ids : Lookup(q, i)
  \/ \E q \in Requests : Test(q) \/ Recheck(q) \/ Refresh(q) \/ Store(q) \/ Read(q) \/ Finish(q)
  \/ Cleanup
  \/ Tick

Spec == Init /\ [][Next]_vars

\* CleanupLoop runs as long as the server does, and a request that has started
\* is served; clients come and go as they like.
FairSpec ==
  /\ Spec
  /\ WF_vars(Cleanup)
  /\ \A q \in Requests :
       WF_vars(Test(q) \/ Recheck(q) \/ Refresh(q) \/ Store(q) \/ Read(q) \/ Finish(q))

-----------------------------------------------------------------------------
\* No live session is lost: one that has neither expired nor been logged out is
\* in the store, or a request that has just extended it is about to put it
\* back.  So neither the cleanup nor a Get that saw the session expired a moment
\* ago signs out a user whose session another request extends meanwhile.
NoLiveSessionLost ==
  \A i \in issued \ loggedOut :
    Expired(i) \/ i \in stored \/ \E q \in Requests : pc[q] = "refreshed" /\ id[q] = i

\* A session that is out of the store, by a logout, the cleanup or a Get, and that no
\* request in the Auth middleware has in its hands.
Gone(i) ==
  /\ i \in issued \ stored
  /\ ~\E q \in Requests : id[q] = i /\ pc[q] \in {"looked", "expired", "found", "refreshed"}

\* What is gone stays gone: only requests that were under way when the session left
\* the store can undo a logout, and neither later ones, nor those that only read the
\* session, nor the cleanup and the refreshes of others bring it back.
GoneStaysGone == [][\A i \in Ids : Gone(i) => Gone(i)']_vars

\* An expired session does not stay: the cleanup gets it, unless some request
\* extends it first.
ExpiredSessionsGo ==
  \A i \in Ids : (i \in stored /\ Expired(i)) ~> (i \notin stored \/ ~Expired(i))

\* After a logout the session is gone: the next request with its cookie is
\* answered 401 (docs/testing-checklist.md).
LogoutIsFinal == \A i \in loggedOut : i \notin stored
=============================================================================
