---------------------------- MODULE SessionsProofs ----------------------------
(***************************************************************************)
(* Theorems about Sessions, for any number of sessions and requests.       *)
(***************************************************************************)
EXTENDS Sessions, TLAPS

\* A request that Get gave an answer to serves a session that was issued.
ServesIssued ==
  \A q \in Requests :
    pc[q] \in {"looked", "expired", "found", "read", "refreshed"} => id[q] \in issued

IInv == TypeOK /\ ServesIssued /\ NoLiveSessionLost

-----------------------------------------------------------------------------
\* The initial state satisfies the invariant.
LEMMA InitInductive == Init => IInv
  BY ConstantsAssumption DEF Init, IInv, TypeOK, ServesIssued, NoLiveSessionLost

\* No step of Sessions breaks the invariant.
LEMMA NextInductive == IInv /\ [Next]_vars => IInv'
  <1> SUFFICES ASSUME IInv, [Next]_vars PROVE IInv'
    OBVIOUS
  <1> USE ConstantsAssumption DEF IInv, TypeOK
  <1>1. ASSUME NEW i \in Ids, Login(i) PROVE IInv'
    BY <1>1 DEF Login, ServesIssued, NoLiveSessionLost, Expired
  <1>2. ASSUME NEW i \in Ids, Logout(i) PROVE IInv'
    BY <1>2 DEF Logout, ServesIssued, NoLiveSessionLost, Expired
  <1>3. ASSUME NEW q \in Requests, NEW i \in Ids, Lookup(q, i) PROVE IInv'
    BY <1>3 DEF Lookup, Goto, ServesIssued, NoLiveSessionLost, Expired
  <1>4. ASSUME NEW q \in Requests, Test(q) PROVE IInv'
    BY <1>4 DEF Test, Answer, Goto, ServesIssued, NoLiveSessionLost, Expired
  <1>5. ASSUME NEW q \in Requests, Recheck(q) PROVE IInv'
    BY <1>5 DEF Recheck, Answer, Goto, ServesIssued, NoLiveSessionLost, Expired
  <1>6. ASSUME NEW q \in Requests, Refresh(q) PROVE IInv'
    \* The request itself is the one that is about to put the session back.
    BY <1>6 DEF Refresh, Goto, ServesIssued, NoLiveSessionLost, Expired
  <1>7. ASSUME NEW q \in Requests, Store(q) PROVE IInv'
    BY <1>7 DEF Store, Goto, ServesIssued, NoLiveSessionLost, Expired
  <1>8. ASSUME NEW q \in Requests, Read(q) PROVE IInv'
    BY <1>8 DEF Read, Goto, ServesIssued, NoLiveSessionLost, Expired
  <1>9. ASSUME NEW q \in Requests, Finish(q) PROVE IInv'
    BY <1>9 DEF Finish, Goto, ServesIssued, NoLiveSessionLost, Expired
  <1>10. CASE Cleanup
    BY <1>10 DEF Cleanup, ServesIssued, NoLiveSessionLost, Expired
  <1>11. CASE Tick
    \* Time only turns live sessions into expired ones.
    BY <1>11 DEF Tick, ServesIssued, NoLiveSessionLost, Expired
  <1>12. CASE UNCHANGED vars
    BY <1>12 DEF vars, ServesIssued, NoLiveSessionLost, Expired
  <1> QED
    BY <1>1, <1>2, <1>3, <1>4, <1>5, <1>6, <1>7, <1>8, <1>9, <1>10, <1>11, <1>12 DEF Next

\* The invariant holds in every state of every behaviour.
LEMMA Inductive == Spec => []IInv
  BY InitInductive, NextInductive, PTL DEF Spec

-----------------------------------------------------------------------------
\* Type correctness: in particular only issued ids are in the store, whatever
\* the requests that put sessions back.
THEOREM TypeCorrect == Spec => []TypeOK
  <1>1. IInv => TypeOK
    BY DEF IInv
  <1> QED
    BY <1>1, Inductive, PTL

\* No live session is lost to the cleanup, to the two looks of Get or to the
\* unlocked refresh of the Auth middleware.
THEOREM LiveSessionsStay == Spec => []NoLiveSessionLost
  <1>1. IInv => NoLiveSessionLost
    BY DEF IInv
  <1> QED
    BY <1>1, Inductive, PTL

\* A logout is final but for the requests that are under way: no request that comes
\* later, and no cleanup or refresh of another session, brings it back.
THEOREM WhatIsGoneStaysGone == Spec => GoneStaysGone
  <1> DEFINE Stays == \A i \in Ids : Gone(i) => Gone(i)'
  <1>1. IInv /\ [Next]_vars => [Stays]_vars
    <2> SUFFICES ASSUME IInv, Next, NEW i \in Ids, Gone(i)
                 PROVE  Gone(i)'
      BY DEF Stays
    <2> USE DEF IInv, TypeOK, Gone, Goto
    <2>1. ASSUME NEW j \in Ids, Login(j) \/ Logout(j) PROVE Gone(i)'
      BY <2>1 DEF Login, Logout
    <2>2. ASSUME NEW q \in Requests, NEW j \in Ids, Lookup(q, j) PROVE Gone(i)'
      \* Whoever asks for i now is refused.
      BY <2>2 DEF Lookup
    <2>3. ASSUME NEW q \in Requests, Test(q) \/ Recheck(q) PROVE Gone(i)'
      BY <2>3 DEF Test, Recheck, Answer
    <2>4. ASSUME NEW q \in Requests, Refresh(q) \/ Store(q) PROVE Gone(i)'
      \* These two are about sessions that are still in somebody's hands.
      BY <2>4 DEF Refresh, Store
    <2>5. ASSUME NEW q \in Requests, Read(q) \/ Finish(q) PROVE Gone(i)'
      BY <2>5, ConstantsAssumption DEF Read, Finish
    <2>6. CASE Cleanup \/ Tick
      BY <2>6 DEF Cleanup, Tick
    <2> QED
      BY <2>1, <2>2, <2>3, <2>4, <2>5, <2>6 DEF Next
  <1> QED
    BY <1>1, Inductive, PTL DEF Spec, GoneStaysGone, Stays
=============================================================================
