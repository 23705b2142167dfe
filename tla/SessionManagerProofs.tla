------------------------- MODULE SessionManagerProofs -------------------------
(***************************************************************************)
(* Proofs about SessionManager, for every number of sessions, requests and *)
(* logouts and for every limit.  The inductive invariant adds to the       *)
(* properties what the code relies on without saying so: which program     *)
(* points are reached with a closed session only, and that a session is    *)
(* taken by one logout at most once.                                       *)
(***************************************************************************)
EXTENDS SessionManager, FiniteSetTheorems, TLAPS

\* The points that are reached only once the session at hand is closed.
ClosedPoints ==
    /\ \A s \in done : Closed(s)
    /\ \A s \in Sessions : cleanup[s] \in {"closing", "release", "ended"} => Closed(s)
    /\ \A l \in Logouts : gpc[l] \in {"closing", "finished"} => Closed(held[l])

\* A logout goroutine exists once its handler has taken a session.
LogoutPoints ==
    \A l \in Logouts :
      /\ lpc[l] = "new" => gpc[l] = "off"
      /\ gpc[l] # "off" => held[l] \in Sessions

\* What a WebSocket handler holds.
HandlerPoints ==
    \A c \in Conns :
      /\ wpc[c] \in {"attach", "bridge"} => ws[c] \in started
      /\ wpc[c] \in {"start", "attach"} => tries[c] \in 0..1

\* The sessions that refused a handler are closed for good, so its next lookup finds another.
RefusedPoints ==
    \A c \in Conns :
      /\ refusedBy[c] \subseteq started
      /\ \A s \in refusedBy[c] : Closed(s)
      /\ wpc[c] = "attach" => ws[c] \notin refusedBy[c]

\* The inductive invariant of the safety theorems.
IInv ==
    /\ TypeOK
    /\ SlotMatchesSession
    /\ LimitNeverRefuses
    /\ NoOrphanedSession
    /\ ClosedPoints
    /\ LogoutPoints
    /\ HandlerPoints
    /\ RefusedPoints

-----------------------------------------------------------------------------
(* The invariant is inductive.                                             *)

\* The invariant holds when the server starts, and with a session that was left behind.
LEMMA InitEstablishesInvariant == Begins => IInv
<1> USE ManagerAssumption
    DEF IInv, TypeOK, SlotMatchesSession, LimitNeverRefuses, NoOrphanedSession,
        ClosedPoints, LogoutPoints, HandlerPoints, RefusedPoints, Closed
<1>1. Init => IInv
  BY DEF Init
<1>2. ASSUME NEW s \in Sessions, LeftBehind(s) PROVE IInv
  BY <1>2 DEF LeftBehind
<1> QED
  BY <1>1, <1>2 DEF Begins

\* What a request finds when it must start a session: all slots are free, because the only
\* one that can be taken is that of a closed current session, which it drops.
LEMMA FreeSlot ==
  ASSUME IInv, Usable = NoSession
  PROVE  InUse = 0 /\ CanAcquire(InUse) /\ (session = NoSession \/ Closed(session))
  BY ManagerAssumption
  DEF IInv, TypeOK, SlotMatchesSession, Usable, InUse, CanAcquire, Released

\* close() never opens a session again, and afterwards the session is closed.
LEMMA CloseCloses ==
  ASSUME IInv, NEW t \in Sessions, NEW who \in {"reader", "reaper", "lifetime", "logout"},
         Close(t, who)
  PROVE  /\ closer' \in [Sessions -> {"none", "reader", "reaper", "lifetime", "logout"}]
         /\ client' \in [Sessions -> Conns \cup {NoConn}]
         /\ Closed(t)'
         /\ \A s \in Sessions : Closed(s) => Closed(s)'
         /\ \A s \in Sessions : s # t => (Closed(s)' = Closed(s))
  BY DEF IInv, TypeOK, Close, Closed

\* A step of a WebSocket request keeps the invariant.
LEMMA ConnectionKeepsInvariant ==
  ASSUME IInv, NEW c \in Conns, Connection(c)
  PROVE  IInv'
<1>0. Usable = NoSession
        => InUse = 0 /\ CanAcquire(InUse) /\ (session = NoSession \/ Closed(session))
  BY FreeSlot
<1> USE DEF IInv, TypeOK, SlotMatchesSession, LimitNeverRefuses, NoOrphanedSession,
            ClosedPoints, LogoutPoints, HandlerPoints, RefusedPoints, Closed,
            sessionVars, handlerVars, logoutVars
<1>1. CASE TerminalReuse(c)
  BY <1>1, ManagerAssumption DEF TerminalReuse, Usable
<1>2. ASSUME NEW s \in Sessions, TerminalStart(c, s)
      PROVE  IInv'
  <2>0. Usable = NoSession /\ active' = InUse + 1 /\ session' = s
    BY <1>2 DEF TerminalStart
  <2>1. active' = 1 /\ session' = s
    BY <2>0, <1>0
  <2>2. TypeOK' /\ SlotMatchesSession' /\ LimitNeverRefuses'
    BY <1>2, <2>1, ManagerAssumption DEF TerminalStart
  \* the session that is dropped is closed, and the new one is the current session
  <2>3. NoOrphanedSession'
    BY <1>2, <2>0, <2>1, <1>0, ManagerAssumption DEF TerminalStart
  <2>4. ClosedPoints' /\ LogoutPoints' /\ HandlerPoints'
    BY <1>2 DEF TerminalStart
  \* a session that refused this request was started earlier
  <2>5. RefusedPoints'
    BY <1>2 DEF TerminalStart
  <2> QED
    BY <2>2, <2>3, <2>4, <2>5
<1>3. CASE TerminalFails(c)
  <2>1. active' = 0 /\ session' = NoSession /\ wpc'[c] = "failed"
    BY <1>3, <1>0 DEF TerminalFails, Released
  <2> QED
    BY <1>3, <2>1, FreeSlot, ManagerAssumption DEF TerminalFails
<1>4. CASE AttachAccepted(c)
  BY <1>4 DEF AttachAccepted
<1>5. CASE AttachRefused(c)
  BY <1>5 DEF AttachRefused
<1>6. CASE BridgeReturns(c)
  BY <1>6 DEF BridgeReturns
<1> QED
  BY <1>1, <1>2, <1>3, <1>4, <1>5, <1>6 DEF Connection

\* A step of a session or of its cleanup goroutine keeps the invariant.
LEMMA SessionKeepsInvariant ==
  ASSUME IInv, NEW s \in Sessions, SessionStep(s)
  PROVE  IInv'
<1> USE DEF IInv, TypeOK, SlotMatchesSession, LimitNeverRefuses, NoOrphanedSession,
            ClosedPoints, LogoutPoints, HandlerPoints, RefusedPoints,
            sessionVars, handlerVars, logoutVars
<1>1. CASE PublishDetaches(s)
  BY <1>1 DEF PublishDetaches, Closed
<1>2. CASE ShellEnds(s)
  BY <1>2 DEF ShellEnds, Closed
<1>3. CASE TeardownReturns(s)
  BY <1>3 DEF TeardownReturns, Closed
<1>4. CASE ReaderCloses(s)
  BY <1>4, CloseCloses DEF ReaderCloses
<1>5. CASE ReaderDone(s)
  BY <1>5 DEF ReaderDone, Closed
<1>6. CASE ReaperDecides(s)
  BY <1>6 DEF ReaperDecides, Closed
<1>7. CASE ReaperCloses(s)
  BY <1>7, CloseCloses DEF ReaperCloses
<1>8. CASE CleanupSeesDone(s)
  BY <1>8 DEF CleanupSeesDone, Closed
<1>9. CASE CleanupLifetime(s)
  BY <1>9, CloseCloses DEF CleanupLifetime
<1>10. CASE CleanupClosed(s)
  BY <1>10 DEF CleanupClosed, Closed
<1>11. CASE CleanupRelease(s)
  \* the session whose cleanup releases it is closed, so nothing is orphaned
  <2>1. Closed(s)
    BY <1>11 DEF CleanupRelease
  <2> QED
    BY <1>11, <2>1, ManagerAssumption DEF CleanupRelease, Released, Closed
<1> QED
  BY <1>1, <1>2, <1>3, <1>4, <1>5, <1>6, <1>7, <1>8, <1>9, <1>10, <1>11
  DEF SessionStep, Cleanup

\* A step of a logout or of the goroutine it starts keeps the invariant.
LEMMA LogoutKeepsInvariant ==
  ASSUME IInv, NEW l \in Logouts, Logout(l)
  PROVE  IInv'
<1> USE DEF IInv, TypeOK, SlotMatchesSession, LimitNeverRefuses, NoOrphanedSession,
            ClosedPoints, LogoutPoints, HandlerPoints, RefusedPoints,
            sessionVars, handlerVars, logoutVars
<1>1. CASE LogoutNothing(l)
  BY <1>1 DEF LogoutNothing, Closed
<1>2. CASE LogoutTakes(l)
  <2>1. session \in started /\ active' = 0 /\ gpc[l] = "off"
    BY <1>2, ManagerAssumption DEF LogoutTakes, Released
  \* the session just taken is the one this logout is about to close
  <2>2. NoOrphanedSession'
    BY <1>2, <2>1 DEF LogoutTakes, Closed
  <2> QED
    BY <1>2, <2>1, <2>2, ManagerAssumption DEF LogoutTakes, Closed
<1>3. CASE LogoutCloses(l)
  <2>1. held[l] \in Sessions
    BY <1>3 DEF LogoutCloses
  <2> QED
    BY <1>3, <2>1, CloseCloses DEF LogoutCloses
<1>4. CASE LogoutClosed(l)
  BY <1>4 DEF LogoutClosed, Closed
<1>5. CASE LogoutFinished(l)
  BY <1>5 DEF LogoutFinished, Closed
<1>6. CASE LogoutTimesOut(l)
  BY <1>6 DEF LogoutTimesOut, Closed
<1> QED
  BY <1>1, <1>2, <1>3, <1>4, <1>5, <1>6 DEF Logout

\* The invariant depends on the variables only.
LEMMA StutterKeepsInvariant == IInv /\ UNCHANGED vars => IInv'
  BY DEF vars, IInv, TypeOK, SlotMatchesSession, LimitNeverRefuses, NoOrphanedSession,
         ClosedPoints, LogoutPoints, HandlerPoints, RefusedPoints, Closed,
         sessionVars, handlerVars, logoutVars

\* The invariant holds in every reachable state.
THEOREM InvariantHolds == Spec => []IInv
<1>1. IInv /\ [Next]_vars => IInv'
  BY ConnectionKeepsInvariant, SessionKeepsInvariant, LogoutKeepsInvariant,
     StutterKeepsInvariant DEF Next, Terminated
<1> QED
  BY InitEstablishesInvariant, <1>1, PTL DEF Spec

-----------------------------------------------------------------------------
(* The safety properties.                                                  *)

\* Every variable keeps its type; the limiter never exceeds its maximum or goes below zero.
THEOREM TypeCorrect == Spec => []TypeOK
<1>1. IInv => TypeOK
  BY DEF IInv
<1> QED
  BY InvariantHolds, <1>1, PTL

\* The limiter counts the current session and nothing else: over all the places that release
\* a slot, none is lost and none is given back twice.
THEOREM SlotCorrect == Spec => []SlotMatchesSession
<1>1. IInv => SlotMatchesSession
  BY DEF IInv
<1> QED
  BY InvariantHolds, <1>1, PTL

\* No request is ever refused with "session limit reached".
THEOREM LimitCorrect == Spec => []LimitNeverRefuses
<1>1. IInv => LimitNeverRefuses
  BY DEF IInv
<1> QED
  BY InvariantHolds, <1>1, PTL

\* An open session is the current one or about to be closed by a logout: no PTY is left
\* running with nobody to end it.
THEOREM OwnershipCorrect == Spec => []NoOrphanedSession
<1>1. IInv => NoOrphanedSession
  BY DEF IInv
<1> QED
  BY InvariantHolds, <1>1, PTL

\* Only a logout takes the place of an open session away.
THEOREM EvictionCorrect == Spec => EvictedOnlyByLogout
<1>1. ASSUME IInv, [Next]_vars, NEW s \in Sessions, session = s, session' # s, ~Closed(s)
      PROVE  \E l \in Logouts : lpc[l] = "new" /\ held'[l] = s
  <2> USE DEF sessionVars, handlerVars, logoutVars
  <2>1. ASSUME NEW c \in Conns, Connection(c)
        PROVE  FALSE
    <3>1. Usable # NoSession
      BY <1>1, ManagerAssumption DEF Usable
    <3> QED
      BY <1>1, <2>1, <3>1
      DEF Connection, TerminalReuse, TerminalStart, TerminalFails, AttachAccepted,
          AttachRefused, BridgeReturns
  <2>2. ASSUME NEW t \in Sessions, SessionStep(t)
        PROVE  FALSE
    <3>1. CASE CleanupRelease(t)
      BY <1>1, <3>1 DEF CleanupRelease, IInv, ClosedPoints
    <3> QED
      BY <1>1, <2>2, <3>1
      DEF SessionStep, Cleanup, PublishDetaches, ShellEnds, TeardownReturns, ReaderCloses,
          ReaderDone, ReaperDecides, ReaperCloses, CleanupSeesDone, CleanupLifetime,
          CleanupClosed
  <2>3. ASSUME NEW l \in Logouts, Logout(l)
        PROVE  lpc[l] = "new" /\ held'[l] = s
    BY <1>1, <2>3
    DEF Logout, LogoutNothing, LogoutTakes, LogoutCloses, LogoutClosed, LogoutFinished,
        LogoutTimesOut, IInv, TypeOK
  <2> QED
    BY <1>1, <2>1, <2>2, <2>3 DEF Next, Terminated, vars
<1>2. IInv /\ [Next]_vars
        => [\A s \in Sessions :
              session = s /\ session' # s /\ ~Closed(s)
                => \E l \in Logouts : lpc[l] = "new" /\ held'[l] = s]_vars
  BY <1>1
<1> QED
  BY InvariantHolds, <1>2, PTL DEF Spec, EvictedOnlyByLogout

-----------------------------------------------------------------------------
(* The retry of a refused attach.                                          *)

\* RetryMeetsAnotherSession, with the finiteness that counting needs.
RefusalsCounted ==
    \A c \in Conns : IsFiniteSet(refusedBy[c]) /\ Cardinality(refusedBy[c]) = tries[c]

\* Two refusals of one request come from two different sessions: a session that refused is
\* closed for good, and terminalSession never hands a closed session out.
THEOREM RetryCorrect == Spec => []RetryMeetsAnotherSession
<1>1. Begins => RefusalsCounted
  <2>1. Begins => refusedBy = [c \in Conns |-> {}] /\ tries = [c \in Conns |-> 0]
    BY DEF Begins, Init, LeftBehind
  <2>2. QED
    BY <2>1, FS_EmptySet DEF RefusalsCounted
<1>2. IInv /\ RefusalsCounted /\ [Next]_vars => RefusalsCounted'
  <2> SUFFICES ASSUME IInv, RefusalsCounted, [Next]_vars, NEW d \in Conns
               PROVE  (IsFiniteSet(refusedBy[d]) /\ Cardinality(refusedBy[d]) = tries[d])'
    BY DEF RefusalsCounted
  <2>1. ASSUME NEW c \in Conns, AttachRefused(c)
        PROVE  (IsFiniteSet(refusedBy[d]) /\ Cardinality(refusedBy[d]) = tries[d])'
    <3>1. CASE d = c
      <4>1. ws[c] \notin refusedBy[c]
        BY <2>1 DEF AttachRefused, IInv, RefusedPoints
      <4>2. /\ refusedBy'[c] = refusedBy[c] \cup {ws[c]}
            /\ tries'[c] = tries[c] + 1
        BY <2>1 DEF AttachRefused, IInv, TypeOK
      <4>3. IsFiniteSet(refusedBy[c]) /\ Cardinality(refusedBy[c]) = tries[c]
        BY DEF RefusalsCounted
      <4>4. /\ IsFiniteSet(refusedBy[c] \cup {ws[c]})
            /\ Cardinality(refusedBy[c] \cup {ws[c]}) = Cardinality(refusedBy[c]) + 1
        BY <4>1, <4>3, FS_AddElement
      <4> QED
        BY <3>1, <4>2, <4>3, <4>4
    <3>2. CASE d # c
      BY <2>1, <3>2 DEF AttachRefused, IInv, TypeOK, RefusalsCounted
    <3> QED
      BY <3>1, <3>2
  <2>2. CASE UNCHANGED <<refusedBy, tries>>
    BY <2>2 DEF RefusalsCounted
  <2>3. (\E c \in Conns : AttachRefused(c)) \/ UNCHANGED <<refusedBy, tries>>
    BY DEF Next, vars, Terminated, handlerVars,
           Connection, TerminalReuse, TerminalStart, TerminalFails, AttachAccepted, BridgeReturns,
           SessionStep, PublishDetaches, ShellEnds, TeardownReturns, ReaderCloses, ReaderDone,
           ReaperDecides, ReaperCloses,
           Cleanup, CleanupSeesDone, CleanupLifetime, CleanupClosed, CleanupRelease,
           Logout, LogoutNothing, LogoutTakes, LogoutCloses, LogoutClosed, LogoutFinished,
           LogoutTimesOut
  <2> QED
    BY <2>1, <2>2, <2>3
<1>3. RefusalsCounted => RetryMeetsAnotherSession
  BY DEF RefusalsCounted, RetryMeetsAnotherSession
<1> QED
  BY InvariantHolds, <1>1, <1>2, <1>3, PTL DEF Spec

-----------------------------------------------------------------------------
(* Every session implements the lease.                                     *)

\* A client attached to a session is in the bridge of that session or already gone, and the
\* client of a closed session is nil.
LeaseInv ==
    \A s \in Sessions :
      /\ Closed(s) => client[s] = NoConn
      /\ client[s] # NoConn => ws[client[s]] = s /\ wpc[client[s]] = "bridge"

\* The facts about clients and handlers that the lease needs hold in every reachable state.
LEMMA LeaseInvHolds == Spec => []LeaseInv
<1>1. Begins => LeaseInv
  BY DEF Begins, Init, LeftBehind, LeaseInv, Closed
<1>2. IInv /\ LeaseInv /\ [Next]_vars => LeaseInv'
  <2> SUFFICES ASSUME IInv, LeaseInv, [Next]_vars
               PROVE  LeaseInv'
    OBVIOUS
  <2> USE ManagerAssumption
          DEF IInv, TypeOK, HandlerPoints, LogoutPoints, LeaseInv, Closed, Close,
              sessionVars, handlerVars, logoutVars
  <2>1. ASSUME NEW c \in Conns, Connection(c)
        PROVE  LeaseInv'
    BY <2>1 DEF Connection, TerminalReuse, TerminalStart, TerminalFails, AttachAccepted,
                AttachRefused, BridgeReturns
  <2>2. ASSUME NEW s \in Sessions, SessionStep(s)
        PROVE  LeaseInv'
    BY <2>2 DEF SessionStep, PublishDetaches, ShellEnds, TeardownReturns, ReaderCloses,
                ReaderDone, ReaperDecides, ReaperCloses, Cleanup, CleanupSeesDone,
                CleanupLifetime, CleanupClosed, CleanupRelease
  <2>3. ASSUME NEW l \in Logouts, Logout(l)
        PROVE  LeaseInv'
    BY <2>3 DEF Logout, LogoutNothing, LogoutTakes, LogoutCloses, LogoutClosed,
                LogoutFinished, LogoutTimesOut
  <2> QED
    BY <2>1, <2>2, <2>3 DEF Next, Terminated, vars
<1> QED
  BY InvariantHolds, <1>1, <1>2, PTL DEF Spec

\* What each kind of step of the lease of session s is, in terms of the manager.
LeaseStays(s) ==
    /\ client'[s] = client[s]
    /\ EndedLeases(s)' = EndedLeases(s)
    /\ Closed(s)' = Closed(s)
LeaseTaken(s, c) ==
    /\ ~Closed(s) /\ ~Closed(s)'
    /\ c \notin EndedLeases(s) \cup {client[s]}
    /\ client'[s] = c
    /\ EndedLeases(s)' = (EndedLeases(s) \cup {client[s]}) \ {NoConn}
LeaseLost(s) ==
    /\ client[s] # NoConn /\ client'[s] = NoConn
    /\ EndedLeases(s)' = (EndedLeases(s) \cup {client[s]}) \ {NoConn}
    /\ Closed(s)' = Closed(s)
LeaseClosed(s) ==
    /\ ~Closed(s) /\ Closed(s)'
    /\ client'[s] = NoConn
    /\ EndedLeases(s)' = (EndedLeases(s) \cup {client[s]}) \ {NoConn}

\* Every step of the manager is a step of the lease of session s, or leaves that lease alone.
LEMMA LeaseSteps ==
  ASSUME NEW s \in Sessions,
         LeaseStays(s) \/ (\E c \in Conns : LeaseTaken(s, c)) \/ LeaseLost(s) \/ LeaseClosed(s)
  PROVE  Lease(s)!LeaseStep
  BY DEF LeaseStays, LeaseTaken, LeaseLost, LeaseClosed, Closed,
         Lease!LeaseStep, Lease!LeaseNext, Lease!leaseVars, Lease!EndedNow,
         Lease!Take, Lease!Lose, Lease!End

\* Every session is a lease: one connection at a time, none twice, none once it is closed.
THEOREM LeaseCorrect == Spec => ImplementsLease
<1>1. Begins => \A s \in Sessions : Lease(s)!LeaseInit
  BY DEF Begins, Init, LeftBehind, Lease!LeaseInit, EndedLeases, Closed
<1>2. ASSUME IInv, LeaseInv, [Next]_vars, NEW s \in Sessions
      PROVE  Lease(s)!LeaseStep
  <2> DEFINE Step == LeaseStays(s) \/ (\E c \in Conns : LeaseTaken(s, c)) \/ LeaseLost(s)
                     \/ LeaseClosed(s)
  <2> SUFFICES Step
    BY LeaseSteps
  <2> USE DEF EndedLeases, sessionVars, handlerVars, logoutVars
  <2>0. /\ ManagerAssumption /\ TypeOK
        /\ Closed(s) => client[s] = NoConn
        /\ client[s] # NoConn => ws[client[s]] = s /\ wpc[client[s]] = "bridge"
        /\ \A l \in Logouts : gpc[l] # "off" => held[l] \in Sessions
    BY <1>2, ManagerAssumption DEF IInv, LeaseInv, LogoutPoints
  \* close() by anybody: the lease of s ends, or nothing changes for s
  <2>1. ASSUME NEW t \in Sessions, NEW who \in {"reader", "reaper", "lifetime", "logout"},
               Close(t, who), UNCHANGED <<ws, wpc>>
        PROVE  Step
    <3>1. CASE s = t /\ ~Closed(t)
      BY <2>0, <2>1, <3>1 DEF Close, LeaseClosed, Closed, TypeOK, ManagerAssumption
    <3>2. CASE s # t \/ Closed(t)
      BY <2>0, <2>1, <3>2 DEF Close, LeaseStays, Closed, TypeOK
    <3> QED
      BY <3>1, <3>2
  <2>2. CASE UNCHANGED <<closer, client, ws, wpc>>
    BY <2>2 DEF LeaseStays, Closed
  <2>3. ASSUME NEW c \in Conns, Connection(c)
        PROVE  Step
    \* looking a session up moves a connection that holds nothing yet
    <3>1. CASE TerminalReuse(c) \/ (\E t \in Sessions : TerminalStart(c, t))
               \/ TerminalFails(c) \/ AttachRefused(c)
      <4>1. /\ client' = client /\ closer' = closer
            /\ wpc[c] \in {"start", "attach"} /\ wpc'[c] \in {"start", "attach", "failed", "refused"}
            /\ \A d \in Conns : d # c => wpc'[d] = wpc[d] /\ ws'[d] = ws[d]
        BY <2>0, <3>1
        DEF TerminalReuse, TerminalStart, TerminalFails, AttachRefused, TypeOK
      <4>2. EndedLeases(s)' = EndedLeases(s)
        BY <4>1
      <4> QED
        BY <4>1, <4>2 DEF LeaseStays, Closed
    <3>2. CASE AttachAccepted(c)
      <4>1. CASE ws[c] = s
        BY <2>0, <3>2, <4>1 DEF AttachAccepted, LeaseTaken, Closed, TypeOK, ManagerAssumption
      <4>2. CASE ws[c] # s
        BY <2>0, <3>2, <4>2 DEF AttachAccepted, LeaseStays, Closed, TypeOK
      <4> QED
        BY <4>1, <4>2
    <3>3. CASE BridgeReturns(c)
      <4>1. CASE client[s] = c
        BY <2>0, <3>3, <4>1 DEF BridgeReturns, LeaseLost, Closed, TypeOK, ManagerAssumption
      <4>2. CASE client[s] # c
        BY <2>0, <3>3, <4>2 DEF BridgeReturns, LeaseStays, Closed, TypeOK
      <4> QED
        BY <4>1, <4>2
    <3> QED
      BY <2>3, <3>1, <3>2, <3>3 DEF Connection
  <2>4. ASSUME NEW t \in Sessions, SessionStep(t)
        PROVE  Step
    <3>1. CASE PublishDetaches(t)
      <4>1. CASE s = t
        BY <2>0, <3>1, <4>1 DEF PublishDetaches, LeaseLost, Closed, TypeOK, ManagerAssumption
      <4>2. CASE s # t
        BY <2>0, <3>1, <4>2 DEF PublishDetaches, LeaseStays, Closed, TypeOK
      <4> QED
        BY <4>1, <4>2
    <3>2. CASE ReaderCloses(t) \/ ReaperCloses(t) \/ CleanupLifetime(t)
      BY <2>1, <3>2 DEF ReaderCloses, ReaperCloses, CleanupLifetime
    <3> QED
      BY <2>2, <2>4, <3>1, <3>2
      DEF SessionStep, ShellEnds, TeardownReturns, ReaderDone, ReaperDecides, Cleanup,
          CleanupSeesDone, CleanupClosed, CleanupRelease
  <2>5. ASSUME NEW l \in Logouts, Logout(l)
        PROVE  Step
    <3>1. CASE LogoutCloses(l)
      BY <2>0, <2>1, <3>1 DEF LogoutCloses
    <3> QED
      BY <2>2, <2>5, <3>1 DEF Logout, LogoutNothing, LogoutTakes, LogoutClosed,
                              LogoutFinished, LogoutTimesOut
  <2> QED
    BY <1>2, <2>2, <2>3, <2>4, <2>5 DEF Next, Terminated, vars
<1>3. IInv /\ LeaseInv /\ [Next]_vars => [\A s \in Sessions : Lease(s)!LeaseStep]_vars
  BY <1>2
<1> QED
  BY InvariantHolds, LeaseInvHolds, <1>1, <1>3, PTL DEF Spec, ImplementsLease

=============================================================================
