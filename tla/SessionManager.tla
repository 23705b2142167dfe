---------------------------- MODULE SessionManager ----------------------------
(***************************************************************************)
(* The part of internal/server/server.go that owns the PTY sessions: the   *)
(* single slot server.session, the limiter of internal/session, the        *)
(* WebSocket handlers that look up or start a session and attach to it,    *)
(* the cleanup goroutine of every session, and the logouts that end it.    *)
(*                                                                         *)
(* A block under sessionMu is one step, and so is a block under the mutex  *)
(* of a session.  The inside of a session is PersistentSession's; here a   *)
(* session is who is attached, who closed it and how far its PTY is.       *)
(***************************************************************************)
EXTENDS Integers, FiniteSets

CONSTANTS
    Sessions,      \* the PTY sessions that can be started: bounds how often one is
    Conns,         \* WebSocket requests, already authenticated and upgraded
    Logouts,       \* logout requests, already authenticated
    NoSession,     \* the nil *persistentSession
    NoConn,        \* the nil *websocket.Conn
    MaxSessions,   \* terminal.max_sessions
    Stuck,         \* sessions whose shell may survive even SIGKILL, so that Close never returns
    Retention      \* TRUE iff terminal.session_retention > 0

ASSUME ManagerAssumption ==
    /\ IsFiniteSet(Sessions)
    /\ NoSession \notin Sessions
    /\ NoConn \notin Conns
    /\ MaxSessions \in Nat \ {0}
    /\ Stuck \subseteq Sessions
    /\ Retention \in BOOLEAN

VARIABLES
    maxLifetime,           \* TRUE iff terminal.max_lifetime > 0; the configuration never changes
    session, active,       \* server.session (sessionMu) and limiter.active
    started,               \* sessions that newPersistentSession has made
    closer,                \* who closed the session, "none" while it is open
    client,                \* session.client
    everAttached,          \* sessions whose detachedAt can be set
    decided,               \* sessions whose reaper has found the retention over
    pty,                   \* "alive", "exited" (shell gone), "torn" (terminal.Close returned)
    done,                  \* the reader has closed session.done
    cleanup,               \* the goroutine started by terminalSession
    wpc, ws, tries, refusedBy,  \* WebSocket handler: control, session, attempts, refusals
    lpc, gpc, held         \* logout: the handler, the goroutine it starts, the session it took

sessionVars == <<closer, client, everAttached, decided, pty, done>>
handlerVars == <<wpc, ws, tries, refusedBy>>
logoutVars == <<lpc, gpc, held>>
vars == <<maxLifetime, session, active, started, sessionVars, cleanup, handlerVars, logoutVars>>

TypeOK ==
    /\ maxLifetime \in BOOLEAN
    /\ session \in started \cup {NoSession}
    /\ active \in 0..MaxSessions
    /\ started \in SUBSET Sessions
    /\ closer \in [Sessions -> {"none", "reader", "reaper", "lifetime", "logout"}]
    /\ client \in [Sessions -> Conns \cup {NoConn}]
    /\ everAttached \in SUBSET Sessions
    /\ decided \in SUBSET Sessions
    /\ pty \in [Sessions -> {"alive", "exited", "torn"}]
    /\ done \in SUBSET Sessions
    /\ cleanup \in [Sessions -> {"off", "watch", "closing", "release", "ended"}]
    /\ wpc \in [Conns -> {"start", "attach", "bridge", "failed", "refused", "gone"}]
    /\ ws \in [Conns -> Sessions \cup {NoSession}]
    /\ tries \in [Conns -> 0..2]
    /\ refusedBy \in [Conns -> SUBSET Sessions]
    /\ lpc \in [Logouts -> {"new", "waiting", "returned"}]
    /\ gpc \in [Logouts -> {"off", "close", "closing", "finished"}]
    /\ held \in [Logouts -> Sessions \cup {NoSession}]

Init ==
    /\ maxLifetime \in BOOLEAN
    /\ session = NoSession /\ active = 0 /\ started = {}
    /\ closer = [s \in Sessions |-> "none"]
    /\ client = [s \in Sessions |-> NoConn]
    /\ everAttached = {} /\ decided = {}
    /\ pty = [s \in Sessions |-> "alive"]
    /\ done = {}
    /\ cleanup = [s \in Sessions |-> "off"]
    /\ wpc = [c \in Conns |-> "start"]
    /\ ws = [c \in Conns |-> NoSession]
    /\ tries = [c \in Conns |-> 0]
    /\ refusedBy = [c \in Conns |-> {}]
    /\ lpc = [l \in Logouts |-> "new"]
    /\ gpc = [l \in Logouts |-> "off"]
    /\ held = [l \in Logouts |-> NoSession]

\* session s after a connection has come and gone that is none of Conns: it runs, nobody is
\* attached, and a request can take it over
LeftBehind(s) ==
    /\ maxLifetime \in BOOLEAN
    /\ session = s /\ active = 1 /\ started = {s} /\ everAttached = {s}
    /\ closer = [t \in Sessions |-> "none"]
    /\ client = [t \in Sessions |-> NoConn]
    /\ decided = {} /\ done = {}
    /\ pty = [t \in Sessions |-> "alive"]
    /\ cleanup = [t \in Sessions |-> IF t = s THEN "watch" ELSE "off"]
    /\ wpc = [c \in Conns |-> "start"]
    /\ ws = [c \in Conns |-> NoSession]
    /\ tries = [c \in Conns |-> 0]
    /\ refusedBy = [c \in Conns |-> {}]
    /\ lpc = [l \in Logouts |-> "new"]
    /\ gpc = [l \in Logouts |-> "off"]
    /\ held = [l \in Logouts |-> NoSession]

Begins == Init \/ \E s \in Sessions : LeftBehind(s)

-----------------------------------------------------------------------------
Closed(s) == closer[s] # "none"

\* Limiter.Acquire succeeds when it finds n slots taken
CanAcquire(n) == n < MaxSessions

\* Limiter.Release
Released(n) == IF n > 0 THEN n - 1 ELSE n

\* persistentSession.close up to the unlock; the first caller is the one that tears down
Close(s, who) ==
    IF Closed(s)
    THEN UNCHANGED <<closer, client>>
    ELSE /\ closer' = [closer EXCEPT ![s] = who]
         /\ client' = [client EXCEPT ![s] = NoConn]

-----------------------------------------------------------------------------
(* webSocket and terminalSession, for the request of connection c.         *)

\* Deviation: the current session is handed out without a look at its closed channel.
UsableClosedToo == session

\* the session that terminalSession would hand out, and the slots in use after it has
\* dropped a current session that is closed
Usable == IF session # NoSession /\ ~Closed(session) THEN session ELSE NoSession
InUse == IF session # NoSession /\ Closed(session) THEN Released(active) ELSE active

\* terminalSession returns the current session
TerminalReuse(c) ==
    /\ wpc[c] = "start"
    /\ Usable # NoSession
    /\ ws' = [ws EXCEPT ![c] = session]
    /\ wpc' = [wpc EXCEPT ![c] = "attach"]
    /\ UNCHANGED <<maxLifetime, session, active, started, sessionVars, cleanup, tries,
                   refusedBy, logoutVars>>

\* terminalSession starts session s and its cleanup goroutine
TerminalStart(c, s) ==
    /\ wpc[c] = "start"
    /\ Usable = NoSession
    /\ CanAcquire(InUse)
    /\ s \in Sessions \ started
    /\ session' = s
    /\ active' = InUse + 1
    /\ started' = started \cup {s}
    /\ cleanup' = [cleanup EXCEPT ![s] = "watch"]
    /\ ws' = [ws EXCEPT ![c] = s]
    /\ wpc' = [wpc EXCEPT ![c] = "attach"]
    /\ UNCHANGED <<maxLifetime, sessionVars, tries, refusedBy, logoutVars>>

\* terminalSession returns an error: startTerminal failed and the slot just acquired is given
\* back, or there was no slot ("session limit reached")
TerminalFails(c) ==
    /\ wpc[c] = "start"
    /\ Usable = NoSession
    /\ session' = NoSession
    /\ active' = (IF CanAcquire(InUse) THEN Released(InUse + 1) ELSE InUse)
    /\ wpc' = [wpc EXCEPT ![c] = IF CanAcquire(InUse) THEN "failed" ELSE "refused"]
    /\ UNCHANGED <<maxLifetime, started, sessionVars, cleanup, ws, tries, refusedBy, logoutVars>>

\* attach finds the session open
AttachAccepted(c) ==
    /\ wpc[c] = "attach"
    /\ ~Closed(ws[c])
    /\ client' = [client EXCEPT ![ws[c]] = c]
    /\ everAttached' = everAttached \cup {ws[c]}
    /\ wpc' = [wpc EXCEPT ![c] = "bridge"]
    /\ UNCHANGED <<maxLifetime, session, active, started, closer, decided, pty, done, cleanup,
                   ws, tries, refusedBy, logoutVars>>

\* the session was closed since the lookup: look it up once more, then give up
AttachRefused(c) ==
    /\ wpc[c] = "attach"
    /\ Closed(ws[c])
    /\ tries' = [tries EXCEPT ![c] = @ + 1]
    /\ refusedBy' = [refusedBy EXCEPT ![c] = @ \cup {ws[c]}]
    /\ wpc' = [wpc EXCEPT ![c] = IF tries[c] = 0 THEN "start" ELSE "failed"]
    /\ UNCHANGED <<maxLifetime, session, active, started, sessionVars, cleanup, ws, logoutVars>>

\* bridge returns, for any reason: deferred detach and close of the connection
BridgeReturns(c) ==
    /\ wpc[c] = "bridge"
    /\ client' = IF client[ws[c]] = c THEN [client EXCEPT ![ws[c]] = NoConn] ELSE client
    /\ wpc' = [wpc EXCEPT ![c] = "gone"]
    /\ UNCHANGED <<maxLifetime, session, active, started, closer, everAttached, decided, pty,
                   done, cleanup, ws, tries, refusedBy, logoutVars>>

\* publish detaches a connection that failed under a write; its handler leaves later
PublishDetaches(s) ==
    /\ client[s] # NoConn
    /\ client' = [client EXCEPT ![s] = NoConn]
    /\ UNCHANGED <<maxLifetime, session, active, started, closer, everAttached, decided, pty,
                   done, cleanup, handlerVars, logoutVars>>

-----------------------------------------------------------------------------
(* The goroutines of session s.                                            *)

\* the user ends the shell, or terminal.Close of the closer kills it
ShellEnds(s) ==
    /\ s \in started
    /\ pty[s] = "alive"
    /\ pty' = [pty EXCEPT ![s] = "exited"]
    /\ UNCHANGED <<maxLifetime, session, active, started, closer, client, everAttached,
                   decided, done, cleanup, handlerVars, logoutVars>>

\* terminal.Close, called by the closer, returns
TeardownReturns(s) ==
    /\ Closed(s)
    /\ pty[s] = "exited"
    /\ pty' = [pty EXCEPT ![s] = "torn"]
    /\ UNCHANGED <<maxLifetime, session, active, started, closer, client, everAttached,
                   decided, done, cleanup, handlerVars, logoutVars>>

\* readOutput: Read fails once the shell is gone, and the reader calls close
ReaderCloses(s) ==
    /\ s \notin done
    /\ pty[s] # "alive"
    /\ ~Closed(s)
    /\ Close(s, "reader")
    /\ UNCHANGED <<maxLifetime, session, active, started, everAttached, decided, pty, done,
                   cleanup, handlerVars, logoutVars>>

\* ... and when its close has returned, which is at once if it was not the first
ReaderDone(s) ==
    /\ s \notin done
    /\ pty[s] # "alive"
    /\ Closed(s)
    /\ closer[s] = "reader" => pty[s] = "torn"
    /\ done' = done \cup {s}
    /\ UNCHANGED <<maxLifetime, session, active, started, closer, client, everAttached,
                   decided, pty, cleanup, handlerVars, logoutVars>>

\* reapDetached finds the session detached for longer than the retention ...
ReaperDecides(s) ==
    /\ Retention
    /\ s \in everAttached \ decided
    /\ client[s] = NoConn
    /\ ~Closed(s)
    /\ decided' = decided \cup {s}
    /\ UNCHANGED <<maxLifetime, session, active, started, closer, client, everAttached, pty,
                   done, cleanup, handlerVars, logoutVars>>

\* ... and calls close without looking again
ReaperCloses(s) ==
    /\ s \in decided
    /\ ~Closed(s)
    /\ Close(s, "reaper")
    /\ UNCHANGED <<maxLifetime, session, active, started, everAttached, decided, pty, done,
                   cleanup, handlerVars, logoutVars>>

-----------------------------------------------------------------------------
(* The cleanup goroutine that terminalSession started for session s.       *)

\* <-current.done
CleanupSeesDone(s) ==
    /\ cleanup[s] = "watch"
    /\ s \in done
    /\ cleanup' = [cleanup EXCEPT ![s] = "release"]
    /\ UNCHANGED <<maxLifetime, session, active, started, sessionVars, handlerVars, logoutVars>>

\* Deviation: the lifetime frees the slot and closes nothing.
CleanupLifetimeForgets(s) ==
    /\ maxLifetime
    /\ cleanup[s] = "watch"
    /\ cleanup' = [cleanup EXCEPT ![s] = "release"]
    /\ UNCHANGED <<maxLifetime, session, active, started, sessionVars, handlerVars, logoutVars>>

\* <-timer.C, then current.close()
CleanupLifetime(s) ==
    /\ maxLifetime
    /\ cleanup[s] = "watch"
    /\ Close(s, "lifetime")
    /\ cleanup' = [cleanup EXCEPT ![s] = IF Closed(s) THEN "release" ELSE "closing"]
    /\ UNCHANGED <<maxLifetime, session, active, started, everAttached, decided, pty, done,
                   handlerVars, logoutVars>>

\* current.close() returned
CleanupClosed(s) ==
    /\ cleanup[s] = "closing"
    /\ pty[s] = "torn"
    /\ cleanup' = [cleanup EXCEPT ![s] = "release"]
    /\ UNCHANGED <<maxLifetime, session, active, started, sessionVars, handlerVars, logoutVars>>

\* Deviation: the slot is released whichever session is current.
CleanupReleaseAny(s) ==
    /\ cleanup[s] = "release"
    /\ cleanup' = [cleanup EXCEPT ![s] = "ended"]
    /\ session' = NoSession
    /\ active' = Released(active)
    /\ UNCHANGED <<maxLifetime, started, sessionVars, handlerVars, logoutVars>>

\* Deviation: the slot is given back and the closed session stays the current one.
CleanupReleaseKeeps(s) ==
    /\ cleanup[s] = "release"
    /\ cleanup' = [cleanup EXCEPT ![s] = "ended"]
    /\ active' = IF session = s THEN Released(active) ELSE active
    /\ UNCHANGED <<maxLifetime, session, started, sessionVars, handlerVars, logoutVars>>

\* the block under sessionMu: release the slot only of a session that is still current
CleanupRelease(s) ==
    /\ cleanup[s] = "release"
    /\ cleanup' = [cleanup EXCEPT ![s] = "ended"]
    /\ IF session = s
       THEN session' = NoSession /\ active' = Released(active)
       ELSE UNCHANGED <<session, active>>
    /\ UNCHANGED <<maxLifetime, started, sessionVars, handlerVars, logoutVars>>

-----------------------------------------------------------------------------
(* closeTerminalSession, for logout request l.                             *)

\* there is nothing to close
LogoutNothing(l) ==
    /\ lpc[l] = "new"
    /\ session = NoSession
    /\ lpc' = [lpc EXCEPT ![l] = "returned"]
    /\ UNCHANGED <<maxLifetime, session, active, started, sessionVars, cleanup, handlerVars,
                   gpc, held>>

\* Deviation: logout leaves the slot to the cleanup goroutine.
LogoutKeepsSlot(l) ==
    /\ lpc[l] = "new"
    /\ session # NoSession
    /\ held' = [held EXCEPT ![l] = session]
    /\ session' = NoSession
    /\ lpc' = [lpc EXCEPT ![l] = "waiting"]
    /\ gpc' = [gpc EXCEPT ![l] = "close"]
    /\ UNCHANGED <<maxLifetime, active, started, sessionVars, cleanup, handlerVars>>

\* the block under sessionMu, then the goroutine that closes
LogoutTakes(l) ==
    /\ lpc[l] = "new"
    /\ session # NoSession
    /\ held' = [held EXCEPT ![l] = session]
    /\ session' = NoSession
    /\ active' = Released(active)
    /\ lpc' = [lpc EXCEPT ![l] = "waiting"]
    /\ gpc' = [gpc EXCEPT ![l] = "close"]
    /\ UNCHANGED <<maxLifetime, started, sessionVars, cleanup, handlerVars>>

\* the goroutine: current.close()
LogoutCloses(l) ==
    /\ gpc[l] = "close"
    /\ Close(held[l], "logout")
    /\ gpc' = [gpc EXCEPT ![l] = IF Closed(held[l]) THEN "finished" ELSE "closing"]
    /\ UNCHANGED <<maxLifetime, session, active, started, everAttached, decided, pty, done,
                   cleanup, handlerVars, lpc, held>>

\* current.close() returned: close(finished)
LogoutClosed(l) ==
    /\ gpc[l] = "closing"
    /\ pty[held[l]] = "torn"
    /\ gpc' = [gpc EXCEPT ![l] = "finished"]
    /\ UNCHANGED <<maxLifetime, session, active, started, sessionVars, cleanup, handlerVars,
                   lpc, held>>

\* <-finished
LogoutFinished(l) ==
    /\ lpc[l] = "waiting"
    /\ gpc[l] = "finished"
    /\ lpc' = [lpc EXCEPT ![l] = "returned"]
    /\ UNCHANGED <<maxLifetime, session, active, started, sessionVars, cleanup, handlerVars,
                   gpc, held>>

\* Deviation: logout waits for the teardown without a bound.
LogoutWaits(l) ==
    /\ lpc[l] = "waiting"
    /\ gpc[l] = "finished"
    /\ lpc' = [lpc EXCEPT ![l] = "returned"]
    /\ UNCHANGED <<maxLifetime, session, active, started, sessionVars, cleanup, handlerVars,
                   gpc, held>>

\* <-time.After(5 * time.Second)
LogoutTimesOut(l) ==
    /\ lpc[l] = "waiting"
    /\ lpc' = [lpc EXCEPT ![l] = "returned"]
    /\ UNCHANGED <<maxLifetime, session, active, started, sessionVars, cleanup, handlerVars,
                   gpc, held>>

-----------------------------------------------------------------------------
Connection(c) ==
    \/ TerminalReuse(c) \/ (\E s \in Sessions : TerminalStart(c, s)) \/ TerminalFails(c)
    \/ AttachAccepted(c) \/ AttachRefused(c) \/ BridgeReturns(c)

Cleanup(s) == CleanupSeesDone(s) \/ CleanupLifetime(s) \/ CleanupClosed(s) \/ CleanupRelease(s)

SessionStep(s) ==
    \/ PublishDetaches(s) \/ ShellEnds(s) \/ TeardownReturns(s) \/ ReaderCloses(s)
    \/ ReaderDone(s) \/ ReaperDecides(s) \/ ReaperCloses(s) \/ Cleanup(s)

Logout(l) ==
    \/ LogoutNothing(l) \/ LogoutTakes(l) \/ LogoutCloses(l) \/ LogoutClosed(l)
    \/ LogoutFinished(l) \/ LogoutTimesOut(l)

\* every request is answered and no goroutine is left
Terminated ==
    /\ \A c \in Conns : wpc[c] \in {"failed", "refused", "gone"}
    /\ \A s \in started : cleanup[s] = "ended" /\ s \in done /\ pty[s] = "torn"
    /\ \A l \in Logouts : lpc[l] = "returned" /\ gpc[l] \in {"off", "finished"}
    /\ UNCHANGED vars

Next ==
    \/ \E c \in Conns : Connection(c)
    \/ \E s \in Sessions : SessionStep(s)
    \/ \E l \in Logouts : Logout(l)
    \/ Terminated

Spec == Begins /\ [][Next]_vars

\* Fairness of the server: its handlers and goroutines run and its timers fire.
ServerFairness ==
    /\ \A c \in Conns : WF_vars(wpc[c] # "bridge" /\ Connection(c))
    /\ \A s \in Sessions : WF_vars(Cleanup(s))
    /\ \A l \in Logouts : WF_vars(Logout(l))

\* Fairness of the sessions: a closed session kills its shell, terminal.Close returns, the
\* goroutines of a closed session end (PersistentSession), a reaper that decided closes.
\* Nothing is assumed of the shell and the teardown of a stuck session.
SessionFairness ==
    /\ \A c \in Conns : WF_vars(wpc[c] = "bridge" /\ Closed(ws[c]) /\ BridgeReturns(c))
    /\ \A s \in Sessions : WF_vars(ReaderDone(s)) /\ WF_vars(ReaperCloses(s))
    /\ \A s \in Sessions \ Stuck :
         WF_vars(Closed(s) /\ ShellEnds(s)) /\ WF_vars(TeardownReturns(s))

FairSpec == Spec /\ ServerFairness /\ SessionFairness

-----------------------------------------------------------------------------
(* Properties.                                                             *)

\* The limiter counts the current session and nothing else, although four places in the code
\* release its slot: the replacement of a closed session, a failed start, the cleanup
\* goroutine and logout.  No slot is leaked and none is released twice.
SlotMatchesSession == active = IF session = NoSession THEN 0 ELSE 1

\* "a logout followed immediately by a new connection cannot hit the session limit"
\* (server.go:543-545), and neither can any other connection.
LimitNeverRefuses == \A c \in Conns : wpc[c] # "refused"

\* A session that is still open has an owner who will see to its end: it is the current
\* session, or the goroutine of a logout is about to close it.
NoOrphanedSession ==
    \A s \in started :
      ~Closed(s) => session = s \/ \E l \in Logouts : held[l] = s /\ gpc[l] = "close"

\* An open session stops being the current one only because a logout took it: the cleanup
\* goroutine of an older session never evicts the session that replaced it.
EvictedOnlyByLogout ==
    [][\A s \in Sessions :
         session = s /\ session' # s /\ ~Closed(s)
           => \E l \in Logouts : lpc[l] = "new" /\ held'[l] = s]_vars

\* The second attempt of a WebSocket request never meets the closed session that refused the
\* first one: two refusals come from two different sessions.
RetryMeetsAnotherSession ==
    \A c \in Conns : Cardinality(refusedBy[c]) = tries[c]

\* The connections that were attached to session s and are no longer.
EndedLeases(s) == {c \in Conns : ws[c] = s /\ wpc[c] \in {"bridge", "gone"} /\ client[s] # c}

\* Every session keeps the lease promised by persistentSession.  (Proved, not checked: it takes
\* two connections, and PersistentSession checks it with two.)
Lease(s) == INSTANCE SessionLease
              WITH holder <- client[s], closed <- Closed(s), ended <- EndedLeases(s)
ImplementsLease ==
    /\ \A s \in Sessions : Lease(s)!LeaseInit
    /\ [][\A s \in Sessions : Lease(s)!LeaseStep]_vars

\* closeTerminalSession "ends the current PTY session without ever blocking the caller": a
\* logout returns even if the session it closes is stuck and its teardown never ends.
LogoutReturns == \A l \in Logouts : lpc[l] = "waiting" ~> lpc[l] = "returned"

\* A closed session gives its place up even if nobody ever connects again.
ClosedSessionLeaves == \A s \in Sessions \ Stuck : (session = s /\ Closed(s)) ~> session # s

\* With a maximum lifetime, no session stays open for ever and its shell does not survive it.
LifetimeEndsSession ==
    maxLifetime => \A s \in Sessions \ Stuck : s \in started ~> (Closed(s) /\ pty[s] = "torn")

=============================================================================
