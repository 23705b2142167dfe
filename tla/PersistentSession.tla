--------------------------- MODULE PersistentSession ---------------------------
(***************************************************************************)
(* One PTY session of internal/server/persistent_session.go and every      *)
(* goroutine that touches it:                                              *)
(*   - the reader of the PTY (readOutput, publish);                        *)
(*   - the reaper of detached sessions (reapDetached);                     *)
(*   - one HTTP handler per WebSocket connection (webSocket, bridge);      *)
(*   - one input goroutine per connection (the func literal of bridge);    *)
(*   - whoever else closes the session (logout, the maximum lifetime).     *)
(* A block of code run under session.mu is one step.  Between two such     *)
(* blocks, and around every call that may block, the other goroutines run. *)
(*                                                                         *)
(* The time of a detachment is kept as the id of the attachment it ended:  *)
(* an attachment is detached at most once, so these times are as distinct  *)
(* as the clock readings they stand for.  `ripe` says that the retention   *)
(* of the detachment in detachedAt has run out.  Terminal bytes and        *)
(* message bodies carry no state and are left out.                         *)
(***************************************************************************)
EXTENDS Naturals, FiniteSets

CONSTANTS
    Conns,        \* WebSocket connections that reach attach, each once
    Typists,      \* those whose browser sends input
    Droppers,     \* those the browser or the network may end
    NoConn,       \* the nil *websocket.Conn
    Retention,    \* TRUE iff terminal.session_retention > 0
    IdleTimeout   \* TRUE iff terminal.idle_timeout > 0

\* nobody holds writeMu
Free == "free"

ASSUME SessionAssumption ==
    /\ IsFiniteSet(Conns)
    /\ NoConn \notin Conns
    /\ Free \notin Conns /\ "reader" \notin Conns
    /\ Typists \subseteq Conns
    /\ Droppers \subseteq Conns
    /\ Retention \in BOOLEAN
    /\ IdleTimeout \in BOOLEAN

VARIABLES
    client, clientID, detachedAt,  \* guarded by session.mu; detachedAt 0 is the zero Time
    closed,                        \* the channel session.closed is closed
    wake,                          \* wakeReaper holds its one token
    writeMu,                       \* who holds session.writeMu
    ripe,                          \* detachedAt lies longer ago than the retention
    shell,                         \* "alive", or "exited" (the PTY is hung up)
    open,                          \* connections that still carry data
    hpc, hid, hold,                \* handler: control, attachment id, connection it displaced
    ipc, late,                     \* input goroutine: control, inputs delivered after displacement
    rdpc, rdConn, rdID,            \* reader: control and the attachment it captured
    rppc, rpSaw,                   \* reaper: control and the detachment it captured
    stage, closeClient             \* the one call of close() that found the session open

handlerVars == <<hpc, hid, hold>>
inputVars == <<ipc, late>>
readerVars == <<rdpc, rdConn, rdID>>
reaperVars == <<rppc, rpSaw>>
closeVars == <<closed, stage, closeClient>>
vars == <<client, clientID, detachedAt, wake, writeMu, ripe, shell, open,
          handlerVars, inputVars, readerVars, reaperVars, closeVars>>

TypeOK ==
    /\ client \in Conns \cup {NoConn}
    /\ clientID \in Nat
    /\ detachedAt \in Nat
    /\ closed \in BOOLEAN
    /\ wake \in BOOLEAN
    /\ writeMu \in {Free, "reader"} \cup Conns
    /\ ripe \in BOOLEAN
    /\ shell \in {"alive", "exited"}
    /\ open \in [Conns -> BOOLEAN]
    /\ hpc \in [Conns -> {"new", "attached", "bridge", "ping", "pinging", "leave", "idled",
                          "notify", "gone"}]
    /\ hid \in [Conns -> Nat]
    /\ hold \in [Conns -> Conns \cup {NoConn}]
    /\ ipc \in [Conns -> {"off", "reading", "writing", "reported"}]
    /\ late \in [Conns -> Nat]
    /\ rdpc \in {"read", "lock", "send", "detach", "notify", "closing", "done"}
    /\ rdConn \in Conns \cup {NoConn}
    /\ rdID \in Nat
    /\ rdpc \in {"lock", "send", "detach"} => rdConn # NoConn
    /\ rppc \in {"off", "load", "park", "timed", "confirm", "close", "closing", "exited"}
    /\ rpSaw \in Nat
    /\ stage \in {"open", "client", "terminal", "closed"}
    /\ closeClient \in Conns \cup {NoConn}

\* newPersistentSession: the reader always runs, the reaper only with a retention.
Init ==
    /\ client = NoConn /\ clientID = 0 /\ detachedAt = 0
    /\ closed = FALSE /\ wake = FALSE /\ writeMu = Free
    /\ ripe = FALSE
    /\ shell = "alive"
    /\ open = [c \in Conns |-> TRUE]
    /\ hpc = [c \in Conns |-> "new"]
    /\ hid = [c \in Conns |-> 0]
    /\ hold = [c \in Conns |-> NoConn]
    /\ ipc = [c \in Conns |-> "off"]
    /\ late = [c \in Conns |-> 0]
    /\ rdpc = "read" /\ rdConn = NoConn /\ rdID = 0
    /\ rppc = (IF Retention THEN "load" ELSE "off") /\ rpSaw = 0
    /\ stage = "open" /\ closeClient = NoConn

-----------------------------------------------------------------------------
(* The blocks under session.mu that several goroutines share.              *)

\* isCurrentClient
IsCurrentClient(c, id) == client = c /\ clientID = id

\* Deviation: detach does not compare the attachment.
DetachAnyone(c, id) ==
    /\ client' = NoConn
    /\ detachedAt' = clientID
    /\ ripe' = FALSE

\* detach up to the unlock; the caller's next step is notifyReaper.
Detach(c, id) ==
    IF client = c /\ clientID = id
    THEN /\ client' = NoConn
         /\ detachedAt' = clientID
         /\ ripe' = FALSE
    ELSE UNCHANGED <<client, detachedAt, ripe>>

\* close up to the unlock: only the first caller goes on to the teardown.
CloseBegin ==
    IF closed
    THEN UNCHANGED <<closeVars, client>>
    ELSE /\ closed' = TRUE
         /\ stage' = "client"
         /\ closeClient' = client
         /\ client' = NoConn

\* Deviation: the reaper is not woken.
NotifyNobody == UNCHANGED wake

\* notifyReaper: the token is put in the channel or is already there.
NotifyReaper == wake' = TRUE

\* (*websocket.Conn).Close on a connection that may be nil
CloseConn(c) == open' = [x \in Conns |-> open[x] /\ x # c]

-----------------------------------------------------------------------------
(* The teardown of the first close().                                      *)

\* Deviation: close() leaves the attached connection open.
TeardownKeepsClient ==
    /\ stage = "client"
    /\ closeClient' = NoConn
    /\ stage' = "terminal"
    /\ UNCHANGED <<client, clientID, detachedAt, wake, writeMu, ripe, shell, open,
                   handlerVars, inputVars, readerVars, reaperVars, closed>>

\* client.Close() outside the lock
TeardownClient ==
    /\ stage = "client"
    /\ CloseConn(closeClient)
    /\ closeClient' = NoConn
    /\ stage' = "terminal"
    /\ UNCHANGED <<client, clientID, detachedAt, wake, writeMu, ripe, shell,
                   handlerVars, inputVars, readerVars, reaperVars, closed>>

\* terminal.Close(): when it returns the shell has been waited for
TeardownTerminal ==
    /\ stage = "terminal"
    /\ shell' = "exited"
    /\ stage' = "closed"
    /\ UNCHANGED <<client, clientID, detachedAt, wake, writeMu, ripe, open,
                   handlerVars, inputVars, readerVars, reaperVars, closed, closeClient>>

\* closeTerminalSession's goroutine or the maximum lifetime calls close()
OwnerClose ==
    /\ ~closed
    /\ CloseBegin
    /\ UNCHANGED <<clientID, detachedAt, wake, writeMu, ripe, shell, open,
                   handlerVars, inputVars, readerVars, reaperVars>>

-----------------------------------------------------------------------------
(* The reader.  Output read while nobody is attached is dropped: that read *)
(* changes nothing and is not an action.                                   *)

\* Read returned bytes; publish captures the attachment under mu
ReadOutput ==
    /\ rdpc = "read"
    /\ client # NoConn
    /\ rdpc' = "lock"
    /\ rdConn' = client
    /\ rdID' = clientID
    /\ UNCHANGED <<client, clientID, detachedAt, wake, writeMu, ripe, shell, open,
                   handlerVars, inputVars, reaperVars, closeVars>>

\* writeClient takes writeMu and checks that the attachment is still current
ReaderLock ==
    /\ rdpc = "lock"
    /\ writeMu = Free
    /\ IF IsCurrentClient(rdConn, rdID)
       THEN rdpc' = "send" /\ writeMu' = "reader"
       ELSE rdpc' = "detach" /\ UNCHANGED writeMu
    /\ UNCHANGED <<client, clientID, detachedAt, wake, ripe, shell, open,
                   handlerVars, inputVars, rdConn, rdID, reaperVars, closeVars>>

\* WriteMessage has no deadline: on an open connection it may also never return
ReaderSent ==
    /\ rdpc = "send"
    /\ open[rdConn]
    /\ rdpc' = "read"
    /\ writeMu' = Free
    /\ rdConn' = NoConn /\ rdID' = 0
    /\ UNCHANGED <<client, clientID, detachedAt, wake, ripe, shell, open,
                   handlerVars, inputVars, reaperVars, closeVars>>

ReaderSendFails ==
    /\ rdpc = "send"
    /\ ~open[rdConn]
    /\ rdpc' = "detach"
    /\ writeMu' = Free
    /\ UNCHANGED <<client, clientID, detachedAt, wake, ripe, shell, open,
                   handlerVars, inputVars, rdConn, rdID, reaperVars, closeVars>>

ReaderDetach ==
    /\ rdpc = "detach"
    /\ Detach(rdConn, rdID)
    /\ rdpc' = "notify"
    /\ UNCHANGED <<clientID, wake, writeMu, shell, open,
                   handlerVars, inputVars, rdConn, rdID, reaperVars, closeVars>>

ReaderNotify ==
    /\ rdpc = "notify"
    /\ NotifyReaper
    /\ rdpc' = "read"
    /\ rdConn' = NoConn /\ rdID' = 0
    /\ UNCHANGED <<client, clientID, detachedAt, writeMu, ripe, shell, open,
                   handlerVars, inputVars, reaperVars, closeVars>>

\* Read failed because the PTY is hung up: the reader closes the session
ReadError ==
    /\ rdpc = "read"
    /\ shell = "exited"
    /\ CloseBegin
    /\ rdpc' = (IF closed THEN "done" ELSE "closing")
    /\ UNCHANGED <<clientID, detachedAt, wake, writeMu, ripe, shell, open,
                   handlerVars, inputVars, rdConn, rdID, reaperVars>>

\* the reader's own close() returned: defer close(session.done)
ReaderDone ==
    /\ rdpc = "closing"
    /\ stage = "closed"
    /\ rdpc' = "done"
    /\ UNCHANGED <<client, clientID, detachedAt, wake, writeMu, ripe, shell, open,
                   handlerVars, inputVars, rdConn, rdID, reaperVars, closeVars>>

-----------------------------------------------------------------------------
(* The handler of connection c.                                            *)

\* Deviation: attach does not look whether the session is closed.
AttachToClosed(c) ==
    /\ hpc[c] = "new"
    /\ hpc' = [hpc EXCEPT ![c] = "attached"]
    /\ clientID' = clientID + 1
    /\ hid' = [hid EXCEPT ![c] = clientID + 1]
    /\ hold' = [hold EXCEPT ![c] = client]
    /\ client' = c
    /\ detachedAt' = 0
    /\ ripe' = FALSE
    /\ UNCHANGED <<open, wake, writeMu, shell, inputVars, readerVars, reaperVars, closeVars>>

\* attach under mu; a closed session refuses and the handler ends
Attach(c) ==
    /\ hpc[c] = "new"
    /\ IF closed
       THEN /\ hpc' = [hpc EXCEPT ![c] = "gone"]
            /\ CloseConn(c)
            /\ UNCHANGED <<client, clientID, detachedAt, ripe, hid, hold>>
       ELSE /\ hpc' = [hpc EXCEPT ![c] = "attached"]
            /\ clientID' = clientID + 1
            /\ hid' = [hid EXCEPT ![c] = clientID + 1]
            /\ hold' = [hold EXCEPT ![c] = client]
            /\ client' = c
            /\ detachedAt' = 0
            /\ ripe' = FALSE
            /\ UNCHANGED open
    /\ UNCHANGED <<wake, writeMu, shell, inputVars, readerVars, reaperVars,
                   closeVars>>

\* Deviation: the displaced connection is left open.
AttachLeavesOld(c) ==
    /\ hpc[c] = "attached"
    /\ NotifyReaper
    /\ hold' = [hold EXCEPT ![c] = NoConn]
    /\ hpc' = [hpc EXCEPT ![c] = "bridge"]
    /\ ipc' = [ipc EXCEPT ![c] = "reading"]
    /\ UNCHANGED <<client, clientID, detachedAt, writeMu, ripe, shell, open, hid, late,
                   readerVars, reaperVars, closeVars>>

\* after the unlock: wake the reaper, close the displaced connection, enter bridge
AttachFinish(c) ==
    /\ hpc[c] = "attached"
    /\ NotifyReaper
    /\ CloseConn(hold[c])
    /\ hold' = [hold EXCEPT ![c] = NoConn]
    /\ hpc' = [hpc EXCEPT ![c] = "bridge"]
    /\ ipc' = [ipc EXCEPT ![c] = "reading"]
    /\ UNCHANGED <<client, clientID, detachedAt, writeMu, ripe, shell, hid, late,
                   readerVars, reaperVars, closeVars>>

\* the 30 s heartbeat is selected and calls ping
Heartbeat(c) ==
    /\ hpc[c] = "bridge"
    /\ hpc' = [hpc EXCEPT ![c] = "ping"]
    /\ UNCHANGED <<client, clientID, detachedAt, wake, writeMu, ripe, shell, open,
                   hid, hold, inputVars, readerVars, reaperVars, closeVars>>

\* Deviation: ping checks the attachment without taking writeMu.
PingUnlocked(c) ==
    /\ hpc[c] = "ping"
    /\ hpc' = [hpc EXCEPT ![c] = IF IsCurrentClient(c, hid[c]) THEN "pinging" ELSE "leave"]
    /\ UNCHANGED <<client, clientID, detachedAt, wake, writeMu, ripe, shell, open,
                   hid, hold, inputVars, readerVars, reaperVars, closeVars>>

\* writeControl takes writeMu and checks that the attachment is still current
PingLock(c) ==
    /\ hpc[c] = "ping"
    /\ writeMu = Free
    /\ IF IsCurrentClient(c, hid[c])
       THEN hpc' = [hpc EXCEPT ![c] = "pinging"] /\ writeMu' = c
       ELSE hpc' = [hpc EXCEPT ![c] = "leave"] /\ UNCHANGED writeMu
    /\ UNCHANGED <<client, clientID, detachedAt, wake, ripe, shell, open,
                   hid, hold, inputVars, readerVars, reaperVars, closeVars>>

\* WriteControl returns within its 5 s deadline, with an error on a dead or stuck connection
PingReturns(c) ==
    /\ hpc[c] = "pinging"
    /\ \/ open[c] /\ hpc' = [hpc EXCEPT ![c] = "bridge"]
       \/ hpc' = [hpc EXCEPT ![c] = "leave"]
    /\ writeMu' = Free
    /\ UNCHANGED <<client, clientID, detachedAt, wake, ripe, shell, open,
                   hid, hold, inputVars, readerVars, reaperVars, closeVars>>

\* the error the input goroutine reported is selected
BridgeError(c) ==
    /\ hpc[c] = "bridge"
    /\ ipc[c] = "reported"
    /\ hpc' = [hpc EXCEPT ![c] = "leave"]
    /\ UNCHANGED <<client, clientID, detachedAt, wake, writeMu, ripe, shell, open,
                   hid, hold, inputVars, readerVars, reaperVars, closeVars>>

\* the idle timer is selected
IdleFires(c) ==
    /\ IdleTimeout
    /\ hpc[c] = "bridge"
    /\ hpc' = [hpc EXCEPT ![c] = "idled"]
    /\ UNCHANGED <<client, clientID, detachedAt, wake, writeMu, ripe, shell, open,
                   hid, hold, inputVars, readerVars, reaperVars, closeVars>>

\* defer terminalSession.detach(connection, clientID)
HandlerDetach(c) ==
    /\ hpc[c] \in {"leave", "idled"}
    /\ Detach(c, hid[c])
    /\ hpc' = [hpc EXCEPT ![c] = "notify"]
    /\ UNCHANGED <<clientID, wake, writeMu, shell, open,
                   hid, hold, inputVars, readerVars, reaperVars, closeVars>>

\* notifyReaper, then defer connection.Close()
HandlerReturns(c) ==
    /\ hpc[c] = "notify"
    /\ NotifyReaper
    /\ CloseConn(c)
    /\ hpc' = [hpc EXCEPT ![c] = "gone"]
    /\ UNCHANGED <<client, clientID, detachedAt, writeMu, ripe, shell,
                   hid, hold, inputVars, readerVars, reaperVars, closeVars>>

-----------------------------------------------------------------------------
(* The input goroutine of connection c.  A resize that succeeds touches    *)
(* only the window size of the PTY and is not an action.  A frame that was *)
(* already buffered is still received after the connection is closed.      *)

\* Deviation: write does not check the attachment.
InputUnchecked(c) ==
    /\ c \in Typists
    /\ ipc[c] = "reading"
    /\ ipc' = [ipc EXCEPT ![c] = "writing"]
    /\ UNCHANGED <<client, clientID, detachedAt, wake, writeMu, ripe, shell, open,
                   handlerVars, late, readerVars, reaperVars, closeVars>>

\* a binary message arrives; write checks the attachment and unlocks mu
InputReceived(c) ==
    /\ c \in Typists
    /\ ipc[c] = "reading"
    /\ ipc' = [ipc EXCEPT ![c] = IF IsCurrentClient(c, hid[c]) THEN "writing" ELSE "reported"]
    /\ UNCHANGED <<client, clientID, detachedAt, wake, writeMu, ripe, shell, open,
                   handlerVars, late, readerVars, reaperVars, closeVars>>

\* terminal.Write: the attachment checked above may have been displaced since
InputWritten(c) ==
    /\ ipc[c] = "writing"
    /\ IF shell = "alive"
       THEN /\ ipc' = [ipc EXCEPT ![c] = "reading"]
            /\ late' = [late EXCEPT ![c] = IF client = c THEN @ ELSE @ + 1]
       ELSE /\ ipc' = [ipc EXCEPT ![c] = "reported"]
            /\ UNCHANGED late
    /\ UNCHANGED <<client, clientID, detachedAt, wake, writeMu, ripe, shell, open,
                   handlerVars, readerVars, reaperVars, closeVars>>

\* ReadMessage fails on a dead connection, or a resize is rejected
InputFails(c) ==
    /\ ipc[c] = "reading"
    /\ ~open[c] \/ c \in Typists
    /\ ipc' = [ipc EXCEPT ![c] = "reported"]
    /\ UNCHANGED <<client, clientID, detachedAt, wake, writeMu, ripe, shell, open,
                   handlerVars, late, readerVars, reaperVars, closeVars>>

-----------------------------------------------------------------------------
(* The reaper.                                                             *)

\* the top of the loop: snapshot under mu, then choose what to wait for
ReaperLoad ==
    /\ rppc = "load"
    /\ IF client # NoConn \/ detachedAt = 0
       THEN rppc' = "park" /\ rpSaw' = 0
       ELSE /\ rpSaw' = detachedAt
            /\ rppc' = (IF ripe THEN "confirm" ELSE "timed")
    /\ UNCHANGED <<client, clientID, detachedAt, wake, writeMu, ripe, shell, open,
                   handlerVars, inputVars, readerVars, closeVars>>

\* <-session.wakeReaper
ReaperWoken ==
    /\ rppc \in {"park", "timed"}
    /\ wake
    /\ wake' = FALSE
    /\ rppc' = "load" /\ rpSaw' = 0
    /\ UNCHANGED <<client, clientID, detachedAt, writeMu, ripe, shell, open,
                   handlerVars, inputVars, readerVars, closeVars>>

\* <-timer.C; a timer set for a detachment that is over may fire at any time
ReaperTimer ==
    /\ rppc = "timed"
    /\ rpSaw = detachedAt => ripe
    /\ rppc' = "load" /\ rpSaw' = 0
    /\ UNCHANGED <<client, clientID, detachedAt, wake, writeMu, ripe, shell, open,
                   handlerVars, inputVars, readerVars, closeVars>>

\* <-session.closed
ReaperSeesClosed ==
    /\ rppc \in {"park", "timed"}
    /\ closed
    /\ rppc' = "exited" /\ rpSaw' = 0
    /\ UNCHANGED <<client, clientID, detachedAt, wake, writeMu, ripe, shell, open,
                   handlerVars, inputVars, readerVars, closeVars>>

\* Deviation: any detachment will do, not only the one that was timed.
ReaperConfirmAny ==
    /\ rppc = "confirm"
    /\ rppc' = (IF client = NoConn THEN "close" ELSE "load")
    /\ rpSaw' = 0
    /\ UNCHANGED <<client, clientID, detachedAt, wake, writeMu, ripe, shell, open,
                   handlerVars, inputVars, readerVars, closeVars>>

\* remaining <= 0: is it still the same detachment?  mu is released before close()
ReaperConfirm ==
    /\ rppc = "confirm"
    /\ rppc' = (IF client = NoConn /\ detachedAt = rpSaw THEN "close" ELSE "load")
    /\ rpSaw' = 0
    /\ UNCHANGED <<client, clientID, detachedAt, wake, writeMu, ripe, shell, open,
                   handlerVars, inputVars, readerVars, closeVars>>

ReaperClose ==
    /\ rppc = "close"
    /\ CloseBegin
    /\ rppc' = (IF closed THEN "exited" ELSE "closing")
    /\ UNCHANGED <<clientID, detachedAt, wake, writeMu, ripe, shell, open,
                   handlerVars, inputVars, readerVars, rpSaw>>

ReaperDone ==
    /\ rppc = "closing"
    /\ stage = "closed"
    /\ rppc' = "exited"
    /\ UNCHANGED <<client, clientID, detachedAt, wake, writeMu, ripe, shell, open,
                   handlerVars, inputVars, readerVars, rpSaw, closeVars>>

-----------------------------------------------------------------------------
(* What happens outside the program.                                       *)

\* the browser goes away or the network resets the connection
PeerDrops(c) ==
    /\ c \in Droppers
    /\ open[c] /\ hpc[c] # "new"
    /\ CloseConn(c)
    /\ UNCHANGED <<client, clientID, detachedAt, wake, writeMu, ripe, shell,
                   handlerVars, inputVars, readerVars, reaperVars, closeVars>>

\* the user ends the shell
ShellExits ==
    /\ shell = "alive"
    /\ shell' = "exited"
    /\ UNCHANGED <<client, clientID, detachedAt, wake, writeMu, ripe, open,
                   handlerVars, inputVars, readerVars, reaperVars, closeVars>>

\* the retention of the present detachment has run out
RetentionElapses ==
    /\ Retention
    /\ detachedAt # 0 /\ ~ripe
    /\ ripe' = TRUE
    /\ UNCHANGED <<client, clientID, detachedAt, wake, writeMu, shell, open,
                   handlerVars, inputVars, readerVars, reaperVars, closeVars>>

\* every goroutine has ended: the one way the session stops
Terminated ==
    /\ rdpc = "done" /\ rppc \in {"off", "exited"}
    /\ \A c \in Conns : hpc[c] = "gone" /\ ipc[c] \in {"off", "reported"}
    /\ UNCHANGED vars

-----------------------------------------------------------------------------
Teardown == TeardownClient \/ TeardownTerminal \/ OwnerClose
Reader == ReadOutput \/ ReaderLock \/ ReaderSent \/ ReaderSendFails \/ ReaderDetach
          \/ ReaderNotify \/ ReadError \/ ReaderDone
Handler(c) == Attach(c) \/ AttachFinish(c) \/ Heartbeat(c) \/ PingLock(c) \/ PingReturns(c)
              \/ BridgeError(c) \/ IdleFires(c) \/ HandlerDetach(c) \/ HandlerReturns(c)
Input(c) == InputReceived(c) \/ InputWritten(c) \/ InputFails(c)
Reap == ReaperLoad \/ ReaperWoken \/ ReaperTimer \/ ReaperSeesClosed \/ ReaperConfirm
        \/ ReaperClose \/ ReaperDone
Environment == ShellExits \/ RetentionElapses \/ Terminated

Next ==
    \/ Teardown \/ Reader \/ Reap \/ Environment
    \/ \E c \in Conns : Handler(c) \/ Input(c) \/ PeerDrops(c)

Spec == Init /\ [][Next]_vars

\* Fairness: a goroutine that can run eventually runs, a lock is eventually obtained if it
\* keeps being released (sync.Mutex does not starve waiters), output of an exited shell is
\* finite, and time passes.  Nothing is assumed of the browser, the user or the input
\* goroutines, nor of WriteMessage on a connection that is still open.
HandlerRuns(c) == AttachFinish(c) \/ Heartbeat(c) \/ PingLock(c) \/ PingReturns(c)
                  \/ HandlerDetach(c) \/ HandlerReturns(c)
ReaderRuns == ReaderLock \/ ReaderSendFails \/ ReaderDetach \/ ReaderNotify \/ ReaderDone

Fairness ==
    /\ WF_vars(TeardownClient \/ TeardownTerminal)
    /\ SF_vars(ReaderRuns) /\ SF_vars(ReadError)
    /\ WF_vars(Reap)
    /\ WF_vars(RetentionElapses)
    /\ \A c \in Conns : SF_vars(HandlerRuns(c))

FairSpec == Spec /\ Fairness

-----------------------------------------------------------------------------
(* Properties.                                                             *)

\* The goroutines inside a WebSocket write of this session.
Writing == {c \in Conns : hpc[c] = "pinging"} \cup (IF rdpc = "send" THEN {"reader"} ELSE {})

\* All WebSocket writes of a session are serialised: the output goroutine and the heartbeats
\* of the connections, current or displaced, are never inside a write at the same time.
OneWriter == \A x, y \in Writing : x = y

\* Displacing a connection stops its keyboard: write checks the attachment before it writes
\* outside the lock, so a displaced connection gets at most one more message to the PTY,
\* whatever it still had buffered.
AtMostOneLateInput == \A c \in Conns : late[c] <= 1

\* While the session is open, an attachment ends only by its own doing: its handler leaves,
\* its connection failed under a write, or another connection displaced it.  A detach that an
\* older handler or a slow write issues late never takes the session from its successor.
AttachmentKept ==
    [][\A c \in Conns :
         client = c /\ client' = NoConn /\ ~closed'
           => \/ hpc[c] \in {"leave", "idled"} /\ hpc'[c] = "notify"
              \/ rdpc = "detach" /\ rdConn = c /\ ~open[c]]_vars

\* The reaper decides to close only a session that is detached and whose present detachment
\* is the one that outlived the retention: a browser that came back and left again starts a
\* new retention, however late the reaper looks.
ReaperDecidesOnPresentDetachment ==
    [][rppc # "close" /\ rppc' = "close"
         => client = NoConn /\ detachedAt # 0 /\ ripe]_vars

\* Every session implements the lease.
Lease == INSTANCE SessionLease
           WITH holder <- client, ended <- {c \in Conns : hid[c] # 0 /\ client # c}
ImplementsLease == Lease!LeaseSpec

\* With a retention, a session that stays detached is closed by the reaper.
DetachedIsReaped ==
    Retention => ((client = NoConn /\ detachedAt # 0) ~> (closed \/ client # NoConn))

\* A displaced connection does not keep its handler for ever: the handler returns, unless
\* the output goroutine hangs for ever in a write to the connection that is attached now.
DisplacedHandlerReturns ==
    \A c \in Conns :
      (hpc[c] = "bridge" /\ client # c)
        ~> (hpc[c] = "gone" \/ [](rdpc = "send" /\ rdConn = client))

\* Closing a session, by whoever does it, ends every goroutine it has: reader (done),
\* reaper and all handlers, even if one of them hangs in a write when close is called.
CloseEndsEverything ==
    closed ~> (/\ rdpc = "done" /\ rppc \in {"off", "exited"} /\ shell = "exited"
               /\ \A c \in Conns : hpc[c] \in {"new", "gone"})

\* internal/config/config.go: "IdleTimeout closes an idle PTY session after the given
\* duration."
IdleTimeoutClosesSession ==
    \A c \in Conns : hpc[c] = "idled" ~> closed

=============================================================================
