---------------------------- MODULE BrowserConnection ----------------------------
(***************************************************************************)
(* The connection of a page to its terminal: the first part of             *)
(* internal/app/static/app.js.  Its event handlers run one at a time; what *)
(* waits between them are WebSockets, the reconnect timer and requests     *)
(* whose answers continue an async function.                               *)
(*                                                                         *)
(* The server is reduced to whether it accepts the cookie of the browser.  *)
(* It may close a connection at any time, as it does when another tab      *)
(* attaches or the shell ends, and the network may fail at any time.  What *)
(* is written to the terminal, the status line and the delay of the timer  *)
(* are left out.                                                           *)
(***************************************************************************)
EXTENDS Naturals, FiniteSets

CONSTANTS
    Sockets,      \* WebSocket objects that exist at a time; a closed one is used again
    Timers,       \* timer ids; one that has fired or was cleared is used again
    Calls,        \* requests of the page in flight at a time
    None,         \* undefined
    AuthCloses    \* TRUE iff something in front of the server closes with 1008 or 4401

ASSUME BrowserAssumption ==
    /\ None \notin Sockets \cup Timers
    /\ AuthCloses \in BOOLEAN

VARIABLES
    view,            \* the part of the page that is shown: login or terminal
    stopped,
    socket,          \* the variable of this name
    ready,           \* the readyState of every WebSocket
    timers,          \* timers that will fire
    reconnectTimer,  \* the variable of this name
    call,            \* the request of every slot
    answer,          \* what the server made of it
    cookie           \* the server accepts the cookie of the browser

socketVars == <<socket, ready>>
timerVars == <<timers, reconnectTimer>>
callVars == <<call, answer>>
vars == <<view, stopped, socketVars, timerVars, callVars, cookie>>

Kinds == {"restore", "login", "logout"}

TypeOK ==
    /\ view \in {"login", "terminal"}
    /\ stopped \in BOOLEAN
    /\ socket \in Sockets \cup {None}
    /\ ready \in [Sockets -> {"closed", "connecting", "open", "closing"}]
    /\ timers \in SUBSET Timers
    /\ reconnectTimer \in Timers \cup {None}
    /\ call \in [Calls -> Kinds \cup {"none"}]
    /\ answer \in [Calls -> {"waiting", "ok", "refused"}]
    /\ cookie \in BOOLEAN

\* a socket that connects or is connected
Live(s) == ready[s] \in {"connecting", "open"}
HasLiveSocket == socket # None /\ Live(socket)
Connected == socket # None /\ ready[socket] = "open"

\* a page that has just been loaded asks whether the cookie is still good
Loaded ==
    /\ view' = "login" /\ stopped' = FALSE
    /\ socket' = None /\ ready' = [s \in Sockets |-> "closed"]
    /\ timers' = {} /\ reconnectTimer' = None
    /\ \E c \in Calls : call' = [d \in Calls |-> IF d = c THEN "restore" ELSE "none"]
    /\ answer' = [c \in Calls |-> "waiting"]

Init ==
    /\ view = "login" /\ stopped = FALSE
    /\ socket = None /\ ready = [s \in Sockets |-> "closed"]
    /\ timers = {} /\ reconnectTimer = None
    /\ \E c \in Calls : call = [d \in Calls |-> IF d = c THEN "restore" ELSE "none"]
    /\ answer = [c \in Calls |-> "waiting"]
    /\ cookie \in BOOLEAN

-----------------------------------------------------------------------------
(* connect, scheduleReconnect and cancelReconnect.                         *)

\* Deviation: a socket that is still connecting is not looked at.
ConnectUnlessOpen(halted) ==
    IF halted \/ Connected
    THEN UNCHANGED socketVars
    ELSE \E s \in Sockets :
           /\ ready[s] = "closed"
           /\ socket' = s
           /\ ready' = [ready EXCEPT ![s] = "connecting"]

\* connect(), with the value that stopped has by then
Connect(halted) ==
    IF halted \/ HasLiveSocket
    THEN UNCHANGED socketVars
    ELSE \E s \in Sockets :
           /\ ready[s] = "closed"
           /\ socket' = s
           /\ ready' = [ready EXCEPT ![s] = "connecting"]

\* scheduleReconnect(), where pending and timer are the timers left by then, and live says
\* whether there is a socket that connects or is connected
ScheduleReconnect(live, pending, timer) ==
    IF stopped \/ timer # None \/ live
    THEN timers' = pending /\ reconnectTimer' = timer
    ELSE \E t \in Timers \ pending :
           timers' = pending \cup {t} /\ reconnectTimer' = t

\* cancelReconnect()
CancelReconnect == timers' = timers \ {reconnectTimer} /\ reconnectTimer' = None

\* Deviation: the callback does not reset reconnectTimer.
TimerFiresOnly(t) ==
    /\ t \in timers
    /\ timers' = timers \ {t}
    /\ Connect(stopped)
    /\ UNCHANGED <<view, stopped, reconnectTimer, callVars, cookie>>

\* the reconnect timer fires
TimerFires(t) ==
    /\ t \in timers
    /\ timers' = timers \ {t}
    /\ reconnectTimer' = None
    /\ Connect(stopped)
    /\ UNCHANGED <<view, stopped, callVars, cookie>>

\* Deviation: the timer is cancelled after the attempt to schedule one.
OnlineCancelsLast ==
    /\ IF stopped \/ reconnectTimer # None \/ HasLiveSocket
       THEN CancelReconnect
       ELSE UNCHANGED timerVars
    /\ UNCHANGED <<view, stopped, socketVars, callVars, cookie>>

\* the network is back
Online ==
    /\ ScheduleReconnect(HasLiveSocket, timers \ {reconnectTimer}, None)
    /\ UNCHANGED <<view, stopped, socketVars, callVars, cookie>>

\* the tab is looked at again and has no socket
BecomesVisible ==
    /\ socket = None
    /\ ScheduleReconnect(FALSE, timers \ {reconnectTimer}, None)
    /\ UNCHANGED <<view, stopped, socketVars, callVars, cookie>>

-----------------------------------------------------------------------------
(* The events of a WebSocket.  onerror closes a socket that is closed.     *)

\* the server has accepted the upgrade: onopen, which drops a socket that is not the current one
SocketOpens(s) ==
    /\ ready[s] = "connecting"
    /\ cookie
    /\ IF socket = s
       THEN ready' = [ready EXCEPT ![s] = "open"] /\ CancelReconnect
       ELSE ready' = [ready EXCEPT ![s] = "closing"] /\ UNCHANGED timerVars
    /\ UNCHANGED <<view, stopped, socket, callVars, cookie>>

\* the other side begins to close the connection
PeerCloses(s) ==
    /\ ready[s] = "open"
    /\ ready' = [ready EXCEPT ![s] = "closing"]
    /\ UNCHANGED <<view, stopped, socket, timerVars, callVars, cookie>>

\* a socket closes for any reason, a refused upgrade among them: onclose
SocketCloses(s) ==
    /\ ready[s] # "closed"
    /\ ready' = [ready EXCEPT ![s] = "closed"]
    /\ IF socket = s
       THEN socket' = None /\ ScheduleReconnect(FALSE, timers, reconnectTimer)
       ELSE UNCHANGED <<socket, timerVars>>
    /\ UNCHANGED <<view, stopped, callVars, cookie>>

\* ... with a code that says that the login is not valid any more
SocketClosedByAuth(s) ==
    /\ AuthCloses
    /\ ready[s] \in {"open", "closing"}
    /\ socket = s
    /\ ready' = [ready EXCEPT ![s] = "closed"]
    /\ socket' = None
    /\ stopped' = TRUE
    /\ CancelReconnect
    /\ view' = "login"
    /\ UNCHANGED <<callVars, cookie>>

-----------------------------------------------------------------------------
(* Login, restoreSession and logout.                                       *)

Ask(c, kind) ==
    /\ call[c] = "none"
    /\ call' = [call EXCEPT ![c] = kind]
    /\ answer' = [answer EXCEPT ![c] = "waiting"]

\* the answer of c has been handled, or the request has failed
Forget(c) ==
    /\ call' = [call EXCEPT ![c] = "none"]
    /\ answer' = [answer EXCEPT ![c] = "waiting"]

\* the login form is submitted
Submit(c) ==
    /\ view = "login"
    /\ Ask(c, "login")
    /\ UNCHANGED <<view, stopped, socketVars, timerVars, cookie>>

\* Deviation: logout leaves the reconnect timer alone.
LogoutKeepsTimer(c) ==
    /\ view = "terminal"
    /\ Ask(c, "logout")
    /\ stopped' = TRUE
    /\ ready' = [s \in Sockets |-> IF s = socket THEN "closing" ELSE ready[s]]
    /\ UNCHANGED <<view, socket, timerVars, cookie>>

\* the logout button: nothing connects any more, the socket closes, the server is told
Logout(c) ==
    /\ view = "terminal"
    /\ Ask(c, "logout")
    /\ stopped' = TRUE
    /\ CancelReconnect
    /\ ready' = [s \in Sockets |-> IF s = socket THEN "closing" ELSE ready[s]]
    /\ UNCHANGED <<view, socket, cookie>>

\* the server looks at a request; a logout is never refused
ServerAnswers(c) ==
    /\ call[c] # "none" /\ answer[c] = "waiting"
    /\ \E a \in {"ok", "refused"} :
         /\ call[c] = "restore" => (a = "ok" <=> cookie)
         /\ call[c] = "logout" => a = "ok"
         /\ answer' = [answer EXCEPT ![c] = a]
    /\ cookie' = (cookie /\ call[c] # "logout")
    /\ UNCHANGED <<view, stopped, socketVars, timerVars, call>>

\* login and restoreSession go on with a good answer; that of a login brings the cookie
Entered(c) ==
    /\ call[c] \in {"restore", "login"} /\ answer[c] = "ok"
    /\ Forget(c)
    /\ stopped' = FALSE
    /\ view' = "terminal"
    /\ Connect(FALSE)
    /\ cookie' = (cookie \/ call[c] = "login")
    /\ UNCHANGED timerVars

\* the answer is bad, or the request fails at any point and the async function ends there
Failed(c) ==
    /\ call[c] # "none"
    /\ Forget(c)
    /\ UNCHANGED <<view, stopped, socketVars, timerVars, cookie>>

\* the logout is answered and the page is loaded again
LogoutAnswered(c) ==
    /\ call[c] = "logout" /\ answer[c] = "ok"
    /\ Loaded
    /\ UNCHANGED cookie

\* the user loads the page again
Reload == Loaded /\ UNCHANGED cookie

\* the cookie expires, is revoked by another tab, or does not outlive the server
CookieEnds ==
    /\ cookie
    /\ cookie' = FALSE
    /\ UNCHANGED <<view, stopped, socketVars, timerVars, callVars>>

-----------------------------------------------------------------------------
SocketEvent(s) == SocketOpens(s) \/ PeerCloses(s) \/ SocketCloses(s) \/ SocketClosedByAuth(s)

CallEvent(c) ==
    Submit(c) \/ Logout(c) \/ ServerAnswers(c) \/ Entered(c) \/ Failed(c) \/ LogoutAnswered(c)

Next ==
    \/ \E t \in Timers : TimerFires(t)
    \/ Online \/ BecomesVisible \/ Reload \/ CookieEnds
    \/ \E s \in Sockets : SocketEvent(s)
    \/ \E c \in Calls : CallEvent(c)

Spec == Init /\ [][Next]_vars

\* Timers fire, a socket that closes is closed some time, and a page that tries to connect
\* again and again while its cookie is good gets through in the end.
FairSpec ==
    /\ Spec
    /\ SF_vars(\E t \in Timers : TimerFires(t))
    /\ \A s \in Sockets : WF_vars(ready[s] = "closing" /\ SocketCloses(s))
    /\ SF_vars(\E s \in Sockets : socket = s /\ SocketOpens(s))

-----------------------------------------------------------------------------
(* Properties.                                                             *)

\* A page never has a second connection beside the current one: the server gives the terminal
\* to the connection that came last, so that the page would displace itself.  Timers, the
\* network, the tab and late answers may all ask for a connection at the same time.
OneLiveSocket == \A s \in Sockets : Live(s) => s = socket

\* A page that shows the terminal and was not told to stop never sits there without a
\* connection and without anything that will bring one: it has a socket whose end will schedule
\* the next attempt, or a timer that will make it.  A page that is stopped, by a logout or because
\* its login is known to be invalid, has no live socket and no timer, however late a closing
\* socket is heard of.  (A login or restore that is answered after the click on logout ends the
\* stop and connects: README, "Known weaknesses".)
ConnectsWhileWanted ==
    IF stopped
    THEN timers = {} /\ ~HasLiveSocket
    ELSE view = "terminal" => socket # None \/ timers # {}

\* The page gets its connection back again and again, through losses of any number, order and
\* kind, as long as it stays logged in.
Reconnects == <>[](view = "terminal" /\ ~stopped /\ cookie) => []<>Connected

=============================================================================
