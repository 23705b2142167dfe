------------------------ MODULE BrowserConnectionProofs ------------------------
(***************************************************************************)
(* Theorems about the connection of a page, for any number of sockets,     *)
(* timers and requests.                                                    *)
(*                                                                         *)
(* ConnectsWhileWanted is not inductive: clearTimeout only stops the timer *)
(* that reconnectTimer names, and scheduleReconnect does nothing when that *)
(* variable is set.  TimerInv ties the variable to the timers that are     *)
(* pending, and OneLiveSocket excludes a second socket that could open.    *)
(***************************************************************************)
EXTENDS BrowserConnection, TLAPS

TimerInv == timers = {reconnectTimer} \ {None}

IInv == TypeOK /\ TimerInv /\ OneLiveSocket /\ ConnectsWhileWanted

-----------------------------------------------------------------------------
LEMMA InitIInv == Init => IInv
BY BrowserAssumption
   DEF Init, IInv, TypeOK, Kinds, TimerInv, OneLiveSocket, Live, ConnectsWhileWanted, HasLiveSocket

\* connect() keeps the sockets in order
LEMMA ConnectSockets ==
    ASSUME TypeOK, OneLiveSocket, NEW halted \in BOOLEAN, Connect(halted)
    PROVE  /\ socket' \in Sockets \cup {None}
           /\ ready' \in [Sockets -> {"closed", "connecting", "open", "closing"}]
           /\ OneLiveSocket'
           /\ ~halted => socket' # None
<1>1. CASE halted \/ HasLiveSocket
  <2>1. socket' = socket /\ ready' = ready
    BY <1>1 DEF Connect, socketVars
  <2>2. OneLiveSocket'
    BY <2>1 DEF OneLiveSocket, Live
  <2>3. ~halted => socket # None
    BY <1>1 DEF HasLiveSocket
  <2>4. QED
    BY <2>1, <2>2, <2>3 DEF TypeOK
<1>2. CASE ~(halted \/ HasLiveSocket)
  <2>1. PICK s \in Sockets : ready[s] = "closed" /\ socket' = s
                             /\ ready' = [ready EXCEPT ![s] = "connecting"]
    BY <1>2 DEF Connect
  <2>2. \A r \in Sockets : ~Live(r)
    BY <1>2, BrowserAssumption DEF OneLiveSocket, HasLiveSocket, Live
  <2>3. OneLiveSocket'
    BY <2>1, <2>2 DEF OneLiveSocket, Live, TypeOK
  <2>4. QED
    BY <2>1, <2>3, BrowserAssumption DEF TypeOK
<1>3. QED
  BY <1>1, <1>2

\* scheduleReconnect() leaves a timer unless there is no reason for one
LEMMA ScheduleTimers ==
    ASSUME TypeOK, NEW live \in BOOLEAN, NEW pending \in SUBSET Timers,
           NEW timer \in Timers \cup {None}, pending = {timer} \ {None},
           ScheduleReconnect(live, pending, timer)
    PROVE  /\ timers' \in SUBSET Timers
           /\ reconnectTimer' \in Timers \cup {None}
           /\ TimerInv'
           /\ ~stopped /\ ~live => timers' # {}
           /\ stopped => timers' = pending
<1>1. CASE stopped \/ timer # None \/ live
  BY <1>1 DEF ScheduleReconnect, TimerInv, TypeOK
<1>2. CASE ~(stopped \/ timer # None \/ live)
  <2>1. PICK t \in Timers \ pending : timers' = pending \cup {t} /\ reconnectTimer' = t
    BY <1>2 DEF ScheduleReconnect
  <2>2. pending = {} /\ t # None
    BY <1>2, BrowserAssumption
  <2>3. QED
    BY <2>1, <2>2, <1>2 DEF TimerInv
<1>3. QED
  BY <1>1, <1>2

\* cancelReconnect() leaves no timer
LEMMA CancelTimers ==
    ASSUME TypeOK, TimerInv, CancelReconnect
    PROVE  timers' = {} /\ reconnectTimer' = None /\ TimerInv'
BY DEF TypeOK, TimerInv, CancelReconnect

\* a page that has just been loaded
LEMMA LoadedIInv ==
    ASSUME Loaded, cookie' \in BOOLEAN
    PROVE  IInv'
<1>1. call' \in [Calls -> Kinds \cup {"none"}]
  BY DEF Loaded, Kinds
<1>2. TypeOK'
  BY <1>1 DEF Loaded, TypeOK
<1>3. TimerInv' /\ OneLiveSocket' /\ ConnectsWhileWanted'
  BY BrowserAssumption
     DEF Loaded, TimerInv, OneLiveSocket, Live, ConnectsWhileWanted, HasLiveSocket
<1>4. QED
  BY <1>2, <1>3 DEF IInv

-----------------------------------------------------------------------------
\* the timer, the network and the tab
LEMMA TimersIInv ==
    ASSUME IInv, (\E t \in Timers : TimerFires(t)) \/ Online \/ BecomesVisible
    PROVE  IInv'
<1> USE DEF IInv
<1>1. ASSUME NEW t \in Timers, TimerFires(t)
      PROVE  IInv'
  <2>1. t = reconnectTimer /\ timers' = {} /\ reconnectTimer' = None
    BY <1>1 DEF TimerFires, TimerInv
  <2>2. ~stopped
    BY <1>1 DEF TimerFires, ConnectsWhileWanted
  <2>3. /\ socket' \in Sockets \cup {None}
        /\ ready' \in [Sockets -> {"closed", "connecting", "open", "closing"}]
        /\ OneLiveSocket'
        /\ socket' # None
    BY <1>1, <2>2, ConnectSockets DEF TimerFires, TypeOK
  <2>4. UNCHANGED <<view, stopped, call, answer, cookie>>
    BY <1>1 DEF TimerFires, callVars
  <2>5. TypeOK'
    BY <2>1, <2>3, <2>4 DEF TypeOK
  <2>6. TimerInv' /\ ConnectsWhileWanted'
    BY <2>1, <2>2, <2>3, <2>4 DEF TimerInv, ConnectsWhileWanted
  <2>7. QED
    BY <2>3, <2>5, <2>6
<1>2. ASSUME NEW live \in BOOLEAN,
             live => socket # None,
             stopped => ~live,
             ScheduleReconnect(live, timers \ {reconnectTimer}, None),
             UNCHANGED <<view, stopped, socketVars, callVars, cookie>>
      PROVE  IInv'
  <2>1. timers \ {reconnectTimer} = {}
    BY DEF TimerInv
  <2>2. /\ timers' \in SUBSET Timers
        /\ reconnectTimer' \in Timers \cup {None}
        /\ TimerInv'
        /\ ~stopped /\ ~live => timers' # {}
        /\ stopped => timers' = {}
    <3>1. {} = {None} \ {None}
      OBVIOUS
    <3>2. QED
      BY <1>2, <2>1, <3>1, ScheduleTimers
  <2>3. TypeOK'
    BY <1>2, <2>2 DEF TypeOK, socketVars, callVars
  <2>4. OneLiveSocket'
    BY <1>2 DEF OneLiveSocket, Live, socketVars
  <2>5. ConnectsWhileWanted'
    BY <1>2, <2>2 DEF ConnectsWhileWanted, HasLiveSocket, Live, socketVars
  <2>6. QED
    BY <2>2, <2>3, <2>4, <2>5
<1>3. CASE Online
  <2>1. HasLiveSocket \in BOOLEAN /\ (HasLiveSocket => socket # None)
    BY DEF HasLiveSocket, Live
  <2>2. stopped => ~HasLiveSocket
    BY DEF ConnectsWhileWanted
  <2>3. QED
    BY <1>2, <1>3, <2>1, <2>2 DEF Online
<1>4. CASE BecomesVisible
  BY <1>2, <1>4 DEF BecomesVisible
<1>5. QED
  BY <1>1, <1>3, <1>4

-----------------------------------------------------------------------------
\* the events of a WebSocket
LEMMA SocketIInv ==
    ASSUME IInv, NEW s \in Sockets, SocketEvent(s)
    PROVE  IInv'
<1> USE DEF IInv
<1>1. CASE SocketOpens(s)
  <2>1. socket = s /\ ready' = [ready EXCEPT ![s] = "open"] /\ CancelReconnect
        /\ UNCHANGED <<view, stopped, socket, call, answer, cookie>>
    BY <1>1 DEF SocketOpens, OneLiveSocket, Live, callVars
  <2>2. timers' = {} /\ reconnectTimer' = None /\ TimerInv'
    BY <2>1, CancelTimers
  <2>3. ~stopped /\ socket # None
    BY <1>1, <2>1, BrowserAssumption DEF SocketOpens, ConnectsWhileWanted, HasLiveSocket, Live
  <2>4. TypeOK'
    BY <2>1, <2>2 DEF TypeOK
  <2>5. OneLiveSocket'
    BY <2>1 DEF OneLiveSocket, Live, TypeOK
  <2>6. ConnectsWhileWanted'
    BY <2>1, <2>3 DEF ConnectsWhileWanted
  <2>7. QED
    BY <2>2, <2>4, <2>5, <2>6
<1>2. CASE PeerCloses(s)
  <2>1. TypeOK' /\ TimerInv'
    BY <1>2 DEF PeerCloses, TypeOK, TimerInv, timerVars, callVars
  <2>2. OneLiveSocket'
    BY <1>2 DEF PeerCloses, OneLiveSocket, Live, TypeOK
  <2>3. ConnectsWhileWanted'
    BY <1>2 DEF PeerCloses, ConnectsWhileWanted, HasLiveSocket, Live, TypeOK, timerVars
  <2>4. QED
    BY <2>1, <2>2, <2>3
<1>3. CASE SocketCloses(s)
  <2>1. ready' = [ready EXCEPT ![s] = "closed"]
        /\ UNCHANGED <<view, stopped, call, answer, cookie>>
    BY <1>3 DEF SocketCloses, callVars
  <2>2. CASE socket = s
    <3>1. socket' = None /\ ScheduleReconnect(FALSE, timers, reconnectTimer)
      BY <1>3, <2>2 DEF SocketCloses
    <3>2. /\ timers' \in SUBSET Timers
          /\ reconnectTimer' \in Timers \cup {None}
          /\ TimerInv'
          /\ ~stopped => timers' # {}
          /\ stopped => timers' = timers
      BY <3>1, ScheduleTimers DEF TypeOK, TimerInv
    <3>3. TypeOK'
      BY <2>1, <3>1, <3>2 DEF TypeOK
    <3>4. OneLiveSocket'
      BY <2>1, <2>2, <3>1 DEF OneLiveSocket, Live, TypeOK
    <3>5. ConnectsWhileWanted'
      BY <2>1, <3>1, <3>2 DEF ConnectsWhileWanted, HasLiveSocket
    <3>6. QED
      BY <3>2, <3>3, <3>4, <3>5
  <2>3. CASE socket # s
    <3>1. UNCHANGED <<socket, timers, reconnectTimer>>
      BY <1>3, <2>3 DEF SocketCloses, timerVars
    <3>2. TypeOK' /\ TimerInv'
      BY <2>1, <3>1 DEF TypeOK, TimerInv
    <3>3. OneLiveSocket'
      BY <2>1, <3>1 DEF OneLiveSocket, Live, TypeOK
    <3>4. ConnectsWhileWanted'
      BY <2>1, <2>3, <3>1 DEF ConnectsWhileWanted, HasLiveSocket, Live, TypeOK
    <3>5. QED
      BY <3>2, <3>3, <3>4
  <2>4. QED
    BY <2>2, <2>3
<1>4. CASE SocketClosedByAuth(s)
  <2>1. timers' = {} /\ reconnectTimer' = None /\ TimerInv'
    BY <1>4, CancelTimers DEF SocketClosedByAuth
  <2>2. TypeOK'
    BY <1>4, <2>1 DEF SocketClosedByAuth, TypeOK, callVars
  <2>3. OneLiveSocket'
    BY <1>4 DEF SocketClosedByAuth, OneLiveSocket, Live, TypeOK
  <2>4. ConnectsWhileWanted'
    BY <1>4, <2>1 DEF SocketClosedByAuth, ConnectsWhileWanted, HasLiveSocket
  <2>5. QED
    BY <2>1, <2>2, <2>3, <2>4
<1>5. QED
  BY <1>1, <1>2, <1>3, <1>4 DEF SocketEvent

-----------------------------------------------------------------------------
\* steps that touch neither sockets nor timers nor the view
LEMMA QuietIInv ==
    ASSUME IInv,
           UNCHANGED <<view, stopped, socketVars, timerVars>>,
           call' \in [Calls -> Kinds \cup {"none"}],
           answer' \in [Calls -> {"waiting", "ok", "refused"}],
           cookie' \in BOOLEAN
    PROVE  IInv'
<1>1. TypeOK'
  BY DEF IInv, TypeOK, socketVars, timerVars
<1>2. TimerInv' /\ OneLiveSocket' /\ ConnectsWhileWanted'
  BY DEF IInv, TimerInv, OneLiveSocket, ConnectsWhileWanted, HasLiveSocket, Live,
         socketVars, timerVars
<1>3. QED
  BY <1>1, <1>2 DEF IInv

\* login, restoreSession and logout
LEMMA CallIInv ==
    ASSUME IInv, NEW c \in Calls, CallEvent(c)
    PROVE  IInv'
<1> USE DEF IInv
<1>1. CASE Submit(c)
  BY <1>1, QuietIInv DEF Submit, Ask, TypeOK, Kinds
<1>2. CASE Logout(c)
  <2>1. timers' = {} /\ reconnectTimer' = None /\ TimerInv'
    BY <1>2, CancelTimers DEF Logout
  <2>2. call' \in [Calls -> Kinds \cup {"none"}]
        /\ answer' \in [Calls -> {"waiting", "ok", "refused"}]
    BY <1>2 DEF Logout, Ask, TypeOK, Kinds
  <2>3. TypeOK'
    BY <1>2, <2>1, <2>2 DEF Logout, TypeOK
  <2>4. OneLiveSocket' /\ ConnectsWhileWanted'
    BY <1>2, <2>1, BrowserAssumption
       DEF Logout, OneLiveSocket, ConnectsWhileWanted, HasLiveSocket, Live, TypeOK
  <2>5. QED
    BY <2>1, <2>3, <2>4
<1>3. CASE ServerAnswers(c)
  <2>1. answer' \in [Calls -> {"waiting", "ok", "refused"}]
    BY <1>3 DEF ServerAnswers, TypeOK
  <2>2. QED
    BY <1>3, <2>1, QuietIInv DEF ServerAnswers, TypeOK
<1>4. CASE Entered(c)
  <2>1. /\ socket' \in Sockets \cup {None}
        /\ ready' \in [Sockets -> {"closed", "connecting", "open", "closing"}]
        /\ OneLiveSocket'
        /\ socket' # None
    BY <1>4, ConnectSockets DEF Entered
  <2>2. call' \in [Calls -> Kinds \cup {"none"}]
        /\ answer' \in [Calls -> {"waiting", "ok", "refused"}]
    BY <1>4 DEF Entered, Forget, TypeOK, Kinds
  <2>3. cookie' \in BOOLEAN
    BY <1>4 DEF Entered, TypeOK
  <2>4. TypeOK'
    BY <1>4, <2>1, <2>2, <2>3 DEF Entered, TypeOK, timerVars
  <2>5. TimerInv' /\ ConnectsWhileWanted'
    BY <1>4, <2>1 DEF Entered, TimerInv, ConnectsWhileWanted, timerVars
  <2>6. QED
    BY <2>1, <2>4, <2>5
<1>5. CASE Failed(c)
  BY <1>5, QuietIInv DEF Failed, Forget, TypeOK, Kinds
<1>6. CASE LogoutAnswered(c)
  BY <1>6, LoadedIInv DEF LogoutAnswered, TypeOK
<1>7. QED
  BY <1>1, <1>2, <1>3, <1>4, <1>5, <1>6 DEF CallEvent

LEMMA NextIInv == IInv /\ [Next]_vars => IInv'
<1> SUFFICES ASSUME IInv, [Next]_vars
             PROVE  IInv'
  OBVIOUS
<1>1. CASE (\E t \in Timers : TimerFires(t)) \/ Online \/ BecomesVisible
  BY <1>1, TimersIInv
<1>2. CASE Reload
  BY <1>2, LoadedIInv DEF Reload, IInv, TypeOK
<1>3. CASE CookieEnds
  BY <1>3, QuietIInv DEF CookieEnds, IInv, TypeOK, callVars
<1>4. ASSUME NEW s \in Sockets, SocketEvent(s)
      PROVE  IInv'
  BY <1>4, SocketIInv
<1>5. ASSUME NEW c \in Calls, CallEvent(c)
      PROVE  IInv'
  BY <1>5, CallIInv
<1>6. CASE UNCHANGED vars
  BY <1>6, QuietIInv DEF vars, callVars, IInv, TypeOK
<1>7. QED
  BY <1>1, <1>2, <1>3, <1>4, <1>5, <1>6 DEF Next

LEMMA Inductive == Spec => []IInv
BY InitIInv, NextIInv, PTL DEF Spec

-----------------------------------------------------------------------------
\* The variables of the page keep their types (app.js, the declarations).
THEOREM TypeCorrect == Spec => []TypeOK
<1>1. IInv => TypeOK
  BY DEF IInv
<1>2. QED
  BY <1>1, Inductive, PTL

\* However timers, network events, tab switches and late answers interleave, the page never has
\* two connections (connect and onopen).
THEOREM OneSocketCorrect == Spec => []OneLiveSocket
<1>1. IInv => OneLiveSocket
  BY DEF IInv
<1>2. QED
  BY <1>1, Inductive, PTL

\* A page that wants its terminal has a socket or a timer, and one that was told to stop has
\* neither (scheduleReconnect, cancelReconnect, onclose and the handlers of login and logout).
THEOREM ConnectsCorrect == Spec => []ConnectsWhileWanted
<1>1. IInv => ConnectsWhileWanted
  BY DEF IInv
<1>2. QED
  BY <1>1, Inductive, PTL

=============================================================================
