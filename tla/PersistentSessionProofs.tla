------------------------ MODULE PersistentSessionProofs ------------------------
(***************************************************************************)
(* Proofs about PersistentSession, for any number of connections and both  *)
(* settings of retention and idle timeout.                                 *)
(***************************************************************************)
EXTENDS PersistentSession, TLAPS

\* Who holds writeMu is inside a write, and nobody else is.
WriterInv ==
    /\ rdpc = "send" <=> writeMu = "reader"
    /\ \A c \in Conns : hpc[c] = "pinging" <=> writeMu = c

\* Attachments are numbered in the order in which they are made, and a connection makes one.
AttachInv ==
    /\ \A c \in Conns : hpc[c] = "new" => hid[c] = 0
    /\ client # NoConn => hid[client] = clientID /\ clientID > 0 /\ hpc[client] # "new"
    /\ detachedAt <= clientID
    /\ closed => client = NoConn

\* What the reader captured is an attachment that was made, and it gives up a current one
\* only when its connection is dead.
ReaderInv ==
    /\ rdConn # NoConn => hpc[rdConn] # "new"
    /\ rdpc = "detach" /\ client = rdConn /\ clientID = rdID => ~open[rdConn]

\* A connection whose input came late is displaced, so it gets no further.
InputInv ==
    \A c \in Conns :
      /\ ipc[c] # "off" => hpc[c] # "new"
      /\ late[c] # 0 => late[c] = 1 /\ client # c /\ hpc[c] # "new" /\ ipc[c] # "writing"

\* The detachment the reaper is about to confirm is over, or it has outlived the retention.
ReaperInv ==
    /\ rpSaw <= clientID
    /\ client # NoConn => rpSaw < clientID
    /\ rppc = "confirm" => rpSaw # 0 /\ (detachedAt = rpSaw => ripe)

IInv == TypeOK /\ WriterInv /\ AttachInv /\ ReaderInv /\ InputInv /\ ReaperInv

-----------------------------------------------------------------------------
(* The state is well typed.                                                *)

\* The initial state is well typed.
LEMMA InitTyped == Init => TypeOK
<1> SUFFICES ASSUME Init PROVE TypeOK
  OBVIOUS
<1>1. /\ client \in Conns \cup {NoConn} /\ clientID \in Nat /\ detachedAt \in Nat
      /\ closed \in BOOLEAN /\ wake \in BOOLEAN /\ ripe \in BOOLEAN
      /\ writeMu \in {Free, "reader"} \cup Conns
      /\ shell \in {"alive", "exited"}
      /\ stage \in {"open", "client", "terminal", "closed"}
      /\ closeClient \in Conns \cup {NoConn}
  BY DEF Init
<1>2. /\ open \in [Conns -> BOOLEAN]
      /\ hpc \in [Conns -> {"new", "attached", "bridge", "ping", "pinging", "leave", "idled",
                            "notify", "gone"}]
      /\ hid \in [Conns -> Nat]
      /\ hold \in [Conns -> Conns \cup {NoConn}]
      /\ ipc \in [Conns -> {"off", "reading", "writing", "reported"}]
      /\ late \in [Conns -> Nat]
  BY DEF Init
<1>3. /\ rdpc = "read" /\ rdConn = NoConn /\ rdID = 0
      /\ rppc \in {"off", "load"} /\ rpSaw = 0
  BY SessionAssumption DEF Init
<1> QED
  BY <1>1, <1>2, <1>3 DEF TypeOK

\* detach keeps its variables well typed.
LEMMA DetachTyped ==
  ASSUME TypeOK, NEW c, NEW id, Detach(c, id)
  PROVE  client' \in Conns \cup {NoConn} /\ detachedAt' \in Nat /\ ripe' \in BOOLEAN
<1>1. CASE client = c /\ clientID = id
  BY <1>1 DEF Detach, TypeOK
<1>2. CASE ~(client = c /\ clientID = id)
  <2>1. UNCHANGED <<client, detachedAt, ripe>>
    BY <1>2 DEF Detach
  <2> QED
    BY <2>1 DEF TypeOK
<1> QED
  BY <1>1, <1>2

\* The locked block of close() keeps its variables well typed.
LEMMA CloseBeginTyped ==
  ASSUME TypeOK, CloseBegin
  PROVE  /\ client' \in Conns \cup {NoConn} /\ closed' \in BOOLEAN
         /\ stage' \in {"open", "client", "terminal", "closed"}
         /\ closeClient' \in Conns \cup {NoConn}
<1>1. CASE closed
  BY <1>1 DEF CloseBegin, TypeOK, closeVars
<1>2. CASE ~closed
  BY <1>2 DEF CloseBegin, TypeOK
<1> QED
  BY <1>1, <1>2


\* A step of whoever closes the session keeps the state well typed.
LEMMA TeardownTyped ==
  ASSUME TypeOK, Teardown
  PROVE  TypeOK'
<1> USE SessionAssumption DEF TypeOK
<1>1. CASE TeardownClient
  BY <1>1 DEF TeardownClient, CloseConn, handlerVars, inputVars, readerVars, reaperVars
<1>2. CASE TeardownTerminal
  BY <1>2 DEF TeardownTerminal, handlerVars, inputVars, readerVars, reaperVars
<1>3. CASE OwnerClose
  BY <1>3 DEF OwnerClose, CloseBegin, handlerVars, inputVars, readerVars, reaperVars, closeVars
<1> QED
  BY <1>1, <1>2, <1>3 DEF Teardown

\* A step of the reader keeps the state well typed.
LEMMA ReaderTyped ==
  ASSUME TypeOK, Reader
  PROVE  TypeOK'
<1> USE SessionAssumption DEF TypeOK
<1>1. CASE ReadOutput
  BY <1>1 DEF ReadOutput, handlerVars, inputVars, reaperVars, closeVars
<1>2. CASE ReaderLock
  BY <1>2 DEF ReaderLock, IsCurrentClient, handlerVars, inputVars, reaperVars, closeVars, Free
<1>3. CASE ReaderSent
  BY <1>3 DEF ReaderSent, handlerVars, inputVars, reaperVars, closeVars, Free
<1>4. CASE ReaderSendFails
  BY <1>4 DEF ReaderSendFails, handlerVars, inputVars, reaperVars, closeVars, Free
<1>5. CASE ReaderDetach
  <2>1. client' \in Conns \cup {NoConn} /\ detachedAt' \in Nat /\ ripe' \in BOOLEAN
    BY <1>5, DetachTyped DEF ReaderDetach
  <2>2. /\ rdpc' = "notify"
        /\ UNCHANGED <<clientID, wake, writeMu, shell, open,
                       handlerVars, inputVars, rdConn, rdID, reaperVars, closeVars>>
    BY <1>5 DEF ReaderDetach
  <2> QED
    BY <2>1, <2>2 DEF handlerVars, inputVars, reaperVars, closeVars
<1>6. CASE ReaderNotify
  BY <1>6 DEF ReaderNotify, NotifyReaper, handlerVars, inputVars, reaperVars, closeVars
<1>7. CASE ReadError
  <2>1. /\ client' \in Conns \cup {NoConn} /\ closed' \in BOOLEAN
        /\ stage' \in {"open", "client", "terminal", "closed"}
        /\ closeClient' \in Conns \cup {NoConn}
    BY <1>7, CloseBeginTyped DEF ReadError
  <2>2. /\ rdpc' \in {"done", "closing"}
        /\ UNCHANGED <<clientID, detachedAt, wake, writeMu, ripe, shell, open,
                       handlerVars, inputVars, rdConn, rdID, reaperVars>>
    BY <1>7 DEF ReadError
  <2> QED
    BY <2>1, <2>2 DEF handlerVars, inputVars, reaperVars
<1>8. CASE ReaderDone
  BY <1>8 DEF ReaderDone, handlerVars, inputVars, reaperVars, closeVars
<1> QED
  BY <1>1, <1>2, <1>3, <1>4, <1>5, <1>6, <1>7, <1>8 DEF Reader

\* A step of the handler of a connection keeps the state well typed.
LEMMA HandlerTyped ==
  ASSUME TypeOK, NEW c \in Conns, Handler(c)
  PROVE  TypeOK'
<1> USE SessionAssumption DEF TypeOK
<1>1. CASE Attach(c)
  <2>1. CASE closed
    <3>1. hpc' \in [Conns -> {"new", "attached", "bridge", "ping", "pinging", "leave", "idled",
                              "notify", "gone"}]
      BY <1>1, <2>1 DEF Attach
    <3>2. open' = [x \in Conns |-> open[x] /\ x # c]
      BY <1>1, <2>1 DEF Attach, CloseConn
    <3>3. open' \in [Conns -> BOOLEAN]
      BY <3>2, Zenon
    <3>4. UNCHANGED <<client, clientID, detachedAt, ripe, hid, hold,
                      wake, writeMu, shell, inputVars, readerVars, reaperVars, closeVars>>
      BY <1>1, <2>1 DEF Attach
    <3> QED
      BY <3>1, <3>3, <3>4 DEF inputVars, readerVars, reaperVars, closeVars
  <2>2. CASE ~closed
    <3>1. /\ hpc' \in [Conns -> {"new", "attached", "bridge", "ping", "pinging", "leave", "idled",
                                "notify", "gone"}]
          /\ hid' \in [Conns -> Nat] /\ hold' \in [Conns -> Conns \cup {NoConn}]
          /\ client' \in Conns \cup {NoConn} /\ clientID' \in Nat /\ detachedAt' \in Nat
      BY <1>1, <2>2 DEF Attach
    <3>2. ripe' \in BOOLEAN
      BY <1>1, <2>2 DEF Attach
    <3>3. UNCHANGED <<open, wake, writeMu, shell, inputVars, readerVars, reaperVars, closeVars>>
      BY <1>1, <2>2 DEF Attach
    <3> QED
      BY <3>1, <3>2, <3>3 DEF inputVars, readerVars, reaperVars, closeVars
  <2> QED
    BY <2>1, <2>2
<1>2. CASE AttachFinish(c)
  BY <1>2 DEF AttachFinish, NotifyReaper, CloseConn, readerVars, reaperVars, closeVars
<1>3. CASE Heartbeat(c)
  BY <1>3 DEF Heartbeat, inputVars, readerVars, reaperVars, closeVars
<1>4. CASE PingLock(c)
  BY <1>4 DEF PingLock, IsCurrentClient, inputVars, readerVars, reaperVars, closeVars, Free
<1>5. CASE PingReturns(c)
  BY <1>5 DEF PingReturns, inputVars, readerVars, reaperVars, closeVars, Free
<1>6. CASE BridgeError(c)
  BY <1>6 DEF BridgeError, inputVars, readerVars, reaperVars, closeVars
<1>7. CASE IdleFires(c)
  BY <1>7 DEF IdleFires, inputVars, readerVars, reaperVars, closeVars
<1>8. CASE HandlerDetach(c)
  <2>1. client' \in Conns \cup {NoConn} /\ detachedAt' \in Nat /\ ripe' \in BOOLEAN
    BY <1>8, DetachTyped DEF HandlerDetach
  <2>2. /\ hpc' = [hpc EXCEPT ![c] = "notify"]
        /\ UNCHANGED <<clientID, wake, writeMu, shell, open,
                       hid, hold, inputVars, readerVars, reaperVars, closeVars>>
    BY <1>8 DEF HandlerDetach
  <2> QED
    BY <2>1, <2>2 DEF inputVars, readerVars, reaperVars, closeVars
<1>9. CASE HandlerReturns(c)
  BY <1>9 DEF HandlerReturns, NotifyReaper, CloseConn, inputVars, readerVars, reaperVars,
         closeVars
<1> QED
  BY <1>1, <1>2, <1>3, <1>4, <1>5, <1>6, <1>7, <1>8, <1>9 DEF Handler

\* A step of the input goroutine of a connection keeps the state well typed.
LEMMA InputTyped ==
  ASSUME TypeOK, NEW c \in Conns, Input(c)
  PROVE  TypeOK'
<1> USE SessionAssumption DEF TypeOK
<1>1. CASE InputReceived(c)
  BY <1>1 DEF InputReceived, IsCurrentClient, handlerVars, readerVars, reaperVars, closeVars
<1>2. CASE InputWritten(c)
  BY <1>2 DEF InputWritten, handlerVars, readerVars, reaperVars, closeVars
<1>3. CASE InputFails(c)
  BY <1>3 DEF InputFails, handlerVars, readerVars, reaperVars, closeVars
<1> QED
  BY <1>1, <1>2, <1>3 DEF Input

\* A step of the reaper keeps the state well typed.
LEMMA ReapTyped ==
  ASSUME TypeOK, Reap
  PROVE  TypeOK'
<1> USE SessionAssumption DEF TypeOK
<1>1. CASE ReaperLoad
  BY <1>1 DEF ReaperLoad, handlerVars, inputVars, readerVars, closeVars
<1>2. CASE ReaperWoken
  <2>1. wake' \in BOOLEAN /\ rppc' = "load" /\ rpSaw' = 0
    BY <1>2 DEF ReaperWoken
  <2>2. UNCHANGED <<client, clientID, detachedAt, writeMu, ripe, shell, open,
                    handlerVars, inputVars, readerVars, closeVars>>
    BY <1>2 DEF ReaperWoken
  <2> QED
    BY <2>1, <2>2 DEF handlerVars, inputVars, readerVars, closeVars
<1>3. CASE ReaperTimer
  BY <1>3 DEF ReaperTimer, handlerVars, inputVars, readerVars, closeVars
<1>4. CASE ReaperSeesClosed
  BY <1>4 DEF ReaperSeesClosed, handlerVars, inputVars, readerVars, closeVars
<1>5. CASE ReaperConfirm
  BY <1>5 DEF ReaperConfirm, handlerVars, inputVars, readerVars, closeVars
<1>6. CASE ReaperClose
  <2>1. /\ client' \in Conns \cup {NoConn} /\ closed' \in BOOLEAN
        /\ stage' \in {"open", "client", "terminal", "closed"}
        /\ closeClient' \in Conns \cup {NoConn}
    BY <1>6, CloseBeginTyped DEF ReaperClose
  <2>2. /\ rppc' \in {"exited", "closing"}
        /\ UNCHANGED <<clientID, detachedAt, wake, writeMu, ripe, shell, open,
                       handlerVars, inputVars, readerVars, rpSaw>>
    BY <1>6 DEF ReaperClose
  <2> QED
    BY <2>1, <2>2 DEF handlerVars, inputVars, readerVars
<1>7. CASE ReaperDone
  BY <1>7 DEF ReaperDone, handlerVars, inputVars, readerVars, closeVars
<1> QED
  BY <1>1, <1>2, <1>3, <1>4, <1>5, <1>6, <1>7 DEF Reap

\* A step of the surroundings keeps the state well typed.
LEMMA EnvironmentTyped ==
  ASSUME TypeOK, Environment
  PROVE  TypeOK'
<1> USE SessionAssumption DEF TypeOK
<1>1. CASE ShellExits
  BY <1>1 DEF ShellExits, handlerVars, inputVars, readerVars, reaperVars, closeVars
<1>2. CASE RetentionElapses
  BY <1>2 DEF RetentionElapses, handlerVars, inputVars, readerVars, reaperVars, closeVars
<1>3. CASE Terminated
  BY <1>3 DEF Terminated, vars, handlerVars, inputVars, readerVars, reaperVars, closeVars
<1> QED
  BY <1>1, <1>2, <1>3 DEF Environment

\* A connection that is dropped leaves the state well typed.
LEMMA DropTyped ==
  ASSUME TypeOK, NEW c \in Conns, PeerDrops(c)
  PROVE  TypeOK'
  BY DEF TypeOK, PeerDrops, CloseConn, handlerVars, inputVars, readerVars, reaperVars,
         closeVars

\* Every step keeps the state well typed.
LEMMA NextTyped == TypeOK /\ [Next]_vars => TypeOK'
<1>1. TypeOK /\ UNCHANGED vars => TypeOK'
  BY DEF TypeOK, vars, handlerVars, inputVars, readerVars, reaperVars, closeVars
<1> QED
  BY <1>1, TeardownTyped, ReaderTyped, HandlerTyped, InputTyped, ReapTyped, EnvironmentTyped,
     DropTyped DEF Next

-----------------------------------------------------------------------------
(* Every step keeps the parts of the inductive invariant.                   *)

\* A step keeps writeMu with the one goroutine that is inside a write.
LEMMA WriterStep ==
  ASSUME IInv, [Next]_vars
  PROVE  WriterInv'
<1> USE SessionAssumption DEF IInv
<1> DEFINE Same == UNCHANGED <<rdpc, writeMu, hpc>>
<1>1. ASSUME Same PROVE WriterInv'
  BY <1>1 DEF WriterInv
<1>2. UNCHANGED vars => Same
  BY DEF vars, handlerVars, inputVars, readerVars, reaperVars, closeVars
<1>3. ASSUME Teardown PROVE Same
  BY <1>3 DEF Teardown, TeardownClient, CloseConn, TeardownTerminal, OwnerClose, CloseBegin,
         handlerVars, inputVars, readerVars, reaperVars, closeVars
<1>4. ASSUME Reader PROVE WriterInv'
  <2>1. CASE ReadOutput
    BY <1>4, <2>1 DEF ReadOutput, TypeOK, WriterInv, handlerVars, inputVars, reaperVars, closeVars
  <2>2. CASE ReaderLock
    BY <1>4, <2>2 DEF ReaderLock, IsCurrentClient, TypeOK, WriterInv, handlerVars, inputVars,
           reaperVars, closeVars, Free
  <2>3. CASE ReaderSent
    BY <1>4, <2>3 DEF ReaderSent, TypeOK, WriterInv, handlerVars, inputVars, reaperVars,
           closeVars, Free
  <2>4. CASE ReaderSendFails
    BY <1>4, <2>4 DEF ReaderSendFails, TypeOK, WriterInv, handlerVars, inputVars, reaperVars,
           closeVars, Free
  <2>5. CASE ReaderDetach
    BY <1>4, <2>5 DEF ReaderDetach, Detach, TypeOK, WriterInv, handlerVars, inputVars, reaperVars,
           closeVars
  <2>6. CASE ReaderNotify
    BY <1>4, <2>6 DEF ReaderNotify, NotifyReaper, TypeOK, WriterInv, handlerVars, inputVars,
           reaperVars, closeVars
  <2>7. CASE ReadError
    BY <1>4, <2>7 DEF ReadError, CloseBegin, TypeOK, WriterInv, handlerVars, inputVars,
           reaperVars, closeVars
  <2>8. CASE ReaderDone
    BY <1>4, <2>8 DEF ReaderDone, TypeOK, WriterInv, handlerVars, inputVars, reaperVars, closeVars
  <2> QED
    BY <1>4, <2>1, <2>2, <2>3, <2>4, <2>5, <2>6, <2>7, <2>8 DEF Reader
<1>5. ASSUME NEW c \in Conns, Handler(c) PROVE WriterInv'
  <2>1. CASE Attach(c)
    BY <1>5, <2>1 DEF Attach, CloseConn, TypeOK, WriterInv, inputVars, readerVars, reaperVars,
           closeVars
  <2>2. CASE AttachFinish(c)
    BY <1>5, <2>2 DEF AttachFinish, NotifyReaper, CloseConn, TypeOK, WriterInv, readerVars,
           reaperVars, closeVars
  <2>3. CASE Heartbeat(c)
    BY <1>5, <2>3 DEF Heartbeat, TypeOK, WriterInv, inputVars, readerVars, reaperVars, closeVars
  <2>4. CASE PingLock(c)
    BY <1>5, <2>4 DEF PingLock, IsCurrentClient, TypeOK, WriterInv, inputVars, readerVars,
           reaperVars, closeVars, Free
  <2>5. CASE PingReturns(c)
    BY <1>5, <2>5 DEF PingReturns, TypeOK, WriterInv, inputVars, readerVars, reaperVars,
           closeVars, Free
  <2>6. CASE BridgeError(c)
    BY <1>5, <2>6 DEF BridgeError, TypeOK, WriterInv, inputVars, readerVars, reaperVars, closeVars
  <2>7. CASE IdleFires(c)
    BY <1>5, <2>7 DEF IdleFires, TypeOK, WriterInv, inputVars, readerVars, reaperVars, closeVars
  <2>8. CASE HandlerDetach(c)
    BY <1>5, <2>8 DEF HandlerDetach, Detach, TypeOK, WriterInv, inputVars, readerVars, reaperVars,
           closeVars
  <2>9. CASE HandlerReturns(c)
    BY <1>5, <2>9 DEF HandlerReturns, NotifyReaper, CloseConn, TypeOK, WriterInv, inputVars,
           readerVars, reaperVars, closeVars
  <2> QED
    BY <1>5, <2>1, <2>2, <2>3, <2>4, <2>5, <2>6, <2>7, <2>8, <2>9 DEF Handler
<1>6. ASSUME NEW c \in Conns, Input(c) PROVE Same
  BY <1>6 DEF Input, InputReceived, IsCurrentClient, InputWritten, InputFails, handlerVars,
         readerVars, reaperVars, closeVars
<1>7. ASSUME Reap PROVE Same
  BY <1>7 DEF Reap, ReaperLoad, ReaperWoken, ReaperTimer, ReaperSeesClosed, ReaperConfirm,
         ReaperClose, CloseBegin, ReaperDone, handlerVars, inputVars, readerVars, closeVars
<1>8. ASSUME Environment PROVE Same
  BY <1>8 DEF Environment, ShellExits, RetentionElapses, Terminated, vars, handlerVars, inputVars,
         readerVars, reaperVars, closeVars
<1>9. ASSUME NEW c \in Conns, PeerDrops(c) PROVE Same
  BY <1>9 DEF PeerDrops, CloseConn, handlerVars, inputVars, readerVars, reaperVars, closeVars
<1> QED
  BY <1>1, <1>2, <1>3, <1>4, <1>5, <1>6, <1>7, <1>8, <1>9 DEF Next

\* A step keeps the attachments numbered and the current one the last.
LEMMA AttachStep ==
  ASSUME IInv, [Next]_vars
  PROVE  AttachInv'
<1> USE SessionAssumption DEF IInv
<1> DEFINE Same == UNCHANGED <<client, clientID, detachedAt, closed, hpc, hid>>
<1>1. ASSUME Same PROVE AttachInv'
  BY <1>1 DEF AttachInv
<1>2. UNCHANGED vars => Same
  BY DEF vars, handlerVars, inputVars, readerVars, reaperVars, closeVars
<1>3. ASSUME Teardown PROVE AttachInv'
  <2>1. CASE OwnerClose
    BY <1>3, <2>1 DEF OwnerClose, CloseBegin, TypeOK, AttachInv, handlerVars, inputVars,
           readerVars, reaperVars, closeVars
  <2>2. CASE TeardownClient \/ TeardownTerminal
    <3>1. Same
      BY <1>3, <2>2 DEF TeardownClient, CloseConn, TeardownTerminal, handlerVars, inputVars,
             readerVars, reaperVars
    <3> QED
      BY <1>1, <3>1
  <2> QED
    BY <1>3, <2>1, <2>2 DEF Teardown
<1>4. ASSUME Reader PROVE AttachInv'
  <2>1. CASE ReaderDetach
    BY <1>4, <2>1 DEF ReaderDetach, Detach, TypeOK, AttachInv, handlerVars, inputVars, reaperVars,
           closeVars
  <2>2. CASE ReadError
    BY <1>4, <2>2 DEF ReadError, CloseBegin, TypeOK, AttachInv, handlerVars, inputVars,
           reaperVars, closeVars
  <2>3. CASE \/ ReadOutput \/ ReaderLock \/ ReaderSent
             \/ ReaderSendFails \/ ReaderNotify \/ ReaderDone
    <3>1. Same
      BY <1>4, <2>3 DEF ReadOutput, ReaderLock, IsCurrentClient, ReaderSent, ReaderSendFails,
             ReaderNotify, NotifyReaper, ReaderDone, handlerVars, inputVars, reaperVars,
             closeVars, Free
    <3> QED
      BY <1>1, <3>1
  <2> QED
    BY <1>4, <2>1, <2>2, <2>3 DEF Reader
<1>5. ASSUME NEW c \in Conns, Handler(c) PROVE AttachInv'
  <2>1. CASE Attach(c)
    BY <1>5, <2>1 DEF Attach, CloseConn, TypeOK, AttachInv, inputVars, readerVars, reaperVars,
           closeVars
  <2>2. CASE AttachFinish(c)
    BY <1>5, <2>2 DEF AttachFinish, NotifyReaper, CloseConn, TypeOK, AttachInv, readerVars,
           reaperVars, closeVars
  <2>3. CASE Heartbeat(c)
    BY <1>5, <2>3 DEF Heartbeat, TypeOK, AttachInv, inputVars, readerVars, reaperVars, closeVars
  <2>4. CASE PingLock(c)
    BY <1>5, <2>4 DEF PingLock, IsCurrentClient, TypeOK, AttachInv, inputVars, readerVars,
           reaperVars, closeVars, Free
  <2>5. CASE PingReturns(c)
    BY <1>5, <2>5 DEF PingReturns, TypeOK, AttachInv, inputVars, readerVars, reaperVars,
           closeVars, Free
  <2>6. CASE BridgeError(c)
    BY <1>5, <2>6 DEF BridgeError, TypeOK, AttachInv, inputVars, readerVars, reaperVars, closeVars
  <2>7. CASE IdleFires(c)
    BY <1>5, <2>7 DEF IdleFires, TypeOK, AttachInv, inputVars, readerVars, reaperVars, closeVars
  <2>8. CASE HandlerDetach(c)
    BY <1>5, <2>8 DEF HandlerDetach, Detach, TypeOK, AttachInv, inputVars, readerVars, reaperVars,
           closeVars
  <2>9. CASE HandlerReturns(c)
    BY <1>5, <2>9 DEF HandlerReturns, NotifyReaper, CloseConn, TypeOK, AttachInv, inputVars,
           readerVars, reaperVars, closeVars
  <2> QED
    BY <1>5, <2>1, <2>2, <2>3, <2>4, <2>5, <2>6, <2>7, <2>8, <2>9 DEF Handler
<1>6. ASSUME NEW c \in Conns, Input(c) PROVE Same
  BY <1>6 DEF Input, InputReceived, IsCurrentClient, InputWritten, InputFails, handlerVars,
         readerVars, reaperVars, closeVars
<1>7. ASSUME Reap PROVE AttachInv'
  <2>1. CASE ReaperClose
    BY <1>7, <2>1 DEF ReaperClose, CloseBegin, TypeOK, AttachInv, handlerVars, inputVars,
           readerVars, closeVars
  <2>2. CASE \/ ReaperLoad \/ ReaperWoken \/ ReaperTimer
             \/ ReaperSeesClosed \/ ReaperConfirm \/ ReaperDone
    <3>1. Same
      BY <1>7, <2>2 DEF ReaperLoad, ReaperWoken, ReaperTimer, ReaperSeesClosed, ReaperConfirm,
             ReaperDone, handlerVars, inputVars, readerVars, closeVars
    <3> QED
      BY <1>1, <3>1
  <2> QED
    BY <1>7, <2>1, <2>2 DEF Reap
<1>8. ASSUME Environment PROVE Same
  BY <1>8 DEF Environment, ShellExits, RetentionElapses, Terminated, vars, handlerVars, inputVars,
         readerVars, reaperVars, closeVars
<1>9. ASSUME NEW c \in Conns, PeerDrops(c) PROVE Same
  BY <1>9 DEF PeerDrops, CloseConn, handlerVars, inputVars, readerVars, reaperVars, closeVars
<1> QED
  BY <1>1, <1>2, <1>3, <1>4, <1>5, <1>6, <1>7, <1>8, <1>9 DEF Next

\* A step lets the reader give up a current attachment only if it is dead.
LEMMA ReaderStep ==
  ASSUME IInv, [Next]_vars
  PROVE  ReaderInv'
<1> USE SessionAssumption DEF IInv
<1> DEFINE Same == UNCHANGED <<client, clientID, open, hpc, rdpc, rdConn, rdID>>
<1>1. ASSUME Same PROVE ReaderInv'
  BY <1>1 DEF ReaderInv
<1>2. UNCHANGED vars => Same
  BY DEF vars, handlerVars, inputVars, readerVars, reaperVars, closeVars
<1>3. ASSUME Teardown PROVE ReaderInv'
  <2>1. CASE TeardownClient
    BY <1>3, <2>1 DEF TeardownClient, CloseConn, TypeOK, AttachInv, ReaderInv, handlerVars,
           inputVars, readerVars, reaperVars
  <2>2. CASE OwnerClose
    BY <1>3, <2>2 DEF OwnerClose, CloseBegin, TypeOK, AttachInv, ReaderInv, handlerVars,
           inputVars, readerVars, reaperVars, closeVars
  <2>3. CASE TeardownTerminal
    <3>1. Same
      BY <1>3, <2>3 DEF TeardownTerminal, handlerVars, inputVars, readerVars, reaperVars
    <3> QED
      BY <1>1, <3>1
  <2> QED
    BY <1>3, <2>1, <2>2, <2>3 DEF Teardown
<1>4. ASSUME Reader PROVE ReaderInv'
  <2>1. CASE ReadOutput
    BY <1>4, <2>1 DEF ReadOutput, TypeOK, AttachInv, ReaderInv, handlerVars, inputVars,
           reaperVars, closeVars
  <2>2. CASE ReaderLock
    BY <1>4, <2>2 DEF ReaderLock, IsCurrentClient, TypeOK, AttachInv, ReaderInv, handlerVars,
           inputVars, reaperVars, closeVars, Free
  <2>3. CASE ReaderSent
    BY <1>4, <2>3 DEF ReaderSent, TypeOK, AttachInv, ReaderInv, handlerVars, inputVars,
           reaperVars, closeVars, Free
  <2>4. CASE ReaderSendFails
    BY <1>4, <2>4 DEF ReaderSendFails, TypeOK, AttachInv, ReaderInv, handlerVars, inputVars,
           reaperVars, closeVars, Free
  <2>5. CASE ReaderDetach
    BY <1>4, <2>5 DEF ReaderDetach, Detach, TypeOK, AttachInv, ReaderInv, handlerVars, inputVars,
           reaperVars, closeVars
  <2>6. CASE ReaderNotify
    BY <1>4, <2>6 DEF ReaderNotify, NotifyReaper, TypeOK, AttachInv, ReaderInv, handlerVars,
           inputVars, reaperVars, closeVars
  <2>7. CASE ReadError
    BY <1>4, <2>7 DEF ReadError, CloseBegin, TypeOK, AttachInv, ReaderInv, handlerVars, inputVars,
           reaperVars, closeVars
  <2>8. CASE ReaderDone
    BY <1>4, <2>8 DEF ReaderDone, TypeOK, AttachInv, ReaderInv, handlerVars, inputVars,
           reaperVars, closeVars
  <2> QED
    BY <1>4, <2>1, <2>2, <2>3, <2>4, <2>5, <2>6, <2>7, <2>8 DEF Reader
<1>5. ASSUME NEW c \in Conns, Handler(c) PROVE ReaderInv'
  <2>1. CASE Attach(c)
    BY <1>5, <2>1 DEF Attach, CloseConn, TypeOK, AttachInv, ReaderInv, inputVars, readerVars,
           reaperVars, closeVars
  <2>2. CASE AttachFinish(c)
    BY <1>5, <2>2 DEF AttachFinish, NotifyReaper, CloseConn, TypeOK, AttachInv, ReaderInv,
           readerVars, reaperVars, closeVars
  <2>3. CASE Heartbeat(c)
    BY <1>5, <2>3 DEF Heartbeat, TypeOK, AttachInv, ReaderInv, inputVars, readerVars, reaperVars,
           closeVars
  <2>4. CASE PingLock(c)
    BY <1>5, <2>4 DEF PingLock, IsCurrentClient, TypeOK, AttachInv, ReaderInv, inputVars,
           readerVars, reaperVars, closeVars, Free
  <2>5. CASE PingReturns(c)
    BY <1>5, <2>5 DEF PingReturns, TypeOK, AttachInv, ReaderInv, inputVars, readerVars,
           reaperVars, closeVars, Free
  <2>6. CASE BridgeError(c)
    BY <1>5, <2>6 DEF BridgeError, TypeOK, AttachInv, ReaderInv, inputVars, readerVars,
           reaperVars, closeVars
  <2>7. CASE IdleFires(c)
    BY <1>5, <2>7 DEF IdleFires, TypeOK, AttachInv, ReaderInv, inputVars, readerVars, reaperVars,
           closeVars
  <2>8. CASE HandlerDetach(c)
    BY <1>5, <2>8 DEF HandlerDetach, Detach, TypeOK, AttachInv, ReaderInv, inputVars, readerVars,
           reaperVars, closeVars
  <2>9. CASE HandlerReturns(c)
    BY <1>5, <2>9 DEF HandlerReturns, NotifyReaper, CloseConn, TypeOK, AttachInv, ReaderInv,
           inputVars, readerVars, reaperVars, closeVars
  <2> QED
    BY <1>5, <2>1, <2>2, <2>3, <2>4, <2>5, <2>6, <2>7, <2>8, <2>9 DEF Handler
<1>6. ASSUME NEW c \in Conns, Input(c) PROVE Same
  BY <1>6 DEF Input, InputReceived, IsCurrentClient, InputWritten, InputFails, handlerVars,
         readerVars, reaperVars, closeVars
<1>7. ASSUME Reap PROVE ReaderInv'
  <2>1. CASE ReaperClose
    BY <1>7, <2>1 DEF ReaperClose, CloseBegin, TypeOK, AttachInv, ReaderInv, handlerVars,
           inputVars, readerVars, closeVars
  <2>2. CASE \/ ReaperLoad \/ ReaperWoken \/ ReaperTimer
             \/ ReaperSeesClosed \/ ReaperConfirm \/ ReaperDone
    <3>1. Same
      BY <1>7, <2>2 DEF ReaperLoad, ReaperWoken, ReaperTimer, ReaperSeesClosed, ReaperConfirm,
             ReaperDone, handlerVars, inputVars, readerVars, closeVars
    <3> QED
      BY <1>1, <3>1
  <2> QED
    BY <1>7, <2>1, <2>2 DEF Reap
<1>8. ASSUME Environment PROVE Same
  BY <1>8 DEF Environment, ShellExits, RetentionElapses, Terminated, vars, handlerVars, inputVars,
         readerVars, reaperVars, closeVars
<1>9. ASSUME NEW c \in Conns, PeerDrops(c) PROVE ReaderInv'
  <2>1. CASE PeerDrops(c)
    BY <1>9, <2>1 DEF PeerDrops, CloseConn, TypeOK, AttachInv, ReaderInv, handlerVars, inputVars,
           readerVars, reaperVars, closeVars
  <2> QED
    BY <1>9, <2>1 DEF PeerDrops
<1> QED
  BY <1>1, <1>2, <1>3, <1>4, <1>5, <1>6, <1>7, <1>8, <1>9 DEF Next

\* A step lets a displaced connection deliver no second input.
LEMMA InputStep ==
  ASSUME IInv, [Next]_vars
  PROVE  InputInv'
<1> USE SessionAssumption DEF IInv
<1> DEFINE Same == UNCHANGED <<client, hpc, ipc, late>>
<1>1. ASSUME Same PROVE InputInv'
  BY <1>1 DEF InputInv
<1>2. UNCHANGED vars => Same
  BY DEF vars, handlerVars, inputVars, readerVars, reaperVars, closeVars
<1>3. ASSUME Teardown PROVE InputInv'
  <2>1. CASE OwnerClose
    BY <1>3, <2>1 DEF OwnerClose, CloseBegin, TypeOK, AttachInv, InputInv, handlerVars, inputVars,
           readerVars, reaperVars, closeVars
  <2>2. CASE TeardownClient \/ TeardownTerminal
    <3>1. Same
      BY <1>3, <2>2 DEF TeardownClient, CloseConn, TeardownTerminal, handlerVars, inputVars,
             readerVars, reaperVars
    <3> QED
      BY <1>1, <3>1
  <2> QED
    BY <1>3, <2>1, <2>2 DEF Teardown
<1>4. ASSUME Reader PROVE InputInv'
  <2>1. CASE ReaderDetach
    BY <1>4, <2>1 DEF ReaderDetach, Detach, TypeOK, AttachInv, InputInv, handlerVars, inputVars,
           reaperVars, closeVars
  <2>2. CASE ReadError
    BY <1>4, <2>2 DEF ReadError, CloseBegin, TypeOK, AttachInv, InputInv, handlerVars, inputVars,
           reaperVars, closeVars
  <2>3. CASE \/ ReadOutput \/ ReaderLock \/ ReaderSent
             \/ ReaderSendFails \/ ReaderNotify \/ ReaderDone
    <3>1. Same
      BY <1>4, <2>3 DEF ReadOutput, ReaderLock, IsCurrentClient, ReaderSent, ReaderSendFails,
             ReaderNotify, NotifyReaper, ReaderDone, handlerVars, inputVars, reaperVars,
             closeVars, Free
    <3> QED
      BY <1>1, <3>1
  <2> QED
    BY <1>4, <2>1, <2>2, <2>3 DEF Reader
<1>5. ASSUME NEW c \in Conns, Handler(c) PROVE InputInv'
  <2>1. CASE Attach(c)
    BY <1>5, <2>1 DEF Attach, CloseConn, TypeOK, AttachInv, InputInv, inputVars, readerVars,
           reaperVars, closeVars
  <2>2. CASE AttachFinish(c)
    BY <1>5, <2>2 DEF AttachFinish, NotifyReaper, CloseConn, TypeOK, AttachInv, InputInv,
           readerVars, reaperVars, closeVars
  <2>3. CASE Heartbeat(c)
    BY <1>5, <2>3 DEF Heartbeat, TypeOK, AttachInv, InputInv, inputVars, readerVars, reaperVars,
           closeVars
  <2>4. CASE PingLock(c)
    BY <1>5, <2>4 DEF PingLock, IsCurrentClient, TypeOK, AttachInv, InputInv, inputVars,
           readerVars, reaperVars, closeVars, Free
  <2>5. CASE PingReturns(c)
    BY <1>5, <2>5 DEF PingReturns, TypeOK, AttachInv, InputInv, inputVars, readerVars, reaperVars,
           closeVars, Free
  <2>6. CASE BridgeError(c)
    BY <1>5, <2>6 DEF BridgeError, TypeOK, AttachInv, InputInv, inputVars, readerVars, reaperVars,
           closeVars
  <2>7. CASE IdleFires(c)
    BY <1>5, <2>7 DEF IdleFires, TypeOK, AttachInv, InputInv, inputVars, readerVars, reaperVars,
           closeVars
  <2>8. CASE HandlerDetach(c)
    BY <1>5, <2>8 DEF HandlerDetach, Detach, TypeOK, AttachInv, InputInv, inputVars, readerVars,
           reaperVars, closeVars
  <2>9. CASE HandlerReturns(c)
    BY <1>5, <2>9 DEF HandlerReturns, NotifyReaper, CloseConn, TypeOK, AttachInv, InputInv,
           inputVars, readerVars, reaperVars, closeVars
  <2> QED
    BY <1>5, <2>1, <2>2, <2>3, <2>4, <2>5, <2>6, <2>7, <2>8, <2>9 DEF Handler
<1>6. ASSUME NEW c \in Conns, Input(c) PROVE InputInv'
  <2>1. CASE InputReceived(c)
    BY <1>6, <2>1 DEF InputReceived, IsCurrentClient, TypeOK, AttachInv, InputInv, handlerVars,
           readerVars, reaperVars, closeVars
  <2>2. CASE InputWritten(c)
    BY <1>6, <2>2 DEF InputWritten, TypeOK, AttachInv, InputInv, handlerVars, readerVars,
           reaperVars, closeVars
  <2>3. CASE InputFails(c)
    BY <1>6, <2>3 DEF InputFails, TypeOK, AttachInv, InputInv, handlerVars, readerVars,
           reaperVars, closeVars
  <2> QED
    BY <1>6, <2>1, <2>2, <2>3 DEF Input
<1>7. ASSUME Reap PROVE InputInv'
  <2>1. CASE ReaperClose
    BY <1>7, <2>1 DEF ReaperClose, CloseBegin, TypeOK, AttachInv, InputInv, handlerVars,
           inputVars, readerVars, closeVars
  <2>2. CASE \/ ReaperLoad \/ ReaperWoken \/ ReaperTimer
             \/ ReaperSeesClosed \/ ReaperConfirm \/ ReaperDone
    <3>1. Same
      BY <1>7, <2>2 DEF ReaperLoad, ReaperWoken, ReaperTimer, ReaperSeesClosed, ReaperConfirm,
             ReaperDone, handlerVars, inputVars, readerVars, closeVars
    <3> QED
      BY <1>1, <3>1
  <2> QED
    BY <1>7, <2>1, <2>2 DEF Reap
<1>8. ASSUME Environment PROVE Same
  BY <1>8 DEF Environment, ShellExits, RetentionElapses, Terminated, vars, handlerVars, inputVars,
         readerVars, reaperVars, closeVars
<1>9. ASSUME NEW c \in Conns, PeerDrops(c) PROVE Same
  BY <1>9 DEF PeerDrops, CloseConn, handlerVars, inputVars, readerVars, reaperVars, closeVars
<1> QED
  BY <1>1, <1>2, <1>3, <1>4, <1>5, <1>6, <1>7, <1>8, <1>9 DEF Next

\* A step leaves the reaper with a detachment that is over or has run out.
LEMMA ReaperStep ==
  ASSUME IInv, [Next]_vars
  PROVE  ReaperInv'
<1> USE SessionAssumption DEF IInv
<1> DEFINE Same == UNCHANGED <<client, clientID, detachedAt, ripe, rppc, rpSaw>>
<1>1. ASSUME Same PROVE ReaperInv'
  BY <1>1 DEF ReaperInv
<1>2. UNCHANGED vars => Same
  BY DEF vars, handlerVars, inputVars, readerVars, reaperVars, closeVars
<1>3. ASSUME Teardown PROVE ReaperInv'
  <2>1. CASE OwnerClose
    BY <1>3, <2>1 DEF OwnerClose, CloseBegin, TypeOK, AttachInv, ReaperInv, handlerVars,
           inputVars, readerVars, reaperVars, closeVars
  <2>2. CASE TeardownClient \/ TeardownTerminal
    <3>1. Same
      BY <1>3, <2>2 DEF TeardownClient, CloseConn, TeardownTerminal, handlerVars, inputVars,
             readerVars, reaperVars
    <3> QED
      BY <1>1, <3>1
  <2> QED
    BY <1>3, <2>1, <2>2 DEF Teardown
<1>4. ASSUME Reader PROVE ReaperInv'
  <2>1. CASE ReaderDetach
    BY <1>4, <2>1 DEF ReaderDetach, Detach, TypeOK, AttachInv, ReaperInv, handlerVars, inputVars,
           reaperVars, closeVars
  <2>2. CASE ReadError
    BY <1>4, <2>2 DEF ReadError, CloseBegin, TypeOK, AttachInv, ReaperInv, handlerVars, inputVars,
           reaperVars, closeVars
  <2>3. CASE \/ ReadOutput \/ ReaderLock \/ ReaderSent
             \/ ReaderSendFails \/ ReaderNotify \/ ReaderDone
    <3>1. Same
      BY <1>4, <2>3 DEF ReadOutput, ReaderLock, IsCurrentClient, ReaderSent, ReaderSendFails,
             ReaderNotify, NotifyReaper, ReaderDone, handlerVars, inputVars, reaperVars,
             closeVars, Free
    <3> QED
      BY <1>1, <3>1
  <2> QED
    BY <1>4, <2>1, <2>2, <2>3 DEF Reader
<1>5. ASSUME NEW c \in Conns, Handler(c) PROVE ReaperInv'
  <2>1. CASE Attach(c)
    BY <1>5, <2>1 DEF Attach, CloseConn, TypeOK, AttachInv, ReaperInv, inputVars, readerVars,
           reaperVars, closeVars
  <2>2. CASE HandlerDetach(c)
    BY <1>5, <2>2 DEF HandlerDetach, Detach, TypeOK, AttachInv, ReaperInv, inputVars, readerVars,
           reaperVars, closeVars
  <2>3. CASE \/ AttachFinish(c) \/ Heartbeat(c) \/ PingLock(c) \/ PingReturns(c)
             \/ BridgeError(c) \/ IdleFires(c) \/ HandlerReturns(c)
    <3>1. Same
      BY <1>5, <2>3 DEF AttachFinish, NotifyReaper, CloseConn, Heartbeat, PingLock,
             IsCurrentClient, PingReturns, BridgeError, IdleFires, HandlerReturns, inputVars,
             readerVars, reaperVars, closeVars, Free
    <3> QED
      BY <1>1, <3>1
  <2> QED
    BY <1>5, <2>1, <2>2, <2>3 DEF Handler
<1>6. ASSUME NEW c \in Conns, Input(c) PROVE Same
  BY <1>6 DEF Input, InputReceived, IsCurrentClient, InputWritten, InputFails, handlerVars,
         readerVars, reaperVars, closeVars
<1>7. ASSUME Reap PROVE ReaperInv'
  <2>1. CASE ReaperLoad
    BY <1>7, <2>1 DEF ReaperLoad, TypeOK, AttachInv, ReaperInv, handlerVars, inputVars,
           readerVars, closeVars
  <2>2. CASE ReaperWoken
    BY <1>7, <2>2 DEF ReaperWoken, TypeOK, AttachInv, ReaperInv, handlerVars, inputVars,
           readerVars, closeVars
  <2>3. CASE ReaperTimer
    BY <1>7, <2>3 DEF ReaperTimer, TypeOK, AttachInv, ReaperInv, handlerVars, inputVars,
           readerVars, closeVars
  <2>4. CASE ReaperSeesClosed
    BY <1>7, <2>4 DEF ReaperSeesClosed, TypeOK, AttachInv, ReaperInv, handlerVars, inputVars,
           readerVars, closeVars
  <2>5. CASE ReaperConfirm
    BY <1>7, <2>5 DEF ReaperConfirm, TypeOK, AttachInv, ReaperInv, handlerVars, inputVars,
           readerVars, closeVars
  <2>6. CASE ReaperClose
    BY <1>7, <2>6 DEF ReaperClose, CloseBegin, TypeOK, AttachInv, ReaperInv, handlerVars,
           inputVars, readerVars, closeVars
  <2>7. CASE ReaperDone
    BY <1>7, <2>7 DEF ReaperDone, TypeOK, AttachInv, ReaperInv, handlerVars, inputVars,
           readerVars, closeVars
  <2> QED
    BY <1>7, <2>1, <2>2, <2>3, <2>4, <2>5, <2>6, <2>7 DEF Reap
<1>8. ASSUME Environment PROVE ReaperInv'
  <2>1. CASE RetentionElapses
    BY <1>8, <2>1 DEF RetentionElapses, TypeOK, AttachInv, ReaperInv, handlerVars, inputVars,
           readerVars, reaperVars, closeVars
  <2>2. CASE ShellExits \/ Terminated
    <3>1. Same
      BY <1>8, <2>2 DEF ShellExits, Terminated, vars, handlerVars, inputVars, readerVars,
             reaperVars, closeVars
    <3> QED
      BY <1>1, <3>1
  <2> QED
    BY <1>8, <2>1, <2>2 DEF Environment
<1>9. ASSUME NEW c \in Conns, PeerDrops(c) PROVE Same
  BY <1>9 DEF PeerDrops, CloseConn, handlerVars, inputVars, readerVars, reaperVars, closeVars
<1> QED
  BY <1>1, <1>2, <1>3, <1>4, <1>5, <1>6, <1>7, <1>8, <1>9 DEF Next

\* The invariant holds when the session is made.
LEMMA InitInv == Init => IInv
<1> SUFFICES ASSUME Init PROVE IInv
  OBVIOUS
<1>1. TypeOK
  BY InitTyped
<1>2. WriterInv
  BY SessionAssumption DEF Init, WriterInv, Free
<1>3. AttachInv /\ ReaderInv /\ InputInv /\ ReaperInv
  BY SessionAssumption DEF Init, AttachInv, ReaderInv, InputInv, ReaperInv
<1> QED
  BY <1>1, <1>2, <1>3 DEF IInv

\* Every step keeps the invariant.
LEMMA NextInv == IInv /\ [Next]_vars => IInv'
<1> SUFFICES ASSUME IInv, [Next]_vars PROVE IInv'
  OBVIOUS
<1>1. TypeOK'
  BY NextTyped DEF IInv
<1>2. WriterInv' /\ AttachInv' /\ ReaderInv' /\ InputInv' /\ ReaperInv'
  BY WriterStep, AttachStep, ReaderStep, InputStep, ReaperStep
<1> QED
  BY <1>1, <1>2 DEF IInv

\* The invariant of the session holds in every reachable state.
THEOREM InvariantHolds == Spec => []IInv
  BY InitInv, NextInv, PTL DEF Spec

-----------------------------------------------------------------------------
(* The properties of the session.                                          *)

\* The variables of the session stay within their types.
THEOREM TypeCorrect == Spec => []TypeOK
<1>1. IInv => TypeOK
  BY DEF IInv
<1> QED
  BY InvariantHolds, <1>1, PTL

\* Two goroutines are never inside a WebSocket write of the session: writeMu has one owner.
THEOREM OneWriterCorrect == Spec => []OneWriter
<1>1. ASSUME IInv PROVE OneWriter
  <2>1. \A x \in Writing : x = writeMu
    BY <1>1 DEF IInv, WriterInv, Writing
  <2> QED
    BY <2>1 DEF OneWriter
<1> QED
  BY InvariantHolds, <1>1, PTL

\* A displaced connection gets at most one more message to the shell.
THEOREM LateInputCorrect == Spec => []AtMostOneLateInput
<1>1. IInv => AtMostOneLateInput
  BY DEF IInv, TypeOK, InputInv, AtMostOneLateInput
<1> QED
  BY InvariantHolds, <1>1, PTL

\* What a step does to the attachment of an open session: nothing, or one of five things.
LEMMA AttachmentSteps ==
  ASSUME IInv, [Next]_vars
  PROVE  \/ UNCHANGED <<client, hid, closed>>
         \/ CloseBegin /\ UNCHANGED hid
         \/ \E c \in Conns : Attach(c)
         \/ ReaderDetach \/ \E c \in Conns : HandlerDetach(c)
<1>1. CASE UNCHANGED vars
  BY <1>1 DEF vars, handlerVars, closeVars
<1>2. CASE Teardown
  BY <1>2 DEF Teardown, TeardownClient, TeardownTerminal, OwnerClose, handlerVars
<1>3. CASE Reader
  BY <1>3 DEF Reader, ReadOutput, ReaderLock, ReaderSent, ReaderSendFails, ReaderNotify,
              ReadError, ReaderDone, handlerVars, closeVars
<1>4. CASE Reap
  BY <1>4 DEF Reap, ReaperLoad, ReaperWoken, ReaperTimer, ReaperSeesClosed, ReaperConfirm,
              ReaperClose, ReaperDone, handlerVars, closeVars
<1>5. CASE Environment
  BY <1>5 DEF Environment, ShellExits, RetentionElapses, Terminated, vars, handlerVars,
              closeVars
<1>6. ASSUME NEW c \in Conns, Handler(c)
      PROVE  UNCHANGED <<client, hid, closed>> \/ Attach(c) \/ HandlerDetach(c)
  BY <1>6 DEF Handler, AttachFinish, Heartbeat, PingLock, PingReturns, BridgeError, IdleFires,
              HandlerReturns, closeVars
<1>7. ASSUME NEW c \in Conns, Input(c) \/ PeerDrops(c)
      PROVE  UNCHANGED <<client, hid, closed>>
  BY <1>7 DEF Input, InputReceived, InputWritten, InputFails, PeerDrops, handlerVars, closeVars
<1> QED
  BY <1>1, <1>2, <1>3, <1>4, <1>5, <1>6, <1>7 DEF Next

\* A late detach, by an older handler or after a slow write, never takes an open session
\* from the connection that is attached.
THEOREM AttachmentCorrect == Spec => AttachmentKept
<1> DEFINE Kept(c) ==
      client = c /\ client' = NoConn /\ ~closed'
        => \/ hpc[c] \in {"leave", "idled"} /\ hpc'[c] = "notify"
           \/ rdpc = "detach" /\ rdConn = c /\ ~open[c]
<1>1. ASSUME IInv, [Next]_vars, NEW c \in Conns
      PROVE  Kept(c)
  <2> SUFFICES ASSUME client = c, client' = NoConn, ~closed'
               PROVE  \/ hpc[c] \in {"leave", "idled"} /\ hpc'[c] = "notify"
                      \/ rdpc = "detach" /\ rdConn = c /\ ~open[c]
    OBVIOUS
  <2>1. CASE UNCHANGED <<client, hid, closed>>
    BY <2>1, SessionAssumption
  <2>2. CASE CloseBegin
    BY <2>2, SessionAssumption DEF CloseBegin, closeVars
  <2>3. ASSUME NEW d \in Conns, Attach(d) PROVE FALSE
    BY <2>3, SessionAssumption DEF Attach
  <2>4. CASE ReaderDetach
    <3>1. rdpc = "detach" /\ rdConn = client /\ rdID = clientID
      BY <2>4, SessionAssumption DEF ReaderDetach, Detach
    <3> QED
      BY <1>1, <3>1 DEF IInv, ReaderInv
  <2>5. ASSUME NEW d \in Conns, HandlerDetach(d)
        PROVE  hpc[c] \in {"leave", "idled"} /\ hpc'[c] = "notify"
    <3>1. d = c
      BY <2>5, SessionAssumption DEF HandlerDetach, Detach
    <3> QED
      BY <1>1, <2>5, <3>1 DEF HandlerDetach, IInv, TypeOK
  <2> QED
    BY <1>1, <2>1, <2>2, <2>3, <2>4, <2>5, AttachmentSteps
<1>2. IInv /\ [Next]_vars => [\A c \in Conns : Kept(c)]_vars
  BY <1>1
<1> QED
  BY InvariantHolds, <1>2, PTL DEF Spec, AttachmentKept

\* The reaper goes on to close only a session whose present detachment has outlived the
\* retention.
THEOREM ReaperCorrect == Spec => ReaperDecidesOnPresentDetachment
<1> DEFINE Decides == rppc # "close" /\ rppc' = "close"
                        => client = NoConn /\ detachedAt # 0 /\ ripe
<1>1. ASSUME IInv, [Next]_vars PROVE Decides
  <2> SUFFICES ASSUME rppc # "close", rppc' = "close"
               PROVE  client = NoConn /\ detachedAt # 0 /\ ripe
    OBVIOUS
  <2>1. ReaperConfirm \/ rppc' = rppc \/ rppc' # "close"
    <3>1. CASE Reap
      BY <3>1 DEF Reap, ReaperLoad, ReaperWoken, ReaperTimer, ReaperSeesClosed, ReaperClose,
                  ReaperDone
    <3>2. CASE Teardown \/ Environment \/ UNCHANGED vars
      BY <3>2 DEF Teardown, TeardownClient, TeardownTerminal, OwnerClose, Environment,
                  ShellExits, RetentionElapses, Terminated, vars, reaperVars
    <3>3. CASE Reader
      BY <3>3 DEF Reader, ReadOutput, ReaderLock, ReaderSent, ReaderSendFails, ReaderDetach,
                  ReaderNotify, ReadError, ReaderDone, reaperVars
    <3>4. ASSUME NEW c \in Conns, Handler(c) PROVE rppc' = rppc
      BY <3>4 DEF Handler, Attach, AttachFinish, Heartbeat, PingLock, PingReturns, BridgeError,
                  IdleFires, HandlerDetach, HandlerReturns, reaperVars
    <3>5. ASSUME NEW c \in Conns, Input(c) \/ PeerDrops(c) PROVE rppc' = rppc
      BY <3>5 DEF Input, InputReceived, InputWritten, InputFails, PeerDrops, reaperVars
    <3> QED
      BY <1>1, <3>1, <3>2, <3>3, <3>4, <3>5 DEF Next
  <2>2. rppc = "confirm" /\ client = NoConn /\ detachedAt = rpSaw
    BY <2>1 DEF ReaperConfirm
  <2> QED
    BY <1>1, <2>2 DEF IInv, ReaperInv
<1>2. IInv /\ [Next]_vars => [Decides]_vars
  BY <1>1
<1> QED
  BY InvariantHolds, <1>2, PTL DEF Spec, ReaperDecidesOnPresentDetachment

\* The connections that were attached and are no longer.
Gone == {c \in Conns : hid[c] # 0 /\ client # c}

\* A session is a lease: one connection at a time, none twice, none once it is closed.
THEOREM LeaseCorrect == Spec => ImplementsLease
<1>1. Init => Lease!LeaseInit
  BY DEF Init, Lease!LeaseInit
<1>2. ASSUME IInv, [Next]_vars
      PROVE  [Lease!LeaseNext]_(Lease!leaseVars)
  <2>0. /\ SessionAssumption
        /\ TypeOK
        /\ client # NoConn => hid[client] # 0 /\ client \in Conns
        /\ \A c \in Conns : hpc[c] = "new" => hid[c] = 0
        /\ closed => client = NoConn
    BY <1>2, SessionAssumption DEF IInv, TypeOK, AttachInv
  <2>1. CASE UNCHANGED <<client, hid, closed>>
    BY <2>1 DEF Lease!leaseVars
  \* any close(): the lease ends, or it had ended before
  <2>2. CASE CloseBegin /\ UNCHANGED hid
    <3>1. CASE closed
      BY <2>2, <3>1 DEF CloseBegin, closeVars, Lease!leaseVars
    <3>2. CASE ~closed
      <4>1. closed' = TRUE /\ client' = NoConn
        BY <2>2, <3>2 DEF CloseBegin
      <4>2. Gone' = (Gone \cup {client}) \ {NoConn}
        BY <2>0, <2>2, <4>1 DEF Gone, SessionAssumption
      <4> QED
        BY <3>2, <4>1, <4>2 DEF Gone, Lease!LeaseNext, Lease!End, Lease!EndedNow
    <3> QED
      BY <3>1, <3>2
  <2>3. ASSUME NEW c \in Conns, Attach(c)
        PROVE  [Lease!LeaseNext]_(Lease!leaseVars)
    <3>1. CASE closed
      BY <2>3, <3>1 DEF Attach, closeVars, Lease!leaseVars
    <3>2. CASE ~closed
      <4>1. /\ hpc[c] = "new" /\ client' = c /\ closed' = closed
            /\ hid' = [hid EXCEPT ![c] = clientID + 1]
        BY <2>3, <3>2 DEF Attach, closeVars
      <4>2. c \notin Gone \cup {client} /\ clientID + 1 # 0
        BY <2>0, <4>1 DEF Gone, SessionAssumption, TypeOK
      <4>3. Gone' = (Gone \cup {client}) \ {NoConn}
        BY <2>0, <4>1, <4>2 DEF Gone, SessionAssumption, TypeOK
      <4> QED
        BY <3>2, <4>1, <4>2, <4>3 DEF Gone, Lease!LeaseNext, Lease!Take, Lease!EndedNow
    <3> QED
      BY <3>1, <3>2
  \* a detach by the attachment that is current, or by one that is not
  <2>4. ASSUME NEW c \in Conns, NEW id, Detach(c, id), UNCHANGED <<hid, closed>>
        PROVE  [Lease!LeaseNext]_(Lease!leaseVars)
    <3>1. CASE client = c /\ clientID = id
      <4>1. client # NoConn /\ client' = NoConn
        BY <2>0, <2>4, <3>1 DEF Detach, SessionAssumption
      <4>2. Gone' = (Gone \cup {client}) \ {NoConn}
        BY <2>0, <2>4, <4>1 DEF Gone, SessionAssumption
      <4> QED
        BY <2>4, <4>1, <4>2 DEF Gone, Lease!LeaseNext, Lease!Lose, Lease!EndedNow
    <3>2. CASE ~(client = c /\ clientID = id)
      BY <2>4, <3>2 DEF Detach, Lease!leaseVars
    <3> QED
      BY <3>1, <3>2
  <2>5. CASE ReaderDetach
    <3>1. Detach(rdConn, rdID) /\ UNCHANGED <<hid, closed>> /\ rdConn \in Conns
      BY <2>0, <2>5 DEF ReaderDetach, handlerVars, closeVars, TypeOK
    <3> QED
      BY <2>4, <3>1
  <2>6. ASSUME NEW c \in Conns, HandlerDetach(c)
        PROVE  [Lease!LeaseNext]_(Lease!leaseVars)
    <3>1. Detach(c, hid[c]) /\ UNCHANGED <<hid, closed>>
      BY <2>6 DEF HandlerDetach, closeVars
    <3> QED
      BY <2>4, <3>1
  <2> QED
    BY <1>2, <2>1, <2>2, <2>3, <2>5, <2>6, AttachmentSteps
<1>3. IInv /\ [Next]_vars => [Lease!LeaseNext]_(Lease!leaseVars)
  BY <1>2
<1> QED
  BY InvariantHolds, <1>1, <1>3, PTL DEF Spec, ImplementsLease, Lease!LeaseSpec

=============================================================================
