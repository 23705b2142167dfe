------------------------------ MODULE TmuxTargets ------------------------------
(***************************************************************************)
(* The tmux endpoints of internal/server/tmux.go.  They relate four pieces *)
(* of state that no single lock covers: the sessions the tmux server has,  *)
(* the tmux client that runs in the PTY of the terminal session, the       *)
(* target recorded in that terminal session, and the default target.       *)
(*                                                                         *)
(* Every tmux command, every write to the PTY and every block under a      *)
(* mutex is one step of a request.  What is typed into the PTY is taken to *)
(* be executed at once, and the client in the PTY to be the only one.  The *)
(* index of a window only matters in that selecting it may fail; windows   *)
(* are not kept.  The read-only endpoints (state, lists) are left out.     *)
(*                                                                         *)
(* The handlers pass names on as they come, and tmux has its own way with  *)
(* them: "-t name" also finds the one session whose name only begins with  *)
(* that name, and the dots the handlers allow in names become underscores  *)
(* in a session's name, while "-t" reads a dot as the mark before a pane.  *)
(***************************************************************************)
EXTENDS Naturals, FiniteSets

CONSTANTS
    Requests,       \* requests in progress; each serves any number one after the other
    Names,          \* names of tmux sessions
    Ptys,           \* terminal sessions; one that has ended is used again when no request has it
    Longer,         \* the names that begin with a name and are longer than it
    Stored,         \* the name tmux gives to a session that is to have a name
    None,           \* no name, no terminal session, no holder
    WindowMissing,  \* TRUE iff a window that is asked for may not exist
    Outside         \* TRUE iff tmux is also used from the keyboard

Ops == {"attach", "window", "detach", "kill", "create", "default", "rename"}
Changing == {"kill", "create", "default", "rename"}

ASSUME TmuxAssumption ==
    /\ None \notin Requests \cup Names \cup Ptys \cup Ops
    /\ Longer \in [Names -> SUBSET Names]
    /\ Stored \in [Names -> Names]
    /\ \A n \in Names : Stored[Stored[n]] = Stored[n]
    /\ WindowMissing \in BOOLEAN
    /\ Outside \in BOOLEAN

VARIABLES
    sessions,         \* what the tmux server has
    client,           \* the session the client in a PTY shows, or None
    pty, alive,       \* server.session; the terminal sessions whose PTY is running
    target,           \* persistentSession.tmuxTarget
    defaultTmux,      \* server.defaultTmux, None for ""
    tmuxMu,           \* holder of server.tmuxMu
    pc, op, name, to, \* request: control, operation, tmux session, new name of a rename
    at, cur,          \* request: terminal session it has read, target to be cleared
    undisturbed,      \* history: requests came one at a time and none of them failed half way,
                      \* nobody used tmux from the keyboard, and tmux took names literally
    orderly           \* history: the same, but only requests that may change the sessions or the
                      \* default came one at a time, and renames may overlap even each other

ptyVars == <<pty, alive>>
argVars == <<op, name, to>>
reqVars == <<pc, argVars, at, cur>>
history == <<undisturbed, orderly>>
vars == <<sessions, client, ptyVars, target, defaultTmux, tmuxMu, reqVars, history>>

Controls == {"idle", "lock", "has", "free", "rename", "moveDefault", "new", "capture", "read",
             "recapture", "type", "clear", "switch", "select", "record", "kill", "readDefault",
             "setDefault", "retarget"}

\* names without a dot, the only ones that sessions have
Plain == {n \in Names : Stored[n] = n}

TypeOK ==
    /\ sessions \in SUBSET Plain
    /\ client \in [Ptys -> Names \cup {None}]
    /\ pty \in Ptys \cup {None} /\ alive \in SUBSET (Ptys \cap {pty})
    /\ target \in [Ptys -> Names \cup {None}]
    /\ defaultTmux \in Names \cup {None}
    /\ tmuxMu \in Requests \cup {None}
    /\ pc \in [Requests -> Controls]
    /\ op \in [Requests -> Ops \cup {None}]
    /\ name \in [Requests -> Names \cup {None}]
    /\ to \in [Requests -> Names \cup {None}]
    /\ at \in [Requests -> Ptys \cup {None}]
    /\ cur \in [Requests -> Names \cup {None}]
    /\ undisturbed \in BOOLEAN /\ orderly \in BOOLEAN
    /\ \A r \in Requests :
         pc[r] \in {"read", "type", "clear", "switch", "select", "record", "retarget"}
           => at[r] # None

Init ==
    /\ sessions = {} /\ client = [p \in Ptys |-> None]
    /\ pty = None /\ alive = {}
    /\ target = [p \in Ptys |-> None]
    /\ defaultTmux = None /\ tmuxMu = None
    /\ pc = [r \in Requests |-> "idle"]
    /\ op = [r \in Requests |-> None]
    /\ name = [r \in Requests |-> None] /\ to = [r \in Requests |-> None]
    /\ at = [r \in Requests |-> None] /\ cur = [r \in Requests |-> None]
    /\ undisturbed = TRUE /\ orderly = TRUE

-----------------------------------------------------------------------------
\* The session that tmux takes "-t n" for, if any.  What it finds with a dot in n depends on its
\* windows and panes; nothing here, and no property relies on it (TakenFreely).
Resolve(n) ==
    IF n \notin Plain THEN None
    ELSE IF n \in sessions THEN n
    ELSE IF \E s \in sessions : sessions \cap Longer[n] = {s}
         THEN CHOOSE s \in sessions : s \in Longer[n]
         ELSE None

\* the next tmux command of request r may mean a session by another name than the request does
TakenFreely(r) ==
    \/ /\ pc[r] \in {"has", "type", "switch", "select", "kill", "rename"}
       /\ pc[r] = "type" => op[r] # "kill"
       /\ name[r] # None /\ (name[r] \notin Plain \/ Resolve(name[r]) \notin {name[r], None})
    \/ pc[r] = "new" /\ name[r] \notin Plain
    \/ pc[r] = "rename" /\ to[r] \notin Plain

Goto(r, where) == pc' = [pc EXCEPT ![r] = where] /\ UNCHANGED <<argVars, at, cur>>

\* killTmuxSession is done with the terminal session
GotoKill(r) ==
    /\ pc' = [pc EXCEPT ![r] = "kill"]
    /\ at' = [at EXCEPT ![r] = None]
    /\ cur' = [cur EXCEPT ![r] = None]
    /\ UNCHANGED argVars

Answer(r) ==
    /\ pc' = [pc EXCEPT ![r] = "idle"]
    /\ op' = [op EXCEPT ![r] = None]
    /\ name' = [name EXCEPT ![r] = None]
    /\ to' = [to EXCEPT ![r] = None]
    /\ at' = [at EXCEPT ![r] = None]
    /\ cur' = [cur EXCEPT ![r] = None]

\* a request is accepted: what the handler checks before its first tmux command
Accept(r, o, n, m) ==
    /\ pc[r] = "idle"
    /\ IF o = "detach" THEN n = None ELSE IF o = "default" THEN TRUE ELSE n # None
    /\ IF o = "rename" THEN m # None /\ m # n ELSE m = None
    /\ pc' = [pc EXCEPT ![r] =
         CASE o \in {"attach", "window"} -> "has"
           [] o \in {"detach", "kill"} -> "capture"
           [] o = "create" -> "new"
           [] o = "default" -> IF n = None THEN "setDefault" ELSE "has"
           [] o = "rename" -> "lock"]
    /\ op' = [op EXCEPT ![r] = o]
    /\ name' = [name EXCEPT ![r] = n]
    /\ to' = [to EXCEPT ![r] = m]
    /\ undisturbed' = (undisturbed /\ \A q \in Requests : pc[q] = "idle")
    /\ orderly' = (orderly /\ (o \in Changing => \A q \in Requests :
                                op[q] \in Changing => o = "rename" /\ op[q] = "rename"))
    /\ UNCHANGED <<sessions, client, ptyVars, target, defaultTmux, tmuxMu, at, cur>>

\* tmux has-session on the session that is named; a rename runs it under tmuxMu
HasSession(r) ==
    /\ pc[r] = "has"
    /\ IF Resolve(name[r]) # None
       THEN /\ Goto(r, CASE op[r] = "rename" -> "free"
                         [] op[r] = "default" -> "setDefault"
                         [] OTHER -> "capture")
            /\ UNCHANGED tmuxMu
       ELSE /\ Answer(r)
            /\ tmuxMu' = IF op[r] = "rename" THEN None ELSE tmuxMu
    /\ UNCHANGED <<sessions, client, ptyVars, target, defaultTmux>>

\* server.session is read under sessionMu and used after the unlock
Capture(r) ==
    /\ pc[r] = "capture"
    /\ IF pty # None
       THEN /\ at' = [at EXCEPT ![r] = pty]
            /\ pc' = [pc EXCEPT ![r] = IF op[r] = "rename" THEN "retarget" ELSE "read"]
            /\ UNCHANGED <<argVars, cur, tmuxMu>>
       ELSE /\ IF op[r] = "kill" THEN Goto(r, "kill") ELSE Answer(r)
            /\ tmuxMu' = IF op[r] = "rename" THEN None ELSE tmuxMu
    /\ UNCHANGED <<sessions, client, ptyVars, target, defaultTmux>>

\* currentTmuxTarget of the terminal session that was read
ReadTarget(r) ==
    /\ pc[r] = "read"
    /\ LET t == target[at[r]]
           next == IF op[r] = "kill" THEN IF t = name[r] THEN "recapture" ELSE "kill"
                   ELSE IF op[r] = "detach" \/ t = None THEN "type"
                   ELSE IF t # name[r] THEN "switch"
                   ELSE IF op[r] = "window" THEN "select" ELSE "record"
       IN IF op[r] = "detach" /\ t = None
          THEN Answer(r)
          ELSE IF next = "kill" THEN GotoKill(r)
          ELSE /\ pc' = [pc EXCEPT ![r] = next]
               /\ cur' = [cur EXCEPT ![r] =
                    IF op[r] = "detach" \/ next = "recapture" THEN t ELSE None]
               /\ UNCHANGED <<argVars, at>>
    /\ UNCHANGED <<sessions, client, ptyVars, target, defaultTmux, tmuxMu>>

-----------------------------------------------------------------------------
(* switchTmuxTarget.                                                       *)

\* "tmux attach-session" is typed into the PTY: in a shell it attaches if session and window
\* exist, inside tmux it is refused as a nested attachment; nobody sees how it ends.  Writing
\* to a PTY that has ended fails
TypeAttach(r) ==
    /\ pc[r] = "type" /\ op[r] \in {"attach", "window"}
    /\ IF at[r] \in alive
       THEN /\ client' = [client EXCEPT ![at[r]] = IF @ = None THEN Resolve(name[r]) ELSE @]
            /\ Goto(r, "record")
       ELSE UNCHANGED client /\ Answer(r)
    /\ UNCHANGED <<sessions, ptyVars, target, defaultTmux, tmuxMu>>

\* ... the window does not exist
AttachFails(r) ==
    /\ WindowMissing
    /\ pc[r] = "type" /\ op[r] = "window"
    /\ at[r] \in alive
    /\ Goto(r, "record")
    /\ UNCHANGED <<sessions, client, ptyVars, target, defaultTmux, tmuxMu>>

\* tmux switch-client moves the client there is, and fails without one
SwitchClient(r) ==
    /\ pc[r] = "switch"
    /\ IF Resolve(name[r]) # None /\ \E p \in alive : client[p] # None
       THEN /\ client' = [p \in Ptys |-> IF client[p] # None THEN Resolve(name[r]) ELSE None]
            /\ Goto(r, IF op[r] = "window" THEN "select" ELSE "record")
       ELSE UNCHANGED client /\ Answer(r)
    /\ UNCHANGED <<sessions, ptyVars, target, defaultTmux, tmuxMu>>

\* tmux select-window
SelectWindow(r) ==
    /\ pc[r] = "select"
    /\ Resolve(name[r]) # None
    /\ Goto(r, "record")
    /\ UNCHANGED <<sessions, client, ptyVars, target, defaultTmux, tmuxMu>>

\* ... fails: the request is answered with 404, the target stays as it was recorded
SelectFails(r) ==
    /\ pc[r] = "select"
    /\ WindowMissing \/ Resolve(name[r]) = None
    /\ Answer(r)
    /\ UNCHANGED <<sessions, client, ptyVars, target, defaultTmux, tmuxMu>>

\* setTmuxTarget
Record(r) ==
    /\ pc[r] = "record"
    /\ target' = [target EXCEPT ![at[r]] = name[r]]
    /\ Answer(r)
    /\ UNCHANGED <<sessions, client, ptyVars, defaultTmux, tmuxMu>>

-----------------------------------------------------------------------------
(* detachTmuxSession and the first half of killTmuxSession.                *)

\* killTmuxSession reads server.session a second time
Recapture(r) ==
    /\ pc[r] = "recapture"
    /\ IF pty = None
       THEN GotoKill(r)
       ELSE /\ at' = [at EXCEPT ![r] = pty]
            /\ pc' = [pc EXCEPT ![r] = "type"]
            /\ UNCHANGED <<argVars, cur>>
    /\ UNCHANGED <<sessions, client, ptyVars, target, defaultTmux, tmuxMu>>

\* the prefix key and "d" are typed; killTmuxSession ignores that this fails
TypeDetach(r) ==
    /\ pc[r] = "type" /\ op[r] \in {"detach", "kill"}
    /\ client' = [client EXCEPT ![at[r]] = None]
    /\ IF op[r] = "detach" /\ at[r] \notin alive THEN Answer(r) ELSE Goto(r, "clear")
    /\ UNCHANGED <<sessions, ptyVars, target, defaultTmux, tmuxMu>>

\* Deviation: the recorded target is not cleared.
ClearNothing(r) ==
    /\ pc[r] = "clear"
    /\ IF op[r] = "kill" THEN GotoKill(r) ELSE Answer(r)
    /\ UNCHANGED <<sessions, client, ptyVars, target, defaultTmux, tmuxMu>>

\* clearTmuxTarget: only if it is still the session that was read
ClearTarget(r) ==
    /\ pc[r] = "clear"
    /\ target' = [target EXCEPT ![at[r]] = IF @ = cur[r] THEN None ELSE @]
    /\ IF op[r] = "kill" THEN GotoKill(r) ELSE Answer(r)
    /\ UNCHANGED <<sessions, client, ptyVars, defaultTmux, tmuxMu>>

-----------------------------------------------------------------------------
(* killTmuxSession, createTmuxSession and setDefaultTmuxTarget.            *)

\* a tmux session ends: a client that shows it leaves tmux
End(n) ==
    /\ sessions' = sessions \ {n}
    /\ client' = [p \in Ptys |-> IF client[p] = n THEN None ELSE client[p]]

\* tmux kill-session
KillSession(r) ==
    /\ pc[r] = "kill"
    /\ IF Resolve(name[r]) # None
       THEN End(Resolve(name[r])) /\ Goto(r, "readDefault")
       ELSE UNCHANGED <<sessions, client>> /\ Answer(r)
    /\ UNCHANGED <<ptyVars, target, defaultTmux, tmuxMu>>

\* tmux new-session -d
NewSession(r) ==
    /\ pc[r] = "new"
    /\ IF Stored[name[r]] \in sessions
       THEN UNCHANGED sessions /\ Answer(r)
       ELSE sessions' = sessions \cup {Stored[name[r]]} /\ Goto(r, "readDefault")
    /\ UNCHANGED <<client, ptyVars, target, defaultTmux, tmuxMu>>

\* Deviation: killing a session leaves the default alone.
ReadDefaultOfCreate(r) ==
    /\ pc[r] = "readDefault"
    /\ tmuxMu = None
    /\ IF op[r] = "create" /\ defaultTmux = None THEN Goto(r, "setDefault") ELSE Answer(r)
    /\ UNCHANGED <<sessions, client, ptyVars, target, defaultTmux, tmuxMu>>

\* tmuxDefault: a created session becomes the default if there is none, a killed one no longer is
ReadDefault(r) ==
    /\ pc[r] = "readDefault"
    /\ tmuxMu = None
    /\ IF defaultTmux = (IF op[r] = "create" THEN None ELSE name[r])
       THEN Goto(r, "setDefault")
       ELSE Answer(r)
    /\ UNCHANGED <<sessions, client, ptyVars, target, defaultTmux, tmuxMu>>

\* setTmuxDefault, a lock acquisition later
SetDefault(r) ==
    /\ pc[r] = "setDefault"
    /\ tmuxMu = None
    /\ defaultTmux' = IF op[r] = "kill" THEN None ELSE name[r]
    /\ Answer(r)
    /\ UNCHANGED <<sessions, client, ptyVars, target, tmuxMu>>

-----------------------------------------------------------------------------
(* renameTmuxSession: the rest of the handler runs under tmuxMu.           *)

RenameLocks(r) ==
    /\ pc[r] = "lock"
    /\ tmuxMu = None
    /\ tmuxMu' = r
    /\ Goto(r, "has")
    /\ UNCHANGED <<sessions, client, ptyVars, target, defaultTmux>>

\* tmux has-session on the new name
NameFree(r) ==
    /\ pc[r] = "free"
    /\ IF Resolve(to[r]) # None
       THEN Answer(r) /\ tmuxMu' = None
       ELSE Goto(r, "rename") /\ UNCHANGED tmuxMu
    /\ UNCHANGED <<sessions, client, ptyVars, target, defaultTmux>>

\* tmux rename-session, which checks both names again; to the name it has it goes well
RenameSession(r) ==
    /\ pc[r] = "rename"
    /\ LET s == Resolve(name[r])  t == Stored[to[r]] IN
       IF s # None /\ t \notin sessions \ {s}
       THEN /\ sessions' = (sessions \ {s}) \cup {t}
            /\ client' = [p \in Ptys |-> IF client[p] = s THEN t ELSE client[p]]
            /\ Goto(r, "moveDefault")
            /\ UNCHANGED tmuxMu
       ELSE UNCHANGED <<sessions, client>> /\ Answer(r) /\ tmuxMu' = None
    /\ UNCHANGED <<ptyVars, target, defaultTmux>>

MoveDefault(r) ==
    /\ pc[r] = "moveDefault"
    /\ defaultTmux' = IF defaultTmux = name[r] THEN to[r] ELSE defaultTmux
    /\ Goto(r, "capture")
    /\ UNCHANGED <<sessions, client, ptyVars, target, tmuxMu>>

\* Deviation: the answer reads the default through tmuxDefault(), which locks tmuxMu again.
RetargetRelocks(r) ==
    /\ pc[r] = "retarget"
    /\ tmuxMu = None
    /\ target' = [target EXCEPT ![at[r]] = IF @ = name[r] THEN to[r] ELSE @]
    /\ Answer(r)
    /\ UNCHANGED <<sessions, client, ptyVars, defaultTmux, tmuxMu>>

\* renameTmuxTarget, then the answer and the deferred unlock
Retarget(r) ==
    /\ pc[r] = "retarget"
    /\ target' = [target EXCEPT ![at[r]] = IF @ = name[r] THEN to[r] ELSE @]
    /\ tmuxMu' = None
    /\ Answer(r)
    /\ UNCHANGED <<sessions, client, ptyVars, defaultTmux>>

-----------------------------------------------------------------------------
(* What happens outside these endpoints.                                   *)

\* terminalSession starts a PTY when there is none or the last one has ended
PtyStarts(p) ==
    /\ pty \notin alive
    /\ \A r \in Requests : at[r] # p
    /\ pty' = p /\ alive' = alive \cup {p}
    /\ target' = [target EXCEPT ![p] = None]
    /\ UNCHANGED <<sessions, client, defaultTmux, tmuxMu, reqVars, history>>

\* the shell exits, or logout ends the session and takes it out of server.session
PtyEnds ==
    /\ pty \in alive
    /\ alive' = alive \ {pty}
    /\ client' = [client EXCEPT ![pty] = None]
    /\ pty' \in {pty, None}
    /\ UNCHANGED <<sessions, target, defaultTmux, tmuxMu, reqVars, history>>

\* the user detaches with the prefix key, or ends the shell of a tmux session
UserDetaches(p) ==
    /\ Outside
    /\ client[p] # None
    /\ client' = [client EXCEPT ![p] = None]
    /\ undisturbed' = FALSE /\ orderly' = FALSE
    /\ UNCHANGED <<sessions, ptyVars, target, defaultTmux, tmuxMu, reqVars>>

SessionEnds(n) ==
    /\ Outside
    /\ n \in sessions
    /\ End(n)
    /\ undisturbed' = FALSE /\ orderly' = FALSE
    /\ UNCHANGED <<ptyVars, target, defaultTmux, tmuxMu, reqVars>>

-----------------------------------------------------------------------------
Serve(r) ==
    \/ HasSession(r) \/ Capture(r) \/ ReadTarget(r)
    \/ TypeAttach(r) \/ SwitchClient(r) \/ SelectWindow(r) \/ Record(r)
    \/ Recapture(r) \/ TypeDetach(r) \/ ClearTarget(r)
    \/ KillSession(r) \/ NewSession(r) \/ ReadDefault(r) \/ SetDefault(r)
    \/ RenameLocks(r) \/ NameFree(r) \/ RenameSession(r) \/ MoveDefault(r) \/ Retarget(r)

Handle(r) ==
    \/ /\ Serve(r)
       /\ undisturbed' = (undisturbed /\ ~TakenFreely(r))
       /\ orderly' = (orderly /\ ~TakenFreely(r))
    \/ (AttachFails(r) \/ SelectFails(r)) /\ undisturbed' = FALSE /\ UNCHANGED orderly

Next ==
    \/ \E r \in Requests :
         \/ Handle(r)
         \/ \E o \in Ops, n, m \in Names \cup {None} : Accept(r, o, n, m)
    \/ \E p \in Ptys : PtyStarts(p) \/ UserDetaches(p)
    \/ PtyEnds
    \/ \E n \in Names : SessionEnds(n)

Spec == Init /\ [][Next]_vars

\* The handler that holds tmuxMu runs, and its tmux commands return.
FairSpec == Spec /\ WF_vars(\E r \in Requests : tmuxMu = r /\ Handle(r))

-----------------------------------------------------------------------------
(* Properties.                                                             *)

\* persistent_session.go: "tmuxTarget records the tmux session/window driven by this PTY".
\* Whenever no request is in progress, the recorded target is what the client really shows, as
\* long as requests came one at a time, none failed half way, nobody used the keyboard, and
\* tmux took every name literally.
TargetMatchesClient ==
    undisturbed /\ (\A r \in Requests : pc[r] = "idle") /\ pty \in alive
      => target[pty] = client[pty]

\* Creating, renaming, killing and choosing keep the default a session that exists, whatever
\* attaches and detaches meanwhile and however many renames overlap, which tmuxMu puts in a row
\* with all their commands; if one of the others overlaps with another or with a rename, or tmux
\* does not take a name literally, it is lost.
DefaultExists ==
    orderly /\ (\A r \in Requests : op[r] \notin Changing)
      => defaultTmux \in sessions \cup {None}

\* A rename holds tmuxMu over three tmux commands and over the mutexes of the terminal session:
\* it never waits for itself or for a request that waits for it, and gives tmuxMu back.
LockReleased == tmuxMu # None ~> tmuxMu = None

=============================================================================
