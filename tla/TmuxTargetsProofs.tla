--------------------------- MODULE TmuxTargetsProofs ---------------------------
(***************************************************************************)
(* Proofs about TmuxTargets, for any number of requests, tmux sessions and *)
(* terminal sessions.                                                      *)
(***************************************************************************)
EXTENDS TmuxTargets, TLAPS

-----------------------------------------------------------------------------
(* The inductive invariant.                                                *)

\* the steps an operation goes through
Path(o, where) ==
    \/ o = "attach" /\ where \in {"has", "capture", "read", "type", "switch", "record"}
    \/ o = "window" /\ where \in {"has", "capture", "read", "type", "switch", "select", "record"}
    \/ o = "detach" /\ where \in {"capture", "read", "type", "clear"}
    \/ o = "kill" /\ where \in {"capture", "read", "recapture", "type", "clear", "kill",
                                "readDefault", "setDefault"}
    \/ o = "create" /\ where \in {"new", "readDefault", "setDefault"}
    \/ o = "default" /\ where \in {"has", "setDefault"}
    \/ o = "rename" /\ where \in {"lock", "has", "free", "rename", "moveDefault", "capture",
                                  "retarget"}

\* what a request has been given, and that it has no terminal session before it reads one
RequestInv(r) ==
    /\ IF pc[r] = "idle" THEN op[r] = None ELSE Path(op[r], pc[r])
    /\ pc[r] # "idle" /\ op[r] \notin {"detach", "default"} => name[r] \in Names
    /\ pc[r] # "idle" /\ op[r] = "rename" => to[r] \in Names /\ to[r] # name[r]
    /\ pc[r] \in {"idle", "has", "lock", "free", "rename", "moveDefault", "capture", "new"}
         => at[r] = None

\* renameTmuxSession between tmuxMu.Lock and its answer
HoldsLock(r) ==
    \/ pc[r] \in {"free", "rename", "moveDefault", "retarget"}
    \/ op[r] = "rename" /\ pc[r] \in {"has", "capture"}

LockInv == \A r \in Requests : tmuxMu = r <=> HoldsLock(r)

TypeInv == TypeOK /\ \A r \in Requests : RequestInv(r)

\* requests came one at a time
SingleInv == undisturbed => \A q, r \in Requests : pc[q] # "idle" /\ pc[r] # "idle" => q = r

\* a tmux client needs a PTY that runs
ClientInv == \A p \in Ptys : client[p] # None => p \in alive

\* the session that an undisturbed request has found is still there when the client is to show it
FoundInv ==
    undisturbed =>
      \A r \in Requests :
        op[r] \in {"attach", "window"} /\ pc[r] \in {"capture", "read", "type"}
          => name[r] \in sessions

\* of the requests that may change the sessions or the default, only renames overlap
OrderInv ==
    orderly =>
      \A q, r \in Requests :
        op[q] \in Changing /\ op[r] \in Changing /\ q # r => op[q] = "rename" /\ op[r] = "rename"

\* what such a request has made sure of with tmux still holds
SessionInv ==
    orderly =>
      \A r \in Requests :
        /\ op[r] = "create" /\ pc[r] \in {"readDefault", "setDefault"} => name[r] \in sessions
        /\ op[r] = "default" /\ pc[r] = "setDefault" => name[r] \in sessions \cup {None}
        /\ pc[r] = "moveDefault" => to[r] \in sessions

\* r has ended or renamed the session that is named, and has yet to look at the default
RepairsDefault(r) ==
    \/ pc[r] = "moveDefault"
    \/ op[r] = "kill" /\ pc[r] \in {"readDefault", "setDefault"}

\* the default exists, but for the request that is about to repair it
DefaultInv ==
    orderly =>
      \/ defaultTmux \in sessions \cup {None}
      \/ \E r \in Requests : RepairsDefault(r) /\ defaultTmux = name[r]

\* between rename-session and renameTmuxTarget
Renames(r) ==
    \/ pc[r] = "moveDefault"
    \/ op[r] = "rename" /\ pc[r] \in {"capture", "retarget"}

\* what the client shows while r is in progress: the recorded target, or what r will record
Agrees(r) ==
    IF Renames(r) THEN client[pty] = IF target[pty] = name[r] THEN to[r] ELSE target[pty]
    ELSE IF at[r] = pty /\ pc[r] = "clear" THEN client[pty] = None
    ELSE IF at[r] = pty /\ pc[r] \in {"select", "record"} THEN client[pty] = name[r]
    ELSE client[pty] = target[pty]

\* killTmuxSession or detachTmuxSession, from its look at the target until it clears it
Detaches(r) ==
    \/ pc[r] \in {"recapture", "clear"}
    \/ op[r] \in {"detach", "kill"} /\ pc[r] = "type"

\* what r has read of the target still holds
Remembers(r) ==
    /\ Detaches(r) => target[pty] \in {None, cur[r]}
    /\ pc[r] = "type" /\ op[r] \in {"attach", "window"} /\ at[r] = pty => target[pty] = None
    /\ pc[r] = "kill" => target[pty] # name[r]
    /\ at[r] \notin {None, pty} => client[pty] = None /\ target[pty] = None

MatchInv ==
    undisturbed /\ pty \in alive =>
      /\ (\A r \in Requests : pc[r] = "idle") => client[pty] = target[pty]
      /\ \A r \in Requests : pc[r] # "idle" => Agrees(r) /\ Remembers(r)

-----------------------------------------------------------------------------
(* Types, control and arguments.                                           *)

\* A name without a dot that tmux has a session for is taken literally; any name stands for a
\* session that exists, or for none.
LEMMA ResolveSession ==
    ASSUME sessions \in SUBSET Plain, NEW n \in Names
    PROVE  Resolve(n) \in sessions \cup {None} /\ (n \in sessions => Resolve(n) = n)
<1>1. ASSUME \E s \in sessions : sessions \cap Longer[n] = {s}
      PROVE  (CHOOSE s \in sessions : s \in Longer[n]) \in sessions
  <2>1. \E s \in sessions : s \in Longer[n]
    BY <1>1
  <2> QED
    BY <2>1
<1> QED
  BY <1>1 DEF Resolve

\* Types, control and arguments are right when the program starts.
LEMMA InitTypeInv == Init => TypeInv
BY TmuxAssumption DEF Init, TypeInv, TypeOK, RequestInv, Controls

\* the types of what the requests share, and of what they keep to themselves
SharedOK ==
    /\ sessions \in SUBSET Plain
    /\ client \in [Ptys -> Names \cup {None}]
    /\ pty \in Ptys \cup {None} /\ alive \in SUBSET (Ptys \cap {pty})
    /\ target \in [Ptys -> Names \cup {None}]
    /\ defaultTmux \in Names \cup {None}
    /\ tmuxMu \in Requests \cup {None}

RequestsOK ==
    /\ pc \in [Requests -> Controls]
    /\ op \in [Requests -> Ops \cup {None}]
    /\ name \in [Requests -> Names \cup {None}]
    /\ to \in [Requests -> Names \cup {None}]
    /\ at \in [Requests -> Ptys \cup {None}]
    /\ cur \in [Requests -> Names \cup {None}]
    /\ \A r \in Requests :
         pc[r] \in {"read", "type", "clear", "switch", "select", "record", "retarget"}
           => at[r] # None

\* A step of a request that succeeds keeps the types of what is shared.
LEMMA ServeSharedOK ==
    ASSUME TypeInv, NEW r \in Requests, Serve(r)
    PROVE  SharedOK'
<1>1. SharedOK /\ (pc[r] # "idle" /\ op[r] \notin {"detach", "default"} => name[r] \in Names)
  BY DEF TypeInv, TypeOK, SharedOK, RequestInv
<1>2. name[r] \in Names \cup {None} /\ to[r] \in Names \cup {None}
      /\ (op[r] = "rename" /\ pc[r] # "idle" => to[r] \in Names)
  BY DEF TypeInv, TypeOK, RequestInv
<1>3. /\ \A n \in Names : Resolve(n) \in Names \cup {None}
      /\ \A n \in Names : Stored[n] \in Plain
      /\ Plain \subseteq Names
  BY ResolveSession, TmuxAssumption DEF TypeInv, TypeOK, Plain
<1>4. pc[r] # "idle" => Path(op[r], pc[r])
  BY DEF TypeInv, RequestInv
<1>5. CASE HasSession(r)
  BY <1>1, <1>5 DEF HasSession, SharedOK, ptyVars
<1>6. CASE Capture(r) \/ ReadTarget(r)
  BY <1>1, <1>6 DEF Capture, ReadTarget, SharedOK, ptyVars
<1>7. CASE TypeAttach(r)
  BY <1>1, <1>3, <1>7 DEF TypeAttach, SharedOK, ptyVars
<1>8. CASE SwitchClient(r)
  BY <1>1, <1>3, <1>4, <1>8 DEF SwitchClient, SharedOK, ptyVars, Path
<1>9. CASE SelectWindow(r) \/ Recapture(r) \/ ReadDefault(r)
  BY <1>1, <1>9 DEF SelectWindow, Recapture, ReadDefault, SharedOK, ptyVars
<1>10. CASE Record(r) \/ ClearTarget(r)
  BY <1>1, <1>2, <1>10 DEF Record, ClearTarget, SharedOK, ptyVars
<1>11. CASE TypeDetach(r)
  BY <1>1, <1>11 DEF TypeDetach, SharedOK, ptyVars
<1>12. CASE KillSession(r)
  BY <1>1, <1>12 DEF KillSession, End, SharedOK, ptyVars
<1>13. CASE NewSession(r)
  BY <1>1, <1>3, <1>4, <1>13 DEF NewSession, SharedOK, ptyVars, Path
<1>14. CASE SetDefault(r) \/ MoveDefault(r)
  BY <1>1, <1>2, <1>14 DEF SetDefault, MoveDefault, SharedOK, ptyVars
<1>15. CASE RenameLocks(r) \/ NameFree(r)
  BY <1>1, <1>15 DEF RenameLocks, NameFree, SharedOK, ptyVars
<1>16. CASE RenameSession(r)
  <2>1. Stored[to[r]] \in Plain
    BY <1>2, <1>3, <1>4, <1>16 DEF RenameSession, Path
  <2> QED
    BY <1>1, <1>3, <1>16, <2>1 DEF RenameSession, SharedOK, ptyVars
<1>17. CASE Retarget(r)
  BY <1>1, <1>2, <1>17 DEF Retarget, SharedOK, ptyVars
<1> QED
  BY <1>5, <1>6, <1>7, <1>8, <1>9, <1>10, <1>11, <1>12, <1>13, <1>14, <1>15, <1>16, <1>17
     DEF Serve

\* A request that is answered is as it was before it was accepted.
LEMMA AnswerRequestsOK ==
    ASSUME TypeInv, NEW r \in Requests, Answer(r)
    PROVE  RequestsOK' /\ \A q \in Requests : RequestInv(q)'
BY DEF TypeInv, TypeOK, RequestsOK, RequestInv, Answer, Controls, Ops

\* A request that goes on keeps its arguments; it has a terminal session where it needs one.
LEMMA GotoRequestsOK ==
    ASSUME TypeInv, NEW r \in Requests, NEW where \in Controls \ {"idle"}, pc[r] # "idle",
           pc' = [pc EXCEPT ![r] = where], UNCHANGED argVars, Path(op[r], where),
           NEW p \in Ptys \cup {None}, at' = [at EXCEPT ![r] = p],
           NEW t \in Names \cup {None}, cur' = [cur EXCEPT ![r] = t],
           where \in {"read", "type", "clear", "switch", "select", "record", "retarget"}
             => p # None,
           where \in {"has", "lock", "free", "rename", "moveDefault", "capture", "new"} => p = None
    PROVE  RequestsOK' /\ \A q \in Requests : RequestInv(q)'
BY DEF TypeInv, TypeOK, RequestsOK, RequestInv, argVars

\* A step of a request that succeeds keeps types, control and arguments.
LEMMA ServeTypeInv ==
    ASSUME TypeInv, undisturbed' \in BOOLEAN, orderly' \in BOOLEAN, NEW r \in Requests, Serve(r)
    PROVE  TypeInv'
<1>1. /\ pc[r] # "idle" => Path(op[r], pc[r])
      /\ at[r] \in Ptys \cup {None} /\ cur[r] \in Names \cup {None} /\ pty \in Ptys \cup {None}
      /\ at \in [Requests -> Ptys \cup {None}] /\ cur \in [Requests -> Names \cup {None}]
      /\ pc[r] \in {"read", "type", "clear", "switch", "select", "record", "retarget"}
           => at[r] # None
      /\ pc[r] \in {"idle", "has", "lock", "free", "rename", "moveDefault", "capture", "new"}
           => at[r] = None
      /\ target \in [Ptys -> Names \cup {None}]
  BY DEF TypeInv, TypeOK, RequestInv
<1>2. \/ Answer(r)
      \/ \E where \in Controls \ {"idle"}, p \in Ptys \cup {None}, t \in Names \cup {None} :
           /\ pc[r] # "idle"
           /\ pc' = [pc EXCEPT ![r] = where] /\ UNCHANGED argVars /\ Path(op[r], where)
           /\ at' = [at EXCEPT ![r] = p] /\ cur' = [cur EXCEPT ![r] = t]
           /\ where \in {"read", "type", "clear", "switch", "select", "record", "retarget"}
                => p # None
           /\ where \in {"has", "lock", "free", "rename", "moveDefault", "capture", "new"}
                => p = None
  <2> DEFINE Goes(where, p, t) ==
               /\ pc[r] # "idle"
               /\ pc' = [pc EXCEPT ![r] = where] /\ UNCHANGED argVars /\ Path(op[r], where)
               /\ at' = [at EXCEPT ![r] = p] /\ cur' = [cur EXCEPT ![r] = t]
               /\ where \in {"read", "type", "clear", "switch", "select", "record", "retarget"}
                    => p # None
               /\ where \in {"has", "lock", "free", "rename", "moveDefault", "capture", "new"}
                    => p = None
             Moves == \E where \in Controls \ {"idle"}, p \in Ptys \cup {None},
                         t \in Names \cup {None} : Goes(where, p, t)
  <2>1. ASSUME NEW where \in Controls \ {"idle"}, Goto(r, where),
               pc[r] # "idle", Path(op[r], where),
               where \in {"read", "type", "clear", "switch", "select", "record", "retarget"}
                 => at[r] # None,
               where \in {"has", "lock", "free", "rename", "moveDefault", "capture", "new"}
                 => at[r] = None
        PROVE  Moves
    <3>1. Goes(where, at[r], cur[r])
      BY <1>1, <2>1 DEF Goto
    <3> QED
      BY <1>1, <3>1
  <2>2. ASSUME GotoKill(r), pc[r] # "idle", op[r] = "kill" PROVE Moves
    <3>1. Goes("kill", None, None)
      BY <2>2 DEF GotoKill, Path
    <3> QED
      BY <3>1 DEF Controls
  <2> USE DEF Path, Controls
  <2>3. CASE HasSession(r)
    BY <1>1, <2>1, <2>3 DEF HasSession
  <2>4. CASE Capture(r)
    <3>1. CASE pty = None
      BY <1>1, <2>1, <2>4, <3>1 DEF Capture
    <3>2. CASE pty # None
      <4>1. Goes(IF op[r] = "rename" THEN "retarget" ELSE "read", pty, cur[r])
        BY <1>1, <2>4, <3>2 DEF Capture
      <4> QED
        BY <1>1, <4>1
    <3> QED
      BY <3>1, <3>2
  <2>5. CASE ReadTarget(r)
    <3> DEFINE t == target[at[r]]
               next == IF op[r] = "kill" THEN IF t = name[r] THEN "recapture" ELSE "kill"
                       ELSE IF op[r] = "detach" \/ t = None THEN "type"
                       ELSE IF t # name[r] THEN "switch"
                       ELSE IF op[r] = "window" THEN "select" ELSE "record"
               seen == IF op[r] = "detach" \/ next = "recapture" THEN t ELSE None
    <3>1. /\ op[r] \in {"attach", "window", "detach", "kill"} /\ pc[r] = "read"
          /\ at[r] \in Ptys /\ t \in Names \cup {None} /\ at[r] # None
      BY <1>1, <2>5 DEF ReadTarget
    <3>2. /\ next \in {"recapture", "kill", "type", "switch", "select", "record"}
          /\ Path(op[r], next) /\ (next = "kill" => op[r] = "kill")
      BY <3>1
    <3>3. seen \in Names \cup {None}
      BY <3>1
    <3>4. \/ Answer(r)
          \/ GotoKill(r) /\ next = "kill"
          \/ /\ next # "kill"
             /\ pc' = [pc EXCEPT ![r] = next]
             /\ cur' = [cur EXCEPT ![r] = seen]
             /\ UNCHANGED <<argVars, at>>
      BY <2>5 DEF ReadTarget
    <3>5. CASE /\ next # "kill"
               /\ pc' = [pc EXCEPT ![r] = next]
               /\ cur' = [cur EXCEPT ![r] = seen]
               /\ UNCHANGED <<argVars, at>>
      <4> HIDE DEF next, seen, t, Path, Controls
      <4>1. Goes(next, at[r], seen)
        BY <1>1, <3>1, <3>2, <3>5
      <4> QED
        BY <1>1, <3>2, <3>3, <4>1 DEF Controls
    <3> QED
      BY <2>2, <3>1, <3>2, <3>4, <3>5
  <2>6. CASE TypeAttach(r) \/ SwitchClient(r) \/ SelectWindow(r) \/ Record(r)
    BY <1>1, <2>1, <2>6 DEF TypeAttach, SwitchClient, SelectWindow, Record
  <2>7. CASE Recapture(r)
    <3>1. CASE pty = None
      BY <1>1, <2>2, <2>7, <3>1 DEF Recapture
    <3>2. CASE pty # None
      <4>1. Goes("type", pty, cur[r])
        BY <1>1, <2>7, <3>2 DEF Recapture
      <4> QED
        BY <1>1, <4>1
    <3> QED
      BY <3>1, <3>2
  <2>8. CASE TypeDetach(r) \/ ClearTarget(r)
    BY <1>1, <2>1, <2>2, <2>8 DEF TypeDetach, ClearTarget
  <2>9. CASE KillSession(r) \/ NewSession(r) \/ ReadDefault(r) \/ SetDefault(r)
    BY <1>1, <2>1, <2>9 DEF KillSession, NewSession, ReadDefault, SetDefault
  <2>10. CASE RenameLocks(r) \/ NameFree(r) \/ RenameSession(r) \/ MoveDefault(r) \/ Retarget(r)
    BY <1>1, <2>1, <2>10 DEF RenameLocks, NameFree, RenameSession, MoveDefault, Retarget
  <2> QED
    BY <2>3, <2>4, <2>5, <2>6, <2>7, <2>8, <2>9, <2>10 DEF Serve
<1>3. RequestsOK' /\ \A q \in Requests : RequestInv(q)'
  BY <1>2, AnswerRequestsOK, GotoRequestsOK
<1> QED
  BY <1>3, ServeSharedOK DEF TypeInv, TypeOK, SharedOK, RequestsOK

-----------------------------------------------------------------------------
(* The lock.                                                               *)

\* A step of a request takes tmuxMu, gives it back, or leaves it with the rename that has it.
LEMMA ServeLockInv ==
    ASSUME TypeInv, LockInv, NEW r \in Requests, Serve(r)
    PROVE  LockInv'
<1> USE TmuxAssumption DEF TypeInv, TypeOK, RequestInv, Path, LockInv, HoldsLock, Goto, GotoKill,
      Answer, argVars, ptyVars
<1>1. CASE HasSession(r)
  BY <1>1 DEF HasSession, Controls
<1>2. CASE Capture(r)
  BY <1>2 DEF Capture, Controls
<1>3. CASE ReadTarget(r)
  BY <1>3 DEF ReadTarget, Controls
<1>4. CASE TypeAttach(r)
  BY <1>4 DEF TypeAttach, Controls
<1>5. CASE SwitchClient(r)
  BY <1>5 DEF SwitchClient, Controls
<1>6. CASE SelectWindow(r)
  BY <1>6 DEF SelectWindow, Controls
<1>7. CASE Record(r)
  BY <1>7 DEF Record, Controls
<1>8. CASE Recapture(r)
  BY <1>8 DEF Recapture, Controls
<1>9. CASE TypeDetach(r)
  BY <1>9 DEF TypeDetach, Controls
<1>10. CASE ClearTarget(r)
  BY <1>10 DEF ClearTarget, Controls
<1>11. CASE KillSession(r)
  BY <1>11 DEF KillSession, End, Controls
<1>12. CASE NewSession(r)
  BY <1>12 DEF NewSession, Controls
<1>13. CASE ReadDefault(r)
  BY <1>13 DEF ReadDefault, Controls
<1>14. CASE SetDefault(r)
  BY <1>14 DEF SetDefault, Controls
<1>15. CASE RenameLocks(r)
  BY <1>15 DEF RenameLocks, Controls
<1>16. CASE NameFree(r)
  BY <1>16 DEF NameFree, Controls
<1>17. CASE RenameSession(r)
  BY <1>17 DEF RenameSession, Controls
<1>18. CASE MoveDefault(r)
  BY <1>18 DEF MoveDefault, Controls
<1>19. CASE Retarget(r)
  BY <1>19 DEF Retarget, Controls
<1> QED
  BY <1>1, <1>2, <1>3, <1>4, <1>5, <1>6, <1>7, <1>8, <1>9, <1>10, <1>11, <1>12, <1>13, <1>14,
     <1>15, <1>16, <1>17, <1>18, <1>19 DEF Serve

-----------------------------------------------------------------------------
(* The default.                                                            *)

\* A step aside: neither sessions nor default change, and r has nothing to repair or to set.
LEMMA AsideDefaultInv ==
    ASSUME OrderInv, SessionInv, DefaultInv, NEW r \in Requests, orderly' => orderly,
           UNCHANGED <<sessions, defaultTmux>>,
           \A q \in Requests \ {r} :
             pc'[q] = pc[q] /\ op'[q] = op[q] /\ name'[q] = name[q] /\ to'[q] = to[q],
           ~RepairsDefault(r),
           \/ op'[r] = None
           \/ op'[r] = op[r] /\ pc'[r] \notin {"readDefault", "setDefault"},
           pc'[r] # "moveDefault"
    PROVE  OrderInv' /\ SessionInv' /\ DefaultInv'
<1>1. \A q \in Requests : RepairsDefault(q) => RepairsDefault(q)' /\ name'[q] = name[q]
  BY DEF RepairsDefault
<1>2. None \notin Ops
  BY TmuxAssumption
<1>3. OrderInv'
  BY <1>2 DEF OrderInv, Changing, Ops
<1>4. SessionInv'
  BY <1>2 DEF SessionInv, Ops
<1>5. DefaultInv'
  BY <1>1 DEF DefaultInv
<1> QED
  BY <1>3, <1>4, <1>5

\* Of the requests that change sessions or the default, the one that moves is the only one, or all
\* the others are renames that wait for tmuxMu.
LEMMA OthersWait ==
    ASSUME TypeInv, LockInv, OrderInv, orderly, NEW r \in Requests, op[r] \in Changing,
           op[r] = "rename" => tmuxMu = r, NEW q \in Requests \ {r}
    PROVE  /\ ~RepairsDefault(q)
           /\ op[q] \notin {"create", "default", "kill"}
           /\ pc[q] # "moveDefault"
<1>1. op[q] \notin {"create", "default", "kill"}
  BY DEF OrderInv, Changing
<1>2. op[q] = "rename" => op[r] = "rename" /\ tmuxMu # q
  BY DEF OrderInv, Changing
<1>3. pc[q] = "moveDefault" => op[q] = "rename" /\ tmuxMu = q
  BY DEF LockInv, HoldsLock, TypeInv, RequestInv, Path
<1> QED
  BY <1>1, <1>2, <1>3 DEF RepairsDefault

\* A step of a request leaves the default with a session that exists, or has the repair to do.
LEMMA ServeDefaultInv ==
    ASSUME TypeInv, LockInv, OrderInv, SessionInv, DefaultInv,
           NEW r \in Requests, Serve(r), orderly' = (orderly /\ ~TakenFreely(r))
    PROVE  OrderInv' /\ SessionInv' /\ DefaultInv'
<1> DEFINE Keeps == OrderInv' /\ SessionInv' /\ DefaultInv'
<1>0. /\ pc \in [Requests -> Controls] /\ op \in [Requests -> Ops \cup {None}]
      /\ name \in [Requests -> Names \cup {None}] /\ to \in [Requests -> Names \cup {None}]
      /\ RequestInv(r) /\ None \notin Ops /\ None \notin Names /\ sessions \subseteq Names
  BY TmuxAssumption DEF TypeInv, TypeOK, Plain
<1>1. \A n \in Names :
        Resolve(n) \in sessions \cup {None} /\ (n \in sessions => Resolve(n) = n)
  BY ResolveSession DEF TypeInv, TypeOK
<1>2. ASSUME HasSession(r), op[r] # "default" PROVE Keeps
  BY <1>0, <1>2, AsideDefaultInv DEF HasSession, RequestInv, Path, RepairsDefault, Goto, Answer,
     argVars
<1>3. ASSUME \/ Capture(r) \/ ReadTarget(r) \/ TypeAttach(r) \/ SwitchClient(r) \/ SelectWindow(r)
             \/ Record(r) \/ Recapture(r) \/ TypeDetach(r) \/ ClearTarget(r)
      PROVE  Keeps
  <2>1. ~RepairsDefault(r) /\ UNCHANGED <<sessions, defaultTmux>>
    BY <1>0, <1>3 DEF Capture, ReadTarget, TypeAttach, SwitchClient, SelectWindow, Record,
       Recapture, TypeDetach, ClearTarget, RepairsDefault
  <2>2. \/ Answer(r) \/ GotoKill(r)
        \/ \E where \in {"retarget", "read", "recapture", "kill", "type", "switch", "select",
                        "record", "clear"} :
             pc' = [pc EXCEPT ![r] = where] /\ UNCHANGED argVars
    BY <1>3 DEF Capture, ReadTarget, TypeAttach, SwitchClient, SelectWindow, Record, Recapture,
       TypeDetach, ClearTarget, Goto
  <2>3. /\ \A q \in Requests \ {r} :
             pc'[q] = pc[q] /\ op'[q] = op[q] /\ name'[q] = name[q] /\ to'[q] = to[q]
        /\ op'[r] = None \/ op'[r] = op[r]
        /\ pc'[r] \notin {"readDefault", "setDefault", "moveDefault"}
    BY <1>0, <2>2 DEF GotoKill, Answer, argVars
  <2> QED
    BY <2>1, <2>3, AsideDefaultInv
<1>4. ASSUME RenameLocks(r) \/ NameFree(r) \/ Retarget(r) PROVE Keeps
  <2>1. ~RepairsDefault(r) /\ UNCHANGED <<sessions, defaultTmux>>
    BY <1>0, <1>4 DEF RenameLocks, NameFree, Retarget, RepairsDefault
  <2>2. Answer(r) \/ Goto(r, "has") \/ Goto(r, "rename")
    BY <1>4 DEF RenameLocks, NameFree, Retarget
  <2> QED
    BY <1>0, <2>1, <2>2, AsideDefaultInv DEF Goto, Answer, argVars
<1>5. ASSUME HasSession(r), op[r] = "default" PROVE Keeps
  <2>1. CASE Answer(r)
    BY <1>0, <1>5, <2>1, AsideDefaultInv DEF HasSession, RequestInv, Path, RepairsDefault, Answer
  <2>2. CASE Goto(r, "setDefault") /\ Resolve(name[r]) # None
    <3>1. orderly' => name[r] \in sessions \cup {None}
      BY <1>0, <1>1, <1>5, <2>2 DEF HasSession, TakenFreely
    <3>2. /\ UNCHANGED <<op, name, to, sessions, defaultTmux>> /\ pc[r] = "has"
          /\ pc' = [pc EXCEPT ![r] = "setDefault"]
      BY <1>5, <2>2 DEF HasSession, Goto, argVars
    <3>3. OrderInv' /\ SessionInv'
      BY <1>0, <1>5, <3>1, <3>2 DEF OrderInv, SessionInv
    <3>4. DefaultInv'
      BY <1>0, <1>5, <3>2 DEF DefaultInv, RepairsDefault
    <3> QED
      BY <3>3, <3>4
  <2> QED
    BY <1>5, <2>1, <2>2 DEF HasSession
<1>6. ASSUME KillSession(r) \/ NewSession(r) PROVE Keeps
  <2>1. /\ \/ KillSession(r) /\ pc[r] = "kill" /\ op[r] = "kill"
           \/ NewSession(r) /\ pc[r] = "new" /\ op[r] = "create"
        /\ name[r] \in Names /\ op[r] \in Changing /\ op[r] # "rename" /\ UNCHANGED defaultTmux
    <3>1. CASE KillSession(r)
      BY <1>0, <3>1 DEF KillSession, RequestInv, Path, Changing
    <3>2. CASE NewSession(r)
      BY <1>0, <3>2 DEF NewSession, RequestInv, Path, Changing
    <3> QED
      BY <1>6, <3>1, <3>2
  <2>2. CASE Answer(r) /\ UNCHANGED sessions
    BY <1>0, <2>1, <2>2, AsideDefaultInv DEF RepairsDefault, Answer
  <2>3. CASE Goto(r, "readDefault")
    <3>1. /\ pc' = [pc EXCEPT ![r] = "readDefault"] /\ UNCHANGED <<op, name, to>>
      BY <2>3 DEF Goto, argVars
    <3>2. orderly' => sessions' = IF op[r] = "kill" THEN sessions \ {name[r]}
                                  ELSE sessions \cup {name[r]}
      <4>1. pc'[r] # "idle"
        BY <1>0, <3>1
      <4>2. CASE KillSession(r) /\ op[r] = "kill" /\ pc[r] = "kill"
        BY <1>0, <2>1, <4>1, <4>2 DEF KillSession, End, TakenFreely, Answer
      <4>3. CASE NewSession(r) /\ op[r] = "create" /\ pc[r] = "new"
        BY <1>0, <2>1, <4>1, <4>3 DEF NewSession, TakenFreely, Answer, Plain
      <4> QED
        BY <2>1, <4>2, <4>3
    <3>3. orderly' => \A q \in Requests \ {r} : /\ ~RepairsDefault(q)
                                              /\ op[q] \notin {"create", "default", "kill"}
                                              /\ pc[q] # "moveDefault"
      BY <2>1, OthersWait
    <3>4. OrderInv' /\ SessionInv'
      BY <1>0, <2>1, <3>1, <3>2, <3>3 DEF OrderInv, SessionInv
    <3>5. ASSUME orderly' PROVE defaultTmux \in sessions \cup {None}
      BY <2>1, <3>3, <3>5 DEF DefaultInv, RepairsDefault
    <3>6. DefaultInv'
      BY <1>0, <2>1, <3>1, <3>2, <3>5 DEF DefaultInv, RepairsDefault
    <3> QED
      BY <3>4, <3>6
  <2> QED
    BY <1>6, <2>2, <2>3 DEF KillSession, NewSession
<1>7. ASSUME ReadDefault(r) \/ SetDefault(r) PROVE Keeps
  <2>1. /\ op[r] \in {"kill", "create", "default"} /\ pc[r] \in {"readDefault", "setDefault"}
        /\ UNCHANGED sessions
    BY <1>0, <1>7 DEF ReadDefault, SetDefault, RequestInv, Path
  <2>2. orderly => \A q \in Requests \ {r} : /\ ~RepairsDefault(q)
                                           /\ op[q] \notin {"create", "default", "kill"}
                                           /\ pc[q] # "moveDefault"
    BY <2>1, OthersWait DEF Changing
  <2>3. orderly => defaultTmux \in sessions \cup {None} \/ (op[r] = "kill" /\ defaultTmux = name[r])
    BY <2>1, <2>2 DEF DefaultInv, RepairsDefault, RequestInv, Path
  <2>4. CASE Answer(r)
    <3>1. /\ pc' = [pc EXCEPT ![r] = "idle"] /\ op' = [op EXCEPT ![r] = None]
          /\ \A q \in Requests \ {r} : name'[q] = name[q] /\ to'[q] = to[q]
      BY <1>0, <2>4 DEF Answer
    <3>2. OrderInv' /\ SessionInv'
      <4>1. OrderInv'
        <5>1. op'[r] \notin Changing /\ \A q \in Requests \ {r} : op'[q] = op[q]
          BY <1>0, <3>1 DEF Changing, Ops
        <5> QED
          BY <5>1 DEF OrderInv
      <4>2. SessionInv'
        BY <1>0, <2>1, <2>2, <3>1 DEF SessionInv, Ops
      <4> QED
        BY <4>1, <4>2
    <3>3. orderly => defaultTmux' \in sessions \cup {None}
      <4>1. CASE ReadDefault(r)
        <5>1. UNCHANGED defaultTmux /\ defaultTmux # IF op[r] = "create" THEN None ELSE name[r]
          BY <1>0, <3>1, <4>1 DEF ReadDefault, Goto
        <5> QED
          BY <2>1, <2>3, <5>1
      <4>2. CASE SetDefault(r)
        BY <2>1, <4>2 DEF SetDefault, SessionInv
      <4> QED
        BY <1>7, <4>1, <4>2
    <3> QED
      BY <2>1, <3>2, <3>3 DEF DefaultInv
  <2>5. CASE Goto(r, "setDefault") /\ UNCHANGED defaultTmux
    <3>1. pc' = [pc EXCEPT ![r] = "setDefault"] /\ UNCHANGED <<op, name, to>> /\ op[r] # "default"
      BY <1>0, <1>7, <2>1, <2>5 DEF ReadDefault, SetDefault, Goto, argVars, Answer, RequestInv, Path
    <3>2. OrderInv' /\ SessionInv'
      BY <1>0, <2>1, <2>2, <3>1 DEF OrderInv, SessionInv
    <3>3. DefaultInv'
      BY <1>0, <2>1, <2>3, <2>5, <3>1 DEF DefaultInv, RepairsDefault
    <3> QED
      BY <3>2, <3>3
  <2> QED
    BY <1>7, <2>4, <2>5 DEF ReadDefault, SetDefault
<1>8. ASSUME RenameSession(r) \/ MoveDefault(r) PROVE Keeps
  <2>1. /\ op[r] = "rename" /\ tmuxMu = r /\ pc[r] \in {"rename", "moveDefault"}
        /\ name[r] \in Names /\ to[r] \in Names
    BY <1>0, <1>8 DEF RenameSession, MoveDefault, RequestInv, Path, LockInv, HoldsLock
  <2>2. orderly => \A q \in Requests \ {r} : /\ ~RepairsDefault(q)
                                           /\ op[q] \notin {"create", "default", "kill"}
                                           /\ pc[q] # "moveDefault"
    BY <2>1, OthersWait DEF Changing
  <2>3. CASE Answer(r) /\ UNCHANGED <<sessions, defaultTmux>> /\ pc[r] = "rename"
    BY <1>0, <2>1, <2>3, AsideDefaultInv DEF RepairsDefault, Answer
  <2>4. CASE RenameSession(r) /\ Goto(r, "moveDefault")
    <3>1. /\ pc' = [pc EXCEPT ![r] = "moveDefault"] /\ UNCHANGED <<op, name, to, defaultTmux>>
      BY <2>4 DEF RenameSession, Goto, argVars
    <3>2. orderly' => sessions' = (sessions \ {name[r]}) \cup {to[r]}
      BY <1>0, <1>1, <2>1, <2>4, <3>1, TmuxAssumption
         DEF RenameSession, TakenFreely, Plain, Answer
    <3>3. OrderInv' /\ SessionInv'
      BY <1>0, <2>1, <2>2, <3>1, <3>2 DEF OrderInv, SessionInv
    <3>4. orderly => defaultTmux \in sessions \cup {None}
      BY <2>2, <2>4, <1>0 DEF DefaultInv, RepairsDefault, RenameSession, RequestInv, Path
    <3>5. DefaultInv'
      BY <1>0, <2>1, <3>1, <3>2, <3>4 DEF DefaultInv, RepairsDefault
    <3> QED
      BY <3>3, <3>5
  <2>5. CASE MoveDefault(r)
    <3>1. /\ pc' = [pc EXCEPT ![r] = "capture"] /\ UNCHANGED <<op, name, to, sessions>>
          /\ defaultTmux' = (IF defaultTmux = name[r] THEN to[r] ELSE defaultTmux)
          /\ pc[r] = "moveDefault"
      BY <2>5 DEF MoveDefault, Goto, argVars
    <3>2. OrderInv' /\ SessionInv'
      BY <1>0, <2>1, <2>2, <3>1 DEF OrderInv, SessionInv
    <3>3. orderly => defaultTmux' \in sessions \cup {None}
      BY <2>2, <3>1 DEF DefaultInv, RepairsDefault, SessionInv
    <3> QED
      BY <3>1, <3>2, <3>3 DEF DefaultInv
  <2> QED
    BY <1>8, <2>1, <2>3, <2>4, <2>5 DEF RenameSession, MoveDefault
<1> QED
  BY <1>2, <1>3, <1>4, <1>5, <1>6, <1>7, <1>8 DEF Serve

-----------------------------------------------------------------------------
(* The target.                                                             *)

\* When requests come one at a time, the one that moves is the one that matters.
LEMMA MatchOfOne ==
    ASSUME SingleInv, undisturbed' => undisturbed,
           NEW r \in Requests, pc[r] # "idle", \A q \in Requests \ {r} : pc'[q] = pc[q],
           undisturbed' /\ pty' \in alive' =>
             IF pc'[r] = "idle" THEN (client[pty] = target[pty])' ELSE Agrees(r)' /\ Remembers(r)'
    PROVE  MatchInv'
BY DEF SingleInv, MatchInv

\* The second look at server.session finds the PTY of the first one, or one without a client.
LEMMA RecaptureMatchInv ==
    ASSUME TypeInv, SingleInv, MatchInv, undisturbed' => undisturbed,
           NEW r \in Requests, Recapture(r)
    PROVE  MatchInv'
<1>1. /\ pc[r] = "recapture" /\ pc \in [Requests -> Controls]
      /\ pc' = [pc EXCEPT ![r] = IF pty = None THEN "kill" ELSE "type"]
      /\ pty # None => at' = [at EXCEPT ![r] = pty] /\ UNCHANGED cur
      /\ at \in [Requests -> Ptys \cup {None}]
      /\ UNCHANGED <<op, name, to, client, target, pty, alive>>
  BY DEF Recapture, GotoKill, TypeInv, TypeOK, argVars, ptyVars
<1>2. op[r] = "kill" /\ name[r] \in Names
  BY <1>1 DEF TypeInv, RequestInv, Path
<1>3. ASSUME undisturbed, pty \in alive
      PROVE  pc'[r] # "idle" /\ Agrees(r)' /\ Remembers(r)'
  <2>1. Agrees(r) /\ Remembers(r) /\ pty # None
    BY <1>1, <1>3, TmuxAssumption DEF MatchInv, TypeInv, TypeOK
  <2>2. client[pty] = target[pty] /\ target[pty] \in {None, cur[r]}
    BY <1>1, <2>1, <1>2 DEF Agrees, Renames, Remembers, Detaches
  <2>3. pc'[r] = "type" /\ at'[r] = pty
    BY <1>1, <2>1
  <2> QED
    BY <1>1, <1>2, <2>2, <2>3 DEF Agrees, Renames, Remembers, Detaches
<1> QED
  BY <1>1, <1>3, MatchOfOne

\* What is cleared is what was read, so that nothing is recorded for a client that has left.
LEMMA ClearTargetMatchInv ==
    ASSUME TypeInv, SingleInv, MatchInv, undisturbed' => undisturbed,
           NEW r \in Requests, ClearTarget(r)
    PROVE  MatchInv'
<1>1. /\ pc[r] = "clear" /\ pc \in [Requests -> Controls]
      /\ target' = [target EXCEPT ![at[r]] = IF @ = cur[r] THEN None ELSE @]
      /\ target \in [Ptys -> Names \cup {None}] /\ at[r] \in Ptys /\ op[r] \in {"detach", "kill"}
      /\ IF op[r] = "kill" THEN GotoKill(r) ELSE Answer(r)
      /\ UNCHANGED <<client, pty, alive>>
  BY DEF ClearTarget, TypeInv, TypeOK, RequestInv, Path, ptyVars
<1>2. ASSUME undisturbed, pty \in alive PROVE target'[pty] = None /\ client[pty] = None
  <2>1. Agrees(r) /\ Remembers(r) /\ pty # None /\ pty \in Ptys
    BY <1>1, <1>2, TmuxAssumption DEF MatchInv, TypeInv, TypeOK
  <2>2. target[pty] \in {None, cur[r]} /\ IF at[r] = pty THEN client[pty] = None
                                       ELSE client[pty] = None /\ target[pty] = None
    BY <1>1, <2>1, TmuxAssumption DEF Agrees, Renames, Remembers, Detaches
  <2> QED
    BY <1>1, <2>1, <2>2
<1>3. CASE op[r] = "kill"
  <2>1. /\ pc' = [pc EXCEPT ![r] = "kill"] /\ at' = [at EXCEPT ![r] = None]
        /\ UNCHANGED <<op, name, to>>
        /\ name[r] \in Names
    BY <1>1, <1>3 DEF GotoKill, argVars, TypeInv, RequestInv
  <2>2. ASSUME undisturbed, pty \in alive
        PROVE  pc'[r] # "idle" /\ Agrees(r)' /\ Remembers(r)'
    BY <1>1, <1>2, <1>3, <2>1, <2>2, TmuxAssumption DEF Agrees, Renames, Remembers, Detaches
  <2> QED
    BY <1>1, <2>1, <2>2, MatchOfOne
<1>4. CASE op[r] = "detach"
  <2>1. pc' = [pc EXCEPT ![r] = "idle"]
    BY <1>1, <1>4 DEF Answer
  <2> QED
    BY <1>1, <1>2, <2>1, MatchOfOne
<1> QED
  BY <1>1, <1>3, <1>4

\* The client follows the rename at once, the target later.
LEMMA RenameSessionMatchInv ==
    ASSUME TypeInv, SingleInv, MatchInv, NEW r \in Requests, RenameSession(r),
           undisturbed' => undisturbed /\ ~TakenFreely(r)
    PROVE  MatchInv'
<1>1. /\ pc[r] = "rename" /\ pc \in [Requests -> Controls] /\ op[r] = "rename" /\ at[r] = None
      /\ UNCHANGED <<target, pty, alive>>
  BY DEF RenameSession, TypeInv, TypeOK, RequestInv, Path, ptyVars
<1>2. ASSUME undisturbed, pty \in alive
      PROVE  client[pty] = target[pty] /\ pty \in Ptys /\ pty # None
  BY <1>1, <1>2, TmuxAssumption DEF MatchInv, TypeInv, TypeOK, Agrees, Renames
<1>3. CASE Answer(r) /\ UNCHANGED client
  <2>1. pc' = [pc EXCEPT ![r] = "idle"]
    BY <1>3 DEF Answer
  <2> QED
    BY <1>1, <1>2, <1>3, <2>1, MatchOfOne
<1>4. CASE Goto(r, "moveDefault")
           /\ client' = [p \in Ptys |-> IF client[p] = Resolve(name[r]) THEN Stored[to[r]]
                                       ELSE client[p]]
           /\ Resolve(name[r]) # None
  <2>1. pc' = [pc EXCEPT ![r] = "moveDefault"] /\ UNCHANGED <<op, name, to, at, cur>>
    BY <1>4 DEF Goto, argVars
  <2>2. ASSUME undisturbed' PROVE Resolve(name[r]) = name[r] /\ Stored[to[r]] = to[r]
    <3>1. name[r] \in Names
      BY <1>1 DEF TypeInv, RequestInv
    <3> QED
      BY <1>1, <1>4, <2>2, <3>1, TmuxAssumption DEF TakenFreely, Plain
  <2>3. ASSUME undisturbed', pty \in alive
        PROVE  pc'[r] # "idle" /\ Agrees(r)' /\ Remembers(r)'
    BY <1>1, <1>2, <1>4, <2>1, <2>2, <2>3 DEF Agrees, Renames, Remembers, Detaches
  <2> QED
    BY <1>1, <2>1, <2>3, MatchOfOne
<1> QED
  BY <1>3, <1>4 DEF RenameSession

\* The default does not concern the client.
LEMMA MoveDefaultMatchInv ==
    ASSUME TypeInv, SingleInv, MatchInv, undisturbed' => undisturbed,
           NEW r \in Requests, MoveDefault(r)
    PROVE  MatchInv'
<1>1. /\ pc[r] = "moveDefault" /\ pc \in [Requests -> Controls] /\ op[r] = "rename" /\ at[r] = None
      /\ pc' = [pc EXCEPT ![r] = "capture"] /\ UNCHANGED <<op, name, to, at, cur>>
      /\ UNCHANGED <<client, target, pty, alive>>
  BY DEF MoveDefault, TypeInv, TypeOK, RequestInv, Path, Goto, argVars, ptyVars
<1>2. ASSUME undisturbed, pty \in alive
      PROVE  pc'[r] # "idle" /\ Agrees(r)' /\ Remembers(r)'
  <2>1. Agrees(r)
    BY <1>1, <1>2 DEF MatchInv
  <2> QED
    BY <1>1, <2>1 DEF Agrees, Renames, Remembers, Detaches
<1> QED
  BY <1>1, <1>2, MatchOfOne

\* A step of a request keeps the target in agreement with the client.
LEMMA ServeMatchInv ==
    ASSUME TypeInv, SingleInv, FoundInv, ClientInv, MatchInv,
           NEW r \in Requests, Serve(r), undisturbed' = (undisturbed /\ ~TakenFreely(r))
    PROVE  SingleInv' /\ FoundInv' /\ ClientInv' /\ MatchInv'
<1>a. /\ \A n \in Names : Resolve(n) \in sessions \cup {None}
      /\ \A n \in Names : n \in sessions => Resolve(n) = n
      /\ sessions \subseteq Names
  BY ResolveSession DEF TypeInv, TypeOK, Plain
<1>b. ASSUME undisturbed', pc[r] \in {"has", "switch", "kill"}, name[r] \in Names,
             Resolve(name[r]) # None
      PROVE  Resolve(name[r]) = name[r] /\ name[r] \in sessions
  <2>1. ~TakenFreely(r) /\ name[r] # None
    BY <1>b, TmuxAssumption
  <2>2. Resolve(name[r]) = name[r]
    BY <1>b, <2>1 DEF TakenFreely
  <2> QED
    BY <1>a, <1>b, <2>2
<1>c. /\ pc[r] # "idle" => Path(op[r], pc[r])
      /\ pc[r] # "idle" /\ op[r] \notin {"detach", "default"} => name[r] \in Names
  BY DEF TypeInv, RequestInv
<1>d. SwitchClient(r) =>
        \/ UNCHANGED client /\ Answer(r)
        \/ /\ undisturbed' => Resolve(name[r]) = name[r]
           /\ \E p \in alive : client[p] # None
           /\ client' = [p \in Ptys |-> IF client[p] # None THEN Resolve(name[r]) ELSE None]
           /\ Goto(r, "select") \/ Goto(r, "record")
  BY <1>b, <1>c DEF SwitchClient, Path
<1>e. KillSession(r) =>
        \/ UNCHANGED <<sessions, client>> /\ Answer(r)
        \/ /\ undisturbed' => Resolve(name[r]) = name[r]
           /\ Resolve(name[r]) \in sessions
           /\ sessions' = sessions \ {Resolve(name[r])}
           /\ client' = [p \in Ptys |-> IF client[p] = Resolve(name[r]) THEN None ELSE client[p]]
           /\ Goto(r, "readDefault")
  BY <1>a, <1>b, <1>c DEF KillSession, End, Path
<1>f. HasSession(r) /\ op[r] \in {"attach", "window"} =>
        Answer(r) \/ (Goto(r, "capture") /\ (undisturbed' => name[r] \in sessions))
  BY <1>b, <1>c DEF HasSession, Path
<1>g. undisturbed' /\ TypeAttach(r) => Resolve(name[r]) = name[r] /\ name[r] \in sessions
  BY <1>a, <1>c DEF TypeAttach, FoundInv
<1> USE TmuxAssumption DEF TypeInv, TypeOK, RequestInv, Path, SingleInv, FoundInv, ClientInv,
      MatchInv, Agrees, Remembers, Detaches, Renames, Goto, GotoKill, Answer, argVars, ptyVars
<1>1. CASE HasSession(r)
  <2>1. CASE op[r] \in {"attach", "window"}
    BY <1>1, <1>f, <2>1 DEF HasSession, Controls
  <2>2. CASE op[r] \notin {"attach", "window"}
    BY <1>1, <2>2 DEF HasSession, Controls
  <2> QED
    BY <2>1, <2>2
<1>2. CASE Capture(r)
  BY <1>2 DEF Capture, Controls
<1>3. CASE ReadTarget(r)
  BY <1>3 DEF ReadTarget, Controls
<1>4. CASE TypeAttach(r)
  <2>1. /\ pc[r] = "type" /\ op[r] \in {"attach", "window"} /\ at[r] \in Ptys
        /\ UNCHANGED <<sessions, ptyVars, target, defaultTmux, tmuxMu>>
    BY <1>4 DEF TypeAttach
  <2>2. CASE UNCHANGED client /\ Answer(r) /\ at[r] \notin alive
    BY <2>1, <2>2 DEF Controls
  <2>3. CASE /\ at[r] \in alive /\ Goto(r, "record")
             /\ client' = [client EXCEPT ![at[r]] = IF @ = None THEN Resolve(name[r]) ELSE @]
    <3>1. undisturbed' => Resolve(name[r]) = name[r]
      BY <1>4, <1>g
    <3>2. ClientInv'
      BY <2>1, <2>3
    <3>3. SingleInv' /\ FoundInv'
      BY <2>1, <2>3 DEF Controls
    <3>4. MatchInv'
      BY <2>1, <2>3, <3>1 DEF Controls
    <3> QED
      BY <3>2, <3>3, <3>4
  <2> QED
    BY <1>4, <2>2, <2>3 DEF TypeAttach
<1>5. CASE SwitchClient(r)
  <2>1. pc[r] = "switch" /\ name[r] \in Names
    BY <1>5 DEF SwitchClient
  <2>2. \/ UNCHANGED client /\ Answer(r)
        \/ /\ undisturbed' => Resolve(name[r]) = name[r]
           /\ \E p \in alive : client[p] # None
           /\ client' = [p \in Ptys |-> IF client[p] # None THEN Resolve(name[r]) ELSE None]
           /\ Goto(r, "select") \/ Goto(r, "record")
    BY <1>5, <1>d
  <2>3. UNCHANGED <<sessions, ptyVars, target, defaultTmux, tmuxMu>>
    BY <1>5 DEF SwitchClient
  <2>4. CASE UNCHANGED client /\ Answer(r)
    BY <2>1, <2>3, <2>4 DEF Controls
  <2>5. CASE /\ undisturbed' => Resolve(name[r]) = name[r]
             /\ \E p \in alive : client[p] # None
             /\ client' = [p \in Ptys |-> IF client[p] # None THEN Resolve(name[r]) ELSE None]
             /\ Goto(r, "select") \/ Goto(r, "record")
    BY <2>1, <2>3, <2>5 DEF Controls
  <2> QED
    BY <2>2, <2>4, <2>5
<1>6. CASE SelectWindow(r)
  BY <1>6 DEF SelectWindow, Controls
<1>7. CASE Record(r)
  BY <1>7 DEF Record, Controls
<1>8. CASE Recapture(r)
  <2>1. SingleInv' /\ FoundInv' /\ ClientInv'
    BY <1>8 DEF Recapture
  <2> HIDE DEF TypeInv, SingleInv, MatchInv
  <2> QED
    BY <1>8, <2>1, RecaptureMatchInv
<1>9. CASE TypeDetach(r)
  BY <1>9 DEF TypeDetach, Controls
<1>10. CASE ClearTarget(r)
  <2>1. SingleInv' /\ FoundInv' /\ ClientInv'
    BY <1>10 DEF ClearTarget
  <2> HIDE DEF TypeInv, SingleInv, MatchInv
  <2> QED
    BY <1>10, <2>1, ClearTargetMatchInv
<1>11. CASE KillSession(r)
  <2>1. pc[r] = "kill" /\ name[r] \in Names /\ op[r] = "kill"
        /\ UNCHANGED <<ptyVars, target, defaultTmux, tmuxMu>>
    BY <1>11 DEF KillSession
  <2>2. \/ UNCHANGED <<sessions, client>> /\ Answer(r)
        \/ /\ undisturbed' => Resolve(name[r]) = name[r]
           /\ Resolve(name[r]) \in sessions
           /\ sessions' = sessions \ {Resolve(name[r])}
           /\ client' = [p \in Ptys |-> IF client[p] = Resolve(name[r]) THEN None ELSE client[p]]
           /\ Goto(r, "readDefault")
    BY <1>11, <1>e
  <2>3. CASE UNCHANGED <<sessions, client>> /\ Answer(r)
    BY <2>1, <2>3 DEF Controls
  <2>4. CASE /\ undisturbed' => Resolve(name[r]) = name[r]
             /\ Resolve(name[r]) \in sessions
             /\ sessions' = sessions \ {Resolve(name[r])}
             /\ client' = [p \in Ptys |-> IF client[p] = Resolve(name[r]) THEN None ELSE client[p]]
             /\ Goto(r, "readDefault")
    BY <2>1, <2>4 DEF Controls
  <2> QED
    BY <2>2, <2>3, <2>4
<1>12. CASE NewSession(r)
  BY <1>12 DEF NewSession, Controls
<1>13. CASE ReadDefault(r)
  BY <1>13 DEF ReadDefault, Controls
<1>14. CASE SetDefault(r)
  BY <1>14 DEF SetDefault, Controls
<1>15. CASE RenameLocks(r)
  BY <1>15 DEF RenameLocks, Controls
<1>16. CASE NameFree(r)
  BY <1>16 DEF NameFree, Controls
<1>17. CASE RenameSession(r)
  <2>1. SingleInv' /\ FoundInv' /\ ClientInv'
    BY <1>17 DEF RenameSession
  <2> HIDE DEF TypeInv, SingleInv, MatchInv
  <2> QED
    BY <1>17, <2>1, RenameSessionMatchInv
<1>18. CASE MoveDefault(r)
  <2>1. SingleInv' /\ FoundInv' /\ ClientInv'
    BY <1>18 DEF MoveDefault
  <2> HIDE DEF TypeInv, SingleInv, MatchInv
  <2> QED
    BY <1>18, <2>1, MoveDefaultMatchInv
<1>19. CASE Retarget(r)
  BY <1>19 DEF Retarget, Controls
<1> QED
  BY <1>1, <1>2, <1>3, <1>4, <1>5, <1>6, <1>7, <1>8, <1>9, <1>10, <1>11, <1>12, <1>13, <1>14,
     <1>15, <1>16, <1>17, <1>18, <1>19 DEF Serve

-----------------------------------------------------------------------------
(* The other actions.                                                      *)

IInv ==
    /\ TypeInv
    /\ LockInv
    /\ OrderInv /\ SessionInv /\ DefaultInv
    /\ SingleInv /\ FoundInv /\ ClientInv /\ MatchInv

\* The invariant holds when the program starts.
LEMMA InitEstablishesInvariant == Init => IInv
<1> SUFFICES ASSUME Init PROVE IInv
  OBVIOUS
<1>1. TypeInv
  BY InitTypeInv
<1>2. LockInv
  BY TmuxAssumption DEF Init, LockInv, HoldsLock
<1>3. None \notin Changing
  BY TmuxAssumption DEF Changing, Ops
<1>4. OrderInv /\ SessionInv /\ DefaultInv
  BY <1>3 DEF Init, OrderInv, SessionInv, DefaultInv
<1>5. SingleInv /\ FoundInv /\ ClientInv /\ MatchInv
  BY DEF Init, SingleInv, FoundInv, ClientInv, MatchInv
<1> QED
  BY <1>1, <1>2, <1>4, <1>5 DEF IInv

\* A step of a request that succeeds keeps the invariant.
LEMMA ServeKeepsInvariant ==
    ASSUME IInv, NEW r \in Requests, Serve(r),
           undisturbed' = (undisturbed /\ ~TakenFreely(r)),
           orderly' = (orderly /\ ~TakenFreely(r))
    PROVE  IInv'
<1>1. undisturbed \in BOOLEAN /\ orderly \in BOOLEAN
  BY DEF IInv, TypeInv, TypeOK
<1>2. undisturbed' \in BOOLEAN /\ orderly' \in BOOLEAN
  BY <1>1
<1> QED
  BY <1>2, ServeTypeInv, ServeLockInv, ServeDefaultInv, ServeMatchInv DEF IInv

\* A request that fails half way keeps the types.
LEMMA FailTypeInv ==
    ASSUME TypeInv, undisturbed' \in BOOLEAN, UNCHANGED orderly,
           NEW r \in Requests, AttachFails(r) \/ SelectFails(r)
    PROVE  TypeInv'
<1> USE TmuxAssumption DEF TypeInv, TypeOK, RequestInv, Path, argVars, ptyVars, Controls
<1>1. CASE AttachFails(r)
  BY <1>1 DEF AttachFails, Goto
<1>2. CASE SelectFails(r)
  BY <1>2 DEF SelectFails, Answer
<1> QED
  BY <1>1, <1>2

\* A request that fails half way gives nothing back but its own place, and leaves the sessions
\* and the default alone.
LEMMA FailKeepsLock ==
    ASSUME TypeInv, LockInv, OrderInv, SessionInv, DefaultInv, UNCHANGED orderly,
           NEW r \in Requests, AttachFails(r) \/ SelectFails(r)
    PROVE  LockInv' /\ OrderInv' /\ SessionInv' /\ DefaultInv'
<1>1. op[r] = "window" /\ pc[r] \in {"type", "select"}
  BY DEF AttachFails, SelectFails, TypeInv, RequestInv, Path
<1>2. /\ UNCHANGED <<tmuxMu, defaultTmux, sessions>>
      /\ (pc'[r] = "idle" /\ op'[r] = None) \/ (pc'[r] = "record" /\ op'[r] = "window")
      /\ \A q \in Requests \ {r} :
           pc'[q] = pc[q] /\ op'[q] = op[q] /\ name'[q] = name[q] /\ to'[q] = to[q]
  BY DEF AttachFails, SelectFails, TypeInv, TypeOK, Goto, Answer, argVars
<1>3. LockInv'
  BY <1>1, <1>2 DEF LockInv, HoldsLock
<1>4. \A q \in Requests : RepairsDefault(q) => RepairsDefault(q)' /\ name'[q] = name[q]
  BY <1>1, <1>2 DEF RepairsDefault
<1>5. op'[r] \notin Changing
  BY <1>2, TmuxAssumption DEF Changing, Ops
<1>6. OrderInv'
  BY <1>2, <1>5 DEF OrderInv
<1>7. SessionInv'
  BY <1>2, <1>5 DEF SessionInv, Changing
<1>8. DefaultInv'
  BY <1>2, <1>4 DEF DefaultInv
<1> QED
  BY <1>3, <1>6, <1>7, <1>8

\* Once a request has failed half way, the target may be wrong.
LEMMA FailKeepsInvariant ==
    ASSUME IInv, undisturbed' = FALSE, UNCHANGED orderly,
           NEW r \in Requests, AttachFails(r) \/ SelectFails(r)
    PROVE  IInv'
<1>1. SingleInv' /\ FoundInv' /\ MatchInv'
  BY DEF SingleInv, FoundInv, MatchInv
<1>2. TypeInv'
  BY FailTypeInv DEF IInv
<1>3. LockInv' /\ OrderInv' /\ SessionInv' /\ DefaultInv'
  BY FailKeepsLock DEF IInv
<1>4. ClientInv'
  BY DEF IInv, ClientInv, AttachFails, SelectFails, ptyVars
<1> QED
  BY <1>1, <1>2, <1>3, <1>4 DEF IInv

\* Once tmux was used from the keyboard, little is promised.
LEMMA KeyboardKeepsInvariant ==
    ASSUME IInv, undisturbed' = FALSE, orderly' = FALSE,
           \/ \E p \in Ptys : UserDetaches(p)
           \/ \E n \in Names : SessionEnds(n)
    PROVE  IInv'
<1>1. SingleInv' /\ FoundInv' /\ MatchInv' /\ OrderInv' /\ SessionInv' /\ DefaultInv'
  BY DEF SingleInv, FoundInv, MatchInv, OrderInv, SessionInv, DefaultInv
<1>2. ASSUME NEW p \in Ptys, UserDetaches(p) PROVE TypeInv' /\ LockInv' /\ ClientInv'
  BY <1>2, TmuxAssumption DEF UserDetaches, IInv, TypeInv, TypeOK, RequestInv, LockInv, HoldsLock,
     ClientInv, argVars, ptyVars, reqVars
<1>3. ASSUME NEW n \in Names, SessionEnds(n) PROVE TypeInv' /\ LockInv' /\ ClientInv'
  BY <1>3, TmuxAssumption DEF SessionEnds, End, IInv, TypeInv, TypeOK, RequestInv, LockInv,
     HoldsLock, ClientInv, argVars, ptyVars, reqVars
<1> QED
  BY <1>1, <1>2, <1>3 DEF IInv

\* A request that is accepted keeps the invariant: it is alone, or disturbs another one.
LEMMA AcceptKeepsInvariant ==
    ASSUME IInv, NEW r \in Requests, NEW o \in Ops,
           NEW n \in Names \cup {None}, NEW m \in Names \cup {None}, Accept(r, o, n, m)
    PROVE  IInv'
<1>1. PICK where \in {"has", "capture", "new", "setDefault", "lock"} :
        /\ pc' = [pc EXCEPT ![r] = where]
        /\ \/ o \in {"attach", "window", "default"} /\ where = "has"
           \/ o \in {"detach", "kill"} /\ where = "capture"
           \/ o = "create" /\ where = "new"
           \/ o = "default" /\ n = None /\ where = "setDefault"
           \/ o = "rename" /\ where = "lock"
  BY DEF Accept, Ops
<1>2. /\ op' = [op EXCEPT ![r] = o]
      /\ name' = [name EXCEPT ![r] = n]
      /\ to' = [to EXCEPT ![r] = m]
      /\ undisturbed' = (undisturbed /\ \A q \in Requests : pc[q] = "idle")
      /\ orderly' = (orderly /\ (o \in Changing => \A q \in Requests :
                                   op[q] \in Changing => o = "rename" /\ op[q] = "rename"))
      /\ UNCHANGED <<sessions, client, pty, alive, target, defaultTmux, tmuxMu, at, cur>>
      /\ pc[r] = "idle" /\ op[r] = None
      /\ o \notin {"detach", "default"} => n # None
      /\ o = "rename" => m # None /\ m # n
  BY DEF Accept, ptyVars, IInv, TypeInv, RequestInv
<1>3. TypeOK'
  BY <1>1, <1>2, TmuxAssumption DEF IInv, TypeInv, TypeOK, Controls, Plain
<1>4. \A q \in Requests : RequestInv(q)'
  <2>1. at[r] = None
    BY <1>2 DEF IInv, TypeInv, RequestInv
  <2> QED
    BY <1>1, <1>2, <2>1 DEF IInv, TypeInv, TypeOK, RequestInv, Path
<1>5. LockInv'
  BY <1>1, <1>2 DEF IInv, TypeInv, TypeOK, LockInv, HoldsLock
<1>6. SingleInv' /\ FoundInv'
  BY <1>1, <1>2 DEF IInv, TypeInv, TypeOK, SingleInv, FoundInv
<1>7. OrderInv'
  BY <1>2 DEF IInv, TypeInv, TypeOK, OrderInv
<1>8. SessionInv'
  BY <1>1, <1>2 DEF IInv, TypeInv, TypeOK, SessionInv
<1>9. DefaultInv'
  BY <1>1, <1>2 DEF IInv, TypeInv, TypeOK, DefaultInv, RepairsDefault
<1>10. ClientInv'
  BY <1>2 DEF IInv, ClientInv
<1>11. MatchInv'
  <2>1. ASSUME undisturbed', pty \in alive PROVE client[pty] = target[pty]
    BY <1>2, <2>1 DEF IInv, MatchInv
  <2>2. at[r] = None /\ (pty \in alive => pty # None)
    BY <1>2, TmuxAssumption DEF IInv, TypeInv, TypeOK, RequestInv
  <2>3. ASSUME undisturbed', pty \in alive PROVE Agrees(r)' /\ Remembers(r)'
    BY <1>1, <1>2, <2>1, <2>2, <2>3 DEF IInv, TypeInv, TypeOK, Agrees, Remembers, Detaches,
       Renames
  <2> QED
    BY <1>1, <1>2, <2>1, <2>3 DEF MatchInv, IInv, TypeInv, TypeOK
<1> QED
  BY <1>3, <1>4, <1>5, <1>6, <1>7, <1>8, <1>9, <1>10, <1>11 DEF IInv, TypeInv

\* The start and the end of a PTY keep the invariant.
LEMMA PtyKeepsInvariant ==
    ASSUME IInv, (\E p \in Ptys : PtyStarts(p)) \/ PtyEnds
    PROVE  IInv'
<1>1. TypeInv'
  BY TmuxAssumption DEF IInv, TypeInv, TypeOK, RequestInv, PtyStarts, PtyEnds, reqVars, argVars,
     history
<1>2. LockInv' /\ SingleInv' /\ FoundInv' /\ OrderInv' /\ SessionInv' /\ DefaultInv'
  BY DEF IInv, LockInv, HoldsLock, SingleInv, FoundInv, OrderInv, SessionInv, DefaultInv,
     RepairsDefault, PtyStarts, PtyEnds, reqVars, argVars, history
<1>3. ASSUME NEW p \in Ptys, PtyStarts(p) PROVE ClientInv' /\ MatchInv'
  <2>1. /\ pty' = p /\ target'[p] = None
        /\ \A r \in Requests : at[r] # p
        /\ UNCHANGED <<client, pc, op, name, to, at, cur, undisturbed>>
    BY <1>3 DEF PtyStarts, IInv, TypeInv, TypeOK, reqVars, argVars, history
  <2>2. \A q \in Ptys : client[q] = None
    BY <1>3 DEF PtyStarts, IInv, TypeInv, TypeOK, ClientInv
  <2>3. ClientInv'
    BY <2>1, <2>2 DEF ClientInv
  <2>4. ASSUME NEW r \in Requests, pc[r] # "idle" PROVE Agrees(r)' /\ Remembers(r)'
    <3>1. Renames(r) => name[r] # None
      BY <2>4, TmuxAssumption DEF IInv, TypeInv, RequestInv, Path, Renames
    <3>2. pc[r] = "kill" => name[r] # None
      BY TmuxAssumption DEF IInv, TypeInv, RequestInv, Path
    <3> QED
      BY <2>1, <2>2, <3>1, <3>2 DEF Agrees, Remembers, Renames
  <2>5. MatchInv'
    BY <2>1, <2>2, <2>4 DEF MatchInv
  <2> QED
    BY <2>3, <2>5
<1>4. ASSUME PtyEnds PROVE ClientInv' /\ MatchInv'
  <2>1. alive' = {} /\ pty \in Ptys /\ client' = [client EXCEPT ![pty] = None] /\ alive = {pty}
    BY <1>4 DEF PtyEnds, IInv, TypeInv, TypeOK
  <2>2. ClientInv' /\ MatchInv'
    BY <1>4, <2>1 DEF PtyEnds, IInv, TypeInv, TypeOK, ClientInv, MatchInv, history
  <2> QED
    BY <2>2
<1>5. ClientInv' /\ MatchInv'
  BY <1>3, <1>4
<1> QED
  BY <1>1, <1>2, <1>5 DEF IInv

-----------------------------------------------------------------------------
(* The results.                                                            *)

\* The invariant holds in every reachable state.
THEOREM InvariantHolds == Spec => []IInv
<1>1. IInv /\ UNCHANGED vars => IInv'
  BY DEF IInv, TypeInv, TypeOK, RequestInv, LockInv, HoldsLock, SingleInv, FoundInv, OrderInv,
     SessionInv, DefaultInv, RepairsDefault, ClientInv, MatchInv, Agrees, Remembers, Detaches,
     Renames, vars, ptyVars, reqVars, argVars, history
<1>2. IInv /\ [Next]_vars => IInv'
  <2> SUFFICES ASSUME IInv, Next PROVE IInv'
    BY <1>1
  <2>1. ASSUME NEW r \in Requests, Handle(r) PROVE IInv'
    BY <2>1, ServeKeepsInvariant, FailKeepsInvariant DEF Handle
  <2>2. ASSUME NEW p \in Ptys, UserDetaches(p) PROVE IInv'
    BY <2>2, KeyboardKeepsInvariant DEF UserDetaches
  <2>3. ASSUME NEW n \in Names, SessionEnds(n) PROVE IInv'
    BY <2>3, KeyboardKeepsInvariant DEF SessionEnds
  <2> QED
    BY <2>1, <2>2, <2>3, AcceptKeepsInvariant, PtyKeepsInvariant DEF Next
<1> QED
  BY <1>2, InitEstablishesInvariant, PTL DEF Spec

\* Every reachable state is well typed.
THEOREM TypeCorrect == Spec => []TypeOK
<1>1. IInv => TypeOK
  BY DEF IInv, TypeInv
<1> QED
  BY <1>1, InvariantHolds, PTL

\* Whenever requests come one at a time, none fails half way, nobody uses tmux from the keyboard,
\* and tmux takes every name literally, the target that is recorded is the one the client shows.
THEOREM TargetCorrect == Spec => []TargetMatchesClient
<1>1. IInv => TargetMatchesClient
  BY DEF IInv, MatchInv, TargetMatchesClient
<1> QED
  BY <1>1, InvariantHolds, PTL

\* However many requests attach, detach and rename at the same time, the default exists whenever
\* none that changes sessions is in progress, if creating, killing and choosing came one at a time,
\* nobody used tmux from the keyboard, and tmux took every name literally.
THEOREM DefaultCorrect == Spec => []DefaultExists
<1>1. ASSUME IInv, orderly, \A r \in Requests : op[r] \notin Changing
      PROVE  defaultTmux \in sessions \cup {None}
  <2>1. \A r \in Requests : ~RepairsDefault(r)
    BY <1>1 DEF IInv, TypeInv, RequestInv, Path, RepairsDefault, Changing
  <2> QED
    BY <1>1, <2>1 DEF IInv, DefaultInv
<1>2. IInv => DefaultExists
  BY <1>1 DEF DefaultExists
<1> QED
  BY <1>2, InvariantHolds, PTL

\* tmuxMu is not reentrant, and the endpoints read and write the default through functions that
\* lock it: whoever holds it is a rename on its way to its answer, and never about to lock it again.
NoSelfWait ==
    \A r \in Requests :
      tmuxMu = r => op[r] = "rename" /\ pc[r] \in {"has", "free", "rename", "moveDefault",
                                                  "capture", "retarget"}

\* The mutex of the endpoints is free, or with a rename that waits for nobody else's release.
THEOREM LockCorrect == Spec => []NoSelfWait
<1>1. IInv => NoSelfWait
  BY DEF IInv, LockInv, HoldsLock, TypeInv, RequestInv, Path, NoSelfWait
<1> QED
  BY <1>1, InvariantHolds, PTL

=============================================================================
