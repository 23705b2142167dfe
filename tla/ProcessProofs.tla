----------------------------- MODULE ProcessProofs -----------------------------
(***************************************************************************)
(* Proofs about the two kinds of processes that the program starts and has *)
(* to get rid of: the shell (TerminalClose), for any number of callers,    *)
(* and cloudflared (TunnelManager), for both modes and any process ids.    *)
(*                                                                         *)
(* The invariant of TerminalClose says where the one outcome of            *)
(* process.Wait() is: nowhere yet, with the goroutine that waits, in the   *)
(* channel, or consumed.  That of TunnelManager says that the only process *)
(* that can be alive is the child of the goroutine that waits for it,      *)
(* which lets go of its child when it is dead.                             *)
(***************************************************************************)
EXTENDS TerminalClose, TunnelManager, FiniteSetTheorems, WellFoundedInduction, TLAPS

-----------------------------------------------------------------------------
(* Terminal.Close.                                                         *)

Inside == {"file", "term", "select", "kill", "receive"}

\* closeOnce admits one caller at a time, and none after the first is through
OnceInv ==
    \A c \in Callers :
      /\ pc[c] \in Inside <=> once = c
      /\ pc[c] = "returned" => onceDone
      /\ pc[c] \in Inside => ~onceDone

\* the outcome of process.Wait()
OutcomeInv ==
    /\ onceDone => waiting = 0 /\ ~exited /\ shell = "reaped"
    /\ once = NoCaller /\ ~onceDone => waiting = 0 /\ ~exited
    /\ \A c \in Callers :
         /\ pc[c] \in {"file", "term"} => waiting = 0 /\ ~exited
         /\ pc[c] \in {"select", "kill", "receive"}
              => \/ waiting = 1 /\ ~exited
                 \/ waiting = 0 /\ exited /\ shell = "reaped"

TerminalInv == TerminalTypeOK /\ OnceInv /\ OutcomeInv

\* The invariant holds when the PTY has been started.
LEMMA TerminalInitEstablishesInvariant == TerminalInit => TerminalInv
<1> SUFFICES ASSUME TerminalInit PROVE TerminalInv
  OBVIOUS
<1>1. TerminalTypeOK
  BY DEF TerminalInit, TerminalTypeOK, Signals
<1>2. OnceInv /\ OutcomeInv
  BY TerminalAssumption DEF TerminalInit, OnceInv, OutcomeInv, Inside
<1> QED
  BY <1>1, <1>2 DEF TerminalInv

\* A step of a caller keeps the invariant.
LEMMA CallerKeepsInvariant ==
    ASSUME TerminalInv, NEW c \in Callers, Calls(c) \/ CloseStep(c)
    PROVE  TerminalInv'
<1> USE TerminalAssumption DEF TerminalInv, TerminalTypeOK, OnceInv, OutcomeInv, Inside, Goto
<1>1. CASE Calls(c)
  BY <1>1 DEF Calls
<1>2. CASE Enters(c)
  BY <1>2 DEF Enters
<1>3. CASE ClosesFile(c)
  BY <1>3 DEF ClosesFile
<1>4. CASE Terminates(c)
  BY <1>4 DEF Terminates, Signals
<1>5. CASE ExitedInTime(c)
  BY <1>5 DEF ExitedInTime, Returned
<1>6. CASE GraceEnds(c)
  BY <1>6 DEF GraceEnds
<1>7. CASE Kills(c)
  BY <1>7 DEF Kills, Signals
<1>8. CASE Receives(c)
  BY <1>8 DEF Receives, Returned
<1> QED
  BY <1>1, <1>2, <1>3, <1>4, <1>5, <1>6, <1>7, <1>8 DEF CloseStep

\* A step of the waiting goroutine, the reader, the shell or the clock keeps the invariant.
LEMMA TerminalSurroundingsKeepInvariant ==
    ASSUME TerminalInv, Reaps \/ Reads \/ Exits \/ TimePasses \/ AllReturned
    PROVE  TerminalInv'
<1> USE TerminalAssumption DEF TerminalInv, TerminalTypeOK, OnceInv, OutcomeInv, Inside
<1>1. CASE Reaps
  <2>1. PICK c \in Callers : once = c
    BY <1>1 DEF Reaps
  <2>2. /\ pc[c] \in {"select", "kill", "receive"}
        /\ waiting = 1 /\ ~exited /\ ~onceDone
    BY <1>1, <2>1 DEF Reaps
  <2> QED
    BY <1>1, <2>1, <2>2 DEF Reaps
<1>2. CASE Reads
  BY <1>2 DEF Reads
<1>3. CASE Exits
  BY <1>3 DEF Exits
<1>4. CASE TimePasses
  BY <1>4 DEF TimePasses
<1>5. CASE AllReturned
  BY <1>5 DEF AllReturned, terminalVars
<1> QED
  BY <1>1, <1>2, <1>3, <1>4, <1>5

\* The invariant holds in every reachable state.
THEOREM TerminalInvariantHolds == TerminalSpec => []TerminalInv
<1>1. TerminalInv /\ UNCHANGED terminalVars => TerminalInv'
  BY DEF TerminalInv, TerminalTypeOK, OnceInv, OutcomeInv, terminalVars
<1>2. TerminalInv /\ [TerminalNext]_terminalVars => TerminalInv'
  BY <1>1, CallerKeepsInvariant, TerminalSurroundingsKeepInvariant DEF TerminalNext
<1> QED
  BY <1>2, TerminalInitEstablishesInvariant, PTL DEF TerminalSpec

\* Every reachable state is well typed.
THEOREM TerminalTypeCorrect == TerminalSpec => []TerminalTypeOK
<1>1. TerminalInv => TerminalTypeOK
  BY DEF TerminalInv
<1> QED
  BY <1>1, TerminalInvariantHolds, PTL

\* Whoever called Close finds the shell dead and waited for when the call returns.
THEOREM ReturnCorrect == TerminalSpec => []ShellGoneOnReturn
<1>1. TerminalInv => ShellGoneOnReturn
  BY DEF TerminalInv, OnceInv, OutcomeInv, ShellGoneOnReturn
<1> QED
  BY <1>1, TerminalInvariantHolds, PTL

\* The shell is waited for once, and the outcome goes to the caller inside closeOnce.
THEOREM WaitCorrect == TerminalSpec => []WaitedForOnce
<1>1. TerminalInv => WaitedForOnce
  <2> SUFFICES ASSUME TerminalInv PROVE WaitedForOnce
    OBVIOUS
  <2>1. CASE once = NoCaller
    BY <2>1 DEF TerminalInv, TerminalTypeOK, OnceInv, OutcomeInv, WaitedForOnce
  <2>2. CASE once # NoCaller
    <3>1. PICK c \in Callers : once = c
      BY <2>2 DEF TerminalInv, TerminalTypeOK
    <3>2. pc[c] \in Inside /\ ~onceDone
      BY <3>1 DEF TerminalInv, OnceInv
    <3> QED
      BY <3>1, <3>2 DEF TerminalInv, TerminalTypeOK, OutcomeInv, WaitedForOnce, Inside
  <2> QED
    BY <2>1, <2>2
<1> QED
  BY <1>1, TerminalInvariantHolds, PTL

-----------------------------------------------------------------------------
(* The tunnel.                                                             *)

\* whom the waiting goroutine holds, by its control
ChildInv ==
    /\ sup \in {"wait", "record"} => alive \subseteq {child}
    /\ sup \notin {"wait", "record"} => alive = {}
    /\ app = "new" => sup = "off"
    /\ sup = "record" => child \in Procs

TunnelInv == TypeOK /\ ChildInv

\* The invariant holds before the tunnel is started.
LEMMA TunnelInitEstablishesInvariant == Init => TunnelInv
<1> SUFFICES ASSUME Init PROVE TunnelInv
  OBVIOUS
<1>1. InitialDelay \in InitialDelay..MaxDelay
  BY TunnelAssumption
<1>2. TypeOK
  BY <1>1 DEF Init, TypeOK
<1>3. ChildInv
  BY DEF Init, ChildInv
<1> QED
  BY <1>2, <1>3 DEF TunnelInv

\* A step of the application keeps the invariant.
LEMMA ApplicationKeepsInvariant ==
    ASSUME TunnelInv, Application PROVE TunnelInv'
<1> USE TunnelAssumption DEF TunnelInv, TypeOK, ChildInv
<1>1. ASSUME NEW p \in Procs, Start(p) PROVE TunnelInv'
  <2>1. /\ sup' = "wait" /\ child' = p /\ cmd' = p
        /\ app' \in {"serve", "select"} /\ healthy' = FALSE /\ running' = TRUE
    BY <1>1 DEF Start, Launch
  <2>2. UNCHANGED <<mode, interrupted, cancelled, termed, printed, failed, stopping, delay,
                    failures>>
    BY <1>1 DEF Start
  <2>3. alive = {} /\ alive' = {p} /\ watched' \in SUBSET Procs
    BY <1>1 DEF Start, Launch
  <2>4. termed' = {}
    BY <2>2, <2>3
  <2>5. child' \in Procs \cup {None} /\ cmd' \in Procs \cup {None}
    BY <2>1
  <2>6. TypeOK'
    BY <2>1, <2>2, <2>3, <2>4, <2>5
  <2>7. ChildInv'
    BY <2>1, <2>3
  <2> QED
    BY <2>6, <2>7
<1>2. CASE StartError
  BY <1>2 DEF StartError, statusVars, supVars
<1>3. CASE StartPublishes
  <2>1. app' = "serve" /\ printed' = FALSE
    BY <1>3 DEF StartPublishes
  <2>2. UNCHANGED <<mode, interrupted, cancelled, alive, watched, termed, healthy, cmd, running,
                    failed, stopping, sup, child, delay, failures>>
    BY <1>3 DEF StartPublishes, statusVars, supVars
  <2>3. /\ mode' \in Modes /\ cmd' \in Procs \cup {None} /\ child' \in Procs \cup {None}
        /\ sup' \in {"off", "wait", "report", "pause", "launch", "fork", "record", "done"}
        /\ delay' \in InitialDelay..MaxDelay /\ failures' \in Nat
        /\ stopping' \in Procs \cup {None}
    BY <2>2
  <2>4. alive' \in SUBSET Procs /\ watched' \in SUBSET Procs /\ termed' \in SUBSET alive'
    BY <2>2
  <2>5. /\ interrupted' \in BOOLEAN /\ cancelled' \in BOOLEAN /\ healthy' \in BOOLEAN
        /\ running' \in BOOLEAN /\ failed' \in BOOLEAN
    BY <2>2
  <2>6. TypeOK'
    BY <2>1, <2>3, <2>4, <2>5
  <2>7. ChildInv'
    BY <2>1, <2>2
  <2> QED
    BY <2>6, <2>7
<1>4. CASE StartGivesUp
  BY <1>4 DEF StartGivesUp, statusVars, supVars
<1>5. CASE StartTimesOut
  BY <1>5 DEF StartTimesOut, statusVars, supVars
<1>6. CASE ServeEnds
  BY <1>6 DEF ServeEnds, statusVars, supVars
<1>7. CASE StopReads
  BY <1>7 DEF StopReads, statusVars, supVars
<1>8. CASE StopCancels
  BY <1>8 DEF StopCancels, statusVars, supVars
<1>9. CASE StopSignals
  BY <1>9 DEF StopSignals, statusVars, supVars
<1>10. CASE Exit
  BY <1>10 DEF Exit, statusVars, supVars
<1> QED
  BY <1>1, <1>2, <1>3, <1>4, <1>5, <1>6, <1>7, <1>8, <1>9, <1>10 DEF Application

\* A step of the goroutine that waits for the process keeps the invariant.
LEMMA SupervisorKeepsInvariant ==
    ASSUME TunnelInv, Supervisor PROVE TunnelInv'
<1> USE TunnelAssumption DEF TunnelInv, TypeOK, ChildInv
<1>1. CASE Waits
  <2>1. alive = {} /\ sup' \in {"pause", "report"} /\ child' = None
    BY <1>1 DEF Waits
  <2>2. InitialDelay \in InitialDelay..MaxDelay
    OBVIOUS
  <2>3. delay' \in InitialDelay..MaxDelay
    BY <1>1, <2>2 DEF Waits
  <2>4. failures' \in Nat
    BY <1>1 DEF Waits
  <2>5. UNCHANGED <<mode, app, interrupted, cancelled, alive, watched, termed, healthy, cmd,
                    printed, failed, stopping>>
    BY <1>1 DEF Waits
  <2>6. running' \in BOOLEAN
    BY <1>1 DEF Waits
  <2>7. sup \in {"wait", "record"} /\ app # "new"
    BY <1>1 DEF Waits
  <2>8. TypeOK'
    BY <2>1, <2>3, <2>4, <2>5, <2>6
  <2>9. ChildInv'
    BY <2>1, <2>5, <2>7
  <2> QED
    BY <2>8, <2>9
<1>2. CASE Reports
  BY <1>2 DEF Reports, statusVars
<1>3. CASE PauseElapses
  <2>1. NextRestartDelay(delay) \in InitialDelay..MaxDelay
    BY DEF NextRestartDelay
  <2> QED
    BY <1>3, <2>1 DEF PauseElapses, statusVars
<1>4. CASE PauseCancelled
  BY <1>4 DEF PauseCancelled, statusVars
<1>5. CASE LaunchChecks
  <2>1. sup = "launch" /\ sup' \in {"fork", "wait"}
    BY <1>5 DEF LaunchChecks
  <2>2. UNCHANGED <<mode, app, interrupted, cancelled, alive, watched, termed, healthy, cmd,
                    printed, failed, stopping, child, delay, failures>>
    BY <1>5 DEF LaunchChecks
  <2>3. running' \in BOOLEAN
    BY <1>5 DEF LaunchChecks
  <2>4. alive = {} /\ app # "new"
    BY <2>1
  <2>5. TypeOK'
    BY <2>1, <2>2, <2>3
  <2>6. ChildInv'
    BY <2>1, <2>2, <2>4
  <2> QED
    BY <2>5, <2>6
<1>6. ASSUME NEW p \in Procs, LaunchForks(p) PROVE TunnelInv'
  BY <1>6 DEF LaunchForks, Launch, statusVars
<1>7. CASE Records
  BY <1>7 DEF Records
<1> QED
  BY <1>1, <1>2, <1>3, <1>4, <1>5, <1>6, <1>7 DEF Supervisor

\* Every other step keeps the invariant.
LEMMA TunnelSurroundingsKeepInvariant ==
    ASSUME TunnelInv,
           \/ PrintsURL \/ BecomesHealthy \/ Interrupt \/ Finished
           \/ \E p \in Procs : ProcessEnds(p) \/ WatcherKills(p)
    PROVE  TunnelInv'
<1> USE DEF TunnelInv, TypeOK, ChildInv
<1>1. CASE PrintsURL
  BY <1>1 DEF PrintsURL, statusVars, supVars
<1>2. CASE BecomesHealthy
  BY <1>2 DEF BecomesHealthy, statusVars, supVars
<1>3. CASE Interrupt
  BY <1>3 DEF Interrupt, statusVars, supVars
<1>4. CASE Finished
  BY <1>4 DEF Finished, vars, statusVars, supVars
<1>5. ASSUME NEW p \in Procs, ProcessEnds(p) \/ WatcherKills(p) PROVE TunnelInv'
  BY <1>5 DEF ProcessEnds, WatcherKills, Ends, statusVars, supVars
<1> QED
  BY <1>1, <1>2, <1>3, <1>4, <1>5

\* The invariant holds in every reachable state.
THEOREM TunnelInvariantHolds == Spec => []TunnelInv
<1>1. TunnelInv /\ UNCHANGED vars => TunnelInv'
  BY DEF TunnelInv, TypeOK, ChildInv, vars, statusVars, supVars
<1>2. TunnelInv /\ [Next]_vars => TunnelInv'
  BY <1>1, ApplicationKeepsInvariant, SupervisorKeepsInvariant, TunnelSurroundingsKeepInvariant
     DEF Next
<1> QED
  BY <1>2, TunnelInitEstablishesInvariant, PTL DEF Spec

\* Every reachable state is well typed; in particular the delay stays within its bounds.
THEOREM TunnelTypeCorrect == Spec => []TypeOK
<1>1. TunnelInv => TypeOK
  BY DEF TunnelInv
<1> QED
  BY <1>1, TunnelInvariantHolds, PTL

\* At most one cloudflared process runs at any time.
THEOREM OneTunnelCorrect == Spec => []OneTunnel
<1>1. TunnelInv => OneTunnel
  <2> SUFFICES ASSUME TunnelInv PROVE Cardinality(alive) <= 1
    BY DEF OneTunnel
  <2>1. CASE alive = {}
    BY <2>1, FS_EmptySet
  <2>2. CASE alive # {}
    <3>1. alive = {child}
      BY <2>2 DEF TunnelInv, ChildInv
    <3> QED
      BY <3>1, FS_Singleton
  <2> QED
    BY <2>1, <2>2
<1> QED
  BY <1>1, TunnelInvariantHolds, PTL

-----------------------------------------------------------------------------
(* Stop: the part of StopIsFinal that is not about what happens eventually. *)

\* who has cancelled the context, and how Start and Stop hand over to the goroutine that waits
ContextInv ==
    /\ interrupted => cancelled
    /\ app = "signal" => cancelled
    /\ cancelled => interrupted \/ app \in {"signal", "stopped", "exited"}
    /\ failed => sup = "done"
    /\ app \in {"select", "serve", "stop", "cancel"} => sup # "off"
    /\ app \in {"stopped", "exited"} => cancelled \/ sup \in {"off", "done"}
    /\ alive \subseteq watched

\* When Run has returned, whichever way, either the tunnel is over, or the context is cancelled
\* and os/exec watches every process that is left.
NothingLeftAlone ==
    app = "stopped" => \/ sup \in {"off", "done"} /\ alive = {}
                       \/ cancelled /\ alive \subseteq watched

\* Once the context is cancelled no process is started, but for the one that the supervisor was
\* about to start already.
NothingStarts == [][cancelled /\ sup # "fork" => sup' # "fork" /\ alive' \subseteq alive]_vars

\* A step keeps the relation between the application, the context and the goroutine that waits.
LEMMA ContextKept == TunnelInv /\ ContextInv /\ [Next]_vars => ContextInv'
<1> SUFFICES ASSUME TunnelInv, ContextInv, [Next]_vars PROVE ContextInv'
  OBVIOUS
<1> USE DEF ContextInv, statusVars, supVars
<1>1. CASE Application
  <2>1. ASSUME NEW p \in Procs, Start(p) PROVE ContextInv'
    BY <2>1 DEF Start, Launch, TunnelInv, ChildInv
  <2>2. CASE StartError
    BY <2>2 DEF StartError, TunnelInv, ChildInv
  <2>3. CASE StartPublishes
    BY <2>3 DEF StartPublishes
  <2>4. CASE StartGivesUp
    BY <2>4 DEF StartGivesUp
  <2>5. CASE StartTimesOut \/ ServeEnds
    BY <2>5 DEF StartTimesOut, ServeEnds
  <2>6. CASE StopReads \/ StopCancels
    BY <2>6 DEF StopReads, StopCancels
  <2>7. CASE StopSignals \/ Exit
    BY <2>7 DEF StopSignals, Exit
  <2> QED
    BY <1>1, <2>1, <2>2, <2>3, <2>4, <2>5, <2>6, <2>7 DEF Application
<1>2. CASE Supervisor
  <2>1. CASE Waits
    BY <2>1 DEF Waits
  <2>2. CASE Reports
    BY <2>2 DEF Reports
  <2>3. CASE PauseElapses \/ PauseCancelled
    BY <2>3 DEF PauseElapses, PauseCancelled
  <2>4. CASE LaunchChecks
    BY <2>4 DEF LaunchChecks
  <2>5. ASSUME NEW p \in Procs, LaunchForks(p) PROVE ContextInv'
    BY <2>5 DEF LaunchForks, Launch
  <2>6. CASE Records
    BY <2>6 DEF Records
  <2> QED
    BY <1>2, <2>1, <2>2, <2>3, <2>4, <2>5, <2>6 DEF Supervisor
<1>3. CASE PrintsURL \/ BecomesHealthy
  BY <1>3 DEF PrintsURL, BecomesHealthy
<1>4. CASE Interrupt
  BY <1>4 DEF Interrupt
<1>5. CASE Finished \/ UNCHANGED vars
  BY <1>5 DEF Finished, vars
<1>6. ASSUME NEW p \in Procs, ProcessEnds(p) \/ WatcherKills(p) PROVE ContextInv'
  BY <1>6 DEF ProcessEnds, WatcherKills, Ends
<1> QED
  BY <1>1, <1>2, <1>3, <1>4, <1>5, <1>6 DEF Next

\* ContextInv holds in every reachable state.
THEOREM ContextInvHolds == Spec => []ContextInv
<1>1. Init => ContextInv
  BY DEF Init, ContextInv
<1> QED
  BY <1>1, ContextKept, TunnelInvariantHolds, PTL DEF Spec

\* Run never returns with a process that nobody will end.
THEOREM StopCorrect == Spec => []NothingLeftAlone
<1>1. TunnelInv /\ ContextInv => NothingLeftAlone
  BY DEF TunnelInv, ChildInv, ContextInv, NothingLeftAlone
<1> QED
  BY <1>1, ContextInvHolds, TunnelInvariantHolds, PTL

\* A cancelled context stops the restarts.
THEOREM NoRestartCorrect == Spec => NothingStarts
<1>1. TunnelInv /\ ContextInv /\ [Next]_vars
        => [cancelled /\ sup # "fork" => sup' # "fork" /\ alive' \subseteq alive]_vars
  <2> SUFFICES ASSUME TunnelInv, ContextInv, Next, cancelled, sup # "fork"
               PROVE  sup' # "fork" /\ alive' \subseteq alive
    OBVIOUS
  <2> USE DEF statusVars, supVars
  <2>1. ASSUME NEW p \in Procs, Start(p) PROVE FALSE
    BY <2>1 DEF Start, ContextInv
  <2>2. CASE Application
    BY <2>1, <2>2 DEF Application, StartError, StartPublishes, StartGivesUp, StartTimesOut,
       ServeEnds, StopReads, StopCancels, StopSignals, Exit
  <2>3. CASE Supervisor
    BY <2>3 DEF Supervisor, Waits, Reports, PauseElapses, PauseCancelled, LaunchChecks,
       LaunchForks, Records
  <2>4. CASE \/ PrintsURL \/ BecomesHealthy \/ Interrupt \/ Finished
             \/ \E p \in Procs : ProcessEnds(p) \/ WatcherKills(p)
    BY <2>4 DEF PrintsURL, BecomesHealthy, Interrupt, Finished, vars, ProcessEnds, WatcherKills,
       Ends
  <2> QED
    BY <2>2, <2>3, <2>4 DEF Next
<1> QED
  BY <1>1, ContextInvHolds, TunnelInvariantHolds, PTL DEF Spec, NothingStarts

-----------------------------------------------------------------------------
(* The delays: Doubled is what its definition says.  Induction over the    *)
(* natural numbers is stated for sets, because no prover here instantiates *)
(* a theorem about a predicate.                                            *)

Less == {p \in Nat \X Nat : p[1] < p[2]}

\* A set that holds zero and the successors of its members holds every natural number.
LEMMA SetInduction ==
    ASSUME NEW T, 0 \in T, \A n \in T \cap Nat : n + 1 \in T
    PROVE  Nat \subseteq T
<1> DEFINE U == Nat \ T
<1> SUFFICES ASSUME U # {} PROVE FALSE
  OBVIOUS
<1>1. IsWellFoundedOn(Less, Nat)
  BY NatLessThanWellFounded DEF OpToRel, Less
<1>2. U \subseteq Nat
  OBVIOUS
<1>3. PICK x \in U : \A y \in U : ~(<<y, x>> \in Less)
  <2> HIDE DEF U
  <2> QED
    BY <1>1, <1>2, WFMin
<1>4. x # 0 /\ x - 1 \in Nat
  BY <1>3
<1>5. <<x - 1, x>> \in Less
  BY <1>4 DEF Less
<1>6. x - 1 \in T
  BY <1>3, <1>4, <1>5
<1> QED
  BY <1>3, <1>4, <1>6

\* g doubles the initial delay up to n
Doubles(g, n) == g[0] = InitialDelay /\ \A k \in 1..n : g[k] = 2 * g[k - 1]

\* For every n there is a function that does.
LEMMA DoublesExists == \A n \in Nat : \E g \in [Nat -> Nat] : Doubles(g, n)
<1> DEFINE T == {n \in Nat : \E g \in [Nat -> Nat] : Doubles(g, n)}
<1>1. 0 \in T
  <2>1. Doubles([k \in Nat |-> InitialDelay], 0)
    BY TunnelAssumption DEF Doubles
  <2>2. [k \in Nat |-> InitialDelay] \in [Nat -> Nat]
    BY TunnelAssumption
  <2> QED
    BY <2>1, <2>2
<1>2. ASSUME NEW n \in T \cap Nat PROVE n + 1 \in T
  <2>1. PICK g \in [Nat -> Nat] : Doubles(g, n)
    OBVIOUS
  <2> DEFINE h == [k \in Nat |-> IF k <= n THEN g[k] ELSE 2 * g[n]]
  <2>2. h \in [Nat -> Nat]
    BY <2>1
  <2>3. h[0] = InitialDelay
    BY <2>1 DEF Doubles
  <2>4. ASSUME NEW k \in 1..(n + 1) PROVE h[k] = 2 * h[k - 1]
    BY <2>1 DEF Doubles
  <2>5. Doubles(h, n + 1)
    BY <2>3, <2>4 DEF Doubles
  <2> QED
    BY <2>2, <2>5
<1> HIDE DEF T
<1>3. Nat \subseteq T
  BY <1>1, <1>2, SetInduction
<1> QED
  BY <1>3 DEF T

\* Two such functions agree as far as they double.
LEMMA DoublesUnique ==
    ASSUME NEW g, NEW h, NEW n \in Nat, NEW m \in Nat, n <= m, Doubles(g, n), Doubles(h, m)
    PROVE  g[n] = h[n]
<1> DEFINE T == {k \in Nat : k <= n => g[k] = h[k]}
<1>1. 0 \in T
  BY DEF Doubles
<1>2. ASSUME NEW k \in T \cap Nat PROVE k + 1 \in T
  <2>1. CASE k + 1 <= n
    <3>1. k <= n /\ k + 1 \in 1..n /\ k + 1 \in 1..m /\ (k + 1) - 1 = k
      BY <2>1
    <3>2. g[k + 1] = 2 * g[k] /\ h[k + 1] = 2 * h[k]
      BY <3>1 DEF Doubles
    <3> QED
      BY <3>1, <3>2
  <2> QED
    BY <2>1
<1> HIDE DEF T
<1>3. n \in T
  BY <1>1, <1>2, SetInduction
<1> QED
  BY <1>3 DEF T

\* The recursive definition of Doubled defines it.
LEMMA DoubledDef ==
    Doubled = [n \in Nat |-> IF n = 0 THEN InitialDelay ELSE 2 * Doubled[n - 1]]
<1> DEFINE G(n) == CHOOSE g \in [Nat -> Nat] : Doubles(g, n)
           F == [n \in Nat |-> G(n)[n]]
<1>1. ASSUME NEW n \in Nat PROVE G(n) \in [Nat -> Nat] /\ Doubles(G(n), n)
  BY DoublesExists
<1> HIDE DEF G
<1>2. F[0] = InitialDelay
  BY <1>1 DEF Doubles
<1>3. ASSUME NEW n \in Nat, n # 0 PROVE F[n] = 2 * F[n - 1]
  <2>1. n - 1 \in Nat /\ n - 1 <= n /\ n \in 1..n
    BY <1>3
  <2>2. G(n)[n] = 2 * G(n)[n - 1]
    BY <1>1, <2>1 DEF Doubles
  <2>3. G(n - 1)[n - 1] = G(n)[n - 1]
    BY <1>1, <2>1, DoublesUnique
  <2> QED
    BY <2>1, <2>2, <2>3
<1>4. F = [n \in Nat |-> IF n = 0 THEN InitialDelay ELSE 2 * F[n - 1]]
  BY <1>2, <1>3
<1>5. \E f : f = [n \in Nat |-> IF n = 0 THEN InitialDelay ELSE 2 * f[n - 1]]
  <2> HIDE DEF F
  <2> QED
    BY <1>4
<1> QED
  BY <1>5 DEF Doubled

\* Every delay is a number, and twice the one before it.
LEMMA DoubledStep ==
    /\ Doubled[0] = InitialDelay
    /\ \A n \in Nat : Doubled[n] \in Nat /\ Doubled[n + 1] = 2 * Doubled[n]
<1>1. Doubled[0] = InitialDelay
  BY DoubledDef
<1>2. ASSUME NEW n \in Nat PROVE Doubled[n + 1] = 2 * Doubled[n]
  <2>1. n + 1 \in Nat /\ n + 1 # 0 /\ (n + 1) - 1 = n
    OBVIOUS
  <2> QED
    BY <2>1, DoubledDef
<1> DEFINE T == {n \in Nat : Doubled[n] \in Nat}
<1>3. Nat \subseteq T
  <2>1. 0 \in T
    BY <1>1, TunnelAssumption
  <2>2. ASSUME NEW n \in T \cap Nat PROVE n + 1 \in T
    BY <1>2
  <2> HIDE DEF T
  <2> QED
    BY <2>1, <2>2, SetInduction
<1> QED
  BY <1>1, <1>2, <1>3

\* The delay is right all the time, not only during a pause.
DelayInv == delay = Backoff(failures)

\* A step changes the delay only with the failures it is to follow.
LEMMA DelayFollows == TunnelInv /\ DelayInv /\ [Next]_vars => DelayInv'
<1> SUFFICES ASSUME TunnelInv, DelayInv, [Next]_vars PROVE DelayInv'
  OBVIOUS
<1>1. /\ delay \in InitialDelay..MaxDelay /\ failures \in Nat
      /\ InitialDelay \in Nat \ {0} /\ MaxDelay \in Nat /\ InitialDelay <= MaxDelay
  BY TunnelAssumption DEF TunnelInv, TypeOK
<1>2. CASE UNCHANGED <<delay, failures>>
  BY <1>2 DEF DelayInv, Backoff
<1>3. CASE Waits
  <2>1. CASE UNCHANGED <<delay, failures>>
    BY <2>1, <1>2
  <2>2. CASE delay' = InitialDelay /\ failures' = 0
    BY <1>1, <2>2, DoubledStep DEF DelayInv, Backoff
  <2> QED
    BY <1>3, <2>1, <2>2 DEF Waits
<1>4. CASE PauseElapses
  <2>1. CASE delay < MaxDelay
    <3>1. Doubled[failures] = delay
      BY <1>1, <2>1, DoubledStep DEF DelayInv, Backoff
    <3>2. failures' = failures + 1 /\ Doubled[failures + 1] = 2 * delay
      BY <1>1, <1>4, <2>1, <3>1, DoubledStep DEF PauseElapses
    <3>3. delay' = IF delay * 2 > MaxDelay THEN MaxDelay ELSE delay * 2
      BY <1>4 DEF PauseElapses, NextRestartDelay
    <3> QED
      BY <1>1, <3>2, <3>3 DEF DelayInv, Backoff
  <2>2. CASE delay = MaxDelay
    <3>1. failures' = failures /\ delay' = MaxDelay
      BY <1>1, <1>4, <2>2 DEF PauseElapses, NextRestartDelay
    <3> QED
      BY <2>2, <3>1 DEF DelayInv, Backoff
  <2> QED
    BY <1>1, <2>1, <2>2
<1>5. CASE Application
  BY <1>2, <1>5 DEF Application, Start, StartError, StartPublishes, StartGivesUp, StartTimesOut,
     ServeEnds, StopReads, StopCancels, StopSignals, Exit, supVars
<1>6. CASE Supervisor
  BY <1>2, <1>3, <1>4, <1>6 DEF Supervisor, Reports, PauseCancelled, LaunchChecks, LaunchForks,
     Records
<1>7. CASE \/ PrintsURL \/ BecomesHealthy \/ Interrupt \/ Finished \/ UNCHANGED vars
           \/ \E p \in Procs : ProcessEnds(p) \/ WatcherKills(p)
  BY <1>2, <1>7 DEF PrintsURL, BecomesHealthy, Interrupt, Finished, ProcessEnds, WatcherKills,
     Ends, vars, supVars
<1> QED
  BY <1>5, <1>6, <1>7 DEF Next

\* Whatever went before, the pause is the one that the failures since the last healthy run call for.
THEOREM BackoffCorrect == Spec => []BackoffFollowsFailures
<1>1. Init => DelayInv
  BY TunnelAssumption, DoubledStep DEF Init, DelayInv, Backoff
<1>2. Spec => []DelayInv
  BY <1>1, DelayFollows, TunnelInvariantHolds, PTL DEF Spec
<1>3. DelayInv => BackoffFollowsFailures
  BY DEF DelayInv, BackoffFollowsFailures
<1> QED
  BY <1>2, <1>3, PTL

=============================================================================
