----------------------------- MODULE TunnelManager -----------------------------
(***************************************************************************)
(* The cloudflared child process: internal/tunnel/manager.go, driven by    *)
(* internal/app/app.go.  Four goroutines take part: the application, which *)
(* starts the tunnel, serves and stops it; the goroutine that waits for    *)
(* the process (superviseFixed, or the func literal of the quick mode);    *)
(* consume, which looks for the public URL; and the one that os/exec runs  *)
(* for every process of exec.CommandContext, which kills the process when  *)
(* its context is cancelled.                                               *)
(*                                                                         *)
(* A process id is free again once the process has been waited for, except *)
(* that of manager.cmd, so Procs is small.  Delays are counted in units.   *)
(* The restart counter, the error and the URL in the status and the        *)
(* arguments of the command carry no control and are left out.             *)
(***************************************************************************)
EXTENDS Naturals, FiniteSets

CONSTANTS
    Modes,                    \* what tunnel.mode may be
    Procs,                    \* process ids
    None,                     \* no process
    InitialDelay, MaxDelay,   \* initialRestartDelay, maxRestartDelay
    StartFails                \* TRUE iff launching the binary may fail

ASSUME TunnelAssumption ==
    /\ Modes \subseteq {"quick", "fixed"}
    /\ IsFiniteSet(Procs) /\ None \notin Procs
    /\ InitialDelay \in Nat \ {0} /\ MaxDelay \in Nat /\ InitialDelay <= MaxDelay
    /\ StartFails \in BOOLEAN

VARIABLES
    mode,           \* tunnel.mode, which never changes
    app,            \* the application: control
    interrupted,    \* the context of main is cancelled (SIGINT, SIGTERM)
    cancelled,      \* the context of the processes is cancelled
    alive,          \* processes that run
    watched,        \* processes whose goroutine in os/exec waits for the context
    termed,         \* processes that were sent SIGTERM
    healthy,        \* the present process has run for healthyRunThreshold
    cmd,            \* manager.cmd
    running,        \* manager.status.Running
    printed,        \* the URL is in urlChannel
    failed,         \* the outcome is in errorChannel
    stopping,       \* the command that Stop has read
    sup, child,     \* the goroutine that waits: control, its process
    delay,          \* restartDelay
    failures        \* pauses since the last healthy run, as far as they lengthen the delay

statusVars == <<cmd, running>>
supVars == <<sup, child, delay, failures>>
vars == <<mode, app, interrupted, cancelled, alive, watched, termed, healthy, statusVars, printed,
          failed, stopping, supVars>>

\* nextRestartDelay
NextRestartDelay(current) == IF current * 2 > MaxDelay THEN MaxDelay ELSE current * 2

\* What the backoff is meant to be after n failures, without the steps that produce it: the
\* initial delay, doubled n times, or the maximum.
Doubled[n \in Nat] == IF n = 0 THEN InitialDelay ELSE 2 * Doubled[n - 1]
Backoff(n) == IF Doubled[n] > MaxDelay THEN MaxDelay ELSE Doubled[n]

TypeOK ==
    /\ mode \in Modes
    /\ app \in {"new", "select", "serve", "stop", "cancel", "signal", "stopped", "exited"}
    /\ interrupted \in BOOLEAN /\ cancelled \in BOOLEAN
    /\ alive \in SUBSET Procs /\ watched \in SUBSET Procs /\ termed \in SUBSET alive
    /\ healthy \in BOOLEAN
    /\ cmd \in Procs \cup {None}
    /\ running \in BOOLEAN /\ printed \in BOOLEAN /\ failed \in BOOLEAN
    /\ stopping \in Procs \cup {None}
    /\ sup \in {"off", "wait", "report", "pause", "launch", "fork", "record", "done"}
    /\ child \in Procs \cup {None}
    /\ delay \in InitialDelay..MaxDelay
    /\ failures \in Nat

Init ==
    /\ mode \in Modes
    /\ app = "new" /\ interrupted = FALSE /\ cancelled = FALSE
    /\ alive = {} /\ watched = {} /\ termed = {} /\ healthy = FALSE
    /\ cmd = None /\ running = FALSE
    /\ printed = FALSE /\ failed = FALSE /\ stopping = None
    /\ sup = "off" /\ child = None /\ delay = InitialDelay /\ failures = 0

-----------------------------------------------------------------------------
(* The application: Start, the server, Stop.                               *)

Lives == app # "exited"

\* command.Start() of process p, which os/exec watches
Launch(p) ==
    /\ p \notin alive \cup {cmd}
    /\ alive' = alive \cup {p}
    /\ watched' = watched \cup {p}
    /\ healthy' = FALSE

\* Start: the process runs, it is recorded, and a goroutine waits for it
Start(p) ==
    /\ app = "new"
    /\ ~interrupted
    /\ Launch(p)
    /\ cmd' = p /\ running' = TRUE
    /\ sup' = "wait" /\ child' = p
    /\ app' = IF mode = "fixed" THEN "serve" ELSE "select"
    /\ UNCHANGED <<mode, interrupted, cancelled, termed, printed, failed, stopping, delay, failures>>

\* the arguments or the binary are not usable, or the context is cancelled already: Run returns
StartError ==
    /\ app = "new"
    /\ StartFails \/ interrupted
    /\ app' = "stopped"
    /\ UNCHANGED <<mode, interrupted, cancelled, alive, watched, termed, healthy, statusVars, printed,
                   failed, stopping, supVars>>

\* quick mode: the URL is there
StartPublishes ==
    /\ app = "select"
    /\ printed
    /\ printed' = FALSE
    /\ app' = "serve"
    /\ UNCHANGED <<mode, interrupted, cancelled, alive, watched, termed, healthy, statusVars,
                   failed, stopping, supVars>>

\* quick mode: the process has ended, or main was interrupted; Run returns without Stop
StartGivesUp ==
    /\ app = "select"
    /\ failed \/ interrupted
    /\ app' = "stopped"
    /\ UNCHANGED <<mode, interrupted, cancelled, alive, watched, termed, healthy, statusVars, printed,
                   failed, stopping, supVars>>

\* quick mode: quickStartTimeout has passed
StartTimesOut ==
    /\ app = "select"
    /\ app' = "stop"
    /\ UNCHANGED <<mode, interrupted, cancelled, alive, watched, termed, healthy, statusVars, printed,
                   failed, stopping, supVars>>

\* the server is shut down after an interrupt, or could not listen: Run returns through Stop
ServeEnds ==
    /\ app = "serve"
    /\ app' = "stop"
    /\ UNCHANGED <<mode, interrupted, cancelled, alive, watched, termed, healthy, statusVars, printed,
                   failed, stopping, supVars>>

\* Stop under mu
StopReads ==
    /\ app = "stop"
    /\ stopping' = cmd
    /\ app' = "cancel"
    /\ UNCHANGED <<mode, interrupted, cancelled, alive, watched, termed, healthy, statusVars, printed,
                   failed, supVars>>

\* Deviation: Stop leaves the context as it is.
StopKeepsContext ==
    /\ app = "cancel"
    /\ app' = "signal"
    /\ UNCHANGED <<mode, interrupted, cancelled, alive, watched, termed, healthy, statusVars, printed,
                   failed, stopping, supVars>>

\* cancel()
StopCancels ==
    /\ app = "cancel"
    /\ cancelled' = TRUE
    /\ app' = "signal"
    /\ UNCHANGED <<mode, interrupted, alive, watched, termed, healthy, statusVars, printed,
                   failed, stopping, supVars>>

\* SIGTERM to the process group of the command that was read, if it still exists
StopSignals ==
    /\ app = "signal"
    /\ termed' = termed \cup ({stopping} \cap alive)
    /\ stopping' = None
    /\ app' = "stopped"
    /\ UNCHANGED <<mode, interrupted, cancelled, alive, watched, healthy, statusVars, printed,
                   failed, supVars>>

\* main returns, and every goroutine is gone
Exit ==
    /\ app = "stopped"
    /\ app' = "exited"
    /\ UNCHANGED <<mode, interrupted, cancelled, alive, watched, termed, healthy, statusVars, printed,
                   failed, stopping, supVars>>

-----------------------------------------------------------------------------
(* The goroutine that waits for the process.                               *)

\* Deviation: the process is not waited for.
WaitsForNobody ==
    /\ Lives
    /\ sup = "wait"
    /\ running' = FALSE
    /\ delay' = IF healthy THEN InitialDelay ELSE delay
    /\ failures' = IF healthy THEN 0 ELSE failures
    /\ child' = None
    /\ sup' = IF mode = "fixed" THEN "pause" ELSE "report"
    /\ UNCHANGED <<mode, app, interrupted, cancelled, alive, watched, termed, healthy, cmd, printed,
                   failed, stopping>>

\* Deviation: a healthy run does not end the backoff.
WaitForgetsHealth ==
    /\ Lives
    /\ sup = "wait"
    /\ child \notin alive
    /\ running' = FALSE
    /\ failures' = IF healthy /\ child # None THEN 0 ELSE failures
    /\ child' = None
    /\ sup' = IF mode = "fixed" THEN "pause" ELSE "report"
    /\ UNCHANGED <<mode, app, interrupted, cancelled, alive, watched, termed, healthy, cmd, printed,
                   failed, stopping, delay>>

\* command.Wait() returns, at once for a command that was not started; the status is updated,
\* and a healthy run resets the delay
Waits ==
    /\ Lives
    /\ sup = "wait"
    /\ child \notin alive
    /\ running' = FALSE
    /\ delay' = IF healthy /\ child # None THEN InitialDelay ELSE delay
    /\ failures' = IF healthy /\ child # None THEN 0 ELSE failures
    /\ child' = None
    /\ sup' = IF mode = "fixed" THEN "pause" ELSE "report"
    /\ UNCHANGED <<mode, app, interrupted, cancelled, alive, watched, termed, healthy, cmd, printed,
                   failed, stopping>>

\* quick mode: the outcome is reported and the goroutine ends
Reports ==
    /\ Lives
    /\ sup = "report"
    /\ failed' = TRUE
    /\ sup' = "done"
    /\ UNCHANGED <<mode, app, interrupted, cancelled, alive, watched, termed, healthy, statusVars,
                   printed, stopping, child, delay, failures>>

\* waitBeforeRestart ends with the timer; select may choose it although the context is done
PauseElapses ==
    /\ Lives
    /\ sup = "pause"
    /\ delay' = NextRestartDelay(delay)
    /\ failures' = IF delay < MaxDelay THEN failures + 1 ELSE failures
    /\ sup' = "launch"
    /\ UNCHANGED <<mode, app, interrupted, cancelled, alive, watched, termed, healthy, statusVars,
                   printed, failed, stopping, child>>

\* ... or with the context
PauseCancelled ==
    /\ Lives
    /\ sup = "pause"
    /\ cancelled
    /\ sup' = "done"
    /\ UNCHANGED <<mode, app, interrupted, cancelled, alive, watched, termed, healthy, statusVars,
                   printed, failed, stopping, child, delay, failures>>

\* Deviation: the supervisor gives up when a restart fails.
LaunchGivesUp ==
    /\ Lives
    /\ sup = "launch"
    /\ \/ ~cancelled /\ sup' = "fork" /\ UNCHANGED running
       \/ (cancelled \/ StartFails) /\ sup' = "done" /\ running' = FALSE
    /\ UNCHANGED <<mode, app, interrupted, cancelled, alive, watched, termed, healthy, cmd,
                   printed, failed, stopping, child, delay, failures>>

\* command.Start() looks at the context; it fails with it or for the binary, and the loop goes
\* on with a command that was not started
LaunchChecks ==
    /\ Lives
    /\ sup = "launch"
    /\ \/ ~cancelled /\ sup' = "fork" /\ UNCHANGED running
       \/ (cancelled \/ StartFails) /\ sup' = "wait" /\ running' = FALSE
    /\ UNCHANGED <<mode, app, interrupted, cancelled, alive, watched, termed, healthy, cmd,
                   printed, failed, stopping, child, delay, failures>>

\* ... then starts the process
LaunchForks(p) ==
    /\ Lives
    /\ sup = "fork"
    /\ Launch(p)
    /\ child' = p
    /\ sup' = "record"
    /\ UNCHANGED <<mode, app, interrupted, cancelled, termed, statusVars,
                   printed, failed, stopping, delay, failures>>

\* the new command is recorded under mu
Records ==
    /\ Lives
    /\ sup = "record"
    /\ cmd' = child /\ running' = TRUE
    /\ sup' = "wait"
    /\ UNCHANGED <<mode, app, interrupted, cancelled, alive, watched, termed, healthy,
                   printed, failed, stopping, child, delay, failures>>

-----------------------------------------------------------------------------
(* consume, os/exec and what happens outside the program.                  *)

\* cloudflared prints its URL and consume finds it; consume drops what it cannot deliver, and
\* the URL may also never be printed or be lost when the pipe is closed
PrintsURL ==
    /\ Lives
    /\ mode = "quick"
    /\ cmd \in alive
    /\ ~printed
    /\ printed' = TRUE
    /\ UNCHANGED <<mode, app, interrupted, cancelled, alive, watched, termed, healthy, statusVars,
                   failed, stopping, supVars>>

\* process p ends
Ends(p) ==
    /\ p \in alive
    /\ alive' = alive \ {p}
    /\ watched' = watched \ {p}
    /\ termed' = termed \ {p}
    /\ UNCHANGED <<mode, app, interrupted, cancelled, healthy, statusVars, printed,
                   failed, stopping, supVars>>

\* by itself or by SIGTERM
ProcessEnds(p) == Ends(p)

\* os/exec kills a process whose context is cancelled
WatcherKills(p) ==
    /\ Lives
    /\ cancelled
    /\ p \in watched
    /\ Ends(p)

\* the present process has been up for healthyRunThreshold
BecomesHealthy ==
    /\ mode = "fixed"
    /\ ~healthy
    /\ child \in alive
    /\ healthy' = TRUE
    /\ UNCHANGED <<mode, app, interrupted, cancelled, alive, watched, termed, statusVars, printed,
                   failed, stopping, supVars>>

\* SIGINT or SIGTERM cancels the context of main and with it the context of the processes
Interrupt ==
    /\ Lives /\ app # "stopped"
    /\ ~interrupted
    /\ interrupted' = TRUE /\ cancelled' = TRUE
    /\ UNCHANGED <<mode, app, alive, watched, termed, healthy, statusVars, printed,
                   failed, stopping, supVars>>

\* nothing runs any more
Finished ==
    /\ app = "exited"
    /\ alive = {}
    /\ UNCHANGED vars

-----------------------------------------------------------------------------
Application ==
    \/ (\E p \in Procs : Start(p)) \/ StartError
    \/ StartPublishes \/ StartGivesUp \/ StartTimesOut \/ ServeEnds
    \/ StopReads \/ StopCancels \/ StopSignals \/ Exit
Supervisor ==
    \/ Waits \/ Reports \/ PauseElapses \/ PauseCancelled \/ LaunchChecks
    \/ (\E p \in Procs : LaunchForks(p)) \/ Records

Next ==
    \/ Application \/ Supervisor
    \/ PrintsURL \/ BecomesHealthy \/ Interrupt \/ Finished
    \/ \E p \in Procs : ProcessEnds(p) \/ WatcherKills(p)

Spec == Init /\ [][Next]_vars

\* Goroutines run, and select chooses a context that is done sooner or later; a binary that
\* can be started is not unusable for ever.  Nothing is assumed of cloudflared.
FairSpec ==
    /\ Spec
    /\ WF_vars(StopReads \/ StopCancels \/ StopSignals)
    /\ WF_vars(Supervisor) /\ SF_vars(PauseCancelled)
    /\ SF_vars(LaunchChecks /\ sup' = "fork")
    /\ \A p \in Procs : WF_vars(WatcherKills(p))

-----------------------------------------------------------------------------
(* Properties.                                                             *)

\* The supervisor restarts a tunnel only after the last process has been waited for: at no
\* time do two cloudflared processes serve the same tunnel.
OneTunnel == Cardinality(alive) <= 1

\* manager.go: "start at 2s and double on every fast failure ... A run that stayed up for at
\* least healthyRunThreshold resets the backoff."  Whatever mixture of fast exits, failed
\* launches and healthy runs went before, the pause is the one the failures since then call for.
BackoffFollowsFailures == sup = "pause" => delay = Backoff(failures)

\* Stop is final although it may meet the supervisor between launching a process and recording
\* it, or an outcome nobody waits for: if the program goes on to run, no process is left in the
\* end and none is started again.
StopIsFinal == app = "stopped" ~> (app = "exited" \/ [](alive = {}))

\* A fixed tunnel that is not stopped comes back after every exit, through failed launches too.
FixedTunnelComesBack ==
    (app = "serve" /\ mode = "fixed" /\ alive = {}) ~> (alive # {} \/ cancelled)

=============================================================================
