----------------------------- MODULE TerminalClose -----------------------------
(***************************************************************************)
(* Ending one PTY: Terminal.Close of internal/terminal/terminal.go, called *)
(* by any number of goroutines, against a reader that is blocked in Read   *)
(* on the master side and a shell that may ignore SIGTERM.                 *)
(*                                                                         *)
(* The kernel keeps the master open while a Read is in flight, so that     *)
(* closing the file hangs the shell up only once the reader is out.        *)
(***************************************************************************)
EXTENDS Naturals, FiniteSets

CONSTANTS
    Callers,       \* goroutines that call Close
    NoCaller,      \* nobody is inside closeOnce
    IgnoresTerm    \* TRUE iff the shell ignores SIGTERM, as interactive shells do

ASSUME TerminalAssumption ==
    /\ NoCaller \notin Callers
    /\ IgnoresTerm \in BOOLEAN

VARIABLES
    pc,          \* caller: control
    once,        \* who runs close() inside closeOnce
    onceDone,    \* closeOnce.Do has run
    fileClosed,  \* file.Close() was called
    reading,     \* a Read on the master is in flight
    sent,        \* signals on their way to the process group
    shell,       \* "running", "zombie" (exited), "reaped" (waited for)
    waiting,     \* goroutines inside process.Wait()
    exited,      \* the channel `exited` holds the outcome
    grace        \* the grace period has elapsed

terminalVars == <<pc, once, onceDone, fileClosed, reading, sent, shell, waiting, exited, grace>>

Signals == {"TERM", "KILL"}

TerminalTypeOK ==
    /\ pc \in [Callers -> {"new", "enter", "file", "term", "select", "kill", "receive", "returned"}]
    /\ once \in Callers \cup {NoCaller}
    /\ onceDone \in BOOLEAN
    /\ fileClosed \in BOOLEAN
    /\ reading \in BOOLEAN
    /\ sent \in SUBSET Signals
    /\ shell \in {"running", "zombie", "reaped"}
    /\ waiting \in Nat
    /\ exited \in BOOLEAN
    /\ grace \in BOOLEAN

\* Start: the shell runs, the session's reader may or may not be inside Read.
TerminalInit ==
    /\ pc = [c \in Callers |-> "new"]
    /\ once = NoCaller /\ onceDone = FALSE
    /\ fileClosed = FALSE
    /\ reading \in BOOLEAN
    /\ sent = {}
    /\ shell = "running"
    /\ waiting = 0 /\ exited = FALSE
    /\ grace = FALSE

-----------------------------------------------------------------------------
Goto(c, where) == pc' = [pc EXCEPT ![c] = where]

Calls(c) ==
    /\ pc[c] = "new"
    /\ Goto(c, "enter")
    /\ UNCHANGED <<once, onceDone, fileClosed, reading, sent, shell, waiting, exited, grace>>

\* Deviation: Close runs the teardown for every caller.
EntersAlways(c) ==
    /\ pc[c] = "enter"
    /\ Goto(c, "file")
    /\ once' = c
    /\ UNCHANGED <<onceDone, fileClosed, reading, sent, shell, waiting, exited, grace>>

\* closeOnce.Do: one caller runs close(), the others wait until it is through
Enters(c) ==
    /\ pc[c] = "enter"
    /\ once = NoCaller
    /\ IF onceDone
       THEN Goto(c, "returned") /\ UNCHANGED once
       ELSE Goto(c, "file") /\ once' = c
    /\ UNCHANGED <<onceDone, fileClosed, reading, sent, shell, waiting, exited, grace>>

\* file.Close()
ClosesFile(c) ==
    /\ pc[c] = "file"
    /\ fileClosed' = TRUE
    /\ Goto(c, "term")
    /\ UNCHANGED <<once, onceDone, reading, sent, shell, waiting, exited, grace>>

\* SIGTERM to the process group; a goroutine starts to wait for the shell
Terminates(c) ==
    /\ pc[c] = "term"
    /\ sent' = IF shell = "running" THEN sent \cup {"TERM"} ELSE sent
    /\ waiting' = waiting + 1
    /\ Goto(c, "select")
    /\ UNCHANGED <<once, onceDone, fileClosed, reading, shell, exited, grace>>

\* close() returns, and with it closeOnce.Do and Close
Returned(c) ==
    /\ Goto(c, "returned")
    /\ once' = NoCaller /\ onceDone' = TRUE
    /\ exited' = FALSE

\* <-exited within the grace period
ExitedInTime(c) ==
    /\ pc[c] = "select"
    /\ exited
    /\ Returned(c)
    /\ UNCHANGED <<fileClosed, reading, sent, shell, waiting, grace>>

\* Deviation: the shell is given up after the grace period.
GivesUp(c) ==
    /\ pc[c] = "select"
    /\ grace
    /\ Returned(c)
    /\ UNCHANGED <<fileClosed, reading, sent, shell, waiting, grace>>

\* <-time.After(closeGracePeriod)
GraceEnds(c) ==
    /\ pc[c] = "select"
    /\ grace
    /\ Goto(c, "kill")
    /\ UNCHANGED <<once, onceDone, fileClosed, reading, sent, shell, waiting, exited, grace>>

\* Deviation: SIGTERM is sent a second time.
TerminatesAgain(c) ==
    /\ pc[c] = "kill"
    /\ sent' = IF shell = "running" THEN sent \cup {"TERM"} ELSE sent
    /\ Goto(c, "receive")
    /\ UNCHANGED <<once, onceDone, fileClosed, reading, shell, waiting, exited, grace>>

\* SIGKILL to the process group
Kills(c) ==
    /\ pc[c] = "kill"
    /\ sent' = IF shell = "running" THEN sent \cup {"KILL"} ELSE sent
    /\ Goto(c, "receive")
    /\ UNCHANGED <<once, onceDone, fileClosed, reading, shell, waiting, exited, grace>>

\* the second <-exited, without a bound
Receives(c) ==
    /\ pc[c] = "receive"
    /\ exited
    /\ Returned(c)
    /\ UNCHANGED <<fileClosed, reading, sent, shell, waiting, grace>>

-----------------------------------------------------------------------------
\* process.Wait() of the goroutine returns; waiting for a process a second time fails at once
Reaps ==
    /\ waiting > 0
    /\ shell \in {"zombie", "reaped"}
    /\ shell' = "reaped"
    /\ waiting' = waiting - 1
    /\ exited' = TRUE
    /\ UNCHANGED <<pc, once, onceDone, fileClosed, reading, sent, grace>>

\* a Read begins, or the one in flight returns with output
Reads ==
    /\ shell = "running"
    /\ reading' = (~reading /\ ~fileClosed)
    /\ UNCHANGED <<pc, once, onceDone, fileClosed, sent, shell, waiting, exited, grace>>

\* the shell exits: by itself, by a signal it does not ignore, or hung up
Exits ==
    /\ shell = "running"
    /\ shell' = "zombie"
    /\ sent' = {}
    /\ reading' = FALSE
    /\ UNCHANGED <<pc, once, onceDone, fileClosed, waiting, exited, grace>>

\* closeGracePeriod elapses
TimePasses ==
    /\ \E c \in Callers : pc[c] = "select"
    /\ ~grace
    /\ grace' = TRUE
    /\ UNCHANGED <<pc, once, onceDone, fileClosed, reading, sent, shell, waiting, exited>>

\* everybody has returned: nothing is left to do
AllReturned ==
    /\ \A c \in Callers : pc[c] = "returned"
    /\ shell = "reaped" /\ waiting = 0
    /\ UNCHANGED terminalVars

CloseStep(c) ==
    \/ Enters(c) \/ ClosesFile(c) \/ Terminates(c) \/ ExitedInTime(c) \/ GraceEnds(c)
    \/ Kills(c) \/ Receives(c)

TerminalNext ==
    \/ \E c \in Callers : Calls(c) \/ CloseStep(c)
    \/ Reaps \/ Reads \/ Exits \/ TimePasses \/ AllReturned

TerminalSpec == TerminalInit /\ [][TerminalNext]_terminalVars

\* The callers run, the kernel delivers SIGKILL, time passes.  Nothing makes the reader leave
\* Read and nothing makes a shell exit that ignores SIGTERM and is not hung up.
MustExit == "KILL" \in sent \/ ("TERM" \in sent /\ ~IgnoresTerm) \/ (fileClosed /\ ~reading)

TerminalFairSpec ==
    /\ TerminalSpec
    /\ \A c \in Callers : WF_terminalVars(CloseStep(c))
    /\ WF_terminalVars(Reaps) /\ WF_terminalVars(TimePasses)
    /\ WF_terminalVars(MustExit /\ Exits)

-----------------------------------------------------------------------------
(* Properties.                                                             *)

\* "Close terminates the whole PTY process group": when any call of Close has returned, be it
\* the one that did the work or one that found it done, the shell is dead and waited for.
ShellGoneOnReturn == \A c \in Callers : pc[c] = "returned" => shell = "reaped"

\* The teardown happens once however many goroutines call Close: the process is waited for by
\* one goroutine at most, and its outcome goes to the one caller that can receive it.
WaitedForOnce ==
    /\ waiting + (IF exited THEN 1 ELSE 0) <= 1
    /\ exited => \E c \in Callers : once = c /\ pc[c] \in {"select", "kill", "receive"}

\* "... and always returns": every call of Close returns, although the shell ignores SIGTERM
\* and the reader never leaves Read.
CloseReturns == \A c \in Callers : pc[c] = "enter" ~> pc[c] = "returned"

=============================================================================
