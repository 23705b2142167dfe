\* Three callers, a shell that ignores SIGTERM, a reader that need not leave Read.
SPECIFICATION TerminalFairSpec
CONSTANTS
    Callers = {c1, c2, c3}
    NoCaller = NoCaller
    IgnoresTerm = TRUE
INVARIANTS ShellGoneOnReturn WaitedForOnce
PROPERTIES CloseReturns
