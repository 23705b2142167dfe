\* Both modes; delays 2, 4, 8, 15 stand for 2 s to 5 min.  No symmetry: liveness is checked.
SPECIFICATION FairSpec
CONSTANTS
    Modes = {"quick", "fixed"}
    Procs = {p1, p2, p3}
    None = None
    InitialDelay = 2
    MaxDelay = 15
    StartFails = TRUE
INVARIANTS OneTunnel BackoffFollowsFailures
PROPERTIES StopIsFinal FixedTunnelComesBack
