\* a request, which may find a session that was left, a logout and two sessions, with and without
\* a maximum lifetime; the teardown of s2 may never return
SPECIFICATION RunSpec
CONSTANTS
    s1 = s1
    Sessions = {s1, s2}
    Conns = {c1}
    Logouts = {l1}
    NoSession = NoSession
    NoConn = NoConn
    MaxSessions = 1
    Stuck = {s2}
    Retention = TRUE
INVARIANTS
    SlotMatchesSession
    RetryMeetsAnotherSession
PROPERTIES
    EvictedOnlyByLogout
    LogoutReturns
    ClosedSessionLeaves
    LifetimeEndsSession
