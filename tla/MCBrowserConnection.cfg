\* three sockets: one that closes slowly, its successor, and one more
SPECIFICATION FairSpec
CONSTANTS
    Sockets = {w1, w2, w3}
    Timers = {t1, t2}
    Calls = {c1, c2}
    None = None
    AuthCloses = TRUE
INVARIANTS
    OneLiveSocket
    ConnectsWhileWanted
PROPERTIES
    Reconnects
