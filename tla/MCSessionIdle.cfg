\* one connection, no retention: the idle timer is the only clock of the session
SPECIFICATION FairSpec
CONSTANTS
    c1 = c1
    c2 = c2
    Conns = {c1}
    NoConn = NoConn
    Typists = {c1}
    Droppers = {c1}
    Retention = FALSE
    IdleTimeout = TRUE
PROPERTIES
    IdleTimeoutClosesSession
