\* connections that only a displacement or a close ends; a write to an open one may hang
SPECIFICATION FairSpec
CONSTANTS
    c1 = c1
    c2 = c2
    Conns = {c1, c2}
    NoConn = NoConn
    Typists = {}
    Droppers = {}
    Retention = TRUE
    IdleTimeout = FALSE
PROPERTIES
    DisplacedHandlerReturns
    DetachedIsReaped
    CloseEndsEverything
