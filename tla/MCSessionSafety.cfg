SPECIFICATION Spec
CONSTANTS
    c1 = c1
    c2 = c2
    Conns = {c1, c2}
    NoConn = NoConn
    Typists = {c1, c2}
    Droppers = {c1, c2}
    Retention = TRUE
    IdleTimeout = TRUE
INVARIANTS
    OneWriter
    AtMostOneLateInput
PROPERTIES
    AttachmentKept
    ReaperDecidesOnPresentDetachment
    ImplementsLease
SYMMETRY Symmetry
