\* two uploads to the same name complete at the same time
SPECIFICATION Spec
CONSTANTS
    w1 = w1
    w2 = w2
    u1 = u1
    u2 = u2
    Slots = {w1, w2}
    Uploads = {u1, u2}
    Chunks = {1}
    None = None
    DiskFails = FALSE
    Restarts = FALSE
PROPERTIES
    DestinationNeverReplaced
SYMMETRY Symmetry
