\* two requests at a time, two uploads to one destination; the disk may fail and the server
\* may be restarted
SPECIFICATION FairSpec
CONSTANTS
    w1 = w1
    w2 = w2
    u1 = u1
    u2 = u2
    Slots = {w1, w2}
    Uploads = {u1, u2}
    Chunks = {1}
    None = None
    DiskFails = TRUE
    Restarts = TRUE
PROPERTIES
    CancelledStaysAway
    TemporaryOwned
    EveryRequestAnswered
    ImplementsStore
