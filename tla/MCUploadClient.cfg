\* two uploads one after the other, of two chunks
SPECIFICATION FairSpec
CONSTANTS
    Uploads = {u1, u2}
    None = None
    ChunkCount = 2
    MaxTimers = 1
INVARIANTS
    NoChunkSkipped
    CancelledNotPublished
PROPERTIES
    Settles
