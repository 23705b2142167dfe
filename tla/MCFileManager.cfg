\* two entries in one directory and an empty one; async functions overlap
SPECIFICATION FairSpec
CONSTANTS
    d1 = d1
    d2 = d2
    e1 = e1
    e2 = e2
    Dirs = {d1, d2}
    Root = d1
    Entries = {e1, e2}
    Folders = {e2}
    Home <- InHome
    Queries <- Matches
    Tasks = {k1, k2}
INVARIANTS
    SentAsConfirmed
    SelectAllAgrees
PROPERTIES
    CopiedStays
    ObserverRests
