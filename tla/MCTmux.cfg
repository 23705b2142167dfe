\* two requests at a time, restarts of the PTY, a user at the keyboard, windows that do not
\* exist, a name that begins with another one and a name with a dot
SPECIFICATION FairSpec
CONSTANTS
    a = a
    ab = ab
    dot = dot
    Requests = {r1, r2}
    Names = {a, ab, dot}
    Longer <- LongerNames
    Stored <- StoredNames
    Ptys = {p1}
    None = None
    WindowMissing = TRUE
    Outside = TRUE
INVARIANTS
    TargetMatchesClient
    DefaultExists
PROPERTIES
    LockReleased
