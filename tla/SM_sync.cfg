SPECIFICATION Spec

CONSTANTS
    None = None
    m1 = m1
    m2 = m2
    p1 = p1
    c1 = c1
    c2 = c2
    c3 = c3
    sync = sync
    async = async
    Managers = {m1, m2}
    Owners = {p1}
    Readers = {c1, c2, c3}
    Home <- Placed
    Keys = {sync, async}
    AsyncKeys = {async}
    OwnerOf <- OwnedBy
    Texts = {"v", "w"}
    HasBackend = TRUE
    Expires = TRUE
    MaxPuts = 3
    MaxGets = 3
    MaxRestarts = 1

INVARIANT TypeOK
INVARIANT EventsMatchStore
INVARIANT EvictedIsGone
PROPERTY ErrorsAreTrue
PROPERTY WaitersWake

\* The clients stop when their bounds are reached.
CHECK_DEADLOCK FALSE
