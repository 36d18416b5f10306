\* An account switch during a fetch leaves the old profile on screen.
CONSTANTS
    u1 = u1
    u2 = u2
    m1 = m1
    m2 = m2
    f1 = f1
    f2 = f2
    noUser = noUser
    noData = noData
    Users <- MCUsers
    Metas <- MCMetas
    NoUser <- noUser
    NoData <- noData
    Fetches <- MCFetches
    PostsMayFail = TRUE
SPECIFICATION Spec
SYMMETRY MCSymmetry
CHECK_DEADLOCK FALSE
INVARIANT ProfileShowsChain
