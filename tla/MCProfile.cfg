\* One user logging in and out, updating, refreshing, with two fetch slots.
CONSTANTS
    u1 = u1
    u2 = u2
    m1 = m1
    m2 = m2
    f1 = f1
    f2 = f2
    noUser = noUser
    noData = noData
    Users <- MCOneUser
    Metas <- MCMetas
    NoUser <- noUser
    NoData <- noData
    Fetches <- MCFetches
    PostsMayFail = TRUE
SPECIFICATION Spec
SYMMETRY MCSymmetry
CHECK_DEADLOCK FALSE
INVARIANT TypeOK
