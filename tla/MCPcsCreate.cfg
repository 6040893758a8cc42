CONSTANTS
    m = m
    w = w
    c1 = c1
    Users = {m, w}
    SuperUsers = {m}
    MasterOf <- OneMaster
    Campaigns = {c1}
    Pcs = {x1}
    Jobs = {j1, j2, j3}
    Things = {t1}
    Requests = {r1, r2}
    PcLimit = 1
    UnmasteredLimit = 1
    Operations <- CreateOperations
    None = None
SPECIFICATION Spec
SYMMETRY Symmetry
INVARIANTS
    TypeOK
    RowsHaveParents
    FailedLeavesNothing
    UnmasteredOvershoot
CHECK_DEADLOCK FALSE
