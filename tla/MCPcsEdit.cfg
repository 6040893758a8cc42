CONSTANTS
    m = m
    w = w
    c1 = c1
    Users = {m, w}
    SuperUsers = {}
    MasterOf <- OneMaster
    Campaigns = {c1}
    Pcs = {x1, x2, x3}
    Jobs = {}
    Things = {}
    Requests = {r1, r2}
    PcLimit = 1
    UnmasteredLimit = 1
    Operations <- EditOperations
    None = None
SPECIFICATION Spec
SYMMETRY Symmetry
INVARIANTS
    EditsStayInCampaign
    PcLimitOvershoot
CHECK_DEADLOCK FALSE
