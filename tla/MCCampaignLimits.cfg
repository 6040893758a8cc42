\* Two requests that count and then insert, at limits of one.
CONSTANTS
    m = m
    p = p
    q = q
    c1 = c1
    c2 = c2
    Users = {m, p}
    SuperUsers = {}
    Admin = Admin
    Campaigns = {c1, c2, c3}
    Invitations = {i1, i2, i3}
    Requests = {r1, r2}
    TTL = 1
    MasterLimit = 1
    FirstMaster <- NoCampaign
    Operations <- LimitOperations
    Never = Never
    None = None
SPECIFICATION Spec
SYMMETRY LimitSymmetry
INVARIANTS
    MasterLimitOvershoot
    ActiveOvershoot
    EveryCampaignHasMaster
CHECK_DEADLOCK FALSE
