CONSTANTS
    m = m
    p = p
    q = q
    c1 = c1
    c2 = c2
    Users = {m, p}
    SuperUsers = {}
    Admin = Admin
    Campaigns = {c1}
    Invitations = {i1}
    Requests = {r1, r2}
    TTL = 1
    MasterLimit = 5
    FirstMaster <- OneCampaign
    Operations <- CancelRaceOperations
    Never = Never
    None = None
SPECIFICATION Spec
PROPERTIES
    CancelledIsFinal
CHECK_DEADLOCK FALSE
