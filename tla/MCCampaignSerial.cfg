CONSTANTS
    m = m
    p = p
    q = q
    c1 = c1
    c2 = c2
    Users = {m, p}
    SuperUsers = {p}
    Admin = Admin
    Campaigns = {c1}
    Invitations = {i1, i2}
    Requests = {r1}
    TTL = 1
    MasterLimit = 5
    FirstMaster <- NoCampaign
    Operations <- SerialOperations
    Never = Never
    None = None
SPECIFICATION FairSpec
INVARIANTS
    OneActiveInvitation
PROPERTIES
    KeepsContract
    PendingLapses
CHECK_DEADLOCK FALSE
