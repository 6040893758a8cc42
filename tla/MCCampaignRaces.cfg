CONSTANTS
    m = m
    p = p
    q = q
    c1 = c1
    c2 = c2
    Users = {m, p, q}
    SuperUsers = {}
    Admin = Admin
    Campaigns = {c1}
    Invitations = {i1}
    Requests = {r1, r2}
    TTL = 1
    MasterLimit = 5
    FirstMaster <- OneCampaign
    Operations <- InvitationOperations
    Never = Never
    None = None
SPECIFICATION Spec
SYMMETRY Symmetry
INVARIANTS
    TypeOK
    ReferentialIntegrity
    AcceptedHasJoined
    JoinedWasOffered
    InviterWasMaster
    ListsTellTheTruth
CHECK_DEADLOCK FALSE
