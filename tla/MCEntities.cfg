\* Every kind of entity, two campaigns with a master each, one id, two requests.
SPECIFICATION Spec
CONSTANTS
    None = None
    m = m
    w = w
    c1 = c1
    c2 = c2
    Users = {m, w}
    Campaigns = {c1, c2}
    Entities = {e1}
    MasterOf <- TwoMasters
    KindAssignments <- OneKind
    Requests = {r1, r2}
    Operations <- AllOperations
SYMMETRY Symmetry
INVARIANTS
    TypeOK
    NothingOfDeletedCampaigns
    GlobalListIsEarned
    EditsStayInCampaign
    HiddenStaysHidden
    HomeStatsMatchLists
CHECK_DEADLOCK FALSE
