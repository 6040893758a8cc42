\* Two campaigns, two accounts, two PCs and an armor that is edited.
SPECIFICATION Spec
CONSTANTS
    None = None
    Campaigns = {c1, c2}
    Users = {u1, u2}
    Pcs = {p1, p2}
    Items = {i1}
    ItemRows <- ArmorRows
    BaseSheet <- Bare
    Samples <- SomeSheets
SYMMETRY Symmetry
INVARIANTS
    TypeOK
    NothingOfTheDeleted
    ListsAgree
    StatsBehave
CHECK_DEADLOCK FALSE
