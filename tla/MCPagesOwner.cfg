\* A PC with a bond to a PC of another account.
SPECIFICATION Spec
CONSTANTS
    None = None
    Campaigns = {c1}
    Users = {u1, u2}
    Pcs = {p1, p2}
    Items = {i1}
    ItemRows <- ArmorRows
    BaseSheet <- Bare
    Samples <- SomeSheets
PROPERTY
    OwnerOpensOwnPc
CHECK_DEADLOCK FALSE
