\* A monster's spell that a PC has learned.
SPECIFICATION ReadSpec
CONSTANTS
    None = None
    a = a
    b = b
    Owners = {o1}
    Parts = {a, b}
    Spells = {a}
    Pcs = {pc1}
    Requests = {r1, r2}
    MaxId = 4
    Readers = {g1}
    Includes <- SomeIncludes
    TableOf <- SomeTables
    KindAssignments <- Monster
    Bodies <- SomeBodies
    Operations <- AllOperations
SYMMETRY Symmetry
PROPERTY
    LearnedIsKept
CHECK_DEADLOCK FALSE
