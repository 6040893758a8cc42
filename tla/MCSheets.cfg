\* Each kind of owner in turn: one owner, two parts, two requests, one PC.
SPECIFICATION ReadSpec
CONSTANTS
    None = None
    a = a
    b = b
    Owners = {o1}
    Parts = {a, b}
    Spells = {a}
    Pcs = {pc1}
    Requests = {r1, r2}
    MaxId = 4
    Readers = {g1}
    Includes <- SomeIncludes
    TableOf <- SomeTables
    KindAssignments <- OneKind
    Bodies <- SomeBodies
    Operations <- AllOperations
SYMMETRY Symmetry
INVARIANTS
    TypeOK
    LearnedSpellsExist
    AnsweredIsStored
    PagesMissNothing
    PagesFailOnlyInRaces
PROPERTY
    KeepsRelations
CHECK_DEADLOCK FALSE
