SPECIFICATION RequestSpec
CONSTANTS
    Lots = {l1}
    Suppliers = {s1}
    SupplierOf <- OneSupplier
    Clients = {c1, c2}
    PlanNos = {c1, c2, p0}
    NoPlan = NoPlan
    NoClient = NoClient
    Stored <- EarlierRows
    Kinds = {"supplier", "register", "plan", "move", "batch", "reject_retest", "detail", "list"}
    Targets = {"retesting", "judged"}
    Batches <- TwiceTheSame
    MaxTries = 2
    MaxFaults = 1
INVARIANTS
    RequestTypeOK
    CommittedRowsAreWhole
    RepliesAreTrue
    RetriesAreSafe
    ReadersAreNotBehind
PROPERTIES
    DecisionsOnCurrentRows
    ImplementsAtomicStore
SYMMETRY Symmetry
CHECK_DEADLOCK FALSE
