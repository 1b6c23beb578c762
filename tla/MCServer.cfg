SPECIFICATION ServerSpec
CONSTANTS
    Lots = {l1}
    Suppliers = {s1}
    SupplierOf <- OneSupplier
    Clients = {c1, c2}
    PlanNos = {c1, c2, p0}
    NoPlan = NoPlan
    NoClient = NoClient
    Stored <- WithOrWithoutPlan
    Kinds = {"plan", "detail"}
    Targets = {}
    Batches = {}
    MaxTries = 1
    MaxFaults = 1
INVARIANTS
    ServerTypeOK
    DrainedServerIsIdle
    DbOutlivesScheduler
PROPERTIES
    SignalEndsProcess
    EveryRequestEnds
CHECK_DEADLOCK FALSE
