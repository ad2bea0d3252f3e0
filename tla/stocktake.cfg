CONSTANTS
    shop = shop
    depot = depot
    mug = mug
    jar = jar
    calm = calm
    busy = busy
    next = next
    a1 = a1
    a2 = a2
    b1 = b1
    b2 = b2
    b3 = b3
    NoWorker = NoWorker
    NoKey = NoKey
    NoSession = NoSession
    NoSlip = NoSlip
    Locations = {shop, depot}
    Products = {mug, jar}
    Opening <- MCOpening
    Stocked <- MCStocked
    Adjustments <- Moves
    Workers = {w1, w2}
    Sessions = {calm, busy, next}
    Open = {calm, busy}
    SiteOf <- MCSiteOf
    Slips = {a1, a2, b1, b2, b3}
    TakeOf <- MCTakeOf
    ProductOf <- MCProductOf
    Snapshot <- MCSnapshot
    Batches <- MCBatches
    Corrections = {1}
    Careful = {calm, next}
    MaxRequests = 3
SPECIFICATION Spec
INVARIANTS
    StocktakeTypeOK
PROPERTIES
    LifecycleKept
    CountsLand
    MovesExplainDrift
    EveryRequestFinishes
\* Clients may stop after MaxRequests requests.
CHECK_DEADLOCK FALSE
