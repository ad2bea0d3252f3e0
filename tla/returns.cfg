CONSTANTS
    bin = bin
    floor = floor
    mug = mug
    NoWorker = NoWorker
    NoKey = NoKey
    NoReturn = NoReturn
    NoLocation = NoLocation
    Locations = {bin, floor}
    Products = {mug}
    Opening <- MCOpening
    Stocked <- MCStocked
    Workers = {w1, w2}
    Returns = {r1, r2}
    Quantities = {2}
    Adjustments <- Loss
    MaxRequests = 4
SPECIFICATION Spec
INVARIANTS
    ReturnTypeOK
    TurnsResolveOnce
    RestocksExplainDrift
PROPERTIES
    EveryRequestFinishes
\* Clients may stop after MaxRequests requests.
CHECK_DEADLOCK FALSE
