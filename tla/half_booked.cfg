CONSTANTS
    bin = bin
    floor = floor
    mug = mug
    NoWorker = NoWorker
    NoKey = NoKey
    NoReturn = NoReturn
    NoLocation = NoLocation
    Locations = {bin, floor}
    Products = {mug}
    Opening <- MCOpening
    Stocked <- MCStocked
    Workers = {w1, w2}
    Returns = {r1, r2}
    Quantities = {1}
    Adjustments <- Loss
    MaxRequests = 2
SPECIFICATION Spec
INVARIANT StockMatchesLedger
\* Clients may stop after MaxRequests requests.
CHECK_DEADLOCK FALSE
