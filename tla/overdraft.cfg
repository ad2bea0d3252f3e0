CONSTANTS
    warehouse = warehouse
    store = store
    apple = apple
    pear = pear
    t1 = t1
    t2 = t2
    i1 = i1
    i2 = i2
    i3 = i3
    i4 = i4
    NoWorker = NoWorker
    NoKey = NoKey
    NoTransfer = NoTransfer
    Locations = {warehouse, store}
    Opening <- MCOpening
    Stocked <- MCStocked
    SourceOf <- FromWarehouse
    DestOf <- ToStore
    Workers = {w1, w2}
    Products = {apple, pear}
    Transfers = {t1, t2}
    Items = {i1, i2, i3, i4}
    TransferOf <- MCTransferOf
    ProductOf <- MCProductOf
    Scans <- MCScans
    Adjustments <- None
    MaxRequests = 3
SPECIFICATION Spec
PROPERTIES
    DispatchNeverOverdraws
\* Clients may stop after MaxRequests requests.
CHECK_DEADLOCK FALSE
