CONSTANTS
    store = store
    apple = apple
    pear = pear
    calm = calm
    busy = busy
    f1 = f1
    f2 = f2
    g1 = g1
    g2 = g2
    a1 = a1
    b1 = b1
    c1 = c1
    c2 = c2
    d1 = d1
    NoWorker = NoWorker
    NoKey = NoKey
    NoOrder = NoOrder
    NoForm = NoForm
    Locations = {store}
    Products = {apple, pear}
    Opening <- MCOpening
    Stocked <- MCStocked
    ProductOf <- MCProductOf
    Ordered <- MCOrdered
    DestOf <- ToStore
    Adjustments <- None
    Workers = {w1, w2}
    Orders = {busy}
    Forms = {g1}
    OrderOf <- BusyOf
    Items = {c1, c2}
    FormOf <- OneForm
    Scans <- SplitScans
    Careful = {}
    MaxRequests = 3
SPECIFICATION Spec
INVARIANTS
    PartialIsPartial
\* Clients may stop after MaxRequests requests.
CHECK_DEADLOCK FALSE
