CONSTANTS
    store = store
    apple = apple
    pear = pear
    calm = calm
    busy = busy
    f1 = f1
    f2 = f2
    g1 = g1
    g2 = g2
    a1 = a1
    b1 = b1
    c1 = c1
    c2 = c2
    d1 = d1
    NoWorker = NoWorker
    NoKey = NoKey
    NoOrder = NoOrder
    NoForm = NoForm
    Locations = {store}
    Products = {apple, pear}
    Opening <- MCOpening
    Stocked <- MCStocked
    ProductOf <- MCProductOf
    Ordered <- MCOrdered
    DestOf <- ToStore
    Adjustments <- None
    Workers = {w1, w2}
    Orders = {calm, busy}
    Forms = {f1, f2, g1, g2}
    OrderOf <- MCOrderOf
    Items = {a1, b1, c1, c2, d1}
    FormOf <- MCFormOf
    Scans <- MCScans
    Careful = {calm}
    MaxRequests = 4
SPECIFICATION Spec
INVARIANTS
    PurchaseTypeOK
    CountsAreBooked
    LinesMatchReceipts
    EditsReplace
PROPERTIES
    LifecycleKept
    EveryRequestFinishes
\* Clients may stop after MaxRequests requests.
CHECK_DEADLOCK FALSE
