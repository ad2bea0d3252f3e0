CONSTANTS
    Requests = {r1, r2, r3, r4}
    Connections = {c1, c2}
    Nobody = Nobody
SPECIFICATION Spec
INVARIANTS
    NothingLeaks
    OnlyNestingStalls
PROPERTIES
    EveryRequestAnswered
    ShutdownEnds
\* The process ends after a signal.
CHECK_DEADLOCK FALSE
