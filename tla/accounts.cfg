CONSTANTS
    alice = alice
    bob = bob
    carol = carol
    Workers = {w1, w2, w3}
    NoWorker = NoWorker
    Accounts = {alice, bob, carol}
    NoAccount = NoAccount
    Rank <- MCRank
    Opened = {alice, bob}
    Funding <- MCFunding
    Amounts = {2}
    MaxRequests = 3
    Genesis = 0
SPECIFICATION ChainSpec
INVARIANTS
    ChainTypeOK
    NeverOverdrawn
    ChainIsRooted
    ForksComeFromOverlap
PROPERTIES
    BankKept
    EveryTransferAnswered
\* Clients may stop after MaxRequests transfers.
CHECK_DEADLOCK FALSE
