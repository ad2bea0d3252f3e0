CONSTANTS
    alice = alice
    bob = bob
    tea = tea
    rent = rent
    gift = gift
    Workers = {w1, w2}
    NoWorker = NoWorker
    Accounts = {alice, bob}
    NoAccount = NoAccount
    Rank <- MCRank
    Opened = {alice, bob}
    Funding <- MCFunding
    Amounts = {2}
    MaxRequests = 4
    Keys = {tea, rent, gift}
    NoKey = NoKey
    Order <- MCOrder
    Careful = {tea}
    MaxAttempts = 4
SPECIFICATION ShopSpec
INVARIANTS
    RetriesPayOnce
    AnswersArePaid
PROPERTIES
    MarksGoAway
    EveryAttemptAnswered
\* Clients may stop after MaxAttempts attempts.
CHECK_DEADLOCK FALSE
