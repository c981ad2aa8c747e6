\* Two requests and one permit: a request waits for the other's container, pool
\* and child, any of which may fail, hang or be dropped.
CONSTANTS
    Requests = {r1, r2}
    MaxExecutors = 1
SPECIFICATION FairSpec
INVARIANTS
    ChildHasItsEndpoint
PROPERTIES
    ImplementsParts
    EveryCallIsAnswered
    CancelledIsStopped
