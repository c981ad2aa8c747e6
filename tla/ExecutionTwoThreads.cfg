\* The multi-thread runtime of the crate's tests.
CONSTANTS
    Calls = {c1, c2}
    MaxCalls = 1
    MaxConcurrent = 1
    MaxTrace = 2
    Workers = 2
SPECIFICATION FairSpec
INVARIANTS
    TerminatedNeverReported
PROPERTIES
    Terminates
