\* The shipped child again, asked what the crate's test asks of it.
CONSTANTS
    Calls = {c1}
    MaxCalls = 1
    MaxConcurrent = 1
    MaxTrace = 2
    Workers = 1
SPECIFICATION FairSpec
PROPERTIES
    Terminates
