\* Three records, up to three a batch, of a size that fits the output bound
\* twice or not at all.
CONSTANTS
    MaxLog = 3
    MaxRead = 3
    MaxOutput = 2
    Sizes = {1, 3}
SPECIFICATION FairSpec
INVARIANTS
    NoRecordSkipped
    DeliveredInOrder
    CaughtUpIsHonest
PROPERTIES
    FollowerReachesTail
