\* Every policy over two basins; requests that name up to two resources; a
\* query that matches a write, a destructive and an account operation, or the
\* empty query, followed through one restart.
CONSTANTS
    Basins = {b1, b2}
    MaxResources = 2
    Searched = {"append_records", "delete_stream", "list_basins"}
    MaxRank = 2
    Sizes = {1, 3}
    MaxBytes = 3
    Limits = {1, 25}
    MaxRestarts = 1
SPECIFICATION CatalogSpec
INVARIANTS
    PolicyLimitsEffects
    AdvertisedIsAccepted
    SearchIsComplete
    PageFits
