\* A basin and two streams, compared two at a time under a budget of one or
\* two items, with one failure or change by another client at any moment.
CONSTANTS
    Streams = 2
    Varied = {"retention_policy", "mode", "uncapped", "stream_cipher", "create_stream_on_append"}
    MaxPage = 2
    MaxResources = 2
    MaxItems = 2
    MaxDisturbances = 1
SPECIFICATION FairSpec
INVARIANTS
    TypeOK
    ReportIsHonest
    DoneIsReconciled
PROPERTIES
    OnlyReportedChange
    Converges
